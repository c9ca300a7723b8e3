--------------------------- MODULE QuotaBudgetProofs ---------------------------
(***************************************************************************)
(* Proofs about QuotaBudget.  The counts are sums over sessions and days,  *)
(* so the first part proves what the folds behind them compute: a fold     *)
(* over a finite set exists and is unique, and a sum does not depend on    *)
(* the order in which its elements are taken.  The second part follows the *)
(* searches from step to step, and the third bounds what the sessions may  *)
(* send without seeing each other.                                         *)
(***************************************************************************)
EXTENDS QuotaBudget, FiniteSetTheorems, WellFoundedInduction, TLAPS

(* Finite sets by their smaller subsets.                                   *)

\* A set of numbers has a least one.
LEMMA LeastNumber ==
  ASSUME NEW T, T \subseteq Nat, T # {}
  PROVE  \E n \in T : \A m \in T : n <= m
<1>1. PICK n \in T : \A m \in T : ~ (<<m, n>> \in OpToRel(<, Nat))
  BY NatLessThanWellFounded, WFMin
<1>2. \A m \in T : ~ (m < n)
  BY <1>1 DEF OpToRel
<1> QED
  BY <1>2

\* What is true of a set when it is true of its proper subsets is true of
\* every finite set; the property is given as the set of its instances.
LEMMA SubsetInduction ==
  ASSUME NEW S, IsFiniteSet(S), NEW Good,
         \A T \in SUBSET S : (\A U \in SUBSET T : U # T => U \in Good) => T \in Good
  PROVE  S \in Good
<1> SUFFICES ASSUME S \notin Good
             PROVE  FALSE
  OBVIOUS
<1> DEFINE Bad == {T \in SUBSET S : T \notin Good}
           Sizes == {Cardinality(T) : T \in Bad}
<1>1. \A T \in Bad : IsFiniteSet(T) /\ Cardinality(T) \in Nat
  BY FS_Subset, FS_CardinalityType
<1>2. Sizes \subseteq Nat /\ Sizes # {}
  BY <1>1
<1> HIDE DEF Sizes
<1>3. PICK n \in Sizes : \A m \in Sizes : n <= m
  BY <1>2, LeastNumber
<1>4. PICK T \in Bad : n = Cardinality(T)
  BY <1>3 DEF Sizes
<1>5. ASSUME NEW U \in SUBSET T, U # T
      PROVE  U \in Good
  <2>1. Cardinality(U) < Cardinality(T)
    <3>1. IsFiniteSet(T)
      BY <1>1, <1>4
    <3> QED
      BY <3>1, <1>5, FS_Subset, FS_CardinalityType
  <2>2. SUFFICES ASSUME U \notin Good
                 PROVE  FALSE
    OBVIOUS
  <2>3. Cardinality(U) \in Sizes
    BY <1>4, <2>2 DEF Sizes
  <2>4. Cardinality(U) \in Nat /\ Cardinality(T) \in Nat
    BY <2>3, <1>2, <1>1
  <2> QED
    BY <1>3, <1>4, <2>1, <2>3, <2>4
<1> QED
  BY <1>4, <1>5

--------------------------------------------------------------------------------
(* Sums.                                                                   *)

\* FoldSet takes the elements one by one, in an order of its choice.
Pick(s) == CHOOSE x \in s : TRUE

Step(g, f, S) ==
  [s \in SUBSET S |-> IF s = {} THEN 0 ELSE g[s \ {Pick(s)}] + f[Pick(s)]]

\* The element picked is one of the set.
LEMMA Picked == ASSUME NEW s, s # {} PROVE Pick(s) \in s
BY DEF Pick

\* g is the fold on the subsets of at most n elements.
Upto(g, f, S, n) ==
  /\ g = [s \in SUBSET S |-> g[s]]
  /\ \A s \in SUBSET S : Cardinality(s) <= n => g[s] = Step(g, f, S)[s]

\* The recursion of the fold has a solution: one for n elements gives one for
\* n + 1.
LEMMA FoldExists ==
  ASSUME NEW S, IsFiniteSet(S), NEW f
  PROVE  \E g : g = Step(g, f, S)
<1>0. \A s \in SUBSET S : IsFiniteSet(s) /\ Cardinality(s) \in Nat /\ Cardinality(s) <= Cardinality(S)
  BY FS_Subset, FS_CardinalityType
<1> DEFINE Far == {n \in Nat : ~ \E g : Upto(g, f, S, n)}
<1>1. Far = {}
  <2> SUFFICES ASSUME Far # {}
               PROVE  FALSE
    OBVIOUS
  <2>1. PICK n \in Far : \A m \in Far : n <= m
    <3> Far \subseteq Nat
      OBVIOUS
    <3> HIDE DEF Far
    <3> QED
      BY LeastNumber
  <2>2. CASE n = 0
    <3> DEFINE g == [s \in SUBSET S |-> 0]
    <3>1. \A s \in SUBSET S : Cardinality(s) <= n => s = {}
      BY <1>0, <2>2, FS_EmptySet
    <3>2. Upto(g, f, S, n)
      BY <3>1 DEF Upto, Step
    <3> QED
      BY <3>2, <2>1
  <2>3. CASE n # 0
    <3>1. n - 1 \in Nat /\ ~ (n <= n - 1) /\ n \in Nat
      BY <2>1, <2>3
    <3>2. PICK g : Upto(g, f, S, n - 1)
      BY <2>1, <3>1
    <3> DEFINE h == Step(g, f, S)
    <3>3. ASSUME NEW s \in SUBSET S, Cardinality(s) <= n
          PROVE  h[s] = Step(h, f, S)[s]
      <4>1. CASE s = {}
        BY <4>1 DEF Step
      <4>2. CASE s # {}
        <5> DEFINE x == Pick(s)
        <5>1. x \in s
          BY <4>2, Picked
        <5> HIDE DEF x
        <5>2. Cardinality(s \ {x}) = Cardinality(s) - 1 /\ s \ {x} \in SUBSET S
          BY <5>1, <1>0, FS_RemoveElement
        <5>3. Cardinality(s \ {x}) <= n - 1
          BY <5>2, <1>0, <3>1, <3>3
        <5>4. g[s \ {x}] = h[s \ {x}]
          BY <5>2, <5>3, <3>2 DEF Upto
        <5> QED
          BY <4>2, <5>4 DEF Step, x
      <4> QED
        BY <4>1, <4>2
    <3>4. h = [s \in SUBSET S |-> h[s]]
      BY DEF Step
    <3>5. Upto(h, f, S, n)
      BY <3>3, <3>4 DEF Upto
    <3> QED
      BY <3>5, <2>1
  <2> QED
    BY <2>2, <2>3
<1>2. Cardinality(S) \in Nat
  BY <1>0
<1>3. PICK g : Upto(g, f, S, Cardinality(S))
  BY <1>1, <1>2
<1>4. \A s \in SUBSET S : g[s] = Step(g, f, S)[s]
  BY <1>0, <1>3 DEF Upto
<1>5. g = [s \in SUBSET S |-> g[s]]
  BY <1>3 DEF Upto
<1>6. g = [s \in SUBSET S |-> Step(g, f, S)[s]]
  BY <1>4, <1>5
<1>7. Step(g, f, S) = [s \in SUBSET S |-> Step(g, f, S)[s]]
  BY DEF Step
<1> QED
  BY <1>6, <1>7

\* The sum is that solution's value.
LEMMA SumIsFold ==
  ASSUME NEW S, IsFiniteSet(S), NEW f
  PROVE  \E g : g = Step(g, f, S) /\ SumOver(f, S) = g[S]
<1>1. SumOver(f, S) = (CHOOSE g : g = Step(g, f, S))[S]
  BY DEF SumOver, FoldSet, MapThenFoldSet, Step, Pick
<1> QED
  BY <1>1, FoldExists

\* A fold over a subset computes what the fold over the whole set does there.
LEMMA FoldUnique ==
  ASSUME NEW S, IsFiniteSet(S), NEW f, NEW g, g = Step(g, f, S),
         NEW T \in SUBSET S, NEW h, h = Step(h, f, T)
  PROVE  g[T] = h[T]
<1> DEFINE Good == {s \in SUBSET T : g[s] = h[s]}
<1>1. ASSUME NEW s \in SUBSET T, \A U \in SUBSET s : U # s => U \in Good
      PROVE  s \in Good
  <2>1. CASE s = {}
    <3>1. g[s] = Step(g, f, S)[s] /\ h[s] = Step(h, f, T)[s]
      OBVIOUS
    <3> QED
      BY <2>1, <3>1 DEF Step
  <2>2. CASE s # {}
    <3> DEFINE x == Pick(s)
    <3>1. x \in s
      BY <2>2, Picked
    <3>2. g[s] = g[s \ {x}] + f[x]
      <4>1. g[s] = Step(g, f, S)[s]
        OBVIOUS
      <4> QED
        BY <2>2, <4>1 DEF Step
    <3>3. h[s] = h[s \ {x}] + f[x]
      <4>1. h[s] = Step(h, f, T)[s]
        OBVIOUS
      <4> QED
        BY <2>2, <4>1 DEF Step
    <3> HIDE DEF x
    <3>4. s \ {x} \in Good
      BY <3>1, <1>1
    <3> QED
      BY <3>2, <3>3, <3>4
  <2> QED
    BY <2>1, <2>2
<1>2. IsFiniteSet(T)
  BY FS_Subset
<1> HIDE DEF Good
<1>3. T \in Good
  BY <1>1, <1>2, SubsetInduction
<1> QED
  BY <1>3 DEF Good

\* The sum over no element.
LEMMA SumEmpty == ASSUME NEW f PROVE SumOver(f, {}) = 0
<1>1. PICK g : g = Step(g, f, {}) /\ SumOver(f, {}) = g[{}]
  BY SumIsFold, FS_EmptySet
<1>2. g[{}] = Step(g, f, {})[{}]
  BY <1>1
<1> QED
  BY <1>1, <1>2 DEF Step

\* The sum over a set is that over the rest, and the element picked.
LEMMA SumPick ==
  ASSUME NEW S, IsFiniteSet(S), S # {}, NEW f
  PROVE  SumOver(f, S) = SumOver(f, S \ {Pick(S)}) + f[Pick(S)]
<1> DEFINE x == Pick(S)
<1>1. PICK g : g = Step(g, f, S) /\ SumOver(f, S) = g[S]
  BY SumIsFold
<1>2. g[S] = g[S \ {x}] + f[x]
  <2>1. g[S] = Step(g, f, S)[S]
    BY <1>1
  <2> QED
    BY <2>1 DEF Step
<1> HIDE DEF x
<1>3. IsFiniteSet(S \ {x}) /\ S \ {x} \in SUBSET S
  BY FS_Subset
<1>4. PICK h : h = Step(h, f, S \ {x}) /\ SumOver(f, S \ {x}) = h[S \ {x}]
  BY <1>3, SumIsFold
<1>5. g[S \ {x}] = h[S \ {x}]
  BY <1>1, <1>3, <1>4, FoldUnique
<1> QED
  BY <1>1, <1>2, <1>4, <1>5 DEF x

\* Sums of integers are integers, sums of naturals are naturals.
LEMMA SumType ==
  ASSUME NEW S, IsFiniteSet(S), NEW f, NEW K, K = Int \/ K = Nat, \A x \in S : f[x] \in K
  PROVE  SumOver(f, S) \in K
<1> DEFINE Good == {T \in SUBSET S : SumOver(f, T) \in K}
<1>1. ASSUME NEW T \in SUBSET S, \A U \in SUBSET T : U # T => U \in Good
      PROVE  T \in Good
  <2>1. CASE T = {}
    BY <2>1, SumEmpty
  <2>2. CASE T # {}
    <3>1. PICK x \in T : SumOver(f, T) = SumOver(f, T \ {x}) + f[x]
      BY <2>2, SumPick, Picked, FS_Subset
    <3>2. SumOver(f, T \ {x}) \in K /\ f[x] \in K
      BY <1>1
    <3> QED
      BY <3>1, <3>2
  <2> QED
    BY <2>1, <2>2
<1> HIDE DEF Good
<1>2. S \in Good
  BY <1>1, SubsetInduction
<1> QED
  BY <1>2 DEF Good

\* A sum may be taken in any order: any element may come last.
LEMMA SumRemove ==
  ASSUME NEW S, IsFiniteSet(S), NEW f, \A x \in S : f[x] \in Int, NEW a \in S
  PROVE  SumOver(f, S) = SumOver(f, S \ {a}) + f[a]
<1> DEFINE Good == {T \in SUBSET S : \A b \in T : SumOver(f, T) = SumOver(f, T \ {b}) + f[b]}
<1>1. ASSUME NEW T \in SUBSET S, \A U \in SUBSET T : U # T => U \in Good
      PROVE  T \in Good
  <2> SUFFICES ASSUME NEW b \in T
               PROVE  SumOver(f, T) = SumOver(f, T \ {b}) + f[b]
    OBVIOUS
  <2>1. PICK x \in T : SumOver(f, T) = SumOver(f, T \ {x}) + f[x]
    BY SumPick, Picked, FS_Subset
  <2>2. CASE x # b
    <3>1. T \ {x} \in Good /\ T \ {b} \in Good
      BY <1>1
    <3>2. SumOver(f, T \ {x}) = SumOver(f, (T \ {x}) \ {b}) + f[b]
      BY <2>2, <3>1
    <3>3. SumOver(f, T \ {b}) = SumOver(f, (T \ {b}) \ {x}) + f[x]
      BY <2>2, <3>1
    <3>4. (T \ {x}) \ {b} = (T \ {b}) \ {x}
      OBVIOUS
    <3> DEFINE rest == SumOver(f, (T \ {b}) \ {x})
    <3>5. rest \in Int
      <4>1. IsFiniteSet((T \ {b}) \ {x}) /\ \A y \in (T \ {b}) \ {x} : f[y] \in Int
        BY FS_Subset
      <4> QED
        BY <4>1, SumType
    <3>6. SumOver(f, T \ {x}) = rest + f[b] /\ SumOver(f, T \ {b}) = rest + f[x]
      BY <3>2, <3>3, <3>4
    <3> HIDE DEF rest
    <3>7. f[b] \in Int /\ f[x] \in Int
      OBVIOUS
    <3>8. SumOver(f, T) = (rest + f[b]) + f[x]
      BY <2>1, <3>6
    <3>9. SumOver(f, T \ {b}) + f[b] = (rest + f[x]) + f[b]
      BY <3>6
    <3>10. (rest + f[b]) + f[x] = (rest + f[x]) + f[b]
      BY <3>5, <3>7
    <3> QED
      BY <3>8, <3>9, <3>10
  <2>3. CASE x = b
    BY <2>1, <2>3
  <2> QED
    BY <2>2, <2>3
<1> HIDE DEF Good
<1>2. S \in Good
  BY <1>1, SubsetInduction
<1> QED
  BY <1>2 DEF Good

\* Equal summands, equal sums.
LEMMA SumEqual ==
  ASSUME NEW S, IsFiniteSet(S), NEW f, NEW g, \A x \in S : f[x] = g[x]
  PROVE  SumOver(f, S) = SumOver(g, S)
<1> DEFINE Good == {T \in SUBSET S : SumOver(f, T) = SumOver(g, T)}
<1>1. ASSUME NEW T \in SUBSET S, \A U \in SUBSET T : U # T => U \in Good
      PROVE  T \in Good
  <2>1. CASE T = {}
    BY <2>1, SumEmpty
  <2>2. CASE T # {}
    <3> DEFINE x == Pick(T)
    <3>1. SumOver(f, T) = SumOver(f, T \ {x}) + f[x] /\ SumOver(g, T) = SumOver(g, T \ {x}) + g[x]
      BY <2>2, SumPick, FS_Subset
    <3>2. x \in T
      BY <2>2, Picked
    <3> HIDE DEF x
    <3>3. SumOver(f, T \ {x}) = SumOver(g, T \ {x}) /\ f[x] = g[x]
      BY <1>1, <3>2
    <3> QED
      BY <3>1, <3>3
  <2> QED
    BY <2>1, <2>2
<1> HIDE DEF Good
<1>2. S \in Good
  BY <1>1, SubsetInduction
<1> QED
  BY <1>2 DEF Good

\* A sum of which one summand changes.
LEMMA SumChange ==
  ASSUME NEW S, IsFiniteSet(S), NEW f, NEW g, NEW a \in S,
         \A x \in S : f[x] \in Int /\ g[x] \in Int,
         \A x \in S \ {a} : f[x] = g[x]
  PROVE  SumOver(g, S) = SumOver(f, S) - f[a] + g[a]
<1>1. SumOver(f, S) = SumOver(f, S \ {a}) + f[a] /\ SumOver(g, S) = SumOver(g, S \ {a}) + g[a]
  BY SumRemove
<1>2. IsFiniteSet(S \ {a})
  BY FS_Subset
<1>3. SumOver(f, S \ {a}) = SumOver(g, S \ {a})
  BY <1>2, SumEqual
<1>4. SumOver(f, S \ {a}) \in Int /\ f[a] \in Int /\ g[a] \in Int
  BY <1>2, SumType
<1> QED
  BY <1>1, <1>3, <1>4

\* A sum of sums.
LEMMA SumAdd ==
  ASSUME NEW S, IsFiniteSet(S), NEW f, NEW g, NEW h,
         \A x \in S : f[x] \in Int /\ g[x] \in Int /\ h[x] = f[x] + g[x]
  PROVE  SumOver(h, S) = SumOver(f, S) + SumOver(g, S)
<1> DEFINE Good == {T \in SUBSET S : SumOver(h, T) = SumOver(f, T) + SumOver(g, T)}
<1>1. ASSUME NEW T \in SUBSET S, \A U \in SUBSET T : U # T => U \in Good
      PROVE  T \in Good
  <2>1. CASE T = {}
    BY <2>1, SumEmpty
  <2>2. CASE T # {}
    <3> DEFINE x == Pick(T)
    <3>1. /\ SumOver(f, T) = SumOver(f, T \ {x}) + f[x]
          /\ SumOver(g, T) = SumOver(g, T \ {x}) + g[x]
          /\ SumOver(h, T) = SumOver(h, T \ {x}) + h[x]
      BY <2>2, SumPick, FS_Subset
    <3>2. x \in T
      BY <2>2, Picked
    <3> HIDE DEF x
    <3>3. SumOver(h, T \ {x}) = SumOver(f, T \ {x}) + SumOver(g, T \ {x})
      BY <1>1, <3>2
    <3>4. IsFiniteSet(T \ {x}) /\ \A y \in T \ {x} : f[y] \in Int /\ g[y] \in Int
      BY FS_Subset
    <3>5. SumOver(f, T \ {x}) \in Int /\ SumOver(g, T \ {x}) \in Int
      BY <3>4, SumType
    <3>6. f[x] \in Int /\ g[x] \in Int /\ h[x] = f[x] + g[x]
      BY <3>2
    <3>7. SumOver(h, T) = SumOver(f, T) + SumOver(g, T)
      BY <3>1, <3>3, <3>5, <3>6
    <3> QED
      BY <3>7
  <2> QED
    BY <2>1, <2>2
<1> HIDE DEF Good
<1>2. S \in Good
  BY <1>1, SubsetInduction
<1> QED
  BY <1>2 DEF Good

\* A bound for every summand bounds the sum.
LEMMA SumBounded ==
  ASSUME NEW S, IsFiniteSet(S), NEW f, NEW k \in Nat, \A x \in S : f[x] \in Int /\ f[x] <= k
  PROVE  SumOver(f, S) <= Cardinality(S) * k
<1> DEFINE Good == {T \in SUBSET S : SumOver(f, T) <= Cardinality(T) * k}
<1>1. ASSUME NEW T \in SUBSET S, \A U \in SUBSET T : U # T => U \in Good
      PROVE  T \in Good
  <2>1. CASE T = {}
    BY <2>1, SumEmpty, FS_EmptySet
  <2>2. CASE T # {}
    <3> DEFINE x == Pick(T)
    <3>1. SumOver(f, T) = SumOver(f, T \ {x}) + f[x]
      BY <2>2, SumPick, FS_Subset
    <3>2. x \in T
      BY <2>2, Picked
    <3> HIDE DEF x
    <3>3. SumOver(f, T \ {x}) <= Cardinality(T \ {x}) * k
      BY <1>1, <3>2
    <3>4. IsFiniteSet(T) /\ IsFiniteSet(T \ {x}) /\ \A y \in T \ {x} : f[y] \in Int
      BY FS_Subset
    <3>5. SumOver(f, T \ {x}) \in Int
      BY <3>4, SumType
    <3>6. Cardinality(T \ {x}) = Cardinality(T) - 1 /\ Cardinality(T) \in Nat
      BY <3>2, <3>4, FS_RemoveElement, FS_CardinalityType
    <3>7. f[x] \in Int /\ f[x] <= k
      BY <3>2
    <3>8. (Cardinality(T) - 1) * k + k = Cardinality(T) * k
      BY <3>6
    <3>9. (Cardinality(T) - 1) * k \in Int
      BY <3>6
    <3> QED
      BY <3>1, <3>3, <3>5, <3>6, <3>7, <3>8, <3>9
  <2> QED
    BY <2>1, <2>2
<1> HIDE DEF Good
<1>2. S \in Good
  BY <1>1, SubsetInduction
<1> QED
  BY <1>2 DEF Good

--------------------------------------------------------------------------------
(* The inductive invariant. *)

\* The rows two sessions hold are different ones, a session that is off or
\* resolves holds none, and a row held has only grown.
BooksInv ==
  /\ \A s, t \in Sessions : s # t => DOMAIN draft[s] \cap DOMAIN draft[t] = {}
  /\ \A s \in Sessions : \A d \in DOMAIN draft[s] : quota[d].calls <= draft[s][d].calls
  /\ \A s \in Sessions : At(s, "off") => DOMAIN draft[s] = {}
  /\ \A s \in Sessions :
       At(s, "call") => session[s].day <= QuotaDay
                        /\ (session[s].kind = "resolve" => DOMAIN draft[s] = {})

\* A session has sent what it has not committed out of one allowance.
Ahead(s) ==
  IF At(s, "off") THEN 0 ELSE session[s].left + IF At(s, "call") THEN 1 ELSE 0
EffortInv == \A s \in Sessions, d \in Days : Unsaved(s, d) + Ahead(s) <= MaxOpen

\* Nothing is sent on a day before it comes, and today's searches are the
\* ones the books account for.
TodayInv ==
  /\ \A d \in Days : d > QuotaDay => spent[d] = 0
  /\ spent[QuotaDay] <= Accounted[QuotaDay]

\* What a discovery may still send without asking today's row.
Unchecked(s) ==
  IF ~At(s, "off") /\ session[s].kind = "discovery" /\ session[s].on # QuotaDay
  THEN session[s].left ELSE 0
UncheckedBy == [s \in Sessions |-> Unchecked(s)]

DiscoveryInv ==
  \A s \in Sessions :
    ~At(s, "off") /\ session[s].kind = "discovery"
    => DiscoveryEnabled /\ session[s].left <= MostQueries /\ session[s].on <= QuotaDay

StretchInv ==
  spent[QuotaDay] + SumOver(UncheckedBy, Sessions) <= Cap + lost[QuotaDay] + Overlap

CountInv == QuotaTypeOK /\ BooksInv /\ EffortInv /\ CallsAccounted /\ TodayInv

\* A sum of which one summand is shifted.
LEMMA SumShift ==
  ASSUME NEW S, IsFiniteSet(S), NEW f, NEW a \in S, NEW k \in Int, f = [x \in S |-> f[x]],
         \A x \in S : f[x] \in Int
  PROVE  SumOver([f EXCEPT ![a] = @ + k], S) = SumOver(f, S) + k
<1> DEFINE g == [f EXCEPT ![a] = @ + k]
<1>1. g[a] = f[a] + k /\ f[a] \in Int /\ \A x \in S \ {a} : f[x] = g[x]
  OBVIOUS
<1>2. \A x \in S : f[x] \in Int /\ g[x] \in Int
  BY <1>1
<1> HIDE DEF g
<1>3. SumOver(g, S) = SumOver(f, S) - f[a] + g[a]
  BY <1>1, <1>2, SumChange
<1>4. SumOver(f, S) \in Int
  BY SumType
<1> QED
  BY <1>1, <1>3, <1>4 DEF g

\* A sum of larger summands.
LEMMA SumGrows ==
  ASSUME NEW S, IsFiniteSet(S), NEW f, NEW g, \A x \in S : f[x] \in Nat /\ g[x] \in Nat /\ f[x] <= g[x]
  PROVE  SumOver(f, S) <= SumOver(g, S)
<1> DEFINE h == [x \in S |-> g[x] - f[x]]
<1>1. \A x \in S : h[x] \in Nat /\ h[x] \in Int /\ f[x] \in Int /\ g[x] = f[x] + h[x]
  OBVIOUS
<1> HIDE DEF h
<1>2. SumOver(g, S) = SumOver(f, S) + SumOver(h, S)
  BY <1>1, SumAdd
<1>3. SumOver(f, S) \in Nat /\ SumOver(h, S) \in Nat
  BY <1>1, SumType
<1> QED
  BY <1>2, <1>3

\* A sum of nothing but zeroes.
LEMMA SumOfNone ==
  ASSUME NEW S, IsFiniteSet(S)
  PROVE  SumOver([x \in S |-> 0], S) = 0
<1> DEFINE none == [x \in S |-> 0]
<1>1. \A x \in S : none[x] \in Nat /\ none[x] \in Int /\ none[x] <= 0
  OBVIOUS
<1> HIDE DEF none
<1>2. SumOver(none, S) \in Nat
  BY <1>1, SumType
<1>3. SumOver(none, S) <= Cardinality(S) * 0 /\ Cardinality(S) \in Nat
  BY <1>1, SumBounded, FS_CardinalityType
<1> QED
  BY <1>2, <1>3 DEF none

--------------------------------------------------------------------------------
(* Facts about the constants and about a state of the right type. *)

LEMMA DivisionGrows ==
  ASSUME NEW a \in Nat, NEW b \in Nat, a <= b, NEW n \in Nat \ {0}
  PROVE  a \div n \in Nat /\ a \div n <= b \div n
<1>1. a \div n \in Nat
  BY SMT
<1>2. a \div n <= b \div n
  BY SMT
<1> QED
  BY <1>1, <1>2

LEMMA ConstantFacts ==
  /\ IsFiniteSet(Days) /\ Days \subseteq Nat
  /\ IsFiniteSet(Requests) /\ IsFiniteSet(Sessions)
  /\ Collector \in Sessions /\ Requests \subseteq Sessions
  /\ MaxOpen \in Nat /\ 1 <= MaxOpen /\ MostQueries <= MaxOpen /\ Batch <= MaxOpen
  /\ MostQueries \in Nat /\ QueriesPerRun <= MostQueries /\ MaxQueries <= MostQueries
  /\ Cardinality(Requests) \in Nat /\ Overlap \in Nat
<1> DEFINE last == (MaxClock + Lead) \div DayLength
<1>1. last \in Nat
  BY QuotaAssumption, DivisionGrows
<1>2. Days = 0 .. last
  BY DEF Days
<1> HIDE DEF last
<1>3. IsFiniteSet(Days) /\ Days \subseteq Nat
  BY <1>1, <1>2, FS_Interval
<1>4. IsFiniteSet(Requests) /\ IsFiniteSet(Sessions)
  BY QuotaAssumption, FS_AddElement DEF Sessions
<1>5. /\ MaxOpen \in Nat /\ 1 <= MaxOpen /\ MostQueries <= MaxOpen /\ Batch <= MaxOpen
      /\ MostQueries \in Nat /\ QueriesPerRun <= MostQueries /\ MaxQueries <= MostQueries
  BY QuotaAssumption DEF MaxOpen, MostQueries
<1>6. Cardinality(Requests) \in Nat
  BY <1>4, FS_CardinalityType
<1> QED
  BY <1>3, <1>4, <1>5, <1>6 DEF Sessions, Overlap

LEMMA DayFacts ==
  ASSUME QuotaTypeOK
  PROVE  QuotaDay \in Days /\ UtcDay \in Days
<1>1. /\ clock \in Nat /\ clock <= MaxClock + Lead /\ clock + Lead \in Nat
      /\ clock + Lead <= MaxClock + Lead /\ MaxClock + Lead \in Nat /\ DayLength \in Nat \ {0}
  BY QuotaAssumption DEF QuotaTypeOK
<1> DEFINE last == (MaxClock + Lead) \div DayLength
<1>2. QuotaDay \in Nat /\ QuotaDay <= last
  BY <1>1, DivisionGrows DEF QuotaDay
<1>3. UtcDay \in Nat /\ UtcDay <= last
  BY <1>1, DivisionGrows DEF UtcDay
<1>4. last \in Nat
  BY <1>1, DivisionGrows
<1>5. Days = 0 .. last
  BY DEF Days
<1> QED
  BY <1>2, <1>3, <1>4, <1>5

\* For the state after a step.
LEMMA TodayIsADay == QuotaTypeOK => QuotaDay \in Days
BY DayFacts

LEMMA SessionFacts ==
  ASSUME QuotaTypeOK, NEW s \in Sessions
  PROVE  /\ session[s].at \in {"off", "ready", "call"}
         /\ session[s].at # "off" => /\ session[s].left \in 0 .. MaxOpen
                                     /\ session[s].on \in Days
                                     /\ session[s].near \in BOOLEAN
                                     /\ session[s].backlog \in BOOLEAN
         /\ session[s].at = "ready" => session[s].kind \in {"discovery", "jobs"}
         /\ session[s].at = "call" => /\ session[s].day \in Days
                                      /\ session[s].kind \in {"discovery", "jobs", "resolve"}
                                      /\ session[s].purpose \in Purposes \cup {"none"}
<1>1. session[s] \in {Off} \cup Ready \cup Calling
  BY DEF QuotaTypeOK
<1> QED
  BY <1>1 DEF Off, Ready, Calling

LEMMA SessionNumbers ==
  ASSUME QuotaTypeOK, NEW s \in Sessions, session[s].at # "off"
  PROVE  session[s].left \in Nat /\ session[s].on \in Nat
<1>1. session[s].left \in 0 .. MaxOpen /\ session[s].on \in Days
  BY SessionFacts
<1>2. session[s].left \in Nat
  BY <1>1, ConstantFacts
<1>3. session[s].on \in Nat
  BY <1>1, ConstantFacts
<1> QED
  BY <1>2, <1>3

LEMMA RowFacts ==
  ASSUME QuotaTypeOK, NEW s \in Sessions, NEW d \in Days
  PROVE  quota[d] \in Rows /\ quota[d].calls \in Nat /\ Seen(s, d) \in Rows /\ Seen(s, d).calls \in Nat
<1>1. quota[d] \in Rows
  BY DEF QuotaTypeOK
<1>2. Seen(s, d) \in Rows
  BY <1>1 DEF QuotaTypeOK, Seen
<1> QED
  BY <1>1, <1>2 DEF Rows

LEMMA ChargeFacts ==
  ASSUME NEW row \in Rows, NEW p
  PROVE  Charge(row, p) \in Rows /\ Charge(row, p).calls = row.calls + 1
BY DEF Rows, Charge

LEMMA UncommittedFacts ==
  ASSUME QuotaTypeOK, BooksInv, NEW s \in Sessions, NEW d \in Days
  PROVE  Unsaved(s, d) \in Nat /\ Awaited(s, d) \in Nat /\ Uncommitted(s, d) \in Nat
         /\ Uncommitted(s, d) \in Int
<1>1. ASSUME d \in DOMAIN draft[s]
      PROVE  draft[s][d].calls \in Nat /\ quota[d].calls <= draft[s][d].calls
  BY <1>1, RowFacts DEF BooksInv, Seen
<1>2. Unsaved(s, d) \in Nat
  BY <1>1, RowFacts DEF Unsaved
<1> QED
  BY <1>2 DEF Awaited, Uncommitted

--------------------------------------------------------------------------------
(* The types and the books, step by step. *)

\* One session goes on; what it becomes is a session, and holds rows only if
\* it may.
Becomes(s, rec) ==
  /\ session' = [session EXCEPT ![s] = rec]
  /\ rec \in {Off} \cup Ready \cup Calling
  /\ rec.at = "off" => DOMAIN draft'[s] = {}
  /\ rec.at = "call" => rec.day <= QuotaDay' /\ (rec.kind = "resolve" => DOMAIN draft'[s] = {})

LEMMA BecomesTyped ==
  ASSUME QuotaTypeOK, NEW s \in Sessions, NEW rec, Becomes(s, rec)
  PROVE  /\ session' \in [Sessions -> {Off} \cup Ready \cup Calling]
         /\ session'[s] = rec
         /\ \A t \in Sessions \ {s} : session'[t] = session[t]
BY DEF QuotaTypeOK, Becomes

\* A step that only moves sessions, and perhaps counts a search, keeps the types.
LEMMA TypeKept ==
  ASSUME QuotaTypeOK, session' \in [Sessions -> {Off} \cup Ready \cup Calling],
         UNCHANGED <<clock, books, hung, losses, lost>>,
         spent' = spent \/ spent' = [spent EXCEPT ![QuotaDay] = @ + 1]
  PROVE  QuotaTypeOK'
<1>1. spent' \in [Days -> Nat]
  BY DayFacts DEF QuotaTypeOK
<1>2. draft' = draft /\ quota' = quota
  BY DEF books
<1> QED
  BY <1>1, <1>2 DEF QuotaTypeOK

\* ... and the books.
LEMMA BooksKept ==
  ASSUME QuotaTypeOK, BooksInv, NEW s \in Sessions, NEW rec, Becomes(s, rec),
         UNCHANGED <<clock, books>>
  PROVE  BooksInv'
<1>1. draft' = draft /\ quota' = quota /\ QuotaDay' = QuotaDay
  BY DEF books, QuotaDay
<1>2. session'[s] = rec /\ \A t \in Sessions \ {s} : session'[t] = session[t]
  BY BecomesTyped
<1>3. ASSUME NEW t \in Sessions
      PROVE  /\ session'[t].at = "off" => DOMAIN draft'[t] = {}
             /\ session'[t].at = "call" => session'[t].day <= QuotaDay'
                                    /\ (session'[t].kind = "resolve" => DOMAIN draft'[t] = {})
  BY <1>1, <1>2 DEF BooksInv, Becomes, At
<1>4. /\ \A t, u \in Sessions : t # u => DOMAIN draft'[t] \cap DOMAIN draft'[u] = {}
      /\ \A t \in Sessions : \A d \in DOMAIN draft'[t] : quota'[d].calls <= draft'[t][d].calls
  BY <1>1 DEF BooksInv
<1> QED
  BY <1>3, <1>4 DEF BooksInv, At

LEMMA SendBecomes ==
  ASSUME QuotaTypeOK, BooksInv, NEW s \in Sessions,
         NEW kind \in {"discovery", "jobs", "resolve"}, NEW left \in 0 .. MaxOpen, NEW on \in Days,
         NEW near \in BOOLEAN, NEW backlog \in BOOLEAN, NEW purpose \in Purposes \cup {"none"},
         NEW ordinary \in BOOLEAN, kind = "resolve" => At(s, "off"),
         Send(s, kind, left, on, near, backlog, purpose, ordinary),
         UNCHANGED <<clock, books>>
  PROVE  Becomes(s, [at |-> "call", kind |-> kind, left |-> left, on |-> on, near |-> near,
                     backlog |-> backlog, purpose |-> purpose, ordinary |-> ordinary,
                     day |-> QuotaDay])
<1> DEFINE rec == [at |-> "call", kind |-> kind, left |-> left, on |-> on, near |-> near,
                   backlog |-> backlog, purpose |-> purpose, ordinary |-> ordinary,
                   day |-> QuotaDay]
<1>1. session' = [session EXCEPT ![s] = rec]
  BY DEF Send
<1>2. QuotaDay \in Days /\ QuotaDay' = QuotaDay /\ draft' = draft
  BY DayFacts DEF QuotaDay, books
<1>3. rec \in Calling
  BY <1>2 DEF Calling
<1>4. rec.at = "call" /\ rec.day = QuotaDay /\ rec.kind = kind
  OBVIOUS
<1>5. kind = "resolve" => DOMAIN draft'[s] = {}
  BY <1>2 DEF BooksInv
<1>6. QuotaDay <= QuotaDay
  BY <1>2, ConstantFacts
<1> QED
  BY <1>1, <1>2, <1>3, <1>4, <1>5, <1>6 DEF Becomes

LEMMA BeginBecomes ==
  ASSUME QuotaTypeOK, NEW s \in Sessions, NEW kind \in {"discovery", "jobs"},
         NEW left \in 0 .. MaxOpen, NEW backlog \in BOOLEAN, Begin(s, kind, left, backlog)
  PROVE  Becomes(s, [at |-> "ready", kind |-> kind, left |-> left, on |-> UtcDay,
                     near |-> NearReset, backlog |-> backlog])
<1> DEFINE rec == [at |-> "ready", kind |-> kind, left |-> left, on |-> UtcDay,
                   near |-> NearReset, backlog |-> backlog]
<1>1. session' = [session EXCEPT ![s] = rec]
  BY DEF Begin
<1>2. UtcDay \in Days /\ NearReset \in BOOLEAN
  BY DayFacts DEF NearReset
<1>3. rec \in Ready
  BY <1>2 DEF Ready
<1> QED
  BY <1>1, <1>3 DEF Becomes

\* The rows a session commits become the committed ones.
LEMMA CommitKept ==
  ASSUME QuotaTypeOK, BooksInv, NEW s \in Sessions, NEW rec,
         session' = [session EXCEPT ![s] = rec], rec \in {Off} \cup Ready,
         CommitBooks(s), UNCHANGED <<clock, hung, losses, history>>
  PROVE  /\ QuotaTypeOK' /\ BooksInv'
         /\ \A d \in Days : quota'[d].calls = quota[d].calls + Unsaved(s, d)
         /\ DOMAIN draft'[s] = {}
         /\ \A t \in Sessions \ {s} : draft'[t] = draft[t] /\ session'[t] = session[t]
         /\ \A t \in Sessions \ {s} : \A d \in DOMAIN draft[t] : quota'[d] = quota[d]
<1>1. /\ DOMAIN draft = Sessions /\ DOMAIN draft[s] \subseteq Days
      /\ draft[s] \in [DOMAIN draft[s] -> Rows] /\ quota \in [Days -> Rows]
  BY DEF QuotaTypeOK
<1>2. quota' = [d \in Days |-> IF d \in DOMAIN draft[s] THEN draft[s][d] ELSE quota[d]]
  BY DEF CommitBooks, Seen
<1>3. quota' \in [Days -> Rows]
  BY <1>1, <1>2
<1>4. DOMAIN draft' = Sessions /\ draft'[s] = NoDraft /\ \A t \in Sessions \ {s} : draft'[t] = draft[t]
  BY <1>1 DEF CommitBooks
<1>5. DOMAIN NoDraft = {} /\ NoDraft \in [{} -> Rows]
  BY DEF NoDraft
<1>6. \A t \in Sessions : DOMAIN draft'[t] \subseteq Days /\ draft'[t] \in [DOMAIN draft'[t] -> Rows]
  BY <1>4, <1>5 DEF QuotaTypeOK
<1>7. session' \in [Sessions -> {Off} \cup Ready \cup Calling] /\ session'[s] = rec
      /\ \A t \in Sessions \ {s} : session'[t] = session[t]
  BY DEF QuotaTypeOK
<1>8. QuotaTypeOK'
  BY <1>3, <1>4, <1>6, <1>7 DEF QuotaTypeOK, history
<1>9. \A d \in Days : quota'[d].calls = quota[d].calls + Unsaved(s, d)
  <2> SUFFICES ASSUME NEW d \in Days
               PROVE  quota'[d].calls = quota[d].calls + Unsaved(s, d)
    OBVIOUS
  <2>1. CASE d \in DOMAIN draft[s]
    <3>1. quota'[d].calls = draft[s][d].calls
      BY <1>2, <2>1
    <3>2. draft[s][d].calls \in Nat /\ quota[d].calls \in Nat
      BY <2>1, RowFacts DEF Seen
    <3> QED
      BY <2>1, <3>1, <3>2 DEF Unsaved
  <2>2. CASE d \notin DOMAIN draft[s]
    BY <1>2, <2>2, RowFacts DEF Unsaved
  <2> QED
    BY <2>1, <2>2
<1>10. \A t \in Sessions \ {s} : \A d \in DOMAIN draft[t] : quota'[d] = quota[d]
  <2> SUFFICES ASSUME NEW t \in Sessions \ {s}, NEW d \in DOMAIN draft[t]
               PROVE  quota'[d] = quota[d]
    OBVIOUS
  <2>1. d \in Days /\ d \notin DOMAIN draft[s]
    BY DEF QuotaTypeOK, BooksInv
  <2> QED
    BY <1>2, <2>1
<1>11. QuotaDay' = QuotaDay
  BY DEF QuotaDay
<1>12. rec.at # "call"
  BY DEF Off, Ready
<1>13. BooksInv'
  <2>1. \A t, u \in Sessions : t # u => DOMAIN draft'[t] \cap DOMAIN draft'[u] = {}
    BY <1>4, <1>5 DEF BooksInv
  <2>2. \A t \in Sessions : \A d \in DOMAIN draft'[t] : quota'[d].calls <= draft'[t][d].calls
    BY <1>4, <1>5, <1>10 DEF BooksInv
  <2>3. \A t \in Sessions : session'[t].at = "off" => DOMAIN draft'[t] = {}
    BY <1>4, <1>5, <1>7 DEF BooksInv, At
  <2>4. \A t \in Sessions : session'[t].at = "call" =>
          session'[t].day <= QuotaDay' /\ (session'[t].kind = "resolve" => DOMAIN draft'[t] = {})
    BY <1>4, <1>5, <1>7, <1>11, <1>12 DEF BooksInv, At
  <2> QED
    BY <2>1, <2>2, <2>3, <2>4 DEF BooksInv, At
<1> QED
  BY <1>4, <1>5, <1>7, <1>8, <1>9, <1>10, <1>13

--------------------------------------------------------------------------------
(* How a step changes what the books account for. *)

\* The sessions besides s neither move nor lose a row.
Others(s) ==
  \A t \in Sessions \ {s} :
    /\ session'[t] = session[t] /\ draft'[t] = draft[t]
    /\ \A d \in DOMAIN draft[t] : quota'[d].calls = quota[d].calls

LEMMA OthersKept ==
  ASSUME NEW s \in Sessions, Others(s), NEW t \in Sessions \ {s}
  PROVE  /\ \A d \in Days : (Uncommitted(t, d))' = Uncommitted(t, d) /\ (Unsaved(t, d))' = Unsaved(t, d)
         /\ (Ahead(t))' = Ahead(t)
<1>1. ASSUME NEW d \in Days
      PROVE  (Unsaved(t, d))' = Unsaved(t, d)
  <2>1. CASE d \in DOMAIN draft[t]
    BY <2>1 DEF Others, Unsaved
  <2>2. CASE d \notin DOMAIN draft[t]
    BY <2>2 DEF Others, Unsaved
  <2> QED
    BY <2>1, <2>2
<1>2. ASSUME NEW d \in Days
      PROVE  (Awaited(t, d))' = Awaited(t, d)
  BY DEF Others, Awaited
<1>3. (Ahead(t))' = Ahead(t)
  BY DEF Others, Ahead, At
<1> QED
  BY <1>1, <1>2, <1>3 DEF Uncommitted

LEMMA AccountedType ==
  ASSUME QuotaTypeOK, BooksInv
  PROVE  /\ \A d \in Days : AllUncommitted(d) \in Nat /\ Accounted[d] \in Nat
         /\ Accounted = [d \in Days |-> Accounted[d]]
<1>1. ASSUME NEW d \in Days
      PROVE  AllUncommitted(d) \in Nat
  <2> DEFINE f == [s \in Sessions |-> Uncommitted(s, d)]
  <2>1. \A s \in Sessions : f[s] \in Nat
    BY UncommittedFacts
  <2>2. SumOver(f, Sessions) \in Nat
    <3> HIDE DEF f
    <3> QED
      BY <2>1, ConstantFacts, SumType
  <2> QED
    BY <2>2 DEF AllUncommitted
<1>2. ASSUME NEW d \in Days
      PROVE  Accounted[d] \in Nat
  <2>1. quota[d].calls \in Nat
    BY ConstantFacts, RowFacts
  <2>2. lost[d] \in Nat
    BY DEF QuotaTypeOK
  <2>3. Accounted[d] = quota[d].calls + AllUncommitted(d) + lost[d]
    BY DEF Accounted
  <2> QED
    BY <2>1, <2>2, <2>3, <1>1
<1> QED
  BY <1>1, <1>2 DEF Accounted

\* The same, as a formula that holds after a step as well as before it.
UncommittedTyped == \A s \in Sessions, d \in Days : Uncommitted(s, d) \in Nat

LEMMA UncommittedIsTyped == QuotaTypeOK /\ BooksInv => UncommittedTyped
BY UncommittedFacts DEF UncommittedTyped

\* Only one session moves: the sum over all changes by its part.
LEMMA OneSession ==
  ASSUME QuotaTypeOK, BooksInv, QuotaTypeOK', BooksInv', NEW s \in Sessions, Others(s), NEW d \in Days
  PROVE  (AllUncommitted(d))' = AllUncommitted(d) - Uncommitted(s, d) + (Uncommitted(s, d))'
<1> DEFINE f == [t \in Sessions |-> Uncommitted(t, d)]
           g == [t \in Sessions |-> (Uncommitted(t, d))']
<1>1. AllUncommitted(d) = SumOver(f, Sessions) /\ (AllUncommitted(d))' = SumOver(g, Sessions)
  BY DEF AllUncommitted
<1>2. \A t \in Sessions : f[t] \in Int
  BY UncommittedFacts
<1>3. ASSUME NEW t \in Sessions
      PROVE  (Uncommitted(t, d))' \in Int
  <2>1. UncommittedTyped'
    BY UncommittedIsTyped, PTL
  <2>2. (Uncommitted(t, d))' \in Nat
    BY <2>1 DEF UncommittedTyped
  <2> QED
    BY <2>2
<1>4. \A t \in Sessions \ {s} : f[t] = g[t]
  BY OthersKept
<1>5. f[s] = Uncommitted(s, d) /\ g[s] = (Uncommitted(s, d))' /\ \A t \in Sessions : g[t] \in Int
  BY <1>3
<1> HIDE DEF f, g
<1>6. SumOver(g, Sessions) = SumOver(f, Sessions) - f[s] + g[s]
  BY <1>2, <1>4, <1>5, ConstantFacts, SumChange
<1> QED
  BY <1>1, <1>5, <1>6

\* What is accounted for on a day changes by its three parts.
LEMMA AccountStep ==
  ASSUME QuotaTypeOK, BooksInv, QuotaTypeOK', BooksInv', NEW s \in Sessions, Others(s), NEW d \in Days
  PROVE  Accounted'[d] = Accounted[d] + (quota'[d].calls - quota[d].calls)
                         + ((Uncommitted(s, d))' - Uncommitted(s, d)) + (lost'[d] - lost[d])
<1>1. (AllUncommitted(d))' = AllUncommitted(d) - Uncommitted(s, d) + (Uncommitted(s, d))'
  BY OneSession
<1>2. /\ Accounted[d] = quota[d].calls + AllUncommitted(d) + lost[d]
      /\ Accounted'[d] = quota'[d].calls + (AllUncommitted(d))' + lost'[d]
  BY DEF Accounted
<1>3. AllUncommitted(d) \in Nat /\ Uncommitted(s, d) \in Nat
  BY AccountedType, UncommittedFacts
<1>4. UncommittedTyped'
  BY UncommittedIsTyped, PTL
<1>5. (Uncommitted(s, d))' \in Nat
  BY <1>4 DEF UncommittedTyped
<1>6. quota[d].calls \in Nat /\ quota'[d].calls \in Nat
  BY DEF QuotaTypeOK, Rows
<1>7. lost[d] \in Nat /\ lost'[d] \in Nat
  BY DEF QuotaTypeOK
<1> QED
  BY <1>1, <1>2, <1>3, <1>5, <1>6, <1>7

LEMMA EffortStep ==
  ASSUME EffortInv, NEW s \in Sessions, Others(s),
         \A d \in Days : (Unsaved(s, d))' + (Ahead(s))' <= MaxOpen
  PROVE  EffortInv'
<1> SUFFICES ASSUME NEW t \in Sessions, NEW d \in Days
             PROVE  (Unsaved(t, d))' + (Ahead(t))' <= MaxOpen
  BY DEF EffortInv
<1>1. CASE t = s
  BY <1>1
<1>2. CASE t # s
  BY <1>2, OthersKept DEF EffortInv
<1> QED
  BY <1>1, <1>2

\* What a step does to the searches sent and to those accounted for.
Kept == spent' = spent /\ Accounted' = Accounted
Sent == /\ spent' = [spent EXCEPT ![QuotaDay] = @ + 1]
        /\ Accounted' = [Accounted EXCEPT ![QuotaDay] = @ + 1]
MovedFrom(d0) == [[Accounted EXCEPT ![d0] = @ - 1] EXCEPT ![QuotaDay] = @ + 1]
Moved == /\ spent' = spent
         /\ \E d0 \in Days : Accounted' = MovedFrom(d0)

LEMMA BecomesOthers ==
  ASSUME QuotaTypeOK, NEW s \in Sessions, NEW rec, Becomes(s, rec), UNCHANGED books
  PROVE  Others(s) /\ session'[s] = rec /\ draft' = draft /\ quota' = quota
         /\ \A d \in Days : (Unsaved(s, d))' = Unsaved(s, d)
<1>1. draft' = draft /\ quota' = quota
  BY DEF books
<1> QED
  BY <1>1, BecomesTyped DEF Others, Unsaved

LEMMA AccountedKept ==
  ASSUME QuotaTypeOK, BooksInv, QuotaTypeOK', BooksInv',
         \A d \in Days : Accounted'[d] = Accounted[d]
  PROVE  Accounted' = Accounted
<1>1. Accounted = [d \in Days |-> Accounted[d]]
  BY AccountedType
<1>2. Accounted' = [d \in Days |-> Accounted'[d]]
  BY DEF Accounted
<1> QED
  BY <1>1, <1>2

\* A session begins, or gives up a search: nothing is sent or booked.
LEMMA QuietStep ==
  ASSUME QuotaTypeOK, BooksInv, EffortInv, NEW s \in Sessions, NEW rec, Becomes(s, rec),
         UNCHANGED <<clock, books, hung, losses, history>>,
         ~At(s, "call"), rec.at = "ready", rec.left \in Nat,
         \A d \in Days : Unsaved(s, d) + rec.left <= MaxOpen
  PROVE  QuotaTypeOK' /\ BooksInv' /\ EffortInv' /\ Kept
<1>1. spent' = spent /\ lost' = lost
  BY DEF history
<1>2. QuotaTypeOK' /\ BooksInv'
  BY <1>1, BecomesTyped, TypeKept, BooksKept
<1>3. /\ Others(s) /\ session'[s] = rec /\ quota' = quota
      /\ \A d \in Days : (Unsaved(s, d))' = Unsaved(s, d)
  BY BecomesOthers
<1>4. ASSUME NEW d \in Days
      PROVE  /\ (Uncommitted(s, d))' = Unsaved(s, d) /\ Uncommitted(s, d) = Unsaved(s, d)
             /\ Unsaved(s, d) \in Nat
  <2>1. Awaited(s, d) = 0 /\ (Awaited(s, d))' = 0
    BY <1>3 DEF Awaited, At
  <2> QED
    BY <1>3, <2>1, UncommittedFacts DEF Uncommitted
<1>5. (Ahead(s))' = rec.left
  BY <1>3, ConstantFacts DEF Ahead, At
<1>6. EffortInv'
  BY <1>3, <1>4, <1>5, EffortStep
<1>7. ASSUME NEW d \in Days
      PROVE  Accounted'[d] = Accounted[d]
  <2>1. quota[d].calls \in Nat /\ lost[d] \in Nat /\ Accounted[d] \in Nat
    BY AccountedType DEF QuotaTypeOK, Rows
  <2>2. Accounted'[d] = Accounted[d] + (quota'[d].calls - quota[d].calls)
                         + ((Uncommitted(s, d))' - Uncommitted(s, d)) + (lost'[d] - lost[d])
    BY <1>2, <1>3, AccountStep
  <2> QED
    BY <1>1, <1>3, <1>4, <2>1, <2>2
<1> QED
  BY <1>1, <1>2, <1>6, <1>7, AccountedKept DEF Kept

\* A session sends a search, which it then awaits.
LEMMA SendStep ==
  ASSUME QuotaTypeOK, BooksInv, EffortInv, NEW s \in Sessions, NEW rec, Becomes(s, rec),
         UNCHANGED <<clock, books, hung, losses, lost>>,
         spent' = [spent EXCEPT ![QuotaDay] = @ + 1],
         ~At(s, "call"), rec.at = "call", rec.day = QuotaDay,
         \A d \in Days : Unsaved(s, d) + 1 + rec.left <= MaxOpen, rec.left \in Nat
  PROVE  QuotaTypeOK' /\ BooksInv' /\ EffortInv' /\ Sent
<1>2. QuotaTypeOK' /\ BooksInv'
  BY BecomesTyped, TypeKept, BooksKept
<1>3. /\ Others(s) /\ session'[s] = rec /\ quota' = quota
      /\ \A d \in Days : (Unsaved(s, d))' = Unsaved(s, d)
  BY BecomesOthers
<1>4. ASSUME NEW d \in Days
      PROVE  /\ (Uncommitted(s, d))' = Unsaved(s, d) + (IF d = QuotaDay THEN 1 ELSE 0)
             /\ Uncommitted(s, d) = Unsaved(s, d)
             /\ Unsaved(s, d) \in Nat
  <2>1. Awaited(s, d) = 0 /\ (Awaited(s, d))' = (IF d = QuotaDay THEN 1 ELSE 0)
    BY <1>3 DEF Awaited, At
  <2> QED
    BY <1>3, <2>1, UncommittedFacts DEF Uncommitted
<1>5. (Ahead(s))' = rec.left + 1
  BY <1>3 DEF Ahead, At
<1>6. EffortInv'
  <2>1. ASSUME NEW d \in Days
        PROVE  (Unsaved(s, d))' + (Ahead(s))' <= MaxOpen
    <3>1. (Unsaved(s, d))' = Unsaved(s, d) /\ Unsaved(s, d) \in Nat
      BY <1>3, <1>4
    <3>2. Unsaved(s, d) + 1 + rec.left <= MaxOpen /\ MaxOpen \in Nat
      BY ConstantFacts
    <3> QED
      BY <1>5, <3>1, <3>2
  <2> QED
    BY <1>3, <2>1, EffortStep
<1>7. ASSUME NEW d \in Days
      PROVE  Accounted'[d] = IF d = QuotaDay THEN Accounted[d] + 1 ELSE Accounted[d]
  <2>1. quota[d].calls \in Nat /\ lost[d] \in Nat /\ Accounted[d] \in Nat
    BY AccountedType DEF QuotaTypeOK, Rows
  <2>2. Accounted'[d] = Accounted[d] + (quota'[d].calls - quota[d].calls)
                         + ((Uncommitted(s, d))' - Uncommitted(s, d)) + (lost'[d] - lost[d])
    BY <1>2, <1>3, AccountStep
  <2> QED
    BY <1>3, <1>4, <2>1, <2>2
<1>8. Accounted' = [Accounted EXCEPT ![QuotaDay] = @ + 1]
  <2>1. Accounted = [d \in Days |-> Accounted[d]]
    BY AccountedType
  <2>2. Accounted' = [d \in Days |-> Accounted'[d]]
    BY DEF Accounted
  <2> QED
    BY <1>7, <2>1, <2>2
<1> QED
  BY <1>2, <1>6, <1>8 DEF Sent

\* What a session had not committed is now in the books.
LEMMA CommitStep ==
  ASSUME QuotaTypeOK, BooksInv, EffortInv, NEW s \in Sessions, NEW rec, At(s, "ready"),
         session' = [session EXCEPT ![s] = rec], rec \in {Off} \cup Ready,
         rec.at # "off" => rec.left \in Nat /\ rec.left <= MaxOpen,
         CommitBooks(s), UNCHANGED <<clock, hung, losses, history>>
  PROVE  QuotaTypeOK' /\ BooksInv' /\ EffortInv' /\ Kept
<1>1. spent' = spent /\ lost' = lost
  BY DEF history
<1>2. /\ QuotaTypeOK' /\ BooksInv'
      /\ \A d \in Days : quota'[d].calls = quota[d].calls + Unsaved(s, d)
      /\ DOMAIN draft'[s] = {}
      /\ \A t \in Sessions \ {s} : draft'[t] = draft[t] /\ session'[t] = session[t]
      /\ \A t \in Sessions \ {s} : \A d \in DOMAIN draft[t] : quota'[d] = quota[d]
  BY CommitKept
<1>3. Others(s) /\ session'[s] = rec
  BY <1>2 DEF Others, QuotaTypeOK
<1>4. rec.at \in {"off", "ready"}
  BY DEF Off, Ready
<1>5. ASSUME NEW d \in Days
      PROVE  /\ (Uncommitted(s, d))' = 0 /\ (Unsaved(s, d))' = 0
             /\ Uncommitted(s, d) = Unsaved(s, d) /\ Unsaved(s, d) \in Nat
  <2>1. Awaited(s, d) = 0 /\ (Awaited(s, d))' = 0 /\ (Unsaved(s, d))' = 0
    BY <1>2, <1>3, <1>4 DEF Awaited, At, Unsaved
  <2> QED
    BY <2>1, UncommittedFacts DEF Uncommitted
<1>6. (Ahead(s))' \in Nat /\ (Ahead(s))' <= MaxOpen
  BY <1>3, <1>4, ConstantFacts DEF Ahead, At
<1>7. EffortInv'
  BY <1>3, <1>5, <1>6, EffortStep
<1>8. ASSUME NEW d \in Days
      PROVE  Accounted'[d] = Accounted[d]
  <2>1. quota[d].calls \in Nat /\ lost[d] \in Nat /\ Accounted[d] \in Nat
    BY AccountedType DEF QuotaTypeOK, Rows
  <2>2. Accounted'[d] = Accounted[d] + (quota'[d].calls - quota[d].calls)
                         + ((Uncommitted(s, d))' - Uncommitted(s, d)) + (lost'[d] - lost[d])
    BY <1>2, <1>3, AccountStep
  <2> QED
    BY <1>1, <1>2, <1>5, <2>1, <2>2
<1> QED
  BY <1>1, <1>2, <1>7, <1>8, AccountedKept DEF Kept

\* A search awaited leaves its day, and today's books gain one.
LEMMA MovedAccount ==
  ASSUME QuotaTypeOK, BooksInv, NEW d0 \in Days,
         \A d \in Days : Accounted'[d] = Accounted[d] + (IF d = QuotaDay THEN 1 ELSE 0)
                                                      - (IF d = d0 THEN 1 ELSE 0)
  PROVE  Accounted' = MovedFrom(d0)
<1>1. Accounted = [d \in Days |-> Accounted[d]] /\ \A d \in Days : Accounted[d] \in Nat
  BY AccountedType
<1>2. Accounted' = [d \in Days |-> Accounted'[d]]
  BY DEF Accounted
<1> DEFINE m == MovedFrom(d0)
<1>3. m = [d \in Days |-> m[d]] /\ QuotaDay \in Days
  BY <1>1, DayFacts DEF MovedFrom
<1>4. ASSUME NEW d \in Days
      PROVE  m[d] = Accounted'[d]
  <2>1. Accounted[d] \in Nat
    BY <1>1
  <2>2. m[d] = IF d = QuotaDay THEN (IF d = d0 THEN Accounted[d] - 1 + 1 ELSE Accounted[d] + 1)
               ELSE (IF d = d0 THEN Accounted[d] - 1 ELSE Accounted[d])
    BY <1>1, DayFacts DEF MovedFrom
  <2> HIDE DEF m
  <2> QED
    BY <2>1, <2>2
<1> HIDE DEF m
<1> QED
  BY <1>2, <1>3, <1>4 DEF m

\* The search awaited is booked, perhaps on a later day than its own.
LEMMA RecordStep ==
  ASSUME QuotaTypeOK, BooksInv, EffortInv, NEW s \in Sessions, Record(s)
  PROVE  QuotaTypeOK' /\ BooksInv' /\ EffortInv' /\ Moved
<1> DEFINE D == QuotaDay
           rec == [at |-> "ready", kind |-> session[s].kind, left |-> session[s].left,
                   on |-> session[s].on, near |-> session[s].near, backlog |-> session[s].backlog]
           rows == [d \in DOMAIN draft[s] \cup {D} |->
                      IF d = D THEN Charge(Seen(s, d), session[s].purpose) ELSE draft[s][d]]
           row == Charge(Seen(s, D), session[s].purpose)
<1>1. /\ At(s, "call") /\ session[s].kind # "resolve" /\ ~LockedByOther(s)
      /\ draft' = [draft EXCEPT ![s] = rows] /\ session' = [session EXCEPT ![s] = rec]
      /\ clock' = clock /\ quota' = quota /\ hung' = hung /\ losses' = losses
      /\ spent' = spent /\ lost' = lost
  BY DEF Record, history
<1>2. D \in Days /\ QuotaDay' = D
  BY <1>1, DayFacts DEF QuotaDay
<1>3. Seen(s, D) \in Rows /\ row \in Rows /\ row.calls = Seen(s, D).calls + 1
      /\ Seen(s, D).calls \in Nat /\ quota[D].calls \in Nat
  BY <1>2, RowFacts, ChargeFacts
<1>4. /\ DOMAIN draft = Sessions /\ DOMAIN draft[s] \subseteq Days
      /\ draft[s] \in [DOMAIN draft[s] -> Rows]
  BY DEF QuotaTypeOK
<1>5. /\ DOMAIN rows = DOMAIN draft[s] \cup {D} /\ rows[D] = row
      /\ \A d \in DOMAIN draft[s] \ {D} : rows[d] = draft[s][d]
  OBVIOUS
<1>6. rows \in [DOMAIN rows -> Rows] /\ DOMAIN rows \subseteq Days
  BY <1>2, <1>3, <1>4
<1>7. rec \in Ready
  BY <1>1, SessionFacts DEF Ready, At
<1>8. rec.at = "ready" /\ rec.left = session[s].left
  OBVIOUS
<1>9. quota[D].calls <= Seen(s, D).calls
  BY <1>3 DEF Seen, BooksInv
<1> HIDE DEF rows, rec, row, D
<1>10. /\ DOMAIN draft' = Sessions /\ draft'[s] = rows /\ session'[s] = rec
       /\ \A t \in Sessions \ {s} : draft'[t] = draft[t] /\ session'[t] = session[t]
       /\ session' \in [Sessions -> {Off} \cup Ready \cup Calling]
  BY <1>1, <1>4, <1>7 DEF QuotaTypeOK
<1>11. QuotaTypeOK'
  <2>1. \A t \in Sessions : DOMAIN draft'[t] \subseteq Days /\ draft'[t] \in [DOMAIN draft'[t] -> Rows]
    BY <1>6, <1>10 DEF QuotaTypeOK
  <2> QED
    BY <1>1, <1>10, <2>1 DEF QuotaTypeOK
<1>12. BooksInv'
  <2>1. \A t \in Sessions \ {s} : D \notin DOMAIN draft[t]
    BY <1>1 DEF LockedByOther, D
  <2>2. \A t, u \in Sessions : t # u => DOMAIN draft'[t] \cap DOMAIN draft'[u] = {}
    BY <1>5, <1>10, <2>1 DEF BooksInv
  <2>3. \A d \in DOMAIN rows : quota[d].calls <= rows[d].calls
    BY <1>3, <1>5, <1>9 DEF BooksInv
  <2>4. \A t \in Sessions : \A d \in DOMAIN draft'[t] : quota'[d].calls <= draft'[t][d].calls
    BY <1>1, <1>10, <2>3 DEF BooksInv
  <2>5. \A t \in Sessions : session'[t].at = "off" => DOMAIN draft'[t] = {}
    BY <1>8, <1>10 DEF BooksInv, At
  <2>6. \A t \in Sessions : session'[t].at = "call" =>
          session'[t].day <= QuotaDay' /\ (session'[t].kind = "resolve" => DOMAIN draft'[t] = {})
    BY <1>2, <1>8, <1>10 DEF BooksInv, At, D
  <2> QED
    BY <2>2, <2>4, <2>5, <2>6 DEF BooksInv, At
<1>13. Others(s)
  BY <1>1, <1>10 DEF Others
<1>14. ASSUME NEW d \in Days
       PROVE  /\ (Unsaved(s, d))' = Unsaved(s, d) + (IF d = D THEN 1 ELSE 0)
              /\ Awaited(s, d) = (IF d = session[s].day THEN 1 ELSE 0)
              /\ (Awaited(s, d))' = 0
              /\ Unsaved(s, d) \in Nat
  <2>1. (Awaited(s, d))' = 0 /\ Awaited(s, d) = (IF d = session[s].day THEN 1 ELSE 0)
    BY <1>1, <1>8, <1>10 DEF Awaited, At
  <2>2. CASE d = D
    <3>1. (Unsaved(s, d))' = row.calls - quota[D].calls
      BY <1>1, <1>5, <1>10, <2>2 DEF Unsaved
    <3>2. Unsaved(s, d) = Seen(s, D).calls - quota[D].calls
      BY <1>3, <2>2 DEF Unsaved, Seen
    <3>3. (Unsaved(s, d))' = Unsaved(s, d) + 1
      BY <1>3, <3>1, <3>2
    <3> QED
      BY <2>1, <2>2, <3>3, UncommittedFacts
  <2>3. CASE d # D
    <3>1. d \in DOMAIN draft'[s] <=> d \in DOMAIN draft[s]
      BY <1>5, <1>10, <2>3
    <3>2. d \in DOMAIN draft[s] => draft'[s][d] = draft[s][d]
      BY <1>5, <1>10, <2>3
    <3>3. (Unsaved(s, d))' = Unsaved(s, d)
      BY <1>1, <3>1, <3>2 DEF Unsaved
    <3> QED
      BY <2>1, <2>3, <3>3, UncommittedFacts
  <2> QED
    BY <2>2, <2>3
<1>15. EffortInv'
  <2>1. /\ (Ahead(s))' = session[s].left /\ Ahead(s) = session[s].left + 1
        /\ session[s].left \in Nat
    BY <1>1, <1>8, <1>10, SessionFacts DEF Ahead, At
  <2>2. ASSUME NEW d \in Days
        PROVE  (Unsaved(s, d))' + (Ahead(s))' <= MaxOpen
    <3>1. Unsaved(s, d) + Ahead(s) <= MaxOpen /\ MaxOpen \in Nat
      BY ConstantFacts DEF EffortInv
    <3>2. /\ (Unsaved(s, d))' = Unsaved(s, d) + (IF d = D THEN 1 ELSE 0)
          /\ Unsaved(s, d) \in Nat
      BY <1>14
    <3> QED
      BY <2>1, <3>1, <3>2
  <2> QED
    BY <1>13, <2>2, EffortStep
<1>16. ASSUME NEW d \in Days
       PROVE  Accounted'[d] = Accounted[d] + (IF d = D THEN 1 ELSE 0)
                                           - (IF d = session[s].day THEN 1 ELSE 0)
  <2>1. quota[d].calls \in Nat /\ lost[d] \in Nat /\ Accounted[d] \in Nat
    BY AccountedType DEF QuotaTypeOK, Rows
  <2>2. Accounted'[d] = Accounted[d] + (quota'[d].calls - quota[d].calls)
                         + ((Uncommitted(s, d))' - Uncommitted(s, d)) + (lost'[d] - lost[d])
    BY <1>11, <1>12, <1>13, AccountStep
  <2> QED
    BY <1>1, <1>14, <2>1, <2>2 DEF Uncommitted
<1>17. session[s].day \in Days
  BY <1>1, SessionFacts DEF At
<1> QED
  BY <1>1, <1>11, <1>12, <1>15, <1>16, <1>17, MovedAccount DEF Moved, D

\* An answer to a request ends its session.
LEMMA AnsweredStep ==
  ASSUME QuotaTypeOK, BooksInv, EffortInv, NEW r \in Sessions, Answered(r),
         UNCHANGED <<clock, draft, hung, spent>>,
         quota' \in [Days -> Rows], \A d \in Days \ {QuotaDay} : quota'[d] = quota[d],
         quota[QuotaDay].calls <= quota'[QuotaDay].calls,
         losses' \in 0 .. MaxLosses, lost' \in [Days -> Nat]
  PROVE  /\ QuotaTypeOK' /\ BooksInv' /\ EffortInv' /\ session[r].day \in Days
         /\ \A d \in Days :
              Accounted'[d] = Accounted[d] + (quota'[d].calls - quota[d].calls)
                              + (lost'[d] - lost[d]) - (IF d = session[r].day THEN 1 ELSE 0)
<1>1. /\ At(r, "call") /\ session[r].kind = "resolve" /\ ~LockedByOther(r)
      /\ session' = [session EXCEPT ![r] = Off] /\ DOMAIN draft[r] = {}
      /\ draft' = draft /\ clock' = clock /\ hung' = hung /\ spent' = spent
  BY DEF Answered, BooksInv
<1>2. QuotaDay \in Days /\ QuotaDay' = QuotaDay
  BY <1>1, DayFacts DEF QuotaDay
<1>3. \A t \in Sessions : QuotaDay \notin DOMAIN draft[t]
  BY <1>1 DEF LockedByOther
<1>4. \A t \in Sessions : \A d \in DOMAIN draft[t] : d \in Days \ {QuotaDay} /\ quota'[d] = quota[d]
  BY <1>3 DEF QuotaTypeOK
<1>5. /\ session' \in [Sessions -> {Off} \cup Ready \cup Calling] /\ session'[r] = Off
      /\ \A t \in Sessions \ {r} : session'[t] = session[t]
  BY <1>1 DEF QuotaTypeOK
<1>6. Off.at = "off"
  BY DEF Off
<1>7. QuotaTypeOK'
  BY <1>1, <1>5 DEF QuotaTypeOK
<1>8. BooksInv'
  <2>1. /\ \A t, u \in Sessions : t # u => DOMAIN draft'[t] \cap DOMAIN draft'[u] = {}
        /\ \A t \in Sessions : \A d \in DOMAIN draft'[t] : quota'[d].calls <= draft'[t][d].calls
    BY <1>1, <1>4 DEF BooksInv
  <2>2. \A t \in Sessions : session'[t].at = "off" => DOMAIN draft'[t] = {}
    BY <1>1, <1>5 DEF BooksInv, At
  <2>3. \A t \in Sessions : session'[t].at = "call" =>
          session'[t].day <= QuotaDay' /\ (session'[t].kind = "resolve" => DOMAIN draft'[t] = {})
    BY <1>1, <1>2, <1>5, <1>6 DEF BooksInv, At
  <2> QED
    BY <2>1, <2>2, <2>3 DEF BooksInv, At
<1>9. Others(r)
  BY <1>1, <1>4, <1>5 DEF Others
<1>10. ASSUME NEW d \in Days
       PROVE  /\ (Unsaved(r, d))' = 0 /\ Unsaved(r, d) = 0 /\ (Awaited(r, d))' = 0
              /\ Awaited(r, d) = (IF d = session[r].day THEN 1 ELSE 0)
  BY <1>1, <1>5, <1>6 DEF Unsaved, Awaited, At
<1>11. (Ahead(r))' = 0
  BY <1>5, <1>6 DEF Ahead, At
<1>12. EffortInv'
  BY <1>9, <1>10, <1>11, ConstantFacts, EffortStep
<1>13. ASSUME NEW d \in Days
       PROVE  Accounted'[d] = Accounted[d] + (quota'[d].calls - quota[d].calls)
                              + (lost'[d] - lost[d]) - (IF d = session[r].day THEN 1 ELSE 0)
  <2>1. /\ quota[d].calls \in Nat /\ lost[d] \in Nat /\ Accounted[d] \in Nat
        /\ quota'[d].calls \in Nat /\ lost'[d] \in Nat
    BY AccountedType DEF QuotaTypeOK, Rows
  <2>2. Accounted'[d] = Accounted[d] + (quota'[d].calls - quota[d].calls)
                         + ((Uncommitted(r, d))' - Uncommitted(r, d)) + (lost'[d] - lost[d])
    BY <1>7, <1>8, <1>9, AccountStep
  <2>3. /\ (Uncommitted(r, d))' = 0
        /\ Uncommitted(r, d) = (IF d = session[r].day THEN 1 ELSE 0)
    BY <1>10 DEF Uncommitted
  <2> QED
    BY <2>1, <2>2, <2>3
<1>14. session[r].day \in Days
  BY <1>1, SessionFacts DEF At
<1> QED
  BY <1>7, <1>8, <1>12, <1>13, <1>14

LEMMA ResolveAnsweredStep ==
  ASSUME QuotaTypeOK, BooksInv, EffortInv, NEW r \in Sessions, ResolveAnswered(r)
  PROVE  QuotaTypeOK' /\ BooksInv' /\ EffortInv' /\ Moved
<1>1. /\ Answered(r) /\ quota' = [quota EXCEPT ![QuotaDay] = Charge(@, "none")]
      /\ clock' = clock /\ draft' = draft /\ hung' = hung /\ losses' = losses
      /\ spent' = spent /\ lost' = lost
  BY DEF ResolveAnswered, history
<1> DEFINE D == QuotaDay
           row == Charge(quota[D], "none")
<1>2. D \in Days
  BY DayFacts
<1>3. row \in Rows /\ row.calls = quota[D].calls + 1 /\ quota[D].calls \in Nat
  BY <1>2, ChargeFacts DEF QuotaTypeOK, Rows
<1>4. quota' = [quota EXCEPT ![D] = row]
  BY <1>1
<1> HIDE DEF row
<1>5. /\ quota' \in [Days -> Rows] /\ quota'[D] = row
      /\ \A d \in Days \ {D} : quota'[d] = quota[d]
  BY <1>2, <1>3, <1>4 DEF QuotaTypeOK
<1>6. losses' \in 0 .. MaxLosses /\ lost' \in [Days -> Nat]
  BY <1>1 DEF QuotaTypeOK
<1>7. quota[D].calls <= quota'[D].calls
  BY <1>3, <1>5
<1>8. /\ QuotaTypeOK' /\ BooksInv' /\ EffortInv' /\ session[r].day \in Days
      /\ \A d \in Days :
           Accounted'[d] = Accounted[d] + (quota'[d].calls - quota[d].calls)
                           + (lost'[d] - lost[d]) - (IF d = session[r].day THEN 1 ELSE 0)
  BY <1>1, <1>5, <1>6, <1>7, AnsweredStep
<1>9. ASSUME NEW d \in Days
      PROVE  Accounted'[d] = Accounted[d] + (IF d = QuotaDay THEN 1 ELSE 0)
                                          - (IF d = session[r].day THEN 1 ELSE 0)
  <2>1. quota[d].calls \in Nat /\ lost[d] \in Nat /\ Accounted[d] \in Nat
    BY AccountedType DEF QuotaTypeOK, Rows
  <2>2. quota'[d].calls - quota[d].calls = (IF d = D THEN 1 ELSE 0)
    BY <1>3, <1>5, <2>1
  <2>3. lost'[d] - lost[d] = 0
    BY <1>1, <2>1
  <2> QED
    BY <1>8, <2>1, <2>2, <2>3
<1> QED
  BY <1>1, <1>8, <1>9, MovedAccount DEF Moved

LEMMA ResolveFailedStep ==
  ASSUME QuotaTypeOK, BooksInv, EffortInv, NEW r \in Sessions, ResolveFailed(r)
  PROVE  QuotaTypeOK' /\ BooksInv' /\ EffortInv' /\ Kept
<1>1. /\ Answered(r) /\ losses < MaxLosses /\ losses' = losses + 1
      /\ lost' = [lost EXCEPT ![session[r].day] = @ + 1]
      /\ clock' = clock /\ quota' = quota /\ draft' = draft /\ hung' = hung /\ spent' = spent
  BY DEF ResolveFailed, books
<1>2. session[r].day \in Days
  BY <1>1, SessionFacts DEF Answered, At
<1>3. /\ losses' \in 0 .. MaxLosses /\ lost' \in [Days -> Nat]
      /\ \A d \in Days : lost'[d] = lost[d] + (IF d = session[r].day THEN 1 ELSE 0)
  BY <1>1, <1>2, QuotaAssumption DEF QuotaTypeOK
<1>4. /\ quota' \in [Days -> Rows] /\ \A d \in Days : quota'[d] = quota[d]
      /\ quota[QuotaDay].calls <= quota'[QuotaDay].calls
  BY <1>1, DayFacts DEF QuotaTypeOK, Rows
<1>5. /\ QuotaTypeOK' /\ BooksInv' /\ EffortInv'
      /\ \A d \in Days :
           Accounted'[d] = Accounted[d] + (quota'[d].calls - quota[d].calls)
                           + (lost'[d] - lost[d]) - (IF d = session[r].day THEN 1 ELSE 0)
  BY <1>1, <1>3, <1>4, AnsweredStep
<1>6. ASSUME NEW d \in Days
      PROVE  Accounted'[d] = Accounted[d]
  <2>1. quota[d].calls \in Nat /\ lost[d] \in Nat /\ Accounted[d] \in Nat
    BY AccountedType DEF QuotaTypeOK, Rows
  <2> QED
    BY <1>3, <1>4, <1>5, <2>1
<1> QED
  BY <1>1, <1>5, <1>6, AccountedKept DEF Kept

\* A restart loses what the sessions had not committed.
LEMMA RestartStep ==
  ASSUME QuotaTypeOK, BooksInv, Restart
  PROVE  /\ QuotaTypeOK' /\ BooksInv' /\ EffortInv' /\ Kept
         /\ \A d \in Days : lost[d] <= lost'[d]
         /\ \A s \in Sessions : session'[s] = Off
<1>1. /\ losses < MaxLosses /\ losses' = losses + 1
      /\ lost' = [d \in Days |-> lost[d] + AllUncommitted(d)]
      /\ draft' = [s \in Sessions |-> NoDraft] /\ session' = [s \in Sessions |-> Off]
      /\ hung' = FALSE /\ clock' = clock /\ quota' = quota /\ spent' = spent
  BY DEF Restart
<1>2. \A d \in Days : AllUncommitted(d) \in Nat
  BY AccountedType
<1>3. lost' \in [Days -> Nat] /\ losses' \in 0 .. MaxLosses
  BY <1>1, <1>2, QuotaAssumption DEF QuotaTypeOK
<1>4. DOMAIN NoDraft = {} /\ NoDraft \in [{} -> Rows] /\ Off.at = "off"
  BY DEF NoDraft, Off
<1>5. DOMAIN draft' = Sessions /\ \A s \in Sessions : draft'[s] = NoDraft /\ session'[s] = Off
  BY <1>1
<1>6. \A s \in Sessions : DOMAIN draft'[s] \subseteq Days /\ draft'[s] \in [DOMAIN draft'[s] -> Rows]
  BY <1>4, <1>5
<1>7. session' \in [Sessions -> {Off} \cup Ready \cup Calling]
  BY <1>1
<1>8. QuotaTypeOK'
  BY <1>1, <1>3, <1>5, <1>6, <1>7 DEF QuotaTypeOK
<1>9. BooksInv'
  BY <1>4, <1>5 DEF BooksInv, At
<1>10. ASSUME NEW s \in Sessions, NEW d \in Days
       PROVE  (Uncommitted(s, d))' = 0 /\ (Unsaved(s, d))' = 0 /\ (Ahead(s))' = 0
  <2>1. (Unsaved(s, d))' = 0 /\ (Awaited(s, d))' = 0 /\ (Ahead(s))' = 0
    BY <1>4, <1>5 DEF Unsaved, Awaited, Ahead, At
  <2> QED
    BY <2>1 DEF Uncommitted
<1>11. EffortInv'
  BY <1>10, ConstantFacts DEF EffortInv
<1>12. ASSUME NEW d \in Days
       PROVE  (AllUncommitted(d))' = 0
  <2>1. [s \in Sessions |-> (Uncommitted(s, d))'] = [s \in Sessions |-> 0]
    BY <1>10
  <2>2. (AllUncommitted(d))' = SumOver([s \in Sessions |-> (Uncommitted(s, d))'], Sessions)
    BY DEF AllUncommitted
  <2> QED
    BY <2>1, <2>2, ConstantFacts, SumOfNone
<1>13. ASSUME NEW d \in Days
       PROVE  Accounted'[d] = Accounted[d] /\ lost[d] <= lost'[d]
  <2>1. quota[d].calls \in Nat /\ lost[d] \in Nat /\ AllUncommitted(d) \in Nat
    BY <1>2 DEF QuotaTypeOK, Rows
  <2>2. /\ Accounted[d] = quota[d].calls + AllUncommitted(d) + lost[d]
        /\ Accounted'[d] = quota'[d].calls + (AllUncommitted(d))' + lost'[d]
    BY DEF Accounted
  <2>3. lost'[d] = lost[d] + AllUncommitted(d) /\ quota'[d].calls = quota[d].calls
    BY <1>1
  <2> QED
    BY <1>12, <2>1, <2>2, <2>3
<1> QED
  BY <1>1, <1>5, <1>8, <1>9, <1>11, <1>13, AccountedKept DEF Kept

--------------------------------------------------------------------------------
(* The actions. *)

\* What a session that is idle, or between two searches, may still send.
LEMMA Allowance ==
  ASSUME QuotaTypeOK, BooksInv, EffortInv, NEW s \in Sessions, NEW d \in Days
  PROVE  /\ Idle(s) => Unsaved(s, d) = 0 /\ ~At(s, "call") /\ DOMAIN draft[s] = {}
         /\ At(s, "ready") => /\ Unsaved(s, d) + session[s].left <= MaxOpen
                              /\ session[s].left \in 0 .. MaxOpen
                              /\ Unsaved(s, d) \in Nat /\ ~At(s, "call")
<1>1. Idle(s) => Unsaved(s, d) = 0 /\ ~At(s, "call") /\ DOMAIN draft[s] = {}
  BY DEF Idle, At, BooksInv, Unsaved
<1>2. ASSUME At(s, "ready")
      PROVE  /\ Unsaved(s, d) + session[s].left <= MaxOpen
             /\ session[s].left \in 0 .. MaxOpen
             /\ Unsaved(s, d) \in Nat /\ ~At(s, "call")
  <2>1. session[s].left \in 0 .. MaxOpen /\ Unsaved(s, d) \in Nat
    BY <1>2, SessionFacts, UncommittedFacts DEF At
  <2>2. Ahead(s) = session[s].left
    BY <1>2, <2>1, ConstantFacts DEF Ahead, At
  <2> QED
    BY <1>2, <2>1, <2>2 DEF EffortInv, At
<1> QED
  BY <1>1, <1>2

LEMMA BeginStep ==
  ASSUME QuotaTypeOK, BooksInv, EffortInv, NEW s \in Sessions, Idle(s),
         NEW kind \in {"discovery", "jobs"}, NEW left \in 0 .. MaxOpen, NEW backlog \in BOOLEAN,
         Begin(s, kind, left, backlog), UNCHANGED <<clock, books, hung, losses, history>>
  PROVE  QuotaTypeOK' /\ BooksInv' /\ EffortInv' /\ Kept
<1> DEFINE rec == [at |-> "ready", kind |-> kind, left |-> left, on |-> UtcDay,
                   near |-> NearReset, backlog |-> backlog]
<1>1. Becomes(s, rec)
  BY BeginBecomes
<1>2. rec.at = "ready" /\ rec.left = left
  OBVIOUS
<1> HIDE DEF rec
<1>3. \A d \in Days : Unsaved(s, d) + rec.left <= MaxOpen
  BY <1>2, ConstantFacts, Allowance
<1>4. ~At(s, "call") /\ rec.left \in Nat
  BY <1>2, ConstantFacts DEF Idle, At
<1> QED
  BY <1>1, <1>2, <1>3, <1>4, QuietStep

LEMMA StartTickStep ==
  ASSUME QuotaTypeOK, BooksInv, EffortInv, StartTick
  PROVE  QuotaTypeOK' /\ BooksInv' /\ EffortInv' /\ Kept
<1>1. Idle(Collector) /\ UNCHANGED <<clock, books, hung, losses, history>>
  BY DEF StartTick
<1>2. \E kind \in {"discovery", "jobs"}, left \in 0 .. MaxOpen, backlog \in BOOLEAN :
        Begin(Collector, kind, left, backlog)
  <2>1. QueriesPerRun \in 0 .. MaxOpen /\ Batch \in 0 .. MaxOpen
    BY ConstantFacts, QuotaAssumption
  <2> QED
    BY <2>1 DEF StartTick
<1> QED
  BY <1>1, <1>2, ConstantFacts, BeginStep

LEMMA RequestDiscoveryStep ==
  ASSUME QuotaTypeOK, BooksInv, EffortInv, NEW r \in Requests, RequestDiscovery(r)
  PROVE  QuotaTypeOK' /\ BooksInv' /\ EffortInv' /\ Kept
<1>1. Idle(r) /\ UNCHANGED <<clock, books, hung, losses, history>>
  BY DEF RequestDiscovery
<1>2. PICK backlog \in BOOLEAN, n \in {QueriesPerRun} \cup 1 .. MaxQueries :
        Begin(r, "discovery", n, backlog)
  BY DEF RequestDiscovery
<1>3. n \in 0 .. MaxOpen /\ r \in Sessions
  BY ConstantFacts, QuotaAssumption
<1> QED
  BY <1>1, <1>2, <1>3, BeginStep

LEMMA SendNextStep ==
  ASSUME QuotaTypeOK, BooksInv, EffortInv, NEW s \in Sessions, At(s, "ready"),
         session[s].left > 0, NEW purpose \in Purposes, NEW high \in BOOLEAN,
         SendNext(s, purpose, high), UNCHANGED <<clock, books, hung, losses, lost>>
  PROVE  QuotaTypeOK' /\ BooksInv' /\ EffortInv' /\ Sent
<1> DEFINE rec == [at |-> "call", kind |-> session[s].kind, left |-> session[s].left - 1,
                   on |-> session[s].on, near |-> session[s].near,
                   backlog |-> session[s].backlog, purpose |-> purpose,
                   ordinary |-> ~high /\ ~session[s].near, day |-> QuotaDay]
<1>1. /\ session[s].left \in 0 .. MaxOpen /\ session[s].on \in Days
      /\ session[s].near \in BOOLEAN /\ session[s].backlog \in BOOLEAN
      /\ session[s].kind \in {"discovery", "jobs"}
  BY SessionFacts DEF At
<1>2. /\ session[s].left - 1 \in 0 .. MaxOpen /\ session[s].left - 1 \in Nat
      /\ MaxOpen \in Nat
  BY <1>1, ConstantFacts
<1>3. Becomes(s, rec)
  <2> DEFINE x == session[s]
             left == x.left - 1
             ordinary == ~high /\ ~x.near
  <2>1. Send(s, x.kind, left, x.on, x.near, x.backlog, purpose, ordinary)
    BY DEF SendNext
  <2>2. ordinary \in BOOLEAN /\ purpose \in Purposes \cup {"none"} /\ left \in 0 .. MaxOpen
    BY <1>2
  <2>3. UNCHANGED <<clock, books>> /\ x.kind \in {"discovery", "jobs", "resolve"}
        /\ (x.kind = "resolve" => At(s, "off"))
    BY <1>1
  <2>4. x.on \in Days /\ x.near \in BOOLEAN /\ x.backlog \in BOOLEAN
    BY <1>1
  <2> HIDE DEF left, ordinary, x
  <2>5. Becomes(s, [at |-> "call", kind |-> x.kind, left |-> left, on |-> x.on, near |-> x.near,
                    backlog |-> x.backlog, purpose |-> purpose, ordinary |-> ordinary,
                    day |-> QuotaDay])
    BY <2>1, <2>2, <2>3, <2>4, SendBecomes
  <2> QED
    BY <2>5 DEF x, left, ordinary
<1>4. spent' = [spent EXCEPT ![QuotaDay] = @ + 1]
  BY DEF SendNext, Send
<1>5. rec.at = "call" /\ rec.day = QuotaDay /\ rec.left = session[s].left - 1
  OBVIOUS
<1> HIDE DEF rec
<1>6. ASSUME NEW d \in Days
      PROVE  Unsaved(s, d) + 1 + rec.left <= MaxOpen
  <2>1. Unsaved(s, d) + session[s].left <= MaxOpen /\ Unsaved(s, d) \in Nat
    BY Allowance
  <2> QED
    BY <1>1, <1>2, <1>5, <2>1
<1>7. ~At(s, "call") /\ rec.left \in Nat
  BY <1>2, <1>5 DEF At
<1> QED
  BY <1>3, <1>4, <1>5, <1>6, <1>7, SendStep

LEMMA RequestResolveStep ==
  ASSUME QuotaTypeOK, BooksInv, EffortInv, NEW r \in Requests, RequestResolve(r)
  PROVE  QuotaTypeOK' /\ BooksInv' /\ EffortInv' /\ Sent
<1> DEFINE rec == [at |-> "call", kind |-> "resolve", left |-> 0, on |-> UtcDay,
                   near |-> NearReset, backlog |-> FALSE, purpose |-> "none",
                   ordinary |-> FALSE, day |-> QuotaDay]
<1>1. /\ r \in Sessions /\ Idle(r) /\ At(r, "off") /\ ~At(r, "call")
      /\ Send(r, "resolve", 0, UtcDay, NearReset, FALSE, "none", FALSE)
      /\ UNCHANGED <<clock, books, hung, losses, lost>>
  BY ConstantFacts DEF RequestResolve, Idle, At
<1>2. UtcDay \in Days /\ NearReset \in BOOLEAN /\ 0 \in 0 .. MaxOpen
  BY DayFacts, ConstantFacts DEF NearReset
<1>3. Becomes(r, rec)
  BY <1>1, <1>2, SendBecomes
<1>4. spent' = [spent EXCEPT ![QuotaDay] = @ + 1]
  BY <1>1 DEF Send
<1>5. rec.at = "call" /\ rec.day = QuotaDay /\ rec.left = 0
  OBVIOUS
<1> HIDE DEF rec
<1>6. \A d \in Days : Unsaved(r, d) + 1 + rec.left <= MaxOpen
  BY <1>1, <1>5, ConstantFacts, Allowance
<1> QED
  BY <1>1, <1>3, <1>4, <1>5, <1>6, SendStep

LEMMA DeferStep ==
  ASSUME QuotaTypeOK, BooksInv, EffortInv, Defer
  PROVE  QuotaTypeOK' /\ BooksInv' /\ EffortInv' /\ Kept
<1> DEFINE s == Collector
           rec == [session[s] EXCEPT !.left = @ - 1]
<1>1. /\ s \in Sessions /\ At(s, "ready") /\ session[s].kind = "jobs" /\ session[s].left > 0
      /\ session' = [session EXCEPT ![s].left = @ - 1]
      /\ UNCHANGED <<clock, books, hung, losses, history>>
  BY ConstantFacts DEF Defer, Between
<1>2. session' = [session EXCEPT ![s] = rec]
  BY <1>1
<1>3. session[s] \in Ready
  BY <1>1 DEF QuotaTypeOK, At, Off, Ready, Calling
<1>4. session[s].left - 1 \in 0 .. MaxOpen /\ session[s].left \in Nat
  BY <1>1, <1>3, ConstantFacts DEF Ready
<1>5. rec \in Ready /\ rec.at = "ready" /\ rec.left = session[s].left - 1
  BY <1>3, <1>4 DEF Ready
<1> HIDE DEF rec, s
<1>6. Becomes(s, rec)
  BY <1>2, <1>5 DEF Becomes
<1>7. ASSUME NEW d \in Days
      PROVE  Unsaved(s, d) + rec.left <= MaxOpen
  <2>1. Unsaved(s, d) + session[s].left <= MaxOpen /\ Unsaved(s, d) \in Nat /\ MaxOpen \in Nat
    BY <1>1, Allowance, ConstantFacts
  <2> QED
    BY <1>4, <1>5, <2>1
<1>8. ~At(s, "call") /\ rec.left \in Nat
  BY <1>1, <1>4, <1>5 DEF At
<1> QED
  BY <1>1, <1>5, <1>6, <1>7, <1>8, QuietStep

LEMMA EndDiscoveryStep ==
  ASSUME QuotaTypeOK, BooksInv, EffortInv, NEW s \in Sessions, EndDiscovery(s)
  PROVE  QuotaTypeOK' /\ BooksInv' /\ EffortInv' /\ Kept
<1>1. At(s, "ready") /\ CommitBooks(s) /\ UNCHANGED <<clock, hung, losses, history>>
  BY DEF EndDiscovery, Between
<1>2. CASE Begin(s, "jobs", Batch, FALSE)
  <2> DEFINE rec == [at |-> "ready", kind |-> "jobs", left |-> Batch, on |-> UtcDay,
                     near |-> NearReset, backlog |-> FALSE]
  <2>1. Batch \in 0 .. MaxOpen /\ Batch \in Nat /\ Batch <= MaxOpen
    BY ConstantFacts, QuotaAssumption
  <2>2. session' = [session EXCEPT ![s] = rec] /\ rec.left = Batch
    BY <1>2 DEF Begin
  <2>3. UtcDay \in Days /\ NearReset \in BOOLEAN
    BY DayFacts DEF NearReset
  <2>4. rec \in Ready
    BY <2>1, <2>3 DEF Ready
  <2> HIDE DEF rec
  <2> QED
    BY <1>1, <2>1, <2>2, <2>4, CommitStep
<1>3. CASE session' = [session EXCEPT ![s] = Off]
  <2>1. Off.at = "off"
    BY DEF Off
  <2> QED
    BY <1>1, <1>3, <2>1, CommitStep
<1> QED
  BY <1>2, <1>3 DEF EndDiscovery

LEMMA EndTickStep ==
  ASSUME QuotaTypeOK, BooksInv, EffortInv, EndTick
  PROVE  QuotaTypeOK' /\ BooksInv' /\ EffortInv' /\ Kept
<1>1. /\ At(Collector, "ready") /\ CommitBooks(Collector) /\ Collector \in Sessions
      /\ session' = [session EXCEPT ![Collector] = Off]
      /\ UNCHANGED <<clock, hung, losses, history>>
  BY ConstantFacts DEF EndTick, Between
<1>2. Off.at = "off"
  BY DEF Off
<1> QED
  BY <1>1, <1>2, CommitStep

LEMMA HangStep ==
  ASSUME QuotaTypeOK, BooksInv, EffortInv, NEW s \in Sessions, Hang(s)
  PROVE  /\ QuotaTypeOK' /\ BooksInv' /\ EffortInv' /\ Kept
         /\ UNCHANGED <<clock, session, quota, draft, lost>>
<1>1. /\ hung' = TRUE /\ clock' = clock /\ quota' = quota /\ draft' = draft
      /\ session' = session /\ losses' = losses /\ spent' = spent /\ lost' = lost
  BY DEF Hang, books, history
<1>2. QuotaTypeOK'
  BY <1>1 DEF QuotaTypeOK
<1>3. BooksInv'
  BY <1>1 DEF BooksInv, At, QuotaDay
<1>4. EffortInv'
  BY <1>1 DEF EffortInv, Unsaved, Ahead, At
<1>5. Accounted' = Accounted
  BY <1>1 DEF Accounted, AllUncommitted, Uncommitted, Unsaved, Awaited
<1> QED
  BY <1>1, <1>2, <1>3, <1>4, <1>5 DEF Kept

LEMMA TickStep ==
  ASSUME QuotaTypeOK, BooksInv, EffortInv, Tick
  PROVE  /\ QuotaTypeOK' /\ BooksInv' /\ EffortInv' /\ Kept
         /\ UNCHANGED <<session, quota, draft, lost>>
         /\ QuotaDay <= QuotaDay'
<1>1. /\ clock < MaxClock /\ clock' = clock + 1 /\ quota' = quota /\ draft' = draft
      /\ session' = session /\ losses' = losses /\ spent' = spent /\ lost' = lost /\ hung' = hung
  BY DEF Tick, books, history
<1>2. clock \in Nat /\ clock + 1 \in Nat /\ clock <= clock + 1 /\ clock' \in 0 .. MaxClock
  BY <1>1, QuotaAssumption DEF QuotaTypeOK
<1>3. QuotaTypeOK'
  BY <1>1, <1>2 DEF QuotaTypeOK
<1>4. QuotaDay <= QuotaDay' /\ QuotaDay \in Nat /\ QuotaDay' \in Nat
  BY <1>1, <1>2, QuotaAssumption, DivisionGrows DEF QuotaDay
<1>5. BooksInv'
  <2>1. ASSUME NEW s \in Sessions, At(s, "call")
        PROVE  session[s].day <= QuotaDay'
    <3>1. session[s].day <= QuotaDay /\ session[s].day \in Nat
      BY <2>1, SessionFacts, ConstantFacts DEF BooksInv, At
    <3> QED
      BY <1>4, <3>1
  <2> QED
    BY <1>1, <2>1 DEF BooksInv, At
<1>6. EffortInv'
  BY <1>1 DEF EffortInv, Unsaved, Ahead, At
<1>7. Accounted' = Accounted
  BY <1>1 DEF Accounted, AllUncommitted, Uncommitted, Unsaved, Awaited
<1> QED
  BY <1>1, <1>3, <1>4, <1>5, <1>6, <1>7 DEF Kept

\* What any step does: the day changes only with the clock.
LEMMA NextStep ==
  ASSUME QuotaTypeOK, BooksInv, EffortInv, QuotaNext
  PROVE  /\ QuotaTypeOK' /\ BooksInv' /\ EffortInv'
         /\ \/ QuotaDay' = QuotaDay /\ (Kept \/ Sent \/ Moved)
            \/ Kept /\ QuotaDay <= QuotaDay'
<1> DEFINE Outcome == /\ QuotaTypeOK' /\ BooksInv' /\ EffortInv'
                      /\ \/ QuotaDay' = QuotaDay /\ (Kept \/ Sent \/ Moved)
                         \/ Kept /\ QuotaDay <= QuotaDay'
<1>1. ASSUME clock' = clock
      PROVE  QuotaDay' = QuotaDay
  BY <1>1 DEF QuotaDay
<1>2. CASE StartTick
  BY <1>1, <1>2, StartTickStep DEF StartTick
<1>3. ASSUME NEW r \in Requests, RequestDiscovery(r)
      PROVE  Outcome
  BY <1>1, <1>3, RequestDiscoveryStep DEF RequestDiscovery
<1>4. ASSUME NEW s \in Sessions, Query(s)
      PROVE  Outcome
  <2>1. /\ At(s, "ready") /\ session[s].left > 0 /\ SendNext(s, "discovery", FALSE)
        /\ UNCHANGED <<clock, books, hung, losses, lost>>
    BY <1>4 DEF Query, Between, MayQuery
  <2>2. QuotaTypeOK' /\ BooksInv' /\ EffortInv' /\ Sent
    BY <2>1, SendNextStep DEF Purposes
  <2> QED
    BY <1>1, <2>1, <2>2
<1>5. ASSUME NEW s \in Sessions, EndDiscovery(s)
      PROVE  Outcome
  BY <1>1, <1>5, EndDiscoveryStep DEF EndDiscovery
<1>6. CASE SearchIdentity
  <2>1. /\ At(Collector, "ready") /\ session[Collector].left > 0
        /\ UNCHANGED <<clock, books, hung, losses, lost>> /\ Collector \in Sessions
    BY <1>6, ConstantFacts DEF SearchIdentity, Between
  <2>2. PICK ambiguous \in BOOLEAN, high \in BOOLEAN :
          SendNext(Collector, IF ambiguous THEN "ambiguity" ELSE "unresolved", high)
    BY <1>6 DEF SearchIdentity
  <2>3. (IF ambiguous THEN "ambiguity" ELSE "unresolved") \in Purposes
    BY DEF Purposes
  <2>4. QuotaTypeOK' /\ BooksInv' /\ EffortInv' /\ Sent
    BY <2>1, <2>2, <2>3, SendNextStep
  <2> QED
    BY <1>1, <2>1, <2>4
<1>7. CASE Defer
  BY <1>1, <1>7, DeferStep DEF Defer
<1>8. CASE EndTick
  BY <1>1, <1>8, EndTickStep DEF EndTick
<1>9. ASSUME NEW s \in Sessions, Record(s)
      PROVE  Outcome
  BY <1>1, <1>9, RecordStep DEF Record
<1>10. ASSUME NEW r \in Requests, RequestResolve(r)
       PROVE  Outcome
  BY <1>1, <1>10, RequestResolveStep DEF RequestResolve
<1>11. ASSUME NEW r \in Requests, ResolveAnswered(r)
       PROVE  Outcome
  BY <1>1, <1>11, ResolveAnsweredStep, ConstantFacts DEF ResolveAnswered
<1>12. ASSUME NEW r \in Requests, ResolveFailed(r)
       PROVE  Outcome
  BY <1>1, <1>12, ResolveFailedStep, ConstantFacts DEF ResolveFailed
<1>13. ASSUME NEW s \in Sessions, Hang(s)
       PROVE  Outcome
  BY <1>1, <1>13, HangStep DEF Hang
<1>14. CASE Restart
  BY <1>1, <1>14, RestartStep DEF Restart
<1>15. CASE Tick
  BY <1>15, TickStep
<1> QED
  BY <1>2, <1>3, <1>4, <1>5, <1>6, <1>7, <1>8, <1>9, <1>10, <1>11, <1>12, <1>13, <1>14, <1>15
  DEF QuotaNext

\* One search more on both sides, or one accounted for on another day, leaves
\* the totals equal.
LEMMA TotalsAgree ==
  ASSUME QuotaTypeOK, BooksInv, QuotaTypeOK', BooksInv', CallsAccounted, Kept \/ Sent \/ Moved
  PROVE  CallsAccounted'
<1> DEFINE D == QuotaDay
           total == SumOver(spent, Days)
<1>1. /\ D \in Days /\ IsFiniteSet(Days)
      /\ SumOver(Accounted, Days) = total
      /\ \A d \in Days : spent[d] \in Nat /\ spent[d] \in Int
      /\ \A d \in Days : Accounted[d] \in Nat /\ Accounted[d] \in Int
      /\ \A d \in Days : spent'[d] \in Int
      /\ Accounted = [d \in Days |-> Accounted[d]] /\ spent = [d \in Days |-> spent[d]]
  BY ConstantFacts, DayFacts, AccountedType DEF CallsAccounted, QuotaTypeOK
<1>2. SUFFICES SumOver(spent', Days) = SumOver(Accounted', Days)
  BY DEF CallsAccounted
<1>3. total \in Int
  BY <1>1, SumType
<1> HIDE DEF total
<1>5. CASE Kept
  BY <1>1, <1>5 DEF Kept, total
<1>6. CASE Sent
  <2>1. spent' = [spent EXCEPT ![D] = @ + 1] /\ Accounted' = [Accounted EXCEPT ![D] = @ + 1]
    BY <1>6 DEF Sent
  <2>2. SumOver(spent', Days) = total + 1
    <3> DEFINE A == spent
    <3>1. A = [e \in Days |-> A[e]] /\ (\A e \in Days : A[e] \in Int) /\ D \in Days
          /\ 1 \in Int /\ IsFiniteSet(Days)
      BY <1>1
    <3> HIDE DEF A, D
    <3>2. SumOver([A EXCEPT ![D] = @ + 1], Days) = SumOver(A, Days) + 1
      BY <3>1, SumShift
    <3> QED
      BY <2>1, <3>2 DEF A, total, D
  <2>3. SumOver(Accounted', Days) = SumOver(Accounted, Days) + 1
    <3> DEFINE A == Accounted
    <3>1. A = [e \in Days |-> A[e]] /\ (\A e \in Days : A[e] \in Int) /\ D \in Days
          /\ 1 \in Int /\ IsFiniteSet(Days)
      BY <1>1
    <3> HIDE DEF A, D
    <3>2. SumOver([A EXCEPT ![D] = @ + 1], Days) = SumOver(A, Days) + 1
      BY <3>1, SumShift
    <3> QED
      BY <2>1, <3>2 DEF A, D
  <2> QED
    BY <1>1, <2>2, <2>3
<1>7. CASE Moved
  <2>1. PICK d0 \in Days : Accounted' = MovedFrom(d0)
    BY <1>7 DEF Moved
  <2> DEFINE m == [Accounted EXCEPT ![d0] = @ + (-1)]
  <2>2. SumOver(m, Days) = total + (-1)
    <3> DEFINE A == Accounted
    <3>1. A = [e \in Days |-> A[e]] /\ (\A e \in Days : A[e] \in Int) /\ SumOver(A, Days) = total
          /\ IsFiniteSet(Days)
      BY <1>1
    <3> HIDE DEF A
    <3>2. -1 \in Int
      OBVIOUS
    <3>3. SumOver([A EXCEPT ![d0] = @ + (-1)], Days) = SumOver(A, Days) + (-1)
      BY <3>1, <3>2, SumShift
    <3> QED
      BY <3>1, <3>3 DEF A
  <2>3. m = [e \in Days |-> m[e]] /\ \A e \in Days : m[e] \in Int
    BY <1>1
  <2>4. Accounted' = [m EXCEPT ![D] = @ + 1]
    <3>1. [Accounted EXCEPT ![d0] = @ - 1] = m
      <4>1. Accounted[d0] - 1 = Accounted[d0] + (-1)
        BY <1>1
      <4> QED
        BY <4>1
    <3> QED
      BY <2>1, <3>1 DEF MovedFrom
  <2>5. SumOver([m EXCEPT ![D] = @ + 1], Days) = SumOver(m, Days) + 1
    <3>1. D \in Days /\ 1 \in Int /\ IsFiniteSet(Days)
      BY <1>1
    <3> HIDE DEF m, D
    <3> QED
      BY <2>3, <3>1, SumShift
  <2> HIDE DEF m
  <2>6. SumOver(Accounted', Days) = total
    BY <1>3, <2>2, <2>4, <2>5
  <2>7. spent' = spent
    BY <1>7 DEF Moved
  <2> QED
    BY <2>6, <2>7 DEF total
<1> QED
  BY <1>5, <1>6, <1>7

LEMMA TodayStep ==
  ASSUME QuotaTypeOK, BooksInv, QuotaTypeOK', BooksInv', TodayInv,
         \/ QuotaDay' = QuotaDay /\ (Kept \/ Sent \/ Moved)
         \/ Kept /\ QuotaDay <= QuotaDay'
  PROVE  TodayInv'
<1> DEFINE D == QuotaDay
<1>1. /\ D \in Days /\ D \in Nat /\ Days \subseteq Nat
      /\ \A d \in Days : spent[d] \in Nat
      /\ \A d \in Days : Accounted[d] \in Nat
      /\ Accounted = [d \in Days |-> Accounted[d]] /\ spent = [d \in Days |-> spent[d]]
      /\ \A d \in Days : d > D => spent[d] = 0
      /\ spent[D] <= Accounted[D]
  BY ConstantFacts, DayFacts, AccountedType DEF TodayInv, QuotaTypeOK
<1>2. QuotaDay' \in Days
  <2>1. (QuotaDay \in Days)'
    BY TodayIsADay, PTL
  <2> QED
    BY <2>1
<1>3. CASE QuotaDay' = D /\ Sent
  <2>1. /\ spent'[D] = spent[D] + 1 /\ Accounted'[D] = Accounted[D] + 1
        /\ \A d \in Days \ {D} : spent'[d] = spent[d]
    BY <1>1, <1>3 DEF Sent
  <2> QED
    BY <1>1, <1>3, <2>1 DEF TodayInv
<1>4. CASE QuotaDay' = D /\ Moved
  <2>1. PICK d0 \in Days : Accounted' = MovedFrom(d0)
    BY <1>4 DEF Moved
  <2>2. Accounted'[D] = IF d0 = D THEN Accounted[D] - 1 + 1 ELSE Accounted[D] + 1
    BY <1>1, <2>1 DEF MovedFrom
  <2>3. Accounted[D] <= Accounted'[D] /\ spent' = spent
    BY <1>1, <1>4, <2>2 DEF Moved
  <2>4. Accounted'[D] \in Nat
    BY <1>1, <2>2
  <2> QED
    BY <1>1, <1>4, <2>3, <2>4 DEF TodayInv
<1>5. CASE Kept /\ D <= QuotaDay'
  <2>1. spent' = spent /\ Accounted' = Accounted
    BY <1>5 DEF Kept
  <2> QED
    BY <1>1, <1>2, <1>5, <2>1 DEF TodayInv
<1> QED
  BY <1>1, <1>3, <1>4, <1>5

--------------------------------------------------------------------------------
(* Sending. *)

\* A search is sent by one session, and either after a look at today's row or
\* out of what a discovery of an earlier day has left.
SentBy(s) ==
  /\ ~At(s, "call") /\ session'[s].at = "call"
  /\ \A t \in Sessions \ {s} : session'[t] = session[t]
  /\ clock' = clock /\ lost' = lost
  /\ spent' = [spent EXCEPT ![QuotaDay] = @ + 1]
  /\ \/ /\ session'[s].kind = "discovery" => session'[s].on = QuotaDay
        /\ Seen(s, QuotaDay).calls + 1 <= Cap
        /\ session'[s].ordinary => Seen(s, QuotaDay).calls + 1 <= Cap - Reserve
     \/ /\ At(s, "ready") /\ session[s].kind = "discovery" /\ session[s].on # QuotaDay
        /\ session[s].left > 0
        /\ session'[s].kind = "discovery" /\ session'[s].on = session[s].on
        /\ session'[s].left = session[s].left - 1

SendsNothing == spent' = spent /\ \A s \in Sessions : session'[s].at = "call" => At(s, "call")

LEMMA SentRecord ==
  ASSUME QuotaTypeOK, NEW s \in Sessions, NEW kind, NEW left, NEW on, NEW near, NEW backlog,
         NEW purpose, NEW ordinary, Send(s, kind, left, on, near, backlog, purpose, ordinary)
  PROVE  /\ session'[s].at = "call" /\ session'[s].kind = kind /\ session'[s].left = left
         /\ session'[s].on = on /\ session'[s].ordinary = ordinary
         /\ \A t \in Sessions \ {s} : session'[t] = session[t]
         /\ spent' = [spent EXCEPT ![QuotaDay] = @ + 1]
BY DEF QuotaTypeOK, Send

LEMMA QuerySends ==
  ASSUME QuotaTypeOK, NEW s \in Sessions, Query(s)
  PROVE  SentBy(s)
<1> DEFINE ordinary == ~FALSE /\ ~session[s].near
<1>1. /\ At(s, "ready") /\ session[s].kind = "discovery" /\ session[s].left > 0
      /\ CanSpendSearch(Seen(s, session[s].on), "discovery", session[s].backlog,
                        session[s].near, FALSE)
      /\ Send(s, session[s].kind, session[s].left - 1, session[s].on, session[s].near,
              session[s].backlog, "discovery", ordinary)
      /\ clock' = clock /\ lost' = lost
  BY DEF Query, Between, MayQuery, SendNext
<1>2. ordinary => ~session[s].near
  OBVIOUS
<1> HIDE DEF ordinary
<1>3. /\ session'[s].at = "call" /\ session'[s].kind = session[s].kind
      /\ session'[s].left = session[s].left - 1
      /\ session'[s].on = session[s].on /\ session'[s].ordinary = ordinary
      /\ \A t \in Sessions \ {s} : session'[t] = session[t]
      /\ spent' = [spent EXCEPT ![QuotaDay] = @ + 1]
  BY <1>1, SentRecord
<1>4. ~At(s, "call")
  BY <1>1 DEF At
<1>5. CASE session[s].on = QuotaDay
  BY <1>1, <1>2, <1>3, <1>4, <1>5 DEF SentBy, CanSpendSearch, CanSpend
<1>6. CASE session[s].on # QuotaDay
  BY <1>1, <1>3, <1>4, <1>6 DEF SentBy
<1> QED
  BY <1>5, <1>6

LEMMA SearchIdentitySends ==
  ASSUME QuotaTypeOK, SearchIdentity
  PROVE  SentBy(Collector)
<1> DEFINE s == Collector
<1>1. /\ s \in Sessions /\ At(s, "ready") /\ session[s].kind = "jobs"
      /\ clock' = clock /\ lost' = lost
  BY ConstantFacts DEF SearchIdentity, Between
<1>2. PICK ambiguous \in BOOLEAN, high \in BOOLEAN :
        /\ MaySearch(ambiguous, high)
        /\ SendNext(s, IF ambiguous THEN "ambiguity" ELSE "unresolved", high)
  BY DEF SearchIdentity
<1> DEFINE purpose == IF ambiguous THEN "ambiguity" ELSE "unresolved"
           ordinary == ~high /\ ~session[s].near
<1>3. /\ Seen(s, QuotaDay).calls + 1 <= Cap
      /\ ordinary => Seen(s, QuotaDay).calls + 1 <= Cap - Reserve
  BY <1>2 DEF MaySearch, CanSpendSearch, CanSpend
<1>4. Send(s, session[s].kind, session[s].left - 1, session[s].on, session[s].near,
           session[s].backlog, purpose, ordinary)
  BY <1>2 DEF SendNext
<1> HIDE DEF ordinary, purpose, s
<1>5. /\ session'[s].at = "call" /\ session'[s].kind = session[s].kind
      /\ session'[s].ordinary = ordinary
      /\ \A t \in Sessions \ {s} : session'[t] = session[t]
      /\ spent' = [spent EXCEPT ![QuotaDay] = @ + 1]
  BY <1>1, <1>4, SentRecord
<1>6. ~At(s, "call")
  BY <1>1 DEF At
<1> QED
  BY <1>1, <1>3, <1>5, <1>6 DEF SentBy, s

LEMMA RequestResolveSends ==
  ASSUME QuotaTypeOK, BooksInv, NEW r \in Requests, RequestResolve(r)
  PROVE  SentBy(r)
<1>1. /\ r \in Sessions /\ At(r, "off") /\ quota[QuotaDay].calls < SelfCap
      /\ Send(r, "resolve", 0, UtcDay, NearReset, FALSE, "none", FALSE)
      /\ clock' = clock /\ lost' = lost
  BY ConstantFacts DEF RequestResolve, Idle
<1>2. /\ session'[r].at = "call" /\ session'[r].kind = "resolve" /\ session'[r].ordinary = FALSE
      /\ \A t \in Sessions \ {r} : session'[t] = session[t]
      /\ spent' = [spent EXCEPT ![QuotaDay] = @ + 1]
  BY <1>1, SentRecord
<1>3. Seen(r, QuotaDay).calls + 1 <= Cap
  <2>1. Seen(r, QuotaDay) = quota[QuotaDay]
    BY <1>1 DEF Seen, BooksInv
  <2>2. quota[QuotaDay].calls \in Nat
    BY DayFacts, RowFacts, <1>1
  <2> QED
    BY <1>1, <2>1, <2>2, QuotaAssumption
<1>4. ~At(r, "call")
  BY <1>1 DEF At
<1> QED
  BY <1>1, <1>2, <1>3, <1>4 DEF SentBy

\* Every search is sent by Query, SearchIdentity or RequestResolve.
LEMMA NextSends ==
  ASSUME QuotaTypeOK, BooksInv, QuotaNext
  PROVE  SendsNothing \/ \E s \in Sessions : SentBy(s)
<1>1. ASSUME NEW s \in Sessions, NEW kind, NEW left, NEW backlog, Begin(s, kind, left, backlog)
      PROVE  \A t \in Sessions : session'[t].at = "call" => At(t, "call")
  BY <1>1 DEF Begin, QuotaTypeOK, At
<1>2. ASSUME NEW s \in Sessions, session' = [session EXCEPT ![s] = Off]
      PROVE  \A t \in Sessions : session'[t].at = "call" => At(t, "call")
  BY <1>2 DEF Off, QuotaTypeOK, At
<1>3. CASE StartTick
  BY <1>1, <1>3, ConstantFacts DEF StartTick, SendsNothing, history
<1>4. ASSUME NEW r \in Requests, RequestDiscovery(r)
      PROVE  SendsNothing
  BY <1>1, <1>4, ConstantFacts DEF RequestDiscovery, SendsNothing, history
<1>5. ASSUME NEW s \in Sessions, EndDiscovery(s)
      PROVE  SendsNothing
  BY <1>1, <1>2, <1>5 DEF EndDiscovery, SendsNothing, history
<1>6. CASE Defer
  <2>1. At(Collector, "ready") /\ session' = [session EXCEPT ![Collector].left = @ - 1] /\ spent' = spent
    BY <1>6 DEF Defer, Between, history
  <2>2. \A t \in Sessions : session'[t].at = session[t].at
    <3>1. session[Collector] \in Ready
      BY <2>1, ConstantFacts DEF QuotaTypeOK, At, Off, Ready, Calling
    <3>2. session'[Collector].at = session[Collector].at
      BY <2>1, <3>1, ConstantFacts DEF QuotaTypeOK, Ready
    <3> QED
      BY <2>1, <3>2 DEF QuotaTypeOK
  <2> QED
    BY <2>1, <2>2 DEF SendsNothing, At
<1>7. CASE EndTick
  BY <1>2, <1>7, ConstantFacts DEF EndTick, SendsNothing, history
<1>8. ASSUME NEW s \in Sessions, Record(s)
      PROVE  SendsNothing
  BY <1>8 DEF Record, SendsNothing, history, QuotaTypeOK, At
<1>9. ASSUME NEW r \in Requests, ResolveAnswered(r)
      PROVE  SendsNothing
  BY <1>2, <1>9, ConstantFacts DEF ResolveAnswered, Answered, SendsNothing, history
<1>10. ASSUME NEW r \in Requests, ResolveFailed(r)
       PROVE  SendsNothing
  BY <1>2, <1>10, ConstantFacts DEF ResolveFailed, Answered, SendsNothing, history
<1>11. ASSUME NEW s \in Sessions, Hang(s)
       PROVE  SendsNothing
  BY <1>11 DEF Hang, SendsNothing, history, At
<1>12. CASE Restart
  BY <1>12 DEF Restart, SendsNothing, Off
<1>13. CASE Tick
  BY <1>13 DEF Tick, SendsNothing, history, At
<1> QED
  BY <1>3, <1>4, <1>5, <1>6, <1>7, <1>8, <1>9, <1>10, <1>11, <1>12, <1>13, ConstantFacts,
     QuerySends, SearchIdentitySends, RequestResolveSends DEF QuotaNext

\* What has been sent by the others, or may be without asking, fits into their
\* allowances: a search sent after a look at today's row keeps within the limit
\* it was asked for, up to what the books could not show.
LEMMA CheckedSend ==
  ASSUME QuotaTypeOK, BooksInv, EffortInv, TodayInv, NEW s \in Sessions, ~At(s, "call"),
         NEW limit \in Int, Seen(s, QuotaDay).calls + 1 <= limit
  PROVE  spent[QuotaDay] + 1 + SumOver(UncheckedBy, Sessions \ {s}) <= limit + lost[QuotaDay] + Overlap
<1> DEFINE D == QuotaDay
           rest == Sessions \ {s}
           f == [t \in Sessions |-> Uncommitted(t, D)]
           g == UncheckedBy
           h == [t \in Sessions |-> Uncommitted(t, D) + Unchecked(t)]
<1>1. D \in Days /\ quota[D].calls \in Nat /\ Seen(s, D).calls \in Nat
      /\ lost[D] \in Nat /\ spent[D] \in Nat
  BY DayFacts, RowFacts DEF QuotaTypeOK
<1>2. ASSUME NEW t \in Sessions
      PROVE  /\ Uncommitted(t, D) \in Nat /\ Unchecked(t) \in Nat
             /\ Uncommitted(t, D) + Unchecked(t) <= MaxOpen
  <2>1. Unsaved(t, D) \in Nat /\ Awaited(t, D) \in Nat /\ Uncommitted(t, D) = Unsaved(t, D) + Awaited(t, D)
    BY <1>1, UncommittedFacts DEF Uncommitted
  <2>2. Unsaved(t, D) + Ahead(t) <= MaxOpen
    BY <1>1 DEF EffortInv
  <2>3. session[t].at \in {"off", "ready", "call"}
        /\ (session[t].at # "off" => session[t].left \in Nat)
    BY SessionFacts, ConstantFacts
  <2>4. Unchecked(t) \in Nat /\ Awaited(t, D) + Unchecked(t) <= Ahead(t) /\ Ahead(t) \in Nat
    BY <2>3 DEF Unchecked, Awaited, Ahead, At
  <2> QED
    BY <2>1, <2>2, <2>4, ConstantFacts
<1>3. IsFiniteSet(Sessions) /\ IsFiniteSet(rest) /\ Cardinality(rest) = Cardinality(Requests)
  <2>1. Cardinality(Sessions) = Cardinality(Requests) + 1
    BY QuotaAssumption, ConstantFacts, FS_AddElement DEF Sessions
  <2>2. IsFiniteSet(rest) /\ Cardinality(rest) = Cardinality(Sessions) - 1
    BY ConstantFacts, FS_RemoveElement
  <2> QED
    BY <2>1, <2>2, ConstantFacts
<1>4. /\ \A t \in Sessions : f[t] \in Nat /\ g[t] \in Nat /\ f[t] \in Int /\ g[t] \in Int
      /\ \A t \in Sessions : h[t] = f[t] + g[t] /\ h[t] \in Int /\ h[t] <= MaxOpen
      /\ f[s] = Uncommitted(s, D)
  BY <1>2, ConstantFacts DEF UncheckedBy
<1>5. AllUncommitted(D) = SumOver(f, Sessions)
  BY DEF AllUncommitted
<1> HIDE DEF f, g, h
<1>6. SumOver(f, Sessions) = SumOver(f, rest) + f[s]
  BY <1>3, <1>4, SumRemove
<1>7. SumOver(h, rest) = SumOver(f, rest) + SumOver(g, rest)
  BY <1>3, <1>4, SumAdd
<1>8. SumOver(h, rest) <= Cardinality(rest) * MaxOpen
  BY <1>3, <1>4, ConstantFacts, SumBounded
<1>9. SumOver(f, rest) \in Nat /\ SumOver(g, rest) \in Nat
  BY <1>3, <1>4, SumType
<1>10. SumOver(f, rest) + SumOver(g, rest) <= Overlap
  BY <1>3, <1>7, <1>8 DEF Overlap
<1>11. quota[D].calls + f[s] = Seen(s, D).calls
  <2>1. Awaited(s, D) = 0
    BY DEF Awaited, At
  <2>2. quota[D].calls + Unsaved(s, D) = Seen(s, D).calls
    <3>1. CASE D \in DOMAIN draft[s]
      BY <1>1, <3>1 DEF Unsaved, Seen
    <3>2. CASE D \notin DOMAIN draft[s]
      BY <1>1, <3>2 DEF Unsaved, Seen
    <3> QED
      BY <3>1, <3>2
  <2>3. Unsaved(s, D) \in Nat
    BY <1>1, UncommittedFacts
  <2> QED
    BY <1>4, <2>1, <2>2, <2>3 DEF Uncommitted
<1>12. spent[D] <= quota[D].calls + AllUncommitted(D) + lost[D]
  BY <1>1 DEF TodayInv, Accounted
<1>13. f[s] \in Nat /\ Overlap \in Nat
  BY <1>4, ConstantFacts
<1>14. spent[D] <= Seen(s, D).calls + SumOver(f, rest) + lost[D]
  BY <1>1, <1>5, <1>6, <1>9, <1>11, <1>12, <1>13
<1> HIDE DEF D, rest
<1>15. spent[D] + 1 + SumOver(g, rest) <= limit + lost[D] + Overlap
  <2>1. Seen(s, D).calls + 1 <= limit
    BY DEF D
  <2> QED
    BY <1>1, <1>9, <1>10, <1>13, <1>14, <2>1
<1> QED
  BY <1>15 DEF D, rest, g

--------------------------------------------------------------------------------
(* Discovery across the reset. *)

\* A session that discovers goes on with what it had left, or begins today.
Moves(s) ==
  \/ session'[s].at = "off"
  \/ session'[s].kind # "discovery"
  \/ /\ ~At(s, "off") /\ session[s].kind = "discovery"
     /\ session'[s].on = session[s].on /\ session'[s].left <= session[s].left
  \/ DiscoveryEnabled /\ session'[s].on = UtcDay /\ session'[s].left <= MostQueries

LEMMA SameMoves ==
  ASSUME QuotaTypeOK, NEW s \in Sessions, session'[s] = session[s]
  PROVE  Moves(s)
<1>1. session[s].at # "off" => session[s].left \in Nat
  BY SessionFacts, ConstantFacts
<1> QED
  BY <1>1 DEF Moves, At

\* No step extends a discovery, and no loss is forgotten.
LEMMA NextMoves ==
  ASSUME QuotaTypeOK, BooksInv, QuotaNext
  PROVE  (\A s \in Sessions : Moves(s)) /\ \A d \in Days : lost[d] <= lost'[d]
<1> DEFINE Outcome == (\A s \in Sessions : Moves(s)) /\ \A d \in Days : lost[d] <= lost'[d]
<1>1. ASSUME lost' = lost
      PROVE  \A d \in Days : lost[d] <= lost'[d]
  BY <1>1 DEF QuotaTypeOK
<1>2. ASSUME NEW s \in Sessions, NEW rec, session' = [session EXCEPT ![s] = rec],
             \/ rec.at = "off" \/ rec.kind # "discovery"
             \/ DiscoveryEnabled /\ rec.on = UtcDay /\ rec.left <= MostQueries
      PROVE  \A t \in Sessions : Moves(t)
  <2>1. session'[s] = rec /\ \A t \in Sessions \ {s} : session'[t] = session[t]
    BY <1>2 DEF QuotaTypeOK
  <2>2. Moves(s)
    BY <1>2, <2>1 DEF Moves
  <2> QED
    BY <2>1, <2>2, SameMoves
<1>3. ASSUME NEW s \in Sessions, NEW kind, NEW left, NEW backlog, Begin(s, kind, left, backlog),
             kind = "discovery" => DiscoveryEnabled /\ left <= MostQueries
      PROVE  \A t \in Sessions : Moves(t)
  <2> DEFINE rec == [at |-> "ready", kind |-> kind, left |-> left, on |-> UtcDay,
                     near |-> NearReset, backlog |-> backlog]
  <2>1. session' = [session EXCEPT ![s] = rec]
    BY <1>3 DEF Begin
  <2>2. rec.kind = kind /\ rec.on = UtcDay /\ rec.left = left
    OBVIOUS
  <2> HIDE DEF rec
  <2> QED
    BY <1>2, <1>3, <2>1, <2>2
<1>4. Off.at = "off"
  BY DEF Off
<1>5. ASSUME NEW s \in Sessions, session' = [session EXCEPT ![s] = Off]
      PROVE  \A t \in Sessions : Moves(t)
  BY <1>2, <1>4, <1>5
<1>6. ASSUME session' = session
      PROVE  \A t \in Sessions : Moves(t)
  BY <1>6, SameMoves
<1>7. ASSUME NEW s \in Sessions, SentBy(s),
             session'[s].kind = "discovery" => At(s, "ready") /\ session[s].kind = "discovery"
                                             /\ session'[s].on = session[s].on
                                             /\ session'[s].left = session[s].left - 1
      PROVE  \A t \in Sessions : Moves(t)
  <2>1. At(s, "ready") => session[s].left \in Nat
    BY SessionFacts, ConstantFacts DEF At
  <2>2. Moves(s)
    BY <1>7, <2>1 DEF Moves, At
  <2> QED
    BY <1>7, <2>2, SameMoves DEF SentBy
<1>8. CASE StartTick
  <2>1. lost' = lost /\ Collector \in Sessions
    BY <1>8, ConstantFacts DEF StartTick, history
  <2>2. CASE DiscoveryEnabled
    <3>1. PICK backlog \in BOOLEAN : Begin(Collector, "discovery", QueriesPerRun, backlog)
      BY <1>8, <2>2 DEF StartTick
    <3>2. QueriesPerRun <= MostQueries
      BY ConstantFacts
    <3> QED
      BY <1>1, <1>3, <2>1, <2>2, <3>1, <3>2
  <2>3. CASE Begin(Collector, "jobs", Batch, FALSE)
    <3>0. PICK backlog \in BOOLEAN : Begin(Collector, "jobs", Batch, backlog)
      BY <2>3
    <3>1. \A t \in Sessions : Moves(t)
      BY <1>3, <2>1, <3>0
    <3> QED
      BY <1>1, <2>1, <3>1
  <2> QED
    BY <1>8, <2>2, <2>3 DEF StartTick
<1>9. ASSUME NEW r \in Requests, RequestDiscovery(r)
      PROVE  Outcome
  <2>1. PICK backlog \in BOOLEAN, n \in {QueriesPerRun} \cup 1 .. MaxQueries :
          Begin(r, "discovery", n, backlog)
    BY <1>9 DEF RequestDiscovery
  <2>2. n <= MostQueries /\ r \in Sessions
    BY ConstantFacts, QuotaAssumption
  <2>3. \A t \in Sessions : Moves(t)
    BY <1>3, <1>9, <2>1, <2>2 DEF RequestDiscovery
  <2> QED
    BY <1>1, <1>9, <2>3 DEF RequestDiscovery, history
<1>10. ASSUME NEW s \in Sessions, Query(s)
       PROVE  Outcome
  <2>1. SentBy(s) /\ lost' = lost /\ At(s, "ready") /\ session[s].kind = "discovery"
    BY <1>10, QuerySends DEF Query, Between
  <2>2. session'[s].on = session[s].on /\ session'[s].left = session[s].left - 1
    BY <1>10 DEF Query, SendNext, Send, QuotaTypeOK
  <2> QED
    BY <1>1, <1>7, <2>1, <2>2
<1>11. ASSUME NEW s \in Sessions, EndDiscovery(s)
       PROVE  Outcome
  <2>1. lost' = lost
    BY <1>11 DEF EndDiscovery, history
  <2>2. CASE Begin(s, "jobs", Batch, FALSE)
    <3>0. PICK backlog \in BOOLEAN : Begin(s, "jobs", Batch, backlog)
      BY <2>2
    <3>1. \A t \in Sessions : Moves(t)
      BY <1>3, <3>0
    <3> QED
      BY <1>1, <2>1, <3>1
  <2>3. CASE session' = [session EXCEPT ![s] = Off]
    BY <1>1, <1>5, <2>1, <2>3
  <2> QED
    BY <1>11, <2>2, <2>3 DEF EndDiscovery
<1>12. CASE SearchIdentity
  <2>1. SentBy(Collector) /\ Collector \in Sessions /\ lost' = lost
    BY <1>12, SearchIdentitySends, ConstantFacts DEF SearchIdentity
  <2>2. session'[Collector].kind = "jobs"
    BY <1>12, <2>1 DEF SearchIdentity, SendNext, Send, QuotaTypeOK, Between
  <2> QED
    BY <1>1, <1>7, <2>1, <2>2
<1>13. CASE Defer
  <2> DEFINE s == Collector
             rec == [session[s] EXCEPT !.left = @ - 1]
  <2>1. /\ s \in Sessions /\ At(s, "ready") /\ session[s].kind = "jobs" /\ lost' = lost
        /\ session' = [session EXCEPT ![s] = rec]
    BY <1>13, ConstantFacts DEF Defer, Between, history
  <2>2. session[s] \in Ready
    BY <2>1 DEF QuotaTypeOK, At, Off, Ready, Calling
  <2>3. rec.kind = "jobs"
    BY <2>1, <2>2 DEF Ready
  <2> HIDE DEF rec, s
  <2> QED
    BY <1>1, <1>2, <2>1, <2>3
<1>14. CASE EndTick
  BY <1>1, <1>5, <1>14, ConstantFacts DEF EndTick, history
<1>15. ASSUME NEW s \in Sessions, Record(s)
       PROVE  Outcome
  <2>1. /\ session'[s].at = "ready" /\ session'[s].kind = session[s].kind
        /\ session'[s].on = session[s].on /\ session'[s].left = session[s].left
        /\ \A t \in Sessions \ {s} : session'[t] = session[t]
        /\ lost' = lost /\ At(s, "call")
    BY <1>15 DEF Record, history, QuotaTypeOK
  <2>2. session[s].left \in Nat
    BY <2>1, SessionFacts, ConstantFacts DEF At
  <2>3. Moves(s)
    BY <2>1, <2>2 DEF Moves, At
  <2> QED
    BY <1>1, <2>1, <2>3, SameMoves
<1>16. ASSUME NEW r \in Requests, RequestResolve(r)
       PROVE  Outcome
  <2>1. SentBy(r) /\ r \in Sessions /\ lost' = lost
    BY <1>16, RequestResolveSends, ConstantFacts DEF RequestResolve
  <2>2. session'[r].kind = "resolve"
    BY <1>16, <2>1 DEF RequestResolve, Send, QuotaTypeOK
  <2> QED
    BY <1>1, <1>7, <2>1, <2>2
<1>17. ASSUME NEW r \in Requests, ResolveAnswered(r)
       PROVE  Outcome
  BY <1>1, <1>5, <1>17, ConstantFacts DEF ResolveAnswered, Answered, history
<1>18. ASSUME NEW r \in Requests, ResolveFailed(r)
       PROVE  Outcome
  <2>1. \A t \in Sessions : Moves(t)
    BY <1>5, <1>18, ConstantFacts DEF ResolveFailed, Answered
  <2>2. lost' = [lost EXCEPT ![session[r].day] = @ + 1] /\ lost \in [Days -> Nat]
    BY <1>18 DEF ResolveFailed, QuotaTypeOK
  <2> QED
    BY <2>1, <2>2
<1>19. ASSUME NEW s \in Sessions, Hang(s)
       PROVE  Outcome
  BY <1>1, <1>6, <1>19 DEF Hang, history
<1>20. CASE Restart
  BY <1>20, <1>4, RestartStep DEF Moves
<1>21. CASE Tick
  BY <1>1, <1>6, <1>21 DEF Tick, history
<1> QED
  BY <1>8, <1>9, <1>10, <1>11, <1>12, <1>13, <1>14, <1>15, <1>16, <1>17, <1>18, <1>19, <1>20, <1>21
  DEF QuotaNext

\* Discovery is off unless youtube_discovery_enabled turns it on.  Where it is
\* on, it must ask for the right day, which it does if the provider's day is
\* UTC's, and a run that outlasts its day must fit into the cap.
Punctual == DiscoveryEnabled => Lead = 0 /\ MostQueries <= Cap

LEMMA PunctualDay ==
  ASSUME Punctual, DiscoveryEnabled, QuotaTypeOK
  PROVE  UtcDay = QuotaDay
BY QuotaAssumption DEF Punctual, UtcDay, QuotaDay, QuotaTypeOK

LEMMA DiscoveryStep ==
  ASSUME Punctual, QuotaTypeOK, BooksInv, QuotaTypeOK', DiscoveryInv, QuotaDay <= QuotaDay',
         \A s \in Sessions : Moves(s)
  PROVE  DiscoveryInv'
<1> SUFFICES ASSUME NEW s \in Sessions, session'[s].at # "off", session'[s].kind = "discovery"
             PROVE  /\ DiscoveryEnabled /\ session'[s].left <= MostQueries
                    /\ session'[s].on <= QuotaDay'
  BY DEF DiscoveryInv, At
<1>1. Moves(s)
  OBVIOUS
<1>2. QuotaDay \in Nat /\ QuotaDay' \in Nat /\ MostQueries \in Nat
  <2>1. (QuotaDay \in Days)'
    BY TodayIsADay, PTL
  <2> QED
    BY <2>1, DayFacts, ConstantFacts, QuotaAssumption
<1>3. session'[s].left \in Nat
  <2>1. session'[s] \in {Off} \cup Ready \cup Calling
    BY DEF QuotaTypeOK
  <2> QED
    BY <2>1, ConstantFacts DEF Off, Ready, Calling
<1>4. CASE /\ ~At(s, "off") /\ session[s].kind = "discovery"
           /\ session'[s].on = session[s].on /\ session'[s].left <= session[s].left
  <2>1. DiscoveryEnabled /\ session[s].left <= MostQueries /\ session[s].on <= QuotaDay
    BY <1>4 DEF DiscoveryInv
  <2>2. session[s].left \in Nat /\ session[s].on \in Nat
    <3>1. session[s].at # "off"
      BY <1>4 DEF At
    <3> QED
      BY <3>1, SessionNumbers
  <2> QED
    BY <1>2, <1>3, <1>4, <2>1, <2>2
<1>5. CASE DiscoveryEnabled /\ session'[s].on = UtcDay /\ session'[s].left <= MostQueries
  BY <1>2, <1>5, PunctualDay
<1> QED
  BY <1>1, <1>4, <1>5 DEF Moves

LEMMA UncheckedFacts ==
  ASSUME QuotaTypeOK, DiscoveryInv, NEW s \in Sessions
  PROVE  /\ Unchecked(s) \in Nat /\ UncheckedBy[s] = Unchecked(s)
         /\ Unchecked(s) <= (IF DiscoveryEnabled THEN MostQueries ELSE 0)
<1>1. session[s].at # "off" => session[s].left \in Nat
  BY SessionFacts, ConstantFacts
<1> QED
  BY <1>1, ConstantFacts, QuotaAssumption DEF Unchecked, UncheckedBy, DiscoveryInv, At

\* For the state after a step.
UncheckedTyped ==
  \A s \in Sessions : /\ Unchecked(s) \in Nat /\ UncheckedBy[s] = Unchecked(s)
                      /\ Unchecked(s) <= (IF DiscoveryEnabled THEN MostQueries ELSE 0)

LEMMA UncheckedIsTyped == QuotaTypeOK /\ DiscoveryInv => UncheckedTyped
BY UncheckedFacts DEF UncheckedTyped

\* Today's searches, and those that will not ask, stay within the bound.
LEMMA StretchStep ==
  ASSUME Punctual, QuotaTypeOK, BooksInv, EffortInv, TodayInv, DiscoveryInv, StretchInv, QuotaNext,
         QuotaTypeOK', DiscoveryInv', TodayInv',
         \/ QuotaDay' = QuotaDay /\ (Kept \/ Sent \/ Moved)
         \/ Kept /\ QuotaDay <= QuotaDay'
  PROVE  StretchInv'
<1> DEFINE D == QuotaDay
           u == UncheckedBy
           v == UncheckedBy'
           bound == IF DiscoveryEnabled THEN MostQueries ELSE 0
<1>1. /\ D \in Days /\ Overlap \in Nat /\ Cap \in Nat /\ IsFiniteSet(Sessions)
      /\ spent[D] \in Nat /\ lost[D] \in Nat /\ lost'[D] \in Nat /\ spent'[D] \in Nat
      /\ lost[D] <= lost'[D]
  BY DayFacts, ConstantFacts, QuotaAssumption, NextMoves DEF QuotaTypeOK
<1>2. QuotaDay' \in Days /\ QuotaDay' \in Nat /\ D \in Nat
  <2>1. (QuotaDay \in Days)'
    BY TodayIsADay, PTL
  <2> QED
    BY <1>1, <2>1, ConstantFacts
<1>3. \A s \in Sessions : u[s] = Unchecked(s) /\ u[s] \in Nat /\ u[s] \in Int
  BY UncheckedFacts
<1>4. \A s \in Sessions : v[s] = (Unchecked(s))' /\ v[s] \in Nat /\ v[s] \in Int /\ v[s] <= bound
  <2>1. UncheckedTyped'
    BY UncheckedIsTyped, PTL
  <2> QED
    BY <2>1 DEF UncheckedTyped
<1>5. spent[D] + SumOver(u, Sessions) <= Cap + lost[D] + Overlap
  BY DEF StretchInv
<1>6. SUFFICES spent'[QuotaDay'] + SumOver(v, Sessions) <= Cap + lost'[QuotaDay'] + Overlap
  BY DEF StretchInv
<1>7. SumOver(u, Sessions) \in Nat /\ SumOver(v, Sessions) \in Nat
  <2> HIDE DEF u, v
  <2> QED
    BY <1>1, <1>3, <1>4, SumType
<1>8. \A s \in Sessions : Moves(s)
  BY NextMoves
<1>9. CASE QuotaDay' = D /\ spent' = spent
  <2>1. ASSUME NEW s \in Sessions
        PROVE  v[s] <= u[s]
    <3>1. v[s] = (Unchecked(s))' /\ u[s] = Unchecked(s) /\ v[s] \in Nat /\ u[s] \in Nat
      BY <1>3, <1>4
    <3>2. Moves(s)
      BY <1>8
    <3>3. DiscoveryEnabled => UtcDay = D
      BY PunctualDay
    <3> HIDE DEF u, v
    <3>4. (Unchecked(s))' <= Unchecked(s)
      BY <1>9, <3>1, <3>2, <3>3 DEF Unchecked, Moves, At
    <3> QED
      BY <3>1, <3>4
  <2> HIDE DEF u, v, D
  <2>2. SumOver(v, Sessions) <= SumOver(u, Sessions)
    BY <1>1, <1>3, <1>4, <2>1, SumGrows
  <2> QED
    BY <1>1, <1>5, <1>7, <1>9, <2>2
<1>10. CASE QuotaDay' = D /\ Sent
  <2>1. spent'[D] = spent[D] + 1
    BY <1>1, <1>10 DEF Sent, QuotaTypeOK
  <2>2. PICK s \in Sessions : SentBy(s)
    <3>1. spent' # spent
      BY <1>1, <2>1
    <3> QED
      BY <3>1, NextSends DEF SendsNothing
  <2> DEFINE rest == SumOver(u, Sessions \ {s})
  <2>3. \A t \in Sessions \ {s} : v[t] = u[t]
    BY <1>3, <1>4, <1>10, <2>2 DEF SentBy, Unchecked, At
  <2>4. IsFiniteSet(Sessions \ {s})
    BY <1>1, FS_RemoveElement
  <2>5. SumOver(u, Sessions) = rest + u[s] /\ SumOver(v, Sessions) = rest + v[s] /\ rest \in Nat
    <3> HIDE DEF u, v
    <3>1. SumOver(u, Sessions) = SumOver(u, Sessions \ {s}) + u[s]
      BY <1>1, <1>3, SumRemove
    <3>2. SumOver(v, Sessions) = SumOver(v, Sessions \ {s}) + v[s]
      BY <1>1, <1>4, SumRemove
    <3>3. SumOver(v, Sessions \ {s}) = SumOver(u, Sessions \ {s})
      BY <2>3, <2>4, SumEqual
    <3>4. SumOver(u, Sessions \ {s}) \in Nat
      BY <1>3, <2>4, SumType
    <3> QED
      BY <3>1, <3>2, <3>3, <3>4
  <2>6. CASE /\ session'[s].kind = "discovery" => session'[s].on = D
             /\ Seen(s, D).calls + 1 <= Cap
    <3>1. v[s] = 0
      BY <1>4, <1>10, <2>6 DEF Unchecked
    <3>2. spent[D] + 1 + rest <= Cap + lost[D] + Overlap
      BY <1>1, <2>2, <2>6, CheckedSend DEF SentBy
    <3> HIDE DEF u, v, D, rest
    <3> QED
      BY <1>1, <1>10, <2>1, <2>5, <3>1, <3>2
  <2>7. CASE /\ At(s, "ready") /\ session[s].kind = "discovery" /\ session[s].on # D
             /\ session[s].left > 0
             /\ session'[s].kind = "discovery" /\ session'[s].on = session[s].on
             /\ session'[s].left = session[s].left - 1
    <3>1. session'[s].at = "call" /\ session[s].at = "ready"
      BY <2>2, <2>7 DEF SentBy, At
    <3>2. u[s] = session[s].left /\ v[s] = session[s].left - 1
      BY <1>3, <1>4, <1>10, <2>7, <3>1 DEF Unchecked, At
    <3> HIDE DEF u, v, D, rest
    <3>3. v[s] + 1 = u[s]
      BY <1>3, <3>2
    <3> QED
      BY <1>1, <1>3, <1>4, <1>5, <1>10, <2>1, <2>5, <3>3
  <2> QED
    BY <2>2, <2>6, <2>7 DEF SentBy
<1>11. CASE Kept /\ QuotaDay' > D
  <2>1. spent'[QuotaDay'] = 0 /\ lost'[QuotaDay'] \in Nat
    BY <1>2, <1>11 DEF Kept, TodayInv, QuotaTypeOK
  <2>2. /\ bound \in Nat /\ bound <= Cap /\ bound <= MaxOpen /\ MaxOpen \in Nat
        /\ Cardinality(Requests) \in Nat
    BY QuotaAssumption, ConstantFacts DEF Punctual
  <2>3. Cardinality(Sessions) = Cardinality(Requests) + 1
    BY QuotaAssumption, ConstantFacts, FS_AddElement DEF Sessions
  <2> HIDE DEF u, v, bound
  <2>4. SumOver(v, Sessions) <= (Cardinality(Requests) + 1) * bound
    BY <1>1, <1>4, <2>2, <2>3, SumBounded
  <2> DEFINE n == Cardinality(Requests)
  <2>5. (n + 1) * bound <= n * MaxOpen + Cap
    <3>1. n \in Nat
      BY <2>2
    <3> HIDE DEF n
    <3>2. (n + 1) * bound = n * bound + bound /\ n * bound <= n * MaxOpen
      BY <2>2, <3>1
    <3>3. n * bound \in Nat /\ n * MaxOpen \in Nat
      BY <2>2, <3>1
    <3> QED
      BY <1>1, <2>2, <3>2, <3>3
  <2>6. Overlap = n * MaxOpen
    BY DEF Overlap
  <2>7. (n + 1) * bound \in Nat
    BY <2>2
  <2> HIDE DEF n
  <2>8. SumOver(v, Sessions) <= (n + 1) * bound
    BY <2>4 DEF n
  <2> QED
    BY <1>1, <1>7, <2>1, <2>5, <2>6, <2>7, <2>8
<1> QED
  BY <1>2, <1>9, <1>10, <1>11 DEF Kept, Moved

\* The cap holds of today by the stretch, and no other day is spent on.
LEMMA WithinCapStep ==
  ASSUME Punctual, QuotaTypeOK, BooksInv, WithinCap, QuotaNext, QuotaTypeOK', DiscoveryInv', StretchInv',
         \/ QuotaDay' = QuotaDay /\ (Kept \/ Sent \/ Moved)
         \/ Kept /\ QuotaDay <= QuotaDay'
  PROVE  WithinCap'
<1> SUFFICES ASSUME NEW d \in Days
             PROVE  spent'[d] <= Cap + lost'[d] + Overlap
  BY DEF WithinCap
<1>1. /\ spent[d] \in Nat /\ spent'[d] \in Nat /\ lost[d] \in Nat /\ lost'[d] \in Nat
      /\ Cap \in Nat /\ Overlap \in Nat /\ lost[d] <= lost'[d]
  BY QuotaAssumption, ConstantFacts, NextMoves DEF QuotaTypeOK
<1>2. CASE d = QuotaDay'
  <2> DEFINE v == UncheckedBy'
  <2>1. \A s \in Sessions : v[s] \in Nat
    <3>1. UncheckedTyped'
      BY UncheckedIsTyped, PTL
    <3> QED
      BY <3>1 DEF UncheckedTyped
  <2>2. spent'[d] + SumOver(v, Sessions) <= Cap + lost'[d] + Overlap
    BY <1>2 DEF StretchInv
  <2> HIDE DEF v
  <2>3. SumOver(v, Sessions) \in Nat
    BY <2>1, ConstantFacts, SumType
  <2> QED
    BY <1>1, <2>2, <2>3
<1>3. CASE d # QuotaDay'
  <2>1. spent'[d] = spent[d]
    BY <1>3 DEF Kept, Sent, Moved, QuotaTypeOK
  <2>2. spent[d] <= Cap + lost[d] + Overlap
    BY DEF WithinCap
  <2> QED
    BY <1>1, <2>1, <2>2
<1> QED
  BY <1>2, <1>3

--------------------------------------------------------------------------------
(* The theorems. *)

LEMMA InitCounts == QuotaInit => CountInv
<1> SUFFICES ASSUME QuotaInit
             PROVE  CountInv
  OBVIOUS
<1>1. /\ clock = 0 /\ quota = [d \in Days |-> NoRow] /\ session = [s \in Sessions |-> Off]
      /\ draft = [s \in Sessions |-> NoDraft] /\ hung = FALSE /\ losses = 0
      /\ spent = [d \in Days |-> 0] /\ lost = [d \in Days |-> 0]
  BY DEF QuotaInit
<1>2. DOMAIN NoDraft = {} /\ NoDraft \in [{} -> Rows] /\ Off.at = "off"
  BY DEF NoDraft, Off
<1>3. NoRow \in Rows /\ NoRow.calls = 0
  BY DEF NoRow, Rows
<1>4. QuotaTypeOK
  <2>1. \A s \in Sessions : DOMAIN draft[s] \subseteq Days /\ draft[s] \in [DOMAIN draft[s] -> Rows]
    BY <1>1, <1>2
  <2>2. clock \in 0 .. MaxClock /\ losses \in 0 .. MaxLosses
    BY <1>1, QuotaAssumption
  <2>5. hung \in BOOLEAN
    BY <1>1, Zenon
  <2>3. quota \in [Days -> Rows] /\ spent \in [Days -> Nat] /\ lost \in [Days -> Nat]
    BY <1>1, <1>3
  <2>4. session \in [Sessions -> {Off} \cup Ready \cup Calling] /\ DOMAIN draft = Sessions
    BY <1>1
  <2> QED
    BY <2>1, <2>2, <2>3, <2>4, <2>5 DEF QuotaTypeOK
<1>5. BooksInv
  BY <1>1, <1>2 DEF BooksInv, At
<1>6. \A s \in Sessions, d \in Days : Unsaved(s, d) = 0 /\ Uncommitted(s, d) = 0 /\ Ahead(s) = 0
  <2>1. \A s \in Sessions, d \in Days : Unsaved(s, d) = 0 /\ Awaited(s, d) = 0 /\ Ahead(s) = 0
    BY <1>1, <1>2 DEF Unsaved, Awaited, Ahead, At
  <2> QED
    BY <2>1 DEF Uncommitted
<1>7. EffortInv
  BY <1>6, ConstantFacts DEF EffortInv
<1>8. \A d \in Days : AllUncommitted(d) = 0
  <2>1. \A d \in Days : [s \in Sessions |-> Uncommitted(s, d)] = [s \in Sessions |-> 0]
    BY <1>6
  <2> QED
    BY <2>1, ConstantFacts, SumOfNone DEF AllUncommitted
<1>9. Accounted = spent
  <2>1. \A d \in Days : quota[d].calls + AllUncommitted(d) + lost[d] = 0
    BY <1>1, <1>3, <1>8
  <2> QED
    BY <1>1, <2>1 DEF Accounted
<1>10. CallsAccounted
  BY <1>9 DEF CallsAccounted
<1>11. TodayInv
  BY <1>1, <1>4, <1>9, DayFacts DEF TodayInv
<1> QED
  BY <1>4, <1>5, <1>7, <1>10, <1>11 DEF CountInv

LEMMA CountsKept == CountInv /\ [QuotaNext]_quotaVars => CountInv'
<1>1. ASSUME CountInv, QuotaNext
      PROVE  CountInv'
  <2>1. QuotaTypeOK /\ BooksInv /\ EffortInv /\ CallsAccounted /\ TodayInv
    BY <1>1 DEF CountInv
  <2>2. /\ QuotaTypeOK' /\ BooksInv' /\ EffortInv'
        /\ \/ QuotaDay' = QuotaDay /\ (Kept \/ Sent \/ Moved)
           \/ Kept /\ QuotaDay <= QuotaDay'
    BY <1>1, <2>1, NextStep
  <2>3. CallsAccounted'
    BY <2>1, <2>2, TotalsAgree
  <2>4. TodayInv'
    BY <2>1, <2>2, TodayStep
  <2> QED
    BY <2>2, <2>3, <2>4 DEF CountInv
<1>2. ASSUME CountInv, UNCHANGED quotaVars
      PROVE  CountInv'
  <2>1. /\ clock' = clock /\ quota' = quota /\ draft' = draft /\ session' = session /\ hung' = hung
        /\ losses' = losses /\ spent' = spent /\ lost' = lost
    BY <1>2 DEF quotaVars, books, history
  <2>2. QuotaTypeOK' /\ BooksInv' /\ EffortInv'
    BY <1>2, <2>1 DEF CountInv, QuotaTypeOK, BooksInv, EffortInv, Unsaved, Ahead, At, QuotaDay
  <2>3. Accounted' = Accounted
    BY <2>1 DEF Accounted, AllUncommitted, Uncommitted, Unsaved, Awaited
  <2>4. CallsAccounted' /\ TodayInv'
    BY <1>2, <2>1, <2>3 DEF CountInv, CallsAccounted, TodayInv, QuotaDay
  <2> QED
    BY <2>2, <2>4 DEF CountInv
<1> QED
  BY <1>1, <1>2

LEMMA Counts == QuotaSpec => []CountInv
BY InitCounts, CountsKept, PTL DEF QuotaSpec

\* Whatever the limits, the zone of the clock and the requests: every search
\* sent is accounted for, in the books, in an open transaction, awaited or as
\* a loss (record_meter, and the commits and rollbacks around it).
THEOREM CallsStayAccounted == QuotaSpec => [](QuotaTypeOK /\ CallsAccounted)
<1>1. CountInv => QuotaTypeOK /\ CallsAccounted
  BY DEF CountInv
<1> QED
  BY <1>1, Counts, PTL

\* The rest of the invariant, for the cap.
CapInv == DiscoveryInv /\ StretchInv /\ WithinCap

LEMMA InitCap == Punctual /\ QuotaInit => CapInv
<1> SUFFICES ASSUME QuotaInit
             PROVE  CapInv
  OBVIOUS
<1>1. QuotaTypeOK
  BY InitCounts DEF CountInv
<1>2. /\ session = [s \in Sessions |-> Off] /\ Off.at = "off"
      /\ spent = [d \in Days |-> 0] /\ lost = [d \in Days |-> 0]
  BY DEF QuotaInit, Off
<1>3. DiscoveryInv
  BY <1>2 DEF DiscoveryInv, At
<1>4. UncheckedBy = [s \in Sessions |-> 0]
  BY <1>2 DEF UncheckedBy, Unchecked, At
<1>5. SumOver(UncheckedBy, Sessions) = 0
  BY <1>4, ConstantFacts, SumOfNone
<1>6. StretchInv
  BY <1>1, <1>2, <1>5, DayFacts, ConstantFacts, QuotaAssumption DEF StretchInv
<1>7. WithinCap
  BY <1>2, ConstantFacts, QuotaAssumption DEF WithinCap
<1> QED
  BY <1>3, <1>6, <1>7 DEF CapInv

LEMMA CapKept == Punctual /\ CountInv /\ CountInv' /\ CapInv /\ [QuotaNext]_quotaVars => CapInv'
<1>1. ASSUME Punctual, CountInv, CountInv', CapInv, QuotaNext
      PROVE  CapInv'
  <2>1. QuotaTypeOK /\ BooksInv /\ EffortInv /\ TodayInv /\ QuotaTypeOK' /\ TodayInv'
    BY <1>1 DEF CountInv
  <2>2. DiscoveryInv /\ StretchInv /\ WithinCap
    BY <1>1 DEF CapInv
  <2>3. \/ QuotaDay' = QuotaDay /\ (Kept \/ Sent \/ Moved)
        \/ Kept /\ QuotaDay <= QuotaDay'
    BY <1>1, <2>1, NextStep
  <2>4. QuotaDay <= QuotaDay'
    <3>1. QuotaDay \in Nat
      BY <2>1, DayFacts, ConstantFacts
    <3> QED
      BY <2>3, <3>1
  <2>5. DiscoveryInv'
    BY <1>1, <2>1, <2>2, <2>4, NextMoves, DiscoveryStep
  <2>6. StretchInv'
    BY <1>1, <2>1, <2>2, <2>3, <2>5, StretchStep
  <2>7. WithinCap'
    BY <1>1, <2>1, <2>2, <2>3, <2>5, <2>6, WithinCapStep
  <2> QED
    BY <2>5, <2>6, <2>7 DEF CapInv
<1>2. ASSUME CapInv, UNCHANGED quotaVars
      PROVE  CapInv'
  <2>1. clock' = clock /\ session' = session /\ spent' = spent /\ lost' = lost
    BY <1>2 DEF quotaVars, history
  <2>2. UncheckedBy' = UncheckedBy
    BY <2>1 DEF UncheckedBy, Unchecked, At, QuotaDay
  <2> QED
    BY <1>2, <2>1, <2>2 DEF CapInv, DiscoveryInv, StretchInv, WithinCap, At, QuotaDay
<1> QED
  BY <1>1, <1>2

\* Without discovery, or with one that is punctual, a day's searches stay
\* within the cap, up to what the books cannot show or have lost (can_spend,
\* can_spend_search, the check of youtube_resolve).
THEOREM SpendingStaysBounded ==
  ASSUME Punctual
  PROVE  QuotaSpec => []SpendingIsBounded
<1>1. QuotaInit => CapInv
  BY InitCap
<1>2. CountInv /\ CountInv' /\ CapInv /\ [QuotaNext]_quotaVars => CapInv'
  BY CapKept
<1>3. CountInv /\ CapInv => SpendingIsBounded
  BY DEF CountInv, CapInv, SpendingIsBounded
<1> QED
  BY <1>1, <1>2, <1>3, Counts, PTL DEF QuotaSpec

ReserveStep ==
  \A s \in Sessions :
    /\ ~At(s, "call") /\ At(s, "call")'
    /\ session'[s].ordinary /\ AsksToday(s)'
    => spent'[QuotaDay] <= Cap - Reserve + lost[QuotaDay] + Overlap

LEMMA ReserveIsKept == CountInv /\ QuotaNext => ReserveStep
<1> SUFFICES ASSUME CountInv, QuotaNext, NEW s \in Sessions, ~At(s, "call"), session'[s].at = "call",
                    session'[s].ordinary, (AsksToday(s))'
             PROVE  spent'[QuotaDay] <= Cap - Reserve + lost[QuotaDay] + Overlap
  BY DEF ReserveStep, At
<1>1. QuotaTypeOK /\ BooksInv /\ EffortInv /\ TodayInv
  BY DEF CountInv
<1>2. SentBy(s)
  <2>1. PICK t \in Sessions : SentBy(t)
    BY <1>1, NextSends DEF SendsNothing
  <2>2. t = s
    BY <2>1 DEF SentBy, At
  <2> QED
    BY <2>1, <2>2
<1>3. QuotaDay' = QuotaDay
  BY <1>2 DEF SentBy, QuotaDay
<1>4. Seen(s, QuotaDay).calls + 1 <= Cap - Reserve
  BY <1>2, <1>3 DEF SentBy, AsksToday
<1>5. Cap - Reserve \in Int
  BY QuotaAssumption
<1>6. spent[QuotaDay] + 1 + SumOver(UncheckedBy, Sessions \ {s})
        <= Cap - Reserve + lost[QuotaDay] + Overlap
  BY <1>1, <1>4, <1>5, CheckedSend
<1>7. \A t \in Sessions : UncheckedBy[t] \in Nat
  <2>1. \A t \in Sessions : session[t].at # "off" => session[t].left \in Nat
    BY <1>1, SessionNumbers
  <2> QED
    BY <2>1 DEF UncheckedBy, Unchecked, At
<1>8. SumOver(UncheckedBy, Sessions \ {s}) \in Nat
  <2>1. IsFiniteSet(Sessions \ {s})
    BY ConstantFacts, FS_RemoveElement
  <2> QED
    BY <1>7, <2>1, SumType
<1>9. /\ spent'[QuotaDay] = spent[QuotaDay] + 1 /\ spent[QuotaDay] \in Nat
      /\ lost[QuotaDay] \in Nat /\ Overlap \in Nat
  BY <1>1, <1>2, DayFacts, ConstantFacts DEF SentBy, QuotaTypeOK
<1> QED
  BY <1>5, <1>6, <1>8, <1>9

\* A search of ordinary priority leaves the reserve of the day it asks for,
\* with no hypothesis but the assumptions on the constants (can_spend_search,
\* search_reserve_calls).
THEOREM ReserveStaysKept == QuotaSpec => ReserveKept
<1>1. CountInv /\ QuotaNext => ReserveStep
  BY ReserveIsKept
<1>2. QuotaSpec => [][ReserveStep]_quotaVars
  BY <1>1, Counts, PTL DEF QuotaSpec
<1> QED
  BY <1>2, PTL DEF ReserveKept, ReserveStep
================================================================================
