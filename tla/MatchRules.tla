------------------------------ MODULE MatchRules ------------------------------
(***************************************************************************)
(* How crawl-service compares two views of events (reconciliation/         *)
(* matcher.py): pure operators.  Reconciliation uses them for listings of  *)
(* two platforms, social evidence for a mention and a tracked event.       *)
(* Scores are in thousandths, times in hours; None is what a view does not *)
(* know.                                                                   *)
(***************************************************************************)
EXTENDS FieldRules

CONSTANTS
  Words,          \* name or title -> its tokens
  Similar,        \* <<name, name>> -> similarity
  Tolerance,      \* reconciliation_date_tolerance_hours
  AutoScore, PossibleScore   \* the thresholds

ASSUME MatchingIsDefined ==
  Tolerance \in Nat /\ \A w \in DOMAIN Words : IsFiniteSet(Words[w])

(* What is compared of a listing or a mention (views.py, EventView). *)
IsView(v) ==
  /\ v.date \in Int \cup {None}
  /\ v.performers \subseteq DOMAIN Words /\ IsFiniteSet(v.performers)

Both(a, b) == a # None /\ b # None
Apart(l, r) == IF l.date < r.date THEN r.date - l.date ELSE l.date - r.date
Performers(v) == UNION {Words[p] : p \in v.performers}
Likeness(a, b) == IF a = b THEN 1000 ELSE Similar[<<a, b>>]

InBlock(l, r) ==
  /\ Both(l.date, r.date) => Apart(l, r) <= Tolerance
  /\ Both(l.city, r.city) => l.city = r.city
  /\ \/ Words[l.title] \cap Words[r.title] # {}
     \/ Performers(l) \cap Performers(r) # {}
     \/ Both(l.venue, r.venue) /\ Likeness(l.venue, r.venue) >= 600

Rounded(n, d) == (n + d \div 2) \div d

(* The dimensions two views can be compared on, each with its likeness.    *)
Components(l, r) ==
  LET lp == Performers(l)  rp == Performers(r)
      known == {"title"}
        \cup {d \in {"performer"} : lp # {} /\ rp # {}}
        \cup {d \in {"venue", "city", "date", "organizer"} : Both(l[d], r[d])}
      agree(a, b) == IF a = b THEN 1000 ELSE 0
  IN  [d \in known |->
         CASE d = "performer" -> Rounded(1000 * Cardinality(lp \cap rp), Cardinality(lp \cup rp))
           [] d = "date"      -> IF Apart(l, r) > Tolerance THEN 0
                                 ELSE Rounded(1000 * (Tolerance - Apart(l, r)), Max({Tolerance, 1}))
           [] d \in {"city", "organizer"} -> agree(l[d], r[d])
           [] OTHER           -> Likeness(l[d], r[d])]

Weight == [title |-> 30, performer |-> 25, venue |-> 20, date |-> 15, city |-> 10, organizer |-> 10]

Total(part) ==
  part["title"] + part["performer"] + part["venue"] + part["date"] + part["city"] + part["organizer"]

(* The weighted mean of the dimensions that can be compared. *)
Score(comp) ==
  Rounded(Total([d \in DOMAIN Weight |-> IF d \in DOMAIN comp THEN Weight[d] * comp[d] ELSE 0]),
          Total([d \in DOMAIN Weight |-> IF d \in DOMAIN comp THEN Weight[d] ELSE 0]))

(* A strong contradiction rules a match out whatever the score; other      *)
(* signals are only reported.                                              *)
Contradicted(l, r, comp) ==
  \/ \E d \in {"city", "performer"} \cap DOMAIN comp : comp[d] = 0
  \/ "date" \in DOMAIN comp /\ Apart(l, r) > Tolerance

(* An automatic match takes a date and agreement in two dimensions.        *)
Automatic(comp) ==
  /\ Score(comp) >= AutoScore
  /\ "date" \in DOMAIN comp
  /\ Cardinality({d \in DOMAIN comp : comp[d] >= 800}) >= 2

Status(l, r) ==
  LET comp     == Components(l, r)
      possible == Score(comp) >= PossibleScore
  IN  IF Contradicted(l, r, comp) THEN IF possible THEN "CONFLICT" ELSE "NOT_MATCHED"
      ELSE IF Automatic(comp) THEN "MATCHED"
      ELSE IF possible THEN "POSSIBLE_MATCH" ELSE "NOT_MATCHED"
=============================================================================
