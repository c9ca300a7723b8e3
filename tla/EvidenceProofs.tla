--------------------------- MODULE EvidenceProofs ---------------------------
(***************************************************************************)
(* What the services that read and compare evidence keep, for every value  *)
(* of their constants: what enrichment resolves (FieldEnrichment), which   *)
(* listings match (EventMatching), what is read out of social evidence     *)
(* (SocialEvidence), what a discovery reports (SourceDiscovery), what      *)
(* an ingest leaves in the registry, the graph and the feed (SignalIngest), *)
(* and what the readings of a video are said to mean (ContentMovement).    *)
(***************************************************************************)
EXTENDS FieldEnrichment, EventMatching, SocialEvidence, SourceDiscovery, SignalIngest,
  ContentMovement, FiniteSetTheorems, SequenceTheorems, WellFoundedInduction, TLAPS

-----------------------------------------------------------------------------
(* A set of naturals that is not empty has a least member.                 *)
LEMMA LeastExists ==
  ASSUME NEW T, T \subseteq Nat, T # {}
  PROVE  \E x \in T : \A y \in T : x <= y
<1>1. PICK R : R = {ss \in Nat \X Nat : ss[1] < ss[2]}
  OBVIOUS
<1>2. IsWellFoundedOn(R, Nat)
  BY <1>1, NatLessThanWellFounded, Zenon DEF OpToRel
<1>3. PICK x \in T : \A y \in T : ~ (<<y, x>> \in R)
  BY <1>2, WFMin, Zenon
<1>4. \A y \in T : ~ (y < x)
  BY <1>1, <1>3
<1> QED
  BY <1>4

(* Min of a set of naturals is its least member.                           *)
LEMMA MinIsLeast ==
  ASSUME NEW T, T \subseteq Nat, T # {}
  PROVE  Min(T) \in T /\ \A y \in T : Min(T) <= y
<1>1. \E x \in T : \A y \in T : x =< y
  BY LeastExists
<1> QED
  BY <1>1, Zenon DEF Min

-----------------------------------------------------------------------------
(* FieldRules: the authority of a surface, and what a resolution says of   *)
(* the candidates it was made from.                                        *)

LEMMA AuthorityIsNatural ==
  ASSUME NEW f, NEW s, f \in SupportedFields
  PROVE  Authority(f, s) \in Nat
<1> DEFINE I == {i \in 1 .. Len(Precedence[f]) : Precedence[f][i] = s}
<1>1. Authority(f, s) = IF I # {} THEN Min(I) ELSE 0
  BY Zenon DEF Authority, SelectInSeq
<1>2. I \subseteq Nat
  OBVIOUS
<1> HIDE DEF I
<1>3. CASE I = {}
  BY <1>1, <1>3
<1>4. CASE I # {}
  <2>1. Min(I) \in I
    BY <1>2, <1>4, MinIsLeast, Zenon
  <2> QED
    BY <1>1, <1>2, <1>4, <2>1
<1> QED
  BY <1>3, <1>4

(* Of candidates that all may supply a field some have the highest         *)
(* authority.                                                              *)
LEMMA TopTierExists ==
  ASSUME NEW f \in SupportedFields, NEW cs, cs # {}
  PROVE  \E c \in cs : \A d \in cs : Authority(f, c.surface) <= Authority(f, d.surface)
<1> DEFINE T == {Authority(f, c.surface) : c \in cs}
<1>1. T \subseteq Nat /\ T # {}
  BY AuthorityIsNatural
<1>2. PICK x \in T : \A y \in T : x <= y
  BY <1>1, LeastExists
<1>3. PICK c \in cs : x = Authority(f, c.surface)
  OBVIOUS
<1> QED
  BY <1>2, <1>3

(* What was resolved automatically is the value of a candidate, and every  *)
(* candidate of that authority or a higher one has the same value.         *)
LEMMA ResolvedOutranks ==
  ASSUME NEW f \in SupportedFields, NEW cs,
         \A c \in cs : Supplies(f, c.surface),
         ResolveField(f, cs).review = "AUTO_RESOLVED"
  PROVE  \E c \in cs :
           /\ c.value = ResolveField(f, cs).value
           /\ \A d \in cs : Authority(f, d.surface) <= Authority(f, c.surface)
                           => d.value = ResolveField(f, cs).value
<1> DEFINE top == TopTier(f, cs)
           value == CHOOSE v \in {c.value : c \in top} : TRUE
           support == {c \in cs : c.value = value}
           conf == Agreement(support)
           method == Method((CHOOSE c \in top : TRUE).surface, support)
           review == IF conf >= MinConfidence THEN "AUTO_RESOLVED" ELSE "NEEDS_REVIEW"
<1>1. PICK usable : usable = {c \in cs : f \in SupportedFields /\ Supplies(f, c.surface)}
  OBVIOUS
<1>2. ResolveField(f, cs) = IF cs = {} THEN Unresolved
                            ELSE IF Differ(top) THEN Conflict
                            ELSE Resolution(value, method, review, conf)
  <2>1. usable = cs
    BY <1>1
  <2>2. ResolveField(f, cs) =
          LET t   == TopTier(f, usable)
              v   == CHOOSE x \in {c.value : c \in t} : TRUE
              sup == {c \in usable : c.value = v}
              cf  == Agreement(sup)
          IN  IF usable = {} THEN Unresolved
              ELSE IF Differ(t) THEN Conflict
              ELSE Resolution(v, Method((CHOOSE c \in t : TRUE).surface, sup),
                              IF cf >= MinConfidence THEN "AUTO_RESOLVED" ELSE "NEEDS_REVIEW", cf)
    BY <1>1 DEF ResolveField
  <2> QED
    BY <2>1, <2>2
<1> HIDE DEF method, review, conf
<1>3. Unresolved.review # "AUTO_RESOLVED" /\ Conflict.review # "AUTO_RESOLVED"
  BY DEF Unresolved, Conflict, Resolution
<1>4. cs # {} /\ ~Differ(top)
  BY <1>2, <1>3, Zenon
<1>5. ResolveField(f, cs).value = value
  <2>1. Resolution(value, method, review, conf).value = value
    BY DEF Resolution
  <2> QED
    BY <1>2, <1>4, <2>1, Zenon
<1>6. PICK c \in cs : \A d \in cs : Authority(f, c.surface) <= Authority(f, d.surface)
  BY <1>4, TopTierExists, Zenon
<1>7. c \in top
  BY <1>6 DEF TopTier
<1>8. \A d \in top : d.value = c.value
  BY <1>4, <1>7, Zenon DEF Differ
<1>9. value = c.value
  BY <1>7, <1>8, Zenon
<1>10. ASSUME NEW d \in cs, Authority(f, d.surface) <= Authority(f, c.surface)
       PROVE  d \in top
  <2>1. \A e \in cs : Authority(f, d.surface) \in Nat /\ Authority(f, c.surface) \in Nat
                       /\ Authority(f, e.surface) \in Nat
    BY AuthorityIsNatural
  <2>2. \A e \in cs : Authority(f, d.surface) <= Authority(f, e.surface)
    BY <2>1, <1>6, <1>10
  <2> QED
    BY <2>2 DEF TopTier
<1> HIDE DEF top, value
<1> QED
  BY <1>5, <1>8, <1>9, <1>10, Zenon

-----------------------------------------------------------------------------
(* FieldEnrichment.  The inductive invariant: what a pass has read back is *)
(* evidence, and all of it that still stands; what it is about to apply    *)
(* was settled; and the rows, the versions and the event are what the      *)
(* transactions write.                                                     *)

EvidenceIsSound ==
  /\ stored \in Nat
  /\ \A h \in DOMAIN evidence :
       /\ h = <<h[1], h[2], h[3], h[4]>>
       /\ h[1] \in SupportedFields /\ Supplies(h[1], h[3])
       /\ DOMAIN evidence[h] = {"status", "origin", "conf", "at"}
       /\ evidence[h].at \in 1 .. stored

VersionsAreSound ==
  \A f \in DOMAIN versions :
    /\ versions[f] \in Seq(Range(versions[f]))
    /\ versions[f] # <<>>
    /\ Current(f).read \in 0 .. stored

HeldIsEvidence(pass) ==
  /\ pass.read \in 0 .. stored
  /\ \A f \in DOMAIN pass.held :
       /\ f \in SupportedFields
       /\ \A c \in pass.held[f] :
            Hash(c) \in DOMAIN evidence /\ c.field = f /\ evidence[Hash(c)].at <= pass.read
       /\ \A h \in DOMAIN evidence :
            h[1] = f /\ evidence[h].at <= pass.read /\ evidence[h].status = "ACTIVE" =>
              \E c \in pass.held[f] : Hash(c) = h

Settled(f, v) ==
  f \in DOMAIN versions /\ \E w \in Range(versions[f]) : w.review = "AUTO_RESOLVED" /\ w.value = v

PassIsSound(pass) ==
  /\ pass.at = "persist" => \A c \in pass.batch : Valid(c)
  /\ pass.at = "resolve" => HeldIsEvidence(pass)
  /\ pass.at = "apply" => \A f \in DOMAIN pass.resolved : Settled(f, pass.resolved[f])

PassesAreSound ==
  /\ DOMAIN enriching = Enrichers
  /\ \A p \in Enrichers : PassIsSound(enriching[p])

TrackedIsWhole ==
  DOMAIN tracked = {"starts_at", "event_status", "city", "region_id", "first_seen", "tracking"}

EnrichInv ==
  /\ EvidenceIsSound /\ VersionsAreSound /\ PassesAreSound /\ TrackedIsWhole
  /\ EvidenceDecides /\ PlanFollowsEvent

-----------------------------------------------------------------------------
LEMMA EnrichInitIsSound == EnrichInit => EnrichInv
<1> SUFFICES ASSUME EnrichInit PROVE EnrichInv
  OBVIOUS
<1> USE DEF EnrichInit
<1>1. DOMAIN evidence = {} /\ DOMAIN versions = {}
  OBVIOUS
<1>2. EvidenceIsSound /\ VersionsAreSound
  BY <1>1 DEF EvidenceIsSound, VersionsAreSound
<1>3. PassesAreSound
  BY DEF PassesAreSound, PassIsSound, Resting
<1>4. TrackedIsWhole
  BY DEF TrackedIsWhole
<1>5. ActiveIsLastNew /\ CurrentOutranksEvidence
  BY <1>1 DEF ActiveIsLastNew, CurrentOutranksEvidence
<1>6. TrackedIsResolved
  BY <1>1 DEF TrackedIsResolved
<1>7. PlanFollowsEvent
  BY DEF PlanFollowsEvent
<1> QED
  BY <1>2, <1>3, <1>4, <1>5, <1>6, <1>7 DEF EnrichInv, EvidenceDecides

(* What a batch does to the evidence: rows are added, at a later time than *)
(* any before, and an older row may be superseded, never revived.          *)
EvidenceGrows ==
  /\ DOMAIN evidence \subseteq DOMAIN evidence'
  /\ \A h \in DOMAIN evidence :
       /\ evidence'[h].at = evidence[h].at
       /\ evidence'[h].status = "ACTIVE" => evidence[h].status = "ACTIVE"
  /\ \A h \in DOMAIN evidence' \ DOMAIN evidence : evidence'[h].at = stored + 1
  /\ stored' = stored + 1

LEMMA RowsOfABatch ==
  ASSUME NEW batch, EvidenceIsSound, evidence' = Stored(batch), stored' = stored + 1,
         \A c \in batch : Valid(c)
  PROVE  /\ DOMAIN evidence' = DOMAIN evidence \cup {Hash(c) : c \in New(batch)}
         /\ \A h \in DOMAIN evidence :
              evidence'[h] = IF \E c \in New(batch) : Supersedes(c, h)
                             THEN [evidence[h] EXCEPT !.status = "SUPERSEDED"] ELSE evidence[h]
         /\ \A h \in DOMAIN evidence' \ DOMAIN evidence :
              \E c \in New(batch) : h = Hash(c) /\
                evidence'[h] = [status |-> "ACTIVE", origin |-> c.origin, conf |-> c.conf, at |-> stored + 1]
<1>1. DOMAIN evidence' = DOMAIN evidence \cup {Hash(c) : c \in New(batch)}
  BY DEF Stored
<1>2. \A h \in DOMAIN evidence :
        evidence'[h] = IF \E c \in New(batch) : Supersedes(c, h)
                       THEN [evidence[h] EXCEPT !.status = "SUPERSEDED"] ELSE evidence[h]
  BY Zenon DEF Stored
<1>3. ASSUME NEW h \in DOMAIN evidence' \ DOMAIN evidence
      PROVE  \E c \in New(batch) : h = Hash(c) /\
               evidence'[h] = [status |-> "ACTIVE", origin |-> c.origin, conf |-> c.conf, at |-> stored + 1]
  <2>1. PICK c : c = (CHOOSE x \in New(batch) : Hash(x) = h)
    OBVIOUS
  <2>2. \E x \in New(batch) : Hash(x) = h
    BY <1>1
  <2>3. c \in New(batch) /\ Hash(c) = h
    BY <2>1, <2>2, Zenon
  <2>4. evidence'[h] = [status |-> "ACTIVE", origin |-> c.origin, conf |-> c.conf, at |-> stored + 1]
    BY <1>1, <2>1, Zenon DEF Stored
  <2> QED
    BY <2>3, <2>4
<1> QED
  BY <1>1, <1>2, <1>3

LEMMA BatchKeepsEvidence ==
  ASSUME NEW batch, EvidenceIsSound, ActiveIsLastNew, evidence' = Stored(batch), stored' = stored + 1,
         \A c \in batch : Valid(c)
  PROVE  EvidenceGrows /\ EvidenceIsSound' /\ ActiveIsLastNew'
<1> DEFINE Hit(h) == \E c \in New(batch) : Supersedes(c, h)
<1>1. DOMAIN evidence' = DOMAIN evidence \cup {Hash(c) : c \in New(batch)}
  BY RowsOfABatch, Zenon
<1>2. ASSUME NEW h \in DOMAIN evidence
      PROVE  /\ DOMAIN evidence'[h] = {"status", "origin", "conf", "at"}
             /\ evidence'[h].at = evidence[h].at
             /\ evidence'[h].status = IF Hit(h) THEN "SUPERSEDED" ELSE evidence[h].status
  <2>1. evidence'[h] = IF Hit(h) THEN [evidence[h] EXCEPT !.status = "SUPERSEDED"] ELSE evidence[h]
    BY RowsOfABatch, Zenon
  <2>2. DOMAIN evidence[h] = {"status", "origin", "conf", "at"}
    BY DEF EvidenceIsSound
  <2> HIDE DEF Hit
  <2> QED
    BY <2>1, <2>2
<1>3. ASSUME NEW h \in DOMAIN evidence' \ DOMAIN evidence
      PROVE  /\ DOMAIN evidence'[h] = {"status", "origin", "conf", "at"}
             /\ evidence'[h].at = stored + 1
             /\ evidence'[h].status = "ACTIVE"
  <2>1. PICK c \in New(batch) :
          evidence'[h] = [status |-> "ACTIVE", origin |-> c.origin, conf |-> c.conf, at |-> stored + 1]
    BY RowsOfABatch, Zenon
  <2> QED
    BY <2>1
<1>4. \A h \in DOMAIN evidence : evidence[h].at \in 1 .. stored
  BY DEF EvidenceIsSound
<1>5. stored \in Nat
  BY DEF EvidenceIsSound
<1>6. EvidenceGrows
  BY <1>1, <1>2, <1>3 DEF EvidenceGrows
<1>7. \A h \in DOMAIN evidence' : evidence'[h].at \in 1 .. stored'
  BY <1>2, <1>3, <1>4, <1>5
<1>8. ASSUME NEW h \in DOMAIN evidence'
      PROVE  /\ h = <<h[1], h[2], h[3], h[4]>>
             /\ h[1] \in SupportedFields /\ Supplies(h[1], h[3])
  <2>1. CASE h \in DOMAIN evidence
    BY <2>1 DEF EvidenceIsSound
  <2>2. CASE h \notin DOMAIN evidence
    <3>1. PICK c \in New(batch) : h = Hash(c)
      BY <1>1, <2>2
    <3>2. Valid(c)
      BY DEF New
    <3>3. h = <<c.field, c.value, c.surface, c.url>>
      BY <3>1 DEF Hash
    <3> QED
      BY <3>2, <3>3 DEF Valid
  <2> QED
    BY <2>1, <2>2
<1>9. EvidenceIsSound'
  <2>1. stored' \in Nat
    BY <1>5
  <2>2. \A h \in DOMAIN evidence' : DOMAIN evidence'[h] = {"status", "origin", "conf", "at"}
    BY <1>2, <1>3, Zenon
  <2> QED
    BY <2>1, <2>2, <1>7, <1>8, Zenon DEF EvidenceIsSound
<1>10. ASSUME NEW h \in DOMAIN evidence'
       PROVE  evidence'[h].status = "ACTIVE" <=>
                \A g \in DOMAIN evidence' :
                  g[1] = h[1] /\ g[3] = h[3] => evidence'[g].at <= evidence'[h].at
  <2>1. CASE h \in DOMAIN evidence /\ Hit(h)
    <3>1. PICK c \in New(batch) : Supersedes(c, h)
      BY <2>1
    <3>2. Hash(c) \in DOMAIN evidence' \ DOMAIN evidence
      BY <1>1 DEF New
    <3>3. Hash(c)[1] = h[1] /\ Hash(c)[3] = h[3]
      BY <3>1 DEF Supersedes, Hash
    <3>4. evidence'[Hash(c)].at = stored + 1
      BY <3>2, <1>3
    <3>5. evidence'[h].at \in 1 .. stored
      BY <2>1, <1>2, <1>4
    <3>6. ~ (evidence'[Hash(c)].at <= evidence'[h].at)
      BY <3>4, <3>5, <1>5
    <3>7. evidence'[h].status = "SUPERSEDED"
      BY <2>1, <1>2
    <3> QED
      BY <3>2, <3>3, <3>6, <3>7
  <2>2. CASE h \in DOMAIN evidence /\ ~Hit(h)
    <3>1. ASSUME NEW g \in DOMAIN evidence' \ DOMAIN evidence
          PROVE  ~ (g[1] = h[1] /\ g[3] = h[3])
      <4>1. PICK c \in New(batch) : g = Hash(c)
        BY <1>1
      <4>2. g[1] = c.field /\ g[3] = c.surface
        BY <4>1 DEF Hash
      <4> QED
        BY <4>2, <2>2 DEF Supersedes
    <3>2. evidence[h].status = "ACTIVE" <=>
            \A g \in DOMAIN evidence : g[1] = h[1] /\ g[3] = h[3] => evidence[g].at <= evidence[h].at
      BY <2>2 DEF ActiveIsLastNew
    <3>3. evidence'[h].status = evidence[h].status /\ evidence'[h].at = evidence[h].at
      BY <2>2, <1>2
    <3>4. \A g \in DOMAIN evidence : evidence'[g].at = evidence[g].at /\ g \in DOMAIN evidence'
      BY <1>1, <1>2
    <3> HIDE DEF Hit
    <3> QED
      BY <3>1, <3>2, <3>3, <3>4
  <2>3. CASE h \notin DOMAIN evidence
    <3>1. evidence'[h].status = "ACTIVE" /\ evidence'[h].at = stored'
      BY <2>3, <1>3
    <3> HIDE DEF Hit
    <3> QED
      BY <3>1, <1>5, <1>7
  <2> HIDE DEF Hit
  <2> QED
    BY <2>1, <2>2, <2>3
<1>11. ActiveIsLastNew'
  BY <1>10 DEF ActiveIsLastNew
<1> QED
  BY <1>6, <1>9, <1>11

(* A batch of another pass disturbs no resolution, made or in the making:  *)
(* both look only at evidence up to the time it was read.                  *)
LEMMA BatchKeepsResolutions ==
  ASSUME EvidenceIsSound, VersionsAreSound, CurrentOutranksEvidence, EvidenceGrows, versions' = versions
  PROVE  VersionsAreSound' /\ CurrentOutranksEvidence'
<1>1. \A f : Current(f)' = Current(f)
  BY DEF Current
<1>2. stored \in Nat /\ stored' = stored + 1
  BY DEF EvidenceIsSound, EvidenceGrows
<1>3. VersionsAreSound'
  <2>1. \A f \in DOMAIN versions : Current(f).read \in 0 .. stored'
    BY <1>2 DEF VersionsAreSound
  <2> QED
    BY <2>1, <1>1 DEF VersionsAreSound
<1>4. ASSUME NEW f \in DOMAIN versions, Current(f).review = "AUTO_RESOLVED"
      PROVE  \E g \in {h \in DOMAIN evidence' : h[1] = f /\ evidence'[h].at <= Current(f).read} :
               /\ g[2] = Current(f).value
               /\ \A h \in {x \in DOMAIN evidence' : x[1] = f /\ evidence'[x].at <= Current(f).read} :
                    evidence'[h].status = "ACTIVE" /\ Authority(f, h[3]) <= Authority(f, g[3])
                      => h[2] = Current(f).value
  <2>1. PICK v : v = Current(f)
    OBVIOUS
  <2>2. PICK g \in {h \in DOMAIN evidence : h[1] = f /\ evidence[h].at <= v.read} :
          /\ g[2] = v.value
          /\ \A h \in {x \in DOMAIN evidence : x[1] = f /\ evidence[x].at <= v.read} :
               evidence[h].status = "ACTIVE" /\ Authority(f, h[3]) <= Authority(f, g[3]) => h[2] = v.value
    BY <1>4, <2>1 DEF CurrentOutranksEvidence
  <2>3. v.read \in 0 .. stored
    BY <2>1 DEF VersionsAreSound
  <2>4. ASSUME NEW h \in DOMAIN evidence', evidence'[h].at <= v.read
        PROVE  /\ h \in DOMAIN evidence /\ evidence[h].at <= v.read
               /\ evidence'[h].status = "ACTIVE" => evidence[h].status = "ACTIVE"
    <3>1. h \in DOMAIN evidence
      <4>1. h \notin DOMAIN evidence => evidence'[h].at = stored + 1
        BY Zenon DEF EvidenceGrows
      <4>2. ~ (stored + 1 <= v.read)
        BY <1>2, <2>3
      <4> QED
        BY <4>1, <4>2, <2>4, Zenon
    <3> QED
      BY <3>1, <2>4, Zenon DEF EvidenceGrows
  <2>5. g \in DOMAIN evidence' /\ evidence'[g].at <= v.read
    BY <2>2, Zenon DEF EvidenceGrows
  <2> QED
    BY <2>1, <2>2, <2>4, <2>5, Zenon
<1>5. CurrentOutranksEvidence'
  BY <1>1, <1>4 DEF CurrentOutranksEvidence
<1> QED
  BY <1>3, <1>5

LEMMA BatchKeepsPass ==
  ASSUME NEW pass, PassIsSound(pass), EvidenceIsSound, EvidenceGrows, versions' = versions
  PROVE  PassIsSound(pass)'
<1>1. stored \in Nat /\ stored' = stored + 1
  BY DEF EvidenceIsSound, EvidenceGrows
<1>2. ASSUME HeldIsEvidence(pass) PROVE HeldIsEvidence(pass)'
  <2>1. pass.read \in 0 .. stored /\ pass.read \in 0 .. stored'
    BY <1>1, <1>2 DEF HeldIsEvidence
  <2>2. ASSUME NEW f \in DOMAIN pass.held
        PROVE  /\ f \in SupportedFields
               /\ \A c \in pass.held[f] :
                    Hash(c) \in DOMAIN evidence' /\ c.field = f /\ evidence'[Hash(c)].at <= pass.read
    BY <1>2, Zenon DEF HeldIsEvidence, EvidenceGrows
  <2>3. ASSUME NEW f \in DOMAIN pass.held, NEW h \in DOMAIN evidence',
               h[1] = f, evidence'[h].at <= pass.read, evidence'[h].status = "ACTIVE"
        PROVE  \E c \in pass.held[f] : Hash(c) = h
    <3>1. h \in DOMAIN evidence
      <4>1. h \notin DOMAIN evidence => evidence'[h].at = stored + 1
        BY Zenon DEF EvidenceGrows
      <4>2. ~ (stored + 1 <= pass.read)
        BY <1>1, <2>1
      <4> QED
        BY <4>1, <4>2, <2>3, Zenon
    <3>2. evidence[h].at <= pass.read /\ evidence[h].status = "ACTIVE"
      BY <3>1, <2>3, Zenon DEF EvidenceGrows
    <3> QED
      BY <1>2, <2>3, <3>1, <3>2, Zenon DEF HeldIsEvidence
  <2> QED
    BY <2>1, <2>2, <2>3, Zenon DEF HeldIsEvidence
<1>3. (pass.at = "apply" => \A f \in DOMAIN pass.resolved : Settled(f, pass.resolved[f]))'
  BY Zenon DEF PassIsSound, Settled
<1>4. (pass.at = "persist" => \A c \in pass.batch : Valid(c))'
  BY Zenon DEF PassIsSound
<1> QED
  BY <1>2, <1>3, <1>4, Zenon DEF PassIsSound

-----------------------------------------------------------------------------
(* A step of a pass changes what that pass is doing, and no other.         *)
PassesLast == \A x : PassIsSound(x) => PassIsSound(x)'

LEMMA PassMoves ==
  ASSUME NEW p \in Enrichers, NEW after, PassesAreSound, PassesLast, PassIsSound(after)',
         enriching' = [enriching EXCEPT ![p] = after]
  PROVE  PassesAreSound'
<1>1. DOMAIN enriching' = Enrichers
  BY DEF PassesAreSound
<1>2. \A q \in Enrichers : enriching'[q] = IF q = p THEN after ELSE enriching[q]
  BY DEF PassesAreSound
<1>3. \A q \in Enrichers : PassIsSound(enriching[q])
  BY DEF PassesAreSound
<1>4. ASSUME NEW q \in Enrichers PROVE PassIsSound(enriching[q])'
  <2>1. CASE q = p
    BY <2>1, <1>2 DEF PassIsSound, HeldIsEvidence, Settled
  <2>2. CASE q # p
    <3>1. PICK pass : pass = enriching[q]
      OBVIOUS
    <3>2. PassIsSound(pass)'
      BY <3>1, <1>3, Zenon DEF PassesLast
    <3>3. enriching'[q] = pass
      BY <2>2, <3>1, <1>2
    <3> QED
      BY <3>2, <3>3 DEF PassIsSound, HeldIsEvidence, Settled
  <2> QED
    BY <2>1, <2>2
<1> QED
  BY <1>1, <1>4, Zenon DEF PassesAreSound

LEMMA RestIsSound == PassIsSound(Resting)
  BY DEF PassIsSound, Resting

(* Who only looks leaves everything about evidence and versions as it was. *)
LEMMA LookingKeepsEvidence ==
  ASSUME EnrichInv, UNCHANGED <<evidence, versions, stored>>
  PROVE  /\ PassesLast /\ EvidenceIsSound' /\ VersionsAreSound'
         /\ ActiveIsLastNew' /\ CurrentOutranksEvidence'
<1>1. PassesLast
  BY DEF PassesLast, PassIsSound, HeldIsEvidence, Settled
<1>2. \A f : Current(f)' = Current(f)
  BY DEF Current
<1>3. EvidenceIsSound' /\ VersionsAreSound'
  BY <1>2 DEF EnrichInv, EvidenceIsSound, VersionsAreSound
<1>4. ActiveIsLastNew'
  BY DEF EnrichInv, EvidenceDecides, ActiveIsLastNew
<1>5. CurrentOutranksEvidence'
  BY <1>2 DEF EnrichInv, EvidenceDecides, CurrentOutranksEvidence
<1> QED
  BY <1>1, <1>3, <1>4, <1>5

LEMMA TrackedStays ==
  ASSUME EnrichInv, UNCHANGED <<tracked, planned, versions>>
  PROVE  TrackedIsWhole' /\ TrackedIsResolved' /\ PlanFollowsEvent'
BY Zenon DEF EnrichInv, EvidenceDecides, TrackedIsWhole, TrackedIsResolved, PlanFollowsEvent

-----------------------------------------------------------------------------
(* The actions of a pass.                                                  *)

LEMMA RestKeepsInv ==
  ASSUME EnrichInv, NEW p \in Enrichers, enriching' = [enriching EXCEPT ![p] = Resting],
         UNCHANGED <<evidence, versions, stored, tracked, planned>>
  PROVE  EnrichInv'
<1>1. PassIsSound(Resting)'
  BY RestIsSound, PTL
<1>2. PassesAreSound'
  BY <1>1, LookingKeepsEvidence, PassMoves, Zenon DEF EnrichInv
<1> QED
  BY <1>2, LookingKeepsEvidence, TrackedStays, Zenon DEF EnrichInv, EvidenceDecides

LEMMA ObserveKeepsInv ==
  ASSUME EnrichInv, NEW p \in Enrichers, Observe(p)
  PROVE  EnrichInv'
<1>1. PICK node, page :
        enriching' = [enriching EXCEPT ![p] =
          [at |-> "persist", batch |-> Readings(node, page, batches'), doubled |-> Doubled(node)]]
  BY DEF Observe
<1>2. UNCHANGED <<evidence, versions, stored, tracked, planned>>
  BY DEF Observe
<1>3. PICK after : after =
        [at |-> "persist", batch |-> Readings(node, page, batches'), doubled |-> Doubled(node)]
  OBVIOUS
<1>4. PassIsSound(after)'
  <2>1. after.at = "persist" /\ after.batch = Readings(node, page, batches')
    BY <1>3
  <2>2. \A c \in after.batch : Valid(c)
    BY <2>1 DEF Readings
  <2> QED
    BY <2>1, <2>2 DEF PassIsSound
<1>5. PassesAreSound'
  BY <1>1, <1>2, <1>3, <1>4, LookingKeepsEvidence, PassMoves, Zenon DEF EnrichInv
<1> QED
  BY <1>2, <1>5, LookingKeepsEvidence, TrackedStays, Zenon DEF EnrichInv, EvidenceDecides

LEMMA BatchStored ==
  ASSUME EnrichInv, NEW batch, evidence' = Stored(batch), stored' = stored + 1,
         \A c \in batch : Valid(c), UNCHANGED <<versions, tracked, planned>>
  PROVE  /\ PassesLast /\ EvidenceIsSound' /\ VersionsAreSound' /\ EvidenceDecides'
         /\ TrackedIsWhole' /\ PlanFollowsEvent'
<1>1. EvidenceGrows /\ EvidenceIsSound' /\ ActiveIsLastNew'
  BY BatchKeepsEvidence, Zenon DEF EnrichInv, EvidenceDecides
<1>2. VersionsAreSound' /\ CurrentOutranksEvidence'
  BY <1>1, BatchKeepsResolutions, Zenon DEF EnrichInv, EvidenceDecides
<1>3. PassesLast
  BY <1>1, BatchKeepsPass, Zenon DEF EnrichInv, PassesLast
<1> QED
  BY <1>1, <1>2, <1>3, TrackedStays, Zenon DEF EvidenceDecides

LEMMA StoreCardKeepsInv ==
  ASSUME EnrichInv, StoreCard
  PROVE  EnrichInv'
<1>1. PICK batch : evidence' = Stored(batch) /\ \A c \in batch : Valid(c)
  <2>1. PICK card \in Cards :
          evidence' = Stored({c \in ShareCandidates(card, "share", Origin) : Valid(c)})
    BY DEF StoreCard
  <2>2. \A c \in {x \in ShareCandidates(card, "share", Origin) : Valid(x)} : Valid(c)
    OBVIOUS
  <2> QED
    BY <2>1, <2>2, Zenon
<1>2. stored' = stored + 1 /\ UNCHANGED <<versions, tracked, planned, enriching>>
  BY DEF StoreCard
<1>3. PassesLast
  BY <1>1, <1>2, BatchStored, Zenon
<1>4. PassesAreSound'
  BY <1>2, <1>3, Zenon DEF EnrichInv, PassesAreSound, PassesLast
<1> QED
  BY <1>1, <1>2, <1>4, BatchStored, Zenon DEF EnrichInv

(* What is read back is the evidence that stands, all of it.               *)
LEMMA PersistKeepsInv ==
  ASSUME EnrichInv, NEW p \in Enrichers, Persist(p)
  PROVE  EnrichInv'
<1>1. PICK batch : batch = enriching[p].batch
  OBVIOUS
<1>2. /\ enriching[p].at = "persist"
      /\ evidence' = Stored(batch) /\ stored' = stored + 1
      /\ UNCHANGED <<versions, tracked, planned>>
  BY <1>1 DEF Persist
<1>3. \A c \in batch : Valid(c)
  BY <1>1, <1>2, Zenon DEF EnrichInv, PassesAreSound, PassIsSound
<1>4. PICK after : after =
        [at |-> "resolve", read |-> stored',
         held |-> [f \in {c.field : c \in batch} |-> Active(f)']]
  OBVIOUS
<1>5. enriching' = [enriching EXCEPT ![p] = after]
  BY <1>1, <1>4 DEF Persist
<1>6. PassesLast /\ EvidenceIsSound'
  BY <1>2, <1>3, BatchStored, Zenon
<1>7. PassIsSound(after)'
  <2>1. after.at = "resolve" /\ after.read = stored'
        /\ DOMAIN after.held = {c.field : c \in batch}
        /\ \A f \in DOMAIN after.held : after.held[f] = Active(f)'
    BY <1>4
  <2>2. after.read \in 0 .. stored'
    BY <2>1, <1>6 DEF EvidenceIsSound
  <2>3. ASSUME NEW f \in DOMAIN after.held
        PROVE  /\ f \in SupportedFields
               /\ \A c \in after.held[f] :
                    Hash(c) \in DOMAIN evidence' /\ c.field = f /\ evidence'[Hash(c)].at <= after.read
               /\ \A h \in DOMAIN evidence' :
                    h[1] = f /\ evidence'[h].at <= after.read /\ evidence'[h].status = "ACTIVE" =>
                      \E c \in after.held[f] : Hash(c) = h
    <3>1. f \in SupportedFields
      BY <2>1, <1>3 DEF Valid
    <3>2. after.held[f] =
            {Candidate(h[1], h[2], h[3], h[4], evidence'[h].origin, evidence'[h].conf) :
               h \in {x \in DOMAIN evidence' : x[1] = f /\ evidence'[x].status = "ACTIVE"}}
      BY <2>1 DEF Active
    <3>3. \A h \in DOMAIN evidence' :
            LET c == Candidate(h[1], h[2], h[3], h[4], evidence'[h].origin, evidence'[h].conf)
            IN  Hash(c) = h /\ c.field = h[1] /\ evidence'[h].at <= after.read
      <4>1. ASSUME NEW h \in DOMAIN evidence'
            PROVE  h = <<h[1], h[2], h[3], h[4]>> /\ evidence'[h].at <= stored'
        BY <1>6 DEF EvidenceIsSound
      <4>2. \A h \in DOMAIN evidence' :
              LET c == Candidate(h[1], h[2], h[3], h[4], evidence'[h].origin, evidence'[h].conf)
              IN  Hash(c) = <<h[1], h[2], h[3], h[4]>> /\ c.field = h[1]
        BY DEF Hash, Candidate
      <4> QED
        BY <4>1, <4>2, <2>1
    <3>4. ASSUME NEW c \in after.held[f]
          PROVE  Hash(c) \in DOMAIN evidence' /\ c.field = f /\ evidence'[Hash(c)].at <= after.read
      <4>1. PICK h \in DOMAIN evidence' :
              /\ h[1] = f
              /\ c = Candidate(h[1], h[2], h[3], h[4], evidence'[h].origin, evidence'[h].conf)
        BY <3>2
      <4> QED
        BY <4>1, <3>3, Zenon
    <3>5. ASSUME NEW h \in DOMAIN evidence', h[1] = f, evidence'[h].status = "ACTIVE"
          PROVE  \E c \in after.held[f] : Hash(c) = h
      <4>1. Candidate(h[1], h[2], h[3], h[4], evidence'[h].origin, evidence'[h].conf) \in after.held[f]
        BY <3>2, <3>5
      <4> QED
        BY <4>1, <3>3, Zenon
    <3> QED
      BY <3>1, <3>4, <3>5
  <2>4. HeldIsEvidence(after)'
    BY <2>2, <2>3, Zenon DEF HeldIsEvidence
  <2>5. after.at # "persist" /\ after.at # "apply"
    BY <2>1
  <2> QED
    BY <2>4, <2>5, Zenon DEF PassIsSound
<1>8. PassesAreSound'
  BY <1>5, <1>6, <1>7, PassMoves, Zenon DEF EnrichInv
<1> QED
  BY <1>2, <1>3, <1>8, BatchStored, Zenon DEF EnrichInv

(* Versions: the last one is what was just resolved, and whatever a        *)
(* version settled before, some version still does.                        *)
LEMMA SeqOfItsRange ==
  ASSUME NEW S, NEW s \in Seq(S)
  PROVE  s \in Seq(Range(s))
<1>1. Len(s) \in Nat /\ s \in [1 .. Len(s) -> S]
  OBVIOUS
<1>2. s \in [1 .. Len(s) -> Range(s)]
  BY <1>1 DEF Range
<1> QED
  BY <1>1, <1>2

LEMMA RevisedVersions ==
  ASSUME VersionsAreSound, NEW f, NEW r, NEW read
  PROVE  /\ Revised(f, r, read) \in Seq(Range(Revised(f, r, read)))
         /\ Revised(f, r, read) # <<>>
         /\ Last(Revised(f, r, read)) = Version(r, read)
         /\ f \in DOMAIN versions =>
              \A w \in Range(versions[f]) : \E x \in Range(Revised(f, r, read)) :
                x.review = w.review /\ x.value = w.value
<1> PICK v : v = Version(r, read)
  OBVIOUS
<1> PICK vs : vs = Revised(f, r, read)
  OBVIOUS
<1>1. v.value = r.value /\ v.review = r.review
  BY DEF Version
<1>2. CASE f \notin DOMAIN versions
  <2>1. vs = <<v>>
    BY <1>2 DEF Revised
  <2>2. vs \in Seq({v}) /\ vs # <<>> /\ Last(vs) = v
    BY <2>1 DEF Last
  <2> QED
    BY <1>2, <2>2, SeqOfItsRange
<1>3. CASE f \in DOMAIN versions /\ Changed(Current(f), r)
  <2>1. PICK s, S : s = versions[f] /\ s \in Seq(S) /\ s # <<>>
    BY <1>3 DEF VersionsAreSound
  <2>2. vs = Append(s, v)
    BY <1>3, <2>1 DEF Revised
  <2>3. vs \in Seq(S \cup {v}) /\ vs # <<>> /\ Last(vs) = v
    BY <2>1, <2>2 DEF Last
  <2>4. \A w \in Range(s) : w \in Range(vs)
    <3>1. \A i \in 1 .. Len(s) : i \in DOMAIN vs /\ vs[i] = s[i]
      BY <2>1, <2>2
    <3> QED
      BY <2>1, <3>1 DEF Range
  <2> QED
    BY <1>3, <2>1, <2>3, <2>4, SeqOfItsRange
<1>4. CASE f \in DOMAIN versions /\ ~Changed(Current(f), r)
  <2>1. PICK s, S : s = versions[f] /\ s \in Seq(S) /\ s # <<>>
    BY <1>4 DEF VersionsAreSound
  <2>2. vs = Front(s) \o <<v>>
    BY <1>4, <2>1 DEF Revised
  <2>3. Len(s) \in Nat \ {0} /\ Last(s).value = v.value /\ Last(s).review = v.review
    BY <1>1, <1>4, <2>1 DEF Changed, Current
  <2>4. /\ Front(s) \in Seq(S) /\ Len(Front(s)) = Len(s) - 1
        /\ \A i \in 1 .. Len(s) - 1 : Front(s)[i] = s[i]
    BY <2>1, <2>3 DEF Front
  <2>5. /\ vs \in Seq(S \cup {v}) /\ Len(vs) = Len(s) /\ vs[Len(s)] = v
        /\ \A i \in 1 .. Len(s) - 1 : vs[i] = s[i]
    BY <2>2, <2>3, <2>4
  <2>6. vs # <<>> /\ Last(vs) = v
    BY <2>3, <2>5 DEF Last
  <2>7. ASSUME NEW w \in Range(s)
        PROVE  \E x \in Range(vs) : x.review = w.review /\ x.value = w.value
    <3>1. PICK i \in 1 .. Len(s) : w = s[i]
      BY <2>1 DEF Range
    <3>2. i \in DOMAIN vs
      BY <2>5
    <3>3. vs[i].review = w.review /\ vs[i].value = w.value
      <4>1. CASE i = Len(s)
        BY <3>1, <4>1, <2>3, <2>5 DEF Last
      <4>2. CASE i # Len(s)
        BY <3>1, <4>2, <2>3, <2>5
      <4> QED
        BY <4>1, <4>2
    <3> QED
      BY <3>2, <3>3 DEF Range
  <2> QED
    BY <1>4, <2>1, <2>5, <2>6, <2>7, SeqOfItsRange
<1> QED
  BY <1>2, <1>3, <1>4

(* What a pass resolves rests on the evidence it holds.                    *)
Rests(f, value, read) ==
  \E g \in {h \in DOMAIN evidence : h[1] = f /\ evidence[h].at <= read} :
    /\ g[2] = value
    /\ \A h \in {x \in DOMAIN evidence : x[1] = f /\ evidence[x].at <= read} :
         evidence[h].status = "ACTIVE" /\ Authority(f, h[3]) <= Authority(f, g[3]) => h[2] = value

LEMMA ResolvedIsSupported ==
  ASSUME EvidenceIsSound, NEW pass, HeldIsEvidence(pass), NEW f \in DOMAIN pass.held,
         ResolveField(f, pass.held[f]).review = "AUTO_RESOLVED"
  PROVE  Rests(f, ResolveField(f, pass.held[f]).value, pass.read)
<1> PICK cs : cs = pass.held[f]
  OBVIOUS
<1> PICK value : value = ResolveField(f, cs).value
  OBVIOUS
<1>1. \A c \in cs : /\ Hash(c)[1] = c.field /\ Hash(c)[2] = c.value /\ Hash(c)[3] = c.surface
  BY DEF Hash
<1>2. \A c \in cs : Hash(c) \in DOMAIN evidence /\ c.field = f /\ evidence[Hash(c)].at <= pass.read
  BY DEF HeldIsEvidence
<1>3. \A c \in cs : Supplies(f, c.surface)
  BY <1>1, <1>2 DEF EvidenceIsSound
<1>4. f \in SupportedFields
  BY DEF HeldIsEvidence
<1>5. PICK c \in cs :
        /\ c.value = value
        /\ \A d \in cs : Authority(f, d.surface) <= Authority(f, c.surface) => d.value = value
  BY <1>3, <1>4, ResolvedOutranks, Zenon
<1>6. ASSUME NEW h \in DOMAIN evidence, h[1] = f, evidence[h].at <= pass.read,
             evidence[h].status = "ACTIVE", Authority(f, h[3]) <= Authority(f, Hash(c)[3])
      PROVE  h[2] = value
  <2>1. PICK d \in cs : Hash(d) = h
    BY <1>6 DEF HeldIsEvidence
  <2> QED
    BY <1>1, <1>5, <1>6, <2>1
<1>7. Rests(f, value, pass.read)
  BY <1>1, <1>2, <1>5, <1>6 DEF Rests
<1> QED
  BY <1>7

LEMMA ResolveFieldsKeepsInv ==
  ASSUME EnrichInv, NEW p \in Enrichers, ResolveFields(p)
  PROVE  EnrichInv'
<1> PICK pass : pass = enriching[p]
  OBVIOUS
<1> PICK rs : rs = [f \in DOMAIN pass.held |-> ResolveField(f, pass.held[f])]
  OBVIOUS
<1> PICK after : after = IF p = "operator" \/ ForScheduler(rs) = {} THEN Resting
              ELSE [at |-> "apply", resolved |-> [f \in ForScheduler(rs) |-> rs[f].value]]
  OBVIOUS
<1>1. /\ pass.at = "resolve"
      /\ versions' = [f \in DOMAIN versions \cup DOMAIN rs |->
                        IF f \in DOMAIN rs THEN Revised(f, rs[f], pass.read) ELSE versions[f]]
      /\ enriching' = [enriching EXCEPT ![p] = after]
      /\ UNCHANGED <<evidence, tracked, planned, stored>>
  BY DEF ResolveFields
<1>2. EvidenceIsSound /\ VersionsAreSound /\ HeldIsEvidence(pass)
  BY <1>1, Zenon DEF EnrichInv, PassesAreSound, PassIsSound
<1>3. pass.read \in 0 .. stored
  BY <1>2 DEF HeldIsEvidence
<1>4. ASSUME NEW f \in DOMAIN rs
      PROVE  /\ f \in DOMAIN versions' /\ versions'[f] \in Seq(Range(versions'[f]))
             /\ versions'[f] # <<>> /\ Last(versions'[f]) = Version(rs[f], pass.read)
             /\ f \in DOMAIN versions =>
                  \A w \in Range(versions[f]) : \E x \in Range(versions'[f]) :
                    x.review = w.review /\ x.value = w.value
  <2>1. f \in DOMAIN versions' /\ versions'[f] = Revised(f, rs[f], pass.read)
    BY <1>1
  <2>2. /\ Revised(f, rs[f], pass.read) \in Seq(Range(Revised(f, rs[f], pass.read)))
        /\ Revised(f, rs[f], pass.read) # <<>>
        /\ Last(Revised(f, rs[f], pass.read)) = Version(rs[f], pass.read)
        /\ f \in DOMAIN versions =>
             \A w \in Range(versions[f]) : \E x \in Range(Revised(f, rs[f], pass.read)) :
               x.review = w.review /\ x.value = w.value
    BY <1>2, RevisedVersions
  <2> QED
    BY <2>1, <2>2
<1>5. ASSUME NEW f \in DOMAIN versions \ DOMAIN rs
      PROVE  f \in DOMAIN versions' /\ versions'[f] = versions[f]
  BY <1>1
<1>6. ASSUME NEW f \in DOMAIN versions' \ DOMAIN rs
      PROVE  f \in DOMAIN versions
  BY <1>1
<1>7. \A f \in DOMAIN rs : Current(f)' = Version(rs[f], pass.read)
  BY <1>4, Zenon DEF Current
<1>8. \A f \in DOMAIN versions' \ DOMAIN rs : Current(f)' = Current(f)
  BY <1>5, <1>6, Zenon DEF Current
<1>9. VersionsAreSound'
  <2>1. ASSUME NEW f \in DOMAIN rs PROVE Current(f)'.read \in 0 .. stored'
    BY <1>1, <1>3, <1>7 DEF Version
  <2>2. ASSUME NEW f \in DOMAIN versions' \ DOMAIN rs PROVE Current(f)'.read \in 0 .. stored'
    BY <1>1, <1>2, <1>6, <1>8 DEF VersionsAreSound
  <2>3. ASSUME NEW f \in DOMAIN versions'
        PROVE  versions'[f] \in Seq(Range(versions'[f])) /\ versions'[f] # <<>>
    <3>1. CASE f \in DOMAIN rs
      BY <3>1, <1>4
    <3>2. CASE f \notin DOMAIN rs
      BY <3>2, <1>2, <1>5, <1>6 DEF VersionsAreSound
    <3> QED
      BY <3>1, <3>2
  <2> QED
    BY <2>1, <2>2, <2>3 DEF VersionsAreSound
<1>10. ASSUME NEW f, NEW v, Settled(f, v) PROVE Settled(f, v)'
  <2>1. PICK w \in Range(versions[f]) : w.review = "AUTO_RESOLVED" /\ w.value = v
    BY <1>10 DEF Settled
  <2>2. f \in DOMAIN versions
    BY <1>10 DEF Settled
  <2>3. CASE f \in DOMAIN rs
    <3>1. PICK x \in Range(versions'[f]) : x.review = w.review /\ x.value = w.value
      BY <2>2, <2>3, <1>4
    <3> QED
      BY <2>1, <2>3, <3>1, <1>4 DEF Settled
  <2>4. CASE f \notin DOMAIN rs
    BY <2>1, <2>2, <2>4, <1>5 DEF Settled
  <2> QED
    BY <2>3, <2>4
<1>11. ASSUME NEW f \in DOMAIN rs, rs[f].review = "AUTO_RESOLVED"
       PROVE  Settled(f, rs[f].value)'
  <2>1. PICK vs : vs = versions'[f]
    OBVIOUS
  <2>2. vs \in Seq(Range(vs)) /\ vs # <<>> /\ Last(vs) = Version(rs[f], pass.read)
    BY <2>1, <1>4
  <2>3. Last(vs) \in Range(vs)
    BY <2>2 DEF Last
  <2>4. Last(vs).review = "AUTO_RESOLVED" /\ Last(vs).value = rs[f].value
    BY <2>2, <1>11 DEF Version
  <2> QED
    BY <2>1, <2>3, <2>4, <1>4 DEF Settled
<1>12. PassesLast
  <2>1. ASSUME NEW x, PassIsSound(x) PROVE PassIsSound(x)'
    <3>1. x.at = "resolve" => HeldIsEvidence(x)'
      BY <1>1, <2>1, Zenon DEF PassIsSound, HeldIsEvidence
    <3>2. x.at = "apply" => \A f \in DOMAIN x.resolved : Settled(f, x.resolved[f])'
      BY <2>1, <1>10, Zenon DEF PassIsSound
    <3> QED
      BY <2>1, <3>1, <3>2, Zenon DEF PassIsSound
  <2> QED
    BY <2>1 DEF PassesLast
<1>13. PassIsSound(after)'
  <2>1. CASE after = Resting
    BY <2>1 DEF PassIsSound, Resting
  <2>2. CASE after = [at |-> "apply", resolved |-> [f \in ForScheduler(rs) |-> rs[f].value]]
    <3>1. /\ after.at = "apply" /\ DOMAIN after.resolved = ForScheduler(rs)
          /\ \A f \in ForScheduler(rs) : after.resolved[f] = rs[f].value
      BY <2>2
    <3>2. ASSUME NEW f \in DOMAIN after.resolved PROVE Settled(f, after.resolved[f])'
      <4>1. f \in DOMAIN rs /\ rs[f].review = "AUTO_RESOLVED"
        BY <3>1 DEF ForScheduler
      <4>2. Settled(f, rs[f].value)'
        BY <4>1, <1>11
      <4>3. after.resolved[f] = rs[f].value
        BY <3>1
      <4> QED
        BY <4>2, <4>3, Zenon DEF Settled
    <3> QED
      BY <3>1, <3>2 DEF PassIsSound
  <2> QED
    BY <2>1, <2>2
<1>14. PassesAreSound'
  BY <1>1, <1>12, <1>13, PassMoves, Zenon DEF EnrichInv
<1>15. CurrentOutranksEvidence'
  <2>1. ASSUME NEW f \in DOMAIN rs, Current(f)'.review = "AUTO_RESOLVED"
        PROVE  \E g \in {h \in DOMAIN evidence : h[1] = f /\ evidence[h].at <= Current(f)'.read} :
                 /\ g[2] = Current(f)'.value
                 /\ \A h \in {x \in DOMAIN evidence : x[1] = f /\ evidence[x].at <= Current(f)'.read} :
                      evidence[h].status = "ACTIVE" /\ Authority(f, h[3]) <= Authority(f, g[3])
                        => h[2] = Current(f)'.value
    <3>1. rs[f] = ResolveField(f, pass.held[f]) /\ f \in DOMAIN pass.held
      OBVIOUS
    <3>2. /\ Current(f)'.read = pass.read /\ Current(f)'.value = rs[f].value
          /\ Current(f)'.review = rs[f].review
      <4>1. Current(f)' = Version(rs[f], pass.read)
        BY <1>7
      <4>2. /\ Version(rs[f], pass.read).read = pass.read /\ Version(rs[f], pass.read).value = rs[f].value
            /\ Version(rs[f], pass.read).review = rs[f].review
        BY DEF Version
      <4> QED
        BY <4>1, <4>2
    <3>3. ResolveField(f, pass.held[f]).review = "AUTO_RESOLVED"
      BY <2>1, <3>1, <3>2, Zenon
    <3>4. Rests(f, ResolveField(f, pass.held[f]).value, pass.read)
      BY <3>1, <3>3, <1>2, ResolvedIsSupported
    <3> QED
      BY <3>1, <3>2, <3>4, Zenon DEF Rests
  <2>2. ASSUME NEW f \in DOMAIN versions' \ DOMAIN rs, Current(f)'.review = "AUTO_RESOLVED"
        PROVE  \E g \in {h \in DOMAIN evidence : h[1] = f /\ evidence[h].at <= Current(f)'.read} :
                 /\ g[2] = Current(f)'.value
                 /\ \A h \in {x \in DOMAIN evidence : x[1] = f /\ evidence[x].at <= Current(f)'.read} :
                      evidence[h].status = "ACTIVE" /\ Authority(f, h[3]) <= Authority(f, g[3])
                        => h[2] = Current(f)'.value
    <3>1. Current(f)' = Current(f) /\ f \in DOMAIN versions
      BY <1>6, <1>8
    <3> QED
      BY <2>2, <3>1 DEF EnrichInv, EvidenceDecides, CurrentOutranksEvidence
  <2> QED
    BY <2>1, <2>2, <1>1 DEF CurrentOutranksEvidence
<1>16. TrackedIsResolved'
  <2>1. ASSUME NEW f \in DOMAIN tracked \ {"tracking"}, tracked[f] # None PROVE Settled(f, tracked[f])'
    <3>1. Settled(f, tracked[f])
      BY <2>1 DEF EnrichInv, EvidenceDecides, TrackedIsResolved, Settled
    <3>2. PICK v : v = tracked[f]
      OBVIOUS
    <3>3. Settled(f, v)'
      BY <3>1, <3>2, <1>10
    <3> QED
      BY <1>1, <3>2, <3>3, Zenon DEF Settled
  <2> QED
    BY <2>1, <1>1 DEF TrackedIsResolved, Settled
<1>17. EvidenceIsSound' /\ ActiveIsLastNew' /\ TrackedIsWhole' /\ PlanFollowsEvent'
  BY <1>1 DEF EnrichInv, EvidenceDecides, EvidenceIsSound, ActiveIsLastNew, TrackedIsWhole, PlanFollowsEvent
<1> QED
  BY <1>9, <1>14, <1>15, <1>16, <1>17, Zenon DEF EnrichInv, EvidenceDecides

(* What is applied was settled; a date or status that changes is planned   *)
(* for, or the event is no longer captured.                                *)
LEMMA ApplyKeepsInv ==
  ASSUME EnrichInv, NEW p \in Enrichers, Apply(p)
  PROVE  EnrichInv'
<1> PICK r : r = enriching[p].resolved
  OBVIOUS
<1> PICK te : te = Applied(tracked, r)
  OBVIOUS
<1>1. /\ enriching[p].at = "apply"
      /\ \/ OutOfScope(te) /\ tracked' = [te EXCEPT !.tracking = "STOPPED"]
         \/ /\ tracked' = te
            /\ planned' = IF MustReplan(tracked, te) /\ te.tracking \in Trackable
                          THEN <<te.starts_at, te.event_status>> ELSE planned
      /\ enriching' = [enriching EXCEPT ![p] = Resting]
      /\ UNCHANGED <<evidence, versions, stored>>
  BY DEF Apply
<1>2. \A f \in DOMAIN r : Settled(f, r[f])
  BY <1>1, Zenon DEF EnrichInv, PassesAreSound, PassIsSound
<1>3. DOMAIN tracked = {"starts_at", "event_status", "city", "region_id", "first_seen", "tracking"}
  BY DEF EnrichInv, TrackedIsWhole
<1>4. /\ DOMAIN te = DOMAIN tracked /\ te.tracking = tracked.tracking
      /\ \A f \in DOMAIN tracked \ {"tracking"} :
           te[f] = tracked[f] \/ (f \in DOMAIN r /\ te[f] = r[f])
  BY <1>3 DEF Applied
<1>5. ASSUME NEW f \in DOMAIN tracked \ {"tracking"}, te[f] # None
      PROVE  Settled(f, te[f])
  <2>1. CASE te[f] = tracked[f]
    BY <1>5, <2>1 DEF EnrichInv, EvidenceDecides, TrackedIsResolved, Settled
  <2>2. CASE f \in DOMAIN r /\ te[f] = r[f]
    BY <1>2, <2>2
  <2> QED
    BY <1>4, <2>1, <2>2
<1>6. /\ DOMAIN tracked' = DOMAIN tracked
      /\ \A f \in DOMAIN tracked \ {"tracking"} : tracked'[f] = te[f]
  BY <1>1, <1>3, <1>4
<1>7. TrackedIsWhole'
  BY <1>3, <1>6 DEF TrackedIsWhole
<1>8. TrackedIsResolved'
  BY <1>1, <1>5, <1>6, Zenon DEF TrackedIsResolved, Settled
<1>9. PlanFollowsEvent'
  <2>1. CASE tracked' = [te EXCEPT !.tracking = "STOPPED"]
    <3>1. tracked'.tracking = "STOPPED"
      BY <2>1, <1>3, <1>4
    <3> QED
      BY <3>1 DEF PlanFollowsEvent, Trackable
  <2>2. CASE /\ tracked' = te
             /\ planned' = IF MustReplan(tracked, te) /\ te.tracking \in Trackable
                           THEN <<te.starts_at, te.event_status>> ELSE planned
    BY <2>2, <1>4 DEF PlanFollowsEvent, MustReplan, EnrichInv
  <2> QED
    BY <1>1, <2>1, <2>2
<1>10. PassesAreSound'
  <2>1. PassIsSound(Resting)'
    BY RestIsSound, PTL
  <2> QED
    BY <1>1, <2>1, LookingKeepsEvidence, PassMoves, Zenon DEF EnrichInv
<1> QED
  BY <1>1, <1>7, <1>8, <1>9, <1>10, LookingKeepsEvidence, Zenon DEF EnrichInv, EvidenceDecides

-----------------------------------------------------------------------------
LEMMA EnrichKeepsInv == EnrichInv /\ [EnrichNext]_enrichVars => EnrichInv'
<1> SUFFICES ASSUME EnrichInv, [EnrichNext]_enrichVars PROVE EnrichInv'
  OBVIOUS
<1>1. ASSUME NEW p \in Enrichers, Observe(p) PROVE EnrichInv'
  BY <1>1, ObserveKeepsInv
<1>2. ASSUME NEW p \in Enrichers, Persist(p) PROVE EnrichInv'
  BY <1>2, PersistKeepsInv
<1>3. ASSUME NEW p \in Enrichers, PersistFails(p) PROVE EnrichInv'
  BY <1>3, RestKeepsInv DEF PersistFails
<1>4. ASSUME NEW p \in Enrichers, ResolveFields(p) PROVE EnrichInv'
  BY <1>4, ResolveFieldsKeepsInv
<1>5. ASSUME NEW p \in Enrichers, Apply(p) PROVE EnrichInv'
  BY <1>5, ApplyKeepsInv
<1>6. ASSUME NEW p \in Enrichers, Interrupted(p) PROVE EnrichInv'
  BY <1>6, RestKeepsInv DEF Interrupted
<1>7. CASE StoreCard
  BY <1>7, StoreCardKeepsInv
<1>8. CASE UNCHANGED enrichVars
  <2>1. UNCHANGED <<evidence, versions, stored, tracked, planned, enriching>>
    BY <1>8 DEF enrichVars
  <2>2. PassesAreSound'
    BY <2>1, LookingKeepsEvidence, Zenon DEF EnrichInv, PassesAreSound, PassesLast
  <2> QED
    BY <2>1, <2>2, LookingKeepsEvidence, TrackedStays, Zenon DEF EnrichInv, EvidenceDecides
<1> QED
  BY <1>1, <1>2, <1>3, <1>4, <1>5, <1>6, <1>7, <1>8, Zenon DEF EnrichNext

(* Values rest on evidence, for every number of batches, pages and nodes   *)
(* and however the two passes and the pilot interleave: what each surface  *)
(* said last decides, nothing that still contradicts is passed over, and   *)
(* only what was settled so reaches the tracked event (enrichment/         *)
(* service.py, resolver.py; service.py, _apply_enrichment).                *)
THEOREM ResolutionsRestOnEvidence == EnrichSpec => []EvidenceDecides
<1>1. EnrichInv => EvidenceDecides
  BY DEF EnrichInv
<1> QED
  BY <1>1, EnrichInitIsSound, EnrichKeepsInv, PTL DEF EnrichSpec

(* The next capture of an event that is still captured was computed for    *)
(* the date and status it has (service.py, _apply_enrichment).             *)
THEOREM PlansStayCurrent == EnrichSpec => []PlanFollowsEvent
<1>1. EnrichInv => PlanFollowsEvent
  BY DEF EnrichInv
<1> QED
  BY <1>1, EnrichInitIsSound, EnrichKeepsInv, PTL DEF EnrichSpec

-----------------------------------------------------------------------------
(* SourceDiscovery.  The inductive invariant: a discovery has read the     *)
(* candidates up to `considered`, each of which went to one of the three   *)
(* lists; `left` are the others.                                           *)

IsAnEvent(e) ==
  /\ Or(e.id, e.slug) # None
  /\ e.name # None /\ ~Has(e.name, "placeholder") /\ ~Has(e.name, "spam")
  /\ e.start # None \/ e.venue # None \/ e.price # None \/ e.artists # <<>>
  /\ e.start # None => ~FarFuture(e.start, Today)
  /\ CityFilter # None => e.city = CityFilter

ReportIsSound(report) ==
  /\ DOMAIN report = {"at", "left", "considered", "accepted", "rejected", "outside"}
  /\ report.considered \in 0 .. FetchCap
  /\ report.left = report.considered + 1 .. FetchCap
  /\ report.accepted \in Seq(Range(report.accepted))
  /\ report.rejected \in Seq(Range(report.rejected))
  /\ report.outside \in Seq(Range(report.outside))
  /\ report.considered = Len(report.accepted) + Len(report.rejected) + Len(report.outside)
  /\ Len(report.accepted) <= DiscoveryLimit
  /\ \A e \in Range(report.accepted) : IsAnEvent(e)

DiscoveryInv ==
  /\ DOMAIN reporting = Sources
  /\ \A s \in Sources : reporting[s] = NoReport \/ ReportIsSound(reporting[s])

LEMMA SoundReportIsHonest == DiscoveryInv => ReportIsHonest
<1> SUFFICES ASSUME DiscoveryInv PROVE ReportIsHonest
  OBVIOUS
<1>1. ASSUME NEW s \in Sources, reporting[s].at # "none" PROVE ReportIsSound(reporting[s])
  BY <1>1 DEF DiscoveryInv, NoReport
<1>2. AcceptedIsAnEvent
  BY <1>1, Zenon DEF AcceptedIsAnEvent, ReportIsSound, IsAnEvent
<1>3. ReportAddsUp
  <2>1. ASSUME NEW s \in Sources, reporting[s].at # "none"
        PROVE  LET r == reporting[s]
               IN  /\ r.considered = Len(r.accepted) + Len(r.rejected) + Len(r.outside)
                   /\ r.considered <= FetchCap /\ Len(r.accepted) <= DiscoveryLimit
    <3>1. PICK r : r = reporting[s]
      OBVIOUS
    <3>2. ReportIsSound(r)
      BY <2>1, <3>1, <1>1
    <3>3. r.considered <= FetchCap
      BY <3>2, DiscoveryIsBounded DEF ReportIsSound
    <3> QED
      BY <3>1, <3>2, <3>3, Zenon DEF ReportIsSound
  <2> QED
    BY <2>1 DEF ReportAddsUp
<1> QED
  BY <1>2, <1>3 DEF ReportIsHonest

(* A list of a report, with one element more. *)
LEMMA Listed ==
  ASSUME NEW s, s \in Seq(Range(s)), NEW x
  PROVE  /\ Append(s, x) \in Seq(Range(Append(s, x)))
         /\ Len(Append(s, x)) = Len(s) + 1
         /\ Range(Append(s, x)) = Range(s) \cup {x}
<1>1. PICK S : S = Range(s)
  OBVIOUS
<1>2. /\ Append(s, x) \in Seq(S \cup {x}) /\ Len(Append(s, x)) = Len(s) + 1 /\ Len(s) \in Nat
      /\ \A i \in 1 .. Len(s) : Append(s, x)[i] = s[i]
      /\ Append(s, x)[Len(s) + 1] = x
  BY <1>1
<1>3. PICK t : t = Append(s, x)
  OBVIOUS
<1>4. t \in Seq(Range(t))
  BY <1>2, <1>3, SeqOfItsRange
<1>5. Range(t) = S \cup {x}
  <2>1. DOMAIN t = 1 .. Len(s) + 1 /\ DOMAIN s = 1 .. Len(s)
    BY <1>1, <1>2, <1>3
  <2>2. Range(t) \subseteq S \cup {x}
    BY <2>1, <1>1, <1>2, <1>3 DEF Range
  <2>3. S \subseteq Range(t)
    BY <2>1, <1>1, <1>2, <1>3 DEF Range
  <2>4. x \in Range(t)
    BY <2>1, <1>2, <1>3 DEF Range
  <2> QED
    BY <2>2, <2>3, <2>4
<1> QED
  BY <1>1, <1>2, <1>3, <1>4, <1>5

(* What is not rejected and in scope is an event.                          *)
LEMMA NotRejected ==
  ASSUME NEW e, Rejections(e, Today) = {}, InScope(e)
  PROVE  IsAnEvent(e)
<1>1. /\ ~ (e.id = None /\ e.slug = None)
      /\ ~ (e.name = None \/ Has(e.name, "placeholder"))
      /\ ~ Has(e.name, "spam")
      /\ ~ (e.start # None /\ FarFuture(e.start, Today))
      /\ ~ Hollow(e)
  BY DEF Rejections
<1> QED
  BY <1>1 DEF IsAnEvent, Or, Hollow, Empty, InScope

LEMMA JudgedIsSound ==
  ASSUME NEW report, ReportIsSound(report), report.left # {}, Len(report.accepted) < DiscoveryLimit,
         NEW outcome
  PROVE  ReportIsSound(Judged(report, Min(report.left), outcome))
<1> PICK r : r = Min(report.left)
  OBVIOUS
<1> PICK next : next = Judged(report, r, outcome)
  OBVIOUS
<1> PICK n : n = report.considered
  OBVIOUS
<1>1. n \in Nat /\ FetchCap \in Nat /\ report.left = n + 1 .. FetchCap /\ n + 1 <= FetchCap
  BY DiscoveryIsBounded DEF ReportIsSound
<1>2. r = n + 1
  <2>1. report.left \subseteq Nat /\ n + 1 \in report.left
    BY <1>1
  <2>2. r \in report.left /\ r <= n + 1
    BY <2>1, MinIsLeast
  <2> QED
    BY <2>2, <1>1
<1>3. report.left \ {r} = (n + 1) + 1 .. FetchCap /\ n + 1 \in 0 .. FetchCap
  BY <1>1, <1>2
<1>4. PICK counted : counted = [report EXCEPT !.left = @ \ {r}, !.considered = @ + 1]
  OBVIOUS
<1>5. /\ DOMAIN counted = {"at", "left", "considered", "accepted", "rejected", "outside"}
      /\ counted.left = report.left \ {r} /\ counted.considered = n + 1
      /\ counted.accepted = report.accepted /\ counted.rejected = report.rejected
      /\ counted.outside = report.outside
  BY <1>4 DEF ReportIsSound
<1>6. \/ \E x : next = [counted EXCEPT !.rejected = Append(@, x)]
      \/ \E x : next = [counted EXCEPT !.outside = Append(@, x)]
      \/ \E x : next = [counted EXCEPT !.accepted = Append(@, x)] /\ IsAnEvent(x)
  <2>1. CASE outcome.failure # None
    BY <1>4, <2>1 DEF Judged
  <2>2. CASE outcome.failure = None /\ Rejections(outcome.event, Today) # {}
    BY <1>4, <2>2 DEF Judged
  <2>3. CASE outcome.failure = None /\ Rejections(outcome.event, Today) = {} /\ InScope(outcome.event)
    BY <1>4, <2>3, NotRejected DEF Judged
  <2>4. CASE outcome.failure = None /\ Rejections(outcome.event, Today) = {} /\ ~InScope(outcome.event)
    BY <1>4, <2>4 DEF Judged
  <2> QED
    BY <2>1, <2>2, <2>3, <2>4, Zenon
<1>7. /\ Len(report.accepted) \in Nat /\ Len(report.rejected) \in Nat /\ Len(report.outside) \in Nat
      /\ report.accepted \in Seq(Range(report.accepted))
      /\ report.rejected \in Seq(Range(report.rejected))
      /\ report.outside \in Seq(Range(report.outside))
      /\ n = Len(report.accepted) + Len(report.rejected) + Len(report.outside)
  BY DEF ReportIsSound
<1>8. \A e \in Range(report.accepted) : IsAnEvent(e)
  BY DEF ReportIsSound
<1>9. PICK a, b, c : a = Len(report.accepted) /\ b = Len(report.rejected) /\ c = Len(report.outside)
  OBVIOUS
<1>10. /\ a \in Nat /\ b \in Nat /\ c \in Nat /\ n = a + b + c /\ DiscoveryLimit \in Nat
      /\ a < DiscoveryLimit
  BY <1>7, <1>9, DiscoveryIsBounded, Zenon
<1>11. CASE \E x : next = [counted EXCEPT !.rejected = Append(@, x)]
  <2>1. PICK x : next = [counted EXCEPT !.rejected = Append(@, x)]
    BY <1>11
  <2>2. PICK t : t = Append(report.rejected, x)
    OBVIOUS
  <2>3. t \in Seq(Range(t)) /\ Len(t) = Len(report.rejected) + 1
    BY <2>2, <1>7, Listed
  <2>4. /\ DOMAIN next = DOMAIN counted /\ next.left = counted.left /\ next.considered = counted.considered
        /\ next.accepted = report.accepted /\ next.rejected = t /\ next.outside = report.outside
    BY <2>1, <2>2, <1>5
  <2>5. n + 1 = Len(next.accepted) + Len(next.rejected) + Len(next.outside)
        /\ Len(next.accepted) <= DiscoveryLimit
    <3>1. Len(next.accepted) = a /\ Len(next.rejected) = b + 1 /\ Len(next.outside) = c
      BY <2>3, <2>4, <1>9, Zenon
    <3>2. n + 1 = a + (b + 1) + c /\ a <= DiscoveryLimit
      BY <1>10
    <3> QED
      BY <3>1, <3>2, Zenon
  <2>6. DOMAIN next = {"at", "left", "considered", "accepted", "rejected", "outside"}
        /\ next.considered = n + 1 /\ next.left = (n + 1) + 1 .. FetchCap
    BY <2>4, <1>3, <1>5
  <2> QED
    BY <2>3, <2>4, <2>5, <2>6, <1>3, <1>7, <1>8, Zenon DEF ReportIsSound
<1>12. CASE \E x : next = [counted EXCEPT !.outside = Append(@, x)]
  <2>1. PICK x : next = [counted EXCEPT !.outside = Append(@, x)]
    BY <1>12
  <2>2. PICK t : t = Append(report.outside, x)
    OBVIOUS
  <2>3. t \in Seq(Range(t)) /\ Len(t) = Len(report.outside) + 1
    BY <2>2, <1>7, Listed
  <2>4. /\ DOMAIN next = DOMAIN counted /\ next.left = counted.left /\ next.considered = counted.considered
        /\ next.accepted = report.accepted /\ next.rejected = report.rejected /\ next.outside = t
    BY <2>1, <2>2, <1>5
  <2>5. n + 1 = Len(next.accepted) + Len(next.rejected) + Len(next.outside)
        /\ Len(next.accepted) <= DiscoveryLimit
    <3>1. Len(next.accepted) = a /\ Len(next.rejected) = b /\ Len(next.outside) = c + 1
      BY <2>3, <2>4, <1>9, Zenon
    <3>2. n + 1 = a + b + (c + 1) /\ a <= DiscoveryLimit
      BY <1>10
    <3> QED
      BY <3>1, <3>2, Zenon
  <2>6. DOMAIN next = {"at", "left", "considered", "accepted", "rejected", "outside"}
        /\ next.considered = n + 1 /\ next.left = (n + 1) + 1 .. FetchCap
    BY <2>4, <1>3, <1>5
  <2> QED
    BY <2>3, <2>4, <2>5, <2>6, <1>3, <1>7, <1>8, Zenon DEF ReportIsSound
<1>13. CASE \E x : next = [counted EXCEPT !.accepted = Append(@, x)] /\ IsAnEvent(x)
  <2>1. PICK x : next = [counted EXCEPT !.accepted = Append(@, x)] /\ IsAnEvent(x)
    BY <1>13
  <2>2. PICK t : t = Append(report.accepted, x)
    OBVIOUS
  <2>3. t \in Seq(Range(t)) /\ Len(t) = Len(report.accepted) + 1 /\ Range(t) = Range(report.accepted) \cup {x}
    BY <2>2, <1>7, Listed
  <2>4. /\ DOMAIN next = DOMAIN counted /\ next.left = counted.left /\ next.considered = counted.considered
        /\ next.accepted = t /\ next.rejected = report.rejected /\ next.outside = report.outside
    BY <2>1, <2>2, <1>5
  <2>5. \A e \in Range(t) : IsAnEvent(e)
    BY <2>1, <2>3, <1>8
  <2>6. n + 1 = Len(next.accepted) + Len(next.rejected) + Len(next.outside)
        /\ Len(next.accepted) <= DiscoveryLimit
    <3>1. Len(next.accepted) = a + 1 /\ Len(next.rejected) = b /\ Len(next.outside) = c
      BY <2>3, <2>4, <1>9, Zenon
    <3>2. n + 1 = (a + 1) + b + c /\ a + 1 <= DiscoveryLimit
      BY <1>10
    <3> QED
      BY <3>1, <3>2, Zenon
  <2>7. DOMAIN next = {"at", "left", "considered", "accepted", "rejected", "outside"}
        /\ next.considered = n + 1 /\ next.left = (n + 1) + 1 .. FetchCap
    BY <2>4, <1>3, <1>5
  <2> QED
    BY <2>3, <2>4, <2>5, <2>6, <2>7, <1>3, <1>7, Zenon DEF ReportIsSound
<1> QED
  BY <1>6, <1>11, <1>12, <1>13

LEMMA DiscoveryKeepsInv == DiscoveryInv /\ [DiscoveryNext]_discoveryVars => DiscoveryInv'
<1> SUFFICES ASSUME DiscoveryInv, [DiscoveryNext]_discoveryVars PROVE DiscoveryInv'
  OBVIOUS
<1>1. ASSUME NEW s \in Sources, NEW after, reporting' = [reporting EXCEPT ![s] = after],
             ReportIsSound(after)
      PROVE  DiscoveryInv'
  BY <1>1 DEF DiscoveryInv
<1>2. ASSUME NEW s \in Sources, reporting[s] # NoReport PROVE ReportIsSound(reporting[s])
  BY <1>2 DEF DiscoveryInv
<1>3. ReportIsSound(Begun) /\ ReportIsSound([Begun EXCEPT !.at = "unavailable"])
  <2>1. <<>> \in Seq(Range(<<>>)) /\ Range(<<>>) = {} /\ Len(<<>>) = 0
    <3>1. <<>> \in Seq({}) /\ Len(<<>>) = 0
      OBVIOUS
    <3> QED
      BY <3>1, SeqOfItsRange DEF Range
  <2>2. 0 \in 0 .. FetchCap /\ 1 .. FetchCap = 0 + 1 .. FetchCap /\ 0 <= DiscoveryLimit
    BY DiscoveryIsBounded
  <2>3. ASSUME NEW r, r = Begun \/ r = [Begun EXCEPT !.at = "unavailable"] PROVE ReportIsSound(r)
    <3>1. /\ DOMAIN r = {"at", "left", "considered", "accepted", "rejected", "outside"}
          /\ r.left = 1 .. FetchCap /\ r.considered = 0
          /\ r.accepted = <<>> /\ r.rejected = <<>> /\ r.outside = <<>>
      BY <2>3 DEF Begun
    <3> QED
      BY <3>1, <2>1, <2>2 DEF ReportIsSound
  <2> QED
    BY <2>3
<1>4. ASSUME NEW s \in Sources, Restock(s) PROVE DiscoveryInv'
  BY <1>4 DEF Restock, DiscoveryInv
<1>5. ASSUME NEW s \in Sources, StartDiscovery(s) PROVE DiscoveryInv'
  BY <1>1, <1>3, <1>5 DEF StartDiscovery
<1>6. ASSUME NEW s \in Sources, Unavailable(s) PROVE DiscoveryInv'
  BY <1>1, <1>3, <1>6 DEF Unavailable
<1>7. ASSUME NEW s \in Sources, FetchNext(s) PROVE DiscoveryInv'
  <2>1. PICK outcome :
          reporting' = [reporting EXCEPT ![s] = Judged(reporting[s], Min(reporting[s].left), outcome)]
    BY <1>7 DEF FetchNext, DiscoveryInv
  <2>2. reporting[s].at = "fetch" /\ ~Ended(reporting[s])
    BY <1>7 DEF FetchNext
  <2>3. ReportIsSound(reporting[s])
    BY <1>2, <2>2 DEF NoReport
  <2>4. reporting[s].left # {} /\ Len(reporting[s].accepted) < DiscoveryLimit
    <3>1. Len(reporting[s].accepted) \in Nat
      BY <2>3 DEF ReportIsSound
    <3> QED
      BY <2>2, <3>1, DiscoveryIsBounded DEF Ended
  <2>5. ReportIsSound(Judged(reporting[s], Min(reporting[s].left), outcome))
    BY <2>3, <2>4, JudgedIsSound
  <2> QED
    BY <1>1, <2>1, <2>5
<1>8. ASSUME NEW s \in Sources, Report(s) PROVE DiscoveryInv'
  <2>1. PICK r : r = reporting[s]
    OBVIOUS
  <2>2. PICK after : after = [r EXCEPT !.at = "done"]
    OBVIOUS
  <2>3. reporting' = [reporting EXCEPT ![s] = after] /\ ReportIsSound(r)
    BY <1>2, <1>8, <2>1, <2>2 DEF Report, NoReport, DiscoveryInv
  <2>4. /\ DOMAIN r = {"at", "left", "considered", "accepted", "rejected", "outside"}
        /\ DOMAIN after = DOMAIN r /\ after.left = r.left /\ after.considered = r.considered
        /\ after.accepted = r.accepted /\ after.rejected = r.rejected /\ after.outside = r.outside
    BY <2>2, <2>3 DEF ReportIsSound
  <2>5. ReportIsSound(after)
    BY <2>3, <2>4, Zenon DEF ReportIsSound
  <2> QED
    BY <1>1, <2>3, <2>5
<1>9. ASSUME NEW s \in Sources, NEW r \in Refs, Preview(s, r) PROVE DiscoveryInv'
  BY <1>9 DEF Preview, DiscoveryInv
<1>10. CASE UNCHANGED discoveryVars
  BY <1>10 DEF discoveryVars, DiscoveryInv
<1> QED
  BY <1>4, <1>5, <1>6, <1>7, <1>8, <1>9, <1>10, Zenon DEF DiscoveryNext

(* However many candidates a source lists and whatever the platform        *)
(* answers in between, what a report offers for enrollment is an event,    *)
(* and the report accounts for everything it read, within its limits       *)
(* (routes/sources.py, adapters/sources.py, adapters/quality.py).          *)
THEOREM ReportsStayHonest == DiscoverySpec => []ReportIsHonest
<1>1. DiscoveryInit => DiscoveryInv
  BY DEF DiscoveryInit, DiscoveryInv
<1> QED
  BY <1>1, DiscoveryKeepsInv, SoundReportIsHonest, PTL DEF DiscoverySpec

LEMMA GoneIsSure ==
  ASSUME NEW s, NEW r, NEW answers \in Asked(s, r), RouteStatus(Extract(s, answers)) = "404"
  PROVE  \A k \in DOMAIN answers : Ok(answers[k]) /\ answers[k].item = None
<1> DEFINE failing == Failing(answers)
           found == {k \in DOMAIN answers : answers[k].item # None}
<1>1. ASSUME NEW why, RouteStatus(Failed(why)) = "404" PROVE why = "EventNotFound"
  BY <1>1 DEF RouteStatus, Failed
<1>2. ASSUME NEW e PROVE RouteStatus(Present(e)) # "404"
  <2>1. Present(e).failure = None
    BY DEF Present
  <2> QED
    BY <2>1, NoneIsNoFailure DEF RouteStatus
<1>3. failing = {}
  <2> SUFFICES ASSUME failing # {} PROVE FALSE
    OBVIOUS
  <2>1. failing \subseteq Nat
    BY DEF Failing, Asked, Searches
  <2>2. Min(failing) \in DOMAIN answers
    BY <2>1, MinIsLeast DEF Failing
  <2>3. answers[Min(failing)].status \in {"200", "403", "timeout", "404"}
    BY <2>2 DEF Asked, MayReply
  <2>4. s # "bookmyshow" => Extract(s, answers) = Failed(answers[Min(failing)].status)
    BY Zenon DEF Extract
  <2>5. s = "bookmyshow" => Extract(s, answers) = Failed("RuntimeError")
    BY Zenon DEF Extract
  <2> QED
    BY <1>1, <2>3, <2>4, <2>5
<1>4. found = {}
  <2>1. s # "bookmyshow" /\ found # {} =>
          Extract(s, answers) = Present(Mapped(s, answers[Min(found)].item))
    BY <1>3, Zenon DEF Extract
  <2>2. s = "bookmyshow" => Extract(s, answers) = Failed("RuntimeError")
    BY Zenon DEF Extract
  <2> QED
    BY <1>1, <1>2, <2>1, <2>2
<1> QED
  BY <1>3, <1>4 DEF Failing

(* A record that is called gone was looked for in every place the source   *)
(* is searched, each of which answered, and was in none: whatever the      *)
(* platforms list and however they fail (adapters/ticketing.py).           *)
THEOREM AbsencesStayAnswered == DiscoverySpec => []AbsenceIsAnswered
<1>1. DiscoveryInit => AbsenceIsAnswered
  BY DEF DiscoveryInit, AbsenceIsAnswered
<1>2. AbsenceIsAnswered /\ [DiscoveryNext]_discoveryVars => AbsenceIsAnswered'
  <2> SUFFICES ASSUME AbsenceIsAnswered, [DiscoveryNext]_discoveryVars PROVE AbsenceIsAnswered'
    OBVIOUS
  <2>1. ASSUME NEW s \in Sources, NEW r \in Refs, Preview(s, r) PROVE AbsenceIsAnswered'
    <3>1. PICK answers \in Asked(s, r) :
            told' = [gone |-> RouteStatus(Extract(s, answers)) = "404",
                     sure |-> \A k \in DOMAIN answers : Ok(answers[k]) /\ answers[k].item = None]
      BY <2>1 DEF Preview
    <3>2. told'.gone => told'.sure
      BY <3>1, GoneIsSure
    <3> QED
      BY <3>2 DEF AbsenceIsAnswered
  <2>2. CASE told' = None
    BY <2>2 DEF AbsenceIsAnswered
  <2>3. CASE UNCHANGED discoveryVars
    BY <2>3 DEF discoveryVars, AbsenceIsAnswered
  <2> QED
    BY <2>1, <2>2, <2>3 DEF DiscoveryNext, Restock, StartDiscovery, Unavailable, FetchNext, Report
<1> QED
  BY <1>1, <1>2, PTL DEF DiscoverySpec

-----------------------------------------------------------------------------
(* MatchRules: what an automatic match of two views means.                 *)

LEMMA PerformersAreFinite ==
  ASSUME NEW v, IsView(v)
  PROVE  IsFiniteSet(Performers(v))
<1> DEFINE f == [p \in v.performers |-> Words[p]]
           T == {Words[p] : p \in v.performers}
<1>1. f \in Surjection(v.performers, T)
  BY DEF Surjection
<1>2. IsFiniteSet(T)
  BY <1>1, FS_Surjection, Zenon DEF IsView
<1>3. \A t \in T : IsFiniteSet(t)
  BY MatchingIsDefined DEF IsView
<1> HIDE DEF T
<1> QED
  BY <1>2, <1>3, FS_UNION DEF Performers, T

LEMMA NothingSharedIsZero ==
  ASSUME NEW n \in Nat, n # 0
  PROVE  Rounded(1000 * 0, n) = 0
<1>1. n \div 2 \in 0 .. n - 1
  OBVIOUS
<1>2. \A k \in 0 .. n - 1 : k \div n = 0
  OBVIOUS
<1> QED
  BY <1>1, <1>2 DEF Rounded

(* The likeness of two performer sets with nothing in common is none.      *)
LEMMA NoCommonPerformer ==
  ASSUME NEW l, NEW r, IsView(l), IsView(r), Performers(l) # {}, Performers(r) # {},
         Performers(l) \cap Performers(r) = {}
  PROVE  "performer" \in DOMAIN Components(l, r) /\ Components(l, r)["performer"] = 0
<1> DEFINE both == Performers(l) \cup Performers(r)
<1>1. IsFiniteSet(both)
  BY PerformersAreFinite, FS_Union
<1>2. Cardinality(both) \in Nat /\ Cardinality(both) # 0
  BY <1>1, FS_CardinalityType, FS_EmptySet
<1>3. Cardinality(Performers(l) \cap Performers(r)) = 0
  BY FS_EmptySet
<1>4. Rounded(1000 * Cardinality(Performers(l) \cap Performers(r)), Cardinality(both)) = 0
  <2>1. \A n \in Nat : n # 0 => Rounded(1000 * 0, n) = 0
    BY NothingSharedIsZero
  <2>2. Rounded(1000 * 0, Cardinality(both)) = 0
    BY <1>2, <2>1
  <2> QED
    BY <1>3, <2>2
<1>5. "performer" \in DOMAIN Components(l, r)
  BY DEF Components
<1>6. Components(l, r)["performer"] =
        Rounded(1000 * Cardinality(Performers(l) \cap Performers(r)), Cardinality(both))
  BY DEF Components
<1> QED
  BY <1>4, <1>5, <1>6

Compatible(l, r) ==
  /\ Both(l.date, r.date) /\ Apart(l, r) <= Tolerance
  /\ Both(l.city, r.city) => l.city = r.city
  /\ Performers(l) # {} /\ Performers(r) # {} => Performers(l) \cap Performers(r) # {}

LEMMA MatchIsCompatible ==
  ASSUME NEW l, NEW r, IsView(l), IsView(r), Status(l, r) = "MATCHED"
  PROVE  Compatible(l, r)
<1> PICK comp : comp = Components(l, r)
  OBVIOUS
<1>1. ~Contradicted(l, r, comp) /\ Automatic(comp)
  BY DEF Status
<1>2. "date" \in DOMAIN comp /\ Both(l.date, r.date)
  BY <1>1 DEF Automatic, Components
<1>3. Apart(l, r) <= Tolerance
  <2>1. ~ (Apart(l, r) > Tolerance)
    BY <1>1, <1>2 DEF Contradicted
  <2>2. Apart(l, r) \in Int
    BY <1>2 DEF Apart, Both, IsView
  <2> QED
    BY <2>1, <2>2, MatchingIsDefined
<1>4. ASSUME Both(l.city, r.city) PROVE l.city = r.city
  <2>1. "city" \in DOMAIN comp
    BY <1>4 DEF Components
  <2>2. comp["city"] = IF l.city = r.city THEN 1000 ELSE 0
    BY <2>1 DEF Components
  <2> QED
    BY <1>1, <2>1, <2>2 DEF Contradicted
<1>5. Performers(l) # {} /\ Performers(r) # {} => Performers(l) \cap Performers(r) # {}
  BY <1>1, NoCommonPerformer DEF Contradicted
<1> QED
  BY <1>2, <1>3, <1>4, <1>5 DEF Compatible


-----------------------------------------------------------------------------
(* EventMatching.  The inductive invariant: what a run has read are views, *)
(* every row is of a listing of either source, and a matched one stands on *)
(* compatible views.                                                       *)

RowIsSound(p) ==
  /\ p \in LeftListings \X RightListings
  /\ matches[p].status = "MATCHED" => Compatible(matches[p].on[1], matches[p].on[2])

MatchInv ==
  /\ DOMAIN matching = MatchRuns
  /\ DOMAIN listing = Listings
  /\ \A e \in Listings : IsView(listing[e])
  /\ \A r \in MatchRuns : matching[r].at = "reading" =>
       \A e \in DOMAIN matching[r].views : IsView(matching[r].views[e])
  /\ \A p \in DOMAIN matches : RowIsSound(p)
  /\ LastRunDecides

UpToDate(views, rows) ==
  {p \in Blocked(views) : p \in DOMAIN rows /\ rows[p].on = <<views[p[1]], views[p[2]]>>}

LEMMA FullRunDecides ==
  ASSUME NEW views, NEW S, NEW rows, S \subseteq Blocked(views), S \subseteq DOMAIN rows,
         \A p \in S : rows[p].on = <<views[p[1]], views[p[2]]>>,
         Cardinality(S) = Least(MaxPairs, Cardinality(Blocked(views)))
  PROVE  Cardinality(UpToDate(views, rows)) >= Least(MaxPairs, Cardinality(Blocked(views)))
<1> PICK T : T = UpToDate(views, rows)
  OBVIOUS
<1>1. IsFiniteSet(LeftListings \X RightListings)
  BY ListingsAreOfTwoSources, FS_Product
<1>2. T \in SUBSET (LeftListings \X RightListings) /\ S \in SUBSET T
  BY DEF Blocked, UpToDate
<1>3. IsFiniteSet(T)
  BY <1>1, <1>2, FS_Subset
<1>4. Cardinality(T) \in Nat /\ Cardinality(S) \in Nat /\ Cardinality(S) <= Cardinality(T)
  BY <1>2, <1>3, FS_Subset, FS_CardinalityType
<1>5. Cardinality(T) >= Cardinality(S)
  BY <1>4
<1> QED
  BY <1>5

LEMMA ScorePairsKeepsInv ==
  ASSUME MatchInv, NEW r \in MatchRuns, ScorePairs(r)
  PROVE  MatchInv'
<1> PICK views : views = matching[r].views
  OBVIOUS
<1>1. PICK S \in SUBSET Blocked(views) :
        /\ matches' = Written(views, S)
        /\ lastRun' = IF Cardinality(S) = Least(MaxPairs, Cardinality(Blocked(views))) THEN views ELSE None
  BY DEF ScorePairs
<1>2. /\ matching[r].at = "reading" /\ Unread(r) = {}
      /\ matching' = [matching EXCEPT ![r] = Waiting] /\ listing' = listing
  BY DEF ScorePairs
<1>3. \A e \in Listings : IsView(views[e])
  BY <1>2 DEF MatchInv, Unread
<1>4. /\ DOMAIN matches' = S \cup DOMAIN matches
      /\ \A p \in DOMAIN matches' \ S : matches'[p] = matches[p]
      /\ \A p \in S : /\ matches'[p].status = Status(views[p[1]], views[p[2]])
                      /\ matches'[p].on = <<views[p[1]], views[p[2]]>>
  <2>1. \A p \in S : Scored(views, S)[p] =
          [status |-> Status(views[p[1]], views[p[2]]), on |-> <<views[p[1]], views[p[2]]>>]
    BY DEF Scored
  <2>2. /\ DOMAIN matches' = S \cup DOMAIN matches
        /\ \A p \in S \cup DOMAIN matches :
             matches'[p] = IF p \in S THEN Scored(views, S)[p] ELSE matches[p]
    BY <1>1, Zenon DEF Written
  <2>3. ASSUME NEW p \in S
        PROVE  /\ matches'[p].status = Status(views[p[1]], views[p[2]])
               /\ matches'[p].on = <<views[p[1]], views[p[2]]>>
    <3>1. matches'[p] =
            [status |-> Status(views[p[1]], views[p[2]]), on |-> <<views[p[1]], views[p[2]]>>]
      BY <2>1, <2>2, Zenon
    <3> QED
      BY <3>1
  <2> QED
    BY <2>2, <2>3, Zenon
<1>5. ASSUME NEW p \in DOMAIN matches' PROVE RowIsSound(p)'
  <2>1. CASE p \in S
    <3>1. p \in LeftListings \X RightListings
      BY <2>1 DEF Blocked
    <3>2. IsView(views[p[1]]) /\ IsView(views[p[2]])
      BY <1>3, <3>1 DEF Listings
    <3>3. matches'[p].on[1] = views[p[1]] /\ matches'[p].on[2] = views[p[2]]
      BY <1>4, <2>1
    <3>4. matches'[p].status = "MATCHED" => Compatible(views[p[1]], views[p[2]])
      BY <1>4, <2>1, <3>2, MatchIsCompatible
    <3> QED
      BY <3>1, <3>3, <3>4 DEF RowIsSound
  <2>2. CASE p \notin S
    <3>1. p \in DOMAIN matches /\ matches'[p] = matches[p]
      BY <1>4, <2>2
    <3>2. RowIsSound(p)
      BY <3>1 DEF MatchInv
    <3> QED
      BY <3>1, <3>2 DEF RowIsSound
  <2> QED
    BY <2>1, <2>2
<1>6. LastRunDecides'
  <2>1. CASE Cardinality(S) # Least(MaxPairs, Cardinality(Blocked(views)))
    BY <1>1, <2>1 DEF LastRunDecides
  <2>2. CASE Cardinality(S) = Least(MaxPairs, Cardinality(Blocked(views)))
    <3>1. lastRun' = views
      BY <1>1, <2>2
    <3>2. PICK rows : rows = matches'
      OBVIOUS
    <3>3. Cardinality(UpToDate(views, rows)) >= Least(MaxPairs, Cardinality(Blocked(views)))
      <4>1. S \subseteq DOMAIN rows /\ \A p \in S : rows[p].on = <<views[p[1]], views[p[2]]>>
        BY <1>4, <3>2
      <4>2. S \subseteq Blocked(views)
        OBVIOUS
      <4> QED
        BY <4>1, <4>2, <2>2, FullRunDecides
    <3> QED
      BY <3>1, <3>2, <3>3 DEF LastRunDecides, UpToDate
  <2> QED
    BY <2>1, <2>2
<1> QED
  BY <1>2, <1>5, <1>6 DEF MatchInv, Waiting

LEMMA MatchKeepsInv == MatchInv /\ [MatchNext]_matchVars => MatchInv'
<1> SUFFICES ASSUME MatchInv, [MatchNext]_matchVars PROVE MatchInv'
  OBVIOUS
<1>1. ASSUME UNCHANGED <<matches, lastRun>> 
      PROVE  LastRunDecides' /\ \A p \in DOMAIN matches' : RowIsSound(p)'
  BY <1>1 DEF MatchInv, LastRunDecides, RowIsSound, Blocked
<1>2. ASSUME NEW e \in Listings, Move(e) PROVE MatchInv'
  <2>1. PICK v \in MayRead[e] : listing' = [listing EXCEPT ![e] = v]
    BY <1>2 DEF Move
  <2>2. IsView(v)
    BY ListingsAreReadable DEF Listings
  <2>3. UNCHANGED <<matching, matches, lastRun>>
    BY <1>2 DEF Move
  <2> QED
    BY <1>1, <2>1, <2>2, <2>3 DEF MatchInv
<1>3. ASSUME NEW r \in MatchRuns, StartMatching(r) PROVE MatchInv'
  <2>1. matching' = [matching EXCEPT ![r] = [at |-> "reading", views |-> [e \in {} |-> None]]]
        /\ UNCHANGED <<listing, matches, lastRun>>
    BY <1>3 DEF StartMatching
  <2> QED
    BY <1>1, <2>1 DEF MatchInv
<1>4. ASSUME NEW r \in MatchRuns, ReadView(r) PROVE MatchInv'
  <2>1. PICK e \in Listings :
          matching' = [matching EXCEPT ![r].views =
            [x \in DOMAIN @ \cup {e} |-> IF x = e THEN listing[e] ELSE @[x]]]
    BY <1>4 DEF ReadView, Unread
  <2>2. matching[r].at = "reading" /\ UNCHANGED <<listing, matches, lastRun>>
    BY <1>4 DEF ReadView
  <2>3. PICK views : views = matching[r].views /\ \A x \in DOMAIN views : IsView(views[x])
    BY <2>2 DEF MatchInv
  <2>4. PICK after : after = [x \in DOMAIN views \cup {e} |-> IF x = e THEN listing[e] ELSE views[x]]
    OBVIOUS
  <2>5. \A x \in DOMAIN after : IsView(after[x])
    BY <2>3, <2>4 DEF MatchInv
  <2>6. matching' = [matching EXCEPT ![r] = [matching[r] EXCEPT !.views = after]]
    BY <2>1, <2>3, <2>4
  <2>7. \A q \in MatchRuns : matching'[q].at = "reading" =>
          \A x \in DOMAIN matching'[q].views : IsView(matching'[q].views[x])
    BY <2>5, <2>6 DEF MatchInv
  <2> QED
    BY <1>1, <2>2, <2>6, <2>7 DEF MatchInv
<1>5. ASSUME NEW r \in MatchRuns, MatchingFails(r) PROVE MatchInv'
  <2>1. matching' = [matching EXCEPT ![r] = Waiting] /\ UNCHANGED <<listing, matches, lastRun>>
    BY <1>5 DEF MatchingFails
  <2> QED
    BY <1>1, <2>1 DEF MatchInv, Waiting
<1>6. ASSUME NEW r \in MatchRuns, ScorePairs(r) PROVE MatchInv'
  BY <1>6, ScorePairsKeepsInv
<1>7. CASE UNCHANGED matchVars
  BY <1>1, <1>7 DEF matchVars, MatchInv
<1> QED
  BY <1>2, <1>3, <1>4, <1>5, <1>6, <1>7, Zenon DEF MatchNext

(* Consensus: only claims of different origin are independent, and what a  *)
(* listing claims is of its own platform's origin.                         *)
OriginOf(e) == IF e \in LeftListings THEN LeftSource ELSE RightSource

LEMMA ClaimsHaveOneOrigin ==
  ASSUME NEW e \in Listings, NEW c \in PlatformClaims(e)
  PROVE  IndependenceGroup(c) = OriginOf(e)
<1> PICK v : v = listing[e]
  OBVIOUS
<1> PICK node : node = [starts_at |-> v.date, status |-> None, city |-> v.city, regions |-> {},
                        venues |-> {[id |-> None, name |-> v.venue]}]
  OBVIOUS
<1>1. c \in GraphCandidates(node, OriginOf(e)) \cup PageCandidates(PageSays[e], "page", OriginOf(e))
  BY DEF PlatformClaims, OriginOf
<1>2. ASSUME c \in GraphCandidates(node, OriginOf(e))
      PROVE  c.surface # Temporal /\ c.origin = OriginOf(e)
  BY <1>2 DEF GraphCandidates, Candidate, Api, Graph, Temporal
<1>3. ASSUME c \in PageCandidates(PageSays[e], "page", OriginOf(e))
      PROVE  c.surface # Temporal /\ c.origin = OriginOf(e)
  <2>1. PICK s \in DOMAIN PageSays[e] :
          \E f : c = Candidate(f, PageSays[e][s][f], s, "page", OriginOf(e), PageConfidence[s][f])
    BY <1>3 DEF PageCandidates
  <2>2. c.surface = s /\ c.origin = OriginOf(e)
    BY <2>1 DEF Candidate
  <2>3. s \in {"JSON_LD", "EMBEDDED_STATE", "OPEN_GRAPH", "VISIBLE_TEXT"}
    BY ListingsAreReadable DEF Listings, PageConfidence
  <2> QED
    BY <2>2, <2>3 DEF Temporal
<1> QED
  BY <1>1, <1>2, <1>3 DEF IndependenceGroup

AreIndependent(c, d, value) ==
  IndependenceGroup(c) # IndependenceGroup(d) /\ c.value = value /\ d.value = value

LEMMA ConsensusIsIndependent ==
  ASSUME NEW f, NEW cs, ResolveField(f, cs).method = "STRUCTURED_SOURCE_CONSENSUS"
  PROVE  \E c \in cs, d \in cs : AreIndependent(c, d, ResolveField(f, cs).value)
<1> DEFINE usable == {c \in cs : f \in SupportedFields /\ Supplies(f, c.surface)}
           top == TopTier(f, usable)
           value == CHOOSE v \in {c.value : c \in top} : TRUE
           support == {c \in usable : c.value = value}
           conf == Agreement(support)
           method == Method((CHOOSE c \in top : TRUE).surface, support)
           review == IF conf >= MinConfidence THEN "AUTO_RESOLVED" ELSE "NEEDS_REVIEW"
<1>1. ResolveField(f, cs) = IF usable = {} THEN Unresolved
                            ELSE IF Differ(top) THEN Conflict
                            ELSE Resolution(value, method, review, conf)
  BY DEF ResolveField
<1>2. Unresolved.method # "STRUCTURED_SOURCE_CONSENSUS" /\ Conflict.method # "STRUCTURED_SOURCE_CONSENSUS"
  BY DEF Unresolved, Conflict, Resolution
<1>3. Resolution(value, method, review, conf).value = value
      /\ Resolution(value, method, review, conf).method = method
  <2> HIDE DEF value, method, review, conf
  <2> QED
    BY DEF Resolution
<1>4. support \subseteq cs /\ \A c \in support : c.value = value
  OBVIOUS
<1>5. ASSUME method = "STRUCTURED_SOURCE_CONSENSUS" PROVE IndependentlySupported(support)
  <2> HIDE DEF support, top
  <2> QED
    BY <1>5 DEF Method
<1> HIDE DEF usable, top, value, support, conf, method, review
<1>6. ResolveField(f, cs).value = value /\ method = "STRUCTURED_SOURCE_CONSENSUS"
  BY <1>1, <1>2, <1>3, Zenon
<1> QED
  BY <1>4, <1>5, <1>6, Zenon DEF IndependentlySupported, AreIndependent

LEMMA ConsensusIsOfBoth == MatchInv => ConsensusNeedsBoth
<1> SUFFICES ASSUME MatchInv,
                    NEW p \in DOMAIN matches, Detailed(p), NEW f \in DOMAIN ReconcilePair(p),
                    ReconcilePair(p)[f].method = "STRUCTURED_SOURCE_CONSENSUS",
                    NEW e \in {p[1], p[2]}
             PROVE  \E c \in PlatformClaims(e) : c.field = f /\ c.value = ReconcilePair(p)[f].value
  BY DEF ConsensusNeedsBoth
<1>1. p[1] \in LeftListings /\ p[2] \in RightListings
  BY DEF MatchInv, RowIsSound
<1>2. p[1] \in Listings /\ p[2] \in Listings /\ p[2] \notin LeftListings
  BY <1>1, ListingsAreOfTwoSources DEF Listings
<1> PICK claims : claims = PlatformClaims(p[1]) \cup PlatformClaims(p[2])
  OBVIOUS
<1> PICK cs : cs = {c \in claims : c.field = f}
  OBVIOUS
<1>3. ReconcilePair(p)[f] = ResolveField(f, cs)
  BY DEF ReconcilePair
<1>4. PICK c \in cs, d \in cs : AreIndependent(c, d, ResolveField(f, cs).value)
  <2>1. ResolveField(f, cs).method = "STRUCTURED_SOURCE_CONSENSUS"
    BY <1>3
  <2> QED
    BY <2>1, ConsensusIsIndependent, Zenon
<1>5. \A x \in cs : x \in PlatformClaims(p[1]) \/ x \in PlatformClaims(p[2])
  OBVIOUS
<1>6. /\ \A x \in PlatformClaims(p[1]) : IndependenceGroup(x) = LeftSource
      /\ \A x \in PlatformClaims(p[2]) : IndependenceGroup(x) = RightSource
  BY <1>1, <1>2, ClaimsHaveOneOrigin DEF OriginOf
<1>7. \/ c \in PlatformClaims(p[1]) /\ d \in PlatformClaims(p[2])
      \/ c \in PlatformClaims(p[2]) /\ d \in PlatformClaims(p[1])
  BY <1>4, <1>5, <1>6 DEF AreIndependent
<1>8. c.field = f /\ d.field = f
  OBVIOUS
<1> QED
  BY <1>3, <1>4, <1>7, <1>8 DEF AreIndependent

(* A match has a foundation, for any number of listings and runs, whatever *)
(* changes while a run reads: the views a matched row stands on do not     *)
(* contradict each other, a run that was not cut short leaves as many      *)
(* fresh rows as it had room for, and a consensus has claims of both       *)
(* platforms (matcher.py, reconciliation/service.py).                      *)
THEOREM MatchesStayFounded == MatchSpec => []MatchesAreFounded
<1>1. MatchInit => MatchInv
  BY ListingsAreReadable DEF MatchInit, MatchInv, Waiting, LastRunDecides, Listings
<1>2. MatchInv => MatchesAreFounded
  <2> SUFFICES ASSUME MatchInv PROVE MatchesAreFounded
    OBVIOUS
  <2>1. MatchedIsCompatible
    BY Zenon DEF MatchInv, RowIsSound, MatchedIsCompatible, Compatible
  <2> QED
    BY <2>1, ConsensusIsOfBoth DEF MatchInv, MatchesAreFounded
<1> QED
  BY <1>1, <1>2, MatchKeepsInv, PTL DEF MatchSpec

-----------------------------------------------------------------------------
(* Social evidence.  What a match of a post and an event stands on: a date *)
(* near the event's, and agreement in one thing more.                      *)
Corroborated(v, e) ==
  /\ Both(v.date, e.date) /\ Apart(v, e) <= Tolerance
  /\ \/ Likeness(v.title, e.title) >= 800
     \/ Both(v.venue, e.venue) /\ Likeness(v.venue, e.venue) >= 800
     \/ \E d \in {"city", "organizer"} : Both(v[d], e[d]) /\ v[d] = e[d]
     \/ Performers(v) \cap Performers(e) # {}

LEMMA MatchIsCorroborated ==
  ASSUME NEW l, NEW r, IsView(l), IsView(r), Status(l, r) = "MATCHED"
  PROVE  Corroborated(l, r)
<1> PICK comp : comp = Components(l, r)
  OBVIOUS
<1> DEFINE D == {d \in DOMAIN comp : comp[d] >= 800}
<1>1. Cardinality(D) >= 2
  BY DEF Status, Automatic
<1>2. Both(l.date, r.date) /\ Apart(l, r) <= Tolerance
  BY MatchIsCompatible DEF Compatible
<1>3. PICK d \in D : d # "date"
  <2>1. SUFFICES ASSUME D \subseteq {"date"} PROVE FALSE
    OBVIOUS
  <2>2. IsFiniteSet({"date"}) /\ Cardinality({"date"}) = 1
    BY FS_Singleton
  <2>3. Cardinality(D) <= 1 /\ IsFiniteSet(D)
    BY <2>1, <2>2, FS_Subset
  <2>4. Cardinality(D) \in Nat
    BY <2>3, FS_CardinalityType
  <2> QED
    BY <1>1, <2>3, <2>4
<1>4. d \in DOMAIN comp /\ comp[d] >= 800
  OBVIOUS
<1> HIDE DEF D
<1>5. d \in {"title", "performer", "venue", "city", "organizer"}
  BY <1>3, <1>4 DEF Components
<1>6. CASE d = "title"
  <2>1. comp["title"] = Likeness(l.title, r.title)
    BY DEF Components
  <2> QED
    BY <1>2, <1>4, <1>6, <2>1 DEF Corroborated
<1>7. CASE d = "venue"
  <2>1. Both(l.venue, r.venue) /\ comp["venue"] = Likeness(l.venue, r.venue)
    BY <1>4, <1>7 DEF Components
  <2> QED
    BY <1>2, <1>4, <1>7, <2>1 DEF Corroborated
<1>8. CASE d \in {"city", "organizer"}
  <2>1. Both(l[d], r[d]) /\ comp[d] = IF l[d] = r[d] THEN 1000 ELSE 0
    BY <1>4, <1>8 DEF Components
  <2> QED
    BY <1>2, <1>4, <1>8, <2>1 DEF Corroborated
<1>9. CASE d = "performer"
  <2>1. Performers(l) # {} /\ Performers(r) # {}
    BY <1>4, <1>9 DEF Components
  <2>2. Performers(l) \cap Performers(r) # {}
    BY <1>4, <1>9, <2>1, NoCommonPerformer
  <2> QED
    BY <1>2, <2>2 DEF Corroborated
<1> QED
  BY <1>5, <1>6, <1>7, <1>8, <1>9

(* The score of two views that can be read is a number.                    *)
LEMMA ScoreIsInteger ==
  ASSUME NEW l, NEW r, IsView(l), IsView(r),
         Likeness(l.title, r.title) \in Int,
         Both(l.venue, r.venue) => Likeness(l.venue, r.venue) \in Int
  PROVE  Score(Components(l, r)) \in Int
<1> PICK comp : comp = Components(l, r)
  OBVIOUS
<1>1. "title" \in DOMAIN comp
  BY DEF Components
<1>2. ASSUME NEW d \in DOMAIN comp PROVE comp[d] \in Int
  <2>1. d \in {"title", "performer", "venue", "city", "date", "organizer"}
    BY <1>2 DEF Components
  <2>2. CASE d \in {"title", "venue"}
    BY <1>2, <2>2 DEF Components
  <2>3. CASE d \in {"city", "organizer"}
    BY <1>2, <2>3 DEF Components
  <2>4. CASE d = "date"
    <3>1. Both(l.date, r.date)
      BY <1>2, <2>4 DEF Components
    <3>2. Apart(l, r) \in Int /\ Tolerance \in Nat
      BY <3>1, MatchingIsDefined DEF Apart, Both, IsView
    <3>3. Max({Tolerance, 1}) \in Nat \ {0}
      <4>1. Tolerance \in Nat
        BY MatchingIsDefined
      <4>2. \E m \in {Tolerance, 1} : \A y \in {Tolerance, 1} : m >= y
        BY <4>1
      <4>3. Max({Tolerance, 1}) \in {Tolerance, 1}
            /\ \A y \in {Tolerance, 1} : Max({Tolerance, 1}) >= y
        BY <4>2, Zenon DEF Max
      <4> QED
        BY <4>1, <4>3
    <3>4. comp["date"] = IF Apart(l, r) > Tolerance THEN 0
                         ELSE Rounded(1000 * (Tolerance - Apart(l, r)), Max({Tolerance, 1}))
      BY <1>2, <2>4 DEF Components
    <3>5. \A n \in Int, m \in Nat \ {0} : Rounded(n, m) \in Int
      BY DEF Rounded
    <3>6. 1000 * (Tolerance - Apart(l, r)) \in Int
      BY <3>2
    <3> QED
      BY <2>4, <3>3, <3>4, <3>5, <3>6
  <2>5. CASE d = "performer"
    <3> DEFINE some == Performers(l) \cap Performers(r)
               all == Performers(l) \cup Performers(r)
    <3>1. IsFiniteSet(some) /\ IsFiniteSet(all)
      BY PerformersAreFinite, FS_Union, FS_Intersection
    <3>2. Performers(l) # {}
      BY <1>2, <2>5 DEF Components
    <3>3. Cardinality(some) \in Nat /\ Cardinality(all) \in Nat \ {0}
      BY <3>1, <3>2, FS_CardinalityType, FS_EmptySet
    <3>4. comp["performer"] = Rounded(1000 * Cardinality(some), Cardinality(all))
      BY <1>2, <2>5 DEF Components
    <3>5. \A n \in Nat, m \in Nat \ {0} : Rounded(1000 * n, m) \in Int
      BY DEF Rounded
    <3> QED
      BY <2>5, <3>3, <3>4, <3>5
  <2> QED
    BY <2>1, <2>2, <2>3, <2>4, <2>5
<1> DEFINE part == [d \in DOMAIN Weight |-> IF d \in DOMAIN comp THEN Weight[d] * comp[d] ELSE 0]
           whole == [d \in DOMAIN Weight |-> IF d \in DOMAIN comp THEN Weight[d] ELSE 0]
<1>3. Total(part) \in Int
  BY <1>2 DEF Total, Weight
<1>4. Total(whole) \in Nat \ {0}
  BY <1>1 DEF Total, Weight
<1>5. \A n \in Int, m \in Nat \ {0} : Rounded(n, m) \in Int
  BY DEF Rounded
<1>6. Score(comp) = Rounded(Total(part), Total(whole))
  BY DEF Score
<1> HIDE DEF part, whole
<1> QED
  BY <1>3, <1>4, <1>5, <1>6

LEMMA OrderIsTotal ==
  \A a, b, c, d \in Int : ~ (a > b \/ (a = b /\ c > d)) => a < b \/ (a = b /\ c <= d)
<1>1. \A a, b \in Int : a > b \/ a = b \/ a < b
  OBVIOUS
<1>2. \A c, d \in Int : c > d \/ c <= d
  OBVIOUS
<1> QED
  BY <1>1, <1>2, Zenon

(* Of finitely many comparisons one is the strongest.                      *)
LEMMA StrongestIsFound ==
  ASSUME NEW found, IsFiniteSet(found), found # {},
         \A m \in found : m.match \in DOMAIN Rank /\ m.score \in Int
  PROVE  Strongest(found) \in found
<1>0. PICK rank, mark : rank = [m \in found |-> Rank[m.match]] /\ mark = [m \in found |-> m.score]
  OBVIOUS
<1>1. \A m \in found : rank[m] \in Int /\ mark[m] \in Int
  BY <1>0 DEF Rank
<1> DEFINE Above(m) == {x \in found : rank[x] > rank[m] \/ (rank[x] = rank[m] /\ mark[x] > mark[m])}
<1>2. \A m \in found : Above(m) \in SUBSET found /\ IsFiniteSet(Above(m)) /\ Cardinality(Above(m)) \in Nat
  BY FS_Subset, FS_CardinalityType
<1>3. PICK T : T = {Cardinality(Above(m)) : m \in found}
  OBVIOUS
<1>4. T \subseteq Nat /\ T # {}
  BY <1>2, <1>3
<1>5. PICK n \in T : \A k \in T : n <= k
  BY <1>4, LeastExists
<1>6. PICK m \in found : n = Cardinality(Above(m))
  BY <1>3
<1>7. \A x \in found : ~ (x \in Above(m))
  <2> SUFFICES ASSUME NEW x \in found, x \in Above(m) PROVE FALSE
    OBVIOUS
  <2>1. Above(x) \subseteq Above(m) /\ x \notin Above(x)
    BY <1>1
  <2>2. Above(x) # Above(m)
    BY <2>1
  <2>3. Cardinality(Above(x)) <= Cardinality(Above(m)) /\ Cardinality(Above(x)) # Cardinality(Above(m))
    BY <1>2, <2>1, <2>2, FS_Subset
  <2>4. Cardinality(Above(x)) \in T
    BY <1>3
  <2> HIDE DEF Above
  <2> QED
    BY <1>2, <1>5, <1>6, <2>3, <2>4
<1>8. \A x \in found : \/ Rank[x.match] < Rank[m.match]
                       \/ Rank[x.match] = Rank[m.match] /\ x.score <= m.score
  <2> SUFFICES ASSUME NEW x \in found
               PROVE  \/ Rank[x.match] < Rank[m.match]
                      \/ Rank[x.match] = Rank[m.match] /\ x.score <= m.score
    OBVIOUS
  <2>1. ~ (rank[x] > rank[m] \/ (rank[x] = rank[m] /\ mark[x] > mark[m]))
    BY <1>7
  <2>2. rank[x] < rank[m] \/ (rank[x] = rank[m] /\ mark[x] <= mark[m])
    <3>1. rank[x] \in Int /\ rank[m] \in Int /\ mark[x] \in Int /\ mark[m] \in Int
      BY <1>1
    <3> HIDE DEF Above
    <3> QED
      BY <2>1, <3>1, OrderIsTotal, Zenon
  <2>3. rank[x] = Rank[x.match] /\ rank[m] = Rank[m.match] /\ mark[x] = x.score /\ mark[m] = m.score
    BY <1>0
  <2> QED
    BY <2>2, <2>3
<1> QED
  BY <1>8, Zenon DEF Strongest

-----------------------------------------------------------------------------
(* SocialEvidence.  The inductive invariant: what a run carries and what is *)
(* kept of posts are posts there may be, work and interpretations are of    *)
(* versions that are kept, every version is interpreted once, and the match *)
(* rows are those its interpretation names.                                 *)

EvidenceRecords ==
  [hash : {ContentHash(p) : p \in MayPost}, claims : {Claims(p) : p \in MayPost},
   by : DOMAIN AccountOf, status : {"UNPROCESSED", "INTERPRETED", "INTERPRETATION_ERROR"}]

Versions == {v \in Accounts \X Nat : v[2] \in DOMAIN mention[v[1]]}

ReadingIsSound(c, x) ==
  /\ x.bearing = EventBearing(c)
  /\ x.event # None => EventBearing(c)
  /\ x.event # None /\ x.match = "MATCHED" => Corroborated(SocialView(c), KnownEvents[x.event])

RunIsSound(s) ==
  /\ s.at = "collect" => s.work \subseteq DOMAIN AccountOf
  /\ s.at = "ingest" =>
       /\ s.work \subseteq DOMAIN AccountOf /\ s.identity \in DOMAIN AccountOf
       /\ s.post \in MayPost \cup {None}
  /\ s.at = "interpret" => s.work \subseteq Versions

VersionIsRead(v) ==
  /\ v \in Versions
  /\ \E x : reading[v] = <<x>> /\ ReadingIsSound(EvidenceOf(v), x)

RowIsRead(p) ==
  /\ <<p[1], p[2]>> \in DOMAIN reading
  /\ p[3] # None
  /\ Last(reading[<<p[1], p[2]>>]).event = p[3]
  /\ Last(reading[<<p[1], p[2]>>]).match = projected[p]

SocialInv ==
  /\ feed \in [Accounts -> MayPost \cup {None}]
  /\ DOMAIN identity \subseteq DOMAIN AccountOf
  /\ mention \in [Accounts -> Seq(EvidenceRecords)]
  /\ VersionsDiffer
  /\ DOMAIN social = SocialRuns
  /\ \A r \in SocialRuns : RunIsSound(social[r])
  /\ \A v \in DOMAIN reading : VersionIsRead(v)
  /\ \A p \in DOMAIN projected : RowIsRead(p)

(* An interpretation says of the version it names what that justifies.     *)
LEMMA InterpretedIsSound ==
  ASSUME NEW v, EvidenceOf(v) \in {Claims(p) : p \in MayPost},
         NEW existing \in {{}, DOMAIN KnownEvents}
  PROVE  ReadingIsSound(EvidenceOf(v), Interpreted(v, existing))
<1>1. PICK c : c = EvidenceOf(v)
  OBVIOUS
<1>2. PICK view : view = SocialView(c)
  OBVIOUS
<1>3. IsView(view)
      /\ \A e \in DOMAIN KnownEvents : \A d \in {"title", "venue"} :
           d = "title" \/ Both(view[d], KnownEvents[e][d])
             => Likeness(view[d], KnownEvents[e][d]) \in 0 .. 1000
  <2>1. PICK p \in MayPost : c = Claims(p)
    BY <1>1
  <2>2. IsReadable(view)
    BY <1>2, <2>1, PostsAreReadable
  <2> QED
    BY <2>2 DEF IsReadable
<1>4. \A e \in existing : IsView(KnownEvents[e]) /\ Score(Components(view, KnownEvents[e])) \in Int
  <2> SUFFICES ASSUME NEW e \in existing
               PROVE  IsView(KnownEvents[e]) /\ Score(Components(view, KnownEvents[e])) \in Int
    OBVIOUS
  <2>1. e \in DOMAIN KnownEvents
    OBVIOUS
  <2>2. IsView(KnownEvents[e])
    BY <2>1, PostsAreReadable
  <2>3. view["title"] = view.title /\ view["venue"] = view.venue
    OBVIOUS
  <2>4. Likeness(view.title, KnownEvents[e].title) \in Int
    BY <1>3, <2>1
  <2>5. Both(view.venue, KnownEvents[e].venue) => Likeness(view.venue, KnownEvents[e].venue) \in Int
    BY <1>3, <2>1
  <2> QED
    BY <1>3, <2>2, <2>4, <2>5, ScoreIsInteger
<1>5. PICK found : found = IF EventBearing(c) THEN Compared(view, existing) ELSE {}
  OBVIOUS
<1>6. \A m \in found : \E e \in existing :
        /\ m.event = e /\ m.match = Status(view, KnownEvents[e])
        /\ m.score = Score(Components(view, KnownEvents[e]))
  BY <1>5 DEF Compared
<1>7. IsFiniteSet(found)
  <2>1. PICK A : A = {x \in existing : InBlock(view, KnownEvents[x])}
    OBVIOUS
  <2>2. IsFiniteSet(A)
    BY <2>1, PostsAreReadable, FS_Subset, FS_EmptySet
  <2>3. PICK f : f = [e \in A |-> [event |-> e, match |-> Status(view, KnownEvents[e]),
                                   score |-> Score(Components(view, KnownEvents[e]))]]
    OBVIOUS
  <2>4. f \in Surjection(A, Compared(view, existing))
    BY <2>1, <2>3 DEF Surjection, Compared
  <2> QED
    BY <1>5, <2>2, <2>4, FS_Surjection, FS_EmptySet
<1>8. PICK names : names = IF found = {} THEN Unmatched ELSE Strongest(found)
  OBVIOUS
<1>9. Interpreted(v, existing) =
        [bearing |-> EventBearing(c), event |-> names.event, match |-> names.match, score |-> names.score]
  BY <1>1, <1>2, <1>5, <1>8 DEF Interpreted
<1>10. CASE found = {}
  <2>1. names.event = None
    BY <1>8, <1>10 DEF Unmatched
  <2> QED
    BY <1>1, <1>9, <2>1 DEF ReadingIsSound
<1>11. CASE found # {}
  <2>1. \A m \in found : m.match \in DOMAIN Rank /\ m.score \in Int
    <3>1. \A l, r : Status(l, r) \in DOMAIN Rank
      BY DEF Status, Rank
    <3> QED
      BY <1>4, <1>6, <3>1
  <2>2. names \in found
    BY <1>7, <1>8, <1>11, <2>1, StrongestIsFound, Zenon
  <2>3. PICK e \in existing : names.event = e /\ names.match = Status(view, KnownEvents[e])
    BY <1>6, <2>2
  <2>4. names.match = "MATCHED" => Corroborated(view, KnownEvents[names.event])
    BY <1>3, <1>4, <2>3, MatchIsCorroborated
  <2>5. EventBearing(c)
    BY <1>5, <1>11
  <2> QED
    BY <1>1, <1>2, <1>9, <2>4, <2>5 DEF ReadingIsSound
<1> QED
  BY <1>10, <1>11

(* What is read and matched stays so while versions are only added and     *)
(* their claims kept.                                                      *)
ClaimsAreKept ==
  \A v \in Versions : v \in Versions' /\ mention'[v[1]][v[2]].claims = mention[v[1]][v[2]].claims

LEMMA ReadingsAreKept ==
  ASSUME SocialInv, ClaimsAreKept, UNCHANGED <<reading, projected>>
  PROVE  /\ \A v \in DOMAIN reading' : VersionIsRead(v)'
         /\ \A p \in DOMAIN projected' : RowIsRead(p)'
<1>1. ASSUME NEW v \in DOMAIN reading PROVE VersionIsRead(v)'
  <2>1. v \in Versions /\ \E x : reading[v] = <<x>> /\ ReadingIsSound(EvidenceOf(v), x)
    BY DEF SocialInv, VersionIsRead
  <2>2. v \in Versions' /\ EvidenceOf(v)' = EvidenceOf(v)
    BY <2>1 DEF ClaimsAreKept, EvidenceOf
  <2>3. \A c, x : ReadingIsSound(c, x)' = ReadingIsSound(c, x)
    BY DEF ReadingIsSound
  <2>4. (\E x : reading[v] = <<x>> /\ ReadingIsSound(EvidenceOf(v), x))'
    BY <2>1, <2>2, <2>3
  <2> QED
    BY <2>2, <2>4 DEF VersionIsRead
<1>2. ASSUME NEW p \in DOMAIN projected PROVE RowIsRead(p)'
  BY DEF SocialInv, RowIsRead
<1> QED
  BY <1>1, <1>2

LEMMA ClaimsStay ==
  ASSUME UNCHANGED mention
  PROVE  ClaimsAreKept /\ (VersionsDiffer => VersionsDiffer')
BY DEF ClaimsAreKept, Versions, VersionsDiffer

(* A step that leaves the work of every run to be done as it is.           *)
LEMMA RunsStaySound ==
  ASSUME SocialInv, ClaimsAreKept, NEW r \in SocialRuns, NEW s, RunIsSound(s),
         social' = [social EXCEPT ![r] = s]
  PROVE  DOMAIN social' = SocialRuns /\ \A q \in SocialRuns : RunIsSound(social[q])'
<1>1. Versions \subseteq Versions'
  BY DEF ClaimsAreKept
<1>2. \A t : RunIsSound(t) => RunIsSound(t)'
  BY <1>1 DEF RunIsSound
<1>3. \A q \in SocialRuns : social'[q] = IF q = r THEN s ELSE social[q]
  BY DEF SocialInv
<1>4. \A q \in SocialRuns : RunIsSound(social'[q])
  BY <1>3 DEF SocialInv
<1> QED
  <2>1. \A q \in SocialRuns : RunIsSound(social[q])'
    <3> SUFFICES ASSUME NEW q \in SocialRuns PROVE RunIsSound(social[q])'
      OBVIOUS
    <3>1. PICK t : t = social'[q]
      OBVIOUS
    <3>2. RunIsSound(t)'
      BY <1>2, <1>4, <3>1
    <3> QED
      BY <3>1, <3>2
  <2> QED
    BY <2>1 DEF SocialInv

LEMMA IdleIsSound == RunIsSound(Unoccupied)
BY DEF RunIsSound, Unoccupied

LEMMA GoingOnIsSound ==
  ASSUME NEW r, NEW i, social[r].work \subseteq DOMAIN AccountOf
  PROVE  RunIsSound(GoesOn(r, i))
BY DEF RunIsSound, GoesOn, Unoccupied

LEMMA CollectingKeepsInv ==
  ASSUME SocialInv, NEW r \in SocialRuns,
         StartCollecting(r) \/ CollectFails(r) \/ Deferred(r) \/ Collect(r)
  PROVE  SocialInv'
<1>1. ClaimsAreKept /\ VersionsDiffer'
  BY ClaimsStay DEF SocialInv, StartCollecting, CollectFails, Deferred, Collect
<1>2. /\ \A v \in DOMAIN reading' : VersionIsRead(v)'
      /\ \A p \in DOMAIN projected' : RowIsRead(p)'
  BY <1>1, ReadingsAreKept DEF StartCollecting, CollectFails, Deferred, Collect
<1>3. DOMAIN identity' = DOMAIN identity
  BY DEF StartCollecting, CollectFails, Deferred, Collect, Recorded
<1>4. \E s : social' = [social EXCEPT ![r] = s] /\ RunIsSound(s)
  <2>1. CASE StartCollecting(r)
    <3>1. PICK W \in WorkLists : social' = [social EXCEPT ![r] = [at |-> "collect", work |-> W]]
      BY <2>1 DEF StartCollecting
    <3>2. W \subseteq DOMAIN AccountOf
      BY <3>1 DEF WorkLists, Eligible, SocialInv
    <3>3. RunIsSound([at |-> "collect", work |-> W])
      BY <3>2 DEF RunIsSound
    <3> QED
      BY <3>1, <3>3
  <2>2. CASE CollectFails(r) \/ Deferred(r)
    <3>1. PICK i : social' = [social EXCEPT ![r] = GoesOn(r, i)]
      BY <2>2 DEF CollectFails, Deferred
    <3>2. social[r].work \subseteq DOMAIN AccountOf
      BY <2>2 DEF CollectFails, Deferred, SocialInv, RunIsSound
    <3> QED
      BY <3>1, <3>2, GoingOnIsSound
  <2>3. CASE Collect(r)
    <3>1. PICK i \in social[r].work : social' = [social EXCEPT ![r] =
            [at |-> "ingest", work |-> social[r].work, identity |-> i, post |-> feed[AccountOf[i]]]]
      BY <2>3 DEF Collect, SocialInv
    <3>2. social[r].work \subseteq DOMAIN AccountOf
      BY <2>3 DEF Collect, SocialInv, RunIsSound
    <3>3. feed[AccountOf[i]] \in MayPost \cup {None}
      BY <3>2 DEF SocialInv, Accounts, Range
    <3>4. RunIsSound([at |-> "ingest", work |-> social[r].work, identity |-> i, post |-> feed[AccountOf[i]]])
      BY <3>2, <3>3 DEF RunIsSound
    <3> QED
      BY <3>1, <3>4
  <2> QED
    BY <2>1, <2>2, <2>3
<1>5. DOMAIN social' = SocialRuns /\ \A q \in SocialRuns : RunIsSound(social[q])'
  BY <1>1, <1>4, RunsStaySound
<1>6. feed' = feed /\ mention' = mention
  BY DEF StartCollecting, CollectFails, Deferred, Collect
<1> QED
  BY <1>1, <1>2, <1>3, <1>5, <1>6 DEF SocialInv

(* A version is added for a text that differs from the current one.        *)
LEMMA AddedVersion ==
  ASSUME SocialInv, NEW i \in DOMAIN AccountOf, NEW post \in MayPost,
         ~SameState(mention[AccountOf[i]], post),
         mention' = [mention EXCEPT ![AccountOf[i]] = Append(@, Evidence(i, post))]
  PROVE  /\ mention' \in [Accounts -> Seq(EvidenceRecords)]
         /\ ClaimsAreKept
         /\ VersionsDiffer'
<1>1. PICK a : a = AccountOf[i] /\ a \in Accounts
  BY DEF Accounts, Range
<1>2. PICK e : e = Evidence(i, post)
  OBVIOUS
<1>3. e \in EvidenceRecords /\ e.hash = ContentHash(post)
  BY <1>2 DEF Evidence, EvidenceRecords
<1>4. mention \in [Accounts -> Seq(EvidenceRecords)]
  BY DEF SocialInv
<1>5. mention' = [mention EXCEPT ![a] = Append(mention[a], e)]
  BY <1>1, <1>2
<1>6. PICK s : s = mention[a] /\ s \in Seq(EvidenceRecords)
  BY <1>1, <1>4
<1>7. PICK t : t = Append(s, e) /\ t \in Seq(EvidenceRecords) /\ Len(t) = Len(s) + 1
               /\ (\A n \in 1 .. Len(s) : t[n] = s[n]) /\ t[Len(s) + 1] = e
  <2>1. PICK t : t = Append(s, e)
    OBVIOUS
  <2>2. s \in Seq(EvidenceRecords) /\ e \in EvidenceRecords
    BY <1>3, <1>6
  <2>3. /\ t \in Seq(EvidenceRecords) /\ Len(t) = Len(s) + 1
        /\ \A n \in 1 .. Len(s) : t[n] = s[n]
        /\ t[Len(s) + 1] = e
    BY <2>1, <2>2, AppendProperties
  <2> QED
    BY <2>1, <2>3
<1>8. \A b \in Accounts : mention'[b] = IF b = a THEN t ELSE mention[b]
  BY <1>1, <1>4, <1>5, <1>6, <1>7
<1>9. mention' \in [Accounts -> Seq(EvidenceRecords)]
  BY <1>4, <1>5, <1>6, <1>7, <1>8
<1>10. ClaimsAreKept
  <2> SUFFICES ASSUME NEW v \in Versions
               PROVE  v \in Versions' /\ mention'[v[1]][v[2]].claims = mention[v[1]][v[2]].claims
    BY DEF ClaimsAreKept
  <2>1. v \in Accounts \X Nat /\ v[1] \in Accounts /\ v[2] \in DOMAIN mention[v[1]]
    BY DEF Versions
  <2>2. CASE v[1] = a
    <3>1. v[2] \in 1 .. Len(s)
      BY <1>6, <2>1, <2>2
    <3>2. v[2] \in DOMAIN t /\ t[v[2]] = s[v[2]]
      BY <1>6, <1>7, <3>1
    <3>3. mention'[v[1]] = t /\ mention[v[1]] = s
      BY <1>6, <1>8, <2>1, <2>2
    <3> QED
      BY <2>1, <3>2, <3>3 DEF Versions
  <2>3. CASE v[1] # a
    BY <1>8, <2>1, <2>3 DEF Versions
  <2> QED
    BY <2>2, <2>3
<1>11. s # <<>> => e.hash # s[Len(s)].hash
  BY <1>1, <1>3, <1>6 DEF SameState, Last
<1>12. VersionsDiffer'
  <2> SUFFICES ASSUME NEW b \in Accounts, NEW n \in 1 .. Len(mention'[b]) - 1
               PROVE  mention'[b][n].hash # mention'[b][n + 1].hash
    BY DEF VersionsDiffer
  <2>1. CASE b # a
    <3>1. mention'[b] = mention[b]
      BY <1>8, <2>1
    <3>2. n \in 1 .. Len(mention[b]) - 1
      BY <3>1
    <3>3. mention[b][n].hash # mention[b][n + 1].hash
      BY <3>2 DEF SocialInv, VersionsDiffer
    <3> QED
      BY <3>1, <3>3
  <2>2. CASE b = a
    <3>1. Len(s) \in Nat /\ mention'[b] = t /\ n \in 1 .. Len(s)
      <4>1. mention'[b] = t
        BY <1>8, <2>2
      <4>2. n \in 1 .. Len(t) - 1
        BY <4>1
      <4>3. Len(s) \in Nat
        BY <1>6
      <4> QED
        BY <1>7, <4>1, <4>2, <4>3
    <3>2. CASE n = Len(s)
      <4>1. s # <<>>
        BY <3>1, <3>2
      <4> QED
        BY <1>7, <1>11, <3>1, <3>2, <4>1
    <3>3. CASE n # Len(s)
      <4>1. n \in 1 .. Len(s) - 1
        BY <3>1, <3>3
      <4>2. s[n].hash # s[n + 1].hash
        BY <1>1, <1>6, <4>1 DEF SocialInv, VersionsDiffer
      <4>3. t[n] = s[n] /\ t[n + 1] = s[n + 1]
        BY <1>7, <3>1, <4>1
      <4> QED
        BY <3>1, <4>2, <4>3
    <3> QED
      BY <3>2, <3>3
  <2> QED
    BY <2>1, <2>2
<1> QED
  BY <1>9, <1>10, <1>12

LEMMA IngestKeepsSocialInv ==
  ASSUME SocialInv, NEW r \in SocialRuns, Ingest(r)
  PROVE  SocialInv'
<1>1. PICK i, post : i = social[r].identity /\ post = social[r].post
  OBVIOUS
<1>2. i \in DOMAIN AccountOf /\ post \in MayPost \cup {None} /\ social[r].work \subseteq DOMAIN AccountOf
  BY <1>1 DEF Ingest, SocialInv, RunIsSound
<1>3. mention' = IF post = None \/ SameState(mention[AccountOf[i]], post) THEN mention
                 ELSE [mention EXCEPT ![AccountOf[i]] = Append(@, Evidence(i, post))]
  BY <1>1 DEF Ingest
<1>4. mention' \in [Accounts -> Seq(EvidenceRecords)] /\ ClaimsAreKept /\ VersionsDiffer'
  <2>1. CASE mention' = mention
    BY <2>1, ClaimsStay DEF SocialInv
  <2>2. CASE ~ (post = None \/ SameState(mention[AccountOf[i]], post))
    BY <1>2, <1>3, <2>2, AddedVersion
  <2> QED
    BY <1>3, <2>1, <2>2
<1>5. /\ \A v \in DOMAIN reading' : VersionIsRead(v)'
      /\ \A p \in DOMAIN projected' : RowIsRead(p)'
  BY <1>4, ReadingsAreKept DEF Ingest
<1>6. \E s : social' = [social EXCEPT ![r] = s] /\ RunIsSound(s)
  <2>1. social' = [social EXCEPT ![r] = GoesOn(r, i)] \/ social' = [social EXCEPT ![r] = Unoccupied]
    BY <1>1 DEF Ingest
  <2>2. RunIsSound(GoesOn(r, i)) /\ RunIsSound(Unoccupied)
    BY <1>2, GoingOnIsSound, IdleIsSound
  <2> QED
    BY <2>1, <2>2
<1>7. DOMAIN social' = SocialRuns /\ \A q \in SocialRuns : RunIsSound(social[q])'
  BY <1>4, <1>6, RunsStaySound
<1>8. feed' = feed /\ DOMAIN identity' = DOMAIN identity
  BY DEF Ingest, Recorded
<1> QED
  BY <1>4, <1>5, <1>7, <1>8 DEF SocialInv

(* Marking versions as interpreted or failed changes nothing else of them. *)
LEMMA MarkedVersions ==
  ASSUME SocialInv, NEW failed, NEW done, NEW new, mention' = Marked(done, failed, new)
  PROVE  /\ mention' \in [Accounts -> Seq(EvidenceRecords)]
         /\ ClaimsAreKept
         /\ VersionsDiffer'
<1>1. ASSUME NEW a \in Accounts, NEW n \in DOMAIN mention[a]
      PROVE  /\ mention'[a][n] \in EvidenceRecords
             /\ mention'[a][n].claims = mention[a][n].claims
             /\ mention'[a][n].hash = mention[a][n].hash
  <2>1. PICK e : e = mention[a][n] /\ e \in EvidenceRecords
    BY DEF SocialInv
  <2>2. mention'[a][n] = IF <<a, n>> \in failed THEN [e EXCEPT !.status = "INTERPRETATION_ERROR"]
                         ELSE IF <<a, n>> \in done /\ (<<a, n>> \in new \/ e.status = "UNPROCESSED")
                         THEN [e EXCEPT !.status = "INTERPRETED"]
                         ELSE e
    BY <2>1 DEF Marked
  <2>3. mention'[a][n] \in
          {e, [e EXCEPT !.status = "INTERPRETATION_ERROR"], [e EXCEPT !.status = "INTERPRETED"]}
    BY <2>2
  <2>4. \A m \in {e, [e EXCEPT !.status = "INTERPRETATION_ERROR"], [e EXCEPT !.status = "INTERPRETED"]} :
          m \in EvidenceRecords /\ m.claims = e.claims /\ m.hash = e.hash
    BY <2>1 DEF EvidenceRecords
  <2> QED
    BY <2>1, <2>3, <2>4
<1>2. DOMAIN mention' = Accounts /\ \A a \in Accounts : DOMAIN mention'[a] = DOMAIN mention[a]
  BY DEF Marked
<1>3. ASSUME NEW a \in Accounts
      PROVE  mention'[a] \in Seq(EvidenceRecords) /\ Len(mention'[a]) = Len(mention[a])
  <2>1. PICK k \in Nat : k = Len(mention[a]) /\ DOMAIN mention[a] = 1 .. k
    BY DEF SocialInv
  <2>2. PICK t : t = mention'[a]
    OBVIOUS
  <2>3. t = [n \in 1 .. k |-> t[n]] /\ \A n \in 1 .. k : t[n] \in EvidenceRecords
    <3>1. t = [n \in 1 .. k |-> t[n]]
      BY <2>1, <2>2 DEF Marked
    <3>2. \A n \in 1 .. k : t[n] \in EvidenceRecords
      BY <1>1, <2>1, <2>2
    <3> QED
      BY <3>1, <3>2
  <2>4. t \in [1 .. k -> EvidenceRecords]
    BY <2>3
  <2>5. t \in Seq(EvidenceRecords) /\ Len(t) = k
    BY <2>4, IsASeq, LenProperties
  <2> QED
    BY <2>1, <2>2, <2>5
<1>4. mention' \in [Accounts -> Seq(EvidenceRecords)]
  <2>1. mention' = [a \in Accounts |-> mention'[a]]
    BY Zenon DEF Marked
  <2>2. \A a \in Accounts : mention'[a] \in Seq(EvidenceRecords)
    BY <1>3
  <2> QED
    BY <2>1, <2>2, Zenon
<1>5. ClaimsAreKept
  BY <1>1, <1>2 DEF ClaimsAreKept, Versions
<1>6. VersionsDiffer'
  <2> SUFFICES ASSUME NEW a \in Accounts, NEW n \in 1 .. Len(mention'[a]) - 1
               PROVE  mention'[a][n].hash # mention'[a][n + 1].hash
    BY DEF VersionsDiffer
  <2>1. n \in 1 .. Len(mention[a]) - 1
    BY <1>3
  <2>2. n \in DOMAIN mention[a] /\ n + 1 \in DOMAIN mention[a]
    BY <2>1 DEF SocialInv
  <2>3. mention[a][n].hash # mention[a][n + 1].hash
    BY <2>1 DEF SocialInv, VersionsDiffer
  <2> QED
    BY <1>1, <2>2, <2>3
<1> QED
  BY <1>4, <1>5, <1>6

LEMMA OneReading ==
  ASSUME NEW x
  PROVE  Append(<<>>, x) = <<x>> /\ Last(<<x>>) = x
BY DEF Last

(* What an interpretation run writes of the versions it went through.      *)
InterpretsAs(existing, done, failed) ==
  LET new == ToRead(done \ failed)
      earlier(v) == IF v \in DOMAIN reading THEN reading[v] ELSE <<>>
      named == {v \in new : Last(reading'[v]).event # None}
      rows  == {<<v[1], v[2], Last(reading'[v]).event>> : v \in named}
  IN  /\ reading' = [v \in new \cup DOMAIN reading |->
           IF v \in new THEN Append(earlier(v), Interpreted(v, existing)) ELSE reading[v]]
      /\ projected' = [p \in rows \cup DOMAIN projected |->
           IF p \in rows THEN Last(reading'[<<p[1], p[2]>>]).match ELSE projected[p]]
      /\ mention' = Marked(done, failed, new)

Writes(existing, done, failed, new, rows) ==
  /\ new = (done \ failed) \ DOMAIN reading
  /\ rows = {<<v[1], v[2], Last(reading'[v]).event>> :
                v \in {w \in new : Last(reading'[w]).event # None}}
  /\ reading' = [v \in new \cup DOMAIN reading |->
       IF v \in new
       THEN Append(IF v \in DOMAIN reading THEN reading[v] ELSE <<>>, Interpreted(v, existing))
       ELSE reading[v]]
  /\ projected' = [p \in rows \cup DOMAIN projected |->
       IF p \in rows THEN Last(reading'[<<p[1], p[2]>>]).match ELSE projected[p]]
  /\ mention' = Marked(done, failed, new)

LEMMA InterpretKeepsInv ==
  ASSUME SocialInv, NEW r \in SocialRuns, Interpret(r)
  PROVE  SocialInv'
<1>a. PICK existing \in {{}, DOMAIN KnownEvents}, done \in SUBSET social[r].work :
        \E failed, new, rows : Writes(existing, done, failed, new, rows)
  <2>1. PICK existing \in {{}, DOMAIN KnownEvents}, done \in SUBSET social[r].work :
          \E failed \in SUBSET done : InterpretsAs(existing, done, failed)
    BY Zenon DEF Interpret, InterpretsAs
  <2>2. PICK failed \in SUBSET done : InterpretsAs(existing, done, failed)
    BY <2>1, Zenon
  <2>3. PICK new, rows :
          /\ new = (done \ failed) \ DOMAIN reading
          /\ rows = {<<v[1], v[2], Last(reading'[v]).event>> :
                        v \in {w \in new : Last(reading'[w]).event # None}}
    OBVIOUS
  <2>4. ToRead(done \ failed) = new
    BY <2>3 DEF ToRead
  <2> QED
    BY <2>2, <2>3, <2>4, Zenon DEF InterpretsAs, Writes
<1>1. PICK failed, new, rows : Writes(existing, done, failed, new, rows)
  BY <1>a, Zenon
<1>2. mention' \in [Accounts -> Seq(EvidenceRecords)] /\ ClaimsAreKept /\ VersionsDiffer'
  BY <1>1, MarkedVersions, Zenon DEF Writes
<1>3. DOMAIN social' = SocialRuns /\ \A q \in SocialRuns : RunIsSound(social[q])'
  BY <1>2, RunsStaySound, IdleIsSound DEF Interpret
<1>4. new \subseteq Versions /\ new \cap DOMAIN reading = {}
  BY <1>1 DEF Writes, Interpret, SocialInv, RunIsSound
<1>5. \A v \in Versions : EvidenceOf(v) \in {Claims(p) : p \in MayPost}
  <2> SUFFICES ASSUME NEW v \in Versions PROVE EvidenceOf(v) \in {Claims(p) : p \in MayPost}
    OBVIOUS
  <2>1. mention[v[1]][v[2]] \in EvidenceRecords
    BY DEF Versions, SocialInv
  <2> QED
    BY <2>1 DEF EvidenceRecords, EvidenceOf
<1>6. DOMAIN reading' = new \cup DOMAIN reading
  BY <1>1 DEF Writes
<1>7. ASSUME NEW v \in new
      PROVE  reading'[v] = <<Interpreted(v, existing)>>
  <2>1. reading'[v] = Append(<<>>, Interpreted(v, existing))
    BY <1>1, <1>4 DEF Writes
  <2> QED
    BY <2>1, OneReading
<1>8. ASSUME NEW v \in DOMAIN reading PROVE reading'[v] = reading[v]
  BY <1>1, <1>4 DEF Writes
<1>9. ASSUME NEW v \in DOMAIN reading' PROVE VersionIsRead(v)'
  <2>1. v \in Versions /\ \E x : reading'[v] = <<x>> /\ ReadingIsSound(EvidenceOf(v), x)
    <3>1. CASE v \in new
      <4>1. ReadingIsSound(EvidenceOf(v), Interpreted(v, existing))
        BY <1>4, <1>5, <3>1, InterpretedIsSound
      <4> QED
        BY <1>4, <1>7, <3>1, <4>1
    <3>2. CASE v \in DOMAIN reading
      BY <1>8, <3>2 DEF SocialInv, VersionIsRead
    <3> QED
      BY <1>6, <3>1, <3>2
  <2>2. v \in Versions' /\ EvidenceOf(v)' = EvidenceOf(v)
    BY <1>2, <2>1 DEF ClaimsAreKept, EvidenceOf
  <2>3. \A c, x : ReadingIsSound(c, x)' = ReadingIsSound(c, x)
    BY DEF ReadingIsSound
  <2>4. (\E x : reading[v] = <<x>> /\ ReadingIsSound(EvidenceOf(v), x))'
    BY <2>1, <2>2, <2>3
  <2> QED
    BY <2>2, <2>4 DEF VersionIsRead
<1>10. ASSUME NEW p \in DOMAIN projected' PROVE RowIsRead(p)'
  <2>1. CASE p \in rows
    <3>1. PICK v \in new : p = <<v[1], v[2], Last(reading'[v]).event>> /\ Last(reading'[v]).event # None
      BY <1>1, <2>1 DEF Writes
    <3>2. v = <<v[1], v[2]>>
      BY <1>4 DEF Versions
    <3>3. p[1] = v[1] /\ p[2] = v[2] /\ p[3] = Last(reading'[v]).event
      BY <3>1
    <3>4. <<p[1], p[2]>> = v
      BY <3>2, <3>3
    <3>5. v \in DOMAIN reading'
      BY <1>6
    <3>6. projected'[p] = Last(reading'[v]).match
      BY <1>1, <2>1, <3>4 DEF Writes
    <3> QED
      BY <3>1, <3>3, <3>4, <3>5, <3>6 DEF RowIsRead
  <2>2. CASE p \notin rows
    <3>1. p \in DOMAIN projected /\ projected'[p] = projected[p]
      BY <1>1, <2>2 DEF Writes
    <3>2. RowIsRead(p)
      BY <3>1 DEF SocialInv
    <3>3. <<p[1], p[2]>> \in DOMAIN reading' /\ reading'[<<p[1], p[2]>>] = reading[<<p[1], p[2]>>]
      BY <1>6, <1>8, <3>2 DEF RowIsRead
    <3> QED
      BY <3>1, <3>2, <3>3 DEF RowIsRead
  <2> QED
    BY <2>1, <2>2
<1>11. feed' = feed /\ identity' = identity
  BY DEF Interpret
<1> QED
  BY <1>2, <1>3, <1>9, <1>10, <1>11 DEF SocialInv

(* The accounts and the operator leave evidence alone.                     *)
LEMMA OutsideKeepsInv ==
  ASSUME SocialInv,
         \/ \E a \in Accounts : Edit(a)
         \/ \E i \in DOMAIN AccountOf : LinkIdentity(i)
         \/ \E i \in DOMAIN identity : FallsDue(i) \/ \E active \in BOOLEAN : SetActive(i, active)
         \/ UNCHANGED socialVars
  PROVE  SocialInv'
<1>1. /\ UNCHANGED <<mention, reading, projected, social>>
      /\ feed' \in [Accounts -> MayPost \cup {None}]
      /\ DOMAIN identity' \subseteq DOMAIN AccountOf
  <2>1. CASE \E a \in Accounts : Edit(a)
    BY <2>1 DEF Edit, SocialInv
  <2>2. CASE \E i \in DOMAIN AccountOf : LinkIdentity(i)
    BY <2>2 DEF LinkIdentity, SocialInv
  <2>3. CASE \E i \in DOMAIN identity : FallsDue(i) \/ \E active \in BOOLEAN : SetActive(i, active)
    BY <2>3 DEF FallsDue, SetActive, SocialInv
  <2>4. CASE UNCHANGED socialVars
    BY <2>4 DEF socialVars, SocialInv
  <2> QED
    BY <2>1, <2>2, <2>3, <2>4
<1>2. ClaimsAreKept /\ VersionsDiffer'
  BY <1>1, ClaimsStay DEF SocialInv
<1>3. /\ \A v \in DOMAIN reading' : VersionIsRead(v)'
      /\ \A p \in DOMAIN projected' : RowIsRead(p)'
  BY <1>1, <1>2, ReadingsAreKept
<1>4. Versions' = Versions
  BY <1>1 DEF Versions
<1>5. \A q \in SocialRuns : RunIsSound(social[q])'
  BY <1>1, <1>4 DEF SocialInv, RunIsSound
<1> QED
  BY <1>1, <1>2, <1>3, <1>5 DEF SocialInv

LEMMA SocialKeepsInv == SocialInv /\ [SocialNext]_socialVars => SocialInv'
<1> SUFFICES ASSUME SocialInv, [SocialNext]_socialVars PROVE SocialInv'
  OBVIOUS
<1>1. CASE \E r \in SocialRuns :
             StartCollecting(r) \/ CollectFails(r) \/ Deferred(r) \/ Collect(r)
  BY <1>1, CollectingKeepsInv, Zenon
<1>2. CASE \E r \in SocialRuns : Ingest(r)
  BY <1>2, IngestKeepsSocialInv, Zenon
<1>3. ASSUME NEW r \in SocialRuns, StartInterpreting(r) PROVE SocialInv'
  <2>1. ClaimsAreKept /\ VersionsDiffer'
    BY <1>3, ClaimsStay DEF SocialInv, StartInterpreting
  <2>2. /\ \A v \in DOMAIN reading' : VersionIsRead(v)'
        /\ \A p \in DOMAIN projected' : RowIsRead(p)'
    BY <1>3, <2>1, ReadingsAreKept DEF StartInterpreting
  <2>3. PICK W \in SUBSET Unprocessed : social' = [social EXCEPT ![r] = [at |-> "interpret", work |-> W]]
    BY <1>3 DEF StartInterpreting
  <2>4. Unprocessed \subseteq Versions
    <3> SUFFICES ASSUME NEW a \in Accounts, mention[a] # <<>> PROVE <<a, Len(mention[a])>> \in Versions
      BY DEF Unprocessed
    <3>1. mention[a] \in Seq(EvidenceRecords)
      BY DEF SocialInv
    <3> QED
      BY <3>1 DEF Versions
  <2>5. RunIsSound([at |-> "interpret", work |-> W])
    BY <2>4 DEF RunIsSound
  <2>6. DOMAIN social' = SocialRuns /\ \A q \in SocialRuns : RunIsSound(social[q])'
    BY <2>1, <2>3, <2>5, RunsStaySound
  <2> QED
    BY <1>3, <2>1, <2>2, <2>6 DEF SocialInv, StartInterpreting
<1>4. CASE \E r \in SocialRuns : Interpret(r)
  BY <1>4, InterpretKeepsInv, Zenon
<1> QED
  BY <1>1, <1>2, <1>3, <1>4, OutsideKeepsInv, Zenon DEF SocialNext

LEMMA SocialInitIsSound == SocialInit => SocialInv
<1> SUFFICES ASSUME SocialInit PROVE SocialInv
  OBVIOUS
<1>1. feed \in [Accounts -> MayPost \cup {None}] /\ mention \in [Accounts -> Seq(EvidenceRecords)]
  BY DEF SocialInit
<1>2. VersionsDiffer
  BY DEF SocialInit, VersionsDiffer
<1>3. DOMAIN social = SocialRuns /\ \A r \in SocialRuns : RunIsSound(social[r])
  BY IdleIsSound DEF SocialInit
<1> QED
  BY <1>1, <1>2, <1>3 DEF SocialInit, SocialInv

(* Two versions of a post in a row never carry the same text, whichever    *)
(* runs overlap and whoever the account was collected for (social.py).     *)
THEOREM VersionsStayApart == SocialSpec => []VersionsDiffer
<1>1. SocialInv => VersionsDiffer
  BY DEF SocialInv
<1> QED
  BY <1>1, SocialInitIsSound, SocialKeepsInv, PTL DEF SocialSpec

LEMMA PairParts == \A a, b : <<a, b>>[1] = a /\ <<a, b>>[2] = b
  OBVIOUS

LEMMA SoundReadingsFollow == SocialInv => ReadingsFollowEvidence
<1> SUFFICES ASSUME SocialInv PROVE ReadingsFollowEvidence
  OBVIOUS
<1>1. ASSUME NEW v \in DOMAIN reading
      PROVE  ReadingIsSound(mention[v[1]][v[2]].claims, Last(reading[v]))
  <2>1. PICK x : reading[v] = <<x>> /\ ReadingIsSound(EvidenceOf(v), x)
    BY DEF SocialInv, VersionIsRead
  <2> QED
    BY <2>1, OneReading DEF EvidenceOf
<1>2. ASSUME NEW p \in DOMAIN projected
      PROVE  /\ RowIsRead(p)
             /\ ReadingIsSound(mention[p[1]][p[2]].claims, Last(reading[<<p[1], p[2]>>]))
  <2>1. RowIsRead(p)
    BY DEF SocialInv
  <2>2. PICK v : v = <<p[1], p[2]>> /\ v[1] = p[1] /\ v[2] = p[2]
    <3>1. PICK v : v = <<p[1], p[2]>>
      OBVIOUS
    <3>2. v[1] = p[1] /\ v[2] = p[2]
      BY <3>1, PairParts
    <3> QED
      BY <3>1, <3>2
  <2>3. v \in DOMAIN reading
    BY <2>1, <2>2 DEF RowIsRead
  <2> QED
    BY <1>1, <2>1, <2>2, <2>3
<1>3. ReadingIsOfItsEvidence
  BY <1>1, <1>2 DEF ReadingIsOfItsEvidence, ReadingIsSound, RowIsRead
<1>4. SparseNeverMatches
  <2> SUFFICES ASSUME NEW p \in DOMAIN projected, projected[p] = "MATCHED"
               PROVE  Corroborated(SocialView(mention[p[1]][p[2]].claims), KnownEvents[p[3]])
    BY Zenon DEF SparseNeverMatches, Corroborated
  <2>1. RowIsRead(p) /\ ReadingIsSound(mention[p[1]][p[2]].claims, Last(reading[<<p[1], p[2]>>]))
    BY <1>2
  <2>2. PICK x : x = Last(reading[<<p[1], p[2]>>]) /\ x.event = p[3] /\ x.match = "MATCHED" /\ p[3] # None
    BY <2>1, Zenon DEF RowIsRead
  <2> QED
    BY <2>1, <2>2, Zenon DEF ReadingIsSound
<1>5. RowsFollowReading
  BY <1>2 DEF RowsFollowReading, RowIsRead
<1> QED
  BY <1>3, <1>4, <1>5 DEF ReadingsFollowEvidence

(* Interpretations and their match rows are those that the evidence        *)
(* version they name justifies, with runs overlapping and posts edited in  *)
(* between (social_interpretation/service.py, projection.py).              *)
THEOREM ReadingsStayFounded == SocialSpec => []ReadingsFollowEvidence
BY SocialInitIsSound, SocialKeepsInv, SoundReadingsFollow, PTL DEF SocialSpec

-----------------------------------------------------------------------------
(* SignalIngest.  First sequences, of whatever they hold.                  *)
IsSeq(s) == s \in Seq(Range(s))

LEMMA FunctionIsSeq ==
  ASSUME NEW n \in Nat, NEW f, f = [k \in 1 .. n |-> f[k]]
  PROVE  IsSeq(f) /\ Len(f) = n
<1>1. f \in [1 .. n -> Range(f)]
  BY DEF Range
<1>2. f \in Seq(Range(f))
  BY <1>1
<1> QED
  BY <1>1, <1>2 DEF IsSeq

LEMMA AppendIsSeq ==
  ASSUME NEW s, IsSeq(s), NEW x
  PROVE  /\ IsSeq(Append(s, x)) /\ Len(s) \in Nat /\ Len(Append(s, x)) = Len(s) + 1
         /\ Append(s, x)[Len(s) + 1] = x
         /\ \A k \in 1 .. Len(s) : Append(s, x)[k] = s[k]
<1> DEFINE S == Range(s) \cup {x}
<1>1. s \in Seq(S)
  BY DEF IsSeq
<1>2. Append(s, x) \in Seq(S)
  BY <1>1
<1>3. IsSeq(Append(s, x))
  BY <1>2, SeqOfItsRange DEF IsSeq
<1> QED
  BY <1>1, <1>3

LEMMA TailIsSeq ==
  ASSUME NEW s, IsSeq(s), s # <<>>
  PROVE  IsSeq(Tail(s)) /\ Len(s) \in Nat \ {0} /\ Len(Tail(s)) = Len(s) - 1
<1>1. Tail(s) \in Seq(Range(s)) /\ Len(s) \in Nat \ {0} /\ Len(Tail(s)) = Len(s) - 1
  BY DEF IsSeq
<1> QED
  BY <1>1, SeqOfItsRange DEF IsSeq

LEMMA ConcatIsSeq ==
  ASSUME NEW s, IsSeq(s), NEW t, IsSeq(t)
  PROVE  /\ IsSeq(s \o t) /\ Len(s) \in Nat /\ Len(t) \in Nat /\ Len(s \o t) = Len(s) + Len(t)
         /\ \A k \in 1 .. Len(s) : (s \o t)[k] = s[k]
         /\ \A k \in 1 .. Len(t) : (s \o t)[Len(s) + k] = t[k]
<1> DEFINE S == Range(s) \cup Range(t)
<1>1. s \in Seq(S) /\ t \in Seq(S)
  BY DEF IsSeq
<1>2. s \o t \in Seq(S)
  BY <1>1
<1>3. IsSeq(s \o t)
  BY <1>2, SeqOfItsRange DEF IsSeq
<1> QED
  BY <1>1, <1>3

LEMMA PartIsSeq ==
  ASSUME NEW s, IsSeq(s), NEW m \in Nat, NEW n \in 0 .. Len(s), m >= 1
  PROVE  /\ IsSeq(SubSeq(s, m, n)) /\ Len(SubSeq(s, m, n)) = IF m <= n THEN n - m + 1 ELSE 0
         /\ \A k \in 1 .. Len(SubSeq(s, m, n)) : SubSeq(s, m, n)[k] = s[m + k - 1] /\ m + k - 1 \in 1 .. Len(s)
<1>1. s \in Seq(Range(s)) /\ Len(s) \in Nat
  BY DEF IsSeq
<1>2. SubSeq(s, m, n) \in Seq(Range(s))
  BY <1>1
<1>3. IsSeq(SubSeq(s, m, n))
  BY <1>2, SeqOfItsRange DEF IsSeq
<1> QED
  BY <1>1, <1>2, <1>3

LEMMA EmptyHasNoLength ==
  ASSUME NEW s, IsSeq(s) PROVE Len(s) \in Nat /\ DOMAIN s = 1 .. Len(s) /\ (s = <<>> <=> Len(s) = 0)
BY DEF IsSeq

LEMMA OneIsSeq == ASSUME NEW x PROVE IsSeq(<<x>>) /\ Len(<<x>>) = 1 /\ <<x>>[1] = x
<1>1. <<x>> \in Seq({x})
  OBVIOUS
<1> QED
  BY <1>1, SeqOfItsRange DEF IsSeq

LEMMA NoneIsSeq == IsSeq(<<>>) /\ Len(<<>>) = 0 /\ DOMAIN <<>> = {}
<1>1. <<>> \in Seq({})
  OBVIOUS
<1> QED
  BY <1>1, SeqOfItsRange DEF IsSeq

-----------------------------------------------------------------------------
(* A batch of nodes leaves what it does not name, and of what it names it  *)
(* changes what it holds.  Only its first node says more than a name.      *)
SameButName(new, old) ==
  \A p : p # "display_name" =>
    /\ p \in DOMAIN new <=> p \in DOMAIN old
    /\ p \in DOMAIN old => new[p] = old[p]

OnlyNames(n) == DOMAIN n.props = {"display_name"}

(* The graph after the first node of a batch.                              *)
AfterFirst(nodes, batch) == IF batch = <<>> THEN nodes ELSE UpsertNode(nodes, batch[1])

AfterEach(f, nodes, batch, n) ==
  f = [k \in 0 .. n |-> IF k = 0 THEN nodes ELSE UpsertNode(f[k - 1], batch[k])]

LEMMA BatchExists ==
  ASSUME NEW nodes, NEW batch, NEW n \in Nat
  PROVE  \E f : AfterEach(f, nodes, batch, n)
<1> DEFINE T == {k \in Nat : ~ \E f : AfterEach(f, nodes, batch, k)}
<1> SUFFICES ASSUME T # {} PROVE FALSE
  OBVIOUS
<1>1. PICK k \in T : \A y \in T : k <= y
  BY LeastExists
<1>2. k # 0
  <2> DEFINE f == [j \in 0 .. 0 |-> nodes]
  <2>1. AfterEach(f, nodes, batch, 0)
    <3>1. \A j \in 0 .. 0 : (IF j = 0 THEN nodes ELSE UpsertNode(f[j - 1], batch[j])) = nodes
      OBVIOUS
    <3> QED
      BY <3>1 DEF AfterEach
  <2> QED
    BY <2>1
<1>3. k - 1 \in Nat /\ k - 1 \notin T
  BY <1>1, <1>2
<1>4. PICK f : AfterEach(f, nodes, batch, k - 1)
  BY <1>3
<1> DEFINE g == [j \in 0 .. k |-> IF j = k THEN UpsertNode(f[k - 1], batch[k]) ELSE f[j]]
<1>5. AfterEach(g, nodes, batch, k)
  <2> DEFINE h == [j \in 0 .. k |-> IF j = 0 THEN nodes ELSE UpsertNode(g[j - 1], batch[j])]
  <2>1. ASSUME NEW j \in 0 .. k PROVE g[j] = h[j]
    <3>1. CASE j = k
      BY <1>2, <1>3, <3>1
    <3>2. CASE j # k
      <4>1. j \in 0 .. k - 1 /\ g[j] = f[j]
        BY <3>2
      <4>2. f[j] = IF j = 0 THEN nodes ELSE UpsertNode(f[j - 1], batch[j])
        BY <1>4, <4>1 DEF AfterEach
      <4>3. j # 0 => g[j - 1] = f[j - 1]
        BY <4>1
      <4> QED
        BY <4>1, <4>2, <4>3
    <3> QED
      BY <3>1, <3>2
  <2> HIDE DEF h
  <2>2. g = h
    <3>1. DOMAIN h = 0 .. k /\ h = [j \in 0 .. k |-> h[j]]
      BY DEF h
    <3>2. g = [j \in 0 .. k |-> g[j]]
      OBVIOUS
    <3> HIDE DEF g
    <3> QED
      BY <2>1, <3>1, <3>2
  <2> QED
    BY <2>2 DEF AfterEach, h
<1> HIDE DEF g
<1> QED
  BY <1>1, <1>5

LEMMA BatchInSteps ==
  ASSUME NEW nodes, NEW batch, Len(batch) \in Nat
  PROVE  \E f : /\ UpsertNodes(nodes, batch) = f[Len(batch)] /\ f[0] = nodes
                /\ \A k \in 1 .. Len(batch) : f[k] = UpsertNode(f[k - 1], batch[k])
<1> DEFINE f == CHOOSE f : AfterEach(f, nodes, batch, Len(batch))
<1>1. UpsertNodes(nodes, batch) = f[Len(batch)]
  BY DEF UpsertNodes, AfterEach
<1>2. AfterEach(f, nodes, batch, Len(batch))
  BY BatchExists
<1> HIDE DEF f
<1>3. f[0] = nodes /\ \A k \in 1 .. Len(batch) : f[k] = UpsertNode(f[k - 1], batch[k])
  BY <1>2 DEF AfterEach
<1> QED
  BY <1>1, <1>3

LEMMA SameIsTransitive ==
  ASSUME NEW a, NEW b, NEW c, SameButName(a, b), SameButName(b, c) PROVE SameButName(a, c)
BY DEF SameButName

LEMMA NameChangesLittle ==
  ASSUME NEW nodes, NEW n, OnlyNames(n), NEW id
  PROVE  SameButName(RowOf(UpsertNode(nodes, n), id).props, RowOf(nodes, id).props)
<1> DEFINE new == UpsertNode(nodes, n)
<1>1. DOMAIN new = DOMAIN nodes \cup {n.id}
  BY DEF UpsertNode
<1>2. CASE id = n.id
  <2>1. new[id].props = Over(n.props, RowOf(nodes, id).props)
    BY <1>2 DEF UpsertNode
  <2>2. RowOf(new, id) = new[id]
    BY <1>1, <1>2 DEF RowOf
  <2> QED
    BY <2>1, <2>2 DEF SameButName, Over, OnlyNames
<1>3. CASE id # n.id
  <2>1. id \in DOMAIN nodes => new[id] = nodes[id]
    BY <1>3 DEF UpsertNode
  <2>2. RowOf(new, id) = RowOf(nodes, id)
    BY <1>1, <1>3, <2>1 DEF RowOf
  <2> QED
    BY <2>2 DEF SameButName
<1> QED
  BY <1>2, <1>3

(* What a batch and its edges make of the graph.                           *)
LEMMA BatchWritten ==
  ASSUME NEW nodes, NEW batch, Len(batch) \in Nat, batch = <<>> <=> Len(batch) = 0,
         \A k \in 2 .. Len(batch) : OnlyNames(batch[k]),
         NEW new, new = UpsertNodes(nodes, batch)
  PROVE  /\ DOMAIN new = DOMAIN nodes \cup {batch[k].id : k \in 1 .. Len(batch)}
         /\ \A id : SameButName(RowOf(new, id).props, RowOf(AfterFirst(nodes, batch), id).props)
<1>1. PICK f : /\ UpsertNodes(nodes, batch) = f[Len(batch)] /\ f[0] = nodes
               /\ \A k \in 1 .. Len(batch) : f[k] = UpsertNode(f[k - 1], batch[k])
  BY BatchInSteps
<1> DEFINE Good(k) == /\ DOMAIN f[k] = DOMAIN nodes \cup {batch[j].id : j \in 1 .. k}
                      /\ k > 0 => \A id : SameButName(RowOf(f[k], id).props, RowOf(AfterFirst(nodes, batch), id).props)
           T == {k \in 0 .. Len(batch) : ~Good(k)}
<1>2. T = {}
  <2> SUFFICES ASSUME T # {} PROVE FALSE
    OBVIOUS
  <2>0. T \subseteq Nat
    OBVIOUS
  <2>1. PICK k \in T : \A y \in T : k <= y
    <3> HIDE DEF T
    <3> QED
      BY <2>0, LeastExists
  <2>2. k # 0
    BY <1>1, <2>1
  <2>3. k - 1 \in 0 .. Len(batch) /\ k \in 1 .. Len(batch) /\ k - 1 \notin T
    BY <2>1, <2>2
  <2>4. Good(k - 1)
    BY <2>3
  <2>5. f[k] = UpsertNode(f[k - 1], batch[k])
    BY <1>1, <2>3
  <2>6. DOMAIN f[k] = DOMAIN nodes \cup {batch[j].id : j \in 1 .. k}
    <3>1. DOMAIN f[k] = DOMAIN f[k - 1] \cup {batch[k].id}
      BY <2>5 DEF UpsertNode
    <3>2. 1 .. k = (1 .. k - 1) \cup {k}
      BY <2>3
    <3>3. {batch[j].id : j \in 1 .. k} = {batch[j].id : j \in 1 .. k - 1} \cup {batch[k].id}
      BY <3>2
    <3> QED
      BY <2>4, <3>1, <3>3
  <2>7. ASSUME NEW id PROVE SameButName(RowOf(f[k], id).props, RowOf(AfterFirst(nodes, batch), id).props)
    <3>1. CASE k = 1
      <4>1. f[k] = AfterFirst(nodes, batch)
        BY <1>1, <2>3, <2>5, <3>1 DEF AfterFirst
      <4> QED
        BY <4>1 DEF SameButName
    <3>2. CASE k # 1
      <4>1. OnlyNames(batch[k])
        BY <2>3, <3>2
      <4>2. SameButName(RowOf(f[k], id).props, RowOf(f[k - 1], id).props)
        BY <2>5, <4>1, NameChangesLittle
      <4>3. SameButName(RowOf(f[k - 1], id).props, RowOf(AfterFirst(nodes, batch), id).props)
        BY <2>3, <2>4, <3>2
      <4> QED
        BY <4>2, <4>3, SameIsTransitive
    <3> QED
      BY <3>1, <3>2
  <2>8. Good(k)
    BY <2>6, <2>7
  <2> QED
    BY <2>1, <2>8
<1>3. Good(Len(batch))
  BY <1>2
<1>4. CASE Len(batch) = 0
  <2>1. new = nodes /\ AfterFirst(nodes, batch) = nodes
    BY <1>1, <1>4 DEF AfterFirst
  <2> QED
    BY <1>1, <1>3, <2>1 DEF SameButName
<1>5. CASE Len(batch) # 0
  BY <1>1, <1>3, <1>5
<1> QED
  BY <1>4, <1>5

LEMMA EdgesAddNoProperty ==
  ASSUME NEW nodes, NEW edges
  PROVE  /\ DOMAIN EnsureNodes(nodes, edges) = DOMAIN nodes \cup UNION {{edge[1], edge[3]} : edge \in edges}
         /\ \A id : RowOf(EnsureNodes(nodes, edges), id) = RowOf(nodes, id)
BY DEF EnsureNodes, RowOf

-----------------------------------------------------------------------------
(* What is resolved, and projected, for an answer.                         *)
AllAnswers == UNION {MayAnswer[s] : s \in Subjects}

LEMMA AnswersAreTyped ==
  ASSUME NEW answer \in AllAnswers
  PROVE  /\ answer.kind \in {"ticket", "channel", "query", "spotify"}
         /\ answer.kind = "ticket" => IsSeq(answer.event.artists)
         /\ answer.kind \in {"channel", "query"} =>
              IsSeq(answer.raw.regions) /\ (answer.raw.videos # None => answer.raw.videos \in Nat)
BY IngestAssumption DEF AllAnswers, IsSeq

LEMMA ResolvedInOrder ==
  ASSUME NEW answer \in AllAnswers, NEW verdict, NEW want, want = ToResolve(answer, verdict)
  PROVE  /\ IsSeq(want) /\ Len(want) \in Nat
         /\ answer.kind = "spotify" <=> want = <<>>
         /\ answer.kind # "spotify" => Len(want) >= 1 /\ want[1].handle = HandleOf(answer)
         /\ answer.kind = "ticket" /\ answer.event.venue # None => Len(want) >= 2
<1>1. CASE answer.kind = "ticket"
  <2> DEFINE e == answer.event
             first == <<Wanted(EventHandle(e), "event", e.name)>>
             venue == IF e.venue = None THEN <<>> ELSE <<Wanted(VenueHandle(e), "venue", e.venue)>>
             lineup == [k \in DOMAIN e.artists |-> Wanted(ArtistHandle(e, k), "artist", e.artists[k])]
  <2>1. want = first \o venue \o lineup
    BY <1>1 DEF ToResolve
  <2>2. IsSeq(first) /\ Len(first) = 1 /\ first[1].handle = EventHandle(e)
    BY OneIsSeq DEF Wanted
  <2>3. IsSeq(venue) /\ Len(venue) = IF e.venue = None THEN 0 ELSE 1
    BY OneIsSeq, NoneIsSeq
  <2>4. IsSeq(lineup) /\ Len(lineup) \in Nat
    <3>1. DOMAIN e.artists = 1 .. Len(e.artists) /\ Len(e.artists) \in Nat
      BY <1>1, AnswersAreTyped DEF IsSeq
    <3>2. lineup = [k \in 1 .. Len(e.artists) |-> lineup[k]]
      BY <3>1
    <3> HIDE DEF lineup
    <3> QED
      BY <3>1, <3>2, FunctionIsSeq
  <2> HIDE DEF first, venue, lineup
  <2> DEFINE two == first \o venue
  <2>5. IsSeq(two) /\ Len(two) = 1 + Len(venue) /\ two[1] = first[1]
    <3>1. IsSeq(two) /\ Len(two) = Len(first) + Len(venue) /\ \A k \in 1 .. Len(first) : two[k] = first[k]
      BY <2>2, <2>3, ConcatIsSeq
    <3> HIDE DEF two
    <3> QED
      BY <2>2, <3>1
  <2>6. IsSeq(want) /\ Len(want) = 1 + Len(venue) + Len(lineup) /\ want[1] = first[1]
    <3>1. want = two \o lineup
      BY <2>1
    <3> HIDE DEF two
    <3>2. /\ IsSeq(two \o lineup) /\ Len(two \o lineup) = Len(two) + Len(lineup)
          /\ \A k \in 1 .. Len(two) : (two \o lineup)[k] = two[k]
      BY <2>4, <2>5, ConcatIsSeq, Zenon
    <3> QED
      BY <2>3, <2>5, <3>1, <3>2
  <2>7. want # <<>>
    BY <2>3, <2>4, <2>6, NoneIsSeq
  <2> QED
    BY <1>1, <2>2, <2>3, <2>4, <2>6, <2>7 DEF HandleOf
<1>2. CASE answer.kind \in {"channel", "query"}
  <2>1. want = <<Wanted(HandleOf(answer), verdict.type, answer.raw.title)>>
    BY <1>2 DEF ToResolve
  <2>2. IsSeq(want) /\ Len(want) = 1 /\ want[1].handle = HandleOf(answer) /\ want # <<>>
    BY <2>1, OneIsSeq DEF Wanted
  <2> QED
    BY <1>2, <2>2
<1>3. CASE answer.kind = "spotify"
  <2>1. want = <<>>
    BY <1>3 DEF ToResolve
  <2> QED
    BY <1>3, <2>1, NoneIsSeq
<1> QED
  BY <1>1, <1>2, <1>3, AnswersAreTyped

OfJob(id, ids) == id \in Range(ids) \/ Len(id) = 2

(* The first node is the entity that was asked for; all other nodes are    *)
(* names of what was resolved with it, or regions.                         *)
ProjectionIsSound(what, ids) ==
  /\ IsSeq(what.nodes) /\ Len(what.nodes) \in Nat \ {0} /\ IsSeq(what.edges) /\ Len(what.edges) \in Nat
  /\ what.nodes[1].id = ids[1]
  /\ \A k \in 1 .. Len(what.nodes) : OfJob(what.nodes[k].id, ids)
  /\ \A k \in 2 .. Len(what.nodes) : OnlyNames(what.nodes[k])
  /\ \A k \in 1 .. Len(what.edges) : OfJob(what.edges[k][1], ids) /\ OfJob(what.edges[k][3], ids)

LEMMA RegionIsOfJob ==
  ASSUME NEW ids, NEW r
  PROVE  OfJob(<<"region", r>>, ids) /\ OfJob(RegionNode(r).id, ids) /\ OnlyNames(RegionNode(r))
<1>1. Len(<<"region", r>>) = 2
  OBVIOUS
<1>2. RegionNode(r).id = <<"region", r>> /\ RegionNode(r).props = [display_name |-> r]
  BY DEF RegionNode, GraphNode
<1> QED
  BY <1>1, <1>2 DEF OfJob, OnlyNames

LEMMA IdIsOfJob ==
  ASSUME NEW ids, IsSeq(ids), NEW k \in 1 .. Len(ids) PROVE OfJob(ids[k], ids)
BY DEF OfJob, IsSeq, Range

LEMMA TicketIsProjected ==
  ASSUME NEW e, NEW ids, IsSeq(ids), ids # <<>>, e.venue # None => Len(ids) >= 2,
         NEW what, what = ProjectTicketing(e, ids[1], IF e.venue = None THEN None ELSE ids[2],
                            SubSeq(ids, IF e.venue = None THEN 2 ELSE 3, Len(ids)))
  PROVE  /\ ProjectionIsSound(what, ids)
         /\ what.nodes[1].props = EventProperties(e)
<1> DEFINE venueId == IF e.venue = None THEN None ELSE ids[2]
           artistIds == SubSeq(ids, IF e.venue = None THEN 2 ELSE 3, Len(ids))
           venue   == IF venueId = None THEN <<>> ELSE <<GraphNode(venueId, "venue", [display_name |-> e.venue])>>
           region  == IF e.region = None THEN <<>> ELSE <<RegionNode(e.region)>>
           artists == [k \in DOMAIN artistIds |-> GraphNode(artistIds[k], "artist", [display_name |-> e.artists[k]])]
           rel(n)  == CASE n.type = "venue" -> "OCCURS_AT" [] n.type = "artist" -> "FEATURES" [] OTHER -> "IN_REGION"
           related == venue \o artists \o region
           event == <<GraphNode(ids[1], "event", EventProperties(e))>>
           Fine(n) == OfJob(n.id, ids) /\ OnlyNames(n)
<1>1. /\ what.nodes = event \o related
      /\ what.edges = [k \in DOMAIN related |-> <<ids[1], rel(related[k]), related[k].id>>]
  BY DEF ProjectTicketing
<1>2. Len(ids) \in Nat \ {0}
  BY DEF IsSeq
<1>3. IsSeq(venue) /\ Len(venue) \in Nat /\ \A k \in 1 .. Len(venue) : Fine(venue[k])
  <2>1. CASE venueId = None
    <3>1. venue = <<>>
      BY <2>1
    <3> HIDE DEF venue, Fine
    <3> QED
      BY <3>1, NoneIsSeq
  <2>2. CASE venueId # None
    <3>1. venue = <<GraphNode(venueId, "venue", [display_name |-> e.venue])>>
      BY <2>2
    <3>2. venueId = ids[2] /\ OfJob(venueId, ids)
      BY <1>2, <2>2, IdIsOfJob
    <3>3. Fine(GraphNode(venueId, "venue", [display_name |-> e.venue]))
      BY <3>2 DEF GraphNode, OnlyNames
    <3> HIDE DEF venue, Fine, venueId
    <3> QED
      BY <3>1, <3>3, OneIsSeq
  <2> QED
    BY <2>1, <2>2
<1>4. IsSeq(region) /\ Len(region) \in Nat /\ \A k \in 1 .. Len(region) : Fine(region[k])
  <2>1. CASE e.region = None
    <3>1. region = <<>>
      BY <2>1
    <3> HIDE DEF region, Fine
    <3> QED
      BY <3>1, NoneIsSeq
  <2>2. CASE e.region # None
    <3>1. region = <<RegionNode(e.region)>>
      BY <2>2
    <3>2. Fine(RegionNode(e.region))
      BY RegionIsOfJob
    <3> HIDE DEF region, Fine
    <3> QED
      BY <3>1, <3>2, OneIsSeq
  <2> QED
    BY <2>1, <2>2
<1>5. IsSeq(artists) /\ Len(artists) \in Nat /\ \A k \in 1 .. Len(artists) : Fine(artists[k])
  <2>1. /\ IsSeq(artistIds) /\ Len(artistIds) \in Nat
        /\ \A k \in 1 .. Len(artistIds) : \E j \in 1 .. Len(ids) : artistIds[k] = ids[j]
    <3>1. PICK m \in {2, 3} : artistIds = SubSeq(ids, m, Len(ids))
      BY Zenon
    <3> HIDE DEF artistIds
    <3>2. m \in Nat /\ m >= 1 /\ Len(ids) \in 0 .. Len(ids)
      BY <1>2
    <3>3. /\ IsSeq(artistIds) /\ Len(artistIds) = IF m <= Len(ids) THEN Len(ids) - m + 1 ELSE 0
          /\ \A k \in 1 .. Len(artistIds) : artistIds[k] = ids[m + k - 1] /\ m + k - 1 \in 1 .. Len(ids)
      BY <3>1, <3>2, PartIsSeq
    <3> QED
      BY <1>2, <3>2, <3>3
  <2>2. DOMAIN artistIds = 1 .. Len(artistIds)
    <3> HIDE DEF artistIds
    <3> QED
      BY <2>1 DEF IsSeq
  <2>3. ASSUME NEW k \in 1 .. Len(artistIds)
        PROVE  artists[k] = GraphNode(artistIds[k], "artist", [display_name |-> e.artists[k]]) /\ Fine(artists[k])
    <3>1. OfJob(artistIds[k], ids)
      BY <2>1, IdIsOfJob
    <3>2. artists[k] = GraphNode(artistIds[k], "artist", [display_name |-> e.artists[k]])
      BY <2>2
    <3> HIDE DEF artists, artistIds
    <3> QED
      BY <3>1, <3>2 DEF GraphNode, OnlyNames
  <2>4. artists = [k \in 1 .. Len(artistIds) |-> artists[k]]
    BY <2>2
  <2> HIDE DEF artists, artistIds, Fine
  <2>5. IsSeq(artists) /\ Len(artists) = Len(artistIds)
    BY <2>1, <2>4, FunctionIsSeq
  <2> QED
    BY <2>1, <2>3, <2>5
<1> HIDE DEF venue, region, artists, Fine
<1>6. IsSeq(related) /\ Len(related) \in Nat /\ \A k \in 1 .. Len(related) : Fine(related[k])
  <2> DEFINE two == venue \o artists
  <2>1. IsSeq(two) /\ Len(two) \in Nat /\ \A k \in 1 .. Len(two) : Fine(two[k])
    <3>1. /\ IsSeq(two) /\ Len(two) = Len(venue) + Len(artists)
          /\ \A k \in 1 .. Len(venue) : two[k] = venue[k]
          /\ \A k \in 1 .. Len(artists) : two[Len(venue) + k] = artists[k]
      BY <1>3, <1>5, ConcatIsSeq
    <3> HIDE DEF two
    <3>2. ASSUME NEW k \in 1 .. Len(two) PROVE Fine(two[k])
      <4>1. CASE k <= Len(venue)
        BY <1>3, <3>1, <4>1
      <4>2. CASE k > Len(venue)
        <5>1. k - Len(venue) \in 1 .. Len(artists) /\ k = Len(venue) + (k - Len(venue))
          BY <1>3, <1>5, <3>1, <4>2
        <5> QED
          BY <1>5, <3>1, <5>1
      <4> QED
        BY <1>3, <4>1, <4>2
    <3> QED
      BY <1>3, <1>5, <3>1, <3>2
  <2>2. related = two \o region
    OBVIOUS
  <2> HIDE DEF two, related
  <2>3. /\ IsSeq(related) /\ Len(related) = Len(two) + Len(region)
        /\ \A k \in 1 .. Len(two) : related[k] = two[k]
        /\ \A k \in 1 .. Len(region) : related[Len(two) + k] = region[k]
    BY <1>4, <2>1, <2>2, ConcatIsSeq
  <2>4. ASSUME NEW k \in 1 .. Len(related) PROVE Fine(related[k])
    <3>1. CASE k <= Len(two)
      BY <2>1, <2>3, <3>1
    <3>2. CASE k > Len(two)
      <4>1. k - Len(two) \in 1 .. Len(region) /\ k = Len(two) + (k - Len(two))
        BY <1>4, <2>1, <2>3, <3>2
      <4> QED
        BY <1>4, <2>3, <4>1
    <3> QED
      BY <2>1, <3>1, <3>2
  <2> QED
    BY <1>4, <2>1, <2>3, <2>4
<1> HIDE DEF related
<1>7. IsSeq(event) /\ Len(event) = 1 /\ event[1] = GraphNode(ids[1], "event", EventProperties(e))
  BY OneIsSeq
<1> HIDE DEF event
<1>8. /\ IsSeq(what.nodes) /\ Len(what.nodes) = 1 + Len(related) /\ what.nodes[1] = event[1]
      /\ \A k \in 1 .. Len(related) : what.nodes[1 + k] = related[k]
  <2> DEFINE all == event \o related
  <2>1. /\ IsSeq(all) /\ Len(all) = Len(event) + Len(related) /\ \A k \in 1 .. Len(event) : all[k] = event[k]
        /\ \A k \in 1 .. Len(related) : all[Len(event) + k] = related[k]
    <3>1. IsSeq(event) /\ IsSeq(related)
      BY <1>6, <1>7
    <3> QED
      BY <3>1, ConcatIsSeq
  <2>2. what.nodes = all
    BY <1>1
  <2> HIDE DEF all
  <2> QED
    BY <1>6, <1>7, <2>1, <2>2
<1>9. what.nodes[1].id = ids[1] /\ what.nodes[1].props = EventProperties(e) /\ OfJob(ids[1], ids)
  BY <1>2, <1>7, <1>8, IdIsOfJob DEF GraphNode
<1>10. ASSUME NEW k \in 2 .. Len(what.nodes) PROVE Fine(what.nodes[k])
  <2>1. k - 1 \in 1 .. Len(related) /\ k = 1 + (k - 1)
    BY <1>6, <1>8
  <2> QED
    BY <1>6, <1>8, <2>1
<1>11. /\ IsSeq(what.edges) /\ Len(what.edges) = Len(related)
       /\ \A k \in 1 .. Len(related) : what.edges[k] = <<ids[1], rel(related[k]), related[k].id>>
  <2>1. DOMAIN related = 1 .. Len(related)
    BY <1>6 DEF IsSeq
  <2>2. \A k \in 1 .. Len(related) : what.edges[k] = <<ids[1], rel(related[k]), related[k].id>>
    BY <1>1, <2>1
  <2>3. what.edges = [k \in 1 .. Len(related) |-> what.edges[k]]
    BY <1>1, <2>1
  <2> HIDE DEF rel
  <2> QED
    BY <1>6, <2>2, <2>3, FunctionIsSeq
<1>12. ASSUME NEW k \in 1 .. Len(what.edges)
       PROVE  OfJob(what.edges[k][1], ids) /\ OfJob(what.edges[k][3], ids)
  <2>1. what.edges[k][1] = ids[1] /\ what.edges[k][3] = related[k].id
    <3> HIDE DEF rel
    <3> QED
      BY <1>11
  <2>2. Fine(related[k])
    BY <1>6, <1>11
  <2> QED
    BY <1>9, <2>1, <2>2 DEF Fine
<1>13. \A k \in 1 .. Len(what.nodes) : OfJob(what.nodes[k].id, ids)
  <2>1. \A k \in 1 .. Len(what.nodes) : k = 1 \/ k \in 2 .. Len(what.nodes)
    OBVIOUS
  <2> QED
    BY <1>9, <1>10, <2>1 DEF Fine
<1>14. Len(what.nodes) \in Nat \ {0} /\ Len(what.edges) \in Nat
  BY <1>6, <1>8, <1>11
<1> QED
  BY <1>8, <1>9, <1>10, <1>11, <1>12, <1>13, <1>14 DEF ProjectionIsSound, Fine

EntityProps(name, verdict, observations) ==
  Over([display_name |-> name, needs_review |-> verdict.review, method |-> verdict.method],
       Over(Restrict(observations, {"subscriber_count", "total_view_count", "video_count",
                                    "search_momentum", "google_kg_mid"} \cap DOMAIN observations),
            Known([mbid |-> verdict.mbid])))

LEMMA EntityIsProjected ==
  ASSUME NEW observations, NEW ids, IsSeq(ids), ids # <<>>, NEW verdict, NEW name,
         "search_top_regions" \in DOMAIN observations => IsSeq(observations.search_top_regions),
         NEW what, what = ProjectEntity(ids[1], verdict, name, observations)
  PROVE  /\ ProjectionIsSound(what, ids)
         /\ what.nodes[1].props = EntityProps(name, verdict, observations)
<1> DEFINE regions == IF "search_top_regions" \in DOMAIN observations
                      THEN observations.search_top_regions ELSE <<>>
           props == EntityProps(name, verdict, observations)
           first == <<GraphNode(ids[1], verdict.type, props)>>
           rest == [k \in DOMAIN regions |-> RegionNode(regions[k])]
<1>1. /\ what.nodes = first \o rest
      /\ what.edges = [k \in DOMAIN regions |-> <<ids[1], "STRONG_IN", <<"region", regions[k]>>>>]
  BY DEF ProjectEntity, EntityProps
<1>2. IsSeq(regions) /\ Len(regions) \in Nat /\ DOMAIN regions = 1 .. Len(regions)
  <2>1. IsSeq(regions)
    BY NoneIsSeq
  <2> HIDE DEF regions
  <2> QED
    BY <2>1 DEF IsSeq
<1> HIDE DEF regions, props
<1>3. IsSeq(first) /\ Len(first) = 1 /\ first[1] = GraphNode(ids[1], verdict.type, props)
  BY OneIsSeq
<1>4. IsSeq(rest) /\ Len(rest) = Len(regions) /\ \A k \in 1 .. Len(rest) : rest[k] = RegionNode(regions[k])
  <2>1. rest = [k \in 1 .. Len(regions) |-> rest[k]] /\ \A k \in 1 .. Len(regions) : rest[k] = RegionNode(regions[k])
    BY <1>2
  <2> HIDE DEF rest
  <2> QED
    BY <1>2, <2>1, FunctionIsSeq
<1>5. /\ IsSeq(what.edges) /\ Len(what.edges) = Len(regions)
      /\ \A k \in 1 .. Len(regions) : what.edges[k] = <<ids[1], "STRONG_IN", <<"region", regions[k]>>>>
  <2>1. /\ what.edges = [k \in 1 .. Len(regions) |-> what.edges[k]]
        /\ \A k \in 1 .. Len(regions) : what.edges[k] = <<ids[1], "STRONG_IN", <<"region", regions[k]>>>>
    BY <1>1, <1>2
  <2> QED
    BY <1>2, <2>1, FunctionIsSeq
<1> HIDE DEF first, rest
<1>6. /\ IsSeq(what.nodes) /\ Len(what.nodes) = 1 + Len(rest) /\ what.nodes[1] = first[1]
      /\ \A k \in 1 .. Len(rest) : what.nodes[1 + k] = rest[k]
  <2> DEFINE all == first \o rest
  <2>1. /\ IsSeq(all) /\ Len(all) = Len(first) + Len(rest) /\ \A k \in 1 .. Len(first) : all[k] = first[k]
        /\ \A k \in 1 .. Len(rest) : all[Len(first) + k] = rest[k]
    <3>1. IsSeq(first) /\ IsSeq(rest)
      BY <1>3, <1>4
    <3> QED
      BY <3>1, ConcatIsSeq
  <2>2. what.nodes = all
    BY <1>1
  <2> HIDE DEF all
  <2> QED
    BY <1>2, <1>3, <1>4, <2>1, <2>2
<1>7. what.nodes[1].id = ids[1] /\ what.nodes[1].props = props /\ OfJob(ids[1], ids)
  <2>1. 1 \in 1 .. Len(ids)
    BY DEF IsSeq
  <2> QED
    BY <1>3, <1>6, <2>1, IdIsOfJob DEF GraphNode
<1>8. ASSUME NEW k \in 2 .. Len(what.nodes) PROVE OfJob(what.nodes[k].id, ids) /\ OnlyNames(what.nodes[k])
  <2>1. k - 1 \in 1 .. Len(rest) /\ k = 1 + (k - 1)
    BY <1>2, <1>4, <1>6
  <2>2. what.nodes[k] = RegionNode(regions[k - 1])
    BY <1>4, <1>6, <2>1
  <2> QED
    BY <2>2, RegionIsOfJob
<1>9. ASSUME NEW k \in 1 .. Len(what.edges)
      PROVE  OfJob(what.edges[k][1], ids) /\ OfJob(what.edges[k][3], ids)
  <2>1. what.edges[k][1] = ids[1] /\ what.edges[k][3] = <<"region", regions[k]>>
    BY <1>5
  <2> QED
    BY <1>7, <2>1, RegionIsOfJob
<1>10. \A k \in 1 .. Len(what.nodes) : OfJob(what.nodes[k].id, ids)
  <2>1. \A k \in 1 .. Len(what.nodes) : k = 1 \/ k \in 2 .. Len(what.nodes)
    OBVIOUS
  <2> QED
    BY <1>7, <1>8, <2>1
<1>11. Len(what.nodes) \in Nat \ {0} /\ Len(what.edges) \in Nat
  BY <1>2, <1>4, <1>5, <1>6
<1> QED
  BY <1>5, <1>6, <1>7, <1>8, <1>9, <1>10, <1>11 DEF ProjectionIsSound, props

(* What the sources say of an entity has its regions in order, and the     *)
(* videos of a channel where it gave them.                                 *)
LEMMA KnownIsSaid ==
  ASSUME NEW f PROVE /\ DOMAIN Known(f) = {x \in DOMAIN f : f[x] # None}
                     /\ \A x \in DOMAIN Known(f) : Known(f)[x] = f[x]
BY DEF Known, Restrict

LEMMA ChannelSays ==
  ASSUME NEW raw, NEW says, says = ChannelObservations(raw)
  PROVE  /\ "search_top_regions" \notin DOMAIN says
         /\ "video_count" \in DOMAIN says <=> raw.videos # None
         /\ "video_count" \in DOMAIN says => says.video_count = raw.videos
<1> DEFINE f == [subscriber_count |-> raw.subscribers, total_view_count |-> raw.views, video_count |-> raw.videos]
           g == [display_name |-> raw.title]
<1>1. says = Over(g, Known(f))
  BY DEF ChannelObservations
<1>2. /\ DOMAIN f = {"subscriber_count", "total_view_count", "video_count"}
      /\ f["video_count"] = raw.videos /\ DOMAIN g = {"display_name"}
  OBVIOUS
<1> HIDE DEF f, g
<1>3. /\ DOMAIN says = {"display_name"} \cup DOMAIN Known(f)
      /\ "video_count" \in DOMAIN Known(f) => says["video_count"] = Known(f)["video_count"]
  BY <1>1, <1>2 DEF Over
<1>4. /\ DOMAIN Known(f) = {x \in DOMAIN f : f[x] # None}
      /\ \A x \in DOMAIN Known(f) : Known(f)[x] = f[x]
  BY KnownIsSaid
<1> QED
  BY <1>2, <1>3, <1>4

LEMMA TrendsSay ==
  ASSUME NEW raw, IsSeq(raw.regions), NEW says, says = TrendsObservations(raw)
  PROVE  "search_top_regions" \in DOMAIN says => IsSeq(says.search_top_regions)
<1> DEFINE top == SubSeq(raw.regions, 1, Least(5, Len(raw.regions)))
           f == [search_top_regions |-> IF raw.regions = <<>> THEN None ELSE top,
                 search_momentum |-> IF raw.series = <<>> THEN None ELSE Momentum(raw.series),
                 google_kg_mid |-> raw.kgmid]
<1>1. says = Known(f)
  BY DEF TrendsObservations
<1>2. f["search_top_regions"] = IF raw.regions = <<>> THEN None ELSE top
  OBVIOUS
<1>3. IsSeq(top)
  <2>1. Len(raw.regions) \in Nat
    BY DEF IsSeq
  <2>2. Least(5, Len(raw.regions)) \in 0 .. Len(raw.regions)
    BY <2>1 DEF Least
  <2>3. PICK all, n : all = raw.regions /\ n = Least(5, Len(raw.regions))
    OBVIOUS
  <2>4. IsSeq(all) /\ n \in 0 .. Len(all) /\ 1 \in Nat /\ 1 >= 1
    BY <2>2, <2>3
  <2>5. IsSeq(SubSeq(all, 1, n))
    BY <2>4, PartIsSeq
  <2> QED
    BY <2>3, <2>5
<1> HIDE DEF f, top
<1>4. "search_top_regions" \in DOMAIN says => says["search_top_regions"] = f["search_top_regions"] /\ f["search_top_regions"] # None
  BY <1>1, KnownIsSaid
<1> QED
  BY <1>2, <1>3, <1>4

-----------------------------------------------------------------------------
(* What the graph holds of an event or an entity, against what was         *)
(* projected last.                                                         *)
Reviewed(props, raw) ==
  ~props.needs_review =>
     \/ /\ props.method = "heuristic" /\ raw.title \in LabelNames
        /\ PropOr(props, "video_count", 0) >= AggregatorVideos
     \/ props.method = "musicbrainz" /\ ClearlyKnown(props, raw.title)

RowIsFounded(id, props, raws, events) ==
  /\ "needs_review" \in DOMAIN props => "method" \in DOMAIN props /\ id \in DOMAIN raws /\ Reviewed(props, raws[id])
  /\ "verified" \in DOMAIN props => id \in DOMAIN events /\ props["verified"] = events[id].verified

VerdictIsDue(answer, verdict) ==
  answer.kind \in {"channel", "query"} =>
    \E found \in MayKnow[answer.raw.title] \cup {None} :
      verdict = Classify(answer.raw.title, VideosOf(answer), found)

LEMMA SameIsFounded ==
  ASSUME NEW id, NEW old, NEW new, SameButName(new, old), NEW raws, NEW events, RowIsFounded(id, old, raws, events)
  PROVE  RowIsFounded(id, new, raws, events)
<1>1. \A p \in {"needs_review", "method", "video_count", "mbid", "verified"} :
        /\ p \in DOMAIN new <=> p \in DOMAIN old
        /\ p \in DOMAIN old => new[p] = old[p]
  BY DEF SameButName
<1>2. "verified" \in DOMAIN new => id \in DOMAIN events /\ new["verified"] = events[id].verified
  BY <1>1 DEF RowIsFounded
<1>3. ASSUME "needs_review" \in DOMAIN new, "method" \in DOMAIN old, NEW name, ClearlyKnown(old, name)
      PROVE  ClearlyKnown(new, name)
  BY <1>1, <1>3 DEF ClearlyKnown
<1>4. PropOr(new, "video_count", 0) = PropOr(old, "video_count", 0)
  BY <1>1 DEF PropOr
<1>5. ASSUME "needs_review" \in DOMAIN new
      PROVE  "method" \in DOMAIN new /\ id \in DOMAIN raws /\ Reviewed(new, raws[id])
  <2>1. /\ "needs_review" \in DOMAIN old /\ "method" \in DOMAIN old /\ id \in DOMAIN raws /\ Reviewed(old, raws[id])
        /\ new["method"] = old["method"] /\ new["needs_review"] = old["needs_review"]
    BY <1>1, <1>5 DEF RowIsFounded
  <2> QED
    BY <1>1, <1>3, <1>4, <1>5, <2>1 DEF Reviewed
<1> QED
  BY <1>2, <1>5 DEF RowIsFounded

(* A graph whose rows are founded.                                         *)
GraphIsSound(nodes, raws, events) == \A id : RowIsFounded(id, RowOf(nodes, id).props, raws, events)

LEMMA UpsertedRow ==
  ASSUME NEW nodes, NEW n, NEW id
  PROVE  RowOf(UpsertNode(nodes, n), id).props =
           IF id = n.id THEN Over(n.props, RowOf(nodes, id).props) ELSE RowOf(nodes, id).props
<1> DEFINE new == UpsertNode(nodes, n)
<1>1. DOMAIN new = DOMAIN nodes \cup {n.id}
  BY DEF UpsertNode
<1>2. CASE id = n.id
  <2>1. new[id].props = Over(n.props, RowOf(nodes, id).props)
    BY <1>2 DEF UpsertNode
  <2>2. RowOf(new, id) = new[id]
    BY <1>1, <1>2 DEF RowOf
  <2> QED
    BY <1>2, <2>1, <2>2
<1>3. CASE id # n.id
  <2>1. id \in DOMAIN nodes => new[id] = nodes[id]
    BY <1>3 DEF UpsertNode
  <2>2. RowOf(new, id) = RowOf(nodes, id)
    BY <1>1, <1>3, <2>1 DEF RowOf
  <2> QED
    BY <1>3, <2>2
<1> QED
  BY <1>2, <1>3

LEMMA EventSays ==
  ASSUME NEW e, NEW props, props = EventProperties(e)
  PROVE  /\ "verified" \in DOMAIN props /\ props["verified"] = e.verified
         /\ \A p \in {"needs_review", "method", "video_count", "mbid"} : p \notin DOMAIN props
<1> DEFINE f == [display_name |-> e.name, city |-> e.city, source |-> e.source,
                 source_time_precision |-> e.precision, verified |-> e.verified]
           g == [organizer |-> e.curator, starts_at |-> e.start, ends_at |-> e.end, event_date |-> e.date,
                 provider_lifecycle |-> e.lifecycle, source_timezone |-> e.zone, price_min |-> e.price,
                 fill_ratio |-> FillRatio(e), image_url |-> e.image]
<1>1. props = Over(f, Known(g))
  BY DEF EventProperties
<1>2. /\ DOMAIN f = {"display_name", "city", "source", "source_time_precision", "verified"}
      /\ f["verified"] = e.verified
      /\ DOMAIN g = {"organizer", "starts_at", "ends_at", "event_date", "provider_lifecycle", "source_timezone",
                    "price_min", "fill_ratio", "image_url"}
  OBVIOUS
<1> HIDE DEF f, g
<1>3. DOMAIN Known(g) \subseteq DOMAIN g
  BY KnownIsSaid
<1>4. DOMAIN props = DOMAIN f \cup DOMAIN Known(g) /\ \A p \in DOMAIN f : props[p] = f[p]
  BY <1>1 DEF Over
<1> QED
  BY <1>2, <1>3, <1>4

LEMMA EventKeepsGraph ==
  ASSUME NEW nodes, NEW raws, NEW events, GraphIsSound(nodes, raws, events),
         NEW n, NEW e, n.props = EventProperties(e), NEW said, DOMAIN said = {n.id}, said[n.id] = e
  PROVE  GraphIsSound(UpsertNode(nodes, n), raws, Over(said, events))
<1> SUFFICES ASSUME NEW id
             PROVE  RowIsFounded(id, RowOf(UpsertNode(nodes, n), id).props, raws, Over(said, events))
  BY Zenon DEF GraphIsSound
<1> DEFINE old == RowOf(nodes, id).props
           later == Over(said, events)
<1>1. RowIsFounded(id, old, raws, events)
  BY Zenon DEF GraphIsSound
<1>2. /\ DOMAIN later = DOMAIN events \cup {n.id} /\ later[n.id] = e
      /\ \A x \in DOMAIN events : x # n.id => later[x] = events[x]
  BY DEF Over
<1> HIDE DEF later, old
<1>3. CASE id # n.id
  <2>1. RowIsFounded(id, old, raws, later)
    BY <1>1, <1>2, <1>3 DEF RowIsFounded
  <2> QED
    <3>1. RowOf(UpsertNode(nodes, n), id).props = RowOf(nodes, id).props
      BY <1>3, UpsertedRow
    <3> QED
      BY <2>1, <3>1, Zenon DEF later, old
<1>4. CASE id = n.id
  <2> DEFINE new == Over(n.props, old)
  <2>1. /\ \A p \in {"needs_review", "method", "video_count", "mbid"} :
             (p \in DOMAIN new <=> p \in DOMAIN old) /\ (p \in DOMAIN old => new[p] = old[p])
        /\ "verified" \in DOMAIN new /\ new["verified"] = e.verified
    BY EventSays DEF Over
  <2> HIDE DEF new
  <2>2. ASSUME "method" \in DOMAIN old, NEW name, ClearlyKnown(old, name)
        PROVE  ClearlyKnown(new, name)
    BY <2>1, <2>2 DEF ClearlyKnown
  <2>3. PropOr(new, "video_count", 0) = PropOr(old, "video_count", 0)
    BY <2>1 DEF PropOr
  <2>4. ASSUME "needs_review" \in DOMAIN new
        PROVE  "method" \in DOMAIN new /\ id \in DOMAIN raws /\ Reviewed(new, raws[id])
    <3>1. /\ "needs_review" \in DOMAIN old /\ "method" \in DOMAIN old /\ id \in DOMAIN raws /\ Reviewed(old, raws[id])
          /\ new["method"] = old["method"] /\ new["needs_review"] = old["needs_review"]
      BY <1>1, <2>1, <2>4 DEF RowIsFounded
    <3> QED
      BY <2>1, <2>2, <2>3, <3>1 DEF Reviewed
  <2>5. RowIsFounded(id, new, raws, later)
    BY <1>2, <1>4, <2>1, <2>4 DEF RowIsFounded
  <2> QED
    <3>1. RowOf(UpsertNode(nodes, n), id).props = Over(n.props, RowOf(nodes, id).props)
      BY <1>4, UpsertedRow
    <3> QED
      BY <2>5, <3>1, Zenon DEF later, old, new
<1> QED
  BY <1>3, <1>4

(* What a classification that asks for no review rests on.                 *)
LEMMA VerdictIsClear ==
  ASSUME NEW answer \in AllAnswers, answer.kind \in {"channel", "query"}, NEW verdict, VerdictIsDue(answer, verdict),
         ~verdict.review
  PROVE  \/ /\ verdict.method = "heuristic" /\ answer.raw.title \in LabelNames
            /\ answer.kind = "channel" /\ answer.raw.videos # None /\ answer.raw.videos >= AggregatorVideos
         \/ /\ verdict.method = "musicbrainz"
            /\ \E found \in MayKnow[answer.raw.title] :
                 /\ Trusted(found.label) /\ Trusted(found.artist) => ClearWinner(found.label, found.artist)
                 /\ \E match \in {found.label, found.artist} : Trusted(match) /\ verdict.mbid = match.mbid
<1> DEFINE name == answer.raw.title
           videos == VideosOf(answer)
<1>1. PICK found \in MayKnow[name] \cup {None} : verdict = Classify(name, videos, found)
  BY DEF VerdictIsDue
<1>2. videos \in Nat /\ (videos >= 1 => answer.kind = "channel" /\ answer.raw.videos # None /\ videos = answer.raw.videos)
  BY AnswersAreTyped DEF VideosOf
<1> HIDE DEF videos, name
<1>3. ASSUME verdict = ByHeuristics(name, videos)
      PROVE  /\ verdict.method = "heuristic" /\ name \in LabelNames
             /\ answer.kind = "channel" /\ answer.raw.videos # None /\ answer.raw.videos >= AggregatorVideos
  <2>1. name \in LabelNames /\ verdict = Verdict("label", "heuristic", videos < AggregatorVideos, None)
    <3>1. CASE name \notin LabelNames
      <4>1. verdict = Verdict("artist", "default", TRUE, None)
        BY <1>3, <3>1 DEF ByHeuristics
      <4> QED
        BY <4>1 DEF Verdict
    <3> QED
      BY <1>3, <3>1 DEF ByHeuristics
  <2>2. verdict.method = "heuristic" /\ ~(videos < AggregatorVideos)
    BY <2>1 DEF Verdict
  <2>3. videos >= 2000
    BY <1>2, <2>2 DEF AggregatorVideos
  <2> QED
    BY <1>2, <2>1, <2>2, <2>3 DEF AggregatorVideos
<1>4. CASE found = None \/ (~Trusted(found.label) /\ ~Trusted(found.artist))
  <2>1. verdict = ByHeuristics(name, videos)
    BY <1>1, <1>4, Zenon DEF Classify
  <2> QED
    BY <1>3, <2>1 DEF name
<1>5. CASE found # None /\ (Trusted(found.label) \/ Trusted(found.artist))
  <2> DEFINE label == found.label
             artist == found.artist
  <2>1. found \in MayKnow[name]
    BY <1>5
  <2>2. /\ Trusted(label) /\ Trusted(artist) => ClearWinner(label, artist)
        /\ \E match \in {label, artist} : Trusted(match) /\ verdict.mbid = match.mbid /\ verdict.method = "musicbrainz"
    <3>1. CASE Trusted(label) /\ Trusted(artist)
      <4>1. verdict = IF ClearWinner(label, artist)
                      THEN IF label.score > artist.score THEN FromMatch("label", label) ELSE FromMatch("artist", artist)
                      ELSE TieBreak(label, artist, name, videos)
        BY <1>1, <1>5, <3>1, Zenon DEF Classify
      <4>2. CASE ClearWinner(label, artist)
        BY <3>1, <4>1, <4>2 DEF FromMatch, Verdict
      <4>3. CASE ~ClearWinner(label, artist)
        <5>1. verdict = TieBreak(label, artist, name, videos)
          BY <4>1, <4>3
        <5>2. verdict.review = TRUE
          BY <5>1 DEF TieBreak, Verdict
        <5> QED
          BY <5>2
      <4> QED
        BY <4>2, <4>3
    <3>2. CASE Trusted(label) /\ ~Trusted(artist)
      <4>1. verdict = FromMatch("label", label)
        BY <1>1, <1>5, <3>2, Zenon DEF Classify
      <4> QED
        BY <3>2, <4>1 DEF FromMatch, Verdict
    <3>3. CASE Trusted(artist) /\ ~Trusted(label)
      <4>1. verdict = FromMatch("artist", artist)
        BY <1>1, <1>5, <3>3, Zenon DEF Classify
      <4> QED
        BY <3>3, <4>1 DEF FromMatch, Verdict
    <3> QED
      BY <1>5, <3>1, <3>2, <3>3
  <2> QED
    BY <2>1, <2>2 DEF name
<1> QED
  BY <1>4, <1>5

LEMMA EntityKeepsGraph ==
  ASSUME NEW nodes, NEW raws, NEW events, GraphIsSound(nodes, raws, events),
         NEW answer \in AllAnswers, answer.kind \in {"channel", "query"}, NEW verdict, VerdictIsDue(answer, verdict),
         NEW observations,
         answer.kind = "channel" /\ answer.raw.videos # None =>
           "video_count" \in DOMAIN observations /\ observations.video_count = answer.raw.videos,
         NEW n, NEW name,
         n.props = EntityProps(name, verdict, observations),
         NEW said, DOMAIN said = {n.id}, said[n.id] = answer.raw
  PROVE  GraphIsSound(UpsertNode(nodes, n), Over(said, raws), events)
<1> DEFINE later == Over(said, raws)
           f == [display_name |-> name, needs_review |-> verdict.review, method |-> verdict.method]
           g == Restrict(observations, {"subscriber_count", "total_view_count", "video_count",
                                        "search_momentum", "google_kg_mid"} \cap DOMAIN observations)
           m == Known([mbid |-> verdict.mbid])
<1> SUFFICES ASSUME NEW id PROVE RowIsFounded(id, RowOf(UpsertNode(nodes, n), id).props, later, events)
  BY Zenon DEF GraphIsSound
<1>1. RowIsFounded(id, RowOf(nodes, id).props, raws, events)
  BY Zenon DEF GraphIsSound
<1>2. /\ DOMAIN later = DOMAIN raws \cup {n.id} /\ later[n.id] = answer.raw
      /\ \A x \in DOMAIN raws : x # n.id => later[x] = raws[x]
  BY DEF Over
<1>3. /\ DOMAIN f = {"display_name", "needs_review", "method"}
      /\ f["needs_review"] = verdict.review /\ f["method"] = verdict.method
  OBVIOUS
<1>4. /\ \A p \in DOMAIN g : p \in DOMAIN observations /\ g[p] = observations[p]
      /\ DOMAIN g \subseteq {"subscriber_count", "total_view_count", "video_count", "search_momentum", "google_kg_mid"}
      /\ "video_count" \in DOMAIN observations => "video_count" \in DOMAIN g
  BY DEF Restrict
<1>5. DOMAIN m \subseteq {"mbid"} /\ (verdict.mbid # None => "mbid" \in DOMAIN m /\ m["mbid"] = verdict.mbid)
  <2> DEFINE h == [mbid |-> verdict.mbid]
  <2>1. DOMAIN h = {"mbid"} /\ h["mbid"] = verdict.mbid
    OBVIOUS
  <2> HIDE DEF h
  <2> QED
    BY <2>1, KnownIsSaid DEF h
<1>6. n.props = Over(f, Over(g, m))
  BY DEF EntityProps
<1> HIDE DEF later, f, g, m
<1>7. CASE id # n.id
  <2>1. RowIsFounded(id, RowOf(nodes, id).props, later, events)
    BY <1>1, <1>2, <1>7 DEF RowIsFounded
  <2>2. RowOf(UpsertNode(nodes, n), id).props = RowOf(nodes, id).props
    BY <1>7, UpsertedRow
  <2> QED
    BY <2>1, <2>2, Zenon
<1>8. CASE id = n.id
  <2> DEFINE old == RowOf(nodes, id).props
             new == Over(n.props, old)
  <2>1. /\ {"needs_review", "method"} \subseteq DOMAIN new
        /\ new["needs_review"] = verdict.review /\ new["method"] = verdict.method
        /\ "verified" \in DOMAIN new => "verified" \in DOMAIN old /\ new["verified"] = old["verified"]
        /\ verdict.mbid # None => "mbid" \in DOMAIN new /\ new["mbid"] = verdict.mbid
        /\ "video_count" \in DOMAIN observations =>
             "video_count" \in DOMAIN new /\ new["video_count"] = observations["video_count"]
    <3>1. /\ DOMAIN n.props = DOMAIN f \cup DOMAIN g \cup DOMAIN m
          /\ \A p \in DOMAIN f : n.props[p] = f[p]
          /\ \A p \in DOMAIN g : p \notin DOMAIN f => n.props[p] = g[p]
          /\ \A p \in DOMAIN m : p \notin DOMAIN f /\ p \notin DOMAIN g => n.props[p] = m[p]
      BY <1>6 DEF Over
    <3>2. /\ DOMAIN new = DOMAIN n.props \cup DOMAIN old
          /\ \A p \in DOMAIN n.props : new[p] = n.props[p]
          /\ \A p \in DOMAIN old : p \notin DOMAIN n.props => new[p] = old[p]
      BY DEF Over
    <3> HIDE DEF old, new
    <3>3. "verified" \notin DOMAIN n.props
      BY <1>3, <1>4, <1>5, <3>1
    <3>4. verdict.mbid # None => "mbid" \in DOMAIN n.props /\ n.props["mbid"] = verdict.mbid
      BY <1>3, <1>4, <1>5, <3>1
    <3>5. "video_count" \in DOMAIN observations =>
            "video_count" \in DOMAIN n.props /\ n.props["video_count"] = observations["video_count"]
      BY <1>3, <1>4, <1>5, <3>1
    <3>6. {"needs_review", "method"} \subseteq DOMAIN n.props
          /\ n.props["needs_review"] = verdict.review /\ n.props["method"] = verdict.method
      BY <1>3, <3>1
    <3> QED
      BY <3>2, <3>3, <3>4, <3>5, <3>6
  <2>2. RowOf(UpsertNode(nodes, n), id).props = new
    BY <1>8, UpsertedRow
  <2>3. "verified" \in DOMAIN old => id \in DOMAIN events /\ old["verified"] = events[id].verified
    BY <1>1 DEF RowIsFounded
  <2> HIDE DEF old, new
  <2>4. Reviewed(new, answer.raw)
    <3> SUFFICES ASSUME ~new.needs_review
                 PROVE  \/ /\ new.method = "heuristic" /\ answer.raw.title \in LabelNames
                           /\ PropOr(new, "video_count", 0) >= AggregatorVideos
                        \/ new.method = "musicbrainz" /\ ClearlyKnown(new, answer.raw.title)
      BY DEF Reviewed
    <3>1. ~verdict.review
      BY <2>1
    <3>2. CASE /\ verdict.method = "heuristic" /\ answer.raw.title \in LabelNames
               /\ answer.kind = "channel" /\ answer.raw.videos # None /\ answer.raw.videos >= AggregatorVideos
      <4>1. PropOr(new, "video_count", 0) = answer.raw.videos
        BY <2>1, <3>2 DEF PropOr
      <4> QED
        BY <2>1, <3>2, <4>1
    <3>3. CASE /\ verdict.method = "musicbrainz"
               /\ \E found \in MayKnow[answer.raw.title] :
                    /\ Trusted(found.label) /\ Trusted(found.artist) => ClearWinner(found.label, found.artist)
                    /\ \E match \in {found.label, found.artist} : Trusted(match) /\ verdict.mbid = match.mbid
      <4>1. ClearlyKnown(new, answer.raw.title)
        BY <2>1, <3>3 DEF ClearlyKnown
      <4> QED
        BY <2>1, <3>3, <4>1
    <3> QED
      BY <3>1, <3>2, <3>3, VerdictIsClear
  <2>5. RowIsFounded(id, new, later, events)
    BY <1>2, <1>8, <2>1, <2>3, <2>4 DEF RowIsFounded
  <2> QED
    BY <2>2, <2>5, Zenon
<1> QED
  BY <1>7, <1>8

(* Any part of a projection that may be written.                           *)
LEMMA PartIsWritten ==
  ASSUME NEW nodes, NEW what, NEW ids, ProjectionIsSound(what, ids),
         NEW written \in {0, 1, Len(what.nodes), Len(what.nodes) + Len(what.edges)},
         NEW new,
         new = EnsureNodes(UpsertNodes(nodes, SubSeq(what.nodes, 1, Least(written, Len(what.nodes)))),
                           Range(SubSeq(what.edges, 1, written - Len(what.nodes))))
  PROVE  /\ \A id \in DOMAIN new : id \in DOMAIN nodes \/ OfJob(id, ids)
         /\ \A id : SameButName(RowOf(new, id).props,
                               RowOf(IF written = 0 THEN nodes ELSE UpsertNode(nodes, what.nodes[1]), id).props)
<1> DEFINE m == Least(written, Len(what.nodes))
           batch == SubSeq(what.nodes, 1, m)
           edges == Range(SubSeq(what.edges, 1, written - Len(what.nodes)))
           mid == UpsertNodes(nodes, batch)
<1>1. /\ IsSeq(what.nodes) /\ Len(what.nodes) \in Nat \ {0} /\ IsSeq(what.edges) /\ Len(what.edges) \in Nat
      /\ \A k \in 1 .. Len(what.nodes) : OfJob(what.nodes[k].id, ids)
      /\ \A k \in 2 .. Len(what.nodes) : OnlyNames(what.nodes[k])
      /\ \A k \in 1 .. Len(what.edges) : OfJob(what.edges[k][1], ids) /\ OfJob(what.edges[k][3], ids)
  BY DEF ProjectionIsSound
<1>2. written \in Nat /\ m \in 0 .. Len(what.nodes) /\ (m = 0 <=> written = 0)
      /\ written - Len(what.nodes) \in Int /\ written - Len(what.nodes) <= Len(what.edges)
  <2>1. PICK a, b : a = Len(what.nodes) /\ b = Len(what.edges)
    OBVIOUS
  <2>2. a \in Nat \ {0} /\ b \in Nat /\ written \in {0, 1, a, a + b} /\ m = IF written < a THEN written ELSE a
    BY <1>1, <2>1 DEF Least
  <2> HIDE DEF m
  <2>3. written \in Nat /\ m \in 0 .. a /\ (m = 0 <=> written = 0) /\ written - a \in Int /\ written - a <= b
    BY <2>2
  <2> QED
    BY <2>1, <2>3
<1> HIDE DEF m
<1>3. /\ IsSeq(batch) /\ Len(batch) = m /\ (batch = <<>> <=> m = 0)
      /\ \A k \in 1 .. m : batch[k] = what.nodes[k]
  <2>1. /\ IsSeq(batch) /\ Len(batch) = IF 1 <= m THEN m - 1 + 1 ELSE 0
        /\ \A k \in 1 .. Len(batch) : batch[k] = what.nodes[1 + k - 1] /\ 1 + k - 1 \in 1 .. Len(what.nodes)
    BY <1>1, <1>2, PartIsSeq
  <2> HIDE DEF batch
  <2>2. Len(batch) = m
    BY <1>2, <2>1
  <2>3. \A k \in 1 .. m : batch[k] = what.nodes[k]
    BY <1>2, <2>1, <2>2
  <2> QED
    BY <2>1, <2>2, <2>3, <1>2 DEF IsSeq
<1>4. \A e \in edges : OfJob(e[1], ids) /\ OfJob(e[3], ids)
  <2>1. CASE written - Len(what.nodes) >= 1
    <3> DEFINE n == written - Len(what.nodes)
               some == SubSeq(what.edges, 1, n)
    <3>1. n \in 0 .. Len(what.edges)
      <4>1. PICK a, b : a = written - Len(what.nodes) /\ b = Len(what.edges)
        OBVIOUS
      <4>2. a \in Int /\ b \in Nat /\ 1 <= a /\ a <= b
        BY <1>1, <1>2, <2>1, <4>1
      <4>3. a \in 0 .. b
        BY <4>2
      <4> QED
        BY <4>1, <4>3
    <3> HIDE DEF n
    <3>2. IsSeq(some) /\ \A k \in 1 .. Len(some) : some[k] = what.edges[1 + k - 1] /\ 1 + k - 1 \in 1 .. Len(what.edges)
      BY <1>1, <3>1, PartIsSeq
    <3> HIDE DEF some
    <3>3. \A k \in DOMAIN some : \E j \in 1 .. Len(what.edges) : some[k] = what.edges[j]
      BY <3>2 DEF IsSeq
    <3>4. edges = {some[k] : k \in DOMAIN some}
      BY DEF some, n, Range
    <3> QED
      BY <1>1, <3>3, <3>4
  <2>2. CASE written - Len(what.nodes) < 1
    <3>1. SubSeq(what.edges, 1, written - Len(what.nodes)) = <<>>
      BY <1>1, <1>2, <2>2 DEF IsSeq
    <3>2. edges = {}
      BY <3>1, NoneIsSeq DEF Range
    <3> QED
      BY <3>2
  <2> QED
    BY <1>2, <2>1, <2>2
<1> HIDE DEF batch, edges
<1>5. /\ DOMAIN mid = DOMAIN nodes \cup {batch[k].id : k \in 1 .. Len(batch)}
      /\ \A id : SameButName(RowOf(mid, id).props, RowOf(AfterFirst(nodes, batch), id).props)
  <2>1. Len(batch) \in Nat /\ (batch = <<>> <=> Len(batch) = 0)
    BY <1>2, <1>3
  <2>2. \A k \in 2 .. Len(batch) : OnlyNames(batch[k])
    BY <1>1, <1>2, <1>3
  <2> HIDE DEF mid
  <2> QED
    BY <2>1, <2>2, BatchWritten DEF mid
<1>6. AfterFirst(nodes, batch) = IF written = 0 THEN nodes ELSE UpsertNode(nodes, what.nodes[1])
  BY <1>1, <1>2, <1>3 DEF AfterFirst
<1>7. new = EnsureNodes(mid, edges)
  BY DEF edges, batch, m
<1> HIDE DEF mid
<1>8. /\ DOMAIN new = DOMAIN mid \cup UNION {{edge[1], edge[3]} : edge \in edges}
      /\ \A id : RowOf(new, id) = RowOf(mid, id)
  BY <1>7 DEF EnsureNodes, RowOf
<1>9. ASSUME NEW id \in DOMAIN new PROVE id \in DOMAIN nodes \/ OfJob(id, ids)
  <2>1. CASE id \in DOMAIN mid
    BY <1>1, <1>2, <1>3, <1>5, <2>1
  <2>2. CASE id \notin DOMAIN mid
    <3>1. PICK e \in edges : id \in {e[1], e[3]}
      BY <1>8, <2>2
    <3> QED
      BY <1>4, <3>1
  <2> QED
    BY <2>1, <2>2
<1>10. ASSUME NEW id
       PROVE SameButName(RowOf(new, id).props,
                         RowOf(IF written = 0 THEN nodes ELSE UpsertNode(nodes, what.nodes[1]), id).props)
  BY <1>5, <1>6, <1>8, Zenon
<1> QED
  BY <1>9, <1>10

-----------------------------------------------------------------------------
(* The inductive invariant of the ingests.                                 *)

StandsFor(h, id, known) == id = h \/ (h \in DOMAIN known /\ known[h] = id)

(* A request resolves its names in order, the observed handle first; once  *)
(* past the observations its handle was observed, and the first id it has  *)
(* stands for that handle.                                                 *)
JobIsSound(job, seen, known) ==
  /\ job.answer \in AllAnswers
  /\ VerdictIsDue(job.answer, job.verdict)
  /\ job.at \in {"observe", "resolve", "create", "link", "project", "ledger"}
  /\ IsSeq(job.todo) /\ IsSeq(job.ids)
  /\ Len(job.ids) + Len(job.todo) = Len(ToResolve(job.answer, job.verdict))
  /\ job.ids = <<>> => job.todo = ToResolve(job.answer, job.verdict)
  /\ job.ids # <<>> => StandsFor(HandleOf(job.answer), job.ids[1], known)
  /\ job.at \in {"resolve", "create"} => job.todo # <<>>
  /\ job.at \in {"link", "project", "ledger"} => job.todo = <<>> /\ job.ids # <<>>
  /\ job.at = "link" => job.answer.kind # "ticket"
  /\ job.at = "ledger" => job.answer.kind = "ticket"
  /\ job.at # "observe" => HandleOf(job.answer) \in seen

Raced(h, raced) == \E pair \in raced : h \in pair

HasCause(id, known, silent, raced) ==
  Len(id) = 3 => id \in Range(known) \/ id \in silent \/ Raced(id, raced)

IdsHaveCause(job, known, silent, raced) ==
  \A k \in 1 .. Len(job.ids) : HasCause(job.ids[k], known, silent, raced)

JobsInv ==
  /\ ingest = [i \in Ingests |-> ingest[i]]
  /\ \A i \in Ingests : ingest[i].at # "off" =>
       JobIsSound(ingest[i], observed, entityOf) /\ IdsHaveCause(ingest[i], entityOf, unanswered, together)

HeadOf(job) == Head(job.todo).handle

(* What two requests that create at the same time can do to each other:    *)
(* pairs of them are remembered, and whatever takes an alias or an id from *)
(* a request after its lookup is one of them.                              *)
CreationsTold(jobs, known, raced) ==
  \A i \in Ingests : jobs[i].at = "create" =>
    /\ \A j \in Ingests \ {i} : jobs[j].at = "create" => {HeadOf(jobs[i]), HeadOf(jobs[j])} \in raced
    /\ \A g \in DOMAIN known : Len(g) = 3 /\ g # HeadOf(jobs[i]) /\ known[g] = jobs[i].id
         => {HeadOf(jobs[i]), g} \in raced
    /\ HeadOf(jobs[i]) \in DOMAIN known /\ Len(HeadOf(jobs[i])) = 3 => Raced(HeadOf(jobs[i]), raced)
    /\ jobs[i].id \in Range(known) => Raced(HeadOf(jobs[i]), raced)

RegistryInv ==
  /\ IsFiniteSet(DOMAIN entityOf)
  /\ CreationsTold(ingest, entityOf, together)
  /\ SharedOnlyByRace

GraphInv ==
  /\ GraphIsSound(graphNodes, lastClassified, lastProjected)
  /\ \A n \in DOMAIN lookups : lookups[n] \in MayKnow[n]
  /\ \A id \in ledger \cup DOMAIN lastProjected \cup DOMAIN lastClassified :
       \E h \in observed : StandsFor(h, id, entityOf)
  /\ \A id \in DOMAIN graphNodes \cup ledger : HasCause(id, entityOf, unanswered, together)

IngestInv == JobsInv /\ RegistryInv /\ GraphInv

(* Nothing is ever forgotten: not an alias, an observation or a cause.     *)
Extends(later, known) == \A h \in DOMAIN known : h \in DOMAIN later /\ later[h] = known[h]

IngestGrows ==
  /\ Extends(entityOf', entityOf)
  /\ observed \subseteq observed'
  /\ unanswered \subseteq unanswered' /\ together \subseteq together'

LEMMA StandsForStill ==
  ASSUME NEW h, NEW id, NEW known, NEW later, StandsFor(h, id, known), Extends(later, known)
  PROVE  StandsFor(h, id, later)
BY DEF StandsFor, Extends

LEMMA CauseStays ==
  ASSUME NEW id, NEW known, NEW later, NEW silent, NEW silent2, NEW raced, NEW raced2, HasCause(id, known, silent, raced),
         Extends(later, known), silent \subseteq silent2, raced \subseteq raced2
  PROVE  HasCause(id, later, silent2, raced2)
<1>1. Range(known) \subseteq Range(later)
  BY DEF Range, Extends
<1> QED
  BY <1>1 DEF HasCause, Raced

LEMMA JobStays ==
  ASSUME NEW job, NEW seen, NEW known, JobIsSound(job, seen, known), NEW seen2, NEW later, seen \subseteq seen2,
         Extends(later, known)
  PROVE  JobIsSound(job, seen2, later)
<1>1. job.ids # <<>> => StandsFor(HandleOf(job.answer), job.ids[1], later)
  BY StandsForStill DEF JobIsSound
<1>2. job.at # "observe" => HandleOf(job.answer) \in seen2
  BY DEF JobIsSound
<1> QED
  BY <1>1, <1>2 DEF JobIsSound

(* The name that is resolved first is that of the handle.                  *)
LEMMA FirstIsTheHandle ==
  ASSUME NEW job, NEW seen, NEW known, JobIsSound(job, seen, known), job.at \in {"resolve", "create"}
  PROVE  /\ job.todo # <<>> /\ IsSeq(job.todo) /\ IsSeq(job.ids)
         /\ job.ids = <<>> => HeadOf(job) = HandleOf(job.answer)
         /\ job.answer.kind # "spotify"
<1> DEFINE want == ToResolve(job.answer, job.verdict)
<1>1. job.todo # <<>> /\ IsSeq(job.todo) /\ IsSeq(job.ids) /\ job.answer \in AllAnswers
      /\ Len(job.ids) + Len(job.todo) = Len(want) /\ (job.ids = <<>> => job.todo = want)
  BY DEF JobIsSound
<1>2. /\ IsSeq(want) /\ (job.answer.kind = "spotify" <=> want = <<>>)
      /\ job.answer.kind # "spotify" => Len(want) >= 1 /\ want[1].handle = HandleOf(job.answer)
  BY <1>1, ResolvedInOrder
<1> HIDE DEF want
<1>3. Len(job.todo) \in Nat \ {0} /\ Len(job.ids) \in Nat
  BY <1>1 DEF IsSeq
<1>4. want # <<>>
  <2>1. PICK a, b, c : a = Len(job.ids) /\ b = Len(job.todo) /\ c = Len(want)
    OBVIOUS
  <2>2. c # 0
    <3>1. a \in Nat /\ b \in Nat \ {0} /\ a + b = c
      BY <1>1, <1>3, <2>1
    <3> QED
      BY <3>1
  <2> QED
    BY <1>2, <2>1, <2>2, EmptyHasNoLength
<1>5. job.ids = <<>> => HeadOf(job) = want[1].handle
  BY <1>1 DEF HeadOf
<1> QED
  BY <1>1, <1>2, <1>4, <1>5

LEMMA JobResolved ==
  ASSUME NEW job, NEW seen, NEW known, JobIsSound(job, seen, known), job.at \in {"resolve", "create"},
         NEW id, NEW later, Extends(later, known), StandsFor(HeadOf(job), id, later)
  PROVE  /\ JobIsSound(Resolved(job, id), seen, later)
         /\ Resolved(job, id).at \in {"resolve", "project", "link"}
         /\ \A k \in 1 .. Len(Resolved(job, id).ids) :
              Resolved(job, id).ids[k] = id \/ \E j \in 1 .. Len(job.ids) : Resolved(job, id).ids[k] = job.ids[j]
<1> DEFINE next == Resolved(job, id)
<1>1. /\ job.todo # <<>> /\ IsSeq(job.todo) /\ IsSeq(job.ids)
      /\ job.ids = <<>> => HeadOf(job) = HandleOf(job.answer)
      /\ job.answer.kind # "spotify"
  BY FirstIsTheHandle
<1>2. /\ job.answer \in AllAnswers /\ VerdictIsDue(job.answer, job.verdict)
      /\ Len(job.ids) + Len(job.todo) = Len(ToResolve(job.answer, job.verdict))
      /\ job.ids # <<>> => StandsFor(HandleOf(job.answer), job.ids[1], known)
      /\ HandleOf(job.answer) \in seen
  BY DEF JobIsSound
<1>3. /\ next.at = IF Len(job.todo) > 1 THEN "resolve" ELSE IF job.answer.kind = "ticket" THEN "project" ELSE "link"
      /\ next.answer = job.answer /\ next.verdict = job.verdict
      /\ next.todo = Tail(job.todo) /\ next.ids = Append(job.ids, id)
  BY DEF Resolved, Job
<1>4. IsSeq(next.todo) /\ Len(job.todo) \in Nat \ {0} /\ Len(next.todo) = Len(job.todo) - 1
  BY <1>1, <1>3, TailIsSeq
<1>5. /\ IsSeq(next.ids) /\ Len(job.ids) \in Nat /\ Len(next.ids) = Len(job.ids) + 1
      /\ next.ids[Len(job.ids) + 1] = id /\ \A k \in 1 .. Len(job.ids) : next.ids[k] = job.ids[k]
  BY <1>1, <1>3, AppendIsSeq
<1> HIDE DEF next
<1>6. next.ids # <<>> /\ StandsFor(HandleOf(job.answer), next.ids[1], later)
  <2>1. next.ids # <<>>
    BY <1>5, NoneIsSeq
  <2>2. CASE job.ids = <<>>
    <3>1. next.ids[1] = id
      BY <1>5, <2>2, NoneIsSeq
    <3> QED
      BY <1>1, <2>1, <2>2, <3>1
  <2>3. CASE job.ids # <<>>
    <3>1. 1 \in 1 .. Len(job.ids)
      BY <1>1, <2>3 DEF IsSeq
    <3> QED
      BY <1>2, <1>5, <2>1, <2>3, <3>1, StandsForStill
  <2> QED
    BY <2>2, <2>3
<1>7. next.at \in {"resolve", "project", "link"} /\ (next.at = "link" => job.answer.kind # "ticket")
      /\ (next.at = "resolve" <=> next.todo # <<>>)
  <2>1. next.todo # <<>> <=> Len(next.todo) # 0
    BY <1>4, EmptyHasNoLength
  <2>2. PICK a, b : a = Len(job.todo) /\ b = Len(next.todo)
    OBVIOUS
  <2>3. a \in Nat \ {0} /\ b = a - 1 /\ next.at = IF a > 1 THEN "resolve" ELSE
          IF job.answer.kind = "ticket" THEN "project" ELSE "link"
    BY <1>3, <1>4, <2>2
  <2>4. next.todo # <<>> <=> b # 0
    BY <2>1, <2>2
  <2> QED
    BY <2>3, <2>4
<1>8. Len(next.ids) + Len(next.todo) = Len(ToResolve(next.answer, next.verdict))
  <2>1. PICK a, b, c, d, e : /\ a = Len(job.todo) /\ b = Len(job.ids) /\ c = Len(next.todo) /\ d = Len(next.ids)
                             /\ e = Len(ToResolve(job.answer, job.verdict))
    OBVIOUS
  <2>2. a \in Nat /\ b \in Nat /\ c = a - 1 /\ d = b + 1 /\ b + a = e
    BY <1>2, <1>4, <1>5, <2>1
  <2>3. d + c = e
    BY <2>2
  <2> QED
    BY <1>3, <2>1, <2>3
<1>9. JobIsSound(next, seen, later)
  BY <1>2, <1>3, <1>4, <1>5, <1>6, <1>7, <1>8 DEF JobIsSound
<1>10. ASSUME NEW k \in 1 .. Len(next.ids)
       PROVE  next.ids[k] = id \/ \E j \in 1 .. Len(job.ids) : next.ids[k] = job.ids[j]
  <2>1. k = Len(job.ids) + 1 \/ k \in 1 .. Len(job.ids)
    BY <1>5
  <2> QED
    BY <1>5, <2>1
<1> QED
  BY <1>7, <1>9, <1>10 DEF next

-----------------------------------------------------------------------------
(* The registry: what two requests that create at once do to each other.   *)

LEMMA ImageIsFinite ==
  ASSUME NEW f, IsFiniteSet(DOMAIN f) PROVE IsFiniteSet(Range(f))
<1> DEFINE S == DOMAIN f
           g == [x \in S |-> f[x]]
<1>1. g \in [S -> Range(f)] /\ \A y \in Range(f) : \E x \in S : g[x] = y
  BY DEF Range
<1>2. g \in Surjection(S, Range(f))
  BY <1>1 DEF Surjection
<1> QED
  BY <1>2, FS_Surjection

(* An id is always free: there are more suffixes than ids.                 *)
LEMMA SuffixIsFree ==
  ASSUME NEW type, NEW name, NEW taken, IsFiniteSet(taken)
  PROVE  \E n \in 1 .. Cardinality(taken) + 1 : <<type, name, n>> \notin taken
<1> SUFFICES ASSUME \A n \in 1 .. Cardinality(taken) + 1 : <<type, name, n>> \in taken PROVE FALSE
  OBVIOUS
<1>1. Cardinality(taken) \in Nat
  BY FS_CardinalityType
<1> DEFINE c == Cardinality(taken)
           S == 1 .. c + 1
           f == [n \in S |-> <<type, name, n>>]
<1>2. f \in Injection(S, taken)
  <2>1. f \in [S -> taken]
    OBVIOUS
  <2>2. \A m, n \in S : f[m] = f[n] => m = n
    OBVIOUS
  <2> QED
    <3> HIDE DEF f, S
    <3> QED
      BY <2>1, <2>2 DEF Injection, IsInjective
<1>3. Cardinality(S) = c + 1
  <2>1. c + 1 \in Int /\ c + 1 - 1 + 1 = c + 1 /\ ~(1 > c + 1)
    BY <1>1
  <2> HIDE DEF c
  <2>2. Cardinality(1 .. c + 1) = c + 1 - 1 + 1
    BY <1>1, <2>1, FS_Interval
  <2> QED
    BY <2>1, <2>2
<1>4. Cardinality(S) <= Cardinality(taken)
  BY <1>2, FS_Injection
<1> QED
  BY <1>1, <1>3, <1>4

LEMMA FreeIdIsFree ==
  ASSUME NEW w, NEW inFlight, IsFiniteSet(inFlight), IsFiniteSet(DOMAIN entityOf)
  PROVE  FreeId(w, inFlight) \notin Entities
<1> DEFINE taken == Entities \cup inFlight
           T == {n \in 1 .. Cardinality(taken) + 1 : <<w.type, w.name, n>> \notin taken}
<1>1. IsFiniteSet(taken)
  <2>1. IsFiniteSet(Entities)
    BY ImageIsFinite DEF Entities
  <2> QED
    BY <2>1, FS_Union
<1>2. FreeId(w, inFlight) = IF Base(w) \notin Entities THEN Base(w) ELSE <<w.type, w.name, Min(T)>>
  BY Zenon DEF FreeId
<1>3. T \subseteq Nat /\ T # {}
  <2>1. PICK n \in 1 .. Cardinality(taken) + 1 : <<w.type, w.name, n>> \notin taken
    BY <1>1, SuffixIsFree
  <2>2. n \in T
    BY <2>1
  <2>3. Cardinality(taken) \in Nat
    BY <1>1, FS_CardinalityType
  <2>4. PICK c : c = Cardinality(taken)
    OBVIOUS
  <2>5. 1 .. c + 1 \subseteq Nat
    BY <2>3, <2>4
  <2>6. T \subseteq 1 .. c + 1
    BY <2>4
  <2> QED
    BY <2>2, <2>5, <2>6
<1>4. Min(T) \in T
  <2> HIDE DEF T
  <2> QED
    BY <1>3, MinIsLeast
<1>5. <<w.type, w.name, Min(T)>> \notin Entities
  BY <1>4
<1> QED
  BY <1>2, <1>5

(* A request takes the alias that it was about to create.                  *)
AliasTaken(i, h, jobs, known, next, later) ==
  /\ i \in Ingests /\ jobs[i].at = "create" /\ h = HeadOf(jobs[i])
  /\ DOMAIN later = DOMAIN known \cup {h} /\ later[h] = jobs[i].id
  /\ \A g \in DOMAIN known : g # h => later[g] = known[g]
  /\ h \in DOMAIN known => known[h] = jobs[i].id
  /\ \A j \in Ingests : next[j].at = "create" => j # i /\ next[j] = jobs[j]

LEMMA AliasIsTold ==
  ASSUME NEW i, NEW h, NEW jobs, NEW known, NEW next, NEW later, AliasTaken(i, h, jobs, known, next, later),
         NEW raced, CreationsTold(jobs, known, raced)
  PROVE  Extends(later, known) /\ CreationsTold(next, later, raced)
<1>0. /\ i \in Ingests /\ jobs[i].at = "create" /\ h = HeadOf(jobs[i])
      /\ h \in DOMAIN known => known[h] = jobs[i].id
      /\ \A j \in Ingests : next[j].at = "create" => j # i /\ next[j] = jobs[j]
  BY DEF AliasTaken
<1>1. /\ DOMAIN later = DOMAIN known \cup {h} /\ later[h] = jobs[i].id
      /\ \A g \in DOMAIN known : g # h => later[g] = known[g]
  BY DEF AliasTaken
<1>2. Extends(later, known)
  BY <1>0, <1>1 DEF Extends
<1>3. \A e \in Range(later) : e \in Range(known) \/ e = jobs[i].id
  BY <1>1 DEF Range
<1>4. ASSUME NEW j \in Ingests, next[j].at = "create"
      PROVE  /\ \A k \in Ingests \ {j} : next[k].at = "create" => {HeadOf(next[j]), HeadOf(next[k])} \in raced
             /\ \A g \in DOMAIN later : Len(g) = 3 /\ g # HeadOf(next[j]) /\ later[g] = next[j].id
                  => {HeadOf(next[j]), g} \in raced
             /\ HeadOf(next[j]) \in DOMAIN later /\ Len(HeadOf(next[j])) = 3 => Raced(HeadOf(next[j]), raced)
             /\ next[j].id \in Range(later) => Raced(HeadOf(next[j]), raced)
  <2> DEFINE b == HeadOf(jobs[j])
  <2>1. j # i /\ next[j] = jobs[j] /\ jobs[j].at = "create"
    BY <1>0, <1>4
  <2>2. {b, h} \in raced
    BY <1>0, <2>1 DEF CreationsTold
  <2>3. Raced(b, raced)
    BY <2>2 DEF Raced
  <2>4. \A k \in Ingests \ {j} : next[k].at = "create" => {HeadOf(next[j]), HeadOf(next[k])} \in raced
    BY <1>0, <2>1 DEF CreationsTold
  <2>5. ASSUME NEW g \in DOMAIN later, Len(g) = 3, g # b, later[g] = jobs[j].id
        PROVE  {b, g} \in raced
    <3>1. CASE g = h
      BY <2>2, <3>1
    <3>2. CASE g # h
      <4>1. g \in DOMAIN known /\ known[g] = jobs[j].id
        BY <1>1, <2>5, <3>2
      <4> QED
        BY <2>1, <2>5, <4>1 DEF CreationsTold
    <3> QED
      BY <3>1, <3>2
  <2> QED
    BY <2>1, <2>3, <2>4, <2>5
<1>5. CreationsTold(next, later, raced)
  BY <1>4 DEF CreationsTold
<1> QED
  BY <1>1, <1>2, <1>5

-----------------------------------------------------------------------------
(* The registry, step by step.                                             *)

LEMMA BecomesOne ==
  ASSUME JobsInv, NEW i \in Ingests, NEW next, Becomes(i, next)
  PROVE  /\ ingest' = [j \in Ingests |-> ingest'[j]]
         /\ ingest'[i] = next /\ \A j \in Ingests \ {i} : ingest'[j] = ingest[j]
BY DEF JobsInv, Becomes

(* Nothing is registered; a request that was creating may be done.         *)
LEMMA RegistryStays ==
  ASSUME RegistryInv, UNCHANGED <<entityOf, together>>,
         \A j \in Ingests : ingest'[j].at = "create" => ingest'[j] = ingest[j]
  PROVE  RegistryInv'
<1>1. CreationsTold(ingest', entityOf, together)
  BY DEF RegistryInv, CreationsTold
<1> QED
  BY <1>1 DEF RegistryInv, SharedOnlyByRace

(* A request takes the alias it looked up.                                 *)
LEMMA RegistryGainsAlias ==
  ASSUME RegistryInv, NEW i \in Ingests, ingest[i].at = "create", NEW h, h = HeadOf(ingest[i]),
         h \in DOMAIN entityOf => entityOf[h] = ingest[i].id,
         entityOf' = Over([a \in {h} |-> ingest[i].id], entityOf), together' = together,
         \A j \in Ingests : ingest'[j].at = "create" => j # i /\ ingest'[j] = ingest[j]
  PROVE  /\ RegistryInv' /\ Extends(entityOf', entityOf)
         /\ h \in DOMAIN entityOf' /\ entityOf'[h] = ingest[i].id
<1>1. CreationsTold(ingest, entityOf, together) /\ IsFiniteSet(DOMAIN entityOf) /\ SharedOnlyByRace
  BY DEF RegistryInv
<1>2. PICK later, next : later = entityOf' /\ next = ingest'
  OBVIOUS
<1>3. /\ Extends(later, entityOf) /\ h \in DOMAIN later /\ later[h] = ingest[i].id
      /\ DOMAIN later = DOMAIN entityOf \cup {h}
      /\ CreationsTold(next, later, together)
      /\ \A g \in DOMAIN later : g # h => g \in DOMAIN entityOf /\ later[g] = entityOf[g]
  <2>1. /\ DOMAIN later = DOMAIN entityOf \cup {h} /\ later[h] = ingest[i].id
        /\ \A g \in DOMAIN entityOf : g # h => later[g] = entityOf[g]
    BY <1>2 DEF Over
  <2>2. AliasTaken(i, h, ingest, entityOf, next, later)
    BY <1>2, <2>1 DEF AliasTaken
  <2> QED
    BY <1>1, <2>1, <2>2, AliasIsTold
<1>4. IsFiniteSet(DOMAIN later)
  BY <1>1, <1>3, FS_AddElement
<1>5. ASSUME NEW a \in DOMAIN later, NEW b \in DOMAIN later, Len(a) = 3, Len(b) = 3, a # b, later[a] = later[b]
      PROVE  {a, b} \in together
  <2>1. \A g \in DOMAIN entityOf : Len(g) = 3 /\ g # h /\ entityOf[g] = ingest[i].id => {h, g} \in together
    BY <1>1 DEF CreationsTold
  <2>2. CASE a = h
    BY <1>3, <1>5, <2>1, <2>2
  <2>3. CASE b = h
    <3>1. {h, a} \in together /\ {h, a} = {a, b}
      BY <1>3, <1>5, <2>1, <2>3
    <3> QED
      BY <3>1
  <2>4. CASE a # h /\ b # h
    BY <1>1, <1>3, <1>5, <2>4 DEF SharedOnlyByRace
  <2> QED
    BY <2>2, <2>3, <2>4
<1>6. RegistryInv'
  BY <1>2, <1>3, <1>4, <1>5 DEF RegistryInv, SharedOnlyByRace
<1> QED
  BY <1>2, <1>3, <1>6

(* Identifiers of catalogues become aliases of an entity there is.         *)
LEMMA ExternalsAreFew ==
  ASSUME NEW job
  PROVE  IsFiniteSet(External(job)) /\ \A a \in External(job) : Len(a) = 2
<1> DEFINE both == {<<"mbid", job.verdict.mbid>>, <<"kgmid", job.answer.raw.kgmid>>}
<1>1. External(job) \subseteq both
  BY DEF External
<1>2. \A x, y : Len(<<x, y>>) = 2
  OBVIOUS
<1>3. IsFiniteSet(both)
  <2>1. IsFiniteSet({<<"mbid", job.verdict.mbid>>})
    BY FS_Singleton
  <2>2. IsFiniteSet({<<"mbid", job.verdict.mbid>>} \cup {<<"kgmid", job.answer.raw.kgmid>>})
    BY <2>1, FS_AddElement
  <2>3. both = {<<"mbid", job.verdict.mbid>>} \cup {<<"kgmid", job.answer.raw.kgmid>>}
    OBVIOUS
  <2> QED
    BY <2>2, <2>3
<1>4. \A a \in both : Len(a) = 2
  BY <1>2
<1> HIDE DEF both
<1> QED
  BY <1>1, <1>3, <1>4, FS_Subset

LEMMA RegistryLinks ==
  ASSUME RegistryInv, NEW job, NEW id \in Entities,
         \A a \in External(job) \cap DOMAIN entityOf : entityOf[a] = id,
         entityOf' = Over([a \in External(job) |-> id], entityOf), together' = together,
         \A j \in Ingests : ingest'[j].at = "create" => ingest'[j] = ingest[j]
  PROVE  RegistryInv' /\ Extends(entityOf', entityOf)
<1>1. CreationsTold(ingest, entityOf, together) /\ IsFiniteSet(DOMAIN entityOf) /\ SharedOnlyByRace
  BY DEF RegistryInv
<1>2. PICK later, next, new : later = entityOf' /\ next = ingest' /\ new = External(job)
  OBVIOUS
<1>3. IsFiniteSet(new) /\ \A a \in new : Len(a) = 2
  BY <1>2, ExternalsAreFew
<1>4. /\ DOMAIN later = new \cup DOMAIN entityOf
      /\ \A a \in new : later[a] = id
      /\ \A a \in DOMAIN entityOf : later[a] = entityOf[a]
  BY <1>2 DEF Over
<1>5. Extends(later, entityOf)
  BY <1>4 DEF Extends
<1>6. Range(later) = Range(entityOf)
  BY <1>4 DEF Range, Entities
<1>7. \A g \in DOMAIN later : Len(g) = 3 => g \in DOMAIN entityOf /\ later[g] = entityOf[g]
  BY <1>3, <1>4
<1>8. IsFiniteSet(DOMAIN later)
  BY <1>1, <1>3, <1>4, FS_Union
<1>9. CreationsTold(next, later, together)
  <2> SUFFICES ASSUME NEW j \in Ingests, next[j].at = "create"
      PROVE  /\ \A k \in Ingests \ {j} : next[k].at = "create" => {HeadOf(next[j]), HeadOf(next[k])} \in together
             /\ \A g \in DOMAIN later : Len(g) = 3 /\ g # HeadOf(next[j]) /\ later[g] = next[j].id
                  => {HeadOf(next[j]), g} \in together
             /\ HeadOf(next[j]) \in DOMAIN later /\ Len(HeadOf(next[j])) = 3 => Raced(HeadOf(next[j]), together)
             /\ next[j].id \in Range(later) => Raced(HeadOf(next[j]), together)
    BY DEF CreationsTold
  <2>1. \A k \in Ingests : next[k].at = "create" => next[k] = ingest[k]
    BY <1>2
  <2> QED
    BY <1>1, <1>6, <1>7, <2>1 DEF CreationsTold
<1>10. SharedOnlyByRace'
  BY <1>1, <1>2, <1>7 DEF SharedOnlyByRace
<1>11. RegistryInv'
  BY <1>2, <1>8, <1>9, <1>10 DEF RegistryInv
<1> QED
  BY <1>2, <1>5, <1>11

(* A name that is not known gets an id that nothing has.                   *)
LEMMA RegistryLookUp ==
  ASSUME IngestAssumption, JobsInv, RegistryInv, NEW i \in Ingests, ingest[i].at = "resolve", NEW w, w = Head(ingest[i].todo),
         w.handle \notin DOMAIN entityOf, entityOf' = entityOf,
         NEW next, Becomes(i, next), next.at = "create", HeadOf(next) = w.handle,
         next.id = FreeId(w, {ingest[j].id : j \in InCreation(i)}),
         together' = together \cup {{w.handle, Head(ingest[j].todo).handle} : j \in InCreation(i)}
  PROVE  RegistryInv'
<1> DEFINE h == w.handle
           busy == {ingest[j].id : j \in InCreation(i)}
<1>1. CreationsTold(ingest, entityOf, together) /\ IsFiniteSet(DOMAIN entityOf) /\ SharedOnlyByRace
  BY DEF RegistryInv
<1>2. IsFiniteSet(busy)
  <2> DEFINE f == [j \in InCreation(i) |-> ingest[j].id]
  <2>1. IsFiniteSet(InCreation(i))
    BY FS_Subset DEF IngestAssumption, InCreation
  <2>2. DOMAIN f = InCreation(i) /\ Range(f) = busy
    BY DEF Range
  <2> HIDE DEF f, busy
  <2> QED
    BY <2>1, <2>2, ImageIsFinite
<1>3. next.id \notin Entities
  BY <1>1, <1>2, FreeIdIsFree
<1> HIDE DEF busy
<1>4. PICK jobs, raced : jobs = ingest' /\ raced = together'
  OBVIOUS
<1>5. jobs[i] = next /\ \A j \in Ingests \ {i} : jobs[j] = ingest[j]
  BY <1>4, BecomesOne
<1>6. together \subseteq raced /\ \A j \in Ingests \ {i} : jobs[j].at = "create" => {h, HeadOf(jobs[j])} \in raced
  BY <1>4, <1>5 DEF InCreation, HeadOf
<1>7. CreationsTold(jobs, entityOf, raced)
  <2> SUFFICES ASSUME NEW j \in Ingests, jobs[j].at = "create"
      PROVE  /\ \A k \in Ingests \ {j} : jobs[k].at = "create" => {HeadOf(jobs[j]), HeadOf(jobs[k])} \in raced
             /\ \A g \in DOMAIN entityOf : Len(g) = 3 /\ g # HeadOf(jobs[j]) /\ entityOf[g] = jobs[j].id
                  => {HeadOf(jobs[j]), g} \in raced
             /\ HeadOf(jobs[j]) \in DOMAIN entityOf /\ Len(HeadOf(jobs[j])) = 3 => Raced(HeadOf(jobs[j]), raced)
             /\ jobs[j].id \in Range(entityOf) => Raced(HeadOf(jobs[j]), raced)
    BY DEF CreationsTold
  <2>1. CASE j = i
    <3>1. \A g \in DOMAIN entityOf : entityOf[g] # next.id
      BY <1>3 DEF Entities, Range
    <3> QED
      BY <1>3, <1>5, <1>6, <2>1, <3>1 DEF Entities
  <2>2. CASE j # i
    <3>1. jobs[j] = ingest[j] /\ ingest[j].at = "create"
      BY <1>5, <2>2
    <3>2. ASSUME NEW k \in Ingests \ {j}, jobs[k].at = "create"
          PROVE  {HeadOf(jobs[j]), HeadOf(jobs[k])} \in raced
      <4>1. CASE k = i
        <5>1. {h, HeadOf(jobs[j])} = {HeadOf(jobs[j]), HeadOf(jobs[k])}
          BY <1>5, <4>1
        <5> QED
          BY <1>6, <2>2, <5>1
      <4>2. CASE k # i
        BY <1>1, <1>5, <1>6, <3>1, <3>2, <4>2 DEF CreationsTold
      <4> QED
        BY <4>1, <4>2
    <3>3. \A x : Raced(x, together) => Raced(x, raced)
      BY <1>6 DEF Raced
    <3> QED
      BY <1>1, <1>6, <3>1, <3>2, <3>3 DEF CreationsTold
  <2> QED
    BY <2>1, <2>2
<1>8. SharedOnlyByRace'
  BY <1>1, <1>4, <1>6 DEF SharedOnlyByRace
<1> QED
  BY <1>1, <1>4, <1>7, <1>8 DEF RegistryInv

-----------------------------------------------------------------------------
(* The requests, and what the graph and the ledger hold, step by step.     *)

JobIsKept(job) == JobIsSound(job, observed, entityOf) /\ IdsHaveCause(job, entityOf, unanswered, together)

LEMMA JobKept ==
  ASSUME NEW job, JobIsKept(job), IngestGrows
  PROVE  JobIsSound(job, observed', entityOf') /\ IdsHaveCause(job, entityOf', unanswered', together')
<1>1. JobIsSound(job, observed', entityOf')
  BY JobStays DEF JobIsKept, IngestGrows
<1>2. ASSUME NEW k \in 1 .. Len(job.ids) PROVE HasCause(job.ids[k], entityOf', unanswered', together')
  BY CauseStays DEF JobIsKept, IdsHaveCause, IngestGrows
<1> QED
  BY <1>1, <1>2 DEF IdsHaveCause

LEMMA JobsKept ==
  ASSUME JobsInv, IngestGrows, NEW i \in Ingests, NEW next, Becomes(i, next),
         next.at # "off" => /\ JobIsSound(next, observed', entityOf')
                            /\ IdsHaveCause(next, entityOf', unanswered', together')
  PROVE  JobsInv'
<1>1. /\ ingest' = [j \in Ingests |-> ingest'[j]]
      /\ ingest'[i] = next /\ \A j \in Ingests \ {i} : ingest'[j] = ingest[j]
  BY BecomesOne
<1>2. ASSUME NEW j \in Ingests, ingest'[j].at # "off"
      PROVE  /\ JobIsSound(ingest'[j], observed', entityOf')
             /\ IdsHaveCause(ingest'[j], entityOf', unanswered', together')
  <2>1. CASE j = i
    BY <1>1, <1>2, <2>1
  <2>2. CASE j # i
    <3>1. ingest'[j] = ingest[j]
      BY <1>1, <2>2
    <3>2. JobIsKept(ingest[j])
      BY <1>2, <3>1 DEF JobsInv, JobIsKept
    <3> QED
      BY <3>1, <3>2, JobKept
  <2> QED
    BY <2>1, <2>2
<1> QED
  BY <1>1, <1>2 DEF JobsInv

LEMMA GraphKept ==
  ASSUME GraphInv, IngestGrows,
         GraphIsSound(graphNodes', lastClassified', lastProjected'),
         \A n \in DOMAIN lookups' : lookups'[n] \in MayKnow[n],
         \A id \in ledger' \cup DOMAIN lastProjected' \cup DOMAIN lastClassified' :
           \/ id \in ledger \cup DOMAIN lastProjected \cup DOMAIN lastClassified
           \/ \E h \in observed' : StandsFor(h, id, entityOf'),
         \A id \in DOMAIN graphNodes' \cup ledger' :
           id \in DOMAIN graphNodes \cup ledger \/ HasCause(id, entityOf', unanswered', together')
  PROVE  GraphInv'
<1>1. ASSUME NEW id \in ledger' \cup DOMAIN lastProjected' \cup DOMAIN lastClassified'
      PROVE  \E h \in observed' : StandsFor(h, id, entityOf')
  <2>1. CASE id \in ledger \cup DOMAIN lastProjected \cup DOMAIN lastClassified
    <3>1. PICK h \in observed : StandsFor(h, id, entityOf)
      BY <2>1 DEF GraphInv
    <3>2. h \in observed' /\ StandsFor(h, id, entityOf')
      BY <3>1, StandsForStill DEF IngestGrows
    <3> QED
      BY <3>2
  <2> QED
    BY <2>1
<1>2. ASSUME NEW id \in DOMAIN graphNodes' \cup ledger'
      PROVE  HasCause(id, entityOf', unanswered', together')
  <2>1. CASE id \in DOMAIN graphNodes \cup ledger
    <3>1. HasCause(id, entityOf, unanswered, together)
      BY <2>1 DEF GraphInv
    <3> QED
      BY <3>1, CauseStays DEF IngestGrows
  <2> QED
    BY <2>1
<1> QED
  BY <1>1, <1>2 DEF GraphInv

(* What resolution does leaves the graph alone.                            *)
LEMMA GraphUntouched ==
  ASSUME GraphInv, IngestGrows, UNCHANGED <<graphNodes, lastProjected, lastClassified, lookups, ledger>>
  PROVE  GraphInv'
<1>1. /\ GraphIsSound(graphNodes', lastClassified', lastProjected')
      /\ \A n \in DOMAIN lookups' : lookups'[n] \in MayKnow[n]
  BY DEF GraphInv
<1> QED
  BY <1>1, GraphKept

LEMMA JobAt ==
  ASSUME JobsInv, NEW i \in Ingests, ingest[i].at # "off"
  PROVE  /\ JobIsSound(ingest[i], observed, entityOf)
         /\ IdsHaveCause(ingest[i], entityOf, unanswered, together)
BY DEF JobsInv

(* A name is resolved, to an id that stands for its handle.                *)
LEMMA ResolvedKept ==
  ASSUME JobsInv, IngestGrows, NEW i \in Ingests, ingest[i].at \in {"resolve", "create"}, observed' = observed,
         NEW id, Becomes(i, Resolved(ingest[i], id)), StandsFor(HeadOf(ingest[i]), id, entityOf'),
         HasCause(id, entityOf', unanswered', together')
  PROVE  /\ JobsInv'
         /\ \A j \in Ingests : ingest'[j].at = "create" => j # i /\ ingest'[j] = ingest[j]
<1> DEFINE job == ingest[i]
           next == Resolved(job, id)
<1>1. JobIsSound(job, observed, entityOf) /\ IdsHaveCause(job, entityOf, unanswered, together)
  BY JobAt
<1>2. /\ JobIsSound(next, observed, entityOf')
      /\ next.at \in {"resolve", "project", "link"}
      /\ \A k \in 1 .. Len(next.ids) : next.ids[k] = id \/ \E j \in 1 .. Len(job.ids) : next.ids[k] = job.ids[j]
  BY <1>1, JobResolved DEF IngestGrows
<1> HIDE DEF next, job
<1>3. ASSUME NEW k \in 1 .. Len(next.ids) PROVE HasCause(next.ids[k], entityOf', unanswered', together')
  <2>1. CASE next.ids[k] = id
    BY <2>1
  <2>2. CASE \E j \in 1 .. Len(job.ids) : next.ids[k] = job.ids[j]
    <3>1. HasCause(next.ids[k], entityOf, unanswered, together)
      BY <1>1, <2>2 DEF IdsHaveCause
    <3> QED
      BY <3>1, CauseStays DEF IngestGrows
  <2> QED
    BY <1>2, <2>1, <2>2
<1>4. IdsHaveCause(next, entityOf', unanswered', together')
  BY <1>3 DEF IdsHaveCause
<1>5. Becomes(i, next)
  BY DEF next, job
<1>6. JobsInv'
  BY <1>2, <1>4, <1>5, JobsKept
<1>7. ingest'[i] = next /\ \A j \in Ingests \ {i} : ingest'[j] = ingest[j]
  BY <1>5, BecomesOne
<1> QED
  BY <1>2, <1>6, <1>7

LEMMA LookUpKeeps ==
  ASSUME IngestAssumption, IngestInv, NEW i \in Ingests, LookUp(i)
  PROVE  IngestInv'
<1> DEFINE job == ingest[i]
           w == Head(job.todo)
<1>1. /\ JobsInv /\ RegistryInv /\ GraphInv
      /\ job.at = "resolve"
      /\ UNCHANGED <<lookups, observed, entityOf, ledger, unanswered, graphNodes, lastProjected, lastClassified>>
      /\ together \subseteq together'
  BY DEF IngestInv, LookUp, graphVars
<1>2. IngestGrows
  BY <1>1 DEF IngestGrows, Extends
<1>3. GraphInv'
  BY <1>1, <1>2, GraphUntouched
<1>4. CASE KnownHandle(w.handle)
  <2>1. Becomes(i, Resolved(job, entityOf[w.handle])) /\ together' = together /\ w.handle \in DOMAIN entityOf
    BY <1>4 DEF LookUp, KnownHandle
  <2>2. StandsFor(HeadOf(ingest[i]), entityOf[w.handle], entityOf')
    BY <1>1, <2>1 DEF StandsFor, HeadOf
  <2>3. HasCause(entityOf[w.handle], entityOf', unanswered', together')
    BY <1>1, <2>1 DEF HasCause, Range
  <2>4. JobsInv' /\ \A j \in Ingests : ingest'[j].at = "create" => j # i /\ ingest'[j] = ingest[j]
    BY <1>1, <1>2, <2>1, <2>2, <2>3, ResolvedKept
  <2>5. RegistryInv'
    BY <1>1, <2>1, <2>4, RegistryStays
  <2> QED
    BY <1>3, <2>4, <2>5 DEF IngestInv
<1>5. CASE ~KnownHandle(w.handle)
  <2> DEFINE next == [at |-> "create", id |-> FreeId(w, {ingest[j].id : j \in InCreation(i)}),
                      answer |-> job.answer, verdict |-> job.verdict, todo |-> job.todo, ids |-> job.ids]
  <2>1. /\ Becomes(i, next) /\ w.handle \notin DOMAIN entityOf
        /\ together' = together \cup {{w.handle, Head(ingest[j].todo).handle} : j \in InCreation(i)}
    BY <1>5 DEF LookUp, KnownHandle
  <2>2. /\ next.at = "create" /\ HeadOf(next) = w.handle
        /\ next.id = FreeId(w, {ingest[j].id : j \in InCreation(i)})
        /\ next.answer = job.answer /\ next.verdict = job.verdict /\ next.todo = job.todo /\ next.ids = job.ids
    BY DEF HeadOf
  <2> HIDE DEF next
  <2>3. RegistryInv'
    BY <1>1, <2>1, <2>2, RegistryLookUp
  <2>4. JobIsKept(job)
    BY <1>1, JobAt DEF JobIsKept
  <2>5. JobIsSound(job, observed', entityOf') /\ IdsHaveCause(job, entityOf', unanswered', together')
    BY <1>2, <2>4, JobKept
  <2>6. JobIsSound(next, observed', entityOf')
    BY <1>1, <2>2, <2>5 DEF JobIsSound
  <2>7. IdsHaveCause(next, entityOf', unanswered', together')
    BY <2>2, <2>5 DEF IdsHaveCause
  <2>8. JobsInv'
    BY <1>1, <1>2, <2>1, <2>6, <2>7, JobsKept
  <2> QED
    BY <1>3, <2>3, <2>8 DEF IngestInv
<1> QED
  BY <1>4, <1>5

LEMMA CreateKeeps ==
  ASSUME IngestInv, NEW i \in Ingests, Create(i)
  PROVE  IngestInv'
<1> DEFINE job == ingest[i]
           h == Head(job.todo).handle
<1>1. /\ JobsInv /\ RegistryInv /\ GraphInv
      /\ job.at = "create" /\ h = HeadOf(job)
      /\ UNCHANGED <<lookups, observed, ledger, unanswered, together, graphNodes, lastProjected, lastClassified>>
  BY DEF IngestInv, Create, graphVars, HeadOf
<1> HIDE DEF h
<1>2. CASE /\ h \in DOMAIN entityOf => entityOf[h] = job.id
           /\ entityOf' = Over([a \in {h} |-> job.id], entityOf)
           /\ Becomes(i, Resolved(job, job.id))
  <2>1. \A j \in Ingests : ingest'[j].at = "create" => j # i /\ ingest'[j] = ingest[j]
    <3>1. ingest'[i] = Resolved(job, job.id) /\ \A j \in Ingests \ {i} : ingest'[j] = ingest[j]
      BY <1>1, <1>2, BecomesOne
    <3>2. Resolved(job, job.id).at # "create"
      BY DEF Resolved, Job
    <3> QED
      BY <3>1, <3>2
  <2>2. /\ RegistryInv' /\ Extends(entityOf', entityOf)
        /\ h \in DOMAIN entityOf' /\ entityOf'[h] = job.id
    BY <1>1, <1>2, <2>1, RegistryGainsAlias
  <2>3. IngestGrows
    BY <1>1, <2>2 DEF IngestGrows
  <2>4. StandsFor(HeadOf(ingest[i]), job.id, entityOf') /\ HasCause(job.id, entityOf', unanswered', together')
    BY <1>1, <2>2 DEF StandsFor, HasCause, Range
  <2>5. JobsInv'
    BY <1>1, <1>2, <2>3, <2>4, ResolvedKept
  <2>6. GraphInv'
    BY <1>1, <2>3, GraphUntouched
  <2> QED
    BY <2>2, <2>5, <2>6 DEF IngestInv
<1>3. CASE /\ h \in DOMAIN entityOf \/ job.id \in Entities
           /\ Becomes(i, Resolved(job, h)) /\ entityOf' = entityOf
  <2>1. IngestGrows
    BY <1>1, <1>3 DEF IngestGrows, Extends
  <2>2. Len(h) = 3 => Raced(h, together)
    BY <1>1, <1>3 DEF RegistryInv, CreationsTold, Entities
  <2>3. StandsFor(HeadOf(ingest[i]), h, entityOf') /\ HasCause(h, entityOf', unanswered', together')
    BY <1>1, <2>2 DEF StandsFor, HasCause
  <2>4. JobsInv' /\ \A j \in Ingests : ingest'[j].at = "create" => j # i /\ ingest'[j] = ingest[j]
    BY <1>1, <1>3, <2>1, <2>3, ResolvedKept
  <2>5. RegistryInv'
    BY <1>1, <1>3, <2>4, RegistryStays
  <2>6. GraphInv'
    BY <1>1, <2>1, GraphUntouched
  <2> QED
    BY <2>4, <2>5, <2>6 DEF IngestInv
<1> QED
  BY <1>2, <1>3 DEF Create, h

LEMMA NoAnswerKeeps ==
  ASSUME IngestInv, NEW i \in Ingests, NoAnswer(i)
  PROVE  IngestInv'
<1> DEFINE job == ingest[i]
           h == Head(job.todo).handle
<1>1. /\ JobsInv /\ RegistryInv /\ GraphInv
      /\ job.at \in {"resolve", "create"} /\ h = HeadOf(job)
      /\ Becomes(i, Resolved(job, h)) /\ unanswered' = unanswered \cup {h}
      /\ UNCHANGED <<lookups, observed, ledger, together, graphNodes, lastProjected, lastClassified>>
  BY DEF IngestInv, NoAnswer, graphVars, HeadOf
<1>2. \/ entityOf' = entityOf
      \/ /\ job.at = "create" /\ h \notin DOMAIN entityOf
         /\ entityOf' = Over([a \in {h} |-> job.id], entityOf)
  BY DEF NoAnswer
<1> HIDE DEF h
<1>3. \A j \in Ingests : ingest'[j].at = "create" => j # i /\ ingest'[j] = ingest[j]
  <2>1. ingest'[i] = Resolved(job, h) /\ \A j \in Ingests \ {i} : ingest'[j] = ingest[j]
    BY <1>1, BecomesOne
  <2>2. Resolved(job, h).at # "create"
    BY DEF Resolved, Job
  <2> QED
    BY <2>1, <2>2
<1>4. RegistryInv' /\ Extends(entityOf', entityOf)
  <2>1. CASE entityOf' = entityOf
    <3>1. Extends(entityOf', entityOf)
      BY <2>1 DEF Extends
    <3> QED
      BY <1>1, <1>3, <2>1, <3>1, RegistryStays
  <2>2. CASE /\ job.at = "create" /\ h \notin DOMAIN entityOf
             /\ entityOf' = Over([a \in {h} |-> job.id], entityOf)
    BY <1>1, <1>3, <2>2, RegistryGainsAlias
  <2> QED
    BY <1>2, <2>1, <2>2
<1>5. IngestGrows
  BY <1>1, <1>4 DEF IngestGrows
<1>6. StandsFor(HeadOf(ingest[i]), h, entityOf') /\ HasCause(h, entityOf', unanswered', together')
  BY <1>1 DEF StandsFor, HasCause
<1>7. JobsInv'
  BY <1>1, <1>5, <1>6, ResolvedKept
<1>8. GraphInv'
  BY <1>1, <1>5, GraphUntouched
<1> QED
  BY <1>4, <1>7, <1>8 DEF IngestInv

(* A job that moves on after its last name.                                *)
LEMMA MovedIsSound ==
  ASSUME NEW job, NEW seen, NEW known, JobIsSound(job, seen, known), NEW where,
         \/ where = "project" /\ job.at = "link"
         \/ where = "ledger" /\ job.at = "project" /\ job.answer.kind = "ticket"
  PROVE  /\ JobIsSound(MovedTo(job, where), seen, known) /\ MovedTo(job, where).ids = job.ids
         /\ MovedTo(job, where).at # "create"
<1> DEFINE next == MovedTo(job, where)
<1>1. /\ next.at = where /\ next.answer = job.answer /\ next.verdict = job.verdict
      /\ next.todo = job.todo /\ next.ids = job.ids
  BY DEF MovedTo, Job
<1> HIDE DEF next
<1>2. JobIsSound(next, seen, known)
  BY <1>1 DEF JobIsSound
<1> QED
  BY <1>1, <1>2 DEF next

LEMMA LinkKeeps ==
  ASSUME IngestInv, NEW i \in Ingests, Link(i)
  PROVE  IngestInv'
<1> DEFINE job == ingest[i]
           id == job.ids[1]
           next == MovedTo(job, "project")
<1>1. /\ JobsInv /\ RegistryInv /\ GraphInv
      /\ job.at = "link" /\ Becomes(i, next)
      /\ UNCHANGED <<lookups, observed, ledger, unanswered, together, graphNodes, lastProjected, lastClassified>>
  BY DEF IngestInv, Link, graphVars
<1>2. \/ entityOf' = entityOf
      \/ /\ id \in Entities /\ \A a \in External(job) \cap DOMAIN entityOf : entityOf[a] = id
         /\ entityOf' = Over([a \in External(job) |-> id], entityOf)
  BY DEF Link
<1>3. JobIsKept(job)
  BY <1>1, JobAt DEF JobIsKept
<1>4. /\ next.at # "create" /\ next.ids = job.ids
      /\ \A seen, known : JobIsSound(job, seen, known) => JobIsSound(next, seen, known)
  <2>1. ASSUME NEW seen, NEW known, JobIsSound(job, seen, known) PROVE JobIsSound(next, seen, known)
    BY <1>1, <2>1, MovedIsSound
  <2>2. next.at # "create" /\ next.ids = job.ids
    BY DEF MovedTo, Job
  <2> QED
    BY <2>1, <2>2
<1> HIDE DEF next
<1>5. \A j \in Ingests : ingest'[j].at = "create" => ingest'[j] = ingest[j]
  <2>1. ingest'[i] = next /\ \A j \in Ingests \ {i} : ingest'[j] = ingest[j]
    BY <1>1, BecomesOne
  <2> QED
    BY <1>4, <2>1
<1>6. RegistryInv' /\ Extends(entityOf', entityOf)
  <2>1. CASE entityOf' = entityOf
    <3>1. Extends(entityOf', entityOf)
      BY <2>1 DEF Extends
    <3> QED
      BY <1>1, <1>5, <2>1, <3>1, RegistryStays
  <2>2. CASE /\ id \in Entities /\ \A a \in External(job) \cap DOMAIN entityOf : entityOf[a] = id
             /\ entityOf' = Over([a \in External(job) |-> id], entityOf)
    <3> HIDE DEF id, job
    <3> QED
      BY <1>1, <1>5, <2>2, RegistryLinks
  <2> QED
    BY <1>2, <2>1, <2>2
<1>7. IngestGrows
  BY <1>1, <1>6 DEF IngestGrows
<1>8. JobIsSound(job, observed', entityOf') /\ IdsHaveCause(job, entityOf', unanswered', together')
  BY <1>3, <1>7, JobKept
<1>9. JobIsSound(next, observed', entityOf') /\ IdsHaveCause(next, entityOf', unanswered', together')
  BY <1>4, <1>8 DEF IdsHaveCause
<1>10. JobsInv'
  BY <1>1, <1>7, <1>9, JobsKept
<1>11. GraphInv'
  BY <1>1, <1>7, GraphUntouched
<1> QED
  BY <1>6, <1>10, <1>11 DEF IngestInv

LEMMA FetchedIsSound ==
  ASSUME NEW answer \in AllAnswers, NEW verdict, VerdictIsDue(answer, verdict), NEW seen, NEW known, NEW silent, NEW raced
  PROVE  /\ JobIsSound(Fetched(answer, verdict), seen, known)
         /\ IdsHaveCause(Fetched(answer, verdict), known, silent, raced)
         /\ Fetched(answer, verdict).at # "create"
<1> DEFINE next == Fetched(answer, verdict)
           want == ToResolve(answer, verdict)
<1>1. /\ next.at = "observe" /\ next.answer = answer /\ next.verdict = verdict
      /\ next.todo = want /\ next.ids = <<>>
  BY DEF Fetched, Job
<1>2. IsSeq(want) /\ Len(want) \in Nat
  BY ResolvedInOrder
<1> HIDE DEF next
<1>3. IsSeq(next.ids) /\ Len(next.ids) = 0
  BY <1>1, NoneIsSeq
<1>4. Len(next.ids) + Len(next.todo) = Len(ToResolve(next.answer, next.verdict))
  BY <1>1, <1>2, <1>3
<1>5. JobIsSound(next, seen, known)
  BY <1>1, <1>2, <1>3, <1>4 DEF JobIsSound
<1>6. IdsHaveCause(next, known, silent, raced)
  BY <1>3 DEF IdsHaveCause
<1> QED
  BY <1>1, <1>5, <1>6 DEF next

(* A step of one request that leaves the registry alone.                   *)
LEMMA QuietStep ==
  ASSUME IngestInv, NEW i \in Ingests, NEW next, Becomes(i, next), next.at # "create",
         UNCHANGED <<entityOf, unanswered, together>>, observed \subseteq observed',
         next.at # "off" => /\ JobIsSound(next, observed', entityOf)
                            /\ IdsHaveCause(next, entityOf, unanswered, together)
  PROVE  IngestGrows /\ JobsInv' /\ RegistryInv'
<1>1. JobsInv /\ RegistryInv
  BY DEF IngestInv
<1>2. IngestGrows
  BY DEF IngestGrows, Extends
<1>3. JobsInv'
  BY <1>1, <1>2, JobsKept
<1>4. ingest'[i] = next /\ \A j \in Ingests \ {i} : ingest'[j] = ingest[j]
  BY <1>1, BecomesOne
<1>5. RegistryInv'
  BY <1>1, <1>4, RegistryStays
<1> QED
  BY <1>2, <1>3, <1>5

LEMMA StartKeeps ==
  ASSUME IngestAssumption, IngestInv, NEW i \in Ingests, Start(i)
  PROVE  IngestInv'
<1>1. UNCHANGED <<observed, entityOf, ledger, unanswered, together, graphNodes, lastProjected, lastClassified>>
  BY DEF Start, graphVars
<1>2. PICK s \in Subjects : \E answer \in MayAnswer[s] : Serve(i, answer)
  BY DEF Start
<1>3. PICK answer \in AllAnswers : Serve(i, answer)
  BY <1>2 DEF AllAnswers
<1>4. \A n \in DOMAIN lookups : lookups[n] \in MayKnow[n]
  BY DEF IngestInv, GraphInv
<1>5. /\ \A n \in DOMAIN lookups' : lookups'[n] \in MayKnow[n]
      /\ \E verdict : VerdictIsDue(answer, verdict) /\ Becomes(i, Fetched(answer, verdict))
  <2>1. CASE answer.kind \in {"ticket", "spotify"}
    <3>1. VerdictIsDue(answer, None)
      BY <2>1 DEF VerdictIsDue
    <3> QED
      BY <1>3, <1>4, <2>1, <3>1 DEF Serve
  <2>2. CASE answer.kind \notin {"ticket", "spotify"}
    <3> DEFINE name == answer.raw.title
    <3>1. CASE \E found \in IF name \in DOMAIN lookups THEN {lookups[name]} ELSE MayKnow[name] :
                 /\ lookups' = Over([n \in {name} |-> found], lookups)
                 /\ Becomes(i, Fetched(answer, Classify(name, VideosOf(answer), found)))
      <4>1. PICK found \in IF name \in DOMAIN lookups THEN {lookups[name]} ELSE MayKnow[name] :
                 /\ lookups' = Over([n \in {name} |-> found], lookups)
                 /\ Becomes(i, Fetched(answer, Classify(name, VideosOf(answer), found)))
        BY <3>1
      <4>2. found \in MayKnow[name]
        BY <1>4, <4>1
      <4>3. \A n \in DOMAIN lookups' : lookups'[n] \in MayKnow[n]
        BY <1>4, <4>1, <4>2 DEF Over
      <4>4. VerdictIsDue(answer, Classify(name, VideosOf(answer), found))
        BY <4>2 DEF VerdictIsDue
      <4> QED
        BY <4>1, <4>3, <4>4
    <3>2. CASE Becomes(i, Fetched(answer, Classify(name, VideosOf(answer), None))) /\ UNCHANGED lookups
      <4>1. VerdictIsDue(answer, Classify(name, VideosOf(answer), None))
        BY DEF VerdictIsDue
      <4> QED
        BY <1>4, <3>2, <4>1
    <3> QED
      BY <1>3, <2>2, <3>1, <3>2 DEF Serve
  <2> QED
    BY <2>1, <2>2
<1>6. PICK verdict : VerdictIsDue(answer, verdict) /\ Becomes(i, Fetched(answer, verdict))
  BY <1>5
<1> DEFINE next == Fetched(answer, verdict)
<1>7. /\ JobIsSound(next, observed', entityOf) /\ IdsHaveCause(next, entityOf, unanswered, together)
      /\ next.at # "create" /\ Becomes(i, next)
  BY <1>3, <1>6, FetchedIsSound
<1> HIDE DEF next
<1>8. IngestGrows /\ JobsInv' /\ RegistryInv'
  BY <1>1, <1>7, QuietStep
<1>9. GraphInv'
  <2>1. GraphInv /\ GraphIsSound(graphNodes', lastClassified', lastProjected')
    BY <1>1 DEF IngestInv, GraphInv
  <2> QED
    BY <1>1, <1>5, <1>8, <2>1, GraphKept
<1> QED
  BY <1>8, <1>9 DEF IngestInv

LEMMA ObservedKeeps ==
  ASSUME IngestInv, NEW i \in Ingests, AppendObservations(i) \/ ObservationsFail(i)
  PROVE  IngestInv'
<1> DEFINE job == ingest[i]
           moved == MovedTo(job, "resolve")
<1>1. /\ job.at = "observe" /\ observed \subseteq observed'
      /\ UNCHANGED <<lookups, entityOf, ledger, unanswered, together, graphNodes, lastProjected, lastClassified>>
  BY DEF AppendObservations, ObservationsFail, graphVars
<1>2. \/ Becomes(i, NoIngest)
      \/ job.todo # <<>> /\ HandleOf(job.answer) \in observed' /\ Becomes(i, moved)
  BY DEF AppendObservations, ObservationsFail
<1>3. JobIsKept(job)
  BY <1>1, JobAt DEF IngestInv, JobIsKept
<1>4. CASE Becomes(i, NoIngest)
  <2>1. NoIngest.at = "off"
    BY DEF NoIngest
  <2>2. IngestGrows /\ JobsInv' /\ RegistryInv'
    BY <1>1, <1>4, <2>1, QuietStep
  <2>3. GraphInv'
    BY <1>1, <2>2, GraphUntouched DEF IngestInv
  <2> QED
    BY <2>2, <2>3 DEF IngestInv
<1>5. CASE job.todo # <<>> /\ HandleOf(job.answer) \in observed' /\ Becomes(i, moved)
  <2>1. /\ moved.at = "resolve" /\ moved.answer = job.answer /\ moved.verdict = job.verdict
        /\ moved.todo = job.todo /\ moved.ids = job.ids
    BY DEF MovedTo, Job
  <2>2. Becomes(i, moved)
    BY <1>5
  <2> HIDE DEF moved
  <2>3. JobIsSound(moved, observed', entityOf)
    BY <1>3, <1>5, <2>1 DEF JobIsKept, JobIsSound
  <2>4. IdsHaveCause(moved, entityOf, unanswered, together)
    BY <1>3, <2>1 DEF JobIsKept, IdsHaveCause
  <2>5. IngestGrows /\ JobsInv' /\ RegistryInv'
    BY <1>1, <2>1, <2>2, <2>3, <2>4, QuietStep
  <2>6. GraphInv'
    BY <1>1, <2>5, GraphUntouched DEF IngestInv
  <2> QED
    BY <2>5, <2>6 DEF IngestInv
<1> QED
  BY <1>2, <1>4, <1>5

LEMMA RecordKeeps ==
  ASSUME IngestInv, NEW i \in Ingests, RecordCapture(i)
  PROVE  IngestInv'
<1> DEFINE job == ingest[i]
           id == job.ids[1]
<1>1. /\ job.at = "ledger" /\ ledger' \subseteq ledger \cup {id} /\ Becomes(i, NoIngest)
      /\ UNCHANGED <<lookups, observed, entityOf, unanswered, together, graphNodes, lastProjected, lastClassified>>
  BY DEF RecordCapture, graphVars
<1>2. NoIngest.at = "off"
  BY DEF NoIngest
<1>3. IngestGrows /\ JobsInv' /\ RegistryInv'
  BY <1>1, <1>2, QuietStep
<1>4. JobIsSound(job, observed, entityOf) /\ IdsHaveCause(job, entityOf, unanswered, together)
  BY <1>1, JobAt DEF IngestInv
<1>5. HandleOf(job.answer) \in observed /\ StandsFor(HandleOf(job.answer), id, entityOf)
  BY <1>1, <1>4 DEF JobIsSound
<1>6. HasCause(id, entityOf, unanswered, together)
  <2>1. 1 \in 1 .. Len(job.ids)
    BY <1>1, <1>4, EmptyHasNoLength DEF JobIsSound
  <2> QED
    BY <1>4, <2>1 DEF IdsHaveCause
<1>7. GraphInv /\ GraphIsSound(graphNodes', lastClassified', lastProjected')
      /\ \A n \in DOMAIN lookups' : lookups'[n] \in MayKnow[n]
  BY <1>1 DEF IngestInv, GraphInv
<1>8. GraphInv'
  BY <1>1, <1>3, <1>5, <1>6, <1>7, GraphKept
<1> QED
  BY <1>3, <1>8 DEF IngestInv

LEMMA RestartKeeps ==
  ASSUME IngestInv, SignalRestart PROVE IngestInv'
<1>1. /\ ingest' = [i \in Ingests |-> NoIngest] /\ lookups' = <<>>
      /\ UNCHANGED <<observed, entityOf, ledger, unanswered, together, graphNodes, lastProjected, lastClassified>>
  BY DEF SignalRestart, graphVars
<1>2. NoIngest.at = "off"
  BY DEF NoIngest
<1>3. IngestGrows
  BY <1>1 DEF IngestGrows, Extends
<1>4. JobsInv'
  BY <1>1, <1>2 DEF JobsInv
<1>5. RegistryInv'
  BY <1>1, <1>2, RegistryStays DEF IngestInv
<1>6. GraphInv /\ GraphIsSound(graphNodes', lastClassified', lastProjected')
  BY <1>1 DEF IngestInv, GraphInv
<1>7. \A n \in DOMAIN lookups' : lookups'[n] \in MayKnow[n]
  BY <1>1, NoneIsSeq
<1>8. GraphInv'
  BY <1>1, <1>3, <1>6, <1>7, GraphKept
<1> QED
  BY <1>4, <1>5, <1>8 DEF IngestInv

-----------------------------------------------------------------------------
(* A projection, whatever part of it was written.                          *)

LEMMA JobIsProjected ==
  ASSUME NEW job, NEW seen, NEW known, JobIsSound(job, seen, known), job.at = "project",
         NEW what, what = ProjectionOf(job)
  PROVE  /\ ProjectionIsSound(what, job.ids)
         /\ job.answer.kind = "ticket" => what.nodes[1].props = EventProperties(job.answer.event)
         /\ job.answer.kind # "ticket" => job.answer.kind \in {"channel", "query"} /\
              \E says : /\ what.nodes[1].props = EntityProps(job.answer.raw.title, job.verdict, says)
                        /\ job.answer.kind = "channel" /\ job.answer.raw.videos # None =>
                             "video_count" \in DOMAIN says /\ says.video_count = job.answer.raw.videos
<1> DEFINE ids == job.ids
           want == ToResolve(job.answer, job.verdict)
<1>1. /\ job.answer \in AllAnswers /\ job.todo = <<>> /\ IsSeq(ids) /\ ids # <<>>
      /\ Len(ids) + Len(job.todo) = Len(want)
  BY DEF JobIsSound
<1>2. Len(ids) = Len(want) /\ Len(ids) \in Nat \ {0}
  <2>1. PICK a, b, c : a = Len(ids) /\ b = Len(job.todo) /\ c = Len(want)
    OBVIOUS
  <2>2. a \in Nat \ {0} /\ b = 0 /\ a + b = c
    BY <1>1, <2>1, EmptyHasNoLength, NoneIsSeq
  <2>3. a = c
    BY <2>2
  <2> QED
    BY <2>1, <2>2, <2>3
<1>3. /\ job.answer.kind = "spotify" <=> want = <<>>
      /\ IsSeq(want)
      /\ job.answer.kind = "ticket" /\ job.answer.event.venue # None => Len(want) >= 2
  BY <1>1, ResolvedInOrder
<1>4. job.answer.kind # "spotify"
  BY <1>2, <1>3, EmptyHasNoLength
<1> HIDE DEF want
<1>5. CASE job.answer.kind = "ticket"
  <2> DEFINE e == job.answer.event
  <2>1. what = ProjectTicketing(e, ids[1], IF e.venue = None THEN None ELSE ids[2],
                                SubSeq(ids, IF e.venue = None THEN 2 ELSE 3, Len(ids)))
    BY <1>5 DEF ProjectionOf
  <2>2. e.venue # None => Len(ids) >= 2
    BY <1>2, <1>3, <1>5
  <2> HIDE DEF ids, e
  <2>3. ProjectionIsSound(what, ids) /\ what.nodes[1].props = EventProperties(e)
    BY <1>1, <2>1, <2>2, TicketIsProjected
  <2> QED
    BY <1>5, <2>3 DEF ids, e
<1>6. CASE job.answer.kind # "ticket"
  <2> DEFINE raw == job.answer.raw
             says == IF job.answer.kind = "channel" THEN ChannelObservations(raw) ELSE TrendsObservations(raw)
  <2>1. job.answer.kind \in {"channel", "query"} /\ IsSeq(raw.regions)
    BY <1>1, <1>4, <1>6, AnswersAreTyped
  <2>2. what = ProjectEntity(ids[1], job.verdict, raw.title, says)
    BY <1>6 DEF ProjectionOf
  <2>3. "search_top_regions" \in DOMAIN says => IsSeq(says.search_top_regions)
    BY <2>1, ChannelSays, TrendsSay
  <2>4. job.answer.kind = "channel" /\ raw.videos # None =>
          "video_count" \in DOMAIN says /\ says.video_count = raw.videos
    BY ChannelSays
  <2> HIDE DEF says, ids
  <2>5. ProjectionIsSound(what, ids) /\ what.nodes[1].props = EntityProps(raw.title, job.verdict, says)
    BY <1>1, <2>2, <2>3, EntityIsProjected
  <2> QED
    BY <1>6, <2>1, <2>4, <2>5 DEF ids
<1> QED
  BY <1>5, <1>6

(* What was projected or classified last is forgotten of one node only.    *)
LEMMA SameHistory ==
  ASSUME NEW nodes, NEW raws, NEW events, GraphIsSound(nodes, raws, events), NEW raws2, NEW events2,
         DOMAIN raws2 = DOMAIN raws, \A id \in DOMAIN raws : raws2[id] = raws[id],
         DOMAIN events2 = DOMAIN events, \A id \in DOMAIN events : events2[id] = events[id]
  PROVE  GraphIsSound(nodes, raws2, events2)
BY DEF GraphIsSound, RowIsFounded

LEMMA ProjectWrites ==
  ASSUME IngestInv, NEW i \in Ingests, Project(i)
  PROVE  /\ GraphIsSound(graphNodes', lastClassified', lastProjected')
         /\ DOMAIN lastProjected' \subseteq DOMAIN lastProjected \cup {ingest[i].ids[1]}
         /\ DOMAIN lastClassified' \subseteq DOMAIN lastClassified \cup {ingest[i].ids[1]}
         /\ \A id \in DOMAIN graphNodes' : id \in DOMAIN graphNodes \/ OfJob(id, ingest[i].ids)
<1> DEFINE job == ingest[i]
           what == ProjectionOf(job)
           first == what.nodes[1]
           ticket == job.answer.kind = "ticket"
<1>1. job.at = "project"
  BY DEF Project
<1>2. JobIsSound(job, observed, entityOf)
  BY <1>1, JobAt DEF IngestInv
<1>3. PICK written \in {0, 1, Len(what.nodes), Len(what.nodes) + Len(what.edges)} :
        /\ graphNodes' = EnsureNodes(UpsertNodes(graphNodes, SubSeq(what.nodes, 1, Least(written, Len(what.nodes)))),
                                     Range(SubSeq(what.edges, 1, written - Len(what.nodes))))
        /\ Remember(job, written)
  BY DEF Project
<1>4. /\ ProjectionIsSound(what, job.ids)
      /\ ticket => first.props = EventProperties(job.answer.event)
      /\ ~ticket => job.answer.kind \in {"channel", "query"} /\
           \E says : /\ first.props = EntityProps(job.answer.raw.title, job.verdict, says)
                     /\ job.answer.kind = "channel" /\ job.answer.raw.videos # None =>
                          "video_count" \in DOMAIN says /\ says.video_count = job.answer.raw.videos
  BY <1>1, <1>2, JobIsProjected
<1>5. first.id = job.ids[1] /\ job.answer \in AllAnswers /\ VerdictIsDue(job.answer, job.verdict)
  BY <1>2, <1>4 DEF ProjectionIsSound, JobIsSound
<1> HIDE DEF what
<1> DEFINE start == IF written = 0 THEN graphNodes ELSE UpsertNode(graphNodes, first)
<1>6. /\ \A id \in DOMAIN graphNodes' : id \in DOMAIN graphNodes \/ OfJob(id, job.ids)
      /\ \A id : SameButName(RowOf(graphNodes', id).props, RowOf(start, id).props)
  BY <1>3, <1>4, PartIsWritten
<1>7. GraphIsSound(graphNodes, lastClassified, lastProjected)
  BY DEF IngestInv, GraphInv
<1>8. /\ GraphIsSound(start, lastClassified', lastProjected')
      /\ DOMAIN lastProjected' \subseteq DOMAIN lastProjected \cup {job.ids[1]}
      /\ DOMAIN lastClassified' \subseteq DOMAIN lastClassified \cup {job.ids[1]}
  <2>1. CASE written = 0
    <3>1. \A f : DOMAIN Over(<<>>, f) = DOMAIN f /\ \A x \in DOMAIN f : Over(<<>>, f)[x] = f[x]
      BY NoneIsSeq DEF Over
    <3>2. /\ DOMAIN lastClassified' = DOMAIN lastClassified
          /\ \A id \in DOMAIN lastClassified : lastClassified'[id] = lastClassified[id]
          /\ DOMAIN lastProjected' = DOMAIN lastProjected
          /\ \A id \in DOMAIN lastProjected : lastProjected'[id] = lastProjected[id]
      <4>1. CASE ticket
        <5>1. lastProjected' = Over(<<>>, lastProjected) /\ lastClassified' = lastClassified
          BY <1>3, <2>1, <4>1 DEF Remember
        <5> QED
          BY <3>1, <5>1
      <4>2. CASE ~ticket
        <5>1. lastClassified' = Over(<<>>, lastClassified) /\ lastProjected' = lastProjected
          BY <1>3, <2>1, <4>2 DEF Remember
        <5> QED
          BY <3>1, <5>1
      <4> QED
        BY <4>1, <4>2
    <3>3. GraphIsSound(graphNodes, lastClassified', lastProjected')
      BY <1>7, <3>2, SameHistory
    <3> QED
      BY <2>1, <3>2, <3>3
  <2>2. CASE written # 0 /\ ticket
    <3> DEFINE said == [id \in {job.ids[1]} |-> job.answer.event]
    <3>1. lastProjected' = Over(said, lastProjected) /\ lastClassified' = lastClassified
      BY <1>3, <2>2 DEF Remember
    <3>2. DOMAIN said = {first.id} /\ said[first.id] = job.answer.event
      BY <1>5
    <3>3. DOMAIN Over(said, lastProjected) = {job.ids[1]} \cup DOMAIN lastProjected
      BY DEF Over
    <3> HIDE DEF said, first
    <3>4. GraphIsSound(UpsertNode(graphNodes, first), lastClassified, Over(said, lastProjected))
      BY <1>4, <1>7, <2>2, <3>2, EventKeepsGraph
    <3> QED
      BY <2>2, <3>1, <3>3, <3>4
  <2>3. CASE written # 0 /\ ~ticket
    <3> DEFINE said == [id \in {job.ids[1]} |-> job.answer.raw]
    <3>1. lastClassified' = Over(said, lastClassified) /\ lastProjected' = lastProjected
      BY <1>3, <2>3 DEF Remember
    <3>2. DOMAIN said = {first.id} /\ said[first.id] = job.answer.raw
      BY <1>5
    <3>3. DOMAIN Over(said, lastClassified) = {job.ids[1]} \cup DOMAIN lastClassified
      BY DEF Over
    <3>4. PICK says : /\ first.props = EntityProps(job.answer.raw.title, job.verdict, says)
                      /\ job.answer.kind = "channel" /\ job.answer.raw.videos # None =>
                           "video_count" \in DOMAIN says /\ says.video_count = job.answer.raw.videos
      BY <1>4, <2>3
    <3> HIDE DEF said, first
    <3>5. GraphIsSound(UpsertNode(graphNodes, first), Over(said, lastClassified), lastProjected)
      BY <1>4, <1>5, <1>7, <2>3, <3>2, <3>4, EntityKeepsGraph
    <3> QED
      BY <2>3, <3>1, <3>3, <3>5
  <2> QED
    BY <2>1, <2>2, <2>3
<1> HIDE DEF start
<1>9. ASSUME NEW id PROVE RowIsFounded(id, RowOf(graphNodes', id).props, lastClassified', lastProjected')
  <2>1. RowIsFounded(id, RowOf(start, id).props, lastClassified', lastProjected')
    BY <1>8, Zenon DEF GraphIsSound
  <2>2. SameButName(RowOf(graphNodes', id).props, RowOf(start, id).props)
    BY <1>6
  <2> QED
    BY <2>1, <2>2, SameIsFounded
<1>10. GraphIsSound(graphNodes', lastClassified', lastProjected')
  BY <1>9, Zenon DEF GraphIsSound
<1> QED
  BY <1>6, <1>8, <1>10

LEMMA ProjectKeeps ==
  ASSUME IngestInv, NEW i \in Ingests, Project(i)
  PROVE  IngestInv'
<1> DEFINE job == ingest[i]
           id == job.ids[1]
<1>1. /\ job.at = "project"
      /\ UNCHANGED <<lookups, observed, entityOf, ledger, unanswered, together>>
      /\ Becomes(i, NoIngest) \/ (job.answer.kind = "ticket" /\ Becomes(i, MovedTo(job, "ledger")))
  BY DEF Project
<1>2. JobIsSound(job, observed, entityOf) /\ IdsHaveCause(job, entityOf, unanswered, together)
  BY <1>1, JobAt DEF IngestInv
<1>3. IngestGrows /\ JobsInv' /\ RegistryInv'
  <2>1. CASE Becomes(i, NoIngest)
    <3>1. NoIngest.at = "off"
      BY DEF NoIngest
    <3> QED
      BY <1>1, <2>1, <3>1, QuietStep
  <2>2. CASE job.answer.kind = "ticket" /\ Becomes(i, MovedTo(job, "ledger"))
    <3>1. JobIsSound(MovedTo(job, "ledger"), observed, entityOf) /\ MovedTo(job, "ledger").ids = job.ids
      BY <1>1, <1>2, <2>2, MovedIsSound
    <3>2. IdsHaveCause(MovedTo(job, "ledger"), entityOf, unanswered, together)
      BY <1>2, <3>1 DEF IdsHaveCause
    <3>3. MovedTo(job, "ledger").at # "create"
      BY DEF MovedTo, Job
    <3> QED
      BY <1>1, <2>2, <3>1, <3>2, <3>3, QuietStep
  <2> QED
    BY <1>1, <2>1, <2>2
<1>4. HandleOf(job.answer) \in observed /\ StandsFor(HandleOf(job.answer), id, entityOf)
  BY <1>1, <1>2 DEF JobIsSound
<1>5. /\ GraphIsSound(graphNodes', lastClassified', lastProjected')
      /\ DOMAIN lastProjected' \subseteq DOMAIN lastProjected \cup {id}
      /\ DOMAIN lastClassified' \subseteq DOMAIN lastClassified \cup {id}
      /\ \A x \in DOMAIN graphNodes' : x \in DOMAIN graphNodes \/ OfJob(x, job.ids)
  BY ProjectWrites
<1> HIDE DEF id, job
<1>6. ASSUME NEW x, OfJob(x, job.ids) PROVE HasCause(x, entityOf, unanswered, together)
  <2>1. CASE Len(x) = 2
    BY <2>1 DEF HasCause
  <2>2. CASE x \in Range(job.ids)
    <3>1. IsSeq(job.ids)
      BY <1>2 DEF JobIsSound
    <3>2. PICK k \in 1 .. Len(job.ids) : x = job.ids[k]
      BY <2>2, <3>1, EmptyHasNoLength DEF Range
    <3> QED
      BY <1>2, <3>2 DEF IdsHaveCause
  <2> QED
    BY <1>6, <2>1, <2>2 DEF OfJob
<1>7. GraphInv /\ \A n \in DOMAIN lookups' : lookups'[n] \in MayKnow[n]
  BY <1>1 DEF IngestInv, GraphInv
<1>8. \A x \in ledger' \cup DOMAIN lastProjected' \cup DOMAIN lastClassified' :
        \/ x \in ledger \cup DOMAIN lastProjected \cup DOMAIN lastClassified
        \/ \E h \in observed' : StandsFor(h, x, entityOf')
  BY <1>1, <1>4, <1>5
<1>9. \A x \in DOMAIN graphNodes' \cup ledger' :
        x \in DOMAIN graphNodes \cup ledger \/ HasCause(x, entityOf', unanswered', together')
  BY <1>1, <1>5, <1>6
<1>10. GraphInv'
  BY <1>3, <1>5, <1>7, <1>8, <1>9, GraphKept
<1> QED
  BY <1>3, <1>10 DEF IngestInv

LEMMA IngestStart == ASSUME IngestInit PROVE IngestInv
<1>1. DOMAIN <<>> = {} /\ Range(<<>>) = {}
  BY NoneIsSeq DEF Range
<1>2. JobsInv
  BY DEF IngestInit, JobsInv, NoIngest
<1>3. RegistryInv
  <2>1. IsFiniteSet(DOMAIN entityOf)
    BY <1>1, FS_EmptySet DEF IngestInit
  <2>2. CreationsTold(ingest, entityOf, together) /\ SharedOnlyByRace
    BY <1>1 DEF IngestInit, CreationsTold, SharedOnlyByRace, NoIngest
  <2> QED
    BY <2>1, <2>2 DEF RegistryInv
<1>4. GraphInv
  <2>1. \A id : RowOf(graphNodes, id).props = <<>>
    BY <1>1 DEF IngestInit, RowOf
  <2>2. GraphIsSound(graphNodes, lastClassified, lastProjected)
    BY <1>1, <2>1 DEF GraphIsSound, RowIsFounded
  <2> QED
    BY <1>1, <2>2 DEF IngestInit, GraphInv
<1> QED
  BY <1>2, <1>3, <1>4 DEF IngestInv

LEMMA IngestStays == ASSUME IngestAssumption, IngestInv, [IngestNext]_ingestVars PROVE IngestInv'
<1>1. CASE UNCHANGED ingestVars
  <2>1. UNCHANGED <<ingest, lookups, observed, entityOf, graphNodes, lastProjected, lastClassified, ledger,
                    unanswered, together>>
    BY <1>1 DEF ingestVars, graphVars
  <2>2. IngestGrows
    BY <2>1 DEF IngestGrows, Extends
  <2>3. GraphInv'
    BY <2>1, <2>2, GraphUntouched DEF IngestInv
  <2>4. RegistryInv'
    BY <2>1, RegistryStays DEF IngestInv
  <2>5. JobsInv'
    BY <2>1 DEF IngestInv, JobsInv
  <2> QED
    BY <2>3, <2>4, <2>5 DEF IngestInv
<1>2. CASE SignalRestart
  BY <1>2, RestartKeeps
<1>3. ASSUME NEW i \in Ingests,
             \/ Start(i) \/ AppendObservations(i) \/ ObservationsFail(i) \/ LookUp(i) \/ Create(i) \/ NoAnswer(i)
             \/ Link(i) \/ Project(i) \/ RecordCapture(i)
      PROVE  IngestInv'
  <2>1. CASE Start(i)
    BY <2>1, StartKeeps
  <2>2. CASE AppendObservations(i) \/ ObservationsFail(i)
    BY <2>2, ObservedKeeps
  <2>3. CASE LookUp(i)
    BY <2>3, LookUpKeeps
  <2>4. CASE Create(i)
    BY <2>4, CreateKeeps
  <2>5. CASE NoAnswer(i)
    BY <2>5, NoAnswerKeeps
  <2>6. CASE Link(i)
    BY <2>6, LinkKeeps
  <2>7. CASE Project(i)
    BY <2>7, ProjectKeeps
  <2>8. CASE RecordCapture(i)
    BY <2>8, RecordKeeps
  <2> QED
    BY <1>3, <2>1, <2>2, <2>3, <2>4, <2>5, <2>6, <2>7, <2>8
<1> QED
  BY <1>1, <1>2, <1>3 DEF IngestNext

LEMMA IngestAlways == IngestSpec => []IngestInv
<1>1. IngestInit => IngestInv
  BY IngestStart
<1>2. IngestInv /\ [IngestNext]_ingestVars => IngestInv'
  BY IngestStays, IngestAssumption
<1> QED
  BY <1>1, <1>2, PTL DEF IngestSpec

LEMMA FoundedGraph == ASSUME GraphInv PROVE GraphIsFounded
<1>1. ASSUME NEW id \in ledger \cup DOMAIN lastProjected \cup DOMAIN lastClassified
      PROVE  \E h \in observed : id = h \/ (h \in DOMAIN entityOf /\ entityOf[h] = id)
  BY DEF GraphInv, StandsFor
<1>2. ASSUME NEW id \in DOMAIN graphNodes, "needs_review" \in DOMAIN graphNodes[id].props
      PROVE  id \in DOMAIN lastClassified /\ Reviewed(graphNodes[id].props, lastClassified[id])
  <2>1. RowIsFounded(id, RowOf(graphNodes, id).props, lastClassified, lastProjected)
    BY Zenon DEF GraphInv, GraphIsSound
  <2>2. RowOf(graphNodes, id) = graphNodes[id]
    BY DEF RowOf
  <2> QED
    BY <1>2, <2>1, <2>2 DEF RowIsFounded
<1>3. ProjectedIsObserved
  BY <1>1, <1>2 DEF ProjectedIsObserved
<1>4. ReviewedUnlessClear
  BY <1>2, Zenon DEF ReviewedUnlessClear, Reviewed
<1> QED
  BY <1>3, <1>4 DEF GraphIsFounded

LEMMA ApartHandles == ASSUME RegistryInv, GraphInv PROVE HandlesAreApart
<1>1. SplitHasCause
  BY DEF GraphInv, HasCause, Raced, SplitHasCause, Entities
<1> QED
  BY <1>1 DEF RegistryInv, HandlesAreApart

LEMMA VouchedFeed == ASSUME GraphInv PROVE FeedIsVouched
<1> SUFFICES ASSUME NEW id \in Feed(graphNodes)
             PROVE  id \in DOMAIN lastProjected /\ lastProjected[id].verified
  BY DEF FeedIsVouched
<1> DEFINE props == graphNodes[id].props
<1>1. id \in DOMAIN graphNodes /\ FeedTier(props) # "excluded"
  BY DEF Feed
<1>2. RowIsFounded(id, props, lastClassified, lastProjected)
  <2>1. RowIsFounded(id, RowOf(graphNodes, id).props, lastClassified, lastProjected)
    BY Zenon DEF GraphInv, GraphIsSound
  <2>2. RowOf(graphNodes, id) = graphNodes[id]
    BY <1>1 DEF RowOf
  <2> QED
    BY <2>1, <2>2
<1> HIDE DEF props
<1>3. PropOr(props, "verified", FALSE)
  BY <1>1, Zenon DEF FeedTier, RedistributionTier
<1>4. "verified" \in DOMAIN props /\ props["verified"]
  BY <1>3, Zenon DEF PropOr
<1> QED
  BY <1>2, <1>4 DEF RowIsFounded

(* Nothing enters the graph or the ledger of which no observation was      *)
(* appended, and no node goes without a review but on clear evidence, in   *)
(* whatever step an ingest fails and whatever overlaps it (routes/*.py,    *)
(* classification.py).                                                     *)
THEOREM GraphStaysFounded == IngestSpec => []GraphIsFounded
<1>1. IngestInv => GraphIsFounded
  BY FoundedGraph DEF IngestInv
<1> QED
  BY <1>1, IngestAlways, PTL

(* Handles share an entity only if their creations overlapped, and a       *)
(* handle stands for itself only after a race or an outage                 *)
(* (entity-service repository.py, resolution.py).                          *)
THEOREM HandlesStayApart == IngestSpec => []HandlesAreApart
<1>1. IngestInv => HandlesAreApart
  BY ApartHandles DEF IngestInv
<1> QED
  BY <1>1, IngestAlways, PTL

(* The feed shows only events that were vouched for when they were read    *)
(* last (redistribution.py), whatever part of a projection was written.    *)
THEOREM FeedStaysVouched == IngestSpec => []FeedIsVouched
<1>1. IngestInv => FeedIsVouched
  BY VouchedFeed DEF IngestInv
<1> QED
  BY <1>1, IngestAlways, PTL

-----------------------------------------------------------------------------
(* Movement (ContentMovement).                                             *)

MoveInv == gathered \in MayGather /\ hour \in Nat

LEMMA CountOfFinite ==
  ASSUME NEW S, IsFiniteSet(S), NEW T, T \subseteq S
  PROVE  IsFiniteSet(T) /\ Cardinality(T) \in Nat /\ Cardinality(T) <= Cardinality(S)
         /\ (Cardinality(T) = Cardinality(S) => T = S)
<1>1. T \in SUBSET S
  OBVIOUS
<1> QED
  BY <1>1, FS_Subset, FS_CardinalityType

(* A finite set of integers has a least and a greatest member: one with    *)
(* the fewest below it, or above it.                                       *)
LEMMA FiniteHasLeast ==
  ASSUME NEW S, IsFiniteSet(S), S \subseteq Int, S # {}
  PROVE  \E x \in S : \A y \in S : x <= y
<1> DEFINE Below(x) == {y \in S : y < x}
           T == {Cardinality(Below(x)) : x \in S}
<1>1. \A x \in S : Cardinality(Below(x)) \in Nat
  BY CountOfFinite
<1>2. PICK t \in T : \A u \in T : t <= u
  <2>1. T \subseteq Nat /\ T # {}
    BY <1>1
  <2> HIDE DEF T
  <2> QED
    BY <2>1, LeastExists
<1>3. PICK x \in S : t = Cardinality(Below(x))
  OBVIOUS
<1>4. ASSUME NEW y \in S, y < x PROVE FALSE
  <2>0. x \in Int /\ y \in Int /\ ~(y < y) /\ \A z \in S : z < y => z < x
    BY <1>4
  <2>1. Below(y) \subseteq Below(x) /\ y \in Below(x) /\ y \notin Below(y)
    BY <1>4, <2>0, Zenon
  <2>2. IsFiniteSet(Below(x)) /\ Below(y) # Below(x)
    BY <2>1, CountOfFinite
  <2>3. t <= Cardinality(Below(y))
    BY <1>2
  <2> HIDE DEF Below
  <2>4. Cardinality(Below(y)) < Cardinality(Below(x)) \/ Below(y) = Below(x)
    <3>1. /\ Cardinality(Below(y)) <= Cardinality(Below(x)) /\ Cardinality(Below(y)) \in Nat
          /\ Cardinality(Below(y)) = Cardinality(Below(x)) => Below(y) = Below(x)
      BY <2>1, <2>2, CountOfFinite
    <3>2. Cardinality(Below(x)) \in Nat
      BY <2>2, FS_CardinalityType
    <3> QED
      BY <3>1, <3>2
  <2> QED
    BY <1>1, <1>3, <2>2, <2>3, <2>4
<1>5. \A y \in S : x <= y
  BY <1>4
<1> QED
  BY <1>5

LEMMA FiniteHasGreatest ==
  ASSUME NEW S, IsFiniteSet(S), S \subseteq Int, S # {}
  PROVE  \E x \in S : \A y \in S : y <= x
<1> DEFINE T == {0 - y : y \in S}
           f == [y \in S |-> 0 - y]
<1>1. IsFiniteSet(T)
  <2>1. f \in [S -> T]
    <3>1. \A y \in S : 0 - y \in T
      BY Zenon
    <3> HIDE DEF T
    <3> QED
      BY <3>1, Zenon
  <2>2. \A t \in T : \E y \in S : f[y] = t
    <3> SUFFICES ASSUME NEW t \in T PROVE \E y \in S : f[y] = t
      BY Zenon
    <3>1. PICK y \in S : t = 0 - y
      BY Zenon
    <3>2. f[y] = 0 - y
      BY Zenon
    <3> QED
      BY <3>1, <3>2, Zenon
  <2> HIDE DEF f, T
  <2>3. f \in Surjection(S, T)
    BY <2>1, <2>2 DEF Surjection
  <2> QED
    BY <2>3, FS_Surjection
<1> HIDE DEF f
<1>2. T \subseteq Int /\ T # {}
  <2>1. \A y \in S : 0 - y \in Int
    OBVIOUS
  <2>2. \A t \in T : \E y \in S : t = 0 - y
    BY Zenon
  <2>3. \A y \in S : 0 - y \in T
    BY Zenon
  <2> HIDE DEF T
  <2>4. T \subseteq Int
    BY <2>1, <2>2
  <2>5. T # {}
    BY <2>3
  <2> QED
    BY <2>4, <2>5
<1>3. PICK t \in T : \A u \in T : t <= u
  <2> HIDE DEF T
  <2> QED
    BY <1>1, <1>2, FiniteHasLeast
<1>4. PICK x \in S : t = 0 - x
  <2>1. t \in T
    BY <1>3, Zenon
  <2> QED
    BY <2>1, Zenon
<1>5. \A y \in S : y <= x
  <2> TAKE y \in S
  <2>1. t <= 0 - y
    BY <1>3
  <2> QED
    BY <1>4, <2>1
<1> QED
  BY <1>5

(* The ends of a series.                                                   *)
LEMMA SeriesHasEnds ==
  ASSUME NEW hours, IsFiniteSet(hours), hours \subseteq Nat, hours # {}
  PROVE  /\ FirstOf(hours) \in hours /\ LastOf(hours) \in hours
         /\ \A h \in hours : FirstOf(hours) <= h /\ h <= LastOf(hours)
<1>1. hours \subseteq Int
  OBVIOUS
<1>2. (\E x \in hours : \A y \in hours : x <= y) /\ (\E x \in hours : \A y \in hours : y <= x)
  BY <1>1, FiniteHasLeast, FiniteHasGreatest
<1> QED
  BY <1>2 DEF FirstOf, LastOf

LEMMA RecentIsFinite ==
  ASSUME MoveInv, NEW v, NEW back
  PROVE  Recent(v, back) \subseteq Nat /\ IsFiniteSet(Recent(v, back)) /\ Cardinality(Recent(v, back)) \in Nat
         /\ Recent(v, back) \subseteq Hours
<1>1. Recent(v, back) \subseteq Hours /\ Recent(v, back) \subseteq Nat /\ \A h \in Recent(v, back) : h <= hour
  BY MovementAssumption DEF Recent
<1>2. Recent(v, back) \in SUBSET Nat /\ hour \in Nat
  BY <1>1 DEF MoveInv
<1>3. IsFiniteSet(Recent(v, back))
  BY <1>1, <1>2, FS_BoundedSetOfNaturals
<1> QED
  BY <1>1, <1>3, FS_CardinalityType

LEMMA GainIsPositive ==
  ASSUME NEW gain \in Int, NEW rate \in Nat, gain * rate > 0
  PROVE  gain > 0
<1>1. CASE gain <= 0
  <2>1. PICK loss \in Nat : gain = 0 - loss
    <3>1. 0 - gain \in Nat /\ gain = 0 - (0 - gain)
      BY <1>1
    <3> QED
      BY <3>1
  <2>2. loss * rate >= 0 /\ gain * rate = 0 - loss * rate
    BY <2>1
  <2>3. loss * rate \in Int
    OBVIOUS
  <2> QED
    BY <2>2, <2>3
<1> QED
  BY <1>1

(* A velocity has two readings of its window, and a positive one a gain.   *)
LEMMA VelocityIsRead ==
  ASSUME MoveInv, NEW v \in Videos, NEW back, WindowVelocity(v, back) # NoReading
  PROVE  /\ Cardinality(Recent(v, back)) >= 2 /\ WindowVelocity(v, back) \in Int
         /\ WindowVelocity(v, back) > 0 =>
              \E g, h \in Recent(v, back) : g < h /\ gathered[v][g] < gathered[v][h]
<1>1. PICK points : points = Recent(v, back)
  OBVIOUS
<1>2. points \subseteq Nat /\ points \subseteq Hours /\ IsFiniteSet(points) /\ Cardinality(points) \in Nat
  BY <1>1, RecentIsFinite
<1>3. {h \in ContentSeries(v) : InWindow(h, back)} = points
  BY <1>1 DEF ContentSeries, InWindow, Recent
<1>4. ~(Cardinality(points) < 2) /\ WindowVelocity(v, back) = Gain(v, points) * (PerHour \div Span(points))
  BY <1>3 DEF WindowVelocity
<1>5. points # {}
  BY <1>4, FS_EmptySet
<1>6. PICK first, last : first = FirstOf(points) /\ last = LastOf(points)
  OBVIOUS
<1>7. first \in points /\ last \in points /\ \A h \in points : first <= h /\ h <= last
  BY <1>2, <1>5, <1>6, SeriesHasEnds
<1>8. first < last
  <2>1. CASE first = last
    <3>0. \A h \in points : h = first
      BY <1>2, <1>7, <2>1
    <3>1. points = {first}
      BY <1>7, <3>0, Zenon
    <3>2. Cardinality(points) = 1
      BY <3>1, FS_Singleton
    <3> QED
      BY <1>4, <3>2
  <2> QED
    BY <1>2, <1>7, <2>1
<1>9. PICK gain, span : gain = gathered[v][last] - gathered[v][first] /\ span = last - first
  OBVIOUS
<1>10. /\ gathered[v][last] \in Int /\ gathered[v][first] \in Int /\ gain \in Int
       /\ span \in Nat \ {0}
  <2>1. \A h \in Hours : gathered[v][h] \in Int \cup {NoReading}
    BY MovementAssumption DEF MoveInv, Videos
  <2>2. \A h \in points : gathered[v][h] # NoReading
    BY <1>1 DEF Recent
  <2>3. gathered[v][last] \in Int /\ gathered[v][first] \in Int
    BY <1>2, <1>7, <2>1, <2>2
  <2>4. span \in Nat \ {0}
    BY <1>2, <1>7, <1>8, <1>9
  <2> QED
    BY <1>9, <2>3, <2>4
<1>11. PICK rate \in Nat : rate = PerHour \div span
  <2>1. PerHour \div span \in Nat
    BY <1>10, MovementAssumption
  <2> QED
    BY <2>1
<1>12. WindowVelocity(v, back) = gain * rate
  BY <1>4, <1>6, <1>9, <1>11 DEF Gain, Span
<1>13. ASSUME gain * rate > 0 PROVE gathered[v][first] < gathered[v][last]
  <2>1. gain > 0
    BY <1>10, <1>13, GainIsPositive
  <2> QED
    BY <1>9, <1>10, <2>1
<1>14. gain * rate \in Int /\ Cardinality(points) >= 2
  BY <1>2, <1>4, <1>10
<1>15. WindowVelocity(v, back) > 0 => \E g, h \in points : g < h /\ gathered[v][g] < gathered[v][h]
  BY <1>7, <1>8, <1>12, <1>13
<1> QED
  BY <1>1, <1>12, <1>14, <1>15

(* Ratios against a positive base.                                         *)
LEMMA RatioOutpaces ==
  ASSUME NEW cur \in Int, NEW base \in Int, base > 0, NEW ratio,
         ratio[1] \in Nat \ {0}, ratio[2] \in Nat \ {0}, RatioAtLeast(cur, base, ratio)
  PROVE  cur > 0 /\ (ratio[1] > ratio[2] => cur > base)
<1>1. PICK n \in Nat \ {0}, d \in Nat \ {0} : n = ratio[1] /\ d = ratio[2]
  OBVIOUS
<1>2. cur * d >= n * base
  BY <1>1 DEF RatioAtLeast
<1>3. n * base > 0 /\ n * base \in Int /\ cur * d \in Int
  OBVIOUS
<1>4. cur * d > 0
  BY <1>2, <1>3
<1>5. cur > 0
  BY <1>4, GainIsPositive
<1>6. ASSUME n > d, cur <= base PROVE FALSE
  <2>1. cur * d <= base * d
    BY <1>6
  <2>2. base * d < base * n
    BY <1>6
  <2>3. base * n = n * base /\ base * d \in Int
    OBVIOUS
  <2> QED
    BY <1>2, <1>3, <2>1, <2>2, <2>3
<1> QED
  BY <1>1, <1>5, <1>6

LEMMA RatioFallsBehind ==
  ASSUME NEW cur \in Int, NEW base \in Int, base > 0, NEW ratio,
         ratio[1] \in Nat \ {0}, ratio[2] \in Nat \ {0}, RatioAtMost(cur, base, ratio), ratio[1] < ratio[2]
  PROVE  cur < base
<1>1. PICK n \in Nat \ {0}, d \in Nat \ {0} : n = ratio[1] /\ d = ratio[2]
  OBVIOUS
<1>2. cur * d <= n * base /\ n < d
  BY <1>1 DEF RatioAtMost
<1>3. ASSUME cur >= base PROVE FALSE
  <2>1. cur * d >= base * d
    BY <1>3
  <2>2. base * d > base * n
    BY <1>2
  <2>3. base * n = n * base /\ base * d \in Int /\ cur * d \in Int /\ n * base \in Int
    OBVIOUS
  <2> QED
    BY <1>2, <2>1, <2>2, <2>3
<1> QED
  BY <1>3

(* A rank that the cohort reaches has a velocity.                          *)
Upto(cohort, x) == {e \in cohort : e.velocity <= x}
Reached(cohort, k) == {c.velocity : c \in {d \in cohort : Cardinality(Upto(cohort, d.velocity)) >= k}}

LEMMA RankIsReached ==
  ASSUME NEW cohort, IsFiniteSet(cohort), \A c \in cohort : c.velocity \in Int,
         NEW k \in Nat, 0 < k, k <= Cardinality(cohort)
  PROVE  /\ AtRank(cohort, k) \in Int /\ Cardinality(Upto(cohort, AtRank(cohort, k))) >= k
         /\ AtRank(cohort, k) \in Reached(cohort, k)
         /\ \A y \in Reached(cohort, k) : AtRank(cohort, k) <= y
<1> DEFINE all == {c.velocity : c \in cohort}
           f == [c \in cohort |-> c.velocity]
<1>1. IsFiniteSet(all) /\ all \subseteq Int
  <2>1. f \in [cohort -> all] /\ \A x \in all : \E c \in cohort : f[c] = x
    OBVIOUS
  <2>2. all \subseteq Int
    OBVIOUS
  <2> HIDE DEF f, all
  <2>3. f \in Surjection(cohort, all)
    BY <2>1 DEF Surjection
  <2> QED
    BY <2>2, <2>3, FS_Surjection
<1>2. cohort # {}
  BY FS_EmptySet
<1>3. PICK top \in cohort : \A c \in cohort : c.velocity <= top.velocity
  <2>1. all # {}
    BY <1>2
  <2>2. PICK x \in all : \A y \in all : y <= x
    <3> HIDE DEF all
    <3> QED
      BY <1>1, <2>1, FiniteHasGreatest
  <2>3. PICK c \in cohort : c.velocity = x
    BY <2>2
  <2>4. \A d \in cohort : d.velocity \in all
    OBVIOUS
  <2>5. \A d \in cohort : d.velocity <= c.velocity
    BY <2>2, <2>3, <2>4
  <2> QED
    BY <2>5
<1>4. Reached(cohort, k) # {}
  <2>1. Upto(cohort, top.velocity) = cohort
    BY <1>3 DEF Upto
  <2>2. Cardinality(Upto(cohort, top.velocity)) >= k
    BY <2>1, FS_CardinalityType
  <2>3. top.velocity \in Reached(cohort, k)
    BY <2>2 DEF Reached
  <2> QED
    BY <2>3
<1>5. Reached(cohort, k) \subseteq all
  BY DEF Reached
<1>6. IsFiniteSet(Reached(cohort, k)) /\ Reached(cohort, k) \subseteq Int
  <2> HIDE DEF all
  <2> QED
    BY <1>1, <1>5, CountOfFinite
<1>7. \E x \in Reached(cohort, k) : \A y \in Reached(cohort, k) : x <= y
  BY <1>4, <1>6, FiniteHasLeast
<1>8. AtRank(cohort, k) = CHOOSE x \in Reached(cohort, k) : \A y \in Reached(cohort, k) : x <= y
  BY DEF AtRank, Reached, Upto
<1>9. /\ AtRank(cohort, k) \in Reached(cohort, k)
      /\ \A y \in Reached(cohort, k) : AtRank(cohort, k) <= y
  BY <1>7, <1>8, Zenon
<1>10. PICK c \in cohort : c.velocity = AtRank(cohort, k) /\ Cardinality(Upto(cohort, c.velocity)) >= k
  BY <1>9 DEF Reached
<1> QED
  BY <1>9, <1>10

(* At least half of a cohort is no faster than some velocity that is at    *)
(* most the median.                                                        *)
LEMMA MedianIsOverHalf ==
  ASSUME NEW cohort, IsFiniteSet(cohort), cohort # {}, \A c \in cohort : c.velocity \in Int
  PROVE  /\ Median(cohort) \in Int
         /\ \E lo \in Int : /\ lo <= Median(cohort)
                            /\ 2 * Cardinality(Upto(cohort, lo)) >= Cardinality(cohort)
<1>1. PICK n : n = Cardinality(cohort)
  OBVIOUS
<1>2. n \in Nat /\ n # 0
  BY <1>1, FS_EmptySet, FS_CardinalityType
<1>3. PICK j \in Nat, k \in Nat : j = (n + 1) \div 2 /\ k = n \div 2 + 1
  <2>1. (n + 1) \div 2 \in Nat /\ n \div 2 + 1 \in Nat
    BY <1>2
  <2> QED
    BY <2>1
<1>4. 0 < j /\ j <= k /\ k <= n /\ 2 * j >= n
  BY <1>2, <1>3
<1>5. PICK lo, hi : lo = AtRank(cohort, j) /\ hi = AtRank(cohort, k)
  OBVIOUS
<1>6. lo \in Int /\ Cardinality(Upto(cohort, lo)) >= j /\ \A y \in Reached(cohort, j) : lo <= y
  BY <1>1, <1>2, <1>4, <1>5, RankIsReached
<1>7. hi \in Int /\ Cardinality(Upto(cohort, hi)) >= k
  BY <1>1, <1>2, <1>4, <1>5, RankIsReached
<1>8. lo <= hi
  <2>1. hi \in Reached(cohort, k)
    BY <1>1, <1>2, <1>4, <1>5, RankIsReached
  <2>2. PICK c \in cohort : c.velocity = hi /\ Cardinality(Upto(cohort, c.velocity)) >= k
    BY <2>1 DEF Reached
  <2>3. Cardinality(Upto(cohort, c.velocity)) >= j
    <3>1. Cardinality(Upto(cohort, c.velocity)) \in Nat
      BY CountOfFinite DEF Upto
    <3> QED
      BY <1>4, <2>2, <3>1
  <2>4. hi \in Reached(cohort, j)
    BY <2>2, <2>3 DEF Reached
  <2> QED
    BY <1>6, <2>4
<1>9. Median(cohort) = (lo + hi) \div 2
  BY <1>1, <1>3, <1>5 DEF Median
<1>10. Median(cohort) \in Int /\ lo <= Median(cohort)
  BY <1>6, <1>7, <1>8, <1>9
<1>11. 2 * Cardinality(Upto(cohort, lo)) >= n
  <2>1. Cardinality(Upto(cohort, lo)) \in Nat
    BY CountOfFinite DEF Upto
  <2> QED
    BY <1>2, <1>4, <1>6, <2>1
<1> QED
  BY <1>1, <1>6, <1>10, <1>11

(* The owned videos a video is compared with.                              *)
Rivals(v) == {w \in Owned \ {v} : Dated(w) /\ AgeBucket(w) = AgeBucket(v) /\ WindowVelocity(w, 0) # NoReading}
Rated(w) == [video |-> w, velocity |-> WindowVelocity(w, 0)]

LEMMA CohortIsRivals ==
  ASSUME MoveInv, NEW v, Dated(v)
  PROVE  /\ Cohort(v) = {Rated(w) : w \in Rivals(v)}
         /\ IsFiniteSet(Rivals(v)) /\ IsFiniteSet(Cohort(v))
         /\ Cardinality(Rivals(v)) <= Cardinality(Cohort(v))
         /\ \A c \in Cohort(v) : c.velocity \in Int /\ c.velocity # NoReading /\ c.video \in Rivals(v)
                                 /\ c = Rated(c.video)
<1>1. Cohort(v) = {Rated(w) : w \in Rivals(v)}
  <2>1. {u \in Owned : Comparable(v, u) /\ WindowVelocity(u, 0) # NoReading} = Rivals(v)
    BY DEF Comparable, Rivals
  <2> QED
    BY <2>1 DEF Cohort, Rated
<1>2. IsFiniteSet(Rivals(v))
  <2>1. Rivals(v) \subseteq Owned
    BY DEF Rivals
  <2> QED
    BY <2>1, CountOfFinite, MovementAssumption
<1> DEFINE f == [w \in Rivals(v) |-> Rated(w)]
<1>3. \A w \in Rivals(v) : Rated(w).video = w /\ Rated(w).velocity = WindowVelocity(w, 0)
  BY DEF Rated
<1>4. f \in [Rivals(v) -> Cohort(v)] /\ (\A c \in Cohort(v) : \E w \in Rivals(v) : f[w] = c)
      /\ \A w, u \in Rivals(v) : f[w] = f[u] => w = u
  <2>1. \A w, u \in Rivals(v) : Rated(w) = Rated(u) => w = u
    BY <1>3
  <2> QED
    BY <1>1, <2>1
<1>5. f \in Surjection(Rivals(v), Cohort(v)) /\ f \in Injection(Rivals(v), Cohort(v))
  <2> HIDE DEF f
  <2> QED
    BY <1>4 DEF Surjection, Injection, IsInjective
<1> HIDE DEF f
<1>6. IsFiniteSet(Cohort(v))
  BY <1>2, <1>5, FS_Surjection
<1>7. Cardinality(Rivals(v)) <= Cardinality(Cohort(v))
  BY <1>5, <1>6, FS_Injection
<1>8. ASSUME NEW c \in Cohort(v)
      PROVE  c.velocity \in Int /\ c.velocity # NoReading /\ c.video \in Rivals(v) /\ c = Rated(c.video)
  <2>1. PICK w \in Rivals(v) : c = Rated(w)
    BY <1>1
  <2>2. c.video = w /\ c.velocity = WindowVelocity(w, 0)
    BY <1>3, <2>1
  <2>3. WindowVelocity(w, 0) # NoReading /\ w \in Videos
    BY MovementAssumption DEF Rivals, MoveInv, Videos
  <2>4. WindowVelocity(w, 0) \in Int
    BY <2>3, VelocityIsRead
  <2> QED
    BY <2>1, <2>2, <2>3, <2>4
<1> QED
  BY <1>1, <1>2, <1>6, <1>7, <1>8

(* What each label says.                                                   *)
Outpaces(v, ratio) ==
  /\ WindowVelocity(v, 0) # NoReading /\ HasBaseline(Cohort(v))
  /\ RatioAtLeast(WindowVelocity(v, 0), Median(Cohort(v)), ratio)

LEMMA LabelsSay ==
  ASSUME NEW v
  PROVE  /\ VideoMovement(v) = "BREAKOUT_CANDIDATE" =>
              /\ Dated(v) /\ Outpaces(v, BreakoutRatio) /\ WindowVelocity(v, 1) \notin {NoReading, 0}
              /\ RatioAtLeast(WindowVelocity(v, 0), WindowVelocity(v, 1), BreakoutAcceleration)
         /\ VideoMovement(v) = "RISING" => Outpaces(v, RisingRatio)
         /\ VideoMovement(v) = "COOLING" =>
              /\ WindowVelocity(v, 0) # NoReading /\ WasMoving(WindowVelocity(v, 1))
              /\ RatioAtMost(WindowVelocity(v, 0), WindowVelocity(v, 1), CoolingRatio)
         /\ WindowVelocity(v, 0) = NoReading => VideoMovement(v) = "INSUFFICIENT_HISTORY"
<1>1. PICK series, cur, prior, cohort :
        /\ series = ContentSeries(v) /\ cur = WindowVelocity(v, 0) /\ prior = WindowVelocity(v, 1)
        /\ cohort = Cohort(v)
  OBVIOUS
<1>2. PICK short, young : /\ short = (Cardinality(series) < MinReadings \/ Span(series) < MinSpan)
                          /\ young = (Dated(v) /\ hour - published[v] <= YoungAge)
  OBVIOUS
<1>3. VideoMovement(v) =
        IF short THEN "INSUFFICIENT_HISTORY"
        ELSE IF /\ young /\ Outpaces(v, BreakoutRatio)
                /\ cur # NoReading /\ prior \notin {NoReading, 0} /\ RatioAtLeast(cur, prior, BreakoutAcceleration)
             THEN "BREAKOUT_CANDIDATE"
        ELSE IF Outpaces(v, RisingRatio) THEN "RISING"
        ELSE IF /\ cur # NoReading /\ prior \notin {NoReading, 0}
                /\ RatioAtMost(cur, prior, CoolingRatio) /\ WasMoving(prior) THEN "COOLING"
        ELSE IF ~(cur # NoReading /\ HasBaseline(cohort)) THEN "INSUFFICIENT_HISTORY"
        ELSE "NORMAL"
  BY <1>1, <1>2 DEF VideoMovement, Outpaces
<1> QED
  BY <1>1, <1>2, <1>3, Zenon DEF Outpaces

(* The hypothesis of the theorem: a breakout ratio is more than one, and a *)
(* cooling one less (config.py).                                           *)
SpeedsTell ==
  /\ BreakoutRatio[1] > BreakoutRatio[2] /\ BreakoutAcceleration[1] > BreakoutAcceleration[2]
  /\ CoolingRatio[1] < CoolingRatio[2]

LEMMA OutpacingGains ==
  ASSUME MoveInv, NEW v \in Videos, NEW ratio, ratio[1] \in Nat \ {0}, ratio[2] \in Nat \ {0},
         Outpaces(v, ratio)
  PROVE  /\ Dated(v)
         /\ WindowVelocity(v, 0) \in Int /\ WindowVelocity(v, 0) > 0
         /\ ratio[1] > ratio[2] => Median(Cohort(v)) < WindowVelocity(v, 0)
<1>1. PICK cur, cohort : cur = WindowVelocity(v, 0) /\ cohort = Cohort(v)
  OBVIOUS
<1>2. cur # NoReading /\ cohort # {} /\ Median(cohort) > 0 /\ RatioAtLeast(cur, Median(cohort), ratio)
  BY <1>1 DEF Outpaces, HasBaseline
<1>3. cur \in Int
  BY <1>1, <1>2, VelocityIsRead
<1>6. Dated(v)
  BY <1>1, <1>2 DEF Cohort, Comparable
<1>4. IsFiniteSet(cohort) /\ \A c \in cohort : c.velocity \in Int
  BY <1>1, <1>6, CohortIsRivals
<1>5. Median(cohort) \in Int
  BY <1>2, <1>4, MedianIsOverHalf
<1> QED
  BY <1>1, <1>2, <1>3, <1>6, <1>5, RatioOutpaces

(* A video that moves gained views in the window.                          *)
LEMMA MovingGains ==
  ASSUME MoveInv
  PROVE  MovingIsGaining
<1> SUFFICES ASSUME NEW v \in Moving
             PROVE  \E g, h \in Recent(v, 0) : g < h /\ gathered[v][g] < gathered[v][h]
  BY DEF MovingIsGaining
<1>1. v \in Videos /\ (Outpaces(v, RisingRatio) \/ Outpaces(v, BreakoutRatio))
  BY LabelsSay DEF Moving
<1>2. WindowVelocity(v, 0) \in Int /\ WindowVelocity(v, 0) > 0
  <2>1. \A ratio \in {RisingRatio, BreakoutRatio} : ratio[1] \in Nat \ {0} /\ ratio[2] \in Nat \ {0}
    BY MovementAssumption
  <2> QED
    BY <1>1, <2>1, OutpacingGains
<1>3. WindowVelocity(v, 0) # NoReading
  BY <1>2, MovementAssumption
<1> QED
  BY <1>1, <1>2, <1>3, VelocityIsRead

(* A video that cools had gained views in the window before.               *)
LEMMA CoolingFallsBehind ==
  ASSUME MoveInv, SpeedsTell
  PROVE  CoolingIsSlower
<1> SUFFICES ASSUME NEW v \in Videos, VideoMovement(v) = "COOLING"
             PROVE  /\ \E g, h \in Recent(v, 1) : g < h /\ gathered[v][g] < gathered[v][h]
                    /\ WindowVelocity(v, 0) < WindowVelocity(v, 1)
  BY DEF CoolingIsSlower
<1>1. PICK cur, prior : cur = WindowVelocity(v, 0) /\ prior = WindowVelocity(v, 1)
  OBVIOUS
<1>2. cur # NoReading /\ prior # NoReading /\ prior > 0 /\ RatioAtMost(cur, prior, CoolingRatio)
  BY <1>1, LabelsSay DEF WasMoving
<1>3. cur \in Int /\ prior \in Int
  BY <1>1, <1>2, VelocityIsRead
<1>4. \E g, h \in Recent(v, 1) : g < h /\ gathered[v][g] < gathered[v][h]
  BY <1>1, <1>2, VelocityIsRead
<1>5. CoolingRatio[1] \in Nat \ {0} /\ CoolingRatio[2] \in Nat \ {0} /\ CoolingRatio[1] < CoolingRatio[2]
  BY MovementAssumption DEF SpeedsTell
<1>6. cur < prior
  BY <1>2, <1>3, <1>5, RatioFallsBehind
<1> QED
  BY <1>1, <1>4, <1>6

(* The lower half of a cohort, up to a velocity below that of the video,   *)
(* is one video for each of its entries.                                   *)
LEMMA HalfIsSlower ==
  ASSUME MoveInv, NEW v \in Videos, Dated(v), Cohort(v) # {}, NEW cur \in Int, Median(Cohort(v)) < cur,
         NEW slower, slower = {w \in Rivals(v) : WindowVelocity(w, 0) < cur}
  PROVE  slower # {} /\ 2 * Cardinality(slower) >= Cardinality(Rivals(v))
<1>1. PICK cohort : cohort = Cohort(v)
  OBVIOUS
<1>2. /\ IsFiniteSet(Rivals(v)) /\ IsFiniteSet(cohort) /\ Cardinality(Rivals(v)) <= Cardinality(cohort)
      /\ \A c \in cohort : c.velocity \in Int /\ c.video \in Rivals(v) /\ c = Rated(c.video)
  BY <1>1, CohortIsRivals
<1>3. Median(cohort) \in Int
  BY <1>1, <1>2, MedianIsOverHalf
<1>4. PICK lo \in Int : lo <= Median(cohort) /\ 2 * Cardinality(Upto(cohort, lo)) >= Cardinality(cohort)
  BY <1>1, <1>2, MedianIsOverHalf
<1>5. PICK low : low = Upto(cohort, lo)
  OBVIOUS
<1>6. \A c \in low : c \in cohort /\ c.video \in slower
  <2>1. \A c \in low : c \in cohort /\ c.velocity <= lo
    BY <1>5 DEF Upto
  <2>2. \A w : Rated(w).velocity = WindowVelocity(w, 0)
    BY DEF Rated
  <2> TAKE c \in low
  <2>3. c \in cohort /\ c.velocity \in Int /\ c.velocity <= lo /\ c.video \in Rivals(v)
    BY <1>2, <2>1
  <2>4. c.velocity = WindowVelocity(c.video, 0)
    BY <1>2, <2>2, <2>3
  <2>5. c.velocity < cur
    BY <1>1, <1>3, <1>4, <2>3
  <2> QED
    BY <2>3, <2>4, <2>5
<1> DEFINE f == [c \in low |-> c.video]
<1>7. f \in Injection(low, slower)
  <2>1. f \in [low -> slower]
    BY <1>6
  <2>2. \A c, d \in low : f[c] = f[d] => c = d
    <3>1. \A c \in low : f[c] = c.video /\ c = Rated(c.video)
      BY <1>2, <1>6
    <3> HIDE DEF f
    <3> QED
      BY <3>1
  <2> HIDE DEF f
  <2> QED
    BY <2>1, <2>2 DEF Injection, IsInjective
<1> HIDE DEF f
<1>8. IsFiniteSet(slower) /\ Cardinality(slower) \in Nat
  <2>1. slower \subseteq Rivals(v)
    OBVIOUS
  <2> QED
    BY <1>2, <2>1, CountOfFinite
<1>9. Cardinality(low) <= Cardinality(slower) /\ Cardinality(low) \in Nat
  <2>1. Cardinality(low) <= Cardinality(slower)
    BY <1>7, <1>8, FS_Injection
  <2>2. Cardinality(low) \in Nat
    BY <1>2, <1>5, CountOfFinite DEF Upto
  <2> QED
    BY <2>1, <2>2
<1>10. Cardinality(cohort) \in Nat /\ Cardinality(cohort) # 0 /\ Cardinality(Rivals(v)) \in Nat
  BY <1>1, <1>2, FS_EmptySet, FS_CardinalityType
<1>11. Cardinality(slower) # 0
  BY <1>4, <1>5, <1>8, <1>9, <1>10
<1>12. slower # {}
  BY <1>11, FS_EmptySet
<1>13. 2 * Cardinality(slower) >= Cardinality(Rivals(v))
  BY <1>2, <1>4, <1>5, <1>8, <1>9, <1>10
<1> QED
  BY <1>12, <1>13

(* A breakout outpaces its cohort, and itself.                             *)
LEMMA BreakoutIsFaster ==
  ASSUME MoveInv, SpeedsTell
  PROVE  BreakoutOutpaces
<1> SUFFICES ASSUME NEW v \in Videos, VideoMovement(v) = "BREAKOUT_CANDIDATE",
                    NEW slower, slower = {w \in Rivals(v) : WindowVelocity(w, 0) < WindowVelocity(v, 0)}
             PROVE  /\ slower # {} /\ 2 * Cardinality(slower) >= Cardinality(Rivals(v))
                    /\ WindowVelocity(v, 1) # NoReading /\ WindowVelocity(v, 1) < WindowVelocity(v, 0)
  BY DEF BreakoutOutpaces, Rivals
<1>1. PICK cur, prior : cur = WindowVelocity(v, 0) /\ prior = WindowVelocity(v, 1)
  OBVIOUS
<1>2. /\ Dated(v) /\ Outpaces(v, BreakoutRatio) /\ prior # NoReading /\ prior # 0
      /\ RatioAtLeast(cur, prior, BreakoutAcceleration)
  BY <1>1, LabelsSay
<1>3. \A ratio \in {BreakoutRatio, BreakoutAcceleration} :
        ratio[1] \in Nat \ {0} /\ ratio[2] \in Nat \ {0} /\ ratio[1] > ratio[2]
  BY MovementAssumption DEF SpeedsTell
<1>4. cur \in Int /\ cur > 0 /\ Median(Cohort(v)) < cur
  BY <1>1, <1>2, <1>3, OutpacingGains
<1>5. slower # {} /\ 2 * Cardinality(slower) >= Cardinality(Rivals(v))
  <2>1. Cohort(v) # {}
    BY <1>2 DEF Outpaces, HasBaseline
  <2>2. slower = {w \in Rivals(v) : WindowVelocity(w, 0) < cur}
    BY <1>1
  <2> QED
    BY <1>2, <1>4, <2>1, <2>2, HalfIsSlower
<1>6. prior \in Int
  BY <1>1, <1>2, VelocityIsRead
<1>7. prior > 0
  <2>1. PICK n \in Nat \ {0}, d \in Nat \ {0} : n = BreakoutAcceleration[1] /\ d = BreakoutAcceleration[2]
    BY <1>3
  <2>2. CASE prior < 0
    <3>1. cur * d <= n * prior
      BY <1>2, <1>4, <1>6, <2>1, <2>2 DEF RatioAtLeast
    <3>2. cur * d > 0 /\ cur * d \in Int
      BY <1>4
    <3>3. n * prior \in Int /\ n * prior < 0
      BY <1>6, <2>2
    <3> QED
      BY <3>1, <3>2, <3>3
  <2> QED
    BY <1>2, <1>6, <2>2
<1>8. prior < cur
  BY <1>2, <1>3, <1>4, <1>6, <1>7, RatioOutpaces
<1> QED
  BY <1>1, <1>2, <1>5, <1>8

(* A window with fewer than two readings has no velocity, so nothing is    *)
(* said to move or to cool.                                                *)
LEMMA StaleSaysNothing ==
  ASSUME MoveInv
  PROVE  StaleIsSilent
<1> SUFFICES ASSUME NEW v \in Videos, Cardinality(Recent(v, 0)) < 2
             PROVE  VideoMovement(v) = "INSUFFICIENT_HISTORY"
  BY DEF StaleIsSilent
<1>1. Cardinality(Recent(v, 0)) \in Nat
  BY RecentIsFinite
<1>2. WindowVelocity(v, 0) = NoReading
  BY <1>1, VelocityIsRead
<1> QED
  BY <1>2, LabelsSay

(* The readings do not change as the hours pass.                           *)
LEMMA MoveInvHolds == MovementSpec => []MoveInv
<1>1. MovementInit => MoveInv
  BY DEF MovementInit, MoveInv
<1>2. MoveInv /\ [MovementNext]_movementVars => MoveInv'
  BY DEF MoveInv, MovementNext, PassHour, movementVars
<1> QED
  BY <1>1, <1>2, PTL DEF MovementSpec

(* What a video is said to do is what its readings show, for every series  *)
(* of readings, with losses and gaps, and every cohort: a video that moves *)
(* gained views in the window, a cooling one gained faster before, a       *)
(* breakout outpaces half of the owned videos of its age and itself, and a *)
(* video not read in the window is not said to move (classify_movement).   *)
THEOREM LabelsStayEarned == SpeedsTell => (MovementSpec => []LabelsAreEarned)
<1> SUFFICES ASSUME SpeedsTell PROVE MovementSpec => []LabelsAreEarned
  OBVIOUS
<1>1. MoveInv => LabelsAreEarned
  BY MovingGains, CoolingFallsBehind, BreakoutIsFaster, StaleSaysNothing DEF LabelsAreEarned
<1> QED
  BY <1>1, MoveInvHolds, PTL
=============================================================================
