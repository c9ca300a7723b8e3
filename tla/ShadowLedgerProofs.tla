--------------------------- MODULE ShadowLedgerProofs ---------------------------
(***************************************************************************)
(* Theorems about ShadowLedger, for every value of its constants: what a   *)
(* race of observers cannot spoil, and what one observer at a time ensures *)
(* besides, up to the abstract life of the event, Visibility.              *)
(***************************************************************************)
EXTENDS ShadowLedger, FiniteSetTheorems, TLAPS

USE LedgerAssumption

--------------------------------------------------------------------------------
(* Types.                                                                  *)

\* A capture that found nothing is a capture, and being idle is no request.
LEMMA RequestTypes ==
  ASSUME NEW r \in Requests
  PROVE  /\ r.status \in CAPTURE_STATUSES /\ r.observed_at \in Stamps
         /\ r.capture \in Captures
         /\ r.status # PRESENT => r.capture = Nothing
         /\ r # Idle
<1>1. Nothing \in Captures
  BY DEF Nothing, Captures
<1>2. /\ r.status \in Statuses /\ r.observed_at \in Stamps /\ r.capture \in Captures
      /\ r.status # PRESENT => r.capture = Nothing
  BY <1>1 DEF Requests
<1>3. r.status # "idle"
  BY <1>2 DEF CAPTURE_STATUSES, PRESENT, AUTHORITATIVE_ABSENCE, ABSENT, REMOVED,
     NON_AUTHORITATIVE
<1>. QED
  BY <1>2, <1>3 DEF Idle

\* A merged state is a state: a field that was not read keeps what it had.
LEMMA MergeFacts ==
  ASSUME NEW old \in States, NEW capture \in Captures
  PROVE  /\ Merge(old, capture) \in States
         /\ \A f \in Fields : capture[f] = Unseen => Merge(old, capture)[f] = old[f]
<1>1. \A f \in Fields : Merge(old, capture)[f] =
        CASE capture[f] \in Values -> capture[f]
          [] capture[f] = Blank -> Null
          [] capture[f] = ExplicitNull /\ f \in NullableFields -> Null
          [] OTHER -> old[f]
  BY DEF Merge
<1>2. \A f \in Fields : Merge(old, capture)[f] \in Values \cup {Null}
  BY <1>1 DEF States
<1>3. Merge(old, capture) \in States
  BY <1>2 DEF Merge, States
<1>4. ASSUME NEW f \in Fields, capture[f] = Unseen PROVE Merge(old, capture)[f] = old[f]
  BY <1>1, <1>4
<1>. QED
  BY <1>3, <1>4

LEMMA SeenType ==
  ASSUME LedgerTypeOK, NEW o \in Observers
  PROVE  /\ Seen(o).effective \in States
         /\ Seen(o).absence_count \in Nat
         /\ latest[o] # 0 => latest[o] \in DOMAIN states /\ Seen(o) = states[latest[o]]
<1>1. CASE latest[o] = 0
  BY <1>1 DEF Seen, NoRow, Empty, States
<1>2. CASE latest[o] # 0
  <2>1. latest[o] \in DOMAIN states
    BY <1>2 DEF LedgerTypeOK
  <2>2. states[latest[o]] \in Rows
    BY <2>1 DEF LedgerTypeOK
  <2>. QED
    BY <1>2, <2>1, <2>2 DEF Seen, Rows
<1>. QED
  BY <1>1, <1>2

\* An insert appends one row and leaves the others.
LEMMA InsertFacts ==
  ASSUME states \in Seq(Rows), NEW row \in Rows, NEW kinds, Insert(row, kinds)
  PROVE  /\ states' \in Seq(Rows) /\ Len(states') = Len(states) + 1
         /\ DOMAIN states = 1 .. Len(states)
         /\ DOMAIN states' = DOMAIN states \cup {Len(states) + 1}
         /\ Len(states) + 1 \notin DOMAIN states
         /\ \A i \in DOMAIN states : states'[i] = states[i]
         /\ states'[Len(states) + 1] = row
         /\ transitions' = transitions \cup {[to |-> Len(states) + 1, kind |-> k] : k \in kinds}
<1>1. states' = Append(states, row) /\ Len(states) \in Nat
  BY DEF Insert
<1>2. DOMAIN states = 1 .. Len(states) /\ DOMAIN states' = 1 .. Len(states')
  BY <1>1
<1>3. Len(states') = Len(states) + 1 /\ states' \in Seq(Rows)
  BY <1>1
<1>. QED
  BY <1>1, <1>2, <1>3 DEF Insert

\* The row of a capture is a row.
LEMMA NewRowType ==
  ASSUME LedgerTypeOK, NEW o \in Observers, request[o] # Idle, NEW effective \in States,
         NEW late \in BOOLEAN, NEW count \in Nat, NEW previous \in 0 .. Len(states)
  PROVE  NewRow(o, effective, late, count, previous) \in Rows
<1>1. request[o] \in Requests
  BY DEF LedgerTypeOK
<1>2. request[o].status \in CAPTURE_STATUSES /\ request[o].observed_at \in Stamps
      /\ request[o].capture \in Captures
  BY <1>1, RequestTypes
<1>3. previous \in Nat
  BY DEF LedgerTypeOK
<1>. QED
  BY <1>2, <1>3 DEF NewRow, Rows

--------------------------------------------------------------------------------
(* Whoever writes, a row is written in one of three ways.                  *)

Finishes(o, row, kinds) == request[o] # Idle /\ Insert(row, kinds) /\ Done(o)

\* Beside the history: for audit only.
Audits(o, row) ==
  /\ row.out_of_order /\ row.previous = 0
  /\ Finishes(o, row, {})

\* Onto the latest row: an absence, which carries the state forward,
Loses(o, row) ==
  /\ request[o].status \in AUTHORITATIVE_ABSENCE
  /\ row = NewRow(o, Seen(o).effective, FALSE, AbsenceCount(o), latest[o])
  /\ Fresh(o) /\ Finishes(o, row, IF Disappears(o) THEN {"EVENT_DISAPPEARED"} ELSE {})

\* or a presence, which merges what it read.
Presents(o, row) ==
  /\ request[o].status = PRESENT
  /\ row = NewRow(o, Effective(o), FALSE, 0, latest[o])
  /\ Fresh(o) /\ Finishes(o, row, Announced(o))

\* Or nothing is written.
Quiet(o) == (Begin(o) \/ Done(o)) /\ UNCHANGED <<states, transitions>>

LEMMA StepCases ==
  ASSUME LedgerTypeOK, LedgerNext
  PROVE  \E o \in Observers :
           \/ Quiet(o)
           \/ \E row \in Rows : Audits(o, row) \/ Loses(o, row) \/ Presents(o, row)
<1>1. PICK o \in Observers :
        \/ Begin(o)
        \/ Audit(o) \/ DropDuplicate(o) \/ IgnoreFailure(o)
        \/ RecordAbsence(o) \/ SkipUnchanged(o) \/ RecordPresent(o)
  BY DEF LedgerNext
<1>2. CASE Begin(o) \/ DropDuplicate(o) \/ IgnoreFailure(o) \/ SkipUnchanged(o)
  BY <1>2 DEF Begin, DropDuplicate, IgnoreFailure, SkipUnchanged, Quiet
<1>3. CASE Audit(o)
  <2>. DEFINE effective == [f \in Fields |-> IF request[o].capture[f] \in Values
                                               THEN request[o].capture[f] ELSE Null]
              row == NewRow(o, effective, TRUE, 0, 0)
  <2>1. effective \in States
    BY DEF States
  <2>2. 0 \in 0 .. Len(states) /\ 0 \in Nat
    BY DEF LedgerTypeOK
  <2>3. row \in Rows
    BY <1>3, <2>1, <2>2, NewRowType DEF Audit
  <2>4. Audits(o, row)
    BY <1>3 DEF Audit, Audits, Finishes, NewRow
  <2>. QED
    BY <2>3, <2>4
<1>4. CASE RecordAbsence(o)
  <2>. DEFINE row == NewRow(o, Seen(o).effective, FALSE, AbsenceCount(o), latest[o])
  <2>1. AbsenceCount(o) \in Nat
    BY SeenType DEF AbsenceCount
  <2>2. latest[o] \in 0 .. Len(states)
    BY DEF LedgerTypeOK
  <2>3. row \in Rows
    BY <1>4, <2>1, <2>2, SeenType, NewRowType DEF RecordAbsence
  <2>4. Loses(o, row)
    BY <1>4 DEF RecordAbsence, Loses, Finishes
  <2>. QED
    BY <2>3, <2>4
<1>5. CASE RecordPresent(o)
  <2>. DEFINE row == NewRow(o, Effective(o), FALSE, 0, latest[o])
  <2>1. request[o].capture \in Captures
    BY <1>5, RequestTypes DEF RecordPresent, LedgerTypeOK
  <2>2. Effective(o) \in States
    BY <2>1, SeenType, MergeFacts DEF Effective
  <2>3. latest[o] \in 0 .. Len(states) /\ 0 \in Nat
    BY DEF LedgerTypeOK
  <2>4. row \in Rows
    BY <1>5, <2>2, <2>3, NewRowType DEF RecordPresent
  <2>5. Presents(o, row)
    BY <1>5 DEF RecordPresent, Presents, Finishes
  <2>. QED
    BY <2>4, <2>5
<1>. QED
  BY <1>1, <1>2, <1>3, <1>4, <1>5

\* What is announced with a new row, in terms of the states it lies between.
Explains(kinds, old, new) ==
  LET changed == {f \in Fields : old[f] # new[f]}
  IN  kinds \cap Subjects =
        (changed \ PriceFields) \cup IF changed \cap PriceFields = {} THEN {} ELSE {"price"}

LEMMA SubjectNames ==
  /\ Subjects \subseteq Kinds /\ "price" \in Subjects
  /\ Subjects \cap {"EVENT_FIRST_SEEN", "EVENT_DISAPPEARED", "EVENT_REAPPEARED"} = {}
BY DEF Subjects, Kinds

\* What a log says of a row, and TransitionsExplainState in these terms.
Says(log, i, k) == [to |-> i, kind |-> k] \in log
Said(log, i) == {k \in Kinds : Says(log, i, k)}

LEMMA SaidExplains ==
  TransitionsExplainState <=>
    \A i \in History : states[i].previous # 0 =>
      Explains(Said(transitions, i), states[states[i].previous].effective, states[i].effective)
<1>1. \A i : {s \in Subjects : Has(i, s)} = Said(transitions, i) \cap Subjects
  BY SubjectNames DEF Said, Says, Has
<1>. QED
  BY <1>1 DEF TransitionsExplainState, Explains

LEMMA ChangesExplain ==
  ASSUME NEW old \in States, NEW capture \in Captures
  PROVE  /\ Changes(old, capture, Merge(old, capture)) \subseteq Subjects
         /\ Explains(Changes(old, capture, Merge(old, capture)), old, Merge(old, capture))
<1>. DEFINE new == Merge(old, capture)
            kinds == Changes(old, capture, new)
            changed == {f \in Fields : old[f] # new[f]}
<1>1. \A f \in Fields : new[f] # old[f] => capture[f] # Unseen
  BY MergeFacts
<1>. HIDE DEF new
<1>2. kinds = (changed \ PriceFields) \cup IF changed \cap PriceFields = {} THEN {} ELSE {"price"}
  <2>1. {f \in Fields \ PriceFields : capture[f] # Unseen /\ new[f] # old[f]}
           = changed \ PriceFields
    BY <1>1
  <2>2. /\ \E f \in PriceFields : capture[f] # Unseen
        /\ \E f \in PriceFields : new[f] # old[f]
        <=> changed \cap PriceFields # {}
    BY <1>1
  <2>. QED
    BY <2>1, <2>2 DEF Changes
<1>3. kinds \subseteq Subjects
  BY <1>2 DEF Subjects
<1>4. Explains(kinds, old, new)
  BY <1>2, <1>3 DEF Explains
<1>. QED
  BY <1>3, <1>4 DEF new

\* What a presence announces are kinds of transitions.
LEMMA AnnouncedKinds ==
  ASSUME LedgerTypeOK, NEW o \in Observers, NEW row, Presents(o, row)
  PROVE  Announced(o) \in SUBSET Kinds
<1>1. request[o].capture \in Captures
  BY RequestTypes DEF Presents, Finishes, LedgerTypeOK
<1>2. Changes(Seen(o).effective, request[o].capture, Effective(o)) \subseteq Subjects
  BY <1>1, SeenType, ChangesExplain DEF Effective
<1>. QED
  BY <1>2, SubjectNames DEF Announced, Kinds

\* A presence announces what its state differs in, an absence no change.
LEMMA RowExplains ==
  ASSUME LedgerTypeOK, NEW o \in Observers, NEW row \in Rows, Presents(o, row) \/ Loses(o, row)
  PROVE  \E kinds \in SUBSET Kinds :
           /\ Finishes(o, row, kinds)
           /\ latest[o] # 0 => Explains(kinds, states[latest[o]].effective, row.effective)
<1>1. CASE Presents(o, row)
  <2>1. request[o].capture \in Captures
    BY <1>1, RequestTypes DEF Presents, Finishes, LedgerTypeOK
  <2>2. Seen(o).effective \in States
    BY SeenType
  <2>. DEFINE changes == Changes(Seen(o).effective, request[o].capture, Effective(o))
  <2>3. changes \subseteq Subjects /\ Explains(changes, Seen(o).effective, Effective(o))
    BY <2>1, <2>2, ChangesExplain DEF Effective
  <2>. HIDE DEF changes
  <2>4. Announced(o) \subseteq Kinds
    BY <2>3, SubjectNames DEF Announced, changes, Kinds
  <2>5. latest[o] # 0 => Announced(o) \cap Subjects = changes \cap Subjects
    BY SubjectNames DEF Announced, changes
  <2>6. row.effective = Effective(o)
    BY <1>1 DEF Presents, NewRow
  <2>7. latest[o] # 0 => Seen(o) = states[latest[o]]
    BY SeenType
  <2>8. latest[o] # 0 => Explains(Announced(o), states[latest[o]].effective, row.effective)
    BY <2>3, <2>5, <2>6, <2>7 DEF Explains
  <2>. QED
    BY <1>1, <2>4, <2>8 DEF Presents
<1>2. CASE Loses(o, row)
  <2>. DEFINE kinds == IF Disappears(o) THEN {"EVENT_DISAPPEARED"} ELSE {}
  <2>1. kinds \in SUBSET Kinds /\ kinds \cap Subjects = {}
    BY SubjectNames DEF Kinds
  <2>2. row.effective = Seen(o).effective
    BY <1>2 DEF Loses, NewRow
  <2>3. latest[o] # 0 => Explains(kinds, states[latest[o]].effective, row.effective)
    BY <2>1, <2>2, SeenType DEF Explains
  <2>4. Finishes(o, row, kinds)
    BY <1>2 DEF Loses
  <2>. QED
    BY <2>1, <2>3, <2>4
<1>. QED
  BY <1>1, <1>2

--------------------------------------------------------------------------------
(* However the observers race.                                             *)

\* What an observer read as the latest row is a row of the history.
LatestIsCurrent == \A o \in Observers : latest[o] \in History \cup {0}

RaceInv == LedgerTypeOK /\ AuditStandsAside /\ TransitionsExplainState /\ LatestIsCurrent

\* A step that writes nothing spoils nothing.
LEMMA QuietStep ==
  ASSUME RaceInv, NEW o \in Observers, Quiet(o)
  PROVE  RaceInv'
<1>. USE DEF RaceInv, LedgerTypeOK
<1>1. UNCHANGED <<states, transitions>>
  BY DEF Quiet
<1>2. CASE Begin(o)
  <2>1. PICK r \in Requests, l \in Latest :
          request' = [request EXCEPT ![o] = r] /\ latest' = [latest EXCEPT ![o] = l]
    BY <1>2 DEF Begin
  <2>2. l \in History \cup {0}
    BY DEF Latest, Forward, History
  <2>3. l \in 0 .. Len(states)
    BY <2>2 DEF History
  <2>4. r # Idle
    BY RequestTypes
  <2>5. LedgerTypeOK'
    BY <1>1, <2>1, <2>3, <2>4
  <2>6. LatestIsCurrent'
    BY <1>1, <2>1, <2>2 DEF LatestIsCurrent, History
  <2>. QED
    BY <1>1, <2>5, <2>6 DEF AuditStandsAside, TransitionsExplainState, History, Has
<1>3. CASE Done(o)
  <2>1. LedgerTypeOK' /\ LatestIsCurrent'
    BY <1>1, <1>3 DEF Done, LatestIsCurrent, History
  <2>. QED
    BY <1>1, <2>1 DEF AuditStandsAside, TransitionsExplainState, History, Has
<1>. QED
  BY <1>2, <1>3 DEF Quiet

\* Nor does one that writes a row, built on a row of the history or on none,
\* with transitions that explain it.
LEMMA WritingStep ==
  ASSUME RaceInv, NEW o \in Observers, NEW row \in Rows, NEW kinds \in SUBSET Kinds,
         Finishes(o, row, kinds), row.previous \in History \cup {0},
         row.out_of_order => kinds = {},
         ~row.out_of_order /\ row.previous # 0 =>
            Explains(kinds, states[row.previous].effective, row.effective)
  PROVE  RaceInv'
<1>. DEFINE n == Len(states) + 1
<1>. USE DEF RaceInv, LedgerTypeOK
<1>0. Insert(row, kinds) /\ Done(o)
  BY DEF Finishes
<1>1. /\ states' \in Seq(Rows) /\ Len(states') = n
      /\ DOMAIN states = 1 .. Len(states)
      /\ DOMAIN states' = DOMAIN states \cup {n} /\ n \notin DOMAIN states
      /\ \A i \in DOMAIN states : states'[i] = states[i]
      /\ states'[n] = row
      /\ transitions' = transitions \cup {[to |-> n, kind |-> k] : k \in kinds}
  BY <1>0, InsertFacts
<1>2. /\ \A i \in DOMAIN states : i \in History' <=> i \in History
      /\ n \in History' <=> ~row.out_of_order
      /\ History \subseteq DOMAIN states
  BY <1>1 DEF History
<1>3. /\ \A i \in DOMAIN states, k \in Kinds :
           Says(transitions', i, k) <=> Says(transitions, i, k)
      /\ \A k \in Kinds : Says(transitions', n, k) <=> k \in kinds
  <2>1. ASSUME NEW i, NEW k \in Kinds
        PROVE  Says(transitions', i, k) <=> Says(transitions, i, k) \/ (i = n /\ k \in kinds)
    <3>1. Says(transitions', i, k) <=>
            \/ [to |-> i, kind |-> k] \in transitions
            \/ \E c \in kinds : [to |-> i, kind |-> k] = [to |-> n, kind |-> c]
      BY <1>1 DEF Says
    <3>2. \A c : [to |-> i, kind |-> k] = [to |-> n, kind |-> c] <=> i = n /\ k = c
      OBVIOUS
    <3>. QED
      BY <3>1, <3>2 DEF Says
  <2>2. \A k \in Kinds : ~Says(transitions, n, k)
    BY <1>1 DEF Says
  <2>3. n \notin DOMAIN states
    BY <1>1
  <2>. HIDE DEF n
  <2>. QED
    BY <2>1, <2>2, <2>3
<1>4. Len(states) \in Nat
  OBVIOUS
<1>5. LedgerTypeOK'
  <2>1. \A i \in DOMAIN states' : states'[i].previous < i
    <3>1. row.previous < n
      BY <1>1, <1>2, <1>4
    <3>. QED
      BY <1>1, <3>1
  <2>2. transitions' \subseteq [to : DOMAIN states', kind : Kinds]
    BY <1>1
  <2>3. request' \in [Observers -> Requests \cup {Idle}]
    BY <1>0 DEF Done
  <2>4. latest' \in [Observers -> 0 .. Len(states')]
    BY <1>0, <1>1, <1>4 DEF Done
  <2>5. \A p \in Observers : request'[p] = Idle => latest'[p] = 0
    BY <1>0 DEF Done
  <2>. QED
    BY <1>1, <2>1, <2>2, <2>3, <2>4, <2>5
<1>6. AuditStandsAside'
  <2>1. \A i \in DOMAIN states' : states'[i].previous \in History' \cup {0}
    BY <1>1, <1>2 DEF AuditStandsAside
  <2>2. \A t \in transitions' : t.to \in History'
    <3>1. \A t \in transitions : t.to \in History'
      BY <1>1, <1>2 DEF AuditStandsAside
    <3>2. \A k \in kinds : n \in History'
      BY <1>2
    <3>. QED
      BY <1>1, <3>1, <3>2
  <2>. QED
    BY <2>1, <2>2 DEF AuditStandsAside
<1>7. LatestIsCurrent'
  BY <1>0, <1>2 DEF Done, LatestIsCurrent
<1>8. TransitionsExplainState'
  <2>. SUFFICES ASSUME NEW i \in History', states'[i].previous # 0
                PROVE  Explains(Said(transitions', i), states'[states'[i].previous].effective,
                                states'[i].effective)
    <3>1. \A i : {s \in Subjects : Has(i, s)'} = Said(transitions', i) \cap Subjects
      BY SubjectNames DEF Said, Says, Has
    <3>. QED
      BY <3>1 DEF TransitionsExplainState, Explains
  <2>1. CASE i \in DOMAIN states
    <3>1. i \in History /\ states'[i] = states[i] /\ states[i].previous # 0
      BY <1>1, <1>2, <2>1
    <3>2. states[i].previous \in DOMAIN states
      BY <1>2, <2>1, <3>1 DEF AuditStandsAside
    <3>3. Said(transitions', i) = Said(transitions, i)
      BY <1>3, <2>1 DEF Said
    <3>4. Explains(Said(transitions, i), states[states[i].previous].effective,
                   states[i].effective)
      BY <3>1, SaidExplains
    <3>. QED
      BY <1>1, <3>1, <3>2, <3>3, <3>4
  <2>2. CASE i = n
    <3>1. Said(transitions', n) = kinds
      <4>1. \A k \in Kinds : Says(transitions', n, k) <=> k \in kinds
        BY <1>3
      <4>. HIDE DEF n
      <4>. QED
        BY <4>1 DEF Said
    <3>2. row.previous # 0 /\ row.previous \in DOMAIN states /\ ~row.out_of_order
      BY <1>1, <1>2, <2>2
    <3>3. states'[i] = row /\ states'[row.previous] = states[row.previous]
      BY <1>1, <2>2, <3>2
    <3>4. Explains(kinds, states[row.previous].effective, row.effective)
      BY <3>2
    <3>. HIDE DEF n
    <3>. QED
      BY <2>2, <3>1, <3>3, <3>4
  <2>. QED
    BY <1>1, <2>1, <2>2 DEF History
<1>. QED
  BY <1>5, <1>6, <1>7, <1>8

LEMMA RowFields ==
  ASSUME NEW o \in Observers, NEW row, Presents(o, row) \/ Loses(o, row)
  PROVE  /\ row.out_of_order = FALSE /\ row.previous = latest[o]
         /\ row.observed_at = request[o].observed_at /\ row.capture = request[o].capture
         /\ row.capture_status = request[o].status
BY DEF Presents, Loses, NewRow

LEMMA StepRaceInv == RaceInv /\ [LedgerNext]_ledgerVars => RaceInv'
<1>. SUFFICES ASSUME RaceInv, [LedgerNext]_ledgerVars PROVE RaceInv'
  OBVIOUS
<1>1. CASE UNCHANGED ledgerVars
  BY <1>1 DEF ledgerVars, RaceInv, LedgerTypeOK, AuditStandsAside, TransitionsExplainState,
     LatestIsCurrent, History, Has
<1>2. CASE LedgerNext
  <2>1. PICK o \in Observers :
           \/ Quiet(o)
           \/ \E row \in Rows : Audits(o, row) \/ Loses(o, row) \/ Presents(o, row)
    BY <1>2, StepCases DEF RaceInv
  <2>2. CASE Quiet(o)
    BY <2>2, QuietStep
  <2>3. ASSUME NEW row \in Rows, Audits(o, row) PROVE RaceInv'
    <3>1. {} \in SUBSET Kinds /\ 0 \in History \cup {0}
      OBVIOUS
    <3>. QED
      BY <2>3, <3>1, WritingStep DEF Audits
  <2>4. ASSUME NEW row \in Rows, Presents(o, row) \/ Loses(o, row) PROVE RaceInv'
    <3>1. row.out_of_order = FALSE /\ row.previous = latest[o]
      BY <2>4, RowFields
    <3>2. latest[o] \in History \cup {0}
      BY DEF RaceInv, LatestIsCurrent
    <3>3. PICK kinds \in SUBSET Kinds :
            /\ Finishes(o, row, kinds)
            /\ latest[o] # 0 => Explains(kinds, states[latest[o]].effective, row.effective)
      BY <2>4, RowExplains DEF RaceInv
    <3>. QED
      BY <3>1, <3>2, <3>3, WritingStep
  <2>. QED
    BY <2>1, <2>2, <2>3, <2>4
<1>. QED
  BY <1>1, <1>2

LEMMA InitRaceInv == LedgerInit => RaceInv
BY DEF LedgerInit, RaceInv, LedgerTypeOK, AuditStandsAside, TransitionsExplainState, LatestIsCurrent,
   History

\* Observers that race cannot make the log lie: whatever row a capture was
\* compared with, it is one of the history, and the transitions it appends are
\* exactly the changes against that row.  Audit rows never become anybody's
\* past and announce nothing.
THEOREM LogIsSound == LedgerSpec => []LogExplainsStates
<1>1. RaceInv => LogExplainsStates
  BY DEF RaceInv, LogExplainsStates
<1>. QED
  BY <1>1, InitRaceInv, StepRaceInv, PTL DEF LedgerSpec

--------------------------------------------------------------------------------
(* One observer at a time.                                                 *)

Alone == \A o, p \in Observers : o = p

\* The next row.
Top == Len(states) + 1

LEMMA WriteFacts ==
  ASSUME LedgerTypeOK, NEW o \in Observers, NEW row \in Rows, NEW kinds \in SUBSET Kinds,
         Finishes(o, row, kinds)
  PROVE  /\ Top \in Nat /\ Len(states) \in Nat /\ Len(states') = Top
         /\ \A i \in DOMAIN states : i \in Nat /\ i # 0 /\ i < Top
         /\ DOMAIN states' = DOMAIN states \cup {Top}
         /\ \A i \in DOMAIN states : states'[i] = states[i]
         /\ states'[Top] = row
         /\ History' = IF row.out_of_order THEN History ELSE History \cup {Top}
         /\ History \subseteq DOMAIN states
         /\ \A i, k : Says(transitions', i, k) <=>
                        Says(transitions, i, k) \/ (i = Top /\ k \in kinds)
         /\ \A k : ~Says(transitions, Top, k)
<1>1. Insert(row, kinds) /\ states \in Seq(Rows)
  BY DEF Finishes, LedgerTypeOK
<1>2. /\ states' \in Seq(Rows) /\ Len(states') = Top
      /\ DOMAIN states = 1 .. Len(states)
      /\ DOMAIN states' = DOMAIN states \cup {Top}
      /\ Top \notin DOMAIN states
      /\ \A i \in DOMAIN states : states'[i] = states[i]
      /\ states'[Top] = row
      /\ transitions' = transitions \cup {[to |-> Top, kind |-> k] : k \in kinds}
  BY <1>1, InsertFacts DEF Top
<1>3. Len(states) \in Nat /\ Top \in Nat /\ \A i \in DOMAIN states : i \in Nat /\ i # 0 /\ i < Top
  BY <1>1, <1>2 DEF Top
<1>4. History' = IF row.out_of_order THEN History ELSE History \cup {Top}
  <2>1. \A i \in DOMAIN states : i \in History' <=> i \in History
    BY <1>2 DEF History
  <2>2. Top \in History' <=> ~row.out_of_order
    BY <1>2 DEF History
  <2>3. History' \subseteq DOMAIN states \cup {Top} /\ History \subseteq DOMAIN states
    BY <1>2 DEF History
  <2>4. \A i : i \in History' <=> i \in History \/ (i = Top /\ ~row.out_of_order)
    BY <2>1, <2>2, <2>3, <1>2
  <2>5. CASE row.out_of_order
    BY <2>4, <2>5
  <2>6. CASE ~row.out_of_order
    BY <2>4, <2>6
  <2>. QED
    BY <2>5, <2>6
<1>5. ASSUME NEW i, NEW k
      PROVE  Says(transitions', i, k) <=> Says(transitions, i, k) \/ (i = Top /\ k \in kinds)
  <2>1. Says(transitions', i, k) <=>
          \/ [to |-> i, kind |-> k] \in transitions
          \/ \E c \in kinds : [to |-> i, kind |-> k] = [to |-> Top, kind |-> c]
    BY <1>2 DEF Says
  <2>2. \A c : [to |-> i, kind |-> k] = [to |-> Top, kind |-> c] <=> i = Top /\ k = c
    OBVIOUS
  <2>. QED
    BY <2>1, <2>2 DEF Says
<1>6. ASSUME NEW k PROVE ~Says(transitions, Top, k)
  BY <1>2 DEF Says, LedgerTypeOK
<1>. QED
  BY <1>2, <1>3, <1>4, <1>5, <1>6 DEF History

\* The newest row of the history, 0 when there is none.
IsLast(l) == IF History = {} THEN l = 0 ELSE l \in History /\ \A j \in History : j <= l
RowAt(l) == IF l = 0 THEN NoRow ELSE states[l]

\* Nobody records anything between an observer's read and its write.
ReadsLast == \A o \in Observers : request[o] # Idle => IsLast(latest[o])

LineInv == RaceInv /\ ForwardInOrder /\ ReadsLast

LEMMA HistoryIndices == LedgerTypeOK => \A i \in History : i \in Nat /\ i # 0
BY DEF LedgerTypeOK, History

LEMMA HistoryStamps == LedgerTypeOK => \A i \in History : states[i].observed_at \in Nat
<1>. SUFFICES ASSUME LedgerTypeOK, NEW i \in History PROVE states[i].observed_at \in Nat
  OBVIOUS
<1>1. states[i] \in Rows
  BY DEF History, LedgerTypeOK
<1>2. states[i].observed_at \in Stamps
  BY <1>1 DEF Rows
<1>. QED
  BY <1>2 DEF Stamps

LEMMA LastIsUnique ==
  ASSUME LedgerTypeOK, NEW l, NEW m, IsLast(l), IsLast(m)
  PROVE  l = m
BY HistoryIndices DEF IsLast

\* What _latest finds is the newest row.
LEMMA LatestIsLast ==
  ASSUME LedgerTypeOK, ForwardInOrder, NEW l \in Latest
  PROVE  IsLast(l)
<1>0. Forward = History
  BY DEF Forward, History
<1>1. CASE History = {}
  BY <1>0, <1>1 DEF Latest, IsLast
<1>2. CASE History # {}
  <2>1. l \in History /\ \A j \in History : states[j].observed_at <= states[l].observed_at
    BY <1>0, <1>2 DEF Latest
  <2>2. ASSUME NEW j \in History, l < j PROVE FALSE
    <3>1. states[l].observed_at < states[j].observed_at
      BY <2>1, <2>2 DEF ForwardInOrder
    <3>2. states[l].observed_at \in Nat /\ states[j].observed_at \in Nat
      BY <2>1, HistoryStamps
    <3>. QED
      BY <2>1, <3>1, <3>2
  <2>3. \A j \in History : j <= l
    BY <2>1, <2>2, HistoryIndices
  <2>. QED
    BY <1>2, <2>1, <2>3 DEF IsLast
<1>. QED
  BY <1>1, <1>2

\* Alone, an observer that writes leaves none at work.
LEMMA NobodyReads == ASSUME Alone, LedgerTypeOK, NEW o \in Observers, Done(o) PROVE ReadsLast'
<1>1. request'[o] = Idle
  BY DEF Done, LedgerTypeOK
<1>. QED
  BY <1>1 DEF Alone, ReadsLast

LEMMA StepLineInv == Alone /\ LineInv /\ [LedgerNext]_ledgerVars => LineInv'
<1>. SUFFICES ASSUME Alone, LineInv, [LedgerNext]_ledgerVars PROVE LineInv'
  OBVIOUS
<1>. USE DEF LineInv
<1>0. RaceInv' /\ LedgerTypeOK
  BY StepRaceInv DEF RaceInv
<1>1. CASE UNCHANGED ledgerVars
  BY <1>0, <1>1 DEF ledgerVars, ForwardInOrder, ReadsLast, IsLast, History
<1>2. CASE LedgerNext
  <2>1. PICK o \in Observers :
           \/ Quiet(o)
           \/ \E row \in Rows : Audits(o, row) \/ Loses(o, row) \/ Presents(o, row)
    BY <1>0, <1>2, StepCases
  <2>2. CASE Quiet(o)
    <3>1. ForwardInOrder'
      BY <2>2 DEF Quiet, ForwardInOrder, History
    <3>2. ReadsLast'
      <4>1. CASE Begin(o)
        <5>1. PICK l \in Latest : latest' = [latest EXCEPT ![o] = l]
          BY <4>1 DEF Begin
        <5>2. IsLast(l)'
          BY <1>0, <5>1, <2>2, LatestIsLast DEF Quiet, IsLast, History
        <5>3. \A p \in Observers : latest'[p] = l
          BY <5>1, <1>0 DEF Alone, LedgerTypeOK
        <5>. QED
          BY <5>2, <5>3 DEF ReadsLast
      <4>2. CASE Done(o)
        BY <1>0, <4>2, NobodyReads
      <4>. QED
        BY <2>2, <4>1, <4>2 DEF Quiet
    <3>. QED
      BY <1>0, <3>1, <3>2
  <2>3. ASSUME NEW row \in Rows, Audits(o, row) PROVE LineInv'
    <3>1. Finishes(o, row, {}) /\ row.out_of_order /\ Done(o)
      BY <2>3 DEF Audits, Finishes
    <3>2. /\ History' = History
          /\ \A i \in History : states'[i] = states[i]
      BY <1>0, <3>1, WriteFacts
    <3>3. ForwardInOrder'
      BY <3>2 DEF ForwardInOrder
    <3>. QED
      BY <1>0, <3>1, <3>3, NobodyReads
  <2>4. ASSUME NEW row \in Rows, Presents(o, row) \/ Loses(o, row) PROVE LineInv'
    <3>1. /\ row.out_of_order = FALSE /\ row.previous = latest[o]
          /\ row.observed_at = request[o].observed_at
      BY <2>4, RowFields
    <3>2. PICK kinds \in SUBSET Kinds : Finishes(o, row, kinds)
      BY <1>0, <2>4, RowExplains
    <3>3. /\ History' = History \cup {Top}
          /\ \A i \in History : states'[i] = states[i] /\ i \in Nat /\ i # 0 /\ i < Top
          /\ states'[Top] = row /\ Top \in Nat
      BY <1>0, <3>1, <3>2, WriteFacts
    <3>4. IsLast(latest[o])
      BY <3>2 DEF ReadsLast, Finishes
    <3>5. \A j \in History : states[j].observed_at < row.observed_at
      <4>. SUFFICES ASSUME NEW j \in History PROVE states[j].observed_at < row.observed_at
        OBVIOUS
      <4>1. latest[o] \in History /\ j <= latest[o] /\ latest[o] # 0
        BY <3>4, HistoryIndices, <1>0 DEF IsLast
      <4>2. states[latest[o]].observed_at < row.observed_at
        BY <2>4, <3>1, <4>1 DEF Presents, Loses, Fresh, Seen
      <4>3. j = latest[o] \/ states[j].observed_at < states[latest[o]].observed_at
        BY <4>1, <3>3 DEF ForwardInOrder
      <4>4. /\ states[j].observed_at \in Nat /\ states[latest[o]].observed_at \in Nat
            /\ row.observed_at \in Nat
        BY <1>0, <3>1, <3>2, <4>1, HistoryStamps, RequestTypes DEF Finishes, LedgerTypeOK, Stamps
      <4>. QED
        BY <4>2, <4>3, <4>4
    <3>6. ForwardInOrder'
      <4>. SUFFICES ASSUME NEW i \in History'
                    PROVE  LET before == {j \in History' : j < i}
                           IN  /\ \A j \in before : states'[j].observed_at < states'[i].observed_at
                               /\ IF before = {} THEN states'[i].previous = 0
                                  ELSE /\ states'[i].previous \in before
                                       /\ \A j \in before : j <= states'[i].previous
        BY DEF ForwardInOrder
      <4>. DEFINE before == {j \in History' : j < i}
      <4>1. CASE i \in History
        <5>1. before = {j \in History : j < i}
          BY <3>3, <4>1
        <5>. HIDE DEF before
        <5>2. /\ \A j \in before : states[j].observed_at < states[i].observed_at
              /\ IF before = {} THEN states[i].previous = 0
                 ELSE /\ states[i].previous \in before
                      /\ \A j \in before : j <= states[i].previous
          BY <4>1, <5>1 DEF ForwardInOrder
        <5>3. before \subseteq History
          BY <5>1
        <5>. QED
          BY <3>3, <4>1, <5>2, <5>3 DEF before
      <4>2. CASE i = Top
        <5>1. before = History
          <6>1. \A j \in History : j \in History' /\ j < i
            BY <3>3, <4>2
          <6>2. ~(Top < i)
            BY <3>3, <4>2
          <6>3. \A j \in History' : j < i => j \in History
            BY <3>3, <6>2
          <6>. QED
            BY <6>1, <6>3
        <5>. HIDE DEF before
        <5>2. /\ \A j \in before : states'[j].observed_at < states'[i].observed_at
              /\ states'[i].previous = latest[o]
          BY <3>1, <3>3, <3>5, <4>2, <5>1
        <5>. QED
          BY <3>4, <5>1, <5>2 DEF IsLast, before
      <4>. QED
        BY <3>3, <4>1, <4>2
    <3>7. Done(o)
      BY <3>2 DEF Finishes
    <3>. QED
      BY <1>0, <3>6, <3>7, NobodyReads
  <2>. QED
    BY <2>1, <2>2, <2>3, <2>4
<1>. QED
  BY <1>1, <1>2

--------------------------------------------------------------------------------
(* Disappearing and reappearing, by turns.                                 *)

\* After n rows a log calls the event gone; in a log of n rows it goes and
\* comes back by turns.
GoneIn(log, n) ==
  \E i \in 1 .. n : /\ Says(log, i, "EVENT_DISAPPEARED")
                    /\ \A j \in i .. n : ~Says(log, j, "EVENT_REAPPEARED")
TurnsIn(log, n) ==
  \A i, j \in 1 .. n : i < j =>
    /\ Says(log, i, "EVENT_DISAPPEARED") /\ Says(log, j, "EVENT_DISAPPEARED") =>
         \E k \in i .. j : Says(log, k, "EVENT_REAPPEARED")
    /\ Says(log, i, "EVENT_REAPPEARED") /\ Says(log, j, "EVENT_REAPPEARED") =>
         \E k \in i .. j : Says(log, k, "EVENT_DISAPPEARED")

\* One more row in the log.
LEMMA LogStep ==
  ASSUME NEW log, NEW new, NEW n \in Nat, NEW kinds,
         \A i, k : Says(new, i, k) <=> Says(log, i, k) \/ (i = n + 1 /\ k \in kinds),
         \A k : ~Says(log, n + 1, k)
  PROVE  /\ "EVENT_REAPPEARED" \in kinds => ~GoneIn(new, n + 1)
         /\ "EVENT_REAPPEARED" \notin kinds =>
              (GoneIn(new, n + 1) <=> GoneIn(log, n) \/ "EVENT_DISAPPEARED" \in kinds)
         /\ /\ TurnsIn(log, n)
            /\ "EVENT_DISAPPEARED" \in kinds => ~GoneIn(log, n)
            /\ "EVENT_REAPPEARED" \in kinds => GoneIn(log, n)
            => TurnsIn(new, n + 1)
<1>. DEFINE D == "EVENT_DISAPPEARED"
            R == "EVENT_REAPPEARED"
<1>1. \A i \in 1 .. n : \A k : Says(new, i, k) <=> Says(log, i, k)
  OBVIOUS
<1>2. \A k : Says(new, n + 1, k) <=> k \in kinds
  OBVIOUS
<1>3. 1 .. (n + 1) = 1 .. n \cup {n + 1}
  OBVIOUS
<1>4. \A i \in 1 .. n : i .. (n + 1) = i .. n \cup {n + 1} /\ i .. n \subseteq 1 .. n
  OBVIOUS
<1>5. (n + 1) .. (n + 1) = {n + 1}
  OBVIOUS
<1>6. ASSUME R \in kinds PROVE ~GoneIn(new, n + 1)
  <2>1. \A i \in 1 .. (n + 1) : n + 1 \in i .. (n + 1)
    OBVIOUS
  <2>. QED
    BY <1>2, <1>6, <2>1 DEF GoneIn
<1>7. ASSUME R \notin kinds
      PROVE  GoneIn(new, n + 1) <=> GoneIn(log, n) \/ D \in kinds
  <2>1. ASSUME NEW i \in 1 .. n
        PROVE  (Says(new, i, D) /\ \A j \in i .. (n + 1) : ~Says(new, j, R))
                 <=> (Says(log, i, D) /\ \A j \in i .. n : ~Says(log, j, R))
    BY <1>1, <1>2, <1>4, <1>7
  <2>2. (Says(new, n + 1, D) /\ \A j \in (n + 1) .. (n + 1) : ~Says(new, j, R))
          <=> D \in kinds
    BY <1>2, <1>5, <1>7
  <2>. QED
    BY <1>3, <2>1, <2>2 DEF GoneIn
<1>8. ASSUME TurnsIn(log, n), D \in kinds => ~GoneIn(log, n), R \in kinds => GoneIn(log, n)
      PROVE  TurnsIn(new, n + 1)
  <2>. SUFFICES ASSUME NEW i \in 1 .. (n + 1), NEW j \in 1 .. (n + 1), i < j
                PROVE  /\ Says(new, i, D) /\ Says(new, j, D) => \E k \in i .. j : Says(new, k, R)
                       /\ Says(new, i, R) /\ Says(new, j, R) => \E k \in i .. j : Says(new, k, D)
    BY DEF TurnsIn
  <2>1. i \in 1 .. n
    OBVIOUS
  <2>2. CASE j \in 1 .. n
    <3>1. i .. j \subseteq 1 .. n
      BY <2>1, <2>2
    <3>2. \A k \in i .. j : \A c : Says(new, k, c) <=> Says(log, k, c)
      BY <1>1, <3>1
    <3>3. i \in i .. j /\ j \in i .. j
      BY <2>1, <2>2
    <3>4. /\ Says(log, i, D) /\ Says(log, j, D) => \E k \in i .. j : Says(log, k, R)
          /\ Says(log, i, R) /\ Says(log, j, R) => \E k \in i .. j : Says(log, k, D)
      BY <1>8, <2>1, <2>2 DEF TurnsIn
    <3>. QED
      BY <3>2, <3>3, <3>4
  <2>3. CASE j = n + 1
    <3>1. ASSUME Says(new, i, D), Says(new, j, D) PROVE \E k \in i .. j : Says(new, k, R)
      <4>1. ~GoneIn(log, n)
        BY <1>2, <1>8, <2>3, <3>1
      <4>2. Says(log, i, D)
        BY <1>1, <2>1, <3>1
      <4>3. PICK k \in i .. n : Says(log, k, R)
        BY <2>1, <4>1, <4>2 DEF GoneIn
      <4>4. k \in i .. j /\ k \in 1 .. n
        BY <2>1, <2>3
      <4>. QED
        BY <1>1, <4>3, <4>4
    <3>2. ASSUME Says(new, i, R), Says(new, j, R) PROVE \E k \in i .. j : Says(new, k, D)
      <4>1. GoneIn(log, n)
        BY <1>2, <1>8, <2>3, <3>2
      <4>2. PICK k \in 1 .. n : Says(log, k, D) /\ \A m \in k .. n : ~Says(log, m, R)
        BY <4>1 DEF GoneIn
      <4>3. Says(log, i, R)
        BY <1>1, <2>1, <3>2
      <4>4. i \notin k .. n
        BY <4>2, <4>3
      <4>5. k \in i .. j
        BY <2>1, <2>3, <4>4
      <4>. QED
        BY <1>1, <4>2, <4>5
    <3>. QED
      BY <3>1, <3>2
  <2>. QED
    BY <1>3, <2>2, <2>3
<1>. QED
  BY <1>6, <1>7, <1>8

LEMMA LogWords ==
  ASSUME LedgerTypeOK
  PROVE  /\ AnnouncedGone <=> GoneIn(transitions, Len(states))
         /\ DisappearsOnce <=> TurnsIn(transitions, Len(states))
<1>1. DOMAIN states = 1 .. Len(states)
  BY DEF LedgerTypeOK
<1>. QED
  BY <1>1 DEF AnnouncedGone, DisappearsOnce, GoneIn, TurnsIn, Says, Has

\* What was explicitly removed counts as missed often enough.
RemovedIsGone ==
  \A i \in History : states[i].capture_status = REMOVED => states[i].absence_count >= Threshold

\* The log calls the event gone when the current row does.
GoneIsAnnounced ==
  \A l \in History \cup {0} : IsLast(l) => (Gone(RowAt(l)) <=> AnnouncedGone)

TurnsInv == LineInv /\ RemovedIsGone /\ GoneIsAnnounced /\ DisappearsOnce

LEMMA LastExists ==
  ASSUME LineInv, NEW o \in Observers, request[o] # Idle
  PROVE  /\ IsLast(latest[o]) /\ latest[o] \in History \cup {0}
         /\ Seen(o) = RowAt(latest[o])
BY DEF LineInv, ReadsLast, RaceInv, LatestIsCurrent, Seen, RowAt

\* A forward row is the new last one, an audit row changes nothing there.
LEMMA LastMoves ==
  ASSUME LineInv, NEW o \in Observers, NEW row \in Rows, NEW kinds \in SUBSET Kinds,
         Finishes(o, row, kinds), NEW l \in History' \cup {0}, IsLast(l)'
  PROVE  /\ row.out_of_order => l \in History \cup {0} /\ IsLast(l) /\ RowAt(l)' = RowAt(l)
         /\ ~row.out_of_order => l = Top /\ RowAt(l)' = row
<1>. USE DEF LineInv, RaceInv
<1>1. /\ Top \in Nat /\ \A i \in DOMAIN states : i \in Nat /\ i # 0 /\ i < Top
      /\ \A i \in DOMAIN states : states'[i] = states[i]
      /\ states'[Top] = row /\ History \subseteq DOMAIN states
      /\ History' = IF row.out_of_order THEN History ELSE History \cup {Top}
  BY WriteFacts
<1>2. CASE row.out_of_order
  BY <1>1, <1>2 DEF IsLast, RowAt
<1>3. CASE ~row.out_of_order
  <2>1. Top \in History'
    BY <1>1, <1>3
  <2>2. l \in History' /\ Top <= l
    BY <2>1 DEF IsLast
  <2>3. l = Top
    BY <1>1, <1>3, <2>2
  <2>4. Top # 0
    BY DEF Top, LedgerTypeOK
  <2>. QED
    BY <1>1, <1>3, <2>3, <2>4 DEF RowAt
<1>. QED
  BY <1>2, <1>3

\* What a new row announces of the event's coming and going.
LEMMA VisibilityOfRow ==
  ASSUME LedgerTypeOK, NEW o \in Observers, NEW row \in Rows, NEW kinds \in SUBSET Kinds,
         Finishes(o, row, kinds),
         \/ Presents(o, row) /\ kinds = Announced(o)
         \/ Loses(o, row) /\ kinds = IF Disappears(o) THEN {"EVENT_DISAPPEARED"} ELSE {},
         Seen(o).capture_status = REMOVED => Seen(o).absence_count >= Threshold
  PROVE  /\ "EVENT_DISAPPEARED" \in kinds => ~Gone(Seen(o))
         /\ "EVENT_REAPPEARED" \in kinds => Gone(Seen(o)) /\ ~Gone(row)
         /\ "EVENT_REAPPEARED" \notin kinds =>
              (Gone(row) <=> Gone(Seen(o)) \/ "EVENT_DISAPPEARED" \in kinds)
         /\ row.capture_status = REMOVED => row.absence_count >= Threshold
<1>. DEFINE c == Seen(o).absence_count
<1>1. c \in Nat /\ Threshold \in Nat /\ Threshold # 0
  BY SeenType
<1>2. CASE Presents(o, row) /\ kinds = Announced(o)
  <2>1. row.absence_count = 0 /\ row.capture_status = PRESENT
    BY <1>2 DEF Presents, NewRow
  <2>2. ~Gone(row) /\ row.capture_status # REMOVED
    BY <1>1, <2>1 DEF Gone, PRESENT, REMOVED
  <2>3. CASE latest[o] = 0
    <3>1. Seen(o) = NoRow /\ kinds = {"EVENT_FIRST_SEEN"}
      BY <1>2, <2>3 DEF Seen, Announced
    <3>2. ~Gone(NoRow)
      BY <1>1 DEF Gone, NoRow, REMOVED
    <3>. QED
      BY <2>2, <3>1, <3>2
  <2>4. CASE latest[o] # 0
    <3>. DEFINE changes == Changes(Seen(o).effective, request[o].capture, Effective(o))
    <3>1. changes \subseteq Subjects
      <4>1. request[o].capture \in Captures
        BY <1>2, RequestTypes DEF Presents, Finishes, LedgerTypeOK
      <4>. QED
        BY <4>1, SeenType, ChangesExplain DEF Effective
    <3>. HIDE DEF changes
    <3>2. kinds = changes \cup IF Gone(Seen(o)) THEN {"EVENT_REAPPEARED"} ELSE {}
      BY <1>2, <2>4 DEF Announced, changes
    <3>3. "EVENT_DISAPPEARED" \notin changes /\ "EVENT_REAPPEARED" \notin changes
      BY <3>1, SubjectNames
    <3>4. "EVENT_DISAPPEARED" \notin kinds /\ ("EVENT_REAPPEARED" \in kinds <=> Gone(Seen(o)))
      BY <3>2, <3>3
    <3>. QED
      BY <2>2, <3>4
  <2>. QED
    BY <2>3, <2>4
<1>3. CASE Loses(o, row) /\ kinds = IF Disappears(o) THEN {"EVENT_DISAPPEARED"} ELSE {}
  <2>1. /\ row.absence_count = AbsenceCount(o) /\ row.capture_status = request[o].status
        /\ request[o].status \in {ABSENT, REMOVED}
    BY <1>3 DEF Loses, NewRow, AUTHORITATIVE_ABSENCE
  <2>2. "EVENT_REAPPEARED" \notin kinds /\ ("EVENT_DISAPPEARED" \in kinds <=> Disappears(o))
    BY <1>3
  <2>3. Disappears(o) => ~Gone(Seen(o))
    BY DEF Disappears
  <2>4. CASE request[o].status = REMOVED
    <3>1. AbsenceCount(o) >= Threshold
      BY <1>1, <2>4 DEF AbsenceCount, ABSENT, REMOVED
    <3>2. Gone(row)
      BY <2>1, <3>1 DEF Gone
    <3>3. Gone(Seen(o)) \/ Disappears(o)
      BY <2>4 DEF Disappears
    <3>. QED
      BY <2>1, <2>2, <2>3, <3>1, <3>2, <3>3
  <2>5. CASE request[o].status = ABSENT
    <3>1. AbsenceCount(o) = c + 1
      BY <2>5 DEF AbsenceCount
    <3>2. Gone(row) <=> c + 1 >= Threshold
      BY <2>1, <2>5, <3>1 DEF Gone, ABSENT, REMOVED
    <3>3. Gone(Seen(o)) <=> c >= Threshold
      BY DEF Gone
    <3>4. Disappears(o) <=> ~Gone(Seen(o)) /\ c + 1 = Threshold
      BY <2>5, <3>1 DEF Disappears, ABSENT, REMOVED
    <3>5. c + 1 >= Threshold <=> c >= Threshold \/ c + 1 = Threshold
      BY <1>1
    <3>6. row.capture_status # REMOVED
      BY <2>1, <2>5 DEF ABSENT, REMOVED
    <3>. QED
      BY <2>2, <2>3, <3>2, <3>3, <3>4, <3>5, <3>6
  <2>. QED
    BY <2>1, <2>4, <2>5
<1>. QED
  BY <1>2, <1>3

LEMMA StepTurnsInv == Alone /\ TurnsInv /\ [LedgerNext]_ledgerVars => TurnsInv'
<1>. SUFFICES ASSUME Alone, TurnsInv, [LedgerNext]_ledgerVars PROVE TurnsInv'
  OBVIOUS
<1>. USE DEF TurnsInv
<1>0. LineInv' /\ LedgerTypeOK /\ LedgerTypeOK'
  BY StepLineInv DEF LineInv, RaceInv
<1>1. ASSUME UNCHANGED <<states, transitions>> PROVE TurnsInv'
  BY <1>0, <1>1 DEF RemovedIsGone, GoneIsAnnounced, DisappearsOnce, AnnouncedGone,
     IsLast, RowAt, History, Has
<1>2. ASSUME NEW o \in Observers, NEW row \in Rows, NEW kinds \in SUBSET Kinds,
             Finishes(o, row, kinds),
             row.out_of_order => kinds = {},
             ~row.out_of_order =>
               /\ "EVENT_DISAPPEARED" \in kinds => ~Gone(Seen(o))
               /\ "EVENT_REAPPEARED" \in kinds => Gone(Seen(o)) /\ ~Gone(row)
               /\ "EVENT_REAPPEARED" \notin kinds =>
                    (Gone(row) <=> Gone(Seen(o)) \/ "EVENT_DISAPPEARED" \in kinds)
               /\ row.capture_status = REMOVED => row.absence_count >= Threshold
      PROVE  TurnsInv'
  <2>1. /\ Len(states) \in Nat /\ Len(states') = Len(states) + 1
        /\ \A i \in DOMAIN states : states'[i] = states[i]
        /\ states'[Top] = row /\ History \subseteq DOMAIN states
        /\ History' = IF row.out_of_order THEN History ELSE History \cup {Top}
        /\ \A i, k : Says(transitions', i, k) <=>
                       Says(transitions, i, k) \/ (i = Len(states) + 1 /\ k \in kinds)
        /\ \A k : ~Says(transitions, Len(states) + 1, k)
    BY <1>0, <1>2, WriteFacts DEF Top
  <2>2. RemovedIsGone'
    BY <1>2, <2>1 DEF RemovedIsGone
  <2>. DEFINE before == GoneIn(transitions, Len(states))
              after == GoneIn(transitions', Len(states'))
  <2>3. /\ AnnouncedGone <=> before
        /\ AnnouncedGone' <=> after
        /\ TurnsIn(transitions, Len(states))
        /\ DisappearsOnce' <=> TurnsIn(transitions', Len(states'))
    <3>1. DOMAIN states' = 1 .. Len(states')
      BY <1>0 DEF LedgerTypeOK
    <3>. QED
      BY <1>0, <3>1, LogWords
         DEF AnnouncedGone, DisappearsOnce, GoneIn, TurnsIn, Says, Has
  <2>4. Gone(Seen(o)) <=> before
    BY <1>2, <2>3, LastExists DEF Finishes, GoneIsAnnounced
  <2>5. /\ "EVENT_REAPPEARED" \in kinds => ~after
        /\ "EVENT_REAPPEARED" \notin kinds => (after <=> before \/ "EVENT_DISAPPEARED" \in kinds)
        /\ ("EVENT_DISAPPEARED" \in kinds => ~before) /\ ("EVENT_REAPPEARED" \in kinds => before)
             => TurnsIn(transitions', Len(states'))
    BY <2>1, <2>3, LogStep
  <2>. HIDE DEF before, after
  <2>6. DisappearsOnce'
    BY <1>2, <2>3, <2>4, <2>5
  <2>7. GoneIsAnnounced'
    <3>. SUFFICES ASSUME NEW l \in History' \cup {0}, IsLast(l)'
                  PROVE  Gone(RowAt(l)') <=> after
      BY <2>3 DEF GoneIsAnnounced, Gone
    <3>1. CASE row.out_of_order
      BY <1>2, <2>3, <2>5, <3>1, LastMoves DEF GoneIsAnnounced
    <3>2. CASE ~row.out_of_order
      BY <1>2, <2>4, <2>5, <3>2, LastMoves
    <3>. QED
      BY <3>1, <3>2
  <2>. QED
    BY <1>0, <2>2, <2>6, <2>7
<1>3. CASE UNCHANGED ledgerVars
  BY <1>1, <1>3 DEF ledgerVars
<1>4. CASE LedgerNext
  <2>1. PICK o \in Observers :
           \/ Quiet(o)
           \/ \E row \in Rows : Audits(o, row) \/ Loses(o, row) \/ Presents(o, row)
    BY <1>0, <1>4, StepCases
  <2>2. CASE Quiet(o)
    BY <1>1, <2>2 DEF Quiet
  <2>3. ASSUME NEW row \in Rows, Audits(o, row) PROVE TurnsInv'
    BY <1>2, <2>3 DEF Audits
  <2>4. ASSUME NEW row \in Rows, Presents(o, row) \/ Loses(o, row) PROVE TurnsInv'
    <3>. DEFINE kinds == IF Presents(o, row) THEN Announced(o)
                         ELSE IF Disappears(o) THEN {"EVENT_DISAPPEARED"} ELSE {}
    <3>1. Finishes(o, row, kinds) /\ row.out_of_order = FALSE
      BY <2>4, RowFields DEF Presents, Loses
    <3>2. kinds \in SUBSET Kinds
      BY <1>0, <3>1, AnnouncedKinds DEF Kinds
    <3>3. Seen(o).capture_status = REMOVED => Seen(o).absence_count >= Threshold
      BY <3>1, LastExists DEF Finishes, RemovedIsGone, RowAt, NoRow, REMOVED
    <3>4. \/ Presents(o, row) /\ kinds = Announced(o)
          \/ Loses(o, row) /\ kinds = IF Disappears(o) THEN {"EVENT_DISAPPEARED"} ELSE {}
      BY <2>4
    <3>. HIDE DEF kinds
    <3>. QED
      BY <1>0, <1>2, <3>1, <3>2, <3>3, <3>4, VisibilityOfRow
  <2>. QED
    BY <2>1, <2>2, <2>3, <2>4
<1>. QED
  BY <1>3, <1>4

LEMMA InitTurnsInv == LedgerInit => TurnsInv
<1>. SUFFICES ASSUME LedgerInit PROVE TurnsInv
  OBVIOUS
<1>1. RaceInv /\ History = {} /\ DOMAIN states = {} /\ transitions = {}
  BY InitRaceInv DEF LedgerInit, History
<1>2. ~AnnouncedGone /\ DisappearsOnce /\ RemovedIsGone /\ ForwardInOrder
  BY <1>1 DEF AnnouncedGone, DisappearsOnce, RemovedIsGone, ForwardInOrder
<1>3. ReadsLast
  BY DEF LedgerInit, ReadsLast
<1>4. ~Gone(RowAt(0))
  BY DEF Gone, RowAt, NoRow, REMOVED
<1>5. GoneIsAnnounced
  BY <1>1, <1>2, <1>4 DEF GoneIsAnnounced
<1>. QED
  BY <1>1, <1>2, <1>3, <1>5 DEF TurnsInv, LineInv

\* One observer at a time keeps one line of states, each newer than the last
\* and compared with it, along which the event disappears and reappears by
\* turns: no threshold is announced twice, no return without a loss.
THEOREM HistoryIsALine == ASSUME Alone PROVE LedgerSpec => []HistoryIsOrdered
<1>1. TurnsInv => HistoryIsOrdered
  BY DEF TurnsInv, LineInv, HistoryIsOrdered
<1>2. TurnsInv /\ [LedgerNext]_ledgerVars => TurnsInv'
  BY StepTurnsInv
<1>. QED
  BY <1>1, <1>2, InitTurnsInv, PTL DEF LedgerSpec

--------------------------------------------------------------------------------
(* What the current state holds.                                           *)

\* A row tells of a field, and the rows up to i that do.
Tells(row, f) ==
  \/ row.capture[f] \in Values \cup {Blank}
  \/ row.capture[f] = ExplicitNull /\ f \in NullableFields
Told(i, f) == {j \in History : j <= i /\ Tells(states[j], f)}

LastOf(S) == CHOOSE j \in S : \A k \in S : k <= j
HasLast(S) == S = {} \/ \E j \in S : \A k \in S : k <= j

LEMMA LastOfFacts ==
  ASSUME NEW S \in SUBSET Nat, HasLast(S), S # {}
  PROVE  /\ LastOf(S) \in S
         /\ \A j \in S : (\A k \in S : k <= j) => LastOf(S) = j
<1>1. LastOf(S) \in S /\ \A k \in S : k <= LastOf(S)
  BY DEF HasLast, LastOf
<1>2. ASSUME NEW j \in S, \A k \in S : k <= j PROVE LastOf(S) = j
  <2>1. j <= LastOf(S) /\ LastOf(S) <= j /\ j \in Nat /\ LastOf(S) \in Nat
    BY <1>1, <1>2
  <2>. QED
    BY <2>1
<1>. QED
  BY <1>1, <1>2

\* What a field reads, given the rows that told of it.
Reading(rows, told, f) ==
  IF told # {} /\ rows[LastOf(told)].capture[f] \in Values
    THEN rows[LastOf(told)].capture[f] ELSE Null

LEMMA ReadingWords ==
  StateIsLastReading <=>
    \A i \in History, f \in Fields : states[i].effective[f] = Reading(states, Told(i, f), f)
BY DEF StateIsLastReading, Reading, Told, Tells, LastOf

\* Of the rows that told of a field, one is the last.
ToldHasLast == \A i \in History, f \in Fields : HasLast(Told(i, f))

ReadInv == LineInv /\ ToldHasLast /\ StateIsLastReading

\* A new row holds what it read itself and otherwise what the state it was
\* compared with held; an absence read nothing.
LEMMA EffectiveOfRow ==
  ASSUME LedgerTypeOK, NEW o \in Observers, NEW row \in Rows, Presents(o, row) \/ Loses(o, row),
         NEW f \in Fields
  PROVE  row.effective[f] = IF ~Tells(row, f) THEN Seen(o).effective[f]
                            ELSE IF row.capture[f] \in Values THEN row.capture[f] ELSE Null
<1>1. row.capture = request[o].capture
  BY RowFields
<1>2. CASE Presents(o, row)
  <2>1. row.effective[f] = CASE row.capture[f] \in Values -> row.capture[f]
                             [] row.capture[f] = Blank -> Null
                             [] row.capture[f] = ExplicitNull /\ f \in NullableFields -> Null
                             [] OTHER -> Seen(o).effective[f]
    BY <1>1, <1>2 DEF Presents, NewRow, Effective, Merge
  <2>2. CASE ~Tells(row, f)
    BY <2>1, <2>2 DEF Tells
  <2>3. CASE Tells(row, f)
    BY <2>1, <2>3 DEF Tells
  <2>. QED
    BY <2>2, <2>3
<1>3. CASE Loses(o, row)
  <2>1. request[o] \in Requests /\ request[o].status # PRESENT
    BY <1>3 DEF Loses, Finishes, LedgerTypeOK, AUTHORITATIVE_ABSENCE, ABSENT, REMOVED, PRESENT
  <2>2. row.capture = Nothing
    BY <1>1, <2>1, RequestTypes
  <2>3. ~Tells(row, f)
    BY <2>2 DEF Tells, Nothing
  <2>4. row.effective = Seen(o).effective
    BY <1>3 DEF Loses, NewRow
  <2>. QED
    BY <2>3, <2>4
<1>. QED
  BY <1>2, <1>3

LEMMA StepReadInv == Alone /\ ReadInv /\ [LedgerNext]_ledgerVars => ReadInv'
<1>. SUFFICES ASSUME Alone, ReadInv, [LedgerNext]_ledgerVars PROVE ReadInv'
  OBVIOUS
<1>. USE DEF ReadInv
<1>0. LineInv' /\ LedgerTypeOK
  BY StepLineInv DEF LineInv, RaceInv
<1>1. ASSUME UNCHANGED <<states, transitions>> PROVE ReadInv'
  BY <1>0, <1>1 DEF ToldHasLast, StateIsLastReading, HasLast, Told, Tells, History
\* A row that told of a field before tells of it still.
<1>2. ASSUME NEW o \in Observers, NEW row \in Rows, NEW kinds \in SUBSET Kinds,
             Finishes(o, row, kinds), NEW i \in History, NEW f \in Fields
      PROVE  /\ Told(i, f)' = Told(i, f)
             /\ HasLast(Told(i, f))
             /\ Reading(states', Told(i, f), f) = Reading(states, Told(i, f), f)
             /\ states[i].effective[f] = Reading(states, Told(i, f), f)
             /\ i \in DOMAIN states /\ states'[i] = states[i]
  <2>1. /\ \A j \in DOMAIN states : j \in Nat /\ j < Top
        /\ \A j \in DOMAIN states : states'[j] = states[j]
        /\ History' = IF row.out_of_order THEN History ELSE History \cup {Top}
        /\ History \subseteq DOMAIN states /\ Top \in Nat
    BY <1>0, <1>2, WriteFacts
  <2>2. Told(i, f)' = Told(i, f)
    <3>1. \A j : j \in History' /\ j <= i <=> j \in History /\ j <= i
      BY <2>1
    <3>2. \A j \in History : states'[j] = states[j]
      BY <2>1
    <3>3. Told(i, f)' = {j \in History' : j <= i /\ Tells(states'[j], f)}
      BY DEF Told, Tells
    <3>4. \A j : j \in Told(i, f)' <=> j \in Told(i, f)
      BY <3>1, <3>2, <3>3 DEF Told
    <3>5. Told(i, f)' \subseteq History' /\ Told(i, f) \subseteq History
      BY <3>3 DEF Told
    <3>. QED
      BY <3>3, <3>4 DEF Told
  <2>3. HasLast(Told(i, f))
    BY DEF ToldHasLast
  <2>4. Reading(states', Told(i, f), f) = Reading(states, Told(i, f), f)
    <3>1. Told(i, f) \subseteq DOMAIN states /\ Told(i, f) \in SUBSET Nat
      BY <2>1 DEF Told
    <3>2. Told(i, f) # {} => LastOf(Told(i, f)) \in DOMAIN states
      BY <2>3, <3>1, LastOfFacts
    <3>. QED
      BY <2>1, <3>2 DEF Reading
  <2>5. states[i].effective[f] = Reading(states, Told(i, f), f)
    BY ReadingWords
  <2>. QED
    BY <2>1, <2>2, <2>3, <2>4, <2>5
\* The new row's reading.
<1>3. ASSUME NEW o \in Observers, NEW row \in Rows, NEW kinds \in SUBSET Kinds,
             Finishes(o, row, kinds), Presents(o, row) \/ Loses(o, row), NEW f \in Fields,
             NEW n, n = Top
      PROVE  /\ HasLast(Told(n, f)')
             /\ row.effective[f] = Reading(states', Told(n, f)', f)
  <2>0. row.out_of_order = FALSE
    BY <1>3, RowFields
  <2>1. /\ \A j \in DOMAIN states : j \in Nat /\ j # 0 /\ j < n
        /\ \A j \in DOMAIN states : states'[j] = states[j]
        /\ states'[n] = row /\ ~row.out_of_order
        /\ History' = History \cup {n}
        /\ History \subseteq DOMAIN states /\ n \in Nat
    BY <1>0, <1>3, <2>0, WriteFacts
  <2>. DEFINE l == latest[o]
              new == Told(n, f)'
  <2>2. IsLast(l) /\ Seen(o) = RowAt(l)
    BY <1>3, LastExists DEF Finishes
  <2>3. new = {j \in History : Tells(states[j], f)} \cup IF Tells(row, f) THEN {n} ELSE {}
    <3>1. new = {j \in History' : j <= n /\ Tells(states'[j], f)}
      BY DEF Told, Tells
    <3>2. \A j \in History : j <= n /\ states'[j] = states[j] /\ j # n
      BY <2>1
    <3>3. n <= n
      BY <2>1
    <3>. HIDE DEF new
    <3>4. \A j : j \in new <=> (j \in History /\ Tells(states[j], f)) \/ (j = n /\ Tells(row, f))
      BY <2>1, <3>1, <3>2, <3>3
    <3>. QED
      BY <3>4
  <2>. HIDE DEF new
  <2>4. new \in SUBSET Nat
    BY <2>1, <2>3
  <2>5. row.effective[f] = IF ~Tells(row, f) THEN Seen(o).effective[f]
                           ELSE IF row.capture[f] \in Values THEN row.capture[f] ELSE Null
    BY <1>0, <1>3, EffectiveOfRow
  <2>6. CASE Tells(row, f)
    <3>1. n \in new /\ \A k \in new : k <= n
      BY <2>1, <2>3, <2>6
    <3>2. HasLast(new) /\ new # {}
      BY <3>1 DEF HasLast
    <3>3. LastOf(new) = n
      BY <2>4, <3>1, <3>2, LastOfFacts
    <3>. QED
      BY <2>1, <2>5, <2>6, <3>2, <3>3 DEF Reading, new
  <2>7. CASE ~Tells(row, f) /\ History = {}
    <3>1. new = {}
      BY <2>3, <2>7
    <3>2. Seen(o).effective[f] = Null
      BY <2>2, <2>7 DEF IsLast, RowAt, NoRow, Empty
    <3>. QED
      BY <2>5, <2>7, <3>1, <3>2 DEF Reading, HasLast, new
  <2>8. CASE ~Tells(row, f) /\ History # {}
    <3>1. l \in History /\ \A j \in History : j <= l
      BY <2>2, <2>8 DEF IsLast
    <3>2. new = Told(l, f)
      BY <2>3, <2>8, <3>1 DEF Told
    <3>3. /\ HasLast(new)
          /\ Reading(states', new, f) = Reading(states, new, f)
          /\ states[l].effective[f] = Reading(states, new, f)
      BY <1>2, <1>3, <3>1, <3>2
    <3>4. Seen(o) = states[l]
      BY <2>1, <2>2, <3>1 DEF RowAt
    <3>. QED
      BY <2>5, <2>8, <3>3, <3>4 DEF new
  <2>. QED
    BY <2>6, <2>7, <2>8
<1>4. ASSUME NEW o \in Observers, NEW row \in Rows, NEW kinds \in SUBSET Kinds,
             Finishes(o, row, kinds),
             row.out_of_order \/ Presents(o, row) \/ Loses(o, row)
      PROVE  ReadInv'
  <2>1. /\ History' = IF row.out_of_order THEN History ELSE History \cup {Top}
        /\ states'[Top] = row
    BY <1>0, <1>4, WriteFacts
  <2>2. ASSUME NEW i \in History', NEW f \in Fields
        PROVE  HasLast(Told(i, f)') /\ states'[i].effective[f] = Reading(states', Told(i, f)', f)
    <3>1. CASE i \in History
      BY <1>2, <1>4, <3>1
    <3>2. CASE i \notin History
      <4>1. i = Top /\ ~row.out_of_order
        BY <2>1, <3>2
      <4>2. HasLast(Told(i, f)') /\ row.effective[f] = Reading(states', Told(i, f)', f)
        BY <1>3, <1>4, <4>1
      <4>. QED
        BY <2>1, <4>1, <4>2
    <3>. QED
      BY <3>1, <3>2
  <2>3. ToldHasLast'
    BY <2>2 DEF ToldHasLast, HasLast
  <2>4. StateIsLastReading'
    BY <2>2 DEF StateIsLastReading, Reading, Told, Tells, LastOf
  <2>. QED
    BY <1>0, <2>3, <2>4
<1>5. CASE UNCHANGED ledgerVars
  BY <1>1, <1>5 DEF ledgerVars
<1>6. CASE LedgerNext
  <2>1. PICK o \in Observers :
           \/ Quiet(o)
           \/ \E row \in Rows : Audits(o, row) \/ Loses(o, row) \/ Presents(o, row)
    BY <1>0, <1>6, StepCases
  <2>2. CASE Quiet(o)
    BY <1>1, <2>2 DEF Quiet
  <2>3. ASSUME NEW row \in Rows, Audits(o, row) PROVE ReadInv'
    BY <1>4, <2>3 DEF Audits
  <2>4. ASSUME NEW row \in Rows, Presents(o, row) \/ Loses(o, row) PROVE ReadInv'
    <3>1. PICK kinds \in SUBSET Kinds : Finishes(o, row, kinds)
      BY <1>0, <2>4, RowExplains
    <3>. QED
      BY <1>4, <2>4, <3>1
  <2>. QED
    BY <2>1, <2>2, <2>3, <2>4
<1>. QED
  BY <1>5, <1>6

\* One observer at a time makes each field of the current state the last thing
\* a capture could tell of it: what did not look, failed or came late neither
\* changes nor erases it.
THEOREM StateIsTold == ASSUME Alone PROVE LedgerSpec => []StateIsLastReading
<1>1. LedgerInit => ReadInv
  <2>1. LedgerInit => History = {}
    BY DEF LedgerInit, History
  <2>. QED
    BY <2>1, InitTurnsInv DEF TurnsInv, ReadInv, ToldHasLast, StateIsLastReading
<1>2. ReadInv /\ [LedgerNext]_ledgerVars => ReadInv'
  BY StepReadInv
<1>3. ReadInv => StateIsLastReading
  BY DEF ReadInv
<1>. QED
  BY <1>1, <1>2, <1>3, PTL DEF LedgerSpec

--------------------------------------------------------------------------------
(* The life of the event: ShadowLedger implements Visibility.              *)

\* The absences the history ends with.
Trail == {i \in History : \A j \in History : j >= i => Absent(j)}

LEMMA TrailIsFinite == LedgerTypeOK => IsFiniteSet(Trail) /\ Misses = Cardinality(Trail) /\ Misses \in Nat
<1>. SUFFICES ASSUME LedgerTypeOK
              PROVE  IsFiniteSet(Trail) /\ Misses = Cardinality(Trail) /\ Misses \in Nat
  OBVIOUS
<1>1. DOMAIN states = 1 .. Len(states) /\ Len(states) \in Nat
  BY DEF LedgerTypeOK
<1>2. Trail \subseteq 1 .. Len(states)
  BY <1>1 DEF Trail, History
<1>3. IsFiniteSet(1 .. Len(states))
  BY <1>1, FS_Interval
<1>4. IsFiniteSet(Trail)
  BY <1>2, <1>3, FS_Subset
<1>5. Misses = Cardinality(Trail)
  BY DEF Misses, Trail
<1>. QED
  BY <1>4, <1>5, FS_CardinalityType

\* A row beside the history leaves the count, an absence adds one to it, a
\* presence ends it.
LEMMA MissesMove ==
  ASSUME LedgerTypeOK, NEW o \in Observers, NEW row \in Rows, NEW kinds \in SUBSET Kinds,
         Finishes(o, row, kinds)
  PROVE  /\ row.out_of_order => Misses' = Misses
         /\ ~row.out_of_order /\ row.capture_status \in AUTHORITATIVE_ABSENCE =>
              Misses' = Misses + 1
         /\ ~row.out_of_order /\ row.capture_status = PRESENT => Misses' = 0
<1>1. /\ \A i \in DOMAIN states : i \in Nat /\ i < Top
      /\ \A i \in DOMAIN states : states'[i] = states[i]
      /\ states'[Top] = row /\ History \subseteq DOMAIN states /\ Top \in Nat
      /\ History' = IF row.out_of_order THEN History ELSE History \cup {Top}
  BY WriteFacts
<1>2. Misses = Cardinality(Trail) /\ Misses' = Cardinality(Trail') /\ IsFiniteSet(Trail)
  BY TrailIsFinite DEF Misses, Trail
<1>3. Trail' = {i \in History' : \A j \in History' :
                  j >= i => states'[j].capture_status \in AUTHORITATIVE_ABSENCE}
  BY DEF Trail, Absent
<1>4. Trail = {i \in History : \A j \in History :
                  j >= i => states[j].capture_status \in AUTHORITATIVE_ABSENCE}
  BY DEF Trail, Absent
<1>5. \A j \in History : states'[j] = states[j]
  BY <1>1
<1>6. ASSUME row.out_of_order PROVE Misses' = Misses
  <2>1. History' = History
    BY <1>1, <1>6
  <2>2. Trail' = Trail
    BY <1>3, <1>4, <1>5, <2>1
  <2>. QED
    BY <1>2, <2>2
<1>7. ASSUME ~row.out_of_order, row.capture_status \in AUTHORITATIVE_ABSENCE
      PROVE  Misses' = Misses + 1
  <2>1. History' = History \cup {Top} /\ \A i \in History : i < Top /\ i \in Nat
    BY <1>1, <1>7
  <2>2. ASSUME NEW i \in History PROVE i \in Trail' <=> i \in Trail
    BY <1>1, <1>3, <1>4, <1>5, <1>7, <2>1, <2>2
  <2>3. \A j \in History' : j >= Top => j = Top
    BY <2>1, <1>1
  <2>4. Top \in Trail' /\ Top \notin Trail
    <3>1. Top \notin History
      BY <1>1
    <3>. QED
      BY <1>1, <1>3, <1>4, <1>7, <2>1, <2>3, <3>1
  <2>5. Trail' = Trail \cup {Top}
    BY <1>3, <1>4, <2>1, <2>2, <2>4
  <2>6. Cardinality(Trail') = Cardinality(Trail) + 1
    BY <1>2, <2>4, <2>5, FS_AddElement
  <2>. QED
    BY <1>2, <2>6
<1>8. ASSUME ~row.out_of_order, row.capture_status = PRESENT PROVE Misses' = 0
  <2>1. /\ Top \in History' /\ \A i \in History' : Top >= i
        /\ states'[Top].capture_status \notin AUTHORITATIVE_ABSENCE
    BY <1>1, <1>8 DEF AUTHORITATIVE_ABSENCE, ABSENT, REMOVED, PRESENT
  <2>2. Trail' = {}
    BY <1>3, <2>1
  <2>. QED
    BY <1>2, <2>2, FS_EmptySet
<1>. QED
  BY <1>6, <1>7, <1>8

\* Until the event is gone the current row counts its misses.
MissesAreCounted ==
  \A l \in History \cup {0} : IsLast(l) /\ ~Gone(RowAt(l)) => RowAt(l).absence_count = Misses

LifeInv == TurnsInv /\ MissesAreCounted

\* A forward row decides what the log says.
LEMMA NewRowRules ==
  ASSUME Alone, TurnsInv, TurnsInv', NEW o \in Observers, NEW row \in Rows,
         NEW kinds \in SUBSET Kinds, Finishes(o, row, kinds), row.out_of_order = FALSE
  PROVE  AnnouncedGone' <=> Gone(row)
<1>1. /\ \A i \in DOMAIN states : i \in Nat /\ i < Top
      /\ History' = History \cup {Top} /\ History \subseteq DOMAIN states /\ Top \in Nat
  BY WriteFacts DEF TurnsInv, LineInv, RaceInv
<1>2. PICK n : n = Top
  OBVIOUS
<1>3. n \in History' /\ \A j \in History' : j <= n
  BY <1>1, <1>2
<1>4. IsLast(n)'
  BY <1>3 DEF IsLast
<1>5. RowAt(n)' = row
  BY <1>3, <1>4, LastMoves DEF TurnsInv
<1>. QED
  BY <1>3, <1>4, <1>5 DEF TurnsInv, GoneIsAnnounced, Gone

\* Every step is one of the abstract event's, or nothing to it.
LEMMA LifeStep ==
  ASSUME Alone, LifeInv, [LedgerNext]_ledgerVars
  PROVE  LifeInv' /\ [Promise!Next]_(Promise!vars)
<1>. USE DEF LifeInv
<1>0. /\ TurnsInv' /\ LedgerTypeOK /\ LedgerTypeOK' /\ LineInv
  BY StepTurnsInv DEF TurnsInv, LineInv, RaceInv
<1>. DEFINE same == AnnouncedGone' = AnnouncedGone /\ Misses' = Misses
<1>1. ASSUME UNCHANGED <<states, transitions>> PROVE MissesAreCounted' /\ same
  BY <1>1 DEF MissesAreCounted, Misses, AnnouncedGone, IsLast, RowAt, History, Absent, Has
<1>2. same => [Promise!Next]_(Promise!vars)
  BY DEF Promise!vars
<1>. HIDE DEF same
<1>3. ASSUME NEW o \in Observers, NEW row \in Rows, Audits(o, row)
      PROVE  MissesAreCounted' /\ same
  <2>1. Finishes(o, row, {}) /\ row.out_of_order
    BY <1>3 DEF Audits
  <2>2. Misses' = Misses
    BY <1>0, <2>1, MissesMove
  <2>3. AnnouncedGone' <=> AnnouncedGone
    <3>1. /\ Len(states) \in Nat /\ Len(states') = Len(states) + 1
          /\ \A i, k : Says(transitions', i, k) <=>
                         Says(transitions, i, k) \/ (i = Len(states) + 1 /\ k \in {})
          /\ \A k : ~Says(transitions, Len(states) + 1, k)
      BY <1>0, <2>1, WriteFacts DEF Top
    <3>2. GoneIn(transitions', Len(states')) <=> GoneIn(transitions, Len(states))
      BY <3>1, LogStep
    <3>3. DOMAIN states' = 1 .. Len(states')
      BY <1>0 DEF LedgerTypeOK
    <3>4. AnnouncedGone' <=> GoneIn(transitions', Len(states'))
      BY <3>3 DEF AnnouncedGone, GoneIn, Says, Has
    <3>. QED
      BY <1>0, <3>2, <3>4, LogWords
  <2>4. ASSUME NEW l \in History' \cup {0}, IsLast(l)', ~Gone(RowAt(l)')
        PROVE  RowAt(l)'.absence_count = Misses'
    <3>1. l \in History \cup {0} /\ IsLast(l) /\ RowAt(l)' = RowAt(l)
      BY <1>0, <2>1, <2>4, LastMoves
    <3>. QED
      BY <2>2, <2>4, <3>1 DEF MissesAreCounted
  <2>5. MissesAreCounted'
    BY <2>4 DEF MissesAreCounted, Gone
  <2>. QED
    BY <2>2, <2>3, <2>5 DEF same
<1>4. ASSUME NEW o \in Observers, NEW row \in Rows, Presents(o, row) \/ Loses(o, row)
      PROVE  MissesAreCounted' /\ Promise!Next
  <2>1. PICK kinds \in SUBSET Kinds : Finishes(o, row, kinds)
    BY <1>0, <1>4, RowExplains
  <2>2. row.out_of_order = FALSE /\ row.capture_status = request[o].status
    BY <1>4, RowFields
  <2>. DEFINE c == Seen(o).absence_count
  <2>3. /\ AnnouncedGone <=> Gone(Seen(o))
        /\ ~Gone(Seen(o)) => c = Misses
        /\ c \in Nat /\ Misses \in Nat
    <3>1. /\ IsLast(latest[o]) /\ latest[o] \in History \cup {0}
          /\ Seen(o) = RowAt(latest[o])
      BY <1>0, <2>1, LastExists DEF Finishes
    <3>. QED
      BY <1>0, <3>1, SeenType, TrailIsFinite DEF TurnsInv, GoneIsAnnounced, MissesAreCounted
  <2>4. AnnouncedGone' <=> Gone(row)
    BY <1>0, <2>1, <2>2, NewRowRules
  <2>. HIDE DEF c
  <2>5. ASSUME ~Gone(row) => row.absence_count = Misses' PROVE MissesAreCounted'
    <3>. SUFFICES ASSUME NEW l \in History' \cup {0}, IsLast(l)', ~Gone(RowAt(l)')
                  PROVE  RowAt(l)'.absence_count = Misses'
      BY DEF MissesAreCounted, Gone
    <3>1. RowAt(l)' = row
      BY <1>0, <2>1, <2>2, LastMoves
    <3>. QED
      BY <2>5, <3>1
  <2>6. CASE Presents(o, row)
    <3>1. row.absence_count = 0 /\ row.capture_status = PRESENT
      BY <2>2, <2>6 DEF Presents, NewRow
    <3>2. ~Gone(row)
      BY <3>1 DEF Gone, PRESENT, REMOVED
    <3>3. Misses' = 0
      BY <1>0, <2>1, <2>2, <3>1, MissesMove
    <3>4. Promise!Seen
      BY <2>4, <3>2, <3>3 DEF Promise!Seen
    <3>. QED
      BY <2>5, <3>1, <3>3, <3>4 DEF Promise!Next
  <2>7. CASE Loses(o, row)
    <3>1. /\ row.absence_count = AbsenceCount(o)
          /\ row.capture_status \in AUTHORITATIVE_ABSENCE
      BY <2>2, <2>7 DEF Loses, NewRow
    <3>2. Misses' = Misses + 1
      BY <1>0, <2>1, <2>2, <3>1, MissesMove
    <3>3. CASE row.capture_status = REMOVED
      <4>1. Gone(row)
        BY <3>3 DEF Gone
      <4>2. Promise!Removed
        BY <2>4, <3>2, <4>1 DEF Promise!Removed
      <4>. QED
        BY <2>5, <4>1, <4>2 DEF Promise!Next
    <3>4. CASE row.capture_status = ABSENT
      <4>1. row.absence_count = c + 1
        BY <2>2, <3>1, <3>4 DEF AbsenceCount, c
      <4>2. Gone(row) <=> c + 1 >= Threshold
        BY <3>4, <4>1 DEF Gone, ABSENT, REMOVED
      <4>3. Seen(o).capture_status = REMOVED => c >= Threshold
        <5>1. request[o] # Idle
          BY <2>1 DEF Finishes
        <5>. QED
          BY <1>0, <5>1, LastExists DEF TurnsInv, RemovedIsGone, RowAt, NoRow, REMOVED, c
      <4>4. Gone(Seen(o)) <=> c >= Threshold
        BY <4>3 DEF Gone, c
      <4>5. Gone(row) <=> Gone(Seen(o)) \/ Misses + 1 >= Threshold
        <5>1. CASE Gone(Seen(o))
          BY <2>3, <4>2, <4>4, <5>1
        <5>2. CASE ~Gone(Seen(o))
          BY <2>3, <4>2, <5>2
        <5>. QED
          BY <5>1, <5>2
      <4>6. ~Gone(row) => row.absence_count = Misses'
        BY <2>3, <3>2, <4>1, <4>5
      <4>7. Promise!Missed
        <5>1. AnnouncedGone' <=> AnnouncedGone \/ Misses + 1 >= Threshold
          BY <2>3, <2>4, <4>5
        <5>2. AnnouncedGone' \in BOOLEAN /\ (AnnouncedGone \/ Misses + 1 >= Threshold) \in BOOLEAN
          BY DEF AnnouncedGone
        <5>3. AnnouncedGone' = (AnnouncedGone \/ Misses + 1 >= Threshold)
          BY <5>1, <5>2
        <5>. QED
          BY <3>2, <5>3 DEF Promise!Missed
      <4>. QED
        BY <2>5, <4>6, <4>7 DEF Promise!Next
    <3>. QED
      BY <3>1, <3>3, <3>4 DEF AUTHORITATIVE_ABSENCE
  <2>. QED
    BY <1>4, <2>6, <2>7
<1>5. CASE UNCHANGED ledgerVars
  BY <1>0, <1>1, <1>2, <1>5 DEF ledgerVars
<1>6. CASE LedgerNext
  <2>1. PICK o \in Observers :
           \/ Quiet(o)
           \/ \E row \in Rows : Audits(o, row) \/ Loses(o, row) \/ Presents(o, row)
    BY <1>0, <1>6, StepCases
  <2>2. CASE Quiet(o)
    BY <1>0, <1>1, <1>2, <2>2 DEF Quiet
  <2>. QED
    BY <1>0, <1>2, <1>3, <1>4, <2>1, <2>2
<1>. QED
  BY <1>5, <1>6

\* The history starts with the abstract event there and never missed.
LEMMA LifeStart == LedgerInit => LifeInv /\ Promise!Init
<1>. SUFFICES ASSUME LedgerInit PROVE LifeInv /\ Promise!Init
  OBVIOUS
<1>1. TurnsInv /\ LedgerTypeOK /\ History = {} /\ DOMAIN states = {}
  BY InitTurnsInv, InitRaceInv DEF RaceInv, LedgerInit, History
<1>2. Trail = {} /\ ~AnnouncedGone
  BY <1>1 DEF Trail, AnnouncedGone
<1>3. Misses = 0
  BY <1>1, <1>2, TrailIsFinite, FS_EmptySet
<1>4. MissesAreCounted
  BY <1>1, <1>3 DEF MissesAreCounted, RowAt, NoRow
<1>. QED
  BY <1>1, <1>2, <1>3, <1>4 DEF LifeInv, Promise!Init

\* With one observer at a time, the log of transitions tells of the event's
\* public life just what Visibility promises: gone after Threshold misses in a
\* row or an explicit removal, there again once it is seen.
THEOREM LedgerTellsTheLife == ASSUME Alone PROVE LedgerSpec => ImplementsVisibility
<1>1. LifeInv /\ [LedgerNext]_ledgerVars => LifeInv' /\ [Promise!Next]_(Promise!vars)
  BY LifeStep
<1>. QED
  BY <1>1, LifeStart, PTL DEF LedgerSpec, ImplementsVisibility, Promise!Spec
================================================================================
