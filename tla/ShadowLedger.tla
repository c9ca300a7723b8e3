------------------------------ MODULE ShadowLedger ------------------------------
(***************************************************************************)
(* The Shadow Ledger of graph-service, for one event of one source:        *)
(* ShadowStore.observe in graph_service/shadow_store.py with the detector  *)
(* it calls, graph_service/shadow_ledger.py.  Captures of the event's      *)
(* public state arrive in any order; each is compared with the latest      *)
(* state row and becomes the new current state, an audit row beside it, or *)
(* nothing, and the changes it shows are appended as transitions.          *)
(*                                                                         *)
(* The route is a plain function, so its calls run in a thread pool, and   *)
(* observe is one transaction that reads the latest row and later inserts: *)
(* under READ COMMITTED, calls of several observers interleave in between. *)
(***************************************************************************)
EXTENDS Integers, Sequences, FiniteSets

CONSTANTS
  Fields,          \* the names of FIELD_SPECS
  PriceFields,     \* _PRICE_FIELDS: their changes are one transition
  NullableFields,  \* fields with explicit_null_allowed
  Values,          \* what a field can hold
  Null,            \* None
  ExplicitNull,    \* a reading of status OBSERVED_NULL
  Blank,           \* OBSERVED_VALUE of a blank string: normalized to None
  Unseen,          \* NOT_OBSERVED, EXTRACTION_FAILED, NOT_SUPPORTED
  Readings,        \* the readings of a field this instance tries
  Statuses,        \* the capture statuses this instance tries
  Threshold,       \* shadow_ledger_disappearance_threshold
  Observers,       \* threads of the pool serving observe
  MaxStamp,        \* bound: observed_at is one of 1 .. MaxStamp
  MaxRows          \* bound: state rows

VARIABLES
  states,       \* table shadow_state, in the order of insertion
  transitions,  \* table shadow_transition
  request,      \* the capture each observer is recording
  latest        \* the row each observer read as the latest one; 0 for none

ledgerVars == <<states, transitions, request, latest>>

--------------------------------------------------------------------------------
PRESENT == "CAPTURE_SUCCESS_RECORD_PRESENT"
ABSENT  == "CAPTURE_SUCCESS_RECORD_ABSENT"
REMOVED == "EXPLICITLY_REMOVED"
AUTHORITATIVE_ABSENCE == {ABSENT, REMOVED}
NON_AUTHORITATIVE == {"SOURCE_UNAVAILABLE", "CAPTURE_FAILED", "PARSER_FAILED",
                      "NOT_CHECKED"}
CAPTURE_STATUSES == {PRESENT} \cup AUTHORITATIVE_ABSENCE \cup NON_AUTHORITATIVE

Stamps == 1 .. MaxStamp
States == [Fields -> Values \cup {Null}]
Captures == [Fields -> Readings]
Empty == [f \in Fields |-> Null]
Nothing == [f \in Fields |-> Unseen]

\* Only a capture that found the record reads its fields.
Requests ==
  [status : Statuses \ {PRESENT}, observed_at : Stamps, capture : {Nothing}]
    \cup [status : Statuses \cap {PRESENT}, observed_at : Stamps, capture : Captures]

Rows == [observed_at : Stamps, capture_status : CAPTURE_STATUSES, effective : States,
         capture : Captures, out_of_order : BOOLEAN, absence_count : Nat,
         previous : Nat]

\* One type of change per field, but one for all of the price.
Subjects == {"price"} \cup (Fields \ PriceFields)
Kinds == {"EVENT_FIRST_SEEN", "EVENT_DISAPPEARED", "EVENT_REAPPEARED"} \cup Subjects

ASSUME LedgerAssumption ==
  /\ PriceFields \subseteq Fields /\ NullableFields \subseteq Fields
  /\ Fields \cap {"price", "EVENT_FIRST_SEEN", "EVENT_DISAPPEARED", "EVENT_REAPPEARED"} = {}
  /\ Null \notin Values
  /\ Unseen \in Readings /\ Readings \subseteq Values \cup {ExplicitNull, Blank, Unseen}
  /\ {ExplicitNull, Blank, Unseen} \cap Values = {}
  /\ ExplicitNull # Blank /\ ExplicitNull # Unseen /\ Blank # Unseen
  /\ Statuses \subseteq CAPTURE_STATUSES
  /\ Threshold \in Nat \ {0}
  /\ MaxStamp \in Nat /\ MaxRows \in Nat

Idle == [status |-> "idle"]

\* The type invariant.
LedgerTypeOK ==
  /\ states \in Seq(Rows)
  /\ \A i \in DOMAIN states : states[i].previous < i
  /\ transitions \subseteq [to : DOMAIN states, kind : Kinds]
  /\ request \in [Observers -> Requests \cup {Idle}]
  /\ latest \in [Observers -> 0 .. Len(states)]
  /\ \A o \in Observers : request[o] = Idle => latest[o] = 0

LedgerInit ==
  /\ states = <<>>
  /\ transitions = {}
  /\ request = [o \in Observers |-> Idle]
  /\ latest = [o \in Observers |-> 0]

--------------------------------------------------------------------------------
(* Reading.                                                                *)

Forward_Audits == DOMAIN states

\* The rows that are not there for audit only.
Forward == {i \in DOMAIN states : ~states[i].out_of_order}

\* _latest: rows of the same observed_at are told apart by created_at, which
\* is not the order of insertion.
Latest ==
  IF Forward = {} THEN {0}
  ELSE {i \in Forward : \A j \in Forward : states[j].observed_at <= states[i].observed_at}

\* Before any row: older than every capture, with nothing observed.
NoRow == [observed_at |-> 0, capture_status |-> "none", effective |-> Empty,
          capture |-> Nothing, absence_count |-> 0]

Seen(o) == IF latest[o] = 0 THEN NoRow ELSE states[latest[o]]

Older(o) == request[o].observed_at < Seen(o).observed_at
SameTime(o) == request[o].observed_at = Seen(o).observed_at
Fresh_Inclusive(o) == request[o].observed_at >= Seen(o).observed_at
Fresh(o) == request[o].observed_at > Seen(o).observed_at

\* prev_disappeared
Gone(row) == row.absence_count >= Threshold \/ row.capture_status = REMOVED

--------------------------------------------------------------------------------
(* evaluate_present_capture: overlay what was read, announce what changed. *)

Merge_Nulls(previous, capture) ==
  [f \in Fields |-> IF capture[f] \in Values THEN capture[f] ELSE Null]

Merge(previous, capture) ==
  [f \in Fields |->
     CASE capture[f] \in Values -> capture[f]
       [] capture[f] = Blank -> Null
       [] capture[f] = ExplicitNull /\ f \in NullableFields -> Null
       [] OTHER -> previous[f]]

Changes(previous, capture, effective) ==
  {f \in Fields \ PriceFields : capture[f] # Unseen /\ effective[f] # previous[f]}
    \cup IF /\ \E f \in PriceFields : capture[f] # Unseen
            /\ \E f \in PriceFields : effective[f] # previous[f]
         THEN {"price"} ELSE {}

--------------------------------------------------------------------------------
(* Writing.                                                                *)

Done(o) ==
  /\ request' = [request EXCEPT ![o] = Idle]
  /\ latest' = [latest EXCEPT ![o] = 0]

NewRow(o, effective, out_of_order, absence_count, previous) ==
  [observed_at |-> request[o].observed_at, capture_status |-> request[o].status,
   effective |-> effective, capture |-> request[o].capture,
   out_of_order |-> out_of_order, absence_count |-> absence_count,
   previous |-> previous]

\* _insert_state and _insert_transitions
Insert(row, kinds) ==
  /\ states' = Append(states, row)
  /\ transitions' = transitions \cup {[to |-> Len(states) + 1, kind |-> k] : k \in kinds}

--------------------------------------------------------------------------------
(* observe: it reads the latest row ...                                    *)

Busy == {o \in Observers : request[o] # Idle}

Begin(o) ==
  /\ request[o] = Idle
  /\ Len(states) + Cardinality(Busy) < MaxRows
  /\ \E r \in Requests, l \in Latest :
       /\ request' = [request EXCEPT ![o] = r]
       /\ latest' = [latest EXCEPT ![o] = l]
  /\ UNCHANGED <<states, transitions>>

\* ... and, for a capture that comes too late or contradicts one of the same
\* time, keeps what it saw beside the current state;
Audit(o) ==
  /\ request[o] # Idle
  /\ \/ Older(o)
     \/ SameTime(o) /\ Seen(o).capture # request[o].capture
  /\ Insert(NewRow(o, [f \in Fields |-> IF request[o].capture[f] \in Values
                                          THEN request[o].capture[f] ELSE Null],
                   TRUE, 0, 0), {})
  /\ Done(o)

\* for one that repeats the latest, does nothing;
DropDuplicate(o) ==
  /\ request[o] # Idle
  /\ SameTime(o) /\ Seen(o).capture = request[o].capture
  /\ Done(o)
  /\ UNCHANGED <<states, transitions>>

\* for a failed request, neither counts nor keeps anything;
IgnoreFailure_Counts(o) ==
  /\ request[o] # Idle
  /\ Fresh(o) /\ request[o].status \in NON_AUTHORITATIVE
  /\ Insert(NewRow(o, Seen(o).effective, FALSE, Seen(o).absence_count + 1, latest[o]),
            IF Seen(o).absence_count + 1 = Threshold THEN {"EVENT_DISAPPEARED"} ELSE {})
  /\ Done(o)

IgnoreFailure(o) ==
  /\ request[o] # Idle
  /\ Fresh(o) /\ request[o].status \in NON_AUTHORITATIVE
  /\ Done(o)
  /\ UNCHANGED <<states, transitions>>

\* for an authoritative absence, counts it and carries the state forward;
AbsenceCount(o) ==
  LET count == Seen(o).absence_count
  IN  IF request[o].status = ABSENT THEN count + 1
      ELSE IF count < Threshold THEN Threshold ELSE count

Disappears(o) ==
  /\ ~Gone(Seen(o))
  /\ request[o].status = REMOVED \/ AbsenceCount(o) = Threshold

RecordAbsence(o) ==
  /\ request[o] # Idle
  /\ Fresh(o) /\ request[o].status \in AUTHORITATIVE_ABSENCE
  /\ Insert(NewRow(o, Seen(o).effective, FALSE, AbsenceCount(o), latest[o]),
            IF Disappears(o) THEN {"EVENT_DISAPPEARED"} ELSE {})
  /\ Done(o)

\* for one that found the record, merges what it read into the current state.
Effective(o) == Merge(Seen(o).effective, request[o].capture)

Unchanged(o) ==
  /\ latest[o] # 0 /\ ~Gone(Seen(o))
  /\ Seen(o).capture_status = PRESENT
  /\ Seen(o).effective = Effective(o)

SkipUnchanged(o) ==
  /\ request[o] # Idle
  /\ Fresh(o) /\ request[o].status = PRESENT
  /\ Unchanged(o)
  /\ Done(o)
  /\ UNCHANGED <<states, transitions>>

Announced(o) ==
  IF latest[o] = 0 THEN {"EVENT_FIRST_SEEN"}
  ELSE Changes(Seen(o).effective, request[o].capture, Effective(o))
         \cup IF Gone(Seen(o)) THEN {"EVENT_REAPPEARED"} ELSE {}

RecordPresent(o) ==
  /\ request[o] # Idle
  /\ Fresh(o) /\ request[o].status = PRESENT
  /\ ~Unchanged(o)
  /\ Insert(NewRow(o, Effective(o), FALSE, 0, latest[o]), Announced(o))
  /\ Done(o)

--------------------------------------------------------------------------------
LedgerNext ==
  \E o \in Observers :
    \/ Begin(o)
    \/ Audit(o) \/ DropDuplicate(o) \/ IgnoreFailure(o)
    \/ RecordAbsence(o) \/ SkipUnchanged(o) \/ RecordPresent(o)

LedgerSpec == LedgerInit /\ [][LedgerNext]_ledgerVars

--------------------------------------------------------------------------------
(* Properties.                                                             *)

Has(i, kind) == [to |-> i, kind |-> kind] \in transitions

\* The states that became current, in the order in which they did.
History == {i \in DOMAIN states : ~states[i].out_of_order}

Absent(i) == states[i].capture_status \in AUTHORITATIVE_ABSENCE

\* One observer at a time leaves one history: each current state is newer than
\* the one before it and was compared with exactly that one.
ForwardInOrder ==
  \A i \in History :
    LET before == {j \in History : j < i}
    IN  /\ \A j \in before : states[j].observed_at < states[i].observed_at
        /\ IF before = {} THEN states[i].previous = 0
           ELSE /\ states[i].previous \in before
                /\ \A j \in before : j <= states[i].previous

\* Late and contradictory captures stay outside: no state is built on an audit
\* row and none announces a transition, even when observers race.
AuditStandsAside ==
  /\ \A i \in DOMAIN states : states[i].previous \in History \cup {0}
  /\ \A t \in transitions : t.to \in History

\* The transitions of a state say exactly what sets it apart from the state it
\* was compared with: no change goes unannounced, none is made up.
TransitionsExplainState ==
  \A i \in History : states[i].previous # 0 =>
    LET old == states[states[i].previous].effective
        new == states[i].effective
        changed == {f \in Fields : old[f] # new[f]}
    IN  {s \in Subjects : Has(i, s)} =
          (changed \ PriceFields)
            \cup IF changed \cap PriceFields = {} THEN {} ELSE {"price"}

\* A field of a current state holds what the last of the states that became
\* current could tell of it: captures that did not look, failed or stand aside
\* for audit neither change nor erase it.  It speaks of the rows there are: an
\* unchanged capture leaves none, so that a capture older than it still becomes
\* current (LateNeverCurrent of MCShadowLedger).
StateIsLastReading ==
  \A i \in History, f \in Fields :
    LET told == {j \in History : /\ j <= i
                                 /\ \/ states[j].capture[f] \in Values \cup {Blank}
                                    \/ states[j].capture[f] = ExplicitNull /\ f \in NullableFields}
        last == CHOOSE j \in told : \A k \in told : k <= j
    IN  states[i].effective[f] =
          IF told # {} /\ states[last].capture[f] \in Values
            THEN states[last].capture[f] ELSE Null

\* EVENT_DISAPPEARED fires once, and again only after an EVENT_REAPPEARED,
\* which in turn fires only after a disappearance.
DisappearsOnce ==
  \A i, j \in DOMAIN states : i < j =>
    /\ Has(i, "EVENT_DISAPPEARED") /\ Has(j, "EVENT_DISAPPEARED") =>
         \E k \in i .. j : Has(k, "EVENT_REAPPEARED")
    /\ Has(i, "EVENT_REAPPEARED") /\ Has(j, "EVENT_REAPPEARED") =>
         \E k \in i .. j : Has(k, "EVENT_DISAPPEARED")

\* The log of transitions tells of the event's visibility what the captures
\* justify, and nothing else: it implements Visibility.
AnnouncedGone ==
  \E i \in DOMAIN states : /\ Has(i, "EVENT_DISAPPEARED")
                           /\ \A j \in i .. Len(states) : ~Has(j, "EVENT_REAPPEARED")
Misses ==
  Cardinality({i \in History : \A j \in History : j >= i => Absent(j)})

Promise == INSTANCE Visibility WITH gone <- AnnouncedGone, misses <- Misses
ImplementsVisibility == Promise!Spec

\* The history of an event is one line, along which it disappears and
\* reappears by turns (shadow_store.py: out-of-order rows, the threshold).
HistoryIsOrdered == ForwardInOrder /\ DisappearsOnce

\* With observers that race, the rows still explain the current states, and
\* the rest only audits (shadow_store.py: record_state).
LogExplainsStates == LedgerTypeOK /\ AuditStandsAside /\ TransitionsExplainState
================================================================================
