---------------------------- MODULE MCShadowLedger -----------------------------
(***************************************************************************)
(* The ledger with a memory that no table has: when the newest capture was *)
(* observed that the ledger compared with the current state and took in,   *)
(* as a new state or as a confirmation of the one there is.                *)
(***************************************************************************)
EXTENDS ShadowLedger

VARIABLE newest  \* history: observed_at of that capture, 0 before any

TakesIn(o) == SkipUnchanged(o) \/ RecordPresent(o) \/ RecordAbsence(o)
Ignores(o) == Begin(o) \/ Audit(o) \/ DropDuplicate(o) \/ IgnoreFailure(o)

\* A capture that is taken in is as new as the newest row, but may be older
\* than a confirmation, which leaves no row.
RememberedNext ==
  \E o \in Observers :
    \/ /\ TakesIn(o)
       /\ newest' = IF request[o].observed_at > newest THEN request[o].observed_at ELSE newest
    \/ Ignores(o) /\ UNCHANGED newest

RememberedSpec ==
  LedgerInit /\ newest = 0 /\ [][RememberedNext]_<<ledgerVars, newest>>

\* What ADR-0005 and the head of shadow_store.py say: captures that arrive out
\* of order are audited and never corrupt the current state, so that none
\* becomes current that was observed before one already taken in.  The ledger
\* compares with the newest row, and an unchanged capture leaves none.
LateNeverCurrent ==
  [][\A i \in History' \ History : states'[i].observed_at >= newest]_<<ledgerVars, newest>>
================================================================================
