------------------------------- MODULE Visibility -------------------------------
(***************************************************************************)
(* What the Shadow Ledger promises about the public life of one event of   *)
(* one source (graph_service/shadow_store.py, shadow_ledger.py): it is     *)
(* gone once it was missed Threshold times in a row, or was explicitly     *)
(* removed, and until it is seen again.                                    *)
(***************************************************************************)
EXTENDS Integers

CONSTANT Threshold  \* consecutive authoritative absences that make it gone

VARIABLES
  gone,   \* is it gone?
  misses  \* authoritative absences since it was last seen

vars == <<gone, misses>>

Init == gone = FALSE /\ misses = 0

Seen    == gone' = FALSE /\ misses' = 0
Missed  == gone' = (gone \/ misses + 1 >= Threshold) /\ misses' = misses + 1
Removed == gone' = TRUE /\ misses' = misses + 1

Next == Seen \/ Missed \/ Removed

Spec == Init /\ [][Next]_vars
================================================================================
