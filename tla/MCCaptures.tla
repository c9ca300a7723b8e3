------------------------------- MODULE MCCaptures ------------------------------
(***************************************************************************)
(* Two services that share no state, checked side by side: the workers     *)
(* that capture, and the ledger of what a capture saw.  `service` is       *)
(* chosen once, and only that one moves.                                   *)
(***************************************************************************)
EXTENDS MCCaptureScheduler, ShadowLedger

VARIABLE service

CapturesInit == Init /\ LedgerInit /\ service \in {"scheduler", "ledger"}

CapturesNext ==
  /\ UNCHANGED service
  /\ \/ service = "scheduler" /\ Next /\ UNCHANGED ledgerVars
     \/ service = "ledger" /\ LedgerNext /\ UNCHANGED vars

CapturesSpec == CapturesInit /\ [][CapturesNext]_<<service, vars, ledgerVars>>
================================================================================
