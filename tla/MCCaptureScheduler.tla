-------------------------- MODULE MCCaptureScheduler ---------------------------
(***************************************************************************)
(* Instances of CaptureScheduler for TLC.  One unit of time stands for the *)
(* lease of a job; the backoff is the code's, base 1 and cap 2.            *)
(***************************************************************************)
EXTENDS CaptureScheduler, TLC

MCBackoff == [n \in 1 .. MaxAttempts + ParserRetryLimit |-> BackoffSeconds(n, 1, 2)]

Symmetry == Permutations(Workers) \cup Permutations(Events)
================================================================================
