---------------------------- MODULE MCDemandQueues -----------------------------
(***************************************************************************)
(* Two demand queues side by side: the one of the .cfg, with operators, a  *)
(* crash and an exhausted quota; and one of two artists, either of whom    *)
(* may turn out to own the only channel, with undecided searches.          *)
(* `queue` is chosen once, and only that one moves.                        *)
(***************************************************************************)
EXTENDS MCDemandScheduler

VARIABLES queue,
  pairNow, pairJobs, pairRows, pairPaused, pairPass, pairDraftJobs, pairDraftRows, pairHung, pairCrashes

pairVars ==
  <<pairNow, pairJobs, pairRows, pairPaused, pairPass, pairDraftJobs, pairDraftRows, pairHung, pairCrashes>>

Two == {"a", "b"}

Pair == INSTANCE DemandScheduler WITH
  Artists <- Two, Channels <- {"c1"}, Priority <- [x \in Two |-> IF x = "b" THEN 1 ELSE 2],
  RetryEvery <- MCRetryEvery, Batch <- 2, Registry <- {{}, Two},
  Answers <- {"ok", "not_found", "resolved", "undecided"}, Operator <- {}, MaxCrashes <- 0,
  now <- pairNow, jobs <- pairJobs, rows <- pairRows, paused <- pairPaused, pass <- pairPass,
  draftJobs <- pairDraftJobs, draftRows <- pairDraftRows, hung <- pairHung, crashes <- pairCrashes

QueueInit == Init /\ Pair!Init /\ queue \in {"operated", "shared"}

QueueNext ==
  /\ UNCHANGED queue
  /\ \/ queue = "operated" /\ Next /\ UNCHANGED pairVars
     \/ queue = "shared" /\ Pair!Next /\ UNCHANGED vars

QueueSpec ==
  /\ QueueInit /\ [][QueueNext]_<<queue, vars, pairVars>>
  /\ WF_vars(queue = "operated" /\ Collect)

\* An onboarded artist stays followed, whatever operators do, and whichever of
\* two artists the channel turns out to belong to (OnboardedIsFollowed).
NobodyIsForgotten == OnboardedIsFollowed /\ Pair!OnboardedIsFollowed

\* Finished windows are never worked on again, in either queue (WindowsAreFinal).
WindowsStayFinal ==
  [][/\ \A k \in Keys : jobs[k].status \in Finished => jobs'[k] = jobs[k]
     /\ \A k \in Pair!Keys : pairJobs[k].status \in Finished => pairJobs'[k] = pairJobs[k]]_<<vars, pairVars>>
================================================================================
