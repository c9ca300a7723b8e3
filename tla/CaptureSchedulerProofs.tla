------------------------ MODULE CaptureSchedulerProofs -------------------------
(***************************************************************************)
(* Theorems about CaptureScheduler, for every value of its constants.      *)
(***************************************************************************)
EXTENDS CaptureScheduler, TLAPS

USE RetryAssumption, SchedulerAssumption

--------------------------------------------------------------------------------
(* Types.                                                                  *)

\* The keys the actions build are keys: a due event waits for a window the
\* clock has reached, and the minute of a request is not after the request.
LEMMA KeysAreKeys ==
  ASSUME TypeOK, NEW e \in Events
  PROVE  /\ \A t \in 0 .. MaxTime : Due(e, t) => WindowKey(e) \in Keys
         /\ CaptureNowKey(e) \in Keys
<1>1. \A t \in 0 .. MaxTime : Due(e, t) => tracked[e].next_capture_at \in Windows
  BY DEF TypeOK, TrackedEvents, Due, Windows
<1>2. clock \div MinuteLength \in 0 .. MaxTime
  <2>1. clock \in 0 .. MaxTime
    BY DEF TypeOK
  <2>. QED
    BY <2>1
<1>. QED
  BY <1>1, <1>2 DEF WindowKey, CaptureNowKey, Keys, Windows

\* A retried job has an attempt Backoff knows, and a retry waits.
LEMMA RetryDelayPositive ==
  ASSUME NEW r \in ResultCodes \ SUCCESS, NEW n \in Nat \ {0}, ~Terminal(r, n)
  PROVE  RetryDelays(r, n) \subseteq Nat \ {0}
<1>1. n \in 1 .. MaxAttempts + ParserRetryLimit
  BY DEF Terminal, ResultCodes
<1>. QED
  BY <1>1 DEF RetryDelays

\* A next capture is a time or never.
LEMMA CadenceType ==
  ASSUME NEW t \in Nat, NEW s PROVE Cadence(t, s) \subseteq Nat \cup {None}
<1>1. \A d \in CadenceSteps : t + d \in Nat
  OBVIOUS
<1>2. {t + d : d \in CadenceSteps} \subseteq Nat
  BY <1>1
<1>3. {f \in FollowUps : f > t} \subseteq Nat
  OBVIOUS
<1>. QED
  BY <1>2, <1>3 DEF Cadence

LEMMA InitTypeOK == Init => TypeOK
BY DEF Init, TypeOK, Untracked, TrackedEvents, NoJob, Jobs, Places, Uninterrupted, Processing,
   Keys, Windows, DoneJobStatuses, ActiveJobStatuses, Retired, ResultCodes

\* What the actions write into a row is a row.
LEMMA NewJobType ==
  ASSUME NEW p \in Int, NEW t \in Nat PROVE NewJob(p, t) \in Jobs
BY DEF NewJob, NoJob, Jobs, ActiveJobStatuses

LEMMA JobTypes ==
  ASSUME TypeOK, NEW job \in Jobs
  PROVE  /\ \A w \in Workers : Leased(job, w) \in Jobs
         /\ \A s \in DoneJobStatuses : Finished(job, s) \in Jobs
         /\ [job EXCEPT !.status = "PENDING", !.lock_expires_at = None] \in Jobs
<1>1. \A n, t \in Nat : [job EXCEPT !.status = "RUNNING", !.lock_expires_at = t,
                                    !.attempt_count = n] \in Jobs
  BY DEF Jobs, ActiveJobStatuses
<1>2. job.attempt_count \in Nat /\ job.attempt_count + 1 \in Nat
  BY DEF Jobs
<1>3. \A w \in Workers : Leased(job, w) \in Jobs
  <2>1. \A w \in Workers : LeaseEnd(w) \in Nat
    BY DEF TypeOK, LeaseEnd
  <2>. QED
    BY <1>1, <1>2, <2>1 DEF Leased
<1>4. \A s \in DoneJobStatuses : Finished(job, s) \in Jobs
  <2>1. \A s \in DoneJobStatuses, p \in Int, t \in Nat :
          [job EXCEPT !.status = s, !.lock_expires_at = None, !.priority = p,
                      !.scheduled_at = t] \in Jobs
    BY DEF Jobs
  <2>2. 0 \in Int /\ 0 \in Nat
    OBVIOUS
  <2>. QED
    BY <2>1, <2>2, Zenon DEF Finished
<1>5. [job EXCEPT !.status = "PENDING", !.lock_expires_at = None] \in Jobs
  BY DEF Jobs, ActiveJobStatuses
<1>. QED
  BY <1>3, <1>4, <1>5

LEMMA EventTypes ==
  ASSUME NEW event \in TrackedEvents, NEW next \in Nat \cup {None}
  PROVE  /\ Answered(event, next) \in TrackedEvents
         /\ \A s \in Retired : [event EXCEPT !.consecutive_failures = @ + 1,
                 !.next_capture_at = None, !.status = s] \in TrackedEvents
         /\ [event EXCEPT !.consecutive_failures = @ + 1, !.next_capture_at = next]
               \in TrackedEvents
         /\ [event EXCEPT !.status = "STOPPED", !.next_capture_at = None] \in TrackedEvents
         /\ [event EXCEPT !.next_capture_at = next] \in TrackedEvents
         /\ [event EXCEPT !.status = "ACTIVE"] \in TrackedEvents
<1>. USE DEF TrackedEvents, Retired
<1>1. event.consecutive_failures + 1 \in Nat /\ event.status \in {"UNTRACKED", "ACTIVE"} \cup Retired
  OBVIOUS
<1>2. \A s \in {"UNTRACKED", "ACTIVE"} \cup Retired :
        [event EXCEPT !.next_capture_at = next, !.consecutive_failures = 0, !.status = s]
          \in TrackedEvents
  OBVIOUS
<1>3. Answered(event, next) \in TrackedEvents
  BY <1>1, <1>2 DEF Answered
<1>4. \A n \in Nat, s \in Retired :
        [event EXCEPT !.consecutive_failures = n, !.next_capture_at = None, !.status = s]
          \in TrackedEvents
  OBVIOUS
<1>5. \A n \in Nat :
        [event EXCEPT !.consecutive_failures = n, !.next_capture_at = next] \in TrackedEvents
  OBVIOUS
<1>6. /\ [event EXCEPT !.status = "STOPPED", !.next_capture_at = None] \in TrackedEvents
      /\ [event EXCEPT !.next_capture_at = next] \in TrackedEvents
      /\ [event EXCEPT !.status = "ACTIVE"] \in TrackedEvents
  OBVIOUS
<1>. QED
  BY <1>1, <1>3, <1>4, <1>5, <1>6

\* The closing transaction, once its new event row is one.
LEMMA FinishTypeOK ==
  ASSUME TypeOK, AtHand, NEW w \in Workers, pc[w] = "finish",
         NEW status \in DoneJobStatuses, NEW event \in TrackedEvents,
         NEW place \in {"idle", "work", "enrich"}, Finish(w, status, event, place)
  PROVE  TypeOK'
<1>1. current[w] \in Keys /\ current[w].event \in Events
  BY DEF AtHand, Processing, Keys
<1>2. jobs' \in [Keys -> Jobs]
  BY <1>1, JobTypes DEF Finish, TypeOK
<1>3. tracked' \in [Events -> TrackedEvents]
  BY <1>1 DEF Finish, TypeOK
<1>4. pc' \in [Workers -> Places] /\ now' \in [Workers -> 0 .. MaxTime]
  BY DEF Finish, Leave, Goto, TypeOK, Places, Uninterrupted
<1>. QED
  BY <1>1, <1>2, <1>3, <1>4 DEF Finish, TypeOK

\* Likewise for enrichment.
LEMMA EnrichTypeOK ==
  ASSUME TypeOK, AtHand, NEW w \in Workers, pc[w] = "enrich",
         NEW effect, NEW event \in TrackedEvents, Enrich(w, effect, event)
  PROVE  TypeOK'
<1>1. current[w] \in Keys /\ current[w].event \in Events
  BY DEF AtHand, Keys
<1>2. tracked' \in [Events -> TrackedEvents]
  BY <1>1 DEF Enrich, TypeOK
<1>3. pc' \in [Workers -> Places] /\ now' \in [Workers -> 0 .. MaxTime]
  BY DEF Enrich, Leave, Goto, NextPlace, TypeOK, Places, Uninterrupted
<1>. QED
  BY <1>1, <1>2, <1>3 DEF Enrich, TypeOK

LEMMA StepTypeOK == TypeOK /\ AtHand /\ [Next]_vars => TypeOK'
<1>. SUFFICES ASSUME TypeOK, AtHand, [Next]_vars PROVE TypeOK'
  OBVIOUS
<1>. USE DEF TypeOK, database, local, Places, Uninterrupted, Processing
<1>1. CASE Tick
  BY <1>1 DEF Tick
<1>2. ASSUME NEW e \in Events, Enroll(e) PROVE TypeOK'
  BY <1>2, EventTypes DEF Enroll
<1>3. ASSUME NEW w \in Workers, StartPass(w) PROVE TypeOK'
  BY <1>3 DEF StartPass, At, Goto
<1>4. ASSUME NEW w \in Workers, RecoverSelect(w) PROVE TypeOK'
  BY <1>4 DEF RecoverSelect, At, Goto
<1>5. ASSUME NEW w \in Workers, RecoverCommit(w) PROVE TypeOK'
  <2>1. jobs' \in [Keys -> Jobs]
    BY <1>5, JobTypes DEF RecoverCommit
  <2>. QED
    BY <1>5, <2>1 DEF RecoverCommit, At, Goto
<1>6. ASSUME NEW w \in Workers, GenerateSelect(w) PROVE TypeOK'
  BY <1>6, KeysAreKeys DEF GenerateSelect, At, Goto, Priority, TrackedEvents
<1>7. ASSUME NEW w \in Workers, GenerateCommit(w) PROVE TypeOK'
  <2>1. \A p \in plan[w] : /\ p.priority \in Int
                           /\ (IF p.key.at = None THEN now[w] ELSE p.key.at) \in Nat
    BY DEF Keys, Windows
  <2>2. \A p \in plan[w] : PlannedJob(p, w) \in Jobs
    BY <2>1, NewJobType DEF PlannedJob
  <2>3. jobs' \in [Keys -> Jobs]
    BY <1>7, <2>2 DEF GenerateCommit
  <2>. QED
    BY <1>7, <2>3 DEF GenerateCommit, At, Goto
<1>8. ASSUME NEW w \in Workers, GenerateConflict(w) PROVE TypeOK'
  BY <1>8 DEF GenerateConflict, At, Goto, Leave
<1>9. ASSUME NEW w \in Workers, ClaimJobs(w) PROVE TypeOK'
  <2>1. PICK S \in Selections(w) :
           /\ jobs' = [k \in Keys |-> IF k \in S THEN Leased(jobs[k], w) ELSE jobs[k]]
           /\ batch' = [batch EXCEPT ![w] = S]
           /\ Leave(w, IF S = {} THEN "idle" ELSE "work")
    BY <1>9 DEF ClaimJobs
  <2>2. jobs' \in [Keys -> Jobs]
    BY <2>1, JobTypes
  <2>3. S \subseteq Keys
    BY DEF Selections, Claimable
  <2>4. pc' \in [Workers -> Places] /\ now' \in [Workers -> 0 .. MaxTime]
    BY <2>1 DEF Leave, Goto
  <2>. QED
    BY <1>9, <2>1, <2>2, <2>3, <2>4 DEF ClaimJobs
<1>10. ASSUME NEW w \in Workers, ClaimSpecific(w) PROVE TypeOK'
  <2>1. current[w] \in Keys
    BY <1>10 DEF ClaimSpecific, At, AtHand
  <2>2. jobs' \in [Keys -> Jobs]
    BY <1>10, <2>1, JobTypes DEF ClaimSpecific
  <2>. QED
    BY <1>10, <2>1, <2>2 DEF ClaimSpecific, At, Goto, Leave
<1>11. ASSUME NEW w \in Workers, BeginJob(w) PROVE TypeOK'
  BY <1>11 DEF BeginJob, At, Goto, Jobs
<1>12. ASSUME NEW w \in Workers, Capture(w) PROVE TypeOK'
  BY <1>12 DEF Capture, At, Goto
<1>13. ASSUME NEW w \in Workers, FinishPresent(w) PROVE TypeOK'
  <2>. DEFINE event == tracked[current[w].event]
  <2>1. event \in TrackedEvents
    BY <1>13 DEF FinishPresent, At, AtHand, Keys
  <2>2. PICK next \in Cadence(now[w], event.status) :
           Finish(w, "SUCCEEDED", Answered(event, next),
                  IF EnrichmentEffects = {} THEN NextPlace(w) ELSE "enrich")
    BY <1>13 DEF FinishPresent
  <2>3. next \in Nat \cup {None}
    BY CadenceType
  <2>4. Answered(event, next) \in TrackedEvents
    BY <2>1, <2>3, EventTypes
  <2>. QED
    BY <1>13, <2>2, <2>4, FinishTypeOK DEF FinishPresent, At, NextPlace, DoneJobStatuses
<1>14. ASSUME NEW w \in Workers, FinishAbsent(w) PROVE TypeOK'
  <2>. DEFINE event == tracked[current[w].event]
  <2>1. event \in TrackedEvents
    BY <1>14 DEF FinishAbsent, At, AtHand, Keys
  <2>2. PICK next \in Cadence(now[w], event.status) :
           Finish(w, "SUCCEEDED", Answered(event, next), NextPlace(w))
    BY <1>14 DEF FinishAbsent
  <2>3. next \in Nat \cup {None}
    BY CadenceType
  <2>4. Answered(event, next) \in TrackedEvents
    BY <2>1, <2>3, EventTypes
  <2>. QED
    BY <1>14, <2>2, <2>4, FinishTypeOK DEF FinishAbsent, At, NextPlace, DoneJobStatuses
<1>15. ASSUME NEW w \in Workers, FinishTerminal(w) PROVE TypeOK'
  <2>. DEFINE event == tracked[current[w].event]
  <2>1. event \in TrackedEvents
    BY <1>15 DEF FinishTerminal, At, AtHand, Keys
  <2>2. \A s \in Retired : [event EXCEPT !.consecutive_failures = @ + 1,
                 !.next_capture_at = None, !.status = s] \in TrackedEvents
    BY <2>1, EventTypes
  <2>. QED
    BY <1>15, <2>2, FinishTypeOK DEF FinishTerminal, At, NextPlace, DoneJobStatuses, Retired
<1>16. ASSUME NEW w \in Workers, FinishRetryable(w) PROVE TypeOK'
  <2>. DEFINE event == tracked[current[w].event]
  <2>1. /\ event \in TrackedEvents
        /\ seen[w] \in Nat \ {0}
        /\ result[w] \in ResultCodes \ SUCCESS
    BY <1>16 DEF FinishRetryable, At, AtHand, Keys
  <2>2. PICK d \in RetryDelays(result[w], seen[w]) :
           Finish(w, "FAILED_RETRYABLE",
                  [event EXCEPT !.consecutive_failures = @ + 1,
                                !.next_capture_at = now[w] + d],
                  NextPlace(w))
    BY <1>16 DEF FinishRetryable
  <2>3. now[w] + d \in Nat \cup {None}
    BY <1>16, <2>1, RetryDelayPositive DEF FinishRetryable
  <2>4. [event EXCEPT !.consecutive_failures = @ + 1, !.next_capture_at = now[w] + d]
          \in TrackedEvents
    BY <2>1, <2>3, EventTypes
  <2>. QED
    BY <1>16, <2>2, <2>4, FinishTypeOK DEF FinishRetryable, At, NextPlace, DoneJobStatuses
<1>17. ASSUME NEW w \in Workers, EnrichUnchanged(w) PROVE TypeOK'
  <2>1. tracked[current[w].event] \in TrackedEvents
    BY <1>17 DEF EnrichUnchanged, At, AtHand, Keys
  <2>. QED
    BY <1>17, <2>1, CadenceType, EventTypes, EnrichTypeOK DEF EnrichUnchanged, At
<1>18. ASSUME NEW w \in Workers, EnrichCityStop(w) PROVE TypeOK'
  <2>1. tracked[current[w].event] \in TrackedEvents
    BY <1>18 DEF EnrichCityStop, At, AtHand, Keys
  <2>. QED
    BY <1>18, <2>1, CadenceType, EventTypes, EnrichTypeOK DEF EnrichCityStop, At
<1>19. ASSUME NEW w \in Workers, EnrichReschedule(w) PROVE TypeOK'
  <2>1. tracked[current[w].event] \in TrackedEvents
    BY <1>19 DEF EnrichReschedule, At, AtHand, Keys
  <2>2. Cadence(now[w], tracked[current[w].event].status) \subseteq Nat \cup {None}
    BY CadenceType
  <2>. QED
    BY <1>19, <2>1, <2>2, EventTypes, EnrichTypeOK DEF EnrichReschedule, At
<1>20. ASSUME NEW w \in Workers, NEW e \in Events, CaptureNow(w, e) PROVE TypeOK'
  <2>1. NewJob(CaptureNowPriority, clock) \in Jobs
    BY NewJobType DEF CaptureNowPriority
  <2>2. jobs' \in [Keys -> Jobs]
    BY <1>20, <2>1, KeysAreKeys DEF CaptureNow
  <2>. QED
    BY <1>20, <2>2, KeysAreKeys DEF CaptureNow, At, Goto
<1>21. ASSUME NEW w \in Workers, Abort(w) PROVE TypeOK'
  BY <1>21 DEF Abort, At, Goto, Leave
<1>22. CASE UNCHANGED vars
  BY <1>22 DEF vars
<1>. QED
  BY <1>1, <1>2, <1>3, <1>4, <1>5, <1>6, <1>7, <1>8, <1>9, <1>10, <1>11, <1>12, <1>13, <1>14,
     <1>15, <1>16, <1>17, <1>18, <1>19, <1>20, <1>21, <1>22 DEF Next, Advance

--------------------------------------------------------------------------------
(* What a worker has at hand.                                              *)

\* A row nobody holds yet becomes one a worker may hold, and one it may hold
\* stays one, whatever the actions write into it.
Owned(job) == job.status # "NONE" /\ job.attempt_count > 0

Freed(job) == [job EXCEPT !.status = "PENDING", !.lock_expires_at = None]

LEMMA LeasedFields ==
  ASSUME TypeOK, NEW k \in Keys, NEW w \in Workers
  PROVE  /\ Leased(jobs[k], w).status = "RUNNING"
         /\ Leased(jobs[k], w).lock_expires_at = LeaseEnd(w)
         /\ Owned(Leased(jobs[k], w))
<1>1. jobs[k] \in Jobs
  BY DEF TypeOK
<1>2. jobs[k].attempt_count \in Nat
  BY <1>1 DEF Jobs
<1>3. /\ Leased(jobs[k], w).status = "RUNNING"
      /\ Leased(jobs[k], w).lock_expires_at = LeaseEnd(w)
      /\ Leased(jobs[k], w).attempt_count = jobs[k].attempt_count + 1
  BY <1>1 DEF Leased, Jobs
<1>. QED
  BY <1>2, <1>3 DEF Owned

LEMMA FreedFields ==
  ASSUME TypeOK, NEW k \in Keys
  PROVE  /\ Freed(jobs[k]).status = "PENDING"
         /\ Owned(jobs[k]) => Owned(Freed(jobs[k]))
<1>1. jobs[k] \in Jobs
  BY DEF TypeOK
<1>. QED
  BY <1>1 DEF Freed, Jobs, Owned

LEMMA StepAtHand == TypeOK /\ AtHand /\ [Next]_vars => AtHand'
<1>. SUFFICES ASSUME TypeOK, AtHand, [Next]_vars PROVE AtHand'
  OBVIOUS
<1>. USE DEF TypeOK, AtHand, Held, Processing, database, local
<1>1. CASE Tick
  BY <1>1 DEF Tick
<1>2. ASSUME NEW e \in Events, Enroll(e) PROVE AtHand'
  BY <1>2 DEF Enroll
<1>3. ASSUME NEW w \in Workers, StartPass(w) PROVE AtHand'
  BY <1>3 DEF StartPass, At, Goto, Leave
<1>4. ASSUME NEW w \in Workers, RecoverSelect(w) PROVE AtHand'
  BY <1>4 DEF RecoverSelect, At, Goto, Leave
<1>5. ASSUME NEW w \in Workers, RecoverCommit(w) PROVE AtHand'
  <2>1. \A k \in Keys : jobs'[k] = jobs[k] \/ jobs'[k] = Freed(jobs[k])
    BY <1>5 DEF RecoverCommit, Freed
  <2>2. ASSUME NEW k \in Keys, Owned(jobs[k]) PROVE Owned(jobs'[k])
    <3>1. CASE jobs'[k] = jobs[k]
      BY <2>2, <3>1
    <3>2. CASE jobs'[k] = Freed(jobs[k])
      BY <2>2, <3>2, FreedFields
    <3>. QED
      BY <2>1, <3>1, <3>2
  <2>3. \A k \in Keys : Owned(jobs[k]) => Owned(jobs'[k])
    BY <2>2
  <2>. QED
    BY <1>5, <2>3 DEF RecoverCommit, At, Goto, Owned
<1>6. ASSUME NEW w \in Workers, GenerateSelect(w) PROVE AtHand'
  BY <1>6 DEF GenerateSelect, At, Goto, Leave
<1>7. ASSUME NEW w \in Workers, GenerateCommit(w) PROVE AtHand'
  <2>1. \A k \in Keys : Owned(jobs[k]) => Owned(jobs'[k])
    BY <1>7 DEF GenerateCommit, Owned
  <2>. QED
    BY <1>7, <2>1 DEF GenerateCommit, At, Goto, Owned
<1>8. ASSUME NEW w \in Workers, GenerateConflict(w) PROVE AtHand'
  BY <1>8 DEF GenerateConflict, At, Goto, Leave
<1>9. ASSUME NEW w \in Workers, ClaimJobs(w) PROVE AtHand'
  <2>1. PICK S \in Selections(w) :
           /\ jobs' = [k \in Keys |-> IF k \in S THEN Leased(jobs[k], w) ELSE jobs[k]]
           /\ batch' = [batch EXCEPT ![w] = S]
           /\ Leave(w, IF S = {} THEN "idle" ELSE "work")
    BY <1>9 DEF ClaimJobs
  <2>2. S \subseteq Keys
    BY DEF Selections, Claimable
  <2>3. \A k \in Keys : Owned(Leased(jobs[k], w))
    BY LeasedFields
  <2>4. /\ \A k \in Keys : Owned(jobs[k]) => Owned(jobs'[k])
        /\ \A k \in S : Owned(jobs'[k])
    BY <2>1, <2>2, <2>3
  <2>5. UNCHANGED <<current, seen, result>>
    BY <1>9 DEF ClaimJobs
  <2>6. CASE S = {}
    <3>1. pc' = [pc EXCEPT ![w] = "idle"] /\ batch' = [batch EXCEPT ![w] = {}]
      BY <2>1, <2>6 DEF Leave, Goto
    <3>. QED
      BY <2>4, <2>5, <3>1 DEF Owned
  <2>7. CASE S # {}
    <3>1. pc' = [pc EXCEPT ![w] = "work"]
      BY <2>1, <2>7 DEF Leave, Goto
    <3>. QED
      BY <2>1, <2>4, <2>5, <3>1 DEF Owned
  <2>. QED
    BY <2>6, <2>7
<1>10. ASSUME NEW w \in Workers, ClaimSpecific(w) PROVE AtHand'
  <2>1. current[w] \in Keys
    BY <1>10 DEF ClaimSpecific, At
  <2>2. \A k \in Keys : Owned(Leased(jobs[k], w))
    BY LeasedFields
  <2>3. /\ \A k \in Keys : Owned(jobs[k]) => Owned(jobs'[k])
        /\ jobs[current[w]].status = "PENDING" => Owned(jobs'[current[w]])
    BY <1>10, <2>1, <2>2 DEF ClaimSpecific
  <2>. QED
    BY <1>10, <2>1, <2>3 DEF ClaimSpecific, At, Goto, Leave, Owned
<1>11. ASSUME NEW w \in Workers, BeginJob(w) PROVE AtHand'
  BY <1>11 DEF BeginJob, At, Goto, Leave
<1>12. ASSUME NEW w \in Workers, Capture(w) PROVE AtHand'
  BY <1>12 DEF Capture, At, Goto, Leave
<1>13. ASSUME NEW w \in Workers, FinishPresent(w) PROVE AtHand'
  BY <1>13 DEF FinishPresent, At, Goto, Leave, Finish, Finished, NextPlace, DoneJobStatuses
<1>14. ASSUME NEW w \in Workers, FinishAbsent(w) PROVE AtHand'
  BY <1>14 DEF FinishAbsent, At, Goto, Leave, Finish, Finished, NextPlace, DoneJobStatuses
<1>15. ASSUME NEW w \in Workers, FinishTerminal(w) PROVE AtHand'
  BY <1>15 DEF FinishTerminal, At, Goto, Leave, Finish, Finished, NextPlace, DoneJobStatuses
<1>16. ASSUME NEW w \in Workers, FinishRetryable(w) PROVE AtHand'
  BY <1>16 DEF FinishRetryable, At, Goto, Leave, Finish, Finished, NextPlace, DoneJobStatuses
<1>17. ASSUME NEW w \in Workers, EnrichUnchanged(w) PROVE AtHand'
  BY <1>17 DEF EnrichUnchanged, At, Goto, Leave, Enrich, NextPlace
<1>18. ASSUME NEW w \in Workers, EnrichCityStop(w) PROVE AtHand'
  BY <1>18 DEF EnrichCityStop, At, Goto, Leave, Enrich, NextPlace
<1>19. ASSUME NEW w \in Workers, EnrichReschedule(w) PROVE AtHand'
  BY <1>19 DEF EnrichReschedule, At, Goto, Leave, Enrich, NextPlace
<1>20. ASSUME NEW w \in Workers, NEW e \in Events, CaptureNow(w, e) PROVE AtHand'
  <2>1. \A k \in Keys : Owned(jobs[k]) => Owned(jobs'[k])
    BY <1>20, KeysAreKeys DEF CaptureNow, Owned
  <2>. QED
    BY <1>20, <2>1, KeysAreKeys DEF CaptureNow, At, Goto, Owned
<1>21. ASSUME NEW w \in Workers, Abort(w) PROVE AtHand'
  BY <1>21 DEF Abort, At, Goto, Leave
<1>22. CASE UNCHANGED vars
  BY <1>22 DEF vars
<1>. QED
  BY <1>1, <1>2, <1>3, <1>4, <1>5, <1>6, <1>7, <1>8, <1>9, <1>10, <1>11, <1>12, <1>13, <1>14, <1>15, <1>16, <1>17, <1>18, <1>19, <1>20, <1>21, <1>22 DEF Next, Advance

--------------------------------------------------------------------------------
(* Leases, in one process.                                                 *)

\* Nobody is ahead of the clock.
LEMMA StepNowIsPast ==
  ASSUME TypeOK, NowIsPast, [Next]_vars
  PROVE  NowIsPast'
<1>. USE DEF TypeOK, NowIsPast, database, local
<1>1. CASE Tick
  BY <1>1 DEF Tick
<1>2. ASSUME NEW e \in Events, Enroll(e) PROVE NowIsPast'
  BY <1>2 DEF Enroll
<1>3. ASSUME NEW w \in Workers, StartPass(w) PROVE NowIsPast'
  BY <1>3 DEF StartPass, At, Goto, Leave
<1>4. ASSUME NEW w \in Workers, RecoverSelect(w) PROVE NowIsPast'
  BY <1>4 DEF RecoverSelect, At, Goto, Leave
<1>5. ASSUME NEW w \in Workers, RecoverCommit(w) PROVE NowIsPast'
  BY <1>5 DEF RecoverCommit, At, Goto, Leave
<1>6. ASSUME NEW w \in Workers, GenerateSelect(w) PROVE NowIsPast'
  BY <1>6 DEF GenerateSelect, At, Goto, Leave
<1>7. ASSUME NEW w \in Workers, GenerateCommit(w) PROVE NowIsPast'
  BY <1>7 DEF GenerateCommit, At, Goto, Leave
<1>8. ASSUME NEW w \in Workers, GenerateConflict(w) PROVE NowIsPast'
  BY <1>8 DEF GenerateConflict, At, Goto, Leave
<1>9. ASSUME NEW w \in Workers, ClaimJobs(w) PROVE NowIsPast'
  BY <1>9 DEF ClaimJobs, At, Goto, Leave
<1>10. ASSUME NEW w \in Workers, ClaimSpecific(w) PROVE NowIsPast'
  BY <1>10 DEF ClaimSpecific, At, Goto, Leave
<1>11. ASSUME NEW w \in Workers, BeginJob(w) PROVE NowIsPast'
  BY <1>11 DEF BeginJob, At, Goto, Leave
<1>12. ASSUME NEW w \in Workers, Capture(w) PROVE NowIsPast'
  BY <1>12 DEF Capture, At, Goto, Leave
<1>13. ASSUME NEW w \in Workers, FinishPresent(w) PROVE NowIsPast'
  BY <1>13 DEF FinishPresent, At, Goto, Leave, Finish, NextPlace
<1>14. ASSUME NEW w \in Workers, FinishAbsent(w) PROVE NowIsPast'
  BY <1>14 DEF FinishAbsent, At, Goto, Leave, Finish, NextPlace
<1>15. ASSUME NEW w \in Workers, FinishTerminal(w) PROVE NowIsPast'
  BY <1>15 DEF FinishTerminal, At, Goto, Leave, Finish, NextPlace
<1>16. ASSUME NEW w \in Workers, FinishRetryable(w) PROVE NowIsPast'
  BY <1>16 DEF FinishRetryable, At, Goto, Leave, Finish, NextPlace
<1>17. ASSUME NEW w \in Workers, EnrichUnchanged(w) PROVE NowIsPast'
  BY <1>17 DEF EnrichUnchanged, At, Goto, Leave, Enrich, NextPlace
<1>18. ASSUME NEW w \in Workers, EnrichCityStop(w) PROVE NowIsPast'
  BY <1>18 DEF EnrichCityStop, At, Goto, Leave, Enrich, NextPlace
<1>19. ASSUME NEW w \in Workers, EnrichReschedule(w) PROVE NowIsPast'
  BY <1>19 DEF EnrichReschedule, At, Goto, Leave, Enrich, NextPlace
<1>20. ASSUME NEW w \in Workers, NEW e \in Events, CaptureNow(w, e) PROVE NowIsPast'
  BY <1>20 DEF CaptureNow, At, Goto, Leave
<1>21. ASSUME NEW w \in Workers, Abort(w) PROVE NowIsPast'
  BY <1>21 DEF Abort, At, Goto, Leave
<1>22. CASE UNCHANGED vars
  BY <1>22 DEF vars
<1>. QED
  BY <1>1, <1>2, <1>3, <1>4, <1>5, <1>6, <1>7, <1>8, <1>9, <1>10, <1>11, <1>12, <1>13, <1>14, <1>15, <1>16, <1>17, <1>18, <1>19, <1>20, <1>21, <1>22 DEF Next, Advance

\* Between the read and the write of a recovery nobody else acts.
LEMMA StepRecoversExpired ==
  ASSUME ~MultiProcess, TypeOK, NowIsPast, RecoversExpired, [Next]_vars
  PROVE  RecoversExpired'
<1>. USE DEF TypeOK, RecoversExpired, MayStep, Uninterrupted, Processing, database, local
<1>1. CASE Tick
  BY <1>1 DEF Tick
<1>2. ASSUME NEW e \in Events, Enroll(e) PROVE RecoversExpired'
  BY <1>2 DEF Enroll
<1>3. ASSUME NEW w \in Workers, StartPass(w) PROVE RecoversExpired'
  BY <1>3 DEF StartPass, At, Goto, Leave
<1>4. ASSUME NEW w \in Workers, RecoverSelect(w) PROVE RecoversExpired'
  BY <1>4 DEF RecoverSelect, At, Goto, NowIsPast, Jobs
<1>5. ASSUME NEW w \in Workers, RecoverCommit(w) PROVE RecoversExpired'
  BY <1>5 DEF RecoverCommit, At, Goto, Leave
<1>6. ASSUME NEW w \in Workers, GenerateSelect(w) PROVE RecoversExpired'
  BY <1>6 DEF GenerateSelect, At, Goto, Leave
<1>7. ASSUME NEW w \in Workers, GenerateCommit(w) PROVE RecoversExpired'
  BY <1>7 DEF GenerateCommit, At, Goto, Leave
<1>8. ASSUME NEW w \in Workers, GenerateConflict(w) PROVE RecoversExpired'
  BY <1>8 DEF GenerateConflict, At, Goto, Leave
<1>9. ASSUME NEW w \in Workers, ClaimJobs(w) PROVE RecoversExpired'
  BY <1>9 DEF ClaimJobs, At, Goto, Leave
<1>10. ASSUME NEW w \in Workers, ClaimSpecific(w) PROVE RecoversExpired'
  BY <1>10 DEF ClaimSpecific, At, Goto, Leave
<1>11. ASSUME NEW w \in Workers, BeginJob(w) PROVE RecoversExpired'
  BY <1>11 DEF BeginJob, At, Goto, Leave
<1>12. ASSUME NEW w \in Workers, Capture(w) PROVE RecoversExpired'
  BY <1>12 DEF Capture, At, Goto, Leave
<1>13. ASSUME NEW w \in Workers, FinishPresent(w) PROVE RecoversExpired'
  BY <1>13 DEF FinishPresent, At, Goto, Leave, Finish, NextPlace
<1>14. ASSUME NEW w \in Workers, FinishAbsent(w) PROVE RecoversExpired'
  BY <1>14 DEF FinishAbsent, At, Goto, Leave, Finish, NextPlace
<1>15. ASSUME NEW w \in Workers, FinishTerminal(w) PROVE RecoversExpired'
  BY <1>15 DEF FinishTerminal, At, Goto, Leave, Finish, NextPlace
<1>16. ASSUME NEW w \in Workers, FinishRetryable(w) PROVE RecoversExpired'
  BY <1>16 DEF FinishRetryable, At, Goto, Leave, Finish, NextPlace
<1>17. ASSUME NEW w \in Workers, EnrichUnchanged(w) PROVE RecoversExpired'
  BY <1>17 DEF EnrichUnchanged, At, Goto, Leave, Enrich, NextPlace
<1>18. ASSUME NEW w \in Workers, EnrichCityStop(w) PROVE RecoversExpired'
  BY <1>18 DEF EnrichCityStop, At, Goto, Leave, Enrich, NextPlace
<1>19. ASSUME NEW w \in Workers, EnrichReschedule(w) PROVE RecoversExpired'
  BY <1>19 DEF EnrichReschedule, At, Goto, Leave, Enrich, NextPlace
<1>20. ASSUME NEW w \in Workers, NEW e \in Events, CaptureNow(w, e) PROVE RecoversExpired'
  BY <1>20 DEF CaptureNow, At, Goto, Leave
<1>21. ASSUME NEW w \in Workers, Abort(w) PROVE RecoversExpired'
  BY <1>21 DEF Abort, At, Goto, Leave
<1>22. CASE UNCHANGED vars
  BY <1>22 DEF vars
<1>. QED
  BY <1>1, <1>2, <1>3, <1>4, <1>5, <1>6, <1>7, <1>8, <1>9, <1>10, <1>11, <1>12, <1>13, <1>14, <1>15, <1>16, <1>17, <1>18, <1>19, <1>20, <1>21, <1>22 DEF Next, Advance

\* A worker that does not move holds what it held, until the same time.
OthersStay(w) ==
  \A v \in Workers \ {w} : /\ pc'[v] = pc[v] /\ now'[v] = now[v]
                           /\ batch'[v] = batch[v] /\ current'[v] = current[v]

LEMMA Bystander ==
  ASSUME NEW w \in Workers, OthersStay(w), NEW v \in Workers \ {w}
  PROVE  Held(v)' = Held(v) /\ LeaseEnd(v)' = LeaseEnd(v)
BY DEF OthersStay, Held, LeaseEnd

LEMMA HeldTypes ==
  ASSUME TypeOK, AtHand, NEW v \in Workers
  PROVE  Held(v) \subseteq Keys /\ LeaseEnd(v) \in Nat
BY DEF TypeOK, AtHand, Held, LeaseEnd

\* What a step must respect: the mover's jobs are under its lease, and whatever
\* is under a lease that lasts stays so.
LEMMA KeptStep ==
  ASSUME TypeOK, AtHand, LeaseKept, NEW w \in Workers, OthersStay(w), clock' = clock,
         LeaseEnd(w)' >= clock => \A k \in Held(w)' : UnderLease(jobs'[k], LeaseEnd(w)'),
         \A k \in Keys, end \in Nat : end >= clock /\ UnderLease(jobs[k], end)
                                         => UnderLease(jobs'[k], end)
  PROVE  LeaseKept'
<1>1. ASSUME NEW v \in Workers \ {w}, LeaseEnd(v)' >= clock', NEW k \in Held(v)'
      PROVE  UnderLease(jobs'[k], LeaseEnd(v)')
  <2>1. Held(v)' = Held(v) /\ LeaseEnd(v)' = LeaseEnd(v)
    BY Bystander
  <2>2. k \in Held(v) /\ LeaseEnd(v) >= clock
    BY <1>1, <2>1
  <2>3. UnderLease(jobs[k], LeaseEnd(v))
    BY <2>2 DEF LeaseKept
  <2>4. k \in Keys /\ LeaseEnd(v) \in Nat
    BY <2>2, HeldTypes
  <2>. QED
    BY <2>1, <2>2, <2>3, <2>4
<1>2. \A v \in Workers : LeaseEnd(v)' >= clock' =>
        \A k \in Held(v)' : UnderLease(jobs'[k], LeaseEnd(v)')
  BY <1>1
<1>. QED
  BY <1>2 DEF LeaseKept, UnderLease, LeaseEnd

\* A worker takes a job only when it is PENDING: by LeaseKept, whoever still
\* holds it has no lease left.
LEMMA ExclusionStep ==
  ASSUME TypeOK, AtHand, LeaseKept, LeaseExclusion, NEW w \in Workers, OthersStay(w),
         clock' = clock,
         \A k \in Held(w)' : \/ k \in Held(w) /\ now'[w] = now[w]
                             \/ jobs[k].status = "PENDING"
  PROVE  LeaseExclusion'
<1>1. ASSUME NEW v \in Workers \ {w}, NEW k \in Held(v)' \cap Held(w)'
      PROVE  LeaseEnd(v)' < clock \/ LeaseEnd(w)' < clock
  <2>1. k \in Held(v) /\ LeaseEnd(v)' = LeaseEnd(v)
    BY Bystander
  <2>2. CASE k \in Held(w) /\ now'[w] = now[w]
    <3>1. LeaseEnd(w)' = LeaseEnd(w)
      BY <2>2 DEF LeaseEnd
    <3>. QED
      BY <2>1, <2>2, <3>1 DEF LeaseExclusion
  <2>3. CASE jobs[k].status = "PENDING"
    <3>1. ~ (LeaseEnd(v) >= clock)
      BY <2>1, <2>3 DEF LeaseKept, UnderLease, DoneJobStatuses
    <3>2. LeaseEnd(v) \in Nat /\ clock \in Nat
      BY HeldTypes DEF TypeOK
    <3>. QED
      BY <2>1, <3>1, <3>2
  <2>. QED
    BY <2>2, <2>3
<1>2. ASSUME NEW u \in Workers \ {w}, NEW v \in Workers \ {w}, u # v,
             NEW k \in Held(u)' \cap Held(v)'
      PROVE  LeaseEnd(u)' < clock \/ LeaseEnd(v)' < clock
  <2>1. k \in Held(u) \cap Held(v) /\ LeaseEnd(u)' = LeaseEnd(u) /\ LeaseEnd(v)' = LeaseEnd(v)
    BY Bystander
  <2>. QED
    BY <1>2, <2>1 DEF LeaseExclusion
<1>3. \A u, v \in Workers : u # v =>
        \A k \in Held(u)' \cap Held(v)' : LeaseEnd(u)' < clock' \/ LeaseEnd(v)' < clock'
  BY <1>1, <1>2
<1>. QED
  BY <1>3 DEF LeaseExclusion, LeaseEnd

\* Most steps leave the jobs alone and the mover with no more than it had.
LEMMA HoldsNoMore ==
  ASSUME TypeOK, AtHand, LeaseKept, LeaseExclusion, NEW w \in Workers, OthersStay(w),
         clock' = clock, Held(w)' = {} \/ (Held(w)' \subseteq Held(w) /\ now'[w] = now[w]),
         \A k \in Keys, end \in Nat : end >= clock /\ UnderLease(jobs[k], end)
                                         => UnderLease(jobs'[k], end)
  PROVE  LeaseKept' /\ LeaseExclusion'
<1>1. ASSUME LeaseEnd(w)' >= clock, NEW k \in Held(w)'
      PROVE  UnderLease(jobs'[k], LeaseEnd(w)')
  <2>1. k \in Held(w) /\ LeaseEnd(w)' = LeaseEnd(w)
    BY DEF LeaseEnd
  <2>2. UnderLease(jobs[k], LeaseEnd(w))
    BY <1>1, <2>1 DEF LeaseKept
  <2>. QED
    BY <1>1, <2>1, <2>2, HeldTypes
<1>2. LeaseKept'
  BY <1>1, KeptStep
<1>3. LeaseExclusion'
  BY ExclusionStep
<1>. QED
  BY <1>2, <1>3

\* The closing transaction finishes one job of the mover's.
LEMMA FinishLeases ==
  ASSUME TypeOK, AtHand, LeaseKept, LeaseExclusion, NEW w \in Workers, pc[w] = "finish",
         NEW status \in DoneJobStatuses, NEW event, NEW place \in {NextPlace(w), "enrich"},
         Finish(w, status, event, place)
  PROVE  LeaseKept' /\ LeaseExclusion'
<1>1. current[w] \in Keys
  BY DEF AtHand, Processing
<1>2. OthersStay(w) /\ clock' = clock
  BY DEF Finish, Leave, Goto, OthersStay, TypeOK
<1>3. Held(w)' = {} \/ (Held(w)' \subseteq Held(w) /\ now'[w] = now[w])
  BY DEF Finish, Leave, Goto, NextPlace, Held, Processing, TypeOK
<1>4. Finished(jobs[current[w]], status).status = status
  BY <1>1 DEF Finished, Jobs, TypeOK
<1>5. \A k \in Keys, end \in Nat : UnderLease(jobs[k], end) => UnderLease(jobs'[k], end)
  BY <1>1, <1>4 DEF Finish, UnderLease, TypeOK
<1>. QED
  BY <1>2, <1>3, <1>5, HoldsNoMore

\* No step takes a job away from a worker whose lease lasts, and none gives a
\* job to two workers whose leases last.
LEMMA StepLeases ==
  ASSUME TypeOK, AtHand, NowIsPast, RecoversExpired, LeaseKept, LeaseExclusion, [Next]_vars
  PROVE  LeaseKept' /\ LeaseExclusion'
<1>. USE DEF database, local
<1>1. CASE Tick
  <2>1. \A v \in Workers : Held(v)' = Held(v) /\ LeaseEnd(v)' = LeaseEnd(v)
    BY <1>1 DEF Tick, Held, LeaseEnd
  <2>2. \A v \in Workers : LeaseEnd(v) \in Nat
    BY HeldTypes
  <2>. QED
    <3>1. ASSUME NEW v \in Workers, LeaseEnd(v)' >= clock', NEW k \in Held(v)'
          PROVE  UnderLease(jobs'[k], LeaseEnd(v)')
      <4>1. LeaseEnd(v) >= clock
        BY <1>1, <2>1, <2>2, <3>1 DEF Tick, TypeOK
      <4>2. UnderLease(jobs[k], LeaseEnd(v))
        BY <2>1, <4>1 DEF LeaseKept
      <4>. QED
        BY <1>1, <2>1, <4>2 DEF Tick
    <3>2. ASSUME NEW u \in Workers, NEW v \in Workers, u # v, NEW k \in Held(u)' \cap Held(v)'
          PROVE  LeaseEnd(u)' < clock' \/ LeaseEnd(v)' < clock'
      <4>1. LeaseEnd(u) < clock \/ LeaseEnd(v) < clock
        BY <2>1, <3>2 DEF LeaseExclusion
      <4>. QED
        BY <1>1, <2>1, <2>2, <4>1 DEF Tick, TypeOK
    <3>3. LeaseKept'
      BY <3>1 DEF LeaseKept, UnderLease, LeaseEnd
    <3>4. LeaseExclusion'
      BY <3>2 DEF LeaseExclusion, LeaseEnd
    <3>. QED
      BY <3>3, <3>4
<1>2. ASSUME NEW e \in Events, Enroll(e) PROVE LeaseKept' /\ LeaseExclusion'
  BY <1>2 DEF Enroll, LeaseKept, LeaseExclusion, UnderLease, LeaseEnd, Held
<1>3. ASSUME NEW w \in Workers, StartPass(w) PROVE LeaseKept' /\ LeaseExclusion'
  <2>1. OthersStay(w)
    BY <1>3 DEF StartPass, OthersStay, Goto, TypeOK
  <2>2. Held(w)' = {} \/ (Held(w)' \subseteq Held(w) /\ now'[w] = now[w])
    BY <1>3 DEF StartPass, Held, AtHand, Processing, Goto, At, TypeOK
  <2>. QED
    BY <1>3, <2>1, <2>2, HoldsNoMore DEF StartPass
<1>4. ASSUME NEW w \in Workers, RecoverSelect(w) PROVE LeaseKept' /\ LeaseExclusion'
  <2>1. OthersStay(w)
    BY <1>4 DEF RecoverSelect, OthersStay, Goto, TypeOK
  <2>2. Held(w)' = {} \/ (Held(w)' \subseteq Held(w) /\ now'[w] = now[w])
    BY <1>4 DEF RecoverSelect, Held, AtHand, Processing, Goto, At, TypeOK
  <2>. QED
    BY <1>4, <2>1, <2>2, HoldsNoMore DEF RecoverSelect
<1>5. ASSUME NEW w \in Workers, RecoverCommit(w) PROVE LeaseKept' /\ LeaseExclusion'
  <2>1. OthersStay(w)
    BY <1>5 DEF RecoverCommit, OthersStay, Goto, TypeOK
  <2>2. Held(w)' = {} \/ (Held(w)' \subseteq Held(w) /\ now'[w] = now[w])
    BY <1>5 DEF RecoverCommit, Held, AtHand, Processing, Goto, At, TypeOK
  <2>3. \A k \in Keys, end \in Nat : end >= clock /\ UnderLease(jobs[k], end)
                                      => UnderLease(jobs'[k], end)
    <3>1. ASSUME NEW k \in Keys, NEW end \in Nat, end >= clock, UnderLease(jobs[k], end)
          PROVE  jobs'[k] = jobs[k]
      <4>1. ~ (k \in expired[w] /\ jobs[k].status = "RUNNING")
        <5>1. k \in expired[w] => jobs[k].lock_expires_at < clock
          BY <1>5 DEF RecoverCommit, At, RecoversExpired
        <5>2. jobs[k].status = "RUNNING" => jobs[k].lock_expires_at = end
          BY <3>1 DEF UnderLease, DoneJobStatuses
        <5>3. clock \in Nat
          BY DEF TypeOK
        <5>. QED
          BY <3>1, <5>1, <5>2, <5>3
      <4>. QED
        BY <1>5, <4>1 DEF RecoverCommit
    <3>. QED
      BY <3>1
  <2>. QED
    BY <1>5, <2>1, <2>2, <2>3, HoldsNoMore DEF RecoverCommit
<1>6. ASSUME NEW w \in Workers, GenerateSelect(w) PROVE LeaseKept' /\ LeaseExclusion'
  <2>1. OthersStay(w)
    BY <1>6 DEF GenerateSelect, OthersStay, Goto, TypeOK
  <2>2. Held(w)' = {} \/ (Held(w)' \subseteq Held(w) /\ now'[w] = now[w])
    BY <1>6 DEF GenerateSelect, Held, AtHand, Processing, Goto, At, TypeOK
  <2>. QED
    BY <1>6, <2>1, <2>2, HoldsNoMore DEF GenerateSelect
<1>7. ASSUME NEW w \in Workers, GenerateCommit(w) PROVE LeaseKept' /\ LeaseExclusion'
  <2>1. OthersStay(w)
    BY <1>7 DEF GenerateCommit, OthersStay, Goto, TypeOK
  <2>2. Held(w)' = {} \/ (Held(w)' \subseteq Held(w) /\ now'[w] = now[w])
    BY <1>7 DEF GenerateCommit, Held, AtHand, Processing, Goto, At, TypeOK
  <2>3. \A k \in Keys, end \in Nat : end >= clock /\ UnderLease(jobs[k], end)
                                      => UnderLease(jobs'[k], end)
    BY <1>7 DEF GenerateCommit, UnderLease, DoneJobStatuses
  <2>. QED
    BY <1>7, <2>1, <2>2, <2>3, HoldsNoMore DEF GenerateCommit
<1>8. ASSUME NEW w \in Workers, GenerateConflict(w) PROVE LeaseKept' /\ LeaseExclusion'
  <2>1. OthersStay(w)
    BY <1>8 DEF GenerateConflict, Leave, OthersStay, Goto, TypeOK
  <2>2. Held(w)' = {} \/ (Held(w)' \subseteq Held(w) /\ now'[w] = now[w])
    BY <1>8 DEF GenerateConflict, Leave, Held, AtHand, Processing, Goto, At, TypeOK
  <2>. QED
    BY <1>8, <2>1, <2>2, HoldsNoMore DEF GenerateConflict, Leave
<1>9. ASSUME NEW w \in Workers, ClaimJobs(w) PROVE LeaseKept' /\ LeaseExclusion'
  <2>1. PICK S \in Selections(w) :
           /\ jobs' = [k \in Keys |-> IF k \in S THEN Leased(jobs[k], w) ELSE jobs[k]]
           /\ batch' = [batch EXCEPT ![w] = S]
           /\ Leave(w, IF S = {} THEN "idle" ELSE "work")
    BY <1>9 DEF ClaimJobs
  <2>2. S \subseteq Keys /\ \A k \in S : jobs[k].status = "PENDING"
    BY DEF Selections, Claimable
  <2>3. OthersStay(w)
    BY <1>9, <2>1 DEF ClaimJobs, OthersStay, Leave, Goto, TypeOK
  <2>4. Held(w)' = S
    BY <1>9, <2>1 DEF ClaimJobs, Held, Leave, Goto, Processing, TypeOK
  <2>5. S # {} => now' = now
    BY <2>1 DEF Leave
  <2>6. \A k \in S : UnderLease(Leased(jobs[k], w), LeaseEnd(w))
    BY <2>2, LeasedFields DEF UnderLease
  <2>7. \A k \in Held(w)' : UnderLease(jobs'[k], LeaseEnd(w)')
    BY <2>1, <2>2, <2>4, <2>5, <2>6 DEF LeaseEnd
  <2>8. \A k \in Keys, end \in Nat : UnderLease(jobs[k], end) => UnderLease(jobs'[k], end)
    BY <2>1, <2>2 DEF UnderLease, DoneJobStatuses
  <2>9. clock' = clock
    BY <1>9 DEF ClaimJobs
  <2>10. LeaseKept'
    BY <2>3, <2>7, <2>8, <2>9, KeptStep
  <2>11. LeaseExclusion'
    BY <2>2, <2>3, <2>4, <2>9, ExclusionStep
  <2>. QED
    BY <2>10, <2>11
<1>10. ASSUME NEW w \in Workers, ClaimSpecific(w) PROVE LeaseKept' /\ LeaseExclusion'
  <2>1. current[w] \in Keys /\ batch[w] = {}
    BY <1>10 DEF ClaimSpecific, At, AtHand, Processing
  <2>2. OthersStay(w) /\ clock' = clock
    BY <1>10 DEF ClaimSpecific, OthersStay, Leave, Goto, TypeOK
  <2>3. CASE jobs[current[w]].status = "PENDING"
    <3>1. jobs' = [jobs EXCEPT ![current[w]] = Leased(@, w)]
      BY <1>10, <2>3 DEF ClaimSpecific
    <3>2. Held(w)' = {current[w]} /\ now' = now
      BY <1>10, <2>3 DEF ClaimSpecific, Held, Leave, Goto, Processing, TypeOK
    <3>3. UnderLease(Leased(jobs[current[w]], w), LeaseEnd(w))
      BY <2>1, LeasedFields DEF UnderLease
    <3>4. \A k \in Held(w)' : UnderLease(jobs'[k], LeaseEnd(w)')
      BY <2>1, <3>1, <3>2, <3>3 DEF LeaseEnd, TypeOK
    <3>5. \A k \in Keys, end \in Nat : UnderLease(jobs[k], end) => UnderLease(jobs'[k], end)
      BY <2>1, <2>3, <3>1 DEF UnderLease, DoneJobStatuses, TypeOK
    <3>6. LeaseKept'
      BY <2>2, <3>4, <3>5, KeptStep
    <3>7. LeaseExclusion'
      BY <2>2, <2>3, <3>2, ExclusionStep
    <3>. QED
      BY <3>6, <3>7
  <2>4. CASE jobs[current[w]].status # "PENDING"
    <3>1. jobs' = jobs
      BY <1>10, <2>4 DEF ClaimSpecific
    <3>2. Held(w)' = {}
      BY <1>10, <2>1, <2>4 DEF ClaimSpecific, Held, Leave, Goto, Processing, TypeOK
    <3>. QED
      BY <2>2, <3>1, <3>2, HoldsNoMore
  <2>. QED
    BY <2>3, <2>4
<1>11. ASSUME NEW w \in Workers, BeginJob(w) PROVE LeaseKept' /\ LeaseExclusion'
  <2>1. OthersStay(w)
    BY <1>11 DEF BeginJob, OthersStay, Goto, TypeOK
  <2>2. Held(w)' = {} \/ (Held(w)' \subseteq Held(w) /\ now'[w] = now[w])
    BY <1>11 DEF BeginJob, Held, AtHand, Processing, Goto, At, TypeOK
  <2>. QED
    BY <1>11, <2>1, <2>2, HoldsNoMore DEF BeginJob
<1>12. ASSUME NEW w \in Workers, Capture(w) PROVE LeaseKept' /\ LeaseExclusion'
  <2>1. OthersStay(w)
    BY <1>12 DEF Capture, OthersStay, Goto, TypeOK
  <2>2. Held(w)' = {} \/ (Held(w)' \subseteq Held(w) /\ now'[w] = now[w])
    BY <1>12 DEF Capture, Held, AtHand, Processing, Goto, At, TypeOK
  <2>. QED
    BY <1>12, <2>1, <2>2, HoldsNoMore DEF Capture
<1>13. ASSUME NEW w \in Workers, FinishPresent(w) PROVE LeaseKept' /\ LeaseExclusion'
  BY <1>13, FinishLeases DEF FinishPresent, At, NextPlace, DoneJobStatuses
<1>14. ASSUME NEW w \in Workers, FinishAbsent(w) PROVE LeaseKept' /\ LeaseExclusion'
  BY <1>14, FinishLeases DEF FinishAbsent, At, NextPlace, DoneJobStatuses
<1>15. ASSUME NEW w \in Workers, FinishTerminal(w) PROVE LeaseKept' /\ LeaseExclusion'
  BY <1>15, FinishLeases DEF FinishTerminal, At, NextPlace, DoneJobStatuses
<1>16. ASSUME NEW w \in Workers, FinishRetryable(w) PROVE LeaseKept' /\ LeaseExclusion'
  BY <1>16, FinishLeases DEF FinishRetryable, At, NextPlace, DoneJobStatuses
<1>17. ASSUME NEW w \in Workers, EnrichUnchanged(w) PROVE LeaseKept' /\ LeaseExclusion'
  <2>1. OthersStay(w)
    BY <1>17 DEF EnrichUnchanged, Enrich, Leave, NextPlace, OthersStay, Goto, TypeOK
  <2>2. Held(w)' = {} \/ (Held(w)' \subseteq Held(w) /\ now'[w] = now[w])
    BY <1>17 DEF EnrichUnchanged, Enrich, Leave, NextPlace, Held, AtHand, Processing, Goto, At, TypeOK
  <2>. QED
    BY <1>17, <2>1, <2>2, HoldsNoMore DEF EnrichUnchanged, Enrich, Leave, NextPlace
<1>18. ASSUME NEW w \in Workers, EnrichCityStop(w) PROVE LeaseKept' /\ LeaseExclusion'
  <2>1. OthersStay(w)
    BY <1>18 DEF EnrichCityStop, Enrich, Leave, NextPlace, OthersStay, Goto, TypeOK
  <2>2. Held(w)' = {} \/ (Held(w)' \subseteq Held(w) /\ now'[w] = now[w])
    BY <1>18 DEF EnrichCityStop, Enrich, Leave, NextPlace, Held, AtHand, Processing, Goto, At, TypeOK
  <2>. QED
    BY <1>18, <2>1, <2>2, HoldsNoMore DEF EnrichCityStop, Enrich, Leave, NextPlace
<1>19. ASSUME NEW w \in Workers, EnrichReschedule(w) PROVE LeaseKept' /\ LeaseExclusion'
  <2>1. OthersStay(w)
    BY <1>19 DEF EnrichReschedule, Enrich, Leave, NextPlace, OthersStay, Goto, TypeOK
  <2>2. Held(w)' = {} \/ (Held(w)' \subseteq Held(w) /\ now'[w] = now[w])
    BY <1>19 DEF EnrichReschedule, Enrich, Leave, NextPlace, Held, AtHand, Processing, Goto, At, TypeOK
  <2>. QED
    BY <1>19, <2>1, <2>2, HoldsNoMore DEF EnrichReschedule, Enrich, Leave, NextPlace
<1>20. ASSUME NEW w \in Workers, NEW e \in Events, CaptureNow(w, e) PROVE LeaseKept' /\ LeaseExclusion'
  <2>1. OthersStay(w)
    BY <1>20 DEF CaptureNow, OthersStay, Goto, TypeOK
  <2>2. Held(w)' = {} \/ (Held(w)' \subseteq Held(w) /\ now'[w] = now[w])
    BY <1>20 DEF CaptureNow, Held, AtHand, Processing, Goto, At, TypeOK
  <2>3. \A k \in Keys, end \in Nat : end >= clock /\ UnderLease(jobs[k], end)
                                      => UnderLease(jobs'[k], end)
    BY <1>20, KeysAreKeys DEF CaptureNow, UnderLease, DoneJobStatuses
  <2>. QED
    BY <1>20, <2>1, <2>2, <2>3, HoldsNoMore DEF CaptureNow
<1>21. ASSUME NEW w \in Workers, Abort(w) PROVE LeaseKept' /\ LeaseExclusion'
  <2>1. OthersStay(w)
    BY <1>21 DEF Abort, Leave, OthersStay, Goto, TypeOK
  <2>2. Held(w)' = {} \/ (Held(w)' \subseteq Held(w) /\ now'[w] = now[w])
    BY <1>21 DEF Abort, Leave, Held, AtHand, Processing, Goto, At, TypeOK
  <2>. QED
    BY <1>21, <2>1, <2>2, HoldsNoMore DEF Abort, Leave
<1>22. CASE UNCHANGED vars
  BY <1>22 DEF vars, LeaseKept, LeaseExclusion, UnderLease, LeaseEnd, Held
<1>. QED
  BY <1>1, <1>2, <1>3, <1>4, <1>5, <1>6, <1>7, <1>8, <1>9, <1>10, <1>11, <1>12, <1>13, <1>14,
     <1>15, <1>16, <1>17, <1>18, <1>19, <1>20, <1>21, <1>22 DEF Next, Advance

--------------------------------------------------------------------------------
(* What a step is: one worker moves, and what it does to a row.            *)

\* A step of a worker that may move, which touches nobody else's pass.
Moves(w) ==
  /\ MayStep(w) /\ OthersStay(w) /\ clock' = clock
  /\ \A v \in Workers \ {w} : plan'[v] = plan[v] /\ expired'[v] = expired[v]

\* The clock, an enrollment and stuttering move no worker and no job.
NobodyMoves == UNCHANGED <<pc, local, jobs>>

Acts(w) ==
  StartPass(w) \/ (\E e \in OnDemand : CaptureNow(w, e)) \/ Advance(w) \/ Abort(w)

LEMMA ActorsMove == ASSUME TypeOK, NEW w \in Workers, Acts(w) PROVE Moves(w)
<1>. USE DEF TypeOK, database, local, Moves, OthersStay
<1>1. CASE StartPass(w)
  BY <1>1 DEF StartPass, At, Goto
<1>2. CASE RecoverSelect(w)
  BY <1>2 DEF RecoverSelect, At, Goto
<1>3. CASE RecoverCommit(w)
  BY <1>3 DEF RecoverCommit, At, Goto
<1>4. CASE GenerateSelect(w)
  BY <1>4 DEF GenerateSelect, At, Goto
<1>5. CASE GenerateCommit(w)
  BY <1>5 DEF GenerateCommit, At, Goto
<1>6. CASE GenerateConflict(w)
  BY <1>6 DEF GenerateConflict, At, Goto, Leave
<1>7. CASE ClaimJobs(w)
  BY <1>7 DEF ClaimJobs, At, Goto, Leave
<1>8. CASE ClaimSpecific(w)
  BY <1>8 DEF ClaimSpecific, At, Goto, Leave
<1>9. CASE BeginJob(w)
  BY <1>9 DEF BeginJob, At, Goto
<1>10. CASE Capture(w)
  BY <1>10 DEF Capture, At, Goto
<1>11. CASE FinishPresent(w)
  BY <1>11 DEF FinishPresent, At, Goto, Finish, Leave
<1>12. CASE FinishAbsent(w)
  BY <1>12 DEF FinishAbsent, At, Goto, Finish, Leave
<1>13. CASE FinishTerminal(w)
  BY <1>13 DEF FinishTerminal, At, Goto, Finish, Leave
<1>14. CASE FinishRetryable(w)
  BY <1>14 DEF FinishRetryable, At, Goto, Finish, Leave
<1>15. CASE EnrichUnchanged(w)
  BY <1>15 DEF EnrichUnchanged, At, Goto, Enrich, Leave
<1>16. CASE EnrichCityStop(w)
  BY <1>16 DEF EnrichCityStop, At, Goto, Enrich, Leave
<1>17. CASE EnrichReschedule(w)
  BY <1>17 DEF EnrichReschedule, At, Goto, Enrich, Leave
<1>18. ASSUME NEW e \in OnDemand, CaptureNow(w, e) PROVE Moves(w)
  BY <1>18 DEF CaptureNow, At, Goto
<1>19. CASE Abort(w)
  BY <1>19 DEF Abort, Leave, Goto
<1>. QED
  BY <1>1, <1>2, <1>3, <1>4, <1>5, <1>6, <1>7, <1>8, <1>9, <1>10, <1>11,
     <1>12, <1>13, <1>14, <1>15, <1>16, <1>17, <1>18, <1>19 DEF Acts, Advance

LEMMA OneMoves ==
  ASSUME TypeOK, [Next]_vars
  PROVE  NobodyMoves \/ \E w \in Workers : Acts(w) /\ Moves(w)
<1>1. Tick \/ (\E e \in Events : Enroll(e)) \/ UNCHANGED vars => NobodyMoves
  BY DEF Tick, Enroll, vars, database, local, NobodyMoves
<1>. QED
  BY <1>1, ActorsMove DEF Next, Acts

\* The closing transaction: its event is given up, or waits for a later time.
Settled(old, new, t) ==
  \/ new.status \in Retired
  \/ new.status = old.status /\ new.next_capture_at \in Nat /\ new.next_capture_at > t

Closes(w) ==
  /\ pc[w] = "finish" /\ MayStep(w)
  /\ \E status \in DoneJobStatuses, event \in TrackedEvents, place \in {NextPlace(w), "enrich"} :
       /\ Settled(tracked[current[w].event], event, now[w])
       /\ Finish(w, status, event, place)

LEMMA AnsweredSettles ==
  ASSUME NEW event \in TrackedEvents, NEW t \in Nat, NEW next \in Cadence(t, event.status)
  PROVE  Answered(event, next) \in TrackedEvents /\ Settled(event, Answered(event, next), t)
<1>1. next \in Nat \cup {None}
  BY CadenceType
<1>2. next # None => next > t
  BY DEF Cadence
<1>3. /\ Answered(event, next).next_capture_at = next
      /\ Answered(event, next).status = IF next = None THEN "STOPPED" ELSE event.status
  BY DEF Answered, TrackedEvents
<1>. QED
  BY <1>1, <1>2, <1>3, EventTypes DEF Settled, Retired

LEMMA FinishCloses ==
  ASSUME TypeOK, AtHand, NEW w \in Workers,
         FinishPresent(w) \/ FinishAbsent(w) \/ FinishTerminal(w) \/ FinishRetryable(w)
  PROVE  Closes(w)
<1>. DEFINE event == tracked[current[w].event]
<1>1. pc[w] = "finish" /\ MayStep(w)
  BY DEF FinishPresent, FinishAbsent, FinishTerminal, FinishRetryable, At
<1>2. current[w].event \in Events /\ event \in TrackedEvents /\ now[w] \in Nat
  BY <1>1 DEF TypeOK, AtHand, Processing, Keys
<1>3. CASE FinishPresent(w) \/ FinishAbsent(w)
  <2>1. PICK next \in Cadence(now[w], event.status), place \in {NextPlace(w), "enrich"} :
          Finish(w, "SUCCEEDED", Answered(event, next), place)
    BY <1>3 DEF FinishPresent, FinishAbsent
  <2>. QED
    BY <1>1, <1>2, <2>1, AnsweredSettles DEF Closes, DoneJobStatuses
<1>4. CASE FinishTerminal(w)
  <2>1. \A s \in Retired : LET new == [event EXCEPT !.consecutive_failures = @ + 1,
                                           !.next_capture_at = None, !.status = s]
                           IN  new \in TrackedEvents /\ Settled(event, new, now[w])
    <3>1. \A s \in Retired : [event EXCEPT !.consecutive_failures = @ + 1,
                                 !.next_capture_at = None, !.status = s].status = s
      BY <1>2 DEF TrackedEvents
    <3>. QED
      BY <1>2, <3>1, EventTypes DEF Settled
  <2>. QED
    BY <1>1, <1>4, <2>1 DEF FinishTerminal, Closes, DoneJobStatuses, Retired
<1>5. CASE FinishRetryable(w)
  <2>1. PICK d \in RetryDelays(result[w], seen[w]) :
           Finish(w, "FAILED_RETRYABLE",
                  [event EXCEPT !.consecutive_failures = @ + 1,
                                !.next_capture_at = now[w] + d],
                  NextPlace(w))
    BY <1>5 DEF FinishRetryable
  <2>2. d \in Nat \ {0}
    <3>1. seen[w] > 0 /\ seen[w] \in Nat /\ result[w] \in ResultCodes
      BY <1>1 DEF AtHand, Processing, TypeOK
    <3>2. result[w] \notin SUCCESS
      BY <1>5 DEF FinishRetryable
    <3>3. ~Terminal(result[w], seen[w])
      BY <1>5 DEF FinishRetryable
    <3>4. seen[w] \in Nat \ {0} /\ result[w] \in ResultCodes \ SUCCESS
      BY <3>1, <3>2
    <3>5. RetryDelays(result[w], seen[w]) \subseteq Nat \ {0}
      BY <3>3, <3>4, RetryDelayPositive
    <3>. QED
      BY <2>1, <3>5
  <2>. DEFINE new == [event EXCEPT !.consecutive_failures = @ + 1,
                                   !.next_capture_at = now[w] + d]
  <2>3. now[w] + d \in Nat /\ now[w] + d > now[w]
    BY <1>2, <2>2
  <2>4. new.status = event.status /\ new.next_capture_at = now[w] + d
    BY <1>2 DEF TrackedEvents
  <2>5. new \in TrackedEvents
    BY <1>2, <2>3, EventTypes
  <2>6. Settled(event, new, now[w])
    BY <2>3, <2>4 DEF Settled
  <2>. QED
    BY <1>1, <2>1, <2>5, <2>6 DEF Closes, DoneJobStatuses
<1>. QED
  BY <1>3, <1>4, <1>5

\* The steps that write the jobs.
Writes(w) ==
  \/ RecoverCommit(w) \/ GenerateCommit(w) \/ ClaimJobs(w) \/ ClaimSpecific(w) \/ Closes(w)
  \/ \E e \in OnDemand : CaptureNow(w, e)

LEMMA JobWriters ==
  ASSUME TypeOK, AtHand, [Next]_vars
  PROVE  jobs' = jobs \/ \E w \in Workers : Writes(w)
<1>1. ASSUME NEW w \in Workers, Advance(w) PROVE jobs' = jobs \/ Writes(w)
  BY <1>1, FinishCloses DEF Advance, Writes, database, RecoverSelect, GenerateSelect,
     GenerateConflict, BeginJob, Capture, EnrichUnchanged, EnrichCityStop, EnrichReschedule,
     Enrich
<1>2. ASSUME NEW w \in Workers, StartPass(w) \/ Abort(w) PROVE jobs' = jobs
  BY <1>2 DEF StartPass, Abort, database
<1>3. ASSUME NEW e \in Events, Enroll(e) PROVE jobs' = jobs
  BY <1>3 DEF Enroll
<1>4. CASE Tick \/ UNCHANGED vars
  BY <1>4 DEF Tick, vars, database
<1>. QED
  BY <1>1, <1>2, <1>3, <1>4 DEF Next, Writes

\* A job is created, claimed, recovered, closed or left alone.
Created(k) ==
  /\ jobs[k].status = "NONE" /\ jobs'[k].status = "PENDING"
  /\ \/ k.kind = "capture-now" /\ tracked[k.event].status # "UNTRACKED"
     \/ \E w \in Workers : pc[w] = "generating" /\ \E p \in plan[w] : p.key = k
Claimed(k) ==
  /\ jobs[k].status = "PENDING" /\ jobs'[k].status = "RUNNING"
  /\ \E w \in Workers : /\ jobs'[k].lock_expires_at = LeaseEnd(w)
                        /\ k \in Held(w)' /\ now'[w] = now[w] /\ pc'[w] = "work"
Recovered(k) ==
  /\ jobs[k].status = "RUNNING" /\ jobs'[k].status = "PENDING"
  /\ \E w \in Workers : pc[w] = "recovering" /\ k \in expired[w]
Closed(k) ==
  /\ jobs'[k].status \in DoneJobStatuses
  /\ \E w \in Workers : Closes(w) /\ current[w] = k

LEMMA JobMoves ==
  ASSUME TypeOK, AtHand, [Next]_vars, NEW k \in Keys
  PROVE  jobs'[k] = jobs[k] \/ Created(k) \/ Claimed(k) \/ Recovered(k) \/ Closed(k)
<1>1. ASSUME NEW w \in Workers, RecoverCommit(w) PROVE jobs'[k] = jobs[k] \/ Recovered(k)
  <2>1. jobs'[k] = jobs[k] \/ (k \in expired[w] /\ jobs[k].status = "RUNNING"
                               /\ jobs'[k] = Freed(jobs[k]))
    BY <1>1 DEF RecoverCommit, Freed
  <2>. QED
    BY <1>1, <2>1, FreedFields DEF RecoverCommit, At, Recovered
<1>2. ASSUME NEW w \in Workers, GenerateCommit(w) PROVE jobs'[k] = jobs[k] \/ Created(k)
  <2>1. CASE \E p \in plan[w] : p.key = k
    <3>1. PICK p \in plan[w] : jobs'[k] = PlannedJob(p, w)
      BY <1>2, <2>1 DEF GenerateCommit
    <3>2. jobs'[k].status = "PENDING"
      BY <3>1 DEF PlannedJob, NewJob, NoJob
    <3>. QED
      BY <1>2, <2>1, <3>2 DEF GenerateCommit, At, Created
  <2>. QED
    BY <1>2, <2>1 DEF GenerateCommit
<1>3. ASSUME NEW w \in Workers, ClaimJobs(w) PROVE jobs'[k] = jobs[k] \/ Claimed(k)
  <2>1. PICK S \in Selections(w) :
           /\ jobs' = [j \in Keys |-> IF j \in S THEN Leased(jobs[j], w) ELSE jobs[j]]
           /\ batch' = [batch EXCEPT ![w] = S]
           /\ Leave(w, IF S = {} THEN "idle" ELSE "work")
    BY <1>3 DEF ClaimJobs
  <2>2. k \in S => jobs[k].status = "PENDING"
    BY DEF Selections, Claimable
  <2>3. k \in S => k \in Held(w)' /\ now'[w] = now[w] /\ pc'[w] = "work"
    BY <2>1 DEF Held, Leave, Goto, TypeOK
  <2>. QED
    BY <2>1, <2>2, <2>3, LeasedFields DEF Claimed
<1>4. ASSUME NEW w \in Workers, ClaimSpecific(w) PROVE jobs'[k] = jobs[k] \/ Claimed(k)
  <2>1. CASE jobs[current[w]].status = "PENDING" /\ k = current[w]
    <3>1. k \in Held(w)' /\ now'[w] = now[w] /\ pc'[w] = "work"
      BY <1>4, <2>1 DEF ClaimSpecific, Held, Leave, Goto, TypeOK
    <3>2. jobs'[k] = Leased(jobs[k], w)
      BY <1>4, <2>1 DEF ClaimSpecific, TypeOK
    <3>. QED
      BY <2>1, <3>1, <3>2, LeasedFields DEF Claimed
  <2>. QED
    BY <1>4, <2>1 DEF ClaimSpecific, TypeOK
<1>5. ASSUME NEW w \in Workers, Closes(w) PROVE jobs'[k] = jobs[k] \/ Closed(k)
  <2>1. PICK s \in DoneJobStatuses : jobs' = [jobs EXCEPT ![current[w]] = Finished(@, s)]
    BY <1>5 DEF Closes, Finish
  <2>2. Finished(jobs[k], s).status = s
    BY DEF Finished, Jobs, TypeOK
  <2>. QED
    BY <1>5, <2>1, <2>2 DEF Closed, TypeOK
<1>6. ASSUME NEW w \in Workers, NEW e \in OnDemand, CaptureNow(w, e)
      PROVE  jobs'[k] = jobs[k] \/ Created(k)
  <2>1. NewJob(CaptureNowPriority, clock).status = "PENDING"
    BY DEF NewJob, NoJob
  <2>2. CaptureNowKey(e).kind = "capture-now" /\ CaptureNowKey(e).event = e
    BY DEF CaptureNowKey
  <2>. QED
    BY <1>6, <2>1, <2>2 DEF CaptureNow, Created, TypeOK
<1>. QED
  BY <1>1, <1>2, <1>3, <1>4, <1>5, <1>6, JobWriters DEF Writes

\* An event is enrolled, settled by a closing transaction, touched by
\* enrichment or left alone.
Enrolled(e) ==
  /\ tracked[e].status = "UNTRACKED" /\ jobs' = jobs
  /\ tracked'[e] = [tracked[e] EXCEPT !.status = "ACTIVE"]
Enriched(e) ==
  /\ jobs' = jobs
  /\ \E w \in Workers : pc[w] = "enrich" /\ current[w].event = e
  /\ \/ tracked'[e].status \in Retired
     \/ /\ "reschedule" \in EnrichmentEffects
        /\ tracked[e].status = "ACTIVE" /\ tracked'[e].status = "ACTIVE"
SettledBy(e, w) ==
  Closes(w) /\ current[w].event = e /\ Settled(tracked[e], tracked'[e], now[w])

LEMMA EventMoves ==
  ASSUME TypeOK, AtHand, [Next]_vars, NEW e \in Events
  PROVE  \/ tracked'[e] = tracked[e]
         \/ Enrolled(e) \/ Enriched(e) \/ \E w \in Workers : SettledBy(e, w)
<1>1. ASSUME NEW w \in Workers, Advance(w)
      PROVE  tracked' = tracked \/ Closes(w) \/ EnrichCityStop(w) \/ EnrichReschedule(w)
  <2>1. EnrichUnchanged(w) => tracked' = tracked
    BY DEF EnrichUnchanged, Enrich, TypeOK
  <2>. QED
    BY <1>1, <2>1, FinishCloses DEF Advance, database, RecoverSelect, RecoverCommit, GenerateSelect,
       GenerateCommit, GenerateConflict, ClaimJobs, ClaimSpecific, BeginJob, Capture
<1>2. ASSUME NEW w \in Workers, StartPass(w) \/ Abort(w) \/ \E f \in OnDemand : CaptureNow(w, f)
      PROVE  tracked' = tracked
  BY <1>2 DEF StartPass, Abort, CaptureNow, database
<1>3. ASSUME NEW f \in Events, Enroll(f) PROVE tracked'[e] = tracked[e] \/ Enrolled(e)
  BY <1>3 DEF Enroll, Enrolled, TypeOK
<1>4. CASE Tick \/ UNCHANGED vars
  BY <1>4 DEF Tick, vars, database
<1>5. ASSUME NEW w \in Workers, Closes(w) PROVE tracked'[e] = tracked[e] \/ SettledBy(e, w)
  <2>1. PICK event \in TrackedEvents :
           /\ Settled(tracked[current[w].event], event, now[w])
           /\ tracked' = [tracked EXCEPT ![current[w].event] = event]
    BY <1>5 DEF Closes, Finish
  <2>. QED
    BY <1>5, <2>1 DEF SettledBy, TypeOK
<1>6. ASSUME NEW w \in Workers, EnrichCityStop(w) PROVE tracked'[e] = tracked[e] \/ Enriched(e)
  <2>1. [tracked[e] EXCEPT !.status = "STOPPED", !.next_capture_at = None].status = "STOPPED"
    BY DEF TypeOK, TrackedEvents
  <2>. QED
    BY <1>6, <2>1 DEF EnrichCityStop, Enrich, Enriched, At, TypeOK, Retired
<1>7. ASSUME NEW w \in Workers, EnrichReschedule(w)
      PROVE  tracked'[e] = tracked[e] \/ Enriched(e)
  <2>1. \A next : [tracked[e] EXCEPT !.next_capture_at = next].status = tracked[e].status
    BY DEF TypeOK, TrackedEvents
  <2>. QED
    BY <1>7, <2>1 DEF EnrichReschedule, Enrich, Enriched, At, TypeOK
<1>. QED
  BY <1>1, <1>2, <1>3, <1>4, <1>5, <1>6, <1>7 DEF Next

--------------------------------------------------------------------------------
(* What is done stays done, in one process.                                *)

LEMMA StepUndoesNothing ==
  ASSUME TypeOK, AtHand, [Next]_vars
  PROVE  DoneStaysDone /\ RetiredStaysRetired
<1>1. DoneStaysDone
  BY JobMoves DEF DoneStaysDone, Created, Claimed, Recovered, Closed, DoneJobStatuses
<1>2. ASSUME NEW e \in Events, tracked[e].status \in Retired
      PROVE  tracked'[e].status \in Retired
  BY <1>2, EventMoves DEF Enrolled, Enriched, SettledBy, Settled, Retired
<1>. QED
  BY <1>1, <1>2 DEF RetiredStaysRetired

LEMMA StepRecoversTheExpired ==
  ASSUME TypeOK, AtHand, RecoversExpired, [Next]_vars
  PROVE  ExpiredIsRecovered
BY JobMoves DEF ExpiredIsRecovered, RecoversExpired, Created, Claimed, Recovered, Closed,
   DoneJobStatuses

--------------------------------------------------------------------------------
(* Windows, in one process.                                                *)

\* At most one worker is between its awaits.
Alone ==
  \A v, w \in Workers : v # w /\ pc[v] \in Uninterrupted => pc[w] \notin Uninterrupted

\* A plan still fits the tables when it is written.
PlanIsFresh ==
  \A w \in Workers : pc[w] = "generating" => \A p \in plan[w] :
    /\ p.key = WindowKey(p.key.event) /\ Due(p.key.event, now[w])
    /\ ~HasActiveJob(p.key.event)

LEMMA StepAlone == ASSUME ~MultiProcess, TypeOK, Alone, [Next]_vars PROVE Alone'
<1>1. CASE NobodyMoves
  BY <1>1 DEF NobodyMoves, Alone
<1>2. ASSUME NEW w \in Workers, Moves(w) PROVE Alone'
  BY <1>2 DEF Moves, MayStep, OthersStay, Alone
<1>. QED
  BY <1>1, <1>2, OneMoves

LEMMA StartsGenerating ==
  ASSUME ~MultiProcess, TypeOK, [Next]_vars, NEW w \in Workers, pc'[w] = "generating"
  PROVE  GenerateSelect(w) \/ Tick \/ UNCHANGED vars
<1>. USE DEF TypeOK
<1>1. \A v \in Workers : Advance(v) => GenerateSelect(v) \/ pc'[v] # "generating"
  <2>1. \A v \in Workers : \A place : Leave(v, place) => pc'[v] = place
    BY DEF Leave, Goto
  <2>2. ASSUME NEW v \in Workers,
               RecoverSelect(v) \/ RecoverCommit(v) \/ GenerateCommit(v) \/ BeginJob(v) \/ Capture(v)
        PROVE  pc'[v] # "generating"
    BY <2>2 DEF RecoverSelect, RecoverCommit, GenerateCommit, BeginJob, Capture, Goto
  <2>3. ASSUME NEW v \in Workers, GenerateConflict(v) \/ ClaimJobs(v) \/ ClaimSpecific(v)
        PROVE  pc'[v] # "generating"
    BY <2>1, <2>3 DEF GenerateConflict, ClaimJobs, ClaimSpecific
  <2>4. ASSUME NEW v \in Workers, EnrichUnchanged(v) \/ EnrichCityStop(v) \/ EnrichReschedule(v)
        PROVE  pc'[v] # "generating"
    BY <2>1, <2>4 DEF EnrichUnchanged, EnrichCityStop, EnrichReschedule, Enrich, NextPlace
  <2>5. ASSUME NEW v \in Workers,
               FinishPresent(v) \/ FinishAbsent(v) \/ FinishTerminal(v) \/ FinishRetryable(v)
        PROVE  pc'[v] # "generating"
    BY <2>1, <2>5 DEF FinishPresent, FinishAbsent, FinishTerminal, FinishRetryable, Finish, NextPlace
  <2>. QED
    BY <2>2, <2>3, <2>4, <2>5 DEF Advance
<1>2. \A v \in Workers : StartPass(v) \/ Abort(v) \/ (\E e \in OnDemand : CaptureNow(v, e))
                          => pc'[v] # "generating"
  BY DEF StartPass, Abort, CaptureNow, Leave, Goto
<1>3. ASSUME NEW v \in Workers, Acts(v) PROVE v = w
  BY <1>3, ActorsMove DEF Moves, MayStep, OthersStay, Uninterrupted
<1>4. ASSUME NEW e \in Events, Enroll(e) PROVE FALSE
  BY <1>4 DEF Enroll, Uninterrupted
<1>5. ASSUME NEW v \in Workers, Acts(v) PROVE GenerateSelect(w)
  BY <1>1, <1>2, <1>3, <1>5 DEF Acts
<1>. QED
  BY <1>4, <1>5 DEF Next, Acts

\* Nobody enrolls an event or writes a job between the read and the write of a
\* generation.
LEMMA StepPlanIsFresh ==
  ASSUME ~MultiProcess, TypeOK, PlanIsFresh, [Next]_vars
  PROVE  PlanIsFresh'
<1>. SUFFICES ASSUME NEW w \in Workers, pc'[w] = "generating", NEW p \in plan'[w]
              PROVE  (/\ p.key = WindowKey(p.key.event) /\ Due(p.key.event, now[w])
                      /\ ~HasActiveJob(p.key.event))'
  BY DEF PlanIsFresh
<1>1. CASE GenerateSelect(w)
  <2>1. UNCHANGED <<tracked, jobs, now>>
    BY <1>1 DEF GenerateSelect, database
  <2>2. PICK e \in Events : Due(e, now[w]) /\ ~HasActiveJob(e) /\ p.key = WindowKey(e)
    BY <1>1 DEF GenerateSelect, TypeOK
  <2>3. p.key.event = e
    BY <2>2 DEF WindowKey
  <2>. QED
    BY <2>1, <2>2, <2>3 DEF WindowKey, Due, HasActiveJob
<1>2. CASE Tick \/ UNCHANGED vars
  <2>1. UNCHANGED <<tracked, jobs, now, plan, pc>>
    BY <1>2 DEF Tick, vars, database, local
  <2>. QED
    BY <2>1 DEF PlanIsFresh, WindowKey, Due, HasActiveJob
<1>. QED
  BY <1>1, <1>2, StartsGenerating

\* A new window job is the only active job of its event.
LEMMA StepOneActiveWindow ==
  ASSUME TypeOK, AtHand, Alone, PlanIsFresh, OneActiveWindow, [Next]_vars
  PROVE  OneActiveWindow'
<1>. DEFINE Active(k) == jobs[k].status \in ActiveJobStatuses
            Planned(k) == \E w \in Workers : pc[w] = "generating" /\ \E p \in plan[w] : p.key = k
<1>1. \A k \in Keys : jobs'[k].status \in ActiveJobStatuses /\ k.kind = "window"
                        => Active(k) \/ Planned(k)
  BY JobMoves DEF Created, Claimed, Recovered, Closed, ActiveJobStatuses, DoneJobStatuses
<1>2. \A j, k \in Keys : Planned(j) /\ Active(k) => j.event # k.event
  BY DEF PlanIsFresh, HasActiveJob
<1>3. \A j, k \in Keys : Planned(j) /\ Planned(k) /\ j.event = k.event => j = k
  BY DEF PlanIsFresh, Alone, Uninterrupted
<1>4. \A j, k \in Keys : /\ j.event = k.event /\ j.kind = "window" /\ k.kind = "window"
                         /\ jobs'[j].status \in ActiveJobStatuses
                         /\ jobs'[k].status \in ActiveJobStatuses
                         => j = k
  <2>. SUFFICES ASSUME NEW j \in Keys, NEW k \in Keys,
                       j.event = k.event, j.kind = "window", k.kind = "window",
                       jobs'[j].status \in ActiveJobStatuses, jobs'[k].status \in ActiveJobStatuses
                PROVE  j = k
    OBVIOUS
  <2>1. CASE Active(j) /\ Active(k)
    BY <2>1 DEF OneActiveWindow
  <2>. QED
    BY <1>1, <1>2, <1>3, <2>1
<1>. QED
  BY <1>4 DEF OneActiveWindow

--------------------------------------------------------------------------------
(* A worker's pass, from its start to its end.                             *)

Preparing == Uninterrupted \ {"work"}

\* No job of the batch is the one being processed.
HeldOnce == \A w \in Workers : pc[w] \in Processing => current[w] \notin batch[w]

Starts(w) == pc[w] = "idle" /\ now'[w] = clock /\ Held(w)' = {}
Prepares(w) ==
  pc[w] \in Preparing /\ pc'[w] \in Preparing /\ now'[w] = now[w] /\ Held(w)' = {}
Claims(w) ==
  /\ pc[w] \in {"claim", "claim_one"} /\ pc'[w] = "work" /\ now'[w] = now[w]
  /\ \A k \in Held(w)' : jobs[k].status = "PENDING" /\ jobs'[k].status = "RUNNING"
Works(w) ==
  /\ pc[w] \in {"work", "enrich"} \cup Processing
  /\ pc'[w] \in {"work", "enrich"} \cup Processing /\ now'[w] = now[w]
  /\ \A k \in Held(w)' : k \in Held(w) /\ (Closes(w) => k # current[w])
Rests(w) == pc'[w] = "idle" /\ Held(w)' = {}

LEMMA ActorMoves ==
  ASSUME TypeOK, AtHand, HeldOnce, NEW w \in Workers, Acts(w)
  PROVE  /\ Starts(w) \/ Prepares(w) \/ Claims(w) \/ Works(w) \/ Rests(w)
         /\ pc'[w] \in Processing => current'[w] \notin batch'[w]
         /\ \A k \in Held(w) : \/ k \in Held(w)' /\ now'[w] = now[w]
                               \/ Abort(w) \/ jobs'[k].status \in DoneJobStatuses
<1>. DEFINE Goal == /\ Starts(w) \/ Prepares(w) \/ Claims(w) \/ Works(w) \/ Rests(w)
                    /\ pc'[w] \in Processing => current'[w] \notin batch'[w]
                    /\ \A k \in Held(w) : \/ k \in Held(w)' /\ now'[w] = now[w]
                                          \/ Abort(w) \/ jobs'[k].status \in DoneJobStatuses
<1>. USE DEF TypeOK, AtHand, Processing, Uninterrupted, Preparing, Held, Goto, local
<1>1. CASE StartPass(w)
  BY <1>1 DEF StartPass, At, Starts
<1>2. ASSUME NEW e \in OnDemand, CaptureNow(w, e) PROVE Goal
  BY <1>2 DEF CaptureNow, At, Starts
<1>3. CASE RecoverSelect(w)
  BY <1>3 DEF RecoverSelect, At, Prepares
<1>4. CASE RecoverCommit(w)
  BY <1>4 DEF RecoverCommit, At, Prepares
<1>5. CASE GenerateSelect(w)
  BY <1>5 DEF GenerateSelect, At, Prepares
<1>6. CASE GenerateCommit(w)
  BY <1>6 DEF GenerateCommit, At, Prepares
<1>7. CASE GenerateConflict(w)
  BY <1>7 DEF GenerateConflict, Leave, At, Rests
<1>8. CASE ClaimJobs(w)
  <2>1. PICK S \in Selections(w) :
           /\ jobs' = [k \in Keys |-> IF k \in S THEN Leased(jobs[k], w) ELSE jobs[k]]
           /\ batch' = [batch EXCEPT ![w] = S]
           /\ Leave(w, IF S = {} THEN "idle" ELSE "work")
    BY <1>8 DEF ClaimJobs
  <2>2. pc[w] = "claim"
    BY <1>8 DEF ClaimJobs, At
  <2>3. CASE S = {}
    BY <2>1, <2>2, <2>3 DEF Leave, Rests
  <2>4. CASE S # {}
    <3>1. pc'[w] = "work" /\ now' = now /\ Held(w)' = S
      BY <2>1, <2>4 DEF Leave
    <3>2. S \subseteq Keys /\ \A k \in S : jobs[k].status = "PENDING"
      BY DEF Selections, Claimable
    <3>3. Claims(w)
      BY <2>1, <2>2, <3>1, <3>2, LeasedFields DEF Claims
    <3>. QED
      BY <2>2, <3>1, <3>3
  <2>. QED
    BY <2>3, <2>4
<1>9. CASE ClaimSpecific(w)
  <2>1. pc[w] = "claim_one" /\ current[w] \in Keys
    BY <1>9 DEF ClaimSpecific, At
  <2>2. CASE jobs[current[w]].status = "PENDING"
    <3>1. pc'[w] = "work" /\ now' = now /\ Held(w)' = {current[w]}
      BY <1>9, <2>2 DEF ClaimSpecific, Leave
    <3>2. jobs'[current[w]].status = "RUNNING"
      BY <1>9, <2>1, <2>2, LeasedFields DEF ClaimSpecific
    <3>3. Claims(w)
      BY <2>1, <2>2, <3>1, <3>2 DEF Claims
    <3>. QED
      BY <2>1, <3>1, <3>3
  <2>3. CASE jobs[current[w]].status # "PENDING"
    BY <1>9, <2>1, <2>3 DEF ClaimSpecific, Leave, Rests
  <2>. QED
    BY <2>2, <2>3
<1>10. CASE BeginJob(w)
  BY <1>10 DEF BeginJob, At, Works, Closes
<1>11. CASE Capture(w)
  BY <1>11 DEF Capture, At, Works, Closes, HeldOnce
<1>12. CASE FinishPresent(w) \/ FinishAbsent(w) \/ FinishTerminal(w) \/ FinishRetryable(w)
  <2>1. PICK s \in DoneJobStatuses, event \in TrackedEvents, place \in {NextPlace(w), "enrich"} :
           Finish(w, s, event, place) /\ pc[w] = "finish"
    BY <1>12, FinishCloses DEF Closes
  <2>2. current[w] \in Keys /\ current[w] \notin batch[w]
    BY <2>1 DEF HeldOnce
  <2>3. Finished(jobs[current[w]], s).status = s
    BY <2>2 DEF Finished, Jobs
  <2>4. jobs'[current[w]].status \in DoneJobStatuses
    BY <2>1, <2>2, <2>3 DEF Finish
  <2>5. pc'[w] = place /\ batch' = batch
    BY <2>1 DEF Finish, Leave
  <2>6. Held(w) = batch[w] \cup {current[w]}
    BY <2>1
  <2>7. CASE place = "idle"
    <3>1. batch[w] = {}
      BY <2>7 DEF NextPlace
    <3>. QED
      BY <2>4, <2>5, <2>6, <2>7, <3>1 DEF Rests
  <2>8. CASE place # "idle"
    <3>1. place \in {"work", "enrich"} /\ now' = now
      BY <2>1, <2>8 DEF Finish, Leave, NextPlace
    <3>2. Held(w)' = batch[w]
      BY <2>5, <3>1
    <3>. QED
      BY <2>1, <2>2, <2>4, <2>5, <2>6, <3>1, <3>2 DEF Works
  <2>. QED
    BY <2>7, <2>8
<1>13. CASE EnrichUnchanged(w) \/ EnrichCityStop(w) \/ EnrichReschedule(w)
  <2>1. /\ pc[w] = "enrich" /\ batch' = batch
        /\ Leave(w, NextPlace(w))
    BY <1>13 DEF EnrichUnchanged, EnrichCityStop, EnrichReschedule, Enrich, At
  <2>. QED
    BY <2>1 DEF Leave, NextPlace, Works, Rests, Closes
<1>14. CASE Abort(w)
  BY <1>14 DEF Abort, Leave, Rests
<1>. QED
  BY <1>1, <1>2, <1>3, <1>4, <1>5, <1>6, <1>7, <1>8, <1>9, <1>10, <1>11, <1>12, <1>13, <1>14
     DEF Acts, Advance

LEMMA StepHeldOnce == ASSUME TypeOK, AtHand, HeldOnce, [Next]_vars PROVE HeldOnce'
<1>1. CASE NobodyMoves
  BY <1>1 DEF NobodyMoves, HeldOnce, local
<1>2. ASSUME NEW w \in Workers, Acts(w), Moves(w) PROVE HeldOnce'
  BY <1>2, ActorMoves DEF Moves, OthersStay, HeldOnce
<1>. QED
  BY <1>1, <1>2, OneMoves

--------------------------------------------------------------------------------
(* The window an active tracker waits for, in one process.                 *)

Opened(k) == k.kind = "window" /\ k.at # None /\ jobs[k].status # "NONE"

\* A window gets its job only when the clock has reached it,
WindowsAreOpen == \A k \in Keys : Opened(k) => k.at <= clock

\* a pass that has not awaited yet has seen every window there is,
SeesAllWindows ==
  \A w \in Workers : pc[w] \in Preparing => \A k \in Keys : Opened(k) => k.at <= now[w]

\* and while a worker holds a job, the job is active, though perhaps recovered,
\* and no later window of its event is opened.
HeldIsActive ==
  \A w \in Workers : \A k \in Held(w) :
    /\ jobs[k].status \in ActiveJobStatuses
    /\ \A j \in Keys : Opened(j) /\ j.event = k.event => j.at <= now[w]

UntrackedIsFresh ==
  \A e \in Events : tracked[e].status = "UNTRACKED" =>
    /\ tracked[e].next_capture_at = None
    /\ \A k \in Keys : k.event = e => jobs[k].status = "NONE"

\* A window is opened by a worker that generates, no later than its now.
LEMMA OpenedNow ==
  ASSUME TypeOK, AtHand, PlanIsFresh, [Next]_vars, NEW k \in Keys, Opened(k)', ~Opened(k)
  PROVE  \E w \in Workers : /\ pc[w] = "generating" /\ k.at <= now[w]
                            /\ ~HasActiveJob(k.event)
<1>1. k.kind = "window" /\ k.at # None /\ jobs[k].status = "NONE" /\ jobs'[k].status # "NONE"
  BY DEF Opened
<1>2. Created(k)
  <2>1. ~Closed(k)
    BY <1>1 DEF Closed, Closes, AtHand, Held, Processing
  <2>. QED
    BY <1>1, <2>1, JobMoves DEF Claimed, Recovered
<1>3. PICK w \in Workers : pc[w] = "generating" /\ \E p \in plan[w] : p.key = k
  BY <1>1, <1>2 DEF Created
<1>4. Due(k.event, now[w]) /\ k = WindowKey(k.event) /\ ~HasActiveJob(k.event)
  BY <1>3 DEF PlanIsFresh
<1>. QED
  BY <1>1, <1>3, <1>4 DEF WindowKey, Due

LEMMA StepWindowsAreOpen ==
  ASSUME TypeOK, AtHand, NowIsPast, PlanIsFresh, WindowsAreOpen, [Next]_vars
  PROVE  WindowsAreOpen'
<1>. SUFFICES ASSUME NEW k \in Keys, Opened(k)' PROVE k.at <= clock'
  BY DEF WindowsAreOpen, Opened
<1>1. clock \in Nat /\ clock' \in Nat /\ clock <= clock' /\ k.at \in Nat
  <2>1. k.at \in Nat
    BY DEF Opened, Keys, Windows
  <2>2. clock' = clock \/ clock' = clock + 1
    <3>1. \A w \in Workers : Acts(w) => clock' = clock
      BY ActorsMove DEF Moves
    <3>. QED
      BY <3>1 DEF Next, Acts, Tick, Enroll, vars
  <2>. QED
    BY <2>1, <2>2 DEF TypeOK
<1>2. k.at <= clock
  <2>1. CASE Opened(k)
    BY <2>1 DEF WindowsAreOpen
  <2>2. CASE ~Opened(k)
    <3>1. PICK w \in Workers : k.at <= now[w]
      BY <2>2, OpenedNow
    <3>. QED
      BY <1>1, <3>1 DEF NowIsPast, TypeOK
  <2>. QED
    BY <2>1, <2>2
<1>. QED
  BY <1>1, <1>2

LEMMA StepSeesAllWindows ==
  ASSUME ~MultiProcess, TypeOK, AtHand, HeldOnce, Alone, PlanIsFresh, WindowsAreOpen,
         SeesAllWindows, [Next]_vars
  PROVE  SeesAllWindows'
<1>. SUFFICES ASSUME NEW w \in Workers, pc'[w] \in Preparing, NEW k \in Keys, Opened(k)'
              PROVE  k.at <= now'[w]
  BY DEF SeesAllWindows, Opened
<1>1. CASE NobodyMoves
  BY <1>1 DEF NobodyMoves, local, SeesAllWindows, Opened
<1>2. ASSUME NEW v \in Workers, Acts(v), Moves(v) PROVE k.at <= now'[w]
  <2>1. v = w
    BY <1>2 DEF Moves, MayStep, OthersStay, Preparing
  <2>2. Starts(w) \/ Prepares(w)
    BY <1>2, <2>1, ActorMoves DEF Claims, Works, Rests, Preparing, Uninterrupted, Processing
  <2>3. ~Opened(k) => pc[w] = "generating" /\ k.at <= now[w]
    BY <1>2, <2>1, OpenedNow DEF Moves, MayStep, Uninterrupted
  <2>. QED
    BY <2>2, <2>3 DEF Starts, Prepares, WindowsAreOpen, SeesAllWindows
<1>. QED
  BY <1>1, <1>2, OneMoves

\* A job that one worker alone holds stays active until that worker closes it.
LEMMA HeldStaysActive ==
  ASSUME TypeOK, AtHand, NoDoubleProcessing, HeldIsActive, [Next]_vars,
         NEW w \in Workers, NEW k \in Held(w)
  PROVE  jobs'[k].status \in ActiveJobStatuses \/ (Closes(w) /\ current[w] = k)
<1>1. k \in Keys /\ jobs[k].status \in ActiveJobStatuses
  BY HeldTypes DEF HeldIsActive
<1>2. ASSUME Closed(k) PROVE Closes(w) /\ current[w] = k
  <2>1. PICK v \in Workers : Closes(v) /\ current[v] = k
    BY <1>2 DEF Closed
  <2>2. k \in Held(v)
    BY <2>1 DEF Closes, Held, Processing
  <2>. QED
    BY <2>1, <2>2 DEF NoDoubleProcessing
<1>. QED
  BY <1>1, <1>2, JobMoves DEF Created, Claimed, Recovered, ActiveJobStatuses

LEMMA StepHeldIsActive ==
  ASSUME ~MultiProcess, TypeOK, AtHand, NoDoubleProcessing, HeldOnce, PlanIsFresh,
         SeesAllWindows, HeldIsActive, [Next]_vars
  PROVE  HeldIsActive'
<1>. SUFFICES ASSUME NEW w \in Workers, NEW k \in Held(w)'
              PROVE  /\ jobs'[k].status \in ActiveJobStatuses
                     /\ \A j \in Keys : Opened(j)' /\ j.event = k.event => j.at <= now'[w]
  BY DEF HeldIsActive, Opened
<1>1. ASSUME k \in Held(w), now'[w] = now[w], ~(Closes(w) /\ current[w] = k)
      PROVE  /\ jobs'[k].status \in ActiveJobStatuses
             /\ \A j \in Keys : Opened(j)' /\ j.event = k.event => j.at <= now'[w]
  <2>1. jobs'[k].status \in ActiveJobStatuses
    BY <1>1, HeldStaysActive
  <2>2. HasActiveJob(k.event)
    BY <1>1, HeldTypes DEF HeldIsActive, HasActiveJob, ActiveJobStatuses
  <2>3. \A j \in Keys : Opened(j)' /\ j.event = k.event => Opened(j)
    BY <2>2, OpenedNow
  <2>. QED
    BY <1>1, <2>1, <2>3 DEF HeldIsActive
<1>2. CASE NobodyMoves
  <2>1. /\ k \in Held(w) /\ now'[w] = now[w] /\ pc' = pc
    BY <1>2 DEF NobodyMoves, local, Held
  <2>2. jobs' = jobs
    BY <1>2 DEF NobodyMoves
  <2>. QED
    BY <2>1, <2>2 DEF HeldIsActive, Opened
<1>3. ASSUME NEW v \in Workers, Acts(v), Moves(v), v # w
      PROVE  /\ jobs'[k].status \in ActiveJobStatuses
             /\ \A j \in Keys : Opened(j)' /\ j.event = k.event => j.at <= now'[w]
  <2>1. k \in Held(w) /\ now'[w] = now[w] /\ pc'[w] = pc[w]
    BY <1>3, Bystander DEF Moves, OthersStay
  <2>2. ~Closes(w)
    BY <2>1 DEF Closes, Finish, Leave, Goto, NextPlace, TypeOK
  <2>. QED
    BY <1>1, <2>1, <2>2
<1>4. ASSUME Acts(w), Moves(w)
      PROVE  /\ jobs'[k].status \in ActiveJobStatuses
             /\ \A j \in Keys : Opened(j)' /\ j.event = k.event => j.at <= now'[w]
  <2>1. CASE Works(w)
    BY <1>1, <2>1 DEF Works
  <2>2. CASE Claims(w)
    <3>1. \A j \in Keys : Opened(j)' => Opened(j)
      BY <1>4, <2>2, OpenedNow DEF Claims, Moves, MayStep, Uninterrupted
    <3>. QED
      BY <2>2, <3>1 DEF Claims, SeesAllWindows, Preparing, Uninterrupted, ActiveJobStatuses
  <2>. QED
    BY <1>4, <2>1, <2>2, ActorMoves DEF Starts, Prepares, Rests
<1>. QED
  BY <1>2, <1>3, <1>4, OneMoves

LEMMA StepUntrackedIsFresh ==
  ASSUME TypeOK, AtHand, PlanIsFresh, UntrackedIsFresh, [Next]_vars
  PROVE  UntrackedIsFresh'
<1>. SUFFICES ASSUME NEW e \in Events, tracked'[e].status = "UNTRACKED"
              PROVE  /\ tracked'[e].next_capture_at = None
                     /\ \A k \in Keys : k.event = e => jobs'[k].status = "NONE"
  BY DEF UntrackedIsFresh
<1>1. ~ \E w \in Workers : Closes(w) /\ current[w].event = e /\ tracked[e].status = "UNTRACKED"
  BY DEF Closes, AtHand, Held, Processing, UntrackedIsFresh
<1>2. tracked'[e] = tracked[e]
  <2>1. ~Enrolled(e)
    BY DEF Enrolled, TypeOK, TrackedEvents
  <2>2. ~Enriched(e)
    BY DEF Enriched, Retired
  <2>3. ASSUME NEW w \in Workers PROVE ~SettledBy(e, w)
    BY <1>1 DEF SettledBy, Settled, Retired
  <2>. QED
    BY <2>1, <2>2, <2>3, EventMoves
<1>3. ASSUME NEW k \in Keys, k.event = e PROVE jobs'[k].status = "NONE"
  <2>1. jobs[k].status = "NONE" /\ tracked[e].status = "UNTRACKED"
    BY <1>2, <1>3 DEF UntrackedIsFresh
  <2>2. ~Created(k)
    BY <1>3, <2>1 DEF Created, PlanIsFresh, Due
  <2>3. ~Closed(k)
    BY <1>1, <1>3, <2>1 DEF Closed
  <2>. QED
    BY <2>1, <2>2, <2>3, JobMoves DEF Claimed, Recovered
<1>. QED
  BY <1>2, <1>3 DEF UntrackedIsFresh

\* What a closing transaction schedules lies after every window it knows.
LEMMA StepWindowStillOpen ==
  ASSUME "reschedule" \notin EnrichmentEffects, TypeOK, AtHand, HeldIsActive,
         UntrackedIsFresh, WindowStillOpen, [Next]_vars
  PROVE  WindowStillOpen'
<1>. DEFINE Unused(e) == \A k \in Keys : k = WindowKey(e) => jobs[k].status = "NONE"
<1>1. \A e \in Events : WindowKey(e) \in Keys <=> tracked[e].next_capture_at \in Windows
  BY DEF WindowKey, Keys
<1>2. \A e \in Events : tracked[e].status = "ACTIVE" => HasActiveJob(e) \/ Unused(e)
  BY <1>1 DEF WindowStillOpen
<1>3. ASSUME NEW k \in Keys, jobs[k].status = "NONE"
      PROVE  jobs'[k].status \in {"NONE", "PENDING"}
  <2>1. ~Closed(k)
    BY <1>3 DEF Closed, Closes, AtHand, Held, Processing
  <2>. QED
    BY <1>3, <2>1, JobMoves DEF Created, Claimed, Recovered
<1>4. ASSUME NEW e \in Events, tracked'[e].status = "ACTIVE"
      PROVE  \/ HasActiveJob(e)'
             \/ \A k \in Keys : k = WindowKey(e)' => jobs'[k].status = "NONE"
  <2>. SUFFICES ASSUME ~HasActiveJob(e)'
                PROVE  \A k \in Keys : k = WindowKey(e)' => jobs'[k].status = "NONE"
    OBVIOUS
  <2>1. \A k \in Keys : k.event = e => jobs'[k].status \notin ActiveJobStatuses
    BY DEF HasActiveJob
  <2>2. WindowKey(e)'.event = e
    BY DEF WindowKey
  <2>3. CASE tracked'[e] = tracked[e] /\ ~ \E w \in Workers : Closes(w) /\ current[w].event = e
    <3>1. ~HasActiveJob(e)
      BY <2>1, <2>3, JobMoves DEF HasActiveJob, Created, Claimed, Recovered, Closed,
         ActiveJobStatuses
    <3>2. Unused(e)
      BY <1>2, <1>4, <2>3, <3>1
    <3>3. WindowKey(e)' = WindowKey(e)
      BY <2>3 DEF WindowKey
    <3>. QED
      BY <1>3, <2>1, <2>2, <3>2, <3>3 DEF ActiveJobStatuses
  <2>4. CASE Enrolled(e)
    BY <2>2, <2>4 DEF Enrolled, UntrackedIsFresh
  <2>5. ASSUME NEW w \in Workers, Closes(w), current[w].event = e
        PROVE  \A k \in Keys : k = WindowKey(e)' => jobs'[k].status = "NONE"
    <3>1. Settled(tracked[e], tracked'[e], now[w])
      BY <2>5 DEF Closes, Finish, TypeOK
    <3>2. tracked'[e].next_capture_at \in Nat /\ tracked'[e].next_capture_at > now[w]
      BY <1>4, <3>1 DEF Settled, Retired
    <3>3. current[w] \in Held(w) /\ now[w] \in Nat
      BY <2>5 DEF Closes, Held, Processing, TypeOK
    <3>4. ASSUME NEW k \in Keys, k = WindowKey(e)' PROVE jobs[k].status = "NONE"
      <4>1. k.at > now[w] /\ k.at \in Nat /\ k.kind = "window" /\ k.event = e
        BY <3>2, <3>4 DEF WindowKey
      <4>2. ~Opened(k)
        BY <2>5, <3>3, <4>1 DEF HeldIsActive
      <4>. QED
        BY <4>1, <4>2 DEF Opened
    <3>. QED
      BY <1>3, <2>1, <2>2, <3>4 DEF ActiveJobStatuses
  <2>. QED
    BY <1>4, <2>3, <2>4, <2>5, EventMoves DEF Enriched, SettledBy, Retired
<1>5. \A e \in Events : (WindowKey(e) \in Keys)' <=> tracked'[e].next_capture_at \in Windows
  BY DEF WindowKey, Keys
<1>. QED
  BY <1>4, <1>5 DEF WindowStillOpen, Windows

--------------------------------------------------------------------------------
(* The theorems.                                                           *)

\* The inductive invariant of one process, and what is added to it for
\* generation and for the windows.
IInv          == TypeOK /\ LeaseInvariant
GenerationInv == Alone /\ PlanIsFresh /\ OneActiveWindow
OpenInv ==
  HeldOnce /\ WindowsAreOpen /\ SeesAllWindows /\ HeldIsActive /\ UntrackedIsFresh /\ WindowStillOpen

LEMMA InitInv == Init => IInv
<1>. SUFFICES ASSUME Init PROVE IInv
  OBVIOUS
<1>1. TypeOK
  BY InitTypeOK
<1>2. AtHand
  BY DEF Init, AtHand, Held, Processing
<1>3. NowIsPast /\ RecoversExpired
  BY DEF Init, NowIsPast, RecoversExpired
<1>4. LeaseKept /\ LeaseExclusion
  BY DEF Init, LeaseKept, LeaseExclusion, Held, Processing
<1>. QED
  BY <1>1, <1>2, <1>3, <1>4 DEF IInv, LeaseInvariant

LEMMA StepInv == ASSUME ~MultiProcess PROVE IInv /\ [Next]_vars => IInv'
<1>. SUFFICES ASSUME IInv, [Next]_vars PROVE IInv'
  OBVIOUS
<1>1. TypeOK /\ AtHand /\ NowIsPast /\ LeaseKept /\ RecoversExpired /\ LeaseExclusion
  BY DEF IInv, LeaseInvariant
<1>2. TypeOK'
  BY <1>1, StepTypeOK
<1>3. AtHand'
  BY <1>1, StepAtHand
<1>4. NowIsPast'
  BY <1>1, StepNowIsPast
<1>5. RecoversExpired'
  BY <1>1, StepRecoversExpired
<1>6. LeaseKept' /\ LeaseExclusion'
  BY <1>1, StepLeases
<1>. QED
  BY <1>2, <1>3, <1>4, <1>5, <1>6 DEF IInv, LeaseInvariant

\* The state stays typed, however many processes share the tables.
THEOREM TypeCorrect == Spec => []TypeOK
<1>1. Init => TypeOK /\ AtHand
  BY InitInv DEF IInv, LeaseInvariant
<1>2. TypeOK /\ AtHand /\ [Next]_vars => (TypeOK /\ AtHand)'
  BY StepTypeOK, StepAtHand
<1>. QED
  BY <1>1, <1>2, PTL DEF Spec

\* In one process, whatever the clock, the answers, the failures and the number
\* of workers, two workers hold the same job only after the lease of one of
\* them has run out: the compare-and-swap of claim_jobs and _claim_specific and
\* the expiry test of recover_expired_locks suffice.
THEOREM LeasesExclude == ASSUME ~MultiProcess PROVE Spec => []LeaseExclusion
<1>1. Init => IInv
  BY InitInv
<1>2. IInv /\ [Next]_vars => IInv'
  BY StepInv
<1>3. IInv => LeaseExclusion
  BY DEF IInv, LeaseInvariant
<1>. QED
  BY <1>1, <1>2, <1>3, PTL DEF Spec

LEMMA StepGeneration ==
  ASSUME ~MultiProcess
  PROVE  IInv /\ GenerationInv /\ [Next]_vars => GenerationInv'
<1>. SUFFICES ASSUME IInv, GenerationInv, [Next]_vars PROVE GenerationInv'
  OBVIOUS
<1>. USE DEF IInv, LeaseInvariant, GenerationInv
<1>1. Alone'
  BY StepAlone
<1>2. PlanIsFresh'
  BY StepPlanIsFresh
<1>3. OneActiveWindow'
  BY StepOneActiveWindow
<1>. QED
  BY <1>1, <1>2, <1>3

LEMMA StepOpen ==
  ASSUME ~MultiProcess, "reschedule" \notin EnrichmentEffects
  PROVE  IInv /\ GenerationInv /\ OpenInv /\ NoDoubleProcessing /\ [Next]_vars => OpenInv'
<1>. SUFFICES ASSUME IInv, GenerationInv, OpenInv, NoDoubleProcessing, [Next]_vars
              PROVE  OpenInv'
  OBVIOUS
<1>1. TypeOK /\ AtHand /\ NowIsPast
  BY DEF IInv, LeaseInvariant
<1>2. Alone /\ PlanIsFresh
  BY DEF GenerationInv
<1>. USE DEF OpenInv
<1>3. HeldOnce'
  BY <1>1, StepHeldOnce
<1>4. WindowsAreOpen'
  BY <1>1, <1>2, StepWindowsAreOpen
<1>5. SeesAllWindows'
  BY <1>1, <1>2, StepSeesAllWindows
<1>6. HeldIsActive'
  BY <1>1, <1>2, StepHeldIsActive
<1>7. UntrackedIsFresh'
  BY <1>1, <1>2, StepUntrackedIsFresh
<1>8. WindowStillOpen'
  BY <1>1, StepWindowStillOpen
<1>. QED
  BY <1>3, <1>4, <1>5, <1>6, <1>7, <1>8

LEMMA InitAll == Init => GenerationInv /\ OpenInv
<1>. SUFFICES ASSUME Init PROVE GenerationInv /\ OpenInv
  OBVIOUS
<1>1. \A w \in Workers : pc[w] = "idle" /\ Held(w) = {} /\ expired[w] = {}
  BY DEF Init, Held, Processing
<1>2. \A k \in Keys : jobs[k].status = "NONE"
  BY DEF Init, NoJob
<1>3. \A e \in Events : tracked[e] = Untracked
  BY DEF Init
<1>4. GenerationInv
  BY <1>1, <1>2 DEF GenerationInv, Alone, PlanIsFresh, OneActiveWindow, Uninterrupted,
     ActiveJobStatuses
<1>5. HeldOnce
  BY <1>1 DEF HeldOnce, Processing
<1>6. WindowsAreOpen /\ SeesAllWindows /\ HeldIsActive
  BY <1>1, <1>2 DEF WindowsAreOpen, SeesAllWindows, HeldIsActive, Opened
<1>7. UntrackedIsFresh /\ WindowStillOpen
  BY <1>2, <1>3 DEF UntrackedIsFresh, WindowStillOpen, Untracked
<1>. QED
  BY <1>4, <1>5, <1>6, <1>7 DEF OpenInv

\* However many processes share the tables and however late a pass is, a
\* finished job is never made claimable again and a tracker that was given up is
\* never revived: recovery writes only what is still RUNNING, a claim only what
\* is PENDING, and no closing transaction gives a retired tracker its status
\* back.
THEOREM FinishedForGood == Spec => FinishedStaysFinished
<1>1. Init => TypeOK /\ AtHand
  BY InitInv DEF IInv, LeaseInvariant
<1>2. TypeOK /\ AtHand /\ [Next]_vars => (TypeOK /\ AtHand)'
  BY StepTypeOK, StepAtHand
<1>3. TypeOK /\ AtHand /\ [Next]_vars => [DoneStaysDone /\ RetiredStaysRetired]_vars
  BY StepUndoesNothing
<1>. QED
  BY <1>1, <1>2, <1>3, PTL DEF Spec, FinishedStaysFinished

\* In one process a finished job is never claimable again, a retired tracker is
\* never revived, and recovery takes a job only from a lease that has run out:
\* every write of the service checks the status it writes over, in the same
\* transaction or with no await since it read it.
THEOREM NothingUndone == ASSUME ~MultiProcess PROVE Spec => NothingIsUndone
<1>1. Init => IInv
  BY InitInv
<1>2. IInv /\ [Next]_vars => IInv'
  BY StepInv
<1>3. IInv /\ [Next]_vars => [DoneStaysDone /\ RetiredStaysRetired /\ ExpiredIsRecovered]_vars
  BY StepUndoesNothing, StepRecoversTheExpired DEF IInv, LeaseInvariant
<1>. QED
  BY <1>1, <1>2, <1>3, PTL DEF Spec, NothingIsUndone

\* In one process no event ever waits in two windows: between the look at the
\* active jobs and the insert of generate_due_jobs nobody else runs.
THEOREM OneWindowAtATime == ASSUME ~MultiProcess PROVE Spec => []OneActiveWindow
<1>1. Init => IInv /\ GenerationInv
  BY InitInv, InitAll
<1>2. IInv /\ GenerationInv /\ [Next]_vars => (IInv /\ GenerationInv)'
  BY StepInv, StepGeneration
<1>3. GenerationInv => OneActiveWindow
  BY DEF GenerationInv
<1>. QED
  BY <1>1, <1>2, <1>3, PTL DEF Spec

\* In one process, as long as no job is processed twice at once, an active
\* tracker is never lost to the deduplication, whatever the clock, the crashes
\* and the recoveries: a closing transaction schedules a window later than every
\* window of the event that has a job.  Both hypotheses are needed: of two passes
\* that process one job, which a pass slower than its lease lets happen (the run
\* sched_overrun), the later may write a window already used up; and enrichment
\* that reschedules may leave an active tracker no date but one already captured
\* (the run enrichment_orphan).
THEOREM TrackersAreNotLost ==
  ASSUME ~MultiProcess, "reschedule" \notin EnrichmentEffects
  PROVE  Spec /\ []NoDoubleProcessing => []WindowStillOpen
<1>. DEFINE Inv == IInv /\ GenerationInv /\ OpenInv
<1>1. Init => Inv
  BY InitInv, InitAll
<1>2. Inv /\ NoDoubleProcessing /\ [Next]_vars => Inv'
  BY StepInv, StepGeneration, StepOpen
<1>3. Inv => WindowStillOpen
  BY DEF OpenInv
<1>. HIDE DEF Inv
<1>. QED
  BY <1>1, <1>2, <1>3, PTL DEF Spec
================================================================================
