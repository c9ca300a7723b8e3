--------------------------- MODULE CaptureScheduler ----------------------------
(***************************************************************************)
(* The scheduled capture of crawl-service: SchedulerService in             *)
(* crawl_service/service.py.  Workers (the in-process collector, the cron  *)
(* worker, the /run and /capture-now routes) share two tables, the tracked *)
(* events and the capture jobs.  A pass recovers expired leases, generates *)
(* the due jobs, claims a batch under a lease, and captures the claimed    *)
(* jobs one by one; each await of the capture lets every other worker, the *)
(* clock and a crash in.                                                   *)
(*                                                                         *)
(* A database transaction is one step, except that recovery and generation *)
(* read first and write later: under READ COMMITTED another process may    *)
(* commit in between (MultiProcess).  Inside one asyncio process a pass    *)
(* runs without an await up to the capture of its first job, and from the  *)
(* end of one job to the capture of the next: nobody else runs there.      *)
(***************************************************************************)
EXTENDS RetryPolicy, FiniteSets

CONSTANTS
  Events,             \* (source, source_record_id) pairs of enabled sources
  OnDemand,           \* the events operators request a capture of
  Workers,            \* tasks running run_once or capture_now
  MaxTracked,         \* scheduled_capture_max_tracked
  Limit,              \* scheduled_capture_max_jobs, captures per pass
  LockTTL,            \* scheduled_capture_lock_ttl_seconds
  CadenceSteps,       \* the distances compute_cadence schedules ahead of now
  FollowUps,          \* its fixed dates: start + 1/3/7 days, confirmations
  BasePriority,       \* compute_priority before the failure penalty
  MinuteLength,       \* length of the capture-now window
  Results,            \* the answers the capture boundary gives in this model
  EnrichmentEffects,  \* what enrichment may do; {} when it is disabled
  MultiProcess,       \* TRUE: other processes interleave inside transactions
  None,               \* SQL NULL
  MaxTime,            \* bound: the clock stops here
  MaxAborts           \* bound: crashes and uncaught exceptions of passes

VARIABLES
  clock,     \* wall-clock time
  tracked,   \* table tracked_event
  jobs,      \* table scheduled_capture_job, by dedup_key
  pc,        \* where each worker is
  now,       \* the time each worker's pass took as its `now`
  expired,   \* recover_expired_locks: ids read, not yet written
  plan,      \* generate_due_jobs: rows to insert, not yet committed
  batch,     \* claimed jobs the pass has still to process
  current,   \* the job being processed (or claimed by capture_now)
  seen,      \* the attempt_count process_job read before the capture
  result,    \* the outcome of the capture
  aborts     \* how often a pass was cut short

database == <<tracked, jobs>>
local    == <<now, expired, plan, batch, current, seen, result>>
vars     == <<clock, database, pc, local, aborts>>

--------------------------------------------------------------------------------
Windows == {None} \cup 0 .. MaxTime
Keys == [event : Events, kind : {"window", "capture-now"}, at : Windows]

ActiveJobStatuses == {"PENDING", "RUNNING"}
DoneJobStatuses   == {"SUCCEEDED", "FAILED_RETRYABLE", "FAILED_TERMINAL"}
Jobs == [status : {"NONE"} \cup ActiveJobStatuses \cup DoneJobStatuses,
         priority : Int, scheduled_at : Nat, attempt_count : Nat,
         lock_expires_at : Nat \cup {None}]
NoJob == [status |-> "NONE", priority |-> 0, scheduled_at |-> 0,
          attempt_count |-> 0, lock_expires_at |-> None]

Retired == {"STOPPED", "NEEDS_REVIEW"}
TrackedEvents == [status : {"UNTRACKED", "ACTIVE"} \cup Retired,
                  next_capture_at : Nat \cup {None},
                  consecutive_failures : Nat]
Untracked == [status |-> "UNTRACKED", next_capture_at |-> None,
              consecutive_failures |-> 0]

\* No await between these points and the capture of the first, or next, job.
Uninterrupted == {"recover", "recovering", "generate", "generating", "claim",
                  "claim_one", "work"}
Processing    == {"capture", "finish"}
Places == {"idle", "enrich"} \cup Uninterrupted \cup Processing

ASSUME SchedulerAssumption ==
  /\ OnDemand \subseteq Events
  /\ MaxTracked \in Nat /\ Limit \in Nat \ {0} /\ LockTTL \in Nat
  /\ CadenceSteps \subseteq Nat \ {0} /\ FollowUps \subseteq Nat
  /\ BasePriority \in Nat /\ MinuteLength \in Nat \ {0}
  /\ Results \subseteq ResultCodes
  /\ EnrichmentEffects \subseteq {"unchanged", "reschedule", "city_stop"}
  /\ MultiProcess \in BOOLEAN
  /\ None \notin Nat /\ None \notin Workers
  /\ MaxTime \in Nat /\ MaxAborts \in Nat

\* The type invariant.
TypeOK ==
  /\ clock \in 0 .. MaxTime
  /\ tracked \in [Events -> TrackedEvents]
  /\ jobs \in [Keys -> Jobs]
  /\ pc \in [Workers -> Places]
  /\ now \in [Workers -> 0 .. MaxTime]
  /\ expired \in [Workers -> SUBSET Keys]
  /\ plan \in [Workers -> SUBSET [key : Keys, priority : Int]]
  /\ batch \in [Workers -> SUBSET Keys]
  /\ current \in [Workers -> Keys \cup {None}]
  /\ seen \in [Workers -> Nat]
  /\ result \in [Workers -> ResultCodes \cup {None}]
  /\ aborts \in 0 .. MaxAborts

Init ==
  /\ clock = 0
  /\ tracked = [e \in Events |-> Untracked]
  /\ jobs = [k \in Keys |-> NoJob]
  /\ pc = [w \in Workers |-> "idle"]
  /\ now = [w \in Workers |-> 0]
  /\ expired = [w \in Workers |-> {}]
  /\ plan = [w \in Workers |-> {}]
  /\ batch = [w \in Workers |-> {}]
  /\ current = [w \in Workers |-> None]
  /\ seen = [w \in Workers |-> 0]
  /\ result = [w \in Workers |-> None]
  /\ aborts = 0

--------------------------------------------------------------------------------
(* Shared helpers.                                                         *)

Goto(w, place) == pc' = [pc EXCEPT ![w] = place]

\* In one process nobody runs until the running task awaits.
MayStep(w) == MultiProcess \/ \A v \in Workers \ {w} : pc[v] \notin Uninterrupted

At(w, place) == pc[w] = place /\ MayStep(w)

\* A pass that is over forgets the time it took as its `now`.
Leave(w, place) ==
  /\ Goto(w, place)
  /\ now' = IF place = "idle" THEN [now EXCEPT ![w] = 0] ELSE now

\* The lease a worker takes on a job ends here; one end for the whole batch.
LeaseEnd(w) == now[w] + LockTTL

Leased(job, w) ==
  [job EXCEPT !.status = "RUNNING", !.lock_expires_at = LeaseEnd(w),
              !.attempt_count = @ + 1]

\* The jobs a worker believes it owns.
Held(w) == batch[w] \cup IF pc[w] \in Processing THEN {current[w]} ELSE {}

Due(e, t) ==
  /\ tracked[e].status = "ACTIVE"
  /\ tracked[e].next_capture_at = None \/ tracked[e].next_capture_at <= t

WindowKey(e) ==
  [event |-> e, kind |-> "window", at |-> tracked[e].next_capture_at]

HasActiveJob_Pending(e) ==
  \E k \in Keys : k.event = e /\ jobs[k].status = "PENDING"

HasActiveJob(e) ==
  \E k \in Keys : k.event = e /\ jobs[k].status \in ActiveJobStatuses

\* compute_priority: failing events sink, by at most three steps.
Priority(e) ==
  LET failures == tracked[e].consecutive_failures
  IN  BasePriority - (IF failures < 3 THEN failures ELSE 3)
CaptureNowPriority == BasePriority + 1

Cadence_SameDate(t, status) ==
  {None} \cup IF status \in Retired THEN {}
              ELSE {t + d : d \in CadenceSteps} \cup {f \in FollowUps : f >= t}

\* compute_cadence: a later time, or None for "stop tracking"; always None
\* for a retired tracker.
Cadence(t, status) ==
  {None} \cup IF status \in Retired THEN {}
              ELSE {t + d : d \in CadenceSteps} \cup {f \in FollowUps : f > t}

\* ORDER BY priority DESC, scheduled_at ASC
Before(j, k) ==
  \/ jobs[j].priority > jobs[k].priority
  \/ jobs[j].priority = jobs[k].priority /\ jobs[j].scheduled_at < jobs[k].scheduled_at

\* After one job: the next of the batch, or the end of the pass.
NextPlace(w) == IF batch[w] = {} THEN "idle" ELSE "work"

--------------------------------------------------------------------------------
(* Enrollment.                                                             *)

Enroll(e) ==
  /\ tracked[e].status = "UNTRACKED"
  /\ Cardinality({f \in Events : tracked[f].status # "UNTRACKED"}) < MaxTracked
  /\ MultiProcess \/ \A w \in Workers : pc[w] \notin Uninterrupted
  /\ tracked' = [tracked EXCEPT ![e].status = "ACTIVE"]
  /\ UNCHANGED <<clock, jobs, pc, local, aborts>>

--------------------------------------------------------------------------------
(* One pass: run_once.                                                     *)

StartPass(w) ==
  /\ At(w, "idle")
  /\ Goto(w, "recover")
  /\ now' = [now EXCEPT ![w] = clock]
  /\ UNCHANGED <<clock, database, expired, plan, batch, current, seen, result, aborts>>

RecoverSelect_AnyLease(w) ==
  /\ At(w, "recover")
  /\ Goto(w, "recovering")
  /\ expired' = [expired EXCEPT ![w] =
       {k \in Keys : /\ jobs[k].status = "RUNNING"
                     /\ jobs[k].lock_expires_at # None}]
  /\ UNCHANGED <<clock, database, now, plan, batch, current, seen, result, aborts>>

RecoverSelect(w) ==
  /\ At(w, "recover")
  /\ Goto(w, "recovering")
  /\ expired' = [expired EXCEPT ![w] =
       {k \in Keys : /\ jobs[k].status = "RUNNING"
                     /\ jobs[k].lock_expires_at # None
                     /\ jobs[k].lock_expires_at < now[w]}]
  /\ UNCHANGED <<clock, database, now, plan, batch, current, seen, result, aborts>>

RecoverCommit_ByRead(w) ==
  /\ At(w, "recovering")
  /\ Goto(w, "generate")
  /\ jobs' = [k \in Keys |->
       IF k \in expired[w]
         THEN [jobs[k] EXCEPT !.status = "PENDING", !.lock_expires_at = None]
         ELSE jobs[k]]
  /\ expired' = [expired EXCEPT ![w] = {}]
  /\ UNCHANGED <<clock, tracked, now, plan, batch, current, seen, result, aborts>>

\* UPDATE ... WHERE id = :id AND status = 'RUNNING'
RecoverCommit(w) ==
  /\ At(w, "recovering")
  /\ Goto(w, "generate")
  /\ jobs' = [k \in Keys |->
       IF k \in expired[w] /\ jobs[k].status = "RUNNING"
         THEN [jobs[k] EXCEPT !.status = "PENDING", !.lock_expires_at = None]
         ELSE jobs[k]]
  /\ expired' = [expired EXCEPT ![w] = {}]
  /\ UNCHANGED <<clock, tracked, now, plan, batch, current, seen, result, aborts>>

GenerateSelect(w) ==
  /\ At(w, "generate")
  /\ Goto(w, "generating")
  /\ plan' = [plan EXCEPT ![w] =
       {[key |-> WindowKey(e), priority |-> Priority(e)] :
          e \in {f \in Events : /\ Due(f, now[w])
                                /\ jobs[WindowKey(f)].status = "NONE"
                                /\ ~HasActiveJob(f)}}]
  /\ UNCHANGED <<clock, database, now, expired, batch, current, seen, result, aborts>>

NewJob(priority, scheduled_at) ==
  [NoJob EXCEPT !.status = "PENDING", !.priority = priority,
                !.scheduled_at = scheduled_at]

PlannedJob(p, w) ==
  NewJob(p.priority, IF p.key.at = None THEN now[w] ELSE p.key.at)

\* The unique index on dedup_key lets the whole transaction in ...
GenerateCommit(w) ==
  /\ At(w, "generating")
  /\ \A p \in plan[w] : jobs[p.key].status = "NONE"
  /\ Goto(w, "claim")
  /\ jobs' = [k \in Keys |->
       IF \E p \in plan[w] : p.key = k
         THEN PlannedJob(CHOOSE p \in plan[w] : p.key = k, w)
         ELSE jobs[k]]
  /\ plan' = [plan EXCEPT ![w] = {}]
  /\ UNCHANGED <<clock, tracked, now, expired, batch, current, seen, result, aborts>>

\* ... or rejects it: the IntegrityError is not caught and ends the pass.
GenerateConflict(w) ==
  /\ At(w, "generating")
  /\ \E p \in plan[w] : jobs[p.key].status # "NONE"
  /\ Leave(w, "idle")
  /\ plan' = [plan EXCEPT ![w] = {}]
  /\ UNCHANGED <<clock, database, expired, batch, current, seen, result, aborts>>

Claimable(w) ==
  {k \in Keys : jobs[k].status = "PENDING" /\ jobs[k].scheduled_at <= now[w]}

\* At most Limit of the claimable jobs, most urgent first.
Selections(w) ==
  {S \in SUBSET Claimable(w) :
     /\ \/ S = Claimable(w) /\ Cardinality(S) <= Limit
        \/ Cardinality(S) = Limit
     /\ \A j \in S, k \in Claimable(w) \ S : ~Before(k, j)}

ClaimJobs(w) ==
  /\ At(w, "claim")
  /\ \E S \in Selections(w) :
       /\ jobs' = [k \in Keys |-> IF k \in S THEN Leased(jobs[k], w) ELSE jobs[k]]
       /\ batch' = [batch EXCEPT ![w] = S]
       /\ Leave(w, IF S = {} THEN "idle" ELSE "work")
  /\ UNCHANGED <<clock, tracked, expired, plan, current, seen, result, aborts>>

--------------------------------------------------------------------------------
(* One job: process_job.                                                   *)

\* The jobs of a batch are independent: the model takes them in any order.
BeginJob(w) ==
  /\ At(w, "work")
  /\ \E k \in batch[w] :
       /\ current' = [current EXCEPT ![w] = k]
       /\ batch' = [batch EXCEPT ![w] = @ \ {k}]
       /\ seen' = [seen EXCEPT ![w] = jobs[k].attempt_count]
  /\ Goto(w, "capture")
  /\ UNCHANGED <<clock, database, now, expired, plan, result, aborts>>

\* The awaited HTTP call.
Capture(w) ==
  /\ At(w, "capture")
  /\ Goto(w, "finish")
  /\ \E r \in Results : result' = [result EXCEPT ![w] = r]
  /\ UNCHANGED <<clock, database, now, expired, plan, batch, current, seen, aborts>>

\* Nothing reads the priority and the date of a finished job again.
Finished(job, status) ==
  [job EXCEPT !.status = status, !.lock_expires_at = None,
              !.priority = 0, !.scheduled_at = 0]

\* The closing transaction re-reads both rows and writes them without asking
\* whether the lease is still this worker's.
Finish(w, status, event, place) ==
  LET k == current[w]
  IN  /\ jobs' = [jobs EXCEPT ![k] = Finished(@, status)]
      /\ tracked' = [tracked EXCEPT ![k.event] = event]
      /\ current' = [current EXCEPT ![w] = IF place = "enrich" THEN @ ELSE None]
      /\ seen' = [seen EXCEPT ![w] = 0]
      /\ result' = [result EXCEPT ![w] = None]
      /\ Leave(w, place)
      /\ UNCHANGED <<clock, expired, plan, batch, aborts>>

Answered_PostEvent(event, next) ==
  [event EXCEPT !.next_capture_at = next, !.consecutive_failures = 0,
                !.status = IF next = None THEN "POST_EVENT" ELSE @]
Answered_NeverStops(event, next) ==
  [event EXCEPT !.next_capture_at = next, !.consecutive_failures = 0]

\* What the closing transaction makes of the event after an answer.
Answered(event, next) ==
  [event EXCEPT !.next_capture_at = next, !.consecutive_failures = 0,
                !.status = IF next = None THEN "STOPPED" ELSE @]

FinishPresent(w) ==
  LET event == tracked[current[w].event]
  IN  /\ At(w, "finish") /\ result[w] = "SUCCESS_RECORD_PRESENT"
      /\ \E next \in Cadence(now[w], event.status) :
           Finish(w, "SUCCEEDED",
                  Answered(event, next),
                  IF EnrichmentEffects = {} THEN NextPlace(w) ELSE "enrich")

FinishAbsent(w) ==
  LET event == tracked[current[w].event]
  IN  /\ At(w, "finish") /\ result[w] = "SUCCESS_RECORD_ABSENT"
      /\ \E next \in Cadence(now[w], event.status) :
           Finish(w, "SUCCEEDED", Answered(event, next), NextPlace(w))

FinishTerminal(w) ==
  LET event == tracked[current[w].event]
  IN  /\ At(w, "finish") /\ result[w] \notin SUCCESS
      /\ Terminal(result[w], seen[w])
      /\ Finish(w, "FAILED_TERMINAL",
                [event EXCEPT !.consecutive_failures = @ + 1, !.next_capture_at = None,
                              !.status = IF NeedsReview(result[w])
                                           THEN "NEEDS_REVIEW" ELSE "STOPPED"],
                NextPlace(w))

FinishRetryable(w) ==
  LET event == tracked[current[w].event]
  IN  /\ At(w, "finish") /\ result[w] \notin SUCCESS
      /\ ~Terminal(result[w], seen[w])
      /\ \E d \in RetryDelays(result[w], seen[w]) :
           Finish(w, "FAILED_RETRYABLE",
                  [event EXCEPT !.consecutive_failures = @ + 1,
                                !.next_capture_at = now[w] + d],
                  NextPlace(w))

--------------------------------------------------------------------------------
(* After the closing transaction: _apply_enrichment, best effort.          *)

Enrich(w, effect, event) ==
  /\ effect \in EnrichmentEffects
  /\ tracked' = [tracked EXCEPT ![current[w].event] = event]
  /\ current' = [current EXCEPT ![w] = None]
  /\ Leave(w, NextPlace(w))
  /\ UNCHANGED <<clock, jobs, expired, plan, batch, seen, result, aborts>>

\* The enricher failed, or found neither a new date nor a new status.
EnrichUnchanged(w) ==
  /\ At(w, "enrich")
  /\ Enrich(w, "unchanged", tracked[current[w].event])

\* The resolved city is not on the allow-list.
EnrichCityStop(w) ==
  /\ At(w, "enrich")
  /\ Enrich(w, "city_stop", [tracked[current[w].event] EXCEPT
                               !.status = "STOPPED", !.next_capture_at = None])

\* A resolved date or status moves the next capture of an active tracker,
\* possibly to never.
EnrichReschedule(w) ==
  /\ At(w, "enrich")
  /\ LET event == tracked[current[w].event]
     IN  /\ event.status = "ACTIVE"
         /\ \E next \in Cadence(now[w], event.status) :
              Enrich(w, "reschedule", [event EXCEPT !.next_capture_at = next])

--------------------------------------------------------------------------------
(* A targeted capture: capture_now.                                        *)

CaptureNowKey(e) ==
  [event |-> e, kind |-> "capture-now", at |-> clock \div MinuteLength]

CaptureNow(w, e) ==
  /\ At(w, "idle")
  /\ tracked[e].status # "UNTRACKED"
  /\ Goto(w, "claim_one")
  /\ now' = [now EXCEPT ![w] = clock]
  /\ current' = [current EXCEPT ![w] = CaptureNowKey(e)]
  /\ jobs' = IF jobs[CaptureNowKey(e)].status = "NONE"
               THEN [jobs EXCEPT ![CaptureNowKey(e)] = NewJob(CaptureNowPriority, clock)]
               ELSE jobs
  /\ UNCHANGED <<clock, tracked, expired, plan, batch, seen, result, aborts>>

ClaimSpecific_Again(w) ==
  LET k == current[w]
      won == jobs[k].status # "RUNNING"
  IN  /\ At(w, "claim_one")
      /\ jobs' = IF won THEN [jobs EXCEPT ![k] = Leased(@, w)] ELSE jobs
      /\ batch' = IF won THEN [batch EXCEPT ![w] = {k}] ELSE batch
      /\ current' = [current EXCEPT ![w] = None]
      /\ Leave(w, IF won THEN "work" ELSE "idle")
      /\ UNCHANGED <<clock, tracked, expired, plan, seen, result, aborts>>

\* _claim_specific: UPDATE ... WHERE id = :id AND status = 'PENDING'
ClaimSpecific(w) ==
  LET k == current[w]
      won == jobs[k].status = "PENDING"
  IN  /\ At(w, "claim_one")
      /\ jobs' = IF won THEN [jobs EXCEPT ![k] = Leased(@, w)] ELSE jobs
      /\ batch' = IF won THEN [batch EXCEPT ![w] = {k}] ELSE batch
      /\ current' = [current EXCEPT ![w] = None]
      /\ Leave(w, IF won THEN "work" ELSE "idle")
      /\ UNCHANGED <<clock, tracked, expired, plan, seen, result, aborts>>

--------------------------------------------------------------------------------
(* The environment.                                                        *)

\* Time passes whatever a pass still has to do: nothing renews a lease, and
\* nothing bounds the captures made under it.
Tick ==
  /\ clock < MaxTime
  /\ clock' = clock + 1
  /\ UNCHANGED <<database, pc, local, aborts>>

\* The process dies, or an exception the pass does not catch (an answer that
\* is no JSON, an error of the database) ends it; an open transaction rolls
\* back.  The bound on now keeps, before the clock stops, time for the lease
\* left behind to run out.
Abort(w) ==
  /\ pc[w] # "idle" /\ MayStep(w) /\ aborts < MaxAborts
  /\ LeaseEnd(w) < MaxTime
  /\ Leave(w, "idle")
  /\ expired' = [expired EXCEPT ![w] = {}]
  /\ plan' = [plan EXCEPT ![w] = {}]
  /\ batch' = [batch EXCEPT ![w] = {}]
  /\ current' = [current EXCEPT ![w] = None]
  /\ seen' = [seen EXCEPT ![w] = 0]
  /\ result' = [result EXCEPT ![w] = None]
  /\ aborts' = aborts + 1
  /\ UNCHANGED <<clock, database>>

--------------------------------------------------------------------------------
Advance(w) ==
  \/ RecoverSelect(w) \/ RecoverCommit(w)
  \/ GenerateSelect(w) \/ GenerateCommit(w) \/ GenerateConflict(w)
  \/ ClaimJobs(w) \/ ClaimSpecific(w)
  \/ BeginJob(w) \/ Capture(w)
  \/ FinishPresent(w) \/ FinishAbsent(w) \/ FinishTerminal(w) \/ FinishRetryable(w)
  \/ EnrichUnchanged(w) \/ EnrichCityStop(w) \/ EnrichReschedule(w)

Next ==
  \/ Tick
  \/ \E e \in Events : Enroll(e)
  \/ \E w \in Workers :
       \/ StartPass(w)
       \/ \E e \in OnDemand : CaptureNow(w, e)
       \/ Advance(w)
       \/ Abort(w)

Spec == Init /\ [][Next]_vars

(***************************************************************************)
(* collector_loop starts a pass every interval for ever, and the event     *)
(* loop, whose ready queue is first in first out, resumes a task whose     *)
(* await has ended; capture-now requests and enrollments need never come.  *)
(***************************************************************************)
Fairness ==
  /\ WF_vars(Tick)
  /\ \A w \in Workers : /\ WF_vars(StartPass(w))
                         /\ SF_vars(Advance(w))

FairSpec == Spec /\ Fairness

--------------------------------------------------------------------------------
(* Properties.                                                             *)

\* Two workers that both believe they own a job: the lease of one of them has
\* run out.  The claim is a compare-and-swap and recovery touches expired
\* leases only, so a lease protects its holder as long as it lasts.
LeaseExclusion ==
  \A v, w \in Workers : v # w =>
    \A k \in Held(v) \cap Held(w) : LeaseEnd(v) < clock \/ LeaseEnd(w) < clock

\* A worker has a job, an attempt and an answer at hand exactly where it needs
\* them, and nobody starts a pass with jobs left over from the one before.
AtHand ==
  \A w \in Workers :
    /\ pc[w] \in Processing \cup {"claim_one", "enrich"} => current[w] \in Keys
    /\ pc[w] \in Processing => seen[w] > 0
    /\ pc[w] = "finish" => result[w] \in ResultCodes
    /\ pc[w] \notin Processing \cup {"work", "enrich"} => batch[w] = {}
    /\ \A k \in Held(w) : jobs[k].status # "NONE" /\ jobs[k].attempt_count > 0

NowIsPast == \A w \in Workers : now[w] <= clock

\* Until a worker's lease runs out, each job it holds is finished or still
\* RUNNING under that lease.
UnderLease(job, end) ==
  \/ job.status \in DoneJobStatuses
  \/ job.status = "RUNNING" /\ job.lock_expires_at = end

LeaseKept ==
  \A w \in Workers : LeaseEnd(w) >= clock =>
    \A k \in Held(w) : UnderLease(jobs[k], LeaseEnd(w))

\* A recovery about to write has read nothing but leases that have run out.
RecoversExpired ==
  \A w \in Workers : pc[w] = "recovering" => \A k \in expired[w] :
    /\ jobs[k].status = "RUNNING"
    /\ jobs[k].lock_expires_at \in Nat /\ jobs[k].lock_expires_at < clock

\* The inductive invariant behind LeaseExclusion: what a lease protects, and
\* why nothing takes it away early.
LeaseInvariant == AtHand /\ NowIsPast /\ LeaseKept /\ RecoversExpired /\ LeaseExclusion

\* What ADR-0006 says without that proviso: overlapping workers never process
\* the same window twice.  A pass that outlives its lease refutes it.
NoDoubleProcessing ==
  \A v, w \in Workers : v # w => Held(v) \cap Held(w) = {}

\* A tracked event is scheduled at most once: never two active jobs for two
\* windows of one event.
OneActiveWindow ==
  \A j, k \in Keys :
    /\ j.event = k.event /\ j.kind = "window" /\ k.kind = "window"
    /\ jobs[j].status \in ActiveJobStatuses /\ jobs[k].status \in ActiveJobStatuses
    => j = k

\* An active tracker can always be captured again: the window it waits for has
\* no job yet, or an active job will write the next one.  Otherwise the
\* deduplication skips it in every later pass and nobody stops it either.
WindowStillOpen ==
  \A e \in Events : tracked[e].status = "ACTIVE" =>
    \/ HasActiveJob(e)
    \/ tracked[e].next_capture_at = None /\ jobs[WindowKey(e)].status = "NONE"
    \/ tracked[e].next_capture_at # None
       /\ (tracked[e].next_capture_at \in Windows => jobs[WindowKey(e)].status = "NONE")

\* A finished job is never made claimable again, not by a recovery that read
\* it as running, not by a second request, not by a late worker.
DoneStaysDone ==
  \A k \in Keys : jobs[k].status \in DoneJobStatuses => jobs'[k].status \in DoneJobStatuses

\* Nobody resurrects a stopped tracker or one in review, whatever a slower
\* worker still has to write.
RetiredStaysRetired ==
  \A e \in Events : tracked[e].status \in Retired => tracked'[e].status \in Retired

\* The same for any number of processes, which read a row in one statement and
\* write it in a later one: a recovery that read a job as running finds it
\* finished, a closing transaction finds its tracker given up by another
\* process, and neither makes undone what the other committed.
FinishedStaysFinished == [][DoneStaysDone /\ RetiredStaysRetired]_vars

\* Recovery takes a job only from a worker whose lease has run out.
ExpiredIsRecovered ==
  \A k \in Keys :
    jobs[k].status = "RUNNING" /\ jobs'[k].status = "PENDING" => jobs[k].lock_expires_at < clock

\* What is finished or given up stays so, and work under a lease is not taken
\* away, in every step of two workers, recoveries and requests.
NothingIsUndone == [][DoneStaysDone /\ RetiredStaysRetired /\ ExpiredIsRecovered]_vars

\* Every due event is captured or stopped, in spite of crashes and failures.
DueIsServed == \A e \in Events : Due(e, clock) ~> ~Due(e, clock)
================================================================================
