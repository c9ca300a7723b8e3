----------------------------- MODULE DemandScheduler -----------------------------
(***************************************************************************)
(* The demand queue of artist-intelligence-service: scheduler.py, the      *)
(* identities its jobs read and write (service.py), automatic onboarding   *)
(* (universe.py) and the loop that drives it (collector.py).               *)
(*                                                                         *)
(* A pass of the collector is ONE transaction around many awaited calls:   *)
(* it enqueues, claims a batch, executes the jobs one by one and commits.  *)
(* An exception outside of a job's execution loses the whole pass.         *)
(* Requests of operators are tasks of the same event loop whose statements *)
(* are synchronous: one that waits for a lock of the pass stops the loop.  *)
(* The transaction of a request is one step, at its end.                   *)
(* YouTube identities are the rows `rows`, by provider id: a channel, or   *)
(* the artist's slot for an undecided search.                              *)
(***************************************************************************)
EXTENDS Integers, FiniteSets

CONSTANTS
  Artists,
  Channels,          \* provider ids that the provider's answers may name
  Priority,          \* priority class of an artist's jobs, lower is first
  RefreshTypes,      \* the kinds of jobs that refresh a channel
  Every,             \* refresh interval, by job type
  RetryEvery,        \* youtube_identity_reattempt_*_seconds, by status
  Batch,             \* demand_scheduler_batch_size
  MaxAttempts,       \* demand_scheduler_max_attempts
  BackoffBase,       \* demand_scheduler_backoff_base_seconds
  BackoffCap,        \* demand_scheduler_backoff_max_seconds
  AutoOnboard,       \* artist_auto_onboard_enabled
  Registry,          \* sets of artists the registry of crawl-service may return
  Answers,           \* what the provider may answer
  Operator,          \* what operators may ask for
  MaxTime,           \* bound: the clock
  MaxCrashes         \* bound: restarts and database errors in a pass

VARIABLES
  now,
  jobs,       \* demand_refresh_job, by deduplication key
  rows,       \* artist_external_identity, by provider id
  paused,     \* artists whose watch targets are all paused
  pass,       \* what the collector is doing
  draftJobs,  \* rows the pass has written and not committed
  draftRows,
  hung,       \* the event loop waits for a lock of the pass
  crashes

draft == <<draftJobs, draftRows>>
vars == <<now, jobs, rows, paused, pass, draft, hung, crashes>>

--------------------------------------------------------------------------------
Undecided == {"AMBIGUOUS", "UNRESOLVED"}
Statuses == Undecided \cup {"RESOLVED", "REJECTED"}

\* pending_identity_id: the slot of an artist's undecided identity.
Pending(a) == <<"pending", a>>
Slots == {<<"channel", c>> : c \in Channels} \cup {Pending(a) : a \in Artists}

NoRow == [owner |-> "none", status |-> "absent"]
IdentityRows == {NoRow} \cup [owner : Artists, status : Statuses]

\* dedup_key: a window of a refresh, the one discovery, or a window of
\* another attempt at an undecided identity.  The windows of the two statuses
\* count intervals of different length and never bear the same number.
RefreshKey(a, t, w) == [artist |-> a, type |-> t, series |-> "refresh", window |-> w]
DiscoveryKey(a) == [artist |-> a, type |-> "identity", series |-> "once", window |-> 0]
ReattemptKey(a, s, w) == [artist |-> a, type |-> "identity", series |-> s, window |-> w]

Keys ==
  {k \in [artist : Artists, type : RefreshTypes, series : {"refresh"}, window : 0 .. MaxTime] :
     k.window <= MaxTime \div Every[k.type]}
  \cup {DiscoveryKey(a) : a \in Artists}
  \cup {k \in [artist : Artists, type : {"identity"}, series : Undecided, window : 0 .. MaxTime] :
          k.window <= MaxTime \div RetryEvery[k.series]}

NoKey == [artist |-> "none", type |-> "none", series |-> "none", window |-> 0]
NoSlot == <<"none", "none">>

Active == {"PENDING", "FAILED_RETRYABLE", "RUNNING"}
Finished == {"SUCCEEDED", "FAILED_TERMINAL"}

NoJob == [status |-> "none", at |-> 0, attempts |-> 0, failures |-> 0, result |-> "none"]
Jobs == [status : {"none"} \cup Active \cup Finished, at : 0 .. MaxTime + BackoffCap,
         attempts : 0 .. MaxAttempts, failures : 0 .. MaxAttempts,
         result : {"none", "OK", "RETRY", "QUOTA_EXHAUSTED", "MAX_ATTEMPTS",
                   "NO_RESOLVED_IDENTITY", "PROVIDER_ID_NOT_FOUND"}]

ASSUME DemandAssumption ==
  /\ IsFiniteSet(Artists) /\ IsFiniteSet(Channels) /\ "none" \notin Artists
  /\ Priority \in [Artists -> Nat]
  /\ "catalogue" \in RefreshTypes
  /\ RefreshTypes \subseteq {"channel", "video", "catalogue"}
  /\ Every \in [RefreshTypes -> Nat \ {0}]
  /\ RetryEvery \in [Undecided -> Nat \ {0}]
  /\ RetryEvery["UNRESOLVED"] < RetryEvery["AMBIGUOUS"]
  /\ Batch \in Nat \ {0} /\ MaxAttempts \in Nat \ {0}
  /\ BackoffBase \in Nat \ {0} /\ BackoffCap \in Nat /\ BackoffBase <= BackoffCap
  /\ \A n \in 0 .. MaxAttempts : 2 ^ n \in Nat  \* arithmetic, which provers lack
  /\ AutoOnboard \in BOOLEAN
  /\ Registry \subseteq SUBSET Artists /\ {} \in Registry
  /\ Answers \subseteq {"ok", "unavailable", "not_found", "resolved", "undecided", "quota"}
  /\ Operator \subseteq {"onboard", "hint", "pause"}
  /\ MaxTime \in Nat /\ MaxCrashes \in Nat

Off == [at |-> "off"]
Pass == [at : {"registry", "claim", "next", "call"}, clock : 0 .. MaxTime,
         idents : SUBSET (Slots \X [owner : Artists, status : Undecided]),
         todo : SUBSET Keys, job : Keys \cup {NoKey}, row : Slots \cup {NoSlot},
         booked : BOOLEAN]

\* The type invariant.  RUNNING is a status that no other session sees.
TypeOK ==
  /\ now \in 0 .. MaxTime
  /\ jobs \in [Keys -> {j \in Jobs : j.status # "RUNNING"}]
  /\ rows \in [Slots -> IdentityRows]
  /\ paused \subseteq Artists
  /\ pass \in {Off} \cup Pass
  /\ DOMAIN draftJobs \subseteq Keys /\ draftJobs \in [DOMAIN draftJobs -> Jobs]
  /\ DOMAIN draftRows \subseteq Slots /\ draftRows \in [DOMAIN draftRows -> IdentityRows]
  /\ hung \in BOOLEAN
  /\ crashes \in 0 .. MaxCrashes

Nothing == [x \in {} |-> NoJob]

Init ==
  /\ now = 0
  /\ jobs = [k \in Keys |-> NoJob]
  /\ rows = [s \in Slots |-> NoRow]
  /\ paused = {}
  /\ pass = Off
  /\ draftJobs = Nothing /\ draftRows = Nothing
  /\ hung = FALSE
  /\ crashes = 0

--------------------------------------------------------------------------------
(* What is stored, as the pass sees it and as others do.                   *)

Over(table, change) ==
  [x \in DOMAIN table |-> IF x \in DOMAIN change THEN change[x] ELSE table[x]]

\* A draft with some rows written, new or again.
With(change, new) ==
  [x \in DOMAIN change \cup DOMAIN new |-> IF x \in DOMAIN new THEN new[x] ELSE change[x]]

SeenJobs == Over(jobs, draftJobs)
SeenRows == Over(rows, draftRows)

OwnedBy(table, a, status) == {s \in Slots : table[s].owner = a /\ table[s].status \in status}
Resolved(table, a) == OwnedBy(table, a, {"RESOLVED"})

ActiveJobs(table, a, t) ==
  {k \in Keys : k.artist = a /\ k.type = t /\ table[k].status \in Active}

\* _active_exists; of two it raises (scalar_one_or_none).
ActiveExists(table, a, t) == ActiveJobs(table, a, t) # {}
ActiveRaises(table, a, t) == Cardinality(ActiveJobs(table, a, t)) > 1

Exists(table, k) == table[k].status # "none"

NewJob(t) == [NoJob EXCEPT !.status = "PENDING", !.at = t]
NewJobs(ks, t) == [k \in ks |-> NewJob(t)]

--------------------------------------------------------------------------------
(* The end of a job.                                                       *)

Succeeded(j) == [j EXCEPT !.status = "SUCCEEDED", !.result = "OK", !.failures = 0]
Terminal(j, code) == [j EXCEPT !.status = "FAILED_TERMINAL", !.result = code]

Backoff(n) ==
  IF BackoffBase * 2 ^ (n - 1) < BackoffCap THEN BackoffBase * 2 ^ (n - 1) ELSE BackoffCap

\* _fail: another attempt later, or the last one.
Failed(j, clock) ==
  LET counted == [j EXCEPT !.failures = @ + 1]
  IN IF j.attempts >= MaxAttempts
     THEN Terminal(counted, "MAX_ATTEMPTS")
     ELSE [counted EXCEPT !.status = "FAILED_RETRYABLE", !.result = "RETRY",
                          !.at = clock + Backoff(j.attempts)]

Deferred_Counted(j, clock) ==
  [j EXCEPT !.status = "PENDING", !.result = "QUOTA_EXHAUSTED", !.at = clock + BackoffBase]

Deferred_Now(j, clock) ==
  [j EXCEPT !.status = "PENDING", !.result = "QUOTA_EXHAUSTED", !.attempts = @ - 1]

\* _defer: the attempt is given back.
Deferred(j, clock) ==
  [j EXCEPT !.status = "PENDING", !.result = "QUOTA_EXHAUSTED", !.attempts = @ - 1,
            !.at = clock + BackoffBase]

--------------------------------------------------------------------------------
(* The loop.  A task runs until it awaits: nobody else moves while the     *)
(* pass is between two awaits.                                             *)

Awaiting == pass.at = "call" \/ (pass.at = "registry" /\ pass.idents # {})
OthersMayRun == ~hung /\ (pass = Off \/ Awaiting)
PassIsAt(place) == ~hung /\ pass.at = place

Abandon ==
  /\ pass' = Off
  /\ draftJobs' = Nothing /\ draftRows' = Nothing

UncommittedStays == UNCHANGED <<now, jobs, rows, paused, hung, crashes>>

\* backfill_missing_identities: a registered artist without a channel gets
\* its discovery, once.  Two active jobs of one artist end it early.
Backfill ==
  IF ~AutoOnboard THEN {{}}
  ELSE LET missing == {a \in Artists : Resolved(rows, a) = {} /\ ~ActiveExists(jobs, a, "identity")
                                       /\ ~Exists(jobs, DiscoveryKey(a))}
       IN UNION {IF \E a \in registered : Resolved(rows, a) = {} /\ ActiveRaises(jobs, a, "identity")
                 THEN SUBSET (missing \cap registered)
                 ELSE {missing \cap registered} : registered \in Registry}

DueWindows_Terminal ==
  {k \in Keys : /\ k.series = "refresh" /\ k.window = now \div Every[k.type]
                /\ k.artist \notin paused
                /\ Resolved(rows, k.artist) # {}
                /\ jobs[k].status \in {"none", "FAILED_TERMINAL"}}

\* enqueue_due: the windows without a job of every resolved artist.
DueWindows ==
  {k \in Keys : /\ k.series = "refresh" /\ k.window = now \div Every[k.type]
                /\ k.artist \notin paused
                /\ Resolved(rows, k.artist) # {}
                /\ ~Exists(jobs, k)}

\* An artist with two channels has every window added twice: the unique
\* index rejects the flush.
EnqueueRaises == \E k \in DueWindows : Cardinality(Resolved(rows, k.artist)) > 1

LiveIdentities == {i \in Slots \X (IdentityRows \ {NoRow}) :
                     i[2] = rows[i[1]] /\ i[2].status \in Undecided}

StartPass ==
  /\ ~hung /\ pass = Off
  /\ ~EnqueueRaises
  /\ \E onboarded \in Backfill :
       draftJobs' = NewJobs({DiscoveryKey(a) : a \in onboarded} \cup DueWindows, now)
  /\ pass' = [at |-> "registry", clock |-> now, idents |-> LiveIdentities, todo |-> {},
              job |-> NoKey, row |-> NoSlot, booked |-> FALSE]
  /\ UncommittedStays /\ UNCHANGED draftRows

\* The tick ends with an exception: nothing of it remains.
EnqueueFails ==
  /\ ~hung /\ pass = Off
  /\ EnqueueRaises
  /\ UNCHANGED vars

\* enqueue_identity_reattempts, from the rows read before the registry was
\* asked; an unavailable registry is one that knows nobody.
ReattemptOf(i) ==
  ReattemptKey(i[2].owner, i[2].status, pass.clock \div RetryEvery[i[2].status])

Eligible(registered) == {i \in pass.idents : i[2].owner \in registered \ paused}

Reattempted(registered) ==
  {i \in Eligible(registered) : /\ ~ActiveExists(SeenJobs, i[2].owner, "identity")
                                /\ ~Exists(SeenJobs, ReattemptOf(i))}

ReattemptRaises(registered) ==
  \/ \E i \in Eligible(registered) : ActiveRaises(SeenJobs, i[2].owner, "identity")
  \/ \E i, j \in Reattempted(registered) : i # j /\ ReattemptOf(i) = ReattemptOf(j)

Reattempt ==
  /\ PassIsAt("registry")
  /\ \E registered \in Registry :
       /\ ~ReattemptRaises(registered)
       /\ draftJobs' = With(draftJobs, NewJobs({ReattemptOf(i) : i \in Reattempted(registered)},
                                               pass.clock))
  /\ pass' = [pass EXCEPT !.at = "claim", !.idents = {}]
  /\ UncommittedStays /\ UNCHANGED draftRows

ReattemptFails ==
  /\ PassIsAt("registry")
  /\ \E registered \in Registry : ReattemptRaises(registered)
  /\ Abandon
  /\ UncommittedStays

\* claim: the most urgent of what is due.
Due(table, clock) ==
  {k \in Keys : table[k].status \in {"PENDING", "FAILED_RETRYABLE"} /\ table[k].at <= clock}

Before(k, l) ==
  \/ Priority[k.artist] < Priority[l.artist]
  \/ Priority[k.artist] = Priority[l.artist] /\ SeenJobs[k].at < SeenJobs[l].at

Claimed(j) == [j EXCEPT !.status = "RUNNING", !.attempts = @ + 1]

Claim ==
  /\ PassIsAt("claim")
  /\ LET due == Due(SeenJobs, pass.clock)
     IN \E batch \in SUBSET due :
          /\ Cardinality(batch) = IF Cardinality(due) < Batch THEN Cardinality(due) ELSE Batch
          /\ \A k \in batch, l \in due \ batch : ~Before(l, k)
          /\ draftJobs' = With(draftJobs, [k \in batch |-> Claimed(SeenJobs[k])])
          /\ pass' = [pass EXCEPT !.at = "next", !.todo = batch]
  /\ UncommittedStays /\ UNCHANGED draftRows

--------------------------------------------------------------------------------
(* Executing the claimed jobs.                                             *)

First(k) == k \in pass.todo /\ \A l \in pass.todo : ~Before(l, k)

\* The job k has come to its end, and so have the rows it wrote.
EndJob(k, job, new, written) ==
  /\ draftJobs' = With(draftJobs, With(NewJobs(new, pass.clock), [x \in {k} |-> job]))
  /\ draftRows' = With(draftRows, written)
  /\ pass' = [pass EXCEPT !.at = "next", !.todo = @ \ {k}, !.job = NoKey, !.row = NoSlot,
                          !.booked = @ \/ pass.at = "call"]
  /\ UncommittedStays

\* The job is about to wait for the provider; a refresh knows its channel.
BeginCall ==
  /\ PassIsAt("next")
  /\ \E k \in pass.todo :
       /\ First(k)
       /\ \E s \in IF k.type = "identity" THEN {NoSlot} ELSE Resolved(SeenRows, k.artist) :
            pass' = [pass EXCEPT !.at = "call", !.job = k, !.row = s]
  /\ UncommittedStays /\ UNCHANGED draft

\* A refresh of an artist whose channel is gone.
NoIdentity ==
  /\ PassIsAt("next")
  /\ \E k \in pass.todo :
       /\ First(k) /\ k.type # "identity" /\ Resolved(SeenRows, k.artist) = {}
       /\ EndJob(k, Terminal(SeenJobs[k], "NO_RESOLVED_IDENTITY"), {}, Nothing)

\* No search is left: the discovery waits, and nothing is called.
DeferIdentity ==
  /\ PassIsAt("next") /\ "quota" \in Answers
  /\ \E k \in pass.todo :
       /\ First(k) /\ k.type = "identity"
       /\ EndJob(k, Deferred(SeenJobs[k], pass.clock), {}, Nothing)

Called(answer, types) == PassIsAt("call") /\ answer \in Answers /\ pass.job.type \in types

\* An answer that does not come, or that cannot be used.
CallFails ==
  /\ Called("unavailable", RefreshTypes \cup {"identity"})
  /\ EndJob(pass.job, Failed(SeenJobs[pass.job], pass.clock), {}, Nothing)

Refreshed ==
  /\ Called("ok", RefreshTypes)
  /\ EndJob(pass.job, Succeeded(SeenJobs[pass.job]), {}, Nothing)

ChannelNotFound_Rejected ==
  /\ Called("not_found", {"channel", "catalogue"})
  /\ EndJob(pass.job, Terminal(SeenJobs[pass.job], "PROVIDER_ID_NOT_FOUND"), {},
            [s \in {pass.row} |-> [SeenRows[s] EXCEPT !.status = "REJECTED"]])

\* The provider no longer knows the channel: the identity is invalidated.
ChannelNotFound ==
  /\ Called("not_found", {"channel", "catalogue"})
  /\ EndJob(pass.job, Terminal(SeenJobs[pass.job], "PROVIDER_ID_NOT_FOUND"), {},
            [s \in {pass.row} |-> [SeenRows[s] EXCEPT !.status = "UNRESOLVED"]])

\* resolve_youtube, resolve_youtube_from_hint: the channel is the artist's,
\* whoever had it, and the undecided slot is closed.
ResolvedRows(table, a, s) ==
  With([p \in {Pending(a)} \cap {q \in Slots : table[q] # NoRow} |->
          [owner |-> a, status |-> "REJECTED"]],
       [x \in {s} |-> [owner |-> a, status |-> "RESOLVED"]])

CatalogueKey(a) == RefreshKey(a, "catalogue", pass.clock \div Every["catalogue"])

\* A search finds the artist's channel, which earns a catalogue; when two
\* catalogue jobs are active, asking for them fails the job.
IdentityResolved ==
  /\ Called("resolved", {"identity"})
  /\ \E c \in Channels :
       LET a == pass.job.artist
           job == SeenJobs[pass.job]
           wanted == ~ActiveExists(SeenJobs, a, "catalogue") /\ ~Exists(SeenJobs, CatalogueKey(a))
       IN EndJob(pass.job,
                 IF ActiveRaises(SeenJobs, a, "catalogue") THEN Failed(job, pass.clock)
                 ELSE Succeeded(job),
                 IF wanted THEN {CatalogueKey(a)} ELSE {},
                 ResolvedRows(SeenRows, a, <<"channel", c>>))

\* A search that decides nothing is a success, and the slot records it.
IdentityUndecided ==
  /\ Called("undecided", {"identity"})
  /\ \E status \in Undecided :
       EndJob(pass.job, Succeeded(SeenJobs[pass.job]), {},
              [s \in {Pending(pass.job.artist)} |->
                 [owner |-> pass.job.artist, status |-> status]])

Commit ==
  /\ PassIsAt("next") /\ pass.todo = {}
  /\ jobs' = SeenJobs /\ rows' = SeenRows
  /\ Abandon
  /\ UNCHANGED <<now, paused, hung, crashes>>

--------------------------------------------------------------------------------
(* Operators, who see what is committed, and the environment.              *)

WantsDiscovery(a) ==
  /\ Resolved(rows, a) = {}
  /\ ~ActiveExists(jobs, a, "identity") /\ ~Exists(jobs, DiscoveryKey(a))

Discover(a) ==
  IF WantsDiscovery(a) THEN [jobs EXCEPT ![DiscoveryKey(a)] = NewJob(now)] ELSE jobs

\* The insert would wait for the pass, which has inserted the same key.
InsertBlocked(a) == WantsDiscovery(a) /\ DiscoveryKey(a) \in DOMAIN draftJobs

\* A target is added to the watchlist without a hint: onboard_artist.
Onboard(a) ==
  /\ OthersMayRun /\ "onboard" \in Operator
  /\ WantsDiscovery(a) /\ ~InsertBlocked(a)
  /\ jobs' = Discover(a)
  /\ UNCHANGED <<now, rows, paused, pass, draft, hung, crashes>>

\* resolve_target with a hint: the artist is onboarded, then its channel is
\* verified and set.  Booking the call needs the quota row.
ResolveHint(a) ==
  /\ OthersMayRun /\ "hint" \in Operator
  /\ ~InsertBlocked(a) /\ (pass # Off => ~pass.booked)
  /\ ~ActiveRaises(jobs, a, "identity") \/ Resolved(rows, a) # {}
  /\ \E c \in Channels : rows' = Over(rows, ResolvedRows(rows, a, <<"channel", c>>))
  /\ jobs' = Discover(a)
  /\ UNCHANGED <<now, paused, pass, draft, hung, crashes>>

\* A statement of an operator waits for the pass, in the thread of the pass.
Hang(a) ==
  /\ OthersMayRun
  /\ \/ Operator \cap {"onboard", "hint"} # {} /\ InsertBlocked(a)
     \/ "hint" \in Operator /\ pass # Off /\ pass.booked
  /\ hung' = TRUE
  /\ UNCHANGED <<now, jobs, rows, paused, pass, draft, crashes>>

\* pause_target, resume_target.
Pause(a) ==
  /\ OthersMayRun /\ "pause" \in Operator
  /\ paused' = IF a \in paused THEN paused \ {a} ELSE paused \cup {a}
  /\ UNCHANGED <<now, jobs, rows, pass, draft, hung, crashes>>

\* A restart of the process, or an error of the database inside the pass.
Crash ==
  /\ pass # Off
  /\ crashes < MaxCrashes
  /\ crashes' = crashes + 1
  /\ hung' = FALSE
  /\ Abandon
  /\ UNCHANGED <<now, jobs, rows, paused>>

Tick ==
  /\ now < MaxTime
  /\ pass = Off \/ Awaiting
  /\ now' = now + 1
  /\ UNCHANGED <<jobs, rows, paused, pass, draft, hung, crashes>>

Collect ==
  \/ StartPass \/ Reattempt \/ ReattemptFails \/ Claim \/ BeginCall \/ NoIdentity \/ DeferIdentity
  \/ CallFails \/ Refreshed \/ ChannelNotFound \/ IdentityResolved \/ IdentityUndecided
  \/ Commit

Next ==
  \/ Collect \/ EnqueueFails
  \/ \E a \in Artists : Onboard(a) \/ ResolveHint(a) \/ Hang(a) \/ Pause(a)
  \/ Crash \/ Tick

\* The loop goes on as long as the process does, and every call is answered
\* or times out.
Spec == Init /\ [][Next]_vars /\ WF_vars(Collect)

--------------------------------------------------------------------------------
(* Properties.                                                             *)

\* The retry budget pays for failures only: neither a deferral nor a crash
\* nor a lost pass costs an attempt, and a job is given up as exhausted only
\* after MaxAttempts failures (scheduler.py: _fail, _defer, claim).
OnlyFailuresCount ==
  \A k \in Keys :
    /\ jobs[k].status \in Active => jobs[k].attempts = jobs[k].failures
    /\ jobs[k].result = "MAX_ATTEMPTS" => jobs[k].failures = MaxAttempts

\* A window that was collected, or given up, is never worked on again: the
\* deduplication key outlives its job (scheduler.py: _exists, claim).
WindowsAreFinal ==
  [][\A k \in Keys : jobs[k].status \in Finished => jobs'[k] = jobs[k]]_vars

SeveralChannels == \E a \in Artists : Cardinality(Resolved(rows, a)) > 1
SeveralAttempts ==
  \E a \in Artists :
    \/ Cardinality(OwnedBy(rows, a, Undecided)) > 1
    \/ ActiveRaises(jobs, a, "identity")

\* The rows on which the two enqueueing steps trip over their own inserts.
Jammed == SeveralChannels \/ SeveralAttempts

Claimable(k) == k \in Due(jobs, now)

\* Every due job is executed in the end, for as long as no artist has two
\* resolved or two undecided identities and no request of an operator has
\* stopped the loop (scheduler.py: run_once; collector.py: collector_loop).
DueIsExecuted == \A k \in Keys : Claimable(k) ~> (~Claimable(k) \/ Jammed \/ hung)

\* One job's failure is isolated from the rest, and a tick's error never
\* stops the loop (scheduler.py, collector.py): due jobs are executed
\* whatever the identities of an artist look like.
FailuresAreIsolated == \A k \in Keys : Claimable(k) ~> (~Claimable(k) \/ hung)

\* An artist whose discovery was queued stays followed: it has a channel, an
\* undecided identity that is tried again, or a search to come.  It is lost
\* only when its searches kept failing, or its channel went to another artist
\* (universe.py: backfill_missing_identities; scheduler.py:
\* enqueue_identity_discovery, enqueue_identity_reattempts).
Followed(a) ==
  OwnedBy(rows, a, Undecided \cup {"RESOLVED"}) # {} \/ ActiveJobs(jobs, a, "identity") # {}

OnboardedIsFollowed ==
  \A a \in Artists :
    Exists(jobs, DiscoveryKey(a)) /\ ~Followed(a) =>
      \/ \E k \in Keys : k.artist = a /\ k.type = "identity" /\ jobs[k].result = "MAX_ATTEMPTS"
      \/ \E s \in Slots : s[1] = "channel" /\ rows[s].owner \notin {a, "none"}

\* Searches of an artist do not pile up: two are ahead only when one pass
\* found it ambiguous in one row and unresolved in another
\* (scheduler.py: _active_exists before every kind of search).
OneSearchAhead ==
  \A a \in Artists : \A k, l \in ActiveJobs(jobs, a, "identity") :
    k # l => {k.series, l.series} = Undecided

\* The stored queue is one that only committed passes wrote, with attempts
\* spent on failures and no search beyond the next of an artist.
QueueIsSound == TypeOK /\ OnlyFailuresCount /\ OneSearchAhead
==================================================================================
