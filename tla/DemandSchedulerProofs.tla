------------------------- MODULE DemandSchedulerProofs -------------------------
(***************************************************************************)
(* Theorems about DemandScheduler, for every value of its constants: the   *)
(* stored queue is sound, a finished window is final, an onboarded artist  *)
(* stays followed.  Each holds of what is stored because it also holds of  *)
(* what the pass sees, its own draft over the stored rows, whatever the    *)
(* requests of operators do to those in the meantime.                      *)
(***************************************************************************)
EXTENDS DemandScheduler, FiniteSetTheorems, TLAPS

USE DemandAssumption

--------------------------------------------------------------------------------
(* Keys and rows.                                                          *)

LEMMA DivIsMonotone ==
  ASSUME NEW m \in Nat, NEW n \in Nat, m <= n, NEW d \in Nat \ {0}
  PROVE  m \div d \in Nat /\ m \div d <= n \div d /\ m \div d <= m
<1>. DEFINE p == m \div d
            q == n \div d
<1>1. p \in Int /\ q \in Int /\ m = d * p + (m % d) /\ n = d * q + (n % d)
  OBVIOUS
<1>2. m % d \in 0 .. (d - 1) /\ n % d \in 0 .. (d - 1)
  OBVIOUS
<1>3. p >= 0
  BY <1>1, <1>2
<1>4. p <= q
  BY <1>1, <1>2
<1>5. p <= m
  BY <1>1, <1>2, <1>3
<1>. QED
  BY <1>1, <1>3, <1>4, <1>5

LEMMA KeyTypes ==
  ASSUME NEW a \in Artists, NEW t \in 0 .. MaxTime
  PROVE  /\ DiscoveryKey(a) \in Keys
         /\ RefreshKey(a, "catalogue", t \div Every["catalogue"]) \in Keys
         /\ \A s \in Undecided : ReattemptKey(a, s, t \div RetryEvery[s]) \in Keys
<1>0. t \in Nat /\ t <= MaxTime
  OBVIOUS
<1>1. DiscoveryKey(a) \in Keys
  BY DEF DiscoveryKey, Keys
<1>2. RefreshKey(a, "catalogue", t \div Every["catalogue"]) \in Keys
  <2>. DEFINE w == t \div Every["catalogue"]
  <2>1. Every["catalogue"] \in Nat \ {0}
    OBVIOUS
  <2>2. w \in Nat /\ w <= MaxTime \div Every["catalogue"] /\ w <= t
    BY <1>0, <2>1, DivIsMonotone
  <2>. HIDE DEF w
  <2>3. w \in 0 .. MaxTime
    BY <1>0, <2>2
  <2>. QED
    BY <2>2, <2>3 DEF RefreshKey, Keys, w
<1>3. ASSUME NEW s \in Undecided PROVE ReattemptKey(a, s, t \div RetryEvery[s]) \in Keys
  <2>. DEFINE w == t \div RetryEvery[s]
  <2>1. RetryEvery[s] \in Nat \ {0}
    OBVIOUS
  <2>2. w \in Nat /\ w <= MaxTime \div RetryEvery[s] /\ w <= t
    BY <1>0, <2>1, DivIsMonotone
  <2>. HIDE DEF w
  <2>3. w \in 0 .. MaxTime
    BY <1>0, <2>2
  <2>. QED
    BY <2>2, <2>3 DEF ReattemptKey, Keys, w
<1>. QED
  BY <1>1, <1>2, <1>3

LEMMA NewJobFacts ==
  ASSUME NEW t \in 0 .. MaxTime
  PROVE  /\ NewJob(t) \in Jobs /\ NewJob(t).status = "PENDING" /\ NewJob(t).result = "none"
         /\ NewJob(t).attempts = 0 /\ NewJob(t).failures = 0
<1>1. NewJob(t) = [status |-> "PENDING", at |-> t, attempts |-> 0, failures |-> 0,
                   result |-> "none"]
  <2>1. NoJob = [status |-> "none", at |-> 0, attempts |-> 0, failures |-> 0,
                 result |-> "none"]
    BY DEF NoJob
  <2>2. PICK j : j = NoJob
    OBVIOUS
  <2>3. PICK e : e = [j EXCEPT !.status = "PENDING", !.at = t]
    OBVIOUS
  <2>4. e = [status |-> "PENDING", at |-> t, attempts |-> 0, failures |-> 0, result |-> "none"]
    BY <2>1, <2>2, <2>3
  <2>. QED
    BY <2>2, <2>3, <2>4 DEF NewJob
<1>2. t \in 0 .. MaxTime + BackoffCap /\ 0 \in 0 .. MaxAttempts
  OBVIOUS
<1>. QED
  BY <1>1, <1>2 DEF Jobs, Active

LEMMA BackoffType ==
  ASSUME NEW n \in 1 .. MaxAttempts
  PROVE  Backoff(n) \in 0 .. BackoffCap
<1>1. 2 ^ (n - 1) \in Nat
  <2>1. n - 1 \in 0 .. MaxAttempts
    OBVIOUS
  <2>. QED
    BY <2>1
<1>2. ASSUME NEW x \in Nat PROVE BackoffBase * x \in Nat
  OBVIOUS
<1>3. BackoffBase * 2 ^ (n - 1) \in Nat
  BY <1>1, <1>2
<1>. QED
  BY <1>3 DEF Backoff

\* A job on its way: attempts are spent on failures, but for the one under way.
JobIsSound(j) ==
  /\ j.status \in {"PENDING", "FAILED_RETRYABLE"} =>
       j.attempts = j.failures /\ j.attempts < MaxAttempts
  /\ j.status = "RUNNING" => j.attempts = j.failures + 1
  /\ j.result = "MAX_ATTEMPTS" => j.status = "FAILED_TERMINAL" /\ j.failures = MaxAttempts

LEMMA JobFields ==
  ASSUME NEW j \in Jobs
  PROVE  /\ j.status \in {"none"} \cup Active \cup Finished
         /\ j.attempts \in 0 .. MaxAttempts /\ j.failures \in 0 .. MaxAttempts
         /\ j = [status |-> j.status, at |-> j.at, attempts |-> j.attempts,
                 failures |-> j.failures, result |-> j.result]
BY DEF Jobs

\* What the end of a running job makes of it.
LEMMA JobEnds ==
  ASSUME NEW j \in Jobs, JobIsSound(j), j.status = "RUNNING", NEW clock \in 0 .. MaxTime,
         NEW e, \/ e = Succeeded(j) \/ e = Failed(j, clock) \/ e = Deferred(j, clock)
                \/ \E code \in {"NO_RESOLVED_IDENTITY", "PROVIDER_ID_NOT_FOUND"} :
                     e = Terminal(j, code)
  PROVE  /\ e \in Jobs /\ JobIsSound(e) /\ e.status \notin {"none", "RUNNING"}
         /\ e = Failed(j, clock) \/ e = Deferred(j, clock) =>
              e.status \in Active \/ e.result = "MAX_ATTEMPTS"
<1>0. /\ j.attempts = j.failures + 1 /\ j.attempts \in Nat /\ j.failures \in Nat
      /\ j.attempts <= MaxAttempts /\ j.at \in 0 .. MaxTime + BackoffCap
      /\ j = [status |-> j.status, at |-> j.at, attempts |-> j.attempts,
              failures |-> j.failures, result |-> j.result]
  BY JobFields DEF JobIsSound, Jobs
<1>1. ASSUME e = Succeeded(j)
      PROVE  e \in Jobs /\ JobIsSound(e) /\ e.status \notin {"none", "RUNNING"}
  <2>1. e = [status |-> "SUCCEEDED", at |-> j.at, attempts |-> j.attempts, failures |-> 0,
             result |-> "OK"]
    BY <1>0, <1>1 DEF Succeeded
  <2>. QED
    BY <1>0, <1>1, <2>1 DEF Jobs, JobIsSound, Finished
<1>2. ASSUME NEW code \in {"NO_RESOLVED_IDENTITY", "PROVIDER_ID_NOT_FOUND"}, e = Terminal(j, code)
      PROVE  e \in Jobs /\ JobIsSound(e) /\ e.status \notin {"none", "RUNNING"}
  <2>1. e = [status |-> "FAILED_TERMINAL", at |-> j.at, attempts |-> j.attempts,
             failures |-> j.failures, result |-> code]
    BY <1>0, <1>2 DEF Terminal
  <2>. QED
    BY <1>0, <2>1 DEF Jobs, JobIsSound, Finished
<1>3. CASE e = Deferred(j, clock)
  <2>1. e = [status |-> "PENDING", at |-> clock + BackoffBase, attempts |-> j.attempts - 1,
             failures |-> j.failures, result |-> "QUOTA_EXHAUSTED"]
    BY <1>0, <1>3 DEF Deferred
  <2>2. clock + BackoffBase \in 0 .. MaxTime + BackoffCap /\ j.attempts - 1 \in 0 .. MaxAttempts
    BY <1>0
  <2>. QED
    BY <1>0, <2>1, <2>2 DEF Jobs, JobIsSound, Active
<1>4. CASE e = Failed(j, clock) /\ j.attempts >= MaxAttempts
  <2>1. e = [status |-> "FAILED_TERMINAL", at |-> j.at, attempts |-> j.attempts,
             failures |-> j.failures + 1, result |-> "MAX_ATTEMPTS"]
    BY <1>0, <1>4 DEF Failed, Terminal
  <2>2. j.failures + 1 = MaxAttempts
    BY <1>0, <1>4
  <2>. QED
    BY <1>0, <2>1, <2>2 DEF Jobs, JobIsSound, Finished
<1>5. CASE e = Failed(j, clock) /\ ~(j.attempts >= MaxAttempts)
  <2>1. e = [status |-> "FAILED_RETRYABLE", at |-> clock + Backoff(j.attempts),
             attempts |-> j.attempts, failures |-> j.failures + 1, result |-> "RETRY"]
    BY <1>0, <1>5 DEF Failed
  <2>2. Backoff(j.attempts) \in 0 .. BackoffCap
    BY <1>0, BackoffType
  <2>3. clock + Backoff(j.attempts) \in 0 .. MaxTime + BackoffCap
    BY <2>2
  <2>. QED
    BY <1>0, <1>5, <2>1, <2>3 DEF Jobs, JobIsSound, Active
<1>. QED
  BY <1>1, <1>2, <1>3, <1>4, <1>5

\* A job that is claimed.
LEMMA JobStarts ==
  ASSUME NEW j \in Jobs, JobIsSound(j), j.status \in {"PENDING", "FAILED_RETRYABLE"}
  PROVE  Claimed(j) \in Jobs /\ JobIsSound(Claimed(j)) /\ Claimed(j).status = "RUNNING"
<1>1. /\ j.attempts = j.failures /\ j.attempts < MaxAttempts /\ j.attempts \in Nat
      /\ j.at \in 0 .. MaxTime + BackoffCap /\ j.result # "MAX_ATTEMPTS"
      /\ j = [status |-> j.status, at |-> j.at, attempts |-> j.attempts,
              failures |-> j.failures, result |-> j.result]
  BY JobFields DEF JobIsSound, Jobs
<1>2. Claimed(j) = [status |-> "RUNNING", at |-> j.at, attempts |-> j.attempts + 1,
                    failures |-> j.failures, result |-> j.result]
  <2>1. PICK e : e = Claimed(j)
    OBVIOUS
  <2>2. e = [status |-> "RUNNING", at |-> j.at, attempts |-> j.attempts + 1,
             failures |-> j.failures, result |-> j.result]
    BY <1>1, <2>1 DEF Claimed
  <2>. QED
    BY <2>1, <2>2
<1>3. j.attempts + 1 \in 0 .. MaxAttempts
  BY <1>1
<1>. QED
  BY <1>1, <1>2, <1>3 DEF Jobs, JobIsSound, Active

--------------------------------------------------------------------------------
(* The draft.                                                              *)

LEMMA SeenAfter ==
  ASSUME TypeOK, NEW new, DOMAIN new \subseteq Keys, NEW written, DOMAIN written \subseteq Slots,
         draftJobs' = With(draftJobs, new), draftRows' = With(draftRows, written),
         UNCHANGED <<jobs, rows>>
  PROVE  /\ DOMAIN draftJobs' = DOMAIN draftJobs \cup DOMAIN new
         /\ DOMAIN draftRows' = DOMAIN draftRows \cup DOMAIN written
         /\ \A k \in DOMAIN new : draftJobs'[k] = new[k]
         /\ \A k \in DOMAIN draftJobs \ DOMAIN new : draftJobs'[k] = draftJobs[k]
         /\ \A s \in DOMAIN written : draftRows'[s] = written[s]
         /\ \A s \in DOMAIN draftRows \ DOMAIN written : draftRows'[s] = draftRows[s]
         /\ SeenJobs' = [k \in Keys |-> IF k \in DOMAIN new THEN new[k] ELSE SeenJobs[k]]
         /\ SeenRows' = [s \in Slots |-> IF s \in DOMAIN written THEN written[s] ELSE SeenRows[s]]
<1>1. DOMAIN jobs = Keys /\ DOMAIN rows = Slots
  BY DEF TypeOK
<1>2. /\ DOMAIN draftJobs' = DOMAIN draftJobs \cup DOMAIN new
      /\ \A k \in DOMAIN new : draftJobs'[k] = new[k]
      /\ \A k \in DOMAIN draftJobs \ DOMAIN new : draftJobs'[k] = draftJobs[k]
  BY DEF With
<1>3. /\ DOMAIN draftRows' = DOMAIN draftRows \cup DOMAIN written
      /\ \A s \in DOMAIN written : draftRows'[s] = written[s]
      /\ \A s \in DOMAIN draftRows \ DOMAIN written : draftRows'[s] = draftRows[s]
  BY DEF With
<1>4. SeenJobs' = [k \in Keys |-> IF k \in DOMAIN new THEN new[k] ELSE SeenJobs[k]]
  BY <1>1, <1>2 DEF SeenJobs, Over
<1>5. SeenRows' = [s \in Slots |-> IF s \in DOMAIN written THEN written[s] ELSE SeenRows[s]]
  BY <1>1, <1>3 DEF SeenRows, Over
<1>. QED
  BY <1>2, <1>3, <1>4, <1>5

LEMMA SeenTypes ==
  ASSUME TypeOK
  PROVE  /\ SeenJobs \in [Keys -> Jobs] /\ SeenRows \in [Slots -> IdentityRows]
         /\ \A k \in Keys : SeenJobs[k] = IF k \in DOMAIN draftJobs THEN draftJobs[k] ELSE jobs[k]
         /\ \A s \in Slots : SeenRows[s] = IF s \in DOMAIN draftRows THEN draftRows[s] ELSE rows[s]
<1>1. /\ DOMAIN jobs = Keys /\ \A k \in Keys : jobs[k] \in Jobs
      /\ \A k \in DOMAIN draftJobs : draftJobs[k] \in Jobs
  BY DEF TypeOK
<1>2. /\ DOMAIN rows = Slots /\ \A s \in Slots : rows[s] \in IdentityRows
      /\ \A s \in DOMAIN draftRows : draftRows[s] \in IdentityRows
  BY DEF TypeOK
<1>3. SeenJobs = [k \in Keys |-> IF k \in DOMAIN draftJobs THEN draftJobs[k] ELSE jobs[k]]
  BY <1>1 DEF SeenJobs, Over
<1>4. SeenRows = [s \in Slots |-> IF s \in DOMAIN draftRows THEN draftRows[s] ELSE rows[s]]
  BY <1>2 DEF SeenRows, Over
<1>. QED
  BY <1>1, <1>2, <1>3, <1>4

--------------------------------------------------------------------------------
(* The draft of a pass is its own: no job in it was finished before, the   *)
(* running ones are those it has still to execute, and it holds no         *)
(* identities before the first call was booked.                            *)

PassIsSound ==
  /\ pass.todo \subseteq DOMAIN draftJobs
  /\ pass.at \in {"registry", "claim"} => pass.todo = {}
  /\ pass.at = "call" =>
       /\ pass.job \in pass.todo
       /\ pass.job.type # "identity" => pass.row \in Slots /\ SeenRows[pass.row].owner \in Artists
  /\ ~pass.booked => DOMAIN draftRows = {}

DraftIsSound ==
  /\ pass = Off => DOMAIN draftJobs = {} /\ DOMAIN draftRows = {}
  /\ pass # Off => PassIsSound
  /\ \A k \in DOMAIN draftJobs :
       /\ jobs[k].status \notin Finished
       /\ draftJobs[k].status # "none"
       /\ draftJobs[k].status = "RUNNING" <=> pass # Off /\ k \in pass.todo
       /\ JobIsSound(draftJobs[k])
  /\ \A k \in Keys : JobIsSound(jobs[k])

SoundInv == TypeOK /\ DraftIsSound

LEMMA PassFields ==
  ASSUME TypeOK, pass # Off
  PROVE  /\ pass \in Pass
         /\ pass.at \in {"registry", "claim", "next", "call"} /\ pass.clock \in 0 .. MaxTime
         /\ pass.idents \subseteq Slots \X [owner : Artists, status : Undecided]
         /\ pass.todo \subseteq Keys /\ pass.job \in Keys \cup {NoKey}
         /\ pass.row \in Slots \cup {NoSlot} /\ pass.booked \in BOOLEAN
BY DEF TypeOK, Pass

LEMMA PassIsOn == pass.at \in {"registry", "claim", "next", "call"} => pass # Off
BY DEF Off

LEMMA PassNotOff == \A p \in Pass : p # Off
BY DEF Pass, Off

\* A job the pass has claimed and not executed.
LEMMA TodoIsRunning ==
  ASSUME SoundInv, pass # Off, NEW k \in pass.todo
  PROVE  /\ k \in Keys /\ k \in DOMAIN draftJobs
         /\ SeenJobs[k] \in Jobs /\ JobIsSound(SeenJobs[k]) /\ SeenJobs[k].status = "RUNNING"
         /\ jobs[k].status \notin Finished
<1>1. k \in Keys /\ k \in DOMAIN draftJobs
  BY PassFields DEF SoundInv, DraftIsSound, PassIsSound
<1>2. SeenJobs[k] = draftJobs[k] /\ SeenJobs[k] \in Jobs
  BY <1>1, SeenTypes DEF SoundInv
<1>. QED
  BY <1>1, <1>2 DEF SoundInv, DraftIsSound

\* A step that writes into the draft and moves the pass on.
LEMMA DraftStep ==
  ASSUME SoundInv, NEW new, DOMAIN new \subseteq Keys,
         NEW written, DOMAIN written \subseteq Slots,
         draftJobs' = With(draftJobs, new), draftRows' = With(draftRows, written),
         UncommittedStays,
         pass' \in Pass,
         \A k \in DOMAIN new :
           /\ new[k] \in Jobs /\ JobIsSound(new[k]) /\ new[k].status # "none"
           /\ new[k].status = "RUNNING" <=> k \in pass'.todo
           /\ jobs[k].status \notin Finished,
         \A k \in DOMAIN draftJobs \ DOMAIN new :
           k \in pass'.todo <=> pass # Off /\ k \in pass.todo,
         \A s \in DOMAIN written : written[s] \in IdentityRows,
         pass'.todo \subseteq DOMAIN draftJobs \cup DOMAIN new,
         pass'.at \in {"registry", "claim"} => pass'.todo = {},
         pass'.at # "call",
         ~pass'.booked => DOMAIN written = {} /\ (pass # Off => ~pass.booked)
  PROVE  SoundInv'
<1>. USE DEF SoundInv
<1>1. /\ DOMAIN draftJobs' = DOMAIN draftJobs \cup DOMAIN new
      /\ DOMAIN draftRows' = DOMAIN draftRows \cup DOMAIN written
      /\ \A k \in DOMAIN new : draftJobs'[k] = new[k]
      /\ \A k \in DOMAIN draftJobs \ DOMAIN new : draftJobs'[k] = draftJobs[k]
      /\ \A s \in DOMAIN written : draftRows'[s] = written[s]
      /\ \A s \in DOMAIN draftRows \ DOMAIN written : draftRows'[s] = draftRows[s]
  BY SeenAfter DEF UncommittedStays
<1>2. draftJobs' = [k \in DOMAIN draftJobs' |-> draftJobs'[k]]
      /\ draftRows' = [s \in DOMAIN draftRows' |-> draftRows'[s]]
  BY DEF With
<1>3. /\ \A k \in DOMAIN draftJobs : draftJobs[k] \in Jobs
      /\ \A s \in DOMAIN draftRows : draftRows[s] \in IdentityRows
      /\ DOMAIN draftJobs \subseteq Keys /\ DOMAIN draftRows \subseteq Slots
  BY DEF TypeOK
<1>4. \A k \in DOMAIN draftJobs' : draftJobs'[k] \in Jobs
  BY <1>1, <1>3
<1>5. \A s \in DOMAIN draftRows' : draftRows'[s] \in IdentityRows
  BY <1>1, <1>3
<1>6. draftJobs' \in [DOMAIN draftJobs' -> Jobs] /\ draftRows' \in [DOMAIN draftRows' -> IdentityRows]
  BY <1>2, <1>4, <1>5
<1>7. TypeOK'
  BY <1>1, <1>3, <1>6 DEF TypeOK, UncommittedStays
<1>8. pass' # Off
  BY PassNotOff
<1>9. PassIsSound'
  <2>1. ~pass'.booked => DOMAIN draftRows' = {}
    BY <1>1 DEF DraftIsSound, PassIsSound
  <2>. QED
    BY <1>1, <2>1 DEF PassIsSound
<1>10. ASSUME NEW k \in DOMAIN draftJobs'
       PROVE  /\ jobs'[k].status \notin Finished
              /\ draftJobs'[k].status # "none"
              /\ draftJobs'[k].status = "RUNNING" <=> k \in pass'.todo
              /\ JobIsSound(draftJobs'[k])
  <2>1. CASE k \in DOMAIN new
    BY <1>1, <2>1 DEF UncommittedStays
  <2>2. CASE k \in DOMAIN draftJobs \ DOMAIN new
    BY <1>1, <2>2 DEF UncommittedStays, DraftIsSound
  <2>. QED
    BY <1>1, <2>1, <2>2
<1>11. \A k \in Keys : JobIsSound(jobs'[k])
  BY DEF UncommittedStays, DraftIsSound
<1>. QED
  BY <1>7, <1>8, <1>9, <1>10, <1>11 DEF DraftIsSound, JobIsSound

\* A step that ends a job and adds new ones.
LEMMA EndJobStep ==
  ASSUME SoundInv, pass.at \in {"next", "call"}, NEW k \in pass.todo,
         NEW job \in Jobs, JobIsSound(job), job.status \notin {"none", "RUNNING"},
         NEW ks \in SUBSET Keys, \A x \in ks : ~Exists(SeenJobs, x),
         NEW written, DOMAIN written \subseteq Slots, pass.at = "call" \/ DOMAIN written = {},
         \A s \in DOMAIN written : written[s] \in IdentityRows,
         EndJob(k, job, ks, written)
  PROVE  SoundInv'
<1>. USE DEF SoundInv
<1>0. pass # Off /\ pass.clock \in 0 .. MaxTime /\ pass.todo \subseteq DOMAIN draftJobs
  BY PassIsOn, PassFields DEF DraftIsSound, PassIsSound
<1>1. PICK new : new = With(NewJobs(ks, pass.clock), [x \in {k} |-> job])
  OBVIOUS
<1>2. /\ DOMAIN new = ks \cup {k}
      /\ new[k] = job /\ \A x \in ks \ {k} : new[x] = NewJob(pass.clock)
  BY <1>1 DEF With, NewJobs
<1>3. /\ draftJobs' = With(draftJobs, new) /\ draftRows' = With(draftRows, written)
      /\ UncommittedStays
      /\ pass' = [pass EXCEPT !.at = "next", !.todo = @ \ {k}, !.job = NoKey, !.row = NoSlot,
                              !.booked = @ \/ pass.at = "call"]
  BY <1>1 DEF EndJob
<1>4. /\ pass' \in Pass /\ pass'.at = "next" /\ pass'.todo = pass.todo \ {k}
      /\ pass'.booked <=> pass.booked \/ pass.at = "call"
  BY <1>0, <1>3, PassFields DEF Pass
<1>5. k \in Keys /\ k \in DOMAIN draftJobs /\ jobs[k].status \notin Finished
  BY <1>0, TodoIsRunning
<1>6. ASSUME NEW x \in ks
      PROVE  x \notin DOMAIN draftJobs /\ jobs[x].status \notin Finished /\ x \notin pass.todo
  <2>1. SeenJobs[x].status = "none"
    BY DEF Exists
  <2>2. x \notin DOMAIN draftJobs
    BY <2>1, SeenTypes DEF DraftIsSound
  <2>3. jobs[x].status = "none"
    BY <2>1, <2>2, SeenTypes
  <2>. QED
    BY <1>0, <2>2, <2>3 DEF Finished
<1>7. ASSUME NEW x \in DOMAIN new
      PROVE  /\ new[x] \in Jobs /\ JobIsSound(new[x]) /\ new[x].status # "none"
             /\ new[x].status = "RUNNING" <=> x \in pass'.todo
             /\ jobs[x].status \notin Finished
  <2>1. CASE x = k
    BY <1>2, <1>4, <1>5, <2>1
  <2>2. CASE x \in ks \ {k}
    <3>1. new[x] = NewJob(pass.clock) /\ x \notin pass'.todo /\ jobs[x].status \notin Finished
      BY <1>2, <1>4, <1>6, <2>2
    <3>2. JobIsSound(NewJob(pass.clock))
      BY <1>0, NewJobFacts DEF JobIsSound
    <3>. QED
      BY <1>0, <3>1, <3>2, NewJobFacts
  <2>. QED
    BY <1>2, <2>1, <2>2
<1>8. \A x \in DOMAIN draftJobs \ DOMAIN new : x \in pass'.todo <=> x \in pass.todo
  BY <1>2, <1>4
<1>9. pass'.todo \subseteq DOMAIN draftJobs \cup DOMAIN new
  BY <1>0, <1>4
<1>10. ~pass'.booked => DOMAIN written = {} /\ ~pass.booked
  BY <1>4
<1>11. DOMAIN new \subseteq Keys
  BY <1>2, <1>5
<1>. QED
  BY <1>0, <1>3, <1>4, <1>7, <1>8, <1>9, <1>10, <1>11, DraftStep

--------------------------------------------------------------------------------
(* What the steps of a pass write, and those of the operators.             *)

LEMMA KeyFields ==
  ASSUME NEW k \in Keys
  PROVE  /\ k.artist \in Artists
         /\ k.type \in RefreshTypes \cup {"identity"}
         /\ k.type = "identity" => k.series \in Undecided \/ k = DiscoveryKey(k.artist)
         /\ "identity" \notin RefreshTypes
BY DEF Keys, DiscoveryKey

LEMMA DiscoveryFields ==
  ASSUME NEW a \in Artists
  PROVE  /\ DiscoveryKey(a).artist = a /\ DiscoveryKey(a).type = "identity"
         /\ DiscoveryKey(a).series = "once"
BY DEF DiscoveryKey

LEMMA Undrafted ==
  ASSUME TypeOK
  PROVE  DOMAIN Nothing = {} /\ draftRows = With(draftRows, Nothing)
<1>1. DOMAIN Nothing = {}
  BY DEF Nothing
<1>2. draftRows = [s \in DOMAIN draftRows |-> draftRows[s]]
  BY DEF TypeOK
<1>3. With(draftRows, Nothing) = [s \in DOMAIN draftRows |-> draftRows[s]]
  BY <1>1 DEF With
<1>. QED
  BY <1>1, <1>2, <1>3

\* The drafts of a pass that is off, and what it sees.
LEMMA OffIsEmpty ==
  ASSUME SoundInv, pass = Off
  PROVE  DOMAIN draftJobs = {} /\ DOMAIN draftRows = {} /\ SeenJobs = jobs /\ SeenRows = rows
<1>1. DOMAIN draftJobs = {} /\ DOMAIN draftRows = {}
  BY DEF SoundInv, DraftIsSound
<1>2. jobs = [k \in Keys |-> jobs[k]] /\ rows = [s \in Slots |-> rows[s]]
  BY DEF SoundInv, TypeOK
<1>3. SeenJobs = [k \in Keys |-> jobs[k]] /\ SeenRows = [s \in Slots |-> rows[s]]
  BY <1>1, <1>2 DEF SeenJobs, SeenRows, Over
<1>. QED
  BY <1>1, <1>2, <1>3

LEMMA BackfillFacts ==
  ASSUME NEW onboarded \in Backfill
  PROVE  /\ onboarded \subseteq Artists
         /\ \A a \in onboarded : ~Exists(jobs, DiscoveryKey(a)) /\ ~ActiveExists(jobs, a, "identity")
<1>. DEFINE missing == {a \in Artists : Resolved(rows, a) = {} /\ ~ActiveExists(jobs, a, "identity")
                                       /\ ~Exists(jobs, DiscoveryKey(a))}
<1>1. onboarded \subseteq missing
  <2>1. CASE ~AutoOnboard
    BY <2>1 DEF Backfill
  <2>2. CASE AutoOnboard
    <3>. DEFINE trips(registered) ==
                  \E a \in registered : Resolved(rows, a) = {} /\ ActiveRaises(jobs, a, "identity")
    <3>1. Backfill = UNION {IF trips(registered) THEN SUBSET (missing \cap registered)
                            ELSE {missing \cap registered} : registered \in Registry}
      BY <2>2 DEF Backfill
    <3>. HIDE DEF missing, trips
    <3>2. PICK registered \in Registry :
            onboarded \in IF trips(registered) THEN SUBSET (missing \cap registered)
                          ELSE {missing \cap registered}
      BY <3>1
    <3>. QED
      BY <3>2
  <2>. QED
    BY <2>1, <2>2
<1>. QED
  BY <1>1

\* The jobs a pass starts with are new.
StartsWith(onboarded) == {DiscoveryKey(a) : a \in onboarded} \cup DueWindows

LEMMA StartFacts ==
  ASSUME TypeOK, NEW onboarded \in Backfill
  PROVE  StartsWith(onboarded) \subseteq Keys
         /\ \A k \in StartsWith(onboarded) : ~Exists(jobs, k)
<1>1. \A a \in onboarded : a \in Artists /\ ~Exists(jobs, DiscoveryKey(a))
  BY BackfillFacts
<1>2. now \in 0 .. MaxTime
  BY DEF TypeOK
<1>3. \A a \in onboarded : DiscoveryKey(a) \in Keys
  BY <1>1, <1>2, KeyTypes
<1>4. DueWindows \subseteq Keys /\ \A k \in DueWindows : ~Exists(jobs, k)
  BY DEF DueWindows
<1>. QED
  BY <1>1, <1>3, <1>4 DEF StartsWith

LEMMA LiveFacts ==
  ASSUME TypeOK
  PROVE  /\ LiveIdentities \subseteq Slots \X [owner : Artists, status : Undecided]
         /\ \A i \in LiveIdentities : i[1] \in Slots /\ i[2] = rows[i[1]]
<1>. SUFFICES ASSUME NEW i \in LiveIdentities
              PROVE  /\ i \in Slots \X [owner : Artists, status : Undecided]
                     /\ i[1] \in Slots /\ i[2] = rows[i[1]]
  OBVIOUS
<1>1. i \in Slots \X (IdentityRows \ {NoRow}) /\ i[2] = rows[i[1]] /\ i[2].status \in Undecided
  BY DEF LiveIdentities
<1>2. i[2] \in [owner : Artists, status : Statuses]
  BY <1>1 DEF IdentityRows
<1>3. i[2] \in [owner : Artists, status : Undecided]
  BY <1>1, <1>2
<1>. QED
  BY <1>1, <1>3

LEMMA ReattemptFacts ==
  ASSUME SoundInv, pass # Off, NEW registered \in Registry
  PROVE  \A i \in Reattempted(registered) :
           /\ i[2].owner \in Artists /\ i[2].status \in Undecided /\ i \in pass.idents
           /\ ReattemptOf(i) \in Keys /\ ~Exists(SeenJobs, ReattemptOf(i))
           /\ ReattemptOf(i).artist = i[2].owner /\ ReattemptOf(i).type = "identity"
           /\ ReattemptOf(i).series = i[2].status
           /\ ~ActiveExists(SeenJobs, i[2].owner, "identity")
<1>. SUFFICES ASSUME NEW i \in Reattempted(registered)
              PROVE  /\ i[2].owner \in Artists /\ i[2].status \in Undecided /\ i \in pass.idents
                     /\ ReattemptOf(i) \in Keys /\ ~Exists(SeenJobs, ReattemptOf(i))
                     /\ ReattemptOf(i).artist = i[2].owner /\ ReattemptOf(i).type = "identity"
                     /\ ReattemptOf(i).series = i[2].status
                     /\ ~ActiveExists(SeenJobs, i[2].owner, "identity")
  OBVIOUS
<1>1. /\ i \in pass.idents /\ ~Exists(SeenJobs, ReattemptOf(i))
      /\ ~ActiveExists(SeenJobs, i[2].owner, "identity")
  BY DEF Reattempted, Eligible
<1>2. i[2] \in [owner : Artists, status : Undecided]
  BY <1>1, PassFields DEF SoundInv
<1>3. i[2].owner \in Artists /\ i[2].status \in Undecided
  BY <1>2
<1>4. pass.clock \in 0 .. MaxTime
  BY PassFields DEF SoundInv
<1>5. ReattemptOf(i) \in Keys
  BY <1>3, <1>4, KeyTypes DEF ReattemptOf
<1>. QED
  BY <1>1, <1>3, <1>5 DEF ReattemptOf, ReattemptKey

LEMMA ChannelSlots ==
  ASSUME NEW c \in Channels
  PROVE  <<"channel", c>> \in Slots /\ \A a \in Artists : <<"channel", c>> # Pending(a)
BY DEF Slots, Pending

\* What is written when a channel is found to be an artist's.
IsFound(table, a, s, new) ==
  /\ DOMAIN new \subseteq Slots /\ s \in DOMAIN new
  /\ DOMAIN new \subseteq {s, Pending(a)}
  /\ Pending(a) \in DOMAIN new <=> table[Pending(a)] # NoRow
  /\ new[s] = [owner |-> a, status |-> "RESOLVED"]
  /\ Pending(a) \in DOMAIN new => new[Pending(a)] = [owner |-> a, status |-> "REJECTED"]
  /\ \A x \in DOMAIN new : new[x] \in IdentityRows \ {NoRow} /\ new[x].owner = a

LEMMA ResolvedRowsFacts ==
  ASSUME NEW table \in [Slots -> IdentityRows], NEW a \in Artists,
         NEW s \in Slots, s # Pending(a), NEW new, new = ResolvedRows(table, a, s)
  PROVE  IsFound(table, a, s, new)
<1>1. Pending(a) \in Slots
  BY DEF Slots
<1>2. DOMAIN new = {s} \cup ({Pending(a)} \cap {q \in Slots : table[q] # NoRow})
  BY DEF ResolvedRows, With
<1>3. new[s] = [owner |-> a, status |-> "RESOLVED"]
  BY DEF ResolvedRows, With
<1>4. Pending(a) \in DOMAIN new => new[Pending(a)] = [owner |-> a, status |-> "REJECTED"]
  BY <1>1, <1>2 DEF ResolvedRows, With
<1>5. /\ [owner |-> a, status |-> "RESOLVED"] \in IdentityRows \ {NoRow}
      /\ [owner |-> a, status |-> "REJECTED"] \in IdentityRows \ {NoRow}
  <2>1. \A st \in Statuses : [owner |-> a, status |-> st] \in [owner : Artists, status : Statuses]
    OBVIOUS
  <2>2. \A st \in Statuses : [owner |-> a, status |-> st] # NoRow
    BY DEF NoRow
  <2>. QED
    BY <2>1, <2>2 DEF IdentityRows, Statuses
<1>6. DOMAIN new \subseteq {s, Pending(a)} /\ s \in DOMAIN new
  BY <1>2
<1>7. \A x \in DOMAIN new : new[x] \in IdentityRows \ {NoRow} /\ new[x].owner = a
  BY <1>3, <1>4, <1>5, <1>6
<1>. QED
  BY <1>1, <1>2, <1>3, <1>4, <1>6, <1>7 DEF IsFound

\* Onboarding queues the discovery, once.
LEMMA DiscoverFacts ==
  ASSUME TypeOK, NEW a \in Artists
  PROVE  /\ Discover(a) \in [Keys -> {j \in Jobs : j.status # "RUNNING"}]
         /\ DiscoveryKey(a) \in Keys
         /\ \A k \in Keys \ {DiscoveryKey(a)} : Discover(a)[k] = jobs[k]
         /\ Discover(a)[DiscoveryKey(a)] =
              IF WantsDiscovery(a) THEN NewJob(now) ELSE jobs[DiscoveryKey(a)]
<1>1. now \in 0 .. MaxTime /\ jobs \in [Keys -> {j \in Jobs : j.status # "RUNNING"}]
  BY DEF TypeOK
<1>2. DiscoveryKey(a) \in Keys
  BY <1>1, KeyTypes
<1>3. NewJob(now) \in {j \in Jobs : j.status # "RUNNING"}
  BY <1>1, NewJobFacts
<1>. QED
  BY <1>1, <1>2, <1>3 DEF Discover

--------------------------------------------------------------------------------
(* Every step keeps queue and draft sound.                                 *)

\* How a job that is under way may end.
Ended(k, job) ==
  \/ job = Succeeded(SeenJobs[k])
  \/ job = Failed(SeenJobs[k], pass.clock)
  \/ job = Deferred(SeenJobs[k], pass.clock)
  \/ \E code \in {"NO_RESOLVED_IDENTITY", "PROVIDER_ID_NOT_FOUND"} :
       job = Terminal(SeenJobs[k], code)

\* A search ends with another to come, or given up, or with a row.
StaysAhead(k, job, written) ==
  \/ job = Failed(SeenJobs[k], pass.clock) \/ job = Deferred(SeenJobs[k], pass.clock)
  \/ \E s \in DOMAIN written : /\ written[s].owner = k.artist
                              /\ written[s].status \in Undecided \cup {"RESOLVED"}

\* The rows a job writes: the channel of its artist that was not found, and
\* for a search the slot of its artist or a channel that becomes the artist's.
WritesOwn(k, s, row) ==
  \/ row.owner = SeenRows[s].owner /\ row.status \in Undecided
  \/ /\ k.type = "identity" /\ row.owner = k.artist
     /\ s = Pending(k.artist) \/ (s[1] = "channel" /\ row.status = "RESOLVED")

\* The ends of jobs, all of one form.
EndsJob(k, job, ks, written) ==
  /\ pass.at \in {"next", "call"} /\ k \in pass.todo /\ Ended(k, job)
  /\ k.type = "identity" => StaysAhead(k, job, written)
  /\ \A s \in DOMAIN written : WritesOwn(k, s, written[s])
  /\ ks \in SUBSET Keys /\ \A x \in ks : ~Exists(SeenJobs, x) /\ x.type # "identity"
  /\ DOMAIN written \subseteq Slots /\ (pass.at = "call" \/ DOMAIN written = {})
  /\ \A s \in DOMAIN written : written[s] \in IdentityRows
  /\ EndJob(k, job, ks, written)

Ends ==
  \/ NoIdentity \/ DeferIdentity \/ CallFails \/ Refreshed \/ ChannelNotFound
  \/ IdentityResolved \/ IdentityUndecided

LEMMA CallFacts ==
  ASSUME SoundInv, PassIsAt("call")
  PROVE  /\ pass # Off /\ pass.job \in pass.todo /\ pass.job \in Keys
         /\ pass.job.type # "identity" => pass.row \in Slots /\ SeenRows[pass.row].owner \in Artists
         /\ pass.at = "call" /\ pass.job.artist \in Artists /\ pass.clock \in 0 .. MaxTime
<1>1. pass # Off /\ pass.at = "call"
  BY PassIsOn DEF PassIsAt
<1>2. pass.job \in pass.todo
      /\ (pass.job.type # "identity" => pass.row \in Slots /\ SeenRows[pass.row].owner \in Artists)
  BY <1>1 DEF SoundInv, DraftIsSound, PassIsSound
<1>3. pass.job \in Keys /\ pass.clock \in 0 .. MaxTime
  BY <1>1, <1>2, PassFields DEF SoundInv
<1>. QED
  BY <1>1, <1>2, <1>3, KeyFields

\* An identity that was found: the rows written and the catalogue wanted.
LEMMA ResolvedCall ==
  ASSUME SoundInv, IdentityResolved
  PROVE  \E job, ks, written : EndsJob(pass.job, job, ks, written)
<1>. DEFINE a == pass.job.artist
            job == IF ActiveRaises(SeenJobs, a, "catalogue")
                   THEN Failed(SeenJobs[pass.job], pass.clock) ELSE Succeeded(SeenJobs[pass.job])
            wanted == ~ActiveExists(SeenJobs, a, "catalogue") /\ ~Exists(SeenJobs, CatalogueKey(a))
            ks == IF wanted THEN {CatalogueKey(a)} ELSE {}
<1>1. /\ pass # Off /\ pass.job \in pass.todo /\ pass.at = "call" /\ a \in Artists
      /\ pass.clock \in 0 .. MaxTime /\ pass.job.type = "identity"
  BY CallFacts DEF IdentityResolved, Called
<1>2. PICK c \in Channels :
        EndJob(pass.job, job, ks, ResolvedRows(SeenRows, a, <<"channel", c>>))
  BY DEF IdentityResolved
<1>3. CatalogueKey(a) \in Keys
  BY <1>1, KeyTypes DEF CatalogueKey
<1>4. ks \in SUBSET Keys /\ \A x \in ks : ~Exists(SeenJobs, x) /\ x.type # "identity"
  <2>1. CatalogueKey(a).type = "catalogue"
    BY DEF CatalogueKey, RefreshKey
  <2>. QED
    BY <1>3, <2>1
<1>5. Ended(pass.job, job)
  BY DEF Ended
<1>. DEFINE written == ResolvedRows(SeenRows, a, <<"channel", c>>)
<1>6. /\ DOMAIN written \subseteq Slots
      /\ \A s \in DOMAIN written : written[s] \in IdentityRows
      /\ StaysAhead(pass.job, job, written)
      /\ \A s \in DOMAIN written : WritesOwn(pass.job, s, written[s])
  <2>1. SeenRows \in [Slots -> IdentityRows]
    BY SeenTypes DEF SoundInv
  <2>2. PICK table : table = SeenRows
    OBVIOUS
  <2>3. PICK s : s = <<"channel", c>>
    OBVIOUS
  <2>4. PICK b : b = a
    OBVIOUS
  <2>5. PICK new : new = ResolvedRows(table, b, s)
    OBVIOUS
  <2>6. new = written
    BY <2>2, <2>3, <2>4, <2>5 DEF ResolvedRows, Pending
  <2>7. b = pass.job.artist /\ Pending(b) = Pending(pass.job.artist)
    BY <2>4 DEF Pending
  <2>. HIDE DEF a, written, job
  <2>8. table \in [Slots -> IdentityRows] /\ b \in Artists /\ s \in Slots /\ s # Pending(b)
    BY <1>1, <2>1, <2>2, <2>3, <2>4, ChannelSlots
  <2>9. IsFound(table, b, s, new)
    BY <2>5, <2>8, ResolvedRowsFacts
  <2>10. DOMAIN written \subseteq Slots /\ \A x \in DOMAIN written : written[x] \in IdentityRows
    BY <2>6, <2>9 DEF IsFound
  <2>11. s \in DOMAIN new /\ new[s].owner = b /\ new[s].status = "RESOLVED"
    BY <2>9 DEF IsFound
  <2>12. StaysAhead(pass.job, job, new)
    BY <2>7, <2>11 DEF StaysAhead
  <2>13. ASSUME NEW x \in DOMAIN new PROVE WritesOwn(pass.job, x, new[x])
    <3>1. x \in {s, Pending(pass.job.artist)} /\ new[x].owner = pass.job.artist
      BY <2>7, <2>9 DEF IsFound
    <3>2. s[1] = "channel"
      BY <2>3
    <3>. QED
      BY <1>1, <2>11, <3>1, <3>2 DEF WritesOwn
  <2>. QED
    BY <2>6, <2>10, <2>12, <2>13
<1>. HIDE DEF job, ks, written
<1>7. EndsJob(pass.job, job, ks, written)
  BY <1>1, <1>2, <1>4, <1>5, <1>6 DEF EndsJob, written
<1>. QED
  BY <1>7

LEMMA EndsJobs ==
  ASSUME SoundInv, Ends
  PROVE  \E k, job, ks, written : EndsJob(k, job, ks, written)
<1>. USE DEF SoundInv
<1>1. ASSUME NEW k \in pass.todo, NEW job, Ended(k, job), PassIsAt("next") \/ PassIsAt("call"),
             k.type = "identity" => StaysAhead(k, job, Nothing), EndJob(k, job, {}, Nothing)
      PROVE  EndsJob(k, job, {}, Nothing)
  BY <1>1, Undrafted DEF EndsJob, PassIsAt
<1>2. CASE NoIdentity
  BY <1>1, <1>2 DEF NoIdentity, First, Ended
<1>3. CASE DeferIdentity
  BY <1>1, <1>3 DEF DeferIdentity, First, Ended, StaysAhead
<1>4. ASSUME NEW job, Ended(pass.job, job), PassIsAt("call"), NEW written,
             EndJob(pass.job, job, {}, written),
             DOMAIN written \subseteq Slots, \A s \in DOMAIN written : written[s] \in IdentityRows,
             pass.job.type = "identity" => StaysAhead(pass.job, job, written),
             \A s \in DOMAIN written : WritesOwn(pass.job, s, written[s])
      PROVE  EndsJob(pass.job, job, {}, written)
  BY <1>4, CallFacts DEF EndsJob
<1>5. CASE CallFails
  BY <1>1, <1>5, CallFacts DEF CallFails, Called, Ended, StaysAhead
<1>6. CASE Refreshed
  <2>1. "identity" \notin RefreshTypes
    OBVIOUS
  <2>. QED
    BY <1>1, <1>6, <2>1, CallFacts DEF Refreshed, Called, Ended
<1>7. CASE ChannelNotFound
  <2>. DEFINE job == Terminal(SeenJobs[pass.job], "PROVIDER_ID_NOT_FOUND")
              written == [s \in {pass.row} |-> [SeenRows[s] EXCEPT !.status = "UNRESOLVED"]]
  <2>1. PassIsAt("call") /\ pass.job.type \in {"channel", "catalogue"}
        /\ EndJob(pass.job, job, {}, written)
    BY <1>7 DEF ChannelNotFound, Called
  <2>2. pass.row \in Slots /\ SeenRows[pass.row].owner \in Artists
    BY <2>1, CallFacts
  <2>3. SeenRows[pass.row] \in [owner : Artists, status : Statuses]
    BY <2>2, SeenTypes DEF IdentityRows, NoRow
  <2>4. /\ written[pass.row] \in IdentityRows /\ DOMAIN written = {pass.row}
        /\ written[pass.row].owner = SeenRows[pass.row].owner
        /\ written[pass.row].status \in Undecided
    BY <2>3 DEF IdentityRows, Statuses, Undecided
  <2>5. Ended(pass.job, job)
    BY DEF Ended
  <2>. HIDE DEF job, written
  <2>6. \A s \in DOMAIN written : WritesOwn(pass.job, s, written[s])
    BY <2>4 DEF WritesOwn
  <2>7. EndsJob(pass.job, job, {}, written)
    BY <1>4, <2>1, <2>2, <2>4, <2>5, <2>6
  <2>. QED
    BY <2>7
<1>8. CASE IdentityResolved
  BY <1>8, ResolvedCall
<1>9. CASE IdentityUndecided
  <2>. DEFINE a == pass.job.artist
              job == Succeeded(SeenJobs[pass.job])
  <2>1. PICK status \in Undecided :
          EndJob(pass.job, job, {}, [s \in {Pending(a)} |-> [owner |-> a, status |-> status]])
    BY <1>9 DEF IdentityUndecided
  <2>. DEFINE written == [s \in {Pending(a)} |-> [owner |-> a, status |-> status]]
  <2>2. PassIsAt("call") /\ a \in Artists /\ pass.job.type = "identity"
    BY <1>9, CallFacts DEF IdentityUndecided, Called
  <2>3. Pending(a) \in Slots
    BY <2>2 DEF Slots
  <2>4. [owner |-> a, status |-> status] \in IdentityRows
    BY <2>2 DEF IdentityRows, Statuses
  <2>5. DOMAIN written \subseteq Slots /\ \A s \in DOMAIN written : written[s] \in IdentityRows
    BY <2>3, <2>4
  <2>6. /\ Pending(a) \in DOMAIN written
        /\ \A s \in DOMAIN written : /\ s = Pending(a) /\ written[s].owner = a
                                   /\ written[s].status \in Undecided
    OBVIOUS
  <2>7. Ended(pass.job, job)
    BY DEF Ended
  <2>. HIDE DEF job, written
  <2>8. StaysAhead(pass.job, job, written)
    BY <2>6 DEF StaysAhead
  <2>9. \A s \in DOMAIN written : WritesOwn(pass.job, s, written[s])
    BY <2>2, <2>6 DEF WritesOwn
  <2>10. EndsJob(pass.job, job, {}, written)
    BY <1>4, <2>1, <2>2, <2>5, <2>7, <2>8, <2>9 DEF written
  <2>. QED
    BY <2>10
<1>. QED
  BY <1>2, <1>3, <1>5, <1>6, <1>7, <1>8, <1>9 DEF Ends

LEMMA EndsSound ==
  ASSUME SoundInv, NEW k, NEW job, NEW ks, NEW written, EndsJob(k, job, ks, written)
  PROVE  SoundInv'
<1>1. pass # Off
  BY PassIsOn DEF EndsJob
<1>2. SeenJobs[k] \in Jobs /\ JobIsSound(SeenJobs[k]) /\ SeenJobs[k].status = "RUNNING"
  BY <1>1, TodoIsRunning DEF EndsJob
<1>3. pass.clock \in 0 .. MaxTime
  BY <1>1, PassFields DEF SoundInv
<1>4. job \in Jobs /\ JobIsSound(job) /\ job.status \notin {"none", "RUNNING"}
  BY <1>2, <1>3, JobEnds DEF EndsJob, Ended
<1>. QED
  BY <1>4, EndJobStep DEF EndsJob

LEMMA StartSound == ASSUME SoundInv, StartPass PROVE SoundInv'
<1>. USE DEF SoundInv
<1>1. PICK onboarded \in Backfill : draftJobs' = NewJobs(StartsWith(onboarded), now)
  BY DEF StartPass, StartsWith
<1>. DEFINE ks == StartsWith(onboarded)
            new == NewJobs(ks, now)
<1>2. ks \subseteq Keys /\ \A k \in ks : jobs[k].status = "none"
  BY StartFacts DEF Exists
<1>3. /\ pass = Off /\ UncommittedStays /\ UNCHANGED draftRows /\ now \in 0 .. MaxTime
      /\ pass' = [at |-> "registry", clock |-> now, idents |-> LiveIdentities, todo |-> {},
                  job |-> NoKey, row |-> NoSlot, booked |-> FALSE]
  BY DEF StartPass, TypeOK
<1>4. pass' \in Pass
  BY <1>3, LiveFacts DEF Pass
<1>. HIDE DEF ks
<1>5. DOMAIN new = ks /\ \A k \in ks : new[k] = NewJob(now)
  BY DEF NewJobs
<1>6. draftJobs' = With(draftJobs, new)
  <2>1. DOMAIN draftJobs = {}
    BY <1>3, OffIsEmpty
  <2>2. With(draftJobs, new) = [x \in DOMAIN new |-> new[x]]
    BY <2>1 DEF With
  <2>3. new = [x \in DOMAIN new |-> new[x]]
    BY DEF NewJobs
  <2>. QED
    BY <1>1, <2>2, <2>3 DEF ks
<1>7. JobIsSound(NewJob(now)) /\ NewJob(now) \in Jobs /\ NewJob(now).status = "PENDING"
  BY <1>3, NewJobFacts DEF JobIsSound
<1>8. ASSUME NEW k \in DOMAIN new
      PROVE  /\ new[k] \in Jobs /\ JobIsSound(new[k]) /\ new[k].status # "none"
             /\ new[k].status = "RUNNING" <=> k \in pass'.todo
             /\ jobs[k].status \notin Finished
  <2>1. new[k] = NewJob(now) /\ jobs[k].status = "none" /\ pass'.todo = {}
    BY <1>2, <1>3, <1>5
  <2>. QED
    BY <1>7, <2>1 DEF Finished
<1>9. DOMAIN draftJobs = {}
  BY <1>3, OffIsEmpty
<1>10. DOMAIN Nothing = {} /\ draftRows' = With(draftRows, Nothing)
  BY <1>3, Undrafted
<1>11. pass'.todo = {} /\ pass'.at = "registry"
  BY <1>3
<1>12. DOMAIN new \subseteq Keys
  BY <1>2, <1>5
<1>. HIDE DEF new
<1>. QED
  BY <1>3, <1>4, <1>6, <1>8, <1>9, <1>10, <1>11, <1>12, DraftStep

LEMMA ReattemptSound == ASSUME SoundInv, Reattempt PROVE SoundInv'
<1>. USE DEF SoundInv
<1>1. PICK registered \in Registry :
        draftJobs' = With(draftJobs, NewJobs({ReattemptOf(i) : i \in Reattempted(registered)},
                                             pass.clock))
  BY DEF Reattempt
<1>. DEFINE ks == {ReattemptOf(i) : i \in Reattempted(registered)}
            new == NewJobs(ks, pass.clock)
<1>2. /\ pass # Off /\ pass.at = "registry" /\ UncommittedStays /\ UNCHANGED draftRows
      /\ pass' = [pass EXCEPT !.at = "claim", !.idents = {}]
  BY PassIsOn DEF Reattempt, PassIsAt
<1>3. /\ pass' \in Pass /\ pass'.at = "claim" /\ pass'.todo = pass.todo
      /\ pass'.booked = pass.booked
  BY <1>2, PassFields DEF Pass
<1>4. pass.todo = {} /\ pass.clock \in 0 .. MaxTime
  BY <1>2, PassFields DEF DraftIsSound, PassIsSound
<1>5. ks \subseteq Keys /\ \A k \in ks : ~Exists(SeenJobs, k)
  BY <1>2, ReattemptFacts
<1>. HIDE DEF ks
<1>6. DOMAIN new = ks /\ \A k \in ks : new[k] = NewJob(pass.clock)
  BY DEF NewJobs
<1>. HIDE DEF new
<1>7. /\ JobIsSound(NewJob(pass.clock)) /\ NewJob(pass.clock) \in Jobs
      /\ NewJob(pass.clock).status = "PENDING"
  BY <1>4, NewJobFacts DEF JobIsSound
<1>8. ASSUME NEW k \in DOMAIN new
      PROVE  /\ new[k] \in Jobs /\ JobIsSound(new[k]) /\ new[k].status # "none"
             /\ new[k].status = "RUNNING" <=> k \in pass'.todo
             /\ jobs[k].status \notin Finished
  <2>1. new[k] = NewJob(pass.clock) /\ k \in Keys /\ SeenJobs[k].status = "none"
    BY <1>5, <1>6 DEF Exists
  <2>2. jobs[k].status = "none"
    BY <2>1, SeenTypes DEF DraftIsSound
  <2>. QED
    BY <1>3, <1>4, <1>7, <2>1, <2>2 DEF Finished
<1>9. DOMAIN Nothing = {} /\ draftRows' = With(draftRows, Nothing)
  BY <1>2, Undrafted
<1>10. draftJobs' = With(draftJobs, new)
  BY <1>1 DEF new, ks
<1>11. DOMAIN new \subseteq Keys
  BY <1>5, <1>6
<1>. QED
  BY <1>2, <1>3, <1>4, <1>8, <1>9, <1>10, <1>11, DraftStep

LEMMA ClaimSound == ASSUME SoundInv, Claim PROVE SoundInv'
<1>. USE DEF SoundInv
<1>1. PICK batch \in SUBSET Due(SeenJobs, pass.clock) :
        /\ draftJobs' = With(draftJobs, [k \in batch |-> Claimed(SeenJobs[k])])
        /\ pass' = [pass EXCEPT !.at = "next", !.todo = batch]
  BY DEF Claim
<1>. DEFINE new == [k \in batch |-> Claimed(SeenJobs[k])]
<1>2. pass # Off /\ pass.at = "claim" /\ UncommittedStays /\ UNCHANGED draftRows
  BY PassIsOn DEF Claim, PassIsAt
<1>3. \A k \in batch : k \in Keys /\ SeenJobs[k].status \in {"PENDING", "FAILED_RETRYABLE"}
  BY DEF Due
<1>4. /\ pass' \in Pass /\ pass'.at = "next" /\ pass'.todo = batch
      /\ pass'.booked = pass.booked
  BY <1>1, <1>2, <1>3, PassFields DEF Pass
<1>5. pass.todo = {}
  BY <1>2 DEF DraftIsSound, PassIsSound
<1>6. DOMAIN new = batch /\ \A k \in batch : new[k] = Claimed(SeenJobs[k])
  OBVIOUS
<1>. HIDE DEF new
<1>7. ASSUME NEW k \in DOMAIN new
      PROVE  /\ new[k] \in Jobs /\ JobIsSound(new[k]) /\ new[k].status # "none"
             /\ new[k].status = "RUNNING" <=> k \in pass'.todo
             /\ jobs[k].status \notin Finished
  <2>1. /\ new[k] = Claimed(SeenJobs[k]) /\ k \in Keys /\ k \in batch
        /\ SeenJobs[k].status \in {"PENDING", "FAILED_RETRYABLE"} /\ SeenJobs[k] \in Jobs
    BY <1>3, <1>6, SeenTypes
  <2>2. JobIsSound(SeenJobs[k]) /\ jobs[k].status \notin Finished
    <3>1. CASE k \in DOMAIN draftJobs
      BY <2>1, <3>1, SeenTypes DEF DraftIsSound
    <3>2. CASE k \notin DOMAIN draftJobs
      BY <2>1, <3>2, SeenTypes DEF DraftIsSound, Finished
    <3>. QED
      BY <3>1, <3>2
  <2>3. Claimed(SeenJobs[k]) \in Jobs /\ JobIsSound(Claimed(SeenJobs[k]))
        /\ Claimed(SeenJobs[k]).status = "RUNNING"
    BY <2>1, <2>2, JobStarts
  <2>. QED
    BY <1>4, <2>1, <2>2, <2>3
<1>8. DOMAIN Nothing = {} /\ draftRows' = With(draftRows, Nothing)
  BY <1>2, Undrafted
<1>9. draftJobs' = With(draftJobs, new)
  BY <1>1 DEF new
<1>10. DOMAIN new \subseteq Keys
  BY <1>3, <1>6
<1>. QED
  BY <1>2, <1>4, <1>5, <1>6, <1>7, <1>8, <1>9, <1>10, DraftStep

LEMMA BeginCallSound == ASSUME SoundInv, BeginCall PROVE SoundInv'
<1>. USE DEF SoundInv
<1>0. PICK k \in pass.todo :
        \E s \in IF k.type = "identity" THEN {NoSlot} ELSE Resolved(SeenRows, k.artist) :
          pass' = [pass EXCEPT !.at = "call", !.job = k, !.row = s]
  BY DEF BeginCall
<1>1. PICK s \in IF k.type = "identity" THEN {NoSlot} ELSE Resolved(SeenRows, k.artist) :
        pass' = [pass EXCEPT !.at = "call", !.job = k, !.row = s]
  BY <1>0
<1>2. pass # Off /\ pass.at = "next" /\ UncommittedStays /\ UNCHANGED draft
  BY PassIsOn DEF BeginCall, PassIsAt
<1>3. k \in Keys /\ k.artist \in Artists
  BY <1>2, PassFields, KeyFields
<1>4. k.type # "identity" => s \in Slots /\ SeenRows[s].owner \in Artists
  BY <1>1, <1>3 DEF Resolved, OwnedBy
<1>5. s \in Slots \cup {NoSlot}
  BY <1>1, <1>4
<1>6. /\ pass' \in Pass /\ pass'.at = "call" /\ pass'.job = k /\ pass'.row = s
      /\ pass'.todo = pass.todo /\ pass'.booked = pass.booked
  BY <1>1, <1>2, <1>3, <1>5, PassFields DEF Pass
<1>7. TypeOK'
  BY <1>2, <1>6 DEF TypeOK, UncommittedStays, draft
<1>8. SeenRows' = SeenRows
  BY <1>2 DEF SeenRows, UncommittedStays, draft
<1>9. PassIsSound'
  <2>1. PassIsSound
    BY <1>2 DEF DraftIsSound
  <2>. QED
    BY <1>2, <1>4, <1>6, <1>8, <2>1 DEF PassIsSound, draft
<1>10. pass' # Off
  BY <1>6, PassNotOff
<1>. QED
  BY <1>2, <1>6, <1>7, <1>9, <1>10 DEF DraftIsSound, UncommittedStays, draft

\* A pass that ends, with what it wrote or without.
LEMMA EmptySound ==
  ASSUME TypeOK', pass' = Off, DOMAIN draftJobs' = {}, DOMAIN draftRows' = {},
         \A k \in Keys : JobIsSound(jobs'[k])
  PROVE  SoundInv'
BY DEF SoundInv, DraftIsSound, JobIsSound

LEMMA CommitFacts ==
  ASSUME SoundInv, Commit
  PROVE  /\ pass # Off /\ pass' = Off /\ DOMAIN draftJobs' = {} /\ DOMAIN draftRows' = {}
         /\ jobs' = SeenJobs /\ rows' = SeenRows
         /\ \A k \in Keys : SeenJobs[k].status # "RUNNING" /\ JobIsSound(SeenJobs[k])
<1>1. pass # Off /\ pass.todo = {} /\ jobs' = SeenJobs /\ rows' = SeenRows
  BY PassIsOn DEF Commit, PassIsAt
<1>2. pass' = Off /\ DOMAIN draftJobs' = {} /\ DOMAIN draftRows' = {}
  BY DEF Commit, Abandon, Nothing
<1>3. ASSUME NEW k \in Keys PROVE SeenJobs[k].status # "RUNNING" /\ JobIsSound(SeenJobs[k])
  <2>1. CASE k \in DOMAIN draftJobs
    BY <1>1, <2>1, SeenTypes DEF SoundInv, DraftIsSound
  <2>2. CASE k \notin DOMAIN draftJobs
    <3>1. SeenJobs[k] = jobs[k] /\ jobs[k].status # "RUNNING"
      BY <2>2, SeenTypes DEF SoundInv, TypeOK
    <3>. QED
      BY <3>1 DEF SoundInv, DraftIsSound
  <2>. QED
    BY <2>1, <2>2
<1>. QED
  BY <1>1, <1>2, <1>3

LEMMA CommitSound == ASSUME SoundInv, Commit PROVE SoundInv'
<1>1. /\ pass' = Off /\ DOMAIN draftJobs' = {} /\ DOMAIN draftRows' = {}
      /\ jobs' = SeenJobs /\ rows' = SeenRows
      /\ \A k \in Keys : SeenJobs[k].status # "RUNNING" /\ JobIsSound(SeenJobs[k])
  BY CommitFacts
<1>2. SeenJobs \in [Keys -> Jobs] /\ SeenRows \in [Slots -> IdentityRows]
  BY SeenTypes DEF SoundInv
<1>3. SeenJobs \in [Keys -> {j \in Jobs : j.status # "RUNNING"}]
  BY <1>1, <1>2
<1>4. draftJobs' = Nothing /\ draftRows' = Nothing /\ UNCHANGED <<now, paused, hung, crashes>>
  BY DEF Commit, Abandon
<1>5. draftJobs' \in [DOMAIN draftJobs' -> Jobs] /\ draftRows' \in [DOMAIN draftRows' -> IdentityRows]
  BY <1>1, <1>4 DEF Nothing
<1>6. TypeOK'
  BY <1>1, <1>2, <1>3, <1>4, <1>5 DEF SoundInv, TypeOK
<1>. QED
  BY <1>1, <1>6, EmptySound

LEMMA AbandonSound ==
  ASSUME SoundInv, Abandon, UNCHANGED <<now, jobs, rows, paused>>,
         hung' \in BOOLEAN, crashes' \in 0 .. MaxCrashes
  PROVE  SoundInv'
<1>1. pass' = Off /\ draftJobs' = Nothing /\ draftRows' = Nothing
  BY DEF Abandon
<1>2. DOMAIN Nothing = {}
  BY DEF Nothing
<1>3. draftJobs' \in [DOMAIN draftJobs' -> Jobs] /\ draftRows' \in [DOMAIN draftRows' -> IdentityRows]
  BY <1>1, <1>2 DEF Nothing
<1>4. TypeOK'
  BY <1>1, <1>2, <1>3 DEF SoundInv, TypeOK
<1>. QED
  BY <1>1, <1>2, <1>4, EmptySound DEF SoundInv, DraftIsSound

\* Requests of operators see what is stored, and leave the draft alone.
LEMMA OperatorSound ==
  ASSUME SoundInv, NEW a \in Artists, UNCHANGED <<now, pass, draft, crashes>>,
         jobs' = jobs \/ jobs' = Discover(a),
         rows' \in [Slots -> IdentityRows],
         \A s \in Slots : rows'[s] = rows[s] \/ rows'[s].owner \in Artists,
         paused' \subseteq Artists, hung' \in BOOLEAN
  PROVE  SoundInv'
<1>. USE DEF SoundInv
<1>1. jobs' \in [Keys -> {j \in Jobs : j.status # "RUNNING"}]
  BY DiscoverFacts DEF TypeOK
<1>2. TypeOK'
  BY <1>1 DEF TypeOK, draft
<1>3. ASSUME NEW k \in Keys
      PROVE  /\ jobs[k].status \notin Finished => jobs'[k].status \notin Finished
             /\ JobIsSound(jobs'[k])
  <2>1. CASE jobs'[k] = jobs[k]
    BY <2>1 DEF DraftIsSound
  <2>2. CASE jobs'[k] # jobs[k]
    <3>1. jobs'[k] = NewJob(now)
      BY <2>2, DiscoverFacts
    <3>2. now \in 0 .. MaxTime
      BY DEF TypeOK
    <3>. QED
      BY <3>1, <3>2, NewJobFacts DEF JobIsSound, Finished
  <2>. QED
    BY <2>1, <2>2
<1>4. \A s \in Slots : SeenRows[s].owner \in Artists => SeenRows'[s].owner \in Artists
  BY SeenTypes, <1>2 DEF SeenRows, Over, TypeOK, draft
<1>5. pass # Off => PassIsSound'
  BY <1>4 DEF DraftIsSound, PassIsSound, draft
<1>6. DOMAIN draftJobs \subseteq Keys
  BY DEF TypeOK
<1>. QED
  BY <1>2, <1>3, <1>5, <1>6 DEF DraftIsSound, draft

\* A channel that a hint names, from the rows that are stored.
LEMMA HintRows ==
  ASSUME NEW a \in Artists, NEW s \in Slots, s # Pending(a), NEW table \in [Slots -> IdentityRows],
         NEW new, new = ResolvedRows(table, a, s), rows' = Over(table, new)
  PROVE  /\ rows' \in [Slots -> IdentityRows]
         /\ rows'[s] = [owner |-> a, status |-> "RESOLVED"]
         /\ \A x \in Slots : rows'[x] = table[x] \/ (x \in {s, Pending(a)} /\ rows'[x].owner = a)
<1>2. IsFound(table, a, s, new)
  BY ResolvedRowsFacts
<1>3. rows' = [x \in Slots |-> IF x \in DOMAIN new THEN new[x] ELSE table[x]]
  BY DEF Over
<1>4. ASSUME NEW x \in Slots
      PROVE  /\ rows'[x] \in IdentityRows
             /\ rows'[x] = table[x] \/ (x \in {s, Pending(a)} /\ rows'[x].owner = a)
  <2>1. CASE x \in DOMAIN new
    <3>1. rows'[x] = new[x]
      BY <1>3, <2>1
    <3>. QED
      BY <1>2, <2>1, <3>1 DEF IsFound
  <2>2. CASE x \notin DOMAIN new
    <3>1. rows'[x] = table[x]
      BY <1>3, <2>2
    <3>2. table[x] \in IdentityRows
      OBVIOUS
    <3>3. rows'[x] \in IdentityRows
      BY <3>1, <3>2
    <3>. QED
      BY <3>1, <3>3
  <2>. QED
    BY <2>1, <2>2
<1>5. rows'[s] = [owner |-> a, status |-> "RESOLVED"]
  <2>1. rows'[s] = new[s]
    BY <1>2, <1>3 DEF IsFound
  <2>. QED
    BY <1>2, <2>1 DEF IsFound
<1>6. rows' \in [Slots -> IdentityRows]
  BY <1>3, <1>4
<1>. QED
  BY <1>4, <1>5, <1>6

LEMMA HintStep ==
  ASSUME TypeOK, NEW a \in Artists, ResolveHint(a)
  PROVE  \E s \in Slots :
           /\ s[1] = "channel" /\ s # Pending(a)
           /\ rows' \in [Slots -> IdentityRows]
           /\ rows'[s] = [owner |-> a, status |-> "RESOLVED"]
           /\ \A x \in Slots : rows'[x] = rows[x] \/ (x \in {s, Pending(a)} /\ rows'[x].owner = a)
<1>1. PICK c \in Channels : rows' = Over(rows, ResolvedRows(rows, a, <<"channel", c>>))
  BY DEF ResolveHint
<1>2. PICK s : s = <<"channel", c>>
  OBVIOUS
<1>3. PICK table : table = rows
  OBVIOUS
<1>4. PICK new : new = ResolvedRows(table, a, s)
  OBVIOUS
<1>5. rows' = Over(table, new)
  BY <1>1, <1>2, <1>3, <1>4 DEF ResolvedRows
<1>6. s \in Slots /\ s # Pending(a) /\ s[1] = "channel"
  BY <1>2, ChannelSlots
<1>7. table \in [Slots -> IdentityRows]
  BY <1>3 DEF TypeOK
<1>8. /\ rows' \in [Slots -> IdentityRows]
      /\ rows'[s] = [owner |-> a, status |-> "RESOLVED"]
      /\ \A x \in Slots : rows'[x] = table[x] \/ (x \in {s, Pending(a)} /\ rows'[x].owner = a)
  BY <1>4, <1>5, <1>6, <1>7, HintRows
<1>. QED
  BY <1>3, <1>6, <1>8

LEMMA StepSoundInv == SoundInv /\ [Next]_vars => SoundInv'
<1>. SUFFICES ASSUME SoundInv, [Next]_vars PROVE SoundInv'
  OBVIOUS
<1>. USE DEF SoundInv
<1>1. CASE UNCHANGED vars
  BY <1>1 DEF vars, draft, TypeOK, DraftIsSound, PassIsSound, SeenRows, Over
<1>2. CASE StartPass
  BY <1>2, StartSound
<1>3. CASE Reattempt
  BY <1>3, ReattemptSound
<1>4. CASE ReattemptFails
  BY <1>4, AbandonSound DEF ReattemptFails, UncommittedStays, TypeOK
<1>5. CASE Claim
  BY <1>5, ClaimSound
<1>6. CASE BeginCall
  BY <1>6, BeginCallSound
<1>7. CASE Ends
  BY <1>7, EndsJobs, EndsSound
<1>8. CASE Commit
  BY <1>8, CommitSound
<1>9. CASE EnqueueFails
  BY <1>1, <1>9 DEF EnqueueFails
<1>10. CASE Crash
  <2>1. Abandon /\ UNCHANGED <<now, jobs, rows, paused>> /\ hung' = FALSE
        /\ crashes < MaxCrashes /\ crashes' = crashes + 1
    BY <1>10 DEF Crash
  <2>2. crashes \in 0 .. MaxCrashes
    BY DEF TypeOK
  <2>3. crashes' \in 0 .. MaxCrashes
    BY <2>1, <2>2
  <2>4. hung' \in BOOLEAN
    BY <2>1
  <2>. QED
    BY <2>1, <2>3, <2>4, AbandonSound
<1>11. CASE Tick
  <2>1. TypeOK'
    BY <1>11 DEF Tick, TypeOK, draft
  <2>. QED
    BY <1>11, <2>1 DEF Tick, draft, DraftIsSound, PassIsSound, SeenRows, Over
<1>12. ASSUME NEW a \in Artists, Onboard(a) \/ ResolveHint(a) \/ Hang(a) \/ Pause(a)
       PROVE  SoundInv'
  <2>0. rows \in [Slots -> IdentityRows] /\ hung \in BOOLEAN /\ paused \subseteq Artists
    BY DEF TypeOK
  <2>1. CASE Onboard(a)
    BY <2>0, <2>1, OperatorSound DEF Onboard
  <2>2. CASE ResolveHint(a)
    <3>1. PICK s \in Slots :
            /\ s[1] = "channel" /\ s # Pending(a)
            /\ rows' \in [Slots -> IdentityRows]
            /\ rows'[s] = [owner |-> a, status |-> "RESOLVED"]
            /\ \A x \in Slots : rows'[x] = rows[x] \/ (x \in {s, Pending(a)} /\ rows'[x].owner = a)
      BY <2>2, HintStep
    <3>. QED
      BY <2>0, <2>2, <3>1, OperatorSound DEF ResolveHint
  <2>3. CASE Hang(a)
    BY <2>0, <2>3, OperatorSound DEF Hang
  <2>4. CASE Pause(a)
    BY <2>0, <2>4, OperatorSound DEF Pause
  <2>. QED
    BY <1>12, <2>1, <2>2, <2>3, <2>4
<1>. QED
  BY <1>1, <1>2, <1>3, <1>4, <1>5, <1>6, <1>7, <1>8, <1>9, <1>10, <1>11, <1>12
     DEF Next, Collect, Ends

LEMMA InitSoundInv == Init => SoundInv
<1>. SUFFICES ASSUME Init PROVE SoundInv
  OBVIOUS
<1>1. NoJob \in {j \in Jobs : j.status # "RUNNING"} /\ JobIsSound(NoJob)
  <2>1. 0 \in 0 .. MaxTime + BackoffCap /\ 0 \in 0 .. MaxAttempts
    OBVIOUS
  <2>. QED
    BY <2>1 DEF NoJob, Jobs, JobIsSound
<1>2. DOMAIN Nothing = {}
  BY DEF Nothing
<1>3. Nothing \in [DOMAIN Nothing -> Jobs] /\ Nothing \in [DOMAIN Nothing -> IdentityRows]
  BY <1>2 DEF Nothing
<1>4. 0 \in 0 .. MaxTime /\ 0 \in 0 .. MaxCrashes
  OBVIOUS
<1>5. TypeOK
  BY <1>1, <1>2, <1>3, <1>4 DEF Init, TypeOK, IdentityRows
<1>6. DraftIsSound
  BY <1>1, <1>2 DEF Init, DraftIsSound
<1>. QED
  BY <1>5, <1>6 DEF SoundInv

\* A window that was collected or given up is never touched again: whatever a
\* pass drafts, and however late it commits, no finished job is in it.
THEOREM FinishedStays == Spec => WindowsAreFinal
<1>1. ASSUME SoundInv, [Next]_vars
      PROVE  [\A k \in Keys : jobs[k].status \in Finished => jobs'[k] = jobs[k]]_vars
  <2>. SUFFICES ASSUME NEW k \in Keys, jobs[k].status \in Finished PROVE jobs'[k] = jobs[k]
    OBVIOUS
  <2>1. CASE Commit
    <3>1. k \notin DOMAIN draftJobs
      BY <1>1 DEF SoundInv, DraftIsSound
    <3>2. SeenJobs[k] = jobs[k]
      BY <1>1, <3>1, SeenTypes DEF SoundInv
    <3>. QED
      BY <1>1, <2>1, <3>2, CommitFacts
  <2>2. ASSUME NEW a \in Artists, jobs' = Discover(a) PROVE jobs'[k] = jobs[k]
    <3>1. WantsDiscovery(a) => jobs[DiscoveryKey(a)].status = "none"
      BY DEF WantsDiscovery, Exists
    <3>. QED
      BY <1>1, <2>2, <3>1, DiscoverFacts DEF SoundInv, Finished
  <2>3. CASE ~Commit /\ jobs' # jobs
    <3>1. PICK a \in Artists : jobs' = Discover(a)
      BY <1>1, <2>3 DEF Next, Collect, vars, StartPass, Reattempt, ReattemptFails, Claim, BeginCall,
         NoIdentity, DeferIdentity, CallFails, Refreshed, ChannelNotFound, IdentityResolved,
         IdentityUndecided, EndJob, UncommittedStays, EnqueueFails, Onboard, ResolveHint, Hang,
         Pause, Crash, Tick
    <3>. QED
      BY <2>2, <3>1
  <2>. QED
    BY <2>1, <2>3
<1>. QED
  BY <1>1, InitSoundInv, StepSoundInv, PTL DEF Spec, WindowsAreFinal

--------------------------------------------------------------------------------
(* What the steps make of the tables, as stored and as the pass sees them. *)

\* The identities a pass has read before it asks the registry are of artists
\* that were discovered.
ReadAfterDiscovery == \A i \in pass.idents : Exists(jobs, DiscoveryKey(i[2].owner))

\* Jobs `ks` are queued; a search only for an artist that has none ahead.
Grown(old, new, ks) ==
  /\ ks \subseteq Keys
  /\ \A k \in Keys \ ks : new[k] = old[k]
  /\ \A k \in ks : ~Exists(old, k) /\ new[k].status = "PENDING"
  /\ \A k \in ks : k.type = "identity" =>
       /\ ~ActiveExists(old, k.artist, "identity")
       /\ k = DiscoveryKey(k.artist) \/ Exists(old, DiscoveryKey(k.artist))
  /\ \A k, l \in ks : /\ k.type = "identity" /\ l.type = "identity"
                     /\ k.artist = l.artist /\ k # l
                     => {k.series, l.series} = Undecided

\* Jobs go on, and no search is new.
Moved(old, new) ==
  \A k \in Keys :
    /\ Exists(old, k) => Exists(new, k)
    /\ k.type = "identity" /\ Exists(new, k) => Exists(old, k)
    /\ k.type = "identity" /\ new[k].status \in Active => old[k].status \in Active

LEMMA QuietSees ==
  ASSUME UNCHANGED <<jobs, rows, draft>>
  PROVE  SeenJobs' = SeenJobs /\ SeenRows' = SeenRows
BY DEF SeenJobs, SeenRows, Over, draft

LEMMA EmptySees ==
  ASSUME SoundInv, SoundInv', DOMAIN draftJobs' = {}, DOMAIN draftRows' = {}
  PROVE  SeenJobs' = jobs' /\ SeenRows' = rows'
<1>1. jobs' = [k \in Keys |-> jobs'[k]] /\ rows' = [s \in Slots |-> rows'[s]]
  BY DEF SoundInv, TypeOK
<1>2. SeenJobs' = [k \in Keys |-> jobs'[k]] /\ SeenRows' = [s \in Slots |-> rows'[s]]
  BY <1>1 DEF SeenJobs, SeenRows, Over
<1>. QED
  BY <1>1, <1>2

LEMMA StartSees ==
  ASSUME SoundInv, StartPass, NEW old, old = SeenJobs, NEW seen, seen = SeenJobs'
  PROVE  /\ UNCHANGED <<jobs, rows>> /\ SeenJobs = jobs /\ SeenRows = rows /\ SeenRows' = rows
         /\ \E ks : Grown(old, seen, ks)
         /\ pass' # Off /\ pass'.idents = LiveIdentities
<1>. USE DEF SoundInv
<1>1. PICK onboarded \in Backfill : draftJobs' = NewJobs(StartsWith(onboarded), now)
  BY DEF StartPass, StartsWith
<1>2. PICK ks : ks = StartsWith(onboarded)
  OBVIOUS
<1>3. PICK new : new = NewJobs(ks, now)
  OBVIOUS
<1>4. /\ pass = Off /\ UncommittedStays /\ UNCHANGED draftRows /\ now \in 0 .. MaxTime
      /\ pass' = [at |-> "registry", clock |-> now, idents |-> LiveIdentities, todo |-> {},
                  job |-> NoKey, row |-> NoSlot, booked |-> FALSE]
  BY DEF StartPass, TypeOK
<1>5. SeenJobs = jobs /\ SeenRows = rows /\ DOMAIN draftRows = {}
  BY <1>4, OffIsEmpty
<1>6. DOMAIN new = ks /\ draftJobs' = new /\ \A k \in ks : new[k] = NewJob(now)
  BY <1>1, <1>2, <1>3 DEF NewJobs
<1>7. ks \subseteq Keys /\ \A k \in ks : ~Exists(old, k)
  BY <1>2, <1>5, StartFacts
<1>8. NewJob(now).status = "PENDING"
  BY <1>4, NewJobFacts
<1>9. jobs' = jobs /\ rows' = rows /\ DOMAIN jobs = Keys /\ DOMAIN rows = Slots
      /\ rows = [s \in Slots |-> rows[s]]
  BY <1>4 DEF UncommittedStays, TypeOK
<1>10. seen = [k \in Keys |-> IF k \in ks THEN new[k] ELSE jobs[k]]
  BY <1>6, <1>9 DEF SeenJobs, Over
<1>11. SeenRows' = [s \in Slots |-> rows[s]]
  BY <1>4, <1>5, <1>9 DEF SeenRows, Over
<1>12. \A k \in Keys \ ks : seen[k] = old[k]
  BY <1>5, <1>10
<1>13. \A k \in ks : seen[k].status = "PENDING"
  BY <1>6, <1>7, <1>8, <1>10
<1>14. ASSUME NEW k \in ks, k.type = "identity"
       PROVE  k = DiscoveryKey(k.artist) /\ ~ActiveExists(old, k.artist, "identity")
  <2>1. CASE k \in DueWindows
    <3>1. k \in Keys /\ k.series = "refresh"
      BY <2>1 DEF DueWindows
    <3>. QED
      BY <1>14, <3>1, KeyFields, DiscoveryFields DEF Undecided
  <2>2. CASE k \notin DueWindows
    <3>1. PICK a \in onboarded : k = DiscoveryKey(a)
      BY <1>2, <2>2 DEF StartsWith
    <3>2. a \in Artists /\ ~ActiveExists(jobs, a, "identity")
      BY BackfillFacts
    <3>3. k.artist = a
      BY <3>1, <3>2, DiscoveryFields
    <3>. QED
      BY <1>5, <3>1, <3>2, <3>3
  <2>. QED
    BY <2>1, <2>2
<1>15. Grown(old, seen, ks)
  BY <1>7, <1>12, <1>13, <1>14 DEF Grown
<1>16. pass' # Off /\ pass'.idents = LiveIdentities
  BY <1>4 DEF Off
<1>. QED
  BY <1>5, <1>9, <1>11, <1>15, <1>16

LEMMA ReattemptSees ==
  ASSUME SoundInv, Reattempt, ReadAfterDiscovery, NEW old, old = SeenJobs,
         NEW seen, seen = SeenJobs'
  PROVE  /\ UNCHANGED <<jobs, rows>> /\ SeenRows' = SeenRows
         /\ \E ks : Grown(old, seen, ks) /\ \A k \in ks : k.series \in Undecided
         /\ pass'.idents = {}
<1>. USE DEF SoundInv
<1>1. PICK registered \in Registry :
        /\ ~ReattemptRaises(registered)
        /\ draftJobs' = With(draftJobs, NewJobs({ReattemptOf(i) : i \in Reattempted(registered)},
                                                pass.clock))
  BY DEF Reattempt
<1>2. PICK ks : ks = {ReattemptOf(i) : i \in Reattempted(registered)}
  OBVIOUS
<1>3. PICK new : new = NewJobs(ks, pass.clock)
  OBVIOUS
<1>4. /\ pass # Off /\ UncommittedStays /\ UNCHANGED draftRows
      /\ pass' = [pass EXCEPT !.at = "claim", !.idents = {}]
  BY PassIsOn DEF Reattempt, PassIsAt
<1>5. pass.clock \in 0 .. MaxTime /\ pass \in Pass
  BY <1>4, PassFields
<1>6. DOMAIN new = ks /\ \A k \in ks : new[k].status = "PENDING"
  BY <1>3, <1>5, NewJobFacts DEF NewJobs
<1>7. draftJobs' = With(draftJobs, new) /\ UNCHANGED <<jobs, rows>>
  BY <1>1, <1>2, <1>3, <1>4 DEF UncommittedStays
<1>8. \A i \in Reattempted(registered) :
        /\ i[2].owner \in Artists /\ i[2].status \in Undecided /\ i \in pass.idents
        /\ ReattemptOf(i) \in Keys /\ ~Exists(SeenJobs, ReattemptOf(i))
        /\ ReattemptOf(i).artist = i[2].owner /\ ReattemptOf(i).type = "identity"
        /\ ReattemptOf(i).series = i[2].status
        /\ ~ActiveExists(SeenJobs, i[2].owner, "identity")
  BY <1>4, ReattemptFacts
<1>9. ks \subseteq Keys
  BY <1>2, <1>8
<1>10. DOMAIN Nothing = {} /\ draftRows' = With(draftRows, Nothing)
  BY <1>4, Undrafted
<1>11. /\ SeenJobs' = [k \in Keys |-> IF k \in DOMAIN new THEN new[k] ELSE SeenJobs[k]]
       /\ SeenRows' = [s \in Slots |-> IF s \in DOMAIN Nothing THEN Nothing[s] ELSE SeenRows[s]]
  <2>1. DOMAIN new \subseteq Keys /\ DOMAIN Nothing \subseteq Slots
    BY <1>6, <1>9, <1>10
  <2>2. SeenJobs' = [k \in Keys |-> IF k \in DOMAIN new THEN new[k] ELSE SeenJobs[k]]
    BY <1>7, <1>10, <2>1, SeenAfter
  <2>3. SeenRows' = [s \in Slots |-> IF s \in DOMAIN Nothing THEN Nothing[s] ELSE SeenRows[s]]
    BY <1>7, <1>10, <2>1, SeenAfter
  <2>. QED
    BY <2>2, <2>3
<1>12. SeenRows' = SeenRows
  BY <1>10, <1>11, SeenTypes
<1>13. /\ \A k \in Keys \ ks : seen[k] = old[k]
       /\ \A k \in ks : seen[k].status = "PENDING"
  BY <1>6, <1>9, <1>11
<1>14. ASSUME NEW k \in ks
       PROVE  /\ ~Exists(old, k) /\ ~ActiveExists(old, k.artist, "identity")
              /\ Exists(old, DiscoveryKey(k.artist)) /\ k.series \in Undecided
  <2>1. PICK i \in Reattempted(registered) : k = ReattemptOf(i)
    BY <1>2
  <2>2. k.artist = i[2].owner /\ i \in pass.idents /\ i[2].owner \in Artists
    BY <1>8, <2>1
  <2>3. Exists(jobs, DiscoveryKey(k.artist)) /\ DiscoveryKey(k.artist) \in Keys
    BY <1>5, <2>2, KeyTypes DEF ReadAfterDiscovery
  <2>4. Exists(SeenJobs, DiscoveryKey(k.artist))
    BY <2>3, SeenTypes DEF Exists, DraftIsSound
  <2>. QED
    BY <1>8, <2>1, <2>4
<1>15. ASSUME NEW k \in ks, NEW l \in ks, k.artist = l.artist, k # l
       PROVE  {k.series, l.series} = Undecided
  <2>1. PICK i \in Reattempted(registered) : k = ReattemptOf(i)
    BY <1>2
  <2>2. PICK j \in Reattempted(registered) : l = ReattemptOf(j)
    BY <1>2
  <2>3. i[2].owner = j[2].owner
    BY <1>8, <1>15, <2>1, <2>2
  <2>4. i[2].status # j[2].status
    BY <1>15, <2>1, <2>2, <2>3 DEF ReattemptOf
  <2>5. k.series = i[2].status /\ l.series = j[2].status
    BY <1>8, <2>1, <2>2
  <2>. QED
    BY <1>8, <2>4, <2>5 DEF Undecided
<1>16. Grown(old, seen, ks)
  BY <1>9, <1>13, <1>14, <1>15 DEF Grown
<1>17. pass'.idents = {}
  BY <1>4, <1>5 DEF Pass
<1>. QED
  BY <1>7, <1>12, <1>14, <1>16, <1>17

LEMMA ClaimSees ==
  ASSUME SoundInv, Claim, NEW old, old = SeenJobs, NEW seen, seen = SeenJobs'
  PROVE  /\ UNCHANGED <<jobs, rows>> /\ SeenRows' = SeenRows
         /\ Moved(old, seen)
         /\ \A k \in Keys : /\ old[k].status \in Active => seen[k].status \in Active
                            /\ seen[k].result = old[k].result
         /\ pass # Off /\ pass'.idents = pass.idents
<1>. USE DEF SoundInv
<1>1. PICK batch \in SUBSET Due(SeenJobs, pass.clock) :
        /\ draftJobs' = With(draftJobs, [k \in batch |-> Claimed(SeenJobs[k])])
        /\ pass' = [pass EXCEPT !.at = "next", !.todo = batch]
  BY DEF Claim
<1>2. PICK new : new = [k \in batch |-> Claimed(SeenJobs[k])]
  OBVIOUS
<1>3. pass # Off /\ UncommittedStays /\ UNCHANGED draftRows
  BY PassIsOn DEF Claim, PassIsAt
<1>4. \A k \in batch : k \in Keys /\ old[k].status \in Active
  BY DEF Due, Active
<1>5. DOMAIN new = batch /\ batch \subseteq Keys
  BY <1>2, <1>4
<1>6. DOMAIN Nothing = {} /\ draftRows' = With(draftRows, Nothing)
  BY <1>3, Undrafted
<1>7. /\ SeenJobs' = [k \in Keys |-> IF k \in DOMAIN new THEN new[k] ELSE SeenJobs[k]]
      /\ SeenRows' = [s \in Slots |-> IF s \in DOMAIN Nothing THEN Nothing[s] ELSE SeenRows[s]]
  <2>1. DOMAIN new \subseteq Keys /\ DOMAIN Nothing \subseteq Slots /\ UNCHANGED <<jobs, rows>>
        /\ draftJobs' = With(draftJobs, new)
    BY <1>1, <1>2, <1>3, <1>5, <1>6 DEF UncommittedStays
  <2>2. SeenJobs' = [k \in Keys |-> IF k \in DOMAIN new THEN new[k] ELSE SeenJobs[k]]
    BY <1>6, <2>1, SeenAfter
  <2>3. SeenRows' = [s \in Slots |-> IF s \in DOMAIN Nothing THEN Nothing[s] ELSE SeenRows[s]]
    BY <1>6, <2>1, SeenAfter
  <2>. QED
    BY <2>2, <2>3
<1>8. SeenRows' = SeenRows
  BY <1>6, <1>7, SeenTypes
<1>9. ASSUME NEW j \in Jobs PROVE Claimed(j).status = "RUNNING" /\ Claimed(j).result = j.result
  BY DEF Claimed, Jobs
<1>10. ASSUME NEW k \in batch PROVE seen[k].status = "RUNNING" /\ seen[k].result = old[k].result
  <2>1. seen[k] = Claimed(old[k]) /\ old[k] \in Jobs
    BY <1>2, <1>4, <1>5, <1>7, SeenTypes
  <2>. QED
    BY <1>9, <2>1
<1>11. \A k \in Keys \ batch : seen[k] = old[k]
  BY <1>5, <1>7
<1>12. Moved(old, seen)
  BY <1>4, <1>10, <1>11 DEF Moved, Exists, Active
<1>13. \A k \in Keys : /\ old[k].status \in Active => seen[k].status \in Active
                      /\ seen[k].result = old[k].result
  BY <1>10, <1>11 DEF Active
<1>14. pass'.idents = pass.idents
  BY <1>1, <1>3, PassFields DEF Pass
<1>. QED
  BY <1>3, <1>8, <1>12, <1>13, <1>14 DEF UncommittedStays

LEMMA EndsSees ==
  ASSUME SoundInv, NEW k, NEW job, NEW ks, NEW written, EndsJob(k, job, ks, written)
  PROVE  /\ UNCHANGED <<jobs, rows>> /\ k \in Keys /\ ks \subseteq Keys
         /\ SeenJobs[k].status = "RUNNING" /\ job.status # "none"
         /\ \A x \in Keys \ (ks \cup {k}) : SeenJobs'[x] = SeenJobs[x]
         /\ \A x \in ks : ~Exists(SeenJobs, x) /\ SeenJobs'[x].status = "PENDING"
                          /\ x.type # "identity"
         /\ SeenJobs'[k] = job
         /\ SeenRows' = [s \in Slots |-> IF s \in DOMAIN written THEN written[s] ELSE SeenRows[s]]
         /\ pass # Off /\ pass'.idents = pass.idents
<1>. USE DEF SoundInv
<1>0. pass # Off /\ k \in pass.todo /\ pass.clock \in 0 .. MaxTime /\ ks \subseteq Keys
      /\ DOMAIN written \subseteq Slots
  BY PassIsOn, PassFields DEF EndsJob
<1>1. k \in Keys /\ SeenJobs[k] \in Jobs /\ JobIsSound(SeenJobs[k]) /\ SeenJobs[k].status = "RUNNING"
  BY <1>0, TodoIsRunning
<1>2. job.status # "none"
  BY <1>0, <1>1, JobEnds DEF EndsJob, Ended
<1>3. PICK new : new = With(NewJobs(ks, pass.clock), [x \in {k} |-> job])
  OBVIOUS
<1>4. /\ DOMAIN new = ks \cup {k}
      /\ new[k] = job /\ \A x \in ks \ {k} : new[x] = NewJob(pass.clock)
  BY <1>3 DEF With, NewJobs
<1>5. /\ draftJobs' = With(draftJobs, new) /\ draftRows' = With(draftRows, written)
      /\ UncommittedStays
      /\ pass' = [pass EXCEPT !.at = "next", !.todo = @ \ {k}, !.job = NoKey, !.row = NoSlot,
                              !.booked = @ \/ pass.at = "call"]
  BY <1>3 DEF EndsJob, EndJob
<1>6. DOMAIN new \subseteq Keys /\ UNCHANGED <<jobs, rows>>
  BY <1>0, <1>1, <1>4, <1>5 DEF UncommittedStays
<1>7. /\ SeenJobs' = [x \in Keys |-> IF x \in DOMAIN new THEN new[x] ELSE SeenJobs[x]]
      /\ SeenRows' = [s \in Slots |-> IF s \in DOMAIN written THEN written[s] ELSE SeenRows[s]]
  <2>1. SeenJobs' = [x \in Keys |-> IF x \in DOMAIN new THEN new[x] ELSE SeenJobs[x]]
    BY <1>0, <1>5, <1>6, SeenAfter
  <2>2. DOMAIN written \subseteq Slots /\ DOMAIN new \subseteq Keys /\ UNCHANGED <<jobs, rows>>
        /\ draftJobs' = With(draftJobs, new) /\ draftRows' = With(draftRows, written)
    BY <1>0, <1>5, <1>6
  <2>3. SeenRows' = [s \in Slots |-> IF s \in DOMAIN written THEN written[s] ELSE SeenRows[s]]
    BY <2>2, SeenAfter
  <2>. QED
    BY <2>1, <2>3
<1>8. \A x \in ks : x \in Keys /\ ~Exists(SeenJobs, x) /\ x.type # "identity" /\ x # k
  BY <1>0, <1>1 DEF EndsJob, Exists
<1>9. ASSUME NEW x \in ks PROVE SeenJobs'[x].status = "PENDING"
  BY <1>0, <1>4, <1>7, <1>8, NewJobFacts
<1>10. pass'.idents = pass.idents
  BY <1>0, <1>5, PassFields DEF Pass
<1>. QED
  BY <1>0, <1>1, <1>2, <1>4, <1>6, <1>7, <1>8, <1>9, <1>10

--------------------------------------------------------------------------------
(* Searches.  Of what is stored and of what the pass sees alike: an artist *)
(* of whom anything is known was discovered first, so its discovery, which *)
(* is queued once, never runs beside another search.                       *)

OneAhead(table) ==
  \A a \in Artists : \A k, l \in ActiveJobs(table, a, "identity") :
    k # l => {k.series, l.series} = Undecided

DiscoveryFirst(table, ids) ==
  /\ \A k \in Keys : k.type = "identity" /\ Exists(table, k) => Exists(table, DiscoveryKey(k.artist))
  /\ \A s \in Slots : ids[s].owner \in Artists => Exists(table, DiscoveryKey(ids[s].owner))

SearchesAreSound ==
  /\ OneAhead(jobs) /\ OneAhead(SeenJobs)
  /\ DiscoveryFirst(jobs, rows) /\ DiscoveryFirst(SeenJobs, SeenRows)
  /\ pass # Off => ReadAfterDiscovery

LEMMA GrownSearches ==
  ASSUME NEW old, NEW new, NEW ks, NEW ids, Grown(old, new, ks),
         OneAhead(old), DiscoveryFirst(old, ids)
  PROVE  OneAhead(new) /\ DiscoveryFirst(new, ids)
<1>1. \A k \in Keys : Exists(old, k) => Exists(new, k)
  BY DEF Grown, Exists
<1>2. \A k \in ks : k \in Keys /\ Exists(new, k)
  BY DEF Grown, Exists
<1>3. OneAhead(new)
  <2>. SUFFICES ASSUME NEW a \in Artists, NEW k \in Keys, NEW l \in Keys, k # l,
                       k.artist = a, k.type = "identity", new[k].status \in Active,
                       l.artist = a, l.type = "identity", new[l].status \in Active
                PROVE  {k.series, l.series} = Undecided
    BY DEF OneAhead, ActiveJobs
  <2>1. CASE k \notin ks /\ l \notin ks
    BY <2>1 DEF Grown, OneAhead, ActiveJobs
  <2>2. CASE k \in ks /\ l \in ks
    BY <2>2 DEF Grown
  <2>3. ASSUME NEW x \in ks, NEW y \in Keys \ ks, x.type = "identity", y.type = "identity",
               x.artist = y.artist, new[y].status \in Active
        PROVE  FALSE
    <3>1. old[y].status \in Active /\ ~ActiveExists(old, x.artist, "identity")
      BY <2>3 DEF Grown
    <3>. QED
      BY <2>3, <3>1 DEF ActiveExists, ActiveJobs
  <2>. QED
    BY <2>1, <2>2, <2>3
<1>4. DiscoveryFirst(new, ids)
  <2>1. ASSUME NEW k \in Keys, k.type = "identity", Exists(new, k)
        PROVE  Exists(new, DiscoveryKey(k.artist))
    <3>1. DiscoveryKey(k.artist) \in Keys
      BY KeyFields, KeyTypes
    <3>2. CASE k \in ks
      BY <1>1, <1>2, <3>1, <3>2, <2>1 DEF Grown
    <3>3. CASE k \notin ks
      <4>1. Exists(old, k)
        BY <2>1, <3>3 DEF Grown, Exists
      <4>. QED
        BY <1>1, <2>1, <3>1, <4>1 DEF DiscoveryFirst
    <3>. QED
      BY <3>2, <3>3
  <2>2. ASSUME NEW s \in Slots, ids[s].owner \in Artists
        PROVE  Exists(new, DiscoveryKey(ids[s].owner))
    <3>1. DiscoveryKey(ids[s].owner) \in Keys
      BY <2>2, KeyTypes
    <3>. QED
      BY <1>1, <2>2, <3>1 DEF DiscoveryFirst
  <2>. QED
    BY <2>1, <2>2 DEF DiscoveryFirst
<1>. QED
  BY <1>3, <1>4

LEMMA MovedSearches ==
  ASSUME NEW old, NEW new, NEW ids, NEW later, Moved(old, new),
         \A s \in Slots : later[s].owner \in Artists =>
           later[s].owner = ids[s].owner \/ Exists(old, DiscoveryKey(later[s].owner)),
         OneAhead(old), DiscoveryFirst(old, ids)
  PROVE  OneAhead(new) /\ DiscoveryFirst(new, later)
<1>1. OneAhead(new)
  BY DEF Moved, OneAhead, ActiveJobs
<1>2. ASSUME NEW k \in Keys, k.type = "identity", Exists(new, k)
      PROVE  Exists(new, DiscoveryKey(k.artist))
  <2>1. DiscoveryKey(k.artist) \in Keys
    BY KeyFields, KeyTypes
  <2>. QED
    BY <1>2, <2>1 DEF DiscoveryFirst, Moved
<1>3. ASSUME NEW s \in Slots, later[s].owner \in Artists
      PROVE  Exists(new, DiscoveryKey(later[s].owner))
  <2>1. DiscoveryKey(later[s].owner) \in Keys
    BY <1>3, KeyTypes
  <2>2. Exists(old, DiscoveryKey(later[s].owner))
    BY <1>3 DEF DiscoveryFirst
  <2>. QED
    BY <2>1, <2>2 DEF Moved
<1>. QED
  BY <1>1, <1>2, <1>3 DEF DiscoveryFirst

LEMMA SearchesAfter ==
  ASSUME NEW stored, stored = jobs', NEW ids, ids = rows', OneAhead(stored),
         DiscoveryFirst(stored, ids), NEW seen, seen = SeenJobs', NEW read, read = SeenRows',
         OneAhead(seen), DiscoveryFirst(seen, read), pass' # Off => ReadAfterDiscovery'
  PROVE  SearchesAreSound'
BY DEF SearchesAreSound, OneAhead, DiscoveryFirst, ActiveJobs, Exists

LEMMA SearchesBefore ==
  ASSUME SearchesAreSound
  PROVE  /\ \A stored, ids : stored = jobs /\ ids = rows => OneAhead(stored) /\ DiscoveryFirst(stored, ids)
         /\ \A seen, read : seen = SeenJobs /\ read = SeenRows => OneAhead(seen) /\ DiscoveryFirst(seen, read)
BY DEF SearchesAreSound, OneAhead, DiscoveryFirst, ActiveJobs, Exists

\* A step of the pass, which stores nothing.
LEMMA PassSearches ==
  ASSUME SearchesAreSound, UNCHANGED <<jobs, rows>>, NEW seen, seen = SeenJobs',
         NEW read, read = SeenRows', OneAhead(seen), DiscoveryFirst(seen, read),
         pass' # Off => ReadAfterDiscovery'
  PROVE  SearchesAreSound'
<1>1. PICK stored : stored = jobs
  OBVIOUS
<1>2. PICK ids : ids = rows
  OBVIOUS
<1>3. OneAhead(stored) /\ DiscoveryFirst(stored, ids)
  BY <1>1, <1>2, SearchesBefore
<1>4. stored = jobs' /\ ids = rows'
  BY <1>1, <1>2
<1>. QED
  BY <1>3, <1>4, SearchesAfter

LEMMA QuietSearches ==
  ASSUME SearchesAreSound, UNCHANGED <<jobs, rows, draft>>,
         pass' # Off => pass # Off /\ pass'.idents = pass.idents
  PROVE  SearchesAreSound'
<1>1. PICK seen : seen = SeenJobs
  OBVIOUS
<1>2. PICK read : read = SeenRows
  OBVIOUS
<1>3. OneAhead(seen) /\ DiscoveryFirst(seen, read)
  BY <1>1, <1>2, SearchesBefore
<1>4. seen = SeenJobs' /\ read = SeenRows'
  BY <1>1, <1>2, QuietSees
<1>5. pass' # Off => ReadAfterDiscovery'
  BY DEF SearchesAreSound, ReadAfterDiscovery, Exists
<1>. QED
  BY <1>3, <1>4, <1>5, PassSearches

LEMMA StartSearches ==
  ASSUME SoundInv, SearchesAreSound, StartPass PROVE SearchesAreSound'
<1>1. PICK old : old = SeenJobs
  OBVIOUS
<1>2. PICK seen : seen = SeenJobs'
  OBVIOUS
<1>3. PICK read : read = SeenRows'
  OBVIOUS
<1>4. /\ UNCHANGED <<jobs, rows>> /\ SeenJobs = jobs /\ SeenRows = rows /\ SeenRows' = rows
      /\ \E ks : Grown(old, seen, ks)
      /\ pass' # Off /\ pass'.idents = LiveIdentities
  BY <1>1, <1>2, StartSees
<1>5. OneAhead(old) /\ DiscoveryFirst(old, read)
  BY <1>1, <1>3, <1>4, SearchesBefore
<1>6. OneAhead(seen) /\ DiscoveryFirst(seen, read)
  BY <1>4, <1>5, GrownSearches
<1>7. ReadAfterDiscovery'
  <2>1. ASSUME NEW i \in LiveIdentities PROVE Exists(jobs, DiscoveryKey(i[2].owner))
    <3>1. i[1] \in Slots /\ i[2] = rows[i[1]] /\ i[2].owner \in Artists
      BY LiveFacts DEF SoundInv
    <3>. QED
      BY <3>1 DEF SearchesAreSound, DiscoveryFirst
  <2>. QED
    BY <1>4, <2>1 DEF ReadAfterDiscovery, Exists
<1>. QED
  BY <1>2, <1>3, <1>4, <1>6, <1>7, PassSearches

LEMMA ReattemptSearches ==
  ASSUME SoundInv, SearchesAreSound, Reattempt PROVE SearchesAreSound'
<1>1. PICK old : old = SeenJobs
  OBVIOUS
<1>2. PICK seen : seen = SeenJobs'
  OBVIOUS
<1>3. PICK read : read = SeenRows'
  OBVIOUS
<1>4. ReadAfterDiscovery
  BY PassIsOn DEF Reattempt, PassIsAt, SearchesAreSound
<1>5. /\ UNCHANGED <<jobs, rows>> /\ SeenRows' = SeenRows
      /\ \E ks : Grown(old, seen, ks) /\ \A k \in ks : k.series \in Undecided
      /\ pass'.idents = {}
  BY <1>1, <1>2, <1>4, ReattemptSees
<1>6. OneAhead(old) /\ DiscoveryFirst(old, read)
  BY <1>1, <1>3, <1>5, SearchesBefore
<1>7. OneAhead(seen) /\ DiscoveryFirst(seen, read)
  BY <1>5, <1>6, GrownSearches
<1>8. ReadAfterDiscovery'
  BY <1>5 DEF ReadAfterDiscovery
<1>. QED
  BY <1>2, <1>3, <1>5, <1>7, <1>8, PassSearches

LEMMA ClaimSearches ==
  ASSUME SoundInv, SearchesAreSound, Claim PROVE SearchesAreSound'
<1>1. PICK old : old = SeenJobs
  OBVIOUS
<1>2. PICK seen : seen = SeenJobs'
  OBVIOUS
<1>3. PICK read : read = SeenRows'
  OBVIOUS
<1>4. /\ UNCHANGED <<jobs, rows>> /\ SeenRows' = SeenRows /\ Moved(old, seen)
      /\ pass # Off /\ pass'.idents = pass.idents
  BY <1>1, <1>2, ClaimSees
<1>5. OneAhead(old) /\ DiscoveryFirst(old, read)
  BY <1>1, <1>3, <1>4, SearchesBefore
<1>6. OneAhead(seen) /\ DiscoveryFirst(seen, read)
  BY <1>4, <1>5, MovedSearches
<1>7. ReadAfterDiscovery'
  BY <1>4 DEF ReadAfterDiscovery, SearchesAreSound, Exists
<1>. QED
  BY <1>2, <1>3, <1>4, <1>6, <1>7, PassSearches

LEMMA EndsSearches ==
  ASSUME SoundInv, SearchesAreSound, NEW k, NEW job, NEW ks, NEW written,
         EndsJob(k, job, ks, written)
  PROVE  SearchesAreSound'
<1>1. PICK old : old = SeenJobs
  OBVIOUS
<1>2. PICK seen : seen = SeenJobs'
  OBVIOUS
<1>3. PICK before : before = SeenRows
  OBVIOUS
<1>4. PICK read : read = SeenRows'
  OBVIOUS
<1>5. /\ UNCHANGED <<jobs, rows>> /\ k \in Keys /\ ks \subseteq Keys
      /\ SeenJobs[k].status = "RUNNING" /\ job.status # "none"
      /\ \A x \in Keys \ (ks \cup {k}) : SeenJobs'[x] = SeenJobs[x]
      /\ \A x \in ks : ~Exists(SeenJobs, x) /\ SeenJobs'[x].status = "PENDING"
                      /\ x.type # "identity"
      /\ SeenJobs'[k] = job
      /\ SeenRows' = [s \in Slots |-> IF s \in DOMAIN written THEN written[s] ELSE SeenRows[s]]
      /\ pass # Off /\ pass'.idents = pass.idents
  BY EndsSees
<1>6. OneAhead(old) /\ DiscoveryFirst(old, before)
  BY <1>1, <1>3, SearchesBefore
<1>7. Moved(old, seen)
  BY <1>1, <1>2, <1>5 DEF Moved, Exists, Active
<1>8. ASSUME NEW s \in Slots, read[s].owner \in Artists
      PROVE  read[s].owner = before[s].owner \/ Exists(old, DiscoveryKey(read[s].owner))
  <2>1. CASE s \notin DOMAIN written
    BY <1>3, <1>4, <1>5, <2>1
  <2>2. CASE s \in DOMAIN written
    <3>1. read[s] = written[s] /\ WritesOwn(k, s, written[s])
      BY <1>4, <1>5, <2>2 DEF EndsJob
    <3>2. k.type = "identity" => Exists(old, DiscoveryKey(k.artist))
      BY <1>1, <1>5, <1>6 DEF DiscoveryFirst, Exists
    <3>. QED
      BY <1>3, <3>1, <3>2 DEF WritesOwn
  <2>. QED
    BY <2>1, <2>2
<1>9. OneAhead(seen) /\ DiscoveryFirst(seen, read)
  BY <1>6, <1>7, <1>8, MovedSearches
<1>10. ReadAfterDiscovery'
  BY <1>5 DEF ReadAfterDiscovery, SearchesAreSound, Exists
<1>. QED
  BY <1>2, <1>4, <1>5, <1>9, <1>10, PassSearches

\* A pass that ends: what it saw is stored, or what is stored is seen again.
LEMMA EmptySearches ==
  ASSUME SoundInv, SoundInv', SearchesAreSound, DOMAIN draftJobs' = {}, DOMAIN draftRows' = {},
         pass' = Off,
         (jobs' = jobs /\ rows' = rows) \/ (jobs' = SeenJobs /\ rows' = SeenRows)
  PROVE  SearchesAreSound'
<1>1. PICK stored : stored = jobs'
  OBVIOUS
<1>2. PICK ids : ids = rows'
  OBVIOUS
<1>3. stored = SeenJobs' /\ ids = SeenRows'
  BY <1>1, <1>2, EmptySees
<1>4. OneAhead(stored) /\ DiscoveryFirst(stored, ids)
  BY <1>1, <1>2, SearchesBefore
<1>. QED
  BY <1>1, <1>2, <1>3, <1>4, SearchesAfter

\* A discovery is queued only for an artist of whom nothing is known, to
\* others or to the pass.
LEMMA DiscoverSees ==
  ASSUME SoundInv, SearchesAreSound, NEW a \in Artists, ~InsertBlocked(a),
         jobs' = Discover(a), UNCHANGED draft,
         NEW old, old = jobs, NEW new, new = jobs', NEW before, before = SeenJobs,
         NEW seen, seen = SeenJobs'
  PROVE  \E ks \in SUBSET {DiscoveryKey(a)} : Grown(old, new, ks) /\ Grown(before, seen, ks)
<1>. DEFINE d == DiscoveryKey(a)
<1>1. /\ d \in Keys /\ d.artist = a /\ d.type = "identity" /\ now \in 0 .. MaxTime
      /\ jobs \in [Keys -> Jobs] /\ DOMAIN new = Keys
      /\ \A k \in Keys \ {d} : new[k] = jobs[k]
      /\ new[d] = IF WantsDiscovery(a) THEN NewJob(now) ELSE jobs[d]
  BY DiscoverFacts, DiscoveryFields DEF SoundInv, TypeOK
<1>2. /\ \A k \in Keys : SeenJobs[k] = IF k \in DOMAIN draftJobs THEN draftJobs[k] ELSE jobs[k]
      /\ \A k \in Keys : seen[k] = IF k \in DOMAIN draftJobs THEN draftJobs[k] ELSE new[k]
  BY <1>1, SeenTypes DEF SoundInv, SeenJobs, Over, draft
<1>. HIDE DEF d
<1>3. CASE ~WantsDiscovery(a)
  <2>1. \A k \in Keys : new[k] = old[k] /\ seen[k] = before[k]
    BY <1>1, <1>2, <1>3
  <2>2. Grown(old, new, {}) /\ Grown(before, seen, {})
    BY <2>1 DEF Grown
  <2>. QED
    BY <2>2
<1>4. CASE WantsDiscovery(a)
  <2>1. ~Exists(old, d) /\ ~ActiveExists(old, a, "identity")
    BY <1>4 DEF WantsDiscovery, d
  <2>2. d \notin DOMAIN draftJobs
    BY <1>4 DEF InsertBlocked, d
  <2>3. ~Exists(before, d)
    BY <1>1, <1>2, <2>1, <2>2 DEF Exists
  <2>4. ~ActiveExists(before, a, "identity")
    <3>1. ASSUME NEW k \in Keys, k.artist = a, k.type = "identity", before[k].status \in Active
          PROVE  FALSE
      <4>1. Exists(before, k)
        BY <3>1 DEF Exists, Active
      <4>2. Exists(before, DiscoveryKey(k.artist))
        BY <3>1, <4>1 DEF SearchesAreSound, DiscoveryFirst
      <4>. QED
        BY <2>3, <3>1, <4>2 DEF d
    <3>. QED
      BY <3>1 DEF ActiveExists, ActiveJobs
  <2>5. new[d].status = "PENDING" /\ seen[d] = new[d]
    BY <1>1, <1>2, <1>4, <2>2, NewJobFacts
  <2>6. \A k \in Keys \ {d} : new[k] = old[k] /\ seen[k] = before[k]
    BY <1>1, <1>2
  <2>7. d = DiscoveryKey(d.artist)
    BY <1>1 DEF d
  <2>8. Grown(old, new, {d})
    BY <1>1, <2>1, <2>5, <2>6, <2>7 DEF Grown
  <2>9. Grown(before, seen, {d})
    BY <1>1, <2>3, <2>4, <2>5, <2>6, <2>7 DEF Grown
  <2>. QED
    BY <2>8, <2>9 DEF d
<1>. QED
  BY <1>3, <1>4

LEMMA OnboardSearches ==
  ASSUME SoundInv, SearchesAreSound, NEW a \in Artists, Onboard(a) PROVE SearchesAreSound'
<1>1. PICK old : old = jobs
  OBVIOUS
<1>2. PICK new : new = jobs'
  OBVIOUS
<1>3. PICK before : before = SeenJobs
  OBVIOUS
<1>4. PICK seen : seen = SeenJobs'
  OBVIOUS
<1>5. PICK ids : ids = rows'
  OBVIOUS
<1>6. PICK read : read = SeenRows'
  OBVIOUS
<1>7. /\ ~InsertBlocked(a) /\ jobs' = Discover(a)
      /\ UNCHANGED <<now, rows, paused, pass, draft, hung, crashes>>
  BY DEF Onboard
<1>8. \E ks : Grown(old, new, ks) /\ Grown(before, seen, ks)
  BY <1>1, <1>2, <1>3, <1>4, <1>7, DiscoverSees
<1>9. ids = rows /\ read = SeenRows
  BY <1>5, <1>6, <1>7 DEF SeenRows, Over, draft
<1>10. /\ OneAhead(old) /\ DiscoveryFirst(old, ids)
       /\ OneAhead(before) /\ DiscoveryFirst(before, read)
  BY <1>1, <1>3, <1>9, SearchesBefore
<1>11. /\ OneAhead(new) /\ DiscoveryFirst(new, ids)
       /\ OneAhead(seen) /\ DiscoveryFirst(seen, read)
  BY <1>8, <1>10, GrownSearches
<1>12. ASSUME pass' # Off, NEW i \in pass.idents PROVE Exists(new, DiscoveryKey(i[2].owner))
  <2>1. i[2].owner \in Artists /\ Exists(jobs, DiscoveryKey(i[2].owner))
    BY <1>7, <1>12, PassFields DEF SearchesAreSound, ReadAfterDiscovery, SoundInv
  <2>2. DiscoveryKey(i[2].owner) \in Keys
    BY <2>1, KeyTypes
  <2>. QED
    BY <1>1, <1>8, <2>1, <2>2 DEF Grown, Exists
<1>13. pass' # Off => ReadAfterDiscovery'
  BY <1>2, <1>7, <1>12 DEF ReadAfterDiscovery, Exists
<1>. QED
  BY <1>2, <1>4, <1>5, <1>6, <1>11, <1>13, SearchesAfter

LEMMA HintSearches ==
  ASSUME SoundInv, SearchesAreSound, NEW a \in Artists, ResolveHint(a) PROVE SearchesAreSound'
<1>1. PICK old : old = jobs
  OBVIOUS
<1>2. PICK new : new = jobs'
  OBVIOUS
<1>3. PICK before : before = SeenJobs
  OBVIOUS
<1>4. PICK seen : seen = SeenJobs'
  OBVIOUS
<1>5. PICK ids : ids = rows
  OBVIOUS
<1>6. PICK later : later = rows'
  OBVIOUS
<1>7. /\ ~InsertBlocked(a) /\ jobs' = Discover(a) /\ (pass # Off => ~pass.booked)
      /\ UNCHANGED <<now, paused, pass, draft, hung, crashes>>
  BY DEF ResolveHint
<1>8. PICK s \in Slots :
        /\ s[1] = "channel" /\ s # Pending(a)
        /\ rows' \in [Slots -> IdentityRows]
        /\ rows'[s] = [owner |-> a, status |-> "RESOLVED"]
        /\ \A x \in Slots : rows'[x] = rows[x] \/ (x \in {s, Pending(a)} /\ rows'[x].owner = a)
  BY HintStep DEF SoundInv
<1>9. PICK ks \in SUBSET {DiscoveryKey(a)} : Grown(old, new, ks) /\ Grown(before, seen, ks)
  BY <1>1, <1>2, <1>3, <1>4, <1>7, DiscoverSees
<1>10. SeenRows = ids /\ SeenRows' = later
  <2>1. DOMAIN draftRows = {}
    BY <1>7 DEF SoundInv, DraftIsSound, PassIsSound
  <2>2. rows = [x \in Slots |-> rows[x]] /\ rows' = [x \in Slots |-> rows'[x]]
    BY <1>8 DEF SoundInv, TypeOK
  <2>. QED
    BY <1>5, <1>6, <1>7, <2>1, <2>2 DEF SeenRows, Over, draft
<1>11. /\ OneAhead(old) /\ DiscoveryFirst(old, ids)
       /\ OneAhead(before) /\ DiscoveryFirst(before, ids)
  BY <1>1, <1>3, <1>5, <1>10, SearchesBefore
<1>12. /\ OneAhead(new) /\ DiscoveryFirst(new, ids)
       /\ OneAhead(seen) /\ DiscoveryFirst(seen, ids)
  BY <1>9, <1>11, GrownSearches
<1>13. Exists(new, DiscoveryKey(a)) /\ Exists(seen, DiscoveryKey(a))
  <2>1. DiscoveryKey(a) \in Keys
    BY DiscoverFacts DEF SoundInv
  <2>2. Exists(new, DiscoveryKey(a))
    <3>1. CASE WantsDiscovery(a)
      <4>1. new[DiscoveryKey(a)] = NewJob(now) /\ now \in 0 .. MaxTime
        BY <1>2, <1>7, <3>1, DiscoverFacts DEF SoundInv, TypeOK
      <4>. QED
        BY <4>1, NewJobFacts DEF Exists
    <3>2. CASE ~WantsDiscovery(a)
      <4>1. new[DiscoveryKey(a)] = old[DiscoveryKey(a)]
        BY <1>1, <1>2, <1>7, <3>2, DiscoverFacts DEF SoundInv
      <4>2. CASE Resolved(ids, a) # {}
        BY <1>11, <4>1, <4>2 DEF Resolved, OwnedBy, DiscoveryFirst, Exists
      <4>3. CASE ActiveExists(old, a, "identity")
        <5>1. PICK k \in Keys : k.artist = a /\ k.type = "identity" /\ old[k].status \in Active
          BY <4>3 DEF ActiveExists, ActiveJobs
        <5>2. Exists(old, k)
          BY <5>1 DEF Exists, Active
        <5>. QED
          BY <1>11, <4>1, <5>1, <5>2 DEF DiscoveryFirst, Exists
      <4>4. CASE Exists(old, DiscoveryKey(a))
        BY <4>1, <4>4 DEF Exists
      <4>. QED
        BY <1>1, <1>5, <3>2, <4>2, <4>3, <4>4
           DEF WantsDiscovery, Resolved, OwnedBy, ActiveExists, ActiveJobs, Exists
    <3>. QED
      BY <3>1, <3>2
  <2>3. seen[DiscoveryKey(a)] = IF DiscoveryKey(a) \in DOMAIN draftJobs
                                THEN draftJobs[DiscoveryKey(a)] ELSE new[DiscoveryKey(a)]
    BY <1>2, <1>4, <1>7, <2>1, DiscoverFacts DEF SoundInv, SeenJobs, Over, draft
  <2>4. DiscoveryKey(a) \in DOMAIN draftJobs => draftJobs[DiscoveryKey(a)].status # "none"
    BY DEF SoundInv, DraftIsSound
  <2>. QED
    BY <2>2, <2>3, <2>4 DEF Exists
<1>14. \A x \in Slots : later[x].owner = ids[x].owner \/ later[x].owner = a
  BY <1>5, <1>6, <1>8
<1>15. Moved(new, new) /\ Moved(seen, seen)
  BY DEF Moved
<1>16. OneAhead(new) /\ DiscoveryFirst(new, later)
  BY <1>12, <1>13, <1>14, <1>15, MovedSearches
<1>17. OneAhead(seen) /\ DiscoveryFirst(seen, later)
  BY <1>12, <1>13, <1>14, <1>15, MovedSearches
<1>18. ASSUME pass' # Off, NEW i \in pass.idents PROVE Exists(new, DiscoveryKey(i[2].owner))
  <2>1. i[2].owner \in Artists /\ Exists(jobs, DiscoveryKey(i[2].owner))
    BY <1>7, <1>18, PassFields DEF SearchesAreSound, ReadAfterDiscovery, SoundInv
  <2>2. DiscoveryKey(i[2].owner) \in Keys
    BY <2>1, KeyTypes
  <2>. QED
    BY <1>1, <1>9, <2>1, <2>2 DEF Grown, Exists
<1>19. pass' # Off => ReadAfterDiscovery'
  BY <1>2, <1>7, <1>18 DEF ReadAfterDiscovery, Exists
<1>20. later = SeenRows'
  BY <1>10
<1>. QED
  BY <1>2, <1>4, <1>6, <1>16, <1>17, <1>19, <1>20, SearchesAfter

SearchInv == SoundInv /\ SearchesAreSound

LEMMA StepSearchInv == SearchInv /\ [Next]_vars => SearchInv'
<1>. SUFFICES ASSUME SearchInv, [Next]_vars PROVE SearchesAreSound'
  BY StepSoundInv DEF SearchInv
<1>. USE DEF SearchInv
<1>0. SoundInv'
  BY StepSoundInv
<1>1. CASE UNCHANGED vars
  BY <1>1, QuietSearches DEF vars
<1>2. CASE StartPass
  BY <1>2, StartSearches
<1>3. CASE Reattempt
  BY <1>3, ReattemptSearches
<1>4. ASSUME Abandon, UNCHANGED <<jobs, rows>> PROVE SearchesAreSound'
  <2>1. DOMAIN draftJobs' = {} /\ DOMAIN draftRows' = {} /\ pass' = Off
    BY <1>4 DEF Abandon, Nothing
  <2>. QED
    BY <1>0, <1>4, <2>1, EmptySearches
<1>5. CASE Claim
  BY <1>5, ClaimSearches
<1>6. CASE BeginCall
  <2>1. UNCHANGED <<jobs, rows, draft>> /\ pass # Off
    BY <1>6, PassIsOn DEF BeginCall, PassIsAt, UncommittedStays
  <2>2. pass'.idents = pass.idents
    BY <1>6, <2>1, PassFields DEF BeginCall, Pass, SoundInv
  <2>. QED
    BY <2>1, <2>2, QuietSearches
<1>7. CASE Ends
  BY <1>7, EndsJobs, EndsSearches
<1>8. CASE Commit
  BY <1>0, <1>8, CommitFacts, EmptySearches
<1>9. ASSUME NEW a \in Artists, Onboard(a) \/ ResolveHint(a) PROVE SearchesAreSound'
  BY <1>9, OnboardSearches, HintSearches
<1>10. ASSUME NEW a \in Artists, Hang(a) \/ Pause(a) PROVE SearchesAreSound'
  BY <1>10, QuietSearches DEF Hang, Pause
<1>11. CASE Tick
  BY <1>11, QuietSearches DEF Tick
<1>12. CASE ReattemptFails
  BY <1>4, <1>12 DEF ReattemptFails, UncommittedStays
<1>13. CASE Crash
  BY <1>4, <1>13 DEF Crash
<1>14. CASE EnqueueFails
  BY <1>1, <1>14 DEF EnqueueFails
<1>. QED
  BY <1>1, <1>2, <1>3, <1>5, <1>6, <1>7, <1>8, <1>9, <1>10, <1>11, <1>12, <1>13, <1>14
     DEF Next, Collect, Ends

LEMMA InitSearchInv == Init => SearchInv
<1>. SUFFICES ASSUME Init PROVE SearchInv
  OBVIOUS
<1>1. SoundInv
  BY InitSoundInv
<1>2. pass = Off /\ SeenJobs = jobs /\ SeenRows = rows
  BY <1>1, OffIsEmpty DEF Init
<1>3. \A k \in Keys : jobs[k].status = "none"
  BY DEF Init, NoJob
<1>4. \A s \in Slots : rows[s].owner \notin Artists
  BY DEF Init, NoRow
<1>5. OneAhead(jobs)
  BY <1>3 DEF OneAhead, ActiveJobs, Active
<1>6. DiscoveryFirst(jobs, rows)
  BY <1>3, <1>4 DEF DiscoveryFirst, Exists
<1>7. OneAhead(SeenJobs) /\ DiscoveryFirst(SeenJobs, SeenRows)
  BY <1>2, <1>5, <1>6 DEF OneAhead, ActiveJobs, DiscoveryFirst, Exists
<1>. QED
  BY <1>1, <1>2, <1>5, <1>6, <1>7 DEF SearchInv, SearchesAreSound

\* The stored queue is sound whatever a pass and the operators do: attempts
\* are spent on failures only, and no two searches of an artist are ahead
\* but those of one pass for two undecided identities.
THEOREM QueueStaysSound == Spec => []QueueIsSound
<1>1. ASSUME SearchInv PROVE QueueIsSound
  <2>1. TypeOK
    BY <1>1 DEF SearchInv, SoundInv
  <2>2. ASSUME NEW k \in Keys
        PROVE  /\ jobs[k].status \in Active => jobs[k].attempts = jobs[k].failures
               /\ jobs[k].result = "MAX_ATTEMPTS" => jobs[k].failures = MaxAttempts
    <3>1. JobIsSound(jobs[k]) /\ jobs[k].status # "RUNNING"
      BY <1>1, <2>1 DEF SearchInv, SoundInv, DraftIsSound, TypeOK
    <3>. QED
      BY <3>1 DEF JobIsSound, Active
  <2>3. OneSearchAhead
    BY <1>1 DEF SearchInv, SearchesAreSound, OneAhead, OneSearchAhead
  <2>. QED
    BY <2>1, <2>2, <2>3 DEF QueueIsSound, OnlyFailuresCount
<1>. QED
  BY <1>1, InitSearchInv, StepSearchInv, PTL DEF Spec

--------------------------------------------------------------------------------
(* Followers.  An artist that was discovered is followed, again in what is *)
(* stored and in what the pass sees: a step that takes one reason away     *)
(* gives another.                                                          *)

\* A search to come, or one that was given up.
Ahead(job) == job.status \in Active \/ job.result = "MAX_ATTEMPTS"

HasSearch(table, a) == \E k \in Keys : k.artist = a /\ k.type = "identity" /\ Ahead(table[k])
HasRow(ids, a) == \E s \in Slots : ids[s].owner = a /\ ids[s].status \in Undecided \cup {"RESOLVED"}
Displaced(ids, a) == \E s \in Slots : s[1] = "channel" /\ ids[s].owner \notin {a, "none"}

AllFollowed(table, ids) ==
  \A a \in Artists :
    Exists(table, DiscoveryKey(a)) => HasRow(ids, a) \/ HasSearch(table, a) \/ Displaced(ids, a)

\* The slot of an undecided identity is its artist's.
OwnSlots(ids) == \A a \in Artists : ids[Pending(a)].owner \in {a, "none"}

FollowingIsSound ==
  /\ AllFollowed(jobs, rows) /\ AllFollowed(SeenJobs, SeenRows)
  /\ OwnSlots(rows) /\ OwnSlots(SeenRows)

\* Rows change hands only to the artists in `found`, who are followed.
RowsMove(ids, later, found) ==
  \A s \in Slots :
    \/ later[s] = ids[s]
    \/ later[s].owner = ids[s].owner /\ later[s].status \in Undecided
    \/ later[s].owner \in found /\ (s = Pending(later[s].owner) \/ s[1] = "channel")

\* Searches go on, but for those of artists in `found`.
SearchesMove(old, new, found) ==
  \A k \in Keys : k.type = "identity" =>
    /\ (k.artist \notin found /\ Ahead(old[k])) => Ahead(new[k])
    /\ Exists(new, k) => (Exists(old, k) \/ Ahead(new[k]))

LEMMA PendingSlots ==
  ASSUME NEW a \in Artists
  PROVE  /\ Pending(a) \in Slots /\ Pending(a)[1] # "channel"
         /\ \A b \in Artists : Pending(a) = Pending(b) => a = b
BY DEF Pending, Slots

LEMMA FollowedStep ==
  ASSUME NEW old, NEW new, NEW ids, NEW later, NEW found \in SUBSET Artists,
         AllFollowed(old, ids), OwnSlots(ids),
         SearchesMove(old, new, found), RowsMove(ids, later, found),
         \A b \in found : HasRow(later, b) \/ HasSearch(new, b)
  PROVE  AllFollowed(new, later) /\ OwnSlots(later)
<1>1. AllFollowed(new, later)
  <2>. SUFFICES ASSUME NEW a \in Artists, Exists(new, DiscoveryKey(a)), a \notin found,
                       ~HasSearch(new, a)
                PROVE  HasRow(later, a) \/ Displaced(later, a)
    BY DEF AllFollowed
  <2>1. /\ DiscoveryKey(a) \in Keys /\ DiscoveryKey(a).type = "identity"
        /\ DiscoveryKey(a).artist = a
    <3>1. 0 \in 0 .. MaxTime
      OBVIOUS
    <3>. QED
      BY <3>1, KeyTypes, DiscoveryFields
  <2>2. ~Ahead(new[DiscoveryKey(a)])
    BY <2>1 DEF HasSearch
  <2>3. Exists(old, DiscoveryKey(a))
    BY <2>1, <2>2 DEF SearchesMove
  <2>4. ~HasSearch(old, a)
    BY DEF HasSearch, SearchesMove
  <2>5. HasRow(ids, a) \/ Displaced(ids, a)
    BY <2>3, <2>4 DEF AllFollowed
  <2>6. CASE HasRow(ids, a)
    <3>1. PICK s \in Slots : ids[s].owner = a /\ ids[s].status \in Undecided \cup {"RESOLVED"}
      BY <2>6 DEF HasRow
    <3>2. CASE \/ later[s] = ids[s]
               \/ later[s].owner = ids[s].owner /\ later[s].status \in Undecided
      BY <3>1, <3>2 DEF HasRow
    <3>3. CASE later[s].owner \in found /\ s = Pending(later[s].owner)
      BY <3>1, <3>3 DEF OwnSlots
    <3>4. CASE later[s].owner \in found /\ s[1] = "channel"
      BY <3>4 DEF Displaced
    <3>. QED
      BY <3>2, <3>3, <3>4 DEF RowsMove
  <2>7. CASE Displaced(ids, a)
    <3>1. PICK s \in Slots : s[1] = "channel" /\ ids[s].owner \notin {a, "none"}
      BY <2>7 DEF Displaced
    <3>2. later[s].owner \notin {a, "none"}
      BY <3>1 DEF RowsMove
    <3>. QED
      BY <3>1, <3>2 DEF Displaced
  <2>. QED
    BY <2>5, <2>6, <2>7
<1>2. ASSUME NEW a \in Artists PROVE later[Pending(a)].owner \in {a, "none"}
  <2>1. Pending(a) \in Slots /\ Pending(a)[1] # "channel" /\ ids[Pending(a)].owner \in {a, "none"}
    BY PendingSlots DEF OwnSlots
  <2>2. CASE later[Pending(a)].owner = ids[Pending(a)].owner
    BY <2>1, <2>2
  <2>3. CASE later[Pending(a)].owner \in found /\ Pending(a) = Pending(later[Pending(a)].owner)
    BY <2>3, PendingSlots
  <2>. QED
    BY <2>1, <2>2, <2>3 DEF RowsMove
<1>. QED
  BY <1>1, <1>2 DEF OwnSlots

\* New jobs take no search away.
LEMMA GrownFollowed ==
  ASSUME NEW old, NEW new, NEW ks, Grown(old, new, ks), NEW found,
         \A k \in Keys : JobIsSound(old[k])
  PROVE  SearchesMove(old, new, found)
<1>. SUFFICES ASSUME NEW k \in Keys
              PROVE  /\ Ahead(old[k]) => Ahead(new[k])
                     /\ Exists(new, k) => Exists(old, k) \/ Ahead(new[k])
  BY DEF SearchesMove
<1>1. CASE k \in ks
  BY <1>1 DEF Grown, Ahead, Active
<1>2. CASE k \notin ks
  BY <1>2 DEF Grown, Exists
<1>. QED
  BY <1>1, <1>2

LEMMA SeenIsSound == ASSUME SoundInv, NEW k \in Keys PROVE JobIsSound(jobs[k]) /\ JobIsSound(SeenJobs[k])
<1>1. JobIsSound(jobs[k])
  BY DEF SoundInv, DraftIsSound
<1>2. CASE k \in DOMAIN draftJobs
  <2>1. SeenJobs[k] = draftJobs[k]
    BY <1>2, SeenTypes DEF SoundInv
  <2>. QED
    BY <1>1, <1>2, <2>1 DEF SoundInv, DraftIsSound
<1>3. CASE k \notin DOMAIN draftJobs
  <2>1. SeenJobs[k] = jobs[k]
    BY <1>3, SeenTypes DEF SoundInv
  <2>. QED
    BY <1>1, <2>1
<1>. QED
  BY <1>2, <1>3

LEMMA FollowingAfter ==
  ASSUME NEW stored, stored = jobs', NEW ids, ids = rows', AllFollowed(stored, ids), OwnSlots(ids),
         NEW seen, seen = SeenJobs', NEW read, read = SeenRows', AllFollowed(seen, read), OwnSlots(read)
  PROVE  FollowingIsSound'
BY DEF FollowingIsSound, AllFollowed, OwnSlots, HasRow, HasSearch, Displaced, Ahead, Exists

LEMMA FollowingBefore ==
  ASSUME FollowingIsSound
  PROVE  /\ \A stored, ids : stored = jobs /\ ids = rows => AllFollowed(stored, ids) /\ OwnSlots(ids)
         /\ \A seen, read : seen = SeenJobs /\ read = SeenRows => AllFollowed(seen, read) /\ OwnSlots(read)
BY DEF FollowingIsSound, AllFollowed, OwnSlots, HasRow, HasSearch, Displaced, Ahead, Exists

\* A step of the pass, which stores nothing.
LEMMA PassFollowing ==
  ASSUME FollowingIsSound, UNCHANGED <<jobs, rows>>, NEW seen, seen = SeenJobs',
         NEW read, read = SeenRows', AllFollowed(seen, read), OwnSlots(read)
  PROVE  FollowingIsSound'
<1>1. PICK stored : stored = jobs
  OBVIOUS
<1>2. PICK ids : ids = rows
  OBVIOUS
<1>3. AllFollowed(stored, ids) /\ OwnSlots(ids)
  BY <1>1, <1>2, FollowingBefore
<1>4. stored = jobs' /\ ids = rows'
  BY <1>1, <1>2
<1>. QED
  BY <1>3, <1>4, FollowingAfter

LEMMA QuietFollowing ==
  ASSUME FollowingIsSound, UNCHANGED <<jobs, rows, draft>> PROVE FollowingIsSound'
<1>1. PICK seen : seen = SeenJobs
  OBVIOUS
<1>2. PICK read : read = SeenRows
  OBVIOUS
<1>3. AllFollowed(seen, read) /\ OwnSlots(read)
  BY <1>1, <1>2, FollowingBefore
<1>4. seen = SeenJobs' /\ read = SeenRows'
  BY <1>1, <1>2, QuietSees
<1>. QED
  BY <1>3, <1>4, PassFollowing

\* The pass queues jobs, or claims some.
LEMMA QueueFollowing ==
  ASSUME SearchInv, FollowingIsSound, StartPass \/ Reattempt \/ Claim PROVE FollowingIsSound'
<1>. USE DEF SearchInv
<1>1. PICK old : old = SeenJobs
  OBVIOUS
<1>2. PICK seen : seen = SeenJobs'
  OBVIOUS
<1>3. PICK read : read = SeenRows'
  OBVIOUS
<1>4. \A k \in Keys : JobIsSound(old[k])
  BY <1>1, SeenIsSound
<1>5. UNCHANGED <<jobs, rows>> /\ read = SeenRows /\ SearchesMove(old, seen, {})
  <2>1. CASE StartPass
    BY <1>1, <1>2, <1>3, <1>4, <2>1, StartSees, GrownFollowed
  <2>2. CASE Reattempt
    <3>1. ReadAfterDiscovery
      BY <2>2, PassIsOn DEF Reattempt, PassIsAt, SearchesAreSound
    <3>. QED
      BY <1>1, <1>2, <1>3, <1>4, <2>2, <3>1, ReattemptSees, GrownFollowed
  <2>3. CASE Claim
    <3>1. /\ UNCHANGED <<jobs, rows>> /\ SeenRows' = SeenRows
          /\ Moved(old, seen)
          /\ \A k \in Keys : /\ old[k].status \in Active => seen[k].status \in Active
                             /\ seen[k].result = old[k].result
      BY <1>1, <1>2, <2>3, ClaimSees
    <3>2. SearchesMove(old, seen, {})
      BY <3>1 DEF SearchesMove, Moved, Ahead
    <3>. QED
      BY <1>3, <3>1, <3>2
  <2>. QED
    BY <2>1, <2>2, <2>3
<1>6. AllFollowed(old, read) /\ OwnSlots(read)
  BY <1>1, <1>5, FollowingBefore
<1>7. RowsMove(read, read, {})
  BY DEF RowsMove
<1>8. AllFollowed(seen, read) /\ OwnSlots(read)
  BY <1>5, <1>6, <1>7, FollowedStep
<1>. QED
  BY <1>2, <1>3, <1>5, <1>8, PassFollowing

\* A job ends: a search is given up, comes again, or leaves a row.
LEMMA EndsFollowing ==
  ASSUME SoundInv, FollowingIsSound, NEW k, NEW job, NEW ks, NEW written,
         EndsJob(k, job, ks, written)
  PROVE  FollowingIsSound'
<1>1. PICK old : old = SeenJobs
  OBVIOUS
<1>2. PICK seen : seen = SeenJobs'
  OBVIOUS
<1>3. PICK before : before = SeenRows
  OBVIOUS
<1>4. PICK read : read = SeenRows'
  OBVIOUS
<1>5. /\ UNCHANGED <<jobs, rows>> /\ k \in Keys /\ ks \subseteq Keys
      /\ SeenJobs[k].status = "RUNNING" /\ job.status # "none"
      /\ \A x \in Keys \ (ks \cup {k}) : SeenJobs'[x] = SeenJobs[x]
      /\ \A x \in ks : ~Exists(SeenJobs, x) /\ SeenJobs'[x].status = "PENDING"
                      /\ x.type # "identity"
      /\ SeenJobs'[k] = job
      /\ SeenRows' = [s \in Slots |-> IF s \in DOMAIN written THEN written[s] ELSE SeenRows[s]]
      /\ pass # Off /\ pass'.idents = pass.idents
  BY EndsSees
<1>6. PICK found : found = IF k.type = "identity" THEN {k.artist} ELSE {}
  OBVIOUS
<1>7. found \in SUBSET Artists
  BY <1>5, <1>6, KeyFields
<1>8. AllFollowed(old, before) /\ OwnSlots(before)
  BY <1>1, <1>3, FollowingBefore
<1>9. SearchesMove(old, seen, found)
  <2>. SUFFICES ASSUME NEW x \in Keys, x.type = "identity"
                PROVE  /\ x.artist \notin found /\ Ahead(old[x]) => Ahead(seen[x])
                       /\ Exists(seen, x) => Exists(old, x) \/ Ahead(seen[x])
    BY DEF SearchesMove
  <2>1. CASE x = k
    BY <1>1, <1>5, <1>6, <2>1 DEF Exists
  <2>2. CASE x # k
    <3>1. seen[x] = old[x]
      BY <1>1, <1>2, <1>5, <2>2
    <3>. QED
      BY <3>1 DEF Exists
  <2>. QED
    BY <2>1, <2>2
<1>10. RowsMove(before, read, found)
  <2>. SUFFICES ASSUME NEW s \in Slots
                PROVE  \/ read[s] = before[s]
                       \/ read[s].owner = before[s].owner /\ read[s].status \in Undecided
                       \/ /\ read[s].owner \in found
                          /\ s = Pending(read[s].owner) \/ s[1] = "channel"
    BY DEF RowsMove
  <2>1. CASE s \notin DOMAIN written
    BY <1>3, <1>4, <1>5, <2>1
  <2>2. CASE s \in DOMAIN written
    <3>1. read[s] = written[s] /\ WritesOwn(k, s, written[s])
      BY <1>4, <1>5, <2>2 DEF EndsJob
    <3>2. CASE written[s].owner = SeenRows[s].owner /\ written[s].status \in Undecided
      BY <1>3, <3>1, <3>2
    <3>3. CASE /\ k.type = "identity" /\ written[s].owner = k.artist
               /\ s = Pending(k.artist) \/ (s[1] = "channel" /\ written[s].status = "RESOLVED")
      <4>1. read[s].owner = k.artist /\ k.artist \in found
        BY <1>6, <3>1, <3>3
      <4>2. s = Pending(read[s].owner) \/ s[1] = "channel"
        BY <3>3, <4>1 DEF Pending
      <4>. QED
        BY <4>1, <4>2
    <3>. QED
      BY <3>1, <3>2, <3>3 DEF WritesOwn
  <2>. QED
    BY <2>1, <2>2
<1>11. ASSUME NEW b \in found PROVE HasRow(read, b) \/ HasSearch(seen, b)
  <2>1. k.type = "identity" /\ b = k.artist
    BY <1>6
  <2>2. CASE job = Failed(SeenJobs[k], pass.clock) \/ job = Deferred(SeenJobs[k], pass.clock)
    <3>1. SeenJobs[k] \in Jobs /\ JobIsSound(SeenJobs[k]) /\ pass.clock \in 0 .. MaxTime
      BY <1>5, PassFields, SeenTypes, SeenIsSound DEF SoundInv
    <3>2. job.status \in Active \/ job.result = "MAX_ATTEMPTS"
      BY <1>5, <2>2, <3>1, JobEnds
    <3>3. Ahead(seen[k])
      BY <1>2, <1>5, <3>2 DEF Ahead
    <3>. QED
      BY <1>5, <2>1, <3>3 DEF HasSearch
  <2>3. CASE \E s \in DOMAIN written : /\ written[s].owner = k.artist
                                     /\ written[s].status \in Undecided \cup {"RESOLVED"}
    <3>1. PICK s \in DOMAIN written : /\ written[s].owner = k.artist
                                    /\ written[s].status \in Undecided \cup {"RESOLVED"}
      BY <2>3
    <3>2. s \in Slots
      BY DEF EndsJob
    <3>3. read[s] = written[s]
      BY <1>4, <1>5, <3>2
    <3>. QED
      BY <2>1, <3>1, <3>2, <3>3 DEF HasRow
  <2>. QED
    BY <2>1, <2>2, <2>3 DEF EndsJob, StaysAhead
<1>12. AllFollowed(seen, read) /\ OwnSlots(read)
  BY <1>7, <1>8, <1>9, <1>10, <1>11, FollowedStep
<1>. QED
  BY <1>2, <1>4, <1>5, <1>12, PassFollowing

LEMMA EmptyFollowing ==
  ASSUME SoundInv, SoundInv', FollowingIsSound, DOMAIN draftJobs' = {}, DOMAIN draftRows' = {},
         (jobs' = jobs /\ rows' = rows) \/ (jobs' = SeenJobs /\ rows' = SeenRows)
  PROVE  FollowingIsSound'
<1>1. PICK stored : stored = jobs'
  OBVIOUS
<1>2. PICK ids : ids = rows'
  OBVIOUS
<1>3. stored = SeenJobs' /\ ids = SeenRows'
  BY <1>1, <1>2, EmptySees
<1>4. AllFollowed(stored, ids) /\ OwnSlots(ids)
  BY <1>1, <1>2, FollowingBefore
<1>. QED
  BY <1>1, <1>2, <1>3, <1>4, FollowingAfter

\* Requests of operators: a discovery is queued, and a hint gives a channel.
LEMMA OnboardFollowing ==
  ASSUME SearchInv, FollowingIsSound, NEW a \in Artists, Onboard(a) PROVE FollowingIsSound'
<1>. USE DEF SearchInv
<1>1. PICK old : old = jobs
  OBVIOUS
<1>2. PICK new : new = jobs'
  OBVIOUS
<1>3. PICK before : before = SeenJobs
  OBVIOUS
<1>4. PICK seen : seen = SeenJobs'
  OBVIOUS
<1>5. PICK ids : ids = rows'
  OBVIOUS
<1>6. PICK read : read = SeenRows'
  OBVIOUS
<1>7. /\ ~InsertBlocked(a) /\ jobs' = Discover(a)
      /\ UNCHANGED <<now, rows, paused, pass, draft, hung, crashes>>
  BY DEF Onboard
<1>8. \E ks : Grown(old, new, ks) /\ Grown(before, seen, ks)
  BY <1>1, <1>2, <1>3, <1>4, <1>7, DiscoverSees
<1>9. SearchesMove(old, new, {}) /\ SearchesMove(before, seen, {})
  BY <1>1, <1>3, <1>8, SeenIsSound, GrownFollowed
<1>10. ids = rows /\ read = SeenRows
  BY <1>5, <1>6, <1>7 DEF SeenRows, Over, draft
<1>11. /\ AllFollowed(old, ids) /\ OwnSlots(ids)
       /\ AllFollowed(before, read) /\ OwnSlots(read)
  BY <1>1, <1>3, <1>10, FollowingBefore
<1>12. RowsMove(ids, ids, {}) /\ RowsMove(read, read, {})
  BY DEF RowsMove
<1>13. AllFollowed(new, ids) /\ AllFollowed(seen, read)
  BY <1>9, <1>11, <1>12, FollowedStep
<1>. QED
  BY <1>2, <1>4, <1>5, <1>6, <1>11, <1>13, FollowingAfter

LEMMA HintFollowing ==
  ASSUME SearchInv, FollowingIsSound, NEW a \in Artists, ResolveHint(a) PROVE FollowingIsSound'
<1>. USE DEF SearchInv
<1>1. PICK old : old = jobs
  OBVIOUS
<1>2. PICK new : new = jobs'
  OBVIOUS
<1>3. PICK before : before = SeenJobs
  OBVIOUS
<1>4. PICK seen : seen = SeenJobs'
  OBVIOUS
<1>5. PICK ids : ids = rows
  OBVIOUS
<1>6. PICK later : later = rows'
  OBVIOUS
<1>7. /\ ~InsertBlocked(a) /\ jobs' = Discover(a) /\ (pass # Off => ~pass.booked)
      /\ UNCHANGED <<now, paused, pass, draft, hung, crashes>>
  BY DEF ResolveHint
<1>8. PICK s \in Slots :
        /\ s[1] = "channel" /\ s # Pending(a)
        /\ rows' \in [Slots -> IdentityRows]
        /\ rows'[s] = [owner |-> a, status |-> "RESOLVED"]
        /\ \A x \in Slots : rows'[x] = rows[x] \/ (x \in {s, Pending(a)} /\ rows'[x].owner = a)
  BY HintStep DEF SoundInv
<1>9. \E ks : Grown(old, new, ks) /\ Grown(before, seen, ks)
  BY <1>1, <1>2, <1>3, <1>4, <1>7, DiscoverSees
<1>10. SeenRows = ids /\ SeenRows' = later
  <2>1. DOMAIN draftRows = {}
    BY <1>7 DEF SoundInv, DraftIsSound, PassIsSound
  <2>2. rows = [x \in Slots |-> rows[x]] /\ rows' = [x \in Slots |-> rows'[x]]
    BY <1>8 DEF SoundInv, TypeOK
  <2>. QED
    BY <1>5, <1>6, <1>7, <2>1, <2>2 DEF SeenRows, Over, draft
<1>11. AllFollowed(old, ids) /\ OwnSlots(ids) /\ AllFollowed(before, ids)
  BY <1>1, <1>3, <1>5, <1>10, FollowingBefore
<1>12. SearchesMove(old, new, {a}) /\ SearchesMove(before, seen, {a})
  BY <1>1, <1>3, <1>9, SeenIsSound, GrownFollowed
<1>13. RowsMove(ids, later, {a})
  <2>. SUFFICES ASSUME NEW x \in Slots, later[x] # ids[x]
                PROVE  later[x].owner \in {a} /\ (x = Pending(later[x].owner) \/ x[1] = "channel")
    BY DEF RowsMove
  <2>1. x \in {s, Pending(a)} /\ later[x].owner = a
    BY <1>5, <1>6, <1>8
  <2>. QED
    BY <1>8, <2>1 DEF Pending
<1>14. HasRow(later, a)
  BY <1>6, <1>8 DEF HasRow
<1>15. AllFollowed(new, later) /\ OwnSlots(later) /\ AllFollowed(seen, later)
  BY <1>11, <1>12, <1>13, <1>14, FollowedStep
<1>16. later = SeenRows'
  BY <1>10
<1>. QED
  BY <1>2, <1>4, <1>6, <1>15, <1>16, FollowingAfter

FollowInv == SearchInv /\ FollowingIsSound

LEMMA StepFollowInv == FollowInv /\ [Next]_vars => FollowInv'
<1>. SUFFICES ASSUME FollowInv, [Next]_vars PROVE FollowingIsSound'
  BY StepSearchInv DEF FollowInv
<1>. USE DEF FollowInv, SearchInv
<1>0. SoundInv'
  BY StepSoundInv
<1>1. CASE UNCHANGED vars
  BY <1>1, QuietFollowing DEF vars
<1>2. CASE StartPass \/ Reattempt \/ Claim
  BY <1>2, QueueFollowing
<1>3. ASSUME Abandon, UNCHANGED <<jobs, rows>> PROVE FollowingIsSound'
  <2>1. DOMAIN draftJobs' = {} /\ DOMAIN draftRows' = {}
    BY <1>3 DEF Abandon, Nothing
  <2>. QED
    BY <1>0, <1>3, <2>1, EmptyFollowing
<1>4. CASE BeginCall
  BY <1>4, QuietFollowing DEF BeginCall, UncommittedStays
<1>5. CASE Ends
  BY <1>5, EndsJobs, EndsFollowing
<1>6. CASE Commit
  BY <1>0, <1>6, CommitFacts, EmptyFollowing
<1>7. ASSUME NEW a \in Artists, Onboard(a) \/ ResolveHint(a) PROVE FollowingIsSound'
  BY <1>7, OnboardFollowing, HintFollowing
<1>8. ASSUME NEW a \in Artists, Hang(a) \/ Pause(a) PROVE FollowingIsSound'
  BY <1>8, QuietFollowing DEF Hang, Pause
<1>9. CASE Tick
  BY <1>9, QuietFollowing DEF Tick
<1>10. CASE ReattemptFails
  BY <1>3, <1>10 DEF ReattemptFails, UncommittedStays
<1>11. CASE Crash
  BY <1>3, <1>11 DEF Crash
<1>12. CASE EnqueueFails
  BY <1>1, <1>12 DEF EnqueueFails
<1>. QED
  BY <1>1, <1>2, <1>4, <1>5, <1>6, <1>7, <1>8, <1>9, <1>10, <1>11, <1>12
     DEF Next, Collect, Ends

LEMMA InitFollowInv == Init => FollowInv
<1>. SUFFICES ASSUME Init PROVE FollowingIsSound
  BY InitSearchInv DEF FollowInv
<1>1. SoundInv
  BY InitSoundInv
<1>2. pass = Off /\ SeenJobs = jobs /\ SeenRows = rows
  BY <1>1, OffIsEmpty DEF Init
<1>3. 0 \in 0 .. MaxTime
  OBVIOUS
<1>4. \A a \in Artists : ~Exists(jobs, DiscoveryKey(a))
  BY <1>3, KeyTypes DEF Init, NoJob, Exists
<1>5. \A a \in Artists : rows[Pending(a)].owner = "none"
  BY PendingSlots DEF Init, NoRow
<1>6. AllFollowed(jobs, rows) /\ OwnSlots(rows)
  BY <1>4, <1>5 DEF AllFollowed, OwnSlots
<1>7. AllFollowed(SeenJobs, SeenRows) /\ OwnSlots(SeenRows)
  BY <1>2, <1>4, <1>5 DEF AllFollowed, OwnSlots, Exists
<1>. QED
  BY <1>6, <1>7 DEF FollowingIsSound

\* An artist that was onboarded stays followed, whatever the provider answers
\* and the operators do, and whichever passes are lost: it has a channel, an
\* undecided identity or a search to come, unless a search was given up or
\* a channel is another's.
THEOREM OnboardedStaysFollowed == Spec => []OnboardedIsFollowed
<1>1. ASSUME FollowInv PROVE OnboardedIsFollowed
  <2>. SUFFICES ASSUME NEW a \in Artists, Exists(jobs, DiscoveryKey(a)), ~Followed(a)
                PROVE  \/ \E k \in Keys : /\ k.artist = a /\ k.type = "identity"
                                         /\ jobs[k].result = "MAX_ATTEMPTS"
                       \/ \E s \in Slots : s[1] = "channel" /\ rows[s].owner \notin {a, "none"}
    BY DEF OnboardedIsFollowed
  <2>1. HasRow(rows, a) \/ HasSearch(jobs, a) \/ Displaced(rows, a)
    BY <1>1 DEF FollowInv, FollowingIsSound, AllFollowed
  <2>2. ~HasRow(rows, a)
    BY DEF Followed, OwnedBy, HasRow
  <2>3. \A k \in Keys : k.artist = a /\ k.type = "identity" => jobs[k].status \notin Active
    BY DEF Followed, ActiveJobs
  <2>. QED
    BY <2>1, <2>2, <2>3 DEF HasSearch, Ahead, Displaced
<1>. QED
  BY <1>1, InitFollowInv, StepFollowInv, PTL DEF Spec

================================================================================
