# n-quark in TLA+

n-quark collects public records of live events in India from ticketing sources,
watches them change, resolves the artists and venues they name, and measures
the demand for the artists.  It is a set of Python services around Postgres
databases; they call each other over HTTP.  This directory models the services
whose correctness rests on order, time and concurrency, checks the models with
TLC and proves what matters most with TLAPS.

Every path below is relative to `src/services/` unless it starts with `docs/`.

## 1. Inventory

| component | state it keeps | operations | interacts with |
|---|---|---|---|
| crawl: scheduled capture (`crawl-service/crawl_service/service.py`, `cadence.py`, `priority.py`, `capturer.py`, `collector.py`, `worker.py`) | `tracked_event` (status, next capture, failures), `scheduled_capture_job` (status, lease, attempts) | enroll, recover, generate, claim, process, enrich, capture now | signal-service captures; the Shadow Ledger receives presences through signal-service and absences from the capturer |
| crawl: retry policy (`classification.py`) | none | `classify_response`, `decide_retry`, `backoff_seconds` | scheduled capture |
| graph: Shadow Ledger (`graph-service/graph_service/shadow_store.py`, `shadow_ledger.py`) | `shadow_state`, `shadow_transition` | `observe` | signal-service and crawl-service call it |
| crawl: entity resolution (`entity_resolution/`) | candidates, source handles, history | resolve an event's names, operators' corrections | graph-service, operator decisions |
| crawl: governance (`governance.py`) | the same tables, and the graph | accept, reject, mark unresolved, create, reverse, correct an event's series, discover artists, supersede | api-gateway commands, graph-service |
| crawl: reconciliation (`reconciliation/`) | match rows of pairs of events of two sources | run, detail, reconcile a pair | graph-service, enrichment |
| crawl: enrichment (`enrichment/`) | candidates of fields, versions of resolutions | read graph and page, store, resolve by authority, apply to the tracker | scheduled capture, graph-service |
| crawl: enrichment pilot (`enrichment/pilot/`) | the same candidates | visit share cards | enrichment |
| crawl: social evidence (`social.py`, `social_interpretation/`) | watched identities, versions of posts, interpretations, match rows | link, collect, interpret | signal-service, reconciliation's matcher |
| signal: ticketing sources (`adapters/ticketing.py`, `quality.py`, `sources.py`, `routes/ticketing.py`) | none | preview, discover and validate, ingest | observation-, entity-, graph-service, the ledger |
| signal: youtube, trends, spotify, musicbrainz | a cache of lookups | search, ingest, classify | the same |
| graph: graph store and event feed (`store.py`, `routes/events.py`) | nodes and edges | upsert, list events | everybody |
| artist-intelligence: demand scheduler (`artist-intelligence-service/artist_intelligence_service/scheduler.py`, `collector.py`, `universe.py`) | `demand_refresh_job` | enqueue, claim, execute, defer, fail; automatic onboarding | quota, identity discovery, the registry of crawl-service |
| artist-intelligence: quota (`quota.py`) | usage per provider day, bucket and search purpose | `can_spend`, `can_spend_search`, `record_meter` | discovery, demand service |
| artist-intelligence: identities, discovery (`service.py`, `discovery.py`) | external identities, observations | resolve, verify, invalidate, discover | signal-service |
| artist-intelligence: watchlist and promotion (`watchlist.py`, `promotion.py`, `candidates.py`) | watch targets, candidates | add, resolve, pause, resume, reject; promote candidates to artists | governance of crawl-service, demand scheduler |
| artist-intelligence: movement (`movement.py`) | none | classify videos by their readings | observations of the demand service |
| media: slots (`media-service/`) | assets, observations, states of slots, transitions | observe an event's image | graph-service, crawl-service |
| entity: registry (`entity-service/`) | canonical entities and aliases | create, resolve, add alias | signal-service |
| observation store (`observation-service/`) | append-only observations | append, query | signal-service |
| api-gateway: operator decisions (`admin/decisions.py`, `routes/admin_commands.py`) | decisions with idempotency keys | command, reverse | governance |
| api-gateway: authentication, proxy, read side | sessions | | everybody |
| analytics, feature and intelligence services, admin console | none | read | graph-service |

### What is hard

* **Scheduled capture.**  Workers share two tables without a coordinator.  A
  claim is a compare-and-swap, but the closing transaction of a job is not
  guarded by the lease; a lease covers a batch whose captures run one after the
  other; a crash leaves leases to run out; jobs are deduplicated by window, so
  a tracker whose window is used up is skipped silently.
* **Shadow Ledger.**  Captures arrive late, twice, partially or not at all;
  what a capture did not read must survive, absences are counted and announced
  once, and `observe` reads the latest row and inserts later, without a lock.
* **Entity resolution, governance, decisions.**  Passes of two processes (the one
  that serves the operators, and the cron worker) and operators write the same
  rows, a pass knows the registry as of its start, the database is committed before the graph is written, batches to the graph overtake each
  other, and a command is recorded after it has acted, by another service.
* **Enrichment, matching, social evidence.**  Each reads through awaits and
  writes in several transactions; what it read may have changed since.
* **Sources and ingests.**  Failures must not look like absences; an ingest
  writes to four services, best effort after the first.
* **Demand.**  A pass is one transaction around many awaited calls, on the event
  loop that also serves operators; sessions do not flush what they add before
  they look again; budgets are checked before a call and charged after it; the
  day of the quota is not the day of the clock.
* **Watchlist.**  A resolution holds a row over calls of other services while
  operators override it; the ORM writes only the columns that changed.
* **Media.**  Downloads of any length, looks recorded late or again.
* **Movement.**  Views fall, ratios of negative velocities, stale readings.

### What makes each part correct

* Scheduled capture: a lease protects its holder; a window is not captured
  twice; at most one active window per event; every due event is served; an
  active tracker always has a window left; finished jobs and retired trackers
  stay so; retries are bounded.
* Shadow Ledger: one ordered history, audit rows beside it; the current state
  holds the last reading of every field; the transitions say exactly what
  changed; disappearances alternate with reappearances and are those that the
  absences justify.
* Entity resolution and governance: a row's history explains where it stands,
  names alone merge nothing, an identity has one type, a handle is re-pointed by
  a reversal only or by who had read it before another process wrote it, a decision
  has its effect, and the graph claims nothing that no one decided.
* Enrichment: what counts as resolved outranks what its pass saw, and only that
  reaches the scheduler, whose plan follows.
* Matching and social evidence: no match against a contradiction or on too
  little; rows are of the views, and of the version, they name.
* Sources: what is reported gone was answered to be gone, what is offered is an
  event, what is projected was observed, what the feed shows is vouched for.
* Quota: real calls of a provider day stay within the cap, and the reserve is
  kept for the work it is reserved for.
* Demand scheduler: every due job is executed, only failures cost attempts, a
  finished window stays finished, searches of an artist do not pile up, an
  onboarded artist is not forgotten, one job's failure leaves the others alone.
* Watchlist: an override lasts, a target shown as watched is pursued, no two
  targets are of one key, and an operator's word makes no artist.
* Media: a slot shows its newest look, only a look that found nothing makes a
  creative disappear, and only other content is a change.
* Movement: what is said to move gains views now.

## 2. Plan

1. `RetryPolicy`, `CaptureScheduler` (done): the spine of the collection.
2. `Visibility`, `ShadowLedger` (done): abstract and detailed ledger.
3. `QuotaBudget` (done: the search quota), `DemandScheduler` (done): the queue,
   the single transaction of a pass, deferral, retry budget and identities.
4. `MentionRules`, `EntityRegistry`, `ResolutionDecisions` (done): resolution,
   the operators' commands on it, the decisions of the gateway.
5. `FieldRules`, `FieldEnrichment`, `MatchRules`, `EventMatching`,
   `SocialEvidence` (done): the evidence crawl-service keeps of an event.
6. `ListingSources`, `SourceDiscovery`, `SignalRules`, `SignalIngest` (done): from
   the platforms to the four stores.
7. `MediaSlots`, `WatchTargets`, `ContentMovement` (done).
8. Left: supersession of legacy entities; a ledger and a scheduler composed
   through the capturer.

Theorems: those of section 5 are proved; every safety property of a passing run
but `OneTypePerIdentity`, which is not one of every vocabulary, has one.

## 3. The models

### `RetryPolicy`, `CaptureScheduler`

`tracked` and `jobs` are the two tables, `jobs` by deduplication key: a window
(`None` is the initial one) or the minute of a requested capture.  A worker is
a task inside `run_once` or `capture_now`; `pc` says where it is, `now` is the
time its pass took on entry, `batch`, `current`, `seen` (the attempt count that
`process_job` reads before the capture), `result`, `expired` and `plan` are its
local variables.

| code | action |
|---|---|
| `enroll` | `Enroll` |
| `run_once` | `StartPass`, then the following |
| `recover_expired_locks` | `RecoverSelect`, `RecoverCommit` |
| `generate_due_jobs` | `GenerateSelect`, `GenerateCommit`, or `GenerateConflict` (the unique index rejects the transaction) |
| `claim_jobs` | `ClaimJobs` |
| `process_job` | `BeginJob`, `Capture` (the await), `FinishPresent`, `FinishAbsent`, `FinishTerminal`, `FinishRetryable` |
| `_apply_enrichment` | `EnrichUnchanged`, `EnrichCityStop`, `EnrichReschedule` |
| `capture_now`, `_claim_specific` | `CaptureNow`, `ClaimSpecific` |
| a crash, an uncaught exception | `Abort` |

Atomicity.  A transaction is one step, save that recovery and generation read
and later write.  In one asyncio process nobody runs between two awaits, so a
worker inside such a stretch (`Uninterrupted`) excludes the others; with
`MultiProcess` (the cron worker, a second instance) they interleave there as
READ COMMITTED allows.  `ClaimJobs` stays atomic: its updates are conditional
and a lost one only makes the batch smaller.  Time passes in any state: nothing in
the code makes a pass end before its lease, which covers a batch of up to 25
captures and is never renewed.

`MCCaptures` puts the workers of one process beside the ledger: one of the two is
chosen in the initial state and only that one moves (the two share no state).  The
workers of several processes have a run of their own, `sched_processes`.

Abstractions.  `compute_cadence` returns `None` or a later time: either one of
the distances in `CadenceSteps` or one of the fixed dates in `FollowUps` (post
event follow-ups are dates, which is why two captures may name the same
window).  `compute_priority` keeps its penalty for failures.  Worker ids, the
counters no decision reads and the payloads are left out.

### `Visibility`, `ShadowLedger`

One event of one source: rows of different events never meet.  `states` is the
table in order of insertion, `transitions` a set of kinds per row, `request`
and `latest` what an observer is recording and the row it read as the latest.
`Begin` is the read, one of `Audit`, `DropDuplicate`, `IgnoreFailure`,
`RecordAbsence`, `SkipUnchanged`, `RecordPresent` the rest of the call; the
route is a plain function run in a thread pool, so calls of several observers
interleave between the two.  A reading of a field is a value, an explicit null,
a blank (which the normalization turns into null) or nothing; a field's changes
are of its own kind except those of the price, which are one.  Of rows of
the same time any may be the latest, because `created_at` and random ids break
the tie.

`Visibility` is the promise: an event is gone once it was missed `Threshold`
times in a row or was removed, until it is seen again.  The ledger implements
it with `gone` read off the log of transitions (the last announcement) and
`misses` off the rows: it is the log, which consumers see, that keeps the promise.

`StateIsLastReading` and `HistoryIsOrdered` are about the rows that are stored.  A
capture that changes nothing stores none, so the rows do not tell when the current
state was last confirmed.  `MCShadowLedger` adds a history, `newest`, that does,
and with it `LateNeverCurrent`, which the documentation promises and the code
breaks (`ledger_late`).

### `QuotaBudget`

The Search-Queries quota.  `session` is what the collector and each request of
an operator are doing: off, between two searches, or awaiting one.  `quota` holds
the committed rows of the books by day (the aggregate row and the SEARCH row,
always written together, are the count `calls`, the SEARCH:purpose rows are
`by`), `draft` what a session has flushed and not committed; a day in the domain
of a draft is a locked row.  `spent`, by the provider's day, and `lost` are
history: what was sent, and what a rollback removed from the books.

| code | action |
|---|---|
| `_tick` | `StartTick`, then discovery and the jobs |
| `run_youtube_discovery` | `Query`, `Record`, `EndDiscovery`; `RequestDiscovery` for the route, with any `max_queries` up to its bound (`MaxQueries`, 25 in the code) or none |
| `_execute_identity` with `can_spend_search` and the daily maximum | `SearchIdentity`, `Defer` |
| `record_meter` after the await | `Record`, `Hang` |
| the commit of `run_once` | `EndTick` |
| `youtube_resolve` | `RequestResolve`, `ResolveAnswered`, `ResolveFailed` |
| a crash or a restart | `Restart` |

The collector runs inside the web process (`main.py`) and database calls are
synchronous, so a booking that meets another session's row lock stops the event
loop and with it the session that holds the lock: `Hang`.  A search leaves in
the same stretch as its check, and is booked on the day of its answer.

`WithinCap` and `ReserveKept` allow for what the code cannot see: `Overlap`,
the open searches of other sessions, and `lost`.  For one session without
losses they are the bare promise, which `quota_day` refutes.  `ReserveKept` is
about searches that ask today's row (`AsksToday`): a discovery asks the row of
the day it began on, so what one sends after the reset is outside the reserve by
construction of the code, not of the model.

### `DemandScheduler`

`jobs` is `demand_refresh_job` by deduplication key (a window of a refresh, the
one discovery of an artist, a window of another attempt at an undecided
identity), `rows` the YouTube identities by provider id (a channel, or the
pending slot of an artist), `paused` the artists whose watch targets are all
paused.  `pass` says where the collector is and holds the local variables of
`run_once`: its time, the identities it read before asking the registry, the
claimed jobs it has not executed and the job and identity it is busy with.

A pass is one transaction: `draftJobs` and `draftRows` are what it has written,
`SeenJobs` and `SeenRows` what it reads, `jobs` and `rows` what others read
and what a crash leaves.  It can be interrupted only where it awaits, the
registry or the provider (`Awaiting`).  A request of an operator is one step, at
its end, which is where its transaction commits; `hung` is the event loop
waiting, in a statement of a request, for a row that the suspended pass has
inserted or booked.  The route that only onboards runs in a thread, and waits
there without harm.

| code | action |
|---|---|
| `_tick`, `backfill_missing_identities`, `enqueue_due` | `StartPass`, or `EnqueueFails` |
| `enqueue_identity_reattempts` | the rest of `StartPass`, `Reattempt`, or `ReattemptFails` |
| `claim` | `Claim` |
| `execute`, up to the call | `BeginCall`, `NoIdentity`, `DeferIdentity` |
| the answers, `_succeed`, `_fail`, `_terminal` | `CallFails`, `Refreshed`, `ChannelNotFound`, `IdentityResolved`, `IdentityUndecided` |
| the commit of `run_once` | `Commit` |
| `onboard_artist`, `resolve_target` with a hint, pausing and resuming | `Onboard`, `ResolveHint`, `Hang`, `Pause` |
| a restart, an error of the database | `Crash` |

`EnqueueFails` and `ReattemptFails` are the tick whose flush or query raises:
`collector_loop` suppresses the error and nothing of the pass remains.  They
arise because sessions do not autoflush: the checks before an insert do not see
the inserts of the same step.

Abstractions.  The priority of an artist's jobs is constant (`Priority`); which
refreshes exist (`RefreshTypes`), what the registry may return, what the provider
may answer and what operators may do (`Registry`, `Answers`, `Operator`) are
parameters that the runs bound.  Answers stand for the outcome of a job whatever
the number of its calls.  The await for the event's proximity after a refresh,
the limit of the backfill, the observations written and providers other than
YouTube are left out.  The discovery of a pass belongs to `QuotaBudget`.

`MCDemandQueues` puts two queues side by side, one of one artist with operators,
a crash and an exhausted quota, one (`Pair`) of two artists; one of the two is
chosen in the initial state.

### `MentionRules`, `EntityRegistry`, `ResolutionDecisions`

`MentionRules` has the pure part of entity resolution: which mentions an event
makes, how each is typed, gated and resolved given what a pass knows.  A name is
an atom and `Facts[name]` is what the normalizers and vocabularies of the code
find in it; scores are in hundredths.  `Slug` is what `slug` keeps of a name, of
a normal form or of a city, of which handles (`Tag`) and canonical ids (`Cid`)
are made; it may be empty.

`EntityRegistry` is the state: `candidate` (a row for each role, record and
handle), `history` and `latest` (the trail), `handle` (source handle to
canonical), `node` and `link` (the graph), `writes` (batches their callers still
await, with the process of the caller), `fetched` and `pass` (for each process, the
pages it has read, and the pass that holds its event loop), `linking` (the
operator's link whose transaction is open).  `ResolutionDecisions` adds
`decisions`, the api-gateway's, by idempotency key.  Two things are history only:
`asked`, the events operators asked to put into a series, of which the registry
keeps no row; and the name of the process in an entry of `history`, where the code
tells passes from commands.

| code | action |
|---|---|
| `resolve_event`, up to the answer of the graph | `Fetch` |
| `_known_for`, `_cross_type_index`, `_persist_candidate`, `_register_handle`, one transaction each | `Begin`, `ReadTypes`, `DecideMention`, `RegisterHandle` |
| `_write_graph` and any other batch | `FinishPass`, `Send`, then `GraphWrite` or `GraphWriteFails` |
| a statement that raises (a unique index, for one) | `Fail`: the pass gives up its event, the link is refused |
| a process dying between two transactions | `Crash` |
| the sources' own projection | `Ingest` |
| `accept`, `create_entity` | `StartLink` (the checks and the look at the handle), `FinishLink` (the writes and the commit); `Accept`, `CreateEntity` and, of what stands linked, `CreateAgain` |
| `reject`, `mark_unresolved`, `reverse_accept` | `Reject`, `MarkUnresolved`, `ReverseAccept` |
| `correct_series` | `CorrectSeries` with `UnlinkSeries`, `LinkSeries`, `CreateSeries` |
| `apply_correction` | `Correction` with `ConfirmMultiRole`, `RequeueResolution`, `RejectMatch`, `ConfirmExistingMatch`, `Quarantine`, `MarkWrongType` |
| `reconcile_graph_artists`, `create_artist` | `ReconcileGraphArtists`, `CreateArtist` |
| `_execute` around them | `AcceptCandidate`, `AcceptAgain`, `CreateCanonicalEntity`, `RejectCandidate`, `UnresolveCandidate`, `CorrectEventSeries`; after the call (of a link, `LinkCommitted`) the decision is appended or lost |
| `reverse` | `ReverseDecision` |

A pass does not give up the event loop of its process between its first and its
last mention; coroutines of that process run before or after.  What other processes
do, and commands on worker threads, may fall between two of its transactions.  A
transaction is one step, but for an operator's link: between its look at the
handle and its commit a pass of the cron worker may register the same handle.  Two
transactions that read and rewrite one candidate row are not overlapped: what they
could do besides is lose one of two updates of that row.  Accept, link-handle and
mark-alias make one call and are one action.  Display texts and scores of candidates
are left out.

### `FieldRules`, `FieldEnrichment`

`FieldRules` has the field registry, the extraction of candidates from node,
page and card, and the resolver.  `FieldEnrichment` keeps `evidence`
(`enrichment_candidate` by hash), `versions` (`event_field_resolution` by field,
the current version last), `tracked` and `planned` (what the tracker holds, and
what its next capture was computed for), `enriching` (what the collector's and
the operator's pass have read).

| code | action |
|---|---|
| `enrich`: the graph and the page | `Observe` |
| `_persist_candidates` | `Persist`, or `PersistFails` (the unique hash) |
| resolution of the touched fields | `ResolveFields` |
| `_apply_enrichment` | `Apply` |
| the pilot's visit of a share card | `StoreCard` |
| a process that stops between transactions | `Interrupted` |

### `MatchRules`, `EventMatching`

`MatchRules` compares two views of events: block, components, score, verdict.
`EventMatching` keeps `listing` (what the graph says now), `matching` (the views
a run has read so far), `matches` (rows, each with the views it was scored on).
`StartMatching` and `ReadView` are the awaits of `run`, `ScorePairs` its
transaction, `MatchingFails` an answer that never came, `Move` a change of a
listing.  `ReconcilePair` is the operator's reconciliation of the fields of a
matched pair, read through `FieldRules`.

### `SocialEvidence`

Watched accounts and what is read into their posts: `feed` (the post now),
`identity`, `mention` (versions of a post), `reading` (interpretations of a
version), `projected` (match rows of a version), `social` (what each run
holds).

| code | action |
|---|---|
| `link_identity`, `set_active`, the end of a cadence | `LinkIdentity`, `SetActive`, `FallsDue` |
| `run_once` of the collection | `StartCollecting`, `Collect`, `Deferred`, `CollectFails`, `Ingest` |
| `run_once` of the interpretation | `StartInterpreting`, `Interpret` |
| an edited post | `Edit` |

A text is an atom whose `Cues` are the keyword signals it fires; the classifier
is its decision table over them.

### `ListingSources`, `SourceDiscovery`

`ListingSources` has, for nine platforms, the mapping of an item to an event,
what an answer counts as (`Extract`), and the gate of `quality.py`.
`SourceDiscovery` keeps `shelf` (what each platform shows), `reporting` (the
discovery of a source, listing by listing) and `told` (the preview that just
ended).  `Preview` is the route, `StartDiscovery`, `FetchNext`, `Unavailable`,
`Report` are `validated_discovery`, `Restock` is the platform.

### `SignalRules`, `SignalIngest`

`SignalRules` has the observations of channels and queries, the
classification of a name through MusicBrainz, the projections to the graph and
the feed that graph-service serves of them.  `SignalIngest` keeps `ingest` (each
request), `lookups` (the cache), `observed` (handles with observations),
`entityOf` (aliases of entity-service), `graphNodes`, `graphEdges`, `ledger`.  Four
histories remember what no table keeps: resolutions without an answer, creations
that overlapped, and what was projected or classified last for a node.

| code | action |
|---|---|
| the fetch and `classify`, with one lookup or an outage | `Start` (`Serve`) |
| `append_observations` | `AppendObservations`, `ObservationsFail` |
| entity-service `resolve` | `LookUp`, then `Create`; `NoAnswer` |
| `add_alias` of other catalogues | `Link` |
| `upsert_batch` of graph-service, node by node, then edges | `Project`, in whole or a prefix |
| the Shadow Ledger | `RecordCapture` |
| a restart | `SignalRestart` |

### `MediaSlots`

`assets`, `sightings`, `slotState`, `timeline` are media-service's four tables,
`creatives` its part of the graph, `web` what the image hosts answer.
`SightCreative` is `observe` up to the end of the download, `RecordSighting` its
transaction (upsert of the asset, the sighting unless it is known, `Detect`,
the transitions), `LinkNode` and `LinkEdge` the two writes of the graph, each of
which may fail (`LinkFails`).  `MediaRestart` may switch fetching on or off.
`Coverage` and `CreativeSummary` are the read models; a sum of versions is counted
as the versions there have been (`VersionsHad`).

### `WatchTargets`

`targetRow` and `candidateRow` are the watch targets and candidates, `handling`
is a request, or the promotion pass, with the row it has loaded, `registered`
and `minted` the artists crawl-service knows and those promotion made, `jobs`
the queued discoveries, `channelRows` the YouTube identities.

| code | action |
|---|---|
| `add_and_resolve`, `reresolve_pending`, `resume_target` up to the await | `Add`, `Reresolve`, `Resume` |
| `process_backlog` up to the await | `Promote` |
| the answers of crawl-service | `FindByName`, `CreateArtist`, `ConfirmRegistered`, `CrawlFails` |
| pause, reject | `Override` |
| discovery, onboarding, backfill, identification | `Discover`, `Backfill`, `Identify`, `Register` |
| a restart | `WatchCrash` |

A session writes the columns that it changed relative to the row it loaded
(`Overlaid`); a row or key it has flushed is locked until it ends.

### `ContentMovement`

`classify_movement` over readings by the hour: velocities in a window, baselines
of owned videos of like age, their medians, the five labels.  The state is the
hour; `gathered` and `published` are chosen once.  Velocities are in views per
`PerHour` hours so that medians are whole numbers.

### `MCServices`

These services share no state, so one run takes them all: `service` is chosen in
the initial state and only that one moves.  The state space is the sum of
theirs, not the product.  The assumptions of this module check the mappings of a
listing that no action uses (`Ranked`, `CommercialState`, `SourceHandles`,
`FieldStatus`, `Timezone`) over small inputs.

## 4. Runs

| run | what it asks | bounds |
|---|---|---|
| `captures`: scheduler | leases, single active window, finality, recovery, in one process | 1 event, 2 workers, requested captures, parser failures, enrichment, lease of 1, clock to 3, no crash (the theorems cover crashes), 2 attempts |
| `captures`: ledger | order, alternation, last readings, what is announced, refinement | 1 observer, 2 fields (a nullable price, and one that is not), presences, absences, removals and failures at times up to 3, 4 rows, threshold 2 |
| `sched_processes` | finality across processes, which interleave inside a recovery and a generation | 1 event, 2 workers, requested captures, retries, absences, a follow-up date, every effect of enrichment, lease of 1, clock to 2, no crash (the theorem covers crashes) |
| `sched_overrun` | NoDoubleProcessing: violated | 1 process, 1 event, 2 workers, a capture that outlasts its lease of 1 |
| `sched_served` | liveness, windows left | 2 events, batch of 1, 1 worker, 1 crash, clock to 3 |
| `enrichment_orphan` | WindowStillOpen with enrichment: violated | 1 worker |
| `ledger_late` | LateNeverCurrent: violated | as `captures` |
| `registry` | trails, edges, merges, types, handles, decisions | 2 events of one source, 4 names (a common stage name, one billed as artist and organizer, one discovered elsewhere, a series), 2 processes, 2 passes, 2 commands; a pass of the cron worker counts as a command and a correction of a series as two |
| `registry_script` | NamesStayApart: violated | 2 events, 2 organizers' names in Devanagari, 2 passes |
| `quota_day` | WithinCap with UTC ahead of the provider: violated | collector alone, cap of 4 |
| `services`: enrichment | what decides a value, and the plan | 3 nodes, 2 pages, 1 card, 3 passes or visits |
| `services`: matching | verdicts, freshness, consensus | 2 listings of each platform, 2 pairs a run, 2 runs, 1 change |
| `services`: social | versions and what is read into them | an account of two entities, 3 posts, 3 runs, 1 edit |
| `services`: discovery | absences, reports | 5 platforms, 2 listings each, 1 report, 1 change |
| `services`: ingest | graph, registry and feed against what was observed | 5 subjects, 2 ingests together, 1 failure of any step |
| `services`: media | slots, transitions, read models | 2 slots, 2 observers, 3 looks, a redirect, content that changes, 1 restart |
| `services`: watchlist, promotion | overrides, keys, pursuit | 2 artists, 2 targets, 2 requests, or 1 request beside a promotion pass |
| `services`: movement | the labels | 3 videos, 2 owned, readings at 4 of the hours up to 6, windows of 2 |
| `services`: quota | books, cap, reserve | collector and 1 request, cap of 3, reserve of 2, own cap of 1, passes of 1 query and 2 jobs, requests of up to 2 queries, the reset of a day, 1 loss; UTC is the provider's zone |
| `demand`: one artist | retry budget, one search ahead, types, nobody forgotten, due jobs executed, finished windows | 2 channels, batch of 1, 2 attempts, searches that resolve, fail or lack quota, all operators, 1 crash, clock to 1 |
| `demand`: two artists | nobody forgotten, finished windows | 1 channel either may own, catalogue refreshes, batch of 2, 2 attempts, answers that succeed, are undecided or know no such channel, no operator, no crash, clock to 1 |
| `demand_stuck` | FailuresAreIsolated: violated | 1 artist, 1 channel, undecided searches, clock to 2 |

Several properties are conjunctions of named parts, each part with its own
statement in the module: `NothingIsUndone`, `HistoryIsOrdered`,
`LogExplainsStates`, `TrailExplains`, `NamesMergeNothing`, `QueueIsSound`,
`EvidenceDecides`, `MatchesAreFounded`, `ReadingsFollowEvidence`,
`ReportIsHonest`, `GraphIsFounded`, `HandlesAreApart`, `TransitionsAreVouched`,
`ReadsFollowLooks`, `TargetsAreSound`, `LabelsAreEarned`, `SpendingIsBounded`.  The run
of two queues, `demand`, checks the property of each queue under a name of its own:
`NobodyIsForgotten` (`OnboardedIsFollowed`), `WindowsStayFinal` (`WindowsAreFinal`).

The bounds are enough for what the properties need: a lease that runs out
(lease 1, clock 3) while its holder is inside a capture and another worker
recovers, generates and claims; a crash with time left to recover; an absence
counter that reaches its threshold, a removal that jumps over it and a
reappearance; two workers, requests or operators, because every hazard listed is
between two.  Observers that race are left to the theorem `LogIsSound`, which is
of any number.  The bounds by name: `MaxTime` and `MaxAborts` (scheduler),
`MaxStamp` and `MaxRows` (ledger), `MaxPasses` and `MaxCommands` (registry), `MaxClock` and
`MaxLosses` (quota), `MaxTime` and `MaxCrashes` (demand queue, where a pass takes
no time, so that several fit into each unit), `MaxBatches` (enrichment),
`MaxMatchRuns` and `MaxMoves` (matching), `MaxSocialRuns` and `MaxEdits` (social
evidence), `MaxReports` and `MaxRestocks` (discovery), `MaxIngests` and
`MaxFailures` (ingest), `MaxObserves`, `MaxPublications`, `MaxMediaRestarts`
(media), `MaxTargets` and `MaxRequests` (watchlist), `LastHour` (movement).
`MaxPairs`, `MaxIdentities`, `MaxMentions`, `FetchCap`, `DiscoveryLimit`,
`MaxBytes` and `RedirectLimit` are not bounds of the models but limits the code
has itself.

The two passes, commands, runs, requests or looks of each bound are what a
hazard here takes: one that has read and waits, one that writes in between; the
third enrichment batch, social run and look is the one that comes back to an
earlier value.  One failure, at any step, reaches each partial outcome an ingest
can leave; outcomes of two failures in a row are not explored.

Deadlock is checked in the `sched_` runs, and not where the system may rest: nobody
has to observe, to request or to resolve; the process may hang in `demand`
and in the quota; the clock of `enrichment_orphan` and of the other demand runs
stops.  The services, the ledger and the registry assume no fairness and claim
nothing that must come about.

Fairness (`CaptureScheduler!Fairness`).  The clock goes on; `collector_loop`
starts a pass every interval for ever; a task whose await has ended is resumed
by the first-in-first-out ready queue of asyncio, even if others disable its
step over and over (hence strong fairness of `Advance`).  Requests and
enrollments need never come, and nothing is assumed of crashes but that they
are finitely many.

`DemandScheduler!Spec` assumes only that the collector goes on: `collector_loop`
never ends while the process lives, and each call is answered or times out.  A
tick that fails (`EnqueueFails`) is no progress, and nothing obliges time,
operators or crashes.  `DueIsExecuted` therefore excuses a hung loop and jammed
identities; `demand_stuck` shows that the second excuse is needed.

### What the violations show

* `sched_overrun`: a worker takes a job, its capture (or one before it in the
  batch) takes longer than the lease, a recovery returns the job and a second worker
  takes it; the first goes on, and its closing transaction asks neither status nor
  lease.  Two workers process one window, which `docs/adr/0006` rules out (section
  4: "overlapping workers cannot double-process a window").  What does hold is
  in `captures` and `sched_processes`: while a lease runs its holder is alone, and
  whoever is late neither reopens a finished job nor revives a retired tracker.
* `ledger_late`: an event is captured at 1, and again, unchanged, at 3, which stores
  nothing; a capture taken at 2 and delivered after it (in the trace, an absence) is
  compared with the row of 1 and becomes current.  `docs/adr/0005` (consequences) and the head of
  `shadow_store.py` exclude it.

* `enrichment_orphan`: a tracker left active with no next capture and its
  initial window used is never captured nor stopped again.
* `quota_day`: discovery asks for the row of `now.date()` in UTC, searches are
  booked on the provider's day.  For the seven or eight hours in which UTC is a
  day ahead of Pacific time the check reads a row that nobody has written.
* `registry_script`: `slug` keeps the letters a to z and digits, so that names in
  any other script have the empty slug, one handle for each source and role, and
  one canonical id for each role.  Creation of entities by operators refuses
  an empty slug (`EMPTY_NAME`); passes do not look.
* `demand_stuck`: a channel that the provider no longer knows becomes UNRESOLVED,
  the next search is undecided and fills the pending slot; now the artist has two
  undecided rows, `enqueue_identity_reattempts` adds their common key twice and
  the flush fails, in this tick and in every later one.  The clock of the run
  stops, but every later window repeats it.  Two resolved rows (a hint while a
  search is queued) do the same to `enqueue_due`.

Seen while modelling, in the models but not run: every retry
of a capture is a new job whose attempts count from 0, so `decide_retry` never
gives a tracker to review (`service.py:211`); a discovery whose attempts are used up by an outage is
never queued again (`universe.py:80`), and a channel may be taken from the artist
that owned it (`artist_intelligence_service/service.py:107`), the two ways in
which `OnboardedIsFollowed` lets an artist be lost; its words are of any artist,
so with two a channel taken from one may also excuse the other; with several
processes a recovery that read an expired lease returns the job after it was claimed
anew (`service.py:157`), and a worker that outlived its lease may write a follow-up
date whose window is used (`service.py:121`), which is why `sched_served` has
one worker; a failed request that arrives late is kept as an audit row
(`shadow_store.py:167` before `191`); two observers that read the same latest row
both announce a disappearance (`shadow_store.py:163`); an event whose first row is an absence is
never announced as first seen (`shadow_store.py:201`); a blank string erases a
field that allows no explicit null (`shadow_ledger.py:207`); the event loop hangs
when a request books a search while a pass that has booked one awaits its next
answer (`quota.py:189`, action `Hang`).

Seen in the services, in the models but in no run of their own:

* Entity resolution: every resolver asks the source handle first, and the handle
  is made of source, role and name, so that the second hall of a chain that a
  source lists, in whatever city, resolves to the first (`resolvers.py:123`;
  `docs/entity-resolution.md` line 43 promises that they stay distinct); a pass
  overwrites operator decisions and evidence, a quarantined row included
  (`docs/adr/0012` line 31 says otherwise); `reconcile_graph_artists` registers
  gated and placeholder nodes as resolved; a reject leaves the edge RESOLVED;
  `reverse_accept` removes a handle that other mentions share; the idempotency
  key is made of action and ids, so that after a reversal the same accept is a
  repetition for ever; the type given to `create_entity` is not checked against
  the mention's; a handle that one process registers between another's look at it
  and its use is overwritten (`entity_resolution/service.py:319`, `governance.py:162`),
  the exception in `SeenHandlesStay`, and of two processes at once one identity may
  get two types, the exception in `OneTypePerIdentity`; a series that an operator
  puts an event into has no row, handle or history in the registry
  (`governance.py:448`), so that the next pass decides without it.
* Enrichment: a value that comes back (A, B, A) stays SUPERSEDED; two venues
  of one display name in a batch violate the unique hash, in every later pass; the
  operator's `/enrichment/resolve` resolves without applying; the pilot, meant
  to measure, stores candidates that count; the registry's confidence of a
  field is never used.
* Matching and social evidence: rows beyond `max_pairs` are never scored again; a
  post edited before its interpretation leaves a version unprocessed; a failed
  interpretation is not retried, and one that could not read the events remains a
  hypothesis of a new one; a late answer of an account makes older content
  current.
* Sources and ingest: the ingest route and the discovery report disagree on HTTP
  404; two creations of one slug merge two handles; a lookup that failed once
  makes a label an artist for ever; an old `OCCURS_AT` edge and an old price stay in
  the graph; a retried ingest appends its observations twice.
* Watchlist: adding an artist again after its key became `canonical:x` makes a
  second target; a failed check takes the artist from a WATCHING target and
  leaves the status; an artist merged into a paused target and resumed becomes
  WATCHING unchecked; a pause is lost to a resolution that began before a resume;
  two requests that need each other's rows stop the event loop.
* Media: an absence recorded late of a slot that is absent does not move its time;
  fetching switched off and on again reports a change of content; the graph's
  edge is by event and asset, shared by roles and sources.
* Movement: a filter to videos of other channels is applied before the owned
  baselines are built and leaves every label INSUFFICIENT_HISTORY; a video that
  stood still before never breaks out.


## 5. Proofs

Each `...Proofs` module extends the component it is about and proves, for all
values of the constants that satisfy the component's assumption, theorems of its
specification.  Bounds on time, rows, passes, crashes and commands are constants
like the others: what is proved holds whatever they are.

| theorem | states | where |
|---|---|---|
| `TypeCorrect`, `LeasesExclude`, `NothingUndone`, `FinishedForGood`, `OneWindowAtATime`, `TrackersAreNotLost` | `TypeOK`, `LeaseExclusion`, `NothingIsUndone`, `FinishedStaysFinished`, `OneActiveWindow`, `WindowStillOpen` | `CaptureSchedulerProofs` |
| `LogIsSound`, `HistoryIsALine`, `StateIsTold`, `LedgerTellsTheLife` | `LogExplainsStates`, `HistoryIsOrdered`, `StateIsLastReading`, `ImplementsVisibility` | `ShadowLedgerProofs` |
| `FinishedStays`, `QueueStaysSound`, `OnboardedStaysFollowed` | `WindowsAreFinal`, `QueueIsSound`, `OnboardedIsFollowed` | `DemandSchedulerProofs` |
| `OverridesLast`, `WatchedArePursued`, `TargetsStaySound` | `OverrideLasts`, `WatchedIsPursued`, `TargetsAreSound` | `WatchTargetsProofs` |
| `SlotsShowTheNewest`, `TimelineIsVouched`, `ReadsStayFounded` | `SlotIsNewestPresence`, `TransitionsAreVouched`, `ReadsFollowLooks` | `MediaSlotsProofs` |
| `CallsStayAccounted`, `SpendingStaysBounded`, `ReserveStaysKept` | `CallsAccounted` with the types, `SpendingIsBounded`, `ReserveKept` | `QuotaBudgetProofs` |
| `TrailsExplain`, `EdgesAreDecided`, `DecisionsStayBacked`, `HandlesStayPut`, `NamesMergeNothingUnasked` | `TrailExplains`, `EdgesHaveDecisions`, `DecisionsAreBacked`, `SeenHandlesStay`, `NamesMergeNothing` | `ResolutionDecisionsProofs` |
| `ResolutionsRestOnEvidence`, `PlansStayCurrent` | `EvidenceDecides`, `PlanFollowsEvent` | `EvidenceProofs` |
| `MatchesStayFounded` | `MatchesAreFounded` | `EvidenceProofs` |
| `VersionsStayApart`, `ReadingsStayFounded` | `VersionsDiffer`, `ReadingsFollowEvidence` | `EvidenceProofs` |
| `ReportsStayHonest`, `AbsencesStayAnswered` | `ReportIsHonest`, `AbsenceIsAnswered` | `EvidenceProofs` |
| `GraphStaysFounded`, `HandlesStayApart`, `FeedStaysVouched` | `GraphIsFounded`, `HandlesAreApart`, `FeedIsVouched` | `EvidenceProofs` |
| `LabelsStayEarned` | `LabelsAreEarned` | `EvidenceProofs` |

Few properties are inductive as they stand (`TypeOK`, `AbsenceIsAnswered`).  In each module the
invariant is a conjunction of named parts, each about a few tables and
passed them as arguments; one lemma per action says which parts it keeps.

### Scheduled capture

* **Leases.**  `LeaseInvariant` adds to `LeaseExclusion` that a worker has its
  job at hand where it needs it and starts without leftovers (`AtHand`), that
  `now` is in the past (`NowIsPast`), that until a lease ends each job held under
  it is finished or RUNNING with that very end (`LeaseKept`), and that a recovery
  about to write has read only leases that have run out (`RecoversExpired`).  A
  claim then takes only PENDING jobs, which nobody holds under a running lease,
  and a recovery only expired ones.
* **Windows.**  `GenerationInv` adds that at most one worker is between its awaits
  (`Alone`) and that a plan about to be written still fits the tables
  (`PlanIsFresh`); both need `~MultiProcess`, as `RecoversExpired` does.
* **Finality.**  `FinishedForGood` needs no hypothesis, however many processes there
  are and however late their workers: a recovery writes only what is RUNNING when it
  writes, a claim what is PENDING, and a closing transaction reads the tracker it
  writes.  Types and `AtHand` suffice.  `NothingUndone` says more, that only leases
  which have run out are recovered, and needs `~MultiProcess`.
* **Windows left.**  `OpenInv` adds that a window gets a job only once the clock has
  reached it, and that while a worker holds a job no window of its event later
  than its `now` is opened: the next date it writes is free.  The theorem is about
  behaviours: in each in which no two workers ever process one job
  (`[]NoDoubleProcessing`), an active tracker has a window left.  The code does not
  ensure that premise (`sched_overrun`), and of two that close one job the later may
  write a date whose window is used.  It also needs `~MultiProcess`, and no effect
  "reschedule" of enrichment, for which `enrichment_orphan` refutes the property.

### Shadow Ledger

`LogIsSound` needs no hypothesis: `RaceInv` says that what an observer took for
the latest row is a row of the history, or none.  The other three are of one
observer at a time (`Alone`), because two that read the same row both build on it
(`shadow_store.py:163`); then what was read is the last row (`ReadsLast`).
`TurnsInv` relates the log to the current row: it is gone exactly when the log's last
announcement says so.  `LifeInv` adds that until then its counter is the number of
absences at the end of the history.  For `LedgerTellsTheLife` every step of the
ledger is a step of `Visibility` or a stutter under that mapping.

### Demand queue

`SoundInv` says of the stored tables and of the pass's drafts what a claimed job
may be, `SearchInv` which searches may be ahead in what a pass sees and in what is
stored, `FollowInv` that an artist with a discovery is followed in both: so a
commit and a crash keep it alike.

### Search quota

The properties are about sums over sessions and days, and so is their proof.  The
first part of `QuotaBudgetProofs` proves what `FoldSet` computes over a finite
set: the recursion behind it has a solution, only one, and the sum does not
depend on the order (`SumRemove`, `SumChange`, `SumAdd`, `SumBounded`).  The
induction over subsets is stated for the set of the subsets for which a claim
holds (`SubsetInduction`), so that no operator is passed to a theorem.

`CountInv` adds to the counts that two sessions hold different rows, which have
only grown (`BooksInv`: hence a commit adds and never overwrites), that a session
stays within one allowance (`EffortInv`), and that today's searches are among
those accounted for (`TodayInv`).  A search sent after a look at today's row then
exceeds its limit by no more than the allowances of the others (`CheckedSend`).
`ReserveStaysKept` and `CallsStayAccounted` need no hypothesis.

`SpendingStaysBounded` needs `Punctual`, as a discovery that outlasts its day no
longer looks at today's row: `StretchInv` counts what such runs have left as if
it were sent.  Discovery is off by default (`config.py:146`), and then `Punctual`
holds.  Where it is on, the day it asks for must be the provider's, which
`quota_day` refutes where UTC is ahead of it, and a run (3 queries, or the 25 an
operator may ask for) must fit into the cap (100), or a reset in its middle lets it
exceed a smaller one.

### Watchlist

`SessionInv` says which rows a session may start from (`Fit`), and that a row it
has flushed is its own and its key nobody else's (`Locked`).  `RowsInv` extends
`WatchedIsPursued` to rows of any status, `MintingInv` the evidence of minted
artists to sessions about to create one.  `TargetsStaySound` has the hypothesis
`MinSources >= 2`: the operator's own candidate counts as a source
(`promotion.py:89`), so with a threshold of one his word would make an artist.
`config.py:172` sets it to 2.

### Media slots

`SlotsInv` is `SlotIsNewestPresence` with the shapes of rows, looks and requests,
`NoSlotRow` being a slot at which nobody has seen an image.  `TimelineIsSound`
says of each transition which look vouches for it; each new one is warranted by
the row before and the look being recorded.

`ReadsInv` adds three parts.  `CountInv` states the equations of `ReadsAgree` for
every set of slots, not only those of one event or source: a look then changes
both sides alike.  `Accounted` says what the kinds of transitions tell of a row
(a version more is one change of content; a presence that ends, or comes back, is
one disappearance or return), and `CountsTurn` what one row does to the counts.
`LooksInv`: a look with content was fetched, wherever redirects led
(`FetchedIsWhole`), so contents are no more than fetches (`UniqueIsFetched`).
`LinksInv`: a request between the two writes of the graph carries a look that is
recorded, of an asset that is kept; assets and looks are only added.

### Entity resolution

`IInv` says of rows, trail, handles, graph, batches under way, pages, passes, the
open link and decisions what each must say of the others: a row is where its last
entry left it; a batch, or what a pass is about to send, claims only what the trail
holds or, of a series, what an operator asked for (`Grounds`).  What a pass knows of
handles is not what the registry holds of them, for another process may write them
at any time; `HandlesStayPut` therefore compares, in the step that writes a handle,
what its writer had read with what is there.

`NamesMergeNothing` needs more, `FInv`: of every row, handle and remembered earlier
state, that its canonical is of a name which that handle bears, or of an operator's
link (`Founded`), and the like of the venues a pass knows.  A handle bears every
name of its slug (`Bearing`), and a venue is looked up by its normal form as well, so
names that share one or the other form a chain (`Kin`): the theorem has no
hypothesis on names or slugs, and says of names that share a slug only what is
true of them.  That two such names stay apart is false (`registry_script`), and no
theorem claims it.

All five theorems hold of any number of processes and have no hypothesis besides the
assumptions on the constants.

### Evidence

`EvidenceProofs` is about six components that read, compare and store, and about
the pure operators they share.  A CHOOSE of a least or strongest member of a set
is worth something only where there is one: of naturals, by the well-foundedness
of `<` (`LeastExists`, which serves `MinIsLeast` and `TopTierExists`); of scored
comparisons, by counting those above each (`StrongestIsFound`); of a finite set of
integers, by counting those below each (`FiniteHasLeast`).

* **Enrichment.**  `EnrichInv` adds what a pass holds (`PassIsSound`): a batch that is
  valid, or candidates read back that are evidence and all of it that stood then
  (`HeldIsEvidence`), or values that some version settled.  An automatic resolution
  has a candidate whose authority no contradicting one reaches (`ResolvedOutranks`).
  No hypothesis on the constants.
* **Matching.**  `MatchInv` says that what a run has read are views, and that every
  row is of a listing of either platform and stands, if matched, on `Compatible`
  views (`MatchIsCompatible`, from the contradictions of `Status`).  A consensus
  takes candidates of two independence groups (`ConsensusIsIndependent`), and all
  claims of one listing are of one group, its platform (`ClaimsHaveOneOrigin`).
* **Social evidence.**  `SocialInv` says that runs carry and `mention` keeps posts there
  may be, that work and interpretations are of versions that are kept, that each
  version is read once, soundly (`ReadingIsSound`), and that rows are those its
  reading names.  Versions are only added and keep their claims (`ClaimsAreKept`), so
  what was read of one stays true while posts change and runs overlap.  An automatic
  match has two dimensions of 800 or more, one of which is not the date
  (`MatchIsCorroborated`).
* **Discovery.**  `DiscoveryInv`: a report is `NoReport` or adds up so far, with
  accepted events only (`JudgedIsSound`).  `GoneIsSure` goes through what each
  platform makes of its answers (`Extract`): a 404 comes of no failure.
* **Ingests.**  `IngestInv` has three parts.  `JobsInv`: a request resolves its names in
  order, the first id it has stands for the handle it observed, and each id it has
  has a cause.  `RegistryInv`: what overlapping creations can do to each other is in
  `together` (`CreationsTold`); that a suffix is free (`FreeIdIsFree`) is counted, as
  there are more numbers than ids taken.  `GraphInv`: every row is founded on what was
  projected or classified last for its node (`GraphIsSound`).  The batch is written
  by a recursion over its nodes, which has a solution (`BatchExists`); later nodes of
  a batch touch nothing of the first that the feed or a review depends on
  (`BatchWritten`).
* **Movement.**  The readings never change (`MoveInv`), so the labels are a matter of
  arithmetic.  A velocity has two readings of its window, and a positive one a gain
  between the first and the last (`VelocityIsRead`).  The median is no less than some
  velocity that half of the cohort does not exceed (`MedianIsOverHalf`, from the
  ranks of `AtRank`), the entries of a cohort are one for each owned video of that
  age (`CohortIsRivals`), and so half of those are slower (`HalfIsSlower`).  The
  theorem is stated under `SpeedsTell`: the breakout ratios exceed one, and the
  cooling ratio is below it, as the defaults of `config.py:216` to `220` do.  They
  are settings, which nothing checks; a cooling ratio of two calls a video that
  gains faster cooling.

### Assumptions

`SchedulerAssumption`, `LedgerAssumption`, `DemandAssumption`, `WatchAssumption`,
`MediaAssumption`, `QuotaAssumption`, `NamesHaveFacts`, `PagesAreOfNames`,
`ApiIsAProcess` and `DiscoveriesAreNames` say of which sets the constants are.  `NoneIsNothing`,
`IdsAreIds`, `NilIsNothing` and the disjointness conjuncts tell model values
apart that stand for different things in the code.  `NamesHaveFacts` also states two
facts of `normalizers.py`: a tribute is not an ambiguous name, since its normal
form holds "tribute" or "cover", and ambiguity is decided by the normal form.
`DemandAssumption` says that powers of two are natural numbers, which the provers
do not know.  `MatchingIsDefined`, `ListingsAreOfTwoSources`, `ListingsAreReadable`,
`PostsAreReadable` and `DiscoveryIsBounded` say that sets of words, listings and events
are finite, tolerance and limits natural, dates numbers, a likeness of a post and
an event within 0 to 1000 (`_sim` gives 0 to 1), no listing of both platforms, and
pages of known surfaces.
`IngestAssumption` says that requests are finitely many, that an answer is of one of
four kinds and lists what it lists in order, and that videos are counted;
`MovementAssumption` says that hours are natural and views whole numbers, that the
owned videos are finitely many and have readings, perhaps none, and that ratios are
positive;
`NoneIsNoFailure` tells the absence of an error from an error.  TLC evaluates
them all in the runs.

## 6. What is only checked, and what is not modelled

Only model-checked, on the instances above:

* liveness under fairness (`DueIsServed`, `DueIsExecuted`), which is out of the
  prover's reach, as are ENABLED, recursive operators and the theorems of the
  library that take an operator (an induction is made instead by taking a least
  counterexample, or over a set of subsets);
* `OneTypePerIdentity`: the scores of `classify_type` decide it, and it is true of the
  vocabularies of the run, not of all: enough structured and lexical evidence
  outweighs the type an identity has already.

Not modelled: the governance of crawl-service beyond the commands above
(supersession of legacy entities, the lists and audits it serves); parsing of pages and API formats; storage of images; the ranking and
read models of artist-intelligence and analytics (aggregation of stored rows,
floating point); authentication, proxying and the admin read side of the gateway
(no state of their own but sessions); observation-service beyond its append;
feature-, scoring- and recommendation services, which are scaffolds; the console
(user interface).  The composition of the scheduler with the ledger through the
capturer, whose absences are submitted best effort, is left for later.
