------------------------------ MODULE QuotaBudget -------------------------------
(***************************************************************************)
(* The daily Search-Queries quota of artist-intelligence-service: quota.py *)
(* and the searches it guards, by the pass of the collector (collector.py, *)
(* scheduler.py), by discovery (discovery.py) and by the operator's        *)
(* requests (routes/demand.py).  Every search asks the books first, is     *)
(* then awaited, and is booked when its answer is there; the books of a    *)
(* pass are committed when it ends.                                        *)
(*                                                                         *)
(* All sessions are tasks of one event loop (main.py starts the collector  *)
(* inside the web process), and their database calls are synchronous: a    *)
(* statement that waits for a row lock stops the loop.  The books of the   *)
(* general pool work the same way and are left out.                        *)
(***************************************************************************)
EXTENDS Integers, FiniteSets, FiniteSetsExt

CONSTANTS
  Requests,          \* requests of operators being served
  Cap,               \* youtube_search_daily_calls
  SelfCap,           \* youtube_max_searches_per_day
  Reserve,           \* search_reserve_calls()
  Slice,             \* search_purpose_budget, by purpose
  QueriesPerRun,     \* youtube_discovery_per_run
  MaxQueries,        \* the bound the route puts on max_queries
  Batch,             \* identity jobs a pass claims
  DiscoveryEnabled,  \* youtube_discovery_enabled
  DayLength,         \* of the day of the quota, in units of the clock
  NearWindow,        \* near_provider_reset: this long before the reset
  Lead,              \* how far UTC is ahead of the provider's time zone
  MaxClock,          \* bound: units of time
  MaxLosses          \* bound: restarts, and requests whose search fails

VARIABLES
  clock,
  quota,     \* the committed books: SEARCH and SEARCH:<purpose> rows, by day
  session,   \* what each task is doing
  draft,     \* rows a session has flushed and not committed: it holds their locks
  hung,      \* the event loop waits for a row lock
  losses,    \* restarts and failed requests so far
  spent,     \* history: searches sent, by the provider's day
  lost       \* history: searches whose booking never was committed

books == <<quota, draft>>
history == <<spent, lost>>
quotaVars == <<clock, books, session, hung, losses, history>>

--------------------------------------------------------------------------------
Collector == "collector"
Sessions == {Collector} \cup Requests

Purposes == {"unresolved", "discovery", "ambiguity"}
Rows == [calls : Nat, by : [Purposes -> Nat]]
NoRow == [calls |-> 0, by |-> [p \in Purposes |-> 0]]

Days == 0 .. (MaxClock + Lead) \div DayLength

\* quota_date_for: the day of the provider's reset, whatever UTC says.
QuotaDay == clock \div DayLength
UtcDay == (clock + Lead) \div DayLength
NearReset == DayLength - (clock % DayLength) <= NearWindow

\* The most queries a run of discovery makes.
MostQueries == IF MaxQueries > QueriesPerRun THEN MaxQueries ELSE QueriesPerRun

\* The most searches a session makes within one transaction.
MaxOpen == IF Batch > MostQueries THEN Batch ELSE MostQueries

ASSUME QuotaAssumption ==
  /\ Collector \notin Requests /\ IsFiniteSet(Requests)
  /\ Cap \in Nat /\ SelfCap \in 0 .. Cap /\ Reserve \in 0 .. Cap
  /\ Slice \in [Purposes -> Nat]
  /\ QueriesPerRun \in Nat \ {0} /\ MaxQueries \in Nat \ {0} /\ Batch \in Nat \ {0}
  /\ DiscoveryEnabled \in BOOLEAN
  /\ DayLength \in Nat \ {0} /\ NearWindow \in 0 .. DayLength
  /\ Lead \in 0 .. DayLength - 1
  /\ MaxClock \in Nat /\ MaxLosses \in Nat

Off == [at |-> "off"]
Ready == [at : {"ready"}, kind : {"discovery", "jobs"}, left : 0 .. MaxOpen,
          on : Days, near : BOOLEAN, backlog : BOOLEAN]
Calling == [at : {"call"}, kind : {"discovery", "jobs", "resolve"}, left : 0 .. MaxOpen,
            on : Days, near : BOOLEAN, backlog : BOOLEAN,
            purpose : Purposes \cup {"none"}, ordinary : BOOLEAN, day : Days]

\* The type invariant.
QuotaTypeOK ==
  /\ clock \in 0 .. MaxClock
  /\ quota \in [Days -> Rows]
  /\ session \in [Sessions -> {Off} \cup Ready \cup Calling]
  /\ DOMAIN draft = Sessions
  /\ \A s \in Sessions : DOMAIN draft[s] \subseteq Days /\ draft[s] \in [DOMAIN draft[s] -> Rows]
  /\ hung \in BOOLEAN
  /\ losses \in 0 .. MaxLosses
  /\ spent \in [Days -> Nat] /\ lost \in [Days -> Nat]

NoDraft == [d \in {} |-> NoRow]

QuotaInit ==
  /\ clock = 0
  /\ quota = [d \in Days |-> NoRow]
  /\ session = [s \in Sessions |-> Off]
  /\ draft = [s \in Sessions |-> NoDraft]
  /\ hung = FALSE
  /\ losses = 0
  /\ spent = [d \in Days |-> 0]
  /\ lost = [d \in Days |-> 0]

--------------------------------------------------------------------------------
(* The books.                                                              *)

\* What a session reads: its own transaction, or what is committed.
Seen(s, d) == IF d \in DOMAIN draft[s] THEN draft[s][d] ELSE quota[d]

\* record_meter of one search: the total, and the purpose if there is one.
Charge(row, p) ==
  [calls |-> row.calls + 1,
   by |-> [q \in Purposes |-> row.by[q] + IF q = p THEN 1 ELSE 0]]

CanSpend(row) == row.calls + 1 <= Cap

CanSpendSearch_NoReserve(row, p, backlog, near, high) ==
  CanSpend(row) /\ (row.by[p] + 1 <= Slice[p] \/ near \/ ~backlog)

\* The cap; the reserve, kept from ordinary work until shortly before the
\* reset; and the purpose's own slice, exceeded only when others are idle.
CanSpendSearch(row, p, backlog, near, high) ==
  /\ CanSpend(row)
  /\ high \/ near \/ row.calls + 1 <= Cap - Reserve
  /\ row.by[p] + 1 <= Slice[p] \/ near \/ ~backlog

LockedByOther_Never(s) == FALSE

\* Another session has written today's row and not yet committed.
LockedByOther(s) == \E t \in Sessions \ {s} : QuotaDay \in DOMAIN draft[t]

\* Searches a session has booked but not committed.
Unsaved(s, d) == IF d \in DOMAIN draft[s] THEN draft[s][d].calls - quota[d].calls ELSE 0

\* The search of a day that a session awaits.
Awaited(s, d) ==
  IF session[s].at = "call" /\ session[s].day = d THEN 1 ELSE 0

\* What the committed books do not show of a session.
Uncommitted(s, d) == Unsaved(s, d) + Awaited(s, d)

SumOver(f, S) == FoldSet(LAMBDA x, n : n + f[x], 0, S)

AllUncommitted(d) == SumOver([s \in Sessions |-> Uncommitted(s, d)], Sessions)

--------------------------------------------------------------------------------
(* Scheduling: a task runs until it awaits; discovery does not between the *)
(* booking of a query and the check of the next one.                       *)

At(s, place) == session[s].at = place

MayRun(s) ==
  /\ ~hung
  /\ \A t \in Sessions \ {s} : At(t, "ready") => session[t].kind # "discovery"

Idle(s) == At(s, "off") /\ MayRun(s)
Between(s, kind) == At(s, "ready") /\ session[s].kind = kind /\ MayRun(s)

\* A search leaves for the provider, who counts it on its own day.
Send(s, kind, left, on, near, backlog, purpose, ordinary) ==
  /\ session' = [session EXCEPT ![s] =
       [at |-> "call", kind |-> kind, left |-> left, on |-> on, near |-> near,
        backlog |-> backlog, purpose |-> purpose, ordinary |-> ordinary, day |-> QuotaDay]]
  /\ spent' = [spent EXCEPT ![QuotaDay] = @ + 1]

SendNext(s, purpose, high) ==
  Send(s, session[s].kind, session[s].left - 1, session[s].on, session[s].near,
       session[s].backlog, purpose, ~high /\ ~session[s].near)

Begin(s, kind, left, backlog) ==
  session' = [session EXCEPT ![s] =
    [at |-> "ready", kind |-> kind, left |-> left, on |-> UtcDay, near |-> NearReset,
     backlog |-> backlog]]

CommitBooks(s) ==
  /\ quota' = [d \in Days |-> Seen(s, d)]
  /\ draft' = [draft EXCEPT ![s] = NoDraft]

--------------------------------------------------------------------------------
(* The collector and discovery.                                            *)

\* _tick: discovery first, if it is enabled; else the jobs at once.
StartTick ==
  /\ Idle(Collector)
  /\ \/ DiscoveryEnabled /\ \E backlog \in BOOLEAN :
          Begin(Collector, "discovery", QueriesPerRun, backlog)
     \/ ~DiscoveryEnabled /\ Begin(Collector, "jobs", Batch, FALSE)
  /\ UNCHANGED <<clock, books, hung, losses, history>>

\* run_discovery, the route: max_queries is the operator's, or left out.
RequestDiscovery(r) ==
  /\ Idle(r) /\ DiscoveryEnabled
  /\ \E backlog \in BOOLEAN, n \in {QueriesPerRun} \cup 1 .. MaxQueries :
       Begin(r, "discovery", n, backlog)
  /\ UNCHANGED <<clock, books, hung, losses, history>>

\* The day discovery asks for is that of UTC, when the run began.
MayQuery(s) ==
  /\ session[s].left > 0
  /\ CanSpendSearch(Seen(s, session[s].on), "discovery", session[s].backlog,
                    session[s].near, FALSE)

Query(s) ==
  /\ Between(s, "discovery") /\ MayQuery(s)
  /\ SendNext(s, "discovery", FALSE)
  /\ UNCHANGED <<clock, books, hung, losses, lost>>

\* The loop is done or out of quota: commit, and a pass goes on to its jobs.
EndDiscovery(s) ==
  /\ Between(s, "discovery") /\ ~MayQuery(s)
  /\ CommitBooks(s)
  /\ \/ s = Collector /\ Begin(s, "jobs", Batch, FALSE)
     \/ s # Collector /\ session' = [session EXCEPT ![s] = Off]
  /\ UNCHANGED <<clock, hung, losses, history>>

\* _execute_identity, discover_identity_for_artist, resolve_youtube: a job of
\* any priority, for an artist that is unresolved or ambiguous.
MaySearch(ambiguous, high) ==
  LET row == Seen(Collector, QuotaDay)
  IN /\ CanSpendSearch(row, IF ambiguous THEN "ambiguity" ELSE "unresolved", ambiguous,
                       session[Collector].near, high)
     /\ row.calls < SelfCap

SearchIdentity ==
  /\ Between(Collector, "jobs") /\ session[Collector].left > 0
  /\ \E ambiguous, high \in BOOLEAN :
       /\ MaySearch(ambiguous, high)
       /\ SendNext(Collector, IF ambiguous THEN "ambiguity" ELSE "unresolved", high)
  /\ UNCHANGED <<clock, books, hung, losses, lost>>

\* QUOTA_EXHAUSTED: the job is put back for later.
Defer ==
  /\ Between(Collector, "jobs") /\ session[Collector].left > 0
  /\ \E ambiguous, high \in BOOLEAN : ~MaySearch(ambiguous, high)
  /\ session' = [session EXCEPT ![Collector].left = @ - 1]
  /\ UNCHANGED <<clock, books, hung, losses, history>>

\* The commit of run_once, after the last job.
EndTick ==
  /\ Between(Collector, "jobs") /\ session[Collector].left = 0
  /\ CommitBooks(Collector)
  /\ session' = [session EXCEPT ![Collector] = Off]
  /\ UNCHANGED <<clock, hung, losses, history>>

\* The answer is there, good or bad: book it on today's row, and keep the lock.
Record(s) ==
  /\ At(s, "call") /\ session[s].kind # "resolve"
  /\ MayRun(s) /\ ~LockedByOther(s)
  /\ draft' = [draft EXCEPT ![s] =
       [d \in DOMAIN draft[s] \cup {QuotaDay} |->
          IF d = QuotaDay THEN Charge(Seen(s, d), session[s].purpose) ELSE draft[s][d]]]
  /\ session' = [session EXCEPT ![s] =
       [at |-> "ready", kind |-> session[s].kind, left |-> session[s].left,
        on |-> session[s].on, near |-> session[s].near, backlog |-> session[s].backlog]]
  /\ UNCHANGED <<clock, quota, hung, losses, history>>

--------------------------------------------------------------------------------
(* A resolution asked for by an operator.                                  *)

\* youtube_resolve: only the operational cap is asked; 429 changes nothing.
RequestResolve(r) ==
  /\ Idle(r)
  /\ quota[QuotaDay].calls < SelfCap
  /\ Send(r, "resolve", 0, UtcDay, NearReset, FALSE, "none", FALSE)
  /\ UNCHANGED <<clock, books, hung, losses, lost>>

Answered(r) ==
  /\ At(r, "call") /\ session[r].kind = "resolve"
  /\ MayRun(r) /\ ~LockedByOther(r)
  /\ session' = [session EXCEPT ![r] = Off]

\* Booked and committed without an await in between.
ResolveAnswered(r) ==
  /\ Answered(r)
  /\ quota' = [quota EXCEPT ![QuotaDay] = Charge(@, "none")]
  /\ UNCHANGED <<clock, draft, hung, losses, history>>

\* The search failed: it is booked, but the route does not commit.
ResolveFailed(r) ==
  /\ Answered(r)
  /\ losses < MaxLosses
  /\ losses' = losses + 1
  /\ lost' = [lost EXCEPT ![session[r].day] = @ + 1]
  /\ UNCHANGED <<clock, books, hung, spent>>

--------------------------------------------------------------------------------
(* The process.                                                            *)

\* Booking meets the lock of a session that is awaiting its next answer: the
\* loop waits for the lock, and the session for the loop.
Hang(s) ==
  /\ At(s, "call") /\ MayRun(s) /\ LockedByOther(s)
  /\ hung' = TRUE
  /\ UNCHANGED <<clock, books, session, losses, history>>

\* A crash or a restart: open transactions are rolled back.
Restart ==
  /\ losses < MaxLosses
  /\ losses' = losses + 1
  /\ lost' = [d \in Days |-> lost[d] + AllUncommitted(d)]
  /\ draft' = [s \in Sessions |-> NoDraft]
  /\ session' = [s \in Sessions |-> Off]
  /\ hung' = FALSE
  /\ UNCHANGED <<clock, quota, spent>>

Tick ==
  /\ clock < MaxClock
  /\ clock' = clock + 1
  /\ UNCHANGED <<books, session, hung, losses, history>>

QuotaNext ==
  \/ StartTick
  \/ \E r \in Requests : RequestDiscovery(r)
  \/ \E s \in Sessions : Query(s)
  \/ \E s \in Sessions : EndDiscovery(s)
  \/ SearchIdentity
  \/ Defer
  \/ EndTick
  \/ \E s \in Sessions : Record(s)
  \/ \E r \in Requests : RequestResolve(r)
  \/ \E r \in Requests : ResolveAnswered(r)
  \/ \E r \in Requests : ResolveFailed(r)
  \/ \E s \in Sessions : Hang(s)
  \/ Restart
  \/ Tick

QuotaSpec == QuotaInit /\ [][QuotaNext]_quotaVars

--------------------------------------------------------------------------------
(* Properties.                                                             *)

\* Every search sent is in the committed books, in an open transaction, still
\* awaited, or one of the losses of a failed request or a restart; none is
\* booked twice or overwritten (record_meter adds to a row it has read).
Accounted == [d \in Days |-> quota[d].calls + AllUncommitted(d) + lost[d]]
CallsAccounted == SumOver(spent, Days) = SumOver(Accounted, Days)

\* What the sessions besides one may have sent and not yet committed.
Overlap == Cardinality(Requests) * MaxOpen

\* The searches of a provider's day stay within its cap, but for those the
\* books cannot show yet and those they lost (the checks of can_spend against
\* the bookings of record_meter).
WithinCap == \A d \in Days : spent[d] <= Cap + lost[d] + Overlap

\* Every search is accounted for, and the books bound the searches of a day.
SpendingIsBounded == QuotaTypeOK /\ CallsAccounted /\ WithinCap

\* A search of ordinary priority that asks today's row is sent only while the
\* searches of the day leave the reserve, by the same measure, until shortly
\* before the reset.  A discovery asks the row of the day it began on.
AsksToday(s) == session[s].kind = "jobs" \/ session[s].on = QuotaDay

ReserveKept ==
  [][\A s \in Sessions :
       /\ ~At(s, "call") /\ At(s, "call")'
       /\ session'[s].ordinary /\ AsksToday(s)'
       => spent'[QuotaDay] <= Cap - Reserve + lost[QuotaDay] + Overlap]_quotaVars
================================================================================
