---------------------------- MODULE WatchTargets -----------------------------
(***************************************************************************)
(* The watchlist: an operator's instruction to follow an artist, resolved  *)
(* against the registry of crawl-service and promoted from candidates.     *)
(*                                                                         *)
(* A handler is one request, or the collector's promotion pass: one        *)
(* database session, committed as it ends, that waits for crawl-service in *)
(* between.  A row it has flushed is locked until then; a handler that     *)
(* needs a locked row would stop the event loop, which only a restart      *)
(* ends (Crash).  Pause and reject run on threads and wait.                *)
(*                                                                         *)
(* The passes that take a batch take one row here.  The hint, the          *)
(* priority and the texts of a target are left out.                        *)
(***************************************************************************)
EXTENDS Integers, FiniteSets

CONSTANTS
  Nil,
  ArtistIds,
  Bearing,        \* the name an artist id is registered under
  Picks,          \* what operators ask for: a name, perhaps with an artist
  Finds,          \* what discovery comes across
  MayIdentify,    \* pairs: an artist, a state its channel may be found in
  Clients,        \* the requests that may be under way together
  Passes,         \* the promotion passes that may be
  MinSources,
  MaxTargets,     \* bound: targets ever created
  MaxRequests     \* bound: requests to watch or to resume

ASSUME WatchAssumption ==
  /\ Bearing \in [ArtistIds -> {p.name : p \in Picks} \cup {f.name : f \in Finds} \cup {Nil}]
  /\ \A p \in Picks : p.cid \in ArtistIds \cup {Nil}
  /\ \A f \in Finds : f.cid \in ArtistIds \cup {Nil} /\ f.music \in BOOLEAN
  /\ MayIdentify \subseteq ArtistIds \X {"PENDING", "AMBIGUOUS", "RESOLVED"}
  /\ Clients \cap Passes = {}
  /\ MinSources \in Nat /\ MaxTargets \in Nat /\ MaxRequests \in Nat

VARIABLES
  registered,     \* the artists in the registry of crawl-service
  minted,         \* those of them promotion had created
  channelRows,    \* the states of the channel identities of an artist
  jobs,           \* the artists whose identity discovery was ever queued
  candidateRow,   \* (source, id within it) -> candidate
  targetRow,      \* id -> watch target
  handling,       \* handler -> its session, or Nil
  requests

watchVars == <<registered, minted, channelRows, jobs, candidateRow, targetRow, handling, requests>>

-----------------------------------------------------------------------------
Handlers == Clients \cup Passes
TargetIds == 1..MaxTargets
Overrides == {"PAUSED", "REJECTED"}
Pending == {"NEW", "RESOLUTION_PENDING"}
Live == {"WATCHING", "AMBIGUOUS"}

DedupKey(name, cid) == IF cid # Nil THEN <<"canonical", cid>> ELSE <<"name", name>>

IdentityState(cid) ==
  IF cid = Nil \/ channelRows[cid] = {} THEN Nil
  ELSE IF "RESOLVED" \in channelRows[cid] THEN "RESOLVED"
  ELSE IF "AMBIGUOUS" \in channelRows[cid] THEN "AMBIGUOUS"
  ELSE "PENDING"

EffectiveStatus(row) ==
  CASE row.status \in Overrides -> row.status
    [] row.status \notin Overrides /\ row.cid = Nil -> IF row.status \in Pending THEN row.status ELSE "NEW"
    [] OTHER -> IF IdentityState(row.cid) = "AMBIGUOUS" THEN "AMBIGUOUS" ELSE "WATCHING"

\* `gap` records, for the properties, what is amiss with the row's artist: a
\* request merged in without a check ("unvetted"), a check that failed
\* ("outage"), two sessions that each wrote a part ("raced").
NewTarget(name, cid) ==
  [name |-> name, key |-> DedupKey(name, cid), cid |-> cid, status |-> "NEW", gap |-> "none"]

NewCandidate(name, music, cid) ==
  [name |-> name, music |-> music, cid |-> cid, status |-> IF cid = Nil THEN "NEW" ELSE "RESOLVED"]

\* What the tables and the sessions hold.
Names == {p.name : p \in Picks} \cup {f.name : f \in Finds}
TargetKeys == {DedupKey(n, c) : n \in Names, c \in ArtistIds \cup {Nil}}
Targets ==
  [name : Names, key : TargetKeys,
   cid : ArtistIds \cup {Nil}, status : Pending \cup Live \cup Overrides,
   gap : {"none", "unvetted", "outage", "raced"}]
CandidateKeys ==
  ({"OPERATOR"} \cup {f.source : f \in Finds}) \X (Names \cup TargetIds \cup {f.sid : f \in Finds})
Candidates ==
  [name : Names, music : BOOLEAN, cid : ArtistIds \cup {Nil}, status : Pending \cup {"RESOLVED"}]
WatchSessions ==
  [t : TargetIds \cup {Nil}, row : Targets, flushed : BOOLEAN, keep : BOOLEAN,
   k : CandidateKeys \cup {Nil}, cand : Candidates \cup {Nil}, at : {"find", "create", "confirm"},
   cid : ArtistIds \cup {Nil}]

ASSUME NilIsNothing ==
  Nil \notin ArtistIds \cup TargetIds \cup CandidateKeys \cup Candidates \cup WatchSessions
             \cup {"PENDING", "AMBIGUOUS", "RESOLVED"}

PutRow(rows, k, row) == [j \in DOMAIN rows \cup {k} |-> IF j = k THEN row ELSE rows[j]]

\* Create, or merge: a link is never replaced.
MergedCandidate(old, music, cid) ==
  [old EXCEPT !.music = old.music \/ music,
              !.cid = IF old.cid = Nil THEN cid ELSE old.cid,
              !.status = IF old.cid = Nil /\ cid # Nil THEN "RESOLVED" ELSE old.status]

Upserted(rows, k, name, music, cid) ==
  PutRow(rows, k,
         IF k \in DOMAIN rows THEN MergedCandidate(rows[k], music, cid) ELSE NewCandidate(name, music, cid))

\* The session writes the columns it changed, over what is stored by then.
Overlaid(stored, loaded, row) ==
  [c \in DOMAIN row |-> IF row[c] = loaded[c] THEN stored[c] ELSE row[c]]

-----------------------------------------------------------------------------
(* Sessions and the rows they hold *)

Others(w) == {v \in Handlers \ {w} : handling[v] # Nil}
Flushing == {w \in Handlers : handling[w] # Nil /\ handling[w].flushed}
HeldTargets(w) == {handling[v].t : v \in Flushing \ {w}}
HeldKeys(w) == {handling[v].row.key : v \in Flushing \ {w}}
HeldCandidates(w) == {handling[v].k : v \in {u \in Others(w) : handling[u].t # Nil}}

Session(t, row, flushed, keep) ==
  [t |-> t, row |-> row, flushed |-> flushed, keep |-> keep,
   k |-> Nil, cand |-> Nil, at |-> "confirm", cid |-> row.cid]

Goes(w, s) == handling' = [handling EXCEPT ![w] = s]

Skipped_Paused(row) == row.status = "PAUSED"

\* An override is not resolved away.
Skipped(row) == row.status \in Overrides

Enqueued_AnyRow(c) == IF c = Nil \/ IdentityState(c) # Nil THEN jobs ELSE jobs \cup {c}

\* The channel of an artist is looked for until one is verified.
Enqueued(c) == IF c = Nil \/ IdentityState(c) = "RESOLVED" THEN jobs ELSE jobs \cup {c}

\* An artist picked by the operator is verified; otherwise the name becomes
\* a candidate of source OPERATOR, evaluated like any other.
BeginResolve(w, t, row, flushed, keep) ==
  LET s == Session(t, row, flushed, keep)
      k == <<"OPERATOR", row.name>>
      cand == Upserted(candidateRow, k, row.name, FALSE, Nil)[k]
  IN IF row.cid # Nil THEN Goes(w, s)
     ELSE /\ k \notin HeldCandidates(w)
          /\ Goes(w, [s EXCEPT !.k = k, !.cand = cand, !.cid = cand.cid,
                               !.at = IF cand.cid = Nil THEN "find" ELSE "confirm"])

\* A session that lands half of its change on a row another has changed.
GapAfter(stored, loaded, row, saved) ==
  IF row # loaded /\ saved.cid = row.cid /\ saved.status = row.status THEN row.gap
  ELSE IF \/ row.cid = loaded.cid /\ row.status = loaded.status
          \/ stored.gap # "none"
       THEN stored.gap ELSE "raced"

SaveTarget(w, row) ==
  LET s == handling[w]
      stored == targetRow[s.t]
      saved == Overlaid(stored, s.row, row)
  IN CASE s.t = Nil -> UNCHANGED targetRow
       [] s.flushed -> targetRow' = PutRow(targetRow, s.t, row)
       [] OTHER -> targetRow' =
            PutRow(targetRow, s.t, [saved EXCEPT !.gap = GapAfter(stored, s.row, row, saved)])

SavedCandidate(w, cand) ==
  LET s == handling[w]
  IN IF s.k = Nil THEN candidateRow
     ELSE PutRow(candidateRow, s.k, IF s.t # Nil THEN cand ELSE Overlaid(candidateRow[s.k], s.cand, cand))

-----------------------------------------------------------------------------
(* The operator's requests *)

AskOperator == requests < MaxRequests /\ requests' = requests + 1

\* A request for a known key merges the artist it names into a target that
\* has none; a new key makes a target.  An overridden one is not resolved.
Add(w, p) ==
  LET key == DedupKey(p.name, p.cid)
      same == {t \in DOMAIN targetRow : targetRow[t].key = key}
      free == TargetIds \ (DOMAIN targetRow \cup {handling[v].t : v \in Others(w)})
  IN /\ handling[w] = Nil
     /\ AskOperator
     /\ key \notin HeldKeys(w)
     /\ IF same = {}
        THEN \E t \in free :
               /\ \A u \in free : t <= u
               /\ BeginResolve(w, t, NewTarget(p.name, p.cid), TRUE, TRUE)
               /\ UNCHANGED targetRow
        ELSE \E t \in same :
               LET merged == p.cid # Nil /\ targetRow[t].cid = Nil
                   row == IF merged THEN [targetRow[t] EXCEPT !.cid = p.cid, !.gap = "unvetted"]
                          ELSE targetRow[t]
               IN /\ merged => t \notin HeldTargets(w)
                  /\ IF Skipped(row)
                     THEN targetRow' = [targetRow EXCEPT ![t] = row] /\ UNCHANGED handling
                     ELSE BeginResolve(w, t, row, merged, TRUE) /\ UNCHANGED targetRow
     /\ UNCHANGED <<registered, minted, channelRows, jobs, candidateRow>>

\* The next pending target.
Reresolve(w) ==
  /\ handling[w] = Nil
  /\ \E t \in DOMAIN targetRow :
       /\ targetRow[t].status \in Pending
       /\ BeginResolve(w, t, targetRow[t], FALSE, FALSE)
  /\ UNCHANGED <<registered, minted, channelRows, jobs, candidateRow, targetRow, requests>>

\* Clears the override; a target that has an artist is not resolved again.
Resume(w, t) ==
  LET row == [targetRow[t] EXCEPT !.status = "NEW"]
  IN /\ handling[w] = Nil
     /\ AskOperator
     /\ t \notin HeldTargets(w)
     /\ IF row.cid = Nil
        THEN BeginResolve(w, t, row, TRUE, FALSE) /\ UNCHANGED targetRow
        ELSE targetRow' = [targetRow EXCEPT ![t].status = EffectiveStatus(row)] /\ UNCHANGED handling
     /\ UNCHANGED <<registered, minted, channelRows, jobs, candidateRow>>

\* Pause or reject.
Override(t, status) ==
  /\ \A w \in Flushing : handling[w].t # t
  /\ targetRow' = [targetRow EXCEPT ![t].status = status]
  /\ UNCHANGED <<registered, minted, channelRows, jobs, candidateRow, handling, requests>>

\* The promotion pass takes a candidate that is not linked.
Promote(w) ==
  /\ handling[w] = Nil
  /\ \E k \in DOMAIN candidateRow :
       LET c == candidateRow[k]
       IN /\ c.status \in Pending
          /\ Goes(w, [Session(Nil, NewTarget(c.name, c.cid), FALSE, FALSE) EXCEPT
                        !.k = k, !.cand = c, !.at = IF c.cid = Nil THEN "find" ELSE "confirm"])
  /\ UNCHANGED <<registered, minted, channelRows, jobs, candidateRow, targetRow, requests>>

-----------------------------------------------------------------------------
(* The answers of crawl-service *)

SourcesOf(s) ==
  {k[1] : k \in {j \in DOMAIN candidateRow : candidateRow[j].name = s.row.name} \cup {s.k}}

EnoughEvidence(s) ==
  \/ Cardinality(SourcesOf(s)) >= MinSources
  \/ "EVENT" \in SourcesOf(s) /\ s.cand.music

LinkedTo(cand, verified) ==
  CASE verified # Nil -> [cand EXCEPT !.cid = verified, !.status = "RESOLVED"]
    [] verified = Nil /\ cand.status = "NEW" -> [cand EXCEPT !.status = "RESOLUTION_PENDING"]
    [] OTHER -> cand

ResolvedTarget_Unchecked(t, row, verified) ==
  [row EXCEPT
     !.cid = IF verified = Nil THEN @ ELSE verified,
     !.status = IF verified = Nil THEN "RESOLUTION_PENDING"
                ELSE EffectiveStatus([row EXCEPT !.cid = verified]),
     !.gap = "none"]

\* The key follows the artist unless another target has that key.
ResolvedTarget(t, row, verified) ==
  LET now == [row EXCEPT !.cid = verified]
      key == DedupKey(row.name, verified)
  IN [now EXCEPT
        !.status = IF verified = Nil THEN "RESOLUTION_PENDING" ELSE EffectiveStatus(now),
        !.key = IF \E u \in DOMAIN targetRow \ {t} : targetRow[u].key = key THEN @ ELSE key,
        !.gap = "none"]

\* The end of a resolution, or of a promotion: the candidate is linked, the
\* artist onboarded and the target rewritten, in one commit.
Conclude(w, verified) ==
  LET s == handling[w]
      row == ResolvedTarget(s.t, s.row, verified)
      rows == SavedCandidate(w, LinkedTo(s.cand, verified))
  IN /\ s.k \notin HeldCandidates(w) \/ s.k = Nil
     /\ s.t # Nil => s.t \notin HeldTargets(w) /\ row.key \notin HeldKeys(w)
     /\ SaveTarget(w, row)
     /\ candidateRow' = IF s.t = Nil \/ verified = Nil THEN rows
                        ELSE Upserted(rows, <<"OPERATOR", s.t>>, s.row.name, FALSE, verified)
     /\ jobs' = Enqueued(verified)
     /\ Goes(w, Nil)
     /\ UNCHANGED <<registered, minted, channelRows, requests>>

\* The listing it is looked up in is cached and bounded: it may miss one.
FindByName(w) ==
  LET s == handling[w]
      matches == {c \in registered : Bearing[c] = s.row.name}
  IN /\ handling[w] # Nil /\ s.at = "find"
     /\ \/ \E c \in matches :
             /\ Goes(w, [s EXCEPT !.cid = c, !.at = "confirm"])
             /\ UNCHANGED <<registered, minted, channelRows, jobs, candidateRow, targetRow, requests>>
        \/ /\ EnoughEvidence(s)
           /\ Goes(w, [s EXCEPT !.at = "create"])
           /\ UNCHANGED <<registered, minted, channelRows, jobs, candidateRow, targetRow, requests>>
        \/ ~EnoughEvidence(s) /\ Conclude(w, Nil)

\* Created under its name, or matched; registered either way.
CreateArtist(w) ==
  LET s == handling[w]
  IN /\ handling[w] # Nil /\ s.at = "create"
     /\ \E c \in ArtistIds :
          /\ Bearing[c] = s.row.name
          /\ registered' = registered \cup {c}
          /\ minted' = minted \cup ({c} \ registered)
          /\ Goes(w, [s EXCEPT !.cid = c, !.at = "confirm"])
     /\ UNCHANGED <<channelRows, jobs, candidateRow, targetRow, requests>>

ConfirmRegistered(w) ==
  /\ handling[w] # Nil /\ handling[w].at = "confirm"
  /\ Conclude(w, IF handling[w].cid \in registered THEN handling[w].cid ELSE Nil)

\* A call fails.  An add still commits what it has: an artist under
\* verification is gone from the row and the status stays.  The other
\* requests, and the pass, roll back.
CrawlFails(w) ==
  LET s == handling[w]
  IN /\ handling[w] # Nil
     /\ IF s.keep
        THEN /\ s.t \notin HeldTargets(w)
             /\ SaveTarget(w, IF s.k # Nil THEN s.row ELSE [s.row EXCEPT !.cid = Nil, !.gap = "outage"])
             /\ candidateRow' = SavedCandidate(w, s.cand)
        ELSE UNCHANGED <<targetRow, candidateRow>>
     /\ Goes(w, Nil)
     /\ UNCHANGED <<registered, minted, channelRows, jobs, requests>>

\* The process dies, or is restarted because its loop is stuck.
WatchCrash ==
  /\ \E w \in Handlers : handling[w] # Nil
  /\ handling' = [w \in Handlers |-> Nil]
  /\ UNCHANGED <<registered, minted, channelRows, jobs, candidateRow, targetRow, requests>>

-----------------------------------------------------------------------------
(* Discovery, onboarding and the registry *)

\* A find becomes a candidate, or requests to one; one that names an artist (an
\* onboarding) queues the discovery of its channel.
Discover(f) ==
  /\ candidateRow' = Upserted(candidateRow, <<f.source, f.sid>>, f.name, f.music, f.cid)
  /\ jobs' = Enqueued(f.cid)
  /\ UNCHANGED <<registered, minted, channelRows, targetRow, handling, requests>>

\* The registered artists without a channel are queued.
Backfill(c) ==
  /\ c \in registered
  /\ jobs' = Enqueued(c)
  /\ UNCHANGED <<registered, minted, channelRows, candidateRow, targetRow, handling, requests>>

\* What identity discovery finds out, and an operator settles.
Identify(c, state) ==
  /\ channelRows[c] = IF state = "RESOLVED" THEN {"AMBIGUOUS"} ELSE {}
  /\ channelRows' = [channelRows EXCEPT ![c] = {state}]
  /\ UNCHANGED <<registered, minted, jobs, candidateRow, targetRow, handling, requests>>

\* Crawl-service comes to know an artist by other ways.
Register(c) ==
  /\ registered' = registered \cup {c}
  /\ UNCHANGED <<minted, channelRows, jobs, candidateRow, targetRow, handling, requests>>

-----------------------------------------------------------------------------
WatchInit ==
  /\ registered \in SUBSET ArtistIds
  /\ minted = {}
  /\ channelRows = [c \in ArtistIds |-> {}]
  /\ jobs = {}
  /\ candidateRow = [k \in {} |-> Nil]
  /\ targetRow = [t \in {} |-> Nil]
  /\ handling = [w \in Handlers |-> Nil]
  /\ requests = 0

WatchNext ==
  \/ \E w \in Clients :
       \/ \E p \in Picks : Add(w, p)
       \/ Reresolve(w)
       \/ \E t \in DOMAIN targetRow : Resume(w, t)
  \/ \E w \in Passes : Promote(w)
  \/ \E w \in Handlers :
       \/ FindByName(w)
       \/ CreateArtist(w)
       \/ ConfirmRegistered(w)
       \/ CrawlFails(w)
  \/ \E t \in DOMAIN targetRow, status \in Overrides : Override(t, status)
  \/ \E f \in Finds : Discover(f)
  \/ \E c \in ArtistIds : Backfill(c) \/ Register(c)
  \/ \E i \in MayIdentify : Identify(i[1], i[2])
  \/ WatchCrash

WatchSpec == WatchInit /\ [][WatchNext]_watchVars

-----------------------------------------------------------------------------
(* Audits: what the operator's console reads *)

\* The artists the targets refer to that the registry does not know.
Orphans == {targetRow[t].cid : t \in DOMAIN targetRow} \ (registered \cup {Nil})

-----------------------------------------------------------------------------
(* A target shown as watched, or as ambiguous, has an artist whose channel *)
(* is known or whose discovery was queued.  The exceptions are a request   *)
(* merged into an overridden target, which resuming takes at its word, and *)
(* a check that failed, which takes the artist away and leaves the status. *)
WatchedIsPursued ==
  \A t \in DOMAIN targetRow :
    targetRow[t].status \in Live /\ targetRow[t].gap = "none" =>
      /\ targetRow[t].cid # Nil
      /\ targetRow[t].cid \in jobs \/ IdentityState(targetRow[t].cid) = "RESOLVED"

(* The audit of references stays empty, but for artists merged into an     *)
(* overridden target without a look at the registry.                       *)
OrphansAreUnvetted ==
  \A t \in DOMAIN targetRow :
    targetRow[t].cid \in Orphans => targetRow[t].gap = "unvetted"

(* An operator's word makes no artist: one that promotion had created is   *)
(* named by a candidate from elsewhere.                                    *)
OperatorAloneCreatesNothing ==
  \A c \in minted :
    \E k \in DOMAIN candidateRow : k[1] # "OPERATOR" /\ candidateRow[k].name = Bearing[c]

(* No two targets get one key, whichever way each came to its artist: the  *)
(* commit of a resolution never meets the unique index.                    *)
KeysAreApart ==
  \A t, u \in DOMAIN targetRow : targetRow[t].key = targetRow[u].key => t = u

(* Targets are of artists that exist, made from evidence, one to an artist.*)
TargetsAreSound == OrphansAreUnvetted /\ OperatorAloneCreatesNothing /\ KeysAreApart

(* Only resuming, and a resolution that began before it, undo an override. *)
OverrideLasts ==
  [][\A t \in DOMAIN targetRow :
       targetRow[t].status \in Overrides /\ targetRow'[t].status \notin Overrides =>
         \/ \E w \in Handlers : Resume(w, t)
         \/ \E w \in Handlers : /\ handling[w] # Nil /\ handling'[w] = Nil
                                /\ handling[w].t = t
                                /\ handling[w].row.status \notin Overrides]_watchVars
==============================================================================
