---------------------------- MODULE EventMatching ----------------------------
(***************************************************************************)
(* Cross-platform matching in crawl-service (reconciliation/): a run reads *)
(* a view of every tracked listing of two sources from the graph, one      *)
(* awaited answer at a time, scores the pairs of a cheap block and writes  *)
(* one row for each, in its own transaction.  Runs are started by          *)
(* requests: two may be under way.                                         *)
(***************************************************************************)
EXTENDS MatchRules

CONSTANTS
  LeftListings, RightListings,  \* tracked listings of either source that have a canonical id
  MayRead,        \* listing -> the views the graph may give of it
  LeftSource, RightSource, PageSays,  \* the platforms, and the page of each listing
  MaxPairs,       \* reconciliation_max_pairs_per_run
  MatchRuns,      \* requests that may be under way
  MaxMatchRuns, MaxMoves   \* bounds: runs started, changes of a listing

ASSUME ListingsAreOfTwoSources ==
  /\ LeftListings \cap RightListings = {}
  /\ IsFiniteSet(LeftListings) /\ IsFiniteSet(RightListings)
  /\ MaxPairs \in Nat

ASSUME ListingsAreReadable ==
  \A e \in LeftListings \cup RightListings :
    /\ \A v \in MayRead[e] : IsView(v)
    /\ DOMAIN PageSays[e] \subseteq DOMAIN PageConfidence

VARIABLES
  listing,    \* the graph: listing -> view
  matching,   \* what each run is doing
  matches,    \* event_match_candidate: pair -> row, with the views it was scored on
  lastRun,    \* history: the views of the run that ended last, or None
  moves, matchRuns   \* bounds

matchVars == <<listing, matching, matches, lastRun, moves, matchRuns>>

Listings == LeftListings \cup RightListings
Waiting == [at |-> "idle"]

-----------------------------------------------------------------------------
(* service.py.  A view that cannot be read fails the whole run.            *)

MatchInit ==
  /\ listing \in [Listings -> UNION {MayRead[e] : e \in Listings}]
  /\ \A e \in Listings : listing[e] \in MayRead[e]
  /\ matching = [r \in MatchRuns |-> Waiting]
  /\ matches = [p \in {} |-> None]
  /\ lastRun = None
  /\ moves = 0
  /\ matchRuns = 0

(* The listing changes: a capture projects it anew (signal-service).       *)
Move(e) ==
  /\ moves < MaxMoves
  /\ moves' = moves + 1
  /\ \E v \in MayRead[e] \ {listing[e]} : listing' = [listing EXCEPT ![e] = v]
  /\ UNCHANGED <<matching, matches, lastRun, matchRuns>>

StartMatching(r) ==
  /\ matching[r] = Waiting
  /\ matchRuns < MaxMatchRuns
  /\ matchRuns' = matchRuns + 1
  /\ matching' = [matching EXCEPT ![r] = [at |-> "reading", views |-> [e \in {} |-> None]]]
  /\ UNCHANGED <<listing, matches, lastRun, moves>>

Unread(r) == Listings \ DOMAIN matching[r].views

ReadView(r) ==
  /\ matching[r].at = "reading"
  /\ \E e \in Unread(r) :
       /\ e \in RightListings => Unread(r) \cap LeftListings = {}
       /\ matching' = [matching EXCEPT ![r].views =
            [x \in DOMAIN @ \cup {e} |-> IF x = e THEN listing[e] ELSE @[x]]]
  /\ UNCHANGED <<listing, matches, lastRun, moves, matchRuns>>

MatchingFails(r) ==
  /\ matching[r].at = "reading"
  /\ matching' = [matching EXCEPT ![r] = Waiting]
  /\ UNCHANGED <<listing, matches, lastRun, moves, matchRuns>>

Blocked(views) ==
  {p \in LeftListings \X RightListings : InBlock(views[p[1]], views[p[2]])}

(* The pairs are taken left listing by left listing, in the order the      *)
(* database returns them.                                                  *)
InRowOrder(S, blocked) ==
  Cardinality({l \in LeftListings :
                 \E p, q \in blocked : p[1] = l /\ q[1] = l /\ p \in S /\ q \notin S}) <= 1

Scored(views, S) ==
  [p \in S |-> [status |-> Status(views[p[1]], views[p[2]]), on |-> <<views[p[1]], views[p[2]]>>]]

(* A row is written anew each time its pair is scored. *)
Written_OnceMatched(views, S) ==
  [p \in S \cup DOMAIN matches |-> IF p \in DOMAIN matches THEN matches[p] ELSE Scored(views, S)[p]]
Written(views, S) ==
  [p \in S \cup DOMAIN matches |-> IF p \in S THEN Scored(views, S)[p] ELSE matches[p]]

(* The rest of the run gives nobody else a turn, but a process that stops  *)
(* leaves the rows of the pairs before it.                                 *)
ScorePairs(r) ==
  /\ matching[r].at = "reading"
  /\ Unread(r) = {}
  /\ LET views   == matching[r].views
         blocked == Blocked(views)
         all     == Least(MaxPairs, Cardinality(blocked))
     IN  \E S \in SUBSET blocked :
           /\ Cardinality(S) <= all
           /\ InRowOrder(S, blocked)
           /\ matches' = Written(views, S)
           /\ lastRun' = IF Cardinality(S) = all THEN views ELSE None
  /\ matching' = [matching EXCEPT ![r] = Waiting]
  /\ UNCHANGED <<listing, moves, matchRuns>>

MatchNext ==
  \/ \E r \in MatchRuns :
       StartMatching(r) \/ ReadView(r) \/ MatchingFails(r) \/ ScorePairs(r)
  \/ \E e \in Listings : Move(e)

MatchSpec == MatchInit /\ [][MatchNext]_matchVars

-----------------------------------------------------------------------------
(* match_detail and reconcile_pair: the fields of a pair that matches, or  *)
(* may, resolved over the candidates of both events.  What enrichment      *)
(* holds of a listing is what its node and its page say.                   *)

PlatformClaims(e) ==
  LET v == listing[e]
      node == [starts_at |-> v.date, status |-> None, city |-> v.city, regions |-> {},
               venues |-> {[id |-> None, name |-> v.venue]}]
      origin == IF e \in LeftListings THEN LeftSource ELSE RightSource
  IN  {c \in GraphCandidates(node, origin) \cup PageCandidates(PageSays[e], "page", origin) :
         Valid(c)}

Detailed(p) == matches[p].status \in {"MATCHED", "POSSIBLE_MATCH"}

ReconcilePair(p) ==
  LET claims == PlatformClaims(p[1]) \cup PlatformClaims(p[2])
  IN  [f \in {c.field : c \in claims} |->
         ResolveField(f, {c \in claims : c.field = f})]

-----------------------------------------------------------------------------
(* No match is automatic against a strong contradiction: the views of a    *)
(* matched pair agree in city, date and performers where both know them,   *)
(* and both know the date (matcher.py: a high title similarity never       *)
(* overrides a different city, date or performer set).                     *)
MatchedIsCompatible ==
  \A p \in DOMAIN matches :
    LET l == matches[p].on[1]  r == matches[p].on[2]
    IN  matches[p].status = "MATCHED" =>
          /\ Both(l.date, r.date) /\ Apart(l, r) <= Tolerance
          /\ Both(l.city, r.city) => l.city = r.city
          /\ Performers(l) # {} /\ Performers(r) # {} =>
               Performers(l) \cap Performers(r) # {}

(* After a run that was not cut short every row stands on the views that   *)
(* run read, except where its pair left the block, or the run had its      *)
(* fill of pairs: those rows keep an earlier verdict, a MATCHED one too.   *)
LastRunDecides ==
  lastRun # None =>
    LET blocked == Blocked(lastRun)
        upToDate(p) == p \in DOMAIN matches /\ matches[p].on = <<lastRun[p[1]], lastRun[p[2]]>>
    IN  Cardinality({p \in blocked : upToDate(p)}) >= Least(MaxPairs, Cardinality(blocked))

(* A value of a pair counts as consensus only if both platforms claim it;  *)
(* several surfaces of one platform never do (registry.py, source-family   *)
(* semantics).                                                             *)
ConsensusNeedsBoth ==
  \A p \in {q \in DOMAIN matches : Detailed(q)} :
    LET rs == ReconcilePair(p)
    IN  \A f \in DOMAIN rs :
          rs[f].method = "STRUCTURED_SOURCE_CONSENSUS" =>
            \A e \in {p[1], p[2]} : \E c \in PlatformClaims(e) : c.field = f /\ c.value = rs[f].value

(* A match has a foundation: compatible views, the last run that had room  *)
(* for the pair, and for a consensus the claims of both platforms.         *)
MatchesAreFounded == MatchedIsCompatible /\ LastRunDecides /\ ConsensusNeedsBoth
=============================================================================
