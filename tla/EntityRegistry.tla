--------------------------- MODULE EntityRegistry ---------------------------
(***************************************************************************)
(* crawl-service's entity registry (entity_resolution/service.py), the     *)
(* operators' commands on it (governance.py, apply_correction) and the part*)
(* of the graph store they share with the sources' own projections.        *)
(*                                                                         *)
(* Several processes share the registry: the one that serves the operators *)
(* and the cron worker run the same resolution pipeline (worker.py).  A    *)
(* resolution pass reads an event and its neighbours from the graph over   *)
(* the network, then decides every mention without giving up the event     *)
(* loop of its process, one transaction at a time, and at last writes the  *)
(* graph.  Commands that are coroutines run before or after such a segment *)
(* of their own process; commands that run on a worker thread, and         *)
(* whatever the other processes do, may fall between two of its            *)
(* transactions.  Graph writes are awaited by their own callers: several   *)
(* may be under way, in any order, and one may fail, in whole or after its *)
(* nodes were written.                                                     *)
(*                                                                         *)
(* A transaction is one step, but for an operator's link, whose handle may *)
(* be written by another process between its check and its use.            *)
(***************************************************************************)
EXTENDS MentionRules

CONSTANTS
  Processes,     \* processes that run passes
  Api,           \* the one of them that serves the operators' commands
  Events,        \* canonical events
  Source,        \* the source of each event
  Page,          \* what the source itself published of each event
  Retype,        \* types a create command may name that are not the mention's
  SeriesNames,   \* names an operator may create a series under
  MaxPasses,     \* passes started, bounds the state space
  MaxCommands    \* so do commands and the passes of other processes

(* A process does not bear the name of another hand in the history.        *)
ASSUME ApiIsAProcess ==
  Api \in Processes /\ Processes \cap {"OPERATOR", "EXTERNAL"} = {}

(* What a source published of an event is read as Extract reads it.        *)
ASSUME PagesAreOfNames ==
  \A e \in Events :
    /\ DOMAIN Page[e] = {"event", "source", "city", "organizer", "title",
                         "performers", "venue", "schema"}
    /\ Page[e].event = e /\ Page[e].source = Source[e]
    /\ Page[e].performers \subseteq Names
    /\ {Page[e].venue, Page[e].organizer, Page[e].title} \subseteq Names \cup {None}

(* Discoveries outside the sources are recorded under an event of no source,*)
(* and None is no id a part of a name makes.                               *)
Parts == Names \cup {Slug[n] : n \in Names} \cup {Normal(r, n) : r \in Roles, n \in Names}
           \cup {Page[e].city : e \in Events} \cup {None}

ASSUME IdsAreIds ==
  /\ SeriesNames \subseteq Names
  /\ None \notin Events /\ "external_discovery" \notin Events
  /\ \A r \in Roles, s, t \in Parts :
       None \notin {<<r, s>>, Cid(r, <<s>>), Cid(r, <<s, t>>)}

VARIABLES
  candidate,   \* mention -> row of entity_resolution_candidates
  history,     \* rows of entity_resolution_history
  latest,      \* the last history row of each candidate
  handle,      \* source handle -> canonical id
  node,        \* graph: node id -> [type, name]
  link,        \* graph: <<event, role, node id>> -> resolution_status of the edge
  writes,      \* graph batches awaited by a caller, [by: its process, todo: the batches]
  fetched,     \* process -> event -> the page it has read and not yet used
  pass,        \* process -> the pass that holds its event loop, or None
  linking,     \* the operator's link whose transaction is open, or None
  asked,       \* the events operators asked to link to a series; the code keeps no such record
  passes, commands   \* counters, for the bounds

loops == <<fetched, pass, linking>>

vars == <<candidate, history, latest, handle, node, link, writes, loops, asked,
          passes, commands>>

(* Nothing on the process's event loop holds it without giving it up.      *)
Free(p) == pass[p] = None /\ (p = Api => linking = None)

Extend(f, k, v) == [x \in DOMAIN f \cup {k} |-> IF x = k THEN v ELSE f[x]]
Without(f, k)   == [x \in DOMAIN f \ {k} |-> f[x]]

Gated     == {"REVIEW_REQUIRED", "ROLE_CONFLICT", "PLACEHOLDER"}
NonProduct == Gated \cup {"QUARANTINED"}

(* A candidate row is keyed by role, record and handle; it keeps the name  *)
(* it was first seen under.                                                *)
KeyOf(m) == <<m.role, m.event, HandleOf(m)[3]>>

SlugOf(k) == Slug[candidate[k].name]

Row(status, cid) == [status |-> status, cid |-> cid]

Before(k) == Row(candidate[k].status, candidate[k].cid)

(* The history tells a pass from a command; that it tells whose pass it was*)
(* is the model's addition.                                                *)
Entry(k, row, by) == [key |-> k, status |-> row.status, cid |-> row.cid, by |-> by]

Record(k, row, by) ==
  /\ history' = history \cup {Entry(k, row, by)}
  /\ latest' = Extend(latest, k, row)

ResolvedKeys == {k \in DOMAIN candidate :
                   candidate[k].status = "RESOLVED" /\ candidate[k].cid # None}

-----------------------------------------------------------------------------
(* The graph.  Neighbours are read without the properties of their edges:  *)
(* a reversed link is read like any other.  A venue node without a name is *)
(* read by its id; no such node arises here.                               *)

NeighbourNames(e, role) ==
  {node[l[3]].name : l \in {x \in DOMAIN link : x[1] = e /\ x[2] = role}} \ {None}

(* The event as extraction sees it; of several venues the last one read. *)
PageSeen(e, venue) ==
  [Page[e] EXCEPT !.performers = NeighbourNames(e, "ARTIST"), !.venue = venue]

Pages(e) ==
  IF NeighbourNames(e, "VENUE") = {} THEN {PageSeen(e, None)}
  ELSE {PageSeen(e, v) : v \in NeighbourNames(e, "VENUE")}

(* A batch: nodes, id -> [type, name], and links, <<event, role, id>> ->    *)
(* status.  Properties are merged: a link without a status keeps its own.  *)
Batch(nodes, links) == [nodes |-> nodes, links |-> links]

Over(f, g) == [x \in DOMAIN f \cup DOMAIN g |-> IF x \in DOMAIN f THEN f[x] ELSE g[x]]

Merged(new, old) ==
  Over([x \in DOMAIN new |->
          IF new[x] = None /\ x \in DOMAIN old THEN old[x] ELSE new[x]], old)

(* Endpoints of an edge that no node names are created thin. *)
Thin(links) ==
  [id \in {x[3] : x \in DOMAIN links} |-> [type |-> "unknown", name |-> None]]

Deliver(b) ==
  /\ node' = Over(Over(b.nodes, node), Thin(b.links))
  /\ link' = Merged(b.links, link)

GraphWrite ==
  \E w \in writes :
    /\ Deliver(Head(w.todo))
    /\ writes' = (writes \ {w}) \cup
                   (IF Len(w.todo) = 1 THEN {} ELSE {[by |-> w.by, todo |-> Tail(w.todo)]})
    /\ UNCHANGED <<candidate, history, latest, handle, loops, asked, passes, commands>>

(* The request fails on its way, or after the nodes were upserted. *)
GraphWriteFails ==
  \E w \in writes, some \in BOOLEAN :
    /\ node' = IF some THEN Over(Head(w.todo).nodes, node) ELSE node
    /\ writes' = writes \ {w}
    /\ UNCHANGED <<candidate, history, latest, handle, link, loops, asked, passes, commands>>

(* A source is captured again: its projection names the nodes as the source*)
(* does and leaves what the registry wrote on the edges.                   *)
SourceId(role, n) == <<role, Slug[n]>>

SourceNodes(e) ==
  {<<"ARTIST", n>> : n \in Page[e].performers}
    \cup (IF Page[e].venue = None THEN {} ELSE {<<"VENUE", Page[e].venue>>})

Projection(e) ==
  LET Ids == {SourceId(x[1], x[2]) : x \in SourceNodes(e)}
      NameOf(id) == (CHOOSE x \in SourceNodes(e) : SourceId(x[1], x[2]) = id)[2]
  IN Batch([id \in Ids |-> [type |-> id[1], name |-> NameOf(id)]],
           [l \in {<<e, id[1], id>> : id \in Ids} |-> None])

Ingest(e) ==
  /\ Deliver(Projection(e))
  /\ node' # node
  /\ UNCHANGED <<candidate, history, latest, handle, writes, loops, asked, passes, commands>>

Send(p, batches) ==
  writes' = IF batches = <<>> THEN writes ELSE writes \cup {[by |-> p, todo |-> batches]}

-----------------------------------------------------------------------------
(* A pass. *)

Fetch(p, e) ==
  /\ passes < MaxPasses
  /\ fetched[p][e] = None
  /\ \E page \in Pages(e) : fetched' = [fetched EXCEPT ![p][e] = page]
  /\ passes' = passes + 1
  /\ IF p = Api THEN UNCHANGED commands
     ELSE commands < MaxCommands /\ commands' = commands + 1
  /\ UNCHANGED <<candidate, history, latest, handle, node, link, writes, pass, linking, asked>>

(* Rows of the registry that bear a name some mention of the same role has.*)
KnownFor(ms) ==
  LET rows == {k \in ResolvedKeys :
                 \E m \in ms : m.role = k[1] /\ Normal(m.role, m.name) = candidate[k].normal}
  IN [handles |-> [h \in {HandleOf(m) : m \in ms} \cap DOMAIN handle |-> handle[h]],
      names   |-> {<<candidate[k].normal, candidate[k].cid>> : k \in rows},
      venues  |-> {<<candidate[k].normal, candidate[k].cid, candidate[k].city>> :
                     k \in {r \in rows : r[1] = "VENUE"}}]

CrossTypeIndex == {<<SlugOf(k), k[1]>> : k \in ResolvedKeys}

Begin(p, e) ==
  LET ms == Extract(fetched[p][e]) IN
  /\ Free(p)
  /\ fetched[p][e] # None
  /\ fetched' = [fetched EXCEPT ![p][e] = None]
  /\ pass' = [pass EXCEPT ![p] =
       IF ms = {} THEN None
       ELSE [event |-> e, todo |-> ms, known |-> KnownFor(ms), cross |-> None,
             cohort |-> {<<Slug[m.name], m.role>> : m \in ms},
             nodes |-> <<>>, links |-> <<>>, resolved |-> None]]
  /\ UNCHANGED <<candidate, history, latest, handle, node, link, writes, linking, asked,
                 passes, commands>>

(* The index of types is read in a transaction of its own. *)
ReadTypes(p) ==
  /\ pass[p] # None /\ pass[p].cross = None
  /\ pass' = [pass EXCEPT ![p].cross = CrossTypeIndex]
  /\ UNCHANGED <<candidate, history, latest, handle, node, link, writes, fetched, linking, asked,
                 passes, commands>>

NewRow(m, res) ==
  [status |-> res.status, cid |-> res.cid, name |-> m.name, normal |-> Normal(m.role, m.name),
   city |-> m.city, corrected |-> FALSE, multiRole |-> FALSE]

(* Mutant: the comparison is made after the row was overwritten, so that a *)
(* change leaves no history.                                               *)

PersistCandidate_ComparesLate(p, m, res) ==
  LET k == KeyOf(m) IN
  /\ candidate' = Extend(candidate, k, NewRow(m, res))
  /\ IF k \notin DOMAIN candidate
     THEN Record(k, Row(res.status, res.cid), p)
     ELSE UNCHANGED <<history, latest>>

(* The pass's verdict replaces the row, its status and its evidence alike; *)
(* the history gains a row when status or canonical id changes.            *)
PersistCandidate(p, m, res) ==
  LET k == KeyOf(m)
      changed == \/ k \notin DOMAIN candidate
                 \/ candidate[k].status # res.status
                 \/ candidate[k].cid # res.cid
  IN /\ candidate' = Extend(candidate, k,
          IF k \notin DOMAIN candidate THEN NewRow(m, res)
          ELSE [NewRow(m, res) EXCEPT !.name = candidate[k].name, !.normal = candidate[k].normal])
     /\ IF changed THEN Record(k, Row(res.status, res.cid), p)
        ELSE UNCHANGED <<history, latest>>

(* Later mentions of the same event converge on what this one resolved to. *)
Learn(known, m, c) ==
  [handles |-> Extend(known.handles, HandleOf(m), c),
   names   |-> known.names \cup {<<Normal(m.role, m.name), c>>},
   venues  |-> IF m.role # "VENUE" THEN known.venues
               ELSE known.venues \cup {<<Normal(m.role, m.name), c, m.city>>}]

InGraph(res) == res.status \in {"RESOLVED", "POSSIBLE_MATCH"} /\ res.cid # None

(* Artists are decided first, then the venue, the organizer, the series. *)
Turn == [ARTIST |-> 1, VENUE |-> 2, ORGANIZER |-> 3, EVENT_SERIES |-> 4]

(* The pass after a verdict; what it resolved has its handle to register.  *)
Advance(ps, m, res) ==
  [ps EXCEPT
     !.todo = @ \ {m},
     !.resolved = IF res.status = "RESOLVED" /\ res.cid # None
                  THEN [mention |-> m, cid |-> res.cid] ELSE None,
     !.nodes = IF InGraph(res)
       THEN Extend(@, res.cid, [type |-> m.role, name |-> m.name]) ELSE @,
     !.links = IF InGraph(res)
       THEN Extend(@, <<m.event, m.role, res.cid>>, res.status) ELSE @]

DecideMention(p) ==
  /\ pass[p] # None /\ pass[p].cross # None /\ pass[p].resolved = None
  /\ \E m \in pass[p].todo :
       /\ \A o \in pass[p].todo : Turn[m.role] <= Turn[o.role]
       /\ \E res \in Decisions(m, pass[p].cross, pass[p].known, pass[p].cohort) :
            /\ PersistCandidate(p, m, res)
            /\ pass' = [pass EXCEPT ![p] = Advance(pass[p], m, res)]
  /\ UNCHANGED <<handle, node, link, writes, fetched, linking, asked, passes, commands>>

(* A transaction of its own, wherever the handle leads by now. *)
RegisterHandle(p) ==
  /\ pass[p] # None /\ pass[p].resolved # None
  /\ LET m == pass[p].resolved.mention
         c == pass[p].resolved.cid
     IN /\ handle' = Extend(handle, HandleOf(m), c)
        /\ pass' = [pass EXCEPT ![p].known = Learn(@, m, c), ![p].resolved = None]
  /\ UNCHANGED <<candidate, history, latest, node, link, writes, fetched, linking, asked,
                 passes, commands>>

FinishPass(p) ==
  /\ pass[p] # None /\ pass[p].todo = {} /\ pass[p].resolved = None
  /\ Send(p, IF DOMAIN pass[p].nodes = {} THEN <<>> ELSE <<Batch(pass[p].nodes, pass[p].links)>>)
  /\ pass' = [pass EXCEPT ![p] = None]
  /\ UNCHANGED <<candidate, history, latest, handle, node, link, fetched, linking, asked,
                 passes, commands>>

(* What holds the loop raises, for one because another process has added   *)
(* the row it was adding: the transaction is rolled back, a pass gives up  *)
(* its event, a link is refused.                                           *)
Fail(p) ==
  /\ ~Free(p)
  /\ pass' = [pass EXCEPT ![p] = None]
  /\ linking' = IF p = Api THEN None ELSE linking
  /\ UNCHANGED <<candidate, history, latest, handle, node, link, writes, fetched, asked,
                 passes, commands>>

(* The process dies: what only it knew is lost. *)
Crash(p) ==
  /\ \E w \in writes : w.by = p
  /\ pass' = [pass EXCEPT ![p] = None]
  /\ linking' = IF p = Api THEN None ELSE linking
  /\ writes' = {w \in writes : w.by # p}
  /\ fetched' = [fetched EXCEPT ![p] = [e \in Events |-> None]]
  /\ UNCHANGED <<candidate, history, latest, handle, node, link, asked, passes, commands>>

-----------------------------------------------------------------------------
(* Operators' commands.  expected_status only narrows when a command may   *)
(* apply; the console's "any" is modelled.                                 *)

NamedKeys == {k \in DOMAIN candidate : k[2] \in Events}

HandleOfKey(k) == <<Source[k[2]], k[1], k[3]>>

Manual(c) == Row("RESOLVED", c)

(* accept, and create_entity behind it: the row and the handle in one      *)
(* transaction, then the graph; creation names its node in a second write. *)
(* The transaction looks where the handle leads before it writes it: with  *)
(* another process at work it may then lead elsewhere.                     *)
LinkBatch(k, c) ==
  Batch([i \in {c} |-> [type |-> k[1], name |-> candidate[k].name]],
        [l \in {<<k[2], k[1], c>>} |-> "RESOLVED"])

AlreadyLinked(k, c) == candidate[k].status = "RESOLVED" /\ candidate[k].cid = c

Owner(h) == IF h \in DOMAIN handle THEN handle[h] ELSE None

\* Mutant: an accept re-points a handle that leads elsewhere.
FreeFor_Always(k, c) == TRUE

FreeFor(k, c) == Owner(HandleOfKey(k)) \in {None, c}

LinkOpen(k, c, batches, decision) ==
  [key |-> k, cid |-> c, owner |-> Owner(HandleOfKey(k)), prev |-> Before(k),
   batches |-> batches, decision |-> decision]

\* Mutant: the graph is written before a conflict of handles is looked for.
StartLink_GraphFirst(k, c, batches, decision) ==
  /\ Free(Api) /\ ~AlreadyLinked(k, c)
  /\ Send(Api, batches)
  /\ linking' = IF FreeFor(k, c) THEN LinkOpen(k, c, <<>>, decision) ELSE None
  /\ UNCHANGED <<candidate, history, latest, handle, node, link, fetched, pass, asked>>

StartLink(k, c, batches, decision) ==
  /\ Free(Api) /\ ~AlreadyLinked(k, c) /\ FreeFor(k, c)
  /\ linking' = LinkOpen(k, c, batches, decision)
  /\ UNCHANGED <<candidate, history, latest, handle, node, link, writes, fetched, pass, asked>>

FinishLink ==
  /\ linking # None
  /\ LET k == linking.key
         c == linking.cid
     IN /\ candidate' = [candidate EXCEPT ![k].status = "RESOLVED", ![k].cid = c]
        /\ handle' = Extend(handle, HandleOfKey(k), c)
        /\ Record(k, Manual(c), "OPERATOR")
  /\ Send(Api, linking.batches)
  /\ linking' = None
  /\ UNCHANGED <<node, link, fetched, pass, asked>>

Accept(k, c, decision) ==
  /\ c \in DOMAIN node /\ node[c].type = k[1]
  /\ StartLink(k, c, <<LinkBatch(k, c)>>, decision)

(* A name without a slug is refused, a generic one for anything but an     *)
(* artist, a venue needs a city; a series may be told from its namesakes   *)
(* by its organizer.  The type is the payload's, the link the mention's    *)
(* own.                                                                    *)
CreatedId(type, k, organizer) ==
  Cid(type, <<SlugOf(k), CASE type = "VENUE"        -> Page[k[2]].city
                           [] type = "EVENT_SERIES" -> organizer
                           [] OTHER                 -> None>>)

MayCreate(type, k, organizer) ==
  /\ type # k[1] => type \in Retype
  /\ organizer \in {None, Page[k[2]].organizer}
  /\ SlugOf(k) # ""
  /\ type # "ARTIST" => type \notin Facts[candidate[k].name].generic
  /\ type = "VENUE" => Page[k[2]].city # None

NamedNode(type, k, c) ==
  Batch([i \in {c} |-> [type |-> type, name |-> candidate[k].name]], <<>>)

CreateEntity(type, k, organizer, decision) ==
  /\ MayCreate(type, k, organizer)
  /\ LET c == CreatedId(type, k, organizer)
     IN StartLink(k, c, <<LinkBatch(k, c), NamedNode(type, k, c)>>, decision)

(* The row already stands where creation would put it: its node alone is   *)
(* written again.                                                          *)
CreateAgain(type, k, organizer) ==
  /\ Free(Api)
  /\ MayCreate(type, k, organizer)
  /\ LET c == CreatedId(type, k, organizer)
     IN AlreadyLinked(k, c) /\ Send(Api, <<NamedNode(type, k, c)>>)
  /\ UNCHANGED <<candidate, history, latest, handle, node, link, loops, asked>>

(* Commands that change the row alone, on a worker thread. *)
Rewrite(k, row, logged) ==
  /\ candidate' = [candidate EXCEPT ![k] = row]
  /\ Record(k, logged, "OPERATOR")
  /\ UNCHANGED <<handle, node, link, writes, loops, asked>>

(* A rejected row keeps the id it was offered; the history says none. *)
Reject(k) ==
  Rewrite(k, [candidate[k] EXCEPT !.status = "REJECTED"], Row("REJECTED", None))

MarkUnresolved(k) ==
  Rewrite(k, [candidate[k] EXCEPT !.status = "UNRESOLVED", !.cid = None],
          Row("UNRESOLVED", None))

Corrected(k, status, c) ==
  [candidate[k] EXCEPT !.status = status, !.cid = c, !.corrected = TRUE]

Correction(k, row) == Rewrite(k, row, Row(row.status, row.cid))

ConfirmMultiRole(k) ==
  Correction(k, [Corrected(k, "UNRESOLVED", candidate[k].cid) EXCEPT !.multiRole = TRUE])

RequeueResolution(k) == Correction(k, Corrected(k, "UNRESOLVED", candidate[k].cid))

RejectMatch(k) == Correction(k, Corrected(k, "UNRESOLVED", None))

KnownCanonicals(type) == {candidate[k].cid : k \in {j \in DOMAIN candidate : j[1] = type}} \ {None}

ConfirmExistingMatch(k, c) ==
  /\ c \in KnownCanonicals(k[1])
  /\ Correction(k, Corrected(k, "RESOLVED", c))

(* Quarantine rewrites every candidate of the canonical. *)
Quarantine(c) ==
  LET ks == {k \in DOMAIN candidate : candidate[k].cid = c}
      Quarantined(k) == [candidate[k] EXCEPT !.status = "QUARANTINED", !.corrected = TRUE]
  IN /\ ks # {} /\ c # None
     /\ candidate' = Over([k \in ks |-> Quarantined(k)], candidate)
     /\ history' = history \cup {Entry(k, Row("QUARANTINED", c), "OPERATOR") : k \in ks}
     /\ latest' = Over([k \in ks |-> Row("QUARANTINED", c)], latest)
     /\ UNCHANGED <<handle, node, link, writes, loops, asked>>

(* A wrong type may be repaired when another type stands resolved. *)
MarkWrongType(c, type) ==
  /\ \E k \in DOMAIN candidate, r \in ResolvedKeys :
       candidate[k].cid = c /\ r[1] = type /\ SlugOf(r) = SlugOf(k)
  /\ Quarantine(c)

(* reverse_accept: the row as it was, the handle with it, the edge marked. *)
ReverseAccept(k, status, c, removeHandle) ==
  LET applied == candidate[k].cid
      h == HandleOfKey(k)
  IN /\ Free(Api)
     /\ candidate' = [candidate EXCEPT ![k].status = status, ![k].cid = c]
     /\ handle' = IF c # None THEN Extend(handle, h, c)
                  ELSE IF removeHandle THEN Without(handle, h) ELSE handle
     /\ Record(k, Row(status, c), "OPERATOR")
     /\ Send(Api, IF applied = None THEN <<>>
             ELSE <<Batch(<<>>, [l \in {<<k[2], k[1], applied>>} |-> "REVERSED"])>>)
     /\ UNCHANGED <<node, link, loops, asked>>

(* correct_series: an event is taken out of a series, put into one that is *)
(* there, or into one created for it.  Only the graph is written.          *)
SeriesOf(e) == {l[3] : l \in {x \in DOMAIN link : x[1] = e /\ x[2] = "EVENT_SERIES"}}

SeriesLink(e, ids, status) == [l \in {<<e, "EVENT_SERIES", i>> : i \in ids \ {None}} |-> status]

CorrectSeries(e, prev, target, nodes) ==
  /\ Free(Api)
  /\ prev \in SeriesOf(e) \cup {None}
  /\ Send(Api, <<Batch(nodes, Over(SeriesLink(e, {target}, "RESOLVED"),
                                  SeriesLink(e, {prev}, "SUPERSEDED")))>>)
  /\ asked' = asked \cup {[event |-> e, series |-> i] : i \in {target} \ {None}}
  /\ UNCHANGED <<candidate, history, latest, handle, node, link, loops>>

UnlinkSeries(e, prev) == prev # None /\ CorrectSeries(e, prev, None, <<>>)

LinkSeries(e, prev, c) == c \in DOMAIN node /\ CorrectSeries(e, prev, c, <<>>)

CreateSeries(e, prev, n, organizer) ==
  LET c == Cid("EVENT_SERIES", <<n, organizer>>) IN
  /\ "EVENT_SERIES" \in Facts[n].generic => organizer # None
  /\ CorrectSeries(e, prev, c, [i \in {c} |-> [type |-> "EVENT_SERIES", name |-> n]])

(* create_artist and reconcile_graph_artists: an artist node without a row *)
(* of its own gets a resolved one, keyed by its id.                        *)
ExternalKey(c) == <<"ARTIST", "external_discovery", c>>

RegisterExternal(c, n) ==
  /\ Free(Api)
  /\ c \notin KnownCanonicals("ARTIST")
  /\ LET k == ExternalKey(c)
     IN /\ candidate' = Extend(candidate, k,
             [status |-> "RESOLVED", cid |-> c, name |-> n, normal |-> Slug[n],
              city |-> None, corrected |-> FALSE, multiRole |-> FALSE])
        /\ Record(k, Manual(c), "EXTERNAL")
  /\ UNCHANGED <<handle, node, link, loops, asked>>

(* Nodes are listed by type; one without a name goes by its id. *)
ReconcileGraphArtists ==
  \E c \in DOMAIN node :
    /\ node[c].type = "ARTIST" /\ node[c].name # None
    /\ RegisterExternal(c, node[c].name)
    /\ UNCHANGED writes

(* An artist discovered elsewhere; its node is written unless it exists. *)
CreateArtist(n) ==
  LET c == Cid("ARTIST", <<Slug[n]>>) IN
  /\ Facts[n].generic = {} /\ Slug[n] # ""
  /\ RegisterExternal(c, n)
  /\ Send(Api, IF c \in DOMAIN node THEN <<>>
          ELSE <<Batch([i \in {c} |-> [type |-> "ARTIST", name |-> n]], <<>>)>>)

-----------------------------------------------------------------------------
RegistryInit ==
  /\ candidate = <<>> /\ history = {} /\ latest = <<>> /\ handle = <<>>
  /\ node = [id \in UNION {DOMAIN Projection(e).nodes : e \in Events} |->
               Projection(CHOOSE e \in Events : id \in DOMAIN Projection(e).nodes).nodes[id]]
  /\ link = [l \in UNION {DOMAIN Projection(e).links : e \in Events} |-> None]
  /\ writes = {} /\ fetched = [p \in Processes |-> [e \in Events |-> None]]
  /\ pass = [p \in Processes |-> None] /\ linking = None /\ asked = {}
  /\ passes = 0 /\ commands = 0

RegistryStep ==
  \/ \E p \in Processes :
       \/ \E e \in Events : Fetch(p, e) \/ Begin(p, e)
       \/ ReadTypes(p) \/ DecideMention(p) \/ RegisterHandle(p) \/ FinishPass(p)
       \/ Fail(p) \/ Crash(p)
  \/ \E e \in Events : Ingest(e)
  \/ GraphWrite \/ GraphWriteFails
=============================================================================
