------------------------------ MODULE SignalIngest ------------------------------
(***************************************************************************)
(* The ingest routes of signal-service (routes/ticketing.py, youtube.py,   *)
(* google_trends.py, spotify.py) with the services they write to: the      *)
(* append-only observations, the entity registry, the graph and the Shadow *)
(* Ledger.  An ingest fetches, classifies, appends observations, resolves  *)
(* every name to an entity and projects; each step is an await, and all    *)
(* but the second are best effort: without an answer of the registry the   *)
(* source handle stands for the entity.  A failed fetch changes nothing    *)
(* and is left out.                                                        *)
(***************************************************************************)
EXTENDS SignalRules

CONSTANTS
  Ingests,        \* requests that may be served at a time
  Subjects,       \* what can be ingested
  MayAnswer,      \* subject -> what its platform may answer: [kind, event], or [kind, handle, raw]
  MayKnow,        \* name -> lookups MusicBrainz may answer
  LedgerSources,  \* shadow_ledger_source_set
  MaxIngests, MaxFailures   \* bounds

(* Requests are finitely many; an answer is of one of four kinds, what it  *)
(* lists (performers, regions) it lists in order, and videos are counted.  *)
ASSUME IngestAssumption ==
  /\ IsFiniteSet(Ingests)
  /\ \A s \in Subjects : \A answer \in MayAnswer[s] :
       \/ /\ answer.kind = "ticket"
          /\ answer.event.artists \in Seq(Range(answer.event.artists))
       \/ /\ answer.kind \in {"channel", "query"}
          /\ answer.raw.regions \in Seq(Range(answer.raw.regions))
          /\ answer.raw.videos # None => answer.raw.videos \in Nat
       \/ answer.kind = "spotify"

VARIABLES
  ingest,      \* the requests under way
  lookups,     \* MusicBrainzClient._cache: name -> lookup
  observed,    \* source handles that observations were appended of
  entityOf,    \* the registry: alias -> entity; an entity is <<type, name, n>>
  graphNodes, graphEdges,
  ledger,      \* ids the ledger has a history of
  ingests, failures,   \* bounds
  unanswered,  \* history: handles whose resolution got no answer
  together,    \* history: pairs of handles whose creations overlapped
  lastProjected,   \* history: event node -> the event projected last
  lastClassified   \* history: node of a channel or a query -> what was classified last

graphVars == <<graphNodes, graphEdges, lastProjected, lastClassified>>
ingestVars ==
  <<ingest, lookups, observed, entityOf, graphVars, ledger, ingests, failures, unanswered, together>>

NoIngest == [at |-> "off"]

IngestInit ==
  /\ ingest = [i \in Ingests |-> NoIngest]
  /\ lookups = <<>>
  /\ observed = {}
  /\ entityOf = <<>>
  /\ graphNodes = <<>> /\ graphEdges = {}
  /\ ledger = {}
  /\ ingests = 0 /\ failures = 0
  /\ unanswered = {} /\ together = {}
  /\ lastProjected = <<>> /\ lastClassified = <<>>

Fails == failures < MaxFailures /\ failures' = failures + 1
Becomes(i, next) == ingest' = [ingest EXCEPT ![i] = next]

-----------------------------------------------------------------------------
(* Fetching and classifying.                                               *)

Wanted(handle, type, name) == [handle |-> handle, type |-> type, name |-> name]

(* The handle an answer is observed under.                                 *)
HandleOf(answer) == IF answer.kind = "ticket" THEN EventHandle(answer.event) ELSE answer.handle

(* What is resolved, in order.                                             *)
ToResolve(answer, verdict) ==
  CASE answer.kind = "ticket" ->
         LET e == answer.event
         IN  <<Wanted(EventHandle(e), "event", e.name)>>
             \o (IF e.venue = None THEN <<>> ELSE <<Wanted(VenueHandle(e), "venue", e.venue)>>)
             \o [k \in DOMAIN e.artists |-> Wanted(ArtistHandle(e, k), "artist", e.artists[k])]
    [] answer.kind \in {"channel", "query"} -> <<Wanted(HandleOf(answer), verdict.type, answer.raw.title)>>
    [] answer.kind = "spotify" -> <<>>

(* A request: where it stands, what is left to resolve, the ids so far.    *)
Job(where, answer, verdict, todo, ids) ==
  [at |-> where, answer |-> answer, verdict |-> verdict, todo |-> todo, ids |-> ids]

MovedTo(job, where) == Job(where, job.answer, job.verdict, job.todo, job.ids)
Fetched(answer, verdict) == Job("observe", answer, verdict, ToResolve(answer, verdict), <<>>)

(* What a channel says of its videos counts; a query has none.             *)
VideosOf(answer) ==
  IF answer.kind = "channel" /\ answer.raw.videos # None THEN answer.raw.videos ELSE 0

(* A ticketing or an artist page is taken as it is; the name of a channel  *)
(* or a query is looked up, once, and an outage leaves its type to guess.  *)
Serve(i, answer) ==
  IF answer.kind \in {"ticket", "spotify"}
  THEN Becomes(i, Fetched(answer, None)) /\ UNCHANGED <<lookups, failures>>
  ELSE LET name == answer.raw.title
       IN  \/ \E found \in IF name \in DOMAIN lookups THEN {lookups[name]} ELSE MayKnow[name] :
                /\ lookups' = Over([n \in {name} |-> found], lookups)
                /\ Becomes(i, Fetched(answer, Classify(name, VideosOf(answer), found)))
                /\ UNCHANGED failures
           \/ /\ name \notin DOMAIN lookups /\ Fails
              /\ Becomes(i, Fetched(answer, Classify(name, VideosOf(answer), None)))
              /\ UNCHANGED lookups

Start(i) ==
  /\ ingest[i].at = "off" /\ ingests < MaxIngests
  /\ ingests' = ingests + 1
  /\ \E s \in Subjects : \E answer \in MayAnswer[s] : Serve(i, answer)
  /\ UNCHANGED <<observed, entityOf, ledger, unanswered, together, graphVars>>

-----------------------------------------------------------------------------
(* Observations: all of them, in one transaction, or the ingest fails.     *)

ObservationsFail_Ignored(i) ==
  /\ ingest[i].at = "observe" /\ Fails
  /\ Becomes(i, IF ingest[i].todo = <<>> THEN NoIngest ELSE MovedTo(ingest[i], "resolve"))
  /\ UNCHANGED <<lookups, observed, entityOf, ledger, ingests, unanswered, together, graphVars>>

AppendObservations(i) ==
  /\ ingest[i].at = "observe"
  /\ observed' = observed \cup {HandleOf(ingest[i].answer)}
  /\ Becomes(i, IF ingest[i].todo = <<>> THEN NoIngest ELSE MovedTo(ingest[i], "resolve"))
  /\ UNCHANGED <<lookups, entityOf, ledger, ingests, failures, unanswered, together, graphVars>>

ObservationsFail(i) ==
  /\ ingest[i].at = "observe" /\ Fails
  /\ Becomes(i, NoIngest)
  /\ UNCHANGED <<lookups, observed, entityOf, ledger, ingests, unanswered, together, graphVars>>

-----------------------------------------------------------------------------
(* Resolution: entity-service repository.py.                               *)

Entities == Range(entityOf)
Base(w) == <<w.type, w.name, 0>>

(* _unique_entity_id: the slug of the name, or with a random suffix, which *)
(* nothing else has.                                                       *)
FreeId(w, inFlight) ==
  LET taken == Entities \cup inFlight
  IN  IF Base(w) \notin Entities THEN Base(w)
      ELSE <<w.type, w.name, Min({n \in 1 .. Cardinality(taken) + 1 : <<w.type, w.name, n>> \notin taken})>>

(* The next name, or what follows the last one.                            *)
Resolved(job, id) ==
  Job(IF Len(job.todo) > 1 THEN "resolve" ELSE IF job.answer.kind = "ticket" THEN "project" ELSE "link",
      job.answer, job.verdict, Tail(job.todo), Append(job.ids, id))

InCreation(i) == {j \in Ingests \ {i} : ingest[j].at = "create"}

KnownHandle_Never(h) == FALSE
KnownHandle(h) == h \in DOMAIN entityOf

(* The alias is looked up, and an id chosen, before anything is written.   *)
LookUp(i) ==
  /\ ingest[i].at = "resolve"
  /\ LET job == ingest[i]  w == Head(job.todo)
     IN  IF KnownHandle(w.handle)
         THEN Becomes(i, Resolved(job, entityOf[w.handle])) /\ UNCHANGED together
         ELSE /\ Becomes(i, [at |-> "create", id |-> FreeId(w, {ingest[j].id : j \in InCreation(i)}),
                             answer |-> job.answer, verdict |-> job.verdict,
                             todo |-> job.todo, ids |-> job.ids])
              /\ together' = together \cup {{w.handle, Head(ingest[j].todo).handle} : j \in InCreation(i)}
  /\ UNCHANGED <<lookups, observed, entityOf, ledger, ingests, failures, unanswered, graphVars>>

(* create_entity checks once more whether the id is taken, and then takes  *)
(* that entity for its own; or the insert, or the alias's, hits the key    *)
(* another request has committed.                                          *)
Create(i) ==
  /\ ingest[i].at = "create"
  /\ LET job == ingest[i]  h == Head(job.todo).handle
     IN  \/ /\ h \in DOMAIN entityOf => entityOf[h] = job.id
            /\ entityOf' = Over([a \in {h} |-> job.id], entityOf)
            /\ Becomes(i, Resolved(job, job.id))
         \/ /\ h \in DOMAIN entityOf \/ job.id \in Entities
            /\ Becomes(i, Resolved(job, h))
            /\ UNCHANGED entityOf
  /\ UNCHANGED <<lookups, observed, ledger, ingests, failures, unanswered, together, graphVars>>

(* No answer: the request never arrived, or was carried out all the same.  *)
NoAnswer(i) ==
  /\ ingest[i].at \in {"resolve", "create"} /\ Fails
  /\ LET job == ingest[i]  h == Head(job.todo).handle
     IN  /\ Becomes(i, Resolved(job, h))
         /\ unanswered' = unanswered \cup {h}
         /\ \/ UNCHANGED entityOf
            \/ /\ job.at = "create" /\ h \notin DOMAIN entityOf
               /\ entityOf' = Over([a \in {h} |-> job.id], entityOf)
  /\ UNCHANGED <<lookups, observed, ledger, ingests, together, graphVars>>

(* Identifiers of other catalogues become aliases, all or none: one that   *)
(* belongs to another entity is a conflict, which is not reported.         *)
External(job) ==
  {<<"mbid", x>> : x \in {job.verdict.mbid} \ {None}}
  \cup {<<"kgmid", x>> : x \in IF job.answer.kind = "query" THEN {job.answer.raw.kgmid} \ {None} ELSE {}}

Link(i) ==
  /\ ingest[i].at = "link"
  /\ LET job == ingest[i]  id == job.ids[1]
     IN  /\ entityOf' = IF id \in Entities /\ \A a \in External(job) \cap DOMAIN entityOf : entityOf[a] = id
                        THEN Over([a \in External(job) |-> id], entityOf) ELSE entityOf
         /\ Becomes(i, MovedTo(job, "project"))
  /\ UNCHANGED <<lookups, observed, ledger, ingests, failures, unanswered, together, graphVars>>

-----------------------------------------------------------------------------
(* Projection, and the ledger.                                             *)

ProjectionOf(job) ==
  IF job.answer.kind = "ticket"
  THEN LET e == job.answer.event
       IN  ProjectTicketing(e, job.ids[1], IF e.venue = None THEN None ELSE job.ids[2],
                            SubSeq(job.ids, IF e.venue = None THEN 2 ELSE 3, Len(job.ids)))
  ELSE ProjectEntity(job.ids[1], job.verdict, job.answer.raw.title,
                     IF job.answer.kind = "channel" THEN ChannelObservations(job.answer.raw)
                     ELSE TrendsObservations(job.answer.raw))

Remember(job, written) ==
  LET told(of) == IF written = 0 THEN <<>> ELSE [id \in {job.ids[1]} |-> of]
  IN  IF job.answer.kind = "ticket"
      THEN lastProjected' = Over(told(job.answer.event), lastProjected) /\ UNCHANGED lastClassified
      ELSE lastClassified' = Over(told(job.answer.raw), lastClassified) /\ UNCHANGED lastProjected

(* upsert_batch: nodes, then edges, each in a transaction of its own; a    *)
(* failure leaves those written so far.                                    *)
Project(i) ==
  /\ ingest[i].at = "project"
  /\ LET job   == ingest[i]
         what  == ProjectionOf(job)
         whole == Len(what.nodes) + Len(what.edges)
     IN  \E written \in {0, 1, Len(what.nodes), whole} :
           /\ written < whole => Fails
           /\ written = whole => UNCHANGED failures
           /\ LET nodes == SubSeq(what.nodes, 1, Least(written, Len(what.nodes)))
                  edges == Range(SubSeq(what.edges, 1, written - Len(what.nodes)))
              IN  /\ graphNodes' = EnsureNodes(UpsertNodes(graphNodes, nodes), edges)
                  /\ graphEdges' = graphEdges \cup edges
           /\ Remember(job, written)
           /\ Becomes(i, IF job.answer.kind = "ticket" /\ job.answer.event.source \in LedgerSources
                         THEN MovedTo(job, "ledger") ELSE NoIngest)
  /\ UNCHANGED <<lookups, observed, entityOf, ledger, ingests, unanswered, together>>

RecordCapture(i) ==
  /\ ingest[i].at = "ledger"
  /\ \/ ledger' = ledger \cup {ingest[i].ids[1]} /\ UNCHANGED failures
     \/ Fails /\ UNCHANGED ledger
  /\ Becomes(i, NoIngest)
  /\ UNCHANGED <<lookups, observed, entityOf, ingests, unanswered, together, graphVars>>

(* A restart of signal-service: the caches and the requests are gone.      *)
SignalRestart ==
  /\ \E i \in Ingests : ingest[i].at # "off"
  /\ Fails
  /\ ingest' = [i \in Ingests |-> NoIngest] /\ lookups' = <<>>
  /\ UNCHANGED <<observed, entityOf, ledger, ingests, unanswered, together, graphVars>>

IngestNext ==
  \/ SignalRestart
  \/ \E i \in Ingests :
       \/ Start(i) \/ AppendObservations(i) \/ ObservationsFail(i) \/ LookUp(i) \/ Create(i) \/ NoAnswer(i)
       \/ Link(i) \/ Project(i) \/ RecordCapture(i)

IngestSpec == IngestInit /\ [][IngestNext]_ingestVars

-----------------------------------------------------------------------------
(* Nothing enters the graph or the ledger as an event, or as the entity of *)
(* a channel or a query, of which no observation was appended: the         *)
(* observations are the source of truth (routes/youtube.py).               *)
ProjectedIsObserved ==
  LET founded(id) == \E h \in observed : id = h \/ (h \in DOMAIN entityOf /\ entityOf[h] = id)
  IN  /\ \A id \in ledger \cup DOMAIN lastProjected : founded(id)
      /\ \A id \in DOMAIN graphNodes : "needs_review" \in DOMAIN graphNodes[id].props => founded(id)

(* Two source handles stand for one entity only if their creations         *)
(* overlapped: names alone never merge identities (_unique_entity_id).     *)
SharedOnlyByRace ==
  \A h, g \in {a \in DOMAIN entityOf : Len(a) = 3} :
    h # g /\ entityOf[h] = entityOf[g] => {h, g} \in together

(* What is known of a handle is kept under a second id, the handle itself, *)
(* only if a resolution of it got no answer or raced with another one.     *)
SplitHasCause ==
  \A h \in (DOMAIN graphNodes \cup ledger) :
    Len(h) = 3 /\ h \notin Entities => h \in unanswered \/ \E pair \in together : h \in pair

(* What the feed shows of an event was vouched for by the source when it   *)
(* was read last, through partial writes and ingests that overlap: a       *)
(* listing that turns into spam leaves the feed (redistribution.py).       *)
FeedIsVouched ==
  \A id \in Feed(graphNodes) : id \in DOMAIN lastProjected /\ lastProjected[id].verified

(* A node that needs no review is of a kind MusicBrainz gave clearly, and  *)
(* has the id it gave; or what was classified last has the name of a label *)
(* and as many videos as one: an outage or a tie always asks for a review. *)
ClearlyKnown(props, name) ==
  \E found \in MayKnow[name] :
    /\ Trusted(found.label) /\ Trusted(found.artist) => ClearWinner(found.label, found.artist)
    /\ \E match \in {found.label, found.artist} :
         Trusted(match) /\ (match.mbid # None => "mbid" \in DOMAIN props /\ props.mbid = match.mbid)

ReviewedUnlessClear ==
  \A id \in DOMAIN graphNodes :
    LET props == graphNodes[id].props
    IN  "needs_review" \in DOMAIN props /\ ~props.needs_review =>
          /\ id \in DOMAIN lastClassified
          /\ \/ /\ props.method = "heuristic" /\ lastClassified[id].title \in LabelNames
                /\ PropOr(props, "video_count", 0) >= AggregatorVideos
             \/ props.method = "musicbrainz" /\ ClearlyKnown(props, lastClassified[id].title)

(* What the graph and the ledger hold was observed, and is trusted as far  *)
(* as the evidence of its kind went, whatever step of an ingest failed.    *)
GraphIsFounded == ProjectedIsObserved /\ ReviewedUnlessClear

(* Handles and entities correspond one to one, but for the races and       *)
(* outages that the registry does not guard against.                       *)
HandlesAreApart == SharedOnlyByRace /\ SplitHasCause
=============================================================================
