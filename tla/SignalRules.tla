------------------------------ MODULE SignalRules ------------------------------
(***************************************************************************)
(* What signal-service makes of its sources besides ticketing: what a      *)
(* channel, a search query or an artist page says of an entity, what kind  *)
(* of entity a name is (classification.py, adapters/musicbrainz.py), and   *)
(* the nodes and edges written to the graph (graph_projection.py).  Also   *)
(* the feed graph-service serves of them (routes/events.py,                *)
(* redistribution.py).  Pure operators.                                    *)
(***************************************************************************)
EXTENDS ListingSources

CONSTANTS
  LabelNames,     \* names that contain a label token
  SameName        \* pairs of names that are equal but for case and dashes

-----------------------------------------------------------------------------
(* Observations of an entity: attribute -> value.                          *)

(* {**old, **new}: what is new wins.                                       *)
Over(new, old) ==
  [x \in DOMAIN new \cup DOMAIN old |-> IF x \in DOMAIN new THEN new[x] ELSE old[x]]

ChannelObservations(raw) ==
  Over([display_name |-> raw.title],
       Known([subscriber_count |-> raw.subscribers, total_view_count |-> raw.views, video_count |-> raw.videos]))

(* derive_momentum: the direction of the second half against the first.    *)
Momentum(series) ==
  LET half     == Len(series) \div 2
      total(s) == FoldLeft(LAMBDA sum, x : sum + x, 0, s)
      earlier  == total(SubSeq(series, 1, half)) * (Len(series) - half)
      recent   == total(SubSeq(series, half + 1, Len(series))) * half
  IN  IF Len(series) < 4 THEN "unknown"
      ELSE IF earlier <= 0 THEN (IF recent > 0 THEN "rising" ELSE "unknown")
      ELSE CASE 100 * recent >= 115 * earlier -> "rising"
             [] 100 * recent <= 85 * earlier -> "falling"
             [] OTHER -> "steady"

(* Regions come ranked; the title's own topic is preferred if a performer. *)
TrendsObservations(raw) ==
  Known([search_top_regions |-> IF raw.regions = <<>> THEN None
                                ELSE SubSeq(raw.regions, 1, Least(5, Len(raw.regions))),
         search_momentum |-> IF raw.series = <<>> THEN None ELSE Momentum(raw.series),
         google_kg_mid |-> raw.kgmid])

-----------------------------------------------------------------------------
(* What kind of entity a name is.  A lookup has a best label and a best    *)
(* artist match [name, score, mbid], None where there is none.             *)

TrustScore == 85
TieMargin == 8
AggregatorVideos == 2000

Verdict(type, method, review, mbid) ==
  [type |-> type, method |-> method, review |-> review, mbid |-> mbid]

(* A match that is trusted has a confidence above 0.7.                     *)
FromMatch(type, match) == Verdict(type, "musicbrainz", match.score < 70, match.mbid)

ByHeuristics(name, videos) ==
  IF name \in LabelNames THEN Verdict("label", "heuristic", videos < AggregatorVideos, None)
  ELSE Verdict("artist", "default", TRUE, None)

Trusted(match) == match # None /\ match.score >= TrustScore

ClearWinner(label, artist) ==
  label.score - artist.score >= TieMargin \/ artist.score - label.score >= TieMargin

(* A tie: the exact name, and a channel with as many videos as a label's.  *)

TieBreak(label, artist, name, videos) ==
  LET exactly(m, other) == <<m.name, name>> \in SameName /\ <<other.name, name>> \notin SameName
      forLabel  == (IF exactly(label, artist) THEN 1 ELSE 0) + (IF videos >= AggregatorVideos THEN 1 ELSE 0)
      forArtist == IF exactly(artist, label) THEN 1 ELSE 0
  IN  IF forLabel > forArtist THEN Verdict("label", "musicbrainz+tiebreak", TRUE, label.mbid)
      ELSE Verdict("artist", "musicbrainz+tiebreak", TRUE, artist.mbid)

(* classify_channel: an outage (None) leaves the heuristics.               *)
Classify(name, videos, lookup) ==
  IF lookup = None THEN ByHeuristics(name, videos)
  ELSE LET label == lookup.label  artist == lookup.artist
       IN  CASE Trusted(label) /\ Trusted(artist) ->
                  IF ClearWinner(label, artist)
                  THEN IF label.score > artist.score THEN FromMatch("label", label) ELSE FromMatch("artist", artist)
                  ELSE TieBreak(label, artist, name, videos)
             [] Trusted(label) /\ ~Trusted(artist) -> FromMatch("label", label)
             [] Trusted(artist) /\ ~Trusted(label) -> FromMatch("artist", artist)
             [] OTHER -> ByHeuristics(name, videos)

-----------------------------------------------------------------------------
(* Projections: nodes [id, type, props] and edges <<source, rel, target>>  *)
(* in the order they are written.                                          *)

GraphNode(id, type, props) == [id |-> id, type |-> type, props |-> props]
RegionNode(region) == GraphNode(<<"region", region>>, "region", [display_name |-> region])

ProjectEntity(id, verdict, name, observations) ==
  LET regions == IF "search_top_regions" \in DOMAIN observations
                 THEN observations.search_top_regions ELSE <<>>
      signals == {"subscriber_count", "total_view_count", "video_count", "search_momentum", "google_kg_mid"}
      props   == Over([display_name |-> name, needs_review |-> verdict.review, method |-> verdict.method],
                      Over(Restrict(observations, signals \cap DOMAIN observations), Known([mbid |-> verdict.mbid])))
  IN  [nodes |-> <<GraphNode(id, verdict.type, props)>> \o [k \in DOMAIN regions |-> RegionNode(regions[k])],
       edges |-> [k \in DOMAIN regions |-> <<id, "STRONG_IN", <<"region", regions[k]>>>>]]

(* _graph_event_props: what is not known is not written.                   *)
EventProperties_VouchedOnly(e) ==
  Over([display_name |-> e.name, source |-> e.source],
       Known([price_min |-> e.price, verified |-> IF e.verified THEN TRUE ELSE None]))

EventProperties(e) ==
  Over([display_name |-> e.name, city |-> e.city, source |-> e.source,
        source_time_precision |-> e.precision, verified |-> e.verified],
       Known([organizer |-> e.curator, starts_at |-> e.start, ends_at |-> e.end, event_date |-> e.date,
              provider_lifecycle |-> e.lifecycle, source_timezone |-> e.zone, price_min |-> e.price,
              fill_ratio |-> FillRatio(e), image_url |-> e.image]))

ProjectTicketing(e, eventId, venueId, artistIds) ==
  LET venue   == IF venueId = None THEN <<>> ELSE <<GraphNode(venueId, "venue", [display_name |-> e.venue])>>
      region  == IF e.region = None THEN <<>> ELSE <<RegionNode(e.region)>>
      artists == [k \in DOMAIN artistIds |-> GraphNode(artistIds[k], "artist", [display_name |-> e.artists[k]])]
      rel(n)  == CASE n.type = "venue" -> "OCCURS_AT" [] n.type = "artist" -> "FEATURES" [] OTHER -> "IN_REGION"
      related == venue \o artists \o region
  IN  [nodes |-> <<GraphNode(eventId, "event", EventProperties(e))>> \o related,
       edges |-> [k \in DOMAIN related |-> <<eventId, rel(related[k]), related[k].id>>]]

-----------------------------------------------------------------------------
(* The store of graph-service: nodes are id -> [type, props].              *)

RowOf(nodes, id) == IF id \in DOMAIN nodes THEN nodes[id] ELSE [type |-> "unknown", props |-> <<>>]

UpsertNode(nodes, n) ==
  LET old == RowOf(nodes, n.id)
      new == [type |-> IF n.type = "unknown" THEN old.type ELSE n.type, props |-> Over(n.props, old.props)]
  IN  [id \in DOMAIN nodes \cup {n.id} |-> IF id = n.id THEN new ELSE nodes[id]]

(* The nodes of a batch, one after the other.                              *)
UpsertNodes(nodes, batch) ==
  LET after[k \in 0 .. Len(batch)] == IF k = 0 THEN nodes ELSE UpsertNode(after[k - 1], batch[k])
  IN  after[Len(batch)]

(* The endpoints of the edges are created if they are missing.             *)
EnsureNodes(nodes, edges) ==
  [id \in DOMAIN nodes \cup UNION {{edge[1], edge[3]} : edge \in edges} |-> RowOf(nodes, id)]

-----------------------------------------------------------------------------
(* The feed.                                                               *)

RedistributionTier(source, price, verified) ==
  IF ~verified THEN "excluded"
  ELSE IF source = "allevents" \/ (source \in {"district", "skillbox"} /\ price # 0) THEN "link_only" ELSE "open"

PropOr(props, name, default) == IF name \in DOMAIN props THEN props[name] ELSE default

FeedTier(props) ==
  RedistributionTier(PropOr(props, "source", None), PropOr(props, "price_min", None), PropOr(props, "verified", FALSE))

(* list_events without a filter.                                           *)
Feed(nodes) == {id \in DOMAIN nodes : nodes[id].type = "event" /\ FeedTier(nodes[id].props) # "excluded"}
=============================================================================
