----------------------------- MODULE FieldRules ------------------------------
(***************************************************************************)
(* The field registry, the extraction of candidates and the resolver of    *)
(* crawl-service's enrichment (enrichment/registry.py, graph_evidence.py,  *)
(* extractors.py, onsale.py, resolver.py): pure operators.  A page or a    *)
(* node is what can be read from it, normalised: None where a field is     *)
(* missing or does not parse.  Confidences are in hundredths.              *)
(***************************************************************************)
EXTENDS Integers, Sequences, FiniteSets, FiniteSetsExt, Functions, SequencesExt

CONSTANTS
  None,
  MinConfidence   \* capture_enrichment_min_confidence: the registry's own are not used

Graph    == "CANONICAL_ENTITY_RELATIONSHIP"
Api      == "SOURCE_API"
Temporal == "TEMPORAL_OBSERVATION"
Page     == <<"JSON_LD", "EMBEDDED_STATE", "OPEN_GRAPH", "VISIBLE_TEXT">>

(* The surfaces that may supply a field, highest authority first. *)
Precedence ==
  [starts_at         |-> <<Api>> \o Page,
   end_at            |-> <<Api, "JSON_LD", "EMBEDDED_STATE">>,
   venue_name        |-> <<Api>> \o Page,
   venue_id          |-> <<Graph, Api>>,
   city              |-> <<Graph, Api, "JSON_LD", "VISIBLE_TEXT">>,
   region_id         |-> <<Graph, Api>>,
   event_status      |-> <<Api, "JSON_LD", "EMBEDDED_STATE">>,
   source_on_sale_at |-> <<Api>>,
   first_seen        |-> <<Temporal>>,   \* first_ticket_state_seen_at
   not_on_sale       |-> <<Temporal>>,   \* last_observed_not_on_sale_at
   window            |-> <<Temporal>>]   \* estimated_on_sale_window_start, _end

SupportedFields == DOMAIN Precedence
SchedulerFields == {"starts_at", "venue_id", "city", "region_id", "event_status",
                    "source_on_sale_at", "first_seen"}

Supplies(f, surface) == surface \in Range(Precedence[f])
Authority(f, surface) == SelectInSeq(Precedence[f], LAMBDA s : s = surface)

-----------------------------------------------------------------------------
(* Candidates.  Two are the same evidence when field, value, surface and   *)
(* url agree: neither the origin nor the time of reading is in the hash.   *)

Candidate(f, v, surface, url, origin, conf) ==
  [field |-> f, value |-> v, surface |-> surface, url |-> url,
   origin |-> origin, conf |-> conf]

Hash(c) == <<c.field, c.value, c.surface, c.url>>

Valid(c) == c.field \in SupportedFields /\ Supplies(c.field, c.surface) /\ c.value # None

(* What the platform itself derives stands alone; every other candidate,   *)
(* the projection on the graph too, belongs to the platform it came from.  *)
IndependenceGroup(c) == IF c.surface = Temporal THEN "nquark_temporal" ELSE c.origin

(* candidates_from_graph; a node's venues are the neighbours OCCURS_AT.    *)
GraphCandidates(node, origin) ==
  LET one(f, v, surface, conf) == Candidate(f, v, surface, None, origin, conf)
  IN  {one("starts_at", node.starts_at, Api, 90), one("event_status", node.status, Api, 85),
       one("city", node.city, Graph, 80)}
      \cup {one("venue_id", v.id, Graph, 90) : v \in node.venues}
      \cup {one("venue_name", v.name, Api, 85) : v \in node.venues}
      \cup {one("region_id", r, Graph, 90) : r \in node.regions}

(* candidates_from_jsonld, _embedded_state, _opengraph and _visible_text:  *)
(* a page is a function from the surfaces it has to the fields read there. *)
PageConfidence ==
  [JSON_LD        |-> [starts_at |-> 85, end_at |-> 80, event_status |-> 75,
                       venue_name |-> 75, city |-> 65],
   EMBEDDED_STATE |-> [starts_at |-> 80, venue_name |-> 70, event_status |-> 70],
   OPEN_GRAPH     |-> [starts_at |-> 55, end_at |-> 50],
   VISIBLE_TEXT   |-> [starts_at |-> 45, venue_name |-> 45, city |-> 45]]

PageCandidates(page, url, origin) ==
  UNION {{Candidate(f, page[s][f], s, url, origin, PageConfidence[s][f]) :
            f \in DOMAIN PageConfidence[s] \cap DOMAIN page[s]} : s \in DOMAIN page}

(* candidates_from_boshow_share: date and venue of the share card, all or  *)
(* nothing.                                                                *)
ShareCandidates(card, url, origin) ==
  IF card = None THEN {}
  ELSE {Candidate("starts_at", card.starts_at, "OPEN_GRAPH", url, origin, 55),
        Candidate("venue_name", card.venue_name, "OPEN_GRAPH", url, origin, 50)}

(* onsale_candidates: an interval, never a point.                          *)
OnSaleCandidates(now, onSale, prevFirst, prevNot) ==
  LET seen(f, v) == Candidate(f, v, Temporal, None, None, 60)
  IN  IF ~onSale THEN {seen("not_on_sale", now)}
      ELSE {seen("first_seen", now) : x \in {y \in {prevFirst} : y = None}}
           \cup {seen("window", <<prevNot, now>>) : x \in {y \in {prevNot} : y # None}}

-----------------------------------------------------------------------------
(* resolve_field.  Newer evidence of the same authority is only looked at  *)
(* first: where the values differ the field is in conflict.                *)

Resolution(v, method, review, conf) ==
  [value |-> v, method |-> method, review |-> review, conf |-> conf]

Unresolved == Resolution(None, "UNRESOLVED", "UNRESOLVED", 0)
Conflict   == Resolution(None, "UNRESOLVED", "CONFLICT", 0)

Least(a, b) == IF a < b THEN a ELSE b

(* Only agreement between platforms is consensus; more surfaces of one     *)
(* platform raise the confidence a little.                                 *)
IndependentlySupported(cs) == \E c, d \in cs : IndependenceGroup(c) # IndependenceGroup(d)

Agreement(cs) ==
  LET best == Max({c.conf : c \in cs})
  IN  CASE IndependentlySupported(cs)               -> Least(99, best + 10)
        [] Cardinality({c.surface : c \in cs}) > 1
           /\ ~IndependentlySupported(cs)           -> Least(95, best + 3)
        [] OTHER                                    -> best

Method(top, cs) ==
  CASE top = Graph    -> "CANONICAL_RELATIONSHIP"
    [] top = Temporal -> "TEMPORAL_INTERVAL"
    [] OTHER          -> IF IndependentlySupported(cs) THEN "STRUCTURED_SOURCE_CONSENSUS"
                         ELSE "DIRECT_SOURCE"

TopTier(f, cs) ==
  {c \in cs : \A d \in cs : Authority(f, c.surface) <= Authority(f, d.surface)}

Differ_Never(cs) == FALSE
Differ(cs) == \E c, d \in cs : c.value # d.value

ResolveField(f, cs) ==
  LET usable  == {c \in cs : f \in SupportedFields /\ Supplies(f, c.surface)}
      top     == TopTier(f, usable)
      value   == CHOOSE v \in {c.value : c \in top} : TRUE
      support == {c \in usable : c.value = value}
      conf    == Agreement(support)
  IN  IF usable = {} THEN Unresolved
      ELSE IF Differ(top) THEN Conflict
      ELSE Resolution(value, Method((CHOOSE c \in top : TRUE).surface, support),
                      IF conf >= MinConfidence THEN "AUTO_RESOLVED" ELSE "NEEDS_REVIEW", conf)
=============================================================================
