------------------------------- MODULE MediaSlots -------------------------------
(***************************************************************************)
(* Creatives in media-service: an observation of an event's image fetches  *)
(* it, keeps its content once, and compares it with what the event's slot  *)
(* showed.  A slot is one event, source and role.  The one await before    *)
(* the transaction is the fetch; after it the graph is written best effort.*)
(***************************************************************************)
EXTENDS Naturals, Sequences, FiniteSets

CONSTANTS
  Null,
  Slots,            \* [event, source, role]
  MayObserve,       \* observations asked for: [slot, url, at, authoritative]
  MayServe,         \* url -> the answers its host may give
  RedirectLimit, MaxBytes, AllowedTypes,
  Observers,        \* requests under way at once
  MaxObserves, MaxPublications, MaxMediaRestarts    \* bounds

ASSUME MediaAssumption ==
  /\ \A in \in MayObserve : in.slot \in Slots /\ in.at \in Nat
  /\ Null \notin {"ABSENT", "PRESENT"}

VARIABLES
  web,          \* url -> what its host answers
  fetching,     \* media_fetch_enabled of the running process
  assets,       \* media_asset: content -> when it was first and last seen
  sightings,    \* media_observation
  slotState,    \* event_media_state
  timeline,     \* media_transition
  creatives,    \* the graph: nodes of assets, and USES_CREATIVE edges
  observing,    \* observer -> its request
  observes, publications, mediaRestarts    \* bounds

mediaVars ==
  <<web, fetching, assets, sightings, slotState, timeline, creatives, observing,
    observes, publications, mediaRestarts>>

Urls == DOMAIN MayServe
NoObservation == [at |-> "none"]
NoSlotRow == [version |-> 0]    \* of a slot nothing was seen of

MediaInit ==
  /\ web = [u \in Urls |-> CHOOSE a \in MayServe[u] : TRUE]
  /\ fetching \in BOOLEAN
  /\ assets = [c \in {} |-> Null]
  /\ sightings = {}
  /\ slotState = [s \in Slots |-> NoSlotRow]
  /\ timeline = <<>>
  /\ creatives = [nodes |-> {}, edges |-> [k \in {} |-> Null]]
  /\ observing = [o \in Observers |-> NoObservation]
  /\ observes = 0 /\ publications = 0 /\ mediaRestarts = 0

-----------------------------------------------------------------------------
(* The fetcher *)

Refused == [private |-> "BLOCKED", missing |-> "NOT_FOUND", failing |-> "SOURCE_UNAVAILABLE",
            slow |-> "TIMEOUT"]

Unfetched(status) == [status |-> status, content |-> Null]

(* Declared type, size, sniffed format, sniffed type: in this order. *)
Download(a) ==
  IF a.declared \notin AllowedTypes \cup {Null} THEN Unfetched("UNSUPPORTED_TYPE")
  ELSE IF a.bytes > MaxBytes THEN Unfetched("TOO_LARGE")
  ELSE IF a.sniffed = Null THEN Unfetched("INVALID_CONTENT")
  ELSE IF a.sniffed \notin AllowedTypes THEN Unfetched("UNSUPPORTED_TYPE")
  ELSE [status |-> "FETCHED", content |-> a.content]

(* Every hop is validated again; a redirect may lead nowhere, or be one    *)
(* too many.                                                               *)
Fetch(url) ==
  LET Hop[n \in 0 .. RedirectLimit] ==
        IF n = 0 THEN url
        ELSE IF web[Hop[n - 1]].kind = "redirect" /\ web[Hop[n - 1]].to # Null THEN web[Hop[n - 1]].to
        ELSE Hop[n - 1]
      answer == web[Hop[RedirectLimit]]
  IN CASE answer.kind = "body" -> Download(answer)
       [] answer.kind = "redirect" -> Unfetched("BLOCKED")
       [] OTHER -> Unfetched(Refused[answer.kind])

-----------------------------------------------------------------------------
(* The transition detector *)

IdentityKey(asset, url) == IF asset # Null THEN <<"content", asset>> ELSE <<"url", url>>

Rather(a, b) == IF a # Null THEN a ELSE b

Same == [kinds |-> <<>>, next |-> NoSlotRow]

DetectAbsent(prev, g) ==
  IF prev = NoSlotRow \/ ~prev.present
  THEN Same
  ELSE [kinds |-> <<"DISAPPEARED">>,
        next |-> [prev EXCEPT !.present = FALSE, !.last = g.at, !.changed = g.at]]

DetectFirst(g) ==
  [kinds |-> <<"FIRST_SEEN">>,
   next |-> [present |-> TRUE, asset |-> g.asset, url |-> g.url, first |-> g.at, last |-> g.at,
             changed |-> g.at, version |-> 1]]

DetectReturn_SameVersion(prev, g) ==
  [kinds |-> IF g.asset # prev.asset THEN <<"REAPPEARED", "CONTENT_CHANGED">> ELSE <<"REAPPEARED">>,
   next |-> [prev EXCEPT !.present = TRUE, !.asset = Rather(g.asset, @), !.url = g.url,
                         !.last = g.at, !.changed = g.at]]

DetectReturn(prev, g) ==
  LET other == Null \notin {g.asset, prev.asset} /\ g.asset # prev.asset
  IN [kinds |-> IF other THEN <<"REAPPEARED", "CONTENT_CHANGED">> ELSE <<"REAPPEARED">>,
      next |-> [prev EXCEPT !.present = TRUE, !.asset = Rather(g.asset, @), !.url = g.url,
                            !.last = g.at, !.changed = g.at,
                            !.version = IF other THEN @ + 1 ELSE @]]

DetectPresent(prev, g) ==
  IF IdentityKey(g.asset, g.url) # IdentityKey(prev.asset, prev.url)
  THEN [kinds |-> <<"CONTENT_CHANGED">>,
        next |-> [prev EXCEPT !.asset = g.asset, !.url = g.url, !.last = g.at, !.changed = g.at,
                              !.version = @ + 1]]
  ELSE IF g.asset # Null /\ g.url # prev.url
  THEN [kinds |-> <<"URL_CHANGED_SAME_CONTENT">>,
        next |-> [prev EXCEPT !.url = g.url, !.last = g.at]]
  ELSE [kinds |-> <<>>, next |-> [prev EXCEPT !.last = g.at]]

(* Only a presence that was fetched or not to be fetched, and an absence a *)
(* successful capture vouches for, say anything of the slot.               *)
Signal_NoAsset(g) == IF g.asset = Null THEN "ABSENT" ELSE "PRESENT"

Signal(g) ==
  CASE g.status = "ABSENT" -> "ABSENT"
    [] g.url # Null /\ g.status \in {"FETCHED", "URL_ONLY"} -> "PRESENT"
    [] OTHER -> Null

(* An absence that confirms an absence does not move `last`. *)
Detect_AsTheyCome(prev, g) ==
  IF Signal(g) = "ABSENT" THEN DetectAbsent(prev, g)
  ELSE IF prev = NoSlotRow THEN DetectFirst(g)
  ELSE IF ~prev.present THEN DetectReturn(prev, g)
  ELSE DetectPresent(prev, g)

Detect(prev, g) ==
  IF prev # NoSlotRow /\ g.at < prev.last THEN Same
  ELSE IF Signal(g) = "ABSENT" THEN DetectAbsent(prev, g)
  ELSE IF prev = NoSlotRow THEN DetectFirst(g)
  ELSE IF ~prev.present THEN DetectReturn(prev, g)
  ELSE DetectPresent(prev, g)

-----------------------------------------------------------------------------
(* One observation *)

Sighting(in, status, asset) ==
  [slot |-> in.slot, url |-> in.url, at |-> in.at, asset |-> asset,
   status |-> IF in.url = Null /\ in.authoritative THEN "ABSENT" ELSE status]

AlreadySighted(g) == {h \in sightings : <<h.slot, h.url, h.at>> = <<g.slot, g.url, g.at>>}

Transitions(prev, g) ==
  LET from == IF prev = NoSlotRow THEN [asset |-> Null, url |-> Null] ELSE prev
      Transition(k) ==
        [slot |-> g.slot, kind |-> k, from |-> from.asset, to |-> g.asset,
         fromUrl |-> from.url, toUrl |-> g.url, at |-> g.at]
      kinds == Detect(prev, g).kinds
  IN [i \in 1 .. Len(kinds) |-> Transition(kinds[i])]

(* The transaction: the sighting, its transitions and the new state. *)
ApplySighting(g) ==
  /\ sightings' = sightings \cup {g}
  /\ IF Signal(g) # Null
     THEN LET d == Detect(slotState[g.slot], g)
          IN /\ timeline' = timeline \o Transitions(slotState[g.slot], g)
             /\ slotState' = IF d.next = NoSlotRow THEN slotState ELSE [slotState EXCEPT ![g.slot] = d.next]
     ELSE UNCHANGED <<timeline, slotState>>

UpsertAsset(content, at) ==
  assets' = [c \in DOMAIN assets \cup ({content} \ {Null}) |->
               IF c # content THEN assets[c]
               ELSE [first |-> IF c \in DOMAIN assets THEN assets[c].first ELSE at, last |-> at]]

SightCreative(o) ==
  /\ observing[o] = NoObservation
  /\ observes < MaxObserves
  /\ observes' = observes + 1
  /\ \E in \in MayObserve : observing' = [observing EXCEPT ![o] = [at |-> "fetch", in |-> in]]
  /\ UNCHANGED <<web, fetching, assets, sightings, slotState, timeline, creatives, publications,
                 mediaRestarts>>

Outcome(in) ==
  IF in.url = Null \/ ~fetching THEN Unfetched("URL_ONLY") ELSE Fetch(in.url)

(* The fetch is answered: the asset is upserted in a transaction of its    *)
(* own, then the observation, unless it is known.                          *)
RecordSighting(o) ==
  LET in == observing[o].in
      r == Outcome(in)
      g == Sighting(in, r.status, r.content)
  IN /\ observing[o].at = "fetch"
     /\ UpsertAsset(r.content, in.at)
     /\ IF AlreadySighted(g) # {}
        THEN /\ observing' = [observing EXCEPT ![o] = NoObservation]
             /\ UNCHANGED <<sightings, timeline, slotState>>
        ELSE /\ ApplySighting(g)
             /\ observing' =
                  [observing EXCEPT ![o] = IF r.content = Null THEN NoObservation
                                           ELSE [at |-> "node", sighting |-> g, state |-> slotState'[g.slot]]]
     /\ UNCHANGED <<web, fetching, creatives, observes, publications, mediaRestarts>>

(* The graph link, from what the observation returned. *)
LinkNode(o) ==
  /\ observing[o].at = "node"
  /\ creatives' = [creatives EXCEPT !.nodes = @ \cup {observing[o].sighting.asset}]
  /\ observing' = [observing EXCEPT ![o].at = "edge"]
  /\ UNCHANGED <<web, fetching, assets, sightings, slotState, timeline, observes, publications,
                 mediaRestarts>>

EdgeOf(g, state) ==
  [slot |-> g.slot, last |-> g.at, present |-> state.present, version |-> state.version]

LinkEdge(o) ==
  /\ observing[o].at = "edge"
  /\ LET g == observing[o].sighting
         key == <<g.slot.event, g.asset>>
         edge == EdgeOf(g, observing[o].state)
     IN creatives' = [creatives EXCEPT !.edges = [k \in {key} \cup DOMAIN @ |-> IF k = key THEN edge ELSE @[k]]]
  /\ observing' = [observing EXCEPT ![o] = NoObservation]
  /\ UNCHANGED <<web, fetching, assets, sightings, slotState, timeline, observes, publications,
                 mediaRestarts>>

(* A link that fails is dropped. *)
LinkFails(o) ==
  /\ observing[o].at \in {"node", "edge"}
  /\ observing' = [observing EXCEPT ![o] = NoObservation]
  /\ UNCHANGED <<web, fetching, assets, sightings, slotState, timeline, creatives, observes,
                 publications, mediaRestarts>>

-----------------------------------------------------------------------------
(* The hosts and the process *)

Publish(u) ==
  /\ publications < MaxPublications
  /\ publications' = publications + 1
  /\ \E a \in MayServe[u] \ {web[u]} : web' = [web EXCEPT ![u] = a]
  /\ UNCHANGED <<fetching, assets, sightings, slotState, timeline, creatives, observing, observes,
                 mediaRestarts>>

(* A restart drops the requests, perhaps between an asset and its          *)
(* observation, and may come with the other setting.                       *)
MediaRestart ==
  /\ mediaRestarts < MaxMediaRestarts
  /\ mediaRestarts' = mediaRestarts + 1
  /\ fetching' \in BOOLEAN
  /\ observing' = [o \in Observers |-> NoObservation]
  /\ \/ UNCHANGED assets
     \/ \E o \in Observers :
          /\ observing[o].at = "fetch"
          /\ LET in == observing[o].in IN UpsertAsset(Outcome(in).content, in.at)
  /\ UNCHANGED <<web, sightings, slotState, timeline, creatives, observes, publications>>

MediaNext ==
  \/ \E o \in Observers : SightCreative(o) \/ RecordSighting(o) \/ LinkNode(o) \/ LinkEdge(o) \/ LinkFails(o)
  \/ \E u \in Urls : Publish(u)
  \/ MediaRestart

MediaSpec == MediaInit /\ [][MediaNext]_mediaVars

-----------------------------------------------------------------------------
(* The read side *)

Changes(kind, slots) ==
  Cardinality({i \in 1 .. Len(timeline) : timeline[i].kind = kind /\ timeline[i].slot \in slots})

SlotsSeen(slots) == {s \in slots : slotState[s] # NoSlotRow}

(* _coverage_for, for the rows of one source. *)
Coverage(source) ==
  LET slots == {s \in Slots : s.source = source}
      seen == {g \in sightings : g.slot \in slots}
  IN [inspected |-> Cardinality({g.slot.event : g \in seen}),
      fetched |-> Cardinality({g \in seen : g.status = "FETCHED"}),
      failed |-> Cardinality({g \in seen : g.status \notin {"FETCHED", "ABSENT", "URL_ONLY"}}),
      unique |-> Cardinality({g.asset : g \in seen} \ {Null}),
      versioned |-> Cardinality({s \in SlotsSeen(slots) : slotState[s].version > 1}),
      contentChanges |-> Changes("CONTENT_CHANGED", slots),
      disappearances |-> Changes("DISAPPEARED", slots),
      reappearances |-> Changes("REAPPEARED", slots)]

(* A slot at version v has had v of them. *)
VersionsHad(slots) == UNION {{s} \X (1 .. slotState[s].version) : s \in SlotsSeen(slots)}

(* event_creative_summary *)
CreativeSummary(event) ==
  LET slots == {s \in Slots : s.event = event}
  IN [versions |-> Cardinality(VersionsHad(slots)),
      unique |-> Cardinality({slotState[s].asset : s \in SlotsSeen(slots)} \ {Null}),
      contentChanges |-> Changes("CONTENT_CHANGED", slots),
      states |-> Cardinality(SlotsSeen(slots))]

-----------------------------------------------------------------------------
(* Properties *)

(* A slot shows the newest presence seen of it, however late the others    *)
(* were recorded: none is newer than the slot's time, and what the slot    *)
(* shows as present was seen at that time, at that address, and is no      *)
(* other content than was fetched there (transitions.py).                  *)
SlotIsNewestPresence ==
  \A s \in Slots :
    LET seen == {g \in sightings : g.slot = s /\ Signal(g) = "PRESENT"}
    IN /\ slotState[s] = NoSlotRow <=> seen = {}
       /\ slotState[s] # NoSlotRow =>
            /\ \A g \in seen : g.at <= slotState[s].last
            /\ slotState[s].present =>
                 \E g \in seen : /\ g.at = slotState[s].last /\ g.url = slotState[s].url
                                 /\ g.asset \in {Null, slotState[s].asset}

(* Nothing but a capture that looked and found no image makes a creative   *)
(* disappear: a fetch that failed, now or on a retry, does not.            *)
DisappearanceIsVouched ==
  \A i \in 1 .. Len(timeline) :
    timeline[i].kind = "DISAPPEARED" =>
      \E g \in sightings : /\ <<g.slot, g.at>> = <<timeline[i].slot, timeline[i].at>>
                           /\ g.status = "ABSENT"

(* Content that is known to be the same is never reported as changed, at   *)
(* whatever address, order or mode it was seen; a change of address is of  *)
(* one content at two addresses.                                           *)
ChangeIsOfContent ==
  \A i \in 1 .. Len(timeline) :
    LET t == timeline[i]
    IN /\ t.kind = "CONTENT_CHANGED" => t.from # t.to \/ (t.from = Null /\ t.fromUrl # t.toUrl)
       /\ t.kind = "URL_CHANGED_SAME_CONTENT" => t.from = t.to /\ t.fromUrl # t.toUrl

(* The two read models and the states agree: versions count the changes of *)
(* content, and what disappeared and did not return is absent.             *)
ReadsAgree ==
  /\ \A e \in {s.event : s \in Slots} :
       CreativeSummary(e).versions = CreativeSummary(e).states + CreativeSummary(e).contentChanges
  /\ \A src \in {s.source : s \in Slots} :
       LET c == Coverage(src)
           slots == {s \in Slots : s.source = src}
           absent == {s \in SlotsSeen(slots) : ~slotState[s].present}
       IN /\ c.disappearances = c.reappearances + Cardinality(absent)
          /\ c.versioned <= c.contentChanges
          /\ c.unique <= c.fetched

(* The graph says an event uses a creative only if it was observed so, by  *)
(* the source, in the role and at the time the edge says, and its node and *)
(* its asset are there.                                                    *)
LinkedIsSighted ==
  \A k \in DOMAIN creatives.edges :
    LET e == creatives.edges[k]
    IN /\ k[2] \in creatives.nodes \cap DOMAIN assets
       /\ \E g \in sightings : /\ <<g.slot, g.at, g.asset>> = <<e.slot, e.last, k[2]>>
                               /\ g.status = "FETCHED" /\ g.slot.event = k[1]

(* The timeline of a slot tells of its image only what looks at it showed, *)
(* however they failed, came late or were repeated.                        *)
TransitionsAreVouched == DisappearanceIsVouched /\ ChangeIsOfContent

(* Read models, slot states and the graph agree with the looks they are    *)
(* derived from, and with each other.                                      *)
ReadsFollowLooks == ReadsAgree /\ LinkedIsSighted
=============================================================================
