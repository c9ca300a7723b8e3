----------------------------- MODULE MCServices ------------------------------
(***************************************************************************)
(* Services that share no state, checked side by side: `service` is chosen *)
(* once, and only that one moves.                                          *)
(***************************************************************************)
EXTENDS FieldEnrichment, EventMatching, SocialEvidence, SourceDiscovery, SignalIngest, MediaSlots,
  WatchTargets, ContentMovement, MCQuotaBudget

CONSTANTS v1, v2, v3, n1, n2, pune, goa, listed, gone, Services,
  w1, w2, c1, c2, m1, m2, s1, s2, i1, i2, act, dj, untitled, imprint, r1, r2, r3, mbArtist, mbLabel, o1, o2

VARIABLE service

-----------------------------------------------------------------------------
(* Enrichment *)

NodeOf(date, status, city, venues) ==
  [starts_at |-> date, status |-> status, city |-> city, venues |-> venues, regions |-> {}]

MCNodes ==
  {NodeOf(1, listed, None, {[id |-> v1, name |-> n1]}),
   NodeOf(2, gone, goa, {[id |-> v2, name |-> n2]}),
   NodeOf(1, gone, None, {[id |-> v1, name |-> n2], [id |-> v3, name |-> n2]})}

MCPages ==
  {[s \in {} |-> None],
   [JSON_LD |-> [starts_at |-> 2], VISIBLE_TEXT |-> [city |-> goa]]}

MCCards == {[starts_at |-> 2, venue_name |-> n2]}

-----------------------------------------------------------------------------
(* Matching: two listings of one show, a namesake elsewhere, and one with  *)
(* another act.                                                            *)

ViewOf(title, date, city, venue, performers) ==
  [title |-> title, date |-> date, city |-> city, venue |-> venue,
   organizer |-> None, performers |-> performers]

MCMayRead ==
  [e \in {"l1", "l2", "r1", "r2"} |->
     CASE e = "l1" -> {ViewOf("show", 20, pune, n1, {"act"}), ViewOf("show", 70, pune, n1, {"act"})}
       [] e = "l2" -> {ViewOf("show", 24, pune, n1, {"other"})}
       [] e = "r1" -> {ViewOf("show", 24, pune, n1, {"act"}), ViewOf("show", 24, pune, None, {})}
       [] e = "r2" -> {ViewOf("gig", 50, None, n1, {"act"})}]

MCWords == [w \in {"show", "gig", "act", "other", None} |-> IF w = None THEN {} ELSE {w}]
MCSimilar ==
  [p \in {"show", "gig", None} \X {"show", "gig", None} |-> IF None \in {p[1], p[2]} THEN 0 ELSE 300]
MCPageSays ==
  [e \in {"l1", "l2", "r1", "r2"} |->
     IF e = "l1" THEN [JSON_LD |-> [venue_name |-> n1]] ELSE [s \in {} |-> None]]

-----------------------------------------------------------------------------
(* Social evidence: one account that an artist and a venue share.          *)

FactsOf(name, date, city) ==
  [event_name |-> name, event_date |-> date, city |-> city, venue_name |-> None,
   organizer |-> None, artists |-> {}]

MCAccountOf == [i \in {"artist", "venue"} |-> "account"]
MCMayPost ==
  {[text |-> "announced", hints |-> FactsOf("show", 24, pune)],
   [text |-> "teaser", hints |-> FactsOf("show", None, pune)],
   [text |-> "offer", hints |-> FactsOf("show", 24, None)]}
MCCues ==
  [t \in {"announced", "teaser", "offer"} |->
     CASE t = "announced" -> {"announcement"} [] t = "teaser" -> {"ticketing"} [] OTHER -> {"promotion"}]
MCKnownEvents == [e \in {"e1"} |-> ViewOf("show", 20, pune, n1, {"act"})]

-----------------------------------------------------------------------------
(* Ticketing: a show, a page that says nothing of it, and a placeholder.   *)

Clock(t) == [at |-> t, aware |-> TRUE, dateOnly |-> FALSE]

ItemOf(id, title, city, venue, lineup, start, verified) ==
  [id |-> id, slug |-> id, title |-> title, city |-> city, region |-> None, country |-> None,
   venue |-> venue, lineup |-> lineup, member |-> act, artistId |-> None, price |-> None, free |-> FALSE,
   start |-> start, end |-> None, capacity |-> None, sold |-> None, verified |-> verified,
   lifecycle |-> None, image |-> None, cityId |-> None, organizer |-> None]

MCTraits ==
  [n \in {pune, goa, n1, act, dj, untitled, imprint} |->
     CASE n = dj -> {"live_at"} [] n = untitled -> {"placeholder"} [] OTHER -> {}]
MCVerifiedCities == [c \in {pune} |-> goa]
MCCityIds == [c \in {7} |-> goa]

AShow == ItemOf(r1, act, pune, n1, <<dj, act>>, Clock(20), TRUE)
AShell == ItemOf(r2, act, pune, None, <<>>, None, TRUE)
MCMayList == {AShow, AShell, ItemOf(r3, untitled, goa, None, <<act>>, Clock(900), FALSE)}
MCStock == [s \in Sources |-> [r \in Refs |-> IF r = 2 THEN AShell ELSE AShow]]

-----------------------------------------------------------------------------
(* The mappings of a listing, over small inputs.                           *)

(* A sitemap is read dated pages first, the nearest first, and nothing     *)
(* that is not past is lost.                                               *)
ASSUME NearestAreRead ==
  \A entries \in [1 .. 3 -> [hint : {None, 1, 2, 3}, changed : {1, 2}]] :
    LET ranked == Ranked(entries, 2)
    IN  /\ Range(ranked) = {e \in Range(entries) : e.hint # 1}
        /\ \A i, j \in DOMAIN ranked : i < j /\ ranked[j].hint # None =>
             ranked[i].hint # None /\ ranked[i].hint <= ranked[j].hint

(* Zero is a reading, silence is none, and a ratio needs both numbers.     *)
ASSUME SilenceIsNotZero ==
  \A price \in {None, 0, 5}, capacity \in {None, 0, 10}, sold \in {None, 0, 20} :
    LET state == CommercialState([FromBoshow(AShow) EXCEPT !.price = price, !.capacity = capacity, !.sold = sold])
        reads(f) == state.status[f] = "OBSERVED_VALUE"
    IN  /\ reads("price_min") <=> price # None
        /\ reads("fill_ratio") <=> capacity \notin {None, 0} /\ sold # None
        /\ state.values.fill_ratio \in {None} \cup 0 .. 1000

(* Evidence of a listing is kept under the handles its ingest resolves, a  *)
(* zone is given where the city is specific, and a lineup is told apart.   *)
ASSUME EvidenceIsOfTheIngest ==
  \A item \in MCMayList :
    LET e == FromSkillbox(item)  kept == SourceHandles(e)
    IN  /\ ({kept.event, kept.venue} \cup Range(kept.artists)) \ {None}
             = {w.handle : w \in Range(ToResolve([kind |-> "ticket", event |-> e], None))}
        /\ FieldStatus(e, 0).city.specific <=> Timezone(e) # None
        /\ Cardinality(Range(kept.artists)) = Cardinality(Range(e.artists))

-----------------------------------------------------------------------------
(* Ingest: two listings of one name and one artist, a search for that      *)
(* artist, a channel that could be a label or an artist, an artist page.   *)

TicketOf(e) == [kind |-> "ticket", event |-> e]
RawOf(title, videos, regions) ==
  [title |-> title, videos |-> videos, subscribers |-> None, views |-> None, regions |-> regions,
   series |-> <<1, 2, 3, 4>>, kgmid |-> None]

MCMayAnswer ==
  [s \in {"boshow", "townscript", "search", "channel", "spotify"} |->
     CASE s = "boshow" ->
            {TicketOf(FromBoshow(ItemOf(r1, imprint, pune, IF v THEN n1 ELSE None, <<act>>, None, v))) : v \in BOOLEAN}
       [] s = "townscript" -> {TicketOf(FromTownscript(ItemOf(r1, imprint, pune, None, <<>>, None, TRUE)))}
       [] s = "search" ->
            {[kind |-> "query", handle |-> <<"google", "query", act>>, raw |-> RawOf(act, None, <<pune>>)]}
       [] s = "channel" ->
            {[kind |-> "channel", handle |-> <<"youtube", "channel", r1>>, raw |-> RawOf(imprint, 3000, <<>>)]}
       [] s = "spotify" -> {[kind |-> "spotify", handle |-> <<"artist", "spotify", act>>]}]

MatchOf(name, mbid) == [name |-> name, score |-> 100, mbid |-> mbid]
MCMayKnow ==
  [n \in {act, imprint} |->
     {[artist |-> MatchOf(act, mbArtist), label |-> IF n = act THEN None ELSE MatchOf(imprint, mbLabel)]}]
MCSameName == {<<act, act>>, <<imprint, imprint>>}

-----------------------------------------------------------------------------
(* Creatives: one address redirects to the other, whose image changes or   *)
(* cannot be had.                                                          *)

PosterAt(source) == [event |-> "e", source |-> source, role |-> "POSTER"]
MCSlots == {PosterAt(s) : s \in {"boshow", "district"}}
Look(source, url, at, vouched) ==
  [slot |-> PosterAt(source), url |-> url, at |-> at, authoritative |-> vouched]
MCMayObserve ==
  {Look("boshow", u, 2, u = Null) : u \in {"u1", "u2", Null}}
  \cup {Look("boshow", "u1", 1, FALSE), Look("district", "u2", 1, FALSE),
         Look("boshow", Null, 2, FALSE)}
Image(content) ==
  [kind |-> "body", declared |-> "png", bytes |-> 1, sniffed |-> "png", content |-> content]
MCMayServe ==
  [u \in {"u1", "u2"} |->
     IF u = "u1" THEN {Image("a"), Image("b"), [kind |-> "slow"]} ELSE {[kind |-> "redirect", to |-> "u1"]}]

-----------------------------------------------------------------------------
(* The watchlist: an artist promotion may create, and one the operator     *)
(* picks for another name.  One request at a time while operators override *)
(* and two are made; or one request beside a promotion pass.               *)

MCBearing == [c \in ArtistIds |-> IF c = c1 THEN act ELSE Nil]
MCPicks == {[name |-> act, cid |-> Nil], [name |-> act, cid |-> c2]}
MCFinds == {[source |-> "YOUTUBE_ECOSYSTEM", sid |-> 1, name |-> act, music |-> TRUE, cid |-> Nil]}
MCMayIdentify == {c1} \X {"AMBIGUOUS", "RESOLVED"}

-----------------------------------------------------------------------------
(* Movement: a video of another channel, and two owned ones, steady,       *)
(* falling or fast, of its age or older.                                   *)

MCVideos == {1, 2, 3}
Steady == [h \in Hours |-> h]
Falling == [h \in Hours |-> 9 - h]
Fast == [h \in Hours |-> IF h = 2 THEN NoReading ELSE 8 * h]
MCMayGather ==
  {[v \in MCVideos |-> IF v = 1 THEN a ELSE IF v = 2 THEN b[1] ELSE b[2]] :
     a \in [Hours -> {NoReading, 0, 1, 4}],
     b \in {<<Steady, Steady>>, <<Fast, Steady>>, <<Falling, Falling>>, <<Steady, Falling>>}}
MCMayPublish == {[v \in MCVideos |-> 0 - v], [v \in MCVideos |-> IF v = 3 THEN -9 ELSE 0],
                  [v \in MCVideos |-> IF v = 1 THEN NoReading ELSE 0]}
MCAgeBounds == <<2, 6>>
MCRisingRatio == <<3, 2>>
MCBreakoutRatio == <<3, 1>>
MCBreakoutAcceleration == <<13, 10>>
MCCoolingRatio == <<3, 5>>

-----------------------------------------------------------------------------
Init ==
  /\ service \in Services
  /\ service # "movement" => gathered = <<>> /\ published = <<>>
  /\ EnrichInit
  /\ MatchInit
  /\ SocialInit
  /\ DiscoveryInit
  /\ IngestInit
  /\ MediaInit
  /\ WatchInit
  /\ IF service = "movement" THEN MovementInit ELSE hour = 0
  /\ QuotaInit
  /\ service # "matching" => \A e \in Listings : listing[e] = CHOOSE v \in MayRead[e] : TRUE
  /\ service # "media" => fetching = TRUE
  /\ service \notin {"watchlist", "promotion"} => registered = {}
  /\ service # "social" => \A a \in Accounts : feed[a] = CHOOSE p \in MayPost : TRUE

Next ==
  /\ UNCHANGED service
  /\ service # "enrichment" => UNCHANGED enrichVars
  /\ service # "matching" => UNCHANGED matchVars
  /\ service # "social" => UNCHANGED socialVars
  /\ service # "discovery" => UNCHANGED discoveryVars
  /\ service # "ingest" => UNCHANGED ingestVars
  /\ service # "media" => UNCHANGED mediaVars
  /\ service \notin {"watchlist", "promotion"} => UNCHANGED watchVars
  /\ service # "movement" => UNCHANGED movementVars
  /\ service # "quota" => UNCHANGED quotaVars
  /\ \/ service = "enrichment" /\ EnrichNext
     \/ service = "matching" /\ MatchNext
     \/ service = "social" /\ SocialNext
     \/ service = "discovery" /\ DiscoveryNext
     \/ service = "ingest" /\ IngestNext
     \/ service = "media" /\ MediaNext
     \/ service = "watchlist" /\ WatchNext /\ handling'[w2] = Nil
     \/ service = "promotion" /\ WatchNext /\ requests' < MaxRequests
     \/ service = "movement" /\ MovementNext
     \/ service = "quota" /\ QuotaNext

Spec ==
  Init /\ [][Next]_<<service, enrichVars, matchVars, socialVars, discoveryVars, ingestVars, mediaVars,
               watchVars, movementVars, quotaVars>>
==============================================================================
