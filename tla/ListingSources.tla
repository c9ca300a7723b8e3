---------------------------- MODULE ListingSources ----------------------------
(***************************************************************************)
(* The ticketing sources of signal-service (adapters/ticketing.py,         *)
(* contract.py, quality.py): what an answer of a platform becomes, and     *)
(* what is made of a listing.  Pure operators.                             *)
(*                                                                         *)
(* An item is what a platform says of one show, None where it says nothing *)
(* or nothing that parses.  Names are atoms; `Traits` gives what patterns  *)
(* and word lists find in them.  A time is [at, aware, dateOnly].          *)
(***************************************************************************)
EXTENDS MatchRules

CONSTANTS
  Traits,         \* name -> subset of {"live_at", "placeholder", "spam", "generic", "multi_city", "numeric"}
  VerifiedCities, \* city -> its region
  CityIds,        \* a Skillbox city id -> its region
  YearLength      \* in the units of times

(* What is no failure is none of the exceptions. *)
ASSUME NoneIsNoFailure == None \notin {"EventNotFound", "ValueError", "RuntimeError"}

-----------------------------------------------------------------------------
(* From an item to a TicketingEvent.                                       *)

Or(a, b) == IF a # None THEN a ELSE b
Has(name, trait) == name # None /\ trait \in Traits[name]

Listing(source, i) ==
  [source |-> source, id |-> Or(i.id, i.slug), slug |-> i.slug, name |-> i.title,
   city |-> i.city, region |-> i.region, country |-> "India", venue |-> i.venue,
   artists |-> <<>>, artistId |-> None, curator |-> i.organizer,
   price |-> i.price, free |-> i.price = 0, start |-> i.start, end |-> None, date |-> None,
   precision |-> "UNKNOWN", zone |-> None, lifecycle |-> None,
   capacity |-> None, sold |-> None, verified |-> TRUE, image |-> i.image, cityId |-> None]

(* split_lineup: generic prefixes are dropped, a name is kept once.        *)
Lineup(names, member) ==
  LET kept == SelectSeq(names, LAMBDA n : ~Has(n, "live_at"))
  IN  IF kept = <<>> /\ member # None THEN <<member>>
      ELSE FoldLeft(LAMBDA sofar, n : IF n \in Range(sofar) THEN sofar ELSE Append(sofar, n), <<>>, kept)

FromBoshow(i) ==
  [Listing("boshow", i) EXCEPT
     !.artists = Lineup(i.lineup, i.member), !.artistId = i.artistId, !.free = i.free,
     !.capacity = i.capacity, !.sold = i.sold, !.verified = i.verified]

(* A date without a time stays a date; a clock without a zone is kept, and *)
(* its precision is unknown.                                               *)
FromJsonLd(source, country, i) ==
  LET dated == i.start # None /\ i.start.dateOnly
      aware == i.start # None /\ ~i.start.dateOnly /\ i.start.aware
      until == IF i.end # None /\ i.end.aware THEN i.end ELSE None
  IN  [Listing(source, i) EXCEPT
         !.id = i.slug, !.country = Or(i.country, country), !.artists = i.lineup,
         !.start = IF dated THEN None ELSE i.start, !.date = IF dated THEN i.start ELSE None,
         !.end = until, !.lifecycle = i.lifecycle,
         !.zone = IF Or(i.country, country) = "India" THEN "Asia/Kolkata" ELSE None,
         !.precision = CASE dated -> "DATE_ONLY"
                         [] aware /\ until # None -> "START_END_DATETIME"
                         [] aware /\ until = None -> "START_DATETIME_ONLY"
                         [] OTHER -> "UNKNOWN"]

FromSkillbox(i) ==
  [Listing("skillbox", i) EXCEPT
     !.region = i.city, !.curator = None, !.verified = i.verified, !.cityId = i.cityId]

(* The summary has no price, only a flag; spam and drafts are unverified.  *)
FromTownscript(i) ==
  [Listing("townscript", i) EXCEPT
     !.country = i.country, !.price = None, !.free = i.free, !.verified = i.verified]

(* A page without structure: the title names the college, taken as venue.  *)
FromKnowafest(i) ==
  [Listing("knowafest", i) EXCEPT !.id = i.slug, !.curator = i.venue, !.verified = i.title # None]

Mapped(source, i) ==
  CASE source \in {"boshow", "mock"} -> FromBoshow(i)
    [] source = "district" -> FromJsonLd("district", "India", i)
    [] source = "skillbox" -> FromSkillbox(i)
    [] source = "townscript" -> FromTownscript(i)
    [] source = "knowafest" -> FromKnowafest(i)
    [] source \in {"allevents", "luma", "meetup"} -> FromJsonLd(source, None, i)

-----------------------------------------------------------------------------
(* Extraction.  An answer is [status, item]: the item None when it is a    *)
(* 2xx without a record, or "timeout" when there is none.  Outcomes are    *)
(* the exceptions, or the event.                                           *)

Failed(why) == [failure |-> why]
Present(event) == [failure |-> None, event |-> event]
Ok(answer) == answer.status = "200"

(* What a source raises for a 2xx without a record.                        *)
Missing(source) ==
  CASE source \in {"boshow", "district", "skillbox", "mock"} -> "EventNotFound"
    [] source \in {"townscript", "allevents", "luma", "meetup"} -> "ValueError"

(* Two searches of Boshow, one request elsewhere.  Both are made before    *)
(* either is looked at: a failure of one is a failure.                     *)
Searches(source) == IF source = "boshow" THEN 1 .. 2 ELSE 1 .. 1

Failing_IfNothingFound(answers) ==
  {k \in DOMAIN answers : ~Ok(answers[k]) /\ \A j \in DOMAIN answers : ~Ok(answers[j])}
Failing(answers) == {k \in DOMAIN answers : ~Ok(answers[k])}

(* Any page is a fest page: what is missing is left out.                   *)
AnyPage ==
  [id |-> None, slug |-> "page", title |-> None, city |-> None, region |-> None, venue |-> None,
   organizer |-> None, price |-> None, start |-> None, image |-> None]

Extract(source, answers) ==
  LET failing == Failing(answers)
      found   == {k \in DOMAIN answers : answers[k].item # None}
  IN  IF source = "bookmyshow" THEN Failed("RuntimeError")
      ELSE IF failing # {} THEN Failed(answers[Min(failing)].status)
      ELSE IF found = {} /\ source # "knowafest" THEN Failed(Missing(source))
      ELSE Present(Mapped(source, IF found = {} THEN AnyPage ELSE answers[Min(found)].item))

(* What the ingest route answers, and what a discovery report calls it:    *)
(* the two do not agree on a 404 of the platform.                          *)
RouteStatus(outcome) ==
  CASE outcome.failure = None -> "200" [] outcome.failure = "EventNotFound" -> "404" [] OTHER -> "502"

ClassifyFailure(why) ==
  CASE why \in {"EventNotFound", "404"} -> "SUCCESS_RECORD_ABSENT"
    [] why = "429" -> "RATE_LIMITED"
    [] why \in {"401", "403"} -> "BLOCKED"
    [] why = "ValueError" -> "MALFORMED_RESPONSE"
    [] why = "RuntimeError" -> "TERMINAL_RECORD_ERROR"
    [] OTHER -> "SOURCE_UNAVAILABLE"

(* _district_ranked_slugs over sitemap entries [slug, hint, changed]: past *)
(* hints are left out, dated entries come first.                           *)
Ranked(entries, today) ==
  LET live(e) == e.hint = None \/ e.hint >= today
      before(a, b) == IF (a.hint = None) # (b.hint = None) THEN b.hint = None
                      ELSE IF a.hint # None THEN a.hint < b.hint ELSE a.changed > b.changed
  IN  SortSeq(SelectSeq(entries, live), before)

-----------------------------------------------------------------------------
(* What is made of an event.                                               *)

FillRatio(e) ==
  IF e.capacity \in {None, 0} \/ e.sold = None THEN None
  ELSE Least(Rounded(1000 * e.sold, e.capacity), 1000)

EventHandle(e) == <<e.source, "show", e.id>>
VenueHandle(e) == <<e.source, "venue", e.venue>>

(* The platform's id of the artist goes to whoever is named first.         *)
ArtistHandle(e, k) ==
  <<e.source, "artist", IF k = 1 /\ e.artistId # None THEN e.artistId ELSE e.artists[k]>>

Known(f) == Restrict(f, {x \in DOMAIN f : f[x] # None})

(* normalize_event, without the constant parts: attribute -> value.        *)
Observations(e) ==
  [event_name |-> e.name, in_region |-> e.region, occurs_at_venue |-> VenueHandle(e),
   lineup |-> e.artists, source_time_precision |-> e.precision, source_event_id |-> e.id]
  @@ Known([starts_at |-> e.start, ends_at |-> e.end, event_date |-> e.date,
            provider_lifecycle |-> e.lifecycle, price_min |-> e.price, image_url |-> e.image,
            fill_ratio |-> IF e.capacity = None THEN None ELSE FillRatio(e)])

(* commercial_state: a field without a value was not observed; every       *)
(* capture calls itself complete.                                          *)
CommercialState(e) ==
  LET values == [price_min |-> e.price, capacity |-> e.capacity, tickets_sold |-> e.sold,
                 fill_ratio |-> FillRatio(e), starts_at |-> e.start, ends_at |-> e.end,
                 event_date |-> e.date, provider_lifecycle |-> e.lifecycle,
                 source_time_precision |-> e.precision, venue |-> e.venue]
  IN  [values |-> values,
       status |-> [f \in DOMAIN values |-> IF values[f] # None THEN "OBSERVED_VALUE" ELSE "NOT_OBSERVED"]
                  @@ [availability |-> "NOT_SUPPORTED", status |-> "NOT_SUPPORTED"]]

(* extract_source_handles: the evidence entity resolution takes later.     *)
SourceHandles(e) ==
  [event |-> EventHandle(e), venue |-> IF e.venue = None THEN None ELSE VenueHandle(e),
   organizer |-> IF e.curator = None THEN None ELSE <<e.source, "organizer", e.curator>>,
   artists |-> [k \in DOMAIN e.artists |-> ArtistHandle(e, k)]]

-----------------------------------------------------------------------------
(* quality.py: the gate before a record is enrolled.                       *)

GeographyStatus(e) ==
  CASE Has(e.city, "multi_city") -> "MULTIPLE_CITIES_PLACEHOLDER"
    [] ~Has(e.city, "multi_city") /\ Has(e.city, "numeric") -> "NUMERIC_ID"
    [] e.city = None \/ (~Has(e.city, "multi_city") /\ Has(e.city, "generic")) -> "GENERIC"
    [] OTHER -> IF e.city \in DOMAIN VerifiedCities THEN "VERIFIED"
                ELSE IF e.cityId \in DOMAIN CityIds THEN "VERIFIED_BY_ID" ELSE "NAMED_UNVERIFIED"

(* A zone comes from a verified city, never from a guess.                  *)
Timezone(e) ==
  IF GeographyStatus(e) \in {"VERIFIED", "VERIFIED_BY_ID"} THEN "Asia/Kolkata" ELSE None

Year(t) == t.at \div YearLength
FarFuture(t, now) == Year(t) - now \div YearLength >= 3
LongPast(t, now) == Year(t) < now \div YearLength - 1

(* Nothing like an event: no time, no place, no price, nobody.             *)
Empty(e) == e.start = None /\ e.venue = None /\ e.price = None /\ e.artists = <<>>
Hollow_Unverified(e) == Empty(e) /\ ~e.verified
Hollow(e) == Empty(e)

Rejections(e, now) ==
  LET where == GeographyStatus(e)
  IN  {r \in {"MISSING_IDENTITY"} : e.id = None /\ e.slug = None}
      \cup {r \in {"PLACEHOLDER_EVENT"} : e.name = None \/ Has(e.name, "placeholder")}
      \cup {r \in {"SEO_OR_SPAM_PAGE"} : Has(e.name, "spam")}
      \cup {r \in {"MULTIPLE_CITIES_PLACEHOLDER"} : where = r}
      \cup {r \in {"NUMERIC_LOCATION_WITHOUT_MAPPING"} : where = "NUMERIC_ID"}
      \cup {r \in {"GENERIC_LOCATION"} : where = "GENERIC" /\ e.venue = None}
      \cup {r \in {"PLACEHOLDER_DATE"} : e.start # None /\ FarFuture(e.start, now)}
      \cup {r \in {"INVALID_DATE"} : e.start # None /\ LongPast(e.start, now)}
      \cup {r \in {"DELETED_EVENT_SHELL"} : ~e.verified /\ Hollow(e)}
      \cup {r \in {"CONTENT_NOT_EVENT"} : Hollow(e) /\ ~(e.id = None /\ e.slug = None)}

(* How much of a record is there, means something, and is specific.        *)
FieldStatus(e, now) ==
  LET mark(present, valid, specific) == [present |-> present, valid |-> valid, specific |-> specific]
      vague == Has(e.venue, "generic") \/ Has(e.venue, "multi_city")
      city  == GeographyStatus(e)
      sure  == city \in {"VERIFIED", "VERIFIED_BY_ID"}
      sound == e.start # None /\ ~FarFuture(e.start, now) /\ ~LongPast(e.start, now)
  IN  [title |-> mark(e.name # None, e.name # None /\ ~Has(e.name, "placeholder"), e.name # None),
       venue |-> mark(e.venue # None, e.venue # None /\ ~vague,
                      e.venue # None /\ ~vague /\ e.venue # e.city),
       city  |-> mark(e.city # None, sure \/ city = "NAMED_UNVERIFIED", sure),
       date  |-> mark(e.start # None, sound, e.start # None /\ e.start.aware)]
=============================================================================
