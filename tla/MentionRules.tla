---------------------------- MODULE MentionRules ----------------------------
(***************************************************************************)
(* The deterministic part of crawl-service's entity resolution: how one    *)
(* captured event becomes a list of mentions (evidence.py, interpretation  *)
(* .py, compound.py, placeholders.py), how a mention is typed              *)
(* (type_classifier.py) and gated, and which canonical entity it is        *)
(* resolved to given what the registry knows (resolvers.py).               *)
(*                                                                         *)
(* A raw name is a constant; everything the code computes from its         *)
(* characters (normal forms, vocabulary hits, parts of a compound) is a    *)
(* field of Facts[name]; Slug keeps of a name, a normal form or a city its *)
(* Latin letters and digits, so that a name in another script has none.    *)
(* Scores are in hundredths.                                               *)
(***************************************************************************)
EXTENDS Integers, FiniteSets, Sequences

CONSTANTS
  None,
  Names,       \* raw names a source may publish
  Facts,       \* what the normalizers and vocabularies find in each name
  Slug,        \* the slug of a raw name, of a normal form and of a city
  Threshold    \* auto-resolve threshold of each role, in hundredths

Types == {"ARTIST", "VENUE", "ORGANIZER"}
Roles == Types \cup {"EVENT_SERIES"}

Normal(role, n) == Facts[n].normal[role]

(* The parts of a compound are names themselves.  Whether a stage name is  *)
(* too common is asked of its normal form; a tribute or cover act keeps its*)
(* marker there and is never that short (normalize_artist,                 *)
(* is_ambiguous_artist).                                                   *)
ASSUME NamesHaveFacts ==
  \A n \in Names :
    /\ DOMAIN Facts[n].normal = Roles
    /\ Facts[n].parts \in Seq(Names)
    /\ Facts[n].tribute => ~Facts[n].ambiguous
    /\ \A o \in Names : Normal("ARTIST", n) = Normal("ARTIST", o)
                          => (Facts[n].ambiguous <=> Facts[o].ambiguous)

ASSUME NoneIsNothing ==
  None \notin Names \cup {"RESOLVED", "POSSIBLE_MATCH", "REVIEW_REQUIRED", "ROLE_CONFLICT"}

(* A canonical id: its type and the slugs of its non-empty parts. *)
Cid(role, parts) ==
  LET said == SelectSeq(parts, LAMBDA p : p \notin {None, ""})
  IN <<role>> \o [i \in DOMAIN said |-> Slug[said[i]]]

-----------------------------------------------------------------------------
(* Compound names: a delimiter alone proves nothing. *)

KnownParts(n, known) ==
  {i \in DOMAIN Facts[n].parts : Normal("ARTIST", Facts[n].parts[i]) \in known}

NamedParts(n) ==
  {i \in DOMAIN Facts[n].parts : Normal("ARTIST", Facts[n].parts[i]) # ""}

ParseCompound(n, known) ==
  LET parts == Facts[n].parts
      hits  == Cardinality(KnownParts(n, known))
  IN IF Normal("ARTIST", n) \in known \/ Len(parts) < 2 THEN "SINGLE_ENTITY"
     ELSE IF \/ hits = Len(parts)
             \/ hits >= 2 /\ 2 * hits >= Cardinality(NamedParts(n))
             \/ Facts[n].commaList
          THEN "COMPOUND_ENTITY"
     ELSE "AMBIGUOUS_COMPOUND"

(* interpret_mention as extraction calls it: without any known name. *)
Interpret(n) ==
  IF Facts[n].placeholder THEN "PLACEHOLDER"
  ELSE CASE ParseCompound(n, {}) = "COMPOUND_ENTITY"    -> "COMPOUND_SPLIT"
         [] ParseCompound(n, {}) = "AMBIGUOUS_COMPOUND" -> "REVIEW_REQUIRED"
         [] OTHER -> "OK"

-----------------------------------------------------------------------------
(* Extraction.  page: the event as its graph node and out-neighbours show  *)
(* it: [event, source, city, organizer, title, performers, venue, schema]. *)

Mention(page, role, n, state) ==
  [event |-> page.event, source |-> page.source, role |-> role, name |-> n,
   city |-> page.city, organizer |-> page.organizer, state |-> state,
   schema |-> IF role = "EVENT_SERIES" THEN None ELSE page.schema[role]]

ArtistMentions(page) ==
  LET Emit(n, state) ==
        IF Normal("ARTIST", n) = "" THEN {} ELSE {Mention(page, "ARTIST", n, state)}
      Of(n) ==
        CASE Interpret(n) = "PLACEHOLDER" -> {}
          [] Interpret(n) = "COMPOUND_SPLIT" ->
               UNION {Emit(Facts[n].parts[i], "CLEAN_SINGLE") : i \in DOMAIN Facts[n].parts}
          [] Interpret(n) = "REVIEW_REQUIRED" -> Emit(n, "AMBIGUOUS_COMPOUND")
          [] OTHER -> Emit(n, "CLEAN_SINGLE")
  IN UNION {Of(n) : n \in page.performers}

SingleMention(page, role, n) ==
  IF n = None \/ Facts[n].placeholder \/ Normal(role, n) = "" THEN {}
  ELSE {Mention(page, role, n, "NONE")}

(* Only an edition, volume or season marks a title as a series. *)
SeriesMention(page) ==
  IF page.title # None /\ Facts[page.title].edition
       /\ Normal("EVENT_SERIES", page.title) # ""
  THEN {Mention(page, "EVENT_SERIES", page.title, "NONE")}
  ELSE {}

Extract(page) ==
  ArtistMentions(page) \cup SingleMention(page, "VENUE", page.venue)
    \cup SingleMention(page, "ORGANIZER", page.organizer) \cup SeriesMention(page)

\* Mutant: the handle does not name the role.
HandleOf_AnyRole(m) == <<m.source, "ANY", Slug[m.name]>>

(* A source handle names the role and the slug of the raw name; a series   *)
(* handle that of the title without its edition.  Neither names a city or  *)
(* an organizer.                                                           *)
Tag(role, n) == Slug[IF role = "EVENT_SERIES" THEN Normal(role, n) ELSE n]

HandleOf(m) == <<m.source, m.role, Tag(m.role, m.name)>>

-----------------------------------------------------------------------------
(* Typing a mention: the source's role counts 4, structured data 5, another*)
(* canonical type or another role in the same event 7, vocabulary up to 8. *)

AtMost(k, n) == IF n < k THEN n ELSE k

ScoresOf(m, existing, cohort) ==
  LET f == Facts[m.name]
      Base(t) ==
        (IF t = m.role THEN 4 ELSE 0)
        + (IF t = m.schema THEN 5 ELSE 0)
        + (IF t \in existing THEN 7 ELSE 0)
        + (IF t \in cohort \ {m.role} THEN 7 ELSE 0)
        + (IF f.strong[t] = 0 THEN 0 ELSE AtMost(5, f.strong[t] + 2))
        + AtMost(3, f.weak[t])
      Shape(t) ==
        IF f.weak["ORGANIZER"] < 2 THEN 0
        ELSE CASE t = "ORGANIZER" -> 2 [] t = "ARTIST" -> -2 [] OTHER -> 0
      Address(t) ==
        IF ~(m.role = "VENUE" /\ f.digits) THEN 0
        ELSE CASE t = "VENUE" -> 4 [] t = "ARTIST" -> -2 [] OTHER -> 0
  IN [t \in Types |-> Base(t) + Shape(t) + Address(t)]

(* Ties are ranked in the order the classifier lists the types. *)
Rank == [ARTIST |-> 1, VENUE |-> 2, ORGANIZER |-> 3]

ClassifyType(m, existing, cohort) ==
  LET s == ScoresOf(m, existing, cohort)
      Before(t, u) == s[t] > s[u] \/ (s[t] = s[u] /\ Rank[t] < Rank[u])
      top    == CHOOSE t \in Types : \A u \in Types \ {t} : Before(t, u)
      second == CHOOSE t \in Types \ {top} : \A u \in Types \ {t, top} : Before(t, u)
      margin == s[top] - s[second]
  IN IF s[top] <= 0 THEN "UNKNOWN"
     ELSE IF top # m.role /\ margin >= 3 THEN "ROLE_CONFLICT"
     ELSE IF top # m.role \/ margin < 2 THEN "AMBIGUOUS_TYPE"
     ELSE "CLEAR_TYPE"

-----------------------------------------------------------------------------
(* What a pass knows: known = [handles: handle -> canonical id,            *)
(* names: {<<normal, cid>>}, venues: {<<normal, cid, city>>}]; cross: the  *)
(* {<<slug, type>>} that exist resolved; cohort: {<<slug, role>>} of the   *)
(* event itself.                                                           *)

\* Mutant: only the classifier's verdict gates a mention.
Gate_NoCrossType(m, cross, known, cohort) ==
  IF m.state = "AMBIGUOUS_COMPOUND" \/ ClassifyType(m, {}, {}) = "AMBIGUOUS_TYPE"
  THEN "REVIEW_REQUIRED" ELSE None

(* The evidence of a mention is the one just extracted, which carries no   *)
(* operator confirmation: the gate's exemption for a confirmed multi-role  *)
(* identity and the classifier's score for it never apply.                 *)
Gate(m, cross, known, cohort) ==
  LET slug   == Slug[m.name]
      others == {t \in Roles : <<slug, t>> \in cross} \ {m.role}
      class  == ClassifyType(m, others, {t \in Roles : <<slug, t>> \in cohort})
      settled == \/ \E c \in known.names : c[1] = Normal(m.role, m.name)
                 \/ HandleOf(m) \in DOMAIN known.handles
  IN CASE m.state = "AMBIGUOUS_COMPOUND" \/ class = "AMBIGUOUS_TYPE" -> "REVIEW_REQUIRED"
       [] /\ m.state # "AMBIGUOUS_COMPOUND"
          /\ \/ class = "ROLE_CONFLICT"
             \/ class # "AMBIGUOUS_TYPE" /\ ~settled /\ others # {} -> "ROLE_CONFLICT"
       [] OTHER -> None

Result(status, cid, score) == [status |-> status, cid |-> cid, score |-> score]

ResolveArtist(m, known) ==
  LET name == Normal("ARTIST", m.name)
      cid  == Cid("ARTIST", <<name>>)
  IN {IF Facts[m.name].tribute THEN Result("RESOLVED", cid, 80)
      ELSE IF Facts[m.name].ambiguous THEN Result("AMBIGUOUS", None, 40)
      ELSE Result("RESOLVED", cid, IF <<name, cid>> \in known.names THEN 90 ELSE 85)}

(* Rows of one venue name come in no particular order: any of the matches  *)
(* may be the first.                                                       *)
ResolveVenue(m, known) ==
  LET name     == Normal("VENUE", m.name)
      generic  == "VENUE" \in Facts[m.name].generic
      existing == {v \in known.venues : v[1] = name}
      sameCity == {v \in existing : v[3] # None /\ Slug[v[3]] = Slug[m.city]}
      new      == Cid("VENUE", <<name, m.city>>)
  IN IF m.city = None
     THEN IF generic THEN {Result("AMBIGUOUS", None, 30)}
          ELSE IF existing = {} THEN {Result("UNRESOLVED", None, 20)}
          ELSE {Result("POSSIBLE_MATCH", v[2], 45) : v \in existing}
     ELSE IF sameCity # {}
     THEN {Result(IF generic THEN "POSSIBLE_MATCH" ELSE "RESOLVED", v[2],
                  IF generic THEN 70 ELSE 92) : v \in sameCity}
     ELSE {IF generic THEN Result("POSSIBLE_MATCH", new, 50) ELSE Result("RESOLVED", new, 85)}

ResolveOrganizer(m, known) ==
  LET name == Normal("ORGANIZER", m.name)
      cid  == Cid("ORGANIZER", <<name>>)
  IN {IF "ORGANIZER" \in Facts[m.name].generic THEN Result("AMBIGUOUS", None, 30)
      ELSE Result("RESOLVED", cid, IF <<name, cid>> \in known.names THEN 85 ELSE 75)}

ResolveSeries(m, known) ==
  LET name    == Normal("EVENT_SERIES", m.name)
      generic == "EVENT_SERIES" \in Facts[m.name].generic
      cid     == Cid("EVENT_SERIES", <<name, m.organizer>>)
  IN {IF generic /\ m.organizer = None THEN Result("AMBIGUOUS", None, 30)
      ELSE IF generic THEN Result("POSSIBLE_MATCH", cid, 70)
      ELSE Result("RESOLVED", cid, IF <<name, cid>> \in known.names THEN 80 ELSE 75)}

(* A source handle already registered settles the matter. *)
Resolve(m, known) ==
  IF HandleOf(m) \in DOMAIN known.handles
  THEN {Result("RESOLVED", known.handles[HandleOf(m)],
               IF m.role = "EVENT_SERIES" THEN 90 ELSE 99)}
  ELSE CASE m.role = "ARTIST"       -> ResolveArtist(m, known)
         [] m.role = "VENUE"        -> ResolveVenue(m, known)
         [] m.role = "ORGANIZER"    -> ResolveOrganizer(m, known)
         [] m.role = "EVENT_SERIES" -> ResolveSeries(m, known)

ApplyThreshold(m, res) ==
  IF res.status = "RESOLVED" /\ res.score < Threshold[m.role]
  THEN [res EXCEPT !.status = "POSSIBLE_MATCH"] ELSE res

(* What a pass decides on a mention: the gate's verdict or the resolver's. *)
Decisions(m, cross, known, cohort) ==
  LET gate == Gate(m, cross, known, cohort)
  IN IF gate # None THEN {Result(gate, None, 0)}
     ELSE {ApplyThreshold(m, r) : r \in Resolve(m, known)}
=============================================================================
