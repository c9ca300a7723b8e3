---------------------------- MODULE SocialEvidence ----------------------------
(***************************************************************************)
(* Social evidence in crawl-service: the watched accounts and what is      *)
(* collected from them (social.py, over signal-service's                   *)
(* adapters/social.py), and its interpretation (social_interpretation/).   *)
(*                                                                         *)
(* Runs of both kinds are requests in one process: a run selects its work, *)
(* awaits, and writes what it then has; others run in between, and a       *)
(* process may stop between two transactions.  A post is a text and the    *)
(* facts the provider gives with it; nothing else of it is kept.           *)
(***************************************************************************)
EXTENDS MatchRules

CONSTANTS
  AccountOf,      \* identity -> the account it watches: two entities may share one
  MayPost,        \* what the (one) post of an account may say: [text, hints]
  Cues,           \* text -> the signals its keywords fire
  KnownEvents,    \* event -> the view reconciliation gives of it
  MaxIdentities,  \* social_max_identities_per_run
  MaxMentions,    \* social_interpretation_max_per_run
  SocialRuns,     \* requests that may be under way
  MaxSocialRuns, MaxEdits   \* bounds

VARIABLES
  feed,         \* account -> its post as it is now, or None
  identity,     \* social_identity
  mention,      \* social_mention: account -> the versions of its post, the current one last
  reading,      \* social_interpretation: <<account, version>> -> its rows, the current one last
  projected,    \* the rows of event_match_candidate: <<account, version, event>> -> status
  social,       \* what each run is doing
  socialRuns, edits   \* bounds

socialVars == <<feed, identity, mention, reading, projected, social, socialRuns, edits>>

Accounts == Range(AccountOf)
Unoccupied == [at |-> "idle"]

-----------------------------------------------------------------------------
(* Extraction (signal-service, _extract_claims): the cues of the text and  *)
(* the hints.  The hash is of the text alone.                              *)

Claims(post) ==
  [f \in {"signals"} \cup DOMAIN post.hints |->
     IF f = "signals" THEN Cues[post.text] ELSE post.hints[f]]
ContentHash(post) == post.text

(* Classification (classifier.py): promotion refers to no event.           *)
EventReferring == {"announcement", "ticketing", "sold_out", "cancellation", "postponement",
                   "reschedule", "venue_change", "lineup_change", "additional_show"}

ResolvableIdentity(c) ==
  \/ c.event_name # None
  \/ c.event_date # None /\ (c.venue_name # None \/ c.artists # {} \/ c.city # None)

EventBearing(c) == ResolvableIdentity(c) /\ c.signals \cap EventReferring # {}

(* Projection (projection.py): the strongest of the events in the block.   *)
SocialView(c) ==
  [title |-> c.event_name, date |-> c.event_date, city |-> c.city, venue |-> c.venue_name,
   organizer |-> c.organizer, performers |-> c.artists]

Rank == [MATCHED |-> 3, CONFLICT |-> 2, POSSIBLE_MATCH |-> 1, NOT_MATCHED |-> 0]

Compared(view, existing) ==
  {[event |-> e, match |-> Status(view, KnownEvents[e]),
    score |-> Score(Components(view, KnownEvents[e]))] :
       e \in {x \in existing : InBlock(view, KnownEvents[x])}}

Strongest(found) ==
  CHOOSE m \in found : \A x \in found :
    \/ Rank[x.match] < Rank[m.match]
    \/ Rank[x.match] = Rank[m.match] /\ x.score <= m.score

(* With nothing in the block it stands as the hypothesis of a new event.   *)
Unmatched == [event |-> None, match |-> None, score |-> 0]

(* A view that can be compared with every event: likenesses are thousandths. *)
IsReadable(v) ==
  /\ IsView(v)
  /\ \A e \in DOMAIN KnownEvents : \A d \in {"title", "venue"} :
       d = "title" \/ Both(v[d], KnownEvents[e][d]) => Likeness(v[d], KnownEvents[e][d]) \in 0 .. 1000

ASSUME PostsAreReadable ==
  /\ IsFiniteSet(DOMAIN KnownEvents)
  /\ \A e \in DOMAIN KnownEvents : IsView(KnownEvents[e])
  /\ \A p \in MayPost : IsReadable(SocialView(Claims(p)))

-----------------------------------------------------------------------------
SocialInit ==
  /\ feed \in [Accounts -> MayPost]
  /\ identity = [i \in {} |-> None]
  /\ mention = [a \in Accounts |-> <<>>]
  /\ reading = [v \in {} |-> <<>>]
  /\ projected = [p \in {} |-> None]
  /\ social = [r \in SocialRuns |-> Unoccupied]
  /\ socialRuns = 0
  /\ edits = 0

(* The account edits its post or takes it down. *)
Edit(a) ==
  /\ edits < MaxEdits
  /\ edits' = edits + 1
  /\ \E p \in (MayPost \cup {None}) \ {feed[a]} : feed' = [feed EXCEPT ![a] = p]
  /\ UNCHANGED <<identity, mention, reading, projected, social, socialRuns>>

(* link_identity creates an identity or is activation; that lets a         *)
(* disabled one be collected again, at its old time.                       *)
LinkIdentity(i) ==
  /\ i \notin DOMAIN identity
  /\ identity' = [j \in {i} \cup DOMAIN identity |->
       IF j = i THEN [active |-> TRUE, state |-> "ELIGIBLE", due |-> "new"] ELSE identity[j]]
  /\ UNCHANGED <<feed, mention, reading, projected, social, socialRuns, edits>>

SetActive(i, active) ==
  /\ edits < MaxEdits
  /\ edits' = edits + 1
  /\ identity' = [identity EXCEPT ![i] =
       [@ EXCEPT !.active = active,
                 !.state = CASE ~active -> "DISABLED"
                             [] active /\ @ = "DISABLED" -> "ELIGIBLE"
                             [] OTHER -> @]]
  /\ UNCHANGED <<feed, mention, reading, projected, social, socialRuns>>

(* Time passes: next_eligible_at is reached. *)
FallsDue(i) ==
  /\ identity[i].due = "later"
  /\ identity' = [identity EXCEPT ![i].due = "due"]
  /\ UNCHANGED <<feed, mention, reading, projected, social, socialRuns, edits>>

-----------------------------------------------------------------------------
(* A collection run.  Identities never collected come first.               *)

Eligible ==
  {i \in DOMAIN identity :
     identity[i].active /\ identity[i].state # "DISABLED" /\ identity[i].due # "later"}

WorkLists ==
  {W \in SUBSET Eligible :
     /\ Cardinality(W) = Least(MaxIdentities, Cardinality(Eligible))
     /\ \A i \in W, j \in Eligible \ W : identity[j].due = "new" => identity[i].due = "new"}

StartCollecting(r) ==
  /\ social[r] = Unoccupied
  /\ socialRuns < MaxSocialRuns
  /\ socialRuns' = socialRuns + 1
  /\ Eligible # {}
  /\ \E W \in WorkLists : social' = [social EXCEPT ![r] = [at |-> "collect", work |-> W]]
  /\ UNCHANGED <<feed, identity, mention, reading, projected, edits>>

GoesOn(r, i) ==
  LET rest == social[r].work \ {i}
  IN  IF rest = {} THEN Unoccupied ELSE [at |-> "collect", work |-> rest]

(* _record_success, _record_deferral, _record_failure: failures that are   *)
(* counted only lengthen the time to the next attempt.                     *)
Recorded(i, state) == [identity EXCEPT ![i].state = state, ![i].due = "later"]

CollectFails(r) ==
  /\ social[r].at = "collect"
  /\ \E i \in social[r].work :
       /\ identity' = Recorded(i, "DEFERRED")
       /\ social' = [social EXCEPT ![r] = GoesOn(r, i)]
  /\ UNCHANGED <<feed, mention, reading, projected, socialRuns, edits>>

(* Access that is not granted is no failure. *)
Deferred(r) ==
  /\ social[r].at = "collect"
  /\ \E i \in social[r].work :
       /\ identity' = Recorded(i, "ACCESS_PENDING")
       /\ social' = [social EXCEPT ![r] = GoesOn(r, i)]
  /\ UNCHANGED <<feed, mention, reading, projected, socialRuns, edits>>

(* The answer is made; it arrives later. *)
Collect(r) ==
  /\ social[r].at = "collect"
  /\ \E i \in social[r].work :
       social' = [social EXCEPT ![r] =
         [at |-> "ingest", work |-> @.work, identity |-> i, post |-> feed[AccountOf[i]]]]
  /\ UNCHANGED <<feed, identity, mention, reading, projected, socialRuns, edits>>

(* _same_state: compared with the current version. *)
SameState_AsFirstSeen(versions, post) ==
  versions # <<>> /\ ContentHash(post) = versions[1].hash
SameState(versions, post) ==
  versions # <<>> /\ ContentHash(post) = Last(versions).hash

Evidence(i, post) ==
  [hash |-> ContentHash(post), claims |-> Claims(post), by |-> i, status |-> "UNPROCESSED"]

(* Evidence and identity are written in two transactions: a process that   *)
(* stops in between leaves the identity as it was.                         *)
Ingest(r) ==
  /\ social[r].at = "ingest"
  /\ LET i == social[r].identity
         a == AccountOf[i]
         post == social[r].post
     IN  /\ mention' = IF post = None \/ SameState(mention[a], post) THEN mention
                       ELSE [mention EXCEPT ![a] = Append(@, Evidence(i, post))]
         /\ \/ /\ identity' = Recorded(i, "ELIGIBLE")
               /\ social' = [social EXCEPT ![r] = GoesOn(r, i)]
            \/ /\ social' = [social EXCEPT ![r] = Unoccupied]
               /\ UNCHANGED identity
  /\ UNCHANGED <<feed, reading, projected, socialRuns, edits>>

-----------------------------------------------------------------------------
(* An interpretation run.  If the events cannot be read there are none.    *)

Unprocessed ==
  {<<a, Len(mention[a])>> : a \in {b \in Accounts :
     mention[b] # <<>> /\ Last(mention[b]).status = "UNPROCESSED"}}

StartInterpreting(r) ==
  /\ social[r] = Unoccupied
  /\ socialRuns < MaxSocialRuns
  /\ socialRuns' = socialRuns + 1
  /\ Unprocessed # {}
  /\ \E W \in SUBSET Unprocessed :
       /\ Cardinality(W) = Least(MaxMentions, Cardinality(Unprocessed))
       /\ social' = [social EXCEPT ![r] = [at |-> "interpret", work |-> W]]
  /\ UNCHANGED <<feed, identity, mention, reading, projected, edits>>

(* _interpret_one of the version that was selected, current or not. *)
EvidenceOf_Latest(v) == Last(mention[v[1]]).claims
EvidenceOf(v) == mention[v[1]][v[2]].claims

Interpreted(v, existing) ==
  LET c     == EvidenceOf(v)
      found == IF EventBearing(c) THEN Compared(SocialView(c), existing) ELSE {}
      names == IF found = {} THEN Unmatched ELSE Strongest(found)
  IN  [bearing |-> EventBearing(c), event |-> names.event, match |-> names.match, score |-> names.score]

(* What one version of the classifier has read is not read again. *)
ToRead(S) == S \ DOMAIN reading

Marked(done, failed, new) ==
  [a \in Accounts |-> [n \in DOMAIN mention[a] |->
     IF <<a, n>> \in failed THEN [mention[a][n] EXCEPT !.status = "INTERPRETATION_ERROR"]
     ELSE IF <<a, n>> \in done /\ (<<a, n>> \in new \/ mention[a][n].status = "UNPROCESSED")
     THEN [mention[a][n] EXCEPT !.status = "INTERPRETED"]
     ELSE mention[a][n]]]

(* The rest of the run gives nobody else a turn: each mention in its own   *)
(* transaction, some of which may fail, until the process stops.           *)
Interpret(r) ==
  /\ social[r].at = "interpret"
  /\ \E existing \in {{}, DOMAIN KnownEvents}, done \in SUBSET social[r].work :
     \E failed \in SUBSET done :
       LET new == ToRead(done \ failed)
           earlier(v) == IF v \in DOMAIN reading THEN reading[v] ELSE <<>>
           named == {v \in new : Last(reading'[v]).event # None}
           rows  == {<<v[1], v[2], Last(reading'[v]).event>> : v \in named}
       IN  /\ reading' = [v \in new \cup DOMAIN reading |->
                IF v \in new THEN Append(earlier(v), Interpreted(v, existing)) ELSE reading[v]]
           /\ projected' = [p \in rows \cup DOMAIN projected |->
                IF p \in rows THEN Last(reading'[<<p[1], p[2]>>]).match ELSE projected[p]]
           /\ mention' = Marked(done, failed, new)
  /\ social' = [social EXCEPT ![r] = Unoccupied]
  /\ UNCHANGED <<feed, identity, socialRuns, edits>>

SocialNext ==
  \/ \E r \in SocialRuns :
       StartCollecting(r) \/ CollectFails(r) \/ Deferred(r) \/ Collect(r) \/ Ingest(r)
       \/ StartInterpreting(r) \/ Interpret(r)
  \/ \E a \in Accounts : Edit(a)
  \/ \E i \in DOMAIN AccountOf : LinkIdentity(i)
  \/ \E i \in DOMAIN identity : FallsDue(i) \/ \E active \in BOOLEAN : SetActive(i, active)

SocialSpec == SocialInit /\ [][SocialNext]_socialVars

-----------------------------------------------------------------------------
(* A version is kept only for a change: two versions in a row never carry  *)
(* the same text, whatever runs overlap and whichever entity the account   *)
(* was collected for (models.py, SocialMention).  A text that comes back   *)
(* is a version again.                                                     *)
VersionsDiffer ==
  \A a \in Accounts : \A n \in 1 .. Len(mention[a]) - 1 :
    mention[a][n].hash # mention[a][n + 1].hash

(* An interpretation is of exactly the evidence version it names, also     *)
(* when the post changed while the run waited: it is event-bearing only    *)
(* if that version names an event and says something of one, and only then *)
(* are there match rows (promotion and teasers have none).                 *)
ReadingIsOfItsEvidence ==
  /\ \A v \in DOMAIN reading :
       Last(reading[v]).bearing <=> EventBearing(mention[v[1]][v[2]].claims)
  /\ \A p \in DOMAIN projected : EventBearing(mention[p[1]][p[2]].claims)

(* Sparse evidence never matches by itself: what is matched gives a date,  *)
(* near the event's, and the two agree in at least one thing more, by      *)
(* likeness where texts are compared (projection.py).                      *)
SparseNeverMatches ==
  \A p \in DOMAIN projected :
    LET v == SocialView(mention[p[1]][p[2]].claims)  e == KnownEvents[p[3]]
    IN  projected[p] = "MATCHED" =>
          /\ Both(v.date, e.date) /\ Apart(v, e) <= Tolerance
          /\ \/ Likeness(v.title, e.title) >= 800
             \/ Both(v.venue, e.venue) /\ Likeness(v.venue, e.venue) >= 800
             \/ \E d \in {"city", "organizer"} : Both(v[d], e[d]) /\ v[d] = e[d]
             \/ Performers(v) \cap Performers(e) # {}

(* The match rows of an evidence version say what its interpretation says: *)
(* a version is matched with one event, the one its current interpretation *)
(* names (service.py: interpretations are idempotent per classifier).      *)
RowsFollowReading ==
  \A p \in DOMAIN projected :
    LET v == <<p[1], p[2]>>
    IN  /\ v \in DOMAIN reading
        /\ Last(reading[v]).event = p[3]
        /\ Last(reading[v]).match = projected[p]

(* Interpretations and their match rows are those the named evidence       *)
(* version justifies, with runs overlapping and posts edited in between.   *)
ReadingsFollowEvidence == ReadingIsOfItsEvidence /\ SparseNeverMatches /\ RowsFollowReading
=============================================================================
