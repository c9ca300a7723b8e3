------------------------- MODULE ResolutionDecisions -------------------------
(***************************************************************************)
(* The api-gateway's governed decisions (routes/admin_commands.py,         *)
(* admin/decisions.py) on top of crawl-service's registry.  A command looks*)
(* for a decision under its idempotency key, calls crawl, then appends the *)
(* decision: a gateway that dies, or loses the answer, after the call      *)
(* leaves an effect without a decision.  A reversal calls crawl, appends   *)
(* its own decision and marks the original, in this order.                 *)
(***************************************************************************)
EXTENDS EntityRegistry

CONSTANTS
  External,      \* names of artists discovered outside the sources
  Corrections    \* data-quality corrections the operators use

ASSUME DiscoveriesAreNames == External \subseteq Names

VARIABLE
  decisions    \* idempotency key -> [prev: the row before, reversal: how far undone]

allVars == <<candidate, history, latest, handle, node, link, writes, loops, asked,
             passes, commands, decisions>>

(* The console sends no key of its own: it is derived from the action and  *)
(* the ids in the payload.  accept, link-handle and mark-alias make the    *)
(* same call; one of them stands for the three.  Of a series an event is   *)
(* taken out of, or one to be created, the payload has no series_id.       *)
AcceptDecision(k, c) == <<"ACCEPT_CANDIDATE", k, c>>
CreateDecision(k)    == <<"CREATE_CANONICAL_ENTITY", k>>
RejectDecision(k)    == <<"REJECT_CANDIDATE", k>>
UnresolveDecision(k) == <<"MARK_UNRESOLVED", k>>
SeriesDecision(e, c) == <<"CORRECT_EVENT_SERIES", e, c>>

New(d) == d \notin DOMAIN decisions

Note(d, prev) == decisions' = Extend(decisions, d, [prev |-> prev, reversal |-> "NONE"])

(* The call was made; its decision is appended or lost. *)
Appended(d, prev) == Note(d, prev) \/ UNCHANGED decisions

Command == commands < MaxCommands /\ commands' = commands + 1 /\ UNCHANGED passes

(* For the bound, what has many forms counts as two commands.              *)
Commands == commands + 1 < MaxCommands /\ commands' = commands + 2 /\ UNCHANGED passes

\* Mutant: the decision is appended before the call, which may then fail.
AcceptCandidate_DecisionFirst(k, c) ==
  /\ Command /\ New(AcceptDecision(k, c))
  /\ c[1] = k[1]
  /\ Note(AcceptDecision(k, c), Before(k))
  /\ UNCHANGED <<candidate, history, latest, handle, node, link, writes, loops, asked>>

(* The link is committed, or refused, later; then its decision follows.    *)
AcceptCandidate(k, c) ==
  /\ Command /\ New(AcceptDecision(k, c))
  /\ Accept(k, c, AcceptDecision(k, c))
  /\ UNCHANGED decisions

LinkCommitted ==
  /\ FinishLink
  /\ Appended(linking.decision, linking.prev)
  /\ UNCHANGED <<passes, commands>>

(* Accepting what already is: crawl answers without a change, and the      *)
(* decision records the present state as the one to return to.             *)
AcceptAgain(k, c) ==
  /\ Command /\ New(AcceptDecision(k, c))
  /\ Free(Api) /\ AlreadyLinked(k, c)
  /\ Note(AcceptDecision(k, c), Before(k))
  /\ UNCHANGED <<candidate, history, latest, handle, node, link, writes, loops, asked>>

CreateCanonicalEntity(type, k) ==
  /\ Command /\ New(CreateDecision(k))
  /\ \E organizer \in {None, Page[k[2]].organizer} :
       \/ CreateEntity(type, k, organizer, CreateDecision(k)) /\ UNCHANGED decisions
       \/ CreateAgain(type, k, organizer) /\ Appended(CreateDecision(k), Before(k))

RejectCandidate(k) ==
  /\ Command /\ New(RejectDecision(k))
  /\ Reject(k)
  /\ Appended(RejectDecision(k), Before(k))

UnresolveCandidate(k) ==
  /\ Command /\ New(UnresolveDecision(k))
  /\ MarkUnresolved(k)
  /\ Appended(UnresolveDecision(k), Before(k))

(* No candidate is named, and none answers for the correction.             *)
CorrectEventSeries(e) ==
  /\ Commands
  /\ \E prev \in SeriesOf(e) \cup {None}, c \in DOMAIN node \cup {None} :
       /\ New(SeriesDecision(e, c))
       /\ \/ c # None /\ LinkSeries(e, prev, c)
          \/ c = None /\ UnlinkSeries(e, prev)
          \/ c = None /\ \E n \in SeriesNames, organizer \in {None, Page[e].organizer} :
                            CreateSeries(e, prev, n, organizer)
       /\ Appended(SeriesDecision(e, c), Row(None, None))

(* Only links and creations are undone in the data; the handle goes unless *)
(* the decision replaced another canonical.  The reversing decision is     *)
(* appended and the original marked, or either is lost; once appended, it  *)
(* counts as a dependent of the original.                                  *)
Reversible(d) == d[1] \in {"ACCEPT_CANDIDATE", "CREATE_CANONICAL_ENTITY"}

ReverseDecision(d) ==
  LET was == decisions[d] IN
  /\ Command
  /\ was.reversal = "NONE"
  /\ IF Reversible(d)
     THEN ReverseAccept(d[2], was.prev.status, was.prev.cid,
            d[1] = "CREATE_CANONICAL_ENTITY" \/ was.prev.cid = None)
     ELSE UNCHANGED <<candidate, history, latest, handle, node, link, writes, loops, asked>>
  /\ \E stage \in {"NONE", "APPENDED", "MARKED"} :
       decisions' = [decisions EXCEPT ![d].reversal = stage]

(* Corrections pass through the gateway without a decision. *)
Correct ==
  /\ Command
  /\ \/ \E k \in NamedKeys :
          \/ "CONFIRM_MULTI_ROLE" \in Corrections /\ ConfirmMultiRole(k)
          \/ "REQUEUE_RESOLUTION" \in Corrections /\ RequeueResolution(k)
          \/ "REJECT_MATCH" \in Corrections /\ RejectMatch(k)
          \/ "CONFIRM_EXISTING_MATCH" \in Corrections
               /\ \E c \in KnownCanonicals(k[1]) : ConfirmExistingMatch(k, c)
     \/ \E c \in {candidate[k].cid : k \in DOMAIN candidate} :
          \/ "MARK_PLACEHOLDER" \in Corrections /\ Quarantine(c)
          \/ "MARK_WRONG_TYPE" \in Corrections /\ \E t \in Roles : MarkWrongType(c, t)
  /\ UNCHANGED decisions

Discovery ==
  /\ Command
  /\ ReconcileGraphArtists \/ \E n \in External : CreateArtist(n)
  /\ UNCHANGED decisions

Init == RegistryInit /\ decisions = <<>>

Next ==
  \/ RegistryStep /\ UNCHANGED decisions
  \/ \E k \in NamedKeys :
       \/ \E c \in DOMAIN node : AcceptCandidate(k, c) \/ AcceptAgain(k, c)
       \/ \E type \in Roles : CreateCanonicalEntity(type, k)
       \/ RejectCandidate(k) \/ UnresolveCandidate(k)
  \/ LinkCommitted
  \/ \E e \in Events : CorrectEventSeries(e)
  \/ \E d \in DOMAIN decisions : ReverseDecision(d)
  \/ Correct \/ Discovery

Spec == Init /\ [][Next]_allVars

-----------------------------------------------------------------------------
Statuses == {"RESOLVED", "POSSIBLE_MATCH", "AMBIGUOUS", "UNRESOLVED", "REJECTED"} \cup NonProduct

(* Every row has a history, every handle leads somewhere, a pass works on  *)
(* mentions of its own event, and a link on a row that is there            *)
(* (service.py, governance.py).                                            *)
TypeOK ==
  /\ DOMAIN latest = DOMAIN candidate
  /\ \A k \in DOMAIN candidate :
       candidate[k].status \in Statuses /\ candidate[k].name \in Names
  /\ \A h \in DOMAIN handle : handle[h] # None
  /\ \A e \in history : e.by \in Processes \cup {"OPERATOR", "EXTERNAL"}
  /\ \A p \in Processes :
       pass[p] # None => \A m \in pass[p].todo : m.event = pass[p].event
  /\ linking # None => linking.key \in NamedKeys
  /\ \A d \in DOMAIN decisions : decisions[d].reversal \in {"NONE", "APPENDED", "MARKED"}

(* The audit trail ends where the row stands: its last entry has the row's *)
(* status and canonical id, but for a rejection, which keeps the id it was *)
(* offered (_persist_candidate, GovernanceService._history).               *)
HistoryExplains ==
  \A k \in DOMAIN candidate :
    /\ latest[k].status = candidate[k].status
    /\ latest[k].cid # candidate[k].cid => candidate[k].status = "REJECTED"

(* The rows are well formed, and each is where its trail says.             *)
TrailExplains == TypeOK /\ HistoryExplains

(* The graph is never ahead of what was decided: whatever the order in     *)
(* which batches arrive, and whichever are lost, an edge that claims a     *)
(* resolution states one the registry committed for a mention of that event*)
(* and role, or, of a series, one an operator asked for: of these the      *)
(* registry keeps no row (_write_graph, correct_series).                   *)
EdgesHaveDecisions ==
  \A l \in DOMAIN link : link[l] \in {"RESOLVED", "POSSIBLE_MATCH"} =>
    \/ \E h \in history : /\ h.key[2] = l[1] /\ h.key[1] = l[2]
                          /\ h.cid = l[3] /\ h.status = link[l]
    \/ /\ l[2] = "EVENT_SERIES" /\ link[l] = "RESOLVED"
       /\ \E x \in asked : x.event = l[1] /\ x.series = l[3]

OperatorLinks ==
  {<<HandleOfKey(h.key), h.cid>> :
     h \in {x \in history : x.by = "OPERATOR" /\ x.status = "RESOLVED"}}

(* The canonicals that bear a name: a venue is told from its namesakes by  *)
(* its city, a series by its organizer, the others by nothing.             *)
OwnCid(role, e, name) ==
  CASE role = "VENUE" -> Cid("VENUE", <<name, Page[e].city>>)
    [] role = "EVENT_SERIES" -> Cid(role, <<name, Page[e].organizer>>)
    [] OTHER -> Cid(role, <<name>>)

Namesakes(role, name) == {OwnCid(role, e, name) : e \in Events}

(* A handle names a slug: names of one slug are one to it, all those       *)
(* without a Latin letter among them.  Venues are also looked up by their  *)
(* normal form, so that names linked by either form a chain.               *)
Bearing(role, tag) == {n \in Names : Tag(role, n) = tag}

Alike(a, b) ==
  Tag("VENUE", a) = Tag("VENUE", b) \/ Normal("VENUE", a) = Normal("VENUE", b)

Closed(S) == \A a \in S, b \in Names : Alike(a, b) => b \in S

Kin == [n \in Names |-> {m \in Names : \A S \in SUBSET Names : n \in S /\ Closed(S) => m \in S}]

NamesOf(role, tag) ==
  IF role = "VENUE" THEN UNION {Kin[n] : n \in Bearing(role, tag)} ELSE Bearing(role, tag)

(* No silent merge: a mention is resolved to a canonical of a name its     *)
(* handle does not bear only if an operator linked the handle there, or it *)
(* is a venue and an operator linked one of its name there.  Of the        *)
(* namesakes it need not be its own: a handle names neither city nor       *)
(* organizer.                                                              *)
NoSilentMerge ==
  \A k \in NamedKeys :
    candidate[k].status = "RESOLVED" =>
      \/ \E n \in NamesOf(k[1], k[3]) : candidate[k].cid \in Namesakes(k[1], Normal(k[1], n))
      \/ <<HandleOfKey(k), candidate[k].cid>> \in OperatorLinks
      \/ k[1] = "VENUE" /\ \E o \in OperatorLinks : o[2] = candidate[k].cid

(* The form names are matched by must not make two different entities look *)
(* identical (normalizers.py): two resolved rows of one role and different *)
(* normal forms have different canonicals, unless an operator linked one.  *)
NamesStayApart ==
  \A k1, k2 \in NamedKeys \cap ResolvedKeys :
    /\ k1[1] = k2[1] /\ candidate[k1].normal # candidate[k2].normal
    /\ candidate[k1].cid = candidate[k2].cid
    => \E o \in OperatorLinks : o[2] = candidate[k1].cid

(* An ambiguous stage name never resolves on the name alone, in whatever   *)
(* event, order or pass: only through an operator's link of its handle, or *)
(* because a name of its slug is not ambiguous (resolve_artist).           *)
AmbiguousNeedsOperator ==
  \A k \in NamedKeys :
    /\ k[1] = "ARTIST" /\ candidate[k].status = "RESOLVED"
    /\ \A n \in Bearing("ARTIST", k[3]) : Facts[n].ambiguous
    => \E o \in OperatorLinks : o[1] = HandleOfKey(k)

(* Names alone neither merge two identities nor settle an ambiguous one.   *)
NamesMergeNothing == NoSilentMerge /\ AmbiguousNeedsOperator

(* One identity gets one type: two resolved rows of one slug have different*)
(* types only where more than one process decided on mentions of that slug,*)
(* or an operator or a discovery outside the sources had a hand in it      *)
(* (_interpret_gate, the cohort and the cross-type index).                 *)
HandsOn(slug) == {h.by : h \in {x \in history : SlugOf(x.key) = slug}}

OneTypePerIdentity ==
  \A k1, k2 \in ResolvedKeys :
    SlugOf(k1) = SlugOf(k2) /\ k1[1] # k2[1]
      => \A p \in Processes : HandsOn(SlugOf(k1)) # {p}

(* Whoever is about to write a handle has read it; it has moved since.     *)
OutOfDate(h) ==
  \/ \E p \in Processes :
       /\ pass[p] # None /\ pass[p].resolved # None
       /\ HandleOf(pass[p].resolved.mention) = h
       /\ LET known == pass[p].known.handles
          IN h \in DOMAIN known => known[h] # handle[h]
  \/ linking # None /\ HandleOfKey(linking.key) = h /\ linking.owner # handle[h]

(* A handle that leads to a canonical is moved to another one, or removed, *)
(* by the reversal of a decision on a row of that handle, which leads it   *)
(* back to where the decision found it, or by a hand that had read where it*)
(* led before another led it there: neither a pass nor a link re-points a  *)
(* handle it has seen where it stands                                      *)
(* (HANDLE_ALREADY_LINKED, the handle first in every resolver).            *)
SeenHandlesStay ==
  [][\A h \in DOMAIN handle :
       (h \notin DOMAIN handle' \/ handle'[h] # handle[h]) =>
         \/ OutOfDate(h)
         \/ \E d \in DOMAIN decisions :
              /\ Reversible(d) /\ HandleOfKey(d[2]) = h
              /\ h \in DOMAIN handle' => handle'[h] = decisions[d].prev.cid]_allVars

(* A decision the gateway holds has its effect in crawl's history, even    *)
(* when answers are lost and commands repeated (_execute calls crawl first)*)
DecisionsAreBacked ==
  \A d \in DOMAIN decisions : d[1] = "ACCEPT_CANDIDATE" =>
    \E h \in history : h.key = d[2] /\ h.status = "RESOLVED" /\ h.cid = d[3]
=============================================================================
