--------------------------- MODULE FieldEnrichment ---------------------------
(***************************************************************************)
(* Enrichment of one event by crawl-service (enrichment/service.py) and    *)
(* what the scheduler makes of it (service.py, _apply_enrichment).         *)
(*                                                                         *)
(* A pass awaits the graph and the public page, then runs three            *)
(* transactions: it stores the candidates, resolves the fields they touch, *)
(* and applies what was resolved to the tracked event.  The collector's    *)
(* pass and the operator's (routes/enrichment.py), who does not apply, are *)
(* in two processes, and the pilot stores candidates as well: transactions *)
(* interleave, and a process may stop between two of its own.              *)
(***************************************************************************)
EXTENDS FieldRules

CONSTANTS
  Nodes,          \* what the graph may say of the event; None: nothing, or no answer
  Pages,          \* what its public page may say
  Cards,          \* what its share card may say
  Origin,         \* the platform of the event
  Allowed,        \* city_allowlist_set; empty: every city
  MaxBatches      \* bound: passes started and pilot visits

VARIABLES
  evidence,   \* enrichment_candidate: hash -> row
  versions,   \* event_field_resolution: field -> its versions, the current one last
  tracked,    \* what tracked_event holds of the enriched fields
  planned,    \* the date and status the next capture was computed for
  enriching,  \* what each pass is doing
  batches,    \* clock: passes started and pilot visits so far
  stored      \* history: batches stored so far

enrichVars == <<evidence, versions, tracked, planned, enriching, batches, stored>>

Enrichers == {"collector", "operator"}
Resting == [at |-> "idle"]
Trackable == {"ACTIVE", "POST_EVENT"}

Active(f) ==
  {Candidate(h[1], h[2], h[3], h[4], evidence[h].origin, evidence[h].conf) :
     h \in {x \in DOMAIN evidence : x[1] = f /\ evidence[x].status = "ACTIVE"}}

Current(f) == IF f \in DOMAIN versions THEN Last(versions[f]) ELSE Unresolved

EnrichInit ==
  /\ evidence = [h \in {} |-> None]
  /\ versions = [f \in {} |-> <<>>]
  /\ tracked = [starts_at |-> None, event_status |-> None, city |-> None,
                region_id |-> None, first_seen |-> None, tracking |-> "ACTIVE"]
  /\ planned = <<None, None>>
  /\ enriching = [p \in Enrichers |-> Resting]
  /\ batches = 0
  /\ stored = 0

-----------------------------------------------------------------------------
(* The readings of a pass.  Whether the page is asked at all, and whether  *)
(* it answers, makes no difference to what is stored: {} of the page.      *)

FirstSeen == Current("first_seen").value

Readings(node, page, now) ==
  {c \in (IF node = None THEN {} ELSE GraphCandidates(node, Origin))
         \cup PageCandidates(page, "page", Origin)
         \cup OnSaleCandidates(now, TRUE, FirstSeen, None) : Valid(c)}

(* The rows of a batch are added without a flush in between: two venues of *)
(* one name, unless that evidence is stored, collide when they are written.*)
Doubled(node) ==
  IF node = None THEN {}
  ELSE {<<"venue_name", v.name, Api, None>> : v \in
          {x \in node.venues : x.name # None /\ \E y \in node.venues : y # x /\ y.name = x.name}}

Observe(p) ==
  /\ enriching[p] = Resting
  /\ batches < MaxBatches
  /\ batches' = batches + 1
  /\ \E node \in Nodes, page \in Pages :
       enriching' = [enriching EXCEPT ![p] =
         [at |-> "persist", batch |-> Readings(node, page, batches'), doubled |-> Doubled(node)]]
  /\ UNCHANGED <<evidence, versions, tracked, planned, stored>>

-----------------------------------------------------------------------------
(* _persist_candidates: what is known already changes nothing, whatever    *)
(* its status; anything new supersedes what its surface said before.       *)

New(batch) == {c \in batch : Hash(c) \notin DOMAIN evidence}

Supersedes(c, h) == h[1] = c.field /\ h[3] = c.surface

Stored(batch) ==
  LET fresh == New(batch)
      row(c) == [status |-> "ACTIVE", origin |-> c.origin, conf |-> c.conf, at |-> stored + 1]
  IN  [h \in DOMAIN evidence \cup {Hash(c) : c \in fresh} |->
         IF h \notin DOMAIN evidence THEN row(CHOOSE c \in fresh : Hash(c) = h)
         ELSE IF \E c \in fresh : Supersedes(c, h)
              THEN [evidence[h] EXCEPT !.status = "SUPERSEDED"]
              ELSE evidence[h]]

PersistFails(p) ==
  /\ enriching[p].at = "persist"
  /\ ~ (enriching[p].doubled \subseteq DOMAIN evidence)
  /\ enriching' = [enriching EXCEPT ![p] = Resting]
  /\ UNCHANGED <<evidence, versions, tracked, planned, batches, stored>>

(* The active candidates of the fields touched are read back before the    *)
(* transaction ends, and are what the next one resolves.                   *)
Persist(p) ==
  /\ enriching[p].at = "persist"
  /\ enriching[p].doubled \subseteq DOMAIN evidence
  /\ evidence' = Stored(enriching[p].batch)
  /\ stored' = stored + 1
  /\ enriching' = [enriching EXCEPT ![p] =
       [at |-> "resolve", read |-> stored',
        held |-> [f \in {c.field : c \in enriching[p].batch} |-> Active(f)']]]
  /\ UNCHANGED <<versions, tracked, planned, batches>>

-----------------------------------------------------------------------------
(* resolve_field and _persist_resolutions: a version is kept while value,  *)
(* method and review are the same.                                         *)

Changed(old, new) ==
  old.value # new.value \/ old.method # new.method \/ old.review # new.review

Version(r, read) ==
  [value |-> r.value, method |-> r.method, review |-> r.review, conf |-> r.conf, read |-> read]

Revised(f, r, read) ==
  IF f \notin DOMAIN versions THEN <<Version(r, read)>>
  ELSE IF Changed(Current(f), r) THEN Append(versions[f], Version(r, read))
  ELSE Front(versions[f]) \o <<Version(r, read)>>

ForScheduler(rs) ==
  {f \in SchedulerFields \cap DOMAIN rs : rs[f].review = "AUTO_RESOLVED" /\ rs[f].value # None}

(* The operator's pass ends here: nothing applies what it resolved.        *)
ResolveFields(p) ==
  /\ enriching[p].at = "resolve"
  /\ LET held == enriching[p].held
         rs   == [f \in DOMAIN held |-> ResolveField(f, held[f])]
     IN  /\ versions' = [f \in DOMAIN versions \cup DOMAIN rs |->
                           IF f \in DOMAIN rs THEN Revised(f, rs[f], enriching[p].read)
                           ELSE versions[f]]
         /\ enriching' = [enriching EXCEPT ![p] =
              IF p = "operator" \/ ForScheduler(rs) = {} THEN Resting
              ELSE [at |-> "apply", resolved |-> [f \in ForScheduler(rs) |-> rs[f].value]]]
  /\ UNCHANGED <<evidence, tracked, planned, batches, stored>>

-----------------------------------------------------------------------------
(* _apply_enrichment.  end_at is never among the fields of the scheduler,  *)
(* and venue_id is read by nothing here.                                   *)

Applied(te, r) ==
  [te EXCEPT
     !.starts_at    = IF "starts_at" \in DOMAIN r THEN r.starts_at ELSE @,
     !.event_status = IF "event_status" \in DOMAIN r THEN r.event_status ELSE @,
     !.city         = IF "city" \in DOMAIN r THEN r.city ELSE @,
     !.region_id    = IF "region_id" \in DOMAIN r THEN r.region_id ELSE @,
     !.first_seen   = IF "first_seen" \in DOMAIN r /\ @ = None THEN r.first_seen ELSE @]

OutOfScope(te) == Allowed # {} /\ te.city # None /\ te.city \notin Allowed

MustReplan_DateOnly(old, new) == new.starts_at # old.starts_at
MustReplan(old, new) ==
  new.starts_at # old.starts_at \/ new.event_status # old.event_status

Apply(p) ==
  /\ enriching[p].at = "apply"
  /\ LET te == Applied(tracked, enriching[p].resolved)
     IN  IF OutOfScope(te)
         THEN /\ tracked' = [te EXCEPT !.tracking = "STOPPED"]
              /\ planned' = <<None, None>>
         ELSE /\ tracked' = te
              /\ planned' = IF MustReplan(tracked, te) /\ te.tracking \in Trackable
                            THEN <<te.starts_at, te.event_status>> ELSE planned
  /\ enriching' = [enriching EXCEPT ![p] = Resting]
  /\ UNCHANGED <<evidence, versions, batches, stored>>

(* The process stops between two transactions of a pass. *)
Interrupted(p) ==
  /\ enriching[p] # Resting
  /\ enriching' = [enriching EXCEPT ![p] = Resting]
  /\ UNCHANGED <<evidence, versions, tracked, planned, batches, stored>>

(* The pilot's visit of the share card (pilot/service.py, store_candidates):*)
(* nothing is resolved.                                                    *)
StoreCard ==
  /\ batches < MaxBatches
  /\ \E card \in Cards :
       evidence' = Stored({c \in ShareCandidates(card, "share", Origin) : Valid(c)})
  /\ batches' = batches + 1
  /\ stored' = stored + 1
  /\ UNCHANGED <<versions, tracked, planned, enriching>>

EnrichNext ==
  \/ \E p \in Enrichers :
       Observe(p) \/ Persist(p) \/ PersistFails(p) \/ ResolveFields(p) \/ Apply(p)
       \/ Interrupted(p)
  \/ StoreCard

EnrichSpec == EnrichInit /\ [][EnrichNext]_enrichVars

-----------------------------------------------------------------------------
(* A surface stands by what it said last that was new: of the candidates   *)
(* of a field from one surface exactly those of the latest batch that      *)
(* brought any are ACTIVE (models.py, EnrichmentCandidate).  A value that  *)
(* comes back is not new, and its candidate stays SUPERSEDED.              *)
ActiveIsLastNew ==
  \A h \in DOMAIN evidence :
    evidence[h].status = "ACTIVE" <=>
      \A g \in DOMAIN evidence :
        g[1] = h[1] /\ g[3] = h[3] => evidence[g].at <= evidence[h].at

(* A value that counts as resolved has evidence that its pass could see,   *)
(* and nothing that pass saw and that still stands contradicts it with the *)
(* same authority or a higher one (resolver.py: equal-authority            *)
(* disagreement is never settled silently).                                *)
CurrentOutranksEvidence ==
  \A f \in DOMAIN versions :
    LET v    == Current(f)
        seen == {h \in DOMAIN evidence : h[1] = f /\ evidence[h].at <= v.read}
    IN  v.review = "AUTO_RESOLVED" =>
          \E g \in seen :
            /\ g[2] = v.value
            /\ \A h \in seen :
                 evidence[h].status = "ACTIVE" /\ Authority(f, h[3]) <= Authority(f, g[3])
                   => h[2] = v.value

(* What the scheduler plans by was resolved automatically at some time:    *)
(* neither a conflict nor a value that waits for review reaches the        *)
(* tracked event (service.py, _apply_enrichment).                          *)
TrackedIsResolved ==
  \A f \in DOMAIN tracked \ {"tracking"} :
    tracked[f] # None =>
      f \in DOMAIN versions /\ \E v \in Range(versions[f]) :
        v.review = "AUTO_RESOLVED" /\ v.value = tracked[f]

(* The next capture of an event that is still captured was computed for    *)
(* the date and the status the event has now.                              *)
PlanFollowsEvent ==
  tracked.tracking \in Trackable => planned = <<tracked.starts_at, tracked.event_status>>

(* Values rest on evidence: what each surface said last decides, nothing   *)
(* that still contradicts is passed over, and only what was settled so     *)
(* reaches the scheduler (store_candidates, resolve, _apply_enrichment).   *)
EvidenceDecides == ActiveIsLastNew /\ CurrentOutranksEvidence /\ TrackedIsResolved
=============================================================================
