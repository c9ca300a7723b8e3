--------------------------- MODULE WatchTargetsProofs ---------------------------
(***************************************************************************)
(* Theorems about WatchTargets, for every number of artists, names,        *)
(* requests, passes and targets: overrides last, watched artists are       *)
(* pursued, and targets are of artists that exist, one to a key.           *)
(***************************************************************************)
EXTENDS WatchTargets, FiniteSetTheorems, TLAPS

USE WatchAssumption, NilIsNothing

Cids == ArtistIds \cup {Nil}

TypeOK ==
  /\ registered \in SUBSET ArtistIds
  /\ minted \in SUBSET ArtistIds
  /\ channelRows \in [ArtistIds -> SUBSET {"PENDING", "AMBIGUOUS", "RESOLVED"}]
  /\ jobs \in SUBSET ArtistIds
  /\ candidateRow \in [DOMAIN candidateRow -> Candidates]
  /\ DOMAIN candidateRow \subseteq CandidateKeys
  /\ targetRow \in [DOMAIN targetRow -> Targets]
  /\ DOMAIN targetRow \subseteq TargetIds
  /\ handling \in [Handlers -> WatchSessions \cup {Nil}]
  /\ requests \in Nat

Busy == {w \in Handlers : handling[w] # Nil}

(* A session never starts from an override, resolves what it has a         *)
(* candidate for, and what it has not inserted itself is in the table.     *)
Fit(s) ==
  /\ s.row.status \notin Overrides
  /\ s.k = Nil => s.at = "confirm" /\ s.t # Nil
  /\ s.k # Nil => s.cand # Nil
  /\ s.flushed \/ s.keep => s.t # Nil
  /\ s.t # Nil /\ ~s.flushed => s.t \in DOMAIN targetRow
  /\ s.t # Nil /\ s.k # Nil => s.row.cid = Nil /\ s.k[1] = "OPERATOR"
  /\ s.flushed /\ s.row.cid = Nil => s.row.status \notin Live
  /\ s.t = Nil =>
       /\ s.k \in DOMAIN candidateRow
       /\ s.k[1] # "OPERATOR" => candidateRow[s.k].name = s.row.name

SessionsAreFit == \A w \in Busy : Fit(handling[w])

(* A flushed row is one session's: its key is the stored one, or nobody's. *)
Locked(w, s) ==
  s.flushed =>
    /\ \A v \in Busy : v # w /\ handling[v].flushed =>
         handling[v].t # s.t /\ handling[v].row.key # s.row.key
    /\ \A t \in DOMAIN targetRow : targetRow[t].key = s.row.key <=> t = s.t

LocksHold == \A w \in Busy : Locked(w, handling[w])

SessionInv == TypeOK /\ SessionsAreFit /\ LocksHold /\ KeysAreApart

Pursued(c) == c \in jobs \/ IdentityState(c) = "RESOLVED"

(* Whatever its status, a row with nothing amiss has an artist that is     *)
(* pursued, or none; and one shown as watched has an artist.               *)
RowsArePursued ==
  \A t \in DOMAIN targetRow :
    targetRow[t].gap = "none" =>
      /\ targetRow[t].cid # Nil => Pursued(targetRow[t].cid)
      /\ targetRow[t].status \in Live => targetRow[t].cid # Nil

FromElsewhere(name) ==
  \E k \in DOMAIN candidateRow : k[1] # "OPERATOR" /\ candidateRow[k].name = name

(* An artist is created from evidence that its session has seen.           *)
CreatedOnEvidence ==
  \A w \in Busy : handling[w].at = "create" => FromElsewhere(handling[w].row.name)

--------------------------------------------------------------------------------
(* Rows, and what writes them.                                             *)

Stores(t, r) ==
  targetRow' = [u \in DOMAIN targetRow \cup {t} |-> IF u = t THEN r ELSE targetRow[u]]

(* The columns a session did not change are the stored ones.               *)
Saved(s, row, r) ==
  IF s.flushed THEN r = row
  ELSE LET stored == targetRow[s.t]
       IN /\ r.key = IF row.key = s.row.key THEN stored.key ELSE row.key
          /\ r.cid = IF row.cid = s.row.cid THEN stored.cid ELSE row.cid
          /\ r.status = IF row.status = s.row.status THEN stored.status ELSE row.status
          /\ r.gap = GapAfter(stored, s.row, row, r)

NamesKept(old, new) ==
  /\ DOMAIN old \subseteq DOMAIN new
  /\ \A k \in DOMAIN old : k[1] # "OPERATOR" => new[k].name = old[k].name

CandidatesGrow == NamesKept(candidateRow, candidateRow')

LEMMA TargetFields ==
  ASSUME NEW r \in Targets
  PROVE  /\ r.name \in Names /\ r.cid \in Cids /\ r.status \in Pending \cup Live \cup Overrides
         /\ r.gap \in {"none", "unvetted", "outage", "raced"}
         /\ DOMAIN r = {"name", "key", "cid", "status", "gap"}
BY DEF Targets, Cids

LEMMA SaveStores ==
  ASSUME SessionInv, NEW w \in Busy, NEW row \in Targets, SaveTarget(w, row), handling[w].t # Nil
  PROVE  \E r \in Targets : Stores(handling[w].t, r) /\ Saved(handling[w], row, r)
<1>1. PICK s : s = handling[w]
  OBVIOUS
<1>2. s \in WatchSessions /\ s.row \in Targets /\ s.t \in TargetIds /\ s.flushed \in BOOLEAN
  BY <1>1 DEF SessionInv, TypeOK, Busy, WatchSessions
<1>3. CASE s.flushed
  <2>3. Stores(s.t, row)
    BY <1>1, <1>3 DEF SaveTarget, Stores, PutRow
  <2>. QED
    BY <1>1, <1>3, <2>3 DEF Saved
<1>4. CASE ~s.flushed
  <2>1. s.t \in DOMAIN targetRow /\ targetRow[s.t] \in Targets
    BY <1>1, <1>2, <1>4 DEF SessionInv, SessionsAreFit, Fit, TypeOK
  <2>2. PICK stored : stored = targetRow[s.t] /\ stored \in Targets
    BY <2>1
  <2>3. PICK saved : saved = Overlaid(stored, s.row, row)
    OBVIOUS
  <2>4. /\ saved = [c \in {"name", "key", "cid", "status", "gap"} |->
                      IF row[c] = s.row[c] THEN stored[c] ELSE row[c]]
    BY <2>3, TargetFields DEF Overlaid
  <2>5. /\ saved \in Targets
        /\ saved.key = IF row.key = s.row.key THEN stored.key ELSE row.key
        /\ saved.cid = IF row.cid = s.row.cid THEN stored.cid ELSE row.cid
        /\ saved.status = IF row.status = s.row.status THEN stored.status ELSE row.status
    BY <2>2, <2>4, <1>2 DEF Targets
  <2>6. PICK gap : gap = GapAfter(stored, s.row, row, saved)
    OBVIOUS
  <2>7. gap \in {"none", "unvetted", "outage", "raced"}
    BY <2>2, <2>6, TargetFields DEF GapAfter
  <2>8. PICK r : r = [saved EXCEPT !.gap = gap]
    OBVIOUS
  <2>9. /\ r \in Targets /\ r.key = saved.key /\ r.cid = saved.cid /\ r.status = saved.status
        /\ r.gap = gap
    BY <2>5, <2>7, <2>8 DEF Targets
  <2>10. gap = GapAfter(stored, s.row, row, r)
    BY <2>6, <2>9 DEF GapAfter
  <2>11. targetRow' = PutRow(targetRow, s.t, r)
    BY <1>1, <1>4, <2>2, <2>3, <2>6, <2>8 DEF SaveTarget
  <2>12. Stores(s.t, r)
    BY <2>11 DEF Stores, PutRow
  <2>13. Saved(s, row, r)
    BY <1>4, <2>2, <2>5, <2>9, <2>10 DEF Saved
  <2>. QED
    BY <1>1, <2>9, <2>12, <2>13
<1>. QED
  BY <1>2, <1>3, <1>4

LEMMA UpsertedFacts ==
  ASSUME NEW rows, rows \in [DOMAIN rows -> Candidates], NEW k, NEW name \in Names,
         NEW music \in BOOLEAN, NEW cid \in Cids, NEW new, new = Upserted(rows, k, name, music, cid)
  PROVE  /\ new \in [DOMAIN rows \cup {k} -> Candidates]
         /\ NamesKept(rows, new)
         /\ k \notin DOMAIN rows => new[k].name = name
<1>1. NewCandidate(name, music, cid) \in Candidates /\ NewCandidate(name, music, cid).name = name
  BY DEF NewCandidate, Candidates, Cids, Pending
<1>2. PICK r : r = IF k \in DOMAIN rows THEN MergedCandidate(rows[k], music, cid)
                   ELSE NewCandidate(name, music, cid)
  OBVIOUS
<1>3. new = [j \in DOMAIN rows \cup {k} |-> IF j = k THEN r ELSE rows[j]]
  BY <1>2 DEF Upserted, PutRow
<1>4. ASSUME k \in DOMAIN rows PROVE r \in Candidates /\ r.name = rows[k].name
  <2>1. rows[k] \in Candidates /\ r = MergedCandidate(rows[k], music, cid)
    BY <1>2, <1>4
  <2>2. /\ rows[k].music \in BOOLEAN /\ rows[k].cid \in Cids /\ rows[k].name \in Names
        /\ rows[k].status \in Pending \cup {"RESOLVED"}
    BY <2>1 DEF Candidates, Cids
  <2>3. rows[k].music \/ music \in BOOLEAN
    BY <2>2
  <2>. QED
    BY <2>1, <2>2, <2>3 DEF MergedCandidate, Candidates, Cids
<1>. QED
  BY <1>1, <1>2, <1>3, <1>4 DEF NamesKept

--------------------------------------------------------------------------------
(* Sessions.                                                               *)

LEMMA SessionFields ==
  ASSUME NEW s \in WatchSessions
  PROVE  /\ s # Nil /\ s.t \in TargetIds \cup {Nil} /\ s.row \in Targets
         /\ s.flushed \in BOOLEAN /\ s.keep \in BOOLEAN
         /\ s.k \in CandidateKeys \cup {Nil} /\ s.cand \in Candidates \cup {Nil}
         /\ s.at \in {"find", "create", "confirm"} /\ s.cid \in Cids
BY DEF WatchSessions, Cids

LEMMA BusySession ==
  ASSUME TypeOK, NEW w \in Busy
  PROVE  w \in Handlers /\ handling[w] \in WatchSessions
BY DEF TypeOK, Busy

LEMMA HeldFacts ==
  ASSUME TypeOK, NEW w \in Handlers, NEW v \in Busy, v # w
  PROVE  handling[v].flushed => /\ handling[v].t \in HeldTargets(w)
                                /\ handling[v].row.key \in HeldKeys(w)
BY DEF Flushing, Busy, HeldTargets, HeldKeys

\* A resolution begins with a candidate, or with the artist it is given.
Begun(w, t, row, flushed, keep, s) ==
  /\ Goes(w, s)
  /\ s.t = t /\ s.row = row /\ s.flushed = flushed /\ s.keep = keep /\ s.at # "create"
  /\ s.k = Nil => s.at = "confirm"
  /\ s.k # Nil => s.cand # Nil /\ row.cid = Nil /\ s.k[1] = "OPERATOR"

LEMMA Begins ==
  ASSUME TypeOK, NEW w \in Handlers, NEW t \in TargetIds, NEW row \in Targets,
         NEW flushed \in BOOLEAN, NEW keep \in BOOLEAN, BeginResolve(w, t, row, flushed, keep)
  PROVE  \E s \in WatchSessions : Begun(w, t, row, flushed, keep, s)
<1>1. PICK s : s = Session(t, row, flushed, keep)
  OBVIOUS
<1>2. row.name \in Names /\ row.cid \in Cids
  BY TargetFields
<1>3. CASE row.cid # Nil
  <2>1. Goes(w, s)
    BY <1>1, <1>3 DEF BeginResolve
  <2>2. s \in WatchSessions
    BY <1>1, <1>2 DEF Session, WatchSessions, Cids
  <2>3. Begun(w, t, row, flushed, keep, s)
    BY <1>1, <2>1 DEF Session, Begun
  <2>. QED
    BY <2>2, <2>3
<1>4. CASE row.cid = Nil
  <2>1. PICK k : k = <<"OPERATOR", row.name>>
    OBVIOUS
  <2>2. PICK rows : rows = Upserted(candidateRow, k, row.name, FALSE, Nil)
    OBVIOUS
  <2>3. k \in CandidateKeys /\ k[1] = "OPERATOR" /\ k # Nil
    BY <1>2, <2>1 DEF CandidateKeys
  <2>4. rows[k] \in Candidates
    <3>1. candidateRow \in [DOMAIN candidateRow -> Candidates] /\ Nil \in Cids
      BY DEF TypeOK, Cids
    <3>2. rows \in [DOMAIN candidateRow \cup {k} -> Candidates]
      BY <1>2, <2>2, <3>1, UpsertedFacts
    <3>. QED
      BY <3>2
  <2>5. PICK cand : cand = rows[k]
    OBVIOUS
  <2>6. PICK e : e = [s EXCEPT !.k = k, !.cand = cand, !.cid = cand.cid,
                               !.at = IF cand.cid = Nil THEN "find" ELSE "confirm"]
    OBVIOUS
  <2>7. Goes(w, e)
    BY <1>1, <1>4, <2>1, <2>2, <2>5, <2>6 DEF BeginResolve
  <2>8. cand \in Candidates /\ cand.cid \in Cids /\ cand # Nil
    BY <2>4, <2>5 DEF Candidates, Cids
  <2>9. e = [t |-> t, row |-> row, flushed |-> flushed, keep |-> keep, k |-> k, cand |-> cand,
             at |-> IF cand.cid = Nil THEN "find" ELSE "confirm", cid |-> cand.cid]
    BY <1>1, <2>6 DEF Session
  <2>10. e \in WatchSessions
    BY <2>3, <2>8, <2>9 DEF WatchSessions, Cids
  <2>11. Begun(w, t, row, flushed, keep, e)
    BY <1>4, <2>3, <2>7, <2>8, <2>9 DEF Begun
  <2>. QED
    BY <2>10, <2>11
<1>. QED
  BY <1>3, <1>4

\* A step that opens, moves or closes sessions and leaves the rows alone.
LEMMA QuietInv ==
  ASSUME SessionInv, TypeOK', UNCHANGED targetRow, CandidatesGrow,
         \A v \in Busy' :
           \/ v \in Busy /\ handling'[v] = handling[v]
           \/ /\ Fit(handling'[v]) /\ Locked(v, handling'[v])
              /\ \A u \in Busy' \ {v} : u \in Busy /\ handling'[u] = handling[u]
  PROVE  SessionsAreFit' /\ LocksHold' /\ KeysAreApart'
<1>. USE DEF SessionInv
<1>1. KeysAreApart'
  BY DEF KeysAreApart
<1>2. ASSUME NEW v \in Busy' PROVE Fit(handling[v])'
  <2>1. PICK s : s = handling'[v]
    OBVIOUS
  <2>2. s \in WatchSessions /\ Fit(s)
    BY <1>2, <2>1 DEF SessionsAreFit, Busy, TypeOK
  <2>3. Fit(s)'
    BY <2>2 DEF Fit, CandidatesGrow, NamesKept
  <2>. QED
    BY <2>1, <2>3 DEF Fit
<1>3. ASSUME NEW v \in Busy' PROVE Locked(v, handling[v])'
  <2>1. Locked(v, handling'[v])
    BY <1>3 DEF LocksHold
  <2>2. ASSUME handling'[v].flushed, NEW u \in Busy', u # v, handling'[u].flushed
        PROVE  handling'[u].t # handling'[v].t /\ handling'[u].row.key # handling'[v].row.key
    <3>1. CASE u \in Busy /\ handling'[u] = handling[u]
      BY <2>1, <2>2, <3>1 DEF Locked
    <3>2. CASE Locked(u, handling'[u]) /\ v \in Busy /\ handling'[v] = handling[v]
      BY <2>2, <3>2 DEF Locked
    <3>. QED
      BY <1>3, <2>2, <3>1, <3>2
  <2>3. handling'[v].flushed =>
          \A t \in DOMAIN targetRow' : targetRow'[t].key = handling'[v].row.key <=> t = handling'[v].t
    BY <2>1 DEF Locked
  <2>. QED
    BY <2>2, <2>3 DEF Locked
<1>. QED
  BY <1>1, <1>2, <1>3 DEF SessionsAreFit, LocksHold

\* A step that writes a row, of nobody who goes on, under a key of nobody.
LEMMA StoreInv ==
  ASSUME SessionInv, TypeOK', CandidatesGrow, NEW t, NEW r, Stores(t, r),
         \A v \in Busy' :
           /\ v \in Busy /\ handling'[v] = handling[v]
           /\ handling[v].flushed => handling[v].t # t /\ handling[v].row.key # r.key,
         \A u \in DOMAIN targetRow \ {t} : targetRow[u].key # r.key
  PROVE  SessionsAreFit' /\ LocksHold' /\ KeysAreApart'
<1>. USE DEF SessionInv
<1>1. /\ DOMAIN targetRow' = DOMAIN targetRow \cup {t} /\ targetRow'[t] = r
      /\ \A u \in DOMAIN targetRow \ {t} : targetRow'[u] = targetRow[u]
  BY DEF Stores
<1>2. KeysAreApart'
  BY <1>1 DEF KeysAreApart
<1>3. ASSUME NEW v \in Busy' PROVE Fit(handling[v])'
  <2>1. PICK s : s = handling'[v]
    OBVIOUS
  <2>2. s \in WatchSessions /\ Fit(s)
    BY <1>3, <2>1 DEF SessionsAreFit, Busy, TypeOK
  <2>3. Fit(s)'
    BY <1>1, <2>2 DEF Fit, CandidatesGrow, NamesKept
  <2>. QED
    BY <2>1, <2>3 DEF Fit
<1>4. ASSUME NEW v \in Busy' PROVE Locked(v, handling[v])'
  <2>1. Locked(v, handling'[v])
    BY <1>4 DEF LocksHold
  <2>2. ASSUME handling'[v].flushed, NEW u \in Busy', u # v, handling'[u].flushed
        PROVE  handling'[u].t # handling'[v].t /\ handling'[u].row.key # handling'[v].row.key
    BY <2>1, <2>2 DEF Locked
  <2>3. ASSUME handling'[v].flushed, NEW u \in DOMAIN targetRow'
        PROVE  targetRow'[u].key = handling'[v].row.key <=> u = handling'[v].t
    <3>1. CASE u = t
      BY <1>1, <1>4, <2>3, <3>1
    <3>2. CASE u # t
      BY <1>1, <2>1, <2>3, <3>2 DEF Locked
    <3>. QED
      BY <3>1, <3>2
  <2>. QED
    BY <2>2, <2>3 DEF Locked
<1>. QED
  BY <1>2, <1>3, <1>4 DEF SessionsAreFit, LocksHold

--------------------------------------------------------------------------------
(* What the end of a session leaves.                                       *)

LEMMA LinkedFacts ==
  ASSUME NEW cand \in Candidates, NEW verified \in Cids
  PROVE  LinkedTo(cand, verified) \in Candidates /\ LinkedTo(cand, verified).name = cand.name
<1>1. verified # Nil => verified \in ArtistIds
  BY DEF Cids
<1>2. CASE verified # Nil
  <2>1. LinkedTo(cand, verified) = [cand EXCEPT !.cid = verified, !.status = "RESOLVED"]
    BY <1>2 DEF LinkedTo
  <2>. QED
    BY <1>1, <1>2, <2>1 DEF Candidates
<1>3. CASE verified = Nil /\ cand.status = "NEW"
  <2>1. LinkedTo(cand, verified) = [cand EXCEPT !.status = "RESOLUTION_PENDING"]
    BY <1>3 DEF LinkedTo
  <2>. QED
    BY <2>1 DEF Candidates, Pending
<1>4. CASE verified = Nil /\ cand.status # "NEW"
  BY <1>4 DEF LinkedTo
<1>. QED
  BY <1>2, <1>3, <1>4

LEMMA SavedCandidateFacts ==
  ASSUME SessionInv, NEW w \in Busy, NEW cand, NEW new, new = SavedCandidate(w, cand),
         handling[w].k # Nil => cand \in Candidates /\ cand.name = handling[w].cand.name
  PROVE  /\ new \in [DOMAIN new -> Candidates] /\ DOMAIN new \subseteq CandidateKeys
         /\ NamesKept(candidateRow, new)
<1>. USE DEF SessionInv
<1>1. PICK s : s = handling[w]
  OBVIOUS
<1>2. s \in WatchSessions /\ Fit(s)
  BY <1>1, BusySession DEF SessionsAreFit
<1>3. /\ candidateRow \in [DOMAIN candidateRow -> Candidates]
      /\ DOMAIN candidateRow \subseteq CandidateKeys
  BY DEF TypeOK
<1>4. CASE s.k = Nil
  BY <1>1, <1>3, <1>4 DEF SavedCandidate, NamesKept
<1>5. CASE s.k # Nil
  <2>1. s.k \in CandidateKeys /\ cand \in Candidates /\ cand.name = s.cand.name
    BY <1>1, <1>2, <1>5, SessionFields
  <2>2. PICK e : e = IF s.t # Nil THEN cand ELSE Overlaid(candidateRow[s.k], s.cand, cand)
    OBVIOUS
  <2>3. new = [j \in DOMAIN candidateRow \cup {s.k} |-> IF j = s.k THEN e ELSE candidateRow[j]]
    BY <1>1, <1>5, <2>2 DEF SavedCandidate, PutRow
  <2>4. e \in Candidates
    <3>1. CASE s.t # Nil
      BY <2>1, <2>2, <3>1
    <3>2. CASE s.t = Nil
      <4>1. candidateRow[s.k] \in Candidates
        BY <1>2, <1>3, <3>2 DEF Fit
      <4>2. DOMAIN cand = {"name", "music", "cid", "status"}
        BY <2>1 DEF Candidates
      <4>3. e = [c \in {"name", "music", "cid", "status"} |->
                   IF cand[c] = s.cand[c] THEN candidateRow[s.k][c] ELSE cand[c]]
        BY <2>2, <3>2, <4>2 DEF Overlaid
      <4>. QED
        BY <2>1, <4>1, <4>3 DEF Candidates
    <3>. QED
      BY <3>1, <3>2
  <2>5. ASSUME s.k[1] # "OPERATOR" PROVE e.name = candidateRow[s.k].name
    <3>1. s.t = Nil
      BY <1>2, <1>5, <2>5 DEF Fit
    <3>2. DOMAIN cand = {"name", "music", "cid", "status"}
      BY <2>1 DEF Candidates
    <3>. QED
      BY <2>1, <2>2, <3>1, <3>2 DEF Overlaid
  <2>. QED
    BY <1>3, <2>1, <2>3, <2>4, <2>5 DEF NamesKept
<1>. QED
  BY <1>4, <1>5

LEMMA ResolvedFacts ==
  ASSUME NEW t, NEW row \in Targets, row.status \notin Overrides, NEW verified \in Cids,
         NEW r, r = ResolvedTarget(t, row, verified)
  PROVE  /\ r \in Targets /\ r.cid = verified /\ r.gap = "none" /\ r.status \notin Overrides
         /\ r.status \in Live => verified # Nil
         /\ r.key # row.key => \A u \in DOMAIN targetRow \ {t} : targetRow[u].key # r.key
<1>1. PICK now : now = [row EXCEPT !.cid = verified]
  OBVIOUS
<1>2. now \in Targets /\ now.cid = verified /\ now.status = row.status /\ now.name = row.name
      /\ now.key = row.key
  BY <1>1 DEF Targets, Cids
<1>3. PICK key : key = DedupKey(row.name, verified)
  OBVIOUS
<1>4. PICK k : k = IF \E u \in DOMAIN targetRow \ {t} : targetRow[u].key = key THEN row.key ELSE key
  OBVIOUS
<1>5. PICK status : status = IF verified = Nil THEN "RESOLUTION_PENDING" ELSE EffectiveStatus(now)
  OBVIOUS
<1>6. r = [now EXCEPT !.status = status, !.key = k, !.gap = "none"]
  BY <1>1, <1>2, <1>3, <1>4, <1>5 DEF ResolvedTarget
<1>7. status \in Pending \cup Live /\ (status \in Live => verified # Nil)
  <2>1. CASE verified = Nil
    BY <1>5, <2>1 DEF Pending, Live
  <2>2. CASE verified # Nil
    BY <1>2, <1>5, <2>2 DEF EffectiveStatus, Live
  <2>. QED
    BY <2>1, <2>2
<1>8. row.name \in Names /\ key \in TargetKeys
  BY <1>3, TargetFields DEF TargetKeys, Cids
<1>9. k \in TargetKeys
  BY <1>4, <1>8 DEF Targets, Cids
<1>10. /\ r \in Targets /\ r.cid = verified /\ r.gap = "none" /\ r.status = status /\ r.key = k
  BY <1>2, <1>6, <1>7, <1>9 DEF Targets
<1>. QED
  BY <1>4, <1>7, <1>10 DEF Pending, Live, Overrides

\* The stored row keeps to a key of its own.
LEMMA SavedKey ==
  ASSUME SessionInv, NEW w \in Busy, NEW row \in Targets, NEW r, Saved(handling[w], row, r),
         handling[w].t # Nil, handling[w].t \notin HeldTargets(w),
         row.key # handling[w].row.key =>
           /\ row.key \notin HeldKeys(w)
           /\ \A u \in DOMAIN targetRow \ {handling[w].t} : targetRow[u].key # row.key
  PROVE  /\ \A u \in DOMAIN targetRow \ {handling[w].t} : targetRow[u].key # r.key
         /\ \A v \in Busy \ {w} : handling[v].flushed =>
              handling[v].t # handling[w].t /\ handling[v].row.key # r.key
<1>. USE DEF SessionInv
<1>1. PICK s : s = handling[w]
  OBVIOUS
<1>2. w \in Handlers /\ s \in WatchSessions /\ Fit(s) /\ Locked(w, s)
  BY <1>1, BusySession DEF SessionsAreFit, LocksHold
<1>3. \A v \in Busy \ {w} : handling[v].flushed => handling[v].t # s.t
  BY <1>1, <1>2, HeldFacts
<1>4. CASE s.flushed /\ row.key = s.row.key
  BY <1>1, <1>2, <1>4 DEF Saved, Locked
<1>5. CASE s.flushed /\ row.key # s.row.key
  <2>1. r.key = row.key
    BY <1>1, <1>5 DEF Saved
  <2>. QED
    BY <1>1, <1>2, <1>3, <1>5, <2>1, HeldFacts
<1>6. CASE ~s.flushed /\ row.key = s.row.key
  <2>1. r.key = targetRow[s.t].key /\ s.t \in DOMAIN targetRow
    BY <1>1, <1>2, <1>6 DEF Saved, Fit
  <2>2. \A u \in DOMAIN targetRow \ {s.t} : targetRow[u].key # r.key
    BY <2>1 DEF KeysAreApart
  <2>3. ASSUME NEW v \in Busy \ {w}, handling[v].flushed PROVE handling[v].row.key # r.key
    BY <1>3, <2>1, <2>3 DEF LocksHold, Locked
  <2>. QED
    BY <1>1, <1>3, <2>2, <2>3
<1>7. CASE ~s.flushed /\ row.key # s.row.key
  <2>1. r.key = row.key
    BY <1>1, <1>7 DEF Saved
  <2>. QED
    BY <1>1, <1>2, <1>3, <1>7, <2>1, HeldFacts
<1>. QED
  BY <1>4, <1>5, <1>6, <1>7

--------------------------------------------------------------------------------
(* The actions.  `Vacant` is one handler off, `Enters` one at work.        *)

LEMMA GoesFacts ==
  ASSUME TypeOK, NEW w \in Handlers, NEW s \in WatchSessions \cup {Nil}, Goes(w, s)
  PROVE  /\ handling' \in [Handlers -> WatchSessions \cup {Nil}]
         /\ handling'[w] = s
         /\ \A v \in Handlers \ {w} : handling'[v] = handling[v]
         /\ s = Nil => Busy' = Busy \ {w}
         /\ s # Nil => Busy' = Busy \cup {w}
         /\ \A v \in Busy' : v # w => v \in Busy
<1>1. /\ handling' \in [Handlers -> WatchSessions \cup {Nil}] /\ handling'[w] = s
      /\ \A v \in Handlers \ {w} : handling'[v] = handling[v]
  BY DEF TypeOK, Goes
<1>. QED
  BY <1>1 DEF Busy

\* A session opens, or goes on, and the tables stay.
LEMMA OpenInv ==
  ASSUME SessionInv, NEW w \in Handlers, NEW s \in WatchSessions, Goes(w, s), Fit(s), Locked(w, s),
         UNCHANGED <<channelRows, jobs, candidateRow, targetRow>>,
         registered' \in SUBSET ArtistIds, minted' \in SUBSET ArtistIds, requests' \in Nat
  PROVE  SessionInv'
<1>1. TypeOK
  BY DEF SessionInv
<1>2. /\ handling' \in [Handlers -> WatchSessions \cup {Nil}]
      /\ handling'[w] = s
      /\ \A v \in Handlers \ {w} : handling'[v] = handling[v]
      /\ \A v \in Busy' : v # w => v \in Busy
  BY <1>1, GoesFacts
<1>3. TypeOK'
  BY <1>1, <1>2 DEF TypeOK
<1>4. CandidatesGrow
  BY DEF CandidatesGrow, NamesKept
<1>5. ASSUME NEW v \in Busy'
      PROVE  \/ v \in Busy /\ handling'[v] = handling[v]
             \/ /\ Fit(handling'[v]) /\ Locked(v, handling'[v])
                /\ \A u \in Busy' \ {v} : u \in Busy /\ handling'[u] = handling[u]
  <2>1. CASE v = w
    <3>1. Fit(handling'[v]) /\ Locked(v, handling'[v])
      BY <1>2, <2>1
    <3>2. \A u \in Busy' \ {v} : u \in Busy /\ u \in Handlers
      BY <1>2, <2>1 DEF Busy
    <3>. QED
      BY <1>2, <2>1, <3>1, <3>2
  <2>2. CASE v # w
    <3>1. v \in Busy /\ v \in Handlers
      BY <1>2, <1>5, <2>2 DEF Busy
    <3>. QED
      BY <1>2, <2>2, <3>1
  <2>. QED
    BY <2>1, <2>2
<1>6. SessionsAreFit' /\ LocksHold' /\ KeysAreApart'
  BY <1>3, <1>4, <1>5, QuietInv
<1>. QED
  BY <1>3, <1>6 DEF SessionInv

\* Sessions stay or end, a row is written or none.
LEMMA CloseInv ==
  ASSUME SessionInv, TypeOK', CandidatesGrow,
         \A v \in Busy' : v \in Busy /\ handling'[v] = handling[v],
         UNCHANGED targetRow
  PROVE  SessionInv'
<1>1. SessionsAreFit' /\ LocksHold' /\ KeysAreApart'
  BY QuietInv
<1>. QED
  BY <1>1 DEF SessionInv

LEMMA WriteInv ==
  ASSUME SessionInv, TypeOK', CandidatesGrow, NEW t, NEW r, Stores(t, r),
         \A v \in Busy' :
           /\ v \in Busy /\ handling'[v] = handling[v]
           /\ handling[v].flushed => handling[v].t # t /\ handling[v].row.key # r.key,
         \A u \in DOMAIN targetRow \ {t} : targetRow[u].key # r.key
  PROVE  SessionInv'
<1>1. SessionsAreFit' /\ LocksHold' /\ KeysAreApart'
  BY StoreInv
<1>. QED
  BY <1>1 DEF SessionInv

LEMMA StoresType ==
  ASSUME TypeOK, NEW t \in TargetIds, NEW r \in Targets, Stores(t, r)
  PROVE  /\ targetRow' \in [DOMAIN targetRow' -> Targets] /\ DOMAIN targetRow' \subseteq TargetIds
         /\ DOMAIN targetRow' = DOMAIN targetRow \cup {t} /\ targetRow'[t] = r
         /\ \A u \in DOMAIN targetRow \ {t} : targetRow'[u] = targetRow[u]
BY DEF TypeOK, Stores

LEMMA ExceptStores ==
  ASSUME TypeOK, NEW t \in DOMAIN targetRow, NEW r, targetRow' = [targetRow EXCEPT ![t] = r]
  PROVE  Stores(t, r)
<1>1. DOMAIN targetRow \cup {t} = DOMAIN targetRow
  OBVIOUS
<1>. QED
  BY <1>1 DEF Stores

LEMMA EnqueuedFacts ==
  ASSUME TypeOK, NEW c \in Cids
  PROVE  /\ Enqueued(c) \in SUBSET ArtistIds /\ jobs \subseteq Enqueued(c)
         /\ c # Nil => c \in Enqueued(c) \/ IdentityState(c) = "RESOLVED"
BY DEF Enqueued, TypeOK, Cids

\* Writing a row of a session at its end.
Ends(w, row) ==
  LET s == handling[w]
  IN /\ Goes(w, Nil) /\ CandidatesGrow
     /\ s.t = Nil => UNCHANGED targetRow
     /\ s.t # Nil => /\ s.t \notin HeldTargets(w) /\ SaveTarget(w, row) /\ row \in Targets
                     /\ row.key # s.row.key =>
                          /\ row.key \notin HeldKeys(w)
                          /\ \A u \in DOMAIN targetRow \ {s.t} : targetRow[u].key # row.key

\* What the row becomes, and that the table stays typed and its keys apart.
LEMMA EndsFacts ==
  ASSUME SessionInv, NEW w \in Busy, NEW row, Ends(w, row), handling[w].t # Nil
  PROVE  \E r \in Targets :
           /\ Stores(handling[w].t, r) /\ Saved(handling[w], row, r)
           /\ \A u \in DOMAIN targetRow \ {handling[w].t} : targetRow[u].key # r.key
           /\ \A v \in Busy \ {w} : handling[v].flushed =>
                handling[v].t # handling[w].t /\ handling[v].row.key # r.key
<1>1. row \in Targets /\ SaveTarget(w, row) /\ handling[w].t \notin HeldTargets(w)
  BY DEF Ends
<1>2. row.key # handling[w].row.key =>
        /\ row.key \notin HeldKeys(w)
        /\ \A u \in DOMAIN targetRow \ {handling[w].t} : targetRow[u].key # row.key
  BY DEF Ends
<1>3. PICK r \in Targets : Stores(handling[w].t, r) /\ Saved(handling[w], row, r)
  BY <1>1, SaveStores
<1>4. /\ \A u \in DOMAIN targetRow \ {handling[w].t} : targetRow[u].key # r.key
      /\ \A v \in Busy \ {w} : handling[v].flushed =>
           handling[v].t # handling[w].t /\ handling[v].row.key # r.key
  BY <1>1, <1>2, <1>3, SavedKey
<1>. QED
  BY <1>3, <1>4

LEMMA EndsInv ==
  ASSUME SessionInv, NEW w \in Busy, NEW row, Ends(w, row),
         UNCHANGED <<registered, minted, channelRows, requests>>, jobs' \in SUBSET ArtistIds,
         candidateRow' \in [DOMAIN candidateRow' -> Candidates],
         DOMAIN candidateRow' \subseteq CandidateKeys
  PROVE  SessionInv'
<1>1. TypeOK /\ CandidatesGrow /\ Goes(w, Nil) /\ w \in Handlers
  BY BusySession DEF SessionInv, Ends
<1>2. /\ handling' \in [Handlers -> WatchSessions \cup {Nil}]
      /\ \A v \in Handlers \ {w} : handling'[v] = handling[v]
      /\ Busy' = Busy \ {w}
  BY <1>1, GoesFacts
<1>3. \A v \in Busy' : v \in Busy /\ handling'[v] = handling[v]
  BY <1>2 DEF Busy
<1>4. CASE handling[w].t = Nil
  <2>1. UNCHANGED targetRow
    BY <1>4 DEF Ends
  <2>2. TypeOK'
    BY <1>1, <1>2, <2>1 DEF TypeOK
  <2>. QED
    BY <1>1, <1>3, <2>1, <2>2, CloseInv
<1>5. CASE handling[w].t # Nil
  <2>1. PICK t : t = handling[w].t
    OBVIOUS
  <2>2. t \in TargetIds
    BY <1>1, <1>5, <2>1, BusySession, SessionFields
  <2>3. PICK r \in Targets :
          /\ Stores(t, r)
          /\ \A u \in DOMAIN targetRow \ {t} : targetRow[u].key # r.key
          /\ \A v \in Busy \ {w} : handling[v].flushed => handling[v].t # t /\ handling[v].row.key # r.key
    BY <1>5, <2>1, EndsFacts
  <2>4. targetRow' \in [DOMAIN targetRow' -> Targets] /\ DOMAIN targetRow' \subseteq TargetIds
    BY <1>1, <2>2, <2>3, StoresType
  <2>5. TypeOK'
    BY <1>1, <1>2, <2>4 DEF TypeOK
  <2>6. \A v \in Busy' : /\ v \in Busy /\ handling'[v] = handling[v]
                         /\ handling[v].flushed => handling[v].t # t /\ handling[v].row.key # r.key
    BY <1>2, <1>3, <2>3
  <2>. QED
    BY <1>1, <2>3, <2>5, <2>6, WriteInv
<1>. QED
  BY <1>4, <1>5

LEMMA ConcludeEnds ==
  ASSUME SessionInv, NEW w \in Busy, NEW verified \in Cids, Conclude(w, verified)
  PROVE  /\ Ends(w, ResolvedTarget(handling[w].t, handling[w].row, verified))
         /\ UNCHANGED <<registered, minted, channelRows, requests>>
         /\ jobs' = Enqueued(verified)
         /\ candidateRow' \in [DOMAIN candidateRow' -> Candidates]
         /\ DOMAIN candidateRow' \subseteq CandidateKeys
<1>. USE DEF SessionInv
<1>1. PICK s : s = handling[w]
  OBVIOUS
<1>2. w \in Handlers /\ s \in WatchSessions /\ Fit(s)
  BY <1>1, BusySession DEF SessionsAreFit
<1>3. /\ s.row \in Targets /\ s.row.status \notin Overrides /\ s.row.name \in Names
      /\ s.t \in TargetIds \cup {Nil} /\ s.k \in CandidateKeys \cup {Nil}
      /\ s.k # Nil => s.cand \in Candidates
  BY <1>2, SessionFields, TargetFields DEF Fit
<1>4. PICK row : row = ResolvedTarget(s.t, s.row, verified)
  OBVIOUS
<1>5. /\ row \in Targets
      /\ row.key # s.row.key => \A u \in DOMAIN targetRow \ {s.t} : targetRow[u].key # row.key
  BY <1>3, <1>4, ResolvedFacts
<1>6. PICK rows : rows = SavedCandidate(w, LinkedTo(s.cand, verified))
  OBVIOUS
<1>7. /\ Goes(w, Nil) /\ SaveTarget(w, row)
      /\ s.t # Nil => s.t \notin HeldTargets(w) /\ row.key \notin HeldKeys(w)
      /\ candidateRow' = IF s.t = Nil \/ verified = Nil THEN rows
                         ELSE Upserted(rows, <<"OPERATOR", s.t>>, s.row.name, FALSE, verified)
      /\ jobs' = Enqueued(verified)
      /\ UNCHANGED <<registered, minted, channelRows, requests>>
  BY <1>1, <1>4, <1>6 DEF Conclude
<1>8. s.k # Nil => LinkedTo(s.cand, verified) \in Candidates
                   /\ LinkedTo(s.cand, verified).name = s.cand.name
  BY <1>3, LinkedFacts
<1>9. /\ rows \in [DOMAIN rows -> Candidates] /\ DOMAIN rows \subseteq CandidateKeys
      /\ NamesKept(candidateRow, rows)
  <2>1. PICK cand : cand = LinkedTo(s.cand, verified)
    OBVIOUS
  <2>2. handling[w].k # Nil => cand \in Candidates /\ cand.name = handling[w].cand.name
    BY <1>1, <1>8, <2>1
  <2>3. rows = SavedCandidate(w, cand)
    BY <1>6, <2>1
  <2>4. rows \in [DOMAIN rows -> Candidates] /\ DOMAIN rows \subseteq CandidateKeys
    BY <2>2, <2>3, SavedCandidateFacts
  <2>5. NamesKept(candidateRow, rows)
    BY <2>2, <2>3, SavedCandidateFacts
  <2>. QED
    BY <2>4, <2>5
<1>10. /\ candidateRow' \in [DOMAIN candidateRow' -> Candidates]
       /\ DOMAIN candidateRow' \subseteq CandidateKeys
       /\ CandidatesGrow
  <2>1. CASE s.t = Nil \/ verified = Nil
    BY <1>7, <1>9, <2>1 DEF CandidatesGrow
  <2>2. CASE s.t # Nil /\ verified # Nil
    <3>1. PICK k : k = <<"OPERATOR", s.t>>
      OBVIOUS
    <3>2. k \in CandidateKeys
      BY <1>3, <2>2, <3>1 DEF CandidateKeys
    <3>3. candidateRow' = Upserted(rows, k, s.row.name, FALSE, verified)
      BY <1>7, <2>2, <3>1
    <3>4. /\ candidateRow' \in [DOMAIN rows \cup {k} -> Candidates]
          /\ NamesKept(rows, candidateRow')
      <4>1. rows \in [DOMAIN rows -> Candidates] /\ s.row.name \in Names /\ FALSE \in BOOLEAN
        BY <1>3, <1>9
      <4>2. candidateRow' \in [DOMAIN rows \cup {k} -> Candidates]
        BY <3>3, <4>1, UpsertedFacts
      <4>3. NamesKept(rows, candidateRow')
        BY <3>3, <4>1, UpsertedFacts
      <4>. QED
        BY <4>2, <4>3
    <3>. QED
      BY <1>9, <3>2, <3>4 DEF CandidatesGrow, NamesKept
  <2>. QED
    BY <2>1, <2>2
<1>11. s.t = Nil => UNCHANGED targetRow
  BY <1>1, <1>2, <1>7 DEF SaveTarget, Fit
<1>12. Ends(w, row)
  BY <1>1, <1>5, <1>7, <1>10, <1>11 DEF Ends
<1>. QED
  BY <1>1, <1>4, <1>7, <1>10, <1>12

LEMMA ConcludeInv ==
  ASSUME SessionInv, NEW w \in Busy, NEW verified \in Cids, Conclude(w, verified)
  PROVE  SessionInv'
<1>1. TypeOK
  BY DEF SessionInv
<1>2. PICK row : Ends(w, row)
  BY ConcludeEnds
<1>3. /\ UNCHANGED <<registered, minted, channelRows, requests>>
      /\ jobs' \in SUBSET ArtistIds
      /\ candidateRow' \in [DOMAIN candidateRow' -> Candidates]
      /\ DOMAIN candidateRow' \subseteq CandidateKeys
  BY <1>1, ConcludeEnds, EnqueuedFacts
<1>. QED
  BY <1>2, <1>3, EndsInv

\* A failed call: an add writes what it has, anything else writes nothing.
KeptRow(s) == IF s.k # Nil THEN s.row ELSE [s.row EXCEPT !.cid = Nil, !.gap = "outage"]

LEMMA FailsEnds ==
  ASSUME SessionInv, NEW w \in Handlers, CrawlFails(w)
  PROVE  /\ w \in Busy /\ Goes(w, Nil)
         /\ UNCHANGED <<registered, minted, channelRows, jobs, requests>>
         /\ handling[w].keep => /\ Ends(w, KeptRow(handling[w])) /\ handling[w].t # Nil
                                /\ candidateRow' \in [DOMAIN candidateRow' -> Candidates]
                                /\ DOMAIN candidateRow' \subseteq CandidateKeys
         /\ ~handling[w].keep => UNCHANGED <<targetRow, candidateRow>>
         /\ CandidatesGrow
<1>. USE DEF SessionInv
<1>1. PICK s : s = handling[w]
  OBVIOUS
<1>2. w \in Busy
  BY DEF CrawlFails, Busy
<1>3. s \in WatchSessions /\ Fit(s)
  BY <1>1, <1>2, BusySession DEF SessionsAreFit
<1>4. /\ Goes(w, Nil) /\ UNCHANGED <<registered, minted, channelRows, jobs, requests>>
      /\ s.keep => /\ s.t \notin HeldTargets(w) /\ SaveTarget(w, KeptRow(s))
                   /\ candidateRow' = SavedCandidate(w, s.cand)
      /\ ~s.keep => UNCHANGED <<targetRow, candidateRow>>
  BY <1>1 DEF CrawlFails, KeptRow
<1>5. CASE ~s.keep
  BY <1>1, <1>2, <1>4, <1>5 DEF CandidatesGrow, NamesKept
<1>6. CASE s.keep
  <2>1. s.k # Nil => s.cand \in Candidates
    BY <1>3, SessionFields DEF Fit
  <2>2. /\ candidateRow' \in [DOMAIN candidateRow' -> Candidates]
        /\ DOMAIN candidateRow' \subseteq CandidateKeys
        /\ NamesKept(candidateRow, candidateRow')
    <3>1. PICK cand : cand = s.cand
      OBVIOUS
    <3>2. handling[w].k # Nil => cand \in Candidates /\ cand.name = handling[w].cand.name
      BY <1>1, <2>1, <3>1
    <3>3. PICK new : new = candidateRow'
      OBVIOUS
    <3>4. new = SavedCandidate(w, cand)
      BY <1>4, <1>6, <3>1, <3>3
    <3>5. /\ new \in [DOMAIN new -> Candidates] /\ DOMAIN new \subseteq CandidateKeys
      BY <1>2, <3>2, <3>4, SavedCandidateFacts
    <3>6. NamesKept(candidateRow, new)
      BY <1>2, <3>2, <3>4, SavedCandidateFacts
    <3>. QED
      BY <3>3, <3>5, <3>6
  <2>3. KeptRow(s) \in Targets /\ KeptRow(s).key = s.row.key
    <3>1. s.row \in Targets
      BY <1>3, SessionFields
    <3>. QED
      BY <3>1 DEF KeptRow, Targets
  <2>4. s.t # Nil
    BY <1>3, <1>6 DEF Fit
  <2>5. Ends(w, KeptRow(s))
    BY <1>1, <1>4, <1>6, <2>2, <2>3, <2>4 DEF Ends, CandidatesGrow
  <2>. QED
    BY <1>1, <1>2, <1>4, <1>6, <2>2, <2>4, <2>5 DEF CandidatesGrow
<1>. QED
  BY <1>3, <1>5, <1>6, SessionFields

LEMMA FailsInv ==
  ASSUME SessionInv, NEW w \in Handlers, CrawlFails(w)
  PROVE  SessionInv'
<1>1. TypeOK /\ w \in Busy /\ Goes(w, Nil) /\ handling[w].keep \in BOOLEAN
  BY FailsEnds, BusySession, SessionFields DEF SessionInv
<1>2. CASE handling[w].keep
  <2>1. jobs' \in SUBSET ArtistIds
    BY <1>1, FailsEnds DEF TypeOK
  <2>. QED
    BY <1>1, <1>2, <2>1, FailsEnds, EndsInv
<1>3. CASE ~handling[w].keep
  <2>1. UNCHANGED <<registered, minted, channelRows, jobs, requests, targetRow, candidateRow>>
    BY <1>3, FailsEnds
  <2>2. /\ handling' \in [Handlers -> WatchSessions \cup {Nil}]
        /\ \A v \in Handlers \ {w} : handling'[v] = handling[v]
        /\ Busy' = Busy \ {w}
    BY <1>1, GoesFacts
  <2>3. TypeOK' /\ CandidatesGrow
    BY <1>1, <2>1, <2>2 DEF TypeOK, CandidatesGrow, NamesKept
  <2>4. \A v \in Busy' : v \in Busy /\ handling'[v] = handling[v]
    BY <2>2 DEF Busy
  <2>. QED
    BY <2>1, <2>3, <2>4, CloseInv
<1>. QED
  BY <1>1, <1>2, <1>3

LEMMA MoveFits ==
  ASSUME SessionInv, NEW w \in Busy, NEW s \in WatchSessions,
         s.t = handling[w].t, s.row = handling[w].row, s.flushed = handling[w].flushed,
         s.keep = handling[w].keep, s.k = handling[w].k, s.cand = handling[w].cand,
         s.at = "confirm" \/ handling[w].at # "confirm"
  PROVE  Fit(s) /\ Locked(w, s)
<1>1. Fit(handling[w]) /\ Locked(w, handling[w])
  BY DEF SessionInv, SessionsAreFit, LocksHold
<1>. QED
  BY <1>1 DEF Fit, Locked

LEMMA FindFacts ==
  ASSUME SessionInv, NEW w \in Handlers, FindByName(w)
  PROVE  /\ w \in Busy /\ handling[w].at = "find"
         /\ \/ /\ UNCHANGED <<registered, minted, channelRows, jobs, candidateRow, targetRow, requests>>
               /\ \E s \in WatchSessions :
                    /\ Goes(w, s) /\ Fit(s) /\ Locked(w, s) /\ s.row = handling[w].row
                    /\ s.at = "create" => EnoughEvidence(handling[w])
            \/ ~EnoughEvidence(handling[w]) /\ Conclude(w, Nil)
<1>1. w \in Busy /\ handling[w].at = "find"
  BY DEF FindByName, Busy
<1>2. PICK s : s = handling[w]
  OBVIOUS
<1>3. s \in WatchSessions
  BY <1>1, <1>2, BusySession DEF SessionInv
<1>4. ASSUME NEW c \in registered, Goes(w, [s EXCEPT !.cid = c, !.at = "confirm"])
      PROVE  \E e \in WatchSessions : /\ Goes(w, e) /\ Fit(e) /\ Locked(w, e) /\ e.row = s.row
                                      /\ e.at = "create" => EnoughEvidence(s)
  <2>1. PICK e : e = [s EXCEPT !.cid = c, !.at = "confirm"]
    OBVIOUS
  <2>2. c \in ArtistIds
    BY DEF SessionInv, TypeOK
  <2>3. /\ e \in WatchSessions /\ e.at = "confirm"
        /\ e.t = s.t /\ e.row = s.row /\ e.flushed = s.flushed /\ e.keep = s.keep
        /\ e.k = s.k /\ e.cand = s.cand
    BY <1>3, <2>1, <2>2 DEF WatchSessions
  <2>4. Fit(e) /\ Locked(w, e)
    BY <1>1, <1>2, <2>3, MoveFits
  <2>. QED
    BY <1>4, <2>1, <2>3, <2>4
<1>5. ASSUME EnoughEvidence(s), Goes(w, [s EXCEPT !.at = "create"])
      PROVE  \E e \in WatchSessions : /\ Goes(w, e) /\ Fit(e) /\ Locked(w, e) /\ e.row = s.row
                                      /\ e.at = "create" => EnoughEvidence(s)
  <2>1. PICK e : e = [s EXCEPT !.at = "create"]
    OBVIOUS
  <2>2. /\ e \in WatchSessions
        /\ e.t = s.t /\ e.row = s.row /\ e.flushed = s.flushed /\ e.keep = s.keep
        /\ e.k = s.k /\ e.cand = s.cand
    BY <1>3, <2>1 DEF WatchSessions
  <2>3. Fit(e) /\ Locked(w, e)
    BY <1>1, <1>2, <2>2, MoveFits
  <2>. QED
    BY <1>5, <2>1, <2>2, <2>3
<1>. QED
  BY <1>1, <1>2, <1>4, <1>5 DEF FindByName

LEMMA CreateFacts ==
  ASSUME SessionInv, NEW w \in Handlers, CreateArtist(w)
  PROVE  /\ w \in Busy /\ handling[w].at = "create"
         /\ UNCHANGED <<channelRows, jobs, candidateRow, targetRow, requests>>
         /\ \E c \in ArtistIds : /\ Bearing[c] = handling[w].row.name
                                 /\ registered' = registered \cup {c}
                                 /\ minted' = minted \cup ({c} \ registered)
         /\ \E s \in WatchSessions : Goes(w, s) /\ Fit(s) /\ Locked(w, s) /\ s.at = "confirm"
<1>1. w \in Busy /\ handling[w].at = "create"
  BY DEF CreateArtist, Busy
<1>2. PICK s : s = handling[w]
  OBVIOUS
<1>3. s \in WatchSessions
  BY <1>1, <1>2, BusySession DEF SessionInv
<1>4. PICK c \in ArtistIds : /\ Bearing[c] = s.row.name
                             /\ registered' = registered \cup {c}
                             /\ minted' = minted \cup ({c} \ registered)
                             /\ Goes(w, [s EXCEPT !.cid = c, !.at = "confirm"])
  BY <1>2 DEF CreateArtist
<1>5. PICK e : e = [s EXCEPT !.cid = c, !.at = "confirm"]
  OBVIOUS
<1>6. /\ e \in WatchSessions /\ e.at = "confirm"
      /\ e.t = s.t /\ e.row = s.row /\ e.flushed = s.flushed /\ e.keep = s.keep
      /\ e.k = s.k /\ e.cand = s.cand
  BY <1>3, <1>5 DEF WatchSessions
<1>7. Fit(e) /\ Locked(w, e)
  BY <1>1, <1>2, <1>6, MoveFits
<1>8. UNCHANGED <<channelRows, jobs, candidateRow, targetRow, requests>>
  BY DEF CreateArtist
<1>9. \E q \in WatchSessions : Goes(w, q) /\ Fit(q) /\ Locked(w, q) /\ q.at = "confirm"
  BY <1>4, <1>5, <1>6, <1>7
<1>. QED
  BY <1>1, <1>2, <1>4, <1>8, <1>9

\* A row that is free may be taken, or written under its own key.
LEMMA FreeRow ==
  ASSUME SessionInv, NEW t \in DOMAIN targetRow, \A v \in Flushing : handling[v].t # t
  PROVE  /\ \A v \in Busy : handling[v].flushed =>
              handling[v].t # t /\ handling[v].row.key # targetRow[t].key
         /\ \A u \in DOMAIN targetRow \ {t} : targetRow[u].key # targetRow[t].key
<1>1. \A u \in DOMAIN targetRow \ {t} : targetRow[u].key # targetRow[t].key
  BY DEF SessionInv, KeysAreApart
<1>2. ASSUME NEW v \in Busy, handling[v].flushed
      PROVE  handling[v].t # t /\ handling[v].row.key # targetRow[t].key
  <2>1. v \in Flushing
    BY <1>2 DEF Flushing, Busy
  <2>2. Locked(v, handling[v])
    BY DEF SessionInv, LocksHold
  <2>. QED
    BY <1>2, <2>1, <2>2 DEF Locked
<1>. QED
  BY <1>1, <1>2

\* A stored row is taken, to be written at the end if it is flushed.
LEMMA TakesRow ==
  ASSUME SessionInv, NEW w \in Handlers, handling[w] = Nil, NEW t \in DOMAIN targetRow,
         NEW row \in Targets, row.key = targetRow[t].key, row.status \notin Overrides,
         NEW flushed \in BOOLEAN, NEW keep \in BOOLEAN,
         flushed => t \notin HeldTargets(w) /\ (row.cid = Nil => row.status \notin Live),
         BeginResolve(w, t, row, flushed, keep)
  PROVE  \E s \in WatchSessions : Goes(w, s) /\ Fit(s) /\ Locked(w, s) /\ s.at # "create"
<1>1. TypeOK /\ t \in TargetIds /\ t # Nil
  BY DEF SessionInv, TypeOK
<1>2. PICK s \in WatchSessions : Begun(w, t, row, flushed, keep, s)
  BY <1>1, Begins
<1>3. Fit(s)
  BY <1>1, <1>2 DEF Begun, Fit
<1>4. ASSUME flushed PROVE \A v \in Flushing : handling[v].t # t
  BY <1>4 DEF HeldTargets, Flushing
<1>5. Locked(w, s)
  <2>1. s.t = t /\ s.row.key = targetRow[t].key /\ s.flushed = flushed
    BY <1>2 DEF Begun
  <2>2. CASE ~flushed
    BY <2>1, <2>2 DEF Locked
  <2>3. CASE flushed
    <3>1. /\ \A v \in Busy : handling[v].flushed =>
               handling[v].t # t /\ handling[v].row.key # targetRow[t].key
          /\ \A u \in DOMAIN targetRow \ {t} : targetRow[u].key # targetRow[t].key
      BY <1>4, <2>3, FreeRow
    <3>. QED
      BY <2>1, <3>1 DEF Locked
  <2>. QED
    BY <2>2, <2>3
<1>. QED
  BY <1>2, <1>3, <1>5 DEF Begun

\* A session opens and the tables stay.
Opens(w) == \E s \in WatchSessions : Goes(w, s) /\ Fit(s) /\ Locked(w, s) /\ s.at # "create"

LEMMA AddFacts ==
  ASSUME SessionInv, NEW w \in Clients, NEW p \in Picks, Add(w, p)
  PROVE  /\ w \in Handlers /\ handling[w] = Nil /\ requests' \in Nat
         /\ UNCHANGED <<registered, minted, channelRows, jobs, candidateRow>>
         /\ \/ Opens(w) /\ UNCHANGED targetRow
            \/ UNCHANGED <<handling, targetRow>>
            \/ /\ UNCHANGED handling
               /\ \E t \in DOMAIN targetRow, r \in Targets :
                    /\ Stores(t, r) /\ t \notin HeldTargets(w)
                    /\ r.key = targetRow[t].key /\ r.status = targetRow[t].status
                    /\ r.gap = "unvetted"
<1>. USE DEF SessionInv
<1>1. w \in Handlers /\ handling[w] = Nil /\ requests' \in Nat /\ p.cid \in Cids /\ p.name \in Names
  <2>1. w \in Handlers /\ handling[w] = Nil /\ requests' \in Nat
    <3>1. handling[w] = Nil /\ AskOperator
      BY Zenon DEF Add
    <3>. QED
      BY <3>1 DEF AskOperator, TypeOK, Handlers
  <2>2. p.cid \in Cids
    BY DEF Cids
  <2>3. p.name \in Names
    BY DEF Names
  <2>. QED
    BY <2>1, <2>2, <2>3
<1>2. UNCHANGED <<registered, minted, channelRows, jobs, candidateRow>>
  BY DEF Add
<1>3. PICK key : key = DedupKey(p.name, p.cid)
  OBVIOUS
<1>4. PICK same : same = {t \in DOMAIN targetRow : targetRow[t].key = key}
  OBVIOUS
<1>5. PICK free : free = TargetIds \ (DOMAIN targetRow \cup {handling[v].t : v \in Others(w)})
  OBVIOUS
<1>6. key \notin HeldKeys(w)
  BY <1>3 DEF Add
<1>7. CASE same = {}
  <2>1. PICK t \in free : BeginResolve(w, t, NewTarget(p.name, p.cid), TRUE, TRUE) /\ UNCHANGED targetRow
    BY <1>3, <1>4, <1>5, <1>7 DEF Add
  <2>2. PICK row : row = NewTarget(p.name, p.cid)
    OBVIOUS
  <2>3. key \in TargetKeys
    BY <1>1, <1>3 DEF TargetKeys, Cids
  <2>4. row \in Targets /\ row.key = key /\ row.status = "NEW"
    BY <1>1, <1>3, <2>2, <2>3 DEF NewTarget, Targets, Cids, Pending
  <2>5. t \in TargetIds /\ t \notin DOMAIN targetRow /\ t # Nil /\ \A v \in Others(w) : handling[v].t # t
    BY <1>5, <2>1
  <2>6. PICK s \in WatchSessions : Begun(w, t, row, TRUE, TRUE, s)
    BY <1>1, <2>1, <2>2, <2>4, <2>5, Begins
  <2>7. s.t = t /\ s.row = row /\ s.flushed /\ s.at # "create" /\ Goes(w, s)
        /\ (s.k = Nil => s.at = "confirm")
        /\ (s.k # Nil => s.cand # Nil /\ row.cid = Nil /\ s.k[1] = "OPERATOR")
    BY <2>6 DEF Begun
  <2>8. Fit(s)
    BY <2>4, <2>5, <2>7 DEF Fit, Overrides, Live
  <2>9. ASSUME NEW v \in Busy, v # w, handling[v].flushed
        PROVE  handling[v].t # t /\ handling[v].row.key # key
    <3>1. v \in Others(w)
      BY <2>9 DEF Others, Busy
    <3>2. handling[v].row.key \in HeldKeys(w)
      BY <1>1, <2>9, HeldFacts
    <3>. QED
      BY <1>6, <2>5, <3>1, <3>2
  <2>10. \A u \in DOMAIN targetRow : targetRow[u].key = key <=> u = t
    BY <1>4, <1>7, <2>5
  <2>11. Locked(w, s)
    BY <2>4, <2>7, <2>9, <2>10 DEF Locked
  <2>. QED
    BY <1>1, <1>2, <2>1, <2>7, <2>8, <2>11 DEF Opens
<1>8. CASE same # {}
  <2>11. PICK t \in same :
           LET merged == p.cid # Nil /\ targetRow[t].cid = Nil
               row == IF merged THEN [targetRow[t] EXCEPT !.cid = p.cid, !.gap = "unvetted"]
                      ELSE targetRow[t]
           IN  /\ merged => t \notin HeldTargets(w)
               /\ IF Skipped(row) THEN targetRow' = [targetRow EXCEPT ![t] = row] /\ UNCHANGED handling
                  ELSE BeginResolve(w, t, row, merged, TRUE) /\ UNCHANGED targetRow
    BY <1>3, <1>4, <1>8 DEF Add
  <2>12. PICK merged \in BOOLEAN : merged = (p.cid # Nil /\ targetRow[t].cid = Nil)
    OBVIOUS
  <2>13. PICK row : row = IF merged THEN [targetRow[t] EXCEPT !.cid = p.cid, !.gap = "unvetted"]
                          ELSE targetRow[t]
    OBVIOUS
  <2>1. /\ merged = (p.cid # Nil /\ targetRow[t].cid = Nil)
        /\ row = IF merged THEN [targetRow[t] EXCEPT !.cid = p.cid, !.gap = "unvetted"] ELSE targetRow[t]
        /\ merged => t \notin HeldTargets(w)
        /\ IF Skipped(row) THEN targetRow' = [targetRow EXCEPT ![t] = row] /\ UNCHANGED handling
           ELSE BeginResolve(w, t, row, merged, TRUE) /\ UNCHANGED targetRow
    BY <2>11, <2>12, <2>13
  <2>2. merged \in BOOLEAN /\ t \in DOMAIN targetRow /\ targetRow[t] \in Targets
    BY <1>4, <2>1 DEF TypeOK
  <2>3. /\ row \in Targets /\ row.key = targetRow[t].key /\ row.status = targetRow[t].status
        /\ merged => row.gap = "unvetted" /\ row.cid # Nil
        /\ ~merged => row = targetRow[t]
    BY <1>1, <2>1, <2>2 DEF Targets, Cids
  <2>4. CASE Skipped(row) /\ merged
    <3>1. Stores(t, row)
      BY <2>1, <2>2, <2>4, ExceptStores
    <3>. QED
      BY <1>1, <1>2, <2>1, <2>2, <2>3, <2>4, <3>1
  <2>5. CASE Skipped(row) /\ ~merged
    <3>1. UNCHANGED targetRow
      BY <2>1, <2>2, <2>3, <2>5 DEF TypeOK
    <3>. QED
      BY <1>1, <1>2, <2>1, <2>5, <3>1
  <2>6. CASE ~Skipped(row)
    <3>1. row.status \notin Overrides
      BY <2>6 DEF Skipped
    <3>2. BeginResolve(w, t, row, merged, TRUE) /\ UNCHANGED targetRow
      BY <2>1, <2>6
    <3>3. merged => t \notin HeldTargets(w) /\ (row.cid = Nil => row.status \notin Live)
      BY <2>1, <2>3
    <3>4. BeginResolve(w, t, row, merged, TRUE) /\ TRUE \in BOOLEAN /\ row.key = targetRow[t].key
      BY <2>3, <3>2
    <3>5. \E s \in WatchSessions : Goes(w, s) /\ Fit(s) /\ Locked(w, s) /\ s.at # "create"
      <4>1. CASE merged
        <5>1. BeginResolve(w, t, row, TRUE, TRUE) /\ t \notin HeldTargets(w) /\ row.cid # Nil
          BY <2>3, <3>3, <3>4, <4>1, Zenon
        <5>. QED
          BY <1>1, <2>2, <2>3, <3>1, <5>1, TakesRow
      <4>2. CASE ~merged
        <5>1. BeginResolve(w, t, row, FALSE, TRUE)
          BY <2>2, <3>4, <4>2, Zenon
        <5>. QED
          BY <1>1, <2>2, <2>3, <3>1, <5>1, TakesRow
      <4>. QED
        BY <4>1, <4>2
    <3>6. Opens(w)
      BY <3>5 DEF Opens
    <3>. QED
      BY <1>1, <1>2, <3>2, <3>6
  <2>. QED
    BY <2>2, <2>4, <2>5, <2>6
<1>. QED
  BY <1>7, <1>8

LEMMA ReresolveFacts ==
  ASSUME SessionInv, NEW w \in Clients, Reresolve(w)
  PROVE  /\ w \in Handlers /\ Opens(w)
         /\ UNCHANGED <<registered, minted, channelRows, jobs, candidateRow, targetRow, requests>>
<1>1. w \in Handlers /\ handling[w] = Nil
  BY DEF Reresolve, Handlers
<1>2. UNCHANGED <<registered, minted, channelRows, jobs, candidateRow, targetRow, requests>>
  BY DEF Reresolve
<1>3. PICK t \in DOMAIN targetRow :
        targetRow[t].status \in Pending /\ BeginResolve(w, t, targetRow[t], FALSE, FALSE)
  BY DEF Reresolve
<1>4. PICK row : row = targetRow[t]
  OBVIOUS
<1>5. row \in Targets /\ row.status \notin Overrides /\ row.key = targetRow[t].key
  BY <1>3, <1>4 DEF SessionInv, TypeOK, Pending, Overrides
<1>6. BeginResolve(w, t, row, FALSE, FALSE)
  BY <1>3, <1>4
<1>7. Opens(w)
  BY <1>1, <1>5, <1>6, TakesRow DEF Opens
<1>. QED
  BY <1>1, <1>2, <1>7

\* A new status of a row that is free; `shown` is one it may have.
Restates(t, status) ==
  /\ \A v \in Flushing : handling[v].t # t
  /\ \E r \in Targets : /\ Stores(t, r) /\ r.status = status /\ r.key = targetRow[t].key
                        /\ r.cid = targetRow[t].cid /\ r.gap = targetRow[t].gap

LEMMA RestatesRow ==
  ASSUME TypeOK, NEW t \in DOMAIN targetRow, NEW status \in Pending \cup Live \cup Overrides,
         \A v \in Flushing : handling[v].t # t,
         targetRow' = [targetRow EXCEPT ![t].status = status]
  PROVE  Restates(t, status)
<1>1. targetRow[t] \in Targets
  BY DEF TypeOK
<1>2. PICK r : r = [targetRow[t] EXCEPT !.status = status]
  OBVIOUS
<1>3. /\ r \in Targets /\ r.status = status /\ r.key = targetRow[t].key
      /\ r.cid = targetRow[t].cid /\ r.gap = targetRow[t].gap
  BY <1>1, <1>2 DEF Targets
<1>4. targetRow' = [targetRow EXCEPT ![t] = r]
  BY <1>2
<1>5. Stores(t, r)
  BY <1>4, ExceptStores
<1>. QED
  BY <1>3, <1>5 DEF Restates

LEMMA ResumeFacts ==
  ASSUME SessionInv, NEW w \in Clients, NEW t \in DOMAIN targetRow, Resume(w, t)
  PROVE  /\ w \in Handlers /\ handling[w] = Nil /\ requests' \in Nat
         /\ UNCHANGED <<registered, minted, channelRows, jobs, candidateRow>>
         /\ \/ Opens(w) /\ UNCHANGED targetRow
            \/ /\ UNCHANGED handling /\ targetRow[t].cid # Nil
               /\ \E status \in Live : Restates(t, status)
<1>. USE DEF SessionInv
<1>1. w \in Handlers /\ handling[w] = Nil /\ requests' \in Nat /\ t \notin HeldTargets(w)
  BY DEF Resume, AskOperator, TypeOK, Handlers
<1>2. UNCHANGED <<registered, minted, channelRows, jobs, candidateRow>>
  BY DEF Resume
<1>3. PICK row : row = [targetRow[t] EXCEPT !.status = "NEW"]
  OBVIOUS
<1>4. /\ row \in Targets /\ row.status = "NEW" /\ row.key = targetRow[t].key
      /\ row.cid = targetRow[t].cid
  BY <1>3 DEF TypeOK, Targets, Pending
<1>5. CASE row.cid = Nil
  <2>1. BeginResolve(w, t, row, TRUE, FALSE) /\ UNCHANGED targetRow
    BY <1>3, <1>5 DEF Resume
  <2>2. Opens(w)
    BY <1>1, <1>4, <2>1, TakesRow DEF Opens, Overrides, Live
  <2>. QED
    BY <1>1, <1>2, <2>1, <2>2
<1>6. CASE row.cid # Nil
  <2>1. PICK status : status = EffectiveStatus(row)
    OBVIOUS
  <2>2. status \in Live
    BY <1>4, <1>6, <2>1 DEF EffectiveStatus, Live, Overrides
  <2>3. targetRow' = [targetRow EXCEPT ![t].status = status] /\ UNCHANGED handling
    BY <1>3, <1>6, <2>1 DEF Resume
  <2>4. \A v \in Flushing : handling[v].t # t
    BY <1>1 DEF HeldTargets, Flushing
  <2>5. Restates(t, status)
    BY <2>2, <2>3, <2>4, RestatesRow
  <2>. QED
    BY <1>1, <1>2, <1>4, <1>6, <2>2, <2>3, <2>5
<1>. QED
  BY <1>5, <1>6

LEMMA OverrideFacts ==
  ASSUME SessionInv, NEW t \in DOMAIN targetRow, NEW status \in Overrides, Override(t, status)
  PROVE  /\ UNCHANGED <<registered, minted, channelRows, jobs, candidateRow, handling, requests>>
         /\ Restates(t, status)
BY RestatesRow DEF Override, SessionInv

LEMMA PromoteFacts ==
  ASSUME SessionInv, NEW w \in Passes, Promote(w)
  PROVE  /\ w \in Handlers /\ Opens(w)
         /\ UNCHANGED <<registered, minted, channelRows, jobs, candidateRow, targetRow, requests>>
<1>1. w \in Handlers /\ handling[w] = Nil
      /\ UNCHANGED <<registered, minted, channelRows, jobs, candidateRow, targetRow, requests>>
  BY DEF Promote, Handlers
<1>12. PICK k \in DOMAIN candidateRow :
         LET c == candidateRow[k]
         IN  Goes(w, [Session(Nil, NewTarget(c.name, c.cid), FALSE, FALSE) EXCEPT
                        !.k = k, !.cand = c, !.at = IF c.cid = Nil THEN "find" ELSE "confirm"])
  BY DEF Promote
<1>13. PICK c : c = candidateRow[k]
  OBVIOUS
<1>2. /\ c = candidateRow[k]
      /\ Goes(w, [Session(Nil, NewTarget(c.name, c.cid), FALSE, FALSE) EXCEPT
                     !.k = k, !.cand = c, !.at = IF c.cid = Nil THEN "find" ELSE "confirm"])
  BY <1>12, <1>13
<1>3. c \in Candidates /\ k \in CandidateKeys /\ k # Nil /\ c # Nil
  BY <1>2 DEF SessionInv, TypeOK
<1>4. PICK row : row = NewTarget(c.name, c.cid)
  OBVIOUS
<1>5. row \in Targets /\ row.status = "NEW" /\ row.name = c.name /\ row.cid \in Cids
  <2>1. c.name \in Names /\ c.cid \in ArtistIds \cup {Nil}
    BY <1>3 DEF Candidates
  <2>2. DedupKey(c.name, c.cid) \in TargetKeys
    BY <2>1 DEF TargetKeys
  <2>. QED
    BY <1>4, <2>1, <2>2 DEF NewTarget, Targets, Pending, Cids
<1>6. PICK s : s = [Session(Nil, row, FALSE, FALSE) EXCEPT
                      !.k = k, !.cand = c, !.at = IF c.cid = Nil THEN "find" ELSE "confirm"]
  OBVIOUS
<1>7. s = [t |-> Nil, row |-> row, flushed |-> FALSE, keep |-> FALSE, k |-> k, cand |-> c,
           at |-> IF c.cid = Nil THEN "find" ELSE "confirm", cid |-> row.cid]
  BY <1>6 DEF Session
<1>8. s \in WatchSessions
  BY <1>3, <1>5, <1>7 DEF WatchSessions, Cids
<1>9. Fit(s)
  BY <1>2, <1>3, <1>5, <1>7 DEF Fit, Overrides
<1>10. Locked(w, s) /\ s.at # "create"
  BY <1>7 DEF Locked
<1>11. Goes(w, s)
  BY <1>2, <1>4, <1>6
<1>. QED
  BY <1>1, <1>8, <1>9, <1>10, <1>11 DEF Opens

--------------------------------------------------------------------------------
(* The sessions, in every step.                                            *)

LEMMA OpensInv ==
  ASSUME SessionInv, NEW w \in Handlers, Opens(w), requests' \in Nat,
         UNCHANGED <<registered, minted, channelRows, jobs, candidateRow, targetRow>>
  PROVE  SessionInv'
<1>1. PICK s \in WatchSessions : Goes(w, s) /\ Fit(s) /\ Locked(w, s)
  BY DEF Opens
<1>2. registered' \in SUBSET ArtistIds /\ minted' \in SUBSET ArtistIds
  BY DEF SessionInv, TypeOK
<1>3. UNCHANGED <<channelRows, jobs, candidateRow, targetRow>>
  OBVIOUS
<1>. QED
  BY <1>1, <1>2, <1>3, OpenInv

LEMMA StoresInv ==
  ASSUME SessionInv, NEW t \in DOMAIN targetRow, NEW r \in Targets, Stores(t, r),
         r.key = targetRow[t].key, \A v \in Flushing : handling[v].t # t, requests' \in Nat,
         UNCHANGED <<registered, minted, channelRows, jobs, candidateRow, handling>>
  PROVE  SessionInv'
<1>1. TypeOK /\ t \in TargetIds
  BY DEF SessionInv, TypeOK
<1>2. targetRow' \in [DOMAIN targetRow' -> Targets] /\ DOMAIN targetRow' \subseteq TargetIds
  BY <1>1, StoresType
<1>3. TypeOK' /\ CandidatesGrow
  BY <1>1, <1>2 DEF TypeOK, CandidatesGrow, NamesKept
<1>4. /\ \A v \in Busy : handling[v].flushed => handling[v].t # t /\ handling[v].row.key # r.key
      /\ \A u \in DOMAIN targetRow \ {t} : targetRow[u].key # r.key
  BY FreeRow
<1>5. \A v \in Busy' : /\ v \in Busy /\ handling'[v] = handling[v]
                       /\ handling[v].flushed => handling[v].t # t /\ handling[v].row.key # r.key
  BY <1>4 DEF Busy
<1>. QED
  BY <1>3, <1>4, <1>5, WriteInv

LEMMA RestatesInv ==
  ASSUME SessionInv, NEW t \in DOMAIN targetRow, NEW status, Restates(t, status), requests' \in Nat,
         UNCHANGED <<registered, minted, channelRows, jobs, candidateRow, handling>>
  PROVE  SessionInv'
<1>1. PICK r \in Targets : Stores(t, r) /\ r.key = targetRow[t].key
  BY DEF Restates
<1>2. \A v \in Flushing : handling[v].t # t
  BY DEF Restates
<1>. QED
  BY <1>1, <1>2, StoresInv

\* The sessions and the targets are left alone.
LEMMA AsideInv ==
  ASSUME SessionInv, UNCHANGED <<targetRow, handling, minted, requests>>, CandidatesGrow,
         registered' \in SUBSET ArtistIds, jobs' \in SUBSET ArtistIds,
         channelRows' \in [ArtistIds -> SUBSET {"PENDING", "AMBIGUOUS", "RESOLVED"}],
         candidateRow' \in [DOMAIN candidateRow' -> Candidates],
         DOMAIN candidateRow' \subseteq CandidateKeys
  PROVE  SessionInv'
<1>1. TypeOK'
  BY DEF SessionInv, TypeOK
<1>2. \A v \in Busy' : v \in Busy /\ handling'[v] = handling[v]
  BY DEF Busy
<1>. QED
  BY <1>1, <1>2, CloseInv

LEMMA DiscoverFacts ==
  ASSUME SessionInv, NEW f \in Finds, Discover(f)
  PROVE  /\ CandidatesGrow /\ jobs' = Enqueued(f.cid) /\ f.cid \in Cids
         /\ candidateRow' \in [DOMAIN candidateRow' -> Candidates]
         /\ DOMAIN candidateRow' \subseteq CandidateKeys
         /\ UNCHANGED <<registered, minted, channelRows, targetRow, handling, requests>>
<1>1. f.cid \in Cids /\ f.music \in BOOLEAN
  BY DEF Cids
<1>2. f.name \in Names
  BY DEF Names
<1>3. PICK k : k = <<f.source, f.sid>>
  OBVIOUS
<1>4. k \in CandidateKeys
  BY <1>3 DEF CandidateKeys
<1>5. candidateRow \in [DOMAIN candidateRow -> Candidates] /\ DOMAIN candidateRow \subseteq CandidateKeys
  BY DEF SessionInv, TypeOK
<1>6. candidateRow' = Upserted(candidateRow, k, f.name, f.music, f.cid)
  BY <1>3 DEF Discover
<1>9. PICK name \in Names, music \in BOOLEAN, cid \in Cids : name = f.name /\ music = f.music /\ cid = f.cid
  BY <1>1, <1>2
<1>10. PICK new : new = candidateRow'
  OBVIOUS
<1>11. new = Upserted(candidateRow, k, name, music, cid)
  BY <1>6, <1>9, <1>10
<1>12. new \in [DOMAIN candidateRow \cup {k} -> Candidates]
  BY <1>5, <1>11, UpsertedFacts
<1>13. NamesKept(candidateRow, new)
  BY <1>5, <1>11, UpsertedFacts
<1>7. candidateRow' \in [DOMAIN candidateRow \cup {k} -> Candidates]
  BY <1>10, <1>12
<1>8. NamesKept(candidateRow, candidateRow')
  BY <1>10, <1>13
<1>. QED
  BY <1>1, <1>4, <1>5, <1>7, <1>8 DEF Discover, CandidatesGrow

LEMMA InitSessions ==
  ASSUME WatchInit
  PROVE  SessionInv
<1>1. TypeOK
  BY DEF WatchInit, TypeOK
<1>2. Busy = {} /\ DOMAIN targetRow = {}
  BY DEF WatchInit, Busy
<1>. QED
  BY <1>1, <1>2 DEF SessionInv, SessionsAreFit, LocksHold, KeysAreApart

LEMMA NextSessions ==
  ASSUME SessionInv, [WatchNext]_watchVars
  PROVE  SessionInv'
<1>0. TypeOK /\ requests \in Nat
  BY DEF SessionInv, TypeOK
<1>1. ASSUME NEW w \in Clients, NEW p \in Picks, Add(w, p) PROVE SessionInv'
  <2>1. /\ w \in Handlers /\ handling[w] = Nil /\ requests' \in Nat
        /\ UNCHANGED <<registered, minted, channelRows, jobs, candidateRow>>
    BY <1>1, AddFacts
  <2>2. CASE Opens(w) /\ UNCHANGED targetRow
    BY <2>1, <2>2, OpensInv
  <2>3. CASE UNCHANGED <<handling, targetRow>>
    <3>1. TypeOK' /\ CandidatesGrow
      BY <1>0, <2>1, <2>3 DEF TypeOK, CandidatesGrow, NamesKept
    <3>2. \A v \in Busy' : v \in Busy /\ handling'[v] = handling[v]
      BY <2>3 DEF Busy
    <3>. QED
      BY <2>3, <3>1, <3>2, CloseInv
  <2>4. ASSUME UNCHANGED handling, NEW t \in DOMAIN targetRow, NEW r \in Targets, Stores(t, r),
               t \notin HeldTargets(w), r.key = targetRow[t].key
        PROVE  SessionInv'
    <3>1. \A v \in Flushing : handling[v].t # t
      BY <2>1, <2>4 DEF HeldTargets, Flushing
    <3>. QED
      BY <2>1, <2>4, <3>1, StoresInv
  <2>. QED
    BY <1>1, <2>2, <2>3, <2>4, AddFacts
<1>2. ASSUME NEW w \in Clients, Reresolve(w) PROVE SessionInv'
  BY <1>0, <1>2, ReresolveFacts, OpensInv
<1>3. ASSUME NEW w \in Clients, NEW t \in DOMAIN targetRow, Resume(w, t) PROVE SessionInv'
  <2>1. /\ w \in Handlers /\ requests' \in Nat
        /\ UNCHANGED <<registered, minted, channelRows, jobs, candidateRow>>
    BY <1>3, ResumeFacts
  <2>2. CASE Opens(w) /\ UNCHANGED targetRow
    BY <2>1, <2>2, OpensInv
  <2>3. ASSUME UNCHANGED handling, NEW status \in Live, Restates(t, status) PROVE SessionInv'
    BY <2>1, <2>3, RestatesInv
  <2>. QED
    BY <1>3, <2>2, <2>3, ResumeFacts
<1>4. ASSUME NEW w \in Passes, Promote(w) PROVE SessionInv'
  BY <1>0, <1>4, PromoteFacts, OpensInv
<1>5. ASSUME NEW w \in Handlers, FindByName(w) PROVE SessionInv'
  <2>1. w \in Busy /\ Nil \in Cids
    BY <1>5, FindFacts DEF Cids
  <2>2. ASSUME UNCHANGED <<registered, minted, channelRows, jobs, candidateRow, targetRow, requests>>,
               NEW s \in WatchSessions, Goes(w, s), Fit(s), Locked(w, s)
        PROVE  SessionInv'
    <3>1. registered' \in SUBSET ArtistIds /\ minted' \in SUBSET ArtistIds /\ requests' \in Nat
      BY <1>0, <2>2 DEF TypeOK
    <3>2. UNCHANGED <<channelRows, jobs, candidateRow, targetRow>>
      BY <2>2
    <3>. QED
      BY <2>2, <3>1, <3>2, OpenInv
  <2>3. CASE Conclude(w, Nil)
    BY <2>1, <2>3, ConcludeInv
  <2>. QED
    BY <1>5, <2>2, <2>3, FindFacts
<1>6. ASSUME NEW w \in Handlers, CreateArtist(w) PROVE SessionInv'
  <2>1. PICK c \in ArtistIds : registered' = registered \cup {c} /\ minted' = minted \cup ({c} \ registered)
    BY <1>6, CreateFacts
  <2>2. PICK s \in WatchSessions : Goes(w, s) /\ Fit(s) /\ Locked(w, s)
    BY <1>6, CreateFacts
  <2>3. UNCHANGED <<channelRows, jobs, candidateRow, targetRow, requests>>
    BY <1>6, CreateFacts
  <2>4. registered' \in SUBSET ArtistIds /\ minted' \in SUBSET ArtistIds /\ requests' \in Nat
    BY <1>0, <2>1, <2>3 DEF TypeOK
  <2>5. UNCHANGED <<channelRows, jobs, candidateRow, targetRow>>
    BY <2>3
  <2>. QED
    BY <2>2, <2>4, <2>5, OpenInv
<1>7. ASSUME NEW w \in Handlers, ConfirmRegistered(w) PROVE SessionInv'
  <2>1. PICK c : c = IF handling[w].cid \in registered THEN handling[w].cid ELSE Nil
    OBVIOUS
  <2>2. c \in Cids /\ w \in Busy /\ Conclude(w, c)
    BY <1>0, <1>7, <2>1 DEF ConfirmRegistered, Busy, Cids, TypeOK
  <2>. QED
    BY <2>2, ConcludeInv
<1>8. ASSUME NEW w \in Handlers, CrawlFails(w) PROVE SessionInv'
  BY <1>8, FailsInv
<1>9. ASSUME NEW t \in DOMAIN targetRow, NEW status \in Overrides, Override(t, status) PROVE SessionInv'
  BY <1>0, <1>9, OverrideFacts, RestatesInv
<1>10. ASSUME NEW f \in Finds, Discover(f) PROVE SessionInv'
  <2>1. jobs' \in SUBSET ArtistIds
    BY <1>0, <1>10, DiscoverFacts, EnqueuedFacts
  <2>2. UNCHANGED <<registered, minted, channelRows, targetRow, handling, requests>>
    BY <1>10, DiscoverFacts
  <2>3. /\ registered' \in SUBSET ArtistIds
        /\ channelRows' \in [ArtistIds -> SUBSET {"PENDING", "AMBIGUOUS", "RESOLVED"}]
    BY <1>0, <2>2 DEF TypeOK
  <2>4. /\ CandidatesGrow /\ candidateRow' \in [DOMAIN candidateRow' -> Candidates]
        /\ DOMAIN candidateRow' \subseteq CandidateKeys
    BY <1>10, DiscoverFacts
  <2>. QED
    BY <2>1, <2>2, <2>3, <2>4, AsideInv
<1>11. ASSUME NEW c \in ArtistIds,
              \/ Backfill(c) \/ Register(c)
              \/ \E state \in {"PENDING", "AMBIGUOUS", "RESOLVED"} : Identify(c, state)
       PROVE  SessionInv'
  <2>1. UNCHANGED <<targetRow, handling, minted, requests, candidateRow>>
    BY <1>11 DEF Backfill, Register, Identify
  <2>2. jobs' \in SUBSET ArtistIds
    <3>1. Enqueued(c) \in SUBSET ArtistIds
      BY <1>0, EnqueuedFacts DEF Cids
    <3>. QED
      BY <1>0, <1>11, <3>1 DEF Backfill, Register, Identify, TypeOK
  <2>3. registered' \in SUBSET ArtistIds
    BY <1>0, <1>11 DEF Backfill, Register, Identify, TypeOK
  <2>4. channelRows' \in [ArtistIds -> SUBSET {"PENDING", "AMBIGUOUS", "RESOLVED"}]
    BY <1>0, <1>11 DEF Backfill, Register, Identify, TypeOK
  <2>5. /\ CandidatesGrow /\ candidateRow' \in [DOMAIN candidateRow' -> Candidates]
        /\ DOMAIN candidateRow' \subseteq CandidateKeys
    BY <1>0, <2>1 DEF TypeOK, CandidatesGrow, NamesKept
  <2>. QED
    BY <2>1, <2>2, <2>3, <2>4, <2>5, AsideInv
<1>12. ASSUME NEW i \in MayIdentify, Identify(i[1], i[2]) PROVE SessionInv'
  <2>1. i[1] \in ArtistIds /\ i[2] \in {"PENDING", "AMBIGUOUS", "RESOLVED"}
    OBVIOUS
  <2>. QED
    BY <1>11, <1>12, <2>1
<1>13. CASE WatchCrash
  <2>1. /\ handling' = [w \in Handlers |-> Nil]
        /\ UNCHANGED <<registered, minted, channelRows, jobs, candidateRow, targetRow, requests>>
    BY <1>13 DEF WatchCrash
  <2>2. TypeOK' /\ CandidatesGrow /\ UNCHANGED targetRow
    BY <1>0, <2>1 DEF TypeOK, CandidatesGrow, NamesKept
  <2>3. \A v \in Busy' : v \in Busy /\ handling'[v] = handling[v]
    BY <2>1 DEF Busy
  <2>. QED
    BY <2>2, <2>3, CloseInv
<1>14. CASE UNCHANGED watchVars
  <2>1. TypeOK' /\ CandidatesGrow /\ UNCHANGED targetRow
    BY <1>0, <1>14 DEF TypeOK, CandidatesGrow, NamesKept, watchVars
  <2>2. \A v \in Busy' : v \in Busy /\ handling'[v] = handling[v]
    BY <1>14 DEF Busy, watchVars
  <2>. QED
    BY <2>1, <2>2, CloseInv
<1>. QED
  BY <1>1, <1>2, <1>3, <1>4, <1>5, <1>6, <1>7, <1>8, <1>9, <1>10, <1>11, <1>12, <1>13, <1>14
  DEF WatchNext

--------------------------------------------------------------------------------
(* What a step adds, what it does to the rows, and what a new artist is    *)
(* made from.                                                              *)

Grows ==
  /\ registered \subseteq registered' /\ jobs \subseteq jobs' /\ CandidatesGrow
  /\ \A c \in ArtistIds : "RESOLVED" \in channelRows[c] => channelRows'[c] = channelRows[c]

Merges(t, r) ==
  Stores(t, r) /\ r.status = targetRow[t].status /\ r.gap = "unvetted"

\* The end of a resolution: what it verified is registered, and queued.
Resolves(w, verified) ==
  /\ Ends(w, ResolvedTarget(handling[w].t, handling[w].row, verified))
  /\ jobs' = Enqueued(verified) /\ UNCHANGED channelRows

RowStep ==
  \/ UNCHANGED targetRow
  \/ \E t \in DOMAIN targetRow, r \in Targets : Merges(t, r)
  \/ \E w \in Clients, t \in DOMAIN targetRow, status \in Live :
       Resume(w, t) /\ targetRow[t].cid # Nil /\ Restates(t, status)
  \/ \E t \in DOMAIN targetRow, status \in Overrides : Restates(t, status)
  \/ \E w \in Busy : /\ handling[w].t # Nil
                     /\ \/ \E c \in registered \cup {Nil} : Resolves(w, c)
                        \/ Ends(w, KeptRow(handling[w]))

Creates(w, c) ==
  handling[w].at = "create" /\ Bearing[c] = handling[w].row.name /\ minted' \subseteq minted \cup {c}

\* A session that goes on to create an artist has the evidence for it.
Justified(w, s) ==
  handling[w].at = "find" /\ EnoughEvidence(handling[w]) /\ s.row = handling[w].row

EvidenceStep ==
  /\ \A v \in Busy' :
       \/ v \in Busy /\ handling'[v] = handling[v]
       \/ handling'[v].at = "create" => v \in Busy /\ Justified(v, handling'[v])
  /\ minted' = minted \/ \E w \in Busy, c \in ArtistIds : Creates(w, c)

StepFacts == Grows /\ RowStep /\ EvidenceStep

LEMMA StaysFacts ==
  ASSUME UNCHANGED <<registered, minted, channelRows, jobs, candidateRow>>, RowStep,
         \A v \in Busy' : v \in Busy /\ handling'[v] = handling[v]
  PROVE  StepFacts
BY DEF StepFacts, Grows, CandidatesGrow, NamesKept, EvidenceStep

LEMMA OpensFacts ==
  ASSUME SessionInv, NEW w \in Handlers, Opens(w),
         UNCHANGED <<registered, minted, channelRows, jobs, candidateRow, targetRow>>
  PROVE  StepFacts
<1>1. PICK s \in WatchSessions : Goes(w, s) /\ s.at # "create"
  BY DEF Opens
<1>2. /\ handling'[w] = s /\ \A v \in Handlers \ {w} : handling'[v] = handling[v]
      /\ \A v \in Busy' : v # w => v \in Busy
  BY <1>1, GoesFacts DEF SessionInv
<1>3. EvidenceStep
  BY <1>1, <1>2 DEF EvidenceStep, Busy
<1>. QED
  BY <1>3 DEF StepFacts, Grows, CandidatesGrow, NamesKept, RowStep

LEMMA EndsStep ==
  ASSUME SessionInv, NEW w \in Busy, NEW row, Ends(w, row),
         UNCHANGED <<registered, minted, channelRows>>, jobs \subseteq jobs',
         handling[w].t # Nil =>
           (\E c \in registered \cup {Nil} : Resolves(w, c)) \/ Ends(w, KeptRow(handling[w]))
  PROVE  StepFacts
<1>1. Goes(w, Nil) /\ w \in Handlers /\ CandidatesGrow
  BY DEF Ends, Busy
<1>2. /\ \A v \in Handlers \ {w} : handling'[v] = handling[v]
      /\ Busy' = Busy \ {w}
  BY <1>1, GoesFacts DEF SessionInv
<1>3. EvidenceStep
  BY <1>2 DEF EvidenceStep, Busy
<1>4. RowStep
  BY DEF RowStep, Ends
<1>. QED
  BY <1>1, <1>3, <1>4 DEF StepFacts, Grows

LEMMA ConcludeFacts ==
  ASSUME SessionInv, NEW w \in Busy, NEW c \in registered \cup {Nil}, Conclude(w, c)
  PROVE  StepFacts
<1>1. c \in Cids /\ TypeOK
  BY DEF SessionInv, TypeOK, Cids
<1>2. /\ Ends(w, ResolvedTarget(handling[w].t, handling[w].row, c))
      /\ UNCHANGED <<registered, minted, channelRows>> /\ jobs' = Enqueued(c)
  BY <1>1, ConcludeEnds
<1>3. jobs \subseteq jobs' /\ Resolves(w, c)
  BY <1>1, <1>2, EnqueuedFacts DEF Resolves
<1>. QED
  BY <1>2, <1>3, EndsStep

LEMMA AsideFacts ==
  ASSUME UNCHANGED <<targetRow, handling, minted>>, Grows
  PROVE  StepFacts
BY DEF StepFacts, RowStep, EvidenceStep, Busy

LEMMA Steps ==
  ASSUME SessionInv, [WatchNext]_watchVars
  PROVE  StepFacts
<1>0. TypeOK
  BY DEF SessionInv
<1>1. ASSUME NEW w \in Clients, NEW p \in Picks, Add(w, p) PROVE StepFacts
  <2>1. w \in Handlers /\ UNCHANGED <<registered, minted, channelRows, jobs, candidateRow>>
    BY <1>1, AddFacts
  <2>2. CASE Opens(w) /\ UNCHANGED targetRow
    BY <2>1, <2>2, OpensFacts
  <2>3. ASSUME UNCHANGED handling, RowStep PROVE StepFacts
    <3>1. \A v \in Busy' : v \in Busy /\ handling'[v] = handling[v]
      BY <2>3 DEF Busy
    <3>. QED
      BY <2>1, <2>3, <3>1, StaysFacts
  <2>4. CASE UNCHANGED <<handling, targetRow>>
    BY <2>3, <2>4 DEF RowStep
  <2>5. ASSUME UNCHANGED handling, NEW t \in DOMAIN targetRow, NEW r \in Targets, Stores(t, r),
               r.status = targetRow[t].status, r.gap = "unvetted"
        PROVE  StepFacts
    <3>1. RowStep
      BY <2>5 DEF RowStep, Merges
    <3>. QED
      BY <2>3, <2>5, <3>1
  <2>. QED
    BY <1>1, <2>2, <2>4, <2>5, AddFacts
<1>2. ASSUME NEW w \in Clients, Reresolve(w) PROVE StepFacts
  BY <1>2, ReresolveFacts, OpensFacts
<1>3. ASSUME NEW w \in Clients, NEW t \in DOMAIN targetRow, Resume(w, t) PROVE StepFacts
  <2>1. w \in Handlers /\ UNCHANGED <<registered, minted, channelRows, jobs, candidateRow>>
    BY <1>3, ResumeFacts
  <2>2. CASE Opens(w) /\ UNCHANGED targetRow
    BY <2>1, <2>2, OpensFacts
  <2>3. ASSUME UNCHANGED handling, targetRow[t].cid # Nil, NEW status \in Live, Restates(t, status)
        PROVE  StepFacts
    <3>1. RowStep
      BY <1>3, <2>3 DEF RowStep
    <3>2. \A v \in Busy' : v \in Busy /\ handling'[v] = handling[v]
      BY <2>3 DEF Busy
    <3>. QED
      BY <2>1, <3>1, <3>2, StaysFacts
  <2>. QED
    BY <1>3, <2>2, <2>3, ResumeFacts
<1>4. ASSUME NEW w \in Passes, Promote(w) PROVE StepFacts
  BY <1>4, PromoteFacts, OpensFacts
<1>5. ASSUME NEW w \in Handlers, FindByName(w) PROVE StepFacts
  <2>1. w \in Busy /\ handling[w].at = "find"
    BY <1>5, FindFacts
  <2>2. ASSUME UNCHANGED <<registered, minted, channelRows, jobs, candidateRow, targetRow, requests>>,
               NEW s \in WatchSessions, Goes(w, s), s.row = handling[w].row,
               s.at = "create" => EnoughEvidence(handling[w])
        PROVE  StepFacts
    <3>1. /\ handling'[w] = s /\ \A v \in Handlers \ {w} : handling'[v] = handling[v]
          /\ \A v \in Busy' : v # w => v \in Busy
      BY <1>0, <2>2, GoesFacts
    <3>2. s.at = "create" => Justified(w, s)
      BY <2>1, <2>2 DEF Justified
    <3>3. EvidenceStep
      BY <2>1, <2>2, <3>1, <3>2 DEF EvidenceStep, Busy
    <3>. QED
      BY <2>2, <3>3 DEF StepFacts, Grows, CandidatesGrow, NamesKept, RowStep
  <2>3. CASE Conclude(w, Nil)
    BY <2>1, <2>3, ConcludeFacts
  <2>. QED
    BY <1>5, <2>2, <2>3, FindFacts
<1>6. ASSUME NEW w \in Handlers, CreateArtist(w) PROVE StepFacts
  <2>1. PICK c \in ArtistIds : /\ Bearing[c] = handling[w].row.name
                               /\ registered' = registered \cup {c}
                               /\ minted' = minted \cup ({c} \ registered)
    BY <1>6, CreateFacts
  <2>2. PICK s \in WatchSessions : Goes(w, s) /\ s.at = "confirm"
    BY <1>6, CreateFacts
  <2>3. /\ UNCHANGED <<channelRows, jobs, candidateRow, targetRow, requests>>
        /\ w \in Busy /\ handling[w].at = "create"
    BY <1>6, CreateFacts
  <2>4. /\ handling'[w] = s /\ \A v \in Handlers \ {w} : handling'[v] = handling[v]
        /\ \A v \in Busy' : v # w => v \in Busy
    BY <1>0, <1>6, <2>2, GoesFacts
  <2>5. Creates(w, c)
    BY <2>1, <2>3 DEF Creates
  <2>6. EvidenceStep
    BY <2>2, <2>3, <2>4, <2>5 DEF EvidenceStep, Busy
  <2>. QED
    BY <2>1, <2>3, <2>6 DEF StepFacts, Grows, CandidatesGrow, NamesKept, RowStep
<1>7. ASSUME NEW w \in Handlers, ConfirmRegistered(w) PROVE StepFacts
  <2>1. PICK c : c = IF handling[w].cid \in registered THEN handling[w].cid ELSE Nil
    OBVIOUS
  <2>2. c \in registered \cup {Nil} /\ w \in Busy /\ Conclude(w, c)
    BY <1>7, <2>1 DEF ConfirmRegistered, Busy
  <2>. QED
    BY <2>2, ConcludeFacts
<1>8. ASSUME NEW w \in Handlers, CrawlFails(w) PROVE StepFacts
  <2>1. w \in Busy /\ Goes(w, Nil) /\ UNCHANGED <<registered, minted, channelRows, jobs>>
        /\ handling[w].keep \in BOOLEAN
    BY <1>0, <1>8, FailsEnds, BusySession, SessionFields
  <2>2. CASE handling[w].keep
    <3>1. Ends(w, KeptRow(handling[w])) /\ jobs \subseteq jobs'
      BY <1>8, <2>1, <2>2, FailsEnds
    <3>. QED
      BY <2>1, <3>1, EndsStep
  <2>3. CASE ~handling[w].keep
    <3>1. UNCHANGED <<targetRow, candidateRow>>
      BY <1>8, <2>3, FailsEnds
    <3>2. \A v \in Busy' : v \in Busy /\ handling'[v] = handling[v]
      BY <1>0, <1>8, <2>1, GoesFacts DEF Busy
    <3>3. RowStep
      BY <3>1 DEF RowStep
    <3>. QED
      BY <2>1, <3>1, <3>2, <3>3, StaysFacts
  <2>. QED
    BY <2>1, <2>2, <2>3
<1>9. ASSUME NEW t \in DOMAIN targetRow, NEW status \in Overrides, Override(t, status) PROVE StepFacts
  <2>1. /\ UNCHANGED <<registered, minted, channelRows, jobs, candidateRow, handling>>
        /\ Restates(t, status)
    BY <1>9, OverrideFacts
  <2>2. RowStep
    BY <2>1 DEF RowStep
  <2>3. \A v \in Busy' : v \in Busy /\ handling'[v] = handling[v]
    BY <2>1 DEF Busy
  <2>. QED
    BY <2>1, <2>2, <2>3, StaysFacts
<1>10. ASSUME NEW f \in Finds, Discover(f) PROVE StepFacts
  <2>1. /\ CandidatesGrow /\ jobs' = Enqueued(f.cid) /\ f.cid \in Cids
        /\ UNCHANGED <<registered, minted, channelRows, targetRow, handling>>
    BY <1>10, DiscoverFacts
  <2>2. jobs \subseteq jobs'
    BY <1>0, <2>1, EnqueuedFacts
  <2>. QED
    BY <2>1, <2>2, AsideFacts DEF Grows
<1>11. ASSUME NEW c \in ArtistIds, Backfill(c) \/ Register(c) PROVE StepFacts
  <2>1. UNCHANGED <<targetRow, handling, minted, candidateRow, channelRows>>
    BY <1>11 DEF Backfill, Register
  <2>2. jobs \subseteq Enqueued(c)
    BY <1>0, EnqueuedFacts DEF Cids
  <2>3. jobs \subseteq jobs' /\ registered \subseteq registered'
    BY <1>11, <2>2 DEF Backfill, Register
  <2>4. Grows
    BY <2>1, <2>3 DEF Grows, CandidatesGrow, NamesKept
  <2>. QED
    BY <2>1, <2>4, AsideFacts
<1>12. ASSUME NEW i \in MayIdentify, Identify(i[1], i[2]) PROVE StepFacts
  <2>1. PICK c \in ArtistIds, state \in {"PENDING", "AMBIGUOUS", "RESOLVED"} : c = i[1] /\ state = i[2]
    OBVIOUS
  <2>2. Identify(c, state)
    BY <1>12, <2>1
  <2>3. /\ UNCHANGED <<targetRow, handling, minted, candidateRow, jobs, registered>>
        /\ "RESOLVED" \notin channelRows[c]
        /\ channelRows' = [channelRows EXCEPT ![c] = {state}]
    BY <2>2 DEF Identify
  <2>4. Grows
    BY <1>0, <2>3 DEF Grows, CandidatesGrow, NamesKept, TypeOK
  <2>. QED
    BY <2>3, <2>4, AsideFacts
<1>13. CASE WatchCrash
  <2>1. /\ handling' = [w \in Handlers |-> Nil]
        /\ UNCHANGED <<registered, minted, channelRows, jobs, candidateRow, targetRow>>
    BY <1>13 DEF WatchCrash
  <2>2. RowStep /\ \A v \in Busy' : v \in Busy /\ handling'[v] = handling[v]
    BY <2>1 DEF Busy, RowStep
  <2>. QED
    BY <2>1, <2>2, StaysFacts
<1>14. CASE UNCHANGED watchVars
  <2>1. UNCHANGED <<registered, minted, channelRows, jobs, candidateRow, targetRow, handling>>
    BY <1>14 DEF watchVars
  <2>2. RowStep /\ \A v \in Busy' : v \in Busy /\ handling'[v] = handling[v]
    BY <2>1 DEF Busy, RowStep
  <2>. QED
    BY <2>1, <2>2, StaysFacts
<1>. QED
  BY <1>1, <1>2, <1>3, <1>4, <1>5, <1>6, <1>7, <1>8, <1>9, <1>10, <1>11, <1>12, <1>13, <1>14
  DEF WatchNext

--------------------------------------------------------------------------------
(* Overrides.                                                              *)

Undoes(t) ==
  \/ \E w \in Handlers : Resume(w, t)
  \/ \E w \in Handlers : /\ handling[w] # Nil /\ handling'[w] = Nil
                         /\ handling[w].t = t
                         /\ handling[w].row.status \notin Overrides

LEMMA EndOfSession ==
  ASSUME SessionInv, NEW w \in Busy, NEW row, Ends(w, row), handling[w].t # Nil
  PROVE  /\ w \in Handlers /\ handling'[w] = Nil
         /\ Fit(handling[w]) /\ handling[w].row \in Targets
         /\ \E r \in Targets : Stores(handling[w].t, r) /\ Saved(handling[w], row, r)
<1>1. w \in Handlers /\ handling[w] \in WatchSessions /\ Fit(handling[w]) /\ handling[w].row \in Targets
  BY BusySession, SessionFields DEF SessionInv, SessionsAreFit
<1>2. handling'[w] = Nil
  BY <1>1, GoesFacts DEF Ends, SessionInv
<1>. QED
  BY <1>1, <1>2, EndsFacts

LEMMA OverrideStep ==
  ASSUME SessionInv, RowStep, NEW t \in DOMAIN targetRow,
         targetRow[t].status \in Overrides, targetRow'[t].status \notin Overrides
  PROVE  Undoes(t)
<1>1. CASE UNCHANGED targetRow
  BY <1>1
<1>2. ASSUME NEW u \in DOMAIN targetRow, NEW r \in Targets, Merges(u, r) PROVE Undoes(t)
  BY <1>2 DEF Merges, Stores
<1>3. ASSUME NEW w \in Clients, NEW u \in DOMAIN targetRow, NEW status \in Live,
             Resume(w, u), Restates(u, status)
      PROVE  Undoes(t)
  <2>1. u = t
    BY <1>3 DEF Restates, Stores
  <2>. QED
    BY <1>3, <2>1 DEF Undoes, Handlers
<1>4. ASSUME NEW u \in DOMAIN targetRow, NEW status \in Overrides, Restates(u, status) PROVE Undoes(t)
  BY <1>4 DEF Restates, Stores
<1>5. ASSUME NEW w \in Busy, handling[w].t # Nil, NEW row, Ends(w, row) PROVE Undoes(t)
  <2>1. PICK r \in Targets : Stores(handling[w].t, r)
    BY <1>5, EndOfSession
  <2>2. handling[w].t = t
    BY <2>1 DEF Stores
  <2>. QED
    BY <1>5, <2>2, EndOfSession DEF Undoes, Busy, Fit
<1>. QED
  BY <1>1, <1>2, <1>3, <1>4, <1>5 DEF RowStep, Resolves

\* Pausing or rejecting a target lasts until an operator resumes it, or a
\* resolution that had read the row before ends: however many requests and
\* passes run together, none that begins later writes over the override.
THEOREM OverridesLast == WatchSpec => OverrideLasts
<1>1. WatchInit => SessionInv
  BY InitSessions
<1>2. SessionInv /\ [WatchNext]_watchVars => SessionInv'
  BY NextSessions
<1>3. SessionInv /\ [WatchNext]_watchVars =>
        \A t \in DOMAIN targetRow :
          targetRow[t].status \in Overrides /\ targetRow'[t].status \notin Overrides =>
            \/ \E w \in Handlers : Resume(w, t)
            \/ \E w \in Handlers : /\ handling[w] # Nil /\ handling'[w] = Nil
                                   /\ handling[w].t = t
                                   /\ handling[w].row.status \notin Overrides
  BY Steps, OverrideStep DEF StepFacts, Undoes
<1>. QED
  BY <1>1, <1>2, <1>3, PTL DEF WatchSpec, OverrideLasts

--------------------------------------------------------------------------------
(* The rows.                                                               *)

\* What a row is after a session wrote its part: as written, as stored, or
\* between the two, which the row remembers.
LEMMA SavedGap ==
  ASSUME NEW s, NEW row, NEW r, Saved(s, row, r)
  PROVE  \/ r.cid = row.cid /\ r.status = row.status /\ r.gap = row.gap
         \/ /\ ~s.flushed /\ r.gap = targetRow[s.t].gap
            /\ r.cid = targetRow[s.t].cid /\ r.status = targetRow[s.t].status
         \/ /\ ~s.flushed /\ r.gap # "none" /\ r.cid \in {row.cid, targetRow[s.t].cid}
            /\ (r.gap = targetRow[s.t].gap \/ targetRow[s.t].gap = "none")
<1>1. CASE s.flushed
  BY <1>1 DEF Saved
<1>2. CASE ~s.flushed
  <2>1. PICK stored : stored = targetRow[s.t]
    OBVIOUS
  <2>2. /\ r.cid = IF row.cid = s.row.cid THEN stored.cid ELSE row.cid
        /\ r.status = IF row.status = s.row.status THEN stored.status ELSE row.status
        /\ r.gap = GapAfter(stored, s.row, row, r)
    BY <1>2, <2>1 DEF Saved
  <2>3. CASE row # s.row /\ r.cid = row.cid /\ r.status = row.status
    BY <2>2, <2>3 DEF GapAfter
  <2>4. CASE ~(row # s.row /\ r.cid = row.cid /\ r.status = row.status)
    <3>1. r.gap = IF (row.cid = s.row.cid /\ row.status = s.row.status) \/ stored.gap # "none"
                  THEN stored.gap ELSE "raced"
      BY <2>2, <2>4 DEF GapAfter
    <3>. QED
      BY <1>2, <2>1, <2>2, <3>1
  <2>. QED
    BY <2>3, <2>4
<1>. QED
  BY <1>1, <1>2

\* A row that may be written: of an artist who is pursued by then, or none.
PursuedOnes == {c \in ArtistIds : Pursued(c)}

RowIsPursued(r) ==
  r.gap = "none" => /\ r.cid # Nil => r.cid \in PursuedOnes'
                    /\ r.status \in Live => r.cid # Nil

RowIsVetted(r) == r.gap # "unvetted" => r.cid \in registered' \cup {Nil}

RowsAreVetted ==
  \A t \in DOMAIN targetRow : targetRow[t].gap # "unvetted" => targetRow[t].cid \in registered \cup {Nil}

RowsInv == RowsArePursued /\ RowsAreVetted

LEMMA PursuedStays ==
  ASSUME TypeOK, Grows, NEW c \in ArtistIds, Pursued(c)
  PROVE  c \in PursuedOnes'
<1>1. CASE c \in jobs
  BY <1>1 DEF PursuedOnes, Pursued, Grows
<1>2. CASE IdentityState(c) = "RESOLVED"
  <2>1. "RESOLVED" \in channelRows[c]
    BY <1>2 DEF IdentityState
  <2>2. channelRows'[c] = channelRows[c]
    BY <2>1 DEF Grows
  <2>3. IdentityState(c)' = "RESOLVED"
    BY <2>1, <2>2 DEF IdentityState
  <2>. QED
    BY <2>3 DEF PursuedOnes, Pursued
<1>. QED
  BY <1>1, <1>2 DEF Pursued

\* The stored rows stay as they should be.
LEMMA StoredStays ==
  ASSUME TypeOK, RowsInv, Grows, NEW t \in DOMAIN targetRow
  PROVE  RowIsPursued(targetRow[t]) /\ RowIsVetted(targetRow[t])
<1>1. targetRow[t].cid # Nil => targetRow[t].cid \in ArtistIds
  BY DEF TypeOK, Targets
<1>. QED
  BY <1>1, PursuedStays DEF RowsInv, RowsArePursued, RowsAreVetted, RowIsPursued, RowIsVetted, Grows

\* What a session may write.
LEMMA SavedIsSound ==
  ASSUME TypeOK, RowsInv, Grows, NEW s, NEW row, NEW r, Saved(s, row, r),
         ~s.flushed => s.t \in DOMAIN targetRow,
         row.gap = "none" \/ row.gap = "outage", row.cid \in registered' \cup {Nil}, RowIsPursued(row)
  PROVE  RowIsPursued(r) /\ RowIsVetted(r)
<1>1. CASE r.cid = row.cid /\ r.status = row.status /\ r.gap = row.gap
  BY <1>1 DEF RowIsPursued, RowIsVetted
<1>2. ASSUME ~s.flushed
      PROVE  RowIsPursued(targetRow[s.t]) /\ RowIsVetted(targetRow[s.t])
  BY <1>2, StoredStays
<1>3. CASE /\ ~s.flushed /\ r.gap = targetRow[s.t].gap
           /\ r.cid = targetRow[s.t].cid /\ r.status = targetRow[s.t].status
  BY <1>2, <1>3 DEF RowIsPursued, RowIsVetted
<1>4. CASE /\ ~s.flushed /\ r.gap # "none" /\ r.cid \in {row.cid, targetRow[s.t].cid}
           /\ (r.gap = targetRow[s.t].gap \/ targetRow[s.t].gap = "none")
  BY <1>2, <1>4 DEF RowIsPursued, RowIsVetted
<1>. QED
  BY <1>1, <1>3, <1>4, SavedGap

LEMMA RowsStep ==
  ASSUME SessionInv, RowsInv, Grows, RowStep
  PROVE  RowsInv'
<1>0. TypeOK
  BY DEF SessionInv
<1>1. SUFFICES ASSUME NEW t \in DOMAIN targetRow'
               PROVE  RowIsPursued(targetRow'[t]) /\ RowIsVetted(targetRow'[t])
  BY <1>1 DEF RowsInv, RowsArePursued, RowsAreVetted, RowIsPursued, RowIsVetted, PursuedOnes
<1>2. ASSUME NEW u, NEW r, Stores(u, r), u = t => RowIsPursued(r) /\ RowIsVetted(r)
      PROVE  RowIsPursued(targetRow'[t]) /\ RowIsVetted(targetRow'[t])
  <2>1. CASE u = t
    BY <1>2, <2>1 DEF Stores
  <2>2. CASE u # t
    <3>1. t \in DOMAIN targetRow /\ targetRow'[t] = targetRow[t]
      BY <1>1, <1>2, <2>2 DEF Stores
    <3>. QED
      BY <1>0, <3>1, StoredStays
  <2>. QED
    BY <2>1, <2>2
<1>3. CASE UNCHANGED targetRow
  <2>1. t \in DOMAIN targetRow /\ targetRow'[t] = targetRow[t]
    BY <1>3
  <2>. QED
    BY <1>0, <2>1, StoredStays
<1>4. ASSUME NEW u \in DOMAIN targetRow, NEW r \in Targets, Merges(u, r)
      PROVE  RowIsPursued(targetRow'[t]) /\ RowIsVetted(targetRow'[t])
  BY <1>2, <1>4 DEF Merges, RowIsPursued, RowIsVetted
<1>5. ASSUME NEW u \in DOMAIN targetRow, NEW status, Restates(u, status),
             status \in Overrides \/ targetRow[u].cid # Nil
      PROVE  RowIsPursued(targetRow'[t]) /\ RowIsVetted(targetRow'[t])
  <2>1. PICK r \in Targets : /\ Stores(u, r) /\ r.status = status
                             /\ r.cid = targetRow[u].cid /\ r.gap = targetRow[u].gap
    BY <1>5 DEF Restates
  <2>2. RowIsPursued(targetRow[u]) /\ RowIsVetted(targetRow[u])
    BY <1>0, StoredStays
  <2>3. RowIsPursued(r) /\ RowIsVetted(r)
    BY <1>5, <2>1, <2>2 DEF RowIsPursued, RowIsVetted, Overrides, Live
  <2>. QED
    BY <1>2, <2>1, <2>3
<1>6. ASSUME NEW w \in Busy, handling[w].t # Nil, NEW row, Ends(w, row),
             row.gap = "none" \/ row.gap = "outage", row.cid \in registered' \cup {Nil}, RowIsPursued(row)
      PROVE  RowIsPursued(targetRow'[t]) /\ RowIsVetted(targetRow'[t])
  <2>1. PICK r \in Targets : Stores(handling[w].t, r) /\ Saved(handling[w], row, r)
    BY <1>6, EndOfSession
  <2>2. ~handling[w].flushed => handling[w].t \in DOMAIN targetRow
    BY <1>6, EndOfSession DEF Fit
  <2>3. RowIsPursued(r) /\ RowIsVetted(r)
    BY <1>0, <1>6, <2>1, <2>2, SavedIsSound
  <2>. QED
    BY <1>2, <2>1, <2>3
<1>7. ASSUME NEW w \in Busy, handling[w].t # Nil, NEW c \in registered \cup {Nil}, Resolves(w, c)
      PROVE  RowIsPursued(targetRow'[t]) /\ RowIsVetted(targetRow'[t])
  <2>1. PICK row : row = ResolvedTarget(handling[w].t, handling[w].row, c)
    OBVIOUS
  <2>2. Ends(w, row) /\ jobs' = Enqueued(c) /\ UNCHANGED channelRows
    BY <1>7, <2>1 DEF Resolves
  <2>3. handling[w].row \in Targets /\ handling[w].row.status \notin Overrides /\ c \in Cids
    BY <1>0, <1>7, <2>2, EndOfSession DEF Fit, TypeOK, Cids
  <2>4. row.cid = c /\ row.gap = "none" /\ (row.status \in Live => c # Nil)
    BY <2>1, <2>3, ResolvedFacts
  <2>5. c # Nil => c \in PursuedOnes'
    <3>1. IdentityState(c)' = IdentityState(c)
      BY <2>2 DEF IdentityState
    <3>2. c # Nil => c \in Enqueued(c) \/ IdentityState(c) = "RESOLVED"
      BY <1>0, <2>3, EnqueuedFacts
    <3>. QED
      BY <2>2, <2>3, <3>1, <3>2 DEF PursuedOnes, Pursued, Cids
  <2>6. RowIsPursued(row) /\ row.cid \in registered' \cup {Nil}
    BY <2>4, <2>5 DEF RowIsPursued, Grows
  <2>. QED
    BY <1>6, <1>7, <2>2, <2>4, <2>6
<1>8. ASSUME NEW w \in Busy, handling[w].t # Nil, Ends(w, KeptRow(handling[w]))
      PROVE  RowIsPursued(targetRow'[t]) /\ RowIsVetted(targetRow'[t])
  <2>1. PICK s : s = handling[w]
    OBVIOUS
  <2>2. PICK row : row = KeptRow(s)
    OBVIOUS
  <2>3. Fit(s) /\ s.row \in Targets /\ Ends(w, row)
    BY <1>8, <2>1, <2>2, EndOfSession
  <2>4. CASE s.k = Nil
    <3>1. row = [s.row EXCEPT !.cid = Nil, !.gap = "outage"]
      BY <2>2, <2>4 DEF KeptRow
    <3>2. row.cid = Nil /\ row.gap = "outage"
      BY <2>3, <3>1 DEF Targets
    <3>. QED
      BY <1>6, <1>8, <2>3, <3>2 DEF RowIsPursued
  <2>5. CASE s.k # Nil
    <3>1. row = s.row /\ s.row.cid = Nil /\ (s.flushed => s.row.status \notin Live)
      BY <1>8, <2>1, <2>2, <2>3, <2>5 DEF KeptRow, Fit
    <3>2. PICK r \in Targets : Stores(s.t, r) /\ Saved(s, s.row, r)
      BY <1>8, <2>1, <2>2, <3>1, EndOfSession
    <3>3. CASE s.flushed
      BY <1>2, <3>1, <3>2, <3>3 DEF Saved, RowIsPursued, RowIsVetted
    <3>4. CASE ~s.flushed
      <4>1. s.t \in DOMAIN targetRow
        BY <1>8, <2>1, <2>3, <3>4 DEF Fit
      <4>2. r.cid = targetRow[s.t].cid /\ r.status = targetRow[s.t].status /\ r.gap = targetRow[s.t].gap
        BY <3>2, <3>4 DEF Saved, GapAfter
      <4>3. RowIsPursued(r) /\ RowIsVetted(r)
        BY <1>0, <4>1, <4>2, StoredStays DEF RowIsPursued, RowIsVetted
      <4>. QED
        BY <1>2, <3>2, <4>3
    <3>. QED
      BY <3>3, <3>4
  <2>. QED
    BY <2>4, <2>5
<1>. QED
  BY <1>3, <1>4, <1>5, <1>7, <1>8 DEF RowStep

LEMMA InitRows ==
  ASSUME WatchInit
  PROVE  RowsInv
BY DEF WatchInit, RowsInv, RowsArePursued, RowsAreVetted

\* A target shown as watched has an artist, whose channel is verified or was
\* queued for discovery, unless the row says what went wrong: whatever the
\* requests, passes and outages, in every order.
THEOREM WatchedArePursued == WatchSpec => []WatchedIsPursued
<1>1. WatchInit => SessionInv /\ RowsInv
  BY InitSessions, InitRows
<1>2. SessionInv /\ RowsInv /\ [WatchNext]_watchVars => (SessionInv /\ RowsInv)'
  BY NextSessions, Steps, RowsStep DEF StepFacts
<1>3. RowsInv => WatchedIsPursued
  BY DEF RowsInv, RowsArePursued, Pursued, WatchedIsPursued
<1>. QED
  BY <1>1, <1>2, <1>3, PTL DEF WatchSpec

--------------------------------------------------------------------------------
(* New artists.                                                            *)

MadeFromElsewhere == \A c \in minted : FromElsewhere(Bearing[c])

\* The names that a candidate from elsewhere bears.
NamedElsewhere == {n \in Names \cup {Nil} : FromElsewhere(n)}

MintingInv == CreatedOnEvidence /\ MadeFromElsewhere

LEMMA NamesStay ==
  ASSUME CandidatesGrow
  PROVE  NamedElsewhere \subseteq NamedElsewhere'
<1>. SUFFICES ASSUME NEW n \in Names \cup {Nil}, FromElsewhere(n) PROVE FromElsewhere(n)'
  BY DEF NamedElsewhere
<1>1. PICK k \in DOMAIN candidateRow : k[1] # "OPERATOR" /\ candidateRow[k].name = n
  BY DEF FromElsewhere
<1>2. k \in DOMAIN candidateRow' /\ candidateRow'[k].name = n
  BY <1>1 DEF CandidatesGrow, NamesKept
<1>. QED
  BY <1>1, <1>2 DEF FromElsewhere

LEMMA OneIsNotEnough ==
  ASSUME NEW S, S \subseteq {"OPERATOR"}
  PROVE  Cardinality(S) < 2
<1>1. S = {} \/ S = {"OPERATOR"}
  OBVIOUS
<1>2. Cardinality({}) = 0 /\ Cardinality({"OPERATOR"}) = 1
  BY FS_EmptySet, FS_Singleton
<1>3. Cardinality(S) = 0 \/ Cardinality(S) = 1
  BY <1>1, <1>2, Zenon
<1>. QED
  BY <1>3

\* Enough evidence is never the operator's word alone.
LEMMA EvidenceIsElsewhere ==
  ASSUME SessionInv, MinSources >= 2, NEW w \in Busy, handling[w].at = "find",
         EnoughEvidence(handling[w])
  PROVE  handling[w].row.name \in NamedElsewhere
<1>1. PICK s : s = handling[w]
  OBVIOUS
<1>2. Fit(s) /\ s.row.name \in Names /\ s.at = "find" /\ EnoughEvidence(s)
  BY <1>1, BusySession, SessionFields, TargetFields DEF SessionInv, SessionsAreFit
<1>3. ~ SourcesOf(s) \subseteq {"OPERATOR"}
  <2>1. SUFFICES ASSUME SourcesOf(s) \subseteq {"OPERATOR"} PROVE FALSE
    OBVIOUS
  <2>2. Cardinality(SourcesOf(s)) >= MinSources
    BY <1>2, <2>1 DEF EnoughEvidence
  <2>3. Cardinality(SourcesOf(s)) < 2
    BY <2>1, OneIsNotEnough
  <2>4. Cardinality(SourcesOf(s)) \in Nat
    <3>1. IsFiniteSet(SourcesOf(s))
      BY <2>1, FS_Singleton, FS_Subset
    <3>. QED
      BY <3>1, FS_CardinalityType
  <2>. QED
    BY <2>2, <2>3, <2>4
<1>4. PICK k : /\ k \in {j \in DOMAIN candidateRow : candidateRow[j].name = s.row.name} \cup {s.k}
               /\ k[1] # "OPERATOR"
  BY <1>3 DEF SourcesOf
<1>5. k \in DOMAIN candidateRow /\ candidateRow[k].name = s.row.name
  BY <1>2, <1>4 DEF Fit
<1>. QED
  BY <1>1, <1>2, <1>4, <1>5 DEF NamedElsewhere, FromElsewhere

LEMMA MintingFacts ==
  ASSUME TypeOK
  PROVE  /\ CreatedOnEvidence => \A w \in Busy : handling[w].at = "create" =>
                                   handling[w].row.name \in NamedElsewhere
         /\ MadeFromElsewhere => \A c \in minted : Bearing[c] \in NamedElsewhere
<1>1. ASSUME NEW w \in Busy PROVE handling[w].row.name \in Names
  BY <1>1, BusySession, SessionFields, TargetFields
<1>2. ASSUME NEW c \in minted PROVE Bearing[c] \in Names \cup {Nil}
  BY <1>2 DEF TypeOK, Names
<1>. QED
  BY <1>1, <1>2 DEF CreatedOnEvidence, MadeFromElsewhere, NamedElsewhere

LEMMA MintingStep ==
  ASSUME MinSources >= 2, SessionInv, MintingInv, Grows, EvidenceStep
  PROVE  MintingInv'
<1>1. TypeOK /\ NamedElsewhere \subseteq NamedElsewhere'
  BY NamesStay DEF SessionInv, Grows
<1>2. ASSUME NEW v \in Busy', handling'[v].at = "create"
      PROVE  handling'[v].row.name \in NamedElsewhere'
  <2>1. CASE v \in Busy /\ handling'[v] = handling[v]
    BY <1>1, <1>2, <2>1, MintingFacts DEF MintingInv
  <2>2. CASE v \in Busy /\ Justified(v, handling'[v])
    BY <1>1, <2>2, EvidenceIsElsewhere DEF Justified
  <2>. QED
    BY <1>2, <2>1, <2>2 DEF EvidenceStep
<1>3. ASSUME NEW c \in minted' PROVE Bearing[c] \in NamedElsewhere'
  <2>1. CASE c \in minted
    BY <1>1, <2>1, MintingFacts DEF MintingInv
  <2>2. ASSUME NEW w \in Busy, NEW b \in ArtistIds, Creates(w, b), c \notin minted
        PROVE  Bearing[c] \in NamedElsewhere'
    <3>1. c = b /\ handling[w].at = "create" /\ Bearing[b] = handling[w].row.name
      BY <1>3, <2>2 DEF Creates
    <3>. QED
      BY <1>1, <3>1, MintingFacts DEF MintingInv
  <2>. QED
    BY <2>1, <2>2 DEF EvidenceStep
<1>. QED
  BY <1>2, <1>3 DEF MintingInv, CreatedOnEvidence, MadeFromElsewhere, NamedElsewhere

LEMMA InitMinting ==
  ASSUME WatchInit
  PROVE  MintingInv
BY DEF WatchInit, MintingInv, CreatedOnEvidence, MadeFromElsewhere, Busy

\* Where one source is not enough, targets are of artists that crawl-service
\* knows (unless the row says that nobody looked), no artist is created on an
\* operator's word alone, and no two targets have one key.
THEOREM TargetsStaySound == ASSUME MinSources >= 2 PROVE WatchSpec => []TargetsAreSound
<1>1. WatchInit => SessionInv /\ RowsInv /\ MintingInv
  BY InitSessions, InitRows, InitMinting
<1>2. SessionInv /\ RowsInv /\ MintingInv /\ [WatchNext]_watchVars
        => (SessionInv /\ RowsInv /\ MintingInv)'
  BY NextSessions, Steps, RowsStep, MintingStep DEF StepFacts
<1>3. SessionInv /\ RowsInv /\ MintingInv => TargetsAreSound
  BY DEF SessionInv, RowsInv, RowsAreVetted, MintingInv, MadeFromElsewhere, FromElsewhere,
         TargetsAreSound, OrphansAreUnvetted, Orphans, OperatorAloneCreatesNothing
<1>. QED
  BY <1>1, <1>2, <1>3, PTL DEF WatchSpec

================================================================================
