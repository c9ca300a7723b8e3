--------------------------- MODULE MediaSlotsProofs ---------------------------
(***************************************************************************)
(* Theorems about MediaSlots, for every number of slots, observers and     *)
(* looks, whatever the hosts answer, in whatever order the looks are       *)
(* recorded and however often the process restarts.                        *)
(***************************************************************************)
EXTENDS MediaSlots, FiniteSetTheorems, TLAPS

USE MediaAssumption

IsRow(st) ==
  /\ st = [present |-> st.present, asset |-> st.asset, url |-> st.url, first |-> st.first,
           last |-> st.last, changed |-> st.changed, version |-> st.version]
  /\ st.present \in BOOLEAN /\ st.last \in Nat /\ st.version \in Nat \ {0}

(* The rows, the looks and the requests, as far as the properties depend   *)
(* on them: the content of an image may be anything.                       *)
RowsTyped ==
  /\ DOMAIN slotState = Slots
  /\ slotState = [s \in Slots |-> slotState[s]]
  /\ \A s \in Slots : slotState[s] = NoSlotRow \/ IsRow(slotState[s])

LooksTyped == \A g \in sightings : g.at \in Nat /\ g.slot \in Slots

IsRequest(r) ==
  /\ "at" \in DOMAIN r /\ r = [f \in DOMAIN r |-> r[f]]
  /\ r.at = "fetch" => r.in \in MayObserve

RequestsTyped ==
  /\ observing = [o \in Observers |-> observing[o]]
  /\ \A o \in Observers : IsRequest(observing[o])

SlotsInv == RowsTyped /\ LooksTyped /\ RequestsTyped /\ SlotIsNewestPresence

--------------------------------------------------------------------------------
(* The detector.                                                           *)

LEMMA RowIsNotNoRow ==
  ASSUME NEW st, IsRow(st)
  PROVE  st # NoSlotRow
<1>1. st.version # NoSlotRow.version
  BY DEF IsRow, NoSlotRow
<1>. QED
  BY <1>1

\* An absence ends a presence, or says nothing new.
LEMMA DetectsAbsence ==
  ASSUME NEW prev, prev = NoSlotRow \/ IsRow(prev), NEW g, g.at \in Nat, Signal(g) = "ABSENT",
         NEW next, next = Detect(prev, g).next
  PROVE  \/ next = NoSlotRow
         \/ IsRow(prev) /\ IsRow(next) /\ ~next.present /\ next.last = g.at /\ prev.last <= g.at
<1>1. CASE prev = NoSlotRow
  BY <1>1 DEF Detect, DetectAbsent, Same
<1>2. CASE IsRow(prev) /\ g.at < prev.last
  BY <1>2, RowIsNotNoRow DEF Detect, Same
<1>3. CASE IsRow(prev) /\ ~(g.at < prev.last)
  <2>1. prev # NoSlotRow /\ prev.last <= g.at
    BY <1>3, RowIsNotNoRow DEF IsRow
  <2>2. Detect(prev, g) = DetectAbsent(prev, g)
    BY <1>3 DEF Detect
  <2>3. CASE ~prev.present
    BY <2>2, <2>3 DEF DetectAbsent, Same
  <2>4. CASE prev.present
    <3>1. next = [prev EXCEPT !.present = FALSE, !.last = g.at, !.changed = g.at]
      BY <2>1, <2>2, <2>4 DEF DetectAbsent
    <3>2. next = [present |-> FALSE, asset |-> prev.asset, url |-> prev.url, first |-> prev.first,
                  last |-> g.at, changed |-> g.at, version |-> prev.version]
      BY <1>3, <3>1 DEF IsRow
    <3>. QED
      BY <1>3, <2>1, <3>2 DEF IsRow
  <2>. QED
    BY <1>3, <2>3, <2>4 DEF IsRow
<1>. QED
  BY <1>1, <1>2, <1>3

\* A row after a presence that is not late.
Shows(next, g) ==
  /\ IsRow(next) /\ next.present /\ next.last = g.at /\ next.url = g.url
  /\ g.asset \in {Null, next.asset}

LEMMA DetectsPresence ==
  ASSUME NEW prev, prev = NoSlotRow \/ IsRow(prev), NEW g, g.at \in Nat, Signal(g) = "PRESENT",
         NEW next, next = Detect(prev, g).next
  PROVE  \/ IsRow(prev) /\ g.at < prev.last /\ next = NoSlotRow
         \/ (IsRow(prev) => prev.last <= g.at) /\ Shows(next, g)
<1>1. CASE prev = NoSlotRow
  <2>1. next = [present |-> TRUE, asset |-> g.asset, url |-> g.url, first |-> g.at, last |-> g.at,
                changed |-> g.at, version |-> 1]
    BY <1>1 DEF Detect, DetectFirst
  <2>2. ~IsRow(prev)
    BY <1>1, RowIsNotNoRow
  <2>. QED
    BY <2>1, <2>2 DEF Shows, IsRow
<1>2. CASE IsRow(prev) /\ g.at < prev.last
  BY <1>2, RowIsNotNoRow DEF Detect, Same
<1>3. CASE IsRow(prev) /\ ~(g.at < prev.last)
  <2>1. prev # NoSlotRow /\ prev.last <= g.at
    BY <1>3, RowIsNotNoRow DEF IsRow
  <2>2. Detect(prev, g) = IF ~prev.present THEN DetectReturn(prev, g) ELSE DetectPresent(prev, g)
    BY <1>3, <2>1 DEF Detect
  <2>3. CASE ~prev.present
    <3>1. PICK version : version = IF Null \notin {g.asset, prev.asset} /\ g.asset # prev.asset
                                   THEN prev.version + 1 ELSE prev.version
      OBVIOUS
    <3>2. PICK asset : asset = Rather(g.asset, prev.asset)
      OBVIOUS
    <3>3. next = [prev EXCEPT !.present = TRUE, !.asset = asset, !.url = g.url, !.last = g.at,
                              !.changed = g.at, !.version = version]
      BY <2>2, <2>3, <3>1, <3>2 DEF DetectReturn
    <3>4. next = [present |-> TRUE, asset |-> asset, url |-> g.url, first |-> prev.first,
                  last |-> g.at, changed |-> g.at, version |-> version]
      BY <1>3, <3>3 DEF IsRow
    <3>5. version \in Nat \ {0}
      BY <1>3, <3>1 DEF IsRow
    <3>6. g.asset \in {Null, asset}
      BY <3>2 DEF Rather
    <3>7. IsRow(next)
      BY <3>4, <3>5 DEF IsRow
    <3>. QED
      BY <2>1, <3>4, <3>6, <3>7 DEF Shows
  <2>4. CASE prev.present
    <3>1. Detect(prev, g) = DetectPresent(prev, g)
      BY <2>2, <2>4
    <3>2. CASE IdentityKey(g.asset, g.url) # IdentityKey(prev.asset, prev.url)
      <4>1. next = [prev EXCEPT !.asset = g.asset, !.url = g.url, !.last = g.at, !.changed = g.at,
                                !.version = prev.version + 1]
        BY <3>1, <3>2 DEF DetectPresent
      <4>2. next = [present |-> prev.present, asset |-> g.asset, url |-> g.url, first |-> prev.first,
                    last |-> g.at, changed |-> g.at, version |-> prev.version + 1]
        BY <1>3, <4>1 DEF IsRow
      <4>3. prev.version + 1 \in Nat \ {0}
        BY <1>3 DEF IsRow
      <4>4. IsRow(next)
        BY <1>3, <4>2, <4>3 DEF IsRow
      <4>. QED
        BY <2>1, <2>4, <4>2, <4>4 DEF Shows
    <3>3. CASE IdentityKey(g.asset, g.url) = IdentityKey(prev.asset, prev.url)
      <4>1. /\ g.asset = Null => g.url = prev.url
            /\ g.asset # Null => g.asset = prev.asset
        BY <3>3 DEF IdentityKey
      <4>2. PICK url : url = g.url
        OBVIOUS
      <4>. DEFINE row == [present |-> prev.present, asset |-> prev.asset, url |-> url,
                          first |-> prev.first, last |-> g.at, changed |-> prev.changed,
                          version |-> prev.version]
      <4>3. ASSUME g.asset # Null /\ g.url # prev.url PROVE next = row
        <5>1. next = [prev EXCEPT !.url = url, !.last = g.at]
          BY <3>1, <3>3, <4>2, <4>3 DEF DetectPresent
        <5>. QED
          BY <1>3, <5>1 DEF IsRow
      <4>4. ASSUME ~(g.asset # Null /\ g.url # prev.url) PROVE next = row
        <5>1. next = [prev EXCEPT !.last = g.at] /\ url = prev.url
          BY <3>1, <3>3, <4>1, <4>2, <4>4 DEF DetectPresent
        <5>. QED
          BY <1>3, <5>1 DEF IsRow
      <4>5. next = row
        BY <4>3, <4>4
      <4>6. IsRow(next)
        BY <1>3, <4>5 DEF IsRow
      <4>. QED
        BY <2>1, <2>4, <4>1, <4>2, <4>5, <4>6 DEF Shows
    <3>. QED
      BY <3>2, <3>3
  <2>. QED
    BY <1>3, <2>3, <2>4 DEF IsRow
<1>. QED
  BY <1>1, <1>2, <1>3

--------------------------------------------------------------------------------
(* What a slot shows.                                                      *)

Presences(s) == {g \in sightings : g.slot = s /\ Signal(g) = "PRESENT"}

Newest(seen, st) ==
  /\ st = NoSlotRow <=> seen = {}
  /\ st # NoSlotRow =>
       /\ \A g \in seen : g.at <= st.last
       /\ st.present => \E g \in seen : /\ g.at = st.last /\ g.url = st.url
                                        /\ g.asset \in {Null, st.asset}

LEMMA NewestOfEach ==
  SlotIsNewestPresence <=> \A s \in Slots : Newest(Presences(s), slotState[s])
BY DEF SlotIsNewestPresence, Newest, Presences

LEMMA SignalsOnly ==
  ASSUME NEW g
  PROVE  Signal(g) \in {"ABSENT", "PRESENT", Null} /\ Null \notin {"ABSENT", "PRESENT"}
BY DEF Signal

\* The look at one slot that says something of it.
LEMMA PresenceIsNewest ==
  ASSUME NEW seen, \A h \in seen : h.at \in Nat, NEW prev, prev = NoSlotRow \/ IsRow(prev),
         Newest(seen, prev), NEW g, g.at \in Nat, Signal(g) = "PRESENT",
         NEW next, next = Detect(prev, g).next
  PROVE  Newest(seen \cup {g}, IF next = NoSlotRow THEN prev ELSE next)
<1>1. CASE IsRow(prev) /\ g.at < prev.last /\ next = NoSlotRow
  <2>1. prev # NoSlotRow /\ g.at <= prev.last
    BY <1>1, RowIsNotNoRow DEF IsRow
  <2>. QED
    BY <1>1, <2>1 DEF Newest
<1>2. CASE (IsRow(prev) => prev.last <= g.at) /\ Shows(next, g)
  <2>1. next # NoSlotRow /\ next.last = g.at
    BY <1>2, RowIsNotNoRow DEF Shows
  <2>2. ASSUME NEW h \in seen \cup {g} PROVE h.at <= next.last
    <3>1. CASE h = g
      BY <2>1, <3>1
    <3>2. CASE h \in seen
      <4>1. prev # NoSlotRow /\ h.at <= prev.last
        BY <3>2 DEF Newest
      <4>. QED
        BY <1>2, <2>1, <3>2, <4>1 DEF IsRow
    <3>. QED
      BY <3>1, <3>2
  <2>3. g.at = next.last /\ g.url = next.url /\ g.asset \in {Null, next.asset}
    BY <1>2 DEF Shows
  <2>. QED
    BY <2>1, <2>2, <2>3 DEF Newest
<1>. QED
  BY <1>1, <1>2, DetectsPresence

LEMMA AbsenceKeepsNewest ==
  ASSUME NEW seen, \A h \in seen : h.at \in Nat, NEW prev, prev = NoSlotRow \/ IsRow(prev),
         Newest(seen, prev), NEW g, g.at \in Nat, Signal(g) = "ABSENT",
         NEW next, next = Detect(prev, g).next
  PROVE  Newest(seen, IF next = NoSlotRow THEN prev ELSE next)
<1>1. CASE next = NoSlotRow
  BY <1>1
<1>2. CASE IsRow(prev) /\ IsRow(next) /\ ~next.present /\ next.last = g.at /\ prev.last <= g.at
  <2>1. prev # NoSlotRow /\ next # NoSlotRow
    BY <1>2, RowIsNotNoRow
  <2>2. ASSUME NEW h \in seen PROVE h.at <= next.last
    <3>1. h.at <= prev.last
      BY <2>1 DEF Newest
    <3>. QED
      BY <1>2, <3>1 DEF IsRow
  <2>. QED
    BY <1>2, <2>1, <2>2 DEF Newest
<1>. QED
  BY <1>1, <1>2, DetectsAbsence

LEMMA SightingKeepsSlots ==
  ASSUME RowsTyped, LooksTyped, SlotIsNewestPresence, NEW g, g.at \in Nat, g.slot \in Slots,
         ApplySighting(g)
  PROVE  RowsTyped' /\ LooksTyped' /\ SlotIsNewestPresence'
<1>1. LooksTyped' /\ sightings' = sightings \cup {g}
  BY DEF LooksTyped, ApplySighting
<1>2. PICK slot \in Slots : slot = g.slot
  OBVIOUS
<1>3. PICK prev : prev = slotState[slot] /\ (prev = NoSlotRow \/ IsRow(prev)) /\ Newest(Presences(slot), prev)
  BY NewestOfEach DEF RowsTyped
<1>4. \A s \in Slots : \A h \in Presences(s) : h.at \in Nat
  BY DEF Presences, LooksTyped
<1>5. PICK next : next = Detect(prev, g).next
  OBVIOUS
<1>6. PICK new : new = IF Signal(g) = Null \/ next = NoSlotRow THEN prev ELSE next
  OBVIOUS
<1>7. slotState' = [slotState EXCEPT ![slot] = new]
  <2>1. [slotState EXCEPT ![slot] = prev] = slotState
    BY <1>3 DEF RowsTyped
  <2>. QED
    BY <1>2, <1>3, <1>5, <1>6, <2>1 DEF ApplySighting
<1>8. /\ slotState'[slot] = new /\ \A s \in Slots \ {slot} : slotState'[s] = slotState[s]
      /\ DOMAIN slotState' = Slots /\ slotState' = [s \in Slots |-> slotState'[s]]
  BY <1>7 DEF RowsTyped
<1>9. new = NoSlotRow \/ IsRow(new)
  <2>1. Signal(g) \in {"ABSENT", "PRESENT", Null}
    BY SignalsOnly
  <2>2. CASE Signal(g) = "ABSENT"
    BY <1>3, <1>5, <1>6, <2>2, DetectsAbsence
  <2>3. CASE Signal(g) = "PRESENT"
    BY <1>3, <1>5, <1>6, <2>3, DetectsPresence DEF Shows
  <2>. QED
    BY <1>3, <1>6, <2>1, <2>2, <2>3
<1>10. RowsTyped'
  BY <1>8, <1>9 DEF RowsTyped
<1>11. /\ Signal(g) = "PRESENT" => Presences(slot)' = Presences(slot) \cup {g}
       /\ Signal(g) # "PRESENT" => Presences(slot)' = Presences(slot)
  BY <1>1, <1>2 DEF Presences
<1>12. Newest(Presences(slot)', new)
  <2>1. CASE Signal(g) = Null
    BY <1>3, <1>6, <1>11, <2>1, SignalsOnly
  <2>2. CASE Signal(g) = "ABSENT"
    <3>1. new = IF next = NoSlotRow THEN prev ELSE next
      BY <1>6, <2>2, SignalsOnly
    <3>2. \A h \in Presences(slot) : h.at \in Nat
      BY <1>4
    <3>3. Newest(Presences(slot), new)
      BY <1>3, <1>5, <2>2, <3>1, <3>2, AbsenceKeepsNewest
    <3>. QED
      BY <1>11, <2>2, <3>3
  <2>3. CASE Signal(g) = "PRESENT"
    <3>1. new = IF next = NoSlotRow THEN prev ELSE next
      BY <1>6, <2>3, SignalsOnly
    <3>2. \A h \in Presences(slot) : h.at \in Nat
      BY <1>4
    <3>3. Newest(Presences(slot) \cup {g}, new)
      BY <1>3, <1>5, <2>3, <3>1, <3>2, PresenceIsNewest
    <3>. QED
      BY <1>11, <2>3, <3>3
  <2>. QED
    BY <2>1, <2>2, <2>3, SignalsOnly
<1>13. ASSUME NEW s \in Slots PROVE Newest(Presences(s), slotState[s])'
  <2>1. PICK seen, st : seen = Presences(s)' /\ st = slotState'[s]
    OBVIOUS
  <2>2. Newest(seen, st)
    <3>1. CASE s = slot
      BY <1>8, <1>12, <2>1, <3>1
    <3>2. CASE s # slot
      <4>1. seen = Presences(s) /\ st = slotState[s]
        BY <1>1, <1>2, <1>8, <2>1, <3>2 DEF Presences
      <4>. QED
        BY <4>1, NewestOfEach
    <3>. QED
      BY <3>1, <3>2
  <2>. QED
    BY <2>1, <2>2 DEF Newest
<1>14. SlotIsNewestPresence'
  BY <1>13, NewestOfEach DEF SlotIsNewestPresence, Newest, Presences
<1>. QED
  BY <1>1, <1>10, <1>14

--------------------------------------------------------------------------------
(* The steps.                                                              *)

LEMMA RequestsKept ==
  ASSUME RequestsTyped, NEW o \in Observers, NEW r, observing' = [observing EXCEPT ![o] = r],
         IsRequest(r)
  PROVE  RequestsTyped'
<1>1. /\ observing'[o] = r /\ \A p \in Observers \ {o} : observing'[p] = observing[p]
      /\ observing' = [p \in Observers |-> observing'[p]]
  BY DEF RequestsTyped
<1>2. ASSUME NEW p \in Observers PROVE IsRequest(observing[p])'
  <2>1. PICK q : q = observing'[p]
    OBVIOUS
  <2>2. IsRequest(q)
    BY <1>1, <2>1 DEF RequestsTyped
  <2>. QED
    BY <2>1, <2>2 DEF IsRequest
<1>. QED
  BY <1>1, <1>2 DEF RequestsTyped

\* Only what was fetched has a content.
LEMMA FetchedIsWhole ==
  ASSUME NEW url
  PROVE  Fetch(url).content # Null => Fetch(url).status = "FETCHED"
<1>1. PICK answer : Fetch(url) = CASE answer.kind = "body" -> Download(answer)
                                   [] answer.kind = "redirect" -> Unfetched("BLOCKED")
                                   [] OTHER -> Unfetched(Refused[answer.kind])
  BY DEF Fetch
<1>2. Fetch(url) = Download(answer) \/ \E status : Fetch(url) = Unfetched(status)
  BY <1>1
<1>3. Download(answer).content # Null => Download(answer).status = "FETCHED"
  BY DEF Download, Unfetched
<1>. QED
  BY <1>2, <1>3 DEF Unfetched

LEMMA SightedIsFetched ==
  ASSUME NEW in, NEW r, r = Outcome(in), r.content # Null
  PROVE  in.url # Null /\ r.status = "FETCHED"
BY FetchedIsWhole DEF Outcome, Unfetched

\* A sighting is of what its request asked for.
LEMMA SightingOfRequest ==
  ASSUME RequestsTyped, NEW o \in Observers, RecordSighting(o)
  PROVE  \E g : /\ g.at \in Nat /\ g.slot \in Slots
                /\ g.asset # Null => g.status = "FETCHED"
                /\ \/ ApplySighting(g)
                   \/ UNCHANGED <<sightings, timeline, slotState>>
<1>1. observing[o].in \in MayObserve
  BY DEF RecordSighting, RequestsTyped, IsRequest
<1>2. PICK in : in = observing[o].in /\ in.slot \in Slots /\ in.at \in Nat
  BY <1>1
<1>3. PICK g : g = Sighting(in, Outcome(in).status, Outcome(in).content)
  OBVIOUS
<1>4. g.at \in Nat /\ g.slot \in Slots /\ (g.asset # Null => g.status = "FETCHED")
  BY <1>2, <1>3, SightedIsFetched DEF Sighting
<1>5. ApplySighting(g) \/ UNCHANGED <<sightings, timeline, slotState>>
  BY <1>2, <1>3 DEF RecordSighting
<1>. QED
  BY <1>4, <1>5

LEMMA RequestsStep ==
  ASSUME RequestsTyped, [MediaNext]_mediaVars
  PROVE  RequestsTyped'
<1>1. IsRequest(NoObservation)
  BY DEF IsRequest, NoObservation
<1>2. ASSUME NEW o \in Observers, SightCreative(o) PROVE RequestsTyped'
  <2>1. PICK in \in MayObserve : observing' = [observing EXCEPT ![o] = [at |-> "fetch", in |-> in]]
    BY <1>2 DEF SightCreative
  <2>2. PICK r : r = [at |-> "fetch", in |-> in]
    OBVIOUS
  <2>3. IsRequest(r)
    BY <2>2 DEF IsRequest
  <2>. QED
    BY <2>1, <2>2, <2>3, RequestsKept
<1>3. ASSUME NEW o \in Observers, observing' = [observing EXCEPT ![o] = NoObservation]
      PROVE  RequestsTyped'
  BY <1>1, <1>3, RequestsKept
<1>4. ASSUME NEW o \in Observers, RecordSighting(o) PROVE RequestsTyped'
  <2>1. PICK g, state : \/ observing' = [observing EXCEPT ![o] = NoObservation]
                        \/ observing' = [observing EXCEPT ![o] =
                                           [at |-> "node", sighting |-> g, state |-> state]]
    <3>1. PICK in : in = observing[o].in
      OBVIOUS
    <3>2. PICK r : r = Outcome(in)
      OBVIOUS
    <3>3. PICK g : g = Sighting(in, r.status, r.content)
      OBVIOUS
    <3>4. PICK state : state = slotState'[g.slot]
      OBVIOUS
    <3>5. \/ observing' = [observing EXCEPT ![o] = NoObservation]
          \/ observing' = [observing EXCEPT ![o] = [at |-> "node", sighting |-> g, state |-> state]]
      BY <1>4, <3>1, <3>2, <3>3, <3>4 DEF RecordSighting
    <3>. QED
      BY <3>5
  <2>2. PICK r : r = [at |-> "node", sighting |-> g, state |-> state]
    OBVIOUS
  <2>3. IsRequest(r)
    BY <2>2 DEF IsRequest
  <2>4. CASE observing' = [observing EXCEPT ![o] = r]
    BY <2>3, <2>4, RequestsKept
  <2>. QED
    BY <1>3, <2>1, <2>2, <2>4
<1>5. ASSUME NEW o \in Observers, LinkNode(o) PROVE RequestsTyped'
  <2>1. PICK r : r = [observing[o] EXCEPT !.at = "edge"]
    OBVIOUS
  <2>2. IsRequest(r)
    BY <2>1 DEF RequestsTyped, IsRequest
  <2>3. observing' = [observing EXCEPT ![o] = r]
    BY <1>5, <2>1 DEF LinkNode
  <2>. QED
    BY <2>2, <2>3, RequestsKept
<1>6. ASSUME NEW o \in Observers, LinkEdge(o) \/ LinkFails(o) PROVE RequestsTyped'
  BY <1>3, <1>6 DEF LinkEdge, LinkFails
<1>7. ASSUME NEW u \in Urls, Publish(u) PROVE RequestsTyped'
  BY <1>7 DEF Publish, RequestsTyped
<1>8. CASE MediaRestart
  <2>1. observing' = [o \in Observers |-> NoObservation]
    BY <1>8 DEF MediaRestart
  <2>2. observing' = [o \in Observers |-> observing'[o]] /\ \A o \in Observers : observing'[o] = NoObservation
    BY <2>1
  <2>. QED
    BY <1>1, <2>2 DEF RequestsTyped
<1>9. CASE UNCHANGED mediaVars
  BY <1>9 DEF mediaVars, RequestsTyped
<1>. QED
  BY <1>2, <1>4, <1>5, <1>6, <1>7, <1>8, <1>9 DEF MediaNext

\* A step records a look, or leaves the slots and their history alone.
LEMMA Recorded ==
  ASSUME RequestsTyped, [MediaNext]_mediaVars
  PROVE  \/ UNCHANGED <<sightings, timeline, slotState>>
         \/ \E g : /\ g.at \in Nat /\ g.slot \in Slots /\ ApplySighting(g)
                   /\ g.asset # Null => g.status = "FETCHED"
<1>1. ASSUME NEW o \in Observers, RecordSighting(o)
      PROVE  \/ UNCHANGED <<sightings, timeline, slotState>>
             \/ \E g : /\ g.at \in Nat /\ g.slot \in Slots /\ ApplySighting(g)
                       /\ g.asset # Null => g.status = "FETCHED"
  BY <1>1, SightingOfRequest
<1>2. ASSUME NEW o \in Observers, SightCreative(o) \/ LinkNode(o) \/ LinkEdge(o) \/ LinkFails(o)
      PROVE  UNCHANGED <<sightings, timeline, slotState>>
  BY <1>2 DEF SightCreative, LinkNode, LinkEdge, LinkFails
<1>3. ASSUME NEW u \in Urls, Publish(u) PROVE UNCHANGED <<sightings, timeline, slotState>>
  BY <1>3 DEF Publish
<1>4. CASE MediaRestart
  BY <1>4 DEF MediaRestart
<1>5. CASE UNCHANGED mediaVars
  BY <1>5 DEF mediaVars
<1>. QED
  BY <1>1, <1>2, <1>3, <1>4, <1>5 DEF MediaNext

LEMMA MediaStart ==
  ASSUME MediaInit
  PROVE  SlotsInv
<1>1. IsRequest(NoObservation)
  BY DEF IsRequest, NoObservation
<1>2. RequestsTyped
  <2>1. observing = [o \in Observers |-> observing[o]] /\ \A o \in Observers : observing[o] = NoObservation
    BY DEF MediaInit
  <2>. QED
    BY <1>1, <2>1 DEF RequestsTyped
<1>3. RowsTyped /\ LooksTyped
  BY DEF MediaInit, RowsTyped, LooksTyped
<1>4. SlotIsNewestPresence
  BY DEF MediaInit, SlotIsNewestPresence
<1>. QED
  BY <1>2, <1>3, <1>4 DEF SlotsInv

LEMMA SlotsStep ==
  ASSUME SlotsInv, [MediaNext]_mediaVars
  PROVE  SlotsInv'
<1>1. RequestsTyped'
  BY RequestsStep DEF SlotsInv
<1>2. CASE UNCHANGED <<sightings, timeline, slotState>>
  BY <1>1, <1>2 DEF SlotsInv, RowsTyped, LooksTyped, SlotIsNewestPresence
<1>3. ASSUME NEW g, g.at \in Nat, g.slot \in Slots, ApplySighting(g) PROVE SlotsInv'
  BY <1>1, <1>3, SightingKeepsSlots DEF SlotsInv
<1>. QED
  BY <1>2, <1>3, Recorded DEF SlotsInv

\* A slot shows the newest presence recorded of it, in whatever order any
\* number of requests, retries and restarts record what they saw: the guard of
\* the transition detector against late looks suffices.
THEOREM SlotsShowTheNewest == MediaSpec => []SlotIsNewestPresence
<1>1. SlotsInv => SlotIsNewestPresence
  BY DEF SlotsInv
<1>2. SlotsInv /\ [MediaNext]_mediaVars => SlotsInv'
  BY SlotsStep
<1>3. MediaInit => SlotsInv
  BY MediaStart
<1>. QED
  BY <1>1, <1>2, <1>3, PTL DEF MediaSpec

--------------------------------------------------------------------------------
(* What the timeline tells.                                                *)

Vouched(t, looks) ==
  t.kind = "DISAPPEARED" => \E g \in looks : <<g.slot, g.at>> = <<t.slot, t.at>> /\ g.status = "ABSENT"

OfContent(t) ==
  /\ t.kind = "CONTENT_CHANGED" => t.from # t.to \/ (t.from = Null /\ t.fromUrl # t.toUrl)
  /\ t.kind = "URL_CHANGED_SAME_CONTENT" => t.from = t.to /\ t.fromUrl # t.toUrl

TimelineIsSound ==
  /\ \E S : timeline \in Seq(S)
  /\ \A i \in 1 .. Len(timeline) : Vouched(timeline[i], sightings) /\ OfContent(timeline[i])

\* What a kind of transition says of the row before and of the look.
Warranted(kind, prev, g) ==
  /\ kind = "DISAPPEARED" => Signal(g) = "ABSENT"
  /\ kind = "CONTENT_CHANGED" =>
       prev # NoSlotRow /\ (prev.asset # g.asset \/ (prev.asset = Null /\ prev.url # g.url))
  /\ kind = "URL_CHANGED_SAME_CONTENT" => prev # NoSlotRow /\ prev.asset = g.asset /\ prev.url # g.url

LEMMA OneKind ==
  ASSUME NEW k, NEW kinds, kinds = <<k>> \/ kinds = <<>>
  PROVE  Len(kinds) \in Nat /\ \A i \in 1 .. Len(kinds) : kinds[i] = k
<1>1. CASE kinds = <<k>>
  <2>1. Len(kinds) = 1 /\ kinds[1] = k
    BY <1>1
  <2>. QED
    BY <2>1
<1>2. CASE kinds = <<>>
  <2>1. Len(kinds) = 0
    BY <1>2
  <2>. QED
    BY <2>1
<1>. QED
  BY <1>1, <1>2

LEMMA KindsAreWarranted ==
  ASSUME NEW prev, prev = NoSlotRow \/ IsRow(prev), NEW g, Signal(g) \in {"ABSENT", "PRESENT"},
         NEW kinds, kinds = Detect(prev, g).kinds
  PROVE  Len(kinds) \in Nat /\ \A i \in 1 .. Len(kinds) : Warranted(kinds[i], prev, g)
<1>1. ASSUME kinds = <<>>
      PROVE  Len(kinds) \in Nat /\ \A i \in 1 .. Len(kinds) : Warranted(kinds[i], prev, g)
  <2>1. Len(kinds) = 0
    BY <1>1
  <2>. QED
    BY <2>1
<1>2. ASSUME NEW k, kinds = <<k>>, Warranted(k, prev, g)
      PROVE  Len(kinds) \in Nat /\ \A i \in 1 .. Len(kinds) : Warranted(kinds[i], prev, g)
  <2>1. Len(kinds) \in Nat /\ \A i \in 1 .. Len(kinds) : kinds[i] = k
    BY <1>2, OneKind
  <2>. QED
    BY <1>2, <2>1
<1>3. CASE prev # NoSlotRow /\ g.at < prev.last
  BY <1>1, <1>3 DEF Detect, Same
<1>4. CASE ~(prev # NoSlotRow /\ g.at < prev.last) /\ Signal(g) = "ABSENT"
  <2>1. kinds = DetectAbsent(prev, g).kinds
    BY <1>4 DEF Detect
  <2>2. kinds = <<>> \/ kinds = <<"DISAPPEARED">>
    BY <2>1 DEF DetectAbsent, Same
  <2>3. Warranted("DISAPPEARED", prev, g)
    BY <1>4 DEF Warranted
  <2>. QED
    BY <1>1, <1>2, <2>2, <2>3
<1>5. CASE ~(prev # NoSlotRow /\ g.at < prev.last) /\ Signal(g) = "PRESENT"
  <2>1. kinds = IF prev = NoSlotRow THEN DetectFirst(g).kinds
                ELSE IF ~prev.present THEN DetectReturn(prev, g).kinds
                ELSE DetectPresent(prev, g).kinds
    BY <1>5 DEF Detect
  <2>2. CASE prev = NoSlotRow
    <3>1. kinds = <<"FIRST_SEEN">> /\ Warranted("FIRST_SEEN", prev, g)
      BY <2>1, <2>2 DEF DetectFirst, Warranted
    <3>. QED
      BY <1>2, <3>1
  <2>3. CASE prev # NoSlotRow /\ ~prev.present
    <3>1. kinds = DetectReturn(prev, g).kinds /\ Warranted("REAPPEARED", prev, g)
      BY <2>1, <2>3 DEF Warranted
    <3>2. CASE Null \notin {g.asset, prev.asset} /\ g.asset # prev.asset
      <4>1. kinds = <<"REAPPEARED", "CONTENT_CHANGED">>
        BY <3>1, <3>2 DEF DetectReturn
      <4>2. Warranted("CONTENT_CHANGED", prev, g)
        BY <2>3, <3>2 DEF Warranted
      <4>3. Len(kinds) = 2 /\ kinds[1] = "REAPPEARED" /\ kinds[2] = "CONTENT_CHANGED"
        BY <4>1
      <4>. QED
        BY <3>1, <4>2, <4>3
    <3>3. CASE ~(Null \notin {g.asset, prev.asset} /\ g.asset # prev.asset)
      <4>1. kinds = <<"REAPPEARED">>
        BY <3>1, <3>3 DEF DetectReturn
      <4>. QED
        BY <1>2, <3>1, <4>1
    <3>. QED
      BY <3>2, <3>3
  <2>4. CASE prev # NoSlotRow /\ prev.present
    <3>1. kinds = DetectPresent(prev, g).kinds
      BY <2>1, <2>4
    <3>2. CASE IdentityKey(g.asset, g.url) # IdentityKey(prev.asset, prev.url)
      <4>1. kinds = <<"CONTENT_CHANGED">>
        BY <3>1, <3>2 DEF DetectPresent
      <4>2. prev.asset # g.asset \/ (prev.asset = Null /\ prev.url # g.url)
        BY <3>2 DEF IdentityKey
      <4>3. Warranted("CONTENT_CHANGED", prev, g)
        BY <2>4, <4>2 DEF Warranted
      <4>. QED
        BY <1>2, <4>1, <4>3
    <3>3. CASE IdentityKey(g.asset, g.url) = IdentityKey(prev.asset, prev.url) /\ g.asset # Null
               /\ g.url # prev.url
      <4>1. kinds = <<"URL_CHANGED_SAME_CONTENT">>
        BY <3>1, <3>3 DEF DetectPresent
      <4>2. prev.asset = g.asset
        BY <3>3 DEF IdentityKey
      <4>3. Warranted("URL_CHANGED_SAME_CONTENT", prev, g)
        BY <2>4, <3>3, <4>2 DEF Warranted
      <4>. QED
        BY <1>2, <4>1, <4>3
    <3>4. CASE IdentityKey(g.asset, g.url) = IdentityKey(prev.asset, prev.url)
               /\ ~(g.asset # Null /\ g.url # prev.url)
      <4>1. kinds = <<>>
        BY <3>1, <3>4 DEF DetectPresent
      <4>. QED
        BY <1>1, <4>1
    <3>. QED
      BY <3>2, <3>3, <3>4
  <2>. QED
    BY <2>2, <2>3, <2>4
<1>. QED
  BY <1>3, <1>4, <1>5

\* The transitions a look adds are told by it.
ToldBy(new, g) ==
  /\ \E S : new \in Seq(S)
  /\ \A i \in 1 .. Len(new) : Vouched(new[i], {g}) /\ OfContent(new[i])

LEMMA TransitionsAreTold ==
  ASSUME NEW prev, prev = NoSlotRow \/ IsRow(prev), NEW g, Signal(g) \in {"ABSENT", "PRESENT"},
         NEW new, new = Transitions(prev, g)
  PROVE  ToldBy(new, g)
<1>1. PICK kinds : kinds = Detect(prev, g).kinds
  OBVIOUS
<1>2. PICK from : from = IF prev = NoSlotRow THEN [asset |-> Null, url |-> Null] ELSE prev
  OBVIOUS
<1>. DEFINE T(k) == [slot |-> g.slot, kind |-> k, from |-> from.asset, to |-> g.asset,
                     fromUrl |-> from.url, toUrl |-> g.url, at |-> g.at]
<1>3. new = [i \in 1 .. Len(kinds) |-> T(kinds[i])]
  BY <1>1, <1>2 DEF Transitions
<1>4. Len(kinds) \in Nat /\ \A i \in 1 .. Len(kinds) : Warranted(kinds[i], prev, g)
  BY <1>1, KindsAreWarranted
<1>. HIDE DEF T
<1>5. new \in Seq({T(kinds[i]) : i \in 1 .. Len(kinds)}) /\ Len(new) = Len(kinds)
  BY <1>3, <1>4
<1>6. ASSUME NEW k, Warranted(k, prev, g) PROVE Vouched(T(k), {g}) /\ OfContent(T(k))
  <2>1. k = "DISAPPEARED" => g.status = "ABSENT"
    BY <1>6 DEF Warranted, Signal
  <2>2. Vouched(T(k), {g})
    BY <2>1 DEF Vouched, T
  <2>3. OfContent(T(k))
    BY <1>2, <1>6 DEF Warranted, OfContent, T
  <2>. QED
    BY <2>2, <2>3
<1>7. ASSUME NEW i \in 1 .. Len(new) PROVE Vouched(new[i], {g}) /\ OfContent(new[i])
  <2>1. PICK k : k = kinds[i]
    OBVIOUS
  <2>2. new[i] = T(k) /\ Warranted(k, prev, g)
    BY <1>3, <1>4, <1>5, <1>7, <2>1
  <2>. QED
    BY <1>6, <2>2
<1>. QED
  BY <1>5, <1>7 DEF ToldBy

LEMMA SightingKeepsTimeline ==
  ASSUME RowsTyped, TimelineIsSound, NEW g, g.slot \in Slots, ApplySighting(g)
  PROVE  TimelineIsSound'
<1>1. sightings' = sightings \cup {g}
  BY DEF ApplySighting
<1>2. ASSUME NEW t, Vouched(t, sightings) \/ Vouched(t, {g}) PROVE Vouched(t, sightings')
  BY <1>1, <1>2 DEF Vouched
<1>3. PICK S : timeline \in Seq(S)
  BY DEF TimelineIsSound
<1>4. CASE Signal(g) = Null
  <2>1. timeline' = timeline
    BY <1>4 DEF ApplySighting
  <2>2. ASSUME NEW i \in 1 .. Len(timeline) PROVE Vouched(timeline[i], sightings') /\ OfContent(timeline[i])
    BY <1>2 DEF TimelineIsSound
  <2>. QED
    BY <1>3, <2>1, <2>2 DEF TimelineIsSound, Vouched, OfContent
<1>5. CASE Signal(g) \in {"ABSENT", "PRESENT"}
  <2>1. PICK prev : prev = slotState[g.slot] /\ (prev = NoSlotRow \/ IsRow(prev))
    BY DEF RowsTyped
  <2>2. PICK new : new = Transitions(prev, g)
    OBVIOUS
  <2>3. timeline' = timeline \o new
    BY <1>5, <2>1, <2>2, SignalsOnly DEF ApplySighting
  <2>3a. ToldBy(new, g)
    BY <1>5, <2>1, <2>2, TransitionsAreTold
  <2>4. PICK R : new \in Seq(R)
    BY <2>3a DEF ToldBy
  <2>5. \A i \in 1 .. Len(new) : Vouched(new[i], {g}) /\ OfContent(new[i])
    BY <2>3a DEF ToldBy
  <2>6. timeline \in Seq(S \cup R) /\ new \in Seq(S \cup R)
    BY <1>3, <2>4
  <2>7. PICK ts : ts = timeline \o new
    OBVIOUS
  <2>8. ts \in Seq(S \cup R) /\ Len(ts) = Len(timeline) + Len(new)
    BY <2>6, <2>7
  <2>9. ASSUME NEW i \in 1 .. Len(ts) PROVE Vouched(ts[i], sightings') /\ OfContent(ts[i])
    <3>1. CASE i <= Len(timeline)
      <4>1. i \in 1 .. Len(timeline) /\ ts[i] = timeline[i]
        BY <2>6, <2>7, <2>8, <2>9, <3>1
      <4>. QED
        BY <1>2, <4>1 DEF TimelineIsSound
    <3>2. CASE ~(i <= Len(timeline))
      <4>1. i - Len(timeline) \in 1 .. Len(new) /\ ts[i] = new[i - Len(timeline)]
        BY <2>6, <2>7, <2>8, <2>9, <3>2
      <4>. QED
        BY <1>2, <2>5, <4>1
    <3>. QED
      BY <3>1, <3>2
  <2>. QED
    BY <2>3, <2>7, <2>8, <2>9 DEF TimelineIsSound, Vouched, OfContent
<1>. QED
  BY <1>4, <1>5, SignalsOnly

LEMMA TimelineStep ==
  ASSUME SlotsInv, TimelineIsSound, [MediaNext]_mediaVars
  PROVE  TimelineIsSound'
<1>1. CASE UNCHANGED <<sightings, timeline, slotState>>
  BY <1>1 DEF TimelineIsSound, Vouched, OfContent
<1>2. ASSUME NEW g, g.slot \in Slots, ApplySighting(g) PROVE TimelineIsSound'
  BY <1>2, SightingKeepsTimeline DEF SlotsInv
<1>. QED
  BY <1>1, <1>2, Recorded DEF SlotsInv

\* A creative is said to disappear only where an authoritative look found none,
\* and to change only where its content, or the address of a content not
\* fetched, is another: failed fetches, late looks and retries tell nothing.
THEOREM TimelineIsVouched == MediaSpec => []TransitionsAreVouched
<1>1. MediaInit => SlotsInv /\ TimelineIsSound
  <2>1. MediaInit => timeline = <<>>
    BY DEF MediaInit
  <2>2. timeline = <<>> => TimelineIsSound
    BY DEF TimelineIsSound
  <2>. QED
    BY <2>1, <2>2, MediaStart
<1>2. SlotsInv /\ TimelineIsSound /\ [MediaNext]_mediaVars => (SlotsInv /\ TimelineIsSound)'
  BY SlotsStep, TimelineStep
<1>3. TimelineIsSound => TransitionsAreVouched
  BY DEF TimelineIsSound, Vouched, OfContent, TransitionsAreVouched, DisappearanceIsVouched,
         ChangeIsOfContent
<1>. QED
  BY <1>1, <1>2, <1>3, PTL DEF MediaSpec
--------------------------------------------------------------------------------
(* What the read models count.                                             *)

Tells(kinds, k) == \E j \in 1 .. Len(kinds) : kinds[j] = k

OnceEach(kinds) ==
  /\ Len(kinds) \in Nat
  /\ \A i, j \in 1 .. Len(kinds) : kinds[i] = kinds[j] => i = j

\* What the kinds of transitions say of a row: how often its content changed,
\* and whether it came or went.
Accounted(prev, new, kinds) ==
  /\ OnceEach(kinds)
  /\ prev = NoSlotRow =>
       /\ new # NoSlotRow => new.version = 1 /\ new.present
       /\ \A k \in {"CONTENT_CHANGED", "DISAPPEARED", "REAPPEARED"} : ~Tells(kinds, k)
  /\ prev # NoSlotRow =>
       /\ new # NoSlotRow
       /\ new.version = IF Tells(kinds, "CONTENT_CHANGED") THEN prev.version + 1 ELSE prev.version
       /\ Tells(kinds, "DISAPPEARED") <=> prev.present /\ ~new.present
       /\ Tells(kinds, "REAPPEARED") <=> ~prev.present /\ new.present

LEMMA TellsNothing ==
  ASSUME NEW kinds, kinds = <<>>
  PROVE  OnceEach(kinds) /\ \A k : ~Tells(kinds, k)
<1>1. Len(kinds) = 0
  OBVIOUS
<1>. QED
  BY <1>1 DEF OnceEach, Tells

LEMMA TellsOne ==
  ASSUME NEW one, NEW kinds, kinds = <<one>>
  PROVE  OnceEach(kinds) /\ \A k : Tells(kinds, k) <=> k = one
<1>1. Len(kinds) = 1 /\ kinds[1] = one
  OBVIOUS
<1>. QED
  BY <1>1 DEF OnceEach, Tells

LEMMA TellsTwo ==
  ASSUME NEW one, NEW two, one # two, NEW kinds, kinds = <<one, two>>
  PROVE  OnceEach(kinds) /\ \A k : Tells(kinds, k) <=> k = one \/ k = two
<1>1. Len(kinds) = 2 /\ kinds[1] = one /\ kinds[2] = two
  OBVIOUS
<1>. QED
  BY <1>1 DEF OnceEach, Tells

LEMMA DetectAccounts ==
  ASSUME NEW prev, prev = NoSlotRow \/ IsRow(prev), NEW g, Signal(g) \in {"ABSENT", "PRESENT"},
         NEW d, d = Detect(prev, g), NEW new, new = IF d.next = NoSlotRow THEN prev ELSE d.next
  PROVE  Accounted(prev, new, d.kinds)
<1>1. ASSUME d.kinds = <<>>, new = prev
      PROVE  Accounted(prev, new, d.kinds)
  <2>1. OnceEach(d.kinds) /\ \A k : ~Tells(d.kinds, k)
    BY <1>1, TellsNothing
  <2>. QED
    BY <1>1, <2>1, RowIsNotNoRow DEF Accounted, IsRow
<1>2. CASE prev # NoSlotRow /\ g.at < prev.last
  BY <1>1, <1>2 DEF Detect, Same
<1>3. CASE ~(prev # NoSlotRow /\ g.at < prev.last) /\ Signal(g) = "ABSENT"
  <2>1. d = DetectAbsent(prev, g)
    BY <1>3 DEF Detect
  <2>2. CASE prev = NoSlotRow \/ ~prev.present
    BY <1>1, <2>1, <2>2 DEF DetectAbsent, Same
  <2>3. CASE prev # NoSlotRow /\ prev.present
    <3>1. d.kinds = <<"DISAPPEARED">> /\ d.next = [prev EXCEPT !.present = FALSE, !.last = g.at, !.changed = g.at]
      BY <2>1, <2>3 DEF DetectAbsent
    <3>2. d.next.version = prev.version /\ ~d.next.present
      BY <2>3, <3>1 DEF IsRow
    <3>3. OnceEach(d.kinds) /\ \A k : Tells(d.kinds, k) <=> k = "DISAPPEARED"
      BY <3>1, TellsOne
    <3>4. d.next # NoSlotRow
      <4>1. "present" \in DOMAIN d.next /\ DOMAIN NoSlotRow = {"version"}
        BY <2>3, <3>1 DEF IsRow, NoSlotRow
      <4>. QED
        BY <4>1
    <3>. QED
      BY <2>3, <3>2, <3>3, <3>4 DEF Accounted
  <2>. QED
    BY <2>2, <2>3
<1>4. CASE ~(prev # NoSlotRow /\ g.at < prev.last) /\ Signal(g) = "PRESENT" /\ prev = NoSlotRow
  <2>1. d = DetectFirst(g)
    BY <1>4 DEF Detect
  <2>2. d.kinds = <<"FIRST_SEEN">> /\ d.next.version = 1 /\ d.next.present
    BY <2>1 DEF DetectFirst
  <2>3. OnceEach(d.kinds) /\ \A k : Tells(d.kinds, k) <=> k = "FIRST_SEEN"
    BY <2>2, TellsOne
  <2>4. new = prev \/ new = d.next
    OBVIOUS
  <2>5. new # NoSlotRow => new.version = 1 /\ new.present
    BY <1>4, <2>2, <2>4
  <2>. QED
    BY <1>4, <2>3, <2>5 DEF Accounted
<1>5. CASE ~(prev # NoSlotRow /\ g.at < prev.last) /\ Signal(g) = "PRESENT" /\ prev # NoSlotRow /\ ~prev.present
  <2>. DEFINE other == Null \notin {g.asset, prev.asset} /\ g.asset # prev.asset
  <2>1. d = DetectReturn(prev, g)
    BY <1>5 DEF Detect
  <2>2. d.kinds = IF other THEN <<"REAPPEARED", "CONTENT_CHANGED">> ELSE <<"REAPPEARED">>
    BY <2>1 DEF DetectReturn
  <2>3. PICK asset, version : /\ d.next = [prev EXCEPT !.present = TRUE, !.asset = asset, !.url = g.url,
                                            !.last = g.at, !.changed = g.at, !.version = version]
                              /\ version = IF other THEN prev.version + 1 ELSE prev.version
    <3>1. PICK version : version = IF Null \notin {g.asset, prev.asset} /\ g.asset # prev.asset
                                   THEN prev.version + 1 ELSE prev.version
      OBVIOUS
    <3>2. PICK asset : asset = Rather(g.asset, prev.asset)
      OBVIOUS
    <3>3. d.next = [prev EXCEPT !.present = TRUE, !.asset = asset, !.url = g.url,
                                !.last = g.at, !.changed = g.at, !.version = version]
      BY <1>5, <2>1, <3>1, <3>2 DEF DetectReturn
    <3>. QED
      BY <3>1, <3>3
  <2>4. /\ d.next.version = IF other THEN prev.version + 1 ELSE prev.version
        /\ d.next.present /\ "present" \in DOMAIN d.next
    BY <1>5, <2>3 DEF IsRow
  <2>5. d.next # NoSlotRow
    BY <2>4 DEF NoSlotRow
  <2>. HIDE DEF other
  <2>6. OnceEach(d.kinds) /\ Tells(d.kinds, "REAPPEARED") /\ ~Tells(d.kinds, "DISAPPEARED")
        /\ (Tells(d.kinds, "CONTENT_CHANGED") <=> other)
    <3>1. CASE other
      <4>1. d.kinds = <<"REAPPEARED", "CONTENT_CHANGED">>
        BY <2>2, <3>1
      <4>. QED
        BY <3>1, <4>1, TellsTwo
    <3>2. CASE ~other
      <4>1. d.kinds = <<"REAPPEARED">>
        BY <2>2, <3>2
      <4>. QED
        BY <3>2, <4>1, TellsOne
    <3>. QED
      BY <3>1, <3>2
  <2>. QED
    BY <1>5, <2>4, <2>5, <2>6 DEF Accounted
<1>6. CASE ~(prev # NoSlotRow /\ g.at < prev.last) /\ Signal(g) = "PRESENT" /\ prev # NoSlotRow /\ prev.present
  <2>1. d = DetectPresent(prev, g)
    BY <1>6 DEF Detect
  <2>2. /\ d.next.version = IF Tells(d.kinds, "CONTENT_CHANGED") THEN prev.version + 1 ELSE prev.version
        /\ OnceEach(d.kinds) /\ ~Tells(d.kinds, "DISAPPEARED") /\ ~Tells(d.kinds, "REAPPEARED")
        /\ d.next.present /\ "present" \in DOMAIN d.next
    <3>1. CASE IdentityKey(g.asset, g.url) # IdentityKey(prev.asset, prev.url)
      <4>1. /\ d.kinds = <<"CONTENT_CHANGED">>
            /\ d.next = [prev EXCEPT !.asset = g.asset, !.url = g.url, !.last = g.at, !.changed = g.at,
                                     !.version = prev.version + 1]
        BY <2>1, <3>1 DEF DetectPresent
      <4>2. OnceEach(d.kinds) /\ \A k : Tells(d.kinds, k) <=> k = "CONTENT_CHANGED"
        BY <4>1, TellsOne
      <4>. QED
        BY <1>6, <4>1, <4>2 DEF IsRow
    <3>2. CASE IdentityKey(g.asset, g.url) = IdentityKey(prev.asset, prev.url) /\ g.asset # Null /\ g.url # prev.url
      <4>1. /\ d.kinds = <<"URL_CHANGED_SAME_CONTENT">>
            /\ d.next = [prev EXCEPT !.url = g.url, !.last = g.at]
        BY <2>1, <3>2 DEF DetectPresent
      <4>2. OnceEach(d.kinds) /\ \A k : Tells(d.kinds, k) <=> k = "URL_CHANGED_SAME_CONTENT"
        BY <4>1, TellsOne
      <4>. QED
        BY <1>6, <4>1, <4>2 DEF IsRow
    <3>3. CASE IdentityKey(g.asset, g.url) = IdentityKey(prev.asset, prev.url) /\ ~(g.asset # Null /\ g.url # prev.url)
      <4>1. d.kinds = <<>> /\ d.next = [prev EXCEPT !.last = g.at]
        BY <2>1, <3>3 DEF DetectPresent
      <4>2. OnceEach(d.kinds) /\ \A k : ~Tells(d.kinds, k)
        BY <4>1, TellsNothing
      <4>. QED
        BY <1>6, <4>1, <4>2 DEF IsRow
    <3>. QED
      BY <3>1, <3>2, <3>3
  <2>3. d.next # NoSlotRow
    BY <2>2 DEF NoSlotRow
  <2>. QED
    BY <1>6, <2>2, <2>3 DEF Accounted
<1>. QED
  BY <1>2, <1>3, <1>4, <1>5, <1>6

\* Where the timeline tells of a kind of transition at some slots.
ToldAt(kind, slots) == {i \in 1 .. Len(timeline) : timeline[i].kind = kind /\ timeline[i].slot \in slots}

LEMMA ToldIsFinite ==
  ASSUME TimelineIsSound, NEW kind, NEW slots
  PROVE  IsFiniteSet(ToldAt(kind, slots)) /\ Changes(kind, slots) = Cardinality(ToldAt(kind, slots))
         /\ Changes(kind, slots) \in Nat
<1>1. Len(timeline) \in Nat
  BY DEF TimelineIsSound
<1>2. IsFiniteSet(1 .. Len(timeline)) /\ ToldAt(kind, slots) \in SUBSET (1 .. Len(timeline))
  BY <1>1, FS_Interval DEF ToldAt
<1>3. IsFiniteSet(ToldAt(kind, slots))
  BY <1>2, FS_Subset
<1>. QED
  BY <1>3, FS_CardinalityType DEF Changes, ToldAt

\* A look adds what its kinds tell, at its slot.
Appended(g, kinds) ==
  /\ Len(timeline') = Len(timeline) + Len(kinds)
  /\ \A i \in 1 .. Len(timeline) : timeline'[i] = timeline[i]
  /\ \A j \in 1 .. Len(kinds) : LET t == timeline'[Len(timeline) + j]
                                IN  t.kind = kinds[j] /\ t.slot = g.slot

LEMMA ChangesCount ==
  ASSUME TimelineIsSound, NEW g, NEW kinds, OnceEach(kinds), Appended(g, kinds), NEW kind, NEW slots
  PROVE  Changes(kind, slots)' = IF g.slot \in slots /\ Tells(kinds, kind)
                                 THEN Changes(kind, slots) + 1 ELSE Changes(kind, slots)
<1>1. Len(timeline) \in Nat /\ Len(kinds) \in Nat
  BY DEF TimelineIsSound, OnceEach
<1>2. IsFiniteSet(ToldAt(kind, slots)) /\ Changes(kind, slots) = Cardinality(ToldAt(kind, slots))
  BY ToldIsFinite
<1>3. Changes(kind, slots)' = Cardinality(ToldAt(kind, slots)')
  BY DEF Changes, ToldAt
<1>4. \A i \in 1 .. Len(timeline)' : i \in ToldAt(kind, slots)' <=>
        \/ i \in ToldAt(kind, slots)
        \/ /\ i - Len(timeline) \in 1 .. Len(kinds) /\ kinds[i - Len(timeline)] = kind
           /\ g.slot \in slots
  <2>. TAKE i \in 1 .. Len(timeline)'
  <2>1. CASE i <= Len(timeline)
    <3>1. i \in 1 .. Len(timeline) /\ ~(i - Len(timeline) \in 1 .. Len(kinds))
      BY <1>1, <2>1 DEF Appended
    <3>. QED
      BY <3>1 DEF Appended, ToldAt
  <2>2. CASE ~(i <= Len(timeline))
    <3>1. PICK j \in 1 .. Len(kinds) : i = Len(timeline) + j /\ j = i - Len(timeline)
      <4>1. PICK n \in Nat, m \in Nat : n = Len(timeline) /\ m = Len(kinds)
        BY <1>1
      <4>2. i \in 1 .. n + m /\ ~(i <= n)
        BY <2>2, <4>1 DEF Appended
      <4>3. i - n \in 1 .. m /\ i = n + (i - n)
        BY <4>2
      <4>. QED
        BY <4>1, <4>3
    <3>2. i \notin ToldAt(kind, slots)
      BY <2>2 DEF ToldAt
    <3>3. timeline'[i].kind = kinds[j] /\ timeline'[i].slot = g.slot
      BY <3>1 DEF Appended
    <3>. QED
      BY <3>1, <3>2, <3>3 DEF ToldAt
  <2>. QED
    BY <2>1, <2>2
<1>5. /\ ToldAt(kind, slots)' \subseteq 1 .. Len(timeline)'
      /\ ToldAt(kind, slots) \subseteq 1 .. Len(timeline)
      /\ 1 .. Len(timeline) \subseteq 1 .. Len(timeline)'
  BY <1>1 DEF ToldAt, Appended
<1>6. CASE g.slot \in slots /\ Tells(kinds, kind)
  <2>1. PICK j \in 1 .. Len(kinds) : kinds[j] = kind
    BY <1>6 DEF Tells
  <2>2. PICK new : new = Len(timeline) + j
    OBVIOUS
  <2>3. new \in 1 .. Len(timeline)' /\ new \notin ToldAt(kind, slots) /\ new - Len(timeline) = j
    BY <1>1, <1>5, <2>2 DEF Appended
  <2>4. \A i \in 1 .. Len(timeline)' :
          i - Len(timeline) \in 1 .. Len(kinds) /\ kinds[i - Len(timeline)] = kind <=> i = new
    <3>. TAKE i \in 1 .. Len(timeline)'
    <3>1. i - Len(timeline) = j <=> i = new
      BY <1>1, <2>2 DEF Appended
    <3>. QED
      BY <2>1, <3>1 DEF OnceEach
  <2>5. ToldAt(kind, slots)' = ToldAt(kind, slots) \cup {new}
    BY <1>4, <1>5, <1>6, <2>3, <2>4
  <2>6. Cardinality(ToldAt(kind, slots) \cup {new}) = Cardinality(ToldAt(kind, slots)) + 1
    BY <1>2, <2>3, FS_AddElement
  <2>. QED
    BY <1>2, <1>3, <1>6, <2>5, <2>6
<1>7. CASE ~(g.slot \in slots /\ Tells(kinds, kind))
  <2>1. ToldAt(kind, slots)' = ToldAt(kind, slots)
    BY <1>4, <1>5, <1>7 DEF Tells
  <2>. QED
    BY <1>2, <1>3, <1>7, <2>1
<1>. QED
  BY <1>6, <1>7

\* A look at a slot, with its rows before and after.
Turns(g, prev, new, kinds) ==
  /\ prev = slotState[g.slot] /\ (prev = NoSlotRow \/ IsRow(prev))
  /\ new = NoSlotRow \/ IsRow(new)
  /\ slotState'[g.slot] = new /\ \A s \in Slots \ {g.slot} : slotState'[s] = slotState[s]
  /\ Accounted(prev, new, kinds) /\ Appended(g, kinds)

--------------------------------------------------------------------------------
(* The counts of a set of slots, from their rows.                          *)

SeenIn(rows, slots) == {s \in slots : rows[s] # NoSlotRow}
HadIn(rows, slots) == UNION {{s} \X (1 .. rows[s].version) : s \in SeenIn(rows, slots)}
GoneIn(rows, slots) == {s \in SeenIn(rows, slots) : ~rows[s].present}
RevisedIn(rows, slots) == {s \in SeenIn(rows, slots) : rows[s].version > 1}

CountedAt(rows, slots, changed, gone, back) ==
  /\ Cardinality(HadIn(rows, slots)) = Cardinality(SeenIn(rows, slots)) + changed
  /\ gone = back + Cardinality(GoneIn(rows, slots))
  /\ Cardinality(RevisedIn(rows, slots)) <= changed

\* The row of one slot changes.
RowTurns(rows, rows2, slots, slot, prev, new, kinds) ==
  /\ slot \in slots /\ rows[slot] = prev /\ rows2[slot] = new
  /\ \A s \in slots \ {slot} : rows2[s] = rows[s]
  /\ prev = NoSlotRow \/ IsRow(prev)
  /\ new = NoSlotRow \/ IsRow(new)
  /\ Accounted(prev, new, kinds)

LEMMA HadMembers ==
  ASSUME NEW rows, NEW slots
  PROVE  /\ \A s, v : <<s, v>> \in HadIn(rows, slots) <=> s \in SeenIn(rows, slots) /\ v \in 1 .. rows[s].version
         /\ \A p \in HadIn(rows, slots) : p = <<p[1], p[2]>>
BY DEF HadIn

LEMMA FiniteCounts ==
  ASSUME NEW rows, NEW slots, IsFiniteSet(SeenIn(rows, slots))
  PROVE  /\ IsFiniteSet(GoneIn(rows, slots)) /\ IsFiniteSet(RevisedIn(rows, slots))
         /\ Cardinality(SeenIn(rows, slots)) \in Nat /\ Cardinality(GoneIn(rows, slots)) \in Nat
         /\ Cardinality(RevisedIn(rows, slots)) \in Nat
<1>1. GoneIn(rows, slots) \in SUBSET SeenIn(rows, slots) /\ RevisedIn(rows, slots) \in SUBSET SeenIn(rows, slots)
  BY DEF GoneIn, RevisedIn
<1>. QED
  BY <1>1, FS_Subset, FS_CardinalityType

LEMMA SeenTurns ==
  ASSUME NEW rows, NEW rows2, NEW slots, NEW slot, NEW prev, NEW new, NEW kinds,
         RowTurns(rows, rows2, slots, slot, prev, new, kinds), new # NoSlotRow,
         IsFiniteSet(SeenIn(rows, slots))
  PROVE  /\ IsFiniteSet(SeenIn(rows2, slots))
         /\ Cardinality(SeenIn(rows2, slots)) =
              Cardinality(SeenIn(rows, slots)) + IF prev = NoSlotRow THEN 1 ELSE 0
<1>1. SeenIn(rows2, slots) = SeenIn(rows, slots) \cup {slot}
  BY DEF RowTurns, SeenIn
<1>2. slot \in SeenIn(rows, slots) <=> prev # NoSlotRow
  BY DEF RowTurns, SeenIn
<1>3. Cardinality(SeenIn(rows, slots)) \in Nat
  BY FS_CardinalityType
<1>. QED
  BY <1>1, <1>2, <1>3, FS_AddElement

LEMMA HadTurns ==
  ASSUME NEW rows, NEW rows2, NEW slots, NEW slot, NEW prev, NEW new, NEW kinds,
         RowTurns(rows, rows2, slots, slot, prev, new, kinds), new # NoSlotRow,
         IsFiniteSet(HadIn(rows, slots))
  PROVE  /\ IsFiniteSet(HadIn(rows2, slots))
         /\ Cardinality(HadIn(rows2, slots)) =
              Cardinality(HadIn(rows, slots))
                + IF prev = NoSlotRow \/ Tells(kinds, "CONTENT_CHANGED") THEN 1 ELSE 0
<1>1. PICK v : v = new.version
  OBVIOUS
<1>2. v \in Nat \ {0}
  BY <1>1 DEF RowTurns, IsRow
<1>3. /\ prev = NoSlotRow => v = 1
      /\ prev # NoSlotRow =>
           prev.version \in Nat \ {0}
           /\ v = IF Tells(kinds, "CONTENT_CHANGED") THEN prev.version + 1 ELSE prev.version
  BY <1>1 DEF RowTurns, Accounted, IsRow
<1>4. \A s, w : <<s, w>> \in HadIn(rows2, slots) <=> <<s, w>> \in HadIn(rows, slots) \/ <<s, w>> = <<slot, v>>
  <2>. TAKE s, w
  <2>1. <<s, w>> \in HadIn(rows, slots) <=> s \in SeenIn(rows, slots) /\ w \in 1 .. rows[s].version
    BY HadMembers
  <2>2. <<s, w>> \in HadIn(rows2, slots) <=> s \in SeenIn(rows2, slots) /\ w \in 1 .. rows2[s].version
    BY HadMembers
  <2>3. CASE s # slot
    BY <2>1, <2>2, <2>3 DEF RowTurns, SeenIn
  <2>4. CASE s = slot
    <3>1. s \in SeenIn(rows2, slots) /\ rows2[s].version = v
      BY <1>1, <2>4 DEF RowTurns, SeenIn
    <3>2. s \in SeenIn(rows, slots) <=> prev # NoSlotRow
      BY <2>4 DEF RowTurns, SeenIn
    <3>3. rows[s] = prev
      BY <2>4 DEF RowTurns
    <3>4. prev = NoSlotRow => (w \in 1 .. v <=> w = v)
      BY <1>2, <1>3
    <3>5. prev # NoSlotRow => (w \in 1 .. v <=> w \in 1 .. prev.version \/ w = v)
      BY <1>2, <1>3
    <3>. QED
      BY <2>1, <2>2, <2>4, <3>1, <3>2, <3>3, <3>4, <3>5
  <2>. QED
    BY <2>3, <2>4
<1>5. PICK had, had2, p : had = HadIn(rows, slots) /\ had2 = HadIn(rows2, slots) /\ p = <<slot, v>>
  OBVIOUS
<1>6. had2 = had \cup {p}
  <2>1. (\A q \in had : q = <<q[1], q[2]>>) /\ (\A q \in had2 : q = <<q[1], q[2]>>)
    BY <1>5, HadMembers
  <2>2. \A s, w : <<s, w>> \in had2 <=> <<s, w>> \in had \/ <<s, w>> = p
    BY <1>4, <1>5
  <2>3. ASSUME NEW q \in had2 PROVE q \in had \cup {p}
    <3>1. q = <<q[1], q[2]>>
      BY <2>1
    <3>. QED
      BY <2>2, <3>1
  <2>4. ASSUME NEW q \in had PROVE q \in had2
    <3>1. q = <<q[1], q[2]>>
      BY <2>1
    <3>. QED
      BY <2>2, <3>1
  <2>5. p \in had2
    BY <1>5, <2>2
  <2>. QED
    BY <2>3, <2>4, <2>5
<1>7. p \in had <=> ~(prev = NoSlotRow \/ Tells(kinds, "CONTENT_CHANGED"))
  <2>1. p \in had <=> slot \in SeenIn(rows, slots) /\ v \in 1 .. rows[slot].version
    BY <1>5, HadMembers
  <2>2. slot \in SeenIn(rows, slots) <=> prev # NoSlotRow
    BY DEF RowTurns, SeenIn
  <2>3. rows[slot] = prev
    BY DEF RowTurns
  <2>4. prev # NoSlotRow => (v \in 1 .. prev.version <=> ~Tells(kinds, "CONTENT_CHANGED"))
    BY <1>2, <1>3
  <2>. QED
    BY <2>1, <2>2, <2>3, <2>4
<1>8. IsFiniteSet(had) /\ Cardinality(had) \in Nat
  BY <1>5, FS_CardinalityType
<1>9. /\ IsFiniteSet(had \cup {p})
      /\ Cardinality(had \cup {p}) = IF p \in had THEN Cardinality(had) ELSE Cardinality(had) + 1
  BY <1>8, FS_AddElement
<1>. QED
  BY <1>5, <1>6, <1>7, <1>8, <1>9

LEMMA GoneTurns ==
  ASSUME NEW rows, NEW rows2, NEW slots, NEW slot, NEW prev, NEW new, NEW kinds,
         RowTurns(rows, rows2, slots, slot, prev, new, kinds), new # NoSlotRow,
         IsFiniteSet(SeenIn(rows, slots))
  PROVE  Cardinality(GoneIn(rows2, slots)) =
           IF Tells(kinds, "DISAPPEARED") THEN Cardinality(GoneIn(rows, slots)) + 1
           ELSE IF Tells(kinds, "REAPPEARED") THEN Cardinality(GoneIn(rows, slots)) - 1
           ELSE Cardinality(GoneIn(rows, slots))
<1>1. PICK gone : gone = GoneIn(rows, slots) /\ IsFiniteSet(gone)
  BY FiniteCounts
<1>2. slot \in gone <=> prev # NoSlotRow /\ ~prev.present
  BY <1>1 DEF RowTurns, GoneIn, SeenIn
<1>3. /\ prev = NoSlotRow => new.present /\ ~Tells(kinds, "DISAPPEARED") /\ ~Tells(kinds, "REAPPEARED")
      /\ prev # NoSlotRow => /\ Tells(kinds, "DISAPPEARED") <=> prev.present /\ ~new.present
                             /\ Tells(kinds, "REAPPEARED") <=> ~prev.present /\ new.present
  BY DEF RowTurns, Accounted
<1>4. CASE new.present
  <2>1. GoneIn(rows2, slots) = gone \ {slot}
    BY <1>1, <1>4 DEF RowTurns, GoneIn, SeenIn
  <2>2. Cardinality(gone \ {slot}) = IF slot \in gone THEN Cardinality(gone) - 1 ELSE Cardinality(gone)
    BY <1>1, FS_RemoveElement
  <2>. QED
    BY <1>1, <1>2, <1>3, <1>4, <2>1, <2>2
<1>5. CASE ~new.present
  <2>1. GoneIn(rows2, slots) = gone \cup {slot}
    BY <1>1, <1>5 DEF RowTurns, GoneIn, SeenIn
  <2>2. Cardinality(gone \cup {slot}) = IF slot \in gone THEN Cardinality(gone) ELSE Cardinality(gone) + 1
    BY <1>1, FS_AddElement
  <2>. QED
    BY <1>1, <1>2, <1>3, <1>5, <2>1, <2>2
<1>. QED
  BY <1>4, <1>5

LEMMA RevisedTurns ==
  ASSUME NEW rows, NEW rows2, NEW slots, NEW slot, NEW prev, NEW new, NEW kinds,
         RowTurns(rows, rows2, slots, slot, prev, new, kinds), new # NoSlotRow,
         IsFiniteSet(SeenIn(rows, slots))
  PROVE  Cardinality(RevisedIn(rows2, slots)) <=
           IF Tells(kinds, "CONTENT_CHANGED") THEN Cardinality(RevisedIn(rows, slots)) + 1
           ELSE Cardinality(RevisedIn(rows, slots))
<1>1. PICK revised : revised = RevisedIn(rows, slots) /\ IsFiniteSet(revised) /\ Cardinality(revised) \in Nat
  BY FiniteCounts
<1>2. CASE Tells(kinds, "CONTENT_CHANGED")
  <2>1. RevisedIn(rows2, slots) \in SUBSET (revised \cup {slot})
    BY <1>1 DEF RowTurns, RevisedIn, SeenIn
  <2>2. /\ IsFiniteSet(revised \cup {slot})
        /\ Cardinality(revised \cup {slot}) = IF slot \in revised THEN Cardinality(revised) ELSE Cardinality(revised) + 1
    BY <1>1, FS_AddElement
  <2>3. Cardinality(RevisedIn(rows2, slots)) <= Cardinality(revised \cup {slot})
        /\ Cardinality(RevisedIn(rows2, slots)) \in Nat
    BY <2>1, <2>2, FS_Subset, FS_CardinalityType
  <2>4. Cardinality(revised \cup {slot}) \in Nat /\ Cardinality(revised \cup {slot}) <= Cardinality(revised) + 1
    BY <1>1, <2>2
  <2>. QED
    BY <1>1, <1>2, <2>3, <2>4
<1>3. CASE ~Tells(kinds, "CONTENT_CHANGED")
  <2>1. slot \in RevisedIn(rows2, slots) <=> slot \in revised
    <3>1. /\ prev = NoSlotRow => new.version = 1
          /\ prev # NoSlotRow => new.version = prev.version
      BY <1>3 DEF RowTurns, Accounted
    <3>2. slot \in RevisedIn(rows2, slots) <=> new.version > 1
      BY DEF RowTurns, RevisedIn, SeenIn
    <3>3. slot \in revised <=> prev # NoSlotRow /\ prev.version > 1
      BY <1>1 DEF RowTurns, RevisedIn, SeenIn
    <3>. QED
      BY <3>1, <3>2, <3>3
  <2>2. \A s \in slots \ {slot} : s \in RevisedIn(rows2, slots) <=> s \in revised
    BY <1>1 DEF RowTurns, RevisedIn, SeenIn
  <2>3. RevisedIn(rows2, slots) = revised
    BY <1>1, <2>1, <2>2 DEF RevisedIn, SeenIn
  <2>. QED
    BY <1>1, <1>3, <2>3
<1>. QED
  BY <1>2, <1>3

LEMMA CountsTurn ==
  ASSUME NEW rows, NEW rows2, NEW slots, NEW slot, NEW prev, NEW new, NEW kinds,
         RowTurns(rows, rows2, slots, slot, prev, new, kinds),
         IsFiniteSet(SeenIn(rows, slots)), IsFiniteSet(HadIn(rows, slots)),
         NEW changed \in Nat, NEW gone \in Nat, NEW back \in Nat, CountedAt(rows, slots, changed, gone, back)
  PROVE  /\ IsFiniteSet(SeenIn(rows2, slots)) /\ IsFiniteSet(HadIn(rows2, slots))
         /\ CountedAt(rows2, slots, IF Tells(kinds, "CONTENT_CHANGED") THEN changed + 1 ELSE changed,
                                    IF Tells(kinds, "DISAPPEARED") THEN gone + 1 ELSE gone,
                                    IF Tells(kinds, "REAPPEARED") THEN back + 1 ELSE back)
<1>1. CASE new = NoSlotRow
  <2>1. prev = NoSlotRow
    BY <1>1 DEF RowTurns, Accounted
  <2>2. \A k \in {"CONTENT_CHANGED", "DISAPPEARED", "REAPPEARED"} : ~Tells(kinds, k)
    BY <2>1 DEF RowTurns, Accounted
  <2>3. \A s \in slots : rows2[s] = rows[s]
    BY <1>1, <2>1 DEF RowTurns
  <2>4. /\ SeenIn(rows2, slots) = SeenIn(rows, slots) /\ HadIn(rows2, slots) = HadIn(rows, slots)
        /\ GoneIn(rows2, slots) = GoneIn(rows, slots) /\ RevisedIn(rows2, slots) = RevisedIn(rows, slots)
    <3>1. SeenIn(rows2, slots) = SeenIn(rows, slots)
      BY <2>3 DEF SeenIn
    <3>2. \A s \in SeenIn(rows, slots) : rows2[s] = rows[s]
      BY <2>3 DEF SeenIn
    <3>. QED
      BY <3>1, <3>2 DEF HadIn, GoneIn, RevisedIn
  <2>. QED
    BY <2>2, <2>4 DEF CountedAt
<1>2. CASE new # NoSlotRow
  <2>1. /\ IsFiniteSet(SeenIn(rows2, slots))
        /\ Cardinality(SeenIn(rows2, slots)) =
             Cardinality(SeenIn(rows, slots)) + IF prev = NoSlotRow THEN 1 ELSE 0
    BY <1>2, SeenTurns
  <2>2. /\ IsFiniteSet(HadIn(rows2, slots))
        /\ Cardinality(HadIn(rows2, slots)) =
             Cardinality(HadIn(rows, slots))
               + IF prev = NoSlotRow \/ Tells(kinds, "CONTENT_CHANGED") THEN 1 ELSE 0
    BY <1>2, HadTurns
  <2>3. Cardinality(GoneIn(rows2, slots)) =
           IF Tells(kinds, "DISAPPEARED") THEN Cardinality(GoneIn(rows, slots)) + 1
           ELSE IF Tells(kinds, "REAPPEARED") THEN Cardinality(GoneIn(rows, slots)) - 1
           ELSE Cardinality(GoneIn(rows, slots))
    BY <1>2, GoneTurns
  <2>4. Cardinality(RevisedIn(rows2, slots)) <=
           IF Tells(kinds, "CONTENT_CHANGED") THEN Cardinality(RevisedIn(rows, slots)) + 1
           ELSE Cardinality(RevisedIn(rows, slots))
    BY <1>2, RevisedTurns
  <2>5. /\ Cardinality(SeenIn(rows, slots)) \in Nat /\ Cardinality(GoneIn(rows, slots)) \in Nat
        /\ Cardinality(RevisedIn(rows, slots)) \in Nat /\ Cardinality(HadIn(rows, slots)) \in Nat
        /\ Cardinality(RevisedIn(rows2, slots)) \in Nat
    BY <2>1, FiniteCounts, FS_CardinalityType
  <2>6. /\ prev = NoSlotRow => ~Tells(kinds, "CONTENT_CHANGED")
        /\ ~(Tells(kinds, "DISAPPEARED") /\ Tells(kinds, "REAPPEARED"))
    BY DEF RowTurns, Accounted
  <2>. QED
    BY <2>1, <2>2, <2>3, <2>4, <2>5, <2>6 DEF CountedAt
<1>. QED
  BY <1>1, <1>2

CountInv ==
  /\ IsFiniteSet(SeenIn(slotState, Slots)) /\ IsFiniteSet(HadIn(slotState, Slots))
  /\ \A slots \in SUBSET Slots :
       CountedAt(slotState, slots, Changes("CONTENT_CHANGED", slots), Changes("DISAPPEARED", slots),
                 Changes("REAPPEARED", slots))

LEMMA FinitePart ==
  ASSUME NEW rows, NEW all, IsFiniteSet(SeenIn(rows, all)), IsFiniteSet(HadIn(rows, all)),
         NEW slots \in SUBSET all
  PROVE  IsFiniteSet(SeenIn(rows, slots)) /\ IsFiniteSet(HadIn(rows, slots))
<1>1. SeenIn(rows, slots) \in SUBSET SeenIn(rows, all)
  BY DEF SeenIn
<1>2. HadIn(rows, slots) \in SUBSET HadIn(rows, all)
  BY <1>1 DEF HadIn
<1>. QED
  BY <1>1, <1>2, FS_Subset

LEMMA SightingKeepsCounts ==
  ASSUME RowsTyped, RowsTyped', TimelineIsSound, CountInv, NEW g, g.slot \in Slots, NEW prev, NEW new, NEW kinds,
         Turns(g, prev, new, kinds)
  PROVE  CountInv'
<1>1. PICK rows, rows2, slot : rows = slotState /\ rows2 = slotState' /\ slot = g.slot
  OBVIOUS
<1>2. ASSUME NEW slots \in SUBSET Slots, slot \in slots
      PROVE  RowTurns(rows, rows2, slots, slot, prev, new, kinds)
  BY <1>1, <1>2 DEF Turns, RowTurns
<1>3. OnceEach(kinds)
  BY DEF Turns, Accounted
<1>4. ASSUME NEW slots \in SUBSET Slots
      PROVE  /\ IsFiniteSet(SeenIn(rows2, slots)) /\ IsFiniteSet(HadIn(rows2, slots))
             /\ CountedAt(rows2, slots, Changes("CONTENT_CHANGED", slots)', Changes("DISAPPEARED", slots)',
                          Changes("REAPPEARED", slots)')
  <2>1. PICK changed, gone, back : /\ changed = Changes("CONTENT_CHANGED", slots)
                                   /\ gone = Changes("DISAPPEARED", slots)
                                   /\ back = Changes("REAPPEARED", slots)
    OBVIOUS
  <2>2. changed \in Nat /\ gone \in Nat /\ back \in Nat
    BY <2>1, ToldIsFinite
  <2>3. CountedAt(rows, slots, changed, gone, back)
    BY <1>1, <2>1 DEF CountInv
  <2>4. IsFiniteSet(SeenIn(rows, slots)) /\ IsFiniteSet(HadIn(rows, slots))
    BY <1>1, FinitePart DEF CountInv
  <2>5. Appended(g, kinds)
    BY DEF Turns
  <2>6. ASSUME NEW kind
        PROVE  Changes(kind, slots)' = IF g.slot \in slots /\ Tells(kinds, kind)
                                       THEN Changes(kind, slots) + 1 ELSE Changes(kind, slots)
    BY <1>3, <2>5, ChangesCount
  <2>7. CASE slot \in slots
    <3>1. RowTurns(rows, rows2, slots, slot, prev, new, kinds)
      BY <1>2, <2>7
    <3>2. /\ IsFiniteSet(SeenIn(rows2, slots)) /\ IsFiniteSet(HadIn(rows2, slots))
          /\ CountedAt(rows2, slots, IF Tells(kinds, "CONTENT_CHANGED") THEN changed + 1 ELSE changed,
                                     IF Tells(kinds, "DISAPPEARED") THEN gone + 1 ELSE gone,
                                     IF Tells(kinds, "REAPPEARED") THEN back + 1 ELSE back)
      BY <2>2, <2>3, <2>4, <3>1, CountsTurn
    <3>3. /\ Changes("CONTENT_CHANGED", slots)' = IF Tells(kinds, "CONTENT_CHANGED") THEN changed + 1 ELSE changed
          /\ Changes("DISAPPEARED", slots)' = IF Tells(kinds, "DISAPPEARED") THEN gone + 1 ELSE gone
          /\ Changes("REAPPEARED", slots)' = IF Tells(kinds, "REAPPEARED") THEN back + 1 ELSE back
      BY <1>1, <2>1, <2>6, <2>7
    <3>. QED
      BY <3>2, <3>3
  <2>8. CASE slot \notin slots
    <3>1. \A s \in slots : rows2[s] = rows[s]
      BY <1>1, <2>8 DEF Turns
    <3>2. SeenIn(rows2, slots) = SeenIn(rows, slots)
      BY <3>1 DEF SeenIn
    <3>3. \A s \in SeenIn(rows, slots) : rows2[s] = rows[s]
      BY <3>1 DEF SeenIn
    <3>4. /\ HadIn(rows2, slots) = HadIn(rows, slots) /\ GoneIn(rows2, slots) = GoneIn(rows, slots)
          /\ RevisedIn(rows2, slots) = RevisedIn(rows, slots)
      BY <3>2, <3>3 DEF HadIn, GoneIn, RevisedIn
    <3>5. /\ Changes("CONTENT_CHANGED", slots)' = changed /\ Changes("DISAPPEARED", slots)' = gone
          /\ Changes("REAPPEARED", slots)' = back
      BY <1>1, <2>1, <2>6, <2>8
    <3>. QED
      BY <2>3, <2>4, <3>2, <3>4, <3>5 DEF CountedAt
  <2>. QED
    BY <2>7, <2>8
<1>. QED
  BY <1>1, <1>4 DEF CountInv

--------------------------------------------------------------------------------
(* What was fetched, and what the graph says of it.                        *)

LooksInv ==
  /\ IsFiniteSet(sightings)
  /\ \A g \in sightings : g.asset # Null => g.status = "FETCHED"

IsLinkable(g, looks, kept) == g \in looks /\ g.asset # Null /\ g.status = "FETCHED" /\ g.asset \in kept

RequestLinks(r, looks, kept, nodes) ==
  r.at \in {"node", "edge"} =>
    /\ "sighting" \in DOMAIN r /\ IsLinkable(r.sighting, looks, kept)
    /\ r.at = "edge" => r.sighting.asset \in nodes

EdgeIsSighted(k, e, looks, kept, nodes) ==
  /\ k[2] \in nodes \cap kept
  /\ \E g \in looks : /\ <<g.slot, g.at, g.asset>> = <<e.slot, e.last, k[2]>>
                      /\ g.status = "FETCHED" /\ g.slot.event = k[1]

LinksInv ==
  /\ creatives = [nodes |-> creatives.nodes, edges |-> creatives.edges]
  /\ \A o \in Observers : RequestLinks(observing[o], sightings, DOMAIN assets, creatives.nodes)
  /\ \A k \in DOMAIN creatives.edges :
       EdgeIsSighted(k, creatives.edges[k], sightings, DOMAIN assets, creatives.nodes)

LEMMA LinksGrow ==
  ASSUME NEW looks, NEW kept, NEW nodes, NEW looks2, NEW kept2, NEW nodes2,
         looks \subseteq looks2, kept \subseteq kept2, nodes \subseteq nodes2
  PROVE  /\ \A r : RequestLinks(r, looks, kept, nodes) => RequestLinks(r, looks2, kept2, nodes2)
         /\ \A k, e : EdgeIsSighted(k, e, looks, kept, nodes) => EdgeIsSighted(k, e, looks2, kept2, nodes2)
BY DEF RequestLinks, EdgeIsSighted, IsLinkable

\* Requests that go on as they were, or are done with, keep the links.
LEMMA LinksRemain ==
  ASSUME LinksInv, sightings \subseteq sightings', DOMAIN assets \subseteq DOMAIN assets',
         UNCHANGED creatives,
         \A o \in Observers : \/ observing'[o] = observing[o]
                              \/ RequestLinks(observing'[o], sightings', DOMAIN assets', creatives.nodes)
  PROVE  LinksInv'
<1>1. PICK looks, kept, nodes, edges :
        looks = sightings' /\ kept = DOMAIN assets' /\ nodes = creatives'.nodes /\ edges = creatives'.edges
  OBVIOUS
<1>2. nodes = creatives.nodes /\ edges = creatives.edges
  BY <1>1
<1>3. ASSUME NEW o \in Observers PROVE RequestLinks(observing'[o], looks, kept, nodes)
  <2>1. CASE observing'[o] = observing[o]
    <3>1. RequestLinks(observing[o], sightings, DOMAIN assets, creatives.nodes)
      BY DEF LinksInv
    <3>2. RequestLinks(observing[o], looks, kept, nodes)
      BY <1>1, <1>2, <3>1, LinksGrow
    <3>. QED
      BY <2>1, <3>2
  <2>. QED
    BY <1>1, <1>2, <2>1
<1>4. ASSUME NEW k \in DOMAIN edges PROVE EdgeIsSighted(k, edges[k], looks, kept, nodes)
  <2>1. EdgeIsSighted(k, edges[k], sightings, DOMAIN assets, creatives.nodes)
    BY <1>2 DEF LinksInv
  <2>. QED
    BY <1>1, <1>2, <2>1, LinksGrow
<1>5. creatives' = [nodes |-> nodes, edges |-> edges]
  BY <1>2 DEF LinksInv
<1>. QED
  BY <1>1, <1>3, <1>4, <1>5 DEF LinksInv

LEMMA NothingLinks ==
  ASSUME NEW looks, NEW kept, NEW nodes
  PROVE  RequestLinks(NoObservation, looks, kept, nodes)
BY DEF RequestLinks, NoObservation

LEMMA UpsertedIsKept ==
  ASSUME NEW content, NEW at, UpsertAsset(content, at)
  PROVE  DOMAIN assets \subseteq DOMAIN assets' /\ (content # Null => content \in DOMAIN assets')
<1>1. DOMAIN assets' = DOMAIN assets \cup ({content} \ {Null})
  BY DEF UpsertAsset
<1>. QED
  BY <1>1

LEMMA RecordKeepsLinks ==
  ASSUME RequestsTyped, LinksInv, NEW o \in Observers, RecordSighting(o)
  PROVE  LinksInv'
<1>1. PICK in : in = observing[o].in
  OBVIOUS
<1>2. PICK r : r = Outcome(in)
  OBVIOUS
<1>3. PICK g : g = Sighting(in, r.status, r.content)
  OBVIOUS
<1>4. /\ DOMAIN assets \subseteq DOMAIN assets' /\ UNCHANGED creatives
      /\ r.content # Null => r.content \in DOMAIN assets'
  <2>1. UpsertAsset(r.content, in.at) /\ UNCHANGED creatives
    BY <1>1, <1>2 DEF RecordSighting
  <2>. QED
    BY <2>1, UpsertedIsKept
<1>5. CASE AlreadySighted(g) # {}
  <2>1. observing' = [observing EXCEPT ![o] = NoObservation] /\ sightings' = sightings
    BY <1>1, <1>2, <1>3, <1>5 DEF RecordSighting
  <2>2. observing'[o] = NoObservation /\ \A p \in Observers \ {o} : observing'[p] = observing[p]
    BY <2>1 DEF RequestsTyped
  <2>3. RequestLinks(NoObservation, sightings', DOMAIN assets', creatives.nodes)
    BY NothingLinks
  <2>4. \A p \in Observers : \/ observing'[p] = observing[p]
                             \/ RequestLinks(observing'[p], sightings', DOMAIN assets', creatives.nodes)
    BY <2>2, <2>3
  <2>. QED
    BY <1>4, <2>1, <2>4, LinksRemain
<1>6. CASE AlreadySighted(g) = {}
  <2>1. PICK state : state = slotState'[g.slot]
    OBVIOUS
  <2>2. PICK next : next = IF r.content = Null THEN NoObservation
                           ELSE [at |-> "node", sighting |-> g, state |-> state]
    OBVIOUS
  <2>3. observing' = [observing EXCEPT ![o] = next] /\ ApplySighting(g)
    BY <1>1, <1>2, <1>3, <1>6, <2>1, <2>2 DEF RecordSighting
  <2>4. sightings' = sightings \cup {g}
    BY <2>3 DEF ApplySighting
  <2>5. observing'[o] = next /\ \A p \in Observers \ {o} : observing'[p] = observing[p]
    BY <2>3 DEF RequestsTyped
  <2>6. RequestLinks(next, sightings', DOMAIN assets', creatives.nodes)
    <3>1. CASE r.content = Null
      BY <2>2, <3>1, NothingLinks
    <3>2. CASE r.content # Null
      <4>1. next = [at |-> "node", sighting |-> g, state |-> state]
        BY <2>2, <3>2
      <4>2. g.asset = r.content /\ g.status = "FETCHED"
        BY <1>2, <1>3, <3>2, SightedIsFetched DEF Sighting
      <4>3. IsLinkable(g, sightings', DOMAIN assets')
        BY <1>4, <2>4, <3>2, <4>2 DEF IsLinkable
      <4>. QED
        BY <4>1, <4>3 DEF RequestLinks
    <3>. QED
      BY <3>1, <3>2
  <2>7. \A p \in Observers : \/ observing'[p] = observing[p]
                             \/ RequestLinks(observing'[p], sightings', DOMAIN assets', creatives.nodes)
    BY <2>5, <2>6
  <2>8. sightings \subseteq sightings'
    BY <2>4
  <2>. QED
    BY <1>4, <2>7, <2>8, LinksRemain
<1>. QED
  BY <1>5, <1>6

LEMMA LinkKeepsLinks ==
  ASSUME RequestsTyped, LinksInv, NEW o \in Observers, LinkNode(o) \/ LinkEdge(o)
  PROVE  LinksInv'
<1>1. PICK req, g : req = observing[o] /\ g = req.sighting
  OBVIOUS
<1>2. PICK looks, kept : looks = sightings /\ kept = DOMAIN assets
  OBVIOUS
<1>3. sightings' = looks /\ DOMAIN assets' = kept
  BY <1>2 DEF LinkNode, LinkEdge
<1>4. /\ req.at \in {"node", "edge"} /\ IsRequest(req) /\ "sighting" \in DOMAIN req
      /\ IsLinkable(g, looks, kept) /\ (req.at = "edge" => g.asset \in creatives.nodes)
  <2>1. req.at \in {"node", "edge"} /\ IsRequest(req)
    BY <1>1 DEF LinkNode, LinkEdge, RequestsTyped
  <2>2. RequestLinks(req, looks, kept, creatives.nodes)
    BY <1>1, <1>2 DEF LinksInv
  <2>. QED
    BY <1>1, <2>1, <2>2 DEF RequestLinks
<1>5. CASE LinkNode(o)
  <2>1. PICK nodes : nodes = creatives.nodes \cup {g.asset}
    OBVIOUS
  <2>2. creatives' = [nodes |-> nodes, edges |-> creatives.edges]
    BY <1>1, <1>5, <2>1 DEF LinkNode, LinksInv
  <2>3. PICK next : next = [req EXCEPT !.at = "edge"]
    OBVIOUS
  <2>4. observing' = [observing EXCEPT ![o] = next]
    BY <1>1, <1>5, <2>3 DEF LinkNode
  <2>5. observing'[o] = next /\ \A p \in Observers \ {o} : observing'[p] = observing[p]
    BY <2>4 DEF RequestsTyped
  <2>6. next.at = "edge" /\ next.sighting = g /\ "sighting" \in DOMAIN next
    BY <1>1, <1>4, <2>3 DEF IsRequest
  <2>7. RequestLinks(next, looks, kept, nodes)
    BY <1>4, <2>1, <2>6 DEF RequestLinks
  <2>8. ASSUME NEW p \in Observers PROVE RequestLinks(observing'[p], looks, kept, nodes)
    <3>1. CASE p = o
      BY <2>5, <2>7, <3>1
    <3>2. CASE p # o
      <4>1. RequestLinks(observing[p], looks, kept, creatives.nodes)
        BY <1>2 DEF LinksInv
      <4>2. PICK other, old : other = observing[p] /\ old = creatives.nodes
        OBVIOUS
      <4>3. RequestLinks(other, looks, kept, old) /\ old \subseteq nodes
        BY <2>1, <4>1, <4>2
      <4>4. RequestLinks(other, looks, kept, nodes)
        BY <4>3, LinksGrow
      <4>. QED
        BY <2>5, <3>2, <4>2, <4>4
    <3>. QED
      BY <3>1, <3>2
  <2>9. ASSUME NEW k \in DOMAIN creatives.edges
        PROVE  EdgeIsSighted(k, creatives.edges[k], looks, kept, nodes)
    <3>1. PICK e, old : e = creatives.edges[k] /\ old = creatives.nodes
      OBVIOUS
    <3>2. EdgeIsSighted(k, e, looks, kept, old)
      BY <1>2, <3>1 DEF LinksInv
    <3>3. old \subseteq nodes
      BY <2>1, <3>1
    <3>4. EdgeIsSighted(k, e, looks, kept, nodes)
      BY <3>2, <3>3, LinksGrow
    <3>. QED
      BY <3>1, <3>4
  <2>10. creatives'.nodes = nodes /\ creatives'.edges = creatives.edges
    BY <2>2
  <2>11. creatives' = [nodes |-> creatives'.nodes, edges |-> creatives'.edges]
    BY <2>2, <2>10
  <2>12. /\ \A p \in Observers : RequestLinks(observing'[p], sightings', DOMAIN assets', creatives'.nodes)
         /\ \A k \in DOMAIN creatives'.edges :
              EdgeIsSighted(k, creatives'.edges[k], sightings', DOMAIN assets', creatives'.nodes)
    BY <1>3, <2>8, <2>9, <2>10
  <2>. QED
    BY <2>11, <2>12 DEF LinksInv
<1>6. CASE LinkEdge(o)
  <2>1. PICK key, edge : key = <<g.slot.event, g.asset>> /\ edge = EdgeOf(g, req.state)
    OBVIOUS
  <2>2. PICK edges : edges = [k \in {key} \cup DOMAIN creatives.edges |->
                                IF k = key THEN edge ELSE creatives.edges[k]]
    OBVIOUS
  <2>3. creatives' = [nodes |-> creatives.nodes, edges |-> edges]
    BY <1>1, <1>6, <2>1, <2>2 DEF LinkEdge, LinksInv
  <2>4. creatives'.nodes = creatives.nodes /\ creatives'.edges = edges
    BY <2>3
  <2>5. PICK nodes : nodes = creatives.nodes
    OBVIOUS
  <2>6. EdgeIsSighted(key, edge, looks, kept, nodes)
    <3>1. g.asset \in nodes
      BY <1>4, <1>6, <1>1, <2>5 DEF LinkEdge
    <3>2. edge.slot = g.slot /\ edge.last = g.at
      BY <2>1 DEF EdgeOf
    <3>3. key[1] = g.slot.event /\ key[2] = g.asset
      BY <2>1
    <3>. QED
      BY <1>4, <3>1, <3>2, <3>3 DEF IsLinkable, EdgeIsSighted
  <2>7. ASSUME NEW k \in DOMAIN edges PROVE EdgeIsSighted(k, edges[k], looks, kept, nodes)
    <3>1. CASE k = key
      BY <2>2, <2>6, <3>1
    <3>2. CASE k # key
      <4>1. k \in DOMAIN creatives.edges /\ edges[k] = creatives.edges[k]
        BY <2>2, <3>2
      <4>2. EdgeIsSighted(k, creatives.edges[k], looks, kept, nodes)
        BY <1>2, <2>5, <4>1 DEF LinksInv
      <4>. QED
        BY <4>1, <4>2
    <3>. QED
      BY <3>1, <3>2
  <2>8. observing'[o] = NoObservation /\ \A p \in Observers \ {o} : observing'[p] = observing[p]
    BY <1>6 DEF LinkEdge, RequestsTyped
  <2>9. ASSUME NEW p \in Observers PROVE RequestLinks(observing'[p], looks, kept, nodes)
    <3>1. CASE p = o
      BY <2>8, <3>1, NothingLinks
    <3>2. CASE p # o
      BY <1>2, <2>5, <2>8, <3>2 DEF LinksInv
    <3>. QED
      BY <3>1, <3>2
  <2>10. creatives' = [nodes |-> creatives'.nodes, edges |-> creatives'.edges]
    BY <2>3, <2>4
  <2>11. /\ \A p \in Observers : RequestLinks(observing'[p], sightings', DOMAIN assets', creatives'.nodes)
         /\ \A k \in DOMAIN creatives'.edges :
              EdgeIsSighted(k, creatives'.edges[k], sightings', DOMAIN assets', creatives'.nodes)
    BY <1>3, <2>4, <2>5, <2>7, <2>9
  <2>. QED
    BY <2>10, <2>11 DEF LinksInv
<1>. QED
  BY <1>5, <1>6

LEMMA LinksStep ==
  ASSUME RequestsTyped, LinksInv, [MediaNext]_mediaVars
  PROVE  LinksInv'
<1>1. ASSUME NEW o \in Observers, RecordSighting(o) PROVE LinksInv'
  BY <1>1, RecordKeepsLinks
<1>2. ASSUME NEW o \in Observers, LinkNode(o) \/ LinkEdge(o) PROVE LinksInv'
  BY <1>2, LinkKeepsLinks
<1>3. ASSUME NEW o \in Observers, SightCreative(o) \/ LinkFails(o) PROVE LinksInv'
  <2>1. PICK next : observing' = [observing EXCEPT ![o] = next] /\ next.at \in {"none", "fetch"}
    <3>1. CASE SightCreative(o)
      <4>1. PICK in \in MayObserve : observing' = [observing EXCEPT ![o] = [at |-> "fetch", in |-> in]]
        BY <3>1 DEF SightCreative
      <4>2. PICK next : next = [at |-> "fetch", in |-> in]
        OBVIOUS
      <4>3. observing' = [observing EXCEPT ![o] = next] /\ next.at = "fetch"
        BY <4>1, <4>2
      <4>. QED
        BY <4>3
    <3>2. CASE LinkFails(o)
      <4>1. PICK next : next = NoObservation
        OBVIOUS
      <4>2. observing' = [observing EXCEPT ![o] = next] /\ next.at = "none"
        BY <3>2, <4>1 DEF LinkFails, NoObservation
      <4>. QED
        BY <4>2
    <3>. QED
      BY <1>3, <3>1, <3>2
  <2>2. observing'[o] = next /\ \A p \in Observers \ {o} : observing'[p] = observing[p]
    BY <2>1 DEF RequestsTyped
  <2>3. RequestLinks(next, sightings', DOMAIN assets', creatives.nodes)
    BY <2>1 DEF RequestLinks
  <2>4. \A p \in Observers : \/ observing'[p] = observing[p]
                             \/ RequestLinks(observing'[p], sightings', DOMAIN assets', creatives.nodes)
    BY <2>2, <2>3
  <2>5. sightings \subseteq sightings' /\ DOMAIN assets \subseteq DOMAIN assets' /\ UNCHANGED creatives
    BY <1>3 DEF SightCreative, LinkFails
  <2>. QED
    BY <2>4, <2>5, LinksRemain
<1>4. ASSUME \/ UNCHANGED mediaVars
             \/ \E u \in Urls : Publish(u)
      PROVE  LinksInv'
  <2>1. UNCHANGED <<sightings, assets, creatives, observing>>
    BY <1>4 DEF mediaVars, Publish
  <2>2. sightings \subseteq sightings' /\ DOMAIN assets \subseteq DOMAIN assets' /\ UNCHANGED creatives
        /\ \A p \in Observers : observing'[p] = observing[p]
    BY <2>1
  <2>. QED
    BY <2>2, LinksRemain
<1>5. CASE MediaRestart
  <2>1. sightings \subseteq sightings' /\ UNCHANGED creatives /\ \A p \in Observers : observing'[p] = NoObservation
    BY <1>5 DEF MediaRestart
  <2>2. DOMAIN assets \subseteq DOMAIN assets'
    <3>1. ASSUME NEW o \in Observers, LET in == observing[o].in IN UpsertAsset(Outcome(in).content, in.at)
          PROVE  DOMAIN assets \subseteq DOMAIN assets'
      BY <3>1, UpsertedIsKept
    <3>2. UNCHANGED assets \/ \E o \in Observers : LET in == observing[o].in IN UpsertAsset(Outcome(in).content, in.at)
      BY <1>5 DEF MediaRestart
    <3>. QED
      BY <3>1, <3>2
  <2>3. RequestLinks(NoObservation, sightings', DOMAIN assets', creatives.nodes)
    BY NothingLinks
  <2>4. \A p \in Observers : \/ observing'[p] = observing[p]
                             \/ RequestLinks(observing'[p], sightings', DOMAIN assets', creatives.nodes)
    BY <2>1, <2>3
  <2>. QED
    BY <2>1, <2>2, <2>4, LinksRemain
<1>. QED
  BY <1>1, <1>2, <1>3, <1>4, <1>5 DEF MediaNext

--------------------------------------------------------------------------------
(* The read models.                                                        *)

LEMMA SightingTurns ==
  ASSUME RowsTyped, RowsTyped', TimelineIsSound, NEW g, g.slot \in Slots, ApplySighting(g)
  PROVE  \/ UNCHANGED <<timeline, slotState>>
         \/ \E prev, new, kinds : Turns(g, prev, new, kinds)
<1>1. CASE Signal(g) = Null
  BY <1>1 DEF ApplySighting
<1>2. CASE Signal(g) \in {"ABSENT", "PRESENT"}
  <2>1. PICK prev : prev = slotState[g.slot] /\ (prev = NoSlotRow \/ IsRow(prev))
    BY DEF RowsTyped
  <2>2. PICK d : d = Detect(prev, g)
    OBVIOUS
  <2>3. PICK new : new = IF d.next = NoSlotRow THEN prev ELSE d.next
    OBVIOUS
  <2>4. PICK told : told = Transitions(prev, g)
    OBVIOUS
  <2>5. timeline' = timeline \o told /\ slotState' = [slotState EXCEPT ![g.slot] = new]
    <3>1. [slotState EXCEPT ![g.slot] = prev] = slotState
      BY <2>1 DEF RowsTyped
    <3>. QED
      BY <1>2, <2>1, <2>2, <2>3, <2>4, <3>1, SignalsOnly DEF ApplySighting
  <2>6. slotState'[g.slot] = new /\ \A s \in Slots \ {g.slot} : slotState'[s] = slotState[s]
    BY <2>5 DEF RowsTyped
  <2>7. new = NoSlotRow \/ IsRow(new)
    BY <2>6 DEF RowsTyped
  <2>8. Accounted(prev, new, d.kinds)
    BY <1>2, <2>1, <2>2, <2>3, DetectAccounts
  <2>9. PICK from : from = IF prev = NoSlotRow THEN [asset |-> Null, url |-> Null] ELSE prev
    OBVIOUS
  <2>10. PICK kinds : kinds = d.kinds /\ Len(kinds) \in Nat
    BY <2>8 DEF Accounted, OnceEach
  <2>. DEFINE T(k) == [slot |-> g.slot, kind |-> k, from |-> from.asset, to |-> g.asset,
                       fromUrl |-> from.url, toUrl |-> g.url, at |-> g.at]
  <2>11. told = [i \in 1 .. Len(kinds) |-> T(kinds[i])]
    BY <2>2, <2>4, <2>9, <2>10 DEF Transitions
  <2>12. \A k : T(k).kind = k /\ T(k).slot = g.slot
    OBVIOUS
  <2>. HIDE DEF T
  <2>13. told \in Seq({T(kinds[i]) : i \in 1 .. Len(kinds)}) /\ Len(told) = Len(kinds)
    BY <2>10, <2>11
  <2>14. PICK S : timeline \in Seq(S)
    BY DEF TimelineIsSound
  <2>15. PICK R : R = S \cup {T(kinds[i]) : i \in 1 .. Len(kinds)}
    OBVIOUS
  <2>16. timeline \in Seq(R) /\ told \in Seq(R)
    BY <2>13, <2>14, <2>15
  <2>17. PICK ts : ts = timeline \o told
    OBVIOUS
  <2>18. ts \in Seq(R) /\ Len(ts) = Len(timeline) + Len(told)
    BY <2>16, <2>17
  <2>19. \A i \in 1 .. Len(timeline) : ts[i] = timeline[i]
    BY <2>16, <2>17
  <2>20. ASSUME NEW j \in 1 .. Len(kinds)
         PROVE  LET t == ts[Len(timeline) + j] IN t.kind = kinds[j] /\ t.slot = g.slot
    <3>1. ts[Len(timeline) + j] = told[j]
      BY <2>13, <2>16, <2>17
    <3>2. told[j] = T(kinds[j])
      BY <2>11
    <3>. QED
      BY <2>12, <3>1, <3>2
  <2>21. Appended(g, kinds)
    BY <2>5, <2>13, <2>17, <2>18, <2>19, <2>20 DEF Appended
  <2>22. Turns(g, prev, new, kinds)
    BY <2>1, <2>6, <2>7, <2>8, <2>10, <2>21 DEF Turns
  <2>. QED
    BY <2>22
<1>. QED
  BY <1>1, <1>2, SignalsOnly

ReadsInv == SlotsInv /\ TimelineIsSound /\ CountInv /\ LooksInv /\ LinksInv

LEMMA ReadsStart == ASSUME MediaInit PROVE ReadsInv
<1>1. SlotsInv
  BY MediaStart
<1>2. timeline = <<>> /\ sightings = {} /\ slotState = [s \in Slots |-> NoSlotRow]
  BY DEF MediaInit
<1>3. TimelineIsSound
  BY <1>2 DEF TimelineIsSound
<1>4. LooksInv
  BY <1>2, FS_EmptySet DEF LooksInv
<1>5. LinksInv
  <2>1. creatives = [nodes |-> {}, edges |-> [k \in {} |-> Null]] /\ observing = [o \in Observers |-> NoObservation]
    BY DEF MediaInit
  <2>2. DOMAIN creatives.edges = {} /\ creatives = [nodes |-> creatives.nodes, edges |-> creatives.edges]
    BY <2>1
  <2>3. \A o \in Observers : RequestLinks(observing[o], sightings, DOMAIN assets, creatives.nodes)
    BY <2>1, NothingLinks
  <2>. QED
    BY <2>2, <2>3 DEF LinksInv
<1>6. CountInv
  <2>1. SeenIn(slotState, Slots) = {} /\ HadIn(slotState, Slots) = {}
    BY <1>2 DEF SeenIn, HadIn
  <2>2. ASSUME NEW slots \in SUBSET Slots
        PROVE  CountedAt(slotState, slots, Changes("CONTENT_CHANGED", slots), Changes("DISAPPEARED", slots),
                         Changes("REAPPEARED", slots))
    <3>1. /\ SeenIn(slotState, slots) = {} /\ HadIn(slotState, slots) = {}
          /\ GoneIn(slotState, slots) = {} /\ RevisedIn(slotState, slots) = {}
      BY <1>2 DEF SeenIn, HadIn, GoneIn, RevisedIn
    <3>2. \A kind : Changes(kind, slots) = 0
      <4>1. \A kind : ToldAt(kind, slots) = {}
        <5>1. Len(timeline) = 0
          BY <1>2
        <5>. QED
          BY <5>1 DEF ToldAt
      <4>. QED
        BY <4>1, FS_EmptySet DEF Changes, ToldAt
    <3>. QED
      BY <3>1, <3>2, FS_EmptySet DEF CountedAt
  <2>. QED
    BY <2>1, <2>2, FS_EmptySet DEF CountInv
<1>. QED
  BY <1>1, <1>3, <1>4, <1>5, <1>6 DEF ReadsInv

LEMMA ReadsStep ==
  ASSUME ReadsInv, [MediaNext]_mediaVars
  PROVE  ReadsInv'
<1>1. SlotsInv' /\ RowsTyped /\ RowsTyped'
  BY SlotsStep DEF ReadsInv, SlotsInv
<1>2. TimelineIsSound'
  BY TimelineStep DEF ReadsInv
<1>3. LinksInv'
  BY LinksStep DEF ReadsInv, SlotsInv
<1>4. ASSUME UNCHANGED <<timeline, slotState>> PROVE CountInv'
  <2>1. CountInv
    BY DEF ReadsInv
  <2>. QED
    BY <1>4, <2>1 DEF CountInv, Changes
<1>5. CASE UNCHANGED <<sightings, timeline, slotState>>
  <2>1. LooksInv'
    BY <1>5 DEF ReadsInv, LooksInv
  <2>. QED
    BY <1>1, <1>2, <1>3, <1>4, <1>5, <2>1 DEF ReadsInv
<1>6. ASSUME NEW g, g.slot \in Slots, g.asset # Null => g.status = "FETCHED", ApplySighting(g)
      PROVE  ReadsInv'
  <2>1. sightings' = sightings \cup {g}
    BY <1>6 DEF ApplySighting
  <2>2. LooksInv'
    <3>1. IsFiniteSet(sightings \cup {g})
      BY FS_AddElement DEF ReadsInv, LooksInv
    <3>. QED
      BY <1>6, <2>1, <3>1 DEF ReadsInv, LooksInv
  <2>3. CountInv'
    <3>1. TimelineIsSound /\ CountInv
      BY DEF ReadsInv
    <3>2. UNCHANGED <<timeline, slotState>> \/ \E prev, new, kinds : Turns(g, prev, new, kinds)
      BY <1>1, <1>6, <3>1, SightingTurns
    <3>3. ASSUME NEW prev, NEW new, NEW kinds, Turns(g, prev, new, kinds) PROVE CountInv'
      BY <1>1, <1>6, <3>1, <3>3, SightingKeepsCounts
    <3>. QED
      BY <1>4, <3>2, <3>3
  <2>. QED
    BY <1>1, <1>2, <1>3, <2>2, <2>3 DEF ReadsInv
<1>. QED
  BY <1>5, <1>6, Recorded DEF ReadsInv, SlotsInv

\* A content that was seen was fetched, each by a look of its own.
LEMMA UniqueIsFetched ==
  ASSUME LooksInv, NEW seen \in SUBSET sightings
  PROVE  Cardinality({g.asset : g \in seen} \ {Null}) <= Cardinality({g \in seen : g.status = "FETCHED"})
<1>. DEFINE fetched == {g \in seen : g.status = "FETCHED"}
            some == {g \in seen : g.asset # Null}
            contents == {g.asset : g \in seen} \ {Null}
            f == [g \in some |-> g.asset]
<1>1. IsFiniteSet(seen)
  BY FS_Subset DEF LooksInv
<1>2. some \in SUBSET fetched /\ fetched \in SUBSET seen
  BY DEF LooksInv
<1>3. IsFiniteSet(fetched) /\ IsFiniteSet(some) /\ Cardinality(some) <= Cardinality(fetched)
  BY <1>1, <1>2, FS_Subset
<1>4. f \in Surjection(some, contents)
  <2>1. f \in [some -> contents]
    OBVIOUS
  <2>2. \A c \in contents : \E g \in some : f[g] = c
    OBVIOUS
  <2>. HIDE DEF f, some, contents
  <2>. QED
    BY <2>1, <2>2 DEF Surjection
<1>. HIDE DEF f, some, contents, fetched
<1>5. Cardinality(contents) <= Cardinality(some) /\ IsFiniteSet(contents)
  BY <1>3, <1>4, FS_Surjection
<1>6. Cardinality(contents) \in Nat /\ Cardinality(some) \in Nat /\ Cardinality(fetched) \in Nat
  BY <1>3, <1>5, FS_CardinalityType
<1>7. Cardinality(contents) <= Cardinality(fetched)
  BY <1>3, <1>5, <1>6
<1>. QED
  BY <1>7 DEF contents, fetched

LEMMA CountsAsRead ==
  ASSUME NEW slots
  PROVE  /\ SlotsSeen(slots) = SeenIn(slotState, slots) /\ VersionsHad(slots) = HadIn(slotState, slots)
         /\ {s \in SlotsSeen(slots) : ~slotState[s].present} = GoneIn(slotState, slots)
         /\ {s \in SlotsSeen(slots) : slotState[s].version > 1} = RevisedIn(slotState, slots)
BY DEF SlotsSeen, VersionsHad, SeenIn, HadIn, GoneIn, RevisedIn

LEMMA ReadsFollow == ASSUME ReadsInv PROVE ReadsFollowLooks
<1>1. CountInv /\ LooksInv /\ LinksInv
  BY DEF ReadsInv
<1>2. ASSUME NEW e
      PROVE  CreativeSummary(e).versions = CreativeSummary(e).states + CreativeSummary(e).contentChanges
  <2>1. PICK slots : slots = {s \in Slots : s.event = e}
    OBVIOUS
  <2>2. /\ CreativeSummary(e).versions = Cardinality(HadIn(slotState, slots))
        /\ CreativeSummary(e).states = Cardinality(SeenIn(slotState, slots))
        /\ CreativeSummary(e).contentChanges = Changes("CONTENT_CHANGED", slots)
    BY <2>1, CountsAsRead DEF CreativeSummary
  <2>3. slots \in SUBSET Slots
    BY <2>1
  <2>. QED
    BY <1>1, <2>2, <2>3 DEF CountInv, CountedAt
<1>3. ASSUME NEW src, NEW slots, slots = {s \in Slots : s.source = src}
      PROVE  /\ Coverage(src).disappearances =
                  Coverage(src).reappearances + Cardinality({s \in SlotsSeen(slots) : ~slotState[s].present})
             /\ Coverage(src).versioned <= Coverage(src).contentChanges
             /\ Coverage(src).unique <= Coverage(src).fetched
  <2>1. PICK seen : seen = {g \in sightings : g.slot \in slots}
    OBVIOUS
  <2>2. /\ Coverage(src).disappearances = Changes("DISAPPEARED", slots)
        /\ Coverage(src).reappearances = Changes("REAPPEARED", slots)
        /\ Coverage(src).contentChanges = Changes("CONTENT_CHANGED", slots)
        /\ Coverage(src).versioned = Cardinality({s \in SlotsSeen(slots) : slotState[s].version > 1})
        /\ Coverage(src).unique = Cardinality({g.asset : g \in seen} \ {Null})
        /\ Coverage(src).fetched = Cardinality({g \in seen : g.status = "FETCHED"})
    BY <1>3, <2>1 DEF Coverage
  <2>3. CountedAt(slotState, slots, Changes("CONTENT_CHANGED", slots), Changes("DISAPPEARED", slots),
                  Changes("REAPPEARED", slots))
    <3>1. slots \in SUBSET Slots
      BY <1>3
    <3>. QED
      BY <1>1, <3>1 DEF CountInv
  <2>4. Coverage(src).unique <= Coverage(src).fetched
    <3>1. seen \in SUBSET sightings
      BY <2>1
    <3>. QED
      BY <1>1, <2>2, <3>1, UniqueIsFetched
  <2>. QED
    BY <2>2, <2>3, <2>4, CountsAsRead DEF CountedAt
<1>4. ReadsAgree
  BY <1>2, <1>3 DEF ReadsAgree
<1>5. LinkedIsSighted
  BY <1>1 DEF LinksInv, EdgeIsSighted, LinkedIsSighted
<1>. QED
  BY <1>4, <1>5 DEF ReadsFollowLooks

\* The read models and the slots count alike, however many looks, retries and
\* restarts made them; the graph links only what was fetched (reads.py,
\* service.py).
THEOREM ReadsStayFounded == MediaSpec => []ReadsFollowLooks
<1>1. MediaInit => ReadsInv
  BY ReadsStart
<1>2. ReadsInv /\ [MediaNext]_mediaVars => ReadsInv'
  BY ReadsStep
<1>3. ReadsInv => ReadsFollowLooks
  BY ReadsFollow
<1>. QED
  BY <1>1, <1>2, <1>3, PTL DEF MediaSpec
================================================================================
