---------------------- MODULE ResolutionDecisionsProofs ----------------------
(***************************************************************************)
(* What the registry's audit trail, its handles, the edges of the graph    *)
(* and the gateway's decisions keep for every set of events and names,     *)
(* whatever the order of passes, commands, graph writes, losses and        *)
(* crashes.                                                                *)
(*                                                                         *)
(* The parts of the invariant are operators of values, not of variables, so*)
(* that a lemma about a batch, a row or a trail serves before and after a  *)
(* step alike.                                                             *)
(***************************************************************************)
EXTENDS ResolutionDecisions, TLAPS

Claims == {"RESOLVED", "POSSIBLE_MATCH"}

(* Rows and their trail. *)
IsRow(r) ==
  r = [status |-> r.status, cid |-> r.cid, name |-> r.name, normal |-> r.normal,
       city |-> r.city, corrected |-> r.corrected, multiRole |-> r.multiRole]

RowFits(r) == IsRow(r) /\ r.status \in Statuses /\ r.name \in Names

RowsFit(C) == \A k \in DOMAIN C : RowFits(C[k])

InTrail(H, k, status, cid) == \E h \in H : h.key = k /\ h.status = status /\ h.cid = cid

Explains(row, r) == row.status = r.status /\ (row.cid # r.cid => r.status = "REJECTED")

Trail(C, L, H) ==
  /\ DOMAIN L = DOMAIN C
  /\ \A k \in DOMAIN C : Explains(L[k], C[k]) /\ InTrail(H, k, L[k].status, L[k].cid)

Hands == Processes \cup {"OPERATOR", "EXTERNAL"}

Signed(H) == \A h \in H : h.by \in Hands

HandlesLead(hs) == \A h \in DOMAIN hs : hs[h] # None

(* The graph, and the batches on their way to it: an edge claims what the  *)
(* trail tells, or what an operator asked of a series.                     *)
Asked(x) == [key |-> <<"EVENT_SERIES", x.event, None>>, status |-> "RESOLVED", cid |-> x.series]

Grounds == history \cup {Asked(x) : x \in asked}

BackedBy(H, l, status) ==
  \E h \in H : h.key[2] = l[1] /\ h.key[1] = l[2] /\ h.cid = l[3] /\ h.status = status

LinksFit(H, ls) ==
  \A l \in DOMAIN ls : l[3] # None /\ (ls[l] \in Claims => BackedBy(H, l, ls[l]))

NodesFit(ns) == \A i \in DOMAIN ns : i # None /\ ns[i].name \in Names \cup {None}

BatchFits(H, b) == NodesFit(b.nodes) /\ LinksFit(H, b.links)

BatchesFit(H, w) ==
  \/ w = <<w[1]>> /\ BatchFits(H, w[1])
  \/ w = <<w[1], w[2]>> /\ BatchFits(H, w[1]) /\ BatchFits(H, w[2])

GraphFits(H, ns, ls) ==
  NodesFit(ns) /\ LinksFit(H, ls) /\ \A l \in DOMAIN ls : l[3] \in DOMAIN ns

(* What a pass has read, and a pass under way. *)
PageFits(p, e) ==
  /\ p.event = e /\ p.source = Source[e]
  /\ p.city = Page[e].city /\ p.organizer = Page[e].organizer
  /\ p.performers \subseteq Names
  /\ {p.venue, p.organizer, p.title} \subseteq Names \cup {None}

FetchedFits(F) ==
  /\ DOMAIN F = Processes
  /\ \A p \in Processes :
       DOMAIN F[p] = Events /\ \A e \in Events : F[p][e] # None => PageFits(F[p][e], e)

MentionFits(m, e) ==
  /\ m.event = e /\ m.source = Source[e] /\ m.role \in Roles /\ m.name \in Names
  /\ m.city = Page[e].city /\ m.organizer = Page[e].organizer

(* What a pass has resolved and not yet registered: where it knows the     *)
(* handle to lead, it will lead again.                                     *)
ResolvedFits(r, known, e) ==
  r # None =>
    /\ r = [mention |-> r.mention, cid |-> r.cid] /\ MentionFits(r.mention, e) /\ r.cid # None
    /\ LET h == HandleOf(r.mention)
       IN h \in DOMAIN known.handles => known.handles[h] = r.cid

IsPass(p) ==
  p = [event |-> p.event, todo |-> p.todo,
       known |-> [handles |-> p.known.handles, names |-> p.known.names,
                  venues |-> p.known.venues],
       cross |-> p.cross, cohort |-> p.cohort, nodes |-> p.nodes, links |-> p.links,
       resolved |-> p.resolved]

PassFits(G, p) ==
  p # None =>
    /\ IsPass(p) /\ p.event \in Events
    /\ \A m \in p.todo : MentionFits(m, p.event)
    /\ NodesFit(p.nodes) /\ LinksFit(G, p.links)
    /\ ResolvedFits(p.resolved, p.known, p.event)

PassesFit(G, P) == DOMAIN P = Processes /\ \A p \in Processes : PassFits(G, P[p])

(* A link under way: its batches fit the graph once it is told.            *)
PrevFits(r) == r = [status |-> r.status, cid |-> r.cid] /\ r.status \in Statuses

Decides(d, k, c) ==
  Reversible(d) /\ d[2] = k /\ (d[1] = "ACCEPT_CANDIDATE" => d[3] = c)

LinkFits(G, C, ln) ==
  ln # None =>
    /\ ln.key \in DOMAIN C /\ ln.key[2] \in Events
    /\ ln.cid # None /\ ln.owner \in {None, ln.cid}
    /\ PrevFits(ln.prev) /\ Decides(ln.decision, ln.key, ln.cid)
    /\ ln.batches = <<>> \/ BatchesFit(G \cup {Entry(ln.key, Manual(ln.cid), "OPERATOR")},
                                      ln.batches)

DecisionFits(H, C, d, r) ==
  /\ r = [prev |-> [status |-> r.prev.status, cid |-> r.prev.cid], reversal |-> r.reversal]
  /\ r.reversal \in {"NONE", "APPENDED", "MARKED"}
  /\ Reversible(d) => r.prev.status \in Statuses /\ d[2] \in DOMAIN C /\ d[2][2] \in Events
  /\ d[1] = "ACCEPT_CANDIDATE" => InTrail(H, d[2], "RESOLVED", d[3])

DecisionsFit(H, C, D) == \A d \in DOMAIN D : DecisionFits(H, C, d, D[d])

RInv ==
  /\ RowsFit(candidate) /\ Trail(candidate, latest, history) /\ Signed(history)
  /\ HandlesLead(handle)
  /\ GraphFits(Grounds, node, link)
  /\ \A w \in writes : BatchesFit(Grounds, w.todo)
  /\ FetchedFits(fetched) /\ PassesFit(Grounds, pass)
  /\ LinkFits(Grounds, candidate, linking)

IInv == RInv /\ DecisionsFit(history, candidate, decisions)

(* What a step does to rows, trail and handles, whoever takes it. *)
RowsKept ==
  /\ RowsFit(candidate') /\ Trail(candidate', latest', history') /\ Signed(history')
  /\ history \subseteq history' /\ DOMAIN candidate \subseteq DOMAIN candidate'
  /\ asked \subseteq asked'

-----------------------------------------------------------------------------
(* The operators the model is built from. *)

(* A row of the table rewritten is a row written under its key. *)
LEMMA RewrittenRow ==
  ASSUME NEW f, NEW k \in DOMAIN f, NEW v
  PROVE  [f EXCEPT ![k] = v] = Extend(f, k, v)
<1>1. DOMAIN f = DOMAIN f \cup {k}
  OBVIOUS
<1>2. [f EXCEPT ![k] = v] = [x \in DOMAIN f |-> IF x = k THEN v ELSE f[x]]
  OBVIOUS
<1> QED
  BY <1>1, <1>2, Zenon DEF Extend

(* The row with another status and another id. *)
Restates(q, r, status, c) ==
  /\ RowFits(q) /\ q.status = status /\ q.cid = c
  /\ q.name = r.name /\ q.normal = r.normal /\ q.city = r.city

Restated(r, status, c) == [r EXCEPT !.status = status, !.cid = c]

LEMMA WholeRow ==
  ASSUME NEW r, RowFits(r), NEW status \in Statuses, NEW c, NEW z, NEW u
  PROVE  Restates([status |-> status, cid |-> c, name |-> r.name, normal |-> r.normal,
                   city |-> r.city, corrected |-> z, multiRole |-> u], r, status, c)
  BY DEF Restates, RowFits, IsRow

LEMMA EditedRow ==
  ASSUME NEW r, RowFits(r), NEW status \in Statuses, NEW c, NEW z, NEW u
  PROVE  /\ Restates([r EXCEPT !.status = status], r, status, r.cid)
         /\ Restates(Restated(r, status, c), r, status, c)
         /\ Restates([r EXCEPT !.status = status, !.corrected = z], r, status, r.cid)
         /\ Restates([r EXCEPT !.status = status, !.cid = c, !.corrected = z], r, status, c)
         /\ Restates([[r EXCEPT !.status = status, !.cid = c, !.corrected = z]
                        EXCEPT !.multiRole = u], r, status, c)
<1>1. PICK s, d, n, m, y, v, w : r = [status |-> s, cid |-> d, name |-> n, normal |-> m,
                                      city |-> y, corrected |-> v, multiRole |-> w]
  BY DEF RowFits, IsRow
<1>2. r.cid = d /\ r.name = n /\ r.normal = m /\ r.city = y
  BY <1>1
<1>3. PICK q1 : q1 = [r EXCEPT !.status = status]
  OBVIOUS
<1>4. q1 = [status |-> status, cid |-> d, name |-> n, normal |-> m,
            city |-> y, corrected |-> v, multiRole |-> w]
  BY <1>1, <1>3
<1>5. PICK q2 : q2 = [q1 EXCEPT !.cid = c]
  OBVIOUS
<1>6. q2 = [status |-> status, cid |-> c, name |-> n, normal |-> m,
            city |-> y, corrected |-> v, multiRole |-> w]
  BY <1>4, <1>5
<1>7. PICK q3 : q3 = [q2 EXCEPT !.corrected = z]
  OBVIOUS
<1>8. q3 = [status |-> status, cid |-> c, name |-> n, normal |-> m,
            city |-> y, corrected |-> z, multiRole |-> w]
  BY <1>6, <1>7
<1>9. PICK q4 : q4 = [q3 EXCEPT !.multiRole = u]
  OBVIOUS
<1>10. q4 = [status |-> status, cid |-> c, name |-> n, normal |-> m,
             city |-> y, corrected |-> z, multiRole |-> u]
  BY <1>8, <1>9
<1>11. PICK q5 : q5 = [q1 EXCEPT !.corrected = z]
  OBVIOUS
<1>12. q5 = [status |-> status, cid |-> d, name |-> n, normal |-> m,
             city |-> y, corrected |-> z, multiRole |-> w]
  BY <1>4, <1>11
<1>13. /\ Restates(q1, r, status, r.cid) /\ Restates(q5, r, status, r.cid)
       /\ Restates(q2, r, status, c) /\ Restates(q3, r, status, c) /\ Restates(q4, r, status, c)
  <2>1. \A c2, z2, u2 : Restates([status |-> status, cid |-> c2, name |-> n, normal |-> m,
                                 city |-> y, corrected |-> z2, multiRole |-> u2], r, status, c2)
    BY <1>2, WholeRow, Zenon
  <2> QED
    BY <1>2, <1>4, <1>6, <1>8, <1>10, <1>12, <2>1, Zenon
<1>14. /\ Restated(r, status, c) = q2
       /\ [r EXCEPT !.status = status, !.corrected = z] = q5
       /\ [r EXCEPT !.status = status, !.cid = c, !.corrected = z] = q3
  BY <1>3, <1>5, <1>7, <1>11 DEF Restated
<1> QED
  BY <1>3, <1>9, <1>13, <1>14, Zenon

LEMMA RestatedRow ==
  ASSUME NEW r, RowFits(r), NEW status \in Statuses, NEW c
  PROVE  /\ Restates([r EXCEPT !.status = status], r, status, r.cid)
         /\ Restates(Restated(r, status, c), r, status, c)
<1>1. PICK z : z = TRUE
  OBVIOUS
<1> QED
  BY EditedRow, Zenon

LEMMA LinkedRow ==
  ASSUME NEW C, NEW k \in DOMAIN C, RowFits(C[k]), NEW status, NEW c
  PROVE  [C EXCEPT ![k].status = status, ![k].cid = c] = Extend(C, k, Restated(C[k], status, c))
<1> DEFINE D == [C EXCEPT ![k].status = status]
<1>1. D = [C EXCEPT ![k] = [C[k] EXCEPT !.status = status]]
  OBVIOUS
<1>2. k \in DOMAIN D /\ D[k] = [C[k] EXCEPT !.status = status]
  BY <1>1
<1>3. [D EXCEPT ![k].cid = c] = [D EXCEPT ![k] = Restated(C[k], status, c)]
  BY <1>2 DEF Restated
<1>4. [D EXCEPT ![k] = Restated(C[k], status, c)] = [C EXCEPT ![k] = Restated(C[k], status, c)]
  BY <1>1
<1> QED
  BY <1>3, <1>4, RewrittenRow

(* A table and its trail, when one row is written and the trail told.      *)
LEMMA RowWritten ==
  ASSUME NEW C, NEW L, NEW H, RowsFit(C), Trail(C, L, H), Signed(H),
         NEW k, NEW r, RowFits(r),
         NEW status, NEW cid, Explains(Row(status, cid), r),
         NEW by \in Hands,
         NEW C2, C2 = Extend(C, k, r),
         NEW L2, L2 = Extend(L, k, Row(status, cid)),
         NEW H2, H2 = H \cup {Entry(k, Row(status, cid), by)}
  PROVE  /\ RowsFit(C2) /\ Trail(C2, L2, H2) /\ Signed(H2)
         /\ H \subseteq H2 /\ DOMAIN C \subseteq DOMAIN C2
         /\ InTrail(H2, k, status, cid)
<1>1. /\ DOMAIN C2 = DOMAIN C \cup {k} /\ C2[k] = r
      /\ \A x \in DOMAIN C : x # k => C2[x] = C[x]
  BY DEF Extend
<1>2. /\ DOMAIN L2 = DOMAIN L \cup {k} /\ L2[k] = Row(status, cid)
      /\ \A x \in DOMAIN L : x # k => L2[x] = L[x]
  BY DEF Extend
<1>3. PICK h : /\ H2 = H \cup {h} /\ h.key = k /\ h.status = status /\ h.cid = cid
               /\ h.by = by
  <2>1. /\ Entry(k, Row(status, cid), by).key = k /\ Entry(k, Row(status, cid), by).status = status
        /\ Entry(k, Row(status, cid), by).cid = cid /\ Entry(k, Row(status, cid), by).by = by
    BY DEF Entry, Row
  <2> QED
    BY <2>1, Zenon
<1>4. InTrail(H2, k, status, cid)
  BY <1>3 DEF InTrail
<1>5. RowsFit(C2)
  BY <1>1 DEF RowsFit
<1>6. Signed(H2)
  BY <1>3 DEF Signed
<1>7. DOMAIN L2 = DOMAIN C2
  BY <1>1, <1>2, Zenon DEF Trail
<1>8. ASSUME NEW x \in DOMAIN C2
      PROVE  Explains(L2[x], C2[x]) /\ InTrail(H2, x, L2[x].status, L2[x].cid)
  <2>1. CASE x = k
    <3>1. C2[x] = r /\ L2[x] = Row(status, cid)
      BY <2>1, <1>1, <1>2, Zenon
    <3>2. L2[x].status = status /\ L2[x].cid = cid
      BY <3>1 DEF Row
    <3> QED
      BY <1>4, <2>1, <3>1, <3>2, Zenon
  <2>2. CASE x # k
    <3>1. x \in DOMAIN C /\ C2[x] = C[x] /\ L2[x] = L[x]
      BY <2>2, <1>1, <1>2, Zenon DEF Trail
    <3>2. Explains(L[x], C[x]) /\ InTrail(H, x, L[x].status, L[x].cid)
      BY <3>1 DEF Trail
    <3>3. InTrail(H2, x, L[x].status, L[x].cid)
      BY <3>2, <1>3 DEF InTrail
    <3> QED
      BY <3>1, <3>2, <3>3, Zenon
  <2> QED
    BY <2>1, <2>2
<1>9. Trail(C2, L2, H2)
  BY <1>7, <1>8 DEF Trail
<1> QED
  BY <1>1, <1>3, <1>4, <1>5, <1>6, <1>9

(* What the trail holds it goes on holding. *)
LEMMA TrailGrows ==
  ASSUME NEW H, NEW H2, H \subseteq H2
  PROVE  /\ \A k, s, c : InTrail(H, k, s, c) => InTrail(H2, k, s, c)
         /\ \A ls : LinksFit(H, ls) => LinksFit(H2, ls)
         /\ \A b : BatchFits(H, b) => BatchFits(H2, b)
         /\ \A w : BatchesFit(H, w) => BatchesFit(H2, w)
         /\ \A ns, ls : GraphFits(H, ns, ls) => GraphFits(H2, ns, ls)
         /\ \A p : PassFits(H, p) => PassFits(H2, p)
         /\ \A P : PassesFit(H, P) => PassesFit(H2, P)
<1>1. \A l, s : BackedBy(H, l, s) => BackedBy(H2, l, s)
  BY DEF BackedBy
<1>2. \A ls : LinksFit(H, ls) => LinksFit(H2, ls)
  BY <1>1 DEF LinksFit
<1>3. \A b : BatchFits(H, b) => BatchFits(H2, b)
  BY <1>2 DEF BatchFits
<1>4. \A w : BatchesFit(H, w) => BatchesFit(H2, w)
  BY <1>3 DEF BatchesFit
<1>5. \A ns, ls : GraphFits(H, ns, ls) => GraphFits(H2, ns, ls)
  BY <1>2 DEF GraphFits
<1>6. \A p : PassFits(H, p) => PassFits(H2, p)
  BY <1>2 DEF PassFits
<1>7. \A k, s, c : InTrail(H, k, s, c) => InTrail(H2, k, s, c)
  BY DEF InTrail
<1>8. \A P : PassesFit(H, P) => PassesFit(H2, P)
  BY <1>6 DEF PassesFit
<1> QED
  BY <1>2, <1>3, <1>4, <1>5, <1>6, <1>7, <1>8

LEMMA LinkStillFits ==
  ASSUME NEW G, NEW G2, G \subseteq G2, NEW C, NEW C2, DOMAIN C \subseteq DOMAIN C2,
         NEW ln, LinkFits(G, C, ln)
  PROVE  LinkFits(G2, C2, ln)
<1>1. PICK X, X2 : /\ X = G \cup {Entry(ln.key, Manual(ln.cid), "OPERATOR")}
                   /\ X2 = G2 \cup {Entry(ln.key, Manual(ln.cid), "OPERATOR")}
  OBVIOUS
<1>2. X \subseteq X2
  BY <1>1
<1>3. BatchesFit(X, ln.batches) => BatchesFit(X2, ln.batches)
  BY <1>2, TrailGrows
<1> QED
  BY <1>1, <1>3 DEF LinkFits

(* So do the grounds of the edges. *)
LEMMA GroundsGrow ==
  ASSUME RowsKept
  PROVE  Grounds \subseteq Grounds'
BY DEF RowsKept, Grounds

LEMMA DecisionsGrow ==
  ASSUME NEW H, NEW H2, H \subseteq H2, NEW C, NEW C2, DOMAIN C \subseteq DOMAIN C2,
         NEW D, DecisionsFit(H, C, D)
  PROVE  DecisionsFit(H2, C2, D)
  BY TrailGrows DEF DecisionsFit, DecisionFits

-----------------------------------------------------------------------------
(* The graph. *)

LEMMA OneBatch ==
  ASSUME NEW H, NEW b, BatchFits(H, b)
  PROVE  BatchesFit(H, <<b>>)
  BY DEF BatchesFit

LEMMA TwoBatches ==
  ASSUME NEW H, NEW b, BatchFits(H, b), NEW d, BatchFits(H, d)
  PROVE  BatchesFit(H, <<b, d>>)
  BY DEF BatchesFit

LEMMA HeadAndTail ==
  ASSUME NEW H, NEW w, BatchesFit(H, w)
  PROVE  BatchFits(H, Head(w)) /\ (Len(w) # 1 => BatchesFit(H, Tail(w)))
<1>1. CASE w = <<w[1]>> /\ BatchFits(H, w[1])
  <2>1. PICK a : w = <<a>> /\ BatchFits(H, a)
    BY <1>1
  <2>2. Head(w) = a /\ Len(w) = 1
    BY <2>1
  <2> QED
    BY <2>1, <2>2
<1>2. CASE w = <<w[1], w[2]>> /\ BatchFits(H, w[1]) /\ BatchFits(H, w[2])
  <2>1. PICK a, b : w = <<a, b>> /\ BatchFits(H, a) /\ BatchFits(H, b)
    BY <1>2
  <2>2. Head(w) = a /\ Tail(w) = <<b>>
    BY <2>1
  <2> QED
    BY <2>1, <2>2, OneBatch
<1> QED
  BY <1>1, <1>2 DEF BatchesFit

LEMMA NodesOver ==
  ASSUME NEW f, NEW g, NodesFit(f), NodesFit(g)
  PROVE  NodesFit(Over(f, g)) /\ DOMAIN Over(f, g) = DOMAIN f \cup DOMAIN g
  BY DEF NodesFit, Over

(* A batch that fits delivered to a graph that fits. *)
LEMMA Delivered ==
  ASSUME NEW H, NEW ns, NEW ls, GraphFits(H, ns, ls), NEW b, BatchFits(H, b)
  PROVE  GraphFits(H, Over(Over(b.nodes, ns), Thin(b.links)), Merged(b.links, ls))
<1> DEFINE N2 == Over(Over(b.nodes, ns), Thin(b.links))
           L2 == Merged(b.links, ls)
<1>1. NodesFit(Thin(b.links)) /\ DOMAIN Thin(b.links) = {x[3] : x \in DOMAIN b.links}
  BY DEF Thin, NodesFit, BatchFits, LinksFit
<1>2. NodesFit(N2) /\ DOMAIN N2 = DOMAIN b.nodes \cup DOMAIN ns \cup {x[3] : x \in DOMAIN b.links}
  <2>1. NodesFit(Over(b.nodes, ns)) /\ DOMAIN Over(b.nodes, ns) = DOMAIN b.nodes \cup DOMAIN ns
    BY NodesOver DEF BatchFits, GraphFits
  <2>2. NodesFit(N2) /\ DOMAIN N2 = DOMAIN Over(b.nodes, ns) \cup DOMAIN Thin(b.links)
    BY <1>1, <2>1, NodesOver
  <2> QED
    BY <1>1, <2>1, <2>2
<1>3. DOMAIN L2 = DOMAIN b.links \cup DOMAIN ls
  BY DEF Merged, Over
<1>4. ASSUME NEW l \in DOMAIN L2
      PROVE  l[3] # None /\ (L2[l] \in Claims => BackedBy(H, l, L2[l])) /\ l[3] \in DOMAIN N2
  <2>1. CASE l \in DOMAIN b.links
    <3>1. L2[l] = IF b.links[l] = None /\ l \in DOMAIN ls THEN ls[l] ELSE b.links[l]
      BY <2>1 DEF Merged, Over
    <3>2. l[3] # None /\ (b.links[l] \in Claims => BackedBy(H, l, b.links[l]))
      BY <2>1 DEF BatchFits, LinksFit
    <3>3. l \in DOMAIN ls => (ls[l] \in Claims => BackedBy(H, l, ls[l]))
      BY DEF GraphFits, LinksFit
    <3> QED
      BY <1>2, <2>1, <3>1, <3>2, <3>3
  <2>2. CASE l \notin DOMAIN b.links
    <3>1. l \in DOMAIN ls /\ L2[l] = ls[l]
      BY <1>3, <2>2 DEF Merged, Over
    <3> QED
      BY <1>2, <3>1 DEF GraphFits, LinksFit
  <2> QED
    BY <2>1, <2>2
<1> QED
  BY <1>2, <1>4 DEF GraphFits, LinksFit

(* What a source's own projection writes. *)
LEMMA ProjectionFits ==
  ASSUME NEW e \in Events, NEW H
  PROVE  /\ BatchFits(H, Projection(e))
         /\ DOMAIN Projection(e).nodes = {l[3] : l \in DOMAIN Projection(e).links}
         /\ \A l \in DOMAIN Projection(e).links : Projection(e).links[l] = None
<1> DEFINE Ids == {SourceId(x[1], x[2]) : x \in SourceNodes(e)}
           NameOf(id) == (CHOOSE x \in SourceNodes(e) : SourceId(x[1], x[2]) = id)[2]
<1>1. /\ Projection(e).nodes = [id \in Ids |-> [type |-> id[1], name |-> NameOf(id)]]
      /\ Projection(e).links = [l \in {<<e, id[1], id>> : id \in Ids} |-> None]
  BY DEF Projection, Batch
<1>2. \A x \in SourceNodes(e) : x[1] \in Roles /\ x[2] \in Names
  BY PagesAreOfNames DEF SourceNodes, Roles, Types
<1>3. \A id \in Ids : NameOf(id) \in Names
  BY <1>2
<1>4. \A id \in Ids : id # None
  <2>1. \A n \in Names : Slug[n] \in Parts
    BY DEF Parts
  <2>2. \A r \in Roles, s \in Parts : <<r, s>> # None
    BY IdsAreIds
  <2> QED
    BY <1>2, <2>1, <2>2 DEF SourceId
<1>5. NodesFit(Projection(e).nodes)
  <2>1. /\ DOMAIN Projection(e).nodes = Ids
        /\ \A id \in Ids : Projection(e).nodes[id].name = NameOf(id)
    BY <1>1
  <2> QED
    BY <1>3, <1>4, <2>1 DEF NodesFit
<1>6. \A l \in DOMAIN Projection(e).links : l[3] \in Ids /\ Projection(e).links[l] = None
  BY <1>1
<1>7. LinksFit(H, Projection(e).links)
  BY <1>4, <1>6, NoneIsNothing DEF LinksFit, Claims
<1>8. DOMAIN Projection(e).nodes = {l[3] : l \in DOMAIN Projection(e).links}
  <2>1. DOMAIN Projection(e).nodes = Ids
    BY <1>1
  <2>2. DOMAIN Projection(e).links = {<<e, id[1], id>> : id \in Ids}
    BY <1>1
  <2>3. \A id \in Ids : <<e, id[1], id>>[3] = id
    OBVIOUS
  <2> HIDE DEF Ids
  <2>4. ASSUME NEW id \in Ids PROVE \E l \in DOMAIN Projection(e).links : l[3] = id
    BY <2>2, <2>3
  <2>5. ASSUME NEW l \in DOMAIN Projection(e).links PROVE l[3] \in Ids
    BY <2>2, <2>3
  <2>6. Ids = {l[3] : l \in DOMAIN Projection(e).links}
    BY <2>4, <2>5
  <2> QED
    BY <2>1, <2>6
<1> QED
  BY <1>5, <1>6, <1>7, <1>8 DEF BatchFits

-----------------------------------------------------------------------------
(* Mentions and what is decided on them. *)

LEMMA MentionOfPage ==
  ASSUME NEW e \in Events, NEW p, PageFits(p, e), NEW role \in Roles, NEW n \in Names, NEW state
  PROVE  MentionFits(Mention(p, role, n, state), e)
  BY DEF PageFits, MentionFits, Mention

LEMMA Extracted ==
  ASSUME NEW e \in Events, NEW p, PageFits(p, e), NEW m \in Extract(p)
  PROVE  MentionFits(m, e)
<1>1. {p.venue, p.organizer, p.title} \subseteq Names \cup {None} /\ p.performers \subseteq Names
  BY DEF PageFits
<1>2. "ARTIST" \in Roles /\ "VENUE" \in Roles /\ "ORGANIZER" \in Roles /\ "EVENT_SERIES" \in Roles
  BY DEF Roles, Types
<1>3. CASE m \in ArtistMentions(p)
  <2> DEFINE Emit(n, state) ==
               IF Normal("ARTIST", n) = "" THEN {} ELSE {Mention(p, "ARTIST", n, state)}
  <2>1. \A n \in Names : \A state : \A x \in Emit(n, state) : MentionFits(x, e)
    BY <1>2, MentionOfPage
  <2> HIDE DEF Emit
  <2>2. \A n \in Names : \A i \in DOMAIN Facts[n].parts : Facts[n].parts[i] \in Names
    <3> TAKE n \in Names
    <3>1. PICK ps : ps = Facts[n].parts /\ ps \in Seq(Names)
      BY NamesHaveFacts
    <3>2. \A i \in DOMAIN ps : ps[i] \in Names
      BY <3>1
    <3> QED
      BY <3>1, <3>2
  <2>3. PICK n \in p.performers :
          m \in (CASE Interpret(n) = "PLACEHOLDER" -> {}
                   [] Interpret(n) = "COMPOUND_SPLIT" ->
                        UNION {Emit(Facts[n].parts[i], "CLEAN_SINGLE") : i \in DOMAIN Facts[n].parts}
                   [] Interpret(n) = "REVIEW_REQUIRED" -> Emit(n, "AMBIGUOUS_COMPOUND")
                   [] OTHER -> Emit(n, "CLEAN_SINGLE"))
    BY <1>3 DEF ArtistMentions, Emit
  <2>4. n \in Names
    BY <1>1
  <2>5. CASE Interpret(n) = "PLACEHOLDER"
    BY <2>3, <2>5
  <2>6. CASE Interpret(n) = "COMPOUND_SPLIT"
    <3>1. PICK i \in DOMAIN Facts[n].parts : m \in Emit(Facts[n].parts[i], "CLEAN_SINGLE")
      BY <2>3, <2>6
    <3> QED
      BY <2>1, <2>2, <2>4, <3>1
  <2>7. CASE Interpret(n) \notin {"PLACEHOLDER", "COMPOUND_SPLIT"}
    <3>1. m \in Emit(n, "AMBIGUOUS_COMPOUND") \/ m \in Emit(n, "CLEAN_SINGLE")
      BY <2>3, <2>7
    <3> QED
      BY <2>1, <2>4, <3>1
  <2> QED
    BY <2>5, <2>6, <2>7
<1>4. ASSUME NEW role \in Roles, NEW n \in Names \cup {None}, m \in SingleMention(p, role, n)
      PROVE  MentionFits(m, e)
  <2>1. n \in Names /\ m = Mention(p, role, n, "NONE")
    BY <1>4 DEF SingleMention
  <2> QED
    BY <2>1, MentionOfPage
<1>5. CASE m \in SeriesMention(p)
  <2>1. p.title \in Names /\ m = Mention(p, "EVENT_SERIES", p.title, "NONE")
    BY <1>1, <1>5 DEF SeriesMention
  <2> QED
    BY <1>2, <2>1, MentionOfPage
<1> QED
  BY <1>1, <1>2, <1>3, <1>4, <1>5 DEF Extract

Verdicts == {"RESOLVED", "POSSIBLE_MATCH", "AMBIGUOUS", "UNRESOLVED", "REVIEW_REQUIRED",
             "ROLE_CONFLICT"}

IsResult(r) ==
  r = [status |-> r.status, cid |-> r.cid, score |-> r.score] /\ r.status \in Verdicts

LEMMA ResultIsResult ==
  \A status \in Verdicts : \A cid, score :
    /\ IsResult(Result(status, cid, score))
    /\ Result(status, cid, score).status = status
    /\ Result(status, cid, score).cid = cid
  BY DEF IsResult, Result

(* What a resolver answers is a result, and a handle the pass knows leads  *)
(* where it led.                                                           *)
LEMMA Resolved ==
  ASSUME NEW m, m.role \in Roles, NEW known, NEW r \in Resolve(m, known)
  PROVE  /\ IsResult(r)
         /\ HandleOf(m) \in DOMAIN known.handles => r.cid = known.handles[HandleOf(m)]
<1>0. Verdicts \subseteq Verdicts /\ "RESOLVED" \in Verdicts /\ "POSSIBLE_MATCH" \in Verdicts
      /\ "AMBIGUOUS" \in Verdicts /\ "UNRESOLVED" \in Verdicts
  BY DEF Verdicts
<1>1. CASE HandleOf(m) \in DOMAIN known.handles
  <2>1. PICK score : r = Result("RESOLVED", known.handles[HandleOf(m)], score)
    BY <1>1 DEF Resolve
  <2> QED
    BY <1>0, <2>1, ResultIsResult
<1>2. CASE HandleOf(m) \notin DOMAIN known.handles
  <2>1. ASSUME r \in ResolveArtist(m, known) PROVE IsResult(r)
    <3>1. \E s \in Verdicts : \E c, score : r = Result(s, c, score)
      BY <1>0, <2>1 DEF ResolveArtist
    <3> QED
      BY <3>1, ResultIsResult
  <2>2. ASSUME r \in ResolveVenue(m, known) PROVE IsResult(r)
    <3>1. \E s \in Verdicts : \E c, score : r = Result(s, c, score)
      BY <1>0, <2>2 DEF ResolveVenue
    <3> QED
      BY <3>1, ResultIsResult
  <2>3. ASSUME r \in ResolveOrganizer(m, known) PROVE IsResult(r)
    <3>1. \E s \in Verdicts : \E c, score : r = Result(s, c, score)
      BY <1>0, <2>3 DEF ResolveOrganizer
    <3> QED
      BY <3>1, ResultIsResult
  <2>4. ASSUME r \in ResolveSeries(m, known) PROVE IsResult(r)
    <3>1. \E s \in Verdicts : \E c, score : r = Result(s, c, score)
      BY <1>0, <2>4 DEF ResolveSeries
    <3> QED
      BY <3>1, ResultIsResult
  <2>5. r \in ResolveArtist(m, known) \/ r \in ResolveVenue(m, known)
        \/ r \in ResolveOrganizer(m, known) \/ r \in ResolveSeries(m, known)
    BY <1>2 DEF Resolve, Roles, Types
  <2> QED
    BY <1>2, <2>1, <2>2, <2>3, <2>4, <2>5
<1> QED
  BY <1>1, <1>2

LEMMA Decided ==
  ASSUME NEW m, m.role \in Roles, NEW cross, NEW known, NEW cohort,
         NEW res \in Decisions(m, cross, known, cohort)
  PROVE  /\ IsResult(res)
         /\ \/ res.cid = None /\ res.status \in {"REVIEW_REQUIRED", "ROLE_CONFLICT"}
            \/ \E r \in Resolve(m, known) : res = ApplyThreshold(m, r)
         /\ (HandleOf(m) \in DOMAIN known.handles /\ res.cid # None)
              => res.cid = known.handles[HandleOf(m)]
<1>1. PICK gate : /\ gate = Gate(m, cross, known, cohort)
                  /\ gate \in {"REVIEW_REQUIRED", "ROLE_CONFLICT", None}
  BY DEF Gate
<1>2. CASE gate # None
  <2>1. gate \in {"REVIEW_REQUIRED", "ROLE_CONFLICT"} /\ res = Result(gate, None, 0)
    BY <1>1, <1>2 DEF Decisions
  <2>2. gate \in Verdicts
    BY <2>1 DEF Verdicts
  <2>3. IsResult(res) /\ res.status = gate /\ res.cid = None
    BY <2>1, <2>2, ResultIsResult
  <2> QED
    BY <2>1, <2>3
<1>3. CASE gate = None
  <2>1. PICK r \in Resolve(m, known) : res = ApplyThreshold(m, r)
    BY <1>1, <1>3 DEF Decisions
  <2>2. IsResult(r) /\ (HandleOf(m) \in DOMAIN known.handles => r.cid = known.handles[HandleOf(m)])
    BY Resolved
  <2>3. PICK s, c, score : s \in Verdicts /\ r = [status |-> s, cid |-> c, score |-> score]
    BY <2>2 DEF IsResult
  <2>4. res = r \/ res = [r EXCEPT !.status = "POSSIBLE_MATCH"]
    BY <2>1 DEF ApplyThreshold
  <2>5. IsResult(res) /\ res.cid = c
    BY <2>3, <2>4 DEF IsResult, Verdicts
  <2> QED
    BY <2>1, <2>2, <2>3, <2>5
<1> QED
  BY <1>2, <1>3

-----------------------------------------------------------------------------
(* Steps of the registry. *)

LEMMA RowsUntouched ==
  ASSUME RInv, UNCHANGED <<candidate, latest, history, asked>>
  PROVE  RowsKept
  BY DEF RInv, RowsKept

(* What need not be looked at again when only rows and trail were written. *)
LEMMA OthersKept ==
  ASSUME RInv, RowsKept
  PROVE  /\ GraphFits(Grounds', node, link)
         /\ \A w \in writes : BatchesFit(Grounds', w.todo)
         /\ PassesFit(Grounds', pass) /\ LinkFits(Grounds', candidate', linking)
<1>1. PICK G, G2, C2 : G = Grounds /\ G2 = Grounds' /\ C2 = candidate'
  OBVIOUS
<1>2. G \subseteq G2 /\ DOMAIN candidate \subseteq DOMAIN C2
  BY <1>1, GroundsGrow DEF RowsKept
<1>3. /\ GraphFits(G, node, link) /\ PassesFit(G, pass) /\ LinkFits(G, candidate, linking)
      /\ \A w \in writes : BatchesFit(G, w.todo)
  BY <1>1 DEF RInv
<1>4. /\ GraphFits(G2, node, link) /\ PassesFit(G2, pass)
      /\ \A w \in writes : BatchesFit(G2, w.todo)
  BY <1>2, <1>3, TrailGrows
<1>5. LinkFits(G2, C2, linking)
  BY <1>2, <1>3, LinkStillFits
<1> QED
  BY <1>1, <1>4, <1>5

(* So a step has to be looked at where it writes. *)
LEMMA Kept ==
  ASSUME RInv, RowsKept,
         UNCHANGED handle \/ HandlesLead(handle'),
         UNCHANGED <<node, link>> \/ GraphFits(Grounds', node', link'),
         \A w \in writes' : w \in writes \/ BatchesFit(Grounds', w.todo),
         UNCHANGED fetched \/ FetchedFits(fetched'),
         UNCHANGED pass \/ PassesFit(Grounds', pass'),
         UNCHANGED linking \/ LinkFits(Grounds', candidate', linking')
  PROVE  RInv'
<1>1. PICK G2, C2 : G2 = Grounds' /\ C2 = candidate'
  OBVIOUS
<1>2. /\ GraphFits(G2, node, link) /\ PassesFit(G2, pass) /\ LinkFits(G2, C2, linking)
      /\ \A w \in writes : BatchesFit(G2, w.todo)
  BY <1>1, OthersKept
<1>3. HandlesLead(handle) /\ FetchedFits(fetched)
  BY DEF RInv
<1>4. /\ HandlesLead(handle') /\ FetchedFits(fetched')
      /\ GraphFits(G2, node', link') /\ PassesFit(G2, pass') /\ LinkFits(G2, C2, linking')
      /\ \A w \in writes' : BatchesFit(G2, w.todo)
  BY <1>1, <1>2, <1>3
<1> QED
  BY <1>1, <1>4 DEF RInv, RowsKept

LEMMA OnePass ==
  ASSUME NEW G, NEW P, PassesFit(G, P), NEW p \in Processes, NEW q, PassFits(G, q)
  PROVE  PassesFit(G, [P EXCEPT ![p] = q])
  BY DEF PassesFit

LEMMA NoPass ==
  ASSUME NEW G
  PROVE  PassFits(G, None)
  BY DEF PassFits

(* What a process reads of an event. *)
LEMMA OnePage ==
  ASSUME NEW F, FetchedFits(F), NEW p \in Processes, NEW e \in Events,
         NEW x, x # None => PageFits(x, e)
  PROVE  FetchedFits([F EXCEPT ![p][e] = x])
<1>1. PICK f : f = F[p] /\ DOMAIN f = Events
               /\ \A y \in Events : f[y] # None => PageFits(f[y], y)
  BY DEF FetchedFits
<1>2. PICK f2 : f2 = [f EXCEPT ![e] = x]
  OBVIOUS
<1>3. DOMAIN f2 = Events /\ \A y \in Events : f2[y] # None => PageFits(f2[y], y)
  BY <1>1, <1>2
<1>4. [F EXCEPT ![p][e] = x] = [F EXCEPT ![p] = f2]
  BY <1>1, <1>2
<1>5. FetchedFits([F EXCEPT ![p] = f2])
  BY <1>3 DEF FetchedFits
<1> QED
  BY <1>4, <1>5

LEMMA PageSeenFits ==
  ASSUME RInv, NEW e \in Events, NEW page \in Pages(e)
  PROVE  PageFits(page, e)
<1>1. ASSUME NEW role PROVE NeighbourNames(e, role) \subseteq Names
  <2>1. \A l \in DOMAIN link : l[3] \in DOMAIN node
    BY DEF RInv, GraphFits
  <2>2. \A i \in DOMAIN node : node[i].name \in Names \cup {None}
    BY DEF RInv, GraphFits, NodesFit
  <2> QED
    BY <2>1, <2>2 DEF NeighbourNames
<1>2. PICK v \in Names \cup {None} : page = PageSeen(e, v)
  BY <1>1 DEF Pages
<1>3. PICK ns : ns = NeighbourNames(e, "ARTIST") /\ ns \subseteq Names
  BY <1>1
<1>4. PICK q : q = Page[e] /\ DOMAIN q = {"event", "source", "city", "organizer", "title",
                                         "performers", "venue", "schema"}
  BY PagesAreOfNames
<1>5. page = [q EXCEPT !.performers = ns, !.venue = v]
  BY <1>2, <1>3, <1>4 DEF PageSeen
<1>6. /\ page.event = q.event /\ page.source = q.source /\ page.city = q.city
      /\ page.organizer = q.organizer /\ page.title = q.title
      /\ page.performers = ns /\ page.venue = v
  BY <1>4, <1>5
<1>7. /\ q.event = e /\ q.source = Source[e]
      /\ {q.venue, q.organizer, q.title} \subseteq Names \cup {None}
  BY <1>4, PagesAreOfNames
<1> QED
  BY <1>2, <1>3, <1>4, <1>6, <1>7 DEF PageFits

LEMMA FetchKeeps ==
  ASSUME RInv, NEW p \in Processes, NEW e \in Events, Fetch(p, e)
  PROVE  RInv' /\ RowsKept /\ UNCHANGED handle
<1>1. PICK page \in Pages(e) : fetched' = [fetched EXCEPT ![p][e] = page]
  BY DEF Fetch
<1>2. PageFits(page, e) /\ FetchedFits(fetched)
  BY PageSeenFits DEF RInv
<1>3. FetchedFits(fetched')
  BY <1>1, <1>2, OnePage
<1>4. UNCHANGED <<candidate, history, latest, handle, node, link, writes, pass, linking, asked>>
  BY DEF Fetch
<1>5. RowsKept
  BY <1>4, RowsUntouched
<1> QED
  BY <1>3, <1>4, <1>5, Kept

LEMMA KnownHandles ==
  ASSUME NEW ms
  PROVE  /\ KnownFor(ms) = [handles |-> KnownFor(ms).handles, names |-> KnownFor(ms).names,
                            venues |-> KnownFor(ms).venues]
         /\ DOMAIN KnownFor(ms).handles \subseteq DOMAIN handle
         /\ \A h \in DOMAIN KnownFor(ms).handles : KnownFor(ms).handles[h] = handle[h]
<1>1. PICK hs, ns, vs : /\ KnownFor(ms) = [handles |-> hs, names |-> ns, venues |-> vs]
                        /\ hs = [h \in {HandleOf(m) : m \in ms} \cap DOMAIN handle |-> handle[h]]
  BY DEF KnownFor
<1> QED
  BY <1>1

(* The pass a process begins. *)
LEMMA Begun ==
  ASSUME NEW p \in Processes, NEW e \in Events, Begin(p, e), DOMAIN pass = Processes
  PROVE  \E q : /\ pass' = [pass EXCEPT ![p] = q]
                /\ \/ q = None
                   \/ \E c : LET ms == Extract(fetched[p][e]) IN
                        q = [event |-> e, todo |-> ms, known |-> KnownFor(ms), cross |-> None,
                             cohort |-> c, nodes |-> <<>>, links |-> <<>>, resolved |-> None]
<1>1. PICK ms : ms = Extract(fetched[p][e])
  OBVIOUS
<1>2. PICK c : c = {<<Slug[m.name], m.role>> : m \in ms}
  OBVIOUS
<1>3. pass' = [pass EXCEPT ![p] =
        IF ms = {} THEN None
        ELSE [event |-> e, todo |-> ms, known |-> KnownFor(ms), cross |-> None,
              cohort |-> c, nodes |-> <<>>, links |-> <<>>, resolved |-> None]]
  BY <1>1, <1>2 DEF Begin
<1> QED
  BY <1>1, <1>3

LEMMA BeginKeeps ==
  ASSUME RInv, NEW p \in Processes, NEW e \in Events, Begin(p, e)
  PROVE  RInv' /\ RowsKept /\ UNCHANGED handle
<1>1. UNCHANGED <<candidate, history, latest, handle, node, link, writes, linking, asked>>
  BY DEF Begin
<1>2. RowsKept
  BY <1>1, RowsUntouched
<1>3. FetchedFits(fetched) /\ fetched' = [fetched EXCEPT ![p][e] = None] /\ fetched[p][e] # None
  BY DEF RInv, Begin
<1>4. FetchedFits(fetched')
  BY <1>3, OnePage
<1>5. PICK ms : ms = Extract(fetched[p][e]) /\ \A m \in ms : MentionFits(m, e)
  BY <1>3, Extracted DEF FetchedFits
<1>6. PICK G : G = Grounds /\ PassesFit(G, pass)
  BY DEF RInv
<1>7. PICK q : /\ pass' = [pass EXCEPT ![p] = q]
               /\ \/ q = None
                  \/ \E c : q = [event |-> e, todo |-> ms, known |-> KnownFor(ms), cross |-> None,
                                 cohort |-> c, nodes |-> <<>>, links |-> <<>>, resolved |-> None]
  BY <1>5, <1>6, Begun DEF PassesFit
<1>8. PassFits(G, q)
  <2>1. ASSUME q # None PROVE PassFits(G, q)
    <3>1. PICK c : q = [event |-> e, todo |-> ms, known |-> KnownFor(ms), cross |-> None,
                        cohort |-> c, nodes |-> <<>>, links |-> <<>>, resolved |-> None]
      BY <1>7, <2>1
    <3>2. PICK kn : kn = KnownFor(ms)
                    /\ kn = [handles |-> kn.handles, names |-> kn.names, venues |-> kn.venues]
      BY KnownHandles
    <3>3. q = [event |-> e, todo |-> ms, known |-> kn, cross |-> None,
               cohort |-> c, nodes |-> <<>>, links |-> <<>>, resolved |-> None]
      BY <3>1, <3>2
    <3>4. IsPass(q)
      BY <3>2, <3>3 DEF IsPass
    <3>5. NodesFit(q.nodes) /\ LinksFit(G, q.links) /\ ResolvedFits(q.resolved, q.known, q.event)
      BY <3>3 DEF NodesFit, LinksFit, ResolvedFits
    <3> QED
      BY <1>5, <3>3, <3>4, <3>5 DEF PassFits
  <2> QED
    BY <2>1, NoPass
<1>9. PassesFit(Grounds', pass')
  <2>1. Grounds' = G
    BY <1>1, <1>6 DEF Grounds
  <2> QED
    BY <1>6, <1>7, <1>8, <2>1, OnePass
<1> QED
  BY <1>1, <1>2, <1>4, <1>9, Kept

(* What a pass has read of types tells nothing of what it holds. *)
LEMMA ReadTypesKeeps ==
  ASSUME RInv, NEW p \in Processes, ReadTypes(p)
  PROVE  RInv' /\ RowsKept /\ UNCHANGED handle
<1>1. /\ UNCHANGED <<candidate, history, latest, handle, node, link, writes, fetched, linking>>
      /\ UNCHANGED asked
  BY DEF ReadTypes
<1>2. RowsKept
  BY <1>1, RowsUntouched
<1>3. PICK G : G = Grounds /\ PassesFit(G, pass) /\ Grounds' = G
  BY <1>1 DEF RInv, Grounds
<1>4. PICK q : q = pass[p] /\ q # None /\ PassFits(G, q)
  BY <1>3 DEF PassesFit, ReadTypes
<1>5. PICK i, q2 : i = CrossTypeIndex /\ q2 = [q EXCEPT !.cross = i]
  OBVIOUS
<1>6. pass' = [pass EXCEPT ![p] = q2]
  BY <1>4, <1>5 DEF ReadTypes
<1>7. PICK e, t, kn, c1, c2, ns, ls, r :
        /\ q = [event |-> e, todo |-> t, known |-> kn, cross |-> c1, cohort |-> c2,
                nodes |-> ns, links |-> ls, resolved |-> r]
        /\ kn = [handles |-> kn.handles, names |-> kn.names, venues |-> kn.venues]
  <2>1. PICK hs, nm, vs : /\ hs = q.known.handles /\ nm = q.known.names /\ vs = q.known.venues
    OBVIOUS
  <2>2. PICK kn : kn = [handles |-> hs, names |-> nm, venues |-> vs]
    OBVIOUS
  <2>3. q = [event |-> q.event, todo |-> q.todo, known |-> kn, cross |-> q.cross,
             cohort |-> q.cohort, nodes |-> q.nodes, links |-> q.links, resolved |-> q.resolved]
    BY <1>4, <2>1, <2>2, Zenon DEF PassFits, IsPass
  <2>4. kn = [handles |-> kn.handles, names |-> kn.names, venues |-> kn.venues]
    BY <2>2
  <2> QED
    BY <2>3, <2>4, Zenon
<1>8. q2 = [event |-> e, todo |-> t, known |-> kn, cross |-> i, cohort |-> c2,
            nodes |-> ns, links |-> ls, resolved |-> r]
  BY <1>5, <1>7
<1>9. PassFits(G, q2)
  <2>1. IsPass(q2)
    BY <1>7, <1>8 DEF IsPass
  <2>2. /\ e \in Events /\ \A m \in t : MentionFits(m, e)
        /\ NodesFit(ns) /\ LinksFit(G, ls) /\ ResolvedFits(r, kn, e)
    BY <1>4, <1>7 DEF PassFits
  <2> QED
    BY <1>8, <2>1, <2>2 DEF PassFits
<1>10. PassesFit(Grounds', pass')
  BY <1>3, <1>6, <1>9, OnePass
<1> QED
  BY <1>1, <1>2, <1>10, Kept

LEMMA DeliverKeeps ==
  ASSUME RInv, NEW b, BatchFits(Grounds, b), Deliver(b), UNCHANGED <<history, asked>>
  PROVE  GraphFits(Grounds', node', link')
<1>1. Grounds' = Grounds
  BY DEF Grounds
<1>2. GraphFits(Grounds, node', link')
  BY Delivered DEF RInv, Deliver
<1> QED
  BY <1>1, <1>2

LEMMA IngestKeeps ==
  ASSUME RInv, NEW e \in Events, Ingest(e)
  PROVE  RInv' /\ RowsKept /\ UNCHANGED handle
<1>1. UNCHANGED <<candidate, history, latest, handle, writes, fetched, pass, linking, asked>>
  BY DEF Ingest, loops
<1>2. RowsKept
  BY <1>1, RowsUntouched
<1>3. Deliver(Projection(e)) /\ BatchFits(Grounds, Projection(e))
  BY ProjectionFits DEF Ingest
<1>4. GraphFits(Grounds', node', link')
  BY <1>1, <1>3, DeliverKeeps
<1> QED
  BY <1>1, <1>2, <1>4, Kept

LEMMA GraphWriteKeeps ==
  ASSUME RInv, GraphWrite
  PROVE  RInv' /\ RowsKept /\ UNCHANGED handle
<1>1. PICK w \in writes :
        /\ Deliver(Head(w.todo))
        /\ writes' = (writes \ {w}) \cup
                       (IF Len(w.todo) = 1 THEN {} ELSE {[by |-> w.by, todo |-> Tail(w.todo)]})
  BY DEF GraphWrite
<1>2. UNCHANGED <<candidate, history, latest, handle, fetched, pass, linking, asked>>
  BY DEF GraphWrite, loops
<1>3. RowsKept
  BY <1>2, RowsUntouched
<1>4. BatchFits(Grounds, Head(w.todo)) /\ (Len(w.todo) # 1 => BatchesFit(Grounds, Tail(w.todo)))
  BY HeadAndTail DEF RInv
<1>5. GraphFits(Grounds', node', link')
  BY <1>1, <1>2, <1>4, DeliverKeeps
<1>6. \A x \in writes' : x \in writes \/ BatchesFit(Grounds', x.todo)
  <2>1. Grounds' = Grounds
    BY <1>2 DEF Grounds
  <2>2. PICK x : x = [by |-> w.by, todo |-> Tail(w.todo)]
    OBVIOUS
  <2>3. x.todo = Tail(w.todo)
    BY <2>2
  <2>4. \A y \in writes' : y \in writes \/ (y = x /\ Len(w.todo) # 1)
    BY <1>1, <2>2
  <2> QED
    BY <1>4, <2>1, <2>3, <2>4
<1> QED
  BY <1>2, <1>3, <1>5, <1>6, Kept

LEMMA GraphWriteFailsKeeps ==
  ASSUME RInv, GraphWriteFails
  PROVE  RInv' /\ RowsKept /\ UNCHANGED handle
<1>1. PICK w \in writes, some \in BOOLEAN :
        /\ node' = IF some THEN Over(Head(w.todo).nodes, node) ELSE node
        /\ writes' = writes \ {w}
  BY DEF GraphWriteFails
<1>2. UNCHANGED <<candidate, history, latest, handle, link, fetched, pass, linking, asked>>
  BY DEF GraphWriteFails, loops
<1>3. RowsKept
  BY <1>2, RowsUntouched
<1>4. BatchFits(Grounds, Head(w.todo)) /\ GraphFits(Grounds, node, link)
  BY HeadAndTail DEF RInv
<1>5. PICK ns : ns = Head(w.todo).nodes /\ NodesFit(ns)
  BY <1>4 DEF BatchFits
<1>6. NodesFit(Over(ns, node)) /\ DOMAIN node \subseteq DOMAIN Over(ns, node)
  BY <1>4, <1>5, NodesOver DEF GraphFits
<1>7. NodesFit(node') /\ DOMAIN node \subseteq DOMAIN node'
  BY <1>1, <1>4, <1>5, <1>6 DEF GraphFits
<1>8. GraphFits(Grounds', node', link')
  <2>1. Grounds' = Grounds
    BY <1>2 DEF Grounds
  <2> QED
    BY <1>2, <1>4, <1>7, <2>1 DEF GraphFits
<1>9. \A x \in writes' : x \in writes
  BY <1>1
<1> QED
  BY <1>2, <1>3, <1>8, <1>9, Kept

(* What a process loses when what holds its loop fails, or it dies. *)
LEMMA LossKeeps ==
  ASSUME RInv, NEW p \in Processes, Fail(p) \/ Crash(p)
  PROVE  RInv' /\ RowsKept /\ UNCHANGED handle
<1>1. UNCHANGED <<candidate, history, latest, handle, node, link, asked>>
  BY DEF Fail, Crash
<1>2. RowsKept
  BY <1>1, RowsUntouched
<1>3. writes' \subseteq writes
  BY DEF Fail, Crash
<1>4. UNCHANGED fetched \/ fetched' = [fetched EXCEPT ![p] = [e \in Events |-> None]]
  BY DEF Fail, Crash
<1>5. UNCHANGED fetched \/ FetchedFits(fetched')
  <2>1. PICK f : f = [e \in Events |-> None]
    OBVIOUS
  <2>2. FetchedFits(fetched) /\ DOMAIN f = Events /\ \A e \in Events : f[e] = None
    BY <2>1 DEF RInv
  <2>3. FetchedFits([fetched EXCEPT ![p] = f])
    BY <2>2 DEF FetchedFits
  <2> QED
    BY <1>4, <2>1, <2>3
<1>6. PassesFit(Grounds', pass')
  <2>1. pass' = [pass EXCEPT ![p] = None]
    BY DEF Fail, Crash
  <2>2. PassesFit(Grounds', pass)
    BY <1>2, OthersKept
  <2> QED
    BY <2>1, <2>2, NoPass, OnePass
<1>7. UNCHANGED linking \/ LinkFits(Grounds', candidate', linking')
  <2>1. UNCHANGED linking \/ linking' = None
    BY DEF Fail, Crash
  <2> QED
    BY <2>1 DEF LinkFits
<1> QED
  BY <1>1, <1>2, <1>3, <1>5, <1>6, <1>7, Kept

LEMMA FinishPassKeeps ==
  ASSUME RInv, NEW p \in Processes, FinishPass(p)
  PROVE  RInv' /\ RowsKept /\ UNCHANGED handle
<1>1. UNCHANGED <<candidate, history, latest, handle, node, link, fetched, linking, asked>>
  BY DEF FinishPass
<1>2. RowsKept
  BY <1>1, RowsUntouched
<1>3. PICK G, q : /\ G = Grounds /\ Grounds' = G /\ PassesFit(G, pass)
                  /\ q = pass[p] /\ q # None /\ PassFits(G, q)
  BY <1>1 DEF RInv, Grounds, PassesFit, FinishPass
<1>4. PICK w : w = [by |-> p, todo |-> <<Batch(q.nodes, q.links)>>]
  OBVIOUS
<1>5. BatchesFit(G, w.todo)
  <2>1. NodesFit(q.nodes) /\ LinksFit(G, q.links)
    BY <1>3 DEF PassFits
  <2>2. BatchFits(G, Batch(q.nodes, q.links))
    BY <2>1 DEF BatchFits, Batch
  <2>3. w.todo = <<Batch(q.nodes, q.links)>>
    BY <1>4
  <2> QED
    BY <2>2, <2>3, OneBatch
<1>6. writes' \subseteq writes \cup {w}
  BY <1>3, <1>4 DEF FinishPass, Send
<1>7. \A x \in writes' : x \in writes \/ BatchesFit(Grounds', x.todo)
  BY <1>3, <1>5, <1>6
<1>8. PassesFit(Grounds', pass')
  <2>1. pass' = [pass EXCEPT ![p] = None]
    BY DEF FinishPass
  <2> QED
    BY <1>3, <2>1, NoPass, OnePass
<1> QED
  BY <1>1, <1>2, <1>7, <1>8, Kept

-----------------------------------------------------------------------------
(* A mention decided. *)

(* The row a verdict leaves: the pass's own, or the old one's name kept.   *)
PersistedRow(m, res) ==
  IF KeyOf(m) \notin DOMAIN candidate THEN NewRow(m, res)
  ELSE [NewRow(m, res) EXCEPT !.name = candidate[KeyOf(m)].name,
                              !.normal = candidate[KeyOf(m)].normal]

LEMMA Renamed ==
  ASSUME NEW s, NEW c, NEW n, NEW no, NEW y, NEW z, NEW u, NEW n2, NEW no2,
         NEW r, r = [status |-> s, cid |-> c, name |-> n, normal |-> no, city |-> y,
                     corrected |-> z, multiRole |-> u]
  PROVE  [r EXCEPT !.name = n2, !.normal = no2] =
           [status |-> s, cid |-> c, name |-> n2, normal |-> no2, city |-> y,
            corrected |-> z, multiRole |-> u]
<1>1. PICK q : q = [r EXCEPT !.name = n2]
  OBVIOUS
<1>2. q = [status |-> s, cid |-> c, name |-> n2, normal |-> no, city |-> y,
           corrected |-> z, multiRole |-> u]
  BY <1>1
<1>3. [q EXCEPT !.normal = no2] = [status |-> s, cid |-> c, name |-> n2, normal |-> no2,
                                   city |-> y, corrected |-> z, multiRole |-> u]
  BY <1>2
<1> QED
  BY <1>1, <1>3

LEMMA PersistedRowFits ==
  ASSUME RInv, NEW m, m.name \in Names, NEW res, IsResult(res)
  PROVE  /\ RowFits(PersistedRow(m, res))
         /\ PersistedRow(m, res).status = res.status
         /\ PersistedRow(m, res).cid = res.cid
         /\ PersistedRow(m, res).city = m.city
         /\ KeyOf(m) \notin DOMAIN candidate =>
              /\ PersistedRow(m, res).name = m.name
              /\ PersistedRow(m, res).normal = Normal(m.role, m.name)
         /\ KeyOf(m) \in DOMAIN candidate =>
              /\ PersistedRow(m, res).name = candidate[KeyOf(m)].name
              /\ PersistedRow(m, res).normal = candidate[KeyOf(m)].normal
<1>1. PICK s, c, no : s = res.status /\ c = res.cid /\ no = Normal(m.role, m.name)
  OBVIOUS
<1>2. s \in Statuses
  BY <1>1 DEF IsResult, Verdicts, Statuses, NonProduct, Gated
<1>3. NewRow(m, res) = [status |-> s, cid |-> c, name |-> m.name, normal |-> no, city |-> m.city,
                        corrected |-> FALSE, multiRole |-> FALSE]
  BY <1>1 DEF NewRow
<1>4. CASE KeyOf(m) \notin DOMAIN candidate
  <2>1. PersistedRow(m, res) = NewRow(m, res)
    BY <1>4 DEF PersistedRow
  <2> QED
    BY <1>1, <1>2, <1>3, <1>4, <2>1 DEF RowFits, IsRow
<1>5. CASE KeyOf(m) \in DOMAIN candidate
  <2>1. PICK n2, no2 : n2 = candidate[KeyOf(m)].name /\ no2 = candidate[KeyOf(m)].normal
    OBVIOUS
  <2>2. n2 \in Names
    BY <1>5, <2>1 DEF RInv, RowsFit, RowFits
  <2>3. PICK nr : nr = NewRow(m, res)
    OBVIOUS
  <2>4. PersistedRow(m, res) = [nr EXCEPT !.name = n2, !.normal = no2]
    BY <1>5, <2>1, <2>3 DEF PersistedRow
  <2>5. nr = [status |-> s, cid |-> c, name |-> m.name, normal |-> no, city |-> m.city,
              corrected |-> FALSE, multiRole |-> FALSE]
    BY <1>3, <2>3, Zenon
  <2>6. PersistedRow(m, res) = [status |-> s, cid |-> c, name |-> n2, normal |-> no2,
                                city |-> m.city, corrected |-> FALSE, multiRole |-> FALSE]
    BY <2>4, <2>5, Renamed, Zenon
  <2> QED
    BY <1>1, <1>2, <1>5, <2>1, <2>2, <2>6 DEF RowFits, IsRow
<1> QED
  BY <1>4, <1>5

LEMMA PersistKeeps ==
  ASSUME RInv, NEW p \in Processes, NEW m, m.name \in Names, NEW res, IsResult(res),
         PersistCandidate(p, m, res), UNCHANGED asked
  PROVE  /\ RowsKept /\ candidate' = Extend(candidate, KeyOf(m), PersistedRow(m, res))
         /\ InTrail(history', KeyOf(m), res.status, res.cid)
<1>1. PICK C, L, H : C = candidate /\ L = latest /\ H = history
  OBVIOUS
<1>2. PICK k, r, s, c : /\ k = KeyOf(m) /\ r = PersistedRow(m, res)
                        /\ s = res.status /\ c = res.cid
  OBVIOUS
<1>3. RowsFit(C) /\ Trail(C, L, H) /\ Signed(H)
  BY <1>1 DEF RInv
<1>4. RowFits(r) /\ r.status = s /\ r.cid = c /\ s \in Verdicts
  BY <1>2, PersistedRowFits DEF IsResult
<1>5. candidate' = Extend(C, k, r)
  BY <1>1, <1>2 DEF PersistCandidate, PersistedRow
<1>6. CASE k \notin DOMAIN C \/ C[k].status # s \/ C[k].cid # c
  <2>1. history' = H \cup {Entry(k, Row(s, c), p)} /\ latest' = Extend(L, k, Row(s, c))
    BY <1>1, <1>2, <1>6 DEF PersistCandidate, Record
  <2>2. Explains(Row(s, c), r)
    BY <1>4 DEF Explains, Row
  <2>3. PICK C2, L2, H2 : C2 = candidate' /\ L2 = latest' /\ H2 = history'
    OBVIOUS
  <2>4. /\ C2 = Extend(C, k, r) /\ L2 = Extend(L, k, Row(s, c))
        /\ H2 = H \cup {Entry(k, Row(s, c), p)}
    BY <1>5, <2>1, <2>3
  <2>5. p \in Hands
    BY DEF Hands
  <2>6. /\ RowsFit(C2) /\ Trail(C2, L2, H2) /\ Signed(H2)
        /\ H \subseteq H2 /\ DOMAIN C \subseteq DOMAIN C2 /\ InTrail(H2, k, s, c)
    BY <1>3, <1>4, <2>2, <2>4, <2>5, RowWritten
  <2> QED
    BY <1>1, <1>2, <1>5, <2>3, <2>6 DEF RowsKept
<1>7. CASE k \in DOMAIN C /\ C[k].status = s /\ C[k].cid = c
  <2>1. history' = H /\ latest' = L
    BY <1>1, <1>2, <1>7 DEF PersistCandidate
  <2>2. PICK C2 : C2 = candidate' /\ C2 = Extend(C, k, r)
    BY <1>5
  <2>3. DOMAIN C2 = DOMAIN C /\ C2[k] = r /\ \A x \in DOMAIN C : x # k => C2[x] = C[x]
    BY <1>7, <2>2 DEF Extend
  <2>4. RowsFit(C2)
    BY <1>3, <1>4, <2>3 DEF RowsFit
  <2>5. Explains(L[k], r) /\ InTrail(H, k, L[k].status, L[k].cid)
    BY <1>3, <1>4, <1>7 DEF Trail, Explains
  <2>6. Trail(C2, L, H)
    BY <1>3, <2>3, <2>5 DEF Trail
  <2>7. L[k].status = s /\ L[k].cid = c
    BY <1>4, <2>5 DEF Explains, Verdicts
  <2> QED
    BY <1>1, <1>2, <1>3, <1>5, <2>1, <2>2, <2>3, <2>4, <2>5, <2>6, <2>7 DEF RowsKept
<1> QED
  BY <1>6, <1>7

(* The pass after a verdict. *)
LEMMA PassAdvances ==
  ASSUME NEW G, NEW p, p # None, PassFits(G, p), NEW m \in p.todo, NEW res,
         (HandleOf(m) \in DOMAIN p.known.handles /\ res.cid # None)
           => res.cid = p.known.handles[HandleOf(m)],
         InGraph(res) => BackedBy(G, <<m.event, m.role, res.cid>>, res.status)
  PROVE  /\ PassFits(G, Advance(p, m, res)) /\ Advance(p, m, res).known = p.known
         /\ LET r == Advance(p, m, res).resolved
            IN r # None => /\ res.status = "RESOLVED" /\ res.cid # None
                           /\ r.mention = m /\ r.cid = res.cid
<1>1. PICK kn : kn = p.known
                /\ kn = [handles |-> kn.handles, names |-> kn.names, venues |-> kn.venues]
  <2>1. PICK hs, nm, vs : hs = p.known.handles /\ nm = p.known.names /\ vs = p.known.venues
    OBVIOUS
  <2>2. PICK x : x = [handles |-> hs, names |-> nm, venues |-> vs]
    OBVIOUS
  <2>3. p = [event |-> p.event, todo |-> p.todo, known |-> x, cross |-> p.cross,
             cohort |-> p.cohort, nodes |-> p.nodes, links |-> p.links, resolved |-> p.resolved]
    BY <2>1, <2>2, Zenon DEF PassFits, IsPass
  <2>4. p.known = x
    BY <2>3
  <2> QED
    BY <2>2, <2>4
<1>2. PICK e, t, c1, c2, ns, ls, r :
        p = [event |-> e, todo |-> t, known |-> kn, cross |-> c1, cohort |-> c2,
             nodes |-> ns, links |-> ls, resolved |-> r]
  <2>1. p = [event |-> p.event, todo |-> p.todo, known |-> p.known, cross |-> p.cross,
             cohort |-> p.cohort, nodes |-> p.nodes, links |-> p.links, resolved |-> p.resolved]
    BY <1>1, Zenon DEF PassFits, IsPass
  <2> QED
    BY <1>1, <2>1, Zenon
<1>3. PICK r2, ns2, ls2 :
        /\ r2 = IF res.status = "RESOLVED" /\ res.cid # None
                THEN [mention |-> m, cid |-> res.cid] ELSE None
        /\ ns2 = IF InGraph(res) THEN Extend(ns, res.cid, [type |-> m.role, name |-> m.name]) ELSE ns
        /\ ls2 = IF InGraph(res) THEN Extend(ls, <<m.event, m.role, res.cid>>, res.status) ELSE ls
  OBVIOUS
<1>4. PICK q : q = Advance(p, m, res)
  OBVIOUS
<1>5. q = [event |-> e, todo |-> t \ {m}, known |-> kn, cross |-> c1, cohort |-> c2,
           nodes |-> ns2, links |-> ls2, resolved |-> r2]
  <2>1. PICK q1 : q1 = [p EXCEPT !.todo = t \ {m}]
    OBVIOUS
  <2>2. q1 = [event |-> e, todo |-> t \ {m}, known |-> kn, cross |-> c1, cohort |-> c2,
              nodes |-> ns, links |-> ls, resolved |-> r]
    BY <1>2, <2>1
  <2>3. PICK q2 : q2 = [q1 EXCEPT !.resolved = r2]
    OBVIOUS
  <2>4. q2 = [event |-> e, todo |-> t \ {m}, known |-> kn, cross |-> c1, cohort |-> c2,
              nodes |-> ns, links |-> ls, resolved |-> r2]
    BY <2>2, <2>3
  <2>5. PICK q3 : q3 = [q2 EXCEPT !.nodes = ns2]
    OBVIOUS
  <2>6. q3 = [event |-> e, todo |-> t \ {m}, known |-> kn, cross |-> c1, cohort |-> c2,
              nodes |-> ns2, links |-> ls, resolved |-> r2]
    BY <2>4, <2>5
  <2>7. q = [q3 EXCEPT !.links = ls2]
    <3>1. p.todo = t /\ p.nodes = ns /\ p.links = ls
      BY <1>2
    <3>2. q = [p EXCEPT !.todo = t \ {m}, !.resolved = r2, !.nodes = ns2, !.links = ls2]
      BY <1>3, <1>4, <3>1 DEF Advance
    <3> QED
      BY <2>1, <2>3, <2>5, <3>2
  <2> QED
    BY <2>6, <2>7
<1>6. IsPass(q)
  BY <1>1, <1>5 DEF IsPass
<1>7. e \in Events /\ (\A x \in t : MentionFits(x, e)) /\ NodesFit(ns) /\ LinksFit(G, ls)
  BY <1>2 DEF PassFits
<1>8. MentionFits(m, e) /\ m.name \in Names
  BY <1>2, <1>7 DEF MentionFits
<1>9. r2 # None => /\ res.status = "RESOLVED" /\ res.cid # None
                   /\ r2 = [mention |-> m, cid |-> res.cid]
  BY <1>3
<1>10. ResolvedFits(r2, kn, e)
  <2>1. HandleOf(m) \in DOMAIN kn.handles /\ res.cid # None => res.cid = kn.handles[HandleOf(m)]
    BY <1>1
  <2> QED
    BY <1>8, <1>9, <2>1 DEF ResolvedFits
<1>11. NodesFit(ns2)
  <2>1. CASE InGraph(res)
    <3>1. ns2 = Extend(ns, res.cid, [type |-> m.role, name |-> m.name]) /\ res.cid # None
      BY <1>3, <2>1 DEF InGraph
    <3> QED
      BY <1>7, <1>8, <3>1 DEF NodesFit, Extend
  <2> QED
    BY <1>3, <1>7, <2>1
<1>12. LinksFit(G, ls2)
  <2>1. CASE InGraph(res)
    <3>1. PICK l : l = <<m.event, m.role, res.cid>>
      OBVIOUS
    <3>2. ls2 = Extend(ls, l, res.status) /\ l[3] # None /\ BackedBy(G, l, res.status)
      BY <1>3, <2>1, <3>1 DEF InGraph
    <3> QED
      BY <1>7, <3>2 DEF LinksFit, Extend
  <2> QED
    BY <1>3, <1>7, <2>1
<1>13. PassFits(G, q)
  BY <1>5, <1>6, <1>7, <1>10, <1>11, <1>12 DEF PassFits
<1>14. q.known = p.known /\ q.resolved = r2
  BY <1>1, <1>5
<1> QED
  BY <1>4, <1>9, <1>13, <1>14

(* What a process decides of a mention. *)
DecidesOn(p, m, res) ==
  /\ res \in Decisions(m, pass[p].cross, pass[p].known, pass[p].cohort)
  /\ PersistCandidate(p, m, res)
  /\ pass' = [pass EXCEPT ![p] = Advance(pass[p], m, res)]

LEMMA DecideKeeps ==
  ASSUME RInv, NEW p \in Processes, DecideMention(p)
  PROVE  RInv' /\ RowsKept /\ UNCHANGED handle
<1>1. pass[p] # None /\ PassesFit(Grounds, pass) /\ PassFits(Grounds, pass[p])
  BY DEF RInv, DecideMention, PassesFit
<1>2. PICK m \in pass[p].todo :
        \E res \in Decisions(m, pass[p].cross, pass[p].known, pass[p].cohort) :
          PersistCandidate(p, m, res) /\ pass' = [pass EXCEPT ![p] = Advance(pass[p], m, res)]
  BY DEF DecideMention
<1>3. PICK res : DecidesOn(p, m, res)
  BY <1>2 DEF DecidesOn
<1>4. UNCHANGED <<handle, node, link, writes, fetched, linking, asked>>
  BY DEF DecideMention
<1>5. MentionFits(m, pass[p].event) /\ pass[p].event \in Events
  BY <1>1, <1>2 DEF PassFits
<1>6. m.role \in Roles /\ m.name \in Names
  BY <1>5 DEF MentionFits
<1>7. /\ IsResult(res)
      /\ (HandleOf(m) \in DOMAIN pass[p].known.handles /\ res.cid # None)
           => res.cid = pass[p].known.handles[HandleOf(m)]
  BY <1>3, <1>6, Decided DEF DecidesOn
<1>8. RowsKept /\ InTrail(history', KeyOf(m), res.status, res.cid)
  BY <1>3, <1>4, <1>6, <1>7, PersistKeeps DEF DecidesOn
<1>9. PICK G2 : G2 = Grounds' /\ history' \subseteq G2
  BY DEF Grounds
<1>10. BackedBy(G2, <<m.event, m.role, res.cid>>, res.status)
  <2>1. PICK h \in history' : h.key = KeyOf(m) /\ h.status = res.status /\ h.cid = res.cid
    BY <1>8 DEF InTrail
  <2>2. h.key[1] = m.role /\ h.key[2] = m.event
    BY <2>1 DEF KeyOf
  <2> QED
    BY <1>9, <2>1, <2>2 DEF BackedBy
<1>11. PassesFit(G2, pass) /\ PassFits(G2, pass[p])
  BY <1>8, <1>9, OthersKept DEF PassesFit
<1>12. PassFits(G2, Advance(pass[p], m, res))
  BY <1>1, <1>2, <1>7, <1>10, <1>11, PassAdvances
<1>13. PassesFit(Grounds', pass')
  <2>1. PassesFit(G2, [pass EXCEPT ![p] = Advance(pass[p], m, res)])
    BY <1>11, <1>12, OnePass
  <2> QED
    BY <1>3, <1>9, <2>1 DEF DecidesOn
<1> QED
  BY <1>4, <1>8, <1>13, Kept

(* A handle that leads somewhere else, or nowhere, after a step: who wrote *)
(* it had read where it led before another led it there, or reversed a     *)
(* decision on a row of it.                                                *)
MovedWithReason ==
  \A h \in DOMAIN handle :
    (h \notin DOMAIN handle' \/ handle'[h] # handle[h]) =>
      \/ OutOfDate(h)
      \/ \E d \in DOMAIN decisions :
           /\ Reversible(d) /\ HandleOfKey(d[2]) = h
           /\ h \in DOMAIN handle' => handle'[h] = decisions[d].prev.cid

LEMMA NoneMoved ==
  ASSUME UNCHANGED handle
  PROVE  MovedWithReason
  BY DEF MovedWithReason

(* A pass that has registered a handle. *)
LEMMA WholePass ==
  ASSUME NEW G, NEW e \in Events, NEW t, \A x \in t : MentionFits(x, e), NEW kn,
         kn = [handles |-> kn.handles, names |-> kn.names, venues |-> kn.venues],
         NEW c1, NEW c2, NEW ns, NodesFit(ns), NEW ls, LinksFit(G, ls), NEW q,
         q = [event |-> e, todo |-> t, known |-> kn, cross |-> c1, cohort |-> c2,
              nodes |-> ns, links |-> ls, resolved |-> None]
  PROVE  PassFits(G, q) /\ q.known = kn /\ q.resolved = None
<1>1. ResolvedFits(None, kn, e)
  BY DEF ResolvedFits
<1>2. IsPass(q)
  BY DEF IsPass
<1> QED
  BY <1>1, <1>2 DEF PassFits

Taught(q, known, m, c) == q.known = Learn(known, m, c) /\ q.resolved = None

LEMMA PassLearns ==
  ASSUME NEW G, NEW p, p # None, PassFits(G, p), NEW m, NEW c, NEW q,
         q = [p EXCEPT !.known = Learn(@, m, c), !.resolved = None]
  PROVE  PassFits(G, q) /\ Taught(q, p.known, m, c)
<1>1. PICK kn : kn = p.known
  OBVIOUS
<1>2. PICK kn2 : kn2 = Learn(kn, m, c)
                 /\ kn2 = [handles |-> kn2.handles, names |-> kn2.names, venues |-> kn2.venues]
  <2>1. PICK hs, nm, vs : Learn(kn, m, c) = [handles |-> hs, names |-> nm, venues |-> vs]
    BY Zenon DEF Learn
  <2>2. PICK x : x = [handles |-> hs, names |-> nm, venues |-> vs]
    OBVIOUS
  <2>3. x = [handles |-> x.handles, names |-> x.names, venues |-> x.venues]
    BY <2>2
  <2> QED
    BY <2>1, <2>2, <2>3, Zenon
<1>3. PICK e, t, c1, c2, ns, ls, r :
        p = [event |-> e, todo |-> t, known |-> kn, cross |-> c1, cohort |-> c2,
             nodes |-> ns, links |-> ls, resolved |-> r]
  <2>1. PICK hs, nm, vs : hs = p.known.handles /\ nm = p.known.names /\ vs = p.known.venues
    OBVIOUS
  <2>2. PICK x : x = [handles |-> hs, names |-> nm, venues |-> vs]
    OBVIOUS
  <2>3. p = [event |-> p.event, todo |-> p.todo, known |-> x, cross |-> p.cross,
             cohort |-> p.cohort, nodes |-> p.nodes, links |-> p.links, resolved |-> p.resolved]
    BY <2>1, <2>2, Zenon DEF PassFits, IsPass
  <2>4. x = kn
    BY <1>1, <2>3
  <2> QED
    BY <2>3, <2>4, Zenon
<1>4. q = [event |-> e, todo |-> t, known |-> kn2, cross |-> c1, cohort |-> c2,
           nodes |-> ns, links |-> ls, resolved |-> None]
  <2>1. PICK q1 : q1 = [p EXCEPT !.known = kn2]
    OBVIOUS
  <2>2. q1 = [event |-> e, todo |-> t, known |-> kn2, cross |-> c1, cohort |-> c2,
              nodes |-> ns, links |-> ls, resolved |-> r]
    BY <1>3, <2>1
  <2>3. q = [q1 EXCEPT !.resolved = None]
    BY <1>1, <1>2, <2>1
  <2> QED
    BY <2>2, <2>3
<1>5. e \in Events /\ (\A x \in t : MentionFits(x, e)) /\ NodesFit(ns) /\ LinksFit(G, ls)
  BY <1>3 DEF PassFits
<1>6. PICK k2, q2 : k2 = kn2 /\ q2 = q
  OBVIOUS
<1>7. PassFits(G, q2) /\ q2.known = k2 /\ q2.resolved = None
  <2> HIDE DEF Learn
  <2>1. q2 = [event |-> e, todo |-> t, known |-> k2, cross |-> c1, cohort |-> c2,
              nodes |-> ns, links |-> ls, resolved |-> None]
    BY <1>4, <1>6, Zenon
  <2>2. k2 = [handles |-> k2.handles, names |-> k2.names, venues |-> k2.venues]
    BY <1>2, <1>6, Zenon
  <2> QED
    BY <1>5, <2>1, <2>2, WholePass
<1> QED
  BY <1>1, <1>2, <1>6, <1>7, Zenon DEF Taught

LEMMA RegisterHandleKeeps ==
  ASSUME RInv, NEW p \in Processes, RegisterHandle(p)
  PROVE  RInv' /\ RowsKept /\ MovedWithReason
<1>1. /\ UNCHANGED <<candidate, history, latest, node, link, writes, fetched, linking, asked>>
      /\ pass[p] # None /\ pass[p].resolved # None
  BY DEF RegisterHandle
<1>2. RowsKept
  BY <1>1, RowsUntouched
<1>3. PICK G, q : /\ G = Grounds /\ Grounds' = G /\ PassesFit(G, pass)
                  /\ q = pass[p] /\ q # None /\ PassFits(G, q)
  BY <1>1 DEF RInv, Grounds, PassesFit
<1>4. PICK m, c : m = q.resolved.mention /\ c = q.resolved.cid
  OBVIOUS
<1>5. PICK h : h = HandleOf(m)
  OBVIOUS
<1>6. c # None /\ (h \in DOMAIN q.known.handles => q.known.handles[h] = c)
  BY <1>1, <1>3, <1>4, <1>5 DEF PassFits, ResolvedFits
<1>7. PICK q2 : q2 = [q EXCEPT !.known = Learn(@, m, c), !.resolved = None]
  OBVIOUS
<1>8. handle' = Extend(handle, h, c) /\ pass' = [pass EXCEPT ![p] = q2]
  BY <1>3, <1>4, <1>5, <1>7 DEF RegisterHandle
<1>9. PassFits(G, q2)
  BY <1>3, <1>7, PassLearns
<1>10. PassesFit(Grounds', pass')
  BY <1>3, <1>8, <1>9, OnePass
<1>11. HandlesLead(handle')
  <2>1. HandlesLead(handle)
    BY DEF RInv
  <2> QED
    BY <1>6, <1>8, <2>1 DEF HandlesLead, Extend
<1>12. RInv'
  BY <1>1, <1>2, <1>10, <1>11, Kept
<1>13. ASSUME NEW x \in DOMAIN handle, x \notin DOMAIN handle' \/ handle'[x] # handle[x]
       PROVE  OutOfDate(x)
  <2>1. x = h /\ handle[h] # c
    BY <1>8, <1>13 DEF Extend
  <2>2. PICK hs : hs = pass[p].known.handles
    OBVIOUS
  <2>3. h \in DOMAIN hs => hs[h] # handle[h]
    BY <1>3, <1>6, <2>1, <2>2
  <2>4. HandleOf(pass[p].resolved.mention) = x
    BY <1>3, <1>4, <1>5, <2>1
  <2> QED
    BY <1>1, <2>1, <2>2, <2>3, <2>4 DEF OutOfDate
<1> QED
  BY <1>2, <1>12, <1>13 DEF MovedWithReason

-----------------------------------------------------------------------------
(* Commands. *)

(* One row written, its trail told, its name kept. *)
Writes(k, status, cid) ==
  \E r : candidate' = Extend(candidate, k, r) /\ Restates(r, candidate[k], status, cid)

LEMMA RowRecorded ==
  ASSUME RInv, NEW k, NEW r, RowFits(r), candidate' = Extend(candidate, k, r),
         NEW status, NEW cid, Explains(Row(status, cid), r),
         NEW by \in Hands, Record(k, Row(status, cid), by), UNCHANGED asked
  PROVE  RowsKept /\ InTrail(history', k, status, cid)
<1>1. PICK C, L, H, C2, L2, H2 :
        /\ C = candidate /\ L = latest /\ H = history
        /\ C2 = candidate' /\ L2 = latest' /\ H2 = history'
  OBVIOUS
<1>2. RowsFit(C) /\ Trail(C, L, H) /\ Signed(H)
  BY <1>1 DEF RInv
<1>3. /\ C2 = Extend(C, k, r) /\ L2 = Extend(L, k, Row(status, cid))
      /\ H2 = H \cup {Entry(k, Row(status, cid), by)}
  BY <1>1 DEF Record
<1>4. /\ RowsFit(C2) /\ Trail(C2, L2, H2) /\ Signed(H2)
      /\ H \subseteq H2 /\ DOMAIN C \subseteq DOMAIN C2 /\ InTrail(H2, k, status, cid)
  BY <1>2, <1>3, RowWritten
<1> QED
  BY <1>1, <1>4 DEF RowsKept

LEMMA NamedRow ==
  ASSUME RInv, NEW k \in NamedKeys
  PROVE  /\ RowFits(candidate[k]) /\ k \in DOMAIN candidate /\ k[2] \in Events
         /\ PrevFits(Before(k))
<1>1. k \in DOMAIN candidate /\ k[2] \in Events /\ RowFits(candidate[k])
  BY DEF NamedKeys, RInv, RowsFit
<1>2. PICK s, c : s = candidate[k].status /\ c = candidate[k].cid /\ s \in Statuses
  BY <1>1 DEF RowFits
<1>3. PICK b : b = Before(k) /\ b = [status |-> s, cid |-> c]
  BY <1>2 DEF Before, Row
<1>4. PrevFits(b)
  BY <1>2, <1>3 DEF PrevFits
<1> QED
  BY <1>1, <1>3, <1>4

(* A batch of one named node fits any graph. *)
LEMMA NodeBatch ==
  ASSUME NEW c, c # None, NEW n \in Names, NEW b, NEW ns, b = Batch(ns, <<>>),
         DOMAIN ns = {c}, ns[c].name = n, NEW G
  PROVE  BatchFits(G, b)
<1>1. b.nodes = ns /\ b.links = <<>>
  BY DEF Batch
<1> QED
  BY <1>1 DEF BatchFits, NodesFit, LinksFit

(* A link is opened: nothing of it shows before it is committed. *)
LEMMA StartLinkKeeps ==
  ASSUME RInv, NEW k \in NamedKeys, NEW c, c # None, NEW batches, NEW decision,
         Decides(decision, k, c), StartLink(k, c, batches, decision),
         \/ batches = <<LinkBatch(k, c)>>
         \/ \E b : batches = <<LinkBatch(k, c), b>> /\ \A G : BatchFits(G, b)
  PROVE  RInv' /\ RowsKept /\ UNCHANGED handle
<1>1. /\ UNCHANGED <<candidate, history, latest, handle, node, link, writes, fetched, pass>>
      /\ UNCHANGED asked
  BY DEF StartLink
<1>2. RowsKept
  BY <1>1, RowsUntouched
<1>3. PICK X : X = Grounds \cup {Entry(k, Manual(c), "OPERATOR")}
  OBVIOUS
<1>4. BatchFits(X, LinkBatch(k, c))
  <2>1. PICK n : n = candidate[k].name /\ n \in Names
    BY NamedRow DEF RowFits
  <2>2. PICK ns, ls : /\ ns = [i \in {c} |-> [type |-> k[1], name |-> n]]
                      /\ ls = [l \in {<<k[2], k[1], c>>} |-> "RESOLVED"]
    OBVIOUS
  <2>3. NodesFit(ns)
    BY <2>1, <2>2 DEF NodesFit
  <2>4. BackedBy(X, <<k[2], k[1], c>>, "RESOLVED")
    <3>1. PICK h : h = Entry(k, Manual(c), "OPERATOR")
      OBVIOUS
    <3>2. h.key = k /\ h.cid = c /\ h.status = "RESOLVED" /\ h \in X
      BY <1>3, <3>1 DEF Entry, Manual, Row
    <3> QED
      BY <3>2 DEF BackedBy
  <2>5. LinksFit(X, ls)
    BY <2>2, <2>4 DEF LinksFit
  <2> QED
    BY <2>1, <2>2, <2>3, <2>5 DEF BatchFits, LinkBatch, Batch
<1>5. BatchesFit(X, batches)
  BY <1>4, OneBatch, TwoBatches
<1>6. PICK ln, o, pr : ln = linking' /\ o = Owner(HandleOfKey(k)) /\ pr = Before(k)
  OBVIOUS
<1>7. /\ ln = [key |-> k, cid |-> c, owner |-> o, prev |-> pr, batches |-> batches,
               decision |-> decision]
      /\ o \in {None, c} /\ PrevFits(pr)
  BY <1>6, NamedRow DEF StartLink, LinkOpen, FreeFor
<1>8. LinkFits(Grounds, candidate, ln)
  <2>1. /\ ln.key = k /\ ln.cid = c /\ ln.owner = o /\ ln.prev = pr /\ ln.batches = batches
        /\ ln.decision = decision
    BY <1>7
  <2> QED
    BY <1>3, <1>5, <1>7, <2>1, NamedRow DEF LinkFits
<1>9. LinkFits(Grounds', candidate', linking')
  BY <1>1, <1>6, <1>8 DEF Grounds
<1> QED
  BY <1>1, <1>2, <1>9, Kept

RowLinked(C, k, c) == [C EXCEPT ![k].status = "RESOLVED", ![k].cid = c]

LEMMA ManualRow ==
  ASSUME NEW C, NEW k \in DOMAIN C, RowFits(C[k]), NEW c
  PROVE  RowLinked(C, k, c) = Extend(C, k, Restated(C[k], "RESOLVED", c))
<1>1. PICK s : s = "RESOLVED"
  OBVIOUS
<1>2. [C EXCEPT ![k].status = s, ![k].cid = c] = Extend(C, k, Restated(C[k], s, c))
  BY LinkedRow
<1> QED
  BY <1>1, <1>2 DEF RowLinked

(* A link is committed: the handle it moves, if it moves one, it had seen  *)
(* free or leading where it leads now.                                     *)
LEMMA FinishLinkKeeps ==
  ASSUME RInv, FinishLink, NEW k, k = linking.key, NEW c, c = linking.cid
  PROVE  /\ RInv' /\ RowsKept /\ MovedWithReason /\ k \in NamedKeys
         /\ Writes(k, "RESOLVED", c) /\ InTrail(history', k, "RESOLVED", c)
         /\ Decides(linking.decision, k, c) /\ PrevFits(linking.prev)
<1>1. /\ linking # None /\ linking' = None
      /\ UNCHANGED <<node, link, fetched, pass, asked>>
      /\ handle' = Extend(handle, HandleOfKey(k), c)
      /\ Record(k, Row("RESOLVED", c), "OPERATOR")
  BY DEF FinishLink, Manual
<1>2. /\ k \in DOMAIN candidate /\ k[2] \in Events /\ c # None /\ linking.owner \in {None, c}
      /\ Decides(linking.decision, k, c) /\ PrevFits(linking.prev)
  BY <1>1 DEF RInv, LinkFits
<1>3. k \in NamedKeys
  BY <1>2 DEF NamedKeys
<1>4. PICK r : r = Restated(candidate[k], "RESOLVED", c)
  OBVIOUS
<1>5. Restates(r, candidate[k], "RESOLVED", c) /\ RowFits(r)
  <2>1. "RESOLVED" \in Statuses
    BY DEF Statuses
  <2>2. Restates(Restated(candidate[k], "RESOLVED", c), candidate[k], "RESOLVED", c)
    BY <1>3, <2>1, NamedRow, RestatedRow, Zenon
  <2> QED
    BY <1>4, <2>2 DEF Restates
<1>6. candidate' = Extend(candidate, k, r)
  <2>1. RowFits(candidate[k]) /\ k \in DOMAIN candidate
    BY <1>3, NamedRow
  <2>2. candidate' = RowLinked(candidate, k, c)
    BY Zenon DEF FinishLink, RowLinked
  <2>3. RowLinked(candidate, k, c) = Extend(candidate, k, Restated(candidate[k], "RESOLVED", c))
    BY <2>1, ManualRow, Zenon
  <2> QED
    BY <1>4, <2>2, <2>3, Zenon
<1>7. RowsKept /\ InTrail(history', k, "RESOLVED", c)
  <2>1. Explains(Row("RESOLVED", c), r) /\ "OPERATOR" \in Hands
    BY <1>5 DEF Explains, Row, Restates, Hands
  <2> QED
    BY <1>1, <1>5, <1>6, <2>1, RowRecorded
<1>8. \A w \in writes' : w \in writes \/ BatchesFit(Grounds', w.todo)
  <2>1. PICK w : w = [by |-> Api, todo |-> linking.batches]
    OBVIOUS
  <2>2. writes' \subseteq writes \/ (linking.batches # <<>> /\ writes' \subseteq writes \cup {w})
    BY <2>1 DEF FinishLink, Send
  <2>3. PICK G2 : G2 = Grounds'
    OBVIOUS
  <2>4. ASSUME linking.batches # <<>> PROVE BatchesFit(G2, w.todo)
    <3>1. PICK X : X = Grounds \cup {Entry(k, Manual(c), "OPERATOR")}
      OBVIOUS
    <3>2. BatchesFit(X, linking.batches)
      BY <1>1, <2>4, <3>1 DEF RInv, LinkFits
    <3>3. X \subseteq G2
      <4>1. Grounds \subseteq G2
        BY <1>7, <2>3, GroundsGrow
      <4>2. Entry(k, Manual(c), "OPERATOR") \in history'
        BY <1>1 DEF Record, Manual
      <4>3. history' \subseteq G2
        BY <2>3 DEF Grounds
      <4> QED
        BY <3>1, <4>1, <4>2, <4>3
    <3>4. BatchesFit(G2, linking.batches)
      BY <3>2, <3>3, TrailGrows
    <3> QED
      BY <2>1, <3>4
  <2> QED
    BY <2>2, <2>3, <2>4
<1>9. HandlesLead(handle) /\ HandlesLead(handle')
  <2>1. HandlesLead(handle)
    BY DEF RInv
  <2> QED
    BY <1>1, <1>2, <2>1 DEF HandlesLead, Extend
<1>10. LinkFits(Grounds', candidate', linking')
  BY <1>1 DEF LinkFits
<1>11. RInv'
  BY <1>1, <1>7, <1>8, <1>9, <1>10, Kept
<1>12. ASSUME NEW h \in DOMAIN handle, h \notin DOMAIN handle' \/ handle'[h] # handle[h]
       PROVE  OutOfDate(h)
  <2>1. h = HandleOfKey(k) /\ handle[h] # c
    BY <1>1, <1>12 DEF Extend
  <2>2. handle[h] # None
    BY <1>9 DEF HandlesLead
  <2> QED
    BY <1>1, <1>2, <2>1, <2>2 DEF OutOfDate
<1>13. MovedWithReason
  BY <1>12 DEF MovedWithReason
<1> QED
  BY <1>2, <1>3, <1>5, <1>6, <1>7, <1>11, <1>13 DEF Writes

LEMMA AcceptKeeps ==
  ASSUME RInv, NEW k \in NamedKeys, NEW c, NEW decision, Decides(decision, k, c),
         Accept(k, c, decision)
  PROVE  RInv' /\ RowsKept /\ UNCHANGED handle
<1>1. c # None
  BY DEF Accept, RInv, GraphFits, NodesFit
<1>2. PICK batches : batches = <<LinkBatch(k, c)>> /\ StartLink(k, c, batches, decision)
  BY DEF Accept
<1> QED
  BY <1>1, <1>2, StartLinkKeeps

LEMMA CreatedIdIsAnId ==
  ASSUME RInv, NEW k \in NamedKeys, NEW type \in Roles, NEW organizer,
         organizer \in {None, Page[k[2]].organizer}
  PROVE  CreatedId(type, k, organizer) # None
<1>1. PICK s : s = SlugOf(k) /\ s \in Parts
  <2>1. candidate[k].name \in Names
    BY NamedRow DEF RowFits
  <2> QED
    BY <2>1 DEF SlugOf, Parts
<1>2. Page[k[2]].city \in Parts /\ organizer \in Parts /\ None \in Parts
  <2>1. organizer \in Names \cup {None}
    BY NamedRow, PagesAreOfNames
  <2> QED
    BY <2>1, NamedRow DEF Parts
<1>3. PICK t : /\ t = CASE type = "VENUE"        -> Page[k[2]].city
                        [] type = "EVENT_SERIES" -> organizer
                        [] OTHER                 -> None
               /\ t \in Parts
  BY <1>2
<1>4. CreatedId(type, k, organizer) = Cid(type, <<s, t>>)
  BY <1>1, <1>3 DEF CreatedId
<1> QED
  BY <1>1, <1>3, <1>4, IdsAreIds

(* The node a creation names, with its link or again without it. *)
LEMMA NamedNodeFits ==
  ASSUME RInv, NEW k \in NamedKeys, NEW type, NEW c, c # None
  PROVE  \A G : BatchFits(G, NamedNode(type, k, c))
<1>1. PICK n : n = candidate[k].name /\ n \in Names
  BY NamedRow DEF RowFits
<1>2. PICK b : b = NamedNode(type, k, c)
  OBVIOUS
<1>3. PICK ns : ns = [i \in {c} |-> [type |-> type, name |-> n]] /\ b = Batch(ns, <<>>)
  BY <1>1, <1>2 DEF NamedNode
<1>4. DOMAIN ns = {c} /\ ns[c].name = n
  BY <1>3
<1>5. \A G : BatchFits(G, b)
  BY <1>1, <1>3, <1>4, NodeBatch, Zenon
<1> QED
  BY <1>2, <1>5

LEMMA CreateKeeps ==
  ASSUME RInv, NEW k \in NamedKeys, NEW type \in Roles, NEW organizer, NEW decision,
         \A c : Decides(decision, k, c), CreateEntity(type, k, organizer, decision)
  PROVE  RInv' /\ RowsKept /\ UNCHANGED handle
<1>1. PICK c : c = CreatedId(type, k, organizer) /\ c # None
  <2>1. organizer \in {None, Page[k[2]].organizer}
    BY Zenon DEF CreateEntity, MayCreate
  <2>2. CreatedId(type, k, organizer) # None
    BY <2>1, CreatedIdIsAnId, Zenon
  <2> QED
    BY <2>2, Zenon
<1>2. PICK b : b = NamedNode(type, k, c) /\ \A G : BatchFits(G, b)
  BY <1>1, NamedNodeFits
<1>3. PICK batches : batches = <<LinkBatch(k, c), b>>
  OBVIOUS
<1>4. StartLink(k, c, batches, decision)
  BY <1>1, <1>2, <1>3 DEF CreateEntity
<1> QED
  BY <1>1, <1>2, <1>3, <1>4, StartLinkKeeps

LEMMA CreateAgainKeeps ==
  ASSUME RInv, NEW k \in NamedKeys, NEW type \in Roles, NEW organizer,
         CreateAgain(type, k, organizer)
  PROVE  RInv' /\ RowsKept /\ UNCHANGED handle
<1>1. /\ UNCHANGED <<candidate, history, latest, handle, node, link, fetched, pass, linking>>
      /\ UNCHANGED asked
  BY DEF CreateAgain, loops
<1>2. RowsKept
  BY <1>1, RowsUntouched
<1>3. PICK c : c = CreatedId(type, k, organizer) /\ c # None
  <2>1. organizer \in {None, Page[k[2]].organizer}
    BY Zenon DEF CreateAgain, MayCreate
  <2>2. CreatedId(type, k, organizer) # None
    BY <2>1, CreatedIdIsAnId, Zenon
  <2> QED
    BY <2>2, Zenon
<1>4. PICK b, w : /\ b = NamedNode(type, k, c) /\ (\A G : BatchFits(G, b))
                  /\ w = [by |-> Api, todo |-> <<b>>]
  BY <1>3, NamedNodeFits
<1>5. writes' \subseteq writes \cup {w}
  BY <1>3, <1>4 DEF CreateAgain, Send
<1>6. BatchesFit(Grounds', w.todo)
  BY <1>4, OneBatch
<1> QED
  BY <1>1, <1>2, <1>5, <1>6, Kept

(* What an operator asks of a series is a ground of its own. *)
LEMMA CorrectSeriesKeeps ==
  ASSUME RInv, NEW e \in Events, NEW prev, NEW target, NEW nodes, NodesFit(nodes),
         CorrectSeries(e, prev, target, nodes)
  PROVE  RInv' /\ RowsKept /\ UNCHANGED handle
<1>1. UNCHANGED <<candidate, history, latest, handle, node, link, fetched, pass, linking>>
  BY DEF CorrectSeries, loops
<1>2. asked' = asked \cup {[event |-> e, series |-> i] : i \in {target} \ {None}}
  BY DEF CorrectSeries
<1>3. RowsKept
  BY <1>1, <1>2 DEF RInv, RowsKept
<1>4. PICK G2 : G2 = Grounds'
  OBVIOUS
<1>5. PICK ls : ls = Over(SeriesLink(e, {target}, "RESOLVED"), SeriesLink(e, {prev}, "SUPERSEDED"))
  OBVIOUS
<1>6. LinksFit(G2, ls)
  <2>1. /\ DOMAIN SeriesLink(e, {target}, "RESOLVED")
             = {<<e, "EVENT_SERIES", i>> : i \in {target} \ {None}}
        /\ DOMAIN SeriesLink(e, {prev}, "SUPERSEDED")
             = {<<e, "EVENT_SERIES", i>> : i \in {prev} \ {None}}
        /\ \A l \in DOMAIN SeriesLink(e, {target}, "RESOLVED") :
             SeriesLink(e, {target}, "RESOLVED")[l] = "RESOLVED"
        /\ \A l \in DOMAIN SeriesLink(e, {prev}, "SUPERSEDED") :
             SeriesLink(e, {prev}, "SUPERSEDED")[l] = "SUPERSEDED"
    BY DEF SeriesLink
  <2>2. ASSUME NEW l \in DOMAIN ls
        PROVE  l[3] # None /\ (ls[l] \in Claims => BackedBy(G2, l, ls[l]))
    <3>1. CASE l \in DOMAIN SeriesLink(e, {target}, "RESOLVED")
      <4>1. ls[l] = "RESOLVED"
        BY <1>5, <2>1, <3>1 DEF Over
      <4>2. target # None /\ l = <<e, "EVENT_SERIES", target>>
        BY <2>1, <3>1
      <4>3. PICK x, h : x = [event |-> e, series |-> target] /\ h = Asked(x)
        OBVIOUS
      <4>4. h \in G2
        BY <1>2, <1>4, <4>2, <4>3 DEF Grounds
      <4>5. h.key[2] = e /\ h.key[1] = "EVENT_SERIES" /\ h.cid = target /\ h.status = "RESOLVED"
        BY <4>3 DEF Asked
      <4>6. l[1] = e /\ l[2] = "EVENT_SERIES" /\ l[3] = target
        BY <4>2
      <4>7. BackedBy(G2, l, "RESOLVED")
        BY <4>4, <4>5, <4>6 DEF BackedBy
      <4> QED
        BY <4>1, <4>2, <4>6, <4>7
    <3>2. CASE l \notin DOMAIN SeriesLink(e, {target}, "RESOLVED")
      <4>1. ls[l] = "SUPERSEDED" /\ l \in DOMAIN SeriesLink(e, {prev}, "SUPERSEDED")
        BY <1>5, <2>1, <2>2, <3>2 DEF Over
      <4>2. prev # None /\ l = <<e, "EVENT_SERIES", prev>>
        BY <2>1, <4>1
      <4> QED
        BY <4>1, <4>2 DEF Claims
    <3> QED
      BY <3>1, <3>2
  <2> QED
    BY <2>2 DEF LinksFit
<1>7. PICK b, w : b = Batch(nodes, ls) /\ w = [by |-> Api, todo |-> <<b>>]
  OBVIOUS
<1>8. BatchesFit(G2, w.todo)
  <2>1. BatchFits(G2, b)
    BY <1>6, <1>7 DEF BatchFits, Batch
  <2> QED
    BY <1>7, <2>1, OneBatch
<1>9. writes' \subseteq writes \cup {w}
  BY <1>5, <1>7 DEF CorrectSeries, Send
<1> QED
  BY <1>1, <1>3, <1>4, <1>8, <1>9, Kept

LEMMA SeriesKeep ==
  ASSUME RInv, NEW e \in Events, NEW prev,
         \/ UnlinkSeries(e, prev)
         \/ \E c : LinkSeries(e, prev, c)
         \/ \E n \in SeriesNames : \E o \in {None, Page[e].organizer} : CreateSeries(e, prev, n, o)
  PROVE  RInv' /\ RowsKept /\ UNCHANGED handle
<1>1. NodesFit(<<>>)
  BY DEF NodesFit
<1>2. CASE UnlinkSeries(e, prev) \/ \E c : LinkSeries(e, prev, c)
  <2>1. PICK c : CorrectSeries(e, prev, c, <<>>)
    BY <1>2 DEF UnlinkSeries, LinkSeries
  <2> QED
    BY <1>1, <2>1, CorrectSeriesKeeps
<1>3. ASSUME NEW n \in SeriesNames, NEW o, o \in {None, Page[e].organizer},
             CreateSeries(e, prev, n, o)
      PROVE  RInv' /\ RowsKept /\ UNCHANGED handle
  <2>1. n \in Names /\ n \in Parts /\ o \in Parts /\ "EVENT_SERIES" \in Roles
    BY <1>3, IdsAreIds, PagesAreOfNames DEF Parts, Roles
  <2>2. PICK c : c = Cid("EVENT_SERIES", <<n, o>>) /\ c # None
    <3>1. None \notin {<<"EVENT_SERIES", n>>, Cid("EVENT_SERIES", <<n>>),
                       Cid("EVENT_SERIES", <<n, o>>)}
      BY <2>1, IdsAreIds, Zenon
    <3> QED
      BY <3>1
  <2>3. PICK ns : ns = [i \in {c} |-> [type |-> "EVENT_SERIES", name |-> n]]
    OBVIOUS
  <2>4. NodesFit(ns)
    BY <2>1, <2>2, <2>3 DEF NodesFit
  <2>5. CorrectSeries(e, prev, c, ns)
    BY <1>3, <2>2, <2>3 DEF CreateSeries
  <2> QED
    BY <2>4, <2>5, CorrectSeriesKeeps
<1> QED
  BY <1>2, <1>3

(* A command that changes one row alone. *)
LEMMA RewriteKeeps ==
  ASSUME RInv, NEW k \in NamedKeys, NEW row, NEW status, NEW cid,
         NEW logged, Rewrite(k, row, Row(status, logged)),
         Restates(row, candidate[k], status, cid),
         logged # cid => status = "REJECTED"
  PROVE  /\ RInv' /\ RowsKept /\ UNCHANGED handle
         /\ Writes(k, status, cid) /\ InTrail(history', k, status, logged)
<1>1. PICK C : C = candidate /\ k \in DOMAIN C
  BY DEF NamedKeys
<1>2. candidate' = [C EXCEPT ![k] = row]
  BY <1>1 DEF Rewrite
<1>3. candidate' = Extend(C, k, row)
  BY <1>1, <1>2, RewrittenRow
<1>4. RowFits(row) /\ Explains(Row(status, logged), row)
  BY DEF Restates, Explains, Row
<1>5. RowsKept /\ InTrail(history', k, status, logged)
  <2>1. candidate' = Extend(candidate, k, row) /\ Record(k, Row(status, logged), "OPERATOR")
    BY <1>1, <1>3 DEF Rewrite
  <2>2. "OPERATOR" \in Hands /\ UNCHANGED asked
    BY DEF Rewrite, Hands
  <2> QED
    BY <1>4, <2>1, <2>2, RowRecorded
<1>6. UNCHANGED <<handle, node, link, writes, fetched, pass, linking>>
  BY DEF Rewrite, loops
<1>7. RInv'
  BY <1>5, <1>6, Kept
<1> QED
  BY <1>1, <1>3, <1>5, <1>6, <1>7 DEF Writes

LEMMA RejectKeeps ==
  ASSUME RInv, NEW k \in NamedKeys, Reject(k)
  PROVE  /\ RInv' /\ RowsKept
         /\ Writes(k, "REJECTED", candidate[k].cid) /\ UNCHANGED handle
<1>1. PICK q, c : q = [candidate[k] EXCEPT !.status = "REJECTED"] /\ c = candidate[k].cid
  OBVIOUS
<1>2. "REJECTED" \in Statuses
  BY DEF Statuses
<1>3. Restates([candidate[k] EXCEPT !.status = "REJECTED"], candidate[k], "REJECTED",
               candidate[k].cid)
  BY <1>2, NamedRow, RestatedRow, Zenon
<1>4. Restates(q, candidate[k], "REJECTED", c) /\ Rewrite(k, q, Row("REJECTED", None))
  BY <1>1, <1>3 DEF Reject
<1> QED
  BY <1>1, <1>4, RewriteKeeps

LEMMA MarkUnresolvedKeeps ==
  ASSUME RInv, NEW k \in NamedKeys, MarkUnresolved(k)
  PROVE  /\ RInv' /\ RowsKept
         /\ Writes(k, "UNRESOLVED", None) /\ UNCHANGED handle
<1>1. PICK q : q = Restated(candidate[k], "UNRESOLVED", None)
  OBVIOUS
<1>2. "UNRESOLVED" \in Statuses
  BY DEF Statuses
<1>3. Restates(q, candidate[k], "UNRESOLVED", None)
  BY <1>1, <1>2, NamedRow, RestatedRow, Zenon
<1>4. Rewrite(k, q, Row("UNRESOLVED", None))
  BY <1>1 DEF MarkUnresolved, Restated
<1> QED
  BY <1>3, <1>4, RewriteKeeps

(* Three of the corrections only unresolve a row, keeping or dropping its  *)
(* id; the fourth resolves it to a canonical some row of its role has.     *)
LEMMA CorrectionKeeps ==
  ASSUME RInv, NEW k \in NamedKeys, NEW status \in Statuses, NEW c, NEW row,
         Correction(k, row),
         \/ row = Corrected(k, status, c)
         \/ row = [Corrected(k, status, c) EXCEPT !.multiRole = TRUE]
  PROVE  /\ RInv' /\ RowsKept
         /\ Writes(k, status, c) /\ InTrail(history', k, status, c) /\ UNCHANGED handle
<1>1. PICK r, t : r = candidate[k] /\ t = TRUE
  OBVIOUS
<1>2. RowFits(r)
  BY <1>1, NamedRow
<1>3. /\ Restates([r EXCEPT !.status = status, !.cid = c, !.corrected = t], r, status, c)
      /\ Restates([[r EXCEPT !.status = status, !.cid = c, !.corrected = t]
                    EXCEPT !.multiRole = t], r, status, c)
  BY <1>2, EditedRow, Zenon
<1>4. PICK d : d = Corrected(k, status, c) /\ d = [r EXCEPT !.status = status, !.cid = c,
                                                          !.corrected = t]
  BY <1>1 DEF Corrected
<1>5. row = d \/ row = [d EXCEPT !.multiRole = t]
  BY <1>1, <1>4
<1>6. Restates(row, candidate[k], status, c)
  BY <1>1, <1>3, <1>4, <1>5, Zenon
<1>7. row.status = status /\ row.cid = c
  BY <1>6 DEF Restates
<1>8. Rewrite(k, row, Row(status, c))
  BY <1>7 DEF Correction
<1> QED
  BY <1>6, <1>8, RewriteKeeps

LEMMA UnresolvingKeeps ==
  ASSUME RInv, NEW k \in NamedKeys, ConfirmMultiRole(k) \/ RequeueResolution(k) \/ RejectMatch(k)
  PROVE  /\ RInv' /\ RowsKept /\ UNCHANGED handle
         /\ Writes(k, "UNRESOLVED", candidate[k].cid) \/ Writes(k, "UNRESOLVED", None)
<1>0. "UNRESOLVED" \in Statuses
  BY DEF Statuses
<1>1. PICK c : c = candidate[k].cid
  OBVIOUS
<1>2. CASE ConfirmMultiRole(k)
  <2>1. PICK row : row = [Corrected(k, "UNRESOLVED", c) EXCEPT !.multiRole = TRUE]
                   /\ Correction(k, row)
    BY <1>1, <1>2 DEF ConfirmMultiRole
  <2> QED
    BY <1>0, <1>1, <2>1, CorrectionKeeps
<1>3. CASE RequeueResolution(k)
  <2>1. PICK row : row = Corrected(k, "UNRESOLVED", c) /\ Correction(k, row)
    BY <1>1, <1>3 DEF RequeueResolution
  <2> QED
    BY <1>0, <1>1, <2>1, CorrectionKeeps
<1>4. CASE RejectMatch(k)
  <2>1. PICK row : row = Corrected(k, "UNRESOLVED", None) /\ Correction(k, row)
    BY <1>4 DEF RejectMatch
  <2> QED
    BY <1>0, <2>1, CorrectionKeeps
<1> QED
  BY <1>2, <1>3, <1>4

LEMMA ConfirmKeeps ==
  ASSUME RInv, NEW k \in NamedKeys, NEW c, ConfirmExistingMatch(k, c)
  PROVE  /\ RInv' /\ RowsKept /\ UNCHANGED handle
         /\ Writes(k, "RESOLVED", c)
<1>1. "RESOLVED" \in Statuses
  BY DEF Statuses
<1>2. PICK row : row = Corrected(k, "RESOLVED", c) /\ Correction(k, row)
  BY DEF ConfirmExistingMatch
<1> QED
  BY <1>1, <1>2, CorrectionKeeps

(* All rows of a canonical are set aside at once. *)
Quarantines(c) ==
  /\ DOMAIN candidate' = DOMAIN candidate
  /\ \A k \in DOMAIN candidate :
       IF candidate[k].cid = c THEN Restates(candidate'[k], candidate[k], "QUARANTINED", c)
       ELSE candidate'[k] = candidate[k]

LEMMA QuarantineKeeps ==
  ASSUME RInv, NEW c, Quarantine(c)
  PROVE  RInv' /\ RowsKept /\ Quarantines(c) /\ UNCHANGED handle
<1>1. PICK C, L, H, C2, L2, H2 :
        /\ C = candidate /\ L = latest /\ H = history
        /\ C2 = candidate' /\ L2 = latest' /\ H2 = history'
  OBVIOUS
<1>2. RowsFit(C) /\ Trail(C, L, H) /\ Signed(H)
  BY <1>1 DEF RInv
<1>3. PICK ks : ks = {k \in DOMAIN C : C[k].cid = c}
  OBVIOUS
<1>4. PICK t : t = TRUE
  OBVIOUS
<1>5. /\ C2 = Over([k \in ks |-> [C[k] EXCEPT !.status = "QUARANTINED", !.corrected = t]], C)
      /\ H2 = H \cup {Entry(k, Row("QUARANTINED", c), "OPERATOR") : k \in ks}
      /\ L2 = Over([k \in ks |-> Row("QUARANTINED", c)], L)
  BY <1>1, <1>3, <1>4 DEF Quarantine
<1>6. "QUARANTINED" \in Statuses
  BY DEF Statuses, NonProduct
<1>7. \A k \in ks : Restates([C[k] EXCEPT !.status = "QUARANTINED", !.corrected = t], C[k],
                             "QUARANTINED", c)
  <2> TAKE k \in ks
  <2>1. PICK r : r = C[k] /\ RowFits(r) /\ r.cid = c
    BY <1>2, <1>3 DEF RowsFit
  <2>2. Restates([r EXCEPT !.status = "QUARANTINED", !.corrected = t], r, "QUARANTINED", r.cid)
    BY <1>6, <2>1, EditedRow, Zenon
  <2> QED
    BY <2>1, <2>2
<1>8. DOMAIN C2 = DOMAIN C /\ DOMAIN L2 = DOMAIN C
  BY <1>2, <1>3, <1>5 DEF Over, Trail
<1>9. ASSUME NEW k \in ks
      PROVE  /\ Restates(C2[k], C[k], "QUARANTINED", c) /\ L2[k] = Row("QUARANTINED", c)
             /\ InTrail(H2, k, "QUARANTINED", c)
  <2>1. C2[k] = [C[k] EXCEPT !.status = "QUARANTINED", !.corrected = t]
    BY <1>5 DEF Over
  <2>2. L2[k] = Row("QUARANTINED", c)
    BY <1>5 DEF Over
  <2>3. Entry(k, Row("QUARANTINED", c), "OPERATOR") \in H2
    BY <1>5
  <2>4. /\ Entry(k, Row("QUARANTINED", c), "OPERATOR").key = k
        /\ Entry(k, Row("QUARANTINED", c), "OPERATOR").status = "QUARANTINED"
        /\ Entry(k, Row("QUARANTINED", c), "OPERATOR").cid = c
    BY DEF Entry, Row
  <2>5. InTrail(H2, k, "QUARANTINED", c)
    BY <2>3, <2>4 DEF InTrail
  <2>6. Restates(C2[k], C[k], "QUARANTINED", c)
    BY <1>7, <2>1
  <2> QED
    BY <2>2, <2>5, <2>6
<1>10. ASSUME NEW k \in DOMAIN C, k \notin ks
       PROVE  C2[k] = C[k] /\ L2[k] = L[k]
  BY <1>2, <1>5, <1>10 DEF Over, Trail
<1>11. RowsFit(C2)
  BY <1>2, <1>8, <1>9, <1>10 DEF RowsFit, Restates
<1>12. H \subseteq H2
  BY <1>5
<1>13. Signed(H2)
  <2>1. \A k : Entry(k, Row("QUARANTINED", c), "OPERATOR").by = "OPERATOR"
    BY DEF Entry
  <2>2. \A h \in H2 : h \in H \/ h.by = "OPERATOR"
    BY <1>5, <2>1
  <2> QED
    BY <1>2, <2>2 DEF Signed, Hands
<1>14. Trail(C2, L2, H2)
  <2>1. ASSUME NEW k \in DOMAIN C
        PROVE  Explains(L2[k], C2[k]) /\ InTrail(H2, k, L2[k].status, L2[k].cid)
    <3>1. CASE k \in ks
      <4>1. L2[k].status = "QUARANTINED" /\ L2[k].cid = c
        BY <1>9, <3>1 DEF Row
      <4>2. C2[k].status = "QUARANTINED" /\ C2[k].cid = c
        BY <1>9, <3>1 DEF Restates
      <4> QED
        BY <1>9, <3>1, <4>1, <4>2 DEF Explains
    <3>2. CASE k \notin ks
      <4>1. Explains(L[k], C[k]) /\ InTrail(H, k, L[k].status, L[k].cid)
        BY <1>2 DEF Trail
      <4> QED
        BY <1>10, <1>12, <3>2, <4>1, TrailGrows
    <3> QED
      BY <3>1, <3>2
  <2> QED
    BY <1>8, <2>1 DEF Trail
<1>15. UNCHANGED <<handle, node, link, writes, fetched, pass, linking, asked>>
  BY DEF Quarantine, loops
<1>16. RowsKept
  BY <1>1, <1>8, <1>11, <1>12, <1>13, <1>14, <1>15 DEF RowsKept
<1>17. RInv'
  BY <1>15, <1>16, Kept
<1>18. Quarantines(c)
  BY <1>1, <1>3, <1>8, <1>9, <1>10 DEF Quarantines
<1> QED
  BY <1>15, <1>16, <1>17, <1>18

(* The one command that moves a handle it has not read. *)
LEMMA ReverseKeeps ==
  ASSUME RInv, NEW k \in NamedKeys, NEW status \in Statuses, NEW c, NEW removeHandle \in BOOLEAN,
         ReverseAccept(k, status, c, removeHandle)
  PROVE  /\ RInv' /\ RowsKept
         /\ Writes(k, status, c) /\ InTrail(history', k, status, c)
         /\ UNCHANGED <<pass, linking>>
         /\ \/ c # None /\ handle' = Extend(handle, HandleOfKey(k), c)
            \/ handle' = Without(handle, HandleOfKey(k))
            \/ UNCHANGED handle
<1>1. PICK C, r : /\ C = candidate /\ k \in DOMAIN C /\ RowFits(C[k])
                  /\ r = Restated(C[k], status, c)
  BY NamedRow DEF NamedKeys
<1>2. Restates(r, C[k], status, c)
  BY <1>1, RestatedRow, Zenon
<1>3. candidate' = Extend(C, k, r)
  <2>1. candidate' = [C EXCEPT ![k].status = status, ![k].cid = c]
    BY <1>1 DEF ReverseAccept
  <2>2. k \in DOMAIN C /\ RowFits(C[k])
    BY <1>1
  <2>3. [C EXCEPT ![k].status = status, ![k].cid = c] = Extend(C, k, Restated(C[k], status, c))
    BY <2>2, LinkedRow
  <2> QED
    BY <1>1, <2>1, <2>3
<1>4. RowsKept /\ InTrail(history', k, status, c)
  <2>1. RowFits(r) /\ Explains(Row(status, c), r)
    BY <1>2 DEF Restates, Explains, Row
  <2>2. candidate' = Extend(candidate, k, r) /\ Record(k, Row(status, c), "OPERATOR")
    BY <1>1, <1>3 DEF ReverseAccept
  <2>3. "OPERATOR" \in Hands /\ UNCHANGED asked
    BY DEF ReverseAccept, Hands
  <2> QED
    BY <2>1, <2>2, <2>3, RowRecorded
<1>5. \/ c # None /\ handle' = Extend(handle, HandleOfKey(k), c)
      \/ handle' = Without(handle, HandleOfKey(k))
      \/ UNCHANGED handle
  BY DEF ReverseAccept
<1>6. HandlesLead(handle')
  <2>1. HandlesLead(handle)
    BY DEF RInv
  <2> QED
    BY <1>5, <2>1 DEF HandlesLead, Extend, Without
<1>7. PICK applied : applied = candidate[k].cid
  OBVIOUS
<1>8. PICK b, w : /\ b = Batch(<<>>, [l \in {<<k[2], k[1], applied>>} |-> "REVERSED"])
                  /\ w = [by |-> Api, todo |-> <<b>>]
  OBVIOUS
<1>9. writes' \subseteq writes \/ (applied # None /\ writes' \subseteq writes \cup {w})
  BY <1>7, <1>8 DEF ReverseAccept, Send
<1>10. ASSUME applied # None, NEW G PROVE BatchesFit(G, w.todo)
  <2>1. b.nodes = <<>> /\ b.links = [l \in {<<k[2], k[1], applied>>} |-> "REVERSED"]
    BY <1>8 DEF Batch
  <2>2. NodesFit(b.nodes)
    BY <2>1 DEF NodesFit
  <2>3. LinksFit(G, b.links)
    BY <1>10, <2>1 DEF LinksFit, Claims
  <2>4. BatchesFit(G, <<b>>)
    BY <2>2, <2>3, OneBatch DEF BatchFits
  <2> QED
    BY <1>8, <2>4
<1>11. \A x \in writes' : x \in writes \/ BatchesFit(Grounds', x.todo)
  BY <1>9, <1>10
<1>12. UNCHANGED <<node, link, fetched, pass, linking>>
  BY DEF ReverseAccept, loops
<1>13. RInv'
  BY <1>4, <1>6, <1>11, <1>12, Kept
<1> QED
  BY <1>1, <1>2, <1>3, <1>4, <1>5, <1>12, <1>13 DEF Writes

LEMMA RegisterKeeps ==
  ASSUME RInv, NEW c, NEW n \in Names, RegisterExternal(c, n),
         \A w \in writes' : w \in writes \/ BatchesFit(Grounds', w.todo)
  PROVE  RInv' /\ RowsKept /\ UNCHANGED handle
<1>1. PICK k, s, f, r :
        /\ k = ExternalKey(c) /\ s = Slug[n] /\ f = FALSE
        /\ r = [status |-> "RESOLVED", cid |-> c, name |-> n, normal |-> s,
                city |-> None, corrected |-> f, multiRole |-> f]
  OBVIOUS
<1>2. RowFits(r) /\ Explains(Row("RESOLVED", c), r)
  BY <1>1 DEF RowFits, IsRow, Statuses, Explains, Row
<1>3. candidate' = Extend(candidate, k, r) /\ Record(k, Row("RESOLVED", c), "EXTERNAL")
  BY <1>1 DEF RegisterExternal, Manual
<1>4. UNCHANGED <<handle, node, link, fetched, pass, linking, asked>> /\ "EXTERNAL" \in Hands
  BY DEF RegisterExternal, loops, Hands
<1>5. RowsKept
  BY <1>2, <1>3, <1>4, RowRecorded
<1>6. RInv'
  BY <1>4, <1>5, Kept
<1> QED
  BY <1>4, <1>5, <1>6

LEMMA ReconcileKeeps ==
  ASSUME RInv, ReconcileGraphArtists
  PROVE  RInv' /\ RowsKept /\ UNCHANGED handle
<1>1. PICK c \in DOMAIN node :
        /\ node[c].name # None /\ RegisterExternal(c, node[c].name) /\ UNCHANGED writes
  BY DEF ReconcileGraphArtists
<1>2. node[c].name \in Names
  BY <1>1 DEF RInv, GraphFits, NodesFit
<1> QED
  BY <1>1, <1>2, RegisterKeeps

LEMMA CreateArtistKeeps ==
  ASSUME RInv, NEW n \in External, CreateArtist(n)
  PROVE  RInv' /\ RowsKept /\ UNCHANGED handle
<1>1. n \in Names /\ "ARTIST" \in Roles
  BY DiscoveriesAreNames DEF Roles, Types
<1>2. PICK c : c = Cid("ARTIST", <<Slug[n]>>) /\ c # None
  <2>1. PICK s : s = Slug[n] /\ s \in Parts
    BY <1>1 DEF Parts
  <2>2. None \notin {<<"ARTIST", s>>, Cid("ARTIST", <<s>>), Cid("ARTIST", <<s, s>>)}
    BY <1>1, <2>1, IdsAreIds
  <2> QED
    BY <2>1, <2>2
<1>3. PICK ns, b, w : /\ ns = [i \in {c} |-> [type |-> "ARTIST", name |-> n]]
                      /\ b = Batch(ns, <<>>) /\ w = [by |-> Api, todo |-> <<b>>]
  OBVIOUS
<1>4. BatchesFit(Grounds', w.todo)
  <2>1. DOMAIN ns = {c} /\ ns[c].name = n
    BY <1>3
  <2>2. BatchFits(Grounds', b)
    BY <1>1, <1>2, <1>3, <2>1, NodeBatch, Zenon
  <2>3. w.todo = <<b>>
    BY <1>3
  <2> QED
    BY <2>2, <2>3, OneBatch
<1>5. RegisterExternal(c, n)
  BY <1>2 DEF CreateArtist
<1>6. writes' \subseteq writes \cup {w}
  BY <1>2, <1>3 DEF CreateArtist, Send
<1> QED
  BY <1>1, <1>4, <1>5, <1>6, RegisterKeeps

-----------------------------------------------------------------------------
(* Decisions. *)

(* What a decision says of itself: the row it is about, what it accepts. *)
LEMMA AcceptNames ==
  ASSUME NEW k, NEW c
  PROVE  /\ AcceptDecision(k, c)[2] = k /\ AcceptDecision(k, c)[3] = c
         /\ Decides(AcceptDecision(k, c), k, c)
<1>1. PICK a : a = <<"ACCEPT_CANDIDATE", k, c>>
  OBVIOUS
<1>2. a[1] = "ACCEPT_CANDIDATE" /\ a[2] = k /\ a[3] = c
  BY <1>1
<1> QED
  BY <1>1, <1>2 DEF AcceptDecision, Decides, Reversible

LEMMA CreateNames ==
  ASSUME NEW k
  PROVE  \A c : Decides(CreateDecision(k), k, c)
<1>1. PICK a : a = <<"CREATE_CANONICAL_ENTITY", k>>
  OBVIOUS
<1>2. a[1] = "CREATE_CANONICAL_ENTITY" /\ a[2] = k
  BY <1>1
<1> QED
  BY <1>1, <1>2 DEF CreateDecision, Decides, Reversible

(* These are not undone in the data. *)
LEMMA OthersStay ==
  ASSUME NEW k, NEW c
  PROVE  \A d \in {RejectDecision(k), UnresolveDecision(k), SeriesDecision(k, c)} : ~Reversible(d)
<1>1. PICK a, b, s : /\ a = <<"REJECT_CANDIDATE", k>> /\ b = <<"MARK_UNRESOLVED", k>>
                     /\ s = <<"CORRECT_EVENT_SERIES", k, c>>
  OBVIOUS
<1>2. a[1] = "REJECT_CANDIDATE" /\ b[1] = "MARK_UNRESOLVED" /\ s[1] = "CORRECT_EVENT_SERIES"
  BY <1>1
<1> QED
  BY <1>1, <1>2 DEF RejectDecision, UnresolveDecision, SeriesDecision, Reversible

LEMMA AppendedFits ==
  ASSUME IInv, RowsKept, NEW d, NEW prev, prev = [status |-> prev.status, cid |-> prev.cid],
         Reversible(d) => prev.status \in Statuses /\ d[2] \in NamedKeys,
         d[1] = "ACCEPT_CANDIDATE" => InTrail(history', d[2], "RESOLVED", d[3]),
         Appended(d, prev)
  PROVE  DecisionsFit(history', candidate', decisions')
<1>1. PICK H, C, H2, C2, D : /\ H = history /\ C = candidate /\ H2 = history' /\ C2 = candidate'
                             /\ D = decisions
  OBVIOUS
<1>2. H \subseteq H2 /\ DOMAIN C \subseteq DOMAIN C2
  BY <1>1 DEF RowsKept
<1>3. DecisionsFit(H2, C2, D)
  BY <1>1, <1>2, DecisionsGrow DEF IInv
<1>4. PICK s, c : prev = [status |-> s, cid |-> c]
  OBVIOUS
<1>5. PICK r : r = [prev |-> prev, reversal |-> "NONE"]
  OBVIOUS
<1>6. r = [prev |-> [status |-> s, cid |-> c], reversal |-> "NONE"]
  BY <1>4, <1>5
<1>7. Reversible(d) => s \in Statuses /\ d[2] \in DOMAIN C2 /\ d[2][2] \in Events
  BY <1>1, <1>2, <1>4 DEF NamedKeys
<1>8. DecisionFits(H2, C2, d, r)
  BY <1>1, <1>6, <1>7 DEF DecisionFits
<1>9. DecisionsFit(H2, C2, Extend(D, d, r))
  BY <1>3, <1>8 DEF DecisionsFit, Extend
<1>10. decisions' = Extend(D, d, r) \/ decisions' = D
  BY <1>1, <1>5 DEF Appended, Note
<1> QED
  BY <1>1, <1>3, <1>9, <1>10

LEMMA UntouchedDecisions ==
  ASSUME IInv, RowsKept, UNCHANGED decisions
  PROVE  DecisionsFit(history', candidate', decisions')
<1>1. PICK H, C, H2, C2 : H = history /\ C = candidate /\ H2 = history' /\ C2 = candidate'
  OBVIOUS
<1>2. H \subseteq H2 /\ DOMAIN C \subseteq DOMAIN C2 /\ DecisionsFit(H, C, decisions)
  BY <1>1 DEF RowsKept, IInv
<1> QED
  BY <1>1, <1>2, DecisionsGrow

(* A decision that may be reversed names the row it is about. *)
LEMMA DecisionNamesRow ==
  ASSUME IInv, NEW d \in DOMAIN decisions, Reversible(d)
  PROVE  d[2] \in NamedKeys /\ decisions[d].prev.status \in Statuses
  BY DEF IInv, DecisionsFit, DecisionFits, NamedKeys

LEMMA StageFits ==
  ASSUME IInv, RowsKept, NEW d \in DOMAIN decisions, NEW stage \in {"NONE", "APPENDED", "MARKED"},
         decisions' = [decisions EXCEPT ![d].reversal = stage]
  PROVE  /\ DecisionsFit(history', candidate', decisions')
         /\ DOMAIN decisions' = DOMAIN decisions
         /\ \A x \in DOMAIN decisions : decisions'[x].prev = decisions[x].prev
<1>1. PICK H, C, H2, C2, D : /\ H = history /\ C = candidate /\ H2 = history' /\ C2 = candidate'
                             /\ D = decisions
  OBVIOUS
<1>2. H \subseteq H2 /\ DOMAIN C \subseteq DOMAIN C2
  BY <1>1 DEF RowsKept
<1>3. DecisionsFit(H2, C2, D)
  BY <1>1, <1>2, DecisionsGrow DEF IInv
<1>4. PICK s, c, v : D[d] = [prev |-> [status |-> s, cid |-> c], reversal |-> v]
  BY <1>1, <1>3 DEF DecisionsFit, DecisionFits
<1>5. PICK r : r = [prev |-> [status |-> s, cid |-> c], reversal |-> stage]
  OBVIOUS
<1>6. [D[d] EXCEPT !.reversal = stage] = r
  BY <1>4, <1>5
<1>7. decisions' = [D EXCEPT ![d] = r]
  BY <1>1, <1>6
<1>8. DecisionFits(H2, C2, d, r) /\ r.prev = D[d].prev
  <2>1. DecisionFits(H2, C2, d, D[d])
    BY <1>1, <1>3 DEF DecisionsFit
  <2> QED
    BY <1>4, <1>5, <2>1 DEF DecisionFits
<1>9. PICK D2 : D2 = decisions' /\ D2 = [D EXCEPT ![d] = r]
  BY <1>7
<1>10. DOMAIN D2 = DOMAIN D /\ D2[d] = r /\ \A x \in DOMAIN D : x # d => D2[x] = D[x]
  BY <1>1, <1>9
<1>11. DecisionsFit(H2, C2, D2)
  BY <1>3, <1>8, <1>10 DEF DecisionsFit
<1>12. \A x \in DOMAIN D : D2[x].prev = D[x].prev
  BY <1>8, <1>10
<1> QED
  BY <1>1, <1>9, <1>10, <1>11, <1>12

LEMMA ReversalKeeps ==
  ASSUME IInv, NEW d \in DOMAIN decisions, ReverseDecision(d)
  PROVE  IInv' /\ RowsKept /\ MovedWithReason
<1>1. RInv' /\ RowsKept /\ MovedWithReason
  <2>1. CASE Reversible(d)
    <3>1. PICK k, s, c : /\ k = d[2] /\ k \in NamedKeys
                         /\ s = decisions[d].prev.status /\ s \in Statuses
                         /\ c = decisions[d].prev.cid
      BY <2>1, DecisionNamesRow
    <3>2. PICK rm \in BOOLEAN : ReverseAccept(k, s, c, rm)
      BY <3>1, <2>1 DEF ReverseDecision
    <3>3. /\ RInv' /\ RowsKept
          /\ \/ c # None /\ handle' = Extend(handle, HandleOfKey(k), c)
             \/ handle' = Without(handle, HandleOfKey(k))
             \/ UNCHANGED handle
      BY <3>1, <3>2, ReverseKeeps DEF IInv
    <3>4. PICK h2, H, H2 : h2 = HandleOfKey(k) /\ H = handle /\ H2 = handle'
      OBVIOUS
    <3>5. \A h \in DOMAIN H : (h \notin DOMAIN H2 \/ H2[h] # H[h]) =>
                                h = h2 /\ (h \in DOMAIN H2 => H2[h] = c)
      <4>1. H2 = Extend(H, h2, c) \/ H2 = Without(H, h2) \/ H2 = H
        BY <3>3, <3>4
      <4> QED
        BY <4>1 DEF Extend, Without
    <3>6. Reversible(d) /\ HandleOfKey(d[2]) = h2 /\ decisions[d].prev.cid = c
      BY <3>1, <2>1, <3>4
    <3> QED
      BY <3>3, <3>4, <3>5, <3>6 DEF MovedWithReason
  <2>2. CASE ~Reversible(d)
    <3>1. /\ UNCHANGED <<candidate, history, latest, handle, node, link, writes>>
          /\ UNCHANGED <<fetched, pass, linking, asked>>
      BY <2>2 DEF ReverseDecision, loops
    <3>2. RowsKept
      BY <3>1, RowsUntouched DEF IInv
    <3>3. RInv'
      BY <3>1, <3>2, Kept DEF IInv
    <3> QED
      BY <3>1, <3>2, <3>3, NoneMoved
  <2> QED
    BY <2>1, <2>2
<1>2. PICK stage \in {"NONE", "APPENDED", "MARKED"} :
        decisions' = [decisions EXCEPT ![d].reversal = stage]
  BY DEF ReverseDecision
<1>3. DecisionsFit(history', candidate', decisions')
  BY <1>1, <1>2, StageFits
<1> QED
  BY <1>1, <1>3 DEF IInv

LEMMA AcceptAgainKeeps ==
  ASSUME IInv, NEW k \in NamedKeys, NEW c, AcceptAgain(k, c)
  PROVE  IInv' /\ RowsKept /\ UNCHANGED handle
<1>1. /\ UNCHANGED <<candidate, history, latest, handle, node, link, writes>>
      /\ UNCHANGED <<fetched, pass, linking, asked>>
  BY DEF AcceptAgain, loops
<1>2. RowsKept
  BY <1>1, RowsUntouched DEF IInv
<1>3. InTrail(history', k, "RESOLVED", c)
  <2>1. candidate[k].status = "RESOLVED" /\ candidate[k].cid = c /\ k \in DOMAIN candidate
    BY DEF AcceptAgain, AlreadyLinked, NamedKeys
  <2>2. /\ Explains(latest[k], candidate[k])
        /\ InTrail(history, k, latest[k].status, latest[k].cid)
    BY <2>1 DEF IInv, RInv, Trail
  <2>3. latest[k].status = "RESOLVED" /\ latest[k].cid = c
    BY <2>1, <2>2 DEF Explains
  <2> QED
    BY <1>1, <2>2, <2>3
<1>4. DecisionsFit(history', candidate', decisions')
  <2>1. PICK d, prev : d = AcceptDecision(k, c) /\ d[2] = k /\ d[3] = c /\ prev = Before(k)
    BY AcceptNames
  <2>2. Appended(d, prev)
    BY <2>1 DEF AcceptAgain, Appended
  <2>3. PrevFits(prev)
    BY <2>1, NamedRow DEF IInv
  <2> QED
    BY <1>2, <1>3, <2>1, <2>2, <2>3, AppendedFits DEF PrevFits
<1>5. RInv'
  BY <1>1, <1>2, Kept DEF IInv
<1> QED
  BY <1>1, <1>2, <1>4, <1>5 DEF IInv

LEMMA RegistryKeeps ==
  ASSUME IInv, RegistryStep, UNCHANGED decisions
  PROVE  IInv' /\ RowsKept /\ MovedWithReason
<1>0. RInv
  BY DEF IInv
<1>1. RInv' /\ RowsKept /\ MovedWithReason
  <2>1. ASSUME NEW p \in Processes, NEW e \in Events, Fetch(p, e) \/ Begin(p, e)
        PROVE  RInv' /\ RowsKept /\ MovedWithReason
    BY <1>0, <2>1, FetchKeeps, BeginKeeps, NoneMoved
  <2>2. ASSUME NEW p \in Processes,
               ReadTypes(p) \/ DecideMention(p) \/ FinishPass(p) \/ Fail(p) \/ Crash(p)
        PROVE  RInv' /\ RowsKept /\ MovedWithReason
    BY <1>0, <2>2, ReadTypesKeeps, DecideKeeps, FinishPassKeeps, LossKeeps, NoneMoved
  <2>3. ASSUME NEW p \in Processes, RegisterHandle(p)
        PROVE  RInv' /\ RowsKept /\ MovedWithReason
    BY <1>0, <2>3, RegisterHandleKeeps
  <2>4. ASSUME NEW e \in Events, Ingest(e)
        PROVE  RInv' /\ RowsKept /\ MovedWithReason
    BY <1>0, <2>4, IngestKeeps, NoneMoved
  <2>5. CASE GraphWrite \/ GraphWriteFails
    BY <1>0, <2>5, GraphWriteKeeps, GraphWriteFailsKeeps, NoneMoved
  <2> QED
    BY <2>1, <2>2, <2>3, <2>4, <2>5 DEF RegistryStep
<1> QED
  BY <1>1, UntouchedDecisions DEF IInv

(* An operator's command on one row. *)
CommandOn(k) ==
  \/ \E c \in DOMAIN node : AcceptCandidate(k, c) \/ AcceptAgain(k, c)
  \/ \E type \in Roles : CreateCanonicalEntity(type, k)
  \/ RejectCandidate(k) \/ UnresolveCandidate(k)

LEMMA CreationKeeps ==
  ASSUME IInv, NEW k \in NamedKeys, NEW type \in Roles, CreateCanonicalEntity(type, k)
  PROVE  IInv' /\ RowsKept /\ UNCHANGED handle
<1>1. PICK d, prev : /\ d = CreateDecision(k) /\ prev = Before(k)
                     /\ \A c : Decides(d, k, c)
  BY CreateNames
<1>2. PICK organizer :
        \/ CreateEntity(type, k, organizer, d) /\ UNCHANGED decisions
        \/ CreateAgain(type, k, organizer) /\ Appended(d, prev)
  BY <1>1 DEF CreateCanonicalEntity
<1>3. CASE CreateEntity(type, k, organizer, d) /\ UNCHANGED decisions
  <2>1. RInv' /\ RowsKept /\ UNCHANGED handle
    BY <1>1, <1>3, CreateKeeps DEF IInv
  <2> QED
    BY <1>3, <2>1, UntouchedDecisions DEF IInv
<1>4. CASE CreateAgain(type, k, organizer) /\ Appended(d, prev)
  <2>1. RInv' /\ RowsKept /\ UNCHANGED handle
    BY <1>4, CreateAgainKeeps DEF IInv
  <2>2. PrevFits(prev)
    BY <1>1, NamedRow DEF IInv
  <2>3. d[2] = k /\ d[1] # "ACCEPT_CANDIDATE"
    <3>1. PICK a : a = <<"CREATE_CANONICAL_ENTITY", k>>
      OBVIOUS
    <3>2. a[1] = "CREATE_CANONICAL_ENTITY" /\ a[2] = k
      BY <3>1
    <3> QED
      BY <1>1, <3>1, <3>2 DEF CreateDecision
  <2> QED
    BY <1>4, <2>1, <2>2, <2>3, AppendedFits DEF IInv, PrevFits
<1> QED
  BY <1>2, <1>3, <1>4

LEMMA CommandsKeep ==
  ASSUME IInv, NEW k \in NamedKeys, CommandOn(k)
  PROVE  IInv' /\ RowsKept /\ UNCHANGED handle
<1>0. RInv
  BY DEF IInv
<1>1. PICK prev : prev = Before(k) /\ PrevFits(prev)
  BY <1>0, NamedRow
<1>2. ASSUME NEW c \in DOMAIN node, AcceptCandidate(k, c)
      PROVE  IInv' /\ RowsKept /\ UNCHANGED handle
  <2>1. PICK d : d = AcceptDecision(k, c) /\ Decides(d, k, c)
    BY AcceptNames
  <2>2. RInv' /\ RowsKept /\ UNCHANGED handle
    BY <1>0, <1>2, <2>1, AcceptKeeps DEF AcceptCandidate
  <2>3. UNCHANGED decisions
    BY <1>2 DEF AcceptCandidate
  <2> QED
    BY <2>2, <2>3, UntouchedDecisions DEF IInv
<1>3. ASSUME NEW c \in DOMAIN node, AcceptAgain(k, c)
      PROVE  IInv' /\ RowsKept /\ UNCHANGED handle
  BY <1>3, AcceptAgainKeeps
<1>4. ASSUME NEW type \in Roles, CreateCanonicalEntity(type, k)
      PROVE  IInv' /\ RowsKept /\ UNCHANGED handle
  BY <1>4, CreationKeeps
<1>5. CASE RejectCandidate(k)
  <2>1. RInv' /\ RowsKept /\ UNCHANGED handle
    BY <1>0, <1>5, RejectKeeps DEF RejectCandidate
  <2>2. PICK d : d = RejectDecision(k) /\ ~Reversible(d)
    BY OthersStay
  <2>3. Appended(d, prev) /\ d[1] # "ACCEPT_CANDIDATE"
    BY <1>1, <1>5, <2>2 DEF RejectCandidate, Reversible
  <2> QED
    BY <1>1, <2>1, <2>2, <2>3, AppendedFits DEF IInv, PrevFits
<1>6. CASE UnresolveCandidate(k)
  <2>1. RInv' /\ RowsKept /\ UNCHANGED handle
    BY <1>0, <1>6, MarkUnresolvedKeeps DEF UnresolveCandidate
  <2>2. PICK d : d = UnresolveDecision(k) /\ ~Reversible(d)
    BY OthersStay
  <2>3. Appended(d, prev) /\ d[1] # "ACCEPT_CANDIDATE"
    BY <1>1, <1>6, <2>2 DEF UnresolveCandidate, Reversible
  <2> QED
    BY <1>1, <2>1, <2>2, <2>3, AppendedFits DEF IInv, PrevFits
<1> QED
  BY <1>2, <1>3, <1>4, <1>5, <1>6 DEF CommandOn

LEMMA LinkCommittedKeeps ==
  ASSUME IInv, LinkCommitted
  PROVE  IInv' /\ RowsKept /\ MovedWithReason
<1>1. PICK k, c, d, prev :
        k = linking.key /\ c = linking.cid /\ d = linking.decision /\ prev = linking.prev
  OBVIOUS
<1>2. /\ RInv' /\ RowsKept /\ MovedWithReason /\ k \in NamedKeys
      /\ InTrail(history', k, "RESOLVED", c) /\ Decides(d, k, c) /\ PrevFits(prev)
  BY <1>1, FinishLinkKeeps DEF IInv, LinkCommitted
<1>3. Appended(d, prev)
  BY <1>1 DEF LinkCommitted
<1>4. DecisionsFit(history', candidate', decisions')
  BY <1>2, <1>3, AppendedFits DEF PrevFits, Decides
<1> QED
  BY <1>2, <1>4 DEF IInv

LEMMA SeriesCorrectionKeeps ==
  ASSUME IInv, NEW e \in Events, CorrectEventSeries(e)
  PROVE  IInv' /\ RowsKept /\ UNCHANGED handle
<1>1. PICK prev, c :
        /\ \/ LinkSeries(e, prev, c)
           \/ UnlinkSeries(e, prev)
           \/ \E n \in SeriesNames : \E o \in {None, Page[e].organizer} : CreateSeries(e, prev, n, o)
        /\ Appended(SeriesDecision(e, c), Row(None, None))
  BY DEF CorrectEventSeries
<1>2. RInv' /\ RowsKept /\ UNCHANGED handle
  BY <1>1, SeriesKeep DEF IInv
<1>3. PICK d : d = SeriesDecision(e, c) /\ ~Reversible(d)
  BY OthersStay
<1>4. PICK r : r = [status |-> None, cid |-> None]
  OBVIOUS
<1>5. d[1] # "ACCEPT_CANDIDATE" /\ Appended(d, r)
  BY <1>1, <1>3, <1>4 DEF Reversible, Row
<1>6. r = [status |-> r.status, cid |-> r.cid]
  BY <1>4
<1> QED
  BY <1>2, <1>3, <1>5, <1>6, AppendedFits DEF IInv

LEMMA CorrectKeeps ==
  ASSUME IInv, Correct
  PROVE  IInv' /\ RowsKept /\ UNCHANGED handle
<1>0. RInv
  BY DEF IInv
<1>1. RInv' /\ RowsKept /\ UNCHANGED handle
  <2>1. ASSUME NEW k \in NamedKeys, ConfirmMultiRole(k) \/ RequeueResolution(k) \/ RejectMatch(k)
        PROVE  RInv' /\ RowsKept /\ UNCHANGED handle
    BY <1>0, <2>1, UnresolvingKeeps
  <2>2. ASSUME NEW k \in NamedKeys, NEW c, ConfirmExistingMatch(k, c)
        PROVE  RInv' /\ RowsKept /\ UNCHANGED handle
    BY <1>0, <2>2, ConfirmKeeps
  <2>3. ASSUME NEW c, Quarantine(c)
        PROVE  RInv' /\ RowsKept /\ UNCHANGED handle
    BY <1>0, <2>3, QuarantineKeeps
  <2> QED
    BY <2>1, <2>2, <2>3 DEF Correct, MarkWrongType
<1>2. UNCHANGED decisions
  BY DEF Correct
<1> QED
  BY <1>1, <1>2, UntouchedDecisions DEF IInv

LEMMA DiscoveryKeeps ==
  ASSUME IInv, Discovery
  PROVE  IInv' /\ RowsKept /\ UNCHANGED handle
<1>1. RInv' /\ RowsKept /\ UNCHANGED handle
  BY ReconcileKeeps, CreateArtistKeeps DEF Discovery, IInv
<1>2. UNCHANGED decisions
  BY DEF Discovery
<1> QED
  BY <1>1, <1>2, UntouchedDecisions DEF IInv

LEMMA StepKeeps ==
  ASSUME IInv, [Next]_allVars
  PROVE  IInv' /\ RowsKept /\ MovedWithReason
<1>1. CASE RegistryStep /\ UNCHANGED decisions
  BY <1>1, RegistryKeeps
<1>2. ASSUME NEW k \in NamedKeys, CommandOn(k)
      PROVE  IInv' /\ RowsKept /\ MovedWithReason
  BY <1>2, CommandsKeep, NoneMoved
<1>3. CASE LinkCommitted
  BY <1>3, LinkCommittedKeeps
<1>4. ASSUME NEW e \in Events, CorrectEventSeries(e)
      PROVE  IInv' /\ RowsKept /\ MovedWithReason
  BY <1>4, SeriesCorrectionKeeps, NoneMoved
<1>5. ASSUME NEW d \in DOMAIN decisions, ReverseDecision(d)
      PROVE  IInv' /\ RowsKept /\ MovedWithReason
  BY <1>5, ReversalKeeps
<1>6. CASE Correct
  BY <1>6, CorrectKeeps, NoneMoved
<1>7. CASE Discovery
  BY <1>7, DiscoveryKeeps, NoneMoved
<1>8. CASE UNCHANGED allVars
  <2>1. /\ UNCHANGED <<candidate, history, latest, handle, node, link, writes>>
        /\ UNCHANGED <<fetched, pass, linking, asked, decisions>>
    BY <1>8 DEF allVars, loops
  <2>2. RowsKept
    BY <2>1, RowsUntouched DEF IInv
  <2>3. RInv'
    BY <2>1, <2>2, Kept DEF IInv
  <2>4. DecisionsFit(history', candidate', decisions')
    BY <2>1, <2>2, UntouchedDecisions
  <2> QED
    BY <2>1, <2>2, <2>3, <2>4, NoneMoved DEF IInv
<1> QED
  BY <1>1, <1>2, <1>3, <1>4, <1>5, <1>6, <1>7, <1>8 DEF Next, CommandOn

LEMMA InitFits ==
  ASSUME Init
  PROVE  IInv
<1>1. /\ candidate = <<>> /\ history = {} /\ latest = <<>> /\ handle = <<>>
      /\ writes = {} /\ fetched = [p \in Processes |-> [e \in Events |-> None]]
      /\ pass = [p \in Processes |-> None] /\ linking = None /\ decisions = <<>>
  BY DEF Init, RegistryInit
<1>2. RowsFit(candidate) /\ Trail(candidate, latest, history) /\ Signed(history)
  BY <1>1 DEF RowsFit, Trail, Signed
<1>3. HandlesLead(handle) /\ DecisionsFit(history, candidate, decisions)
  BY <1>1 DEF HandlesLead, DecisionsFit
<1>4. PICK G : G = Grounds
  OBVIOUS
<1>5. FetchedFits(fetched) /\ PassesFit(G, pass) /\ LinkFits(G, candidate, linking)
  BY <1>1 DEF FetchedFits, PassesFit, PassFits, LinkFits
<1>6. GraphFits(G, node, link)
  <2> DEFINE Ids == UNION {DOMAIN Projection(e).nodes : e \in Events}
             First(id) == CHOOSE e \in Events : id \in DOMAIN Projection(e).nodes
  <2>1. /\ node = [id \in Ids |-> Projection(First(id)).nodes[id]]
        /\ link = [l \in UNION {DOMAIN Projection(e).links : e \in Events} |-> None]
    BY DEF Init, RegistryInit
  <2>2. \A e \in Events : NodesFit(Projection(e).nodes)
    BY ProjectionFits DEF BatchFits
  <2>3. \A id \in Ids : First(id) \in Events /\ id \in DOMAIN Projection(First(id)).nodes
    OBVIOUS
  <2>4. NodesFit(node)
    BY <2>1, <2>2, <2>3 DEF NodesFit
  <2>5. ASSUME NEW l \in DOMAIN link
        PROVE  l[3] # None /\ l[3] \in DOMAIN node /\ link[l] = None
    <3>1. PICK e \in Events : l \in DOMAIN Projection(e).links
      BY <2>1
    <3>2. l[3] \in DOMAIN Projection(e).nodes
      BY <3>1, ProjectionFits
    <3>3. l[3] # None
      BY <2>2, <3>2 DEF NodesFit
    <3> QED
      BY <2>1, <3>2, <3>3
  <2>6. LinksFit(G, link)
    BY <2>5, NoneIsNothing DEF LinksFit, Claims
  <2> QED
    BY <2>4, <2>5, <2>6 DEF GraphFits
<1> QED
  BY <1>1, <1>2, <1>3, <1>4, <1>5, <1>6 DEF IInv, RInv

LEMMA Invariance == Spec => []IInv
<1>1. Init => IInv
  BY InitFits
<1>2. IInv /\ [Next]_allVars => IInv'
  BY StepKeeps
<1> QED
  BY <1>1, <1>2, PTL DEF Spec

-----------------------------------------------------------------------------
(* Rows are well formed and each is where its trail says, whatever passes, *)
(* commands, corrections, reversals and crashes came in which order        *)
(* (_persist_candidate, GovernanceService._history).                       *)
THEOREM TrailsExplain == Spec => []TrailExplains
<1>1. IInv => TrailExplains
  <2> SUFFICES ASSUME IInv PROVE TrailExplains
    OBVIOUS
  <2>1. HistoryExplains
    BY DEF IInv, RInv, Trail, Explains, HistoryExplains
  <2>2. \A k \in DOMAIN candidate : candidate[k].status \in Statuses /\ candidate[k].name \in Names
    BY DEF IInv, RInv, RowsFit, RowFits
  <2>3. \A p \in Processes : pass[p] # None => \A m \in pass[p].todo : m.event = pass[p].event
    BY DEF IInv, RInv, PassesFit, PassFits, MentionFits
  <2>4. \A d \in DOMAIN decisions : decisions[d].reversal \in {"NONE", "APPENDED", "MARKED"}
    BY DEF IInv, DecisionsFit, DecisionFits
  <2>5. DOMAIN latest = DOMAIN candidate
    BY DEF IInv, RInv, Trail
  <2>6. /\ \A h \in DOMAIN handle : handle[h] # None
        /\ \A e \in history : e.by \in Processes \cup {"OPERATOR", "EXTERNAL"}
    BY DEF IInv, RInv, HandlesLead, Signed, Hands
  <2>7. linking # None => linking.key \in NamedKeys
    BY DEF IInv, RInv, LinkFits, NamedKeys
  <2> QED
    BY <2>1, <2>2, <2>3, <2>4, <2>5, <2>6, <2>7 DEF TrailExplains, TypeOK
<1> QED
  BY <1>1, Invariance, PTL

(* No edge of the graph claims a resolution that neither the registry      *)
(* committed nor, of a series, an operator asked for, whichever batches are*)
(* lost, halved, late or out of order (_write_graph, correct_series,       *)
(* GovernanceService's graph writes).                                      *)
THEOREM EdgesAreDecided == Spec => []EdgesHaveDecisions
<1>1. IInv => EdgesHaveDecisions
  <2> SUFFICES ASSUME IInv, NEW l \in DOMAIN link, link[l] \in Claims
               PROVE  \/ \E h \in history : /\ h.key[2] = l[1] /\ h.key[1] = l[2]
                                            /\ h.cid = l[3] /\ h.status = link[l]
                      \/ /\ l[2] = "EVENT_SERIES" /\ link[l] = "RESOLVED"
                         /\ \E x \in asked : x.event = l[1] /\ x.series = l[3]
    BY DEF EdgesHaveDecisions, Claims
  <2>1. PICK h \in Grounds : /\ h.key[2] = l[1] /\ h.key[1] = l[2]
                             /\ h.cid = l[3] /\ h.status = link[l]
    BY DEF IInv, RInv, GraphFits, LinksFit, BackedBy
  <2>2. CASE h \in history
    BY <2>1, <2>2
  <2>3. CASE h \in {Asked(x) : x \in asked}
    <3>1. PICK x \in asked : h = Asked(x)
      BY <2>3
    <3>2. /\ h.key[2] = x.event /\ h.key[1] = "EVENT_SERIES"
          /\ h.cid = x.series /\ h.status = "RESOLVED"
      BY <3>1 DEF Asked
    <3> QED
      BY <2>1, <3>2
  <2> QED
    BY <2>1, <2>2, <2>3 DEF Grounds
<1> QED
  BY <1>1, Invariance, PTL

(* Every accept the gateway holds a decision for was made in crawl, whether*)
(* its answer arrived, was lost or was asked for again (_execute).         *)
THEOREM DecisionsStayBacked == Spec => []DecisionsAreBacked
<1>1. IInv => DecisionsAreBacked
  BY DEF IInv, DecisionsFit, DecisionFits, InTrail, DecisionsAreBacked
<1> QED
  BY <1>1, Invariance, PTL

(* Of any number of processes and passes between whose transactions others *)
(* write, none re-points a handle it has seen where it stands; only the    *)
(* reversal of a decision leads it elsewhere, back to where the decision   *)
(* found it (HANDLE_ALREADY_LINKED, the handle first in every resolver).   *)
THEOREM HandlesStayPut == Spec => SeenHandlesStay
<1>1. IInv /\ [Next]_allVars =>
        [\A h \in DOMAIN handle :
           (h \notin DOMAIN handle' \/ handle'[h] # handle[h]) =>
             \/ OutOfDate(h)
             \/ \E d \in DOMAIN decisions :
                  /\ Reversible(d) /\ HandleOfKey(d[2]) = h
                  /\ h \in DOMAIN handle' => handle'[h] = decisions[d].prev.cid]_allVars
  BY StepKeeps DEF MovedWithReason
<1>2. Spec => [][Next]_allVars
  BY PTL DEF Spec
<1> QED
  BY <1>1, <1>2, Invariance, PTL DEF SeenHandlesStay

-----------------------------------------------------------------------------
(* What a canonical is founded on.  A row, a handle, what a pass knows of  *)
(* either and the state a decision would return to all lead to a canonical *)
(* of a name their handle bears, or to where an operator led it.           *)

Linked(H, h, c) ==
  \E x \in H : x.by = "OPERATOR" /\ x.status = "RESOLVED" /\ HandleOfKey(x.key) = h /\ x.cid = c

LinkedTo(H, c) == \E x \in H : x.by = "OPERATOR" /\ x.status = "RESOLVED" /\ x.cid = c

NamedFor(h, c) ==
  \E n \in NamesOf(h[2], h[3]) : /\ c \in Namesakes(h[2], Normal(h[2], n))
                                 /\ h[2] = "ARTIST" => ~Facts[n].ambiguous

Founded(H, h, c) ==
  Linked(H, h, c) \/ (h[2] = "VENUE" /\ LinkedTo(H, c)) \/ NamedFor(h, c)

Sound(H, h, status, c) == status = "RESOLVED" \/ c # None => Founded(H, h, c)

(* The key of a mention's row is made of the mention; the others are of    *)
(* artists found outside the sources.                                      *)
KeyFits(k, r) ==
  \/ /\ k[1] \in Roles /\ k[2] \in Events /\ k[3] = Tag(k[1], r.name)
     /\ r.normal = Normal(k[1], r.name) /\ r.city = Page[k[2]].city
  \/ k[1] = "ARTIST" /\ k[2] = "external_discovery"

KeysFit(C) == \A k \in DOMAIN C : KeyFits(k, C[k])

RowsFounded(H, C) ==
  \A k \in DOMAIN C : k[2] \in Events => Sound(H, HandleOfKey(k), C[k].status, C[k].cid)

HandlesFounded(H, hs) == \A h \in DOMAIN hs : Founded(H, h, hs[h])

PrevsFounded(H, D) ==
  \A d \in DOMAIN D :
    Reversible(d) => Sound(H, HandleOfKey(d[2]), D[d].prev.status, D[d].prev.cid)

(* A venue a pass knows by name is of a name a chain of slugs and normal   *)
(* forms leads to, or one an operator linked.                              *)
VenueFounded(H, v) ==
  \/ LinkedTo(H, v[2])
  \/ \E m \in Names : /\ Normal("VENUE", m) = v[1]
                      /\ \E n \in Kin[m] : v[2] \in Namesakes("VENUE", Normal("VENUE", n))

PassFounded(H, p) ==
  p # None =>
    /\ HandlesFounded(H, p.known.handles)
    /\ \A v \in p.known.venues : VenueFounded(H, v)
    /\ p.resolved # None => Founded(H, HandleOf(p.resolved.mention), p.resolved.cid)

PassesFounded(H, P) == \A p \in Processes : PassFounded(H, P[p])

LinkingFounded(H, ln) == ln # None => Sound(H, HandleOfKey(ln.key), ln.prev.status, ln.prev.cid)

FInv ==
  /\ KeysFit(candidate) /\ RowsFounded(history, candidate)
  /\ HandlesFounded(history, handle) /\ PrevsFounded(history, decisions)
  /\ PassesFounded(history, pass) /\ LinkingFounded(history, linking)

LEMMA FoundationsStay ==
  ASSUME NEW H, NEW H2, H \subseteq H2
  PROVE  /\ \A h, c : Founded(H, h, c) => Founded(H2, h, c)
         /\ \A h, s, c : Sound(H, h, s, c) => Sound(H2, h, s, c)
         /\ \A v : VenueFounded(H, v) => VenueFounded(H2, v)
         /\ \A C : RowsFounded(H, C) => RowsFounded(H2, C)
         /\ \A hs : HandlesFounded(H, hs) => HandlesFounded(H2, hs)
         /\ \A D : PrevsFounded(H, D) => PrevsFounded(H2, D)
         /\ \A p : PassFounded(H, p) => PassFounded(H2, p)
         /\ \A P : PassesFounded(H, P) => PassesFounded(H2, P)
         /\ \A ln : LinkingFounded(H, ln) => LinkingFounded(H2, ln)
<1>1. \A h, c : Linked(H, h, c) => Linked(H2, h, c)
  BY DEF Linked
<1>2. \A c : LinkedTo(H, c) => LinkedTo(H2, c)
  BY DEF LinkedTo
<1>3. \A h, c : Founded(H, h, c) => Founded(H2, h, c)
  BY <1>1, <1>2 DEF Founded
<1>4. \A h, s, c : Sound(H, h, s, c) => Sound(H2, h, s, c)
  BY <1>3 DEF Sound
<1>5. \A v : VenueFounded(H, v) => VenueFounded(H2, v)
  BY <1>2 DEF VenueFounded
<1>6. \A hs : HandlesFounded(H, hs) => HandlesFounded(H2, hs)
  BY <1>3 DEF HandlesFounded
<1>7. \A p : PassFounded(H, p) => PassFounded(H2, p)
  BY <1>3, <1>5, <1>6 DEF PassFounded
<1> QED
  BY <1>3, <1>4, <1>5, <1>6, <1>7 DEF RowsFounded, PrevsFounded, PassesFounded, LinkingFounded

(* What is left to look at after a step that writes rows and trail.        *)
LEMMA StillFounded ==
  ASSUME FInv, RowsKept
  PROVE  /\ RowsFounded(history', candidate) /\ HandlesFounded(history', handle)
         /\ PrevsFounded(history', decisions) /\ PassesFounded(history', pass)
         /\ LinkingFounded(history', linking)
<1>1. PICK H2 : H2 = history' /\ history \subseteq H2
  BY DEF RowsKept
<1>2. /\ RowsFounded(H2, candidate) /\ HandlesFounded(H2, handle) /\ PrevsFounded(H2, decisions)
      /\ PassesFounded(H2, pass) /\ LinkingFounded(H2, linking)
  BY <1>1, FoundationsStay DEF FInv
<1> QED
  BY <1>1, <1>2

LEMMA KeptFounded ==
  ASSUME FInv, RowsKept,
         UNCHANGED candidate \/ (KeysFit(candidate') /\ RowsFounded(history', candidate')),
         UNCHANGED handle \/ HandlesFounded(history', handle'),
         UNCHANGED decisions \/ PrevsFounded(history', decisions'),
         UNCHANGED pass \/ PassesFounded(history', pass'),
         UNCHANGED linking \/ LinkingFounded(history', linking')
  PROVE  FInv'
<1>1. KeysFit(candidate') /\ RowsFounded(history', candidate')
  BY StillFounded DEF FInv
<1>2. /\ HandlesFounded(history', handle') /\ PrevsFounded(history', decisions')
      /\ PassesFounded(history', pass') /\ LinkingFounded(history', linking')
  BY StillFounded
<1> QED
  BY <1>1, <1>2 DEF FInv

LEMMA OnePassFounded ==
  ASSUME NEW H, NEW P, PassesFounded(H, P), DOMAIN P = Processes, NEW p \in Processes, NEW q,
         PassFounded(H, q)
  PROVE  PassesFounded(H, [P EXCEPT ![p] = q])
  BY DEF PassesFounded

(* Names linked by a slug or a normal form have the same kin. *)
LEMMA KinReaches ==
  ASSUME NEW n \in Names
  PROVE  /\ n \in Kin[n]
         /\ \A m \in Names : Alike(n, m) => \A o \in Kin[m] : o \in Kin[n]
<1>1. \A x \in Names :
        Kin[x] = {m \in Names : \A S \in SUBSET Names : x \in S /\ Closed(S) => m \in S}
  BY DEF Kin
<1>2. ASSUME NEW m \in Names, Alike(n, m), NEW o \in Kin[m] PROVE o \in Kin[n]
  <2>1. o \in Names /\ \A S \in SUBSET Names : m \in S /\ Closed(S) => o \in S
    BY <1>1
  <2>2. ASSUME NEW S \in SUBSET Names, n \in S, Closed(S) PROVE o \in S
    <3>1. m \in S
      BY <1>2, <2>2 DEF Closed
    <3> QED
      BY <2>1, <2>2, <3>1
  <2> QED
    BY <1>1, <2>1, <2>2
<1> QED
  BY <1>1, <1>2

(* A venue row, whatever put it where it is, shows a pass no venue that its*)
(* name or an operator did not.                                            *)
LEMMA FoundedVenue ==
  ASSUME NEW H, NEW h, h[2] = "VENUE", NEW n \in Names, h[3] = Tag("VENUE", n),
         NEW v, v[1] = Normal("VENUE", n), Founded(H, h, v[2])
  PROVE  VenueFounded(H, v)
<1>1. CASE Linked(H, h, v[2])
  BY <1>1 DEF Linked, LinkedTo, VenueFounded
<1>2. CASE LinkedTo(H, v[2])
  BY <1>2 DEF VenueFounded
<1>3. CASE NamedFor(h, v[2])
  <2>1. PICK o \in NamesOf("VENUE", h[3]) : v[2] \in Namesakes("VENUE", Normal("VENUE", o))
    BY <1>3 DEF NamedFor
  <2>2. PICK x \in Bearing("VENUE", h[3]) : o \in Kin[x]
    BY DEF NamesOf
  <2>3. x \in Names /\ Alike(n, x)
    BY <2>2 DEF Bearing, Alike
  <2>4. o \in Kin[n]
    BY <2>2, <2>3, KinReaches
  <2> QED
    BY <2>1, <2>4 DEF VenueFounded
<1> QED
  BY <1>1, <1>2, <1>3 DEF Founded

(* One row written. *)
LEMMA RowWrittenFounded ==
  ASSUME FInv, RowsKept, NEW k \in NamedKeys, NEW status, NEW c, Writes(k, status, c),
         Sound(history', HandleOfKey(k), status, c)
  PROVE  KeysFit(candidate') /\ RowsFounded(history', candidate')
<1>1. PICK C, C2, H2 : C = candidate /\ C2 = candidate' /\ H2 = history'
  OBVIOUS
<1>2. KeysFit(C) /\ RowsFounded(H2, C) /\ k \in DOMAIN C
  BY <1>1, StillFounded DEF FInv, NamedKeys
<1>3. PICK r : C2 = Extend(C, k, r) /\ Restates(r, C[k], status, c)
  BY <1>1 DEF Writes
<1>4. DOMAIN C2 = DOMAIN C /\ C2[k] = r /\ \A x \in DOMAIN C : x # k => C2[x] = C[x]
  BY <1>2, <1>3 DEF Extend
<1>5. KeyFits(k, r)
  <2>1. KeyFits(k, C[k])
    BY <1>2 DEF KeysFit
  <2> QED
    BY <1>3, <2>1 DEF KeyFits, Restates
<1>6. KeysFit(C2)
  BY <1>2, <1>4, <1>5 DEF KeysFit
<1>7. Sound(H2, HandleOfKey(k), r.status, r.cid)
  BY <1>1, <1>3 DEF Restates
<1>8. RowsFounded(H2, C2)
  BY <1>2, <1>4, <1>7 DEF RowsFounded
<1> QED
  BY <1>1, <1>6, <1>8

(* The row of a mention keeps what it was founded on. *)
LEMMA NamedRowSound ==
  ASSUME FInv, NEW k \in NamedKeys
  PROVE  Sound(history, HandleOfKey(k), candidate[k].status, candidate[k].cid)
  BY DEF FInv, RowsFounded, NamedKeys

LEMMA RowSoundLater ==
  ASSUME RowsKept, NEW h, NEW status, NEW c, Sound(history, h, status, c)
  PROVE  Sound(history', h, status, c)
<1>1. PICK H2 : H2 = history' /\ history \subseteq H2
  BY DEF RowsKept
<1>2. Sound(H2, h, status, c)
  BY <1>1, FoundationsStay
<1> QED
  BY <1>1, <1>2

(* A decision appended remembers a row that was founded. *)
LEMMA AppendedFounded ==
  ASSUME FInv, RowsKept, NEW d, NEW prev, Appended(d, prev),
         Reversible(d) => Sound(history', HandleOfKey(d[2]), prev.status, prev.cid)
  PROVE  PrevsFounded(history', decisions')
<1>1. PICK H2, D, D2 : H2 = history' /\ D = decisions /\ D2 = decisions'
  OBVIOUS
<1>2. PrevsFounded(H2, D)
  BY <1>1, StillFounded
<1>3. PICK r : r = [prev |-> prev, reversal |-> "NONE"]
  OBVIOUS
<1>4. r.prev = prev
  BY <1>3
<1>5. CASE D2 = Extend(D, d, r)
  <2>1. /\ DOMAIN D2 = DOMAIN D \cup {d} /\ D2[d] = r
        /\ \A x \in DOMAIN D : x # d => D2[x] = D[x]
    BY <1>5 DEF Extend
  <2>2. Reversible(d) => Sound(H2, HandleOfKey(d[2]), r.prev.status, r.prev.cid)
    BY <1>1, <1>4
  <2>3. PrevsFounded(H2, D2)
    BY <1>2, <2>1, <2>2 DEF PrevsFounded
  <2> QED
    BY <1>1, <2>3
<1>6. CASE D2 = D
  BY <1>1, <1>2, <1>6
<1> QED
  BY <1>1, <1>3, <1>5, <1>6 DEF Appended, Note

-----------------------------------------------------------------------------
(* A verdict is founded in what the pass knows. *)

LEMMA PartsOfHandle ==
  ASSUME NEW m
  PROVE  HandleOf(m)[2] = m.role /\ HandleOf(m)[3] = Tag(m.role, m.name)
BY DEF HandleOf

(* A handle bears the name it was made of. *)
LEMMA OwnName ==
  ASSUME NEW role, NEW n \in Names
  PROVE  n \in NamesOf(role, Tag(role, n))
<1>1. n \in Bearing(role, Tag(role, n))
  BY DEF Bearing
<1>2. n \in Kin[n]
  BY KinReaches
<1> QED
  BY <1>1, <1>2 DEF NamesOf

LEMMA OwnNameFounds ==
  ASSUME NEW H, NEW e \in Events, NEW m, MentionFits(m, e),
         m.role = "ARTIST" => ~Facts[m.name].ambiguous,
         NEW c, c = OwnCid(m.role, e, Normal(m.role, m.name))
  PROVE  Founded(H, HandleOf(m), c)
<1>1. PICK h, n, role : h = HandleOf(m) /\ n = m.name /\ role = m.role /\ n \in Names
  BY DEF MentionFits
<1>2. h[2] = role /\ h[3] = Tag(role, n)
  BY <1>1, PartsOfHandle
<1>3. c \in Namesakes(role, Normal(role, n))
  BY <1>1 DEF Namesakes
<1>4. n \in NamesOf(role, h[3])
  BY <1>1, <1>2, OwnName
<1>5. NamedFor(h, c)
  BY <1>1, <1>2, <1>3, <1>4 DEF NamedFor
<1> QED
  BY <1>1, <1>5 DEF Founded

LEMMA ResultParts ==
  ASSUME NEW s, NEW c, NEW score
  PROVE  Result(s, c, score).status = s /\ Result(s, c, score).cid = c
BY DEF Result

LEMMA ArtistFounded ==
  ASSUME NEW H, NEW e \in Events, NEW m, MentionFits(m, e), m.role = "ARTIST", NEW known,
         NEW r \in ResolveArtist(m, known)
  PROVE  Sound(H, HandleOf(m), r.status, r.cid)
<1>1. PICK c : c = Cid("ARTIST", <<Normal("ARTIST", m.name)>>)
  OBVIOUS
<1>2. \/ ~Facts[m.name].ambiguous /\ r.cid = c
      \/ r.status = "AMBIGUOUS" /\ r.cid = None
  <2>1. Facts[m.name].tribute => ~Facts[m.name].ambiguous
    BY NamesHaveFacts DEF MentionFits
  <2>2. \/ ~Facts[m.name].ambiguous /\ \E s, score : r = Result(s, c, score)
        \/ \E score : r = Result("AMBIGUOUS", None, score)
    BY <1>1, <2>1 DEF ResolveArtist
  <2> QED
    BY <2>2, ResultParts
<1>3. c = OwnCid(m.role, e, Normal(m.role, m.name))
  BY <1>1 DEF OwnCid
<1> QED
  BY <1>2, <1>3, OwnNameFounds DEF Sound

LEMMA VenueVerdictFounded ==
  ASSUME NEW H, NEW e \in Events, NEW m, MentionFits(m, e), m.role = "VENUE", NEW known,
         \A v \in known.venues : VenueFounded(H, v), NEW r \in ResolveVenue(m, known)
  PROVE  Sound(H, HandleOf(m), r.status, r.cid)
<1>1. PICK name, c : name = Normal("VENUE", m.name) /\ c = Cid("VENUE", <<name, m.city>>)
  OBVIOUS
<1>2. \/ \E v \in known.venues : v[1] = name /\ r.cid = v[2]
      \/ r.status \in {"AMBIGUOUS", "UNRESOLVED"} /\ r.cid = None
      \/ r.cid = c
  <2>1. \/ \E v \in known.venues : v[1] = name /\ \E s, score : r = Result(s, v[2], score)
        \/ \E score : r = Result("AMBIGUOUS", None, score) \/ r = Result("UNRESOLVED", None, score)
        \/ \E s, score : r = Result(s, c, score)
    BY <1>1 DEF ResolveVenue
  <2> QED
    BY <2>1, ResultParts
<1>3. CASE r.cid = c
  <2>1. c = OwnCid(m.role, e, Normal(m.role, m.name))
    BY <1>1 DEF OwnCid, MentionFits
  <2> QED
    BY <1>3, <2>1, OwnNameFounds DEF Sound
<1>4. ASSUME NEW v \in known.venues, v[1] = name, r.cid = v[2]
      PROVE  Founded(H, HandleOf(m), r.cid)
  <2>1. PICK h, n : h = HandleOf(m) /\ n = m.name /\ n \in Names
    BY DEF MentionFits
  <2>2. h[2] = "VENUE" /\ h[3] = Tag("VENUE", n)
    BY <2>1, PartsOfHandle
  <2>3. VenueFounded(H, v)
    OBVIOUS
  <2>4. CASE LinkedTo(H, v[2])
    BY <1>4, <2>1, <2>2, <2>4 DEF Founded
  <2>5. ASSUME NEW x \in Names, Normal("VENUE", x) = v[1], NEW o \in Kin[x],
               v[2] \in Namesakes("VENUE", Normal("VENUE", o))
        PROVE  Founded(H, h, v[2])
    <3>1. Alike(n, x)
      BY <1>1, <1>4, <2>1, <2>5 DEF Alike
    <3>2. o \in Kin[n]
      BY <2>1, <3>1, KinReaches
    <3>3. n \in Bearing("VENUE", h[3])
      BY <2>1, <2>2 DEF Bearing
    <3>4. o \in NamesOf("VENUE", h[3])
      BY <3>2, <3>3 DEF NamesOf
    <3>5. NamedFor(h, v[2])
      BY <2>2, <2>5, <3>4 DEF NamedFor
    <3> QED
      BY <3>5 DEF Founded
  <2> QED
    BY <1>4, <2>1, <2>3, <2>4, <2>5 DEF VenueFounded
<1> QED
  BY <1>2, <1>3, <1>4 DEF Sound

LEMMA OrganizerFounded ==
  ASSUME NEW H, NEW e \in Events, NEW m, MentionFits(m, e), m.role = "ORGANIZER", NEW known,
         NEW r \in ResolveOrganizer(m, known)
  PROVE  Sound(H, HandleOf(m), r.status, r.cid)
<1>1. PICK c : c = Cid("ORGANIZER", <<Normal("ORGANIZER", m.name)>>)
  OBVIOUS
<1>2. r.cid = c \/ (r.status = "AMBIGUOUS" /\ r.cid = None)
  <2>1. \/ \E s, score : r = Result(s, c, score)
        \/ \E score : r = Result("AMBIGUOUS", None, score)
    BY <1>1 DEF ResolveOrganizer
  <2> QED
    BY <2>1, ResultParts
<1>3. c = OwnCid(m.role, e, Normal(m.role, m.name))
  BY <1>1 DEF OwnCid
<1> QED
  BY <1>2, <1>3, OwnNameFounds DEF Sound

LEMMA SeriesFounded ==
  ASSUME NEW H, NEW e \in Events, NEW m, MentionFits(m, e), m.role = "EVENT_SERIES", NEW known,
         NEW r \in ResolveSeries(m, known)
  PROVE  Sound(H, HandleOf(m), r.status, r.cid)
<1>1. PICK c : c = Cid("EVENT_SERIES", <<Normal("EVENT_SERIES", m.name), m.organizer>>)
  OBVIOUS
<1>2. r.cid = c \/ (r.status = "AMBIGUOUS" /\ r.cid = None)
  <2>1. \/ \E s, score : r = Result(s, c, score)
        \/ \E score : r = Result("AMBIGUOUS", None, score)
    BY <1>1 DEF ResolveSeries
  <2> QED
    BY <2>1, ResultParts
<1>3. c = OwnCid(m.role, e, Normal(m.role, m.name))
  BY <1>1 DEF OwnCid, MentionFits
<1> QED
  BY <1>2, <1>3, OwnNameFounds DEF Sound

LEMMA VerdictFounded ==
  ASSUME NEW H, NEW e \in Events, NEW m, MentionFits(m, e), NEW known,
         HandlesFounded(H, known.handles),
         \A v \in known.venues : VenueFounded(H, v),
         NEW cross, NEW cohort, NEW res \in Decisions(m, cross, known, cohort)
  PROVE  Sound(H, HandleOf(m), res.status, res.cid)
<1>1. m.role \in Roles
  BY DEF MentionFits
<1>2. ASSUME NEW r \in Resolve(m, known)
      PROVE  Sound(H, HandleOf(m), r.status, r.cid)
  <2>1. CASE HandleOf(m) \in DOMAIN known.handles
    <3>1. r.cid = known.handles[HandleOf(m)]
      BY <1>1, <2>1, Resolved
    <3> QED
      BY <2>1, <3>1 DEF Sound, HandlesFounded
  <2>2. CASE HandleOf(m) \notin DOMAIN known.handles
    <3>1. \/ m.role = "ARTIST" /\ r \in ResolveArtist(m, known)
          \/ m.role = "VENUE" /\ r \in ResolveVenue(m, known)
          \/ m.role = "ORGANIZER" /\ r \in ResolveOrganizer(m, known)
          \/ m.role = "EVENT_SERIES" /\ r \in ResolveSeries(m, known)
      BY <1>1, <2>2 DEF Resolve, Roles, Types
    <3> QED
      BY <3>1, ArtistFounded, VenueVerdictFounded, OrganizerFounded, SeriesFounded
  <2> QED
    BY <2>1, <2>2
<1>3. CASE res.cid = None /\ res.status \in {"REVIEW_REQUIRED", "ROLE_CONFLICT"}
  BY <1>3 DEF Sound
<1>4. ASSUME NEW r \in Resolve(m, known), res = ApplyThreshold(m, r)
      PROVE  Sound(H, HandleOf(m), res.status, res.cid)
  <2>1. IsResult(r)
    BY <1>1, Resolved
  <2>2. PICK s, c, score : r = [status |-> s, cid |-> c, score |-> score]
    BY <2>1 DEF IsResult
  <2>3. res = r \/ res = [r EXCEPT !.status = "POSSIBLE_MATCH"]
    BY <1>4 DEF ApplyThreshold
  <2>4. res.cid = c /\ (res.status = s \/ res.status = "POSSIBLE_MATCH")
    BY <2>2, <2>3
  <2>5. Sound(H, HandleOf(m), s, c)
    BY <1>2, <2>2
  <2> QED
    BY <2>4, <2>5 DEF Sound
<1> QED
  BY <1>1, <1>3, <1>4, Decided

-----------------------------------------------------------------------------
(* Steps keep the foundations. *)

LEMMA KeyOfMention ==
  ASSUME NEW e \in Events, NEW m, MentionFits(m, e)
  PROVE  /\ HandleOfKey(KeyOf(m)) = HandleOf(m)
         /\ KeyOf(m)[1] = m.role /\ KeyOf(m)[2] = e /\ KeyOf(m)[3] = Tag(m.role, m.name)
BY DEF KeyOf, HandleOfKey, HandleOf, MentionFits

(* The row a verdict leaves keeps the name it was first seen under: of one *)
(* key all names have one tag.                                             *)
LEMMA PersistedKeyFits ==
  ASSUME RInv, FInv, NEW e \in Events, NEW m, MentionFits(m, e), NEW res, IsResult(res)
  PROVE  KeyFits(KeyOf(m), PersistedRow(m, res))
<1>1. PICK k, r : k = KeyOf(m) /\ r = PersistedRow(m, res)
  OBVIOUS
<1>2. k[1] = m.role /\ k[2] = e /\ k[3] = Tag(m.role, m.name) /\ m.role \in Roles
  BY <1>1, KeyOfMention DEF MentionFits
<1>3. m.name \in Names /\ m.city = Page[e].city
  BY DEF MentionFits
<1>4. /\ r.city = m.city
      /\ k \notin DOMAIN candidate => r.name = m.name /\ r.normal = Normal(m.role, m.name)
      /\ k \in DOMAIN candidate => r.name = candidate[k].name /\ r.normal = candidate[k].normal
  BY <1>1, <1>3, PersistedRowFits
<1>5. CASE k \notin DOMAIN candidate
  BY <1>1, <1>2, <1>3, <1>4, <1>5 DEF KeyFits
<1>6. CASE k \in DOMAIN candidate
  <2>1. KeyFits(k, candidate[k]) /\ k[2] # "external_discovery"
    BY <1>2, <1>6, IdsAreIds DEF FInv, KeysFit
  <2> QED
    BY <1>1, <1>2, <1>3, <1>4, <1>6, <2>1 DEF KeyFits
<1> QED
  BY <1>5, <1>6

(* A verdict teaches the pass nothing: registering its handle does. *)
LEMMA AdvancedPass ==
  ASSUME NEW G, NEW p, p # None, PassFits(G, p), NEW m, NEW res
  PROVE  /\ Advance(p, m, res).known = p.known
         /\ LET r == Advance(p, m, res).resolved
            IN r # None => /\ res.status = "RESOLVED" /\ res.cid # None
                           /\ r.mention = m /\ r.cid = res.cid
<1>1. PICK e, t, x1, x2, x3, c1, c2, ns, ls, r :
        p = [event |-> e, todo |-> t, known |-> [handles |-> x1, names |-> x2, venues |-> x3],
             cross |-> c1, cohort |-> c2, nodes |-> ns, links |-> ls, resolved |-> r]
  BY Zenon DEF PassFits, IsPass
<1>2. PICK kn : kn = [handles |-> x1, names |-> x2, venues |-> x3]
  OBVIOUS
<1>3. p = [event |-> e, todo |-> t, known |-> kn,
           cross |-> c1, cohort |-> c2, nodes |-> ns, links |-> ls, resolved |-> r]
  BY <1>1, <1>2, Zenon
<1>4. PICK r2, ns2, ls2 :
        /\ r2 = IF res.status = "RESOLVED" /\ res.cid # None
                THEN [mention |-> m, cid |-> res.cid] ELSE None
        /\ ns2 = IF InGraph(res) THEN Extend(ns, res.cid, [type |-> m.role, name |-> m.name]) ELSE ns
        /\ ls2 = IF InGraph(res) THEN Extend(ls, <<m.event, m.role, res.cid>>, res.status) ELSE ls
  OBVIOUS
<1>5. Advance(p, m, res) = [p EXCEPT !.todo = t \ {m}, !.resolved = r2, !.nodes = ns2, !.links = ls2]
  BY <1>3, <1>4 DEF Advance
<1>6. PICK q1 : q1 = [p EXCEPT !.todo = t \ {m}]
  OBVIOUS
<1>7. q1 = [event |-> e, todo |-> t \ {m}, known |-> kn, cross |-> c1, cohort |-> c2,
            nodes |-> ns, links |-> ls, resolved |-> r]
  BY <1>3, <1>6
<1>8. PICK q2 : q2 = [q1 EXCEPT !.resolved = r2]
  OBVIOUS
<1>9. q2 = [event |-> e, todo |-> t \ {m}, known |-> kn, cross |-> c1, cohort |-> c2,
            nodes |-> ns, links |-> ls, resolved |-> r2]
  BY <1>7, <1>8
<1>10. PICK q3 : q3 = [q2 EXCEPT !.nodes = ns2]
  OBVIOUS
<1>11. q3 = [event |-> e, todo |-> t \ {m}, known |-> kn, cross |-> c1, cohort |-> c2,
             nodes |-> ns2, links |-> ls, resolved |-> r2]
  BY <1>9, <1>10
<1>12. PICK q : q = [q3 EXCEPT !.links = ls2]
  OBVIOUS
<1>13. q.known = kn /\ q.resolved = r2
  BY <1>11, <1>12
<1>14. Advance(p, m, res) = q /\ p.known = kn
  BY <1>3, <1>5, <1>6, <1>8, <1>10, <1>12
<1>15. r2 # None => /\ res.status = "RESOLVED" /\ res.cid # None
                    /\ r2.mention = m /\ r2.cid = res.cid
  BY <1>4
<1> QED
  BY <1>13, <1>14, <1>15

LEMMA DecideFounds ==
  ASSUME RInv, FInv, RowsKept, NEW p \in Processes, DecideMention(p), UNCHANGED decisions
  PROVE  FInv'
<1>1. pass[p] # None /\ PassFits(Grounds, pass[p]) /\ DOMAIN pass = Processes
  BY DEF RInv, DecideMention, PassesFit
<1>2. PICK m \in pass[p].todo :
        \E res \in Decisions(m, pass[p].cross, pass[p].known, pass[p].cohort) :
          PersistCandidate(p, m, res) /\ pass' = [pass EXCEPT ![p] = Advance(pass[p], m, res)]
  BY DEF DecideMention
<1>3. PICK res : DecidesOn(p, m, res)
  BY <1>2 DEF DecidesOn
<1>4. UNCHANGED <<handle, linking, asked>>
  BY DEF DecideMention
<1>5. PICK e \in Events : MentionFits(m, e)
  BY <1>1, <1>2 DEF PassFits
<1>6. m.role \in Roles /\ m.name \in Names
  BY <1>5 DEF MentionFits
<1>7. IsResult(res)
  BY <1>3, <1>6, Decided DEF DecidesOn
<1>8. PICK k, h, r, s, c : /\ k = KeyOf(m) /\ h = HandleOf(m) /\ r = PersistedRow(m, res)
                           /\ s = res.status /\ c = res.cid
  OBVIOUS
<1>9. HandleOfKey(k) = h
  BY <1>5, <1>8, KeyOfMention
<1>10. PICK q : q = pass[p] /\ q # None /\ PassFounded(history, q)
  BY <1>1 DEF FInv, PassesFounded
<1>11. Sound(history, h, s, c)
  <2>1. PICK known : /\ known = q.known /\ HandlesFounded(history, known.handles)
                     /\ \A v \in known.venues : VenueFounded(history, v)
    BY <1>10 DEF PassFounded
  <2>2. res \in Decisions(m, q.cross, known, q.cohort)
    BY <1>3, <1>10, <2>1 DEF DecidesOn
  <2> QED
    BY <1>5, <1>8, <2>1, <2>2, VerdictFounded
<1>12. PICK H2, C, C2 : H2 = history' /\ C = candidate /\ C2 = candidate' /\ history \subseteq H2
  BY DEF RowsKept
<1>13. Sound(H2, h, s, c) /\ PassFounded(H2, q)
  BY <1>10, <1>11, <1>12, FoundationsStay
<1>14. C2 = Extend(C, k, r)
  BY <1>3, <1>4, <1>6, <1>7, <1>8, <1>12, PersistKeeps DEF DecidesOn
<1>15. DOMAIN C2 = DOMAIN C \cup {k} /\ C2[k] = r /\ \A x \in DOMAIN C : x # k => C2[x] = C[x]
  BY <1>14 DEF Extend
<1>16. r.status = s /\ r.cid = c
  BY <1>6, <1>7, <1>8, PersistedRowFits
<1>17. KeysFit(C2)
  <2>1. KeyFits(k, r)
    BY <1>5, <1>7, <1>8, PersistedKeyFits
  <2> QED
    BY <1>12, <1>15, <2>1 DEF FInv, KeysFit
<1>18. RowsFounded(H2, C2)
  <2>1. RowsFounded(H2, C)
    BY <1>12, StillFounded
  <2>2. ASSUME NEW x \in DOMAIN C2, x[2] \in Events
        PROVE  Sound(H2, HandleOfKey(x), C2[x].status, C2[x].cid)
    <3>1. CASE x = k
      BY <1>9, <1>13, <1>15, <1>16, <3>1
    <3>2. CASE x # k
      BY <1>15, <2>1, <2>2, <3>2 DEF RowsFounded
    <3> QED
      BY <3>1, <3>2
  <2> QED
    BY <2>2 DEF RowsFounded
<1>19. PassFounded(H2, Advance(q, m, res))
  <2>1. PICK q2 : q2 = Advance(q, m, res)
    OBVIOUS
  <2>2. /\ q2.known = q.known
        /\ q2.resolved # None => /\ res.status = "RESOLVED" /\ res.cid # None
                                 /\ q2.resolved.mention = m /\ q2.resolved.cid = res.cid
    BY <1>1, <1>10, <2>1, AdvancedPass
  <2>3. q2.resolved # None => Founded(H2, HandleOf(q2.resolved.mention), q2.resolved.cid)
    BY <1>8, <1>13, <2>2 DEF Sound
  <2> QED
    BY <1>10, <1>13, <2>1, <2>2, <2>3 DEF PassFounded
<1>20. PassesFounded(history', pass')
  <2>1. PassesFounded(H2, pass)
    BY <1>12, StillFounded
  <2>2. PassesFounded(H2, [pass EXCEPT ![p] = Advance(q, m, res)])
    BY <1>1, <1>19, <2>1, OnePassFounded
  <2> QED
    BY <1>3, <1>10, <1>12, <2>2 DEF DecidesOn
<1> QED
  BY <1>4, <1>12, <1>17, <1>18, <1>20, KeptFounded

(* What is registered, the pass knows and the handles tell. *)
LEMMA LearntVenues ==
  ASSUME NEW known, NEW m, NEW c
  PROVE  /\ Learn(known, m, c).handles = Extend(known.handles, HandleOf(m), c)
         /\ \A v \in Learn(known, m, c).venues :
              \/ v \in known.venues
              \/ m.role = "VENUE" /\ v[1] = Normal("VENUE", m.name) /\ v[2] = c
<1>1. PICK x, hs, ns, vs :
        /\ x = <<Normal(m.role, m.name), c, m.city>>
        /\ hs = Extend(known.handles, HandleOf(m), c)
        /\ vs = IF m.role # "VENUE" THEN known.venues ELSE known.venues \cup {x}
        /\ Learn(known, m, c) = [handles |-> hs, names |-> ns, venues |-> vs]
  BY Zenon DEF Learn
<1>2. Learn(known, m, c).handles = hs /\ Learn(known, m, c).venues = vs
  BY <1>1
<1>3. x[1] = Normal(m.role, m.name) /\ x[2] = c
  BY <1>1
<1>4. \A v \in vs : v \in known.venues \/ (m.role = "VENUE" /\ v = x)
  BY <1>1
<1> QED
  BY <1>1, <1>2, <1>3, <1>4, Zenon

LEMMA RegisterHandleFounds ==
  ASSUME RInv, FInv, RowsKept, NEW p \in Processes, RegisterHandle(p), UNCHANGED decisions
  PROVE  FInv'
<1>1. /\ UNCHANGED <<candidate, history, linking>>
      /\ pass[p] # None /\ pass[p].resolved # None
  BY DEF RegisterHandle
<1>2. PICK G, q : /\ G = Grounds /\ PassesFit(G, pass) /\ PassesFounded(history, pass)
                  /\ q = pass[p] /\ q # None /\ PassFits(G, q) /\ PassFounded(history, q)
  BY <1>1 DEF RInv, FInv, PassesFit, PassesFounded
<1>3. PICK m, c, e : /\ m = q.resolved.mention /\ c = q.resolved.cid
                     /\ e \in Events /\ MentionFits(m, e)
  BY <1>1, <1>2 DEF PassFits, ResolvedFits
<1>4. PICK h : h = HandleOf(m) /\ Founded(history, h, c)
  BY <1>1, <1>2, <1>3 DEF PassFounded
<1>5. PICK q2 : q2 = [q EXCEPT !.known = Learn(@, m, c), !.resolved = None]
  OBVIOUS
<1>6. handle' = Extend(handle, h, c) /\ pass' = [pass EXCEPT ![p] = q2]
  BY <1>2, <1>3, <1>4, <1>5 DEF RegisterHandle
<1>7. HandlesFounded(history', handle')
  <2>1. HandlesFounded(history, handle)
    BY DEF FInv
  <2> QED
    BY <1>1, <1>4, <1>6, <2>1 DEF HandlesFounded, Extend
<1>8. PICK kn : kn = q.known /\ HandlesFounded(history, kn.handles)
                /\ \A v \in kn.venues : VenueFounded(history, v)
  BY <1>2 DEF PassFounded
<1>9. PICK k2 : k2 = Learn(kn, m, c)
  OBVIOUS
<1>10. q2.known = k2 /\ q2.resolved = None
  <2>1. Taught(q2, q.known, m, c)
    BY <1>2, <1>5, PassLearns
  <2> QED
    BY <1>8, <1>9, <2>1, Zenon DEF Taught
<1>11. HandlesFounded(history, k2.handles)
  <2>1. k2.handles = Extend(kn.handles, h, c)
    BY <1>4, <1>9, LearntVenues
  <2> QED
    BY <1>4, <1>8, <2>1 DEF HandlesFounded, Extend
<1>12. ASSUME NEW v \in k2.venues PROVE VenueFounded(history, v)
  <2>1. CASE v \in kn.venues
    BY <1>8, <2>1
  <2>2. CASE m.role = "VENUE" /\ v[1] = Normal("VENUE", m.name) /\ v[2] = c
    <3>1. PICK n : n = m.name /\ n \in Names
      BY <1>3 DEF MentionFits
    <3>2. h[2] = "VENUE" /\ h[3] = Tag("VENUE", n)
      BY <1>4, <2>2, <3>1, PartsOfHandle
    <3> QED
      BY <1>4, <2>2, <3>1, <3>2, FoundedVenue
  <2> QED
    BY <1>9, <2>1, <2>2, LearntVenues
<1>13. PassFounded(history, q2)
  BY <1>10, <1>11, <1>12 DEF PassFounded
<1>14. PassesFounded(history', pass')
  <2>1. PassesFounded(history, [pass EXCEPT ![p] = q2])
    BY <1>2, <1>13, OnePassFounded DEF PassesFit
  <2> QED
    BY <1>1, <1>6, <2>1
<1> QED
  BY <1>1, <1>7, <1>14, KeptFounded

LEMMA ReadTypesFounds ==
  ASSUME RInv, FInv, RowsKept, NEW p \in Processes, ReadTypes(p), UNCHANGED decisions
  PROVE  FInv'
<1>1. UNCHANGED <<candidate, history, handle, linking>>
  BY DEF ReadTypes
<1>2. PICK G, q : /\ G = Grounds /\ PassesFit(G, pass) /\ PassesFounded(history, pass)
                  /\ q = pass[p] /\ q # None /\ PassFits(G, q) /\ PassFounded(history, q)
  BY DEF RInv, FInv, PassesFit, PassesFounded, ReadTypes
<1>3. PICK i, q2 : i = CrossTypeIndex /\ q2 = [q EXCEPT !.cross = i]
  OBVIOUS
<1>4. pass' = [pass EXCEPT ![p] = q2]
  BY <1>2, <1>3 DEF ReadTypes
<1>5. PICK e, t, kn, c1, c2, ns, ls, r :
        q = [event |-> e, todo |-> t, known |-> kn, cross |-> c1, cohort |-> c2,
             nodes |-> ns, links |-> ls, resolved |-> r]
  BY <1>2, Zenon DEF PassFits, IsPass
<1>6. q2.known = q.known /\ q2.resolved = q.resolved
  BY <1>3, <1>5
<1>7. PassFounded(history, q2)
  BY <1>2, <1>6 DEF PassFounded
<1>8. PassesFounded(history', pass')
  <2>1. PassesFounded(history, [pass EXCEPT ![p] = q2])
    BY <1>2, <1>7, OnePassFounded DEF PassesFit
  <2> QED
    BY <1>1, <1>4, <2>1
<1> QED
  BY <1>1, <1>8, KeptFounded

LEMMA KnownVenues ==
  ASSUME NEW ms, NEW v \in KnownFor(ms).venues
  PROVE  \E k \in ResolvedKeys : k[1] = "VENUE" /\ v[1] = candidate[k].normal
                                 /\ v[2] = candidate[k].cid
<1>1. PICK hs, ns, rows :
        /\ rows \subseteq ResolvedKeys
        /\ KnownFor(ms) = [handles |-> hs, names |-> ns,
                           venues |-> {<<candidate[k].normal, candidate[k].cid, candidate[k].city>> :
                                         k \in {r \in rows : r[1] = "VENUE"}}]
  BY DEF KnownFor
<1>2. PICK vs : vs = {<<candidate[k].normal, candidate[k].cid, candidate[k].city>> :
                        k \in {r \in rows : r[1] = "VENUE"}}
  OBVIOUS
<1>3. KnownFor(ms).venues = vs
  BY <1>1, <1>2
<1>4. PICK k \in rows : k[1] = "VENUE"
                        /\ v = <<candidate[k].normal, candidate[k].cid, candidate[k].city>>
  BY <1>2, <1>3
<1> QED
  BY <1>1, <1>4

LEMMA BeginFounds ==
  ASSUME RInv, FInv, RowsKept, NEW p \in Processes, NEW e \in Events, Begin(p, e),
         UNCHANGED decisions
  PROVE  FInv'
<1>1. UNCHANGED <<candidate, history, handle, linking>>
  BY DEF Begin
<1>2. ASSUME NEW ms, NEW v \in KnownFor(ms).venues PROVE VenueFounded(history, v)
  <2>1. PICK k \in ResolvedKeys : k[1] = "VENUE" /\ v[1] = candidate[k].normal
                                  /\ v[2] = candidate[k].cid
    BY <1>2, KnownVenues
  <2>2. k \in DOMAIN candidate /\ candidate[k].status = "RESOLVED"
    BY DEF ResolvedKeys
  <2>3. PICK n : n = candidate[k].name /\ n \in Names
    BY <2>2 DEF RInv, RowsFit, RowFits
  <2>4. KeyFits(k, candidate[k])
    BY <2>2 DEF FInv, KeysFit
  <2>5. k[2] \in Events /\ k[3] = Tag("VENUE", n) /\ v[1] = Normal("VENUE", n)
    BY <2>1, <2>3, <2>4 DEF KeyFits
  <2>6. PICK h : h = HandleOfKey(k) /\ h[2] = "VENUE" /\ h[3] = Tag("VENUE", n)
    <3>1. HandleOfKey(k)[2] = k[1] /\ HandleOfKey(k)[3] = k[3]
      BY DEF HandleOfKey
    <3> QED
      BY <2>1, <2>5, <3>1
  <2>7. Founded(history, h, v[2])
    BY <2>1, <2>2, <2>5, <2>6 DEF FInv, RowsFounded, Sound
  <2> QED
    BY <2>3, <2>5, <2>6, <2>7, FoundedVenue
<1>3. ASSUME NEW ms PROVE HandlesFounded(history, KnownFor(ms).handles)
  <2>1. HandlesFounded(history, handle)
    BY DEF FInv
  <2>2. PICK hs : hs = KnownFor(ms).handles /\ DOMAIN hs \subseteq DOMAIN handle
                  /\ \A h \in DOMAIN hs : hs[h] = handle[h]
    BY KnownHandles
  <2> QED
    BY <2>1, <2>2 DEF HandlesFounded
<1>4. DOMAIN pass = Processes /\ PassesFounded(history, pass)
  BY DEF RInv, FInv, PassesFit
<1>5. PICK ms, kn : ms = Extract(fetched[p][e]) /\ kn = KnownFor(ms)
  OBVIOUS
<1>6. PICK q : /\ pass' = [pass EXCEPT ![p] = q]
               /\ \/ q = None
                  \/ \E c : q = [event |-> e, todo |-> ms, known |-> kn, cross |-> None,
                                 cohort |-> c, nodes |-> <<>>, links |-> <<>>, resolved |-> None]
  BY <1>4, <1>5, Begun
<1>7. q # None => q.known = kn /\ q.resolved = None
  BY <1>6
<1>8. PassFounded(history, q)
  BY <1>2, <1>3, <1>5, <1>7 DEF PassFounded
<1>9. PassesFounded(history', pass')
  <2>1. PassesFounded(history, [pass EXCEPT ![p] = q])
    BY <1>4, <1>8, OnePassFounded
  <2> QED
    BY <1>1, <1>6, <2>1
<1> QED
  BY <1>1, <1>9, KeptFounded

(* A pass that ends, or what holds a loop and fails, takes what it knew.   *)
LEMMA EndFounds ==
  ASSUME RInv, FInv, RowsKept, NEW p \in Processes, FinishPass(p) \/ Fail(p) \/ Crash(p),
         UNCHANGED decisions
  PROVE  FInv'
<1>1. /\ UNCHANGED <<candidate, history, handle>>
      /\ UNCHANGED linking \/ linking' = None
      /\ pass' = [pass EXCEPT ![p] = None]
  BY DEF FinishPass, Fail, Crash
<1>2. DOMAIN pass = Processes /\ PassesFounded(history, pass)
  BY DEF RInv, FInv, PassesFit
<1>3. PassFounded(history, None)
  BY DEF PassFounded
<1>4. PassesFounded(history', pass')
  <2>1. PassesFounded(history, [pass EXCEPT ![p] = None])
    BY <1>2, <1>3, OnePassFounded
  <2> QED
    BY <1>1, <2>1
<1>5. UNCHANGED linking \/ LinkingFounded(history', linking')
  BY <1>1 DEF LinkingFounded
<1> QED
  BY <1>1, <1>4, <1>5, KeptFounded
-----------------------------------------------------------------------------
(* Commands keep the foundations. *)

(* What an operator resolves is founded in having been resolved by one. *)
LEMMA OperatorFounds ==
  ASSUME NEW k, NEW c, Record(k, Row("RESOLVED", c), "OPERATOR")
  PROVE  Founded(history', HandleOfKey(k), c)
<1>1. PICK x : x = Entry(k, Row("RESOLVED", c), "OPERATOR")
  OBVIOUS
<1>2. x.by = "OPERATOR" /\ x.status = "RESOLVED" /\ x.key = k /\ x.cid = c
  BY <1>1 DEF Entry, Row
<1>3. x \in history'
  BY <1>1 DEF Record
<1>4. Linked(history', HandleOfKey(k), c)
  BY <1>2, <1>3 DEF Linked
<1> QED
  BY <1>4 DEF Founded

(* An open link remembers the row it found. *)
LEMMA StartLinkFounds ==
  ASSUME RInv, FInv, RowsKept, NEW k \in NamedKeys, NEW c, NEW batches, NEW decision,
         StartLink(k, c, batches, decision), UNCHANGED decisions
  PROVE  FInv'
<1>1. UNCHANGED <<candidate, history, handle, pass>>
  BY DEF StartLink
<1>2. PICK ln : ln = LinkOpen(k, c, batches, decision) /\ linking' = ln
  BY DEF StartLink
<1>3. PICK s, d, prev : s = candidate[k].status /\ d = candidate[k].cid
                        /\ prev = [status |-> s, cid |-> d]
  OBVIOUS
<1>4. ln.key = k /\ ln.prev.status = s /\ ln.prev.cid = d
  <2>1. \E x : ln = [key |-> k, cid |-> c, owner |-> x, prev |-> prev,
                     batches |-> batches, decision |-> decision]
    BY <1>2, <1>3 DEF LinkOpen, Before, Row
  <2> QED
    BY <1>3, <2>1
<1>5. LinkingFounded(history', linking')
  BY <1>1, <1>2, <1>3, <1>4, NamedRowSound DEF LinkingFounded
<1> QED
  BY <1>1, <1>5, KeptFounded

(* A link committed is an operator's, and its decision remembers what was. *)
LEMMA LinkCommittedFounds ==
  ASSUME IInv, FInv, RowsKept, LinkCommitted
  PROVE  FInv'
<1>1. PICK k, c, d, prev :
        k = linking.key /\ c = linking.cid /\ d = linking.decision /\ prev = linking.prev
  OBVIOUS
<1>2. /\ k \in NamedKeys /\ Writes(k, "RESOLVED", c) /\ Decides(d, k, c)
  BY <1>1, FinishLinkKeeps DEF IInv, LinkCommitted
<1>3. /\ handle' = Extend(handle, HandleOfKey(k), c)
      /\ Record(k, Row("RESOLVED", c), "OPERATOR")
      /\ linking # None /\ linking' = None /\ UNCHANGED pass /\ Appended(d, prev)
  BY <1>1 DEF LinkCommitted, FinishLink, Manual
<1>4. Founded(history', HandleOfKey(k), c)
  BY <1>3, OperatorFounds
<1>5. KeysFit(candidate') /\ RowsFounded(history', candidate')
  <2>1. Sound(history', HandleOfKey(k), "RESOLVED", c)
    BY <1>4 DEF Sound
  <2> QED
    BY <1>2, <2>1, RowWrittenFounded
<1>6. HandlesFounded(history', handle')
  <2>1. HandlesFounded(history', handle)
    BY StillFounded
  <2> QED
    BY <1>3, <1>4, <2>1 DEF HandlesFounded, Extend
<1>7. PrevsFounded(history', decisions')
  <2>1. LinkingFounded(history', linking)
    BY StillFounded
  <2>2. Sound(history', HandleOfKey(k), prev.status, prev.cid)
    BY <1>1, <1>3, <2>1 DEF LinkingFounded
  <2>3. d[2] = k
    BY <1>2 DEF Decides
  <2> QED
    BY <1>3, <2>2, <2>3, AppendedFounded
<1>8. LinkingFounded(history', linking')
  BY <1>3 DEF LinkingFounded
<1> QED
  BY <1>3, <1>5, <1>6, <1>7, <1>8, KeptFounded

(* A row that keeps its id, or has none and is not resolved. *)
LEMMA UnresolvedFounds ==
  ASSUME FInv, RowsKept, NEW k \in NamedKeys, NEW status, status # "RESOLVED",
         Writes(k, status, candidate[k].cid) \/ Writes(k, status, None)
  PROVE  KeysFit(candidate') /\ RowsFounded(history', candidate')
<1>1. PICK c : Writes(k, status, c) /\ (c = candidate[k].cid \/ c = None)
  OBVIOUS
<1>2. Sound(history, HandleOfKey(k), status, c)
  BY <1>1, NamedRowSound DEF Sound
<1>3. Sound(history', HandleOfKey(k), status, c)
  BY <1>2, RowSoundLater
<1> QED
  BY <1>1, <1>3, RowWrittenFounded

(* A decision of a row as it stands. *)
LEMMA PresentFounded ==
  ASSUME FInv, RowsKept, NEW k \in NamedKeys, NEW d, d[2] = k, NEW prev, prev = Before(k),
         Appended(d, prev)
  PROVE  PrevsFounded(history', decisions')
<1>1. PICK s, c : s = candidate[k].status /\ c = candidate[k].cid
  OBVIOUS
<1>2. prev.status = s /\ prev.cid = c
  BY <1>1 DEF Before, Row
<1>3. Sound(history', HandleOfKey(k), s, c)
  <2>1. Sound(history, HandleOfKey(k), s, c)
    BY <1>1, NamedRowSound
  <2> QED
    BY <2>1, RowSoundLater
<1> QED
  BY <1>2, <1>3, AppendedFounded

LEMMA CommandFounds ==
  ASSUME IInv, FInv, RowsKept, NEW k \in NamedKeys, CommandOn(k)
  PROVE  FInv'
<1>0. RInv
  BY DEF IInv
<1>1. ASSUME NEW c, AcceptCandidate(k, c) PROVE FInv'
  BY <1>0, <1>1, StartLinkFounds DEF AcceptCandidate, Accept
<1>2. ASSUME NEW c, AcceptAgain(k, c) PROVE FInv'
  <2>1. PICK d, prev : d = AcceptDecision(k, c) /\ d[2] = k /\ prev = Before(k)
    BY AcceptNames
  <2>2. Appended(d, prev)
    BY <1>2, <2>1 DEF AcceptAgain, Appended
  <2>3. PrevsFounded(history', decisions')
    BY <2>1, <2>2, PresentFounded
  <2>4. UNCHANGED <<candidate, history, handle, pass, linking>>
    BY <1>2 DEF AcceptAgain, loops
  <2> QED
    BY <2>3, <2>4, KeptFounded
<1>3. ASSUME NEW type, CreateCanonicalEntity(type, k) PROVE FInv'
  <2>1. PICK d, prev : d = CreateDecision(k) /\ d[2] = k /\ prev = Before(k)
    BY CreateNames DEF Decides
  <2>2. PICK organizer :
          \/ CreateEntity(type, k, organizer, d) /\ UNCHANGED decisions
          \/ CreateAgain(type, k, organizer) /\ Appended(d, prev)
    BY <1>3, <2>1 DEF CreateCanonicalEntity
  <2>3. CASE CreateEntity(type, k, organizer, d) /\ UNCHANGED decisions
    BY <1>0, <2>3, StartLinkFounds DEF CreateEntity
  <2>4. CASE CreateAgain(type, k, organizer) /\ Appended(d, prev)
    <3>1. PrevsFounded(history', decisions')
      BY <2>1, <2>4, PresentFounded
    <3>2. UNCHANGED <<candidate, history, handle, pass, linking>>
      BY <2>4 DEF CreateAgain, loops
    <3> QED
      BY <3>1, <3>2, KeptFounded
  <2> QED
    BY <2>2, <2>3, <2>4
<1>4. ASSUME NEW d, ~Reversible(d), NEW prev, Appended(d, prev)
      PROVE  PrevsFounded(history', decisions')
  BY <1>4, AppendedFounded
<1>5. CASE RejectCandidate(k)
  <2>1. Writes(k, "REJECTED", candidate[k].cid) /\ UNCHANGED <<handle, pass, linking>>
    BY <1>0, <1>5, RejectKeeps DEF RejectCandidate, Reject, Rewrite, loops
  <2>2. PICK d : d = RejectDecision(k) /\ ~Reversible(d)
    BY OthersStay
  <2>3. PrevsFounded(history', decisions')
    BY <1>4, <1>5, <2>2 DEF RejectCandidate
  <2>4. KeysFit(candidate') /\ RowsFounded(history', candidate')
    BY <2>1, UnresolvedFounds
  <2> QED
    BY <2>1, <2>3, <2>4, KeptFounded
<1>6. CASE UnresolveCandidate(k)
  <2>1. Writes(k, "UNRESOLVED", None) /\ UNCHANGED <<handle, pass, linking>>
    BY <1>0, <1>6, MarkUnresolvedKeeps DEF UnresolveCandidate, MarkUnresolved, Rewrite, loops
  <2>2. PICK d : d = UnresolveDecision(k) /\ ~Reversible(d)
    BY OthersStay
  <2>3. PrevsFounded(history', decisions')
    BY <1>4, <1>6, <2>2 DEF UnresolveCandidate
  <2>4. KeysFit(candidate') /\ RowsFounded(history', candidate')
    BY <2>1, UnresolvedFounds
  <2> QED
    BY <2>1, <2>3, <2>4, KeptFounded
<1> QED
  BY <1>1, <1>2, <1>3, <1>5, <1>6 DEF CommandOn

(* A series is corrected without a row. *)
LEMMA SeriesCorrectionFounds ==
  ASSUME FInv, RowsKept, NEW e \in Events, CorrectEventSeries(e)
  PROVE  FInv'
<1>1. PICK prev, c :
        /\ \E target, nodes : CorrectSeries(e, prev, target, nodes)
        /\ Appended(SeriesDecision(e, c), Row(None, None))
  BY DEF CorrectEventSeries, LinkSeries, UnlinkSeries, CreateSeries
<1>2. UNCHANGED <<candidate, history, handle, pass, linking>>
  BY <1>1 DEF CorrectSeries, loops
<1>3. PICK d : d = SeriesDecision(e, c) /\ ~Reversible(d)
  BY OthersStay
<1>4. PrevsFounded(history', decisions')
  BY <1>1, <1>3, AppendedFounded
<1> QED
  BY <1>2, <1>4, KeptFounded

(* A reversal leads row and handle back to where the decision found them.  *)
LEMMA ReversalFounds ==
  ASSUME IInv, FInv, RowsKept, NEW d \in DOMAIN decisions, ReverseDecision(d)
  PROVE  FInv'
<1>1. PrevsFounded(history', decisions')
  <2>1. PICK stage \in {"NONE", "APPENDED", "MARKED"} :
          decisions' = [decisions EXCEPT ![d].reversal = stage]
    BY DEF ReverseDecision
  <2>2. PICK H2, D, D2 : H2 = history' /\ D = decisions /\ D2 = decisions'
    OBVIOUS
  <2>3. DOMAIN D2 = DOMAIN D /\ \A x \in DOMAIN D : D2[x].prev = D[x].prev
    BY <2>1, <2>2, StageFits
  <2>4. PrevsFounded(H2, D)
    BY <2>2, StillFounded
  <2>5. PrevsFounded(H2, D2)
    BY <2>3, <2>4 DEF PrevsFounded
  <2> QED
    BY <2>2, <2>5
<1>2. CASE Reversible(d)
  <2>1. PICK k, s, c : /\ k = d[2] /\ k \in NamedKeys
                       /\ s = decisions[d].prev.status /\ s \in Statuses
                       /\ c = decisions[d].prev.cid
    BY <1>2, DecisionNamesRow
  <2>2. PICK rm \in BOOLEAN : ReverseAccept(k, s, c, rm)
    BY <1>2, <2>1 DEF ReverseDecision
  <2>3. /\ Writes(k, s, c) /\ UNCHANGED <<pass, linking>>
        /\ \/ c # None /\ handle' = Extend(handle, HandleOfKey(k), c)
           \/ handle' = Without(handle, HandleOfKey(k))
           \/ UNCHANGED handle
    BY <2>1, <2>2, ReverseKeeps DEF IInv
  <2>4. Sound(history', HandleOfKey(k), s, c)
    <3>1. Sound(history, HandleOfKey(k), s, c)
      BY <1>2, <2>1 DEF FInv, PrevsFounded
    <3> QED
      BY <3>1, RowSoundLater
  <2>5. KeysFit(candidate') /\ RowsFounded(history', candidate')
    BY <2>1, <2>3, <2>4, RowWrittenFounded
  <2>6. HandlesFounded(history', handle')
    <3>1. c # None => Founded(history', HandleOfKey(k), c)
      BY <2>4 DEF Sound
    <3>2. HandlesFounded(history', handle)
      BY StillFounded
    <3> QED
      BY <2>3, <3>1, <3>2 DEF HandlesFounded, Extend, Without
  <2> QED
    BY <1>1, <2>3, <2>5, <2>6, KeptFounded
<1>3. CASE ~Reversible(d)
  <2>1. UNCHANGED <<candidate, history, handle, pass, linking>>
    BY <1>3 DEF ReverseDecision, loops
  <2> QED
    BY <1>1, <2>1, KeptFounded
<1> QED
  BY <1>2, <1>3

(* Rows set aside keep the canonical they were set aside with. *)
LEMMA QuarantineFounds ==
  ASSUME FInv, RowsKept, NEW c, Quarantines(c)
  PROVE  KeysFit(candidate') /\ RowsFounded(history', candidate')
<1>1. PICK C, C2, H, H2 : C = candidate /\ C2 = candidate' /\ H = history /\ H2 = history'
  OBVIOUS
<1>2. /\ DOMAIN C2 = DOMAIN C
      /\ \A k \in DOMAIN C :
           IF C[k].cid = c THEN Restates(C2[k], C[k], "QUARANTINED", c) ELSE C2[k] = C[k]
  BY <1>1 DEF Quarantines
<1>3. KeysFit(C) /\ RowsFounded(H2, C)
  BY <1>1, StillFounded DEF FInv
<1>4. \A k \in DOMAIN C : C2[k].name = C[k].name /\ C2[k].normal = C[k].normal
                          /\ C2[k].city = C[k].city /\ C2[k].cid = C[k].cid
                          /\ (C2[k].status = C[k].status \/ C2[k].status = "QUARANTINED")
  BY <1>2 DEF Restates
<1>5. KeysFit(C2)
  BY <1>2, <1>3, <1>4 DEF KeysFit, KeyFits
<1>6. ASSUME NEW k \in DOMAIN C2, k[2] \in Events
      PROVE  Sound(H2, HandleOfKey(k), C2[k].status, C2[k].cid)
  <2>1. Sound(H2, HandleOfKey(k), C[k].status, C[k].cid)
    BY <1>2, <1>3, <1>6 DEF RowsFounded
  <2> QED
    BY <1>2, <1>4, <2>1 DEF Sound
<1>7. RowsFounded(H2, C2)
  BY <1>6 DEF RowsFounded
<1> QED
  BY <1>1, <1>5, <1>7

LEMMA CorrectFounds ==
  ASSUME IInv, FInv, RowsKept, Correct
  PROVE  FInv'
<1>0. RInv /\ UNCHANGED decisions
  BY DEF IInv, Correct
<1>1. ASSUME NEW k \in NamedKeys, ConfirmMultiRole(k) \/ RequeueResolution(k) \/ RejectMatch(k)
      PROVE  FInv'
  <2>1. Writes(k, "UNRESOLVED", candidate[k].cid) \/ Writes(k, "UNRESOLVED", None)
    BY <1>0, <1>1, UnresolvingKeeps
  <2>2. UNCHANGED <<handle, pass, linking>>
    BY <1>1 DEF ConfirmMultiRole, RequeueResolution, RejectMatch, Correction, Rewrite, loops
  <2>3. KeysFit(candidate') /\ RowsFounded(history', candidate')
    BY <2>1, UnresolvedFounds
  <2> QED
    BY <1>0, <2>2, <2>3, KeptFounded
<1>2. ASSUME NEW k \in NamedKeys, NEW c, ConfirmExistingMatch(k, c)
      PROVE  FInv'
  <2>1. Writes(k, "RESOLVED", c)
    BY <1>0, <1>2, ConfirmKeeps
  <2>2. PICK row : row = Corrected(k, "RESOLVED", c) /\ Rewrite(k, row, Row(row.status, row.cid))
    BY <1>2 DEF ConfirmExistingMatch, Correction
  <2>3. row.status = "RESOLVED" /\ row.cid = c
    <3>1. PICK r, t : r = candidate[k] /\ t = TRUE /\ RowFits(r)
      BY <1>0, NamedRow
    <3>2. row = [r EXCEPT !.status = "RESOLVED", !.cid = c, !.corrected = t]
      BY <2>2, <3>1 DEF Corrected
    <3>3. "RESOLVED" \in Statuses
      BY DEF Statuses
    <3>4. Restates([r EXCEPT !.status = "RESOLVED", !.cid = c, !.corrected = t], r, "RESOLVED", c)
      BY <3>1, <3>3, EditedRow, Zenon
    <3> QED
      BY <3>2, <3>4 DEF Restates
  <2>4. Record(k, Row("RESOLVED", c), "OPERATOR") /\ UNCHANGED <<handle, pass, linking>>
    BY <2>2, <2>3 DEF Rewrite, loops
  <2>5. Sound(history', HandleOfKey(k), "RESOLVED", c)
    BY <2>4, OperatorFounds DEF Sound
  <2>6. KeysFit(candidate') /\ RowsFounded(history', candidate')
    BY <2>1, <2>5, RowWrittenFounded
  <2> QED
    BY <1>0, <2>4, <2>6, KeptFounded
<1>3. ASSUME NEW c, Quarantine(c)
      PROVE  FInv'
  <2>1. Quarantines(c)
    BY <1>0, <1>3, QuarantineKeeps
  <2>2. UNCHANGED <<handle, pass, linking>>
    BY <1>3 DEF Quarantine, loops
  <2>3. KeysFit(candidate') /\ RowsFounded(history', candidate')
    BY <2>1, QuarantineFounds
  <2> QED
    BY <1>0, <2>2, <2>3, KeptFounded
<1> QED
  BY <1>1, <1>2, <1>3 DEF Correct, MarkWrongType

(* A discovery outside the sources founds no mention's row. *)
LEMMA RegisterFounds ==
  ASSUME FInv, RowsKept, NEW c, NEW n, RegisterExternal(c, n), UNCHANGED decisions
  PROVE  FInv'
<1>1. PICK k, r : /\ k = ExternalKey(c) /\ candidate' = Extend(candidate, k, r)
                  /\ k[1] = "ARTIST" /\ k[2] = "external_discovery"
  BY DEF RegisterExternal, ExternalKey
<1>2. PICK C, C2, H2 : C = candidate /\ C2 = candidate' /\ H2 = history'
  OBVIOUS
<1>3. DOMAIN C2 = DOMAIN C \cup {k} /\ \A x \in DOMAIN C : x # k => C2[x] = C[x]
  BY <1>1, <1>2 DEF Extend
<1>4. KeysFit(C) /\ RowsFounded(H2, C)
  BY <1>2, StillFounded DEF FInv
<1>5. KeysFit(C2)
  <2>1. KeyFits(k, C2[k])
    BY <1>1 DEF KeyFits
  <2> QED
    BY <1>3, <1>4, <2>1 DEF KeysFit
<1>6. k[2] \notin Events
  BY <1>1, IdsAreIds
<1>7. RowsFounded(H2, C2)
  BY <1>3, <1>4, <1>6 DEF RowsFounded
<1>8. UNCHANGED <<handle, pass, linking>>
  BY DEF RegisterExternal, loops
<1> QED
  BY <1>2, <1>5, <1>7, <1>8, KeptFounded

LEMMA StepFounds ==
  ASSUME IInv, FInv, [Next]_allVars
  PROVE  FInv'
<1>0. RInv /\ RowsKept
  BY StepKeeps DEF IInv
<1>1. CASE RegistryStep /\ UNCHANGED decisions
  <2>1. ASSUME NEW p \in Processes, NEW e \in Events, Fetch(p, e) PROVE FInv'
    BY <1>0, <1>1, <2>1, KeptFounded DEF Fetch
  <2>2. ASSUME NEW p \in Processes, NEW e \in Events, Begin(p, e) PROVE FInv'
    BY <1>0, <1>1, <2>2, BeginFounds
  <2>3. ASSUME NEW p \in Processes, ReadTypes(p) PROVE FInv'
    BY <1>0, <1>1, <2>3, ReadTypesFounds
  <2>4. ASSUME NEW p \in Processes, DecideMention(p) PROVE FInv'
    BY <1>0, <1>1, <2>4, DecideFounds
  <2>5. ASSUME NEW p \in Processes, RegisterHandle(p) PROVE FInv'
    BY <1>0, <1>1, <2>5, RegisterHandleFounds
  <2>6. ASSUME NEW p \in Processes, FinishPass(p) \/ Fail(p) \/ Crash(p) PROVE FInv'
    BY <1>0, <1>1, <2>6, EndFounds
  <2>7. ASSUME \/ \E e \in Events : Ingest(e)
               \/ GraphWrite \/ GraphWriteFails
        PROVE  FInv'
    <3>1. UNCHANGED <<candidate, history, handle, pass, linking>>
      BY <2>7 DEF Ingest, GraphWrite, GraphWriteFails, loops
    <3> QED
      BY <1>0, <1>1, <3>1, KeptFounded
  <2> QED
    BY <1>1, <2>1, <2>2, <2>3, <2>4, <2>5, <2>6, <2>7 DEF RegistryStep
<1>2. ASSUME NEW k \in NamedKeys, CommandOn(k)
      PROVE  FInv'
  BY <1>0, <1>2, CommandFounds
<1>3. CASE LinkCommitted
  BY <1>0, <1>3, LinkCommittedFounds
<1>4. ASSUME NEW e \in Events, CorrectEventSeries(e)
      PROVE  FInv'
  BY <1>0, <1>4, SeriesCorrectionFounds
<1>5. ASSUME NEW d \in DOMAIN decisions, ReverseDecision(d)
      PROVE  FInv'
  BY <1>0, <1>5, ReversalFounds
<1>6. CASE Correct
  BY <1>0, <1>6, CorrectFounds
<1>7. CASE Discovery
  <2>1. UNCHANGED decisions /\ \E c, n : RegisterExternal(c, n)
    BY <1>7 DEF Discovery, ReconcileGraphArtists, CreateArtist
  <2> QED
    BY <1>0, <2>1, RegisterFounds
<1>8. CASE UNCHANGED allVars
  <2>1. UNCHANGED <<candidate, history, handle, pass, linking, decisions>>
    BY <1>8 DEF allVars, loops
  <2> QED
    BY <1>0, <2>1, KeptFounded
<1> QED
  BY <1>1, <1>2, <1>3, <1>4, <1>5, <1>6, <1>7, <1>8 DEF Next, CommandOn

(* What the foundations say of names. *)
LEMMA FoundationsTell ==
  ASSUME FInv
  PROVE  NamesMergeNothing
<1>1. PICK H : H = history
  OBVIOUS
<1>2. \A h, c : Linked(H, h, c) => <<h, c>> \in OperatorLinks
  BY <1>1 DEF Linked, OperatorLinks
<1>3. ASSUME NEW c, LinkedTo(H, c) PROVE \E o \in OperatorLinks : o[2] = c
  <2>1. PICK h : Linked(H, h, c)
    BY <1>3 DEF LinkedTo, Linked
  <2>2. <<h, c>> \in OperatorLinks /\ <<h, c>>[2] = c
    BY <1>2, <2>1
  <2> QED
    BY <2>2
<1>4. ASSUME NEW k \in NamedKeys, candidate[k].status = "RESOLVED"
      PROVE  /\ Founded(H, HandleOfKey(k), candidate[k].cid)
             /\ HandleOfKey(k)[2] = k[1] /\ HandleOfKey(k)[3] = k[3]
  <2>1. k \in DOMAIN candidate /\ k[2] \in Events
    BY DEF NamedKeys
  <2>2. Founded(H, HandleOfKey(k), candidate[k].cid)
    BY <1>1, <1>4, <2>1 DEF FInv, RowsFounded, Sound
  <2>3. HandleOfKey(k)[2] = k[1] /\ HandleOfKey(k)[3] = k[3]
    BY DEF HandleOfKey
  <2> QED
    BY <2>2, <2>3
<1>5. NoSilentMerge
  <2> SUFFICES ASSUME NEW k \in NamedKeys, candidate[k].status = "RESOLVED"
               PROVE  \/ \E n \in NamesOf(k[1], k[3]) :
                           candidate[k].cid \in Namesakes(k[1], Normal(k[1], n))
                      \/ <<HandleOfKey(k), candidate[k].cid>> \in OperatorLinks
                      \/ k[1] = "VENUE" /\ \E o \in OperatorLinks : o[2] = candidate[k].cid
    BY DEF NoSilentMerge
  <2>1. CASE NamedFor(HandleOfKey(k), candidate[k].cid)
    BY <1>4, <2>1 DEF NamedFor
  <2>2. CASE Linked(H, HandleOfKey(k), candidate[k].cid)
    BY <1>2, <2>2
  <2>3. CASE k[1] = "VENUE" /\ LinkedTo(H, candidate[k].cid)
    BY <1>3, <2>3
  <2> QED
    BY <1>4, <2>1, <2>2, <2>3 DEF Founded
<1>6. AmbiguousNeedsOperator
  <2> SUFFICES ASSUME NEW k \in NamedKeys, k[1] = "ARTIST", candidate[k].status = "RESOLVED",
                      \A n \in Bearing("ARTIST", k[3]) : Facts[n].ambiguous
               PROVE  \E o \in OperatorLinks : o[1] = HandleOfKey(k)
    BY DEF AmbiguousNeedsOperator
  <2>1. ~NamedFor(HandleOfKey(k), candidate[k].cid)
    BY <1>4 DEF NamedFor, NamesOf
  <2>2. Linked(H, HandleOfKey(k), candidate[k].cid)
    BY <1>4, <2>1 DEF Founded
  <2>3. PICK h, c : h = HandleOfKey(k) /\ <<h, c>> \in OperatorLinks
    BY <1>2, <2>2
  <2>4. <<h, c>>[1] = h
    OBVIOUS
  <2> QED
    BY <2>3, <2>4
<1> QED
  BY <1>5, <1>6 DEF NamesMergeNothing

LEMMA FoundationsInvariant == Spec => [](IInv /\ FInv)
<1>1. Init => FInv
  <2> SUFFICES ASSUME Init PROVE FInv
    OBVIOUS
  <2>1. /\ candidate = <<>> /\ handle = <<>> /\ decisions = <<>> /\ linking = None
        /\ \A p \in Processes : pass[p] = None
    BY DEF Init, RegistryInit
  <2>2. PassesFounded(history, pass) /\ LinkingFounded(history, linking)
    BY <2>1 DEF PassesFounded, PassFounded, LinkingFounded
  <2> QED
    BY <2>1, <2>2 DEF FInv, KeysFit, RowsFounded, HandlesFounded, PrevsFounded
<1>2. IInv /\ FInv /\ [Next]_allVars => FInv'
  BY StepFounds
<1> QED
  BY <1>1, <1>2, Invariance, PTL DEF Spec

(* Names merge nothing that slugs do not: every resolution leads to a      *)
(* canonical of a name the mention's handle bears, or to where an operator *)
(* linked it, and an ambiguous stage name, unless a name of its slug is    *)
(* not ambiguous, only to the latter; whatever the names, through re-reads,*)
(* corrections, reversals, quarantines, crashes and the passes of other    *)
(* processes (resolvers.py, _persist_candidate, reverse_accept).           *)
THEOREM NamesMergeNothingUnasked == Spec => []NamesMergeNothing
<1>1. FInv => NamesMergeNothing
  BY FoundationsTell
<1> QED
  BY <1>1, FoundationsInvariant, PTL

=============================================================================
