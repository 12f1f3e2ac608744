------------------------ MODULE IoGraphBuilder_proofs ------------------------
(***************************************************************************)
(* The vertices of a process are chained in program order, for every       *)
(* number of processes, every trace and every order of reading it; every   *)
(* location has one rank, and the locations are spread evenly, for any     *)
(* number of locations and of ranks.                                       *)
(***************************************************************************)
EXTENDS BuilderProperties, Basics, FiniteSetTheorems

LEMMA FirstFacts ==
  ASSUME NEW places \in SUBSET Nat, places # {}
  PROVE  First(places) \in places
<1>1. \E x \in places : \A y \in places : x <= y
  BY LeastNat
<1> QED
  BY <1>1, Zenon DEF First, Min

-----------------------------------------------------------------------------
(***************************************************************************)
(* The inductive invariant.  Of a vertex only what the chains are about    *)
(* matters: its process and timestamp, and of a synchronisation the        *)
(* processes that the matching looks at.                                   *)
(***************************************************************************)
GoodVertex(v) ==
  /\ "type" \in DOMAIN v
  /\ v.type # "synthetic" =>
       {"proc", "timestamp"} \subseteq DOMAIN v /\ v.proc \in Procs /\ v.timestamp \in Nat
  /\ v.type = "sync_event" =>
       {"remote", "members"} \subseteq DOMAIN v /\ v.remote \in Procs /\ v.members \in Seq(Procs)

GraphInv ==
  /\ IsSequence(graph)
  /\ root_ \in DOMAIN graph /\ graph[root_].type = "synthetic"
  /\ \A d \in DOMAIN graph : GoodVertex(graph[d])

(* No edge leads to the root. *)
EdgesInv ==
  /\ edges \in Seq((DOMAIN graph) \X (DOMAIN graph))
  /\ \A x \in Range(edges) : x[2] # root_

(* The deques hold synchronisations of their processes. *)
SyncsOf(p) == {d \in OwnVertices(p) : graph[d].type = "sync_event"}

MatchingInv ==
  /\ cursor \in [loc : Procs, i : Nat \ {0}, k : Nat \ {0}]
  /\ DOMAIN synchronizations = Procs
  /\ \A p \in Procs : synchronizations[p] \in Seq(SyncsOf(p))

(* The edge point of a process is its last vertex. *)
PointsInv ==
  /\ DOMAIN edge_points = Procs
  /\ \A p \in Procs :
       IF OwnVertices(p) = {} THEN edge_points[p] = <<>>
       ELSE \E d \in OwnVertices(p) : edge_points[p] = <<d>> /\ IsLast(p, d)

(* Vertices are no later than the events read. *)
ReadingInv ==
  /\ program \in Programs
  /\ pos \in [Procs -> Nat]
  /\ \A p \in Procs : \A d \in OwnVertices(p) : graph[d].timestamp <= pos[p]

(* Until all events are read, the root is the only synthetic vertex. *)
Reading == status \in {"definitions", "events"}

RootInv == Reading => \A d \in DOMAIN graph : graph[d].type = "synthetic" => d = root_

IInv ==
  /\ GraphInv /\ EdgesInv /\ MatchingInv /\ PointsInv /\ ReadingInv /\ RootInv
  /\ ProgramOrderChained

-----------------------------------------------------------------------------
(***************************************************************************)
(* Setting the duration or the root event of a vertex.                     *)
(***************************************************************************)
SameVertex(v, w) ==
  /\ GoodVertex(w)
  /\ w.type = v.type
  /\ v.type # "synthetic" => w.proc = v.proc /\ w.timestamp = v.timestamp

SameVertices(g, h) ==
  /\ IsSequence(h)
  /\ DOMAIN h = DOMAIN g
  /\ \A d \in DOMAIN g : SameVertex(g[d], h[d])

LEMMA FieldSet ==
  ASSUME NEW v, GoodVertex(v), NEW x
  PROVE  /\ SameVertex(v, [v EXCEPT !.duration = x])
         /\ SameVertex(v, [v EXCEPT !.root_event = x])
         /\ SameVertex(v, v)
BY DEF GoodVertex, SameVertex

LEMMA VertexSet ==
  ASSUME NEW g, IsSequence(g), \A e \in DOMAIN g : GoodVertex(g[e]), NEW d, NEW x
  PROVE  /\ SameVertices(g, [g EXCEPT ![d].duration = x])
         /\ SameVertices(g, [g EXCEPT ![d].root_event = x])
         /\ SameVertices(g, g)
<1>1. ASSUME NEW w, d \in DOMAIN g => SameVertex(g[d], w)
      PROVE  SameVertices(g, [g EXCEPT ![d] = w])
  BY <1>1, ExceptFacts, FieldSet DEF SameVertices
<1>2. d \in DOMAIN g => /\ SameVertex(g[d], [g[d] EXCEPT !.duration = x])
                        /\ SameVertex(g[d], [g[d] EXCEPT !.root_event = x])
  BY FieldSet
<1>3. SameVertices(g, [g EXCEPT ![d] = [g[d] EXCEPT !.duration = x]])
  BY <1>1, <1>2
<1>4. SameVertices(g, [g EXCEPT ![d] = [g[d] EXCEPT !.root_event = x]])
  BY <1>1, <1>2
<1>5. SameVertices(g, g)
  BY FieldSet DEF SameVertices
<1> QED
  BY <1>3, <1>4, <1>5

-----------------------------------------------------------------------------
(***************************************************************************)
(* Steps that add no vertex, and no edge but between processes.            *)
(***************************************************************************)
CrossPairs ==
  {x \in (DOMAIN graph) \X (DOMAIN graph) :
     /\ graph[x[1]].type # "synthetic" /\ graph[x[2]].type # "synthetic"
     /\ graph[x[1]].proc # graph[x[2]].proc}

Ended == status \in {"matching", "done", "returned"}

LEMMA SameOwn ==
  ASSUME SameVertices(graph, graph'), NEW p
  PROVE  OwnVertices(p)' = OwnVertices(p) /\ SyncsOf(p)' = SyncsOf(p)
<1>1. OwnVertices(p)' = OwnVertices(p)
  BY DEF SameVertices, SameVertex, OwnVertices
<1>2. \A d \in OwnVertices(p) : graph'[d].type = graph[d].type
  BY DEF SameVertices, SameVertex, OwnVertices
<1> QED
  BY <1>1, <1>2 DEF SyncsOf

LEMMA Kept ==
  ASSUME IInv,
         SameVertices(graph, graph'),
         NEW X \in SUBSET CrossPairs,
         edges' \in Seq((DOMAIN graph) \X (DOMAIN graph)),
         Range(edges') = Range(edges) \cup X,
         MatchingInv',
         UNCHANGED <<program, edge_points>>,
         pos' \in [Procs -> Nat],
         \A p \in Procs : pos[p] <= pos'[p],
         Reading' => Reading,
         Ended' => Ended
  PROVE  IInv'
<1> USE DEF IInv
<1>1. GraphInv'
  BY DEF GraphInv, SameVertices, SameVertex, root_
<1>2. EdgesInv'
  <2>1. \A x \in X : x[2] # root_
    BY DEF CrossPairs, GraphInv
  <2> QED
    BY <2>1 DEF EdgesInv, SameVertices
<1>3. PointsInv'
  BY SameOwn DEF PointsInv, IsLast
<1>4. ReadingInv'
  <2>1. ASSUME NEW p \in Procs, NEW d \in OwnVertices(p)'
        PROVE  graph'[d].timestamp <= pos'[p]
    <3>1. d \in OwnVertices(p) /\ graph[d].timestamp <= pos[p]
      BY <2>1, SameOwn DEF ReadingInv
    <3>2. graph'[d].timestamp = graph[d].timestamp /\ graph[d].timestamp \in Nat
      BY <3>1 DEF OwnVertices, SameVertices, SameVertex, GraphInv, GoodVertex
    <3>3. pos[p] \in Nat /\ pos'[p] \in Nat /\ pos[p] <= pos'[p]
      BY <2>1 DEF ReadingInv
    <3> QED
      BY <3>1, <3>2, <3>3
  <2> QED
    BY <2>1 DEF ReadingInv
<1>5. RootInv'
  BY DEF RootInv, SameVertices, SameVertex
<1>6. ProgramOrderChained'
  <2> SUFFICES ASSUME NEW p \in Procs
      PROVE  (/\ \A d, e \in OwnVertices(p) :
                   /\ d < e => graph[d].timestamp < graph[e].timestamp
                   /\ <<d, e>> \in Range(edges) <=> IsNext(p, d, e)
              /\ \A d \in OwnVertices(p) : <<root_, d>> \in Range(edges) <=> IsFirst(p, d)
              /\ Ended => \A d \in OwnVertices(p) : LeadsToEnd(d) <=> IsLast(p, d))'
    BY Zenon DEF ProgramOrderChained, Ended
  <2>1. OwnVertices(p)' = OwnVertices(p)
    BY SameOwn
  <2>2. \A d \in OwnVertices(p) : d \in DOMAIN graph /\ graph[d].type # "synthetic"
                                 /\ graph[d].proc = p
                                 /\ graph'[d].timestamp = graph[d].timestamp
    BY DEF OwnVertices, SameVertices, SameVertex
  <2>3. ASSUME NEW d \in OwnVertices(p), NEW e \in OwnVertices(p)
        PROVE  /\ d < e => graph'[d].timestamp < graph'[e].timestamp
               /\ <<d, e>> \in Range(edges') <=> IsNext(p, d, e)'
    <3>1. <<d, e>> \notin X
      BY <2>2 DEF CrossPairs
    <3>2. IsNext(p, d, e)' <=> IsNext(p, d, e)
      BY <2>1 DEF IsNext
    <3> QED
      BY <2>2, <3>1, <3>2 DEF ProgramOrderChained
  <2>4. ASSUME NEW d \in OwnVertices(p)
        PROVE  <<root_, d>> \in Range(edges') <=> IsFirst(p, d)'
    <3>1. <<root_, d>> \notin X
      BY DEF CrossPairs, GraphInv
    <3>2. IsFirst(p, d)' <=> IsFirst(p, d)
      BY <2>1 DEF IsFirst
    <3> QED
      BY <3>1, <3>2 DEF ProgramOrderChained
  <2>5. ASSUME Ended', NEW d \in OwnVertices(p)
        PROVE  LeadsToEnd(d)' <=> IsLast(p, d)'
    <3>1. \A e : graph[e].type = "synthetic" => <<d, e>> \notin X
      BY DEF CrossPairs
    <3>2. LeadsToEnd(d)' <=> LeadsToEnd(d)
      BY <3>1 DEF LeadsToEnd, SameVertices, SameVertex
    <3>3. IsLast(p, d)' <=> IsLast(p, d)
      BY <2>1 DEF IsLast
    <3> QED
      BY <2>5, <3>2, <3>3 DEF ProgramOrderChained, Ended
  <2> QED
    BY <2>1, <2>3, <2>4, <2>5 DEF root_
<1> QED
  BY <1>1, <1>2, <1>3, <1>4, <1>5, <1>6

-----------------------------------------------------------------------------
(***************************************************************************)
(* Steps that add a vertex of a process.                                   *)
(***************************************************************************)
LastPoint(p) == IF edge_points[p] = <<>> THEN root_ ELSE Head(edge_points[p])

LEMMA PointFacts ==
  ASSUME IInv, NEW p \in Procs
  PROVE  IF OwnVertices(p) = {} THEN edge_points[p] = <<>> /\ LastPoint(p) = root_
         ELSE /\ edge_points[p] # <<>> /\ edge_points[p] = <<LastPoint(p)>>
              /\ LastPoint(p) \in OwnVertices(p) /\ IsLast(p, LastPoint(p))
<1>1. CASE OwnVertices(p) = {}
  BY <1>1 DEF IInv, PointsInv, LastPoint
<1>2. CASE OwnVertices(p) # {}
  <2>1. PICK d \in OwnVertices(p) : edge_points[p] = <<d>> /\ IsLast(p, d)
    BY <1>2 DEF IInv, PointsInv
  <2>2. edge_points[p] # <<>> /\ LastPoint(p) = d
    BY <2>1 DEF LastPoint
  <2> QED
    BY <1>2, <2>1, <2>2
<1> QED
  BY <1>1, <1>2

LEMMA BuildEdge ==
  ASSUME IInv, NEW p \in Procs, NEW d, build_edge(p, d)
  PROVE  /\ edges' = Append(edges, <<LastPoint(p), d>>)
         /\ DOMAIN edge_points' = Procs
         /\ edge_points'[p] = <<d>>
         /\ \A q \in Procs : q # p => edge_points'[q] = edge_points[q]
<1>1. DOMAIN edge_points = Procs
  BY DEF IInv, PointsInv
<1>2. CASE edge_points[p] = <<>>
  <2>1. Append(edge_points[p], d) = <<d>>
    BY <1>2
  <2> QED
    BY <1>1, <1>2, <2>1 DEF build_edge, AddEdge, LastPoint
<1>3. CASE edge_points[p] # <<>>
  <2>1. edge_points[p] = <<LastPoint(p)>>
    BY <1>3, PointFacts
  <2>2. Append(Tail(edge_points[p]), d) = <<d>>
    BY <2>1
  <2> QED
    BY <1>1, <1>3, <2>2 DEF build_edge, AddEdge, LastPoint
<1> QED
  BY <1>2, <1>3

LEMMA Added ==
  ASSUME IInv, Reading,
         NEW p \in Procs, NEW v, GoodVertex(v),
         v.type # "synthetic", v.proc = p, v.timestamp = Now(p),
         NEW n, n = Len(graph) + 1,
         graph' = Append(graph, v),
         build_edge(p, n),
         \/ UNCHANGED synchronizations
         \/ /\ v.type = "sync_event"
            /\ synchronizations' =
                 [synchronizations EXCEPT ![p] = Append(@, n)],
         pos' = [pos EXCEPT ![p] = @ + 1],
         UNCHANGED <<program, cursor, status>>
  PROVE  IInv'
<1> DEFINE src == LastPoint(p)
<1>1. /\ IsSequence(graph')
      /\ DOMAIN graph' = DOMAIN graph \cup {n}
      /\ graph'[n] = v
      /\ \A d \in DOMAIN graph : graph'[d] = graph[d]
      /\ n \notin DOMAIN graph
  BY AppendFacts DEF IInv, GraphInv
<1>2. n \in Nat /\ \A d \in DOMAIN graph : d \in Nat /\ d < n
  BY SequenceFacts DEF IInv, GraphInv
<1>3. /\ edges' = Append(edges, <<src, n>>)
      /\ DOMAIN edge_points' = Procs
      /\ edge_points'[p] = <<n>>
      /\ \A q \in Procs : q # p => edge_points'[q] = edge_points[q]
  BY BuildEdge
<1>4. /\ src \in DOMAIN graph
      /\ src # root_ <=> OwnVertices(p) # {}
      /\ OwnVertices(p) # {} => src \in OwnVertices(p) /\ IsLast(p, src)
  BY PointFacts DEF IInv, GraphInv, OwnVertices
<1> HIDE DEF src
<1>5. /\ OwnVertices(p)' = OwnVertices(p) \cup {n}
      /\ \A q \in Procs : q # p => OwnVertices(q)' = OwnVertices(q)
      /\ \A q \in Procs : OwnVertices(q) \subseteq DOMAIN graph
  BY <1>1 DEF OwnVertices
<1>6. GraphInv'
  BY <1>1 DEF IInv, GraphInv, root_
<1>7. EdgesInv' /\ Range(edges') = Range(edges) \cup {<<src, n>>}
  <2>1. edges \in Seq((DOMAIN graph') \X (DOMAIN graph'))
    BY <1>1, SeqMonotonic DEF IInv, EdgesInv
  <2>2. edges' \in Seq((DOMAIN graph') \X (DOMAIN graph'))
    BY <1>1, <1>3, <1>4, <2>1, AppendProperties
  <2>3. Range(edges') = Range(edges) \cup {<<src, n>>}
    BY <1>3, <2>1, SequenceOver, RangeAppend
  <2>4. n # root_
    BY <1>1 DEF IInv, GraphInv
  <2> QED
    BY <2>2, <2>3, <2>4 DEF IInv, EdgesInv, root_
<1>8. MatchingInv'
  <2>1. \A q \in Procs : SyncsOf(q) \subseteq SyncsOf(q)'
    BY <1>1, <1>5 DEF SyncsOf
  <2>2. \A q \in Procs : synchronizations[q] \in Seq(SyncsOf(q)')
    BY <2>1, SeqMonotonic DEF IInv, MatchingInv
  <2>3. v.type = "sync_event" => n \in SyncsOf(p)'
    BY <1>1, <1>5 DEF SyncsOf
  <2>4. v.type = "sync_event" => Append(synchronizations[p], n) \in Seq(SyncsOf(p)')
    BY <2>2, <2>3, AppendProperties
  <2> QED
    BY <2>2, <2>4 DEF IInv, MatchingInv
<1>9. PointsInv'
  <2>1. IsLast(p, n)'
    BY <1>2, <1>5 DEF IsLast
  <2>2. \A q \in Procs : \A d : q # p => IsLast(q, d)' = IsLast(q, d)
    BY <1>5 DEF IsLast
  <2>3. ASSUME NEW q \in Procs
        PROVE  IF OwnVertices(q)' = {} THEN edge_points'[q] = <<>>
               ELSE \E d \in OwnVertices(q)' : edge_points'[q] = <<d>> /\ IsLast(q, d)'
    <3>1. CASE q = p
      BY <1>3, <1>5, <2>1, <3>1
    <3>2. CASE q # p
      BY <1>3, <1>5, <2>2, <3>2 DEF IInv, PointsInv
    <3> QED
      BY <3>1, <3>2
  <2> QED
    BY <1>3, <2>3 DEF PointsInv
<1>10. pos[p] \in Nat /\ pos'[p] = pos[p] + 1 /\ pos' \in [Procs -> Nat]
       /\ \A q \in Procs : q # p => pos'[q] = pos[q]
  BY DEF IInv, ReadingInv
<1>11. ReadingInv'
  <2>1. ASSUME NEW q \in Procs, NEW d \in OwnVertices(q)'
        PROVE  graph'[d].timestamp <= pos'[q]
    <3>1. CASE d = n
      BY <1>1, <1>5, <1>10, <2>1, <3>1 DEF Now, OwnVertices
    <3>2. CASE d # n
      <4>1. d \in OwnVertices(q) /\ d \in DOMAIN graph
        BY <1>5, <2>1, <3>2
      <4>2. graph[d].timestamp <= pos[q] /\ graph[d].timestamp \in Nat
        BY <4>1 DEF IInv, ReadingInv, GraphInv, GoodVertex, OwnVertices
      <4> QED
        BY <1>1, <1>10, <4>1, <4>2
    <3> QED
      BY <3>1, <3>2
  <2> QED
    BY <1>10, <2>1 DEF IInv, ReadingInv
<1>12. RootInv'
  BY <1>1 DEF IInv, RootInv, Reading, root_
<1>13. ASSUME NEW d \in OwnVertices(p)', NEW e \in OwnVertices(p)'
       PROVE  /\ d < e => graph'[d].timestamp < graph'[e].timestamp
              /\ <<d, e>> \in Range(edges') <=> IsNext(p, d, e)'
  <2>1. CASE e = n /\ d = n
    <3>1. <<n, n>> \notin Range(edges')
      BY <1>1, <1>4, <1>7, RangeOfSeq DEF IInv, EdgesInv
    <3> QED
      BY <1>2, <2>1, <3>1 DEF IsNext
  <2>2. CASE e = n /\ d # n
    <3>1. d \in OwnVertices(p) /\ d \in DOMAIN graph /\ d \in Nat /\ d < n
      BY <1>2, <1>5, <2>2
    <3>2. graph[d].timestamp <= pos[p] /\ graph[d].timestamp \in Nat
      BY <3>1 DEF IInv, ReadingInv, GraphInv, GoodVertex, OwnVertices
    <3>3. graph'[d].timestamp < graph'[n].timestamp
      BY <1>1, <1>10, <3>1, <3>2 DEF Now
    <3>4. <<d, n>> \in Range(edges') <=> d = src
      BY <1>1, <1>7, RangeOfSeq DEF IInv, EdgesInv
    <3>5. IsNext(p, d, n)' <=> IsLast(p, d)
      BY <1>1, <1>2, <1>5, <3>1 DEF IsNext, IsLast
    <3>6. IsLast(p, d) <=> d = src
      BY <1>2, <1>4, <1>5, <3>1 DEF IsLast
    <3> QED
      BY <2>2, <3>3, <3>4, <3>5, <3>6
  <2>3. CASE e # n /\ d = n
    <3>1. e \in DOMAIN graph /\ e \in Nat /\ e < n
      BY <1>2, <1>5, <2>3
    <3>2. <<n, e>> \notin Range(edges')
      BY <1>1, <1>7, <2>3, RangeOfSeq DEF IInv, EdgesInv
    <3> QED
      BY <1>2, <2>3, <3>1, <3>2 DEF IsNext
  <2>4. CASE e # n /\ d # n
    <3>1. d \in OwnVertices(p) /\ e \in OwnVertices(p)
      BY <1>5, <2>4
    <3>2. d \in DOMAIN graph /\ e \in DOMAIN graph /\ e \in Nat /\ e < n
      BY <1>2, <1>5, <3>1
    <3>3. IsNext(p, d, e)' <=> IsNext(p, d, e)
      BY <1>2, <1>5, <3>2 DEF IsNext
    <3>4. <<d, e>> \in Range(edges') <=> <<d, e>> \in Range(edges)
      BY <1>7, <2>4
    <3> QED
      BY <1>1, <3>1, <3>2, <3>3, <3>4 DEF IInv, ProgramOrderChained
  <2> QED
    BY <2>1, <2>2, <2>3, <2>4
<1>14. ASSUME NEW d \in OwnVertices(p)'
       PROVE  <<root_, d>> \in Range(edges') <=> IsFirst(p, d)'
  <2>1. CASE d = n
    <3>1. <<root_, n>> \in Range(edges') <=> src = root_
      BY <1>1, <1>7, RangeOfSeq DEF IInv, EdgesInv
    <3>2. IsFirst(p, n)' <=> OwnVertices(p) = {}
      BY <1>2, <1>5 DEF IsFirst
    <3> QED
      BY <1>4, <2>1, <3>1, <3>2
  <2>2. CASE d # n
    <3>1. d \in OwnVertices(p) /\ d \in Nat /\ d < n
      BY <1>2, <1>5, <2>2
    <3>2. IsFirst(p, d)' <=> IsFirst(p, d)
      BY <1>2, <1>5, <3>1 DEF IsFirst
    <3>3. <<root_, d>> \in Range(edges') <=> <<root_, d>> \in Range(edges)
      BY <1>7, <2>2
    <3> QED
      BY <3>1, <3>2, <3>3 DEF IInv, ProgramOrderChained
  <2> QED
    BY <2>1, <2>2
<1>15. ASSUME NEW q \in Procs, q # p,
              NEW d \in OwnVertices(q), NEW e \in OwnVertices(q)
       PROVE  /\ d < e => graph'[d].timestamp < graph'[e].timestamp
              /\ <<d, e>> \in Range(edges') <=> IsNext(q, d, e)'
              /\ <<root_, d>> \in Range(edges') <=> IsFirst(q, d)'
  <2>1. d \in DOMAIN graph /\ e \in DOMAIN graph /\ d # n /\ e # n
    BY <1>1, <1>5
  <2>2. (IsNext(q, d, e)' <=> IsNext(q, d, e)) /\ (IsFirst(q, d)' <=> IsFirst(q, d))
    BY <1>5, <1>15 DEF IsNext, IsFirst
  <2>3. /\ <<d, e>> \in Range(edges') <=> <<d, e>> \in Range(edges)
        /\ <<root_, d>> \in Range(edges') <=> <<root_, d>> \in Range(edges)
    BY <1>7, <2>1
  <2> QED
    BY <1>1, <2>1, <2>2, <2>3 DEF IInv, ProgramOrderChained
<1>16. ProgramOrderChained'
  <2>1. status' \notin {"matching", "done", "returned"}
    BY DEF Reading
  <2>2. ASSUME NEW q \in Procs
        PROVE  /\ \A d, e \in OwnVertices(q)' :
                    /\ d < e => graph'[d].timestamp < graph'[e].timestamp
                    /\ <<d, e>> \in Range(edges') <=> IsNext(q, d, e)'
               /\ \A d \in OwnVertices(q)' : <<root_, d>> \in Range(edges') <=> IsFirst(q, d)'
    <3>1. CASE q = p
      BY <1>13, <1>14, <3>1
    <3>2. CASE q # p
      BY <1>5, <1>15, <3>2, ZenonT(40)
    <3> QED
      BY <3>1, <3>2
  <2> QED
    BY <2>1, <2>2 DEF ProgramOrderChained, root_
<1> QED
  BY <1>6, <1>7, <1>8, <1>9, <1>11, <1>12, <1>16 DEF IInv

-----------------------------------------------------------------------------
(***************************************************************************)
(* The synthetic end is led to by the last vertex of every process.        *)
(***************************************************************************)
LEMMA EndAdded ==
  ASSUME IInv, status = "events",
         create_synthetic_end,
         UNCHANGED <<program, pos, edge_points, synchronizations, cursor>>
  PROVE  IInv'
<1>1. CASE \E p \in Procs : edge_points[p] = <<>>
  <2>1. status' = "undefined" /\ UNCHANGED <<graph, edges>>
    BY <1>1 DEF create_synthetic_end
  <2>2. SameVertices(graph, graph')
    BY <2>1, VertexSet DEF IInv, GraphInv
  <2>3. MatchingInv'
    BY <2>2, SameOwn DEF IInv, MatchingInv
  <2>4. Range(edges') = Range(edges) \cup {}
        /\ edges' \in Seq((DOMAIN graph) \X (DOMAIN graph))
    BY <2>1 DEF IInv, EdgesInv
  <2>5. pos' \in [Procs -> Nat] /\ \A p \in Procs : pos[p] <= pos'[p]
    BY DEF IInv, ReadingInv
  <2>6. ~Reading' /\ ~Ended'
    BY <2>1 DEF Reading, Ended
  <2>7. {} \in SUBSET CrossPairs /\ UNCHANGED <<program, edge_points>>
    OBVIOUS
  <2> HIDE DEF IInv
  <2> QED
    BY <2>2, <2>3, <2>4, <2>5, <2>6, <2>7, Kept
<1>2. CASE ~\E p \in Procs : edge_points[p] = <<>>
  <2> DEFINE new == [m \in 1 .. NProcs |-> <<Head(edge_points[m - 1]), Len(graph) + 1>>]
  <2>1. PICK n : n = Len(graph) + 1
    OBVIOUS
  <2>2. /\ graph' = Append(graph, Synthetic("End"))
        /\ edges' = edges \o new
        /\ status' = "matching"
    BY <1>2 DEF create_synthetic_end
  <2>3. /\ IsSequence(graph')
        /\ DOMAIN graph' = DOMAIN graph \cup {n}
        /\ graph'[n] = Synthetic("End")
        /\ \A d \in DOMAIN graph : graph'[d] = graph[d]
        /\ n \notin DOMAIN graph
    BY <2>1, <2>2, AppendFacts DEF IInv, GraphInv
  <2>4. \A p \in Procs : OwnVertices(p)' = OwnVertices(p) /\ SyncsOf(p)' = SyncsOf(p)
    <3>1. \A p \in Procs : OwnVertices(p)' = OwnVertices(p)
      BY <2>3 DEF OwnVertices, Synthetic
    <3> QED
      BY <2>3, <3>1 DEF SyncsOf, OwnVertices
  <2>5. \A p \in Procs : /\ LastPoint(p) = Head(edge_points[p])
                         /\ LastPoint(p) \in OwnVertices(p)
                         /\ IsLast(p, LastPoint(p))
    BY <1>2, PointFacts DEF LastPoint
  <2>6. Range(edges') = Range(edges) \cup {<<LastPoint(p), n>> : p \in Procs}
        /\ edges' \in Seq((DOMAIN graph') \X (DOMAIN graph'))
    <3> DEFINE S == (DOMAIN graph') \X (DOMAIN graph')
    <3>1. edges \in Seq(S)
      BY <2>3, SeqMonotonic DEF IInv, EdgesInv
    <3>2. \A m \in 1 .. NProcs : m - 1 \in Procs
      BY NProcsAssumption DEF Procs
    <3>3. \A p \in Procs : <<LastPoint(p), n>> \in S
      BY <2>3, <2>5 DEF OwnVertices
    <3>4. \A m \in 1 .. NProcs : new[m] = <<LastPoint(m - 1), n>>
      BY <2>1, <2>5, <3>2
    <3>5. new \in [1 .. NProcs -> S]
      BY <3>2, <3>3, <3>4
    <3>6. new \in Seq(S)
      BY <3>5, NProcsAssumption, SeqDef
    <3>7. Range(new) = {<<LastPoint(p), n>> : p \in Procs}
      <4>1. \A p \in Procs : p + 1 \in 1 .. NProcs /\ (p + 1) - 1 = p
        BY NProcsAssumption DEF Procs
      <4>2. DOMAIN new = 1 .. NProcs
        OBVIOUS
      <4> HIDE DEF new
      <4>3. Range(new) \subseteq {<<LastPoint(p), n>> : p \in Procs}
        BY <3>2, <3>4, <4>2 DEF Range
      <4>4. ASSUME NEW p \in Procs PROVE <<LastPoint(p), n>> \in Range(new)
        <5>1. new[p + 1] = <<LastPoint(p), n>>
          BY <3>4, <4>1
        <5> QED
          BY <4>1, <4>2, <5>1 DEF Range
      <4> QED
        BY <4>3, <4>4
    <3> HIDE DEF new
    <3> QED
      BY <2>2, <3>1, <3>6, <3>7, RangeConcatenation, ConcatProperties
  <2> HIDE DEF new
  <2>7. \A x \in Range(edges) : /\ x[1] \in DOMAIN graph /\ x[2] \in DOMAIN graph
                                /\ x[2] # root_
    BY RangeOfSeq DEF IInv, EdgesInv
  <2>8. GraphInv'
    BY <2>3 DEF IInv, GraphInv, GoodVertex, Synthetic, root_
  <2>9. EdgesInv'
    BY <2>3, <2>6, <2>7 DEF IInv, EdgesInv, GraphInv, root_
  <2>10. MatchingInv'
    BY <2>4 DEF IInv, MatchingInv
  <2>11. PointsInv'
    BY <2>4 DEF IInv, PointsInv, IsLast
  <2>12. ReadingInv'
    BY <2>3, <2>4 DEF IInv, ReadingInv, OwnVertices
  <2>13. RootInv'
    BY <2>2 DEF RootInv, Reading
  <2>14. ASSUME NEW p \in Procs, NEW d \in OwnVertices(p), NEW e \in OwnVertices(p)
         PROVE  /\ d < e => graph'[d].timestamp < graph'[e].timestamp
                /\ <<d, e>> \in Range(edges') <=> IsNext(p, d, e)'
                /\ <<root_, d>> \in Range(edges') <=> IsFirst(p, d)'
    <3>1. d \in DOMAIN graph /\ e \in DOMAIN graph /\ d # n /\ e # n
      BY <2>3 DEF OwnVertices
    <3>2. (IsNext(p, d, e)' <=> IsNext(p, d, e)) /\ (IsFirst(p, d)' <=> IsFirst(p, d))
      BY <2>4 DEF IsNext, IsFirst
    <3>3. /\ <<d, e>> \in Range(edges') <=> <<d, e>> \in Range(edges)
          /\ <<root_, d>> \in Range(edges') <=> <<root_, d>> \in Range(edges)
      BY <2>6, <3>1
    <3> QED
      BY <2>3, <3>1, <3>2, <3>3 DEF IInv, ProgramOrderChained
  <2>15. ASSUME NEW p \in Procs, NEW d \in OwnVertices(p)
         PROVE  LeadsToEnd(d)' <=> IsLast(p, d)'
    <3>1. \A x \in OwnVertices(p) : x \in Nat
      BY SequenceFacts DEF IInv, GraphInv, OwnVertices
    <3>2. IsLast(p, d)' <=> d = LastPoint(p)
      BY <2>4, <2>5, <3>1 DEF IsLast
    <3>3. LeadsToEnd(d)' <=> <<d, n>> \in Range(edges')
      <4>1. \A e \in DOMAIN graph : graph'[e].type = "synthetic" => e = root_
        BY <2>3 DEF IInv, RootInv, Reading
      <4>2. <<d, root_>> \notin Range(edges')
        BY <2>3, <2>6, <2>7 DEF IInv, GraphInv
      <4>3. n \in DOMAIN graph' /\ graph'[n].type = "synthetic"
        BY <2>3 DEF Synthetic
      <4>4. \A e \in DOMAIN graph' : e = n \/ e \in DOMAIN graph
        BY <2>3
      <4>5. LeadsToEnd(d)' <=> \E e \in DOMAIN graph' : /\ graph'[e].type = "synthetic"
                                                      /\ <<d, e>> \in Range(edges')
        BY DEF LeadsToEnd
      <4> QED
        BY <4>1, <4>2, <4>3, <4>4, <4>5
    <3>4. <<d, n>> \in Range(edges') <=> \E q \in Procs : d = LastPoint(q)
      BY <2>3, <2>6, <2>7
    <3>5. \A q \in Procs : d = LastPoint(q) => q = p
      BY <2>5 DEF OwnVertices
    <3> QED
      BY <3>2, <3>3, <3>4, <3>5
  <2>16. ProgramOrderChained'
    BY <2>4, <2>14, <2>15 DEF ProgramOrderChained, root_
  <2> QED
    BY <2>8, <2>9, <2>10, <2>11, <2>12, <2>13, <2>16 DEF IInv
<1> QED
  BY <1>1, <1>2

-----------------------------------------------------------------------------
(***************************************************************************)
(* Reading                                                                 *)
(***************************************************************************)
LEMMA ReadKept ==
  ASSUME IInv, NEW p \in Procs, NEW kinds, Reads(p, kinds),
         SameVertices(graph, graph'),
         UNCHANGED <<edges, edge_points, synchronizations>>,
         status' \in {"events", "aborted"}
  PROVE  IInv'
<1>1. MatchingInv'
  BY SameOwn DEF IInv, MatchingInv, Reads
<1>2. Range(edges') = Range(edges) \cup {}
      /\ edges' \in Seq((DOMAIN graph) \X (DOMAIN graph))
  BY DEF IInv, EdgesInv
<1>3. pos' \in [Procs -> Nat] /\ \A q \in Procs : pos[q] <= pos'[q]
  BY DEF IInv, ReadingInv, Reads
<1>4. Reading /\ ~Ended'
  BY DEF Reads, Reading, Ended
<1>5. {} \in SUBSET CrossPairs /\ UNCHANGED <<program, edge_points>>
  BY DEF Reads
<1> QED
  BY <1>1, <1>2, <1>3, <1>4, <1>5, Kept

LEMMA ReadIgnored ==
  ASSUME IInv, NEW p \in Procs, NEW kinds, Reads(p, kinds),
         UNCHANGED <<graph, edges, edge_points, synchronizations>>,
         status' \in {"events", "aborted"}
  PROVE  IInv'
<1>1. SameVertices(graph, graph')
  BY VertexSet DEF IInv, GraphInv
<1> QED
  BY <1>1, ReadKept

LEMMA ReadAdded ==
  ASSUME IInv, NEW p \in Procs, NEW kinds, Reads(p, kinds),
         NEW v, GoodVertex(v), v.type # "synthetic", v.proc = p, v.timestamp = Now(p),
         AddVertex(p, v),
         \/ UNCHANGED synchronizations
         \/ /\ v.type = "sync_event"
            /\ synchronizations' =
                 [synchronizations EXCEPT ![p] = Append(@, Len(graph) + 1)],
         UNCHANGED status
  PROVE  IInv'
<1>1. PICK n : n = Len(graph) + 1
  OBVIOUS
<1>2. graph' = Append(graph, v) /\ build_edge(p, n)
  BY <1>1 DEF AddVertex
<1>3. /\ Reading
      /\ pos' = [pos EXCEPT ![p] = @ + 1]
      /\ UNCHANGED <<program, cursor, status>>
  BY DEF Reads, Reading
<1>4. \/ UNCHANGED synchronizations
      \/ /\ v.type = "sync_event"
         /\ synchronizations' = [synchronizations EXCEPT ![p] = Append(@, n)]
  BY <1>1
<1> QED
  BY <1>1, <1>2, <1>3, <1>4, Added

LEMMA IoAdded ==
  ASSUME IInv, NEW p \in Procs, NEW kinds, Reads(p, kinds),
         NEW name, NEW kind, NEW size, NEW offset,
         AddIoEvent(p, name, kind, size, offset)
  PROVE  IInv'
<1>1. PICK v : v = IoEvent(p, name, kind, size, offset)
  OBVIOUS
<1>2. Now(p) \in Nat
  BY DEF IInv, ReadingInv, Now
<1>3. /\ GoodVertex(v) /\ v.type # "synthetic"
      /\ v.proc = p /\ v.timestamp = Now(p)
  BY <1>1, <1>2 DEF IoEvent, GoodVertex
<1>4. AddVertex(p, v) /\ UNCHANGED <<synchronizations, status>>
  BY <1>1 DEF AddIoEvent
<1> QED
  BY <1>3, <1>4, ReadAdded

LEMMA SyncAdded ==
  ASSUME IInv, NEW p \in Procs, NEW kinds, Reads(p, kinds),
         NEW comm_kind, NEW remote \in Procs, NEW members \in Seq(Procs), NEW root,
         AddSyncEvent(p, SyncEvent(p, comm_kind, remote, members, root))
  PROVE  IInv'
<1>1. PICK v : v = SyncEvent(p, comm_kind, remote, members, root)
  OBVIOUS
<1>2. Now(p) \in Nat
  BY DEF IInv, ReadingInv, Now
<1>3. /\ GoodVertex(v) /\ v.type = "sync_event"
      /\ v.proc = p /\ v.timestamp = Now(p)
  BY <1>1, <1>2 DEF SyncEvent, GoodVertex
<1>4. /\ AddVertex(p, v) /\ UNCHANGED status
      /\ synchronizations' = [synchronizations EXCEPT ![p] = Append(@, Len(graph) + 1)]
  BY <1>1 DEF AddSyncEvent
<1> QED
  BY <1>3, <1>4, ReadAdded

(***************************************************************************)
(* The processes that the record of a synchronisation names.               *)
(***************************************************************************)
LEMMA SyncEventFacts ==
  ASSUME NEW tr, IsProgram(tr), NEW p \in Procs, NEW i \in DOMAIN tr[p]
  PROVE  /\ tr[p][i].kind = "mpi_collective_end" => tr[p][i].members \in Seq(Procs)
         /\ tr[p][i].kind \in PeerKinds => tr[p][i].remote \in Procs
<1>1. \A y \in SyncPlaces(tr) : y[1] \in Procs
  BY DEF SyncPlaces
<1>2. CASE tr[p][i].kind = "mpi_collective_end"
  <2>1. <<p, i>> \in SyncPlaces(tr)
    BY <1>2 DEF SyncPlaces, SyncKinds
  <2>2. tr[p][i].members = <<>> \/ tr[p][i].members \in Seq(Procs)
    BY <1>2, <2>1 DEF IsProgram, OperationsAgree
  <2> QED
    BY <1>2, <2>2, EmptySeq DEF PeerKinds
<1>3. CASE tr[p][i].kind \in PeerKinds
  <2>1. <<p, i>> \in SyncPlaces(tr) /\ tr[p][i].kind # "mpi_collective_end"
    BY <1>3 DEF SyncPlaces, SyncKinds, PeerKinds
  <2>2. \E y \in SyncPlaces(tr) : tr[p][i].remote = y[1]
    BY <2>1 DEF IsProgram, OperationsAgree
  <2> QED
    BY <1>1, <2>1, <2>2
<1> QED
  BY <1>2, <1>3

LEMMA EventStep ==
  ASSUME IInv, NEW p \in Procs,
         \/ Enter(p) \/ Leave(p)
         \/ OperationBegin(p) \/ OperationComplete(p)
         \/ CreateHandle(p) \/ DeleteFile(p) \/ DestroyHandle(p)
         \/ DuplicateHandle(p) \/ Seek(p)
         \/ CollectiveEnd(p) \/ PeerToPeer(p)
         \/ Other(p)
  PROVE  IInv'
<1>1. CASE Enter(p)
  BY <1>1, ReadIgnored DEF Enter, Reads
<1>2. CASE Leave(p)
  <2>1. SameVertices(graph, graph')
    BY <1>2, VertexSet DEF Leave, IInv, GraphInv
  <2> QED
    BY <1>2, <2>1, ReadKept DEF Leave, Reads
<1>3. CASE OperationBegin(p)
  BY <1>3, ReadIgnored DEF OperationBegin, Reads
<1>4. CASE OperationComplete(p)
  <2>1. Reads(p, {"io_operation_complete"})
    BY <1>4 DEF OperationComplete
  <2>2. CASE Ignore \/ Abort
    BY <2>1, <2>2, ReadIgnored DEF Ignore, Abort, Reads
  <2>3. ASSUME NEW kind, NEW size, NEW offset, AddIoEvent(p, Name(p), kind, size, offset)
        PROVE  IInv'
    BY <2>1, <2>3, IoAdded
  <2> QED
    BY <1>4, <2>2, <2>3 DEF OperationComplete
<1>5. CASE CreateHandle(p)
  <2>1. Reads(p, {"io_create_handle"})
    BY <1>5 DEF CreateHandle
  <2>2. CASE Ignore
    BY <2>1, <2>2, ReadIgnored DEF Ignore, Reads
  <2>3. CASE AddIoEvent(p, Name(p), "create", 0, 0)
    BY <2>1, <2>3, IoAdded
  <2> QED
    BY <1>5, <2>2, <2>3 DEF CreateHandle
<1>6. CASE DeleteFile(p)
  <2>1. Reads(p, {"io_delete_file"})
    BY <1>6 DEF DeleteFile
  <2>2. CASE Abort
    BY <2>1, <2>2, ReadIgnored DEF Abort, Reads
  <2>3. CASE AddIoEvent(p, evt(p).file, "delete_or_close", 0, 0)
    BY <2>1, <2>3, IoAdded
  <2> QED
    BY <1>6, <2>2, <2>3 DEF DeleteFile, Drop
<1>7. CASE DestroyHandle(p)
  <2>1. Reads(p, {"io_destroy_handle"})
    BY <1>7 DEF DestroyHandle
  <2>2. CASE Ignore \/ Abort
    BY <2>1, <2>2, ReadIgnored DEF Ignore, Abort, Reads
  <2>3. CASE AddIoEvent(p, Name(p), "delete_or_close", 0, 0)
    BY <2>1, <2>3, IoAdded
  <2> QED
    BY <1>7, <2>2, <2>3 DEF DestroyHandle, Drop
<1>8. CASE DuplicateHandle(p)
  BY <1>8, IoAdded DEF DuplicateHandle
<1>9. CASE Seek(p)
  <2>1. Reads(p, {"io_seek"})
    BY <1>9 DEF Seek
  <2>2. CASE Ignore
    BY <2>1, <2>2, ReadIgnored DEF Ignore, Reads
  <2>3. CASE AddIoEvent(p, Name(p), "seek", evt(p).offset, evt(p).offset)
    BY <2>1, <2>3, IoAdded
  <2> QED
    BY <1>9, <2>2, <2>3 DEF Seek
<1>10. IsProgram(program)
  BY ProgramsAssumption DEF IInv, ReadingInv
<1>11. CASE CollectiveEnd(p)
  <2>1. Reads(p, {"mpi_collective_end"})
    BY <1>11 DEF CollectiveEnd
  <2>2. CASE Ignore
    BY <2>1, <2>2, ReadIgnored DEF Ignore, Reads
  <2>3. evt(p).members \in Seq(Procs)
    BY <1>10, <2>1, SyncEventFacts DEF Reads, evt
  <2>4. CASE AddSyncEvent(p, SyncEvent(p, "collective", p, evt(p).members, evt(p).root))
    BY <2>1, <2>3, <2>4, SyncAdded
  <2> QED
    BY <1>11, <2>2, <2>4 DEF CollectiveEnd
<1>12. CASE PeerToPeer(p)
  <2>1. Reads(p, PeerKinds)
    BY <1>12 DEF PeerToPeer
  <2>2. evt(p).remote \in Procs /\ <<>> \in Seq(Procs)
    BY <1>10, <2>1, SyncEventFacts, EmptySeq DEF Reads, evt
  <2> QED
    BY <1>12, <2>1, <2>2, SyncAdded DEF PeerToPeer
<1>13. CASE Other(p)
  BY <1>13, ReadIgnored DEF Other, Ignore, Reads
<1> QED
  BY <1>1, <1>2, <1>3, <1>4, <1>5, <1>6, <1>7, <1>8, <1>9, <1>11, <1>12, <1>13

-----------------------------------------------------------------------------
(***************************************************************************)
(* Matching                                                                *)
(***************************************************************************)
LEMMA MatchKept ==
  ASSUME IInv, Matching,
         SameVertices(graph, graph'),
         MatchingInv',
         \/ UNCHANGED edges
         \/ \E x \in CrossPairs : edges' = Append(edges, x),
         UNCHANGED <<program, pos>>,
         ~Reading'
  PROVE  IInv'
<1>1. PICK X \in SUBSET CrossPairs :
        \/ X = {} /\ UNCHANGED edges
        \/ \E x \in CrossPairs : X = {x} /\ edges' = Append(edges, x)
  OBVIOUS
<1>2. /\ edges \in Seq((DOMAIN graph) \X (DOMAIN graph))
      /\ CrossPairs \subseteq (DOMAIN graph) \X (DOMAIN graph)
  BY DEF IInv, EdgesInv, CrossPairs
<1>3. /\ edges' \in Seq((DOMAIN graph) \X (DOMAIN graph))
      /\ Range(edges') = Range(edges) \cup X
  <2>1. CASE X = {} /\ UNCHANGED edges
    BY <1>2, <2>1
  <2>2. ASSUME NEW x \in CrossPairs, X = {x}, edges' = Append(edges, x)
        PROVE  /\ edges' \in Seq((DOMAIN graph) \X (DOMAIN graph))
               /\ Range(edges') = Range(edges) \cup X
    <3>1. x \in (DOMAIN graph) \X (DOMAIN graph)
      BY <1>2
    <3>2. edges' \in Seq((DOMAIN graph) \X (DOMAIN graph))
      BY <1>2, <2>2, <3>1, AppendProperties
    <3>3. Range(edges') = Range(edges) \cup {x}
      BY <1>2, <2>2, SequenceOver, RangeAppend
    <3> QED
      BY <2>2, <3>2, <3>3
  <2> QED
    BY <1>1, <2>1, <2>2
<1>4. /\ UNCHANGED <<program, edge_points>> /\ Ended
      /\ pos' \in [Procs -> Nat] /\ \A p \in Procs : pos[p] <= pos'[p]
  BY DEF IInv, ReadingInv, Matching, Ended
<1> QED
  BY <1>1, <1>3, <1>4, Kept

(* The vertex the loop is at is a synchronisation of the location it is at. *)
LEMMA VertexFacts ==
  ASSUME IInv, AtVertex
  PROVE  /\ Loc \in Procs
         /\ v_desc \in SyncsOf(Loc) /\ v_desc \in DOMAIN graph
         /\ vertex.type = "sync_event" /\ vertex.proc = Loc
         /\ vertex.remote \in Procs /\ vertex.members \in Seq(Procs)
<1>1. Loc \in Procs /\ cursor.i \in Nat \ {0}
  BY DEF IInv, MatchingInv, Loc
<1>2. synchronizations[Loc] \in Seq(SyncsOf(Loc))
  BY <1>1 DEF IInv, MatchingInv
<1>3. v_desc \in SyncsOf(Loc)
  BY <1>1, <1>2, LenProperties, ElementOfSeq DEF AtVertex, v_desc
<1> QED
  BY <1>1, <1>3 DEF IInv, GraphInv, GoodVertex, SyncsOf, OwnVertices, vertex

LEMMA CursorKept ==
  ASSUME IInv, SameVertices(graph, graph'),
         \/ UNCHANGED cursor
         \/ NextVertex
         \/ cursor' = [cursor EXCEPT !.k = @ + 1]
         \/ \E loc \in Procs : cursor' = [loc |-> loc, i |-> 1, k |-> 1],
         \/ UNCHANGED synchronizations
         \/ \E q \in Procs : \E n \in DOMAIN synchronizations[q] :
              synchronizations' = [synchronizations EXCEPT ![q] = RemoveAt(@, n)]
  PROVE  MatchingInv'
<1>1. cursor' \in [loc : Procs, i : Nat \ {0}, k : Nat \ {0}]
  <2>1. cursor \in [loc : Procs, i : Nat \ {0}, k : Nat \ {0}]
    BY DEF IInv, MatchingInv
  <2>2. ASSUME NEW c \in [loc : Procs, i : Nat \ {0}, k : Nat \ {0}]
        PROVE  /\ [c EXCEPT !.i = @ + 1, !.k = 1] \in [loc : Procs, i : Nat \ {0}, k : Nat \ {0}]
               /\ [c EXCEPT !.k = @ + 1] \in [loc : Procs, i : Nat \ {0}, k : Nat \ {0}]
    <3>1. c.i + 1 \in Nat \ {0} /\ c.k + 1 \in Nat \ {0} /\ 1 \in Nat \ {0}
      OBVIOUS
    <3>2. \A x, y \in Nat \ {0} :
            [c EXCEPT !.i = x, !.k = y] \in [loc : Procs, i : Nat \ {0}, k : Nat \ {0}]
      OBVIOUS
    <3>3. \A y \in Nat \ {0} :
            [c EXCEPT !.k = y] \in [loc : Procs, i : Nat \ {0}, k : Nat \ {0}]
      OBVIOUS
    <3> QED
      BY <3>1, <3>2, <3>3
  <2>3. \A loc \in Procs :
          [loc |-> loc, i |-> 1, k |-> 1] \in [loc : Procs, i : Nat \ {0}, k : Nat \ {0}]
    OBVIOUS
  <2> QED
    BY <2>1, <2>2, <2>3 DEF NextVertex
<1>2. DOMAIN synchronizations' = Procs
      /\ \A p \in Procs : synchronizations'[p] \in Seq(SyncsOf(p))
  <2>1. DOMAIN synchronizations = Procs
        /\ \A p \in Procs : synchronizations[p] \in Seq(SyncsOf(p))
    BY DEF IInv, MatchingInv
  <2>2. ASSUME NEW q \in Procs, NEW n \in DOMAIN synchronizations[q],
               synchronizations' = [synchronizations EXCEPT ![q] = RemoveAt(@, n)]
        PROVE  /\ DOMAIN synchronizations' = Procs
               /\ \A p \in Procs : synchronizations'[p] \in Seq(SyncsOf(p))
    <3>1. RemoveAt(synchronizations[q], n) \in Seq(SyncsOf(q))
      BY <2>1, RemoveFacts
    <3> QED
      BY <2>1, <2>2, <3>1
  <2> QED
    BY <2>1, <2>2
<1> QED
  BY <1>1, <1>2, SameOwn DEF MatchingInv

(* What a search finds is a synchronisation of the process it looks at. *)
LEMMA Found ==
  ASSUME IInv, AtVertex, NEW q \in Procs, q # vertex.proc,
         NEW places \in SUBSET DOMAIN synchronizations[q], places # {}
  PROVE  /\ First(places) \in DOMAIN synchronizations[q]
         /\ <<v_desc, synchronizations[q][First(places)]>> \in CrossPairs
<1>1. synchronizations[q] \in Seq(SyncsOf(q))
  BY DEF IInv, MatchingInv
<1>2. DOMAIN synchronizations[q] = 1 .. Len(synchronizations[q])
  BY <1>1, LenProperties
<1>3. First(places) \in places
  BY <1>2, FirstFacts
<1>4. synchronizations[q][First(places)] \in SyncsOf(q)
  BY <1>1, <1>2, <1>3, ElementOfSeq
<1>5. v_desc \in DOMAIN graph /\ graph[v_desc].type = "sync_event"
      /\ graph[v_desc].proc # q
  BY VertexFacts DEF vertex
<1> QED
  BY <1>3, <1>4, <1>5 DEF CrossPairs, SyncsOf, OwnVertices

LEMMA MatchStep ==
  ASSUME IInv, MatchingNext, UNCHANGED <<program, pos>>
  PROVE  IInv'
<1>1. SameVertices(graph, graph)
      /\ \A d, x : SameVertices(graph, [graph EXCEPT ![d].root_event = x])
  BY VertexSet DEF IInv, GraphInv
<1>2. CASE NextLocation
  <2>1. Loc + 1 \in Procs
    BY <1>2, NProcsAssumption DEF NextLocation, IInv, MatchingInv, Loc, Procs
  <2>2. SameVertices(graph, graph') /\ MatchingInv'
    BY <1>1, <1>2, <2>1, CursorKept DEF NextLocation
  <2> QED
    BY <1>2, <2>2, MatchKept DEF NextLocation, Matching, Reading
<1>3. CASE SkipVertex
  <2>1. SameVertices(graph, graph') /\ MatchingInv'
    BY <1>1, <1>3, CursorKept DEF SkipVertex
  <2> QED
    BY <1>3, <2>1, MatchKept DEF SkipVertex, Matching, Reading
<1>4. CASE SkipMyself
  <2>1. SameVertices(graph, graph') /\ MatchingInv'
    BY <1>1, <1>4, CursorKept DEF SkipMyself
  <2> QED
    BY <1>4, <2>1, MatchKept DEF SkipMyself, Matching, Reading
<1>5. CASE GiveUp /\ Matching
  <2>1. SameVertices(graph, graph') /\ MatchingInv'
    BY <1>1, <1>5, CursorKept DEF GiveUp
  <2> QED
    BY <1>5, <2>1, MatchKept DEF GiveUp, Reading
<1>6. CASE ConnectMember
  <2>1. PICK m : m = vertex.members[cursor.k]
    OBVIOUS
  <2>2. m \in Procs /\ m # vertex.proc
    <3>1. cursor.k \in 1 .. Len(vertex.members)
      BY <1>6, VertexFacts, LenProperties DEF ConnectMember, IInv, MatchingInv
    <3>2. m \in Procs
      BY <1>6, <2>1, <3>1, VertexFacts, ElementOfSeq DEF ConnectMember
    <3> QED
      BY <1>6, <2>1, <3>2 DEF ConnectMember
  <2>3. CASE CollectivesOf(m) = {}
    BY <1>5, <1>6, <2>1, <2>3 DEF ConnectMember
  <2>4. CASE CollectivesOf(m) # {}
    <3>1. PICK n : n = First(CollectivesOf(m))
      OBVIOUS
    <3>2. PICK target : target = synchronizations[m][n]
      OBVIOUS
    <3>3. /\ n \in DOMAIN synchronizations[m]
          /\ <<v_desc, target>> \in CrossPairs
      BY <1>6, <2>2, <2>4, <3>1, <3>2, Found DEF ConnectMember, CollectivesOf
    <3>4. /\ graph' = [graph EXCEPT ![target].root_event = v_desc]
          /\ edges' = Append(edges, <<v_desc, target>>)
          /\ synchronizations' = [synchronizations EXCEPT ![m] = RemoveAt(@, n)]
          /\ cursor' = [cursor EXCEPT !.k = @ + 1]
          /\ UNCHANGED status
      BY <1>6, <2>1, <2>4, <3>1, <3>2 DEF ConnectMember, Connect, AddEdge
    <3>5. SameVertices(graph, graph')
      BY <1>1, <3>4
    <3>6. MatchingInv'
      BY <2>2, <3>3, <3>4, <3>5, CursorKept
    <3> QED
      BY <1>6, <3>3, <3>4, <3>5, <3>6, MatchKept DEF ConnectMember, Matching, Reading
  <2> QED
    BY <2>3, <2>4
<1>7. CASE FinishCollective
  <2>1. SameVertices(graph, graph')
    BY <1>1, <1>7 DEF FinishCollective
  <2>2. MatchingInv'
    BY <1>7, <2>1, CursorKept DEF FinishCollective
  <2> QED
    BY <1>7, <2>1, <2>2, MatchKept DEF FinishCollective, Matching, Reading
<1>8. CASE ConnectPeer
  <2>1. PICK q : q = vertex.remote
    OBVIOUS
  <2>2. PICK n : n = First(PeersOf(q))
    OBVIOUS
  <2>3. PICK target : target = synchronizations[q][n]
    OBVIOUS
  <2>4. Matching /\ AtVertex
    BY <1>8 DEF ConnectPeer
  <2>5. CASE PeersOf(q) = {}
    BY <1>5, <1>8, <2>1, <2>5 DEF ConnectPeer
  <2>6. CASE PeersOf(q) # {} /\ q = vertex.proc
    <3>1. status' = "undefined" /\ UNCHANGED <<graph, edges, synchronizations, cursor>>
      BY <1>8, <2>1, <2>6 DEF ConnectPeer
    <3>2. SameVertices(graph, graph')
      BY <1>1, <3>1
    <3>3. MatchingInv'
      BY <3>1, <3>2, CursorKept
    <3> QED
      BY <2>4, <3>1, <3>2, <3>3, MatchKept DEF Reading
  <2>7. CASE PeersOf(q) # {} /\ q # vertex.proc
    <3>1. q \in Procs
      BY <2>1, <2>4, VertexFacts
    <3>2. /\ n \in DOMAIN synchronizations[q]
          /\ <<v_desc, target>> \in CrossPairs
      BY <2>2, <2>3, <2>4, <2>7, <3>1, Found DEF PeersOf
    <3>3. /\ graph' = [graph EXCEPT ![target].root_event = v_desc,
                                    ![v_desc].root_event = v_desc]
          /\ edges' = Append(edges, <<v_desc, target>>)
          /\ synchronizations' = [synchronizations EXCEPT ![q] = RemoveAt(@, n)]
          /\ NextVertex /\ UNCHANGED status
      BY <1>8, <2>1, <2>2, <2>3, <2>7 DEF ConnectPeer, AddEdge
    <3>4. SameVertices(graph, graph')
      <4>1. PICK g : g = [graph EXCEPT ![target].root_event = v_desc]
        OBVIOUS
      <4>2. SameVertices(graph, g)
        BY <1>1, <4>1
      <4>3. SameVertices(g, [g EXCEPT ![v_desc].root_event = v_desc])
        <5>1. IsSequence(g) /\ \A e \in DOMAIN g : GoodVertex(g[e])
          BY <4>2 DEF SameVertices, SameVertex
        <5> QED
          BY <5>1, VertexSet
      <4>4. SameVertices(g, graph')
        BY <3>3, <4>1, <4>3
      <4> QED
        BY <4>2, <4>4 DEF SameVertices, SameVertex
    <3>5. MatchingInv'
      BY <3>1, <3>2, <3>3, <3>4, CursorKept
    <3> QED
      BY <2>4, <3>2, <3>3, <3>4, <3>5, MatchKept DEF Matching, Reading
  <2> QED
    BY <2>5, <2>6, <2>7
<1>9. CASE set_graph_properties
  <2>1. SameVertices(graph, graph') /\ MatchingInv'
    BY <1>1, <1>9, CursorKept DEF set_graph_properties
  <2> QED
    BY <1>9, <2>1, MatchKept DEF set_graph_properties, Matching, Reading
<1> QED
  BY <1>2, <1>3, <1>4, <1>6, <1>7, <1>8, <1>9 DEF MatchingNext

-----------------------------------------------------------------------------
(***************************************************************************)
(* The invariant                                                           *)
(***************************************************************************)
LEMMA Initially ==
  ASSUME Init
  PROVE  IInv
<1>1. /\ graph = <<Synthetic("Root")>> /\ edges = <<>>
      /\ DOMAIN graph = {root_} /\ graph[root_] = Synthetic("Root")
  BY DEF Init, root_
<1>2. \A p : OwnVertices(p) = {}
  BY <1>1 DEF OwnVertices, Synthetic
<1>3. graph \in Seq({Synthetic("Root")})
  BY <1>1
<1>4. GraphInv
  <2>1. IsSequence(graph)
    BY <1>3, SequenceOver
  <2>2. GoodVertex(Synthetic("Root")) /\ Synthetic("Root").type = "synthetic"
    BY DEF GoodVertex, Synthetic
  <2> QED
    BY <1>1, <2>1, <2>2 DEF GraphInv
<1>5. EdgesInv
  <2>1. Range(edges) = {}
    BY <1>1 DEF Range
  <2> QED
    BY <1>1, <2>1, EmptySeq DEF EdgesInv
<1>6. MatchingInv
  <2>1. 0 \in Procs
    BY NProcsAssumption DEF Procs
  <2>2. cursor \in [loc : Procs, i : Nat \ {0}, k : Nat \ {0}]
    BY <2>1 DEF Init, FirstCursor
  <2>3. DOMAIN synchronizations = Procs /\ \A p \in Procs : synchronizations[p] = <<>>
    BY DEF Init
  <2> QED
    BY <2>2, <2>3, EmptySeq DEF MatchingInv
<1>7. PointsInv
  BY <1>2 DEF Init, PointsInv
<1>8. ReadingInv
  BY <1>2 DEF Init, ReadingInv
<1>9. RootInv
  BY <1>1 DEF RootInv
<1>10. ProgramOrderChained
  BY <1>2 DEF ProgramOrderChained
<1> QED
  BY <1>4, <1>5, <1>6, <1>7, <1>8, <1>9, <1>10 DEF IInv

LEMMA Inductive ==
  ASSUME IInv, [Next]_vars
  PROVE  IInv'
<1>1. ASSUME UNCHANGED <<program, pos, graph, edges, edge_points, synchronizations, cursor>>,
             Reading' => Reading, Ended' => Ended
      PROVE  IInv'
  <2>1. SameVertices(graph, graph')
    BY <1>1, VertexSet DEF IInv, GraphInv
  <2>2. MatchingInv'
    BY <1>1, <2>1, SameOwn DEF IInv, MatchingInv
  <2>3. /\ {} \in SUBSET CrossPairs
        /\ edges' \in Seq((DOMAIN graph) \X (DOMAIN graph))
        /\ Range(edges') = Range(edges) \cup {}
    BY <1>1 DEF IInv, EdgesInv
  <2>4. /\ UNCHANGED <<program, edge_points>>
        /\ pos' \in [Procs -> Nat] /\ \A p \in Procs : pos[p] <= pos'[p]
    BY <1>1 DEF IInv, ReadingInv
  <2> QED
    BY <1>1, <2>1, <2>2, <2>3, <2>4, Kept
<1>2. CASE DefinitionsNext
  BY <1>1, <1>2 DEF DefinitionsNext, RegisterLocation, DefinitionsDone, Reading, Ended
<1>3. CASE EventNext
  BY <1>3, EventStep DEF EventNext
<1>4. CASE EventsDone
  BY <1>4, EndAdded DEF EventsDone
<1>5. CASE Match
  BY <1>5, MatchStep DEF Match
<1>6. CASE UNCHANGED vars
  BY <1>1, <1>6 DEF vars, Reading, Ended
<1> QED
  BY <1>2, <1>3, <1>4, <1>5, <1>6 DEF Next

(***************************************************************************)
(* However the events of the processes are interleaved, whatever they are, *)
(* and whatever the matching connects: the vertices of a process form a    *)
(* chain in program order from the root to the synthetic end.              *)
(***************************************************************************)
THEOREM ProgramOrder == Spec => []ProgramOrderChained
<1>1. Init => IInv
  BY Initially
<1>2. IInv /\ [Next]_vars => IInv'
  BY Inductive
<1>3. IInv => ProgramOrderChained
  BY DEF IInv
<1> QED
  BY <1>1, <1>2, <1>3, PTL DEF Spec

-----------------------------------------------------------------------------
(***************************************************************************)
(* The mapping of locations and ranks.  First, remainders.                 *)
(***************************************************************************)
LEMMA RemainderUnique ==
  ASSUME NEW n \in Nat \ {0}, NEW k \in Int, NEW r \in 0 .. n - 1
  PROVE  (n * k + r) % n = r
BY SMTT(30)

LEMMA RemainderOfSmall ==
  ASSUME NEW n \in Nat \ {0}, NEW p \in 0 .. n - 1
  PROVE  p % n = p
BY SMTT(30)

LEMMA Rounds ==
  ASSUME NEW n \in Nat \ {0}, NEW p \in Nat
  PROVE  \E k \in Int : p - (p % n) = n * k
<1>1. PICK k, m : k = p \div n /\ m = p % n
  OBVIOUS
<1>2. k \in Int /\ m \in Int /\ p = n * k + m
  BY <1>1, Remainder
<1>3. n * k \in Int
  BY <1>2
<1>4. p - m = n * k
  BY <1>2, <1>3
<1> QED
  BY <1>1, <1>2, <1>4

(* Moving within a round, and to the round before. *)
LEMMA RemainderMoved ==
  ASSUME NEW n \in Nat \ {0}, NEW p \in Nat, NEW r \in 0 .. n - 1
  PROVE  /\ (p - (p % n) + r) % n = r
         /\ (p - (p % n) - n + r) % n = r
<1>1. PICK k \in Int : p - (p % n) = n * k
  BY Rounds
<1>2. (n * k + r) % n = r /\ (n * (k - 1) + r) % n = r
  BY RemainderUnique
<1>3. n * (k - 1) = n * k - n
  OBVIOUS
<1>4. p - (p % n) + r = n * k + r /\ p - (p % n) - n + r = n * (k - 1) + r
  BY <1>1, <1>3, Remainder
<1> QED
  BY <1>2, <1>4

-----------------------------------------------------------------------------
(***************************************************************************)
(* The invariant: which pairs the maps hold.                               *)
(***************************************************************************)
Registered == {p \in Procs : ~Unregistered(p)}

MapInv ==
  /\ loc_to_rank = {<<p, p % NRanks>> : p \in Registered}
  /\ rank_to_loc = {<<p % NRanks, p>> : p \in Registered}
  /\ status # "definitions" => Registered = Procs

LEMMA Registering ==
  ASSUME MapInv, NEW p \in Procs, register_location(p)
  PROVE  /\ Registered' = Registered \cup {p}
         /\ loc_to_rank' = {<<q, q % NRanks>> : q \in Registered'}
         /\ rank_to_loc' = {<<q % NRanks, q>> : q \in Registered'}
<1>1. /\ loc_to_rank' = loc_to_rank \cup {<<p, p % NRanks>>}
      /\ rank_to_loc' = rank_to_loc \cup {<<p % NRanks, p>>}
  BY DEF register_location, round_robin_mapping
<1>2. Registered' = Registered \cup {p}
  <2>1. \A q : Unregistered(q)' <=> Unregistered(q) /\ q # p
    <3>1. <<p, p % NRanks>>[1] = p
      OBVIOUS
    <3> QED
      BY <1>1, <3>1, Zenon DEF Unregistered
  <2> QED
    BY <2>1 DEF Registered
<1> QED
  BY <1>1, <1>2 DEF MapInv

LEMMA MapInductive ==
  ASSUME MapInv, [Next]_vars
  PROVE  MapInv'
<1>1. ASSUME UNCHANGED mapping_vars, status # "definitions"
      PROVE  MapInv'
  BY <1>1 DEF MapInv, Registered, Unregistered, mapping_vars
<1>2. CASE RegisterLocation
  BY <1>2, Registering DEF RegisterLocation, MapInv
<1>3. CASE DefinitionsDone
  BY <1>3 DEF DefinitionsDone, MapInv, Registered, Unregistered, mapping_vars
<1>4. CASE EventNext
  <2>1. PICK p \in Procs : \E kinds : Reads(p, kinds)
    BY <1>4, Zenon DEF EventNext, Enter, Leave, OperationBegin, OperationComplete,
       CreateHandle, DeleteFile, DestroyHandle, DuplicateHandle, Seek,
       CollectiveEnd, PeerToPeer, Other
  <2> QED
    BY <1>1, <2>1 DEF Reads
<1>5. CASE EventsDone
  BY <1>1, <1>5 DEF EventsDone
<1>6. CASE Match
  <2>1. status = "matching"
    BY <1>6 DEF Match, MatchingNext, Matching, NextLocation, SkipVertex, SkipMyself,
       ConnectMember, FinishCollective, ConnectPeer, set_graph_properties
  <2> QED
    BY <1>1, <1>6, <2>1 DEF Match
<1>7. CASE UNCHANGED vars
  BY <1>7 DEF vars, MapInv, Registered, Unregistered, mapping_vars
<1> QED
  BY <1>2, <1>3, <1>4, <1>5, <1>6, <1>7 DEF Next, DefinitionsNext

-----------------------------------------------------------------------------
(***************************************************************************)
(* The locations of a rank                                                 *)
(***************************************************************************)
Share(r) == {p \in Procs : p % NRanks = r}

LEMMA ShareFinite == \A r : IsFiniteSet(Share(r)) /\ Cardinality(Share(r)) \in Nat
<1>1. IsFiniteSet(Procs)
  BY NProcsAssumption, FS_Interval DEF Procs
<1> QED
  BY <1>1, FS_Subset, FS_CardinalityType DEF Share

(* Ranks that come first have no smaller share ... *)
LEMMA ShareFalls ==
  ASSUME NEW r \in 0 .. NRanks - 1, NEW s \in 0 .. NRanks - 1, r <= s
  PROVE  Cardinality(Share(s)) <= Cardinality(Share(r))
<1> DEFINE f == [p \in Share(s) |-> p - s + r]
<1>1. ASSUME NEW p \in Share(s) PROVE p - s + r \in Share(r)
  <2>1. p \in Nat /\ p % NRanks = s /\ p < NProcs
    BY NProcsAssumption DEF Share, Procs
  <2>2. (p - s + r) % NRanks = r /\ s <= p
    BY <2>1, NRanksAssumption, Remainder, RemainderMoved
  <2> QED
    BY <2>1, <2>2, NProcsAssumption DEF Share, Procs
<1>2. f \in Injection(Share(s), Share(r))
  BY <1>1, NProcsAssumption DEF Injection, IsInjective, Share, Procs
<1> QED
  BY <1>2, ShareFinite, FS_Injection

(* ... and at most one location more. *)
LEMMA ShareEven ==
  ASSUME NEW r \in 0 .. NRanks - 1, NEW s \in 0 .. NRanks - 1, r <= s
  PROVE  Cardinality(Share(r)) <= Cardinality(Share(s)) + 1
<1> DEFINE rest == Share(r) \ {r}
           f == [p \in rest |-> p - r - NRanks + s]
<1>1. ASSUME NEW p \in rest PROVE p - r - NRanks + s \in Share(s)
  <2>1. p \in Nat /\ p % NRanks = r /\ p < NProcs /\ p # r
    BY NProcsAssumption DEF Share, Procs
  <2>2. (p - r - NRanks + s) % NRanks = s
    BY <2>1, NRanksAssumption, RemainderMoved
  <2>3. p >= NRanks
    BY <2>1, NRanksAssumption, RemainderOfSmall
  <2>4. p - r >= NRanks
    <3>1. PICK k \in Int : p - r = NRanks * k
      BY <2>1, NRanksAssumption, Rounds
    <3>2. k >= 1
      BY <2>1, <2>3, <3>1, NRanksAssumption, SMTT(30)
    <3> QED
      BY <2>1, <3>1, <3>2, NRanksAssumption, SMTT(30)
  <2> QED
    BY <2>1, <2>2, <2>4, NProcsAssumption, NRanksAssumption DEF Share, Procs
<1>2. f \in Injection(rest, Share(s))
  <2>1. f \in [rest -> Share(s)]
    BY <1>1
  <2>2. \A p \in rest : p \in Int
    BY NProcsAssumption DEF Share, Procs
  <2>3. \A p, q \in rest : f[p] = f[q] => p = q
    BY <2>2, NRanksAssumption
  <2> QED
    BY <2>1, <2>3 DEF Injection, IsInjective
<1>3. Cardinality(rest) <= Cardinality(Share(s))
  BY <1>2, ShareFinite, FS_Injection
<1>4. IsFiniteSet(rest) /\ Cardinality(Share(r)) <= Cardinality(rest) + 1
  BY ShareFinite, FS_RemoveElement, FS_Subset, FS_CardinalityType, SMTT(30)
<1> QED
  BY <1>3, <1>4, ShareFinite, FS_CardinalityType

LEMMA ShareEmpty ==
  ASSUME NEW r \in 0 .. NRanks - 1
  PROVE  Cardinality(Share(r)) = 0 <=> r >= NProcs
<1>1. r < NProcs => r \in Share(r)
  BY NRanksAssumption, NProcsAssumption, RemainderOfSmall DEF Share, Procs
<1>2. ASSUME NEW p \in Share(r) PROVE r < NProcs
  BY NRanksAssumption, NProcsAssumption, Remainder DEF Share, Procs
<1>3. Share(r) = {} <=> r >= NProcs
  BY <1>1, <1>2, NProcsAssumption
<1> QED
  BY <1>3, ShareFinite, FS_EmptySet

(***************************************************************************)
(* Once all locations are registered, the two maps are inverse to each     *)
(* other, every location has one rank, the ranks without location are the  *)
(* surplus ones, and no rank has two locations more than another.          *)
(***************************************************************************)
LEMMA MapRight ==
  ASSUME MapInv
  PROVE  MappingRight
<1> SUFFICES ASSUME status # "definitions"
             PROVE  MappingRight
  BY DEF MappingRight
<1>1. /\ loc_to_rank = {<<p, p % NRanks>> : p \in Procs}
      /\ rank_to_loc = {<<p % NRanks, p>> : p \in Procs}
  BY DEF MapInv
<1>2. ASSUME NEW r PROVE local_locations(r) = Share(r)
  <2>1. {y \in rank_to_loc : y[1] = r} = {<<r, p>> : p \in Share(r)}
    BY <1>1 DEF Share
  <2>2. local_locations(r) = {x[2] : x \in {<<r, p>> : p \in Share(r)}}
    BY <2>1 DEF local_locations
  <2>3. \A p : <<r, p>>[2] = p
    OBVIOUS
  <2>4. {x[2] : x \in {<<r, p>> : p \in Share(r)}} = {<<r, p>>[2] : p \in Share(r)}
    BY Zenon
  <2> QED
    BY <2>2, <2>3, <2>4
<1>3. \A p \in Procs : p % NRanks \in 0 .. NRanks - 1
  BY NRanksAssumption, NProcsAssumption, Remainder DEF Procs
<1>4. rank_to_loc = {<<x[2], x[1]>> : x \in loc_to_rank}
  <2> DEFINE pair(p) == <<p, p % NRanks>>
  <2>1. loc_to_rank = {pair(p) : p \in Procs}
    BY <1>1
  <2>2. \A p : pair(p)[1] = p /\ pair(p)[2] = p % NRanks
    OBVIOUS
  <2> HIDE DEF pair
  <2>3. {<<x[2], x[1]>> : x \in loc_to_rank} = {<<pair(p)[2], pair(p)[1]>> : p \in Procs}
    BY <2>1
  <2> QED
    BY <1>1, <2>2, <2>3
<1>5. \A p \in Procs : \E r \in 0 .. NRanks - 1 : {x \in loc_to_rank : x[1] = p} = {<<p, r>>}
  BY <1>1, <1>3
<1>6. \A r \in 0 .. NRanks - 1 : Cardinality(local_locations(r)) = 0 <=> r >= NProcs
  BY <1>2, ShareEmpty
<1>7. \A r, s \in 0 .. NRanks - 1 :
        Cardinality(local_locations(r)) <= Cardinality(local_locations(s)) + 1
  <2> SUFFICES ASSUME NEW r \in 0 .. NRanks - 1, NEW s \in 0 .. NRanks - 1
               PROVE  Cardinality(Share(r)) <= Cardinality(Share(s)) + 1
    BY <1>2
  <2>1. Cardinality(Share(r)) \in Nat /\ Cardinality(Share(s)) \in Nat
    BY ShareFinite
  <2>2. CASE r <= s
    BY <2>2, ShareEven
  <2>3. CASE s <= r
    BY <2>1, <2>3, ShareFalls
  <2> QED
    BY <2>2, <2>3
<1> QED
  BY <1>4, <1>5, <1>6, <1>7 DEF MappingRight

THEOREM Mapping == Spec => []MappingRight
<1>1. Init => MapInv
  BY DEF Init, MappingInit, MapInv, Registered, Unregistered
<1>2. MapInv /\ [Next]_vars => MapInv'
  BY MapInductive
<1>3. MapInv => MappingRight
  BY MapRight
<1> QED
  BY <1>1, <1>2, <1>3, PTL DEF Spec
=============================================================================
