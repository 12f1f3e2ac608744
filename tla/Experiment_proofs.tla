--------------------------- MODULE Experiment_proofs ---------------------------
(***************************************************************************)
(* Every graph that the builder returns is one on which the search is      *)
(* proved to make exactly the segments of every process: what CioVisitor   *)
(* promises holds in every experiment.  So what the merge is handed is of  *)
(* the form it is proved for, experiments on sound traces do not fail, and *)
(* what the scripts report of the files in the end is real.                *)
(***************************************************************************)
EXTENDS ExperimentProperties, SyncMatching_proofs

V == INSTANCE CioVisitor_proofs

-----------------------------------------------------------------------------
(***************************************************************************)
(* The order of the edges of a vertex.  Matching adds edges between        *)
(* processes when all that lead along a process are there.                 *)
(***************************************************************************)
Joins(x) == x \in CrossPairs /\ graph[x[2]].type = "sync_event"

Along(x) == \E p \in Procs : x[1] \in OwnVertices(p) /\ x[2] \in OwnVertices(p)

RootEdges ==
  /\ \A m \in DOMAIN edges : edges[m][1] = root_ => graph[edges[m][2]].type # "synthetic"
  /\ \A m, n \in DOMAIN edges :
       edges[m][1] = root_ /\ edges[n][1] = root_ /\ edges[m][2] = edges[n][2] => m = n

LaterEdges ==
  \A m, n \in DOMAIN edges :
    m < n /\ edges[m][1] = edges[n][1] /\ edges[m][1] # root_ => Joins(edges[n])

Leaving == \A m \in DOMAIN edges : edges[m][1] # root_ => graph[edges[m][1]].type # "synthetic"

ReadEdges == Reading => \A m \in DOMAIN edges : edges[m][1] # root_ => Along(edges[m])

Ends ==
  Ended => /\ Len(graph) > 1
           /\ \A d \in DOMAIN graph : graph[d].type = "synthetic" <=> d \in {root_, Len(graph)}
           /\ \A p \in Procs : OwnVertices(p) # {}

ShapeInv == RootEdges /\ LaterEdges /\ Leaving /\ ReadEdges /\ Ends

LEMMA EdgePlaces ==
  ASSUME IInv
  PROVE  /\ DOMAIN edges = 1 .. Len(edges) /\ Len(edges) \in Nat
         /\ \A m \in DOMAIN edges : /\ edges[m] \in Range(edges) /\ edges[m] = <<edges[m][1], edges[m][2]>>
                                    /\ edges[m][1] \in DOMAIN graph /\ edges[m][2] \in DOMAIN graph
                                    /\ edges[m][2] # root_
<1>1. DOMAIN edges = 1 .. Len(edges) /\ Len(edges) \in Nat
      /\ \A m \in 1 .. Len(edges) : edges[m] \in (DOMAIN graph) \X (DOMAIN graph)
  BY LenProperties DEF IInv, EdgesInv
<1>2. \A m \in DOMAIN edges : edges[m] \in Range(edges)
  BY DEF Range
<1>3. \A x \in Range(edges) : x[2] # root_
  BY DEF IInv, EdgesInv
<1> QED
  BY <1>1, <1>2, <1>3

(* No edge leads on from the vertex that was the last of its process. *)
LEMMA NoneFromLast ==
  ASSUME IInv, ShapeInv, Reading, NEW p \in Procs, NEW d \in OwnVertices(p), IsLast(p, d),
         NEW m \in DOMAIN edges
  PROVE  edges[m][1] # d
<1> SUFFICES ASSUME edges[m][1] = d PROVE FALSE
  OBVIOUS
<1>1. d # root_ /\ d \in DOMAIN graph /\ d \in Nat
  BY SequenceFacts DEF OwnVertices, IInv, GraphInv
<1>2. Along(edges[m])
  BY <1>1 DEF ShapeInv, ReadEdges
<1>3. edges[m][2] \in OwnVertices(p)
  BY <1>2 DEF Along, OwnVertices
<1>4. <<d, edges[m][2]>> \in Range(edges)
  BY EdgePlaces
<1>5. d < edges[m][2]
  BY <1>3, <1>4 DEF IInv, ProgramOrderChained, IsNext
<1>6. edges[m][2] <= d /\ edges[m][2] \in Nat
  BY <1>3, SequenceFacts DEF IsLast, OwnVertices, IInv, GraphInv
<1> QED
  BY <1>1, <1>5, <1>6

LEMMA ShapeKept ==
  ASSUME IInv, ShapeInv, SameVertices(graph, graph'), UNCHANGED edges,
         Reading' => Reading, Ended' => Ended
  PROVE  ShapeInv'
<1>1. /\ DOMAIN graph' = DOMAIN graph
      /\ \A d \in DOMAIN graph :
           /\ graph'[d].type = graph[d].type
           /\ graph[d].type # "synthetic" => graph'[d].proc = graph[d].proc
  BY DEF SameVertices, SameVertex
<1>2. \A p : OwnVertices(p)' = OwnVertices(p)
  BY SameOwn
<1>3. \A m \in DOMAIN edges : edges[m][1] \in DOMAIN graph /\ edges[m][2] \in DOMAIN graph
  BY EdgePlaces
<1>4. CrossPairs' = CrossPairs
  BY <1>1 DEF CrossPairs
<1>5. RootEdges'
  BY <1>1, <1>3 DEF ShapeInv, RootEdges, root_
<1>6. LaterEdges'
  <2>1. \A m \in DOMAIN edges : Joins(edges[m]) => Joins(edges[m])'
    BY <1>1, <1>3, <1>4 DEF Joins
  <2> QED
    BY <2>1 DEF ShapeInv, LaterEdges, root_
<1>7. Leaving'
  BY <1>1, <1>3 DEF ShapeInv, Leaving, root_
<1>8. ReadEdges'
  BY <1>2 DEF ShapeInv, ReadEdges, Along, root_
<1>9. Ends'
  <2>1. Len(graph') = Len(graph)
    <3>1. /\ Len(graph) \in Nat /\ DOMAIN graph = 1 .. Len(graph)
          /\ Len(graph') \in Nat /\ DOMAIN graph' = 1 .. Len(graph')
      BY SequenceFacts DEF IInv, GraphInv, SameVertices
    <3> QED
      BY <1>1, <3>1, SameLength
  <2> QED
    BY <1>1, <1>2, <2>1 DEF ShapeInv, Ends, root_
<1> QED
  BY <1>5, <1>6, <1>7, <1>8, <1>9 DEF ShapeInv

LEMMA AppendedEdge ==
  ASSUME IInv, NEW x, edges' = Append(edges, x)
  PROVE  /\ DOMAIN edges' = DOMAIN edges \cup {Len(edges) + 1}
         /\ Len(edges) + 1 \notin DOMAIN edges /\ edges'[Len(edges) + 1] = x
         /\ \A m \in DOMAIN edges : edges'[m] = edges[m] /\ m < Len(edges) + 1
         /\ Len(edges) \in Nat
<1>1. IsSequence(edges)
  BY SequenceOver DEF IInv, EdgesInv
<1>2. \A m \in DOMAIN edges : m < Len(edges) + 1 /\ Len(edges) \in Nat
  BY EdgePlaces
<1> QED
  BY <1>1, <1>2, AppendFacts, EdgePlaces

LEMMA ShapeMatched ==
  ASSUME IInv, ShapeInv, SameVertices(graph, graph'),
         NEW x, Joins(x), edges' = Append(edges, x), ~Reading', Ended' => Ended
  PROVE  ShapeInv'
<1>1. /\ DOMAIN graph' = DOMAIN graph
      /\ \A d \in DOMAIN graph :
           /\ graph'[d].type = graph[d].type
           /\ graph[d].type # "synthetic" => graph'[d].proc = graph[d].proc
  BY DEF SameVertices, SameVertex
<1>2. \A p : OwnVertices(p)' = OwnVertices(p)
  BY SameOwn
<1>3. /\ \A m \in DOMAIN edges : edges[m][1] \in DOMAIN graph /\ edges[m][2] \in DOMAIN graph
      /\ DOMAIN edges \subseteq Nat
  BY EdgePlaces
<1> DEFINE n == Len(edges) + 1
<1>4. /\ DOMAIN edges' = DOMAIN edges \cup {n} /\ n \notin DOMAIN edges /\ edges'[n] = x
      /\ \A m \in DOMAIN edges : edges'[m] = edges[m] /\ m < n
      /\ n \in Nat
  BY AppendedEdge
<1> HIDE DEF n
<1>5. CrossPairs' = CrossPairs
  BY <1>1 DEF CrossPairs
<1>6. x[1] \in DOMAIN graph /\ x[2] \in DOMAIN graph /\ graph[x[1]].type # "synthetic" /\ x[1] # root_
  BY DEF Joins, CrossPairs, IInv, GraphInv
<1>7. RootEdges'
  BY <1>1, <1>3, <1>4, <1>6 DEF ShapeInv, RootEdges, root_
<1>8. LaterEdges'
  <2>1. \A m \in DOMAIN edges : Joins(edges[m]) => Joins(edges[m])'
    BY <1>1, <1>3, <1>4, <1>5 DEF Joins
  <2>2. n \in DOMAIN edges' /\ \A m \in DOMAIN edges' : m = n => Joins(edges[m])'
    BY <1>1, <1>4, <1>5, <1>6 DEF Joins
  <2>3. \A m \in DOMAIN edges : ~(n < m)
    BY <1>3, <1>4
  <2>4. ASSUME NEW k \in DOMAIN edges', NEW m \in DOMAIN edges', k < m,
               edges'[k][1] = edges'[m][1], edges'[k][1] # root_
        PROVE  Joins(edges[m])'
    <3>1. CASE m = n
      BY <2>2, <3>1
    <3>2. CASE m # n
      <4>1. m \in DOMAIN edges /\ k \in DOMAIN edges
        BY <1>4, <2>3, <2>4, <3>2
      <4>2. Joins(edges[m])
        BY <1>4, <2>4, <4>1 DEF ShapeInv, LaterEdges
      <4> QED
        BY <1>1, <1>3, <1>4, <1>5, <4>1, <4>2 DEF Joins
    <3> QED
      BY <3>1, <3>2
  <2> QED
    BY <2>4 DEF LaterEdges, root_
<1>9. Leaving'
  BY <1>1, <1>3, <1>4, <1>6 DEF ShapeInv, Leaving, root_
<1>10. ReadEdges'
  BY DEF ReadEdges
<1>11. Ends'
  <2>1. Len(graph') = Len(graph)
    <3>1. /\ Len(graph) \in Nat /\ DOMAIN graph = 1 .. Len(graph)
          /\ Len(graph') \in Nat /\ DOMAIN graph' = 1 .. Len(graph')
      BY SequenceFacts DEF IInv, GraphInv, SameVertices
    <3> QED
      BY <1>1, <3>1, SameLength
  <2> QED
    BY <1>1, <1>2, <2>1 DEF ShapeInv, Ends, root_
<1> QED
  BY <1>7, <1>8, <1>9, <1>10, <1>11 DEF ShapeInv

-----------------------------------------------------------------------------
(***************************************************************************)
(* Adding a vertex, and the synthetic end.                                 *)
(***************************************************************************)
LEMMA ShapeAdded ==
  ASSUME IInv, ShapeInv, Reading, NEW p \in Procs, NEW v, v.type # "synthetic", v.proc = p,
         NEW n, n = Len(graph) + 1, graph' = Append(graph, v), build_edge(p, n),
         UNCHANGED status
  PROVE  ShapeInv'
<1> DEFINE src == LastPoint(p)
           k == Len(edges) + 1
<1>1. /\ DOMAIN graph' = DOMAIN graph \cup {n} /\ n \notin DOMAIN graph /\ graph'[n] = v
      /\ \A d \in DOMAIN graph : graph'[d] = graph[d]
  BY AppendFacts DEF IInv, GraphInv
<1>2. edges' = Append(edges, <<src, n>>)
  BY BuildEdge
<1>3. /\ DOMAIN edges' = DOMAIN edges \cup {k} /\ k \notin DOMAIN edges
      /\ edges'[k] = <<src, n>>
      /\ \A m \in DOMAIN edges : edges'[m] = edges[m] /\ m < k
      /\ k \in Nat
  BY <1>2, AppendedEdge
<1>4. /\ DOMAIN edges \subseteq Nat
      /\ \A m \in DOMAIN edges : edges[m][1] \in DOMAIN graph /\ edges[m][2] \in DOMAIN graph
  BY EdgePlaces
<1>5. src # root_ => src \in OwnVertices(p) /\ IsLast(p, src)
  BY PointFacts
<1>6. \A q \in Procs : OwnVertices(q)' = IF q = p THEN OwnVertices(q) \cup {n} ELSE OwnVertices(q)
  BY <1>1 DEF OwnVertices
<1>7. \A m \in DOMAIN edges : src # root_ => edges[m][1] # src
  BY <1>5, NoneFromLast
<1> HIDE DEF src, k
<1>8. RootEdges'
  <2>1. ASSUME NEW m \in DOMAIN edges', edges'[m][1] = root_
        PROVE  graph'[edges'[m][2]].type # "synthetic"
    BY <1>1, <1>3, <1>4, <2>1 DEF ShapeInv, RootEdges
  <2>2. ASSUME NEW m \in DOMAIN edges', NEW j \in DOMAIN edges',
               edges'[m][1] = root_, edges'[j][1] = root_, edges'[m][2] = edges'[j][2]
        PROVE  m = j
    <3>1. CASE m = k \/ j = k
      BY <1>1, <1>3, <1>4, <2>2, <3>1
    <3>2. CASE m # k /\ j # k
      BY <1>3, <2>2, <3>2 DEF ShapeInv, RootEdges
    <3> QED
      BY <3>1, <3>2
  <2> QED
    BY <2>1, <2>2 DEF RootEdges, root_
<1>9. LaterEdges'
  <2> SUFFICES ASSUME NEW j \in DOMAIN edges', NEW m \in DOMAIN edges', j < m,
                      edges'[j][1] = edges'[m][1], edges'[j][1] # root_
               PROVE  Joins(edges[m])'
    BY DEF LaterEdges, root_
  <2>1. m \in DOMAIN edges /\ j \in DOMAIN edges
    <3>1. m # k
      <4> SUFFICES ASSUME m = k PROVE FALSE
        OBVIOUS
      <4>1. j \in DOMAIN edges /\ edges[j][1] = src /\ src # root_
        BY <1>3
      <4> QED
        BY <1>7, <4>1
    <3>2. m \in DOMAIN edges
      BY <1>3, <3>1
    <3>3. j # k
      BY <1>3, <1>4, <3>2
    <3> QED
      BY <1>3, <3>2, <3>3
  <2>2. Joins(edges[m])
    BY <1>3, <2>1 DEF ShapeInv, LaterEdges
  <2> QED
    BY <1>1, <1>3, <2>1, <2>2 DEF Joins, CrossPairs
<1>10. Leaving'
  <2>1. src # root_ => src \in DOMAIN graph /\ graph[src].type # "synthetic"
    BY <1>5 DEF OwnVertices
  <2> QED
    BY <1>1, <1>3, <1>4, <2>1 DEF ShapeInv, Leaving, root_
<1>11. ReadEdges'
  <2>1. ASSUME NEW m \in DOMAIN edges', edges'[m][1] # root_
        PROVE  Along(edges[m])'
    <3>1. CASE m = k
      BY <1>3, <1>5, <1>6, <2>1, <3>1 DEF Along
    <3>2. CASE m # k
      <4>1. m \in DOMAIN edges /\ edges'[m] = edges[m]
        BY <1>3, <3>2
      <4>2. Along(edges[m])
        BY <2>1, <4>1 DEF ShapeInv, ReadEdges
      <4> QED
        BY <1>6, <4>1, <4>2 DEF Along
    <3> QED
      BY <3>1, <3>2
  <2> QED
    BY <2>1 DEF ReadEdges, root_
<1>12. Ends'
  BY DEF Ends, Ended, Reading
<1> QED
  BY <1>8, <1>9, <1>10, <1>11, <1>12 DEF ShapeInv

LEMMA ShapeEnd ==
  ASSUME IInv, ShapeInv, status = "events", create_synthetic_end
  PROVE  ShapeInv'
<1>1. CASE \E p \in Procs : edge_points[p] = <<>>
  <2>1. status' = "undefined" /\ UNCHANGED <<graph, edges>>
    BY <1>1 DEF create_synthetic_end
  <2>2. SameVertices(graph, graph')
    BY <2>1, VertexSet DEF IInv, GraphInv
  <2> QED
    BY <2>1, <2>2, ShapeKept DEF Reading, Ended
<1>2. CASE ~\E p \in Procs : edge_points[p] = <<>>
  <2> DEFINE n == Len(graph) + 1
             new == [m \in 1 .. NProcs |-> <<Head(edge_points[m - 1]), n>>]
             e == Len(edges)
             Source(m) == LastPoint(m - e - 1)
  <2>1. /\ graph' = Append(graph, Synthetic("End")) /\ edges' = edges \o new
        /\ status' = "matching"
    BY <1>2 DEF create_synthetic_end
  <2>2. /\ IsSequence(graph')
        /\ DOMAIN graph' = DOMAIN graph \cup {n} /\ n \notin DOMAIN graph
        /\ graph'[n].type = "synthetic"
        /\ \A d \in DOMAIN graph : graph'[d] = graph[d]
    BY <2>1, AppendFacts DEF IInv, GraphInv, Synthetic
  <2>3. \A p \in Procs : /\ LastPoint(p) = Head(edge_points[p])
                         /\ LastPoint(p) \in OwnVertices(p) /\ IsLast(p, LastPoint(p))
                         /\ OwnVertices(p) # {} /\ LastPoint(p) # root_
    BY <1>2, PointFacts DEF LastPoint, OwnVertices, IInv, GraphInv
  <2>4. /\ e \in Nat /\ DOMAIN edges = 1 .. e
        /\ DOMAIN edges' = 1 .. e + NProcs
        /\ \A m \in 1 .. e + NProcs :
             edges'[m] = IF m <= e THEN edges[m] ELSE new[m - e]
    <3>1. edges \in Seq((DOMAIN graph) \X (DOMAIN graph))
      BY DEF IInv, EdgesInv
    <3>2. new \in Seq(Range(new)) /\ Len(new) = NProcs
      <4>1. new \in [1 .. NProcs -> Range(new)] /\ NProcs \in Nat
        BY NProcsAssumption DEF Range
      <4> HIDE DEF new
      <4>2. new \in Seq(Range(new)) /\ DOMAIN new = 1 .. NProcs
        BY <4>1, SeqDef
      <4>3. Len(new) \in Nat /\ 1 .. Len(new) = 1 .. NProcs
        BY <4>2, LenProperties
      <4> QED
        BY <4>1, <4>2, <4>3, SameLength
    <3>3. e \in Nat /\ DOMAIN edges = 1 .. e
      BY EdgePlaces
    <3>4. IsSequence(edges) /\ IsSequence(new)
      BY <3>1, <3>2, SequenceOver
    <3> HIDE DEF new
    <3>5. /\ DOMAIN (edges \o new) = 1 .. Len(edges) + Len(new)
          /\ \A i \in 1 .. Len(edges) + Len(new) :
               (edges \o new)[i] = IF i <= Len(edges) THEN edges[i] ELSE new[i - Len(edges)]
      OBVIOUS
    <3> QED
      BY <2>1, <3>2, <3>3, <3>5
  <2>5. ASSUME NEW m \in DOMAIN edges'
        PROVE  \/ m \in DOMAIN edges /\ edges'[m] = edges[m]
               \/ m > e /\ m - e - 1 \in Procs /\ edges'[m] = <<Source(m), n>>
    <3>1. CASE m <= e
      <4> HIDE DEF new, e
      <4>1. m \in 1 .. e
        BY <2>4, <3>1, NProcsAssumption
      <4> QED
        BY <2>4, <4>1
    <3>2. CASE m > e
      <4>1. m - e \in 1 .. NProcs /\ m - e - 1 \in Procs /\ edges'[m] = new[m - e]
        <5> HIDE DEF new, e
        <5>1. m \in 1 .. e + NProcs /\ e \in Nat /\ NProcs \in Nat /\ m > e
          BY <2>4, <3>2, NProcsAssumption
        <5>2. m - e \in 1 .. NProcs /\ m - e - 1 \in Procs
          BY <5>1 DEF Procs
        <5> QED
          BY <2>4, <5>1, <5>2
      <4>2. new[m - e] = <<Head(edge_points[m - e - 1]), n>>
        BY <4>1
      <4> QED
        BY <2>3, <3>2, <4>1, <4>2
    <3> QED
      BY <2>4, <3>1, <3>2
  <2>6. \A m \in DOMAIN edges : /\ m \in Nat /\ m <= e
                                /\ edges[m][1] \in DOMAIN graph /\ edges[m][2] \in DOMAIN graph
    BY <2>4, EdgePlaces
  <2>7. ASSUME NEW m \in DOMAIN edges', m \notin DOMAIN edges
        PROVE  /\ Source(m) # root_ /\ Source(m) \in DOMAIN graph
               /\ graph[Source(m)].type # "synthetic"
               /\ graph[Source(m)].proc = m - e - 1
               /\ \A j \in DOMAIN edges : edges[j][1] # Source(m)
    <3>1. m - e - 1 \in Procs
      BY <2>5, <2>7
    <3>2. Source(m) \in OwnVertices(m - e - 1) /\ IsLast(m - e - 1, Source(m))
          /\ Source(m) # root_
      BY <2>3, <3>1
    <3> HIDE DEF Source
    <3> QED
      BY <3>1, <3>2, NoneFromLast DEF OwnVertices, Reading
  <2>8. DOMAIN edges' \subseteq Nat
    BY <2>4, NProcsAssumption
  <2>9. RootEdges'
    <3>1. ASSUME NEW m \in DOMAIN edges', edges'[m][1] = root_
          PROVE  m \in DOMAIN edges /\ edges'[m] = edges[m]
      BY <2>5, <2>7, <3>1
    <3> HIDE DEF new, e, Source, n
    <3> QED
      BY <2>2, <2>6, <3>1 DEF ShapeInv, RootEdges, root_
  <2>10. LaterEdges'
    <3> SUFFICES ASSUME NEW j \in DOMAIN edges', NEW m \in DOMAIN edges', j < m,
                        edges'[j][1] = edges'[m][1], edges'[j][1] # root_
                 PROVE  Joins(edges[m])'
      BY DEF LaterEdges, root_
    <3>1. j \in Nat /\ m \in Nat /\ e \in Nat
      BY <2>4, <2>8
    <3>2. CASE m \in DOMAIN edges
      <4>1. j \in DOMAIN edges /\ edges'[j] = edges[j] /\ edges'[m] = edges[m]
        BY <2>5, <2>6, <3>1, <3>2
      <4>2. Joins(edges[m])
        BY <4>1, <3>2 DEF ShapeInv, LaterEdges
      <4> QED
        BY <2>2, <4>1, <4>2 DEF Joins, CrossPairs
    <3>3. CASE m \notin DOMAIN edges
      <4>1. edges'[m][1] = Source(m)
        BY <2>5, <3>3
      <4>2. j \notin DOMAIN edges
        BY <2>5, <2>7, <3>3, <4>1, <2>6, <3>1
      <4>3. edges'[j][1] = Source(j)
        BY <2>5, <4>2
      <4>4. m - e - 1 = j - e - 1
        BY <2>7, <3>3, <4>1, <4>2, <4>3
      <4> HIDE DEF e
      <4> QED
        BY <3>1, <4>4
    <3> QED
      BY <3>2, <3>3
  <2>11. Leaving'
    <3>1. ASSUME NEW m \in DOMAIN edges', edges'[m][1] # root_
          PROVE  graph'[edges'[m][1]].type # "synthetic"
      <4>1. CASE m \in DOMAIN edges
        <5>1. edges'[m] = edges[m]
          BY <2>5, <2>6, <4>1
        <5> QED
          BY <2>2, <2>6, <3>1, <4>1, <5>1 DEF ShapeInv, Leaving
      <4>2. CASE m \notin DOMAIN edges
        <5>1. edges'[m][1] = Source(m)
          BY <2>5, <4>2
        <5> QED
          BY <2>2, <2>7, <4>2, <5>1
      <4> QED
        BY <4>1, <4>2
    <3> QED
      BY <3>1 DEF Leaving, root_
  <2>12. ReadEdges'
    BY <2>1 DEF ReadEdges, Reading
  <2>13. Ends'
    <3>1. Len(graph') = n
      <4>1. Len(graph) \in Nat
        BY SequenceFacts DEF IInv, GraphInv
      <4> QED
        BY <2>1, AppendProperties DEF IInv, GraphInv, IsSequence
    <3>2. n > 1
      <4>1. Len(graph) \in Nat /\ 1 \in 1 .. Len(graph)
        BY SequenceFacts DEF IInv, GraphInv, root_
      <4> QED
        BY <4>1
    <3>3. \A d \in DOMAIN graph : graph[d].type = "synthetic" <=> d = root_
      BY DEF IInv, GraphInv, RootInv, Reading
    <3>4. \A d \in DOMAIN graph' : graph'[d].type = "synthetic" <=> d \in {root_, n}
      BY <2>2, <3>3
    <3>5. \A p \in Procs : OwnVertices(p)' # {}
      BY <2>2, <2>3 DEF OwnVertices
    <3> HIDE DEF n
    <3> QED
      BY <3>1, <3>2, <3>4, <3>5 DEF Ends, root_
  <2> QED
    BY <2>9, <2>10, <2>11, <2>12, <2>13 DEF ShapeInv
<1> QED
  BY <1>1, <1>2

-----------------------------------------------------------------------------
(***************************************************************************)
(* Every step of the builder                                               *)
(***************************************************************************)
LEMMA ReadShapeKept ==
  ASSUME IInv, ShapeInv, NEW p \in Procs, NEW kinds, Reads(p, kinds),
         SameVertices(graph, graph'), UNCHANGED edges, status' \in {"events", "aborted"}
  PROVE  ShapeInv'
BY ShapeKept DEF Reads, Reading, Ended

LEMMA ReadShapeIgnored ==
  ASSUME IInv, ShapeInv, NEW p \in Procs, NEW kinds, Reads(p, kinds),
         UNCHANGED <<graph, edges>>, status' \in {"events", "aborted"}
  PROVE  ShapeInv'
<1>1. SameVertices(graph, graph')
  BY VertexSet DEF IInv, GraphInv
<1> QED
  BY <1>1, ReadShapeKept

LEMMA ReadShapeAdded ==
  ASSUME IInv, ShapeInv, NEW p \in Procs, NEW kinds, Reads(p, kinds),
         NEW v, v.type # "synthetic", v.proc = p, AddVertex(p, v), UNCHANGED status
  PROVE  ShapeInv'
<1>1. PICK n : n = Len(graph) + 1
  OBVIOUS
<1>2. graph' = Append(graph, v) /\ build_edge(p, n) /\ Reading
  BY <1>1 DEF AddVertex, Reads, Reading
<1> QED
  BY <1>1, <1>2, ShapeAdded

LEMMA IoShape ==
  ASSUME IInv, ShapeInv, NEW p \in Procs, NEW kinds, Reads(p, kinds),
         NEW name, NEW kind, NEW size, NEW offset, AddIoEvent(p, name, kind, size, offset)
  PROVE  ShapeInv'
<1>1. PICK v : v = IoEvent(p, name, kind, size, offset)
  OBVIOUS
<1>2. v.type # "synthetic" /\ v.proc = p /\ AddVertex(p, v) /\ UNCHANGED status
  BY <1>1 DEF IoEvent, AddIoEvent
<1> QED
  BY <1>2, ReadShapeAdded

LEMMA SyncShape ==
  ASSUME IInv, ShapeInv, NEW p \in Procs, NEW kinds, Reads(p, kinds),
         NEW comm_kind, NEW remote, NEW members, NEW root,
         AddSyncEvent(p, SyncEvent(p, comm_kind, remote, members, root))
  PROVE  ShapeInv'
<1>1. PICK v : v = SyncEvent(p, comm_kind, remote, members, root)
  OBVIOUS
<1>2. v.type # "synthetic" /\ v.proc = p /\ AddVertex(p, v) /\ UNCHANGED status
  BY <1>1 DEF SyncEvent, AddSyncEvent
<1> QED
  BY <1>2, ReadShapeAdded

LEMMA EventKeepsShape ==
  ASSUME IInv, ShapeInv, NEW p \in Procs,
         \/ Enter(p) \/ Leave(p)
         \/ OperationBegin(p) \/ OperationComplete(p)
         \/ CreateHandle(p) \/ DeleteFile(p) \/ DestroyHandle(p)
         \/ DuplicateHandle(p) \/ Seek(p)
         \/ CollectiveEnd(p) \/ PeerToPeer(p)
         \/ Other(p)
  PROVE  ShapeInv'
<1>1. CASE Enter(p)
  BY <1>1, ReadShapeIgnored DEF Enter, Reads
<1>2. CASE Leave(p)
  <2>1. SameVertices(graph, graph')
    BY <1>2, VertexSet DEF Leave, IInv, GraphInv
  <2> QED
    BY <1>2, <2>1, ReadShapeKept DEF Leave, Reads
<1>3. CASE OperationBegin(p)
  BY <1>3, ReadShapeIgnored DEF OperationBegin, Reads
<1>4. ASSUME NEW kinds, Reads(p, kinds), Ignore \/ Abort PROVE ShapeInv'
  BY <1>4, ReadShapeIgnored DEF Ignore, Abort, Reads
<1>5. ASSUME NEW kinds, Reads(p, kinds), NEW name, NEW kind, NEW size, NEW offset,
             AddIoEvent(p, name, kind, size, offset)
      PROVE  ShapeInv'
  BY <1>5, IoShape
<1>6. CASE OperationComplete(p)
  BY <1>4, <1>5, <1>6 DEF OperationComplete
<1>7. CASE CreateHandle(p)
  BY <1>4, <1>5, <1>7 DEF CreateHandle
<1>8. CASE DeleteFile(p)
  BY <1>4, <1>5, <1>8 DEF DeleteFile, Drop
<1>9. CASE DestroyHandle(p)
  BY <1>4, <1>5, <1>9 DEF DestroyHandle, Drop
<1>10. CASE DuplicateHandle(p)
  BY <1>5, <1>10 DEF DuplicateHandle
<1>11. CASE Seek(p)
  BY <1>4, <1>5, <1>11 DEF Seek
<1>12. CASE CollectiveEnd(p)
  BY <1>4, <1>12, SyncShape DEF CollectiveEnd
<1>13. CASE PeerToPeer(p)
  BY <1>13, SyncShape DEF PeerToPeer
<1>14. CASE Other(p)
  BY <1>4, <1>14 DEF Other
<1> QED
  BY <1>1, <1>2, <1>3, <1>6, <1>7, <1>8, <1>9, <1>10, <1>11, <1>12, <1>13, <1>14

(* The matching draws edges to synchronisations of other processes. *)
LEMMA FoundMatched ==
  ASSUME IInv, AtVertex, NEW q \in Procs, q # vertex.proc,
         NEW places \in SUBSET DOMAIN synchronizations[q], places # {}
  PROVE  Joins(<<v_desc, synchronizations[q][First(places)]>>)
<1>1. /\ First(places) \in DOMAIN synchronizations[q]
      /\ <<v_desc, synchronizations[q][First(places)]>> \in CrossPairs
  BY Found
<1>2. synchronizations[q] \in Seq(SyncsOf(q))
  BY DEF IInv, MatchingInv
<1>3. synchronizations[q][First(places)] \in SyncsOf(q)
  BY <1>1, <1>2, LenProperties, ElementOfSeq
<1> QED
  BY <1>1, <1>3 DEF Joins, SyncsOf

LEMMA MatchKeepsShape ==
  ASSUME IInv, ShapeInv, MatchingNext
  PROVE  ShapeInv'
<1>1. SameVertices(graph, graph)
      /\ \A d, x : SameVertices(graph, [graph EXCEPT ![d].root_event = x])
  BY VertexSet DEF IInv, GraphInv
<1>2. ~Reading /\ Ended /\ status = "matching"
  BY DEF MatchingNext, NextLocation, SkipVertex, SkipMyself, ConnectMember,
         FinishCollective, ConnectPeer, set_graph_properties, Matching, Reading, Ended
<1>3. ASSUME UNCHANGED <<graph, edges>>, status' \notin {"definitions", "events"}
      PROVE  ShapeInv'
  <2>1. SameVertices(graph, graph')
    BY <1>1, <1>3
  <2> QED
    BY <1>2, <1>3, <2>1, ShapeKept DEF Reading
<1>4. CASE NextLocation \/ SkipVertex \/ SkipMyself \/ set_graph_properties
  BY <1>2, <1>3, <1>4 DEF NextLocation, SkipVertex, SkipMyself, set_graph_properties
<1>5. CASE FinishCollective
  <2>1. SameVertices(graph, graph') /\ UNCHANGED <<edges, status>>
    BY <1>1, <1>5 DEF FinishCollective
  <2> QED
    BY <2>1, ShapeKept DEF Reading, Ended
<1>6. CASE ConnectMember
  <2>1. PICK m : m = vertex.members[cursor.k]
    OBVIOUS
  <2>2. m \in Procs /\ m # vertex.proc
    <3>1. cursor.k \in 1 .. Len(vertex.members)
      BY <1>6, VertexFacts, LenProperties DEF ConnectMember, IInv, MatchingInv
    <3>2. m \in Procs
      BY <1>6, <2>1, <3>1, VertexFacts, ElementOfSeq DEF ConnectMember
    <3> QED
      BY <1>6, <2>1, <3>2 DEF ConnectMember
  <2>3. CASE CollectivesOf(m) = {}
    BY <1>3, <1>6, <2>1, <2>3 DEF ConnectMember, GiveUp
  <2>4. CASE CollectivesOf(m) # {}
    <3>1. PICK target : target = synchronizations[m][First(CollectivesOf(m))]
      OBVIOUS
    <3>2. Joins(<<v_desc, target>>)
      BY <1>6, <2>2, <2>4, <3>1, FoundMatched DEF ConnectMember, CollectivesOf
    <3>3. /\ graph' = [graph EXCEPT ![target].root_event = v_desc]
          /\ edges' = Append(edges, <<v_desc, target>>)
          /\ UNCHANGED status
      BY <1>6, <2>1, <2>4, <3>1 DEF ConnectMember, Connect, AddEdge
    <3>4. SameVertices(graph, graph')
      BY <1>1, <3>3
    <3> QED
      BY <1>2, <3>2, <3>3, <3>4, ShapeMatched DEF Reading, Ended
  <2> QED
    BY <2>3, <2>4
<1>7. CASE ConnectPeer
  <2>1. PICK q : q = vertex.remote
    OBVIOUS
  <2>2. PICK target : target = synchronizations[q][First(PeersOf(q))]
    OBVIOUS
  <2>3. CASE PeersOf(q) = {}
    BY <1>3, <1>7, <2>1, <2>3 DEF ConnectPeer, GiveUp
  <2>4. CASE PeersOf(q) # {} /\ q = vertex.proc
    BY <1>3, <1>7, <2>1, <2>4 DEF ConnectPeer
  <2>5. CASE PeersOf(q) # {} /\ q # vertex.proc
    <3>1. AtVertex /\ q \in Procs
      BY <1>7, <2>1, VertexFacts DEF ConnectPeer
    <3>2. Joins(<<v_desc, target>>)
      BY <2>2, <2>5, <3>1, FoundMatched DEF PeersOf
    <3>3. /\ graph' = [graph EXCEPT ![target].root_event = v_desc,
                                    ![v_desc].root_event = v_desc]
          /\ edges' = Append(edges, <<v_desc, target>>)
          /\ UNCHANGED status
      BY <1>7, <2>1, <2>2, <2>5 DEF ConnectPeer, AddEdge
    <3>4. SameVertices(graph, graph')
      <4>1. PICK g : g = [graph EXCEPT ![target].root_event = v_desc]
        OBVIOUS
      <4>2. SameVertices(graph, g)
        BY <1>1, <4>1
      <4>3. SameVertices(g, [g EXCEPT ![v_desc].root_event = v_desc])
        <5>1. IsSequence(g) /\ \A e \in DOMAIN g : GoodVertex(g[e])
          BY <4>2 DEF SameVertices, SameVertex
        <5> QED
          BY <5>1, VertexSet
      <4>4. SameVertices(g, graph')
        BY <3>3, <4>1, <4>3
      <4> QED
        BY <4>2, <4>4 DEF SameVertices, SameVertex
    <3> QED
      BY <1>2, <3>2, <3>3, <3>4, ShapeMatched DEF Reading, Ended
  <2> QED
    BY <2>3, <2>4, <2>5
<1> QED
  BY <1>4, <1>5, <1>6, <1>7 DEF MatchingNext

LEMMA ShapeInitially ==
  ASSUME Init
  PROVE  ShapeInv
<1>1. edges = <<>> /\ DOMAIN edges = {} /\ ~Ended
  BY DEF Init, Ended
<1> QED
  BY <1>1 DEF ShapeInv, RootEdges, LaterEdges, Leaving, ReadEdges, Ends

LEMMA ShapeInductive ==
  ASSUME IInv, ShapeInv, Next
  PROVE  ShapeInv'
<1>1. CASE DefinitionsNext
  <2>1. /\ UNCHANGED <<graph, edges>> /\ Reading
        /\ status' \in {"definitions", "events"}
    BY <1>1 DEF DefinitionsNext, RegisterLocation, DefinitionsDone, Reading
  <2>2. SameVertices(graph, graph')
    BY <2>1, VertexSet DEF IInv, GraphInv
  <2> QED
    BY <2>1, <2>2, ShapeKept DEF Ended
<1>2. CASE EventNext
  BY <1>2, EventKeepsShape DEF EventNext
<1>3. CASE EventsDone
  BY <1>3, ShapeEnd DEF EventsDone
<1>4. CASE Match
  BY <1>4, MatchKeepsShape DEF Match
<1> QED
  BY <1>1, <1>2, <1>3, <1>4 DEF Next

-----------------------------------------------------------------------------
(***************************************************************************)
(* What the search relies on                                               *)
(***************************************************************************)
LEMMA SameNames ==
  /\ \A p : V!Own(p) = OwnVertices(p)
  /\ \A v : V!IsSynthetic(v) <=> graph[v].type = "synthetic"
  /\ \A v : V!IsSync(v) <=> graph[v].type = "sync_event"
  /\ \A v : V!out_edges(v) = {e \in DOMAIN edges : edges[e][1] = v}
BY DEF V!Own, V!IsSynthetic, V!IsSync, V!out_edges, OwnVertices

LEMMA OwnPlaces ==
  ASSUME IInv, ShapeInv, Ended
  PROVE  /\ Len(graph) \in Nat /\ DOMAIN graph = 1 .. Len(graph) /\ 1 < Len(graph)
         /\ \A p : \A v \in OwnVertices(p) :
              /\ v \in Nat /\ 1 < v /\ v < Len(graph) /\ graph[v].proc = p
              /\ graph[v].type # "synthetic"
         /\ \A d \in DOMAIN graph : graph[d].type = "synthetic" <=> d \in {1, Len(graph)}
<1>1. Len(graph) \in Nat /\ DOMAIN graph = 1 .. Len(graph)
  BY SequenceFacts DEF IInv, GraphInv
<1>2. /\ Len(graph) > 1
      /\ \A d \in DOMAIN graph : graph[d].type = "synthetic" <=> d \in {1, Len(graph)}
  BY DEF ShapeInv, Ends, root_
<1>3. \A p : \A v \in OwnVertices(p) : /\ v \in 1 .. Len(graph) /\ v # 1 /\ v # Len(graph)
                                       /\ graph[v].proc = p /\ graph[v].type # "synthetic"
  BY <1>1, <1>2 DEF OwnVertices
<1>4. \A p : \A v \in OwnVertices(p) : v \in Nat /\ 1 < v /\ v < Len(graph)
  BY <1>1, <1>3
<1> QED
  BY <1>1, <1>2, <1>3, <1>4

LEMMA RootLeadsOn ==
  ASSUME IInv, ShapeInv, Ended
  PROVE  V!RootLeads
<1> DEFINE Out == {e \in DOMAIN edges : edges[e][1] = 1}
<1>1. ASSUME NEW p \in Procs
      PROVE  \E e \in Out : edges[e][2] \in OwnVertices(p)
  <2>1. OwnVertices(p) \in SUBSET Nat /\ OwnVertices(p) # {}
    BY OwnPlaces DEF ShapeInv, Ends
  <2>2. PICK d \in OwnVertices(p) : \A u \in OwnVertices(p) : d <= u
    BY <2>1, LeastNat
  <2>3. <<1, d>> \in Range(edges)
    BY <2>2 DEF IInv, ProgramOrderChained, IsFirst, root_
  <2>4. PICK e \in DOMAIN edges : edges[e] = <<1, d>>
    BY <2>3 DEF Range
  <2> QED
    BY <2>4
<1>2. ASSUME NEW e \in Out
      PROVE  \E p \in Procs : edges[e][2] \in OwnVertices(p) /\ V!Follows(p, 1, edges[e][2])
  <2>1. PICK d : d = edges[e][2]
    OBVIOUS
  <2>2. d \in DOMAIN graph /\ <<1, d>> \in Range(edges)
    BY <2>1, EdgePlaces
  <2>3. graph[d].type # "synthetic"
    BY <2>1 DEF ShapeInv, RootEdges, root_
  <2>4. PICK p \in Procs : p = graph[d].proc
    BY <2>2, <2>3 DEF IInv, GraphInv, GoodVertex
  <2>5. d \in OwnVertices(p)
    BY <2>2, <2>3, <2>4 DEF OwnVertices
  <2>6. \A u \in OwnVertices(p) : d <= u
    BY <2>2, <2>5 DEF IInv, ProgramOrderChained, IsFirst, root_
  <2>7. 1 < d
    BY <2>5, OwnPlaces
  <2>8. V!Follows(p, 1, d)
    BY <2>5, <2>6, <2>7, SameNames DEF V!Follows
  <2> QED
    BY <2>1, <2>5, <2>8
<1>3. \A e, f \in Out : edges[e][2] = edges[f][2] => e = f
  BY DEF ShapeInv, RootEdges, root_
<1>4. V!out_edges(1) = Out
  BY SameNames
<1> HIDE DEF Out
<1> QED
  BY <1>1, <1>2, <1>3, <1>4, SameNames DEF V!RootLeads, V!Procs, Procs

LEMMA ChainLeadsOn ==
  ASSUME IInv, ShapeInv, Ended, NEW p \in Procs, NEW v \in OwnVertices(p)
  PROVE  \E e \in DOMAIN edges :
           edges[e][1] = v /\ V!Follows(p, v, edges[e][2]) /\ ~Joins(edges[e])
<1> DEFINE later == {u \in OwnVertices(p) : v < u}
<1>1. CASE later = {}
  <2>1. IsLast(p, v)
    BY <1>1, OwnPlaces DEF IsLast
  <2>2. LeadsToEnd(v)
    BY <2>1 DEF IInv, ProgramOrderChained, Ended
  <2>3. PICK w \in DOMAIN graph : graph[w].type = "synthetic" /\ <<v, w>> \in Range(edges)
    BY <2>2 DEF LeadsToEnd
  <2>4. PICK e \in DOMAIN edges : edges[e] = <<v, w>>
    BY <2>3 DEF Range
  <2>5. w # 1
    BY <2>4, EdgePlaces DEF root_
  <2>6. w = Len(graph)
    BY <2>3, <2>5, OwnPlaces
  <2>7. V!Follows(p, v, w)
    BY <1>1, <2>6, OwnPlaces, SameNames DEF V!Follows
  <2>8. ~Joins(edges[e])
    BY <2>3, <2>4 DEF Joins, CrossPairs
  <2> QED
    BY <2>4, <2>7, <2>8
<1>2. CASE later # {}
  <2>1. later \in SUBSET Nat
    BY OwnPlaces
  <2>2. PICK w \in later : \A u \in later : w <= u
    <3> HIDE DEF later
    <3> QED BY <1>2, <2>1, LeastNat
  <2>3. w \in OwnVertices(p) /\ v < w /\ \A u \in OwnVertices(p) : v < u => w <= u
    BY <2>2
  <2>4. IsNext(p, v, w)
    <3>1. \A u \in OwnVertices(p) : u \in Nat /\ v \in Nat
      BY OwnPlaces
    <3> QED
      BY <2>3, <3>1 DEF IsNext
  <2>5. <<v, w>> \in Range(edges)
    BY <2>3, <2>4 DEF IInv, ProgramOrderChained
  <2>6. PICK e \in DOMAIN edges : edges[e] = <<v, w>>
    BY <2>5 DEF Range
  <2>7. V!Follows(p, v, w)
    BY <2>3, SameNames DEF V!Follows
  <2>8. ~Joins(edges[e])
    BY <2>3, <2>6, OwnPlaces DEF Joins, CrossPairs
  <2> QED
    BY <2>6, <2>7, <2>8
<1> QED
  BY <1>1, <1>2

LEMMA GraphChained ==
  ASSUME IInv, ShapeInv, Ended
  PROVE  V!Chained
<1>1. V!IsSequence(graph) /\ Len(graph) > 1
  BY DEF IInv, GraphInv, IsSequence, Range, V!IsSequence, V!Range, ShapeInv, Ends
<1>2. \A v \in DOMAIN graph : V!IsSynthetic(v) <=> v \in {1, Len(graph)}
  BY OwnPlaces, SameNames
<1>3. \A v \in DOMAIN graph : ~V!IsSynthetic(v) => graph[v].proc \in Procs
  BY SameNames DEF IInv, GraphInv, GoodVertex
<1>4. edges \in Seq((DOMAIN graph) \X (DOMAIN graph))
  BY DEF IInv, EdgesInv
<1>5. ASSUME NEW p \in Procs, NEW v \in OwnVertices(p)
      PROVE  V!ChainFirst(p, v)
  <2>1. v # root_
    BY OwnPlaces DEF root_
  <2>2. PICK e \in DOMAIN edges :
          edges[e][1] = v /\ V!Follows(p, v, edges[e][2]) /\ ~Joins(edges[e])
    BY ChainLeadsOn
  <2>3. ASSUME NEW f \in DOMAIN edges, edges[f][1] = v, f # e
        PROVE  e < f /\ graph[edges[f][2]].type = "sync_event" /\ edges[f][2] \notin OwnVertices(p)
    <3>1. e \in Nat /\ f \in Nat
      BY EdgePlaces
    <3>2. ~(f < e)
      BY <2>1, <2>2, <2>3 DEF ShapeInv, LaterEdges
    <3>3. e < f
      BY <2>3, <3>1, <3>2
    <3>4. Joins(edges[f])
      BY <2>1, <2>2, <2>3, <3>3 DEF ShapeInv, LaterEdges
    <3> QED
      BY <2>3, <3>3, <3>4, OwnPlaces DEF Joins, CrossPairs
  <2> QED
    BY <2>2, <2>3, SameNames DEF V!ChainFirst
<1>6. V!out_edges(Len(graph)) = {}
  <2>1. \A e \in DOMAIN edges : edges[e][1] # Len(graph)
    <3>1. Len(graph) # root_ /\ graph[Len(graph)].type = "synthetic"
      BY OwnPlaces DEF root_
    <3> QED
      BY <3>1 DEF ShapeInv, Leaving
  <2> QED
    BY <2>1, SameNames
<1> QED
  BY <1>1, <1>2, <1>3, <1>4, <1>5, <1>6, RootLeadsOn, SameNames DEF V!Chained, V!Procs, Procs

-----------------------------------------------------------------------------
(***************************************************************************)
(* The visitor that is composed and the one that is proved about are the   *)
(* same.                                                                   *)
(***************************************************************************)
LEMMA SameSets ==
  /\ \A v : /\ Visitor!IsSynthetic(v) <=> V!IsSynthetic(v)
            /\ Visitor!IsSync(v) <=> V!IsSync(v)
            /\ Visitor!Root(v) = V!Root(v)
            /\ Visitor!out_edges(v) = V!out_edges(v)
            /\ Visitor!Time(v) = V!Time(v)
  /\ \A sm, p : Visitor!HasOpenSet(sm, p) <=> V!HasOpenSet(sm, p)
  /\ \A sm, p, v : Visitor!create_new_set(sm, p, v) = V!create_new_set(sm, p, v)
  /\ \A sm, p, v : Visitor!insert(sm, p, v) = V!insert(sm, p, v)
  /\ \A sm, p, v, w : Visitor!close(sm, p, v, w) = V!close(sm, p, v, w)
  /\ Visitor!Procs = V!Procs /\ Visitor!Unset = V!Unset
<1>1. \A v : /\ Visitor!IsSynthetic(v) <=> V!IsSynthetic(v)
             /\ Visitor!IsSync(v) <=> V!IsSync(v)
             /\ Visitor!Root(v) = V!Root(v)
             /\ Visitor!out_edges(v) = V!out_edges(v)
  BY DEF Visitor!IsSynthetic, V!IsSynthetic, Visitor!IsSync, V!IsSync, Visitor!Root, V!Root,
         Visitor!out_edges, V!out_edges
<1>2. \A v : Visitor!Time(v) = V!Time(v)
  BY <1>1 DEF Visitor!Time, V!Time
<1>3. \A sm, p : Visitor!HasOpenSet(sm, p) <=> V!HasOpenSet(sm, p)
  BY DEF Visitor!HasOpenSet, V!HasOpenSet, Visitor!Last, V!Last
<1>4. \A sm, p, v : Visitor!create_new_set(sm, p, v) = V!create_new_set(sm, p, v)
  BY DEF Visitor!create_new_set, V!create_new_set, Visitor!NewSet, V!NewSet,
         Visitor!Unset, V!Unset
<1>5. \A sm, p, v : Visitor!insert(sm, p, v) = V!insert(sm, p, v)
  BY DEF Visitor!insert, V!insert
<1>6. \A sm, p, v, w : Visitor!close(sm, p, v, w) = V!close(sm, p, v, w)
  BY DEF Visitor!close, V!close
<1>7. Visitor!Procs = V!Procs /\ Visitor!Unset = V!Unset
  BY DEF Visitor!Procs, V!Procs, Visitor!Unset, V!Unset
<1> QED
  BY <1>1, <1>2, <1>3, <1>4, <1>5, <1>6, <1>7

LEMMA SameCallbacks ==
  /\ \A sm, v : Visitor!discover_vertex(sm, v) = V!discover_vertex(sm, v)
  /\ \A sm, v, w : Visitor!examine_edge(sm, v, w) = V!examine_edge(sm, v, w)
  /\ \A sm, v, w : Visitor!ExamineAsserts(sm, v, w) <=> V!ExamineAsserts(sm, v, w)
  /\ \A v : Visitor!DiscoverAsserts(v) <=> V!DiscoverAsserts(v)
<1>1. \A sm, v : Visitor!discover_vertex(sm, v) = V!discover_vertex(sm, v)
  BY SameSets DEF Visitor!discover_vertex, V!discover_vertex
<1>2. \A sm, v, w : Visitor!examine_edge(sm, v, w) = V!examine_edge(sm, v, w)
  BY SameSets DEF Visitor!examine_edge, V!examine_edge
<1>3. \A sm, v, w : Visitor!ExamineAsserts(sm, v, w) <=> V!ExamineAsserts(sm, v, w)
  BY SameSets DEF Visitor!ExamineAsserts, V!ExamineAsserts
<1>4. \A v : Visitor!DiscoverAsserts(v) <=> V!DiscoverAsserts(v)
  BY SameSets DEF Visitor!DiscoverAsserts, V!DiscoverAsserts
<1> QED
  BY <1>1, <1>2, <1>3, <1>4

LEMMA SameEdge ==
  /\ Visitor!Top = V!Top /\ Visitor!EdgesLeft = V!EdgesLeft
  /\ Visitor!HasEdge <=> V!HasEdge
  /\ Visitor!NextEdge = V!NextEdge /\ Visitor!Target = V!Target
  /\ Visitor!TakeEdge = V!TakeEdge /\ Visitor!Examined = V!Examined
  /\ Visitor!find_root = V!find_root
  /\ \A v : Visitor!Visiting(v) = V!Visiting(v)
<1>1. Visitor!Top = V!Top
  BY DEF Visitor!Top, V!Top, Visitor!Last, V!Last
<1>2. Visitor!EdgesLeft = V!EdgesLeft
  BY <1>1, SameSets DEF Visitor!EdgesLeft, V!EdgesLeft
<1>3. Visitor!HasEdge <=> V!HasEdge
  BY <1>2 DEF Visitor!HasEdge, V!HasEdge
<1>4. Visitor!NextEdge = V!NextEdge
  BY <1>2 DEF Visitor!NextEdge, V!NextEdge, Visitor!Min, V!Min
<1>5. Visitor!Target = V!Target /\ Visitor!TakeEdge = V!TakeEdge
  BY <1>4 DEF Visitor!Target, V!Target, Visitor!TakeEdge, V!TakeEdge
<1>6. Visitor!Examined = V!Examined
  BY <1>1, <1>5, SameCallbacks DEF Visitor!Examined, V!Examined
<1>7. Visitor!find_root = V!find_root
  <2>1. {v \in DOMAIN graph : Visitor!IsSynthetic(v)} = {v \in DOMAIN graph : V!IsSynthetic(v)}
    BY SameSets
  <2> QED
    BY <2>1 DEF Visitor!find_root, V!find_root, Visitor!Min, V!Min
<1>8. \A v : Visitor!Visiting(v) = V!Visiting(v)
  BY DEF Visitor!Visiting, V!Visiting
<1> QED
  BY <1>1, <1>2, <1>3, <1>4, <1>5, <1>6, <1>7, <1>8

LEMMA SameSorting ==
  \A s : Visitor!ChronoSorted(s) = V!ChronoSorted(s)
<1>1. \A S : Visitor!Cardinality(S) = V!Cardinality(S)
  BY DEF Visitor!Cardinality, V!Cardinality
<1>2. \A S : Visitor!SetToSeqs(S) = V!SetToSeqs(S)
  BY <1>1 DEF Visitor!SetToSeqs, V!SetToSeqs
<1> QED
  BY <1>2, SameSets DEF Visitor!ChronoSorted, V!ChronoSorted

LEMMA SameNext ==
  ASSUME Visitor!VisitNext
  PROVE  V!VisitNext
<1>1. CASE Visitor!StartVisit
  BY <1>1, SameEdge, SameCallbacks DEF Visitor!StartVisit, V!StartVisit, V!VisitNext
<1>2. Visitor!AbortVisit <=> V!AbortVisit
  BY DEF Visitor!AbortVisit, V!AbortVisit
<1>3. CASE Visitor!Descend
  BY <1>2, <1>3, SameEdge, SameCallbacks DEF Visitor!Descend, V!Descend, V!VisitNext
<1>4. CASE Visitor!SkipEdge
  BY <1>2, <1>4, SameEdge, SameCallbacks DEF Visitor!SkipEdge, V!SkipEdge, V!VisitNext
<1>5. CASE Visitor!Backtrack
  BY <1>5, SameEdge DEF Visitor!Backtrack, V!Backtrack, V!VisitNext, Visitor!Front, V!Front
<1>6. CASE Visitor!SortSets
  BY <1>2, <1>6, SameSets, SameSorting DEF Visitor!SortSets, V!SortSets, V!VisitNext
<1> QED
  BY <1>1, <1>3, <1>4, <1>5, <1>6 DEF Visitor!VisitNext

LEMMA SamePromises ==
  /\ V!SegmentsFound => SegmentsFound
  /\ V!Chronological => Chronological
  /\ V!OneOpenSet => OneOpenSet
<1>1. \A p : Visitor!Own(p) = V!Own(p)
  BY SameSets DEF Visitor!Own, V!Own
<1>2. \A p : Visitor!Syncs(p) = V!Syncs(p)
  BY <1>1, SameSets DEF Visitor!Syncs, V!Syncs
<1>3. \A p : Visitor!Begins(p) = V!Begins(p)
  BY <1>2 DEF Visitor!Begins, V!Begins, Visitor!Beginning, V!Beginning
<1>4. ASSUME NEW p, NEW b PROVE Visitor!Closing(p, b) = V!Closing(p, b)
  <2>1. \A S : Visitor!Min(S) = V!Min(S)
    BY DEF Visitor!Min, V!Min
  <2> QED
    BY <1>2, <2>1 DEF Visitor!Closing, V!Closing
<1>5. \A v : Visitor!RootOf(v) = V!RootOf(v)
  BY SameSets DEF Visitor!RootOf, V!RootOf
<1>6. \A p, b : Visitor!Segment(p, b) = V!Segment(p, b)
  BY <1>1, <1>2, <1>4, <1>5, SameSets
     DEF Visitor!Segment, V!Segment, Visitor!Beginning, V!Beginning
<1>7. V!SegmentsFound => SegmentsFound
  <2>1. /\ \A S : Visitor!Cardinality(S) = V!Cardinality(S)
        /\ \A s : Visitor!Range(s) = V!Range(s)
    BY DEF Visitor!Cardinality, V!Cardinality, Visitor!Range, V!Range
  <2>2. \A p : {Visitor!Segment(p, b) : b \in Visitor!Begins(p)}
                 = {V!Segment(p, b) : b \in V!Begins(p)}
    BY <1>3, <1>6
  <2> QED
    BY <1>3, <2>1, <2>2, SameSets DEF SegmentsFound, Visitor!SegmentsFound, V!SegmentsFound
<1>8. V!Chronological => Chronological
  <2>1. \A p : Visitor!DistinctTimes(p) <=> V!DistinctTimes(p)
    BY <1>2, SameSets DEF Visitor!DistinctTimes, V!DistinctTimes
  <2> QED
    BY <2>1, SameSets DEF Chronological, Visitor!Chronological, V!Chronological
<1>9. V!OneOpenSet => OneOpenSet
  <2>1. Visitor!OpenSets = V!OpenSets
    BY SameSets DEF Visitor!OpenSets, V!OpenSets
  <2> QED
    BY <2>1, SameSets, SameEdge DEF OneOpenSet, Visitor!OneOpenSet, V!OneOpenSet
<1> QED
  BY <1>7, <1>8, <1>9

-----------------------------------------------------------------------------
(***************************************************************************)
(* The invariant of an experiment.  The search begins when the builder has *)
(* returned, and the graph stays as it is from then on.                    *)
(***************************************************************************)
ExperimentInv ==
  /\ IInv /\ ShapeInv /\ V!VisitorInv
  /\ stage \in {"start", "build"} => visit = "idle"
  /\ stage = "visit" \/ visit # "idle" => Ended

LEMMA ExperimentStarts ==
  ASSUME ExperimentInit
  PROVE  ExperimentInv
<1>1. Init /\ Visitor!VisitorInit
  BY DEF ExperimentInit
<1>2. V!VisitorInit /\ visit = "idle"
  BY <1>1, SameSets DEF Visitor!VisitorInit, V!VisitorInit
<1>3. V!VisitorInv
  BY <1>2 DEF V!VisitorInv
<1>4. stage = "start"
  BY DEF ExperimentInit
<1> QED
  BY <1>1, <1>2, <1>3, <1>4, Initially, ShapeInitially DEF ExperimentInv

(* Neither the builder nor the search does anything. *)
LEMMA BothStutter ==
  ASSUME ExperimentInv, UNCHANGED <<vars, search_vars>>
  PROVE  /\ (IInv /\ ShapeInv /\ V!VisitorInv)'
         /\ Ended' = Ended /\ visit' = visit
<1>1. /\ UNCHANGED <<graph, edges, discovered, stack, set_map, visit, status>>
      /\ UNCHANGED vars
  BY DEF vars, search_vars
<1>2. IInv'
  BY <1>1, Inductive DEF ExperimentInv
<1>3. ShapeInv'
  <2>1. SameVertices(graph, graph')
    BY <1>1, VertexSet DEF ExperimentInv, IInv, GraphInv
  <2> QED
    BY <1>1, <2>1, ShapeKept DEF ExperimentInv, Reading, Ended
<1>4. V!VisitorInv'
  BY <1>1, V!VisitStutter, NProcsAssumption DEF ExperimentInv, V!visitor_vars
<1> QED
  BY <1>1, <1>2, <1>3, <1>4 DEF Ended

LEMMA ExperimentStep ==
  ASSUME ExperimentInv, [ExperimentNext]_experiment_vars
  PROVE  ExperimentInv'
<1>1. CASE CreateDirectories
  <2>1. UNCHANGED <<vars, search_vars>> /\ stage = "start" /\ stage' = "build"
    BY <1>1 DEF CreateDirectories
  <2> QED
    BY <2>1, BothStutter DEF ExperimentInv
<1>2. CASE Build
  <2>1. /\ stage = "build" /\ stage' = "build" /\ Next /\ visit = "idle"
        /\ UNCHANGED <<discovered, stack, set_map, visit>>
    BY <1>2 DEF Build, search_vars, ExperimentInv
  <2>2. IInv' /\ ShapeInv'
    BY <2>1, Inductive, ShapeInductive DEF ExperimentInv
  <2>3. V!VisitorInv'
    BY <2>1 DEF ExperimentInv, V!VisitorInv, V!VisitorInit, V!Procs
  <2> QED
    BY <2>1, <2>2, <2>3 DEF ExperimentInv
<1>3. CASE BuildReturns
  <2>1. UNCHANGED <<vars, search_vars>> /\ Ended /\ stage' \in {"visit", "no_result"}
    BY <1>3 DEF BuildReturns, Ended
  <2> QED
    BY <2>1, BothStutter DEF ExperimentInv
<1>4. CASE BuildFails \/ VisitFails \/ Merge \/ MergeReturns \/ MergeFails \/ CioStats \/ CsvOutput
  <2>1. UNCHANGED <<vars, search_vars>> /\ stage' \notin {"start", "build", "visit"}
    BY <1>4 DEF BuildFails, VisitFails, Merge, MergeReturns, MergeFails, CioStats, CsvOutput
  <2> QED
    BY <2>1, BothStutter DEF ExperimentInv
<1>5. CASE VisitReturns
  <2>1. UNCHANGED <<vars, search_vars>> /\ stage' \notin {"start", "build", "visit"}
    BY <1>5 DEF VisitReturns
  <2> QED
    BY <2>1, BothStutter DEF ExperimentInv
<1>6. CASE Visit
  <2>1. /\ stage = "visit" /\ stage' = "visit" /\ Ended
        /\ Visitor!VisitNext
        /\ UNCHANGED <<program, pos, locals, mapping_vars, edge_points, synchronizations,
                       times, cursor, num_locations, status>>
    BY <1>6 DEF Visit, ExperimentInv
  <2>2. UNCHANGED <<graph, edges>>
    BY <2>1 DEF Visitor!VisitNext, Visitor!StartVisit, Visitor!Descend, Visitor!SkipEdge,
                Visitor!Backtrack, Visitor!SortSets, Visitor!AbortVisit
  <2>3. UNCHANGED vars
    BY <2>1, <2>2 DEF vars
  <2>4. IInv'
    BY <2>3, Inductive DEF ExperimentInv
  <2>5. ShapeInv'
    <3>1. SameVertices(graph, graph')
      BY <2>2, VertexSet DEF ExperimentInv, IInv, GraphInv
    <3> QED
      BY <2>1, <2>2, <3>1, ShapeKept DEF ExperimentInv, Reading, Ended
  <2>6. V!Chained /\ V!VisitorInv /\ V!VisitNext
    BY <2>1, GraphChained, SameNext DEF ExperimentInv
  <2>7. V!VisitorInv'
    BY <2>6, V!VisitStep, NProcsAssumption
  <2>8. Ended'
    BY <2>1 DEF Ended
  <2> QED
    BY <2>1, <2>4, <2>5, <2>7, <2>8 DEF ExperimentInv
<1>7. CASE UNCHANGED experiment_vars
  <2>1. UNCHANGED <<vars, search_vars>> /\ stage' = stage
    BY <1>7 DEF experiment_vars
  <2> QED
    BY <2>1, BothStutter DEF ExperimentInv
<1> QED
  BY <1>1, <1>2, <1>3, <1>4, <1>5, <1>6, <1>7 DEF ExperimentNext

LEMMA ExperimentInvariant == ExperimentSpec => []ExperimentInv
<1>1. ExperimentInit => ExperimentInv
  BY ExperimentStarts
<1>2. ExperimentInv /\ [ExperimentNext]_experiment_vars => ExperimentInv'
  BY ExperimentStep
<1> QED
  BY <1>1, <1>2, PTL DEF ExperimentSpec

(***************************************************************************)
(* In every experiment, on whatever trace: the search makes exactly the    *)
(* segments of every process, each once, with the right root events at     *)
(* both ends; no I/O event is met without an open set (cio_types.hpp:227). *)
(***************************************************************************)
THEOREM Segments == ExperimentSpec => []SegmentsFound
<1>1. ExperimentInv => SegmentsFound
  <2> SUFFICES ASSUME ExperimentInv PROVE SegmentsFound
    OBVIOUS
  <2>1. CASE visit = "done"
    <3>1. V!Chained /\ V!VisitorInv
      BY <2>1, GraphChained DEF ExperimentInv
    <3> QED
      BY <3>1, V!InvSegments, NProcsAssumption, SamePromises
  <2>2. CASE visit # "done"
    BY <2>2 DEF SegmentsFound, Visitor!SegmentsFound
  <2> QED
    BY <2>1, <2>2
<1> QED
  BY <1>1, ExperimentInvariant, PTL

(***************************************************************************)
(* In every experiment the sets of a process are handed over in program    *)
(* order, if no two of its synchronisations have one timestamp             *)
(* (sort_set_map_chrono).                                                  *)
(***************************************************************************)
THEOREM ChronologicalSets == ExperimentSpec => []Chronological
<1>1. ExperimentInv => Chronological
  <2> SUFFICES ASSUME ExperimentInv PROVE Chronological
    OBVIOUS
  <2>1. CASE visit = "done"
    <3>1. V!Chained /\ V!VisitorInv
      BY <2>1, GraphChained DEF ExperimentInv
    <3> QED
      BY <3>1, V!InvChronological, NProcsAssumption, SamePromises, NumbersAssumption
  <2>2. CASE visit # "done"
    BY <2>2 DEF Chronological, Visitor!Chronological
  <2> QED
    BY <2>1, <2>2
<1> QED
  BY <1>1, ExperimentInvariant, PTL

(***************************************************************************)
(* In every experiment the search keeps at most one set open, that of the  *)
(* process whose vertex it is at (discover_vertex and examine_edge).       *)
(***************************************************************************)
THEOREM SearchKeepsOneOpen == ExperimentSpec => []OneOpenSet
<1>1. ExperimentInv => OneOpenSet
  <2> SUFFICES ASSUME ExperimentInv PROVE OneOpenSet
    OBVIOUS
  <2>1. CASE visit = "searching"
    <3>1. V!Chained /\ V!VisitorInv
      BY <2>1, GraphChained DEF ExperimentInv
    <3> QED
      BY <3>1, V!InvOneOpen, NProcsAssumption, SamePromises
  <2>2. CASE visit # "searching"
    BY <2>2 DEF OneOpenSet, Visitor!OneOpenSet
  <2> QED
    BY <2>1, <2>2
<1> QED
  BY <1>1, ExperimentInvariant, PTL

(***************************************************************************)
(* The operations that the program passes before operation o: those that   *)
(* some member of o passes before it, and before them, and so on.          *)
(***************************************************************************)
Mine(x) ==
  {program[x[1]][i].op : i \in {k \in SyncCalls(program[x[1]]) : k < x[2]}}

PlacesOf(o) == {x \in SyncPlaces(program) : program[x[1]][x[2]].op = o}

Prior(o) == UNION {Mine(x) : x \in PlacesOf(o)}

Back(ops) == ops \cup UNION {Prior(o) : o \in ops}

Passing(o, k, f) ==
  f = [n \in 0 .. k |-> IF n = 0 THEN Prior(o) ELSE Back(f[n - 1])]

LEMMA PassingExists ==
  ASSUME NEW o, NEW N \in Nat
  PROVE  \E f : Passing(o, N, f)
<1> DEFINE Bad == {k \in Nat : ~\E f : Passing(o, k, f)}
<1>1. SUFFICES ASSUME Bad # {} PROVE FALSE
  BY <1>1
<1>2. PICK k \in Bad : \A j \in Bad : k <= j
  <2>1. Bad \in SUBSET Nat
    OBVIOUS
  <2> HIDE DEF Bad
  <2> QED
    BY <1>1, <2>1, LeastNat
<1>3. CASE k = 0
  <2>1. PICK f : f = [n \in 0 .. 0 |-> Prior(o)]
    OBVIOUS
  <2>2. f = [n \in 0 .. 0 |-> IF n = 0 THEN Prior(o) ELSE Back(f[n - 1])]
    BY <2>1
  <2>3. Passing(o, 0, f)
    BY <2>2 DEF Passing
  <2> QED
    BY <1>3, <2>3
<1>4. CASE k # 0
  <2>1. k \in Nat /\ k - 1 \in Nat /\ k - 1 \notin Bad
    <3>1. k \in Nat
      OBVIOUS
    <3> HIDE DEF Bad
    <3> QED
      BY <1>2, <1>4, <3>1
  <2>2. PICK f : Passing(o, k - 1, f)
    BY <2>1
  <2> DEFINE g == [n \in 0 .. k |-> IF n = k THEN Back(f[k - 1]) ELSE f[n]]
  <2>3. \A n \in 0 .. k - 1 : f[n] = IF n = 0 THEN Prior(o) ELSE Back(f[n - 1])
    BY <2>2 DEF Passing
  <2>4. /\ g[k] = Back(f[k - 1]) /\ \A n \in 0 .. k - 1 : g[n] = f[n]
        /\ g = [n \in 0 .. k |-> g[n]]
    BY <2>1
  <2> HIDE DEF g
  <2>5. \A n \in 0 .. k : g[n] = IF n = 0 THEN Prior(o) ELSE Back(g[n - 1])
    <3> SUFFICES ASSUME NEW n \in 0 .. k
        PROVE  g[n] = IF n = 0 THEN Prior(o) ELSE Back(g[n - 1])
      OBVIOUS
    <3>1. CASE n = k
      <4>1. k - 1 \in 0 .. k - 1
        BY <2>1
      <4>2. g[k - 1] = f[k - 1]
        BY <2>4, <4>1
      <4> QED
        BY <1>4, <2>4, <3>1, <4>2
    <3>2. CASE n = 0
      <4>1. 0 \in 0 .. k - 1
        BY <2>1
      <4> QED
        BY <2>3, <2>4, <3>2, <4>1
    <3>3. CASE n # k /\ n # 0
      <4>1. n - 1 \in 0 .. k - 1 /\ n \in 0 .. k - 1
        BY <2>1, <3>3
      <4>2. g[n - 1] = f[n - 1] /\ g[n] = f[n]
        BY <2>4, <4>1
      <4> QED
        BY <2>3, <3>3, <4>1, <4>2
    <3> QED
      BY <3>1, <3>2, <3>3
  <2>6. Passing(o, k, g)
    BY <2>4, <2>5 DEF Passing
  <2> QED
    BY <2>6
<1> QED
  BY <1>3, <1>4

LEMMA PlacesFinite ==
  ASSUME NEW tr, IsProgram(tr)
  PROVE  /\ IsFiniteSet(SyncPlaces(tr)) /\ Cardinality(SyncPlaces(tr)) \in Nat
         /\ IsFiniteSet(Ops(tr)) /\ Cardinality(Ops(tr)) \in Nat
         /\ Cardinality(Ops(tr)) <= Cardinality(SyncPlaces(tr))
<1> DEFINE Own(p) == {p} \X {i \in DOMAIN tr[p] : tr[p][i].kind \in SyncKinds}
           All == {Own(p) : p \in Procs}
<1>1. IsFiniteSet(Procs)
  BY NProcsAssumption, FS_Interval DEF Procs
<1>2. ASSUME NEW p \in Procs
      PROVE  IsFiniteSet(Own(p))
  <2>1. DOMAIN tr[p] = 1 .. Len(tr[p]) /\ Len(tr[p]) \in Nat
    BY LenProperties DEF IsProgram, WellFormed
  <2>2. IsFiniteSet(DOMAIN tr[p])
    BY <2>1, FS_Interval
  <2>3. IsFiniteSet({i \in DOMAIN tr[p] : tr[p][i].kind \in SyncKinds})
    BY <2>2, FS_Subset
  <2>4. IsFiniteSet({p})
    BY FS_Singleton
  <2> QED
    BY <2>3, <2>4, FS_Product
<1>3. IsFiniteSet(All)
  <2>1. PICK f : f = [p \in Procs |-> Own(p)]
    OBVIOUS
  <2>2. f = [p \in Procs |-> f[p]] /\ All = {f[p] : p \in Procs}
    BY <2>1
  <2> HIDE DEF Own, All
  <2> QED
    BY <1>1, <2>2, ImageFinite
<1>4. IsFiniteSet(UNION All)
  <2>1. \A S \in All : IsFiniteSet(S)
    BY <1>2
  <2> HIDE DEF All
  <2> QED
    BY <1>3, <2>1, FS_UNION
<1>5. SyncPlaces(tr) = UNION All
  BY Zenon DEF SyncPlaces
<1>6. IsFiniteSet(SyncPlaces(tr))
  BY <1>4, <1>5
<1> DEFINE op == [x \in SyncPlaces(tr) |-> tr[x[1]][x[2]].op]
<1>7. op \in Surjection(SyncPlaces(tr), Ops(tr))
  <2>1. \A x \in SyncPlaces(tr) : op[x] \in Ops(tr)
    BY DEF Ops, SyncEvents
  <2>2. \A o \in Ops(tr) : \E x \in SyncPlaces(tr) : op[x] = o
    BY DEF Ops, SyncEvents
  <2> HIDE DEF op
  <2>3. op \in [SyncPlaces(tr) -> Ops(tr)]
    BY <2>1 DEF op
  <2> QED
    BY <2>2, <2>3 DEF Surjection
<1>8. IsFiniteSet(Ops(tr)) /\ Cardinality(Ops(tr)) <= Cardinality(SyncPlaces(tr))
  BY <1>6, <1>7, FS_Surjection
<1> QED
  BY <1>6, <1>8, FS_CardinalityType

LEMMA PriorFacts ==
  ASSUME IsProgram(program), NEW o
  PROVE  /\ \A a \in Prior(o) : <<a, o>> \in OpsInTurn(program)
         /\ Prior(o) \subseteq Ops(program)
<1> SUFFICES ASSUME NEW a, a \in Prior(o)
             PROVE  <<a, o>> \in OpsInTurn(program) /\ a \in Ops(program)
  OBVIOUS
<1>1. PICK x \in PlacesOf(o) : a \in Mine(x)
  BY DEF Prior
<1>2. x \in SyncPlaces(program) /\ program[x[1]][x[2]].op = o
  BY <1>1 DEF PlacesOf
<1>3. x = <<x[1], x[2]>> /\ x[1] \in Procs
  BY <1>2 DEF SyncPlaces
<1>4. PICK i \in SyncCalls(program[x[1]]) : i < x[2] /\ program[x[1]][i].op = a
  BY <1>1 DEF Mine
<1>5. <<x[1], i>> \in SyncPlaces(program)
  BY <1>3, <1>4, Places
<1>6. <<<<x[1], i>>, x>> \in PairsInTurn(program)
  BY <1>2, <1>4, <1>5 DEF PairsInTurn
<1>7. <<a, o>> \in OpsInTurn(program)
  BY <1>2, <1>4, <1>6 DEF OpsInTurn
<1>8. program[x[1]][i] \in SyncEvents(program)
  BY <1>5 DEF SyncEvents
<1> QED
  BY <1>4, <1>7, <1>8 DEF Ops

(***************************************************************************)
(* They are the smallest set that holds what comes immediately before o    *)
(* and before any of its elements: the number of rounds is large enough.   *)
(***************************************************************************)
LEMMA PassedFacts ==
  ASSUME IsProgram(program), NEW o
  PROVE  /\ PassedBefore(o) \subseteq Ops(program)
         /\ Prior(o) \subseteq PassedBefore(o)
         /\ \A a \in PassedBefore(o) : Prior(a) \subseteq PassedBefore(o)
         /\ \A T : Prior(o) \subseteq T /\ (\A a \in T : Prior(a) \subseteq T)
                     => PassedBefore(o) \subseteq T
<1>1. PICK N : N = Cardinality(SyncPlaces(program))
  OBVIOUS
<1>2. /\ N \in Nat /\ IsFiniteSet(Ops(program)) /\ Cardinality(Ops(program)) \in Nat
      /\ Cardinality(Ops(program)) <= N
  BY <1>1, PlacesFinite
<1>3. PICK f : f = CHOOSE g : Passing(o, N, g)
  OBVIOUS
<1>4. Passing(o, N, f)
  BY <1>2, <1>3, PassingExists, Zenon
<1>5. f[0] = Prior(o) /\ \A n \in 1 .. N : f[n] = Back(f[n - 1])
  BY <1>2, <1>4 DEF Passing
<1>6. PassedBefore(o) = f[N]
  BY <1>1, <1>3, Zenon DEF PassedBefore, Passing, Prior, Back, Mine, PlacesOf
<1> HIDE DEF PassedBefore
<1> DEFINE Closed(R) == \A a \in R : Prior(a) \subseteq R
           Good(n) == /\ f[n] \subseteq Ops(program) /\ Prior(o) \subseteq f[n]
                      /\ Closed(f[n]) \/ n <= Cardinality(f[n])
                      /\ \A T : Prior(o) \subseteq T /\ Closed(T) => f[n] \subseteq T
           Bad == {n \in 0 .. N : ~Good(n)}
<1>7. Good(0)
  <2>1. f[0] \subseteq Ops(program) /\ Prior(o) \subseteq f[0]
    BY <1>5, PriorFacts
  <2>2. Cardinality(f[0]) \in Nat
    BY <1>2, <2>1, FS_Subset, FS_CardinalityType
  <2> QED
    BY <1>5, <2>1, <2>2
<1>8. ASSUME NEW n \in 1 .. N, Good(n - 1)
      PROVE  Good(n)
  <2>1. PICK R : R = f[n - 1]
    OBVIOUS
  <2>2. PICK Q : Q = f[n]
    OBVIOUS
  <2>3. Q = R \cup UNION {Prior(a) : a \in R}
    BY <1>5, <2>1, <2>2 DEF Back
  <2>4. /\ R \subseteq Ops(program) /\ Prior(o) \subseteq R
        /\ Closed(R) \/ n - 1 <= Cardinality(R)
        /\ \A T : Prior(o) \subseteq T /\ Closed(T) => R \subseteq T
    BY <1>8, <2>1
  <2>5. Q \subseteq Ops(program) /\ Prior(o) \subseteq Q /\ R \subseteq Q
    BY <2>3, <2>4, PriorFacts
  <2>6. \A T : Prior(o) \subseteq T /\ Closed(T) => Q \subseteq T
    BY <2>3, <2>4
  <2>7. Closed(Q) \/ n <= Cardinality(Q)
    <3>1. CASE Closed(R)
      <4>1. Q = R
        BY <2>3, <3>1
      <4> QED
        BY <3>1, <4>1
    <3>2. CASE ~Closed(R)
      <4>1. Q # R
        BY <2>3, <3>2
      <4>2. IsFiniteSet(Q) /\ IsFiniteSet(R) /\ Cardinality(Q) \in Nat /\ Cardinality(R) \in Nat
        BY <1>2, <2>4, <2>5, FS_Subset, FS_CardinalityType
      <4>3. Cardinality(R) <= Cardinality(Q) /\ Cardinality(R) # Cardinality(Q)
        BY <2>5, <4>1, <4>2, FS_Subset
      <4> HIDE DEF Closed
      <4> QED
        BY <2>4, <3>2, <4>2, <4>3
    <3> QED
      BY <3>1, <3>2
  <2> QED
    BY <2>2, <2>5, <2>6, <2>7
<1>9. Bad = {}
  <2> SUFFICES ASSUME Bad # {} PROVE FALSE
    OBVIOUS
  <2>1. PICK k \in Bad : \A j \in Bad : k <= j
    <3>1. Bad \in SUBSET Nat
      OBVIOUS
    <3> HIDE DEF Bad
    <3> QED
      BY <3>1, LeastNat
  <2>2. k \in 0 .. N /\ ~Good(k)
    OBVIOUS
  <2> HIDE DEF Good
  <2>3. k # 0
    BY <1>7, <2>2
  <2>4. k \in 1 .. N /\ k - 1 \in 0 .. N
    BY <1>2, <2>2, <2>3
  <2>5. k - 1 \notin Bad
    <3> HIDE DEF Bad
    <3> QED
      BY <2>1, <2>4
  <2>6. Good(k - 1)
    BY <2>4, <2>5
  <2> QED
    BY <1>8, <2>2, <2>4, <2>6
<1>10. Good(N)
  <2> HIDE DEF Good
  <2> QED
    BY <1>2, <1>9
<1>11. PICK P : P = f[N]
  OBVIOUS
<1>12. /\ P \subseteq Ops(program) /\ Prior(o) \subseteq P
       /\ Closed(P) \/ N <= Cardinality(P)
       /\ \A T : Prior(o) \subseteq T /\ Closed(T) => P \subseteq T
  BY <1>10, <1>11
<1>13. Closed(P)
  <2> SUFFICES ASSUME N <= Cardinality(P) PROVE Closed(P)
    BY <1>12
  <2>1. Cardinality(P) \in Nat /\ Cardinality(P) <= Cardinality(Ops(program))
    BY <1>2, <1>12, FS_Subset, FS_CardinalityType
  <2>2. Cardinality(P) = Cardinality(Ops(program))
    BY <1>2, <2>1
  <2>3. P = Ops(program)
    BY <1>2, <1>12, <2>2, FS_Subset
  <2> QED
    BY <2>3, PriorFacts
<1> QED
  BY <1>6, <1>11, <1>12, <1>13

(***************************************************************************)
(* An operation is after what is before it, and, if there is a common      *)
(* order, not before itself: ranks ascend along every process.             *)
(***************************************************************************)
LEMMA PassedGrows ==
  ASSUME IsProgram(program), NEW a, NEW o, a \in Prior(o)
  PROVE  a \in PassedBefore(o) /\ PassedBefore(a) \subseteq PassedBefore(o)
BY PassedFacts

LEMMA NotBeforeItself ==
  ASSUME IsProgram(program), SameOrder(program), NEW o
  PROVE  o \notin PassedBefore(o)
<1> SUFFICES ASSUME o \in PassedBefore(o) PROVE FALSE
  OBVIOUS
<1>1. HasNoCycle(Ops(program), OpsInTurn(program))
  BY Zenon DEF SameOrder, OpsInTurn, PairsInTurn
<1>2. PICK P : P = PassedBefore(o)
  OBVIOUS
<1>3. /\ P \subseteq Ops(program) /\ Prior(o) \subseteq P /\ \A a \in P : Prior(a) \subseteq P
      /\ \A T : Prior(o) \subseteq T /\ (\A a \in T : Prior(a) \subseteq T) => P \subseteq T
  BY <1>2, PassedFacts
<1> DEFINE T == {a \in P : \E b \in P : <<a, b>> \in OpsInTurn(program)}
<1>4. Prior(o) \subseteq T
  BY <1>2, <1>3, PriorFacts
<1>5. \A a \in T : Prior(a) \subseteq T
  BY <1>3, PriorFacts
<1>6. P \subseteq T
  <2> HIDE DEF T
  <2> QED
    BY <1>3, <1>4, <1>5
<1>7. IsFiniteSet(Ops(program))
  BY PlacesFinite
<1>8. P \in SUBSET Ops(program) /\ P # {}
  BY <1>2, <1>3
<1>9. \E x \in P : \A y \in P : <<x, y>> \notin OpsInTurn(program)
  BY <1>1, <1>7, <1>8, NoCycleLast
<1> QED
  BY <1>6, <1>9

LEMMA PassedNumber ==
  ASSUME IsProgram(program), NEW o
  PROVE  Cardinality(PassedBefore(o)) \in Nat
BY PassedFacts, PlacesFinite, FS_Subset, FS_CardinalityType

LEMMA RanksAscend ==
  ASSUME IsProgram(program), SameOrder(program)
  PROVE  /\ \A o : \A a \in Prior(o) :
              Cardinality(PassedBefore(a)) < Cardinality(PassedBefore(o))
         /\ \A o \in Ops(program) :
              Cardinality(PassedBefore(o)) < Cardinality(SyncPlaces(program))
<1>1. /\ IsFiniteSet(Ops(program)) /\ Cardinality(Ops(program)) \in Nat
      /\ Cardinality(SyncPlaces(program)) \in Nat
      /\ Cardinality(Ops(program)) <= Cardinality(SyncPlaces(program))
  BY PlacesFinite
<1>2. \A o : PassedBefore(o) \subseteq Ops(program) /\ IsFiniteSet(PassedBefore(o))
  BY <1>1, PassedFacts, FS_Subset
<1>3. ASSUME NEW o, NEW a \in Prior(o)
      PROVE  Cardinality(PassedBefore(a)) < Cardinality(PassedBefore(o))
  <2>1. /\ a \in PassedBefore(o) /\ PassedBefore(a) \subseteq PassedBefore(o)
        /\ a \notin PassedBefore(a)
    BY PassedGrows, NotBeforeItself
  <2>2. PassedBefore(a) # PassedBefore(o)
    BY <2>1
  <2>3. /\ Cardinality(PassedBefore(a)) <= Cardinality(PassedBefore(o))
        /\ Cardinality(PassedBefore(a)) # Cardinality(PassedBefore(o))
    BY <1>2, <2>1, <2>2, FS_Subset
  <2> QED
    BY <2>3, PassedNumber
<1>4. ASSUME NEW o \in Ops(program)
      PROVE  Cardinality(PassedBefore(o)) < Cardinality(SyncPlaces(program))
  <2>1. o \notin PassedBefore(o) /\ PassedBefore(o) \subseteq Ops(program)
    BY <1>2, NotBeforeItself
  <2>2. PassedBefore(o) # Ops(program)
    BY <2>1
  <2>3. /\ Cardinality(PassedBefore(o)) <= Cardinality(Ops(program))
        /\ Cardinality(PassedBefore(o)) # Cardinality(Ops(program))
    BY <1>1, <2>1, <2>2, FS_Subset
  <2> QED
    BY <1>1, <2>3, PassedNumber
<1> QED
  BY <1>3, <1>4

-----------------------------------------------------------------------------
(***************************************************************************)
(* What the merge reads of the graph: the kinds of the vertices, that root *)
(* events are synchronisations, and the number of locations.               *)
(***************************************************************************)
GraphKnown ==
  /\ \A d \in DOMAIN graph : graph[d].type \in VertexKinds
  /\ \A d \in SyncVertices : graph[d].root_event \in {NullVertex} \cup SyncVertices
  /\ status = "done" => num_locations = NProcs

LEMMA KnownAdded ==
  ASSUME IInv, NotesInv, GraphKnown, NEW v, graph' = Append(graph, v),
         v.type \in VertexKinds, v.type = "sync_event" => v.root_event = NullVertex,
         status' # "done"
  PROVE  GraphKnown'
<1> DEFINE n == Len(graph) + 1
<1>1. /\ DOMAIN graph' = DOMAIN graph \cup {n} /\ n \notin DOMAIN graph
      /\ graph'[n] = v /\ \A d \in DOMAIN graph : graph'[d] = graph[d]
  BY AppendFacts DEF IInv, GraphInv
<1> HIDE DEF n
<1>2. SyncVertices' \subseteq SyncVertices \cup {n} /\ SyncVertices \subseteq SyncVertices'
  BY <1>1 DEF SyncVertices
<1>3. \A d \in SyncVertices' : graph'[d].root_event \in {NullVertex} \cup SyncVertices'
  <2> SUFFICES ASSUME NEW d \in SyncVertices'
               PROVE  graph'[d].root_event \in {NullVertex} \cup SyncVertices'
    OBVIOUS
  <2>1. CASE d = n
    BY <1>1, <2>1 DEF SyncVertices
  <2>2. CASE d # n
    <3>1. d \in SyncVertices /\ d \in DOMAIN graph
      BY <1>2, <2>2 DEF SyncVertices
    <3>2. graph'[d].root_event = graph[d].root_event
      BY <1>1, <3>1
    <3> QED
      BY <1>2, <3>1, <3>2 DEF GraphKnown
  <2> QED
    BY <2>1, <2>2
<1> QED
  BY <1>1, <1>3 DEF GraphKnown

(* Nothing but a root event is set, and that to a synchronisation. *)
LEMMA KnownNoted ==
  ASSUME IInv, NotesInv, GraphKnown, SameVertices(graph, graph'),
         \A d \in SyncVertices : \/ graph'[d].root_event = graph[d].root_event
                                 \/ graph'[d].root_event \in SyncVertices,
         status' = "done" => num_locations' = NProcs
  PROVE  GraphKnown'
<1>1. DOMAIN graph' = DOMAIN graph /\ \A d \in DOMAIN graph : graph'[d].type = graph[d].type
  BY DEF SameVertices, SameVertex
<1>2. SyncVertices' = SyncVertices
  BY <1>1 DEF SyncVertices
<1> QED
  BY <1>1, <1>2 DEF GraphKnown

LEMMA KnownDurations ==
  ASSUME IInv, NotesInv, GraphKnown, DurationsOnly(graph, graph'),
         status' = "done" => num_locations' = NProcs
  PROVE  GraphKnown'
<1>1. DOMAIN graph' = DOMAIN graph
      /\ \A d \in DOMAIN graph : graph'[d].type = graph[d].type
  BY DEF DurationsOnly, IInv, GraphInv, GoodVertex
<1>2. SyncVertices' = SyncVertices
  BY <1>1 DEF SyncVertices
<1>3. ASSUME NEW d \in SyncVertices
      PROVE  graph'[d].root_event = graph[d].root_event
  <2>1. d \in DOMAIN graph /\ "root_event" \in DOMAIN graph[d]
    BY HasRootEvent
  <2> QED
    BY <2>1 DEF DurationsOnly
<1> QED
  BY <1>1, <1>2, <1>3 DEF GraphKnown

LEMMA KnownMatch ==
  ASSUME IInv, NotesInv, GraphKnown, MatchingNext
  PROVE  GraphKnown'
<1>1. Matching
  BY MatchShape
<1>2. SameVertices(graph, graph)
  BY VertexSet DEF IInv, GraphInv
<1>3. CASE NextLocation \/ SkipVertex \/ SkipMyself \/ set_graph_properties
  <2>1. UNCHANGED graph /\ (status' = "done" => num_locations' = NProcs)
    BY <1>1, <1>3 DEF NextLocation, SkipVertex, SkipMyself, set_graph_properties, Matching
  <2> QED
    BY <1>2, <2>1, KnownNoted
<1>4. ASSUME AtVertex, NEW w, graph' = RootAt(graph, w, v_desc), status' # "done"
      PROVE  GraphKnown'
  <2>1. v_desc \in SyncVertices
    BY <1>4, VertexFacts DEF SyncVertices, SyncsOf, OwnVertices
  <2>2. SameVertices(graph, graph')
    BY <1>4, VertexSet DEF RootAt, IInv, GraphInv
  <2>3. ASSUME NEW d \in SyncVertices
        PROVE  graph'[d].root_event = graph[d].root_event \/ graph'[d].root_event = v_desc
    BY <1>4, HasRootEvent, RootEvent
  <2> QED
    BY <1>4, <2>1, <2>2, <2>3, KnownNoted
<1>5. CASE ConnectMember
  <2>1. PICK m : m = vertex.members[cursor.k]
    OBVIOUS
  <2>2. CASE CollectivesOf(m) = {}
    <3>1. UNCHANGED graph /\ status' # "done"
      BY <1>5, <2>1, <2>2 DEF ConnectMember, GiveUp
    <3> QED
      BY <1>2, <3>1, KnownNoted
  <2>3. CASE CollectivesOf(m) # {}
    <3>1. PICK n : n = First(CollectivesOf(m))
      OBVIOUS
    <3>2. Connect(m, n) /\ AtVertex /\ status' # "done"
      BY <1>1, <1>5, <2>1, <2>3, <3>1 DEF ConnectMember, Matching
    <3>3. graph' = RootAt(graph, synchronizations[m][n], v_desc)
      BY <3>2 DEF Connect, RootAt
    <3> QED
      BY <1>4, <3>2, <3>3
  <2> QED
    BY <2>2, <2>3
<1>6. CASE FinishCollective
  BY <1>1, <1>4, <1>6 DEF FinishCollective, RootAt, Matching
<1>7. CASE ConnectPeer
  <2>1. PICK q : q = vertex.remote
    OBVIOUS
  <2>2. PICK n : n = First(PeersOf(q))
    OBVIOUS
  <2>3. CASE PeersOf(q) = {} \/ q = vertex.proc
    <3>1. UNCHANGED graph /\ status' # "done"
      BY <1>7, <2>1, <2>3 DEF ConnectPeer, GiveUp
    <3> QED
      BY <1>2, <3>1, KnownNoted
  <2>4. CASE PeersOf(q) # {} /\ q # vertex.proc
    <3>1. PICK w : w = synchronizations[q][n]
      OBVIOUS
    <3>2. /\ graph' = RootAt(RootAt(graph, w, v_desc), v_desc, v_desc)
          /\ AtVertex /\ status' # "done"
      BY <1>1, <1>7, <2>1, <2>2, <2>4, <3>1 DEF ConnectPeer, RootAt, Matching
    <3>3. v_desc \in SyncVertices
      BY <3>2, VertexFacts DEF SyncVertices, SyncsOf, OwnVertices
    <3>4. SameVertices(graph, graph')
      <4>1. SameVertices(graph, RootAt(graph, w, v_desc))
        BY VertexSet DEF RootAt, IInv, GraphInv
      <4>2. PICK h : h = RootAt(graph, w, v_desc)
        OBVIOUS
      <4>3. IsSequence(h) /\ \A d \in DOMAIN h : GoodVertex(h[d])
        BY <4>1, <4>2 DEF SameVertices, SameVertex
      <4>4. SameVertices(h, RootAt(h, v_desc, v_desc))
        BY <4>3, VertexSet DEF RootAt
      <4> QED
        BY <3>2, <4>1, <4>2, <4>4 DEF SameVertices, SameVertex
    <3>5. ASSUME NEW d \in SyncVertices
          PROVE  graph'[d].root_event = graph[d].root_event \/ graph'[d].root_event = v_desc
      BY <3>2, HasRootEvent, RootEvents
    <3> QED
      BY <3>2, <3>3, <3>4, <3>5, KnownNoted
  <2> QED
    BY <2>3, <2>4
<1> QED
  BY <1>3, <1>5, <1>6, <1>7 DEF MatchingNext

LEMMA KnownStep ==
  ASSUME IInv, NotesInv, GraphKnown, [Next]_vars
  PROVE  GraphKnown'
<1>1. SameVertices(graph, graph)
  BY VertexSet DEF IInv, GraphInv
<1>2. CASE DefinitionsNext
  <2>1. UNCHANGED graph /\ status' # "done"
    BY <1>2 DEF DefinitionsNext, RegisterLocation, DefinitionsDone
  <2> QED
    BY <1>1, <2>1, KnownNoted
<1>3. CASE EventNext
  <2>1. PICK p \in Procs : Handlers(p)
    BY <1>3 DEF EventNext, Handlers
  <2>2. status' # "done"
    BY <2>1, EventShape DEF Reads
  <2>3. CASE Quiet(p)
    BY <2>2, <2>3, KnownDurations DEF Quiet
  <2>4. CASE AddsIo(p)
    <3>1. PICK name, kind, size, offset : AddIoEvent(p, name, kind, size, offset)
      BY <2>4 DEF AddsIo
    <3>2. PICK v : v = IoEvent(p, name, kind, size, offset)
      OBVIOUS
    <3>3. graph' = Append(graph, v) /\ v.type = "io_event"
      BY <3>1, <3>2 DEF AddIoEvent, AddVertex, IoEvent
    <3> QED
      BY <2>2, <3>3, KnownAdded DEF VertexKinds
  <2>5. CASE AddsSync(p)
    <3>1. PICK comm_kind, root :
             \E remote \in Procs : \E members \in Seq(Procs) :
               AddSyncEvent(p, SyncEvent(p, comm_kind, remote, members, root))
      BY <2>5, Zenon DEF AddsSync
    <3>2. PICK remote \in Procs, members \in Seq(Procs) :
             AddSyncEvent(p, SyncEvent(p, comm_kind, remote, members, root))
      BY <3>1, Zenon
    <3>3. PICK v : v = SyncEvent(p, comm_kind, remote, members, root)
      OBVIOUS
    <3>4. graph' = Append(graph, v) /\ v.type = "sync_event" /\ v.root_event = NullVertex
      BY <3>2, <3>3 DEF AddSyncEvent, AddVertex, SyncEvent
    <3> QED
      BY <2>2, <3>4, KnownAdded DEF VertexKinds
  <2> QED
    BY <2>1, <2>3, <2>4, <2>5, EventShape
<1>4. CASE EventsDone
  <2>1. status' # "done"
    BY <1>4 DEF EventsDone, create_synthetic_end
  <2>2. CASE UNCHANGED graph
    BY <1>1, <2>1, <2>2, KnownNoted
  <2>3. CASE graph' = Append(graph, Synthetic("End"))
    BY <2>1, <2>3, KnownAdded DEF Synthetic, VertexKinds
  <2> QED
    BY <1>4, <2>2, <2>3 DEF EventsDone, create_synthetic_end
<1>5. CASE Match
  BY <1>5, KnownMatch DEF Match
<1>6. CASE UNCHANGED vars
  BY <1>1, <1>6, KnownNoted DEF vars, GraphKnown
<1> QED
  BY <1>2, <1>3, <1>4, <1>5, <1>6 DEF Next

LEMMA KnownInitially ==
  ASSUME Init
  PROVE  GraphKnown
<1>1. /\ graph = <<Synthetic("Root")>> /\ status = "definitions"
  BY DEF Init
<1>2. \A d \in DOMAIN graph : graph[d].type = "synthetic"
  BY <1>1 DEF Synthetic
<1> QED
  BY <1>1, <1>2 DEF GraphKnown, VertexKinds, SyncVertices

(***************************************************************************)
(* The root event of a synchronisation belongs to the same operation, and  *)
(* is its own root event.                                                  *)
(***************************************************************************)
LEMMA RootOfOperation ==
  ASSUME IInv, NotesInv, MatchedInv, GraphKnown, status = "done", Separable(program),
         NEW d \in SyncVertices
  PROVE  /\ graph[d].root_event \in SyncVertices
         /\ Op(graph[d].root_event) = Op(d)
         /\ \A e \in SyncVertices : Op(e) = Op(d) => graph[e].root_event = graph[d].root_event
<1>1. MatchedAsExecuted
  BY MatchedAtEnd
<1>2. graph[d].root_event \in SyncVertices /\ Op(graph[d].root_event) = Op(d)
  BY RootLeads
<1> QED
  BY <1>1, <1>2 DEF MatchedAsExecuted

-----------------------------------------------------------------------------
(***************************************************************************)
(* The sets of a process as they are handed over if no two of its          *)
(* synchronisations have one timestamp, and the graph they refer to.       *)
(***************************************************************************)
Handed(p) ==
  LET s == set_map[p] IN
  /\ Len(s) \in Nat \ {0} /\ DOMAIN s = 1 .. Len(s)
  /\ \A i \in DOMAIN s :
       /\ s[i].start = root_ \/ \E b \in SyncsOf(p) : s[i].start = graph[b].root_event
       /\ s[i].events \subseteq OwnVertices(p)
       /\ IF i = Len(s) THEN s[i].end = Len(graph)
          ELSE s[i].origin \in SyncsOf(p) /\ s[i].end = graph[s[i].origin].root_event
  /\ \A i, j \in DOMAIN s : i < j /\ j # Len(s) => s[i].origin < s[j].origin
  /\ \A i, j \in DOMAIN s : s[i].events \cap s[j].events # {} => i = j
  /\ \A c \in SyncsOf(p) : \E i \in DOMAIN s : i # Len(s) /\ s[i].origin = c

Returned ==
  /\ IInv /\ NotesInv /\ MatchedInv /\ GraphKnown /\ status = "done"
  /\ Len(graph) > 1
  /\ \A d \in DOMAIN graph : graph[d].type = "synthetic" <=> d \in {root_, Len(graph)}
  /\ \A d \in SyncVertices : graph[d].root_event \in SyncVertices
  /\ \A p \in Procs : Handed(p)

LEMMA MergeNames ==
  /\ Merging!Procs = Procs
  /\ Merging!Vertex = Vertex
  /\ \A tr, p, i : Merging!EndAt(tr, p, i) = tr.pio[p][i].end
  /\ \A tr, p : Merging!Indices(tr, p) = 1 .. Len(tr.pio[p])
  /\ \A vs : Merging!CioSet(vs) = [events : SUBSET Nat, start : vs, end : vs]
  /\ \A tr, e : Merging!Group(tr, e) =
       IF tr.graph[e].type = "sync_event" THEN tr.graph[e].procs
       ELSE IF tr.graph[e].type = "synthetic" THEN Procs ELSE {}
<1>1. Merging!Procs = Procs
  BY DEF Merging!Procs, Procs
<1>2. Merging!Vertex = Vertex
  BY <1>1 DEF Merging!Vertex, Vertex, Merging!VertexKinds, VertexKinds
<1>3. /\ \A tr, p, i : Merging!EndAt(tr, p, i) = tr.pio[p][i].end
      /\ \A tr, p : Merging!Indices(tr, p) = 1 .. Len(tr.pio[p])
      /\ \A vs : Merging!CioSet(vs) = [events : SUBSET Nat, start : vs, end : vs]
  BY DEF Merging!EndAt, Merging!Indices, Merging!CioSet
<1>4. ASSUME NEW tr, NEW e
      PROVE  Merging!Group(tr, e) =
               IF tr.graph[e].type = "sync_event" THEN tr.graph[e].procs
               ELSE IF tr.graph[e].type = "synthetic" THEN Procs ELSE {}
  BY DEF Merging!Group, Merging!pg_group, Merging!procs_in_sync_involved, Merging!num_procs, Procs
<1> QED
  BY <1>1, <1>2, <1>3, <1>4

LEMMA InputIs ==
  ASSUME IsSequence(graph)
  PROVE  LET tr == MergeInput
             vs == 0 .. Len(graph) - 1
         IN /\ Len(graph) \in Nat /\ DOMAIN graph = 1 .. Len(graph)
            /\ tr.graph = [d \in vs |-> MergeVertex(graph[d + 1])]
            /\ tr.rank = [d \in vs |-> RankOf(graph[d + 1])]
            /\ tr.pio = [p \in Procs |->
                           [n \in DOMAIN set_map[p] |-> MergeSet(set_map[p][n])]]
<1>1. Len(graph) \in Nat /\ DOMAIN graph = 1 .. Len(graph)
  BY SequenceFacts
<1>2. PICK vs : vs = 0 .. Len(graph) - 1
  OBVIOUS
<1>3. {Descriptor(v) : v \in DOMAIN graph} = vs
  <2>1. \A v \in DOMAIN graph : Descriptor(v) \in vs
    BY <1>1, <1>2 DEF Descriptor
  <2>2. \A d \in vs : d + 1 \in DOMAIN graph /\ Descriptor(d + 1) = d
    BY <1>1, <1>2 DEF Descriptor
  <2> QED
    BY <2>1, <2>2
<1>4. MergeInput = [graph |-> [d \in vs |-> MergeVertex(VertexAt(d))],
                    rank  |-> [d \in vs |-> RankOf(VertexAt(d))],
                    pio   |-> [p \in Procs |->
                                 [n \in DOMAIN set_map[p] |-> MergeSet(set_map[p][n])]]]
  BY <1>3, Zenon DEF MergeInput
<1> QED
  BY <1>1, <1>2, <1>4, Zenon DEF VertexAt

(* What the merge reads of a vertex. *)
LEMMA VertexRead ==
  ASSUME Returned, NEW v \in DOMAIN graph
  PROVE  /\ MergeVertex(graph[v]) \in Vertex /\ MergeVertex(graph[v]).type = graph[v].type
         /\ RankOf(graph[v]) \in Nat
<1>1. GoodVertex(graph[v]) /\ graph[v].type \in VertexKinds
  BY DEF Returned, IInv, GraphInv, GraphKnown
<1>2. IsProgram(program)
  BY ProgramsAssumption DEF Returned, IInv, ReadingInv
<1>3. MergeVertex(graph[v]).type = graph[v].type
  BY DEF MergeVertex
<1>4. MergeVertex(graph[v]) \in Vertex
  <2>1. CASE graph[v].type # "sync_event"
    <3>1. MergeVertex(graph[v]).procs = {}
      BY <2>1 DEF MergeVertex
    <3>2. MergeVertex(graph[v]) =
            [type |-> graph[v].type, procs |-> MergeVertex(graph[v]).procs]
      BY DEF MergeVertex
    <3> HIDE DEF MergeVertex
    <3> QED
      BY <1>1, <2>1, <3>1, <3>2 DEF Vertex
  <2>2. CASE graph[v].type = "sync_event"
    <3>1. /\ graph[v].proc \in Procs /\ graph[v].remote \in Procs
          /\ MembersOf(graph[v].members) \subseteq Procs
      <4>1. graph[v].members \in Seq(Procs)
        BY <1>1, <2>2 DEF GoodVertex
      <4>2. \A k \in DOMAIN graph[v].members : graph[v].members[k] \in Procs
        BY <4>1, ElementOfSeq, LenProperties
      <4> QED
        BY <1>1, <2>2, <4>2 DEF GoodVertex, MembersOf
    <3>2. MergeVertex(graph[v]).procs =
            IF graph[v].comm_kind = "collective" THEN MembersOf(graph[v].members)
            ELSE {graph[v].proc, graph[v].remote}
      BY <2>2 DEF MergeVertex
    <3>3. MergeVertex(graph[v]) =
            [type |-> graph[v].type, procs |-> MergeVertex(graph[v]).procs]
      BY DEF MergeVertex
    <3> HIDE DEF MergeVertex
    <3>4. MergeVertex(graph[v]).procs \in SUBSET Procs
      BY <3>1, <3>2
    <3> QED
      BY <1>1, <2>2, <3>3, <3>4 DEF Vertex
  <2> QED
    BY <2>1, <2>2
<1>5. RankOf(graph[v]) \in Nat
  <2>1. Cardinality(PassedBefore(program[graph[v].proc][graph[v].timestamp].op)) \in Nat
    BY <1>2, PassedNumber
  <2>2. Cardinality(SyncPlaces(program)) \in Nat
    BY <1>2, PlacesFinite
  <2> HIDE DEF PassedBefore
  <2> QED
    BY <2>1, <2>2 DEF RankOf
<1> QED
  BY <1>3, <1>4, <1>5

(* What it reads of a set. *)
LEMMA SetRead ==
  ASSUME Returned, NEW p \in Procs, NEW tr, tr = MergeInput
  PROVE  LET s == set_map[p]
             n == Len(s)
         IN /\ n \in Nat \ {0} /\ DOMAIN s = 1 .. n
            /\ DOMAIN tr.pio[p] = 1 .. n /\ Len(tr.pio[p]) = n /\ IsSequence(tr.pio[p])
            /\ \A i \in 1 .. n :
                 /\ tr.pio[p][i] = MergeSet(s[i])
                 /\ tr.pio[p][i].end = s[i].end - 1
                 /\ s[i].events \subseteq OwnVertices(p)
                 /\ s[i].start \in DOMAIN graph /\ s[i].end \in DOMAIN graph
                 /\ IF i = n THEN s[i].end = Len(graph) ELSE s[i].end \in SyncVertices
<1> DEFINE s == set_map[p]
           n == Len(s)
<1>3. /\ n \in Nat \ {0} /\ DOMAIN s = 1 .. n
      /\ \A i \in DOMAIN s :
           /\ s[i].start = root_ \/ \E b \in SyncsOf(p) : s[i].start = graph[b].root_event
           /\ s[i].events \subseteq OwnVertices(p)
           /\ IF i = n THEN s[i].end = Len(graph)
              ELSE s[i].origin \in SyncsOf(p) /\ s[i].end = graph[s[i].origin].root_event
  <2>1. Handed(p)
    BY DEF Returned
  <2> QED
    BY <2>1 DEF Handed
<1> HIDE DEF s, n
<1>4. /\ Len(graph) \in Nat /\ DOMAIN graph = 1 .. Len(graph) /\ Len(graph) \in DOMAIN graph
      /\ root_ \in DOMAIN graph /\ SyncVertices \subseteq DOMAIN graph
      /\ \A b \in SyncsOf(p) : graph[b].root_event \in SyncVertices
  <2>1. /\ Len(graph) \in Nat /\ DOMAIN graph = 1 .. Len(graph)
        /\ root_ \in DOMAIN graph /\ SyncVertices \subseteq DOMAIN graph
    BY SequenceFacts DEF Returned, IInv, GraphInv, SyncVertices
  <2>2. SyncsOf(p) \subseteq SyncVertices
    BY DEF SyncsOf, OwnVertices, SyncVertices
  <2> QED
    BY <2>1, <2>2 DEF Returned
<1>5. tr.pio[p] = [i \in 1 .. n |-> MergeSet(s[i])]
  <2>1. IsSequence(graph)
    BY DEF Returned, IInv, GraphInv
  <2> HIDE DEF MergeInput
  <2> QED
    BY <1>3, <2>1, InputIs DEF s
<1>6. DOMAIN tr.pio[p] = 1 .. n /\ Len(tr.pio[p]) = n /\ IsSequence(tr.pio[p])
  <2>1. n \in Nat /\ tr.pio[p] \in [1 .. n -> Range(tr.pio[p])]
    BY <1>3, <1>5 DEF Range
  <2>2. tr.pio[p] \in Seq(Range(tr.pio[p]))
    BY <2>1, SeqDef
  <2>3. DOMAIN tr.pio[p] = 1 .. n
    BY <1>5
  <2> QED
    BY <2>1, <2>2, <2>3, LenProperties DEF IsSequence
<1>7. \A i \in 1 .. n : tr.pio[p][i] = MergeSet(s[i])
  BY <1>5
<1>8. ASSUME NEW i \in 1 .. n
      PROVE  /\ s[i].start \in DOMAIN graph /\ s[i].end \in DOMAIN graph
             /\ IF i = n THEN s[i].end = Len(graph) ELSE s[i].end \in SyncVertices
  BY <1>3, <1>4
<1>9. \A i \in 1 .. n : tr.pio[p][i].end = s[i].end - 1
  <2>1. \A x : MergeSet(x).end = x.end - 1
    BY DEF MergeSet, Descriptor
  <2> HIDE DEF MergeSet
  <2> QED
    BY <1>7, <2>1
<1>10. \A i \in 1 .. n :
         /\ tr.pio[p][i] = MergeSet(s[i])
         /\ tr.pio[p][i].end = s[i].end - 1
         /\ s[i].events \subseteq OwnVertices(p)
         /\ s[i].start \in DOMAIN graph /\ s[i].end \in DOMAIN graph
         /\ IF i = n THEN s[i].end = Len(graph) ELSE s[i].end \in SyncVertices
  BY <1>3, <1>7, <1>8, <1>9
<1> QED
  BY <1>3, <1>6, <1>10 DEF s, n

LEMMA InputIsTrace ==
  ASSUME Returned, NEW tr, tr = MergeInput
  PROVE  Merging!IsTrace(tr)
<1> DEFINE vs == 0 .. Len(graph) - 1
<1>1. /\ Len(graph) \in Nat /\ Len(graph) > 1 /\ DOMAIN graph = 1 .. Len(graph)
      /\ tr.graph = [d \in vs |-> MergeVertex(graph[d + 1])]
      /\ tr.rank = [d \in vs |-> RankOf(graph[d + 1])]
      /\ tr.pio = [p \in Procs |-> [n \in DOMAIN set_map[p] |-> MergeSet(set_map[p][n])]]
  <2>1. IsSequence(graph) /\ Len(graph) > 1
    BY DEF Returned, IInv, GraphInv
  <2> HIDE DEF MergeInput
  <2> QED
    BY <2>1, InputIs
<1>2. \A d \in vs : d + 1 \in DOMAIN graph
  BY <1>1
<1>3. /\ DOMAIN tr.graph = vs /\ tr.graph \in [vs -> Vertex] /\ tr.rank \in [vs -> Nat]
      /\ \A d \in vs : tr.graph[d].type = graph[d + 1].type
  <2> HIDE DEF vs, MergeVertex, RankOf
  <2> QED
    BY <1>1, <1>2, VertexRead
<1>4. \E last \in vs : last \in Nat /\ vs = 0 .. last
  <2>1. Len(graph) - 1 \in vs /\ Len(graph) - 1 \in Nat
    BY <1>1
  <2> QED
    BY <2>1
<1>5. \A v \in DOMAIN graph : v - 1 \in vs /\ (v - 1) + 1 = v /\ v \in Nat /\ v - 1 \in Nat
  BY <1>1
<1> HIDE DEF vs
<1>6. \A s : MergeSet(s) = [events |-> MergeSet(s).events, start |-> s.start - 1,
                            end |-> s.end - 1]
  BY DEF MergeSet, Descriptor
<1>13. ASSUME NEW s, NEW x \in MergeSet(s).events
       PROVE  \E v \in s.events : x = v - 1
  BY <1>13 DEF MergeSet, Descriptor
<1>7. \A p : OwnVertices(p) \subseteq DOMAIN graph
             /\ \A v \in OwnVertices(p) : graph[v].proc = p
  BY DEF OwnVertices
<1>8. ASSUME NEW p \in Procs
      PROVE  /\ Len(tr.pio[p]) \in Nat \ {0} /\ Len(tr.pio[p]) = Len(set_map[p])
             /\ DOMAIN set_map[p] = 1 .. Len(tr.pio[p])
             /\ tr.pio[p] \in Seq([events : SUBSET Nat, start : vs, end : vs])
             /\ \A i \in 1 .. Len(tr.pio[p]) :
                  /\ tr.pio[p][i] = MergeSet(set_map[p][i])
                  /\ set_map[p][i].events \subseteq OwnVertices(p)
                  /\ tr.graph[tr.pio[p][i].end].type =
                       IF i = Len(tr.pio[p]) THEN "synthetic" ELSE "sync_event"
             /\ tr.pio[p][Len(tr.pio[p])].end = Len(graph) - 1
  <2> DEFINE s == set_map[p]
             n == Len(s)
             S == [events : SUBSET Nat, start : vs, end : vs]
  <2>1. /\ n \in Nat \ {0} /\ DOMAIN s = 1 .. n
        /\ DOMAIN tr.pio[p] = 1 .. n /\ Len(tr.pio[p]) = n /\ IsSequence(tr.pio[p])
        /\ \A i \in 1 .. n :
             /\ tr.pio[p][i] = MergeSet(s[i])
             /\ tr.pio[p][i].end = s[i].end - 1
             /\ s[i].events \subseteq OwnVertices(p)
             /\ s[i].start \in DOMAIN graph /\ s[i].end \in DOMAIN graph
             /\ IF i = n THEN s[i].end = Len(graph) ELSE s[i].end \in SyncVertices
    <3> HIDE DEF MergeInput, MergeSet
    <3> QED
      BY SetRead
  <2> HIDE DEF s, n, S, MergeSet
  <2>2. ASSUME NEW i \in 1 .. n
        PROVE  tr.pio[p][i] \in S
    <3>1. ASSUME NEW x \in MergeSet(s[i]).events PROVE x \in Nat
      <4>1. PICK v \in s[i].events : x = v - 1
        BY <1>13
      <4> QED
        BY <1>5, <1>7, <2>1, <4>1
    <3>2. s[i].start - 1 \in vs /\ s[i].end - 1 \in vs
      BY <1>5, <2>1
    <3>3. MergeSet(s[i]) \in [events : SUBSET Nat, start : vs, end : vs]
      BY <1>6, <3>1, <3>2
    <3> QED
      BY <2>1, <3>3 DEF S
  <2>3. tr.pio[p] \in Seq(S)
    <3>1. tr.pio[p] = [i \in 1 .. n |-> tr.pio[p][i]]
      <4>1. tr.pio[p] \in Seq(Range(tr.pio[p]))
        BY <2>1 DEF IsSequence
      <4> QED
        BY <2>1, <4>1, SeqDef
    <3>2. tr.pio[p] \in [1 .. n -> S]
      BY <2>2, <3>1
    <3> QED
      BY <2>1, <3>2, SeqDef
  <2>4. ASSUME NEW i \in 1 .. n
        PROVE  tr.graph[tr.pio[p][i].end].type = IF i = n THEN "synthetic" ELSE "sync_event"
    <3>1. s[i].end \in DOMAIN graph /\ tr.pio[p][i].end = s[i].end - 1
      BY <2>1
    <3>2. tr.graph[s[i].end - 1].type = graph[s[i].end].type
      BY <1>3, <1>5, <3>1
    <3>3. CASE i = n
      <4>1. s[i].end = Len(graph) /\ Len(graph) \in DOMAIN graph
        BY <1>1, <2>1, <3>3
      <4>2. graph[Len(graph)].type = "synthetic"
        BY <4>1 DEF Returned
      <4> QED
        BY <3>1, <3>2, <3>3, <4>1, <4>2
    <3>4. CASE i # n
      <4>1. graph[s[i].end].type = "sync_event"
        BY <2>1, <3>4 DEF SyncVertices
      <4> QED
        BY <3>1, <3>2, <3>4, <4>1
    <3> QED
      BY <3>3, <3>4
  <2>5. tr.pio[p][n].end = Len(graph) - 1
    <3>1. n \in 1 .. n
      BY <2>1
    <3> QED
      BY <2>1, <3>1
  <2>6. \A i \in 1 .. n : /\ tr.pio[p][i] = MergeSet(s[i])
                          /\ s[i].events \subseteq OwnVertices(p)
                          /\ tr.graph[tr.pio[p][i].end].type =
                               IF i = n THEN "synthetic" ELSE "sync_event"
    BY <2>1, <2>4
  <2> QED
    BY <2>1, <2>3, <2>5, <2>6 DEF s, n, S
<1> HIDE DEF MergeSet
<1>9. tr.pio \in [Procs -> Seq([events : SUBSET Nat, start : vs, end : vs])]
  BY <1>1, <1>8
<1>10. ASSUME NEW p \in Procs, NEW q \in Procs,
              NEW i \in 1 .. Len(tr.pio[p]), NEW j \in 1 .. Len(tr.pio[q]),
              NEW x \in tr.pio[p][i].events, x \in tr.pio[q][j].events
       PROVE  p = q /\ i = j
  <2>1. PICK v \in set_map[p][i].events : x = v - 1
    <3>1. x \in MergeSet(set_map[p][i]).events
      BY <1>8, <1>10
    <3> QED
      BY <1>13, <3>1
  <2>2. PICK w \in set_map[q][j].events : x = w - 1
    <3>1. x \in MergeSet(set_map[q][j]).events
      BY <1>8, <1>10
    <3> QED
      BY <1>13, <3>1
  <2>3. v \in OwnVertices(p) /\ w \in OwnVertices(q)
    BY <1>8
  <2>4. v = w
    BY <1>5, <1>7, <2>1, <2>2, <2>3
  <2>5. p = q
    BY <1>7, <2>3, <2>4
  <2>6. i \in DOMAIN set_map[p] /\ j \in DOMAIN set_map[p]
        /\ set_map[p][i].events \cap set_map[p][j].events # {}
    BY <1>8, <2>2, <2>4, <2>5
  <2>7. Handed(p)
    BY DEF Returned
  <2>8. i = j
    BY <2>6, <2>7 DEF Handed
  <2> QED
    BY <2>5, <2>8
<1>11. \A p, q \in Procs : \A i \in 1 .. Len(tr.pio[p]), j \in 1 .. Len(tr.pio[q]) :
         tr.pio[p][i].events \cap tr.pio[q][j].events # {} => p = q /\ i = j
  BY <1>10
<1>12. /\ \A p \in Procs : Len(tr.pio[p]) > 0
       /\ \A p \in Procs : \A i \in 1 .. Len(tr.pio[p]) :
            tr.graph[tr.pio[p][i].end].type =
              IF i = Len(tr.pio[p]) THEN "synthetic" ELSE "sync_event"
       /\ \A p, q \in Procs :
            tr.pio[p][Len(tr.pio[p])].end = tr.pio[q][Len(tr.pio[q])].end
  BY <1>8
<1> HIDE DEF MergeInput
<1> QED
  <2>1. \E last \in DOMAIN tr.graph : last \in Nat /\ DOMAIN tr.graph = 0 .. last
    BY <1>3, <1>4
  <2>2. /\ tr.graph \in [DOMAIN tr.graph -> Merging!Vertex]
        /\ tr.rank \in [DOMAIN tr.graph -> Nat]
    BY <1>3, MergeNames
  <2>3. tr.pio \in [Merging!Procs -> Seq(Merging!CioSet(DOMAIN tr.graph))]
    BY <1>3, <1>9, MergeNames
  <2>4. /\ \A p \in Merging!Procs : Len(tr.pio[p]) > 0
        /\ \A p \in Merging!Procs : \A i \in Merging!Indices(tr, p) :
             tr.graph[Merging!EndAt(tr, p, i)].type =
               IF i = Len(tr.pio[p]) THEN "synthetic" ELSE "sync_event"
        /\ \A p, q \in Merging!Procs :
             Merging!EndAt(tr, p, Len(tr.pio[p])) = Merging!EndAt(tr, q, Len(tr.pio[q]))
    <3>1. ASSUME NEW p \in Procs, NEW i \in Merging!Indices(tr, p)
          PROVE  tr.graph[Merging!EndAt(tr, p, i)].type =
                   IF i = Len(tr.pio[p]) THEN "synthetic" ELSE "sync_event"
      <4>1. i \in 1 .. Len(tr.pio[p]) /\ Merging!EndAt(tr, p, i) = tr.pio[p][i].end
        BY MergeNames
      <4> QED
        BY <1>12, <4>1
    <3>2. ASSUME NEW p \in Procs, NEW q \in Procs
          PROVE  Merging!EndAt(tr, p, Len(tr.pio[p])) = Merging!EndAt(tr, q, Len(tr.pio[q]))
      BY <1>12, MergeNames
    <3> QED
      BY <1>12, <3>1, <3>2, MergeNames
  <2>5. \A p, q \in Merging!Procs :
          \A i \in Merging!Indices(tr, p), j \in Merging!Indices(tr, q) :
            tr.pio[p][i].events \cap tr.pio[q][j].events # {} => p = q /\ i = j
    <3>1. ASSUME NEW p \in Procs, NEW q \in Procs,
                 NEW i \in Merging!Indices(tr, p), NEW j \in Merging!Indices(tr, q),
                 tr.pio[p][i].events \cap tr.pio[q][j].events # {}
          PROVE  p = q /\ i = j
      <4>1. i \in 1 .. Len(tr.pio[p]) /\ j \in 1 .. Len(tr.pio[q])
        BY MergeNames
      <4> QED
        BY <1>11, <3>1, <4>1
    <3> QED
      BY <3>1, MergeNames
  <2> QED
    BY <2>1, <2>2, <2>3, <2>4, <2>5 DEF Merging!IsTrace

-----------------------------------------------------------------------------
(***************************************************************************)
(* A common order: the ranks of the synchronisations that end the sets of  *)
(* a process ascend, and who takes part in one has a set that it ends.     *)
(***************************************************************************)
LEMMA RankIs ==
  ASSUME Returned
  PROVE  /\ \A d \in SyncVertices :
              /\ RankOf(graph[d]) = Cardinality(PassedBefore(Op(d)))
              /\ Op(d) \in Ops(program)
         /\ RankOf(graph[Len(graph)]) = Cardinality(SyncPlaces(program))
<1> HIDE DEF PassedBefore
<1>1. ASSUME NEW d \in SyncVertices
      PROVE  /\ RankOf(graph[d]) = Cardinality(PassedBefore(Op(d)))
             /\ Op(d) \in Ops(program)
  <2>1. graph[d].type = "sync_event"
    BY DEF SyncVertices
  <2>2. RankOf(graph[d]) = Cardinality(PassedBefore(Op(d)))
    BY <2>1 DEF RankOf, Op
  <2>3. /\ graph[d].proc \in Procs
        /\ graph[d].timestamp \in SyncCalls(program[graph[d].proc])
    BY SyncFacts DEF Returned
  <2>4. <<graph[d].proc, graph[d].timestamp>> \in SyncPlaces(program)
    BY <2>3, Places
  <2>5. program[graph[d].proc][graph[d].timestamp] \in SyncEvents(program)
    BY <2>4 DEF SyncEvents
  <2> QED
    BY <2>2, <2>5 DEF Ops, Op
<1>2. RankOf(graph[Len(graph)]) = Cardinality(SyncPlaces(program))
  <2>1. Len(graph) \in DOMAIN graph
    BY SequenceFacts DEF Returned, IInv, GraphInv
  <2>2. graph[Len(graph)].type = "synthetic"
    BY <2>1 DEF Returned
  <2> QED
    BY <2>2 DEF RankOf
<1> QED
  BY <1>1, <1>2

LEMMA RootsInTurn ==
  ASSUME Returned, Separable(program), SameOrder(program),
         NEW p \in Procs, NEW c \in SyncsOf(p), NEW d \in SyncsOf(p), c < d
  PROVE  RankOf(graph[graph[c].root_event]) < RankOf(graph[graph[d].root_event])
<1>1. IInv /\ NotesInv /\ MatchedInv /\ GraphKnown /\ status = "done" /\ IsProgram(program)
  BY ProgramsAssumption DEF Returned, IInv, ReadingInv
<1>2. /\ graph[c].timestamp < graph[d].timestamp
      /\ c \in SyncVertices /\ graph[c].proc = p /\ d \in SyncVertices /\ graph[d].proc = p
  BY <1>1, Timely
<1>3. PICK i, j : i = graph[c].timestamp /\ j = graph[d].timestamp
  OBVIOUS
<1>4. /\ i \in SyncCalls(program[p]) /\ j \in SyncCalls(program[p])
      /\ Op(c) = program[p][i].op /\ Op(d) = program[p][j].op
  BY <1>1, <1>2, <1>3, SyncFacts
<1>5. Op(c) \in Prior(Op(d))
  <2>1. PICK x : x = <<p, j>>
    OBVIOUS
  <2>2. x \in SyncPlaces(program) /\ x[1] = p /\ x[2] = j
    BY <1>4, <2>1, Places
  <2>3. x \in PlacesOf(Op(d))
    BY <1>4, <2>2 DEF PlacesOf
  <2>4. Op(c) \in Mine(x)
    BY <1>2, <1>3, <1>4, <2>2 DEF Mine
  <2> QED
    BY <2>3, <2>4 DEF Prior
<1>6. /\ graph[c].root_event \in SyncVertices /\ Op(graph[c].root_event) = Op(c)
      /\ graph[d].root_event \in SyncVertices /\ Op(graph[d].root_event) = Op(d)
  BY <1>1, <1>2, RootOfOperation
<1> HIDE DEF PassedBefore
<1>7. Cardinality(PassedBefore(Op(c))) < Cardinality(PassedBefore(Op(d)))
  BY <1>1, <1>5, RanksAscend
<1> QED
  BY <1>6, <1>7, RankIs

LEMMA MembersMeet ==
  ASSUME Returned, Separable(program),
         NEW p \in Procs, NEW c \in SyncsOf(p), NEW r, r = graph[c].root_event
  PROVE  LET group == MergeVertex(graph[r]).procs
         IN /\ p \in group
            /\ \A q \in group : q \in Procs /\ \E d \in SyncsOf(q) : graph[d].root_event = r
<1>1. IInv /\ NotesInv /\ MatchedInv /\ GraphKnown /\ status = "done" /\ Ended
  BY DEF Returned, Ended
<1>2. c \in SyncVertices /\ graph[c].proc = p
  BY <1>1, Timely
<1>3. /\ r \in SyncVertices /\ Op(r) = Op(c)
      /\ \A e \in SyncVertices : Op(e) = Op(r) => graph[e].root_event = r
  <2>1. /\ graph[c].root_event \in SyncVertices /\ Op(graph[c].root_event) = Op(c)
        /\ \A e \in SyncVertices : Op(e) = Op(c) => graph[e].root_event = graph[c].root_event
    BY <1>1, <1>2, RootOfOperation
  <2> QED
    BY <2>1
<1>4. ASSUME NEW q, NEW e \in SyncsOf(q), Op(e) = Op(r)
      PROVE  graph[e].root_event = r
  <2>1. e \in SyncVertices
    BY DEF SyncsOf, OwnVertices, SyncVertices
  <2> QED
    BY <1>3, <1>4, <2>1
<1>5. SameOp(r, c)
  BY <1>1, <1>2, <1>3, VerticesAgree
<1>6. graph[r].type = "sync_event"
  BY <1>3 DEF SyncVertices
<1>7. CASE IsCollective(r)
  <2>1. MergeVertex(graph[r]).procs = MembersOf(graph[r].members)
    BY <1>6, <1>7 DEF MergeVertex, IsCollective
  <2>2. \A q \in MembersOf(graph[r].members) :
          q \in Procs /\ \E e \in SyncsOf(q) : Op(e) = Op(r)
    BY <1>1, <1>3, <1>7, PartnerVertices
  <2>3. IsCollective(c) /\ graph[c].members = graph[r].members
    BY <1>5, <1>7 DEF SameOp
  <2>4. p \in MembersOf(graph[c].members)
    BY <1>1, <1>2, <2>3, PartnerVertices
  <2> QED
    BY <1>4, <2>1, <2>2, <2>3, <2>4
<1>8. CASE ~IsCollective(r)
  <2>1. MergeVertex(graph[r]).procs = {graph[r].proc, graph[r].remote}
    BY <1>6, <1>8 DEF MergeVertex, IsCollective
  <2>2. graph[r].proc \in Procs /\ graph[r].remote \in Procs /\ r \in SyncsOf(graph[r].proc)
    BY <1>1, <1>3, SyncFacts
  <2>3. \E e \in SyncsOf(graph[r].remote) : Op(e) = Op(r)
    BY <1>1, <1>3, <1>8, PartnerVertices
  <2>4. graph[r].root_event = r
    BY <1>3
  <2>5. p \in {graph[r].proc, graph[r].remote}
    BY <1>2, <1>5, <1>8 DEF SameOp
  <2> QED
    BY <1>4, <2>1, <2>2, <2>3, <2>4, <2>5
<1> QED
  BY <1>7, <1>8

LEMMA InputOrdered ==
  ASSUME Returned, Separable(program), SameOrder(program), NEW tr, tr = MergeInput
  PROVE  Merging!Ordered(tr)
<1>1. /\ Len(graph) \in Nat /\ DOMAIN graph = 1 .. Len(graph) /\ Len(graph) \in DOMAIN graph
      /\ \A v \in DOMAIN graph : /\ tr.graph[v - 1] = MergeVertex(graph[v])
                                 /\ tr.rank[v - 1] = RankOf(graph[v])
                                 /\ v \in Nat
  <2>1. /\ Len(graph) \in Nat /\ Len(graph) > 1 /\ DOMAIN graph = 1 .. Len(graph)
        /\ tr.graph = [d \in 0 .. Len(graph) - 1 |-> MergeVertex(graph[d + 1])]
        /\ tr.rank = [d \in 0 .. Len(graph) - 1 |-> RankOf(graph[d + 1])]
    <3>1. IsSequence(graph) /\ Len(graph) > 1
      BY DEF Returned, IInv, GraphInv
    <3> HIDE DEF MergeInput
    <3> QED
      BY <3>1, InputIs
  <2>2. \A v \in DOMAIN graph :
          v \in Nat /\ v - 1 \in 0 .. Len(graph) - 1 /\ (v - 1) + 1 = v
    BY <2>1
  <2> HIDE DEF MergeVertex, RankOf
  <2> QED
    BY <2>1, <2>2
<1>2. ASSUME NEW p \in Procs
      PROVE  LET s == set_map[p]
                 n == Len(s)
             IN /\ n \in Nat \ {0} /\ DOMAIN s = 1 .. n /\ Len(tr.pio[p]) = n
                /\ \A i \in 1 .. n :
                     /\ tr.pio[p][i].end = s[i].end - 1 /\ s[i].end \in DOMAIN graph
                     /\ i = n => s[i].end = Len(graph)
                     /\ i # n => s[i].origin \in SyncsOf(p) /\ s[i].end \in SyncVertices
                                   /\ s[i].end = graph[s[i].origin].root_event
                /\ \A i, j \in 1 .. n : i < j /\ j # n => s[i].origin < s[j].origin
                /\ \A c \in SyncsOf(p) : \E i \in 1 .. n : i # n /\ s[i].origin = c
  <2> DEFINE s == set_map[p]
             n == Len(s)
  <2>1. /\ n \in Nat \ {0} /\ DOMAIN s = 1 .. n /\ Len(tr.pio[p]) = n
        /\ \A i \in 1 .. n :
             /\ tr.pio[p][i].end = s[i].end - 1 /\ s[i].end \in DOMAIN graph
             /\ IF i = n THEN s[i].end = Len(graph) ELSE s[i].end \in SyncVertices
    <3> HIDE DEF MergeInput, MergeSet
    <3> QED
      BY SetRead
  <2>2. /\ \A i \in DOMAIN s :
             i # n => s[i].origin \in SyncsOf(p) /\ s[i].end = graph[s[i].origin].root_event
        /\ \A i, j \in DOMAIN s : i < j /\ j # n => s[i].origin < s[j].origin
        /\ \A c \in SyncsOf(p) : \E i \in DOMAIN s : i # n /\ s[i].origin = c
    <3>1. Handed(p)
      BY DEF Returned
    <3> QED
      BY <3>1 DEF Handed
  <2> HIDE DEF s, n
  <2> QED
    BY <2>1, <2>2 DEF s, n
<1>3. ASSUME NEW p \in Procs, NEW i \in 1 .. Len(tr.pio[p]), NEW j \in 1 .. Len(tr.pio[p]), i < j
      PROVE  tr.rank[tr.pio[p][i].end] < tr.rank[tr.pio[p][j].end]
  <2>1. PICK s, n : s = set_map[p] /\ n = Len(s)
    OBVIOUS
  <2>2. /\ n \in Nat /\ i \in 1 .. n /\ j \in 1 .. n /\ i # n
        /\ s[i].origin \in SyncsOf(p) /\ s[i].end \in SyncVertices
        /\ s[i].end = graph[s[i].origin].root_event
        /\ s[j].end \in DOMAIN graph /\ s[i].end \in DOMAIN graph
        /\ tr.pio[p][i].end = s[i].end - 1 /\ tr.pio[p][j].end = s[j].end - 1
    BY <1>2, <1>3, <2>1
  <2>3. /\ tr.rank[tr.pio[p][i].end] = RankOf(graph[s[i].end])
        /\ tr.rank[tr.pio[p][j].end] = RankOf(graph[s[j].end])
    <3> HIDE DEF RankOf
    <3> QED
      BY <1>1, <2>2
  <2>4. CASE j # n
    <3>1. /\ s[j].origin \in SyncsOf(p) /\ s[j].end = graph[s[j].origin].root_event
          /\ s[i].origin < s[j].origin
      BY <1>2, <1>3, <2>1, <2>2, <2>4
    <3> HIDE DEF RankOf
    <3> QED
      BY <2>2, <2>3, <3>1, RootsInTurn
  <2>5. CASE j = n
    <3>1. s[j].end = Len(graph)
      BY <1>2, <2>1, <2>2, <2>5
    <3>2. IsProgram(program)
      BY ProgramsAssumption DEF Returned, IInv, ReadingInv
    <3> HIDE DEF RankOf, PassedBefore
    <3>3. /\ RankOf(graph[s[i].end]) = Cardinality(PassedBefore(Op(s[i].end)))
          /\ Op(s[i].end) \in Ops(program)
          /\ RankOf(graph[s[j].end]) = Cardinality(SyncPlaces(program))
      BY <2>2, <3>1, RankIs
    <3> QED
      BY <2>3, <3>2, <3>3, RanksAscend
  <2> QED
    BY <2>4, <2>5
<1> HIDE DEF MergeInput, MergeVertex
<1> DEFINE Meets(p, e) ==
             /\ p \in Merging!Group(tr, e)
             /\ \A q \in Merging!Group(tr, e) :
                  q \in Procs /\ \E j \in 1 .. Len(tr.pio[q]) : tr.pio[q][j].end = e
<1>4. ASSUME NEW p \in Procs, NEW i \in 1 .. Len(tr.pio[p]), NEW e, e = tr.pio[p][i].end
      PROVE  Meets(p, e)
  <2>1. PICK s, n : s = set_map[p] /\ n = Len(s)
    OBVIOUS
  <2>2. /\ n \in Nat \ {0} /\ i \in 1 .. n /\ e = s[i].end - 1 /\ s[i].end \in DOMAIN graph
        /\ i = n => s[i].end = Len(graph)
        /\ i # n => s[i].origin \in SyncsOf(p) /\ s[i].end \in SyncVertices
                      /\ s[i].end = graph[s[i].origin].root_event
    BY <1>2, <1>4, <2>1
  <2>3. tr.graph[e] = MergeVertex(graph[s[i].end])
        /\ tr.graph[e].type = graph[s[i].end].type
    BY <1>1, <2>2, VertexRead
  <2>4. CASE i # n
    <3>1. PICK r : r = s[i].end
      OBVIOUS
    <3>2. graph[r].type = "sync_event"
      BY <2>2, <2>4, <3>1 DEF SyncVertices
    <3>3. Merging!Group(tr, e) = MergeVertex(graph[r]).procs
      BY <2>3, <3>1, <3>2, MergeNames
    <3>4. /\ p \in Merging!Group(tr, e)
          /\ \A q \in Merging!Group(tr, e) :
               q \in Procs /\ \E d \in SyncsOf(q) : graph[d].root_event = r
      BY <2>2, <2>4, <3>1, <3>3, MembersMeet
    <3>5. ASSUME NEW q \in Procs, NEW d \in SyncsOf(q), graph[d].root_event = r
          PROVE  \E j \in 1 .. Len(tr.pio[q]) : tr.pio[q][j].end = e
      <4>1. PICK j \in 1 .. Len(tr.pio[q]) :
              j # Len(set_map[q]) /\ set_map[q][j].origin = d
        BY <1>2
      <4>2. tr.pio[q][j].end = set_map[q][j].end - 1 /\ set_map[q][j].end = r
        BY <1>2, <3>5, <4>1
      <4> QED
        BY <2>2, <3>1, <4>1, <4>2
    <3> QED
      BY <3>4, <3>5
  <2>5. CASE i = n
    <3>1. graph[Len(graph)].type = "synthetic"
      BY <1>1 DEF Returned
    <3>2. Merging!Group(tr, e) = Procs
      BY <2>2, <2>3, <2>5, <3>1, MergeNames
    <3>3. ASSUME NEW q \in Procs
          PROVE  \E j \in 1 .. Len(tr.pio[q]) : tr.pio[q][j].end = e
      <4>1. PICK m : m = Len(set_map[q])
        OBVIOUS
      <4>2. m \in Nat \ {0} /\ Len(tr.pio[q]) = m
        BY <1>2, <4>1
      <4>3. m \in 1 .. m
        BY <4>2
      <4>4. m \in 1 .. Len(tr.pio[q])
        BY <4>2, <4>3
      <4>6. set_map[q][m].end = Len(graph) /\ tr.pio[q][m].end = set_map[q][m].end - 1
        BY <1>2, <4>1, <4>3
      <4>7. tr.pio[q][m].end = Len(graph) - 1
        BY <4>6
      <4>5. e = Len(graph) - 1
        BY <2>2, <2>5
      <4> QED
        BY <4>4, <4>5, <4>7
    <3> QED
      BY <3>2, <3>3
  <2> QED
    BY <2>4, <2>5
<1>8. ASSUME NEW p \in Procs, NEW i \in 1 .. Len(tr.pio[p])
      PROVE  Meets(p, tr.pio[p][i].end)
  <2> HIDE DEF Meets
  <2> QED
    BY <1>4
<1>5. \A p \in Merging!Procs : \A i, j \in Merging!Indices(tr, p) :
        i < j => tr.rank[Merging!EndAt(tr, p, i)] < tr.rank[Merging!EndAt(tr, p, j)]
  <2> SUFFICES ASSUME NEW p \in Merging!Procs, NEW i \in Merging!Indices(tr, p),
                      NEW j \in Merging!Indices(tr, p), i < j
               PROVE  tr.rank[Merging!EndAt(tr, p, i)] < tr.rank[Merging!EndAt(tr, p, j)]
    OBVIOUS
  <2> QED
    BY <1>3, MergeNames
<1>6. ASSUME NEW p \in Merging!Procs, NEW i \in Merging!Indices(tr, p),
             NEW e, e = Merging!EndAt(tr, p, i)
      PROVE  /\ p \in Merging!Group(tr, e)
             /\ \A q \in Merging!Group(tr, e) :
                  \E j \in Merging!Indices(tr, q) : Merging!EndAt(tr, q, j) = e
  <2>1. p \in Procs /\ i \in 1 .. Len(tr.pio[p]) /\ e = tr.pio[p][i].end
    BY <1>6, MergeNames
  <2>2. Meets(p, e)
    <3> HIDE DEF Meets
    <3> QED
      BY <1>8, <2>1
  <2>3. ASSUME NEW q \in Merging!Group(tr, e)
        PROVE  \E j \in Merging!Indices(tr, q) : Merging!EndAt(tr, q, j) = e
    <3>1. PICK j \in 1 .. Len(tr.pio[q]) : tr.pio[q][j].end = e
      BY <2>2
    <3>2. j \in Merging!Indices(tr, q) /\ Merging!EndAt(tr, q, j) = e
      BY <3>1, MergeNames
    <3> QED
      BY <3>2
  <2> QED
    BY <2>2, <2>3
<1>7. \A p \in Merging!Procs : \A i \in Merging!Indices(tr, p) :
        /\ p \in Merging!Group(tr, Merging!EndAt(tr, p, i))
        /\ \A q \in Merging!Group(tr, Merging!EndAt(tr, p, i)) :
             \E j \in Merging!Indices(tr, q) :
               Merging!EndAt(tr, q, j) = Merging!EndAt(tr, p, i)
  BY <1>6
<1> QED
  BY <1>5, <1>7, Zenon DEF Merging!Ordered

-----------------------------------------------------------------------------
(***************************************************************************)
(* The number of locations is there if the builder got to its end.         *)
(***************************************************************************)
Located == num_locations = IF status = "done" THEN NProcs ELSE Uninitialised

LEMMA LocatedStep ==
  ASSUME IInv, Located, [Next]_vars
  PROVE  Located'
<1>1. CASE DefinitionsNext
  BY <1>1 DEF DefinitionsNext, RegisterLocation, DefinitionsDone, Located
<1>2. CASE EventNext
  <2>1. PICK p \in Procs : Handlers(p)
    BY <1>2 DEF EventNext, Handlers
  <2>2. status = "events" /\ UNCHANGED num_locations
    BY <2>1, EventShape DEF Reads
  <2>3. status' # "done"
    BY <2>1, <2>2, EventShape
  <2> QED
    BY <2>2, <2>3 DEF Located
<1>3. CASE EventsDone
  BY <1>3 DEF EventsDone, create_synthetic_end, Located
<1>4. CASE Match
  <2>1. status = "matching" /\ num_locations = Uninitialised
    BY <1>4 DEF Match, MatchingNext, Matching, Located, NextLocation, SkipVertex, SkipMyself,
                ConnectMember, FinishCollective, ConnectPeer, set_graph_properties
  <2>2. CASE set_graph_properties
    BY <2>1, <2>2 DEF set_graph_properties, Located, Uninitialised
  <2>3. CASE ConnectMember
    <3>1. UNCHANGED num_locations /\ status' \in {"returned", status}
      BY <2>3, Zenon DEF ConnectMember, GiveUp
    <3> QED
      BY <2>1, <3>1 DEF Located, Uninitialised
  <2>4. CASE ConnectPeer
    <3>1. UNCHANGED num_locations
      BY <2>4 DEF ConnectPeer
    <3>2. status' \in {"returned", "undefined", status}
      BY <2>4, Zenon DEF ConnectPeer, GiveUp
    <3> QED
      BY <2>1, <3>1, <3>2 DEF Located, Uninitialised
  <2>5. CASE NextLocation \/ SkipVertex \/ SkipMyself \/ FinishCollective
    BY <2>1, <2>5 DEF NextLocation, SkipVertex, SkipMyself, FinishCollective, Located, Uninitialised
  <2> QED
    BY <1>4, <2>2, <2>3, <2>4, <2>5 DEF Match, MatchingNext
<1>5. CASE UNCHANGED vars
  BY <1>5 DEF vars, Located
<1> QED
  BY <1>1, <1>2, <1>3, <1>4, <1>5 DEF Next

LEMMA LocatedInitially ==
  ASSUME Init
  PROVE  Located
BY DEF Init, Located

-----------------------------------------------------------------------------
(***************************************************************************)
(* What the search returns is what the merge is proved for.                *)
(***************************************************************************)
LEMMA TiesSeen == NoTies <=> \A p \in Procs : V!DistinctTimes(p)
<1>1. \A p : Visitor!Own(p) = V!Own(p)
  BY SameSets DEF Visitor!Own, V!Own
<1>2. \A p : Visitor!Syncs(p) = V!Syncs(p)
  BY <1>1, SameSets DEF Visitor!Syncs, V!Syncs
<1>3. \A p : Visitor!DistinctTimes(p) <=> V!DistinctTimes(p)
  BY <1>2, SameSets DEF Visitor!DistinctTimes, V!DistinctTimes
<1> QED
  BY <1>3 DEF NoTies

LEMMA SetsReturned ==
  ASSUME ExperimentInv, NotesInv, MatchedInv, GraphKnown, V!RootsMet,
         visit = "done", status = "done", NoTies
  PROVE  Returned
<1>1. IInv /\ ShapeInv /\ Ended
  BY DEF ExperimentInv, Ended
<1>2. V!Chained /\ V!VisitorInv
  BY <1>1, GraphChained DEF ExperimentInv
<1>3. Len(graph) > 1
      /\ \A d \in DOMAIN graph : graph[d].type = "synthetic" <=> d \in {root_, Len(graph)}
  BY <1>1 DEF ShapeInv, Ends
<1>4. ASSUME NEW d \in SyncVertices PROVE graph[d].root_event \in SyncVertices
  <2>1. V!HasRoot(d) /\ d \in DOMAIN graph /\ graph[d].type = "sync_event"
    BY DEF V!RootsMet, SyncVertices
  <2>2. graph[d].root_event # NullVertex
    BY <2>1 DEF V!HasRoot, V!IsSync, V!Root, V!Unset, NullVertex
  <2> QED
    BY <2>2 DEF GraphKnown
<1>5. ASSUME NEW p \in Procs PROVE Handed(p)
  <2>1. V!DistinctTimes(p)
    BY TiesSeen
  <2>2. p \in V!Procs
    BY DEF V!Procs, Procs
  <2>3. V!Complete(set_map[p], p)
    BY <1>2, <2>1, <2>2, V!SetsComplete, NProcsAssumption, NumbersAssumption
  <2>4. V!Syncs(p) = SyncsOf(p) /\ V!Own(p) = OwnVertices(p)
    BY SameNames DEF V!Syncs, V!IsSync, SyncsOf, SyncVertices
  <2>5. DOMAIN set_map[p] = 1 .. Len(set_map[p]) /\ Len(set_map[p]) \in Nat \ {0}
    <3>1. IsSequence(set_map[p]) /\ Len(set_map[p]) > 0
      BY <2>3 DEF V!Complete, V!IsSequence, IsSequence, V!Range, Range
    <3> QED
      BY <3>1, SequenceFacts
  <2>6. \A v : V!Root(v) = graph[v].root_event
    BY DEF V!Root
  <2>7. /\ V!RootOf(Len(graph)) = Len(graph)
        /\ \A v \in SyncsOf(p) : V!RootOf(v) = graph[v].root_event
    <3>1. Len(graph) \in DOMAIN graph /\ graph[Len(graph)].type = "synthetic"
      BY <1>1, <1>3, OwnPlaces
    <3> QED
      BY <2>6, <3>1 DEF V!RootOf, V!IsSync, SyncsOf, SyncVertices
  <2> DEFINE s == set_map[p]
  <2>8. \A v \in SyncsOf(p) : v # Len(graph)
    BY <1>1, OwnPlaces DEF SyncsOf
  <2>9. /\ \A i \in DOMAIN s :
             /\ s[i].start = 1 \/ \E b \in SyncsOf(p) : s[i].start = graph[b].root_event
             /\ s[i].events \subseteq OwnVertices(p)
             /\ s[i].end = V!RootOf(s[i].origin)
             /\ IF i = Len(s) THEN s[i].origin = Len(graph) ELSE s[i].origin \in SyncsOf(p)
        /\ \A i, j \in DOMAIN s : i < j => s[i].origin < s[j].origin
        /\ \A i, j \in DOMAIN s : s[i].events \cap s[j].events # {} => i = j
        /\ \A c \in SyncsOf(p) : \E i \in DOMAIN s : s[i].origin = c
    BY <2>3, <2>4, <2>6 DEF V!Complete
  <2> HIDE DEF s
  <2>10. \A i \in DOMAIN s :
           /\ s[i].start = root_ \/ \E b \in SyncsOf(p) : s[i].start = graph[b].root_event
           /\ s[i].events \subseteq OwnVertices(p)
           /\ IF i = Len(s) THEN s[i].end = Len(graph)
              ELSE s[i].origin \in SyncsOf(p) /\ s[i].end = graph[s[i].origin].root_event
    BY <2>7, <2>9 DEF root_
  <2>11. \A c \in SyncsOf(p) : \E i \in DOMAIN s : i # Len(s) /\ s[i].origin = c
    BY <2>8, <2>9
  <2> QED
    BY <2>5, <2>9, <2>10, <2>11 DEF Handed, s
<1> QED
  BY <1>1, <1>3, <1>4, <1>5 DEF Returned

-----------------------------------------------------------------------------
(***************************************************************************)
(* The merge gets what the search left, if the builder got to its end.     *)
(***************************************************************************)
LEMMA SamePassed ==
  ASSUME UNCHANGED program, NEW o
  PROVE  PassedBefore(o)' = PassedBefore(o)
BY DEF PassedBefore, SyncPlaces

LEMMA SameInput ==
  ASSUME UNCHANGED <<program, graph, set_map>>
  PROVE  MergeInput' = MergeInput
<1>1. \A v : RankOf(v)' = RankOf(v)
  <2>1. \A o : PassedBefore(o)' = PassedBefore(o)
    BY SamePassed
  <2>2. SyncPlaces(program)' = SyncPlaces(program)
    OBVIOUS
  <2> HIDE DEF PassedBefore
  <2> QED
    BY <2>1, <2>2 DEF RankOf
<1>2. \A d : VertexAt(d)' = VertexAt(d)
  BY DEF VertexAt
<1> HIDE DEF RankOf, VertexAt
<1> QED
  BY <1>1, <1>2 DEF MergeInput

HandInv ==
  /\ ExperimentInv /\ NotesInv /\ MatchedInv /\ GraphKnown /\ Located /\ V!RootsMet
  /\ stage = "merge" => visit = "done" /\ status = "done" /\ trace = MergeInput

LEMMA HandStarts ==
  ASSUME ExperimentInit
  PROVE  HandInv
<1>1. ExperimentInv
  BY ExperimentStarts
<1>2. Init /\ visit = "idle" /\ stage = "start"
  BY DEF ExperimentInit, Visitor!VisitorInit
<1> QED
  BY <1>1, <1>2, SyncInitially, KnownInitially, LocatedInitially DEF HandInv, V!RootsMet

LEMMA HandStep ==
  ASSUME HandInv, [ExperimentNext]_experiment_vars
  PROVE  HandInv'
<1>1. ExperimentInv'
  BY ExperimentStep DEF HandInv
<1> DEFINE Carried == (NotesInv /\ MatchedInv /\ GraphKnown /\ Located /\ V!RootsMet)'
<1>2. ASSUME UNCHANGED vars PROVE (NotesInv /\ MatchedInv /\ GraphKnown /\ Located)'
  BY <1>2, NotesStep, SyncInductive, KnownStep, LocatedStep DEF HandInv, ExperimentInv
<1>3. ASSUME UNCHANGED <<vars, search_vars>> PROVE Carried
  <2>1. UNCHANGED V!visitor_vars
    BY <1>3 DEF V!visitor_vars, vars, search_vars
  <2>2. V!RootsMet'
    BY <2>1, V!RootsMetStutter, NProcsAssumption DEF HandInv
  <2> QED
    BY <1>2, <1>3, <2>2
<1>4. ASSUME UNCHANGED <<vars, search_vars>> PROVE MergeInput' = MergeInput
  BY <1>4, SameInput DEF vars, search_vars
<1> HIDE DEF Carried
<1>5. CASE CreateDirectories \/ BuildReturns \/ BuildFails \/ VisitFails \/ MergeReturns
             \/ MergeFails \/ CioStats \/ CsvOutput
  <2>1. UNCHANGED <<vars, search_vars>> /\ stage' # "merge"
    BY <1>5 DEF CreateDirectories, BuildReturns, BuildFails, VisitFails, MergeReturns,
                MergeFails, CioStats, CsvOutput
  <2> QED
    BY <1>1, <1>3, <2>1 DEF HandInv, Carried
<1>6. CASE Build
  <2>1. /\ stage' = "build" /\ Next /\ visit = "idle" /\ UNCHANGED visit
    BY <1>6 DEF Build, search_vars, HandInv, ExperimentInv
  <2>2. (NotesInv /\ MatchedInv /\ GraphKnown /\ Located)'
    BY <2>1, NotesStep, SyncInductive, KnownStep, LocatedStep DEF HandInv, ExperimentInv
  <2>3. V!RootsMet'
    BY <2>1 DEF V!RootsMet
  <2> QED
    BY <1>1, <2>1, <2>2, <2>3 DEF HandInv
<1>7. CASE Visit
  <2>1. /\ stage' = "visit" /\ Ended /\ Visitor!VisitNext
        /\ UNCHANGED <<program, pos, locals, mapping_vars, edge_points, synchronizations,
                       times, cursor, num_locations, status>>
    BY <1>7 DEF Visit, HandInv, ExperimentInv
  <2>2. UNCHANGED <<graph, edges>>
    BY <2>1 DEF Visitor!VisitNext, Visitor!StartVisit, Visitor!Descend, Visitor!SkipEdge,
                Visitor!Backtrack, Visitor!SortSets, Visitor!AbortVisit
  <2>3. UNCHANGED vars
    BY <2>1, <2>2 DEF vars
  <2>4. V!Chained /\ V!VisitorInv /\ V!VisitNext
    BY <2>1, GraphChained, SameNext DEF HandInv, ExperimentInv
  <2>5. V!RootsMet'
    BY <2>4, V!RootsMetStep, NProcsAssumption DEF HandInv
  <2> QED
    BY <1>1, <1>2, <2>1, <2>3, <2>5 DEF HandInv
<1>8. CASE VisitReturns
  <2>1. UNCHANGED <<vars, search_vars>> /\ visit = "done"
    BY <1>8 DEF VisitReturns
  <2>2. stage' = "merge" => status = "done" /\ trace' = MergeInput
    BY <1>8, Zenon DEF VisitReturns, HandInv, Located
  <2>3. visit' = visit /\ status' = status
    BY <2>1 DEF vars, search_vars
  <2> QED
    BY <1>1, <1>3, <1>4, <2>1, <2>2, <2>3 DEF HandInv, Carried
<1>9. CASE Merge
  <2>1. UNCHANGED <<vars, search_vars>> /\ stage = "merge" /\ stage' = "merge"
    BY <1>9 DEF Merge
  <2>2. trace' = trace
    BY <1>9 DEF Merge, Merging!Next, Merging!ReturnOnEnd, Merging!Merge, Merging!Recurse,
                Merging!ReturnFromLoop, Merging!Fail, Merging!Finish
  <2>3. visit' = visit /\ status' = status
    BY <2>1 DEF vars, search_vars
  <2> QED
    BY <1>1, <1>3, <1>4, <2>1, <2>2, <2>3 DEF HandInv, Carried
<1>10. CASE UNCHANGED experiment_vars
  <2>1. UNCHANGED <<vars, search_vars, stage, trace>>
    BY <1>10 DEF experiment_vars, merge_vars
  <2>2. visit' = visit /\ status' = status
    BY <2>1 DEF vars, search_vars
  <2> QED
    BY <1>1, <1>3, <1>4, <2>1, <2>2 DEF HandInv, Carried
<1> QED
  BY <1>5, <1>6, <1>7, <1>8, <1>9, <1>10 DEF ExperimentNext

LEMMA HandInvariant == ExperimentSpec => []HandInv
<1>1. ExperimentInit => HandInv
  BY HandStarts
<1>2. HandInv /\ [ExperimentNext]_experiment_vars => HandInv'
  BY HandStep
<1> QED
  BY <1>1, <1>2, PTL DEF ExperimentSpec

(***************************************************************************)
(* In every experiment on whatever trace, find_cio_sets is handed sets of  *)
(* the form it was proved for, if no two synchronisations of a process     *)
(* have one timestamp; and if the processes agree on the order of their    *)
(* synchronisations, which can be told apart, it meets them in that order. *)
(***************************************************************************)
THEOREM InputProvedFor == ExperimentSpec => []HandedOver
<1>1. HandInv => HandedOver
  <2> SUFFICES ASSUME HandInv, stage = "merge", NoTies
               PROVE  /\ Merging!IsTrace(trace)
                      /\ Separable(program) /\ SameOrder(program) => Merging!Ordered(trace)
    BY DEF HandedOver
  <2>1. Returned /\ trace = MergeInput
    BY SetsReturned DEF HandInv
  <2>2. Merging!IsTrace(trace)
    BY <2>1, InputIsTrace
  <2>3. Separable(program) /\ SameOrder(program) => Merging!Ordered(trace)
    BY <2>1, InputOrdered
  <2> QED
    BY <2>2, <2>3
<1> QED
  BY <1>1, HandInvariant, PTL

M == INSTANCE CioMerge_proofs WITH status <- merge_status, Events <- Nat, Traces <- {}

-----------------------------------------------------------------------------
(***************************************************************************)
(* The merge that is composed and the one that is proved about are the     *)
(* same.                                                                   *)
(***************************************************************************)
LEMMA SameClasses ==
  /\ Merging!Procs = M!Procs /\ Merging!Vertex = M!Vertex
  /\ \A v : /\ Merging!procs_in_sync_involved(v) = M!procs_in_sync_involved(v)
            /\ Merging!classify_sync(v) = M!classify_sync(v)
            /\ Merging!pg_group(v) = M!pg_group(v)
<1>1. Merging!Procs = M!Procs /\ Merging!num_procs = M!num_procs
  BY DEF Merging!Procs, M!Procs, Merging!num_procs, M!num_procs
<1>2. Merging!Vertex = M!Vertex
  BY <1>1 DEF Merging!Vertex, M!Vertex, Merging!VertexKinds, M!VertexKinds
<1>3. \A v : Merging!procs_in_sync_involved(v) = M!procs_in_sync_involved(v)
  BY DEF Merging!procs_in_sync_involved, M!procs_in_sync_involved
<1>4. \A S : Merging!Cardinality(S) = M!Cardinality(S)
  BY DEF Merging!Cardinality, M!Cardinality
<1>5. \A v : Merging!classify_sync(v) = M!classify_sync(v)
  BY <1>1, <1>3, <1>4 DEF Merging!classify_sync, M!classify_sync
<1>6. \A v : Merging!pg_group(v) = M!pg_group(v)
  BY <1>1, <1>3 DEF Merging!pg_group, M!pg_group
<1> QED
  BY <1>1, <1>2, <1>3, <1>5, <1>6

LEMMA SameTraces ==
  /\ \A tr, p, i : Merging!EndAt(tr, p, i) = M!EndAt(tr, p, i)
  /\ \A tr, p : Merging!Indices(tr, p) = M!Indices(tr, p)
  /\ \A tr, e : Merging!Group(tr, e) = M!Group(tr, e)
  /\ \A tr : Merging!IsTrace(tr) <=> M!IsTrace(tr)
  /\ \A tr : Merging!Ordered(tr) <=> M!Ordered(tr)
<1>1. /\ \A tr, p, i : Merging!EndAt(tr, p, i) = M!EndAt(tr, p, i)
      /\ \A tr, p : Merging!Indices(tr, p) = M!Indices(tr, p)
      /\ \A vs : Merging!CioSet(vs) = M!CioSet(vs)
  BY DEF Merging!EndAt, M!EndAt, Merging!Indices, M!Indices, Merging!CioSet, M!CioSet
<1>2. \A tr, e : Merging!Group(tr, e) = M!Group(tr, e)
  BY SameClasses DEF Merging!Group, M!Group
<1>3. \A tr : Merging!IsTrace(tr) <=> M!IsTrace(tr)
  BY <1>1, SameClasses DEF Merging!IsTrace, M!IsTrace
<1>4. \A tr : Merging!Ordered(tr) <=> M!Ordered(tr)
  BY <1>1, <1>2, SameClasses DEF Merging!Ordered, M!Ordered
<1> QED
  BY <1>1, <1>2, <1>3, <1>4

LEMMA SameChoice ==
  /\ Merging!make_mapview = M!make_mapview
  /\ \A tr, view, p : Merging!Exhausted(tr, view, p) <=> M!Exhausted(tr, view, p)
  /\ \A tr, view : Merging!on_end(tr, view) <=> M!on_end(tr, view)
  /\ \A pg, view : Merging!update_view(pg, view) = M!update_view(pg, view)
  /\ \A tr, view : Merging!EndEvents(tr, view) = M!EndEvents(tr, view)
  /\ \A tr, view : Merging!find_end_events_to_update(tr, view)
                     = M!find_end_events_to_update(tr, view)
  /\ \A tr, view : Merging!AssertionsHold(tr, view) <=> M!AssertionsHold(tr, view)
<1>1. Merging!make_mapview = M!make_mapview
  BY SameClasses DEF Merging!make_mapview, M!make_mapview
<1>2. \A tr, view, p : Merging!Exhausted(tr, view, p) <=> M!Exhausted(tr, view, p)
  BY DEF Merging!Exhausted, M!Exhausted
<1>3. \A tr, view : Merging!on_end(tr, view) <=> M!on_end(tr, view)
  BY <1>2, SameClasses DEF Merging!on_end, M!on_end
<1>4. \A pg, view : Merging!update_view(pg, view) = M!update_view(pg, view)
  BY SameClasses DEF Merging!update_view, M!update_view
<1>5. \A tr, view : Merging!EndEvents(tr, view) = M!EndEvents(tr, view)
  BY SameClasses, SameTraces DEF Merging!EndEvents, M!EndEvents
<1>6. \A S : Merging!IsSingleton(S) <=> M!IsSingleton(S)
  BY DEF Merging!IsSingleton, M!IsSingleton
<1>7. \A tr, view : Merging!LocalEnds(tr, view) = M!LocalEnds(tr, view)
  BY <1>5, SameClasses DEF Merging!LocalEnds, M!LocalEnds
<1>8. \A tr, view : /\ Merging!dependent_syncs(tr, view) = M!dependent_syncs(tr, view)
                    /\ Merging!independent_syncs(tr, view) = M!independent_syncs(tr, view)
  BY <1>7, SameTraces DEF Merging!dependent_syncs, M!dependent_syncs,
                          Merging!independent_syncs, M!independent_syncs
<1>9. \A tr, view, e : Merging!can_update_end_event(tr, view, e)
                         <=> M!can_update_end_event(tr, view, e)
  BY SameTraces DEF Merging!can_update_end_event, M!can_update_end_event
<1>10. \A tr, view, S : Merging!FirstUpdatable(tr, view, S) = M!FirstUpdatable(tr, view, S)
  BY <1>9 DEF Merging!FirstUpdatable, M!FirstUpdatable
<1>11. \A tr, view : Merging!find_end_events_to_update(tr, view)
                       = M!find_end_events_to_update(tr, view)
  BY <1>5, <1>6, <1>7, <1>8, <1>9, <1>10
     DEF Merging!find_end_events_to_update, M!find_end_events_to_update
<1>12. \A tr, view : Merging!AssertionsHold(tr, view) <=> M!AssertionsHold(tr, view)
  BY <1>5, <1>6, <1>7, <1>8, <1>11, SameClasses DEF Merging!AssertionsHold, M!AssertionsHold
<1> QED
  BY <1>1, <1>2, <1>3, <1>4, <1>5, <1>11, <1>12

LEMMA SameOutcome ==
  /\ \A tr, view : Merging!Outcome(tr, view) = M!Outcome(tr, view)
  /\ \A tr, view : Merging!MergeAt(tr, view) = M!MergeAt(tr, view)
  /\ \A view : Merging!Frame(view) = M!Frame(view)
  /\ Merging!Top = M!Top /\ \A s : Merging!Pop(s) = M!Pop(s)
  /\ Merging!Failures = M!Failures
<1>1. \A tr, view : Merging!Outcome(tr, view) = M!Outcome(tr, view)
  BY SameClasses, SameChoice DEF Merging!Outcome, M!Outcome
<1>2. \A tr, view : Merging!MergeAt(tr, view) = M!MergeAt(tr, view)
  <2>1. \A S : Merging!Min(S) = M!Min(S) /\ Merging!Max(S) = M!Max(S)
    BY DEF Merging!Min, M!Min, Merging!Max, M!Max
  <2> QED
    BY <2>1, SameClasses, SameChoice DEF Merging!MergeAt, M!MergeAt, Merging!NoVertex, M!NoVertex
<1>3. \A view : Merging!Frame(view) = M!Frame(view)
  BY DEF Merging!Frame, M!Frame
<1>4. Merging!Top = M!Top /\ \A s : Merging!Pop(s) = M!Pop(s)
  BY DEF Merging!Top, M!Top, Merging!Pop, M!Pop
<1>5. Merging!Failures = M!Failures
  BY DEF Merging!Failures, M!Failures
<1> QED
  BY <1>1, <1>2, <1>3, <1>4, <1>5

LEMMA SameMerge ==
  ASSUME Merging!Next
  PROVE  M!Next
<1>1. CASE Merging!ReturnOnEnd
  BY <1>1, SameOutcome DEF Merging!ReturnOnEnd, M!ReturnOnEnd, M!Next
<1>2. CASE Merging!Merge
  BY <1>2, SameOutcome, SameChoice DEF Merging!Merge, M!Merge, M!Next
<1>3. CASE Merging!Recurse
  BY <1>3, SameOutcome, SameTraces, SameChoice DEF Merging!Recurse, M!Recurse, M!Next
<1>4. CASE Merging!ReturnFromLoop
  BY <1>4, SameOutcome DEF Merging!ReturnFromLoop, M!ReturnFromLoop, M!Next
<1>5. CASE Merging!Fail
  BY <1>5, SameOutcome DEF Merging!Fail, M!Fail, M!Next
<1>6. CASE Merging!Finish
  BY <1>6 DEF Merging!Finish, M!Finish, M!Next
<1> QED
  BY <1>1, <1>2, <1>3, <1>4, <1>5, <1>6 DEF Merging!Next

-----------------------------------------------------------------------------
(***************************************************************************)
(* An experiment on a sound trace: at each stage, what the components have *)
(* left.  Once the merge has begun it is in its own invariant.             *)
(***************************************************************************)
MergeSound ==
  stage = "merge" /\ NoTies =>
    /\ M!IInv
    /\ Sound(program) /\ SameOrder(program) => Merging!Ordered(trace)

FinishInv ==
  /\ HandInv /\ LocalInv /\ FilesInv /\ SoundInv
  /\ stage \in {"start", "build", "visit"} => merged = {} /\ result = {}
  /\ stage = "visit" => status \in {"done", "returned"}
  /\ MergeSound
  /\ SoundExperimentsFinish

LEMMA SoundlyRead ==
  ASSUME IInv, LocalInv, FilesInv, NotesInv, MatchedInv, SoundInv, [Next]_vars
  PROVE  (LocalInv /\ FilesInv /\ SoundInv)'
<1>1. IInv' /\ NotesInv' /\ MatchedInv'
  BY SyncInductive
<1>2. LocalInv' /\ FilesInv'
  BY LocalStep, FilesStep
<1>3. TimesInv' /\ MadeInv'
  BY <1>1, TimesStep, MadeStep DEF SoundInv
<1>4. UNCHANGED program
  BY ProgramStays
<1>5. Sound(program) => status' \notin Failed
  BY <1>1, SoundStep DEF SoundInv
<1> QED
  BY <1>2, <1>3, <1>4, <1>5 DEF SoundInv

LEMMA SameTies ==
  ASSUME UNCHANGED <<graph, edges>>
  PROVE  NoTies' <=> NoTies
<1>1. (NoTies <=> \A p \in Procs : V!DistinctTimes(p))'
  BY TiesSeen, PTL
<1>2. \A p : V!DistinctTimes(p)' <=> V!DistinctTimes(p)
  BY V!SameGraph, NProcsAssumption DEF V!DistinctTimes
<1> QED
  BY <1>1, <1>2, TiesSeen DEF Procs

(* The beginning of the merge, and its steps. *)
LEMMA MergeStarts ==
  ASSUME NEW tr, Merging!IsTrace(tr), trace' = tr,
         calls' = <<Merging!Frame(Merging!make_mapview)>>, merge_status' = "running",
         merged' = {}, result' = {}
  PROVE  M!IInv'
<1>1. M!IsTrace(tr) /\ \A x \in {} : M!IsTrace(x)
  BY SameTraces
<1>2. M!make_mapview \in M!Cuts(tr) /\ M!Consistent(tr, M!make_mapview)
  BY <1>1, M!FirstViewSound, NProcsAssumption
<1>3. M!Frame(M!make_mapview) \in M!SoundFrames(tr)
  BY <1>2 DEF M!Frame, M!SoundFrames, M!Frames
<1>4. calls' \in Seq(M!SoundFrames(tr))
  BY <1>3, SameChoice, SameOutcome
<1>5. calls' \in Seq(M!Frames(tr))
  BY <1>1, <1>4, M!SoundAreFrames, NProcsAssumption
<1> QED
  BY <1>1, <1>4, <1>5 DEF M!IInv, M!TypeOK, M!OrderedNeverFails, M!Failures, M!Frames

LEMMA MergeGoesOn ==
  ASSUME M!IInv, Merging!Next \/ UNCHANGED merge_vars
  PROVE  M!IInv'
<1>1. [M!Next]_(M!vars)
  BY SameMerge DEF M!vars, merge_vars
<1>2. \A x \in {} : M!IsTrace(x)
  OBVIOUS
<1> QED
  BY <1>1, <1>2, M!StepSound, NProcsAssumption

(* On a sound trace the search finds the root event of everything. *)
LEMMA NoAbortedSearch ==
  ASSUME HandInv, SoundInv, stage = "visit", status \in {"done", "returned"},
         visit = "aborted"
  PROVE  ~Sound(program)
<1> SUFFICES ASSUME Sound(program) PROVE FALSE
  OBVIOUS
<1>1. status = "done" /\ Separable(program)
  BY DEF SoundInv, Failed, Sound
<1>2. PICK d \in DOMAIN graph : ~V!HasRoot(d)
  BY DEF HandInv, V!RootsMet
<1>3. d \in SyncVertices /\ graph[d].root_event = 0
  BY <1>2 DEF V!HasRoot, V!IsSync, V!Root, V!Unset, SyncVertices
<1>4. 0 \in SyncVertices
  BY <1>1, <1>3, RootOfOperation DEF HandInv, ExperimentInv
<1>5. 0 \notin DOMAIN graph
  BY SequenceFacts DEF HandInv, ExperimentInv, IInv, GraphInv
<1> QED
  BY <1>4, <1>5 DEF SyncVertices

LEMMA FinishStarts ==
  ASSUME ExperimentInit
  PROVE  FinishInv
<1>1. HandInv
  BY HandStarts
<1>2. Init /\ stage = "start" /\ merged = {} /\ result = {}
  BY DEF ExperimentInit
<1>3. LocalInv /\ FilesInv /\ SoundInv
  BY <1>1, <1>2, LocalInitially, FilesInitially, SoundInitially DEF HandInv, ExperimentInv
<1> QED
  BY <1>1, <1>2, <1>3 DEF FinishInv, MergeSound, SoundExperimentsFinish

LEMMA FinishStep ==
  ASSUME FinishInv, [ExperimentNext]_experiment_vars
  PROVE  FinishInv'
<1>1. HandInv'
  BY HandStep DEF FinishInv
<1> DEFINE Carried == (LocalInv /\ FilesInv /\ SoundInv)'
           Stops == {"no_result", "build_failed", "visit_failed", "merge_failed"}
<1>2. ASSUME [Next]_vars PROVE Carried
  BY <1>2, SoundlyRead DEF FinishInv, HandInv, ExperimentInv
<1>3. ASSUME UNCHANGED <<program, graph, edges, config>>
      PROVE  /\ NoTies' <=> NoTies
             /\ Sound(program)' <=> Sound(program)
             /\ SameOrder(program)' <=> SameOrder(program)
  <2>1. NoTies' <=> NoTies
    BY <1>3, SameTies
  <2> QED
    BY <1>3, <2>1
<1> HIDE DEF Carried
<1>4. CASE CreateDirectories \/ CioStats \/ CsvOutput \/ MergeReturns
  <2>1. /\ UNCHANGED <<vars, merged, result>>
        /\ stage' \notin Stops \cup {"merge", "visit"}
        /\ stage' \in {"start", "build"} => stage = "start"
    BY <1>4 DEF CreateDirectories, CioStats, CsvOutput, MergeReturns, merge_vars
  <2>2. Carried
    BY <1>2, <2>1
  <2> QED
    BY <1>1, <2>1, <2>2 DEF FinishInv, Carried, MergeSound, SoundExperimentsFinish
<1>5. CASE Build
  <2>1. stage = "build" /\ stage' = "build" /\ Next /\ UNCHANGED <<merged, result>>
    BY <1>5 DEF Build, merge_vars
  <2>2. Carried
    BY <1>2, <2>1
  <2> QED
    BY <1>1, <2>1, <2>2 DEF FinishInv, Carried, MergeSound, SoundExperimentsFinish
<1>6. CASE BuildReturns
  <2>1. /\ UNCHANGED <<vars, merged, result, config>> /\ stage = "build"
        /\ status \in {"done", "returned"}
        /\ stage' = IF config.pio_sets \/ config.cio_sets THEN "visit" ELSE "no_result"
    BY <1>6 DEF BuildReturns, merge_vars
  <2>2. Carried /\ status' = status
    BY <1>2, <2>1 DEF vars
  <2> QED
    BY <1>1, <2>1, <2>2 DEF FinishInv, Carried, MergeSound, SoundExperimentsFinish
<1>7. CASE BuildFails
  <2>1. /\ UNCHANGED <<vars, config>> /\ stage' = "build_failed"
        /\ status \in {"aborted", "undefined"}
    BY <1>7 DEF BuildFails
  <2>2. Carried /\ UNCHANGED <<program, graph, edges>>
    BY <1>2, <2>1 DEF vars
  <2>3. ~Sound(program)'
    BY <1>3, <2>1, <2>2 DEF FinishInv, SoundInv, Failed
  <2> QED
    BY <1>1, <2>1, <2>2, <2>3 DEF FinishInv, Carried, MergeSound, SoundExperimentsFinish
<1>8. CASE Visit
  <2>1. stage = "visit" /\ stage' = "visit" /\ UNCHANGED <<merged, result, status>>
    BY <1>8 DEF Visit, merge_vars
  <2>2. UNCHANGED vars
    BY <1>8 DEF vars, Visit, Visitor!VisitNext, Visitor!StartVisit, Visitor!Descend,
                Visitor!SkipEdge, Visitor!Backtrack, Visitor!SortSets, Visitor!AbortVisit
  <2>3. Carried
    BY <1>2, <2>2
  <2> QED
    BY <1>1, <2>1, <2>3 DEF FinishInv, Carried, MergeSound, SoundExperimentsFinish
<1>9. CASE VisitFails
  <2>1. /\ UNCHANGED <<vars, config>> /\ stage = "visit" /\ stage' = "visit_failed"
        /\ visit = "aborted"
    BY <1>9 DEF VisitFails
  <2>2. Carried /\ UNCHANGED <<program, graph, edges>>
    BY <1>2, <2>1 DEF vars
  <2>3. ~Sound(program)'
    BY <1>3, <2>1, <2>2, NoAbortedSearch DEF FinishInv
  <2> QED
    BY <1>1, <2>1, <2>2, <2>3 DEF FinishInv, Carried, MergeSound, SoundExperimentsFinish
<1>10. CASE VisitReturns
  <2>1. /\ UNCHANGED <<vars, config>> /\ stage = "visit" /\ visit = "done"
        /\ stage' \in {"merge", "merge_failed"}
    BY <1>10, Zenon DEF VisitReturns
  <2>2. Carried /\ UNCHANGED <<program, graph, edges>>
    BY <1>2, <2>1 DEF vars
  <2>3. CASE num_locations = Uninitialised
    <3>1. stage' = "merge_failed"
      BY <1>10, <2>3 DEF VisitReturns
    <3>2. status # "done"
      BY <2>3, NProcsAssumption DEF FinishInv, HandInv, Located, Uninitialised
    <3>3. ~Sound(program)'
      BY <1>3, <2>1, <2>2, <3>2 DEF FinishInv, SoundInv, Failed
    <3> QED
      BY <1>1, <2>2, <3>1, <3>3 DEF FinishInv, Carried, MergeSound, SoundExperimentsFinish
  <2>4. CASE num_locations # Uninitialised
    <3>1. /\ stage' = "merge" /\ trace' = MergeInput /\ merge_status' = "running"
          /\ calls' = <<Merging!Frame(Merging!make_mapview)>>
          /\ merged' = {} /\ result' = {}
      BY <1>10, <2>1, <2>4, Zenon DEF VisitReturns, FinishInv
    <3>2. status = "done"
      BY <2>4 DEF FinishInv, HandInv, Located
    <3>3. ASSUME NoTies
          PROVE  /\ Merging!IsTrace(MergeInput)
                 /\ Sound(program) /\ SameOrder(program) => Merging!Ordered(MergeInput)
      <4>1. Returned
        BY <2>1, <3>2, <3>3, SetsReturned DEF FinishInv, HandInv
      <4> QED
        BY <4>1, InputIsTrace, InputOrdered DEF Sound
    <3> HIDE DEF MergeInput
    <3>4. MergeSound'
      <4>1. ASSUME NoTies PROVE M!IInv'
        BY <3>1, <3>3, <4>1, MergeStarts
      <4>2. ASSUME NoTies, Sound(program), SameOrder(program) PROVE Merging!Ordered(trace')
        BY <3>1, <3>3, <4>2
      <4> QED
        BY <1>3, <2>1, <2>2, <4>1, <4>2 DEF MergeSound
    <3> QED
      BY <1>1, <2>2, <3>1, <3>4 DEF FinishInv, Carried, SoundExperimentsFinish
  <2> QED
    BY <2>3, <2>4
<1>11. CASE Merge
  <2>1. /\ UNCHANGED <<vars, config>> /\ stage = "merge" /\ stage' = "merge"
        /\ Merging!Next
    BY <1>11 DEF Merge
  <2>2. Carried /\ UNCHANGED <<program, graph, edges>>
    BY <1>2, <2>1 DEF vars
  <2>3. trace' = trace
    BY <2>1 DEF Merging!Next, Merging!ReturnOnEnd, Merging!Merge, Merging!Recurse,
                Merging!ReturnFromLoop, Merging!Fail, Merging!Finish
  <2>4. M!IInv => M!IInv'
    BY <2>1, MergeGoesOn
  <2>5. MergeSound'
    BY <1>3, <2>1, <2>2, <2>3, <2>4 DEF FinishInv, MergeSound
  <2> QED
    BY <1>1, <2>1, <2>2, <2>5 DEF FinishInv, Carried, SoundExperimentsFinish
<1>12. CASE MergeFails
  <2>1. /\ UNCHANGED <<vars, config>> /\ stage = "merge" /\ stage' = "merge_failed"
        /\ merge_status \in Merging!Failures
    BY <1>12 DEF MergeFails
  <2>2. Carried /\ UNCHANGED <<program, graph, edges>>
    BY <1>2, <2>1 DEF vars
  <2>3. ASSUME NoTies, Sound(program), SameOrder(program) PROVE FALSE
    <3>1. M!IInv /\ M!Ordered(trace)
      BY <2>1, <2>3, SameTraces DEF FinishInv, MergeSound
    <3> QED
      BY <2>1, <3>1, SameOutcome DEF M!IInv, M!OrderedNeverFails
  <2> QED
    BY <1>1, <1>3, <2>1, <2>2, <2>3 DEF FinishInv, Carried, MergeSound, SoundExperimentsFinish
<1>13. CASE UNCHANGED experiment_vars
  <2>1. UNCHANGED <<vars, config, stage, merge_vars>>
    BY <1>13 DEF experiment_vars
  <2>2. Carried /\ UNCHANGED <<program, graph, edges, status, trace, merged, result>>
    BY <1>2, <2>1 DEF vars, merge_vars
  <2>3. M!IInv => M!IInv'
    BY <2>1, MergeGoesOn
  <2>4. MergeSound'
    BY <1>3, <2>1, <2>2, <2>3 DEF FinishInv, MergeSound
  <2>5. SoundExperimentsFinish'
    BY <1>3, <2>1, <2>2 DEF FinishInv, SoundExperimentsFinish
  <2> QED
    BY <1>1, <2>1, <2>2, <2>4, <2>5 DEF FinishInv, Carried
<1> QED
  BY <1>4, <1>5, <1>6, <1>7, <1>8, <1>9, <1>10, <1>11, <1>12, <1>13 DEF ExperimentNext

(***************************************************************************)
(* An experiment on a trace without the peculiarities named in Sound, all  *)
(* of whose processes agree on the order of synchronisations and none of   *)
(* which has two of them at one time, never stops before its statistics:   *)
(* no handler fails (otf2_io_graph_builder.cpp), no callback of the search *)
(* does (cio_types.hpp), and the merge neither throws nor reads through an *)
(* end iterator (cio_set.cpp).                                             *)
(***************************************************************************)
THEOREM SoundExperiments == ExperimentSpec => []SoundExperimentsFinish
<1>1. ExperimentInit => FinishInv
  BY FinishStarts
<1>2. FinishInv /\ [ExperimentNext]_experiment_vars => FinishInv'
  BY FinishStep
<1>3. FinishInv => SoundExperimentsFinish
  BY DEF FinishInv
<1> QED
  BY <1>1, <1>2, <1>3, PTL DEF ExperimentSpec

-----------------------------------------------------------------------------
(***************************************************************************)
(* The events of a set lie between the synchronisation before it and the   *)
(* one that closes it.                                                     *)
(***************************************************************************)
EventsCut(p) ==
  LET s == set_map[p] IN
  \A i \in DOMAIN s : \A v \in s[i].events :
    /\ v \in OwnVertices(p) \ SyncsOf(p)
    /\ i # Len(s) => v < s[i].origin
    /\ \A j \in DOMAIN s : j < i => s[j].origin < v

LEMMA EventsReturned ==
  ASSUME ExperimentInv, visit = "done", NoTies
  PROVE  \A p \in Procs : EventsCut(p)
<1> SUFFICES ASSUME NEW p \in Procs PROVE EventsCut(p)
  OBVIOUS
<1>1. IInv /\ ShapeInv /\ Ended
  BY DEF ExperimentInv, Ended
<1>2. V!Chained /\ V!VisitorInv
  BY <1>1, GraphChained DEF ExperimentInv
<1>3. V!DistinctTimes(p)
  BY TiesSeen
<1>4. p \in V!Procs
  BY DEF V!Procs, Procs
<1>5. V!Complete(set_map[p], p)
  BY <1>2, <1>3, <1>4, V!SetsComplete, NProcsAssumption, NumbersAssumption
<1>6. V!Syncs(p) = SyncsOf(p) /\ V!Own(p) = OwnVertices(p)
  BY SameNames DEF V!Syncs, V!IsSync, SyncsOf, SyncVertices
<1> QED
  BY <1>5, <1>6 DEF V!Complete, EventsCut

(***************************************************************************)
(* A cut of the sets of all processes, and the synchronisations before it. *)
(* Every synchronisation is passed by all of its members or by none.       *)
(***************************************************************************)
Behind(c, r) ==
  {b \in SyncsOf(r) : \E j \in DOMAIN set_map[r] : j < c[r] /\ set_map[r][j].origin = b}

CutOfSets(c) ==
  /\ \A p \in Procs : c[p] \in DOMAIN set_map[p]
  /\ \A p, q \in Procs : \A b \in Behind(c, p) :
       q \in MergeVertex(graph[graph[b].root_event]).procs =>
         \E d \in Behind(c, q) : graph[d].root_event = graph[b].root_event

Cutting(c) == Returned /\ (\A p \in Procs : EventsCut(p)) /\ CutOfSets(c)

LEMMA CutIsOfSets ==
  ASSUME Returned, Separable(program), NEW tr, tr = MergeInput, NEW c,
         \A p \in Procs : c[p] \in 1 .. Len(tr.pio[p]), M!Consistent(tr, c)
  PROVE  CutOfSets(c)
<1>1. \A p \in Procs : /\ Len(set_map[p]) \in Nat /\ DOMAIN set_map[p] = 1 .. Len(set_map[p])
                       /\ Len(tr.pio[p]) = Len(set_map[p])
                       /\ \A i \in DOMAIN set_map[p] : tr.pio[p][i].end = set_map[p][i].end - 1
  <2> SUFFICES ASSUME NEW p \in Procs
               PROVE  /\ Len(set_map[p]) \in Nat /\ DOMAIN set_map[p] = 1 .. Len(set_map[p])
                      /\ Len(tr.pio[p]) = Len(set_map[p])
                      /\ \A i \in DOMAIN set_map[p] :
                           tr.pio[p][i].end = set_map[p][i].end - 1
    OBVIOUS
  <2> HIDE DEF MergeInput
  <2>1. PICK s, n : s = set_map[p] /\ n = Len(s)
    OBVIOUS
  <2>2. /\ n \in Nat \ {0} /\ DOMAIN s = 1 .. n /\ Len(tr.pio[p]) = n
        /\ \A i \in 1 .. n : tr.pio[p][i].end = s[i].end - 1
    BY <2>1, SetRead
  <2> QED
    BY <2>1, <2>2
<1>2. \A p \in Procs : c[p] \in DOMAIN set_map[p]
  BY <1>1
<1>3. ASSUME NEW p \in Procs, NEW q \in Procs, NEW b \in Behind(c, p),
             q \in MergeVertex(graph[graph[b].root_event]).procs
      PROVE  \E d \in Behind(c, q) : graph[d].root_event = graph[b].root_event
  <2>1. PICK r : r = graph[b].root_event
    OBVIOUS
  <2>2. PICK j \in DOMAIN set_map[p] : j < c[p] /\ set_map[p][j].origin = b
    BY DEF Behind
  <2>3. b \in SyncsOf(p) /\ b \in SyncVertices /\ r \in SyncVertices
    BY <2>1 DEF Behind, Returned, SyncsOf, OwnVertices, SyncVertices
  <2>4. \A i \in DOMAIN set_map[p] : i # Len(set_map[p]) =>
          set_map[p][i].end = graph[set_map[p][i].origin].root_event
    BY DEF Returned, Handed
  <2>5. j # Len(set_map[p])
    BY <1>1, <1>2, <2>2
  <2>6. set_map[p][j].end = r
    BY <2>1, <2>2, <2>4, <2>5
  <2>7. r \in DOMAIN graph /\ r \in Nat \ {0} /\ Len(graph) \in Nat
        /\ DOMAIN graph = 1 .. Len(graph) /\ graph[r].type = "sync_event"
    BY <2>3, SequenceFacts DEF Returned, IInv, GraphInv, SyncVertices
  <2>8. tr.graph = [d \in 0 .. Len(graph) - 1 |-> MergeVertex(graph[d + 1])]
    <3>1. IsSequence(graph)
      BY DEF Returned, IInv, GraphInv
    <3> HIDE DEF MergeInput
    <3> QED
      BY <3>1, InputIs
  <2>9. PICK e : e = r - 1
    OBVIOUS
  <2>10. e \in DOMAIN tr.graph /\ tr.graph[e] = MergeVertex(graph[r])
    BY <2>7, <2>8, <2>9
  <2>11. MergeVertex(graph[r]).type = "sync_event"
    BY <2>7 DEF MergeVertex
  <2>12. M!Group(tr, e) = MergeVertex(graph[r]).procs
    BY <2>10, <2>11, MergeNames, SameTraces
  <2>13. p \in M!Group(tr, e) /\ q \in M!Group(tr, e)
    <3>1. p \in MergeVertex(graph[r]).procs
      BY <2>1, <2>3, MembersMeet
    <3> QED
      BY <1>3, <2>1, <2>12, <3>1
  <2>14. M!Passed(tr, c, p, e)
    BY <1>1, <2>2, <2>6, <2>9 DEF M!Passed, M!Indices, M!EndAt
  <2>15. M!Passed(tr, c, q, e)
    BY <2>10, <2>13, <2>14 DEF M!Consistent
  <2>16. PICK k \in DOMAIN set_map[q] : k < c[q] /\ set_map[q][k].end - 1 = e
    BY <1>1, <2>15 DEF M!Passed, M!Indices, M!EndAt
  <2>17. k # Len(set_map[q])
    BY <1>1, <1>2, <2>16
  <2>18. /\ set_map[q][k].origin \in SyncsOf(q)
         /\ set_map[q][k].end = graph[set_map[q][k].origin].root_event
    BY <2>17 DEF Returned, Handed
  <2>19. set_map[q][k].end \in Nat
    <3>1. graph[set_map[q][k].origin].root_event \in SyncVertices
      BY <2>18 DEF Returned, SyncsOf, OwnVertices, SyncVertices
    <3> QED
      BY <2>7, <2>18, <3>1 DEF SyncVertices
  <2>20. set_map[q][k].end = r
    BY <2>7, <2>9, <2>16, <2>19
  <2> QED
    BY <2>1, <2>16, <2>18, <2>20 DEF Behind
<1> QED
  BY <1>2, <1>3 DEF CutOfSets

(* What lies behind a cut is what comes before the events at the cut. *)
LEMMA BehindBefore ==
  ASSUME NEW c, Cutting(c), NEW p \in Procs, NEW v \in set_map[p][c[p]].events,
         NEW b \in SyncsOf(p)
  PROVE  b \in Behind(c, p) <=> b < v
<1> DEFINE s == set_map[p]
           k == c[p]
<1>1. /\ Len(s) \in Nat \ {0} /\ DOMAIN s = 1 .. Len(s)
      /\ \A i \in DOMAIN s : i # Len(s) => s[i].origin \in SyncsOf(p)
      /\ \A i, j \in DOMAIN s : i < j /\ j # Len(s) => s[i].origin < s[j].origin
      /\ \E i \in DOMAIN s : i # Len(s) /\ s[i].origin = b
  <2>1. Handed(p)
    BY DEF Cutting, Returned
  <2> QED
    BY <2>1 DEF Handed
<1>2. k \in DOMAIN s
  BY DEF Cutting, CutOfSets
<1>3. /\ v \in OwnVertices(p) /\ v \notin SyncsOf(p)
      /\ k # Len(s) => v < s[k].origin
      /\ \A j \in DOMAIN s : j < k => s[j].origin < v
  <2>1. EventsCut(p)
    BY DEF Cutting
  <2> QED
    BY <1>2, <2>1 DEF EventsCut
<1>4. v \in Nat /\ SyncsOf(p) \subseteq Nat /\ b \in Nat
  <2>1. OwnVertices(p) \subseteq Nat
    BY SequenceFacts DEF Cutting, Returned, IInv, GraphInv, OwnVertices
  <2> QED
    BY <1>3, <2>1 DEF SyncsOf
<1> HIDE DEF s, k
<1>5. ASSUME b \in Behind(c, p) PROVE b < v
  BY <1>3, <1>5 DEF Behind, s, k
<1>6. ASSUME b < v PROVE b \in Behind(c, p)
  <2>1. PICK i \in DOMAIN s : i # Len(s) /\ s[i].origin = b
    BY <1>1
  <2>2. CASE i < k
    BY <2>1, <2>2 DEF Behind, s, k
  <2>3. CASE i = k
    BY <1>3, <1>4, <1>6, <2>1, <2>3
  <2>4. CASE k < i
    <3>1. k # Len(s)
      BY <1>1, <1>2, <2>1, <2>4
    <3>2. s[k].origin < b /\ v < s[k].origin /\ s[k].origin \in Nat
      BY <1>1, <1>2, <1>3, <1>4, <2>1, <2>4, <3>1
    <3> QED
      BY <1>4, <1>6, <3>2
  <2> QED
    BY <1>1, <1>2, <2>1, <2>2, <2>3, <2>4
<1> QED
  BY <1>5, <1>6

(* A process passes no operation twice, if there is a common order. *)
LEMMA OncePassed ==
  ASSUME Returned, SameOrder(program), NEW p \in Procs,
         NEW d \in SyncsOf(p), NEW e \in SyncsOf(p), Op(d) = Op(e)
  PROVE  d = e
<1>1. IInv /\ NotesInv /\ IsProgram(program)
  BY ProgramsAssumption DEF Returned, IInv, ReadingInv
<1>2. ASSUME NEW a \in SyncsOf(p), NEW b \in SyncsOf(p), Op(a) = Op(b),
             graph[a].timestamp < graph[b].timestamp
      PROVE  FALSE
  <2>1. /\ a \in SyncVertices /\ graph[a].proc = p /\ b \in SyncVertices /\ graph[b].proc = p
    BY <1>1, Timely
  <2>2. PICK i, j : i = graph[a].timestamp /\ j = graph[b].timestamp
    OBVIOUS
  <2>3. /\ i \in SyncCalls(program[p]) /\ j \in SyncCalls(program[p])
        /\ Op(a) = program[p][i].op /\ Op(b) = program[p][j].op
    BY <1>1, <2>1, <2>2, SyncFacts
  <2>4. PICK x : x = <<p, j>>
    OBVIOUS
  <2>5. x \in SyncPlaces(program) /\ x[1] = p /\ x[2] = j
    BY <2>3, <2>4, Places
  <2>6. x \in PlacesOf(Op(b))
    BY <2>3, <2>5 DEF PlacesOf
  <2>7. Op(a) \in Mine(x)
    BY <1>2, <2>2, <2>3, <2>5 DEF Mine
  <2>8. Op(b) \in Prior(Op(b))
    BY <1>2, <2>6, <2>7 DEF Prior
  <2> QED
    BY <1>1, <2>8, NotBeforeItself, PassedGrows
<1>3. graph[d].timestamp \in Nat /\ graph[e].timestamp \in Nat
  BY <1>1 DEF IInv, GraphInv, GoodVertex, SyncsOf, OwnVertices
<1>4. graph[d].timestamp = graph[e].timestamp
  BY <1>2, <1>3
<1> QED
  BY <1>1, <1>4, Timely

(* All who take part in an operation have it behind them, or none has. *)
LEMMA BehindTogether ==
  ASSUME NEW c, Cutting(c), Separable(program), SameOrder(program),
         NEW p \in Procs, NEW q \in Procs, NEW b \in Behind(c, p),
         NEW e \in SyncsOf(q), Op(e) = Op(b)
  PROVE  e \in Behind(c, q)
<1>1. /\ Returned /\ IInv /\ NotesInv /\ MatchedInv /\ GraphKnown /\ status = "done"
  BY DEF Cutting, Returned
<1>2. b \in SyncsOf(p) /\ b \in SyncVertices /\ e \in SyncVertices
  BY DEF Behind, SyncsOf, OwnVertices, SyncVertices
<1>3. PICK r : r = graph[b].root_event
  OBVIOUS
<1>4. graph[e].root_event = r /\ Op(r) = Op(b) /\ r \in SyncVertices
  BY <1>1, <1>2, <1>3, RootOfOperation
<1>5. q \in MergeVertex(graph[r]).procs
  BY <1>1, <1>4, MembersMeet
<1>6. PICK d \in Behind(c, q) : graph[d].root_event = r
  BY <1>3, <1>5 DEF Cutting, CutOfSets
<1>7. d \in SyncsOf(q) /\ d \in SyncVertices
  BY DEF Behind, SyncsOf, OwnVertices, SyncVertices
<1>8. Op(d) = Op(e)
  <2>1. Op(graph[d].root_event) = Op(d)
    BY <1>1, <1>7, RootOfOperation
  <2> QED
    BY <1>4, <1>6, <2>1
<1>9. d = e
  BY <1>1, <1>7, <1>8, OncePassed
<1> QED
  BY <1>9

(***************************************************************************)
(* The operations behind a cut are closed under what comes before them.    *)
(***************************************************************************)
OpsBehind(c) == {Op(b) : b \in UNION {Behind(c, r) : r \in Procs}}

LEMMA CallVertex ==
  ASSUME Returned, NEW p \in Procs, NEW i \in SyncCalls(program[p])
  PROVE  \E d \in SyncsOf(p) : graph[d].timestamp = i /\ Op(d) = program[p][i].op
<1>1. IInv /\ NotesInv /\ Ended /\ IsProgram(program)
  BY ProgramsAssumption DEF Returned, Ended, IInv, ReadingInv
<1>2. i \in 1 .. Len(program[p]) /\ pos[p] = Len(program[p]) /\ Len(program[p]) \in Nat
  BY <1>1, LenProperties DEF NotesInv, IsProgram, WellFormed, SyncCalls
<1>3. PICK d \in SyncsOf(p) : graph[d].timestamp = i
  BY <1>1, <1>2 DEF NotesInv
<1>4. graph[d].proc = p
  BY <1>1, Timely
<1> QED
  BY <1>3, <1>4 DEF Op

(* Whoever records an operation of several calls it too. *)
LEMMA CallToo ==
  ASSUME IsProgram(program), NEW p \in Procs, NEW j \in SyncCalls(program[p]),
         NEW x \in SyncPlaces(program), program[x[1]][x[2]].op = program[p][j].op
  PROVE  x[2] \in SyncCalls(program[x[1]])
<1> DEFINE ev(y) == program[y[1]][y[2]]
           same(y) == {z \in SyncPlaces(program) : ev(z).op = ev(y).op}
<1>1. PICK y : y = <<p, j>>
  OBVIOUS
<1>2. y \in SyncPlaces(program) /\ ev(y) = program[p][j]
  BY <1>1, Places
<1>3. x[2] \in DOMAIN program[x[1]] /\ ev(x).kind \in SyncKinds
  BY Places
<1>4. ev(y).kind = "mpi_collective_end" => ev(y).members # <<>>
  BY <1>2 DEF SyncCalls
<1>5. x \in same(y) /\ ev(y).kind \in SyncKinds
  BY <1>2, Places
<1>6. CASE ev(y).kind = "mpi_collective_end"
  <2>1. ev(x) = ev(y)
    BY <1>2, <1>4, <1>5, <1>6 DEF IsProgram, OperationsAgree
  <2> QED
    BY <1>3, <1>4, <2>1 DEF SyncCalls
<1>7. CASE ev(y).kind # "mpi_collective_end"
  <2>1. \E z \in same(y) \ {y} : same(y) = {y, z} /\ ev(z).kind \in PeerKinds
    BY <1>2, <1>7 DEF IsProgram, OperationsAgree
  <2>2. ev(y).kind \in PeerKinds
    BY <1>5, <1>7 DEF SyncKinds
  <2>3. ev(x).kind \in PeerKinds
    BY <1>5, <2>1, <2>2
  <2> QED
    BY <1>3, <2>3 DEF SyncCalls, PeerKinds
<1> QED
  BY <1>6, <1>7

(* What a process passes before something behind the cut is behind it. *)
LEMMA BehindAll ==
  ASSUME NEW c, Cutting(c), NEW q \in Procs, NEW e \in Behind(c, q),
         NEW f \in SyncsOf(q), f < e
  PROVE  f \in Behind(c, q)
<1> DEFINE s == set_map[q]
           k == c[q]
<1>1. /\ Len(s) \in Nat \ {0} /\ DOMAIN s = 1 .. Len(s)
      /\ \A i, j \in DOMAIN s : i < j /\ j # Len(s) => s[i].origin < s[j].origin
      /\ \E i \in DOMAIN s : i # Len(s) /\ s[i].origin = f
  <2>1. Handed(q)
    BY DEF Cutting, Returned
  <2> QED
    BY <2>1 DEF Handed
<1>2. k \in DOMAIN s
  BY DEF Cutting, CutOfSets
<1>3. PICK j \in DOMAIN s : j < k /\ s[j].origin = e
  BY DEF Behind
<1>4. PICK i \in DOMAIN s : i # Len(s) /\ s[i].origin = f
  BY <1>1
<1>5. e \in Nat /\ f \in Nat
  <2>1. OwnVertices(q) \subseteq Nat
    BY SequenceFacts DEF Cutting, Returned, IInv, GraphInv, OwnVertices
  <2> QED
    BY <2>1 DEF SyncsOf, Behind
<1> HIDE DEF s, k
<1>6. i <= j
  <2> SUFFICES ASSUME j < i PROVE FALSE
    BY <1>1, <1>3, <1>4
  <2>1. e < f
    BY <1>1, <1>3, <1>4
  <2> QED
    BY <1>5, <2>1
<1>7. i < k
  BY <1>1, <1>2, <1>3, <1>4, <1>6
<1> QED
  BY <1>4, <1>7 DEF Behind, s, k

LEMMA BehindClosed ==
  ASSUME NEW c, Cutting(c), Separable(program), SameOrder(program),
         NEW o \in OpsBehind(c)
  PROVE  Prior(o) \subseteq OpsBehind(c)
<1> SUFFICES ASSUME NEW a \in Prior(o) PROVE a \in OpsBehind(c)
  OBVIOUS
<1>1. Returned /\ IInv /\ NotesInv /\ IsProgram(program)
  BY ProgramsAssumption DEF Cutting, Returned, IInv, ReadingInv
<1>2. PICK p \in Procs : \E x \in Behind(c, p) : Op(x) = o
  BY DEF OpsBehind
<1>3. PICK b \in Behind(c, p) : Op(b) = o
  BY <1>2
<1>4. PICK x \in PlacesOf(o) : a \in Mine(x)
  BY DEF Prior
<1>5. PICK q, t : q = x[1] /\ t = x[2]
  OBVIOUS
<1>6. PICK i \in SyncCalls(program[q]) : i < t /\ program[q][i].op = a
  BY <1>4, <1>5 DEF Mine
<1>7. /\ x \in SyncPlaces(program) /\ program[q][t].op = o /\ x = <<q, t>>
      /\ q \in Procs /\ t \in DOMAIN program[q] /\ program[q][t].kind \in SyncKinds
  BY <1>4, <1>5, Places DEF PlacesOf
<1>8. b \in SyncVertices /\ b \in SyncsOf(p)
  BY DEF Behind, SyncsOf, OwnVertices, SyncVertices
<1>9. PICK j : j = graph[b].timestamp
  OBVIOUS
<1>10. j \in SyncCalls(program[p]) /\ program[p][j].op = o
  BY <1>1, <1>3, <1>8, <1>9, SyncFacts, Timely
<1>11. t \in SyncCalls(program[q])
  BY <1>1, <1>7, <1>10, CallToo
<1>12. PICK e \in SyncsOf(q) : graph[e].timestamp = t /\ Op(e) = o
  BY <1>1, <1>7, <1>11, CallVertex
<1>13. e \in Behind(c, q)
  BY <1>3, <1>7, <1>12, BehindTogether
<1>14. PICK f \in SyncsOf(q) : graph[f].timestamp = i /\ Op(f) = a
  BY <1>1, <1>6, <1>7, CallVertex
<1>15. f < e
  BY <1>1, <1>6, <1>7, <1>12, <1>14, Timely
<1>16. f \in Behind(c, q)
  BY <1>7, <1>13, <1>14, <1>15, BehindAll
<1> QED
  BY <1>7, <1>14, <1>16 DEF OpsBehind

(***************************************************************************)
(* No chain of operations leads from one event at a cut to another.        *)
(***************************************************************************)
LEMMA EventPlace ==
  ASSUME NEW c, Cutting(c), NEW p \in Procs, NEW v \in set_map[p][c[p]].events
  PROVE  /\ v \in DOMAIN graph /\ v \in OwnVertices(p) /\ v \notin SyncsOf(p)
         /\ graph[v].type = "io_event" /\ graph[v].proc = p
         /\ PlaceOf(v) = <<p, graph[v].timestamp>>
<1>1. EventsCut(p) /\ c[p] \in DOMAIN set_map[p]
  BY DEF Cutting, CutOfSets
<1>2. v \in OwnVertices(p) /\ v \notin SyncsOf(p)
  BY <1>1 DEF EventsCut
<1>3. v \in DOMAIN graph /\ graph[v].proc = p /\ graph[v].type \notin {"synthetic", "sync_event"}
  BY <1>2 DEF SyncsOf, OwnVertices
<1>4. graph[v].type \in VertexKinds
  BY <1>3 DEF Cutting, Returned, GraphKnown
<1> QED
  BY <1>2, <1>3, <1>4 DEF VertexKinds, PlaceOf

LEMMA VerticesInTurn ==
  ASSUME IInv, NEW p \in Procs, NEW d \in OwnVertices(p), NEW e \in OwnVertices(p)
  PROVE  graph[d].timestamp < graph[e].timestamp => d < e
<1>1. d \in Nat /\ e \in Nat /\ graph[d].timestamp \in Nat /\ graph[e].timestamp \in Nat
  BY SequenceFacts DEF IInv, GraphInv, GoodVertex, OwnVertices
<1>2. e < d => graph[e].timestamp < graph[d].timestamp
  BY DEF IInv, ProgramOrderChained
<1> QED
  BY <1>1, <1>2

LEMMA CutUnordered ==
  ASSUME NEW c, Cutting(c), Separable(program), SameOrder(program),
         NEW p \in Procs, NEW q \in Procs,
         NEW v \in set_map[p][c[p]].events, NEW w \in set_map[q][c[q]].events
  PROVE  ~Precedes(PlaceOf(v), PlaceOf(w))
<1> DEFINE near == OpsAt(q, 1 .. graph[w].timestamp - 1)
           late == OpsAt(p, graph[v].timestamp + 1 .. Len(program[p]))
<1>1. Returned /\ IInv /\ NotesInv /\ IsProgram(program)
  BY ProgramsAssumption DEF Cutting, Returned, IInv, ReadingInv
<1>2. /\ v \in OwnVertices(p) /\ v \in DOMAIN graph /\ PlaceOf(v) = <<p, graph[v].timestamp>>
      /\ w \in OwnVertices(q) /\ w \in DOMAIN graph /\ PlaceOf(w) = <<q, graph[w].timestamp>>
      /\ w \notin SyncsOf(q) /\ v \notin SyncsOf(p)
  BY EventPlace
<1>3. graph[v].timestamp \in Nat /\ graph[w].timestamp \in Nat
  BY <1>1, <1>2 DEF IInv, GraphInv, GoodVertex, OwnVertices
<1>4. near \subseteq OpsBehind(c)
  <2> SUFFICES ASSUME NEW i \in 1 .. graph[w].timestamp - 1, i \in SyncCalls(program[q])
               PROVE  program[q][i].op \in OpsBehind(c)
    BY DEF OpsAt
  <2>1. PICK d \in SyncsOf(q) : graph[d].timestamp = i /\ Op(d) = program[q][i].op
    BY <1>1, CallVertex
  <2>2. d < w
    BY <1>1, <1>2, <1>3, <2>1, VerticesInTurn DEF SyncsOf
  <2>3. d \in Behind(c, q)
    BY <2>2, BehindBefore
  <2> QED
    BY <2>1, <2>3 DEF OpsBehind
<1>5. \A o \in near : PassedBefore(o) \subseteq OpsBehind(c)
  <2> SUFFICES ASSUME NEW o \in OpsBehind(c)
               PROVE  PassedBefore(o) \subseteq OpsBehind(c)
    BY <1>4
  <2> HIDE DEF PassedBefore
  <2>1. Prior(o) \subseteq OpsBehind(c)
        /\ \A a \in OpsBehind(c) : Prior(a) \subseteq OpsBehind(c)
    BY BehindClosed
  <2> QED
    BY <1>1, <2>1, PassedFacts
<1>6. late \cap OpsBehind(c) = {}
  <2> SUFFICES ASSUME NEW i \in graph[v].timestamp + 1 .. Len(program[p]),
                      i \in SyncCalls(program[p]), program[p][i].op \in OpsBehind(c)
               PROVE  FALSE
    BY DEF OpsAt
  <2>1. PICK e \in SyncsOf(p) : graph[e].timestamp = i /\ Op(e) = program[p][i].op
    BY <1>1, CallVertex
  <2>2. v < e /\ v \in Nat /\ e \in Nat
    <3>1. e \in OwnVertices(p)
      BY DEF SyncsOf
    <3>2. v \in Nat /\ e \in Nat
      BY <1>1, <1>2, <3>1, SequenceFacts DEF IInv, GraphInv, OwnVertices
    <3>3. graph[v].timestamp < graph[e].timestamp
      BY <1>3, <2>1
    <3> QED
      BY <1>1, <1>2, <3>1, <3>2, <3>3, VerticesInTurn
  <2>3. PICK r \in Procs : \E b \in Behind(c, r) : Op(b) = Op(e)
    BY <2>1 DEF OpsBehind
  <2>4. e \in Behind(c, p)
    BY <2>3, BehindTogether
  <2>5. e < v
    BY <2>4, BehindBefore
  <2> QED
    BY <2>2, <2>5
<1> HIDE DEF PassedBefore
<1>7. PICK x, y : x = PlaceOf(v) /\ y = PlaceOf(w)
  OBVIOUS
<1>8. near = OpsAt(y[1], 1 .. y[2] - 1)
      /\ late = OpsAt(x[1], x[2] + 1 .. Len(program[x[1]]))
  BY <1>2, <1>7
<1>9. PICK S, T : S = near /\ T = late
  OBVIOUS
<1>10. (S \cup UNION {PassedBefore(o) : o \in S}) \cap T = {}
  <2>1. S \subseteq OpsBehind(c) /\ (\A o \in S : PassedBefore(o) \subseteq OpsBehind(c))
        /\ T \cap OpsBehind(c) = {}
    BY <1>4, <1>5, <1>6, <1>9
  <2> HIDE DEF near, late
  <2> QED
    BY <2>1
<1>11. ~Precedes(x, y)
  BY <1>8, <1>9, <1>10 DEF Precedes
<1> QED
  BY <1>7, <1>11

-----------------------------------------------------------------------------
(***************************************************************************)
(* What the scripts report: intervals of two processes that overlap.       *)
(***************************************************************************)
Touch(r, s) ==
  /\ r.pid # s.pid /\ r.filename = s.filename
  /\ r.kind \in {"read", "write"} /\ s.kind \in {"read", "write"}
  /\ r.kind = "write" \/ s.kind = "write"
  /\ r.offset - r.response_size # r.offset /\ s.offset - s.response_size # s.offset
  /\ r.offset - r.response_size < s.offset
  /\ s.offset - s.response_size < r.offset

AccessTree(rows, file, p, kind) ==
  Analysis!make_intervaltree({r \in rows : r.filename = file /\ r.pid = p /\ r.kind = kind})

LEMMA HitsTouch ==
  ASSUME NEW rows, NEW file, NEW p, NEW q, p # q,
         NEW k \in {"read", "write"}, NEW l \in {"read", "write"}, k = "write" \/ l = "write",
         NEW z \in Analysis!Hits(AccessTree(rows, file, p, k), AccessTree(rows, file, q, l))
  PROVE  \E r, s \in rows : Touch(r, s) /\ z[1].vertex = r.vertex /\ z[2].vertex = s.vertex
<1> DEFINE A == {r \in rows : r.filename = file /\ r.pid = p /\ r.kind = k}
           B == {r \in rows : r.filename = file /\ r.pid = q /\ r.kind = l}
<1>1. PICK i \in Analysis!make_intervaltree(A) :
        z \in {i} \X Analysis!Slice(Analysis!make_intervaltree(B), i)
  BY DEF Analysis!Hits, AccessTree
<1>2. PICK j : j = z[2]
  OBVIOUS
<1>3. /\ z[1] = i /\ j \in Analysis!make_intervaltree(B)
      /\ j.begin < i.end /\ i.begin < j.end
  BY <1>1, <1>2 DEF Analysis!Slice
<1>4. PICK r \in A : i = Analysis!Interval(r) /\ i.begin # i.end
  BY <1>1 DEF Analysis!make_intervaltree
<1>5. PICK s \in B : j = Analysis!Interval(s) /\ j.begin # j.end
  BY <1>3 DEF Analysis!make_intervaltree
<1>6. /\ i.begin = r.offset - r.response_size /\ i.end = r.offset /\ i.vertex = r.vertex
      /\ j.begin = s.offset - s.response_size /\ j.end = s.offset /\ j.vertex = s.vertex
  BY <1>4, <1>5 DEF Analysis!Interval
<1>7. /\ r \in rows /\ r.filename = file /\ r.pid = p /\ r.kind = k
      /\ s \in rows /\ s.filename = file /\ s.pid = q /\ s.kind = l
  OBVIOUS
<1>8. Touch(r, s)
  BY <1>3, <1>4, <1>5, <1>6, <1>7 DEF Touch
<1> QED
  BY <1>2, <1>3, <1>6, <1>7, <1>8

LEMMA ReportedTouch ==
  ASSUME NEW rows, \A r \in rows : r.pid \in Int,
         NEW z \in Analysis!Reported(rows)
  PROVE  \E r, s \in rows : Touch(r, s) /\ z[1].vertex = r.vertex /\ z[2].vertex = s.vertex
<1>1. PICK file \in Analysis!get_files_in_set(rows) :
        LET acc == Analysis!Accesses(rows, file)
        IN z \in Analysis!overlapping_writes(acc) \cup Analysis!read_after_write(acc)
                   \cup Analysis!read_modify_write(acc)
  BY DEF Analysis!Reported
<1>2. PICK acc : acc = Analysis!Accesses(rows, file)
  OBVIOUS
<1>3. /\ DOMAIN acc = Analysis!get_processes(rows, file)
      /\ \A p \in DOMAIN acc : acc[p].reads = AccessTree(rows, file, p, "read")
                               /\ acc[p].writes = AccessTree(rows, file, p, "write")
  BY <1>2 DEF Analysis!Accesses, AccessTree
<1>4. \A p \in DOMAIN acc : p \in Int
  BY <1>3 DEF Analysis!get_processes
<1>5. CASE z \in Analysis!overlapping_writes(acc)
  <2>1. PICK x \in (DOMAIN acc) \X (DOMAIN acc) :
          x[1] < x[2] /\ z \in Analysis!Hits(acc[x[1]].writes, acc[x[2]].writes)
    BY <1>5 DEF Analysis!overlapping_writes
  <2>2. PICK p, q : p = x[1] /\ q = x[2]
    OBVIOUS
  <2>3. p # q
    BY <1>4, <2>1, <2>2
  <2>4. z \in Analysis!Hits(AccessTree(rows, file, p, "write"), AccessTree(rows, file, q, "write"))
    BY <1>3, <2>1, <2>2
  <2> QED
    BY <2>3, <2>4, HitsTouch
<1>6. CASE z \in Analysis!read_after_write(acc)
  <2>1. PICK x \in (DOMAIN acc) \X (DOMAIN acc) :
          x[1] # x[2] /\ z \in Analysis!Hits(acc[x[1]].writes, acc[x[2]].reads)
    BY <1>6 DEF Analysis!read_after_write
  <2>2. PICK p, q : p = x[1] /\ q = x[2]
    OBVIOUS
  <2>3. z \in Analysis!Hits(AccessTree(rows, file, p, "write"), AccessTree(rows, file, q, "read"))
    BY <1>3, <2>1, <2>2
  <2> QED
    BY <2>1, <2>2, <2>3, HitsTouch
<1>7. CASE z \in Analysis!read_modify_write(acc)
  <2>1. PICK x \in (DOMAIN acc) \X (DOMAIN acc) :
          x[1] # x[2] /\ z \in Analysis!Hits(acc[x[1]].reads, acc[x[2]].writes)
    BY <1>7 DEF Analysis!read_modify_write
  <2>2. PICK p, q : p = x[1] /\ q = x[2]
    OBVIOUS
  <2>3. z \in Analysis!Hits(AccessTree(rows, file, p, "read"), AccessTree(rows, file, q, "write"))
    BY <1>3, <2>1, <2>2
  <2> QED
    BY <2>1, <2>2, <2>3, HitsTouch
<1> QED
  BY <1>1, <1>2, <1>5, <1>6, <1>7

(***************************************************************************)
(* The row of a read or write tells what the program does there.           *)
(***************************************************************************)
Transfer(v) == graph[v].type = "io_event" /\ graph[v].kind \in {"read", "write"}

LEMMA TransferPlace ==
  ASSUME IInv, FilesInv, NEW v \in DOMAIN graph, Transfer(v)
  PROVE  PlaceOf(v) \in AccessPlaces
<1>1. PICK p, i, s : p = graph[v].proc /\ i = graph[v].timestamp /\ s = program[p]
  OBVIOUS
<1>2. p \in Procs
  BY <1>1 DEF IInv, GraphInv, GoodVertex, Transfer
<1>3. PlaceOf(v) = <<p, i>>
  BY <1>1 DEF PlaceOf
<1>4. Transferred(s, i, graph[v])
  <2>1. OffsetOK(program, graph[v]) /\ graph[v].kind \in Transfers
    BY DEF FilesInv, Transfer, Transfers
  <2> QED
    BY <1>1, <2>1 DEF OffsetOK, Transfer
<1> QED
  BY <1>1, <1>2, <1>3, <1>4 DEF AccessPlaces, Transfer, Transferred

LEMMA RowTells ==
  ASSUME IInv, FilesInv, NEW v \in DOMAIN graph, Transfer(v),
         OneHandlePerFile(program[graph[v].proc]),
         NEW x, x = PlaceOf(v), Undisturbed(x)
  PROVE  /\ x \in AccessPlaces /\ x[1] = graph[v].proc
         /\ Writes(x) <=> graph[v].kind = "write"
         /\ program[x[1]][x[2]].handle.file = graph[v].filename
         /\ graph[v].offset \in Nat /\ graph[v].response_size \in Nat
         /\ Bytes(x) = graph[v].offset - graph[v].response_size .. graph[v].offset - 1
<1>1. PICK p, i, s : p = graph[v].proc /\ i = graph[v].timestamp /\ s = program[p]
  OBVIOUS
<1>2. p \in Procs /\ IsProgram(program) /\ WellFormed(s) /\ OperationsComplete(s)
  BY <1>1, ProgramsAssumption
     DEF IInv, ReadingInv, GraphInv, GoodVertex, Transfer, IsProgram
<1>3. x = <<p, i>> /\ x[1] = p /\ x[2] = i
  BY <1>1 DEF PlaceOf
<1>4. Transferred(s, i, graph[v]) /\ graph[v].offset = Position(s, s[i].handle)[i]
  <2>1. OffsetOK(program, graph[v]) /\ graph[v].kind \in Transfers
    BY DEF FilesInv, Transfer, Transfers
  <2> QED
    BY <1>1, <2>1 DEF OffsetOK, Transfer
<1>5. /\ i \in DOMAIN s /\ s[i].kind = "io_operation_complete"
      /\ s[BeginOf(s, i)].mode = graph[v].kind
      /\ graph[v].filename = s[i].handle.file /\ graph[v].response_size = s[i].bytes
  BY <1>4 DEF Transferred
<1>6. Len(s) \in Nat /\ DOMAIN s = 1 .. Len(s) /\ s[i].bytes \in 0 .. MaxOffset
  BY <1>2, <1>5, LenProperties DEF WellFormed
<1>7. BeginOf(s, i) \in 1 .. i - 1
  BY <1>2, <1>5 DEF OperationsComplete, BeginOf
<1>8. /\ Position(s, s[i].handle)[i] \in 0 .. MaxOffset
      /\ Position(s, s[i].handle)[BeginOf(s, i)] \in 0 .. MaxOffset
  BY <1>2, <1>5, <1>6, <1>7, PositionRange
<1>9. Position(s, s[i].handle)[i] = Position(s, s[i].handle)[BeginOf(s, i)] + s[i].bytes
  BY <1>1, <1>3 DEF Undisturbed
<1>10. MaxOffset \in Nat
  BY MaxOffsetAssumption
<1>11. x \in AccessPlaces
  BY <1>1, <1>2, <1>3, <1>5 DEF AccessPlaces, Transfer
<1>12. Writes(x) <=> graph[v].kind = "write"
  BY <1>1, <1>3, <1>5 DEF Writes
<1>13. Bytes(x) = Position(s, s[i].handle)[BeginOf(s, i)] .. Position(s, s[i].handle)[i] - 1
  BY <1>1, <1>3 DEF Bytes
<1>14. PICK a, b, n : /\ a = Position(s, s[i].handle)[BeginOf(s, i)]
                      /\ b = Position(s, s[i].handle)[i] /\ n = s[i].bytes
  OBVIOUS
<1>15. a \in Nat /\ b \in Nat /\ n \in Nat /\ a = b - n
  BY <1>6, <1>8, <1>9, <1>10, <1>14
<1> QED
  BY <1>1, <1>3, <1>4, <1>5, <1>11, <1>12, <1>13, <1>14, <1>15

(***************************************************************************)
(* Two rows of one set that touch the same bytes are a conflict.           *)
(***************************************************************************)
LEMMA TouchIsConflict ==
  ASSUME IInv, FilesInv, NEW v \in DOMAIN graph, NEW w \in DOMAIN graph,
         graph[v].type = "io_event", graph[w].type = "io_event",
         \A p \in Procs : OneHandlePerFile(program[p]),
         \A x \in AccessPlaces : Undisturbed(x),
         Touch(io_event_2_csv(v), io_event_2_csv(w))
  PROVE  /\ PlaceOf(v) \in AccessPlaces /\ PlaceOf(w) \in AccessPlaces
         /\ Conflict(PlaceOf(v), PlaceOf(w))
<1> DEFINE x == PlaceOf(v)
           y == PlaceOf(w)
           r == io_event_2_csv(v)
           s == io_event_2_csv(w)
<1>1. /\ r.pid = graph[v].proc /\ r.filename = graph[v].filename /\ r.kind = graph[v].kind
      /\ r.offset = graph[v].offset /\ r.response_size = graph[v].response_size
      /\ s.pid = graph[w].proc /\ s.filename = graph[w].filename /\ s.kind = graph[w].kind
      /\ s.offset = graph[w].offset /\ s.response_size = graph[w].response_size
  BY DEF io_event_2_csv
<1>2. Transfer(v) /\ Transfer(w)
  BY <1>1 DEF Touch, Transfer
<1>3. graph[v].proc \in Procs /\ graph[w].proc \in Procs
  BY DEF IInv, GraphInv, GoodVertex
<1>4. x \in AccessPlaces /\ y \in AccessPlaces
  BY <1>2, <1>3, TransferPlace
<1> HIDE DEF x, y
<1>5. /\ x[1] = graph[v].proc
      /\ Writes(x) <=> graph[v].kind = "write"
      /\ program[x[1]][x[2]].handle.file = graph[v].filename
      /\ graph[v].offset \in Nat /\ graph[v].response_size \in Nat
      /\ Bytes(x) = graph[v].offset - graph[v].response_size .. graph[v].offset - 1
  BY <1>2, <1>3, <1>4, RowTells DEF x
<1>6. /\ y[1] = graph[w].proc
      /\ Writes(y) <=> graph[w].kind = "write"
      /\ program[y[1]][y[2]].handle.file = graph[w].filename
      /\ graph[w].offset \in Nat /\ graph[w].response_size \in Nat
      /\ Bytes(y) = graph[w].offset - graph[w].response_size .. graph[w].offset - 1
  BY <1>2, <1>3, <1>4, RowTells DEF y
<1> HIDE DEF r, s
<1>7. Touch(r, s)
  BY DEF r, s
<1>8. Bytes(x) \cap Bytes(y) # {}
  <2>1. PICK a, m, b, n : /\ a = graph[v].offset /\ m = graph[v].response_size
                          /\ b = graph[w].offset /\ n = graph[w].response_size
    OBVIOUS
  <2>2. /\ a \in Nat /\ b \in Nat /\ m \in Nat \ {0} /\ n \in Nat \ {0}
        /\ a - m < b /\ b - n < a
    BY <1>1, <1>5, <1>6, <1>7, <2>1 DEF Touch
  <2>3. \E k \in Int : a - m <= k /\ k <= a - 1 /\ b - n <= k /\ k <= b - 1
    <3>1. CASE a - m <= b - n
      BY <2>2, <3>1
    <3>2. CASE b - n <= a - m
      BY <2>2, <3>2
    <3> QED
      BY <2>2, <3>1, <3>2
  <2>4. \E k \in Int : k \in a - m .. a - 1 /\ k \in b - n .. b - 1
    BY <2>2, <2>3
  <2> QED
    BY <1>5, <1>6, <2>1, <2>4
<1>9. Conflict(x, y)
  BY <1>1, <1>5, <1>6, <1>7, <1>8 DEF Conflict, Touch
<1> QED
  BY <1>4, <1>9 DEF x, y

-----------------------------------------------------------------------------
(***************************************************************************)
(* In a finite set with a linear order every place is taken.               *)
(***************************************************************************)
LEMMA PlacesTaken ==
  ASSUME NEW T, IsFiniteSet(T), NEW R,
         \A a \in T : <<a, a>> \notin R,
         \A a, b, c \in T : <<a, b>> \in R /\ <<b, c>> \in R => <<a, c>> \in R,
         \A a, b \in T : a # b => <<a, b>> \in R \/ <<b, a>> \in R
  PROVE  \A n \in 1 .. Cardinality(T) :
           \E m \in T : Cardinality({k \in T : <<k, m>> \in R}) = n - 1
<1> DEFINE Below(m) == {k \in T : <<k, m>> \in R}
           N == Cardinality(T)
           rank == [m \in T |-> Cardinality(Below(m))]
<1>1. N \in Nat
  BY FS_CardinalityType
<1>2. ASSUME NEW m \in T
      PROVE  IsFiniteSet(Below(m)) /\ Cardinality(Below(m)) \in Nat
  <2>1. Below(m) \in SUBSET T
    OBVIOUS
  <2>2. IsFiniteSet(Below(m))
    BY <2>1, FS_Subset
  <2> QED
    BY <2>2, FS_CardinalityType
<1>3. ASSUME NEW m \in T
      PROVE  Cardinality(Below(m)) < N
  <2>1. Below(m) \in SUBSET T /\ m \notin Below(m)
    OBVIOUS
  <2>2. Cardinality(Below(m)) <= N /\ Cardinality(Below(m)) # N
    BY <2>1, FS_Subset
  <2> QED
    BY <1>1, <1>2, <2>2
<1>4. ASSUME NEW a \in T, NEW b \in T, <<a, b>> \in R
      PROVE  Cardinality(Below(a)) # Cardinality(Below(b))
  <2>1. Below(a) \in SUBSET Below(b) /\ a \in Below(b) /\ a \notin Below(a)
    BY <1>4
  <2>2. Below(a) # Below(b)
    BY <2>1
  <2> QED
    BY <1>2, <2>1, <2>2, FS_Subset
<1>5. rank \in Injection(T, 0 .. N - 1)
  <2>1. rank \in [T -> 0 .. N - 1]
    <3>1. ASSUME NEW m \in T PROVE Cardinality(Below(m)) \in 0 .. N - 1
      <4>1. PICK c : c = Cardinality(Below(m))
        OBVIOUS
      <4>2. c \in Nat /\ c < N
        BY <1>2, <1>3, <4>1
      <4> QED
        BY <1>1, <4>1, <4>2
    <3> QED
      BY <3>1
  <2>2. ASSUME NEW a \in T, NEW b \in T, rank[a] = rank[b]
        PROVE  a = b
    <3>1. Cardinality(Below(a)) = Cardinality(Below(b))
      BY <2>2
    <3>2. <<a, b>> \notin R /\ <<b, a>> \notin R
      <4> HIDE DEF Below
      <4> QED
        BY <1>4, <3>1
    <3> QED
      BY <3>2
  <2>3. IsInjective(rank)
    BY <2>1, <2>2 DEF IsInjective
  <2> HIDE DEF rank
  <2> QED
    BY <2>1, <2>3 DEF Injection
<1>6. IsFiniteSet(0 .. N - 1) /\ Cardinality(0 .. N - 1) = N
  <2>1. 0 \in Int /\ N - 1 \in Int
    BY <1>1
  <2>2. PICK a, b : a = 0 /\ b = N - 1
    OBVIOUS
  <2>3. IsFiniteSet(a .. b) /\ Cardinality(a .. b) = IF a > b THEN 0 ELSE b - a + 1
    BY <2>1, <2>2, FS_Interval
  <2> QED
    BY <1>1, <2>2, <2>3
<1>7. rank \in Surjection(T, 0 .. N - 1)
  <2> HIDE DEF rank
  <2> QED
    BY <1>5, <1>6, FS_Injection
<1>8. \A j \in 0 .. N - 1 : \E m \in T : rank[m] = j
  BY <1>7 DEF Surjection
<1> SUFFICES ASSUME NEW n \in 1 .. N
             PROVE  \E m \in T : Cardinality(Below(m)) = n - 1
  OBVIOUS
<1>9. n - 1 \in 0 .. N - 1
  BY <1>1
<1>10. PICK m \in T : rank[m] = n - 1
  BY <1>8, <1>9
<1> QED
  BY <1>10

(***************************************************************************)
(* The order in which the sets are sorted is linear: they are compared by  *)
(* the first event that is in only one of them.                            *)
(***************************************************************************)
Differ(A, B, d) ==
  /\ d \in Nat /\ d \in (A \ B) \cup (B \ A)
  /\ \A k \in Nat : k < d => (k \in A <=> k \in B)

Comes(A, B, d) ==
  \/ d \in A /\ \E e \in B : e > d
  \/ d \in B /\ \A e \in A : e < d

LEMMA DifferOnce ==
  ASSUME NEW A \in SUBSET Nat, NEW B \in SUBSET Nat, A # B
  PROVE  \E d : Differ(A, B, d)
<1> DEFINE S == (A \ B) \cup (B \ A)
<1>1. S \in SUBSET Nat /\ S # {}
  OBVIOUS
<1>2. Min(S) \in S /\ \A x \in S : Min(S) <= x
  BY <1>1, LeastFacts
<1>3. PICK d : d = Min(S)
  OBVIOUS
<1>4. d \in S /\ d \in Nat /\ \A k \in Nat : k < d => k \notin S
  <2> HIDE DEF S
  <2>1. d \in S /\ d \in Nat /\ \A x \in S : d <= x
    BY <1>1, <1>2, <1>3
  <2> QED
    BY <2>1
<1> QED
  BY <1>4 DEF Differ

LEMMA BeforeTells ==
  ASSUME NEW a, NEW b, a.events \in SUBSET Nat, b.events \in SUBSET Nat,
         NEW d, Differ(a.events, b.events, d)
  PROVE  Before(a, b) <=> Comes(a.events, b.events, d)
<1> DEFINE A == a.events
           B == b.events
<1>1. (A \ B) \cup (B \ A) \in SUBSET Nat /\ d \in (A \ B) \cup (B \ A)
  BY DEF Differ
<1>2. Min((A \ B) \cup (B \ A)) = d
  <2>1. PICK x : x = Min((A \ B) \cup (B \ A))
    OBVIOUS
  <2>2. x \in (A \ B) \cup (B \ A) /\ x <= d
    BY <1>1, <2>1, LeastFacts
  <2>3. ~ x < d
    BY <1>1, <2>2 DEF Differ
  <2> QED
    BY <1>1, <2>1, <2>2, <2>3
<1>3. Before(a, b) <=> IF d \in A THEN \E e \in B : e > d ELSE \A e \in A : e < d
  BY <1>1, <1>2, Zenon DEF Before
<1>4. d \in A <=> d \notin B
  BY <1>1
<1> QED
  BY <1>3, <1>4 DEF Comes

LEMMA BeforeLinear ==
  ASSUME NEW T, \A m \in T : m.events \in SUBSET Nat,
         \A a, b \in T : a.events = b.events => a = b
  PROVE  /\ \A a \in T : ~Before(a, a)
         /\ \A a, b \in T : a # b => Before(a, b) \/ Before(b, a)
         /\ \A a, b, c \in T : Before(a, b) /\ Before(b, c) => Before(a, c)
<1>1. \A a, b : Before(a, b) => a.events # b.events
  BY Zenon DEF Before
<1>2. ASSUME NEW a \in T, NEW b \in T, a # b
      PROVE  Before(a, b) \/ Before(b, a)
  <2>1. PICK d : Differ(a.events, b.events, d)
    BY <1>2, DifferOnce
  <2>2. Differ(b.events, a.events, d)
    BY <2>1 DEF Differ
  <2>3. Comes(a.events, b.events, d) \/ Comes(b.events, a.events, d)
    <3>1. \A e \in a.events \cup b.events : e \in Nat
      OBVIOUS
    <3> QED
      BY <2>1, <3>1 DEF Differ, Comes
  <2> QED
    BY <2>1, <2>2, <2>3, BeforeTells
<1>3. ASSUME NEW a \in T, NEW b \in T, NEW c \in T, Before(a, b), Before(b, c)
      PROVE  Before(a, c)
  <2> DEFINE A == a.events
             B == b.events
             C == c.events
  <2>1. A \in SUBSET Nat /\ B \in SUBSET Nat /\ C \in SUBSET Nat
    OBVIOUS
  <2>2. PICK d : Differ(A, B, d)
    BY <1>1, <1>3, <2>1, DifferOnce
  <2>3. PICK f : Differ(B, C, f)
    BY <1>1, <1>3, <2>1, DifferOnce
  <2>4. Comes(A, B, d) /\ Comes(B, C, f)
    BY <1>3, <2>1, <2>2, <2>3, BeforeTells
  <2>5. \E g : Differ(A, C, g) /\ Comes(A, C, g)
    <3> HIDE DEF A, B, C
    <3>1. CASE d < f
      <4>1. Differ(A, C, d)
        BY <2>1, <2>2, <2>3, <3>1 DEF Differ
      <4>2. CASE d \in A
        <5>1. PICK e \in B : e > d
          BY <2>2, <2>4, <4>2 DEF Differ, Comes
        <5>2. CASE f \in C
          <6>1. f > d
            BY <2>2, <2>3, <3>1 DEF Differ
          <6> QED
            BY <4>1, <4>2, <5>2, <6>1 DEF Comes
        <5>3. CASE f \notin C
          <6>1. PICK g \in C : g > f
            BY <2>3, <2>4, <5>3 DEF Differ, Comes
          <6>2. g > d
            BY <2>1, <2>2, <2>3, <3>1, <6>1 DEF Differ
          <6> QED
            BY <4>1, <4>2, <6>2 DEF Comes
        <5> QED
          BY <5>2, <5>3
      <4>3. CASE d \notin A
        <5>1. d \in B /\ \A e \in A : e < d
          BY <2>2, <2>4, <4>3 DEF Differ, Comes
        <5>2. d \in C
          BY <2>2, <2>3, <3>1, <5>1 DEF Differ
        <5> QED
          BY <4>1, <5>1, <5>2 DEF Comes
      <4> QED
        BY <4>2, <4>3
    <3>2. CASE f < d
      <4>1. Differ(A, C, f)
        BY <2>1, <2>2, <2>3, <3>2 DEF Differ
      <4>2. CASE f \in B
        <5>1. f \in A
          BY <2>2, <2>3, <3>2, <4>2 DEF Differ
        <5>2. \E e \in C : e > f
          BY <2>3, <2>4, <4>2 DEF Differ, Comes
        <5> QED
          BY <4>1, <5>1, <5>2 DEF Comes
      <4>3. CASE f \notin B
        <5>1. f \in C /\ \A e \in B : e < f
          BY <2>3, <2>4, <4>3 DEF Differ, Comes
        <5>2. d \notin B /\ d \in A
          BY <2>1, <2>2, <2>3, <3>2, <5>1 DEF Differ
        <5>3. PICK e \in B : e > d
          BY <2>4, <5>2 DEF Comes
        <5>4. FALSE
          BY <2>1, <2>2, <2>3, <3>2, <5>1, <5>3 DEF Differ
        <5> QED
          BY <5>4
      <4> QED
        BY <4>2, <4>3
    <3>3. CASE d = f
      <4>1. d \in B
        <5>1. SUFFICES ASSUME d \notin B PROVE FALSE
          OBVIOUS
        <5>2. PICK e \in B : e > d
          BY <2>4, <5>1 DEF Comes
        <5>3. \A x \in B : x < d
          BY <2>4, <3>3, <5>1 DEF Comes
        <5>4. e < d /\ d \in Nat /\ e \in Nat
          BY <2>1, <2>2, <5>2, <5>3 DEF Differ
        <5> QED
          BY <5>2, <5>4
      <4>2. d \notin A /\ d \notin C /\ \A e \in A : e < d
        BY <2>2, <2>3, <2>4, <3>3, <4>1 DEF Differ, Comes
      <4>3. \E e \in C : e > d
        BY <2>4, <3>3, <4>2 DEF Comes
      <4> DEFINE S == {e \in C : e > d}
      <4>4. S \in SUBSET Nat /\ S # {}
        BY <2>1, <4>3
      <4>5. PICK g : g \in S /\ \A x \in S : g <= x
        BY <4>4, LeastFacts
      <4>6. g \in C /\ g > d /\ g \in Nat /\ d \in Nat
        BY <2>2, <4>4, <4>5 DEF Differ
      <4>7. \A e \in A : e < g
        BY <2>1, <4>2, <4>6
      <4>8. \A k \in Nat : k < g => (k \in A <=> k \in C)
        <5> SUFFICES ASSUME NEW k \in Nat, k < g PROVE k \in A <=> k \in C
          OBVIOUS
        <5>1. CASE k < d
          BY <2>2, <2>3, <3>3, <5>1 DEF Differ
        <5>2. CASE k = d
          BY <4>2, <5>2
        <5>3. CASE k > d
          <6>1. k \notin A
            BY <4>2, <4>6, <5>3
          <6>2. k \notin C
            <7>1. k \in C => g <= k
              BY <4>5, <5>3
            <7> QED
              BY <4>6, <7>1
          <6> QED
            BY <6>1, <6>2
        <5> QED
          BY <4>6, <5>1, <5>2, <5>3
      <4>9. g \notin A
        BY <4>6, <4>7
      <4> QED
        BY <4>6, <4>7, <4>8, <4>9 DEF Differ, Comes
    <3> QED
      BY <2>2, <2>3, <3>1, <3>2, <3>3 DEF Differ
  <2> QED
    BY <2>1, <2>5, BeforeTells
<1> QED
  BY <1>1, <1>2, <1>3

(***************************************************************************)
(* Sorting the sets keeps every one of them, and brings up no other.       *)
(***************************************************************************)
LEMMA SortedFacts ==
  ASSUME NEW kept, IsFiniteSet(kept), \A m \in kept : m.events \in SUBSET Nat,
         \A a, b \in kept : a.events = b.events => a = b
  PROVE  /\ Cardinality(kept) \in Nat
         /\ SortedSets(kept) \in [1 .. Cardinality(kept) -> kept]
<1> DEFINE R == {z \in kept \X kept : Before(z[1], z[2])}
<1>1. Cardinality(kept) \in Nat
  BY FS_CardinalityType
<1>2. \A a, b \in kept : <<a, b>> \in R <=> Before(a, b)
  OBVIOUS
<1>3. \A n \in 1 .. Cardinality(kept) :
        \E m \in kept : Cardinality({k \in kept : <<k, m>> \in R}) = n - 1
  <2> HIDE DEF R
  <2>1. /\ \A a \in kept : <<a, a>> \notin R
        /\ \A a, b \in kept : a # b => <<a, b>> \in R \/ <<b, a>> \in R
        /\ \A a, b, c \in kept : <<a, b>> \in R /\ <<b, c>> \in R => <<a, c>> \in R
    BY <1>2, BeforeLinear
  <2> QED
    BY <2>1, PlacesTaken
<1>4. \A m \in kept : {k \in kept : <<k, m>> \in R} = {k \in kept : Before(k, m)}
  BY <1>2
<1> DEFINE place(n) == CHOOSE m \in kept : Cardinality({k \in kept : Before(k, m)}) = n - 1
<1>5. ASSUME NEW n \in 1 .. Cardinality(kept)
      PROVE  place(n) \in kept
  <2>1. \E m \in kept : Cardinality({k \in kept : Before(k, m)}) = n - 1
    BY <1>3, <1>4
  <2> QED
    BY <2>1
<1>6. SortedSets(kept) = [n \in 1 .. Cardinality(kept) |-> place(n)]
  BY DEF SortedSets
<1> HIDE DEF place
<1> QED
  BY <1>1, <1>5, <1>6

-----------------------------------------------------------------------------
(***************************************************************************)
(* From the merge to the files: what was merged stays, the sets that are   *)
(* returned are among it, and CsvOutput writes these and nothing else.     *)
(***************************************************************************)
MergeKept ==
  stage \in {"merge", "stats", "output", "finished"} =>
    /\ visit = "done" /\ status = "done" /\ trace = MergeInput
    /\ NoTies => M!IInv /\ M!SoundMerged

SetsKept ==
  stage \in {"stats", "output", "finished"} /\ NoTies => cio_sets \in Seq(merged)

StaleFiles == [n \in 1 .. Leftover |-> StaleRows]

NewFiles ==
  sets_2_csv(StaleFiles, [n \in DOMAIN cio_sets |-> {d + 1 : d \in cio_sets[n].events}])

FilesWritten ==
  /\ DOMAIN directory = {"subdirs", "cio", "pio", "summary"}
  /\ stage # "finished" => directory.cio = StaleFiles
  /\ stage = "finished" /\ config.cio_sets => directory.cio = NewFiles

ReportInv == FinishInv /\ MergeKept /\ SetsKept /\ FilesWritten

LEMMA SameFinite == \A S : M!IsFiniteSet(S) <=> IsFiniteSet(S)
BY DEF M!IsFiniteSet, IsFiniteSet

LEMMA SameFiles ==
  ASSUME UNCHANGED <<graph, cio_sets>>
  PROVE  StaleFiles' = StaleFiles /\ NewFiles' = NewFiles
<1>1. StaleFiles' = StaleFiles
  BY DEF StaleFiles, StaleRows, StaleRow, Procs
<1>2. \A vs : set2csv(vs)' = set2csv(vs)
  BY DEF set2csv, io_event_2_csv
<1>3. cio_sets' = cio_sets
  OBVIOUS
<1> QED
  BY <1>1, <1>2, <1>3 DEF NewFiles, sets_2_csv

LEMMA ReportStarts ==
  ASSUME ExperimentInit
  PROVE  ReportInv
<1>1. FinishInv
  BY FinishStarts
<1>2. stage = "start"
  BY DEF ExperimentInit
<1>3. FilesWritten
  BY <1>2, Zenon DEF ExperimentInit, FilesWritten, StaleFiles
<1> QED
  BY <1>1, <1>2, <1>3 DEF ReportInv, MergeKept, SetsKept

(* Whatever of the sets with the same events std::unique keeps. *)
LEMMA SetsReturn ==
  ASSUME FinishInv, MergeKept, NoTies, MergeReturns
  PROVE  cio_sets' \in Seq(merged)
<1>1. M!IInv /\ M!SoundMerged
  BY DEF MergeKept, MergeReturns
<1>2. /\ result \subseteq merged /\ IsFiniteSet(merged)
      /\ \A m \in merged : m.events \in SUBSET Nat
  BY <1>1, SameFinite DEF M!IInv, M!TypeOK, M!SoundMerged
<1>3. PICK kept \in SUBSET result :
        /\ \A m \in result : Cardinality({k \in kept : k.events = m.events}) = 1
        /\ cio_sets' = SortedSets(kept)
  BY DEF MergeReturns
<1>4. kept \subseteq merged /\ IsFiniteSet(kept)
  BY <1>2, <1>3, FS_Subset
<1>5. ASSUME NEW a \in kept, NEW b \in kept, a.events = b.events
      PROVE  a = b
  <2> DEFINE S == {k \in kept : k.events = a.events}
  <2>1. IsFiniteSet(S) /\ Cardinality(S) = 1
    BY <1>3, <1>4, FS_Subset
  <2>2. a \in S /\ b \in S
    BY <1>5
  <2> HIDE DEF S
  <2>3. PICK x : S = {x}
    BY <2>1, FS_Singleton
  <2> QED
    BY <2>2, <2>3
<1>6. /\ Cardinality(kept) \in Nat
      /\ SortedSets(kept) \in [1 .. Cardinality(kept) -> kept]
  BY <1>2, <1>4, <1>5, SortedFacts
<1>7. SortedSets(kept) \in Seq(merged)
  BY <1>4, <1>6
<1> QED
  BY <1>3, <1>7

LEMMA ReportStep ==
  ASSUME ReportInv, [ExperimentNext]_experiment_vars
  PROVE  ReportInv'
<1>1. FinishInv'
  BY FinishStep DEF ReportInv
<1>2. ASSUME UNCHANGED <<vars, search_vars>>
      PROVE  /\ NoTies' <=> NoTies
             /\ MergeInput' = MergeInput
             /\ visit' = visit /\ status' = status
  BY <1>2, SameTies, SameInput DEF vars, search_vars
<1>3. ASSUME UNCHANGED merge_vars, M!IInv, M!SoundMerged
      PROVE  (M!IInv /\ M!SoundMerged)'
  <2>1. UNCHANGED M!vars
    BY <1>3 DEF M!vars, merge_vars
  <2> QED
    BY <1>3, <2>1, MergeGoesOn, M!StepSoundMerged, NProcsAssumption
<1>4. CASE CreateDirectories
  <2>1. /\ stage' = "build"
        /\ directory' = [directory EXCEPT !.subdirs = directory'.subdirs]
    BY <1>4 DEF CreateDirectories, ReportInv, FilesWritten
  <2>2. FilesWritten'
    BY <1>4, <2>1 DEF CreateDirectories, ReportInv, FilesWritten, StaleFiles, StaleRows, StaleRow
  <2> QED
    BY <1>1, <2>1, <2>2 DEF ReportInv, MergeKept, SetsKept
<1>5. CASE Build \/ BuildReturns \/ BuildFails \/ Visit \/ VisitFails \/ MergeFails
  <2>1. /\ stage' \notin {"merge", "stats", "output", "finished"}
        /\ stage # "finished" /\ UNCHANGED directory
    BY <1>5 DEF Build, BuildReturns, BuildFails, Visit, VisitFails, MergeFails
  <2> QED
    BY <1>1, <2>1 DEF ReportInv, MergeKept, SetsKept, FilesWritten, StaleFiles, StaleRows,
                      StaleRow, Procs
<1>6. CASE VisitReturns
  <2>1. /\ UNCHANGED <<vars, search_vars, config, directory>>
        /\ stage = "visit" /\ visit = "done" /\ stage' \in {"merge", "merge_failed"}
    BY <1>6, Zenon DEF VisitReturns
  <2>2. FilesWritten'
    BY <2>1 DEF ReportInv, FilesWritten, StaleFiles, StaleRows, StaleRow
  <2>3. CASE stage' = "merge_failed"
    BY <1>1, <2>2, <2>3 DEF ReportInv, MergeKept, SetsKept
  <2>4. CASE stage' = "merge"
    <3>1. /\ num_locations # Uninitialised /\ trace' = MergeInput
          /\ calls' = <<Merging!Frame(Merging!make_mapview)>> /\ merge_status' = "running"
          /\ merged' = {} /\ result' = {}
      BY <1>6, <2>1, <2>4, Zenon DEF VisitReturns, ReportInv, FinishInv
    <3>2. status = "done"
      BY <3>1 DEF ReportInv, FinishInv, HandInv, Located
    <3>3. ASSUME NoTies PROVE (M!IInv /\ M!SoundMerged)'
      <4>1. Merging!IsTrace(trace')
        <5>1. Returned
          BY <2>1, <3>2, <3>3, SetsReturned DEF ReportInv, FinishInv, HandInv
        <5> QED
          BY <3>1, <5>1, InputIsTrace
      <4>2. M!IInv'
        <5> HIDE DEF MergeInput
        <5> QED
          BY <3>1, <4>1, MergeStarts
      <4>3. M!SoundMerged'
        BY <3>1, FS_EmptySet, SameFinite DEF M!SoundMerged
      <4> QED
        BY <4>2, <4>3
    <3>4. MergeKept'
      BY <1>2, <2>1, <3>1, <3>2, <3>3 DEF MergeKept
    <3> QED
      BY <1>1, <2>2, <2>4, <3>4 DEF ReportInv, SetsKept
  <2> QED
    BY <2>1, <2>3, <2>4
<1>7. CASE Merge
  <2>1. /\ UNCHANGED <<vars, search_vars, config, directory>>
        /\ stage = "merge" /\ stage' = "merge" /\ Merging!Next
    BY <1>7 DEF Merge
  <2>2. trace' = trace
    BY <2>1 DEF Merging!Next, Merging!ReturnOnEnd, Merging!Merge, Merging!Recurse,
                Merging!ReturnFromLoop, Merging!Fail, Merging!Finish
  <2>3. ASSUME M!IInv, M!SoundMerged PROVE (M!IInv /\ M!SoundMerged)'
    <3>1. M!Next
      BY <2>1, SameMerge
    <3> QED
      BY <2>1, <2>3, <3>1, MergeGoesOn, M!StepSoundMerged, NProcsAssumption
  <2>4. MergeKept'
    BY <1>2, <2>1, <2>2, <2>3 DEF ReportInv, MergeKept
  <2>5. FilesWritten'
    BY <2>1 DEF ReportInv, FilesWritten, StaleFiles, StaleRows, StaleRow
  <2> QED
    BY <1>1, <2>1, <2>4, <2>5 DEF ReportInv, SetsKept
<1>8. CASE MergeReturns
  <2>1. /\ UNCHANGED <<vars, search_vars, merge_vars, config, directory>>
        /\ stage = "merge" /\ stage' = "stats"
    BY <1>8 DEF MergeReturns
  <2>2. trace' = trace /\ merged' = merged
    BY <2>1 DEF merge_vars
  <2>3. MergeKept'
    BY <1>2, <1>3, <2>1, <2>2 DEF ReportInv, MergeKept
  <2>4. FilesWritten'
    BY <2>1 DEF ReportInv, FilesWritten, StaleFiles, StaleRows, StaleRow
  <2>5. SetsKept'
    BY <1>2, <1>8, <2>1, <2>2, SetsReturn DEF ReportInv, SetsKept
  <2> QED
    BY <1>1, <2>3, <2>4, <2>5 DEF ReportInv
<1>9. CASE CioStats
  <2>1. /\ UNCHANGED <<vars, search_vars, merge_vars, config, directory, cio_sets>>
        /\ stage = "stats" /\ stage' \in {"stats_failed", "output"}
    BY <1>9, Zenon DEF CioStats
  <2>2. trace' = trace /\ merged' = merged
    BY <2>1 DEF merge_vars
  <2>3. MergeKept'
    BY <1>2, <1>3, <2>1, <2>2 DEF ReportInv, MergeKept
  <2>4. FilesWritten'
    BY <2>1 DEF ReportInv, FilesWritten, StaleFiles, StaleRows, StaleRow
  <2>5. SetsKept'
    BY <1>2, <2>1, <2>2 DEF ReportInv, SetsKept
  <2> QED
    BY <1>1, <2>3, <2>4, <2>5 DEF ReportInv
<1>10. CASE CsvOutput
  <2>1. /\ UNCHANGED <<vars, search_vars, merge_vars, config, cio_sets>>
        /\ stage = "output" /\ stage' = "finished"
    BY <1>10 DEF CsvOutput
  <2>2. trace' = trace /\ merged' = merged
    BY <2>1 DEF merge_vars
  <2>3. MergeKept'
    BY <1>2, <1>3, <2>1, <2>2 DEF ReportInv, MergeKept
  <2>4. SetsKept'
    BY <1>2, <2>1, <2>2 DEF ReportInv, SetsKept
  <2>5. FilesWritten'
    <3>1. directory.cio = StaleFiles /\ DOMAIN directory = {"subdirs", "cio", "pio", "summary"}
      BY <2>1 DEF ReportInv, FilesWritten
    <3>2. /\ DOMAIN directory' = DOMAIN directory
          /\ config.cio_sets => directory'.cio = NewFiles
      BY <1>10, <3>1 DEF CsvOutput, NewFiles
    <3>3. NewFiles' = NewFiles
      BY <2>1, SameFiles DEF vars
    <3> QED
      BY <2>1, <3>1, <3>2, <3>3 DEF FilesWritten
  <2> QED
    BY <1>1, <2>3, <2>4, <2>5 DEF ReportInv
<1>11. CASE UNCHANGED experiment_vars
  <2>1. UNCHANGED <<vars, search_vars, merge_vars, config, stage, directory, cio_sets>>
    BY <1>11 DEF experiment_vars
  <2>2. trace' = trace /\ merged' = merged /\ graph' = graph
    BY <2>1 DEF merge_vars, vars
  <2>3. MergeKept'
    BY <1>2, <1>3, <2>1, <2>2 DEF ReportInv, MergeKept
  <2>4. SetsKept'
    BY <1>2, <2>1, <2>2 DEF ReportInv, SetsKept
  <2>5. FilesWritten'
    BY <2>1, <2>2, SameFiles DEF ReportInv, FilesWritten
  <2> QED
    BY <1>1, <2>3, <2>4, <2>5 DEF ReportInv
<1> QED
  BY <1>4, <1>5, <1>6, <1>7, <1>8, <1>9, <1>10, <1>11 DEF ExperimentNext

-----------------------------------------------------------------------------
(***************************************************************************)
(* The files of an experiment are read: each holds the rows of one set.    *)
(***************************************************************************)
LEMMA FilesRead ==
  ASSUME ReportInv, stage = "finished", config.cio_sets, NoTies,
         Leftover <= Len(cio_sets), NEW rows \in Range(directory.cio)
  PROVE  \E m \in merged : rows = set2csv({d + 1 : d \in m.events})
<1> DEFINE sets == [n \in DOMAIN cio_sets |-> {d + 1 : d \in cio_sets[n].events}]
           files == [n \in DOMAIN sets |-> set2csv(sets[n])]
<1>1. cio_sets \in Seq(merged) /\ directory.cio = sets_2_csv(StaleFiles, sets)
  BY DEF ReportInv, SetsKept, FilesWritten, NewFiles
<1>2. Len(cio_sets) \in Nat /\ DOMAIN cio_sets = 1 .. Len(cio_sets)
      /\ \A n \in DOMAIN cio_sets : cio_sets[n] \in merged
  BY <1>1, LenProperties
<1>3. Len(sets) = Len(cio_sets) /\ Len(StaleFiles) = Leftover
  BY <1>2, NumbersAssumption DEF StaleFiles
<1>4. SubSeq(StaleFiles, Len(sets) + 1, Len(StaleFiles)) = <<>>
  <2>1. PICK m, n : m = Len(sets) + 1 /\ n = Len(StaleFiles)
    OBVIOUS
  <2>2. m \in Int /\ n \in Int /\ n < m
    BY <1>2, <1>3, <2>1, NumbersAssumption
  <2> QED
    BY <2>1, <2>2, SubSeqEmpty
<1>5. files \in Seq(Range(files))
  <2>1. files \in [1 .. Len(cio_sets) -> Range(files)]
    <3>1. DOMAIN files = 1 .. Len(cio_sets)
      BY <1>2
    <3>2. files = [n \in DOMAIN files |-> files[n]]
      OBVIOUS
    <3> HIDE DEF files
    <3> QED
      BY <3>1, <3>2 DEF Range
  <2> HIDE DEF files
  <2> QED
    BY <1>2, <2>1
<1>6. directory.cio = files
  <2>1. directory.cio = files \o <<>>
    BY <1>1, <1>4 DEF sets_2_csv
  <2> HIDE DEF files
  <2> QED
    BY <1>5, <2>1, ConcatEmptySeq
<1>7. PICK n \in DOMAIN cio_sets : rows = files[n]
  BY <1>6 DEF Range
<1>8. rows = set2csv({d + 1 : d \in cio_sets[n].events})
  BY <1>7
<1> QED
  BY <1>2, <1>8

(* An event of a merged set is one of the set of its process at the cut. *)
LEMMA EventAtCut ==
  ASSUME Returned, trace = MergeInput, M!IInv, M!SoundMerged,
         NEW m \in merged, NEW d \in m.events
  PROVE  \E p \in Procs : d + 1 \in set_map[p][m.cut[p]].events
<1>1. PICK tr : tr = trace
  OBVIOUS
<1>2. /\ \A p \in Procs : m.cut[p] \in 1 .. Len(tr.pio[p])
      /\ m.events = UNION {tr.pio[p][m.cut[p]].events : p \in Procs}
  BY <1>1 DEF M!SoundMerged, M!Inside, M!Indices, M!Procs, Procs
<1>3. PICK p \in Procs : d \in tr.pio[p][m.cut[p]].events
  BY <1>2
<1>4. PICK k : k = m.cut[p]
  OBVIOUS
<1>5. /\ k \in 1 .. Len(set_map[p]) /\ tr.pio[p][k] = MergeSet(set_map[p][k])
      /\ set_map[p][k].events \subseteq OwnVertices(p)
  <2>1. tr = MergeInput
    BY <1>1
  <2> HIDE DEF MergeInput, MergeSet
  <2>2. k \in 1 .. Len(tr.pio[p])
    BY <1>2, <1>4
  <2> QED
    BY <2>1, <2>2, SetRead
<1>6. PICK v \in set_map[p][k].events : d = v - 1
  BY <1>3, <1>4, <1>5 DEF MergeSet, Descriptor
<1>7. v \in Nat
  BY <1>5, <1>6, SequenceFacts DEF OwnVertices, Returned, IInv, GraphInv
<1> QED
  BY <1>4, <1>6, <1>7

(***************************************************************************)
(* Of two accesses to the same bytes that are reported neither comes       *)
(* before the other.                                                       *)
(***************************************************************************)
LEMMA ReportedAreConflicts ==
  ASSUME ReportInv, Analysable, Leftover <= Len(cio_sets),
         NEW rows \in Range(directory.cio), NEW z \in Analysis!Reported(rows)
  PROVE  {PlaceOf(z[1].vertex), PlaceOf(z[2].vertex)} \in Conflicts
<1>1. PICK m \in merged : rows = set2csv({d + 1 : d \in m.events})
  BY FilesRead DEF Analysable
<1>2. M!IInv /\ M!SoundMerged /\ trace = MergeInput /\ visit = "done" /\ status = "done"
  BY DEF ReportInv, MergeKept, Analysable
<1>3. Returned /\ \A p \in Procs : EventsCut(p)
  BY <1>2, SetsReturned, EventsReturned DEF ReportInv, FinishInv, HandInv, Analysable
<1>4. Cutting(m.cut)
  <2>1. PICK tr : tr = trace
    OBVIOUS
  <2>2. M!Ordered(tr)
    <3>1. tr = MergeInput
      BY <1>2, <2>1
    <3> HIDE DEF MergeInput
    <3> QED
      BY <1>3, <3>1, InputOrdered, SameTraces DEF Analysable
  <2>3. /\ \A p \in Procs : m.cut[p] \in 1 .. Len(tr.pio[p])
        /\ M!Consistent(tr, m.cut)
    BY <1>2, <2>1, <2>2 DEF M!SoundMerged, M!Inside, M!Indices, M!Procs, Procs
  <2>4. tr = MergeInput
    BY <1>2, <2>1
  <2>5. CutOfSets(m.cut)
    <3> HIDE DEF MergeInput
    <3> QED
      BY <1>3, <2>3, <2>4, CutIsOfSets DEF Analysable
  <2> QED
    BY <1>3, <2>5 DEF Cutting
<1>5. ASSUME NEW r \in rows
      PROVE  \E p \in Procs : /\ r.vertex \in set_map[p][m.cut[p]].events
                              /\ r = io_event_2_csv(r.vertex)
  <2>1. PICK d \in m.events : r = io_event_2_csv(d + 1)
    BY <1>1 DEF set2csv
  <2>2. r.vertex = d + 1
    BY <2>1 DEF io_event_2_csv
  <2> QED
    BY <1>2, <1>3, <2>1, <2>2, EventAtCut
<1>6. \A r \in rows : r.pid \in Int
  <2> SUFFICES ASSUME NEW r \in rows PROVE r.pid \in Int
    OBVIOUS
  <2>1. PICK p \in Procs : /\ r.vertex \in set_map[p][m.cut[p]].events
                           /\ r = io_event_2_csv(r.vertex)
    BY <1>5
  <2>2. graph[r.vertex].proc = p
    BY <1>4, <2>1, EventPlace
  <2>3. r.pid = graph[r.vertex].proc
    BY <2>1 DEF io_event_2_csv
  <2> QED
    BY <2>2, <2>3, NProcsAssumption DEF Procs
<1>7. PICK r, s \in rows : Touch(r, s) /\ z[1].vertex = r.vertex /\ z[2].vertex = s.vertex
  BY <1>6, ReportedTouch
<1>8. PICK v, w : v = r.vertex /\ w = s.vertex
  OBVIOUS
<1>9. PICK p \in Procs : v \in set_map[p][m.cut[p]].events /\ r = io_event_2_csv(v)
  BY <1>5, <1>8
<1>10. PICK q \in Procs : w \in set_map[q][m.cut[q]].events /\ s = io_event_2_csv(w)
  BY <1>5, <1>8
<1>11. /\ v \in DOMAIN graph /\ graph[v].type = "io_event"
       /\ w \in DOMAIN graph /\ graph[w].type = "io_event"
  BY <1>4, <1>9, <1>10, EventPlace
<1> DEFINE x == PlaceOf(v)
           y == PlaceOf(w)
<1>12. x \in AccessPlaces /\ y \in AccessPlaces /\ Conflict(x, y)
  <2>1. IInv /\ FilesInv
    BY DEF ReportInv, FinishInv, HandInv, ExperimentInv
  <2>2. Touch(io_event_2_csv(v), io_event_2_csv(w))
    BY <1>7, <1>9, <1>10
  <2> QED
    BY <1>11, <2>1, <2>2, TouchIsConflict DEF Analysable
<1>13. ~Precedes(x, y) /\ ~Precedes(y, x)
  BY <1>4, <1>9, <1>10, CutUnordered DEF Analysable
<1>14. {x, y} \in Conflicts
  <2> HIDE DEF x, y
  <2>1. PICK u : u = <<x, y>>
    OBVIOUS
  <2>2. u \in AccessPlaces \X AccessPlaces /\ u[1] = x /\ u[2] = y
    BY <1>12, <2>1
  <2> QED
    BY <1>12, <1>13, <2>2 DEF Conflicts
<1> QED
  BY <1>7, <1>8, <1>14

(***************************************************************************)
(* From the callbacks to the report of the scripts, for every program,     *)
(* every number of processes and whatever an earlier experiment left: if   *)
(* the synchronisations of the program can be told apart and are met in a  *)
(* common order, and no handle moves under an access, then all that the    *)
(* scripts report (overlap.py, run_analysis.py) are accesses of two        *)
(* processes to the same byte of a file, one of them a write, which no     *)
(* chain of synchronisations keeps apart.  An earlier experiment must not  *)
(* have left more set files than are written now (set2csv/main.cpp).       *)
(***************************************************************************)
THEOREM ReportedIsReal == ExperimentSpec => []ConflictsReal
<1>1. ExperimentInit => ReportInv
  BY ReportStarts
<1>2. ReportInv /\ [ExperimentNext]_experiment_vars => ReportInv'
  BY ReportStep
<1>3. ReportInv => ConflictsReal
  <2> SUFFICES ASSUME ReportInv, Analysable, Leftover <= Len(cio_sets),
                      NEW c \in ReportedConflicts
               PROVE  c \in Conflicts
    BY DEF ConflictsReal
  <2>1. PICK rows \in Range(directory.cio) :
          c \in {{PlaceOf(z[1].vertex), PlaceOf(z[2].vertex)} : z \in Analysis!Reported(rows)}
    BY DEF ReportedConflicts
  <2>2. PICK z \in Analysis!Reported(rows) : c = {PlaceOf(z[1].vertex), PlaceOf(z[2].vertex)}
    BY <2>1
  <2> QED
    BY <2>2, ReportedAreConflicts
<1> QED
  BY <1>1, <1>2, <1>3, PTL DEF ExperimentSpec
=============================================================================
