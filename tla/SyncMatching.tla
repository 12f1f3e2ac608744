---------------------------- MODULE SyncMatching ----------------------------
(***************************************************************************)
(* The end of io_graph_builder: events_done connects the vertices that     *)
(* belong to the same synchronisation, one turn of its innermost loop per  *)
(* step, and sets the properties of the graph.                             *)
(*                                                                         *)
(* Vertex descriptors are places in the sequence graph: one more than in   *)
(* the code.                                                               *)
(***************************************************************************)
EXTENDS Otf2Trace, FiniteSetsExt, SequencesExt

VARIABLES
  graph,             \* graph_: the vertices, in the order they were added
  edges,             \* the edges of graph_, in the order they were added
  edge_points,       \* edge_points_: last vertex of every process, if any
  synchronizations,  \* synchronizations_: a deque of sync vertices per process
  times,             \* total_time_ and the two totals of I/O time
  cursor,            \* the loop variables of events_done
  num_locations,     \* graph property, not initialised before it is set
  status             \* phase of the builder, or how it ended

root_ == 1           \* descriptor of the synthetic root
NullVertex == 0      \* null_vertex(), and root_event before it is set
Uninitialised == NProcs + 1

Synthetic(name) == [type |-> "synthetic", name |-> name]

FirstCursor == [loc |-> 0, i |-> 1, k |-> 1]

AddEdge(v, w) == edges' = Append(edges, <<v, w>>)

(***************************************************************************)
(* create_synthetic_end, the first thing events_done does.  It takes the   *)
(* front of edge_points_ of every location the trace defines, which is     *)
(* undefined for a location that never added a vertex.                     *)
(***************************************************************************)
create_synthetic_end ==
  LET end == Len(graph) + 1 IN
  IF \E p \in Procs : edge_points[p] = <<>>
  THEN /\ status' = "undefined"
       /\ UNCHANGED <<graph, edges>>
  ELSE /\ graph' = Append(graph, Synthetic("End"))
       /\ edges' = edges \o [n \in 1 .. NProcs |-> <<Head(edge_points[n - 1]), end>>]
       /\ status' = "matching"

-----------------------------------------------------------------------------
(***************************************************************************)
(* The sync vertex the loop is at.                                         *)
(***************************************************************************)
Loc == cursor.loc
AtVertex == cursor.i <= Len(synchronizations[Loc])
v_desc == synchronizations[Loc][cursor.i]
vertex == graph[v_desc]
IsCollective(v) == graph[v].comm_kind = "collective"

(* Faulty variant of NextVertex: after a deque may have been erased from,  *)
(* the loop begins anew.                                                   *)
NextVertexFromStart == cursor' = [cursor EXCEPT !.i = 1, !.k = 1]

NextVertex == cursor' = [cursor EXCEPT !.i = @ + 1, !.k = 1]

(***************************************************************************)
(* Edges of a collective with a root are drawn at the root only.  The test *)
(* that tells these collectives apart compares the root with the number of *)
(* members, and then with the process id.                                  *)
(***************************************************************************)
DrawnElsewhere ==
  vertex.root <= Len(vertex.members) /\ vertex.proc # vertex.root

(***************************************************************************)
(* The places in the deque of process q that the two searches accept; the  *)
(* first one is taken.  That the collective found belongs to the same      *)
(* communicator is not checked, and of a message only the partner is.      *)
(***************************************************************************)
CollectivesOf(q) ==
  {n \in DOMAIN synchronizations[q] : IsCollective(synchronizations[q][n])}

PeersOf(q) ==
  {n \in DOMAIN synchronizations[q] :
     LET w == graph[synchronizations[q][n]] IN
     w.comm_kind = "p2p" /\ w.remote = vertex.proc}

(* Faulty variant of First: the search runs from the back. *)
LastOf(places) == Max(places)

First(places) == Min(places)

(* Faulty variant of Connect: the entry found stays in its deque. *)
ConnectKeeping(q, n) ==
  LET target == synchronizations[q][n] IN
  /\ graph' = [graph EXCEPT ![target].root_event = v_desc]
  /\ AddEdge(v_desc, target)
  /\ UNCHANGED synchronizations

(* Faulty variant of Connect: the deque loses its front, not what was found. *)
ConnectPopping(q, n) ==
  LET target == synchronizations[q][n] IN
  /\ graph' = [graph EXCEPT ![target].root_event = v_desc]
  /\ AddEdge(v_desc, target)
  /\ synchronizations' = [synchronizations EXCEPT ![q] = Tail(@)]

(***************************************************************************)
(* The vertex found is given its root event, an edge and taken off.        *)
(***************************************************************************)
Connect(q, n) ==
  LET target == synchronizations[q][n] IN
  /\ graph' = [graph EXCEPT ![target].root_event = v_desc]
  /\ AddEdge(v_desc, target)
  /\ synchronizations' = [synchronizations EXCEPT ![q] = RemoveAt(@, n)]

(* "cannot find corresponding ... event": events_done returns there. *)
GiveUp ==
  /\ status' = "returned"
  /\ UNCHANGED <<graph, edges, synchronizations, cursor>>

-----------------------------------------------------------------------------
Matching ==
  /\ status = "matching"
  /\ UNCHANGED <<edge_points, times>>

NextLocation ==
  /\ Matching
  /\ ~AtVertex /\ Loc < NProcs - 1
  /\ cursor' = [loc |-> Loc + 1, i |-> 1, k |-> 1]
  /\ UNCHANGED <<graph, edges, synchronizations, num_locations, status>>

SkipVertex ==
  /\ Matching
  /\ AtVertex /\ IsCollective(v_desc) /\ DrawnElsewhere
  /\ NextVertex
  /\ UNCHANGED <<graph, edges, synchronizations, num_locations, status>>

(* Faulty variant of SkipMyself: the drawing process is a member like any. *)
ConnectMyself ==
  /\ Matching
  /\ AtVertex /\ IsCollective(v_desc) /\ ~DrawnElsewhere
  /\ cursor.k <= Len(vertex.members)
  /\ vertex.members[cursor.k] = vertex.proc
  /\ AddEdge(v_desc, v_desc)
  /\ cursor' = [cursor EXCEPT !.k = @ + 1]
  /\ UNCHANGED <<graph, synchronizations, num_locations, status>>

SkipMyself ==
  /\ Matching
  /\ AtVertex /\ IsCollective(v_desc) /\ ~DrawnElsewhere
  /\ cursor.k <= Len(vertex.members)
  /\ vertex.members[cursor.k] = vertex.proc
  /\ cursor' = [cursor EXCEPT !.k = @ + 1]
  /\ UNCHANGED <<graph, edges, synchronizations, num_locations, status>>

ConnectMember ==
  /\ Matching
  /\ AtVertex /\ IsCollective(v_desc) /\ ~DrawnElsewhere
  /\ cursor.k <= Len(vertex.members)
  /\ LET m == vertex.members[cursor.k] IN
     /\ m # vertex.proc
     /\ IF CollectivesOf(m) = {}
        THEN GiveUp
        ELSE /\ Connect(m, First(CollectivesOf(m)))
             /\ cursor' = [cursor EXCEPT !.k = @ + 1]
             /\ UNCHANGED status
  /\ UNCHANGED num_locations

FinishCollective ==
  /\ Matching
  /\ AtVertex /\ IsCollective(v_desc) /\ ~DrawnElsewhere
  /\ cursor.k > Len(vertex.members)
  /\ graph' = [graph EXCEPT ![v_desc].root_event = v_desc]
  /\ NextVertex
  /\ UNCHANGED <<edges, synchronizations, num_locations, status>>

(***************************************************************************)
(* A message.  A process that sends to itself erases from the deque that   *)
(* is being iterated over, which is undefined.                             *)
(***************************************************************************)
ConnectPeer ==
  /\ Matching
  /\ AtVertex /\ ~IsCollective(v_desc)
  /\ LET q == vertex.remote
         n == First(PeersOf(q))
         target == synchronizations[q][n]
     IN IF PeersOf(q) = {} THEN GiveUp
        ELSE IF q = vertex.proc
        THEN /\ status' = "undefined"
             /\ UNCHANGED <<graph, edges, synchronizations, cursor>>
        ELSE /\ graph' = [graph EXCEPT ![target].root_event = v_desc,
                                       ![v_desc].root_event = v_desc]
             /\ AddEdge(v_desc, target)
             /\ synchronizations' = [synchronizations EXCEPT ![q] = RemoveAt(@, n)]
             /\ NextVertex
             /\ UNCHANGED status
  /\ UNCHANGED num_locations

(***************************************************************************)
(* set_graph_properties asserts that not all the time was spent in I/O.    *)
(***************************************************************************)
set_graph_properties ==
  /\ Matching
  /\ ~AtVertex /\ Loc = NProcs - 1
  /\ IF times.total > times.io /\ times.total > times.metadata
     THEN num_locations' = NProcs /\ status' = "done"
     ELSE status' = "aborted" /\ UNCHANGED num_locations
  /\ UNCHANGED <<graph, edges, synchronizations, cursor>>

MatchingNext ==
  \/ NextLocation
  \/ SkipVertex \/ SkipMyself \/ ConnectMember \/ FinishCollective
  \/ ConnectPeer
  \/ set_graph_properties
=============================================================================
