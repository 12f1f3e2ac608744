------------------------ MODULE SyncMatching_proofs ------------------------
(***************************************************************************)
(* Theorems about the matching of synchronisations: in a trace whose       *)
(* synchronisations can be told apart the two searches of events_done find *)
(* the right partners, whatever the communicators, roots and interleavings.*)
(***************************************************************************)
EXTENDS BuilderProperties_proofs

-----------------------------------------------------------------------------
(***************************************************************************)
(* What reading leaves behind: a vertex for every synchronisation read,    *)
(* with what its event says, in the deque of its process, in order.        *)
(***************************************************************************)
NotesEvent(v, e) ==
  IF e.kind = "mpi_collective_end"
  THEN v.comm_kind = "collective" /\ v.members = e.members /\ v.root = e.root
  ELSE v.comm_kind = "p2p" /\ v.remote = e.remote

SyncFields == {"proc", "timestamp", "comm_kind", "remote", "members", "root", "root_event"}

Noted(tr, v) ==
  v.type = "sync_event" =>
    /\ SyncFields \subseteq DOMAIN v
    /\ v.timestamp \in SyncCalls(tr[v.proc])
    /\ NotesEvent(v, tr[v.proc][v.timestamp])

(* No edge between processes *)
NoCross ==
  \A x \in Range(edges) :
    graph[x[1]].type # "synthetic" /\ graph[x[2]].type # "synthetic"
      => graph[x[1]].proc = graph[x[2]].proc

NotesInv ==
  /\ \A d \in DOMAIN graph : Noted(program, graph[d])
  /\ \A p \in Procs : \A i \in SyncCalls(program[p]) :
       i <= pos[p] => \E d \in SyncsOf(p) : graph[d].timestamp = i
  /\ \A p \in Procs : Ascending(synchronizations[p])
  /\ Ended => \A p \in Procs : pos[p] = Len(program[p])
  /\ \A x \in Range(edges) : graph[x[1]].type = "synthetic" => x[1] = root_
  /\ Reading =>
       /\ cursor = FirstCursor
       /\ NoCross
       /\ \A p \in Procs : Range(synchronizations[p]) = SyncsOf(p)
       /\ \A d \in SyncVertices : graph[d].root_event = NullVertex

-----------------------------------------------------------------------------
(***************************************************************************)
(* The vertex of a synchronisation that draws its edges, and how far the   *)
(* loops have come with it.                                                *)
(***************************************************************************)
LeaderOf(v) ==
  IF v.comm_kind = "collective" THEN Drawer(v)
  ELSE IF v.proc <= v.remote THEN v.proc ELSE v.remote

Leads(d) == graph[d].proc = LeaderOf(graph[d])

Through(v) ==
  \/ graph[v].proc < Loc
  \/ /\ graph[v].proc = Loc
     /\ \E n \in DOMAIN synchronizations[Loc] : n < cursor.i /\ synchronizations[Loc][n] = v

Reached(v, d) ==
  /\ AtVertex /\ v = v_desc /\ IsCollective(v)
  /\ \E n \in DOMAIN graph[v].members : n < cursor.k /\ graph[v].members[n] = graph[d].proc

InDeque(d) == d \in Range(synchronizations[graph[d].proc])

LeaderOK(v) ==
  /\ InDeque(v)
  /\ graph[v].root_event = IF Through(v) THEN v ELSE NullVertex
  /\ Through(v) /\ ~IsCollective(v) => graph[v].remote # graph[v].proc

FollowerOK(v, d) ==
  IF Through(v) \/ Reached(v, d)
  THEN graph[d].root_event = v /\ ~InDeque(d)
  ELSE graph[d].root_event = NullVertex /\ InDeque(d)

Matched ==
  /\ \A v \in SyncVertices : Leads(v) => LeaderOK(v)
  /\ \A v, d \in SyncVertices : Leads(v) /\ ~Leads(d) /\ Op(v) = Op(d) => FollowerOK(v, d)

(* Edges between processes lead from the leader to the others. *)
CrossEdges ==
  \A v, d \in DOMAIN graph :
    /\ <<v, d>> \in Range(edges)
    /\ graph[v].type # "synthetic" /\ graph[d].type # "synthetic"
    /\ graph[v].proc # graph[d].proc
    => /\ v \in SyncVertices /\ d \in SyncVertices
       /\ Separable(program) => Leads(v) /\ ~Leads(d) /\ Op(v) = Op(d)

MatchedInv ==
  /\ CrossEdges
  /\ Separable(program) =>
       /\ status \in {"matching", "done"} => Matched
       /\ status = "done" => Loc = NProcs - 1 /\ ~AtVertex
       /\ status # "returned"

-----------------------------------------------------------------------------
(***************************************************************************)
(* The handlers by what they leave in the graph: nothing but a duration,   *)
(* the vertex of an I/O event, or the vertex of a synchronisation.         *)
(***************************************************************************)
Handlers(p) ==
  \/ Enter(p) \/ Leave(p)
  \/ OperationBegin(p) \/ OperationComplete(p)
  \/ CreateHandle(p) \/ DeleteFile(p) \/ DestroyHandle(p) \/ DuplicateHandle(p) \/ Seek(p)
  \/ CollectiveEnd(p) \/ PeerToPeer(p)
  \/ Other(p)

(* Durations are noted at vertices that are there already. *)
DurationsOnly(g, h) ==
  /\ DOMAIN h = DOMAIN g
  /\ \A d \in DOMAIN g :
       /\ DOMAIN h[d] = DOMAIN g[d]
       /\ \A f \in DOMAIN g[d] \ {"duration"} : h[d][f] = g[d][f]

Quiet(p) ==
  /\ DurationsOnly(graph, graph')
  /\ UNCHANGED <<edges, edge_points, synchronizations>>
  /\ Now(p) \notin SyncCalls(program[p])

AddsIo(p) ==
  /\ Now(p) \notin SyncCalls(program[p])
  /\ \E name, kind, size, offset : AddIoEvent(p, name, kind, size, offset)

AddsSync(p) ==
  /\ Now(p) \in SyncCalls(program[p])
  /\ \E comm_kind, root : \E remote \in Procs : \E members \in Seq(Procs) :
       /\ NotesEvent(SyncEvent(p, comm_kind, remote, members, root), evt(p))
       /\ AddSyncEvent(p, SyncEvent(p, comm_kind, remote, members, root))

LEMMA LeaveDurations ==
  ASSUME IInv, NEW p \in Procs, Leave(p)
  PROVE  DurationsOnly(graph, graph')
<1>1. DurationsOnly(graph, graph)
  BY DEF DurationsOnly
<1>2. ASSUME NEW d, NEW x
      PROVE  DurationsOnly(graph, [graph EXCEPT ![d] = [graph[d] EXCEPT !.duration = x]])
  <2>1. PICK v : v = [graph[d] EXCEPT !.duration = x]
    OBVIOUS
  <2>2. DOMAIN v = DOMAIN graph[d]
        /\ \A f \in DOMAIN graph[d] \ {"duration"} : v[f] = graph[d][f]
    BY <2>1
  <2>3. /\ DOMAIN [graph EXCEPT ![d] = v] = DOMAIN graph
        /\ \A j \in DOMAIN graph : [graph EXCEPT ![d] = v][j] = IF j = d THEN v ELSE graph[j]
    BY ExceptFacts DEF IInv, GraphInv
  <2>4. DurationsOnly(graph, [graph EXCEPT ![d] = v])
    BY <2>2, <2>3 DEF DurationsOnly
  <2> QED
    BY <2>1, <2>4
<1>3. \/ UNCHANGED graph
      \/ \E d, x : graph' = [graph EXCEPT ![d] = [graph[d] EXCEPT !.duration = x]]
  BY DEF Leave
<1> QED
  BY <1>1, <1>2, <1>3

LEMMA EventShape ==
  ASSUME IInv, NEW p \in Procs, Handlers(p)
  PROVE  /\ \E kinds : Reads(p, kinds)
         /\ \/ Quiet(p) /\ status' \in {"events", "aborted"}
            \/ AddsIo(p) /\ UNCHANGED status
            \/ AddsSync(p) /\ UNCHANGED status
<1> DEFINE Goal == /\ \E kinds : Reads(p, kinds)
                   /\ \/ Quiet(p) /\ status' \in {"events", "aborted"}
                      \/ AddsIo(p) /\ UNCHANGED status
                      \/ AddsSync(p) /\ UNCHANGED status
<1>1. ASSUME NEW kinds, Reads(p, kinds), kinds \cap SyncKinds = {}
      PROVE  Now(p) \notin SyncCalls(program[p])
  BY <1>1 DEF Reads, SyncCalls, evt
<1>2. DurationsOnly(graph, graph)
  BY DEF DurationsOnly
<1>3. ASSUME NEW kinds, Reads(p, kinds), kinds \cap SyncKinds = {},
             \/ /\ DurationsOnly(graph, graph')
                /\ UNCHANGED <<edges, edge_points, synchronizations>>
                /\ status' \in {"events", "aborted"}
             \/ \E name, kind, size, offset : AddIoEvent(p, name, kind, size, offset)
      PROVE  Goal
  BY <1>1, <1>3 DEF Quiet, AddsIo, AddIoEvent
<1>4. ASSUME NEW kinds, Reads(p, kinds), Ignore \/ Abort
      PROVE  /\ DurationsOnly(graph, graph') /\ UNCHANGED <<edges, edge_points, synchronizations>>
             /\ status' \in {"events", "aborted"}
  BY <1>2, <1>4 DEF Ignore, Abort, Reads
<1>5. CASE Enter(p)
  BY <1>2, <1>3, <1>5 DEF Enter, Reads, SyncKinds, PeerKinds
<1>6. CASE Leave(p)
  BY <1>3, <1>6, LeaveDurations DEF Leave, Reads, SyncKinds, PeerKinds
<1>7. CASE OperationBegin(p)
  BY <1>2, <1>3, <1>7 DEF OperationBegin, Reads, SyncKinds, PeerKinds
<1>8. CASE OperationComplete(p)
  <2>1. Reads(p, {"io_operation_complete"}) /\ {"io_operation_complete"} \cap SyncKinds = {}
    BY <1>8 DEF OperationComplete, SyncKinds, PeerKinds
  <2>2. Ignore \/ Abort \/ \E name, kind, size, offset : AddIoEvent(p, name, kind, size, offset)
    BY <1>8 DEF OperationComplete
  <2> QED
    BY <1>3, <1>4, <2>1, <2>2
<1>9. CASE CreateHandle(p)
  <2>1. Reads(p, {"io_create_handle"}) /\ {"io_create_handle"} \cap SyncKinds = {}
    BY <1>9 DEF CreateHandle, SyncKinds, PeerKinds
  <2>2. Ignore \/ \E name, kind, size, offset : AddIoEvent(p, name, kind, size, offset)
    BY <1>9 DEF CreateHandle
  <2> QED
    BY <1>3, <1>4, <2>1, <2>2
<1>10. CASE DeleteFile(p)
  <2>1. Reads(p, {"io_delete_file"}) /\ {"io_delete_file"} \cap SyncKinds = {}
    BY <1>10 DEF DeleteFile, SyncKinds, PeerKinds
  <2>2. Abort \/ \E name, kind, size, offset : AddIoEvent(p, name, kind, size, offset)
    BY <1>10 DEF DeleteFile, Drop
  <2> QED
    BY <1>3, <1>4, <2>1, <2>2
<1>11. CASE DestroyHandle(p)
  <2>1. Reads(p, {"io_destroy_handle"}) /\ {"io_destroy_handle"} \cap SyncKinds = {}
    BY <1>11 DEF DestroyHandle, SyncKinds, PeerKinds
  <2>2. Ignore \/ Abort \/ \E name, kind, size, offset : AddIoEvent(p, name, kind, size, offset)
    BY <1>11 DEF DestroyHandle, Drop
  <2> QED
    BY <1>3, <1>4, <2>1, <2>2
<1>12. CASE DuplicateHandle(p)
  BY <1>3, <1>12 DEF DuplicateHandle, SyncKinds, PeerKinds
<1>13. CASE Seek(p)
  <2>1. Reads(p, {"io_seek"}) /\ {"io_seek"} \cap SyncKinds = {}
    BY <1>13 DEF Seek, SyncKinds, PeerKinds
  <2>2. Ignore \/ \E name, kind, size, offset : AddIoEvent(p, name, kind, size, offset)
    BY <1>13 DEF Seek
  <2> QED
    BY <1>3, <1>4, <2>1, <2>2
<1>14. IsProgram(program)
  BY ProgramsAssumption DEF IInv, ReadingInv
<1>15. CASE CollectiveEnd(p)
  <2>1. Reads(p, {"mpi_collective_end"}) /\ evt(p).kind = "mpi_collective_end"
        /\ Now(p) \in DOMAIN program[p]
    BY <1>15 DEF CollectiveEnd, Reads
  <2>2. CASE evt(p).members = <<>>
    <3>1. Now(p) \notin SyncCalls(program[p])
      BY <2>1, <2>2 DEF SyncCalls, evt
    <3>2. Ignore
      BY <1>15, <2>2 DEF CollectiveEnd
    <3> QED
      BY <1>4, <2>1, <3>1, <3>2 DEF Quiet
  <2>3. CASE evt(p).members # <<>>
    <3>1. Now(p) \in SyncCalls(program[p])
      BY <2>1, <2>3 DEF SyncCalls, SyncKinds, evt
    <3>2. evt(p).members \in Seq(Procs)
      BY <1>14, <2>1, SyncEventFacts DEF evt
    <3>3. AddSyncEvent(p, SyncEvent(p, "collective", p, evt(p).members, evt(p).root))
      BY <1>15, <2>3 DEF CollectiveEnd
    <3>4. NotesEvent(SyncEvent(p, "collective", p, evt(p).members, evt(p).root), evt(p))
      BY <2>1 DEF NotesEvent, SyncEvent
    <3>5. AddsSync(p)
      BY <3>1, <3>2, <3>3, <3>4 DEF AddsSync
    <3>6. UNCHANGED status
      BY <3>3 DEF AddSyncEvent
    <3> QED
      BY <2>1, <3>5, <3>6
  <2> QED
    BY <2>2, <2>3
<1>16. CASE PeerToPeer(p)
  <2>1. Reads(p, PeerKinds) /\ evt(p).kind \in PeerKinds /\ Now(p) \in DOMAIN program[p]
    BY <1>16 DEF PeerToPeer, Reads
  <2>2. Now(p) \in SyncCalls(program[p])
    BY <2>1 DEF SyncCalls, SyncKinds, PeerKinds, evt
  <2>3. evt(p).remote \in Procs /\ <<>> \in Seq(Procs)
    BY <1>14, <2>1, SyncEventFacts, EmptySeq DEF evt
  <2>4. AddSyncEvent(p, SyncEvent(p, "p2p", evt(p).remote, <<>>, NoRoot))
    BY <1>16 DEF PeerToPeer
  <2>5. NotesEvent(SyncEvent(p, "p2p", evt(p).remote, <<>>, NoRoot), evt(p))
    BY <2>1 DEF NotesEvent, SyncEvent, PeerKinds
  <2>6. AddsSync(p)
    BY <2>2, <2>3, <2>4, <2>5 DEF AddsSync
  <2>7. UNCHANGED status
    BY <2>4 DEF AddSyncEvent
  <2> QED
    BY <2>1, <2>6, <2>7
<1>17. CASE Other(p)
  BY <1>3, <1>4, <1>17 DEF Other, SyncKinds, PeerKinds
<1> QED
  BY <1>5, <1>6, <1>7, <1>8, <1>9, <1>10, <1>11, <1>12, <1>13, <1>15, <1>16, <1>17
     DEF Handlers

-----------------------------------------------------------------------------
(***************************************************************************)
(* What a vertex says of its event is never changed.                       *)
(***************************************************************************)
SameCall(v, w) ==
  /\ w.type = v.type
  /\ v.type # "synthetic" => w.proc = v.proc /\ w.timestamp = v.timestamp
  /\ v.type = "sync_event" =>
       /\ SyncFields \subseteq DOMAIN w
       /\ w.comm_kind = v.comm_kind /\ w.remote = v.remote
       /\ w.members = v.members /\ w.root = v.root

SameCalls(g, h) ==
  /\ DOMAIN g \subseteq DOMAIN h
  /\ \A d \in DOMAIN g : SameCall(g[d], h[d])

LEMMA FieldsSame ==
  ASSUME NEW v, NEW w, DOMAIN w = DOMAIN v, GoodVertex(v),
         v.type = "sync_event" => SyncFields \subseteq DOMAIN v,
         \A f \in DOMAIN v \ {"root_event", "duration"} : w[f] = v[f]
  PROVE  SameCall(v, w)
<1>1. w.type = v.type
  BY DEF GoodVertex
<1>2. v.type # "synthetic" => w.proc = v.proc /\ w.timestamp = v.timestamp
  BY DEF GoodVertex
<1>3. ASSUME v.type = "sync_event"
      PROVE  /\ w.comm_kind = v.comm_kind /\ w.remote = v.remote
             /\ w.members = v.members /\ w.root = v.root
  BY <1>3 DEF SyncFields
<1> QED
  BY <1>1, <1>2, <1>3 DEF SameCall

LEMMA DurationsNote ==
  ASSUME NEW g, NEW h, DurationsOnly(g, h)
  PROVE  NotesOnly(g, h)
BY DEF DurationsOnly, NotesOnly

LEMMA NotesSame ==
  ASSUME IInv, NotesInv, NotesOnly(graph, graph')
  PROVE  SameCalls(graph, graph')
<1> SUFFICES ASSUME NEW d \in DOMAIN graph PROVE SameCall(graph[d], graph'[d])
  BY DEF SameCalls, NotesOnly
<1>1. /\ DOMAIN graph'[d] = DOMAIN graph[d]
      /\ \A f \in DOMAIN graph[d] \ {"root_event", "duration"} : graph'[d][f] = graph[d][f]
  BY DEF NotesOnly
<1>2. GoodVertex(graph[d]) /\ Noted(program, graph[d])
  BY DEF IInv, GraphInv, NotesInv
<1>3. graph[d].type = "sync_event" => SyncFields \subseteq DOMAIN graph[d]
  BY <1>2 DEF Noted
<1> QED
  BY <1>1, <1>2, <1>3, FieldsSame

LEMMA NotedStays ==
  ASSUME NEW tr, NEW v, NEW w, Noted(tr, v), SameCall(v, w)
  PROVE  Noted(tr, w)
<1> SUFFICES ASSUME v.type = "sync_event", w.type = "sync_event"
    PROVE  Noted(tr, w)
  BY DEF Noted, SameCall
<1>1. v.timestamp \in SyncCalls(tr[v.proc]) /\ NotesEvent(v, tr[v.proc][v.timestamp])
  BY DEF Noted
<1>2. /\ w.proc = v.proc /\ w.timestamp = v.timestamp /\ SyncFields \subseteq DOMAIN w
      /\ w.comm_kind = v.comm_kind /\ w.remote = v.remote
      /\ w.members = v.members /\ w.root = v.root
  BY DEF SameCall
<1>3. NotesEvent(w, tr[w.proc][w.timestamp])
  BY <1>1, <1>2 DEF NotesEvent
<1> QED
  BY <1>1, <1>2, <1>3 DEF Noted

LEMMA SyncsStay ==
  ASSUME SameCalls(graph, graph'), NEW p
  PROVE  /\ SyncsOf(p) \subseteq SyncsOf(p)'
         /\ DOMAIN graph' = DOMAIN graph => SyncsOf(p)' = SyncsOf(p)
         /\ \A d \in SyncsOf(p) : graph'[d].timestamp = graph[d].timestamp
BY DEF SameCalls, SameCall, SyncsOf, OwnVertices

(***************************************************************************)
(* The part of the invariant that does not depend on the phase.            *)
(***************************************************************************)
LEMMA NotesStay ==
  ASSUME IInv, NotesInv, UNCHANGED program,
         SameCalls(graph, graph'),
         \A d \in DOMAIN graph' \ DOMAIN graph : Noted(program, graph'[d]),
         \A p \in Procs : \A i \in SyncCalls(program[p]) :
           i <= pos'[p] => i <= pos[p] \/ \E d \in SyncsOf(p)' : graph'[d].timestamp = i
  PROVE  /\ \A d \in DOMAIN graph' : Noted(program, graph'[d])
         /\ \A p \in Procs : \A i \in SyncCalls(program[p]) :
              i <= pos'[p] => \E d \in SyncsOf(p)' : graph'[d].timestamp = i
<1>1. ASSUME NEW d \in DOMAIN graph' PROVE Noted(program, graph'[d])
  <2>1. CASE d \in DOMAIN graph
    BY <2>1, NotedStays DEF NotesInv, SameCalls
  <2>2. CASE d \notin DOMAIN graph
    BY <2>2
  <2> QED
    BY <2>1, <2>2
<1>2. ASSUME NEW p \in Procs, NEW i \in SyncCalls(program[p]), i <= pos'[p]
      PROVE  \E d \in SyncsOf(p)' : graph'[d].timestamp = i
  <2>1. CASE i <= pos[p]
    <3>1. PICK d \in SyncsOf(p) : graph[d].timestamp = i
      BY <2>1 DEF NotesInv
    <3> QED
      BY <3>1, SyncsStay
  <2>2. CASE ~(i <= pos[p])
    BY <1>2, <2>2
  <2> QED
    BY <2>1, <2>2
<1> QED
  BY <1>1, <1>2

LEMMA EdgesSame ==
  ASSUME IInv, NotesInv, SameCalls(graph, graph'), UNCHANGED edges
  PROVE  /\ \A x \in Range(edges') : graph'[x[1]].type = "synthetic" => x[1] = root_
         /\ NoCross => NoCross'
<1>1. \A x \in Range(edges) : /\ x[1] \in DOMAIN graph /\ x[2] \in DOMAIN graph
  BY RangeOfSeq DEF IInv, EdgesInv
<1>2. \A d \in DOMAIN graph : /\ graph'[d].type = graph[d].type
                              /\ graph[d].type # "synthetic" => graph'[d].proc = graph[d].proc
  BY DEF SameCalls, SameCall
<1> QED
  BY <1>1, <1>2 DEF NotesInv, NoCross

-----------------------------------------------------------------------------
LEMMA NotesQuiet ==
  ASSUME IInv, NotesInv, NEW p \in Procs, NEW kinds, Reads(p, kinds), Quiet(p),
         status' \in {"events", "aborted"}
  PROVE  NotesInv'
<1>1. SameCalls(graph, graph') /\ DOMAIN graph' = DOMAIN graph
  BY DurationsNote, NotesSame DEF Quiet, DurationsOnly
<1>2. UNCHANGED <<program, cursor, edges, synchronizations>> /\ status = "events"
  BY DEF Reads, Quiet
<1>3. pos' = [pos EXCEPT ![p] = Now(p)] /\ Now(p) = pos[p] + 1 /\ pos \in [Procs -> Nat]
  BY EventFacts DEF IInv, ReadingInv
<1>4. ASSUME NEW q \in Procs, NEW i \in SyncCalls(program[q]), i <= pos'[q]
      PROVE  i <= pos[q]
  <2>1. i # Now(q) \/ q # p
    BY <1>4 DEF Quiet
  <2>2. i \in Nat
    <3>1. program[q] \in Seq({program[q][j] : j \in DOMAIN program[q]})
      BY ProgramsAssumption DEF IInv, ReadingInv, IsProgram, WellFormed
    <3>2. i \in DOMAIN program[q]
      BY DEF SyncCalls
    <3> QED
      BY <3>1, <3>2, LenProperties
  <2> QED
    BY <1>3, <1>4, <2>1, <2>2 DEF Now
<1>5. /\ \A d \in DOMAIN graph' : Noted(program, graph'[d])
      /\ \A q \in Procs : \A i \in SyncCalls(program[q]) :
           i <= pos'[q] => \E d \in SyncsOf(q)' : graph'[d].timestamp = i
  BY <1>1, <1>2, <1>4, NotesStay
<1>6. /\ \A x \in Range(edges') : graph'[x[1]].type = "synthetic" => x[1] = root_
      /\ NoCross => NoCross'
  BY <1>1, <1>2, EdgesSame
<1>7. Reading /\ ~Ended'
  BY <1>2 DEF Reading, Ended
<1>8. \A q \in Procs : SyncsOf(q)' = SyncsOf(q)
  BY <1>1, SyncsStay
<1>9. \A d \in SyncVertices' : d \in SyncVertices /\ graph'[d].root_event = graph[d].root_event
  <2> SUFFICES ASSUME NEW d \in DOMAIN graph, graph'[d].type = "sync_event"
      PROVE  graph[d].type = "sync_event" /\ graph'[d].root_event = graph[d].root_event
    BY <1>1 DEF SyncVertices
  <2>1. graph[d].type = "sync_event"
    BY <1>1 DEF SameCalls, SameCall
  <2>2. "root_event" \in DOMAIN graph[d]
    BY <2>1 DEF NotesInv, Noted, SyncFields
  <2> QED
    BY <2>1, <2>2 DEF Quiet, DurationsOnly
<1> QED
  BY <1>2, <1>5, <1>6, <1>7, <1>8, <1>9 DEF NotesInv, Ended, Reading

(***************************************************************************)
(* Adding a vertex to a process                                            *)
(***************************************************************************)
LEMMA EdgeOfProcess ==
  ASSUME IInv, NotesInv, NEW p \in Procs, NEW n, n = Len(graph) + 1, NEW v,
         v.type # "synthetic", v.proc = p,
         graph' = Append(graph, v), build_edge(p, n)
  PROVE  /\ \A x \in Range(edges') : graph'[x[1]].type = "synthetic" => x[1] = root_
         /\ NoCross => NoCross'
<1>1. /\ DOMAIN graph' = DOMAIN graph \cup {n} /\ n \notin DOMAIN graph
      /\ graph'[n] = v /\ \A d \in DOMAIN graph : graph'[d] = graph[d]
  BY AppendFacts DEF IInv, GraphInv
<1>2. Range(edges') = Range(edges) \cup {<<LastPoint(p), n>>}
  <2>1. edges' = Append(edges, <<LastPoint(p), n>>)
    BY BuildEdge
  <2> QED
    BY <2>1, SequenceOver, RangeAppend DEF IInv, EdgesInv
<1>3. \A x \in Range(edges) : x[1] \in DOMAIN graph /\ x[2] \in DOMAIN graph
  BY RangeOfSeq DEF IInv, EdgesInv
<1>4. \/ LastPoint(p) = root_
      \/ LastPoint(p) \in OwnVertices(p)
  BY PointFacts
<1>5. LastPoint(p) \in DOMAIN graph
      /\ \/ LastPoint(p) = root_ /\ graph[root_].type = "synthetic"
         \/ graph[LastPoint(p)].type # "synthetic" /\ graph[LastPoint(p)].proc = p
  BY <1>4 DEF IInv, GraphInv, OwnVertices
<1>6. ASSUME NEW x \in Range(edges')
      PROVE  /\ graph'[x[1]].type = "synthetic" => x[1] = root_
             /\ NoCross =>
                  (graph'[x[1]].type # "synthetic" /\ graph'[x[2]].type # "synthetic"
                     => graph'[x[1]].proc = graph'[x[2]].proc)
  <2>1. CASE x \in Range(edges)
    BY <1>1, <1>3, <2>1 DEF NotesInv, NoCross
  <2>2. CASE x = <<LastPoint(p), n>>
    BY <1>1, <1>5, <2>2
  <2> QED
    BY <1>2, <1>6, <2>1, <2>2
<1> QED
  BY <1>6 DEF NoCross

LEMMA NotesAdded ==
  ASSUME IInv, NotesInv, NEW p \in Procs, NEW kinds, Reads(p, kinds), UNCHANGED status,
         NEW n, n = Len(graph) + 1, NEW v,
         GoodVertex(v), v.type # "synthetic", v.proc = p, v.timestamp = Now(p),
         Noted(program, v),
         graph' = Append(graph, v), build_edge(p, n),
         v.type = "sync_event" <=> Now(p) \in SyncCalls(program[p]),
         IF v.type = "sync_event"
         THEN /\ synchronizations' = [synchronizations EXCEPT ![p] = Append(@, n)]
              /\ v.root_event = NullVertex
         ELSE UNCHANGED synchronizations
  PROVE  NotesInv'
<1>1. /\ DOMAIN graph' = DOMAIN graph \cup {n} /\ n \notin DOMAIN graph
      /\ graph'[n] = v /\ \A d \in DOMAIN graph : graph'[d] = graph[d]
  BY AppendFacts DEF IInv, GraphInv
<1>2. \A d \in DOMAIN graph : d \in Nat /\ d < n
  BY SequenceFacts DEF IInv, GraphInv
<1>3. SameCalls(graph, graph')
  <2>1. \A d \in DOMAIN graph :
          graph[d].type = "sync_event" => SyncFields \subseteq DOMAIN graph[d]
    BY DEF NotesInv, Noted
  <2> QED
    BY <1>1, <2>1 DEF SameCalls, SameCall
<1>4. UNCHANGED <<program, cursor>> /\ status = "events" /\ status' = "events"
  BY DEF Reads
<1>5. pos' = [pos EXCEPT ![p] = Now(p)] /\ Now(p) = pos[p] + 1 /\ pos \in [Procs -> Nat]
  BY EventFacts DEF IInv, ReadingInv
<1>6. /\ \A q \in Procs : q # p => SyncsOf(q)' = SyncsOf(q)
      /\ SyncsOf(p)' = IF v.type = "sync_event" THEN SyncsOf(p) \cup {n} ELSE SyncsOf(p)
      /\ \A q \in Procs : SyncsOf(q) \subseteq DOMAIN graph
  BY <1>1 DEF SyncsOf, OwnVertices
<1>7. ASSUME NEW q \in Procs, NEW i \in SyncCalls(program[q]), i <= pos'[q]
      PROVE  i <= pos[q] \/ \E d \in SyncsOf(q)' : graph'[d].timestamp = i
  <2>1. i \in Nat
    <3>1. program[q] \in Seq({program[q][j] : j \in DOMAIN program[q]})
      BY ProgramsAssumption DEF IInv, ReadingInv, IsProgram, WellFormed
    <3>2. i \in DOMAIN program[q]
      BY DEF SyncCalls
    <3> QED
      BY <3>1, <3>2, LenProperties
  <2>2. CASE q = p /\ i = Now(p)
    <3>1. v.type = "sync_event"
      BY <2>2
    <3> QED
      BY <1>1, <1>6, <2>2, <3>1
  <2>3. CASE ~(q = p /\ i = Now(p))
    BY <1>5, <1>7, <2>1, <2>3
  <2> QED
    BY <2>2, <2>3
<1>8. /\ \A d \in DOMAIN graph' : Noted(program, graph'[d])
      /\ \A q \in Procs : \A i \in SyncCalls(program[q]) :
           i <= pos'[q] => \E d \in SyncsOf(q)' : graph'[d].timestamp = i
  BY <1>1, <1>3, <1>4, <1>7, NotesStay
<1>9. /\ \A x \in Range(edges') : graph'[x[1]].type = "synthetic" => x[1] = root_
      /\ NoCross => NoCross'
  BY EdgeOfProcess
<1>10. \A q \in Procs : /\ IsSequence(synchronizations[q])
                        /\ \A m \in DOMAIN synchronizations[q] :
                             synchronizations[q][m] \in SyncsOf(q)
  BY SequenceOver, ElementOfSeq, LenProperties DEF IInv, MatchingInv
<1>11. ASSUME NEW q \in Procs
       PROVE  /\ Ascending(synchronizations'[q])
              /\ Range(synchronizations'[q]) = SyncsOf(q)'
  <2>1. Ascending(synchronizations[q]) /\ Range(synchronizations[q]) = SyncsOf(q)
    BY <1>4 DEF NotesInv, Reading
  <2>2. CASE q = p /\ v.type = "sync_event"
    <3> DEFINE s == synchronizations[p]
               t == Append(s, n)
    <3>1. synchronizations'[p] = t
      BY <2>2 DEF IInv, MatchingInv
    <3>2. Range(t) = Range(s) \cup {n}
      BY <1>10, RangeAppend
    <3>3. /\ DOMAIN t = DOMAIN s \cup {Len(s) + 1} /\ t[Len(s) + 1] = n
          /\ \A i \in DOMAIN s : t[i] = s[i]
      BY <1>10, AppendFacts, SMTT(30)
    <3>4. Len(s) \in Nat /\ DOMAIN s = 1 .. Len(s)
      BY <1>10, SequenceFacts
    <3>5. \A i \in DOMAIN s : s[i] \in Nat /\ s[i] < n
      <4> SUFFICES ASSUME NEW i \in DOMAIN s PROVE s[i] \in Nat /\ s[i] < n
        OBVIOUS
      <4>1. s[i] \in SyncsOf(p)
        BY <1>10, <2>2
      <4> QED
        BY <4>1, <1>2, <1>6
    <3>6. Ascending(s)
      BY <2>1, <2>2
    <3> HIDE DEF s, t
    <3>7. Ascending(t)
      <4> SUFFICES ASSUME NEW i \in DOMAIN t, NEW j \in DOMAIN t, i < j PROVE t[i] < t[j]
        BY DEF Ascending
      <4>1. i \in DOMAIN s
        BY <3>3, <3>4
      <4>2. CASE j \in DOMAIN s
        BY <3>3, <3>6, <4>1, <4>2 DEF Ascending
      <4>3. CASE j = Len(s) + 1
        BY <3>3, <3>5, <4>1, <4>3
      <4> QED
        BY <3>3, <4>2, <4>3
    <3> QED
      BY <1>6, <2>1, <2>2, <3>1, <3>2, <3>7 DEF s
  <2>3. CASE ~(q = p /\ v.type = "sync_event")
    <3>1. synchronizations'[q] = synchronizations[q]
      BY <2>3 DEF IInv, MatchingInv
    <3>2. SyncsOf(q)' = SyncsOf(q)
      BY <1>6, <2>3
    <3> QED
      BY <2>1, <3>1, <3>2
  <2> QED
    BY <2>2, <2>3
<1>12. \A d \in SyncVertices' : graph'[d].root_event = NullVertex
  <2>1. \A d \in SyncVertices : graph[d].root_event = NullVertex
    BY <1>4 DEF NotesInv, Reading
  <2> QED
    BY <1>1, <2>1 DEF SyncVertices
<1>13. cursor' = FirstCursor /\ NoCross'
  BY <1>4, <1>9 DEF NotesInv, Reading
<1> QED
  BY <1>4, <1>8, <1>9, <1>11, <1>12, <1>13 DEF NotesInv, Ended, Reading

-----------------------------------------------------------------------------
(***************************************************************************)
(* A step of the matching takes at most one vertex off a deque, and then   *)
(* it draws the edge to it.                                                *)
(***************************************************************************)
Takes(q, n) ==
  /\ AtVertex /\ q # Loc
  /\ n \in DOMAIN synchronizations[q]
  /\ edges' = Append(edges, <<v_desc, synchronizations[q][n]>>)
  /\ synchronizations' = [synchronizations EXCEPT ![q] = RemoveAt(@, n)]

LEMMA PlacesFound ==
  ASSUME IInv, NEW q \in Procs, NEW places \in SUBSET DOMAIN synchronizations[q], places # {}
  PROVE  First(places) \in places
<1>1. synchronizations[q] \in Seq(SyncsOf(q))
  BY DEF IInv, MatchingInv
<1>2. places \in SUBSET Nat
  BY <1>1, LenProperties
<1> QED
  BY <1>2, FirstFacts

LEMMA MatchShape ==
  ASSUME IInv, MatchingNext
  PROVE  /\ Matching
         /\ \/ UNCHANGED <<edges, synchronizations>>
            \/ \E q \in Procs : \E n : Takes(q, n)
<1>1. Matching
  BY DEF MatchingNext, NextLocation, SkipVertex, SkipMyself, ConnectMember,
         FinishCollective, ConnectPeer, set_graph_properties
<1>2. CASE NextLocation \/ SkipVertex \/ SkipMyself \/ FinishCollective \/ set_graph_properties
  BY <1>1, <1>2 DEF NextLocation, SkipVertex, SkipMyself, FinishCollective, set_graph_properties
<1>3. CASE ConnectMember
  <2>1. PICK m : m = vertex.members[cursor.k]
    OBVIOUS
  <2>2. AtVertex /\ m # Loc /\ m \in Procs
    <3>1. cursor.k \in 1 .. Len(vertex.members)
      BY <1>3, VertexFacts, LenProperties DEF ConnectMember, IInv, MatchingInv
    <3> QED
      BY <1>3, <2>1, <3>1, VertexFacts, ElementOfSeq DEF ConnectMember
  <2>3. CASE CollectivesOf(m) = {}
    BY <1>1, <1>3, <2>1, <2>3 DEF ConnectMember, GiveUp
  <2>4. CASE CollectivesOf(m) # {}
    <3>1. PICK n : n = First(CollectivesOf(m))
      OBVIOUS
    <3>2. n \in DOMAIN synchronizations[m]
      BY <2>2, <2>4, <3>1, PlacesFound DEF CollectivesOf
    <3>3. Connect(m, n)
      BY <1>3, <2>1, <2>4, <3>1 DEF ConnectMember
    <3>4. Takes(m, n)
      BY <2>2, <3>2, <3>3 DEF Connect, AddEdge, Takes
    <3> QED
      BY <1>1, <2>2, <3>4
  <2> QED
    BY <2>3, <2>4
<1>4. CASE ConnectPeer
  <2>1. PICK q : q = vertex.remote
    OBVIOUS
  <2>2. PICK n : n = First(PeersOf(q))
    OBVIOUS
  <2>3. AtVertex /\ q \in Procs /\ vertex.proc = Loc
    BY <1>4, <2>1, VertexFacts DEF ConnectPeer
  <2>4. CASE PeersOf(q) = {} \/ q = vertex.proc
    BY <1>1, <1>4, <2>1, <2>4 DEF ConnectPeer, GiveUp
  <2>5. CASE PeersOf(q) # {} /\ q # vertex.proc
    <3>1. n \in DOMAIN synchronizations[q]
      BY <2>2, <2>3, <2>5, PlacesFound DEF PeersOf
    <3>2. Takes(q, n)
      BY <1>4, <2>1, <2>2, <2>3, <2>5, <3>1 DEF ConnectPeer, AddEdge, Takes
    <3> QED
      BY <1>1, <2>3, <3>2
  <2> QED
    BY <2>4, <2>5
<1> QED
  BY <1>2, <1>3, <1>4 DEF MatchingNext

LEMMA DequeFacts ==
  ASSUME IInv, NEW p \in Procs
  PROVE  /\ synchronizations[p] \in Seq(SyncsOf(p)) /\ SyncsOf(p) \in SUBSET Nat
         /\ SyncsOf(p) \subseteq DOMAIN graph
         /\ Len(synchronizations[p]) \in Nat
         /\ DOMAIN synchronizations[p] = 1 .. Len(synchronizations[p])
         /\ \A n \in DOMAIN synchronizations[p] : synchronizations[p][n] \in SyncsOf(p)
<1>1. synchronizations[p] \in Seq(SyncsOf(p))
  BY DEF IInv, MatchingInv
<1>2. \A d \in DOMAIN graph : d \in Nat
  BY SequenceFacts DEF IInv, GraphInv
<1>3. SyncsOf(p) \in SUBSET Nat /\ SyncsOf(p) \subseteq DOMAIN graph
  BY <1>2 DEF SyncsOf, OwnVertices
<1> QED
  BY <1>1, <1>3, LenProperties, ElementOfSeq

LEMMA Taken ==
  ASSUME IInv, NotesInv, NEW q \in Procs, NEW n, Takes(q, n)
  PROVE  /\ Ascending(synchronizations'[q])
         /\ Range(synchronizations'[q]) =
              Range(synchronizations[q]) \ {synchronizations[q][n]}
         /\ \A p \in Procs : p # q => synchronizations'[p] = synchronizations[p]
<1>1. /\ synchronizations[q] \in Seq(SyncsOf(q)) /\ SyncsOf(q) \in SUBSET Nat
      /\ n \in DOMAIN synchronizations[q] /\ Ascending(synchronizations[q])
  BY DequeFacts DEF NotesInv, Takes
<1>2. synchronizations'[q] = RemoveAt(synchronizations[q], n)
  BY DEF IInv, MatchingInv, Takes
<1>3. /\ Ascending(RemoveAt(synchronizations[q], n))
      /\ Range(RemoveAt(synchronizations[q], n)) =
           Range(synchronizations[q]) \ {synchronizations[q][n]}
  BY <1>1, RemoveAscending
<1>4. \A p \in Procs : p # q => synchronizations'[p] = synchronizations[p]
  BY DEF IInv, MatchingInv, Takes
<1> QED
  BY <1>2, <1>3, <1>4

LEMMA NotesMatch ==
  ASSUME IInv, NotesInv, MatchingNext, UNCHANGED <<program, pos>>
  PROVE  NotesInv'
<1>1. SameCalls(graph, graph') /\ DOMAIN graph' = DOMAIN graph
  <2>1. RootsOnly(graph, graph')
    BY MatchRoots
  <2>2. NotesOnly(graph, graph')
    BY <2>1 DEF RootsOnly, NotesOnly
  <2> QED
    BY <2>2, NotesSame DEF NotesOnly
<1>2. Matching /\ ~Reading' /\ Ended
  BY MatchShape DEF MatchingNext, Matching, NextLocation, SkipVertex, SkipMyself,
     ConnectMember, FinishCollective, ConnectPeer, set_graph_properties, GiveUp, Reading, Ended
<1>3. /\ \A d \in DOMAIN graph' : Noted(program, graph'[d])
      /\ \A q \in Procs : \A i \in SyncCalls(program[q]) :
           i <= pos'[q] => \E d \in SyncsOf(q)' : graph'[d].timestamp = i
  BY <1>1, NotesStay
<1>4. ASSUME NEW p \in Procs PROVE Ascending(synchronizations'[p])
  <2>1. CASE UNCHANGED synchronizations
    BY <2>1 DEF NotesInv
  <2>2. ASSUME NEW q \in Procs, NEW n, Takes(q, n)
        PROVE  Ascending(synchronizations'[p])
    BY <2>2, Taken DEF NotesInv
  <2> QED
    BY <2>1, <2>2, MatchShape
<1>5. \A x \in Range(edges') : graph'[x[1]].type = "synthetic" => x[1] = root_
  <2>1. CASE UNCHANGED edges
    BY <1>1, <2>1, EdgesSame
  <2>2. ASSUME NEW q \in Procs, NEW n, Takes(q, n)
        PROVE  \A x \in Range(edges') : graph'[x[1]].type = "synthetic" => x[1] = root_
    <3>1. Range(edges') = Range(edges) \cup {<<v_desc, synchronizations[q][n]>>}
      BY <2>2, SequenceOver, RangeAppend DEF IInv, EdgesInv, Takes
    <3>2. v_desc \in DOMAIN graph /\ graph[v_desc].type # "synthetic"
      BY <2>2, VertexFacts DEF Takes, vertex
    <3>3. \A x \in Range(edges) : x[1] \in DOMAIN graph
      BY RangeOfSeq DEF IInv, EdgesInv
    <3>4. \A d \in DOMAIN graph : graph'[d].type = graph[d].type
      BY <1>1 DEF SameCalls, SameCall
    <3> QED
      BY <3>1, <3>2, <3>3, <3>4 DEF NotesInv
  <2> QED
    BY <2>1, <2>2, MatchShape
<1>6. Ended' => \A p \in Procs : pos'[p] = Len(program'[p])
  BY <1>2 DEF NotesInv
<1> QED
  BY <1>2, <1>3, <1>4, <1>5, <1>6 DEF NotesInv

(***************************************************************************)
(* The synthetic end is no synchronisation and leads nowhere.              *)
(***************************************************************************)
LEMMA EndEdges ==
  ASSUME IInv, NotesInv, NEW n, n = Len(graph) + 1,
         graph' = Append(graph, Synthetic("End")),
         edges' = edges \o [m \in 1 .. NProcs |-> <<Head(edge_points[m - 1]), n>>],
         \A p \in Procs : edge_points[p] # <<>>
  PROVE  /\ \A x \in Range(edges') :
              x \in Range(edges) \/ \E p \in Procs : x[1] \in OwnVertices(p) /\ x[2] = n
         /\ \A x \in Range(edges') : graph'[x[1]].type = "synthetic" => x[1] = root_
         /\ NoCross => NoCross'
<1> DEFINE new == [m \in 1 .. NProcs |-> <<Head(edge_points[m - 1]), n>>]
<1>1. /\ DOMAIN graph' = DOMAIN graph \cup {n} /\ n \notin DOMAIN graph
      /\ graph'[n] = Synthetic("End") /\ \A d \in DOMAIN graph : graph'[d] = graph[d]
  BY AppendFacts DEF IInv, GraphInv
<1>2. \A p \in Procs : Head(edge_points[p]) \in OwnVertices(p)
  BY PointFacts DEF LastPoint
<1>3. ASSUME NEW m \in 1 .. NProcs
      PROVE  m - 1 \in Procs /\ new[m] = <<Head(edge_points[m - 1]), n>>
  BY NProcsAssumption DEF Procs
<1>4. \A p \in Procs : OwnVertices(p) \subseteq DOMAIN graph
  BY DEF OwnVertices
<1> DEFINE S == (DOMAIN graph') \X (DOMAIN graph')
<1>5. edges \in Seq(S)
  BY <1>1, SeqMonotonic DEF IInv, EdgesInv
<1>6. new \in [1 .. NProcs -> S]
  BY <1>1, <1>2, <1>3, <1>4
<1>7. new \in Seq(S) /\ DOMAIN new = 1 .. NProcs
  BY <1>6, NProcsAssumption, SeqDef
<1>8. edges' = edges \o new
  OBVIOUS
<1> HIDE DEF new, S
<1>9. Range(edges') = Range(edges) \cup Range(new)
  <2>1. Range(edges \o new) = Range(edges) \cup Range(new)
    BY <1>5, <1>7, RangeConcatenation
  <2> QED
    BY <2>1, <1>8, Zenon

<1>10. ASSUME NEW x \in Range(new)
       PROVE  \E p \in Procs : x[1] \in OwnVertices(p) /\ x[2] = n
  <2>1. PICK m \in 1 .. NProcs : x = new[m]
    BY <1>7 DEF Range
  <2>2. PICK p \in Procs : p = m - 1
    BY <1>3
  <2>3. x = <<Head(edge_points[p]), n>>
    BY <1>3, <2>1, <2>2
  <2> QED
    BY <1>2, <2>3

<1>11. \A x \in Range(edges) : x[1] \in DOMAIN graph /\ x[2] \in DOMAIN graph
  BY RangeOfSeq DEF IInv, EdgesInv
<1>12. \A x \in Range(edges') :
         x \in Range(edges) \/ \E p \in Procs : x[1] \in OwnVertices(p) /\ x[2] = n
  BY <1>9, <1>10
<1>13. ASSUME NEW x \in Range(edges')
       PROVE  /\ graph'[x[1]].type = "synthetic" => x[1] = root_
              /\ NoCross =>
                   (graph'[x[1]].type # "synthetic" /\ graph'[x[2]].type # "synthetic"
                      => graph'[x[1]].proc = graph'[x[2]].proc)
  <2>1. CASE x \in Range(edges)
    BY <1>1, <1>11, <2>1 DEF NotesInv, NoCross
  <2>2. ASSUME NEW p \in Procs, x[1] \in OwnVertices(p), x[2] = n
        PROVE  graph'[x[1]].type # "synthetic" /\ graph'[x[2]].type = "synthetic"
    BY <1>1, <2>2 DEF OwnVertices, Synthetic
  <2> QED
    BY <1>12, <2>1, <2>2
<1> QED
  BY <1>12, <1>13 DEF NoCross

LEMMA NotesEnd ==
  ASSUME IInv, NotesInv, EventsDone
  PROVE  NotesInv'
<1>1. /\ UNCHANGED <<program, pos, edge_points, synchronizations, cursor>>
      /\ status = "events" /\ Reading /\ create_synthetic_end
      /\ \A p \in Procs : pos[p] = Len(program[p])
  BY DEF EventsDone, Reading
<1>2. CASE \E p \in Procs : edge_points[p] = <<>>
  <2>1. status' = "undefined" /\ UNCHANGED <<graph, edges>>
    BY <1>1, <1>2 DEF create_synthetic_end
  <2> QED
    BY <1>1, <2>1 DEF NotesInv, Reading, Ended, SyncsOf, OwnVertices
<1>3. CASE ~\E p \in Procs : edge_points[p] = <<>>
  <2>1. PICK n : n = Len(graph) + 1
    OBVIOUS
  <2>2. /\ graph' = Append(graph, Synthetic("End")) /\ status' = "matching"
        /\ edges' = edges \o [m \in 1 .. NProcs |-> <<Head(edge_points[m - 1]), n>>]
    BY <1>1, <1>3, <2>1 DEF create_synthetic_end
  <2>3. /\ DOMAIN graph' = DOMAIN graph \cup {n} /\ n \notin DOMAIN graph
        /\ graph'[n] = Synthetic("End") /\ \A d \in DOMAIN graph : graph'[d] = graph[d]
    BY <2>1, <2>2, AppendFacts DEF IInv, GraphInv
  <2>4. SameCalls(graph, graph')
    <3>1. \A d \in DOMAIN graph :
            graph[d].type = "sync_event" => SyncFields \subseteq DOMAIN graph[d]
      BY DEF NotesInv, Noted
    <3> QED
      BY <2>3, <3>1 DEF SameCalls, SameCall
  <2>5. Noted(program, graph'[n])
    BY <2>3 DEF Noted, Synthetic
  <2>6. /\ \A d \in DOMAIN graph' : Noted(program, graph'[d])
        /\ \A q \in Procs : \A i \in SyncCalls(program[q]) :
             i <= pos'[q] => \E d \in SyncsOf(q)' : graph'[d].timestamp = i
    BY <1>1, <2>3, <2>4, <2>5, NotesStay
  <2>7. \A x \in Range(edges') : graph'[x[1]].type = "synthetic" => x[1] = root_
    BY <1>3, <2>1, <2>2, EndEdges
  <2> QED
    BY <1>1, <2>2, <2>6, <2>7 DEF NotesInv, Reading, Ended
<1> QED
  BY <1>2, <1>3

LEMMA NotesInitially ==
  ASSUME Init
  PROVE  NotesInv
<1>1. /\ DOMAIN graph = {root_} /\ graph[root_] = Synthetic("Root") /\ edges = <<>>
      /\ status = "definitions" /\ cursor = FirstCursor
      /\ \A p \in Procs : pos[p] = 0 /\ synchronizations[p] = <<>>
  BY DEF Init, root_
<1>2. /\ \A d \in DOMAIN graph : Noted(program, graph[d])
      /\ \A p : SyncsOf(p) = {}
      /\ SyncVertices = {}
  BY <1>1 DEF Noted, Synthetic, SyncsOf, OwnVertices, SyncVertices
<1>3. \A p \in Procs : \A i \in SyncCalls(program[p]) : ~(i <= pos[p])
  <2> SUFFICES ASSUME NEW p \in Procs, NEW i \in SyncCalls(program[p]) PROVE ~(i <= 0)
    BY <1>1
  <2>1. program[p] \in Seq({program[p][j] : j \in DOMAIN program[p]})
    BY ProgramsAssumption DEF Init, IsProgram, WellFormed
  <2>2. i \in DOMAIN program[p]
    BY DEF SyncCalls
  <2> QED
    BY <2>1, <2>2, LenProperties
<1>4. Range(<<>>) = {} /\ Ascending(<<>>)
  BY DEF Range, Ascending
<1> QED
  BY <1>1, <1>2, <1>3, <1>4 DEF NotesInv, NoCross, Ended

LEMMA NotesStep ==
  ASSUME IInv, NotesInv, [Next]_vars
  PROVE  NotesInv'
<1>1. ASSUME UNCHANGED <<program, pos, graph, edges, synchronizations, cursor>>,
             Reading' => Reading, Ended' => Ended
      PROVE  NotesInv'
  BY <1>1 DEF NotesInv, NoCross, SyncsOf, OwnVertices, SyncVertices
<1>2. CASE DefinitionsNext
  BY <1>1, <1>2 DEF DefinitionsNext, RegisterLocation, DefinitionsDone, Reading, Ended
<1>3. CASE EventNext
  <2>1. PICK p \in Procs : Handlers(p)
    BY <1>3 DEF EventNext, Handlers
  <2>2. PICK kinds : Reads(p, kinds)
    BY <2>1, EventShape
  <2>3. CASE Quiet(p) /\ status' \in {"events", "aborted"}
    BY <2>2, <2>3, NotesQuiet
  <2>4. CASE AddsIo(p) /\ UNCHANGED status
    <3>1. PICK name, kind, size, offset : AddIoEvent(p, name, kind, size, offset)
      BY <2>4 DEF AddsIo
    <3>2. PICK v : v = IoEvent(p, name, kind, size, offset)
      OBVIOUS
    <3>3. PICK n : n = Len(graph) + 1
      OBVIOUS
    <3>4. Now(p) \in Nat
      BY DEF IInv, ReadingInv, Now
    <3>5. /\ GoodVertex(v) /\ v.type = "io_event" /\ v.proc = p /\ v.timestamp = Now(p)
      BY <3>2, <3>4 DEF IoEvent, GoodVertex
    <3>6. /\ graph' = Append(graph, v) /\ build_edge(p, n) /\ UNCHANGED synchronizations
      BY <3>1, <3>2, <3>3 DEF AddIoEvent, AddVertex
    <3>7. v.type # "synthetic" /\ v.type # "sync_event" /\ Noted(program, v)
      BY <3>5 DEF Noted
    <3>8. Now(p) \notin SyncCalls(program[p])
      BY <2>4 DEF AddsIo
    <3> QED
      BY <2>2, <2>4, <3>3, <3>5, <3>6, <3>7, <3>8, NotesAdded
  <2>5. CASE AddsSync(p) /\ UNCHANGED status
    <3>10. PICK comm_kind, root :
             \E remote \in Procs : \E members \in Seq(Procs) :
               /\ NotesEvent(SyncEvent(p, comm_kind, remote, members, root), evt(p))
               /\ AddSyncEvent(p, SyncEvent(p, comm_kind, remote, members, root))
      BY <2>5, Zenon DEF AddsSync
    <3>1. PICK remote \in Procs, members \in Seq(Procs) :
            /\ NotesEvent(SyncEvent(p, comm_kind, remote, members, root), evt(p))
            /\ AddSyncEvent(p, SyncEvent(p, comm_kind, remote, members, root))
      BY <3>10, Zenon
    <3>2. PICK v : v = SyncEvent(p, comm_kind, remote, members, root)
      OBVIOUS
    <3>3. PICK n : n = Len(graph) + 1
      OBVIOUS
    <3>4. Now(p) \in Nat
      BY DEF IInv, ReadingInv, Now
    <3>5. /\ GoodVertex(v) /\ v.type = "sync_event" /\ v.proc = p /\ v.timestamp = Now(p)
          /\ v.root_event = NullVertex /\ SyncFields \subseteq DOMAIN v
      BY <3>2, <3>4 DEF SyncEvent, GoodVertex, SyncFields
    <3>6. /\ graph' = Append(graph, v) /\ build_edge(p, n)
          /\ synchronizations' = [synchronizations EXCEPT ![p] = Append(@, n)]
      BY <3>1, <3>2, <3>3 DEF AddSyncEvent, AddVertex
    <3>7. Now(p) \in SyncCalls(program[p])
      BY <2>5 DEF AddsSync
    <3>8. Noted(program, v)
      BY <3>1, <3>2, <3>5, <3>7 DEF Noted, evt
    <3>9. v.type # "synthetic"
      BY <3>5
    <3> QED
      BY <2>2, <2>5, <3>3, <3>5, <3>6, <3>7, <3>8, <3>9, NotesAdded
  <2> QED
    BY <2>1, <2>3, <2>4, <2>5, EventShape
<1>4. CASE EventsDone
  BY <1>4, NotesEnd
<1>5. CASE Match
  BY <1>5, NotesMatch DEF Match
<1>6. CASE UNCHANGED vars
  BY <1>1, <1>6 DEF vars, Reading, Ended
<1> QED
  BY <1>2, <1>3, <1>4, <1>5, <1>6 DEF Next

-----------------------------------------------------------------------------
(***************************************************************************)
(* What the trace says of the events of one operation.                     *)
(***************************************************************************)
Collective(e) == e.kind = "mpi_collective_end"

LEMMA Places ==
  ASSUME NEW tr
  PROVE  /\ \A p \in Procs : \A i \in SyncCalls(tr[p]) :
              <<p, i>> \in SyncPlaces(tr) /\ tr[p][i] \in SyncEvents(tr)
         /\ \A x \in SyncPlaces(tr) :
              /\ x = <<x[1], x[2]>> /\ x[1] \in Procs
              /\ x[2] \in DOMAIN tr[x[1]] /\ tr[x[1]][x[2]].kind \in SyncKinds
<1>1. \A p \in Procs : \A i \in SyncCalls(tr[p]) : <<p, i>> \in SyncPlaces(tr)
  BY DEF SyncPlaces, SyncCalls
<1>2. ASSUME NEW p \in Procs, NEW i \in SyncCalls(tr[p]) PROVE tr[p][i] \in SyncEvents(tr)
  <2>1. PICK x : x = <<p, i>>
    OBVIOUS
  <2>2. x \in SyncPlaces(tr) /\ tr[x[1]][x[2]] = tr[p][i]
    BY <1>1, <2>1
  <2> QED
    BY <2>2 DEF SyncEvents
<1>3. \A x \in SyncPlaces(tr) :
        /\ x = <<x[1], x[2]>> /\ x[1] \in Procs
        /\ x[2] \in DOMAIN tr[x[1]] /\ tr[x[1]][x[2]].kind \in SyncKinds
  BY DEF SyncPlaces
<1> QED
  BY <1>1, <1>2, <1>3

LEMMA SameOperation ==
  ASSUME NEW tr, IsProgram(tr), NEW p \in Procs, NEW q \in Procs,
         NEW i \in SyncCalls(tr[p]), NEW j \in SyncCalls(tr[q]),
         tr[p][i].op = tr[q][j].op
  PROVE  /\ Collective(tr[p][i]) <=> Collective(tr[q][j])
         /\ Collective(tr[p][i]) => tr[q][j] = tr[p][i]
         /\ ~Collective(tr[p][i]) /\ <<p, i>> # <<q, j>> =>
              tr[p][i].remote = q /\ tr[q][j].remote = p
         /\ p = q => i = j \/ (~Collective(tr[p][i]) /\ tr[p][i].remote = p)
<1> DEFINE ev(x) == tr[x[1]][x[2]]
           same(x) == {y \in SyncPlaces(tr) : ev(y).op = ev(x).op}
<1>1. PICK x, y : x = <<p, i>> /\ y = <<q, j>>
  OBVIOUS
<1>2. x \in SyncPlaces(tr) /\ y \in SyncPlaces(tr)
  BY <1>1, Places
<1>3. ev(x) = tr[p][i] /\ ev(y) = tr[q][j] /\ x[1] = p /\ y[1] = q
  BY <1>1
<1>4. /\ x \in same(x) /\ y \in same(x)
  BY <1>2, <1>3
<1>5. OperationsAgree(tr)
  BY DEF IsProgram
<1>6. CASE Collective(tr[p][i])
  <2>1. ev(x).members # <<>>
    BY <1>3, <1>6 DEF SyncCalls, Collective
  <2>2. /\ \A z \in same(x) : ev(z) = ev(x)
        /\ \A z, w \in same(x) : z[1] = w[1] => z = w
    BY <1>2, <1>3, <1>5, <1>6, <2>1 DEF OperationsAgree, Collective
  <2>3. ev(y) = ev(x) /\ (p = q => x = y)
    BY <1>3, <1>4, <2>2
  <2>4. tr[q][j] = tr[p][i] /\ (p = q => i = j)
    BY <1>1, <1>3, <2>3
  <2> QED
    BY <1>6, <2>4
<1>7. CASE ~Collective(tr[p][i])
  <2>1. PICK z \in same(x) \ {x} : /\ same(x) = {x, z} /\ ev(z).kind \in PeerKinds
                                   /\ ev(x).remote = z[1] /\ ev(z).remote = x[1]
    BY <1>2, <1>3, <1>5, <1>7 DEF OperationsAgree, Collective
  <2>2. y = x \/ y = z
    BY <1>4, <2>1
  <2>3. ~Collective(ev(z))
    BY <2>1 DEF Collective, PeerKinds
  <2>4. CASE y = x
    BY <1>1, <1>7, <2>4
  <2>5. CASE y = z
    <3>1. ~Collective(tr[q][j]) /\ tr[p][i].remote = q /\ tr[q][j].remote = p
      BY <1>1, <2>1, <2>3, <2>5
    <3> QED
      BY <1>7, <3>1
  <2> QED
    BY <2>2, <2>4, <2>5
<1> QED
  BY <1>6, <1>7

LEMMA Partners ==
  ASSUME NEW tr, IsProgram(tr), NEW p \in Procs, NEW i \in SyncCalls(tr[p])
  PROVE  LET e == tr[p][i] IN
         IF Collective(e)
         THEN /\ \A m, n \in DOMAIN e.members : e.members[m] = e.members[n] => m = n
              /\ p \in MembersOf(e.members)
              /\ \A q \in MembersOf(e.members) :
                   q \in Procs /\ \E j \in SyncCalls(tr[q]) : tr[q][j].op = e.op
         ELSE /\ e.remote \in Procs
              /\ \E j \in SyncCalls(tr[e.remote]) :
                   tr[e.remote][j].op = e.op /\ <<e.remote, j>> # <<p, i>>
<1> DEFINE ev(x) == tr[x[1]][x[2]]
           same(x) == {y \in SyncPlaces(tr) : ev(y).op = ev(x).op}
<1>1. PICK x : x = <<p, i>>
  OBVIOUS
<1>2. x \in SyncPlaces(tr) /\ ev(x) = tr[p][i] /\ x[1] = p /\ x \in same(x)
  BY <1>1, Places
<1>3. OperationsAgree(tr)
  BY DEF IsProgram
<1>4. CASE Collective(tr[p][i])
  <2>1. ev(x).members # <<>>
    BY <1>2, <1>4 DEF SyncCalls, Collective
  <2>2. /\ \A m, n \in DOMAIN ev(x).members : ev(x).members[m] = ev(x).members[n] => m = n
        /\ \A y \in same(x) : ev(y) = ev(x)
        /\ {y[1] : y \in same(x)} = MembersOf(ev(x).members)
    BY <1>2, <1>3, <1>4, <2>1 DEF OperationsAgree, Collective
  <2>3. p \in MembersOf(ev(x).members)
    BY <1>2, <2>2
  <2>4. ASSUME NEW q \in MembersOf(ev(x).members)
        PROVE  q \in Procs /\ \E j \in SyncCalls(tr[q]) : tr[q][j].op = ev(x).op
    <3>1. PICK y \in same(x) : y[1] = q
      BY <2>2
    <3>2. y[1] \in Procs /\ y[2] \in DOMAIN tr[y[1]] /\ ev(y) = ev(x)
      BY <2>2, <3>1, Places
    <3>3. y[2] \in SyncCalls(tr[q]) /\ tr[q][y[2]].op = ev(x).op
      BY <1>2, <1>4, <2>1, <3>1, <3>2, Places DEF SyncCalls, Collective, SyncKinds
    <3> QED
      BY <3>1, <3>2, <3>3
  <2> QED
    BY <1>2, <1>4, <2>2, <2>3, <2>4
<1>5. CASE ~Collective(tr[p][i])
  <2>1. PICK z \in same(x) \ {x} : /\ ev(z).kind \in PeerKinds /\ ev(x).remote = z[1]
    BY <1>2, <1>3, <1>5 DEF OperationsAgree, Collective
  <2>2. /\ z = <<z[1], z[2]>> /\ z[1] \in Procs /\ z[2] \in DOMAIN tr[z[1]]
        /\ ev(z).kind \in SyncKinds /\ ev(z).op = ev(x).op
    BY <2>1, Places
  <2>3. z[2] \in SyncCalls(tr[z[1]])
    BY <2>1, <2>2 DEF SyncCalls, PeerKinds
  <2> QED
    BY <1>1, <1>2, <1>5, <2>1, <2>2, <2>3
<1> QED
  BY <1>4, <1>5

-----------------------------------------------------------------------------
(***************************************************************************)
(* The same of the vertices                                                *)
(***************************************************************************)
ToItself(d) == ~IsCollective(d) /\ graph[d].remote = graph[d].proc

SameOp(d, e) ==
  /\ IsCollective(d) <=> IsCollective(e)
  /\ IsCollective(d) => graph[e].members = graph[d].members /\ graph[e].root = graph[d].root
  /\ ~IsCollective(d) /\ d # e =>
       graph[d].remote = graph[e].proc /\ graph[e].remote = graph[d].proc
  /\ graph[d].proc = graph[e].proc => d = e \/ ToItself(d)

LEMMA SyncFacts ==
  ASSUME IInv, NotesInv, NEW d \in SyncVertices
  PROVE  LET v == graph[d]
             e == program[v.proc][v.timestamp]
         IN /\ v.proc \in Procs /\ v.timestamp \in SyncCalls(program[v.proc])
            /\ d \in SyncsOf(v.proc) /\ d \in DOMAIN graph /\ d \in Nat \ {0}
            /\ v.remote \in Procs /\ v.members \in Seq(Procs)
            /\ IsCollective(d) <=> Collective(e)
            /\ IsCollective(d) => v.members = e.members /\ v.root = e.root
            /\ ~IsCollective(d) => v.remote = e.remote
            /\ Op(d) = e.op
<1>1. d \in DOMAIN graph /\ graph[d].type = "sync_event"
  BY DEF SyncVertices
<1>2. GoodVertex(graph[d]) /\ Noted(program, graph[d])
  BY <1>1 DEF IInv, GraphInv, NotesInv
<1>3. /\ graph[d].proc \in Procs /\ graph[d].remote \in Procs
      /\ graph[d].members \in Seq(Procs)
  BY <1>1, <1>2 DEF GoodVertex
<1>4. d \in SyncsOf(graph[d].proc)
  BY <1>1 DEF SyncsOf, OwnVertices
<1>5. /\ graph[d].timestamp \in SyncCalls(program[graph[d].proc])
      /\ NotesEvent(graph[d], program[graph[d].proc][graph[d].timestamp])
  BY <1>1, <1>2 DEF Noted
<1>6. d \in Nat \ {0}
  BY <1>1, SequenceFacts DEF IInv, GraphInv
<1>7. Op(d) = program[graph[d].proc][graph[d].timestamp].op
  BY DEF Op
<1> QED
  BY <1>1, <1>3, <1>4, <1>5, <1>6, <1>7 DEF NotesEvent, IsCollective, Collective

(* Descriptors are in the order of timestamps. *)
LEMMA Timely ==
  ASSUME IInv, NotesInv, NEW p \in Procs, NEW d \in SyncsOf(p), NEW e \in SyncsOf(p)
  PROVE  /\ d < e <=> graph[d].timestamp < graph[e].timestamp
         /\ graph[d].timestamp = graph[e].timestamp => d = e
         /\ d \in SyncVertices /\ graph[d].proc = p
<1>1. d \in OwnVertices(p) /\ e \in OwnVertices(p)
  BY DEF SyncsOf
<1>2. /\ d < e => graph[d].timestamp < graph[e].timestamp
      /\ e < d => graph[e].timestamp < graph[d].timestamp
  BY <1>1 DEF IInv, ProgramOrderChained
<1>3. graph[d].timestamp \in Nat /\ graph[e].timestamp \in Nat /\ d \in Nat /\ e \in Nat
  BY <1>1, SequenceFacts DEF IInv, GraphInv, GoodVertex, OwnVertices
<1>4. d < e \/ e < d \/ d = e
  BY <1>3
<1>5. d \in SyncVertices /\ graph[d].proc = p
  BY DEF SyncsOf, OwnVertices, SyncVertices
<1> QED
  BY <1>2, <1>3, <1>4, <1>5

LEMMA VerticesAgree ==
  ASSUME IInv, NotesInv, NEW d \in SyncVertices, NEW e \in SyncVertices, Op(d) = Op(e)
  PROVE  SameOp(d, e)
<1>1. PICK p, q, i, j : /\ p = graph[d].proc /\ q = graph[e].proc
                        /\ i = graph[d].timestamp /\ j = graph[e].timestamp
  OBVIOUS
<1>2. /\ p \in Procs /\ q \in Procs
      /\ i \in SyncCalls(program[p]) /\ j \in SyncCalls(program[q])
      /\ program[p][i].op = program[q][j].op
      /\ d \in SyncsOf(p) /\ e \in SyncsOf(q)
  BY <1>1, SyncFacts
<1>3. IsProgram(program)
  BY ProgramsAssumption DEF IInv, ReadingInv
<1>4. /\ Collective(program[p][i]) <=> Collective(program[q][j])
      /\ Collective(program[p][i]) => program[q][j] = program[p][i]
      /\ ~Collective(program[p][i]) /\ <<p, i>> # <<q, j>> =>
           program[p][i].remote = q /\ program[q][j].remote = p
      /\ p = q => i = j \/ (~Collective(program[p][i]) /\ program[p][i].remote = p)
  BY <1>2, <1>3, SameOperation
<1>5. /\ IsCollective(d) <=> Collective(program[p][i])
      /\ IsCollective(d) =>
           graph[d].members = program[p][i].members /\ graph[d].root = program[p][i].root
      /\ ~IsCollective(d) => graph[d].remote = program[p][i].remote
  BY <1>1, SyncFacts
<1>6. /\ IsCollective(e) <=> Collective(program[q][j])
      /\ IsCollective(e) =>
           graph[e].members = program[q][j].members /\ graph[e].root = program[q][j].root
      /\ ~IsCollective(e) => graph[e].remote = program[q][j].remote
  BY <1>1, SyncFacts
<1>7. <<p, i>> = <<q, j>> => d = e
  <2> SUFFICES ASSUME p = q, i = j PROVE d = e
    OBVIOUS
  <2>1. d \in SyncsOf(p) /\ e \in SyncsOf(p) /\ graph[d].timestamp = graph[e].timestamp
    BY <1>1, <1>2
  <2> QED
    BY <1>2, <2>1, Timely
<1> QED
  BY <1>1, <1>4, <1>5, <1>6, <1>7 DEF SameOp, ToItself

LEMMA PartnerVertices ==
  ASSUME IInv, NotesInv, Ended, NEW d \in SyncVertices
  PROVE  IF IsCollective(d)
         THEN /\ \A m, n \in DOMAIN graph[d].members :
                   graph[d].members[m] = graph[d].members[n] => m = n
              /\ graph[d].proc \in MembersOf(graph[d].members)
              /\ \A q \in MembersOf(graph[d].members) :
                   q \in Procs /\ \E e \in SyncsOf(q) : Op(e) = Op(d)
         ELSE \E e \in SyncsOf(graph[d].remote) : e # d /\ Op(e) = Op(d)
<1>1. PICK p, i : p = graph[d].proc /\ i = graph[d].timestamp
  OBVIOUS
<1>2. /\ p \in Procs /\ i \in SyncCalls(program[p]) /\ Op(d) = program[p][i].op
      /\ IsCollective(d) <=> Collective(program[p][i])
      /\ IsCollective(d) => graph[d].members = program[p][i].members
      /\ ~IsCollective(d) => graph[d].remote = program[p][i].remote
  BY <1>1, SyncFacts
<1>3. IsProgram(program)
  BY ProgramsAssumption DEF IInv, ReadingInv
<1>4. ASSUME NEW q \in Procs, NEW j \in SyncCalls(program[q])
      PROVE  \E e \in SyncsOf(q) : Op(e) = program[q][j].op /\ graph[e].timestamp = j
  <2>1. j <= pos[q]
    <3>1. program[q] \in Seq({program[q][k] : k \in DOMAIN program[q]})
      BY <1>3 DEF IsProgram, WellFormed
    <3>2. j \in DOMAIN program[q]
      BY DEF SyncCalls
    <3>3. pos[q] = Len(program[q])
      BY DEF NotesInv
    <3> QED
      BY <3>1, <3>2, <3>3, LenProperties
  <2>2. PICK e \in SyncsOf(q) : graph[e].timestamp = j
    BY <2>1 DEF NotesInv
  <2> QED
    BY <2>2, Timely DEF Op
<1>5. CASE IsCollective(d)
  <2>1. PICK members : members = program[p][i].members
    OBVIOUS
  <2>2. Collective(program[p][i]) /\ members = graph[d].members
    BY <1>2, <1>5, <2>1
  <2>3. /\ \A m, n \in DOMAIN members : members[m] = members[n] => m = n
        /\ p \in MembersOf(members)
        /\ \A q \in MembersOf(members) :
             q \in Procs /\ \E j \in SyncCalls(program[q]) : program[q][j].op = Op(d)
    <3>1. PICK e : e = program[p][i]
      OBVIOUS
    <3>2. /\ \A m, n \in DOMAIN e.members : e.members[m] = e.members[n] => m = n
          /\ p \in MembersOf(e.members)
          /\ \A q \in MembersOf(e.members) :
               q \in Procs /\ \E j \in SyncCalls(program[q]) : program[q][j].op = e.op
      BY <1>2, <1>3, <2>2, <3>1, Partners, Zenon
    <3>3. e.members = members /\ e.op = Op(d)
      BY <1>2, <2>1, <3>1
    <3> QED
      BY <3>2, <3>3
  <2>4. ASSUME NEW q \in MembersOf(members)
        PROVE  q \in Procs /\ \E e \in SyncsOf(q) : Op(e) = Op(d)
    <3>1. q \in Procs
      BY <2>3
    <3>2. PICK j \in SyncCalls(program[q]) : program[q][j].op = Op(d)
      BY <2>3
    <3> QED
      BY <1>4, <3>1, <3>2
  <2> QED
    BY <1>1, <1>5, <2>2, <2>3, <2>4
<1>6. CASE ~IsCollective(d)
  <2>1. PICK q : q = graph[d].remote
    OBVIOUS
  <2>2. q = program[p][i].remote /\ ~Collective(program[p][i])
    BY <1>2, <1>6, <2>1
  <2>3. q \in Procs /\ \E j \in SyncCalls(program[q]) :
                          program[q][j].op = program[p][i].op /\ <<q, j>> # <<p, i>>
    BY <1>2, <1>3, <2>2, Partners
  <2>4. PICK j \in SyncCalls(program[q]) :
               program[q][j].op = program[p][i].op /\ <<q, j>> # <<p, i>>
    BY <2>3
  <2>5. PICK e \in SyncsOf(q) : Op(e) = program[q][j].op /\ graph[e].timestamp = j
    BY <1>4, <2>3
  <2>6. e # d
    BY <1>1, <2>3, <2>4, <2>5, Timely
  <2> QED
    BY <1>2, <1>6, <2>1, <2>4, <2>5, <2>6
<1> QED
  BY <1>5, <1>6

(* Processes take the turns they share in the same order. *)
LEMMA VerticesTurn ==
  ASSUME IInv, NotesInv, Separable(program),
         NEW p \in Procs, NEW q \in Procs, p # q,
         NEW d \in SyncsOf(p), NEW e \in SyncsOf(p), NEW f \in SyncsOf(q), NEW g \in SyncsOf(q),
         Op(d) = Op(f), Op(e) = Op(g), IsCollective(d) <=> IsCollective(e), d < e
  PROVE  f < g
<1>1. PICK i, j, k, l : /\ i = graph[d].timestamp /\ j = graph[e].timestamp
                        /\ k = graph[f].timestamp /\ l = graph[g].timestamp
  OBVIOUS
<1>2. /\ graph[d].proc = p /\ graph[e].proc = p /\ graph[f].proc = q /\ graph[g].proc = q
      /\ d \in SyncVertices /\ e \in SyncVertices /\ f \in SyncVertices /\ g \in SyncVertices
      /\ i < j /\ (f < g <=> k < l)
  BY <1>1, Timely
<1>3. /\ i \in SyncCalls(program[p]) /\ j \in SyncCalls(program[p])
      /\ k \in SyncCalls(program[q]) /\ l \in SyncCalls(program[q])
      /\ program[p][i].op = program[q][k].op /\ program[p][j].op = program[q][l].op
      /\ Collective(program[p][i]) <=> Collective(program[p][j])
  BY <1>1, <1>2, SyncFacts
<1>4. SameTurns(program[p], program[q])
  BY DEF Separable
<1>5. k < l
  BY <1>2, <1>3, <1>4 DEF SameTurns, Collective
<1> QED
  BY <1>2, <1>5

LEMMA SameDrawer ==
  ASSUME IInv, NotesInv, Separable(program),
         NEW d \in SyncVertices, NEW e \in SyncVertices, IsCollective(d), IsCollective(e),
         MembersOf(graph[d].members) \cap MembersOf(graph[e].members) # {}
  PROVE  /\ graph[d].members = graph[e].members
         /\ Drawer(graph[d]) = Drawer(graph[e])
         /\ Drawer(graph[e]) \in MembersOf(graph[e].members)
<1>1. PICK x, y : /\ x = program[graph[d].proc][graph[d].timestamp]
                  /\ y = program[graph[e].proc][graph[e].timestamp]
  OBVIOUS
<1>2. /\ x \in SyncEvents(program) /\ y \in SyncEvents(program)
      /\ x.kind = "mpi_collective_end" /\ y.kind = "mpi_collective_end"
      /\ graph[d].members = x.members /\ graph[d].root = x.root
      /\ graph[e].members = y.members /\ graph[e].root = y.root
  BY <1>1, SyncFacts, Places DEF Collective
<1>3. Drawer(graph[d]) = Drawer(x) /\ Drawer(graph[e]) = Drawer(y)
  BY <1>2 DEF Drawer
<1>4. x.members = y.members /\ Drawer(x) = Drawer(y) /\ Drawer(y) \in MembersOf(y.members)
  BY <1>2 DEF Separable
<1> QED
  BY <1>2, <1>3, <1>4

-----------------------------------------------------------------------------
(***************************************************************************)
(* Every operation has one vertex that leads.                              *)
(***************************************************************************)
Told == IInv /\ NotesInv /\ Ended /\ Separable(program)

LEMMA SameLeader ==
  ASSUME IInv, NotesInv, NEW d \in SyncVertices, NEW e \in SyncVertices, Op(d) = Op(e)
  PROVE  LeaderOf(graph[d]) = LeaderOf(graph[e])
<1>1. SameOp(d, e)
  BY VerticesAgree
<1>2. CASE IsCollective(d)
  BY <1>1, <1>2 DEF SameOp, LeaderOf, Drawer, IsCollective
<1>3. CASE ~IsCollective(d) /\ d # e
  <2>1. /\ ~IsCollective(e)
        /\ graph[d].remote = graph[e].proc /\ graph[e].remote = graph[d].proc
    BY <1>1, <1>3 DEF SameOp
  <2>2. graph[d].proc \in Int /\ graph[e].proc \in Int
    BY SyncFacts, NProcsAssumption DEF Procs
  <2>3. PICK a, b : a = graph[d].proc /\ b = graph[e].proc
    OBVIOUS
  <2>4. /\ LeaderOf(graph[d]) = IF a <= b THEN a ELSE b
        /\ LeaderOf(graph[e]) = IF b <= a THEN b ELSE a
    BY <1>3, <2>1, <2>3 DEF LeaderOf, IsCollective
  <2> QED
    BY <2>2, <2>3, <2>4
<1> QED
  BY <1>2, <1>3

LEMMA OneLeader ==
  ASSUME IInv, NotesInv, NEW v \in SyncVertices, NEW w \in SyncVertices,
         Op(v) = Op(w), Leads(v), Leads(w)
  PROVE  v = w \/ ToItself(v)
<1>1. SameOp(v, w) /\ graph[v].proc = graph[w].proc
  BY SameLeader, VerticesAgree DEF Leads
<1> QED
  BY <1>1 DEF SameOp

LEMMA LeaderExists ==
  ASSUME Told, NEW d \in SyncVertices
  PROVE  /\ LeaderOf(graph[d]) \in Procs
         /\ \E v \in SyncsOf(LeaderOf(graph[d])) : v \in SyncVertices /\ Leads(v) /\ Op(v) = Op(d)
<1>1. ASSUME NEW q \in Procs, q = LeaderOf(graph[d]), NEW v \in SyncsOf(q), Op(v) = Op(d)
      PROVE  v \in SyncVertices /\ Leads(v)
  <2>1. v \in SyncVertices /\ graph[v].proc = q
    BY <1>1, Timely DEF Told
  <2> QED
    BY <1>1, <2>1, SameLeader DEF Told, Leads
<1>2. CASE IsCollective(d)
  <2>1. /\ graph[d].proc \in MembersOf(graph[d].members)
        /\ \A q \in MembersOf(graph[d].members) :
             q \in Procs /\ \E e \in SyncsOf(q) : Op(e) = Op(d)
    BY <1>2, PartnerVertices DEF Told
  <2>2. Drawer(graph[d]) \in MembersOf(graph[d].members)
    BY <1>2, <2>1, SameDrawer DEF Told
  <2>3. LeaderOf(graph[d]) = Drawer(graph[d])
    BY <1>2 DEF LeaderOf, IsCollective
  <2> QED
    BY <1>1, <2>1, <2>2, <2>3
<1>3. CASE ~IsCollective(d)
  <2>1. PICK e \in SyncsOf(graph[d].remote) : e # d /\ Op(e) = Op(d)
    BY <1>3, PartnerVertices DEF Told
  <2>2. /\ LeaderOf(graph[d]) = graph[d].proc \/ LeaderOf(graph[d]) = graph[d].remote
        /\ graph[d].proc \in Procs /\ graph[d].remote \in Procs
        /\ d \in SyncsOf(graph[d].proc)
    BY <1>3, SyncFacts DEF LeaderOf, IsCollective, Told
  <2> QED
    BY <1>1, <2>1, <2>2
<1> QED
  BY <1>2, <1>3

LEMMA LeastFacts ==
  ASSUME NEW S \in SUBSET Nat, S # {}
  PROVE  Min(S) \in S /\ \A x \in S : Min(S) <= x
<1>1. \E x \in S : \A y \in S : x <= y
  BY LeastNat
<1> QED
  BY <1>1, Zenon DEF Min

-----------------------------------------------------------------------------
(***************************************************************************)
(* The vertex the loops are at                                             *)
(***************************************************************************)
LEMMA DescFacts ==
  ASSUME Told, AtVertex
  PROVE  /\ Loc \in Procs /\ cursor.i \in DOMAIN synchronizations[Loc] /\ cursor.i \in Nat \ {0}
         /\ v_desc \in SyncVertices /\ v_desc \in SyncsOf(Loc) /\ graph[v_desc].proc = Loc
         /\ InDeque(v_desc) /\ ~Through(v_desc)
<1>1. /\ Loc \in Procs /\ v_desc \in SyncsOf(Loc) /\ graph[v_desc].proc = Loc
  BY VertexFacts DEF Told, vertex
<1>2. v_desc \in SyncVertices
  BY <1>1, Timely DEF Told
<1>3. cursor.i \in Nat \ {0}
  BY DEF Told, IInv, MatchingInv
<1>4. /\ cursor.i \in DOMAIN synchronizations[Loc]
      /\ DOMAIN synchronizations[Loc] = 1 .. Len(synchronizations[Loc])
      /\ \A n \in DOMAIN synchronizations[Loc] : synchronizations[Loc][n] \in Nat
  BY <1>1, <1>3, DequeFacts DEF AtVertex, Told
<1>5. InDeque(v_desc)
  BY <1>1, <1>4 DEF InDeque, Range, v_desc
<1>6. ~Through(v_desc)
  <2>1. \A n \in DOMAIN synchronizations[Loc] :
          n < cursor.i => synchronizations[Loc][n] < synchronizations[Loc][cursor.i]
    BY <1>1, <1>4 DEF Told, NotesInv, Ascending
  <2>2. \A n \in DOMAIN synchronizations[Loc] :
          n < cursor.i => synchronizations[Loc][n] # v_desc
    BY <1>4, <2>1 DEF v_desc
  <2>3. ~(Loc < Loc)
    BY <1>1, NProcsAssumption DEF Procs
  <2> QED
    BY <1>1, <2>2, <2>3 DEF Through
<1> QED
  BY <1>1, <1>2, <1>3, <1>4, <1>5, <1>6

(***************************************************************************)
(* The loops come to draw edges only at vertices that lead.                *)
(***************************************************************************)
LEMMA AtLeader ==
  ASSUME Told, Matched, AtVertex, ~(IsCollective(v_desc) /\ DrawnElsewhere)
  PROVE  Leads(v_desc)
<1>1. PICK d : d = v_desc
  OBVIOUS
<1>2. /\ d \in SyncVertices /\ graph[d].proc = Loc /\ Loc \in Procs /\ InDeque(d)
  BY <1>1, DescFacts
<1>3. PICK v \in SyncVertices : Leads(v) /\ Op(v) = Op(d) /\ graph[v].proc = LeaderOf(graph[d])
  BY <1>2, LeaderExists, Timely DEF Told
<1>4. SUFFICES ASSUME ~Leads(d) PROVE FALSE
  BY <1>1
<1>5. FollowerOK(v, d)
  BY <1>2, <1>3, <1>4 DEF Matched
<1>6. ~Through(v)
  BY <1>2, <1>5 DEF FollowerOK
<1>7. LeaderOf(graph[d]) # Loc
  BY <1>2, <1>4 DEF Leads
<1>8. LeaderOf(graph[d]) < Loc
  <2>1. LeaderOf(graph[d]) \in Int /\ Loc \in Int
    BY <1>2, LeaderExists, NProcsAssumption DEF Procs
  <2>2. CASE IsCollective(d)
    <3>1. graph[d].proc \in MembersOf(graph[d].members)
          /\ MembersOf(graph[d].members) \in SUBSET Nat
      BY <1>2, <2>2, PartnerVertices, NProcsAssumption DEF Told, Procs
    <3>2. ~(graph[d].root <= Len(graph[d].members) /\ graph[d].proc # graph[d].root)
      BY <1>1, <2>2 DEF DrawnElsewhere, vertex
    <3>3. LeaderOf(graph[d]) = Drawer(graph[d])
      BY <2>2 DEF LeaderOf, IsCollective
    <3>4. LeaderOf(graph[d]) = Min(MembersOf(graph[d].members))
      BY <1>2, <1>7, <3>2, <3>3 DEF Drawer
    <3>5. \A x \in MembersOf(graph[d].members) : Min(MembersOf(graph[d].members)) <= x
      BY <3>1, LeastFacts
    <3> QED
      BY <1>2, <1>7, <2>1, <3>1, <3>4, <3>5
  <2>3. CASE ~IsCollective(d)
    <3>1. LeaderOf(graph[d]) = IF Loc <= graph[d].remote THEN Loc ELSE graph[d].remote
      BY <1>2, <2>3 DEF LeaderOf, IsCollective
    <3> QED
      BY <1>7, <2>1, <3>1
  <2> QED
    BY <2>2, <2>3
<1> QED
  BY <1>3, <1>6, <1>8 DEF Through

(***************************************************************************)
(* The searches find the vertex of the same operation.                     *)
(***************************************************************************)
LEMMA InTurn ==
  ASSUME Told, Matched, AtVertex, Leads(v_desc),
         NEW q \in Procs, q # Loc, NEW w \in SyncsOf(q), Op(w) = Op(v_desc),
         NEW f \in SyncsOf(q), InDeque(f),
         IsCollective(f) <=> IsCollective(w), LeaderOf(graph[f]) = Loc
  PROVE  w <= f
<1>1. /\ Loc \in Procs /\ cursor.i \in DOMAIN synchronizations[Loc] /\ cursor.i \in Nat
      /\ v_desc \in SyncVertices /\ v_desc \in SyncsOf(Loc)
  BY DescFacts
<1>2. /\ f \in SyncVertices /\ graph[f].proc = q /\ w \in SyncVertices
      /\ f \in Nat /\ w \in Nat
  BY Timely, SyncFacts DEF Told
<1>3. PICK v \in SyncsOf(Loc) : v \in SyncVertices /\ Leads(v) /\ Op(v) = Op(f)
  BY <1>2, LeaderExists
<1>4. FollowerOK(v, f) /\ InDeque(v) /\ graph[v].proc = Loc
  <2>1. ~Leads(f)
    BY <1>2 DEF Leads
  <2>2. graph[v].proc = Loc
    BY <1>1, <1>3, Timely DEF Told
  <2> QED
    BY <1>2, <1>3, <2>1, <2>2 DEF Matched, LeaderOK
<1>5. ~Through(v)
  BY <1>4 DEF FollowerOK
<1>6. SUFFICES ASSUME f < w PROVE FALSE
  BY <1>2
<1>7. v < v_desc
  <2>1. IsCollective(f) <=> IsCollective(w)
    OBVIOUS
  <2> QED
    <3>1. IInv /\ NotesInv /\ Separable(program)
      BY DEF Told
    <3>2. Op(f) = Op(v) /\ Op(w) = Op(v_desc)
      BY <1>3
    <3> QED
      BY <1>1, <1>3, <1>6, <2>1, <3>1, <3>2, VerticesTurn
<1>8. PICK n \in DOMAIN synchronizations[Loc] : synchronizations[Loc][n] = v
  BY <1>4 DEF InDeque, Range
<1>9. n < cursor.i
  <2>1. n \in Nat /\ \A x \in DOMAIN synchronizations[Loc] : synchronizations[Loc][x] \in Nat
    BY <1>1, DequeFacts DEF Told
  <2>2. Ascending(synchronizations[Loc])
    BY <1>1 DEF Told, NotesInv
  <2>3. cursor.i < n => v_desc < v
    BY <1>1, <1>8, <2>2 DEF Ascending, v_desc
  <2>4. cursor.i = n => v_desc = v
    BY <1>8 DEF v_desc
  <2>5. v \in Nat /\ v_desc \in Nat
    BY <1>1, <1>3, SyncFacts DEF Told
  <2> QED
    BY <1>1, <1>7, <2>1, <2>3, <2>4, <2>5
<1> QED
  BY <1>4, <1>5, <1>8, <1>9 DEF Through

LEMMA SearchFinds ==
  ASSUME Told, NEW q \in Procs, NEW places \in SUBSET DOMAIN synchronizations[q],
         NEW n \in places, \A x \in places : synchronizations[q][n] <= synchronizations[q][x]
  PROVE  places # {} /\ First(places) = n
<1>1. /\ DOMAIN synchronizations[q] \in SUBSET Nat
      /\ \A x \in DOMAIN synchronizations[q] : synchronizations[q][x] \in Nat
  BY DequeFacts DEF Told
<1>2. First(places) \in places /\ First(places) <= n
  BY <1>1, LeastFacts DEF First
<1>3. First(places) < n => synchronizations[q][First(places)] < synchronizations[q][n]
  BY <1>2 DEF Told, NotesInv, Ascending
<1>4. synchronizations[q][n] <= synchronizations[q][First(places)]
  BY <1>2
<1>5. /\ First(places) \in Nat /\ n \in Nat
      /\ synchronizations[q][First(places)] \in Nat /\ synchronizations[q][n] \in Nat
  BY <1>1, <1>2
<1> QED
  BY <1>2, <1>3, <1>4, <1>5

LEMMA WaitsInDeque ==
  ASSUME Told, Matched, AtVertex, Leads(v_desc),
         NEW q \in Procs, q # Loc, NEW w \in SyncsOf(q), Op(w) = Op(v_desc),
         ~Reached(v_desc, w)
  PROVE  /\ w \in SyncVertices /\ graph[w].proc = q /\ ~Leads(w)
         /\ graph[w].root_event = NullVertex
         /\ \E n \in DOMAIN synchronizations[q] : synchronizations[q][n] = w
<1>1. w \in SyncVertices /\ graph[w].proc = q
  BY Timely DEF Told
<1>2. v_desc \in SyncVertices /\ graph[v_desc].proc = Loc /\ ~Through(v_desc)
  BY DescFacts
<1>3. ~Leads(w)
  BY <1>1, <1>2, SameLeader DEF Leads, Told
<1>4. FollowerOK(v_desc, w)
  BY <1>1, <1>2, <1>3 DEF Matched
<1>5. graph[w].root_event = NullVertex /\ InDeque(w)
  BY <1>2, <1>4 DEF FollowerOK
<1> QED
  BY <1>1, <1>3, <1>5 DEF InDeque, Range

LEMMA FindsMember ==
  ASSUME Told, Matched, AtVertex, IsCollective(v_desc), ~DrawnElsewhere,
         cursor.k \in DOMAIN vertex.members,
         NEW q, q = vertex.members[cursor.k], q # Loc
  PROVE  /\ q \in Procs /\ CollectivesOf(q) # {}
         /\ First(CollectivesOf(q)) \in DOMAIN synchronizations[q]
         /\ LET w == synchronizations[q][First(CollectivesOf(q))] IN
            /\ w \in SyncVertices /\ graph[w].proc = q /\ Op(w) = Op(v_desc) /\ ~Leads(w)
<1>1. Leads(v_desc)
  BY AtLeader
<1>2. v_desc \in SyncVertices
  BY DescFacts
<1>3. q \in MembersOf(graph[v_desc].members)
  BY DEF MembersOf, vertex
<1>4. /\ q \in Procs
      /\ \A m, n \in DOMAIN graph[v_desc].members :
           graph[v_desc].members[m] = graph[v_desc].members[n] => m = n
  BY <1>2, <1>3, PartnerVertices DEF Told
<1>5. PICK w \in SyncsOf(q) : Op(w) = Op(v_desc)
  BY <1>2, <1>3, PartnerVertices DEF Told
<1>6. w \in SyncVertices /\ graph[w].proc = q
  BY <1>4, Timely DEF Told
<1>7. ~Reached(v_desc, w)
  <2>1. cursor.k \in Nat
    BY DEF Told, IInv, MatchingInv
  <2>2. ~(cursor.k < cursor.k)
    BY <2>1
  <2> QED
    BY <1>4, <1>6, <2>2 DEF Reached, vertex
<1>8. /\ ~Leads(w)
      /\ \E n \in DOMAIN synchronizations[q] : synchronizations[q][n] = w
  BY <1>1, <1>4, <1>5, <1>7, WaitsInDeque
<1>9. PICK n \in DOMAIN synchronizations[q] : synchronizations[q][n] = w
  BY <1>8
<1>10. SameOp(w, v_desc)
  BY <1>2, <1>5, <1>6, VerticesAgree DEF Told
<1>11. n \in CollectivesOf(q)
  BY <1>9, <1>10 DEF CollectivesOf, SameOp
<1>12. ASSUME NEW x \in CollectivesOf(q) PROVE w <= synchronizations[q][x]
  <2>1. PICK f : f = synchronizations[q][x]
    OBVIOUS
  <2>2. x \in DOMAIN synchronizations[q] /\ f \in SyncsOf(q) /\ IsCollective(f)
    BY <1>4, <2>1, DequeFacts DEF CollectivesOf, Told
  <2>3. f \in SyncVertices /\ graph[f].proc = q
    BY <1>4, <2>2, Timely DEF Told
  <2>4. InDeque(f)
    BY <2>1, <2>2, <2>3 DEF InDeque, Range
  <2>5. LeaderOf(graph[f]) = Loc
    <3>1. q \in MembersOf(graph[f].members) /\ q \in MembersOf(graph[v_desc].members)
      BY <1>3, <2>2, <2>3, PartnerVertices DEF Told
    <3>2. Drawer(graph[f]) = Drawer(graph[v_desc])
      BY <1>2, <2>2, <2>3, <3>1, SameDrawer DEF Told
    <3> QED
      BY <1>1, <2>2, <3>2, DescFacts DEF LeaderOf, Leads, IsCollective
  <2>6. IsCollective(f) <=> IsCollective(w)
    BY <1>10, <2>2 DEF SameOp
  <2> QED
    BY <1>1, <1>4, <1>5, <2>1, <2>2, <2>4, <2>5, <2>6, InTurn
<1>13. First(CollectivesOf(q)) = n
  BY <1>4, <1>9, <1>11, <1>12, SearchFinds DEF CollectivesOf
<1> QED
  BY <1>4, <1>5, <1>6, <1>8, <1>9, <1>11, <1>13

LEMMA FindsPeer ==
  ASSUME Told, Matched, AtVertex, ~IsCollective(v_desc),
         NEW q, q = vertex.remote, q # Loc
  PROVE  /\ q \in Procs /\ PeersOf(q) # {}
         /\ First(PeersOf(q)) \in DOMAIN synchronizations[q]
         /\ LET w == synchronizations[q][First(PeersOf(q))] IN
            /\ w \in SyncVertices /\ graph[w].proc = q /\ Op(w) = Op(v_desc) /\ ~Leads(w)
<1>1. Leads(v_desc)
  BY AtLeader
<1>2. /\ v_desc \in SyncVertices /\ v_desc \in SyncsOf(Loc) /\ graph[v_desc].proc = Loc
      /\ Loc \in Procs /\ q = graph[v_desc].remote
  BY DescFacts DEF vertex
<1>3. q \in Procs
  BY <1>2, SyncFacts DEF Told
<1>4. PICK w \in SyncsOf(q) : w # v_desc /\ Op(w) = Op(v_desc)
  BY <1>2, PartnerVertices DEF Told
<1>5. ~Reached(v_desc, w)
  BY DEF Reached
<1>6. /\ w \in SyncVertices /\ graph[w].proc = q /\ ~Leads(w)
      /\ \E n \in DOMAIN synchronizations[q] : synchronizations[q][n] = w
  BY <1>1, <1>3, <1>4, <1>5, WaitsInDeque
<1>7. PICK n \in DOMAIN synchronizations[q] : synchronizations[q][n] = w
  BY <1>6
<1>8. SameOp(v_desc, w)
  BY <1>2, <1>4, <1>6, VerticesAgree DEF Told
<1>9. /\ ~IsCollective(w) /\ graph[w].remote = Loc
  BY <1>2, <1>4, <1>8 DEF SameOp
<1>10. \A x \in DOMAIN synchronizations[q] :
         /\ synchronizations[q][x] \in SyncsOf(q)
         /\ synchronizations[q][x] \in SyncVertices /\ graph[synchronizations[q][x]].proc = q
         /\ InDeque(synchronizations[q][x])
  <2> SUFFICES ASSUME NEW x \in DOMAIN synchronizations[q]
      PROVE  /\ synchronizations[q][x] \in SyncsOf(q)
             /\ synchronizations[q][x] \in SyncVertices
             /\ graph[synchronizations[q][x]].proc = q
             /\ InDeque(synchronizations[q][x])
    OBVIOUS
  <2>1. synchronizations[q][x] \in SyncsOf(q)
    BY <1>3, DequeFacts DEF Told
  <2>2. synchronizations[q][x] \in SyncVertices /\ graph[synchronizations[q][x]].proc = q
    BY <1>3, <2>1, Timely DEF Told
  <2> QED
    BY <2>1, <2>2 DEF InDeque, Range
<1>11. \A x \in DOMAIN synchronizations[q] :
         x \in PeersOf(q) <=> graph[synchronizations[q][x]].comm_kind = "p2p"
                              /\ graph[synchronizations[q][x]].remote = Loc
  BY <1>2 DEF PeersOf, vertex
<1>12. \A d \in SyncVertices : graph[d].comm_kind = "p2p" <=> ~IsCollective(d)
  BY DEF SyncVertices, Told, NotesInv, Noted, NotesEvent, IsCollective
<1>13. n \in PeersOf(q)
  BY <1>6, <1>7, <1>9, <1>11, <1>12
<1>14. ASSUME NEW x \in PeersOf(q) PROVE w <= synchronizations[q][x]
  <2>1. PICK f : f = synchronizations[q][x]
    OBVIOUS
  <2>2. x \in DOMAIN synchronizations[q]
    BY DEF PeersOf
  <2>3. /\ f \in SyncsOf(q) /\ InDeque(f) /\ ~IsCollective(f) /\ graph[f].remote = Loc
        /\ graph[f].proc = q
    BY <1>10, <1>11, <1>12, <2>1, <2>2
  <2>4. LeaderOf(graph[v_desc]) = Loc
    BY <1>1, <1>2 DEF Leads
  <2>5. Loc <= q
    <3>1. LeaderOf(graph[v_desc]) = IF Loc <= q THEN Loc ELSE q
      BY <1>2 DEF LeaderOf, IsCollective
    <3> QED
      BY <2>4, <3>1
  <2>6. LeaderOf(graph[f]) = Loc
    <3>1. LeaderOf(graph[f]) = IF q <= Loc THEN q ELSE Loc
      BY <2>3 DEF LeaderOf, IsCollective
    <3>2. q \in Int /\ Loc \in Int
      BY <1>2, <1>3, NProcsAssumption DEF Procs
    <3> QED
      BY <2>5, <3>1, <3>2
  <2> QED
    BY <1>1, <1>3, <1>4, <1>9, <2>1, <2>3, <2>6, InTurn
<1>15. First(PeersOf(q)) = n
  BY <1>3, <1>7, <1>13, <1>14, SearchFinds DEF PeersOf
<1> QED
  BY <1>3, <1>4, <1>6, <1>7, <1>13, <1>15

-----------------------------------------------------------------------------
(***************************************************************************)
(* The steps of the matching                                               *)
(***************************************************************************)
LEMMA CallsStay ==
  ASSUME IInv, NotesInv, SameCalls(graph, graph'), DOMAIN graph' = DOMAIN graph,
         UNCHANGED program
  PROVE  /\ SyncVertices' = SyncVertices
         /\ \A d \in SyncVertices :
              /\ graph'[d].proc = graph[d].proc /\ graph'[d].remote = graph[d].remote
              /\ graph'[d].members = graph[d].members
              /\ IsCollective(d)' <=> IsCollective(d)
              /\ LeaderOf(graph'[d]) = LeaderOf(graph[d])
              /\ Leads(d)' <=> Leads(d)
              /\ Op(d)' = Op(d)
<1>1. SyncVertices' = SyncVertices
  BY DEF SyncVertices, SameCalls, SameCall
<1>2. ASSUME NEW d \in SyncVertices
      PROVE  /\ graph'[d].proc = graph[d].proc /\ graph'[d].remote = graph[d].remote
             /\ graph'[d].members = graph[d].members /\ graph'[d].root = graph[d].root
             /\ graph'[d].comm_kind = graph[d].comm_kind
             /\ graph'[d].timestamp = graph[d].timestamp
  BY DEF SyncVertices, SameCalls, SameCall
<1>3. \A d \in SyncVertices :
        /\ IsCollective(d)' <=> IsCollective(d)
        /\ LeaderOf(graph'[d]) = LeaderOf(graph[d])
        /\ Op(d)' = Op(d)
  BY <1>2 DEF IsCollective, LeaderOf, Drawer, Op
<1> QED
  BY <1>1, <1>2, <1>3 DEF Leads

LEMMA MembersAre ==
  ASSUME IInv, NotesInv, NEW v \in SyncVertices
  PROVE  DOMAIN graph[v].members = 1 .. Len(graph[v].members)
         /\ Len(graph[v].members) \in Nat
BY SyncFacts, LenProperties

LEMMA CursorIs ==
  ASSUME IInv
  PROVE  /\ cursor \in [loc : Procs, i : Nat \ {0}, k : Nat \ {0}]
         /\ Loc = cursor.loc /\ Loc \in Nat /\ cursor.i \in Nat \ {0} /\ cursor.k \in Nat \ {0}
         /\ NextVertex => Loc' = Loc /\ cursor'.i = cursor.i + 1 /\ cursor'.k = 1
         /\ cursor' = [cursor EXCEPT !.k = @ + 1] =>
              Loc' = Loc /\ cursor'.i = cursor.i /\ cursor'.k = cursor.k + 1
<1>1. cursor \in [loc : Procs, i : Nat \ {0}, k : Nat \ {0}]
  BY DEF IInv, MatchingInv
<1>2. cursor.loc \in Nat
  BY <1>1, NProcsAssumption DEF Procs
<1> QED
  BY <1>1, <1>2 DEF Loc, NextVertex

(* Going on to the next vertex of the process. *)
LEMMA GoesOn ==
  ASSUME Told, AtVertex, NextVertex, synchronizations'[Loc] = synchronizations[Loc],
         SameCalls(graph, graph'), DOMAIN graph' = DOMAIN graph, UNCHANGED program
  PROVE  /\ \A v \in SyncVertices : Through(v)' <=> Through(v) \/ v = v_desc
         /\ \A v \in SyncVertices : \A d : ~Reached(v, d)'
<1>1. /\ Loc' = Loc /\ cursor'.i = cursor.i + 1 /\ cursor'.k = 1 /\ cursor.i \in Nat
  BY CursorIs DEF Told
<1>2. /\ Loc \in Procs /\ cursor.i \in DOMAIN synchronizations[Loc]
      /\ graph[v_desc].proc = Loc /\ DOMAIN synchronizations[Loc] \in SUBSET Nat
  BY DescFacts, DequeFacts DEF Told
<1>3. ASSUME NEW v \in SyncVertices PROVE Through(v)' <=> Through(v) \/ v = v_desc
  <2>1. graph'[v].proc = graph[v].proc
    BY CallsStay DEF Told
  <2>2. \A n \in DOMAIN synchronizations[Loc] : n < cursor.i + 1 <=> n < cursor.i \/ n = cursor.i
    BY <1>1, <1>2
  <2>3. Through(v)' <=>
          \/ graph[v].proc < Loc
          \/ /\ graph[v].proc = Loc
             /\ \E n \in DOMAIN synchronizations[Loc] :
                  n < cursor.i + 1 /\ synchronizations[Loc][n] = v
    BY <1>1, <2>1 DEF Through
  <2> QED
    BY <1>2, <2>2, <2>3 DEF Through, v_desc
<1>4. ASSUME NEW v \in SyncVertices, NEW d PROVE ~Reached(v, d)'
  <2>1. DOMAIN graph'[v].members = DOMAIN graph[v].members
        /\ \A n \in DOMAIN graph[v].members : ~(n < 1)
    BY CallsStay, MembersAre DEF Told
  <2> QED
    BY <1>1, <2>1 DEF Reached
<1> QED
  BY <1>3, <1>4

(* Steps that only move the cursor. *)
LEMMA CursorMoves ==
  ASSUME Told, Matched, UNCHANGED <<program, graph, synchronizations>>,
         \A v \in SyncVertices : Leads(v) => (Through(v)' <=> Through(v)),
         \A v, d \in SyncVertices : Leads(v) /\ ~Leads(d) /\ Op(v) = Op(d) =>
           (Reached(v, d)' <=> Reached(v, d))
  PROVE  Matched'
<1>1. /\ SyncVertices' = SyncVertices
      /\ \A d \in SyncVertices : /\ Leads(d)' <=> Leads(d)
                                 /\ Op(d)' = Op(d)
                                 /\ InDeque(d)' <=> InDeque(d)
                                 /\ IsCollective(d)' <=> IsCollective(d)
  BY DEF SyncVertices, Leads, Op, InDeque, IsCollective
<1>2. ASSUME NEW v \in SyncVertices, Leads(v) PROVE LeaderOK(v)'
  BY <1>1, <1>2 DEF Matched, LeaderOK
<1>3. ASSUME NEW v \in SyncVertices, NEW d \in SyncVertices,
             Leads(v), ~Leads(d), Op(v) = Op(d)
      PROVE  FollowerOK(v, d)'
  BY <1>1, <1>3 DEF Matched, FollowerOK
<1> QED
  BY <1>1, <1>2, <1>3 DEF Matched

LEMMA MovesOn ==
  ASSUME Told, Matched, NextLocation, UNCHANGED program
  PROVE  Matched'
<1>1. /\ ~AtVertex /\ UNCHANGED <<graph, synchronizations>>
      /\ cursor' = [loc |-> Loc + 1, i |-> 1, k |-> 1]
  BY DEF NextLocation
<1>2. Loc' = Loc + 1 /\ cursor'.i = 1 /\ cursor'.k = 1
  BY <1>1 DEF Loc
<1>3. Loc \in Nat /\ Loc \in Procs /\ cursor.i \in Nat
  BY CursorIs DEF Told, Loc
<1>4. Loc + 1 \in Procs
  BY <1>3, NProcsAssumption DEF NextLocation, Procs
<1>5. \A q \in Procs : \A n \in DOMAIN synchronizations[q] : ~(n < 1)
  <2> SUFFICES ASSUME NEW q \in Procs, NEW n \in DOMAIN synchronizations[q] PROVE ~(n < 1)
    OBVIOUS
  <2>1. Len(synchronizations[q]) \in Nat /\ n \in 1 .. Len(synchronizations[q])
    BY DequeFacts DEF Told
  <2> QED
    BY <2>1
<1>6. ASSUME NEW v \in SyncVertices, Leads(v) PROVE Through(v)' <=> Through(v)
  <2>1. graph[v].proc \in Nat
    BY SyncFacts, NProcsAssumption DEF Told, Procs
  <2>2. Through(v)' <=> graph[v].proc < Loc + 1
    BY <1>1, <1>2, <1>4, <1>5 DEF Through
  <2>3. graph[v].proc = Loc => Through(v)
    <3> SUFFICES ASSUME graph[v].proc = Loc PROVE Through(v)
      OBVIOUS
    <3>1. InDeque(v)
      BY <1>6 DEF Matched, LeaderOK
    <3>2. PICK n \in DOMAIN synchronizations[Loc] : synchronizations[Loc][n] = v
      BY <3>1 DEF InDeque, Range
    <3>3. n < cursor.i
      <4>1. Len(synchronizations[Loc]) \in Nat /\ n \in 1 .. Len(synchronizations[Loc])
        BY <1>3, DequeFacts DEF Told
      <4>2. Len(synchronizations[Loc]) < cursor.i
        BY <1>1, <1>3, <4>1 DEF AtVertex
      <4> QED
        BY <1>3, <4>1, <4>2
    <3> QED
      BY <3>2, <3>3 DEF Through
  <2>4. graph[v].proc < Loc => Through(v)
    BY DEF Through
  <2>5. Through(v) => graph[v].proc < Loc \/ graph[v].proc = Loc
    BY DEF Through
  <2> QED
    BY <1>3, <2>1, <2>2, <2>3, <2>4, <2>5
<1>7. ASSUME NEW v \in SyncVertices, NEW d \in SyncVertices
      PROVE  ~Reached(v, d)' /\ ~Reached(v, d)
  <2>1. DOMAIN graph'[v].members = DOMAIN graph[v].members
        /\ \A n \in DOMAIN graph[v].members : ~(n < 1)
    BY <1>1, MembersAre DEF Told
  <2> QED
    BY <1>1, <1>2, <2>1 DEF Reached
<1> QED
  BY <1>1, <1>6, <1>7, CursorMoves

LEMMA Skips ==
  ASSUME Told, Matched, SkipVertex, UNCHANGED program
  PROVE  Matched'
<1>1. /\ AtVertex /\ UNCHANGED <<graph, synchronizations>> /\ NextVertex
      /\ IsCollective(v_desc) /\ DrawnElsewhere
  BY DEF SkipVertex
<1>2. SameCalls(graph, graph')
  <2>1. NotesOnly(graph, graph')
    BY <1>1 DEF NotesOnly
  <2> QED
    BY <2>1, NotesSame DEF Told
<1>3. /\ \A v \in SyncVertices : Through(v)' <=> Through(v) \/ v = v_desc
      /\ \A v \in SyncVertices : \A d : ~Reached(v, d)'
  BY <1>1, <1>2, GoesOn
<1>4. ~Leads(v_desc)
  <2>1. LeaderOf(vertex) = vertex.root
    BY <1>1 DEF DrawnElsewhere, LeaderOf, Drawer, IsCollective, vertex
  <2> QED
    BY <1>1, <2>1 DEF DrawnElsewhere, Leads, vertex
<1>5. \A v \in SyncVertices : Leads(v) => (Through(v)' <=> Through(v))
  BY <1>3, <1>4
<1>6. \A v, d \in SyncVertices : Leads(v) => (Reached(v, d)' <=> Reached(v, d))
  BY <1>3, <1>4 DEF Reached
<1> QED
  BY <1>1, <1>5, <1>6, CursorMoves

LEMMA PassesItself ==
  ASSUME Told, Matched, SkipMyself, UNCHANGED program
  PROVE  Matched'
<1>1. /\ AtVertex /\ UNCHANGED <<graph, synchronizations>>
      /\ cursor' = [cursor EXCEPT !.k = @ + 1]
      /\ vertex.members[cursor.k] = vertex.proc
      /\ cursor.k <= Len(vertex.members)
  BY DEF SkipMyself
<1>2. Loc' = Loc /\ cursor'.i = cursor.i /\ cursor'.k = cursor.k + 1 /\ cursor.k \in Nat
  BY <1>1, CursorIs DEF Told
<1>3. \A v : Through(v)' <=> Through(v)
  BY <1>1, <1>2 DEF Through
<1>4. AtVertex' /\ v_desc' = v_desc
  BY <1>1, <1>2 DEF AtVertex, v_desc
<1>5. ASSUME NEW v \in SyncVertices, NEW d \in SyncVertices,
             Leads(v), ~Leads(d), Op(v) = Op(d)
      PROVE  Reached(v, d)' <=> Reached(v, d)
  <2>1. graph[d].proc # graph[v].proc
    BY <1>5, SameLeader DEF Leads, Told
  <2>2. \A n \in DOMAIN graph[v].members : n < cursor.k + 1 <=> n < cursor.k \/ n = cursor.k
    BY <1>2, MembersAre DEF Told
  <2>3. v = v_desc => graph[v].members[cursor.k] # graph[d].proc
    BY <1>1, <2>1 DEF vertex
  <2>4. IsCollective(v)' <=> IsCollective(v)
    BY <1>1 DEF IsCollective
  <2>5. Reached(v, d)' <=>
          /\ v = v_desc /\ IsCollective(v)
          /\ \E n \in DOMAIN graph[v].members :
               n < cursor.k + 1 /\ graph[v].members[n] = graph[d].proc
    BY <1>1, <1>2, <1>4, <2>4 DEF Reached
  <2> QED
    BY <1>1, <2>2, <2>3, <2>5 DEF Reached
<1> QED
  BY <1>1, <1>3, <1>5, CursorMoves

RootAt(g, w, x) == [g EXCEPT ![w].root_event = x]

LEMMA RootEvent ==
  ASSUME NEW g, IsSequence(g), NEW d \in DOMAIN g, "root_event" \in DOMAIN g[d], NEW w, NEW x
  PROVE  /\ RootAt(g, w, x)[d].root_event = IF d = w THEN x ELSE g[d].root_event
         /\ "root_event" \in DOMAIN RootAt(g, w, x)[d]
         /\ IsSequence(RootAt(g, w, x))
         /\ d \in DOMAIN RootAt(g, w, x)
<1>1. PICK r : r = [g[w] EXCEPT !.root_event = x]
  OBVIOUS
<1>2. RootAt(g, w, x) = [g EXCEPT ![w] = r]
  BY <1>1 DEF RootAt
<1>3. /\ IsSequence([g EXCEPT ![w] = r]) /\ DOMAIN [g EXCEPT ![w] = r] = DOMAIN g
      /\ [g EXCEPT ![w] = r][d] = IF d = w THEN r ELSE g[d]
  BY ExceptFacts
<1>4. d = w => r.root_event = x /\ "root_event" \in DOMAIN r
  BY <1>1
<1> QED
  BY <1>2, <1>3, <1>4

LEMMA RootEvents ==
  ASSUME NEW g, IsSequence(g), NEW d \in DOMAIN g, "root_event" \in DOMAIN g[d],
         NEW v, NEW w, NEW x
  PROVE  RootAt(RootAt(g, w, x), v, x)[d].root_event =
           IF d = w \/ d = v THEN x ELSE g[d].root_event
<1>1. PICK h : h = RootAt(g, w, x)
  OBVIOUS
<1>2. /\ h[d].root_event = (IF d = w THEN x ELSE g[d].root_event)
      /\ "root_event" \in DOMAIN h[d] /\ IsSequence(h) /\ d \in DOMAIN h
  BY <1>1, RootEvent
<1>3. RootAt(h, v, x)[d].root_event = IF d = v THEN x ELSE h[d].root_event
  BY <1>2, RootEvent
<1> QED
  BY <1>1, <1>2, <1>3

LEMMA HasRootEvent ==
  ASSUME IInv, NotesInv, NEW d \in SyncVertices
  PROVE  IsSequence(graph) /\ d \in DOMAIN graph /\ "root_event" \in DOMAIN graph[d]
BY DEF IInv, GraphInv, SyncVertices, NotesInv, Noted, SyncFields

LEMMA LeavesDeque ==
  ASSUME Told, NEW q \in Procs, NEW n, Takes(q, n),
         SameCalls(graph, graph'), DOMAIN graph' = DOMAIN graph, UNCHANGED program
  PROVE  /\ synchronizations'[Loc] = synchronizations[Loc]
         /\ \A d \in SyncVertices : InDeque(d)' <=> InDeque(d) /\ d # synchronizations[q][n]
<1>1. /\ Range(synchronizations'[q]) = Range(synchronizations[q]) \ {synchronizations[q][n]}
      /\ \A p \in Procs : p # q => synchronizations'[p] = synchronizations[p]
  BY Taken DEF Told
<1>2. Loc \in Procs /\ q # Loc
  BY DescFacts DEF Takes
<1>3. ASSUME NEW d \in SyncVertices
      PROVE  InDeque(d)' <=> InDeque(d) /\ d # synchronizations[q][n]
  <2>1. graph'[d].proc = graph[d].proc /\ graph[d].proc \in Procs
    BY CallsStay, SyncFacts DEF Told
  <2>2. synchronizations[q][n] \in SyncsOf(q)
    BY DequeFacts DEF Told, Takes
  <2>3. graph[synchronizations[q][n]].proc = q
    BY <2>2 DEF SyncsOf, OwnVertices
  <2> QED
    BY <1>1, <2>1, <2>3 DEF InDeque
<1> QED
  BY <1>1, <1>2, <1>3

LEMMA RootsStay ==
  ASSUME Told, MatchingNext
  PROVE  SameCalls(graph, graph') /\ DOMAIN graph' = DOMAIN graph
<1>1. RootsOnly(graph, graph')
  BY MatchRoots DEF Told
<1>2. NotesOnly(graph, graph')
  BY <1>1 DEF RootsOnly, NotesOnly
<1> QED
  BY <1>2, NotesSame DEF NotesOnly, Told

LEMMA ConnectsMember ==
  ASSUME Told, Matched, ConnectMember, UNCHANGED program
  PROVE  Matched' /\ status' = "matching" /\ \E q \in Procs : \E n :
           /\ Takes(q, n) /\ Leads(v_desc) /\ ~Leads(synchronizations[q][n])
           /\ synchronizations[q][n] \in SyncVertices
           /\ Op(synchronizations[q][n]) = Op(v_desc)
<1>1. /\ AtVertex /\ IsCollective(v_desc) /\ ~DrawnElsewhere /\ status = "matching"
      /\ cursor.k <= Len(vertex.members) /\ vertex.members[cursor.k] # vertex.proc
  BY DEF ConnectMember, Matching
<1>2. PICK q : q = vertex.members[cursor.k]
  OBVIOUS
<1>3. /\ v_desc \in SyncVertices /\ Loc \in Procs /\ graph[v_desc].proc = Loc /\ q # Loc
  BY <1>1, <1>2, DescFacts DEF vertex
<1>4. cursor.k \in DOMAIN vertex.members /\ cursor.k \in Nat
  BY <1>1, <1>3, CursorIs, MembersAre DEF Told, vertex
<1>5. PICK n, w : n = First(CollectivesOf(q)) /\ w = synchronizations[q][n]
  OBVIOUS
<1>6. /\ q \in Procs /\ CollectivesOf(q) # {} /\ n \in DOMAIN synchronizations[q]
      /\ w \in SyncVertices /\ graph[w].proc = q /\ Op(w) = Op(v_desc) /\ ~Leads(w)
  BY <1>1, <1>2, <1>3, <1>4, <1>5, FindsMember
<1>7. /\ Connect(q, n) /\ cursor' = [cursor EXCEPT !.k = @ + 1] /\ status' = status
  BY <1>2, <1>5, <1>6 DEF ConnectMember
<1>8. /\ graph' = [graph EXCEPT ![w].root_event = v_desc] /\ Takes(q, n)
  BY <1>1, <1>3, <1>5, <1>6, <1>7 DEF Connect, AddEdge, Takes
<1>9. Leads(v_desc)
  BY <1>1, AtLeader
<1>10. SameCalls(graph, graph') /\ DOMAIN graph' = DOMAIN graph
  BY RootsStay DEF MatchingNext
<1>11. /\ SyncVertices' = SyncVertices
       /\ \A d \in SyncVertices :
            /\ graph'[d].proc = graph[d].proc /\ graph'[d].members = graph[d].members
            /\ graph'[d].remote = graph[d].remote
            /\ IsCollective(d)' <=> IsCollective(d)
            /\ Leads(d)' <=> Leads(d)
            /\ Op(d)' = Op(d)
            /\ graph'[d].root_event = (IF d = w THEN v_desc ELSE graph[d].root_event)
  <2>1. /\ SyncVertices' = SyncVertices
        /\ \A d \in SyncVertices :
             /\ graph'[d].proc = graph[d].proc /\ graph'[d].members = graph[d].members
             /\ graph'[d].remote = graph[d].remote
             /\ IsCollective(d)' <=> IsCollective(d)
             /\ Leads(d)' <=> Leads(d)
             /\ Op(d)' = Op(d)
    BY <1>10, CallsStay DEF Told
  <2>2. ASSUME NEW d \in SyncVertices
        PROVE  graph'[d].root_event = (IF d = w THEN v_desc ELSE graph[d].root_event)
    <3>1. PICK x : x = v_desc
      OBVIOUS
    <3>2. graph' = RootAt(graph, w, x)
      BY <1>8, <3>1 DEF RootAt
    <3>3. graph'[d].root_event = (IF d = w THEN x ELSE graph[d].root_event)
      BY <3>2, HasRootEvent, RootEvent DEF Told
    <3> QED
      BY <3>1, <3>3
  <2> QED
    BY <2>1, <2>2
<1>12. /\ synchronizations'[Loc] = synchronizations[Loc]
       /\ \A d \in SyncVertices : InDeque(d)' <=> InDeque(d) /\ d # w
  <2>1. /\ synchronizations'[Loc] = synchronizations[Loc]
        /\ \A d \in SyncVertices : InDeque(d)' <=> InDeque(d) /\ d # synchronizations[q][n]
    BY <1>6, <1>8, <1>10, LeavesDeque
  <2> QED
    BY <1>5, <2>1
<1>13. Loc' = Loc /\ cursor'.i = cursor.i /\ cursor'.k = cursor.k + 1
  BY <1>7, CursorIs DEF Told
<1>14. /\ AtVertex' /\ v_desc' = v_desc
       /\ \A v \in SyncVertices : Through(v)' <=> Through(v)
  BY <1>1, <1>11, <1>12, <1>13 DEF AtVertex, v_desc, Through
<1>15. ASSUME NEW v \in SyncVertices, NEW d \in SyncVertices
       PROVE  Reached(v, d)' <=> Reached(v, d) \/ (v = v_desc /\ graph[d].proc = q)
  <2>1. \A m \in DOMAIN graph[v].members : m < cursor.k + 1 <=> m < cursor.k \/ m = cursor.k
    BY <1>4, MembersAre DEF Told
  <2>2. Reached(v, d)' <=>
          /\ v = v_desc /\ IsCollective(v)
          /\ \E m \in DOMAIN graph[v].members :
               m < cursor.k + 1 /\ graph[v].members[m] = graph[d].proc
    BY <1>11, <1>13, <1>14 DEF Reached
  <2> QED
    BY <1>1, <1>2, <1>4, <2>1, <2>2 DEF Reached, vertex
<1>16. ASSUME NEW v \in SyncVertices, Leads(v) PROVE LeaderOK(v)'
  <2>1. v # w
    BY <1>6, <1>16
  <2> QED
    BY <1>11, <1>12, <1>14, <1>16, <2>1 DEF Matched, LeaderOK
<1>17. ASSUME NEW v \in SyncVertices, NEW d \in SyncVertices,
              Leads(v), ~Leads(d), Op(v) = Op(d)
       PROVE  FollowerOK(v, d)'
  <2>1. FollowerOK(v, d)
    BY <1>17 DEF Matched
  <2>2. v = v_desc => (graph[d].proc = q <=> d = w)
    <3> SUFFICES ASSUME v = v_desc, graph[d].proc = q PROVE d = w
      BY <1>6
    <3>1. SameOp(w, d)
      BY <1>6, <1>17, VerticesAgree DEF Told
    <3>2. SameOp(w, v_desc)
      BY <1>3, <1>6, VerticesAgree DEF Told
    <3> QED
      BY <1>1, <1>6, <3>1, <3>2 DEF SameOp, ToItself
  <2>3. v # v_desc => d # w
    <3> SUFFICES ASSUME d = w PROVE v = v_desc
      OBVIOUS
    <3>1. Op(v) = Op(v_desc)
      BY <1>6, <1>17
    <3> QED
      BY <1>1, <1>3, <1>9, <1>17, <3>1, OneLeader DEF ToItself, Told
  <2>4. ~Through(v_desc)
    BY <1>1, DescFacts
  <2>5. CASE d = w
    <3>1. v = v_desc /\ Reached(v, d)'
      BY <1>15, <2>2, <2>3, <2>5
    <3> QED
      BY <1>11, <1>12, <2>5, <3>1 DEF FollowerOK
  <2>6. CASE d # w
    <3>1. Reached(v, d)' <=> Reached(v, d)
      BY <1>15, <2>2, <2>6
    <3> QED
      BY <1>11, <1>12, <1>14, <2>1, <2>6, <3>1 DEF FollowerOK
  <2> QED
    BY <2>5, <2>6
<1>18. Matched'
  BY <1>11, <1>16, <1>17 DEF Matched
<1> QED
  BY <1>1, <1>5, <1>6, <1>7, <1>8, <1>9, <1>18

LEMMA FinishesCollective ==
  ASSUME Told, Matched, FinishCollective, UNCHANGED program
  PROVE  Matched'
<1>1. /\ AtVertex /\ IsCollective(v_desc) /\ ~DrawnElsewhere
      /\ cursor.k > Len(vertex.members) /\ NextVertex /\ UNCHANGED synchronizations
      /\ graph' = [graph EXCEPT ![v_desc].root_event = v_desc]
  BY DEF FinishCollective
<1>2. v_desc \in SyncVertices /\ ~Through(v_desc) /\ Leads(v_desc)
  BY <1>1, DescFacts, AtLeader
<1>3. SameCalls(graph, graph') /\ DOMAIN graph' = DOMAIN graph
  BY RootsStay DEF MatchingNext
<1>4. /\ SyncVertices' = SyncVertices
      /\ \A d \in SyncVertices :
           /\ graph'[d].proc = graph[d].proc /\ graph'[d].members = graph[d].members
           /\ graph'[d].remote = graph[d].remote
           /\ IsCollective(d)' <=> IsCollective(d)
           /\ Leads(d)' <=> Leads(d)
           /\ Op(d)' = Op(d)
           /\ graph'[d].root_event = (IF d = v_desc THEN v_desc ELSE graph[d].root_event)
           /\ InDeque(d)' <=> InDeque(d)
  <2>1. /\ SyncVertices' = SyncVertices
        /\ \A d \in SyncVertices :
             /\ graph'[d].proc = graph[d].proc /\ graph'[d].members = graph[d].members
             /\ graph'[d].remote = graph[d].remote
             /\ IsCollective(d)' <=> IsCollective(d)
             /\ Leads(d)' <=> Leads(d)
             /\ Op(d)' = Op(d)
    BY <1>3, CallsStay DEF Told
  <2>2. ASSUME NEW d \in SyncVertices
        PROVE  graph'[d].root_event = (IF d = v_desc THEN v_desc ELSE graph[d].root_event)
    <3>1. PICK x : x = v_desc
      OBVIOUS
    <3>2. graph' = RootAt(graph, x, x)
      BY <1>1, <3>1 DEF RootAt
    <3>3. graph'[d].root_event = (IF d = x THEN x ELSE graph[d].root_event)
      BY <3>2, HasRootEvent, RootEvent DEF Told
    <3> QED
      BY <3>1, <3>3
  <2>3. \A d \in SyncVertices : InDeque(d)' <=> InDeque(d)
    BY <1>1, <2>1 DEF InDeque
  <2> QED
    BY <2>1, <2>2, <2>3
<1>5. /\ \A v \in SyncVertices : Through(v)' <=> Through(v) \/ v = v_desc
      /\ \A v \in SyncVertices : \A d : ~Reached(v, d)'
  BY <1>1, <1>3, GoesOn
<1>6. ASSUME NEW v \in SyncVertices, Leads(v) PROVE LeaderOK(v)'
  BY <1>1, <1>4, <1>5, <1>6, DescFacts DEF Matched, LeaderOK
<1>7. ASSUME NEW v \in SyncVertices, NEW d \in SyncVertices,
             Leads(v), ~Leads(d), Op(v) = Op(d)
      PROVE  FollowerOK(v, d)'
  <2>1. FollowerOK(v, d) /\ d # v_desc
    BY <1>2, <1>7 DEF Matched
  <2>2. CASE v = v_desc
    <3>1. SameOp(v, d) /\ IsCollective(d)
      BY <1>1, <1>7, <2>2, VerticesAgree DEF Told, SameOp
    <3>2. graph[d].proc \in MembersOf(graph[v].members)
      BY <1>1, <2>2, <3>1, PartnerVertices DEF Told, SameOp
    <3>3. PICK m \in DOMAIN graph[v].members : graph[v].members[m] = graph[d].proc
      BY <3>2 DEF MembersOf
    <3>4. m < cursor.k
      <4>1. m \in 1 .. Len(graph[v].members) /\ Len(graph[v].members) \in Nat
        BY MembersAre DEF Told
      <4>2. Len(graph[v].members) < cursor.k /\ cursor.k \in Nat
        BY <1>1, <2>2, CursorIs, <4>1 DEF vertex, Told
      <4> QED
        BY <4>1, <4>2
    <3>5. Reached(v, d)
      BY <1>1, <2>2, <3>3, <3>4 DEF Reached
    <3> QED
      BY <1>4, <1>5, <2>1, <2>2, <3>5 DEF FollowerOK
  <2>3. CASE v # v_desc
    <3>1. ~Reached(v, d)
      BY <2>3 DEF Reached
    <3> QED
      BY <1>4, <1>5, <2>1, <2>3, <3>1 DEF FollowerOK
  <2> QED
    BY <2>2, <2>3
<1> QED
  BY <1>4, <1>6, <1>7 DEF Matched

LEMMA ConnectsPeer ==
  ASSUME Told, Matched, ConnectPeer, UNCHANGED program
  PROVE  \/ status' = "undefined" /\ UNCHANGED <<graph, edges, synchronizations, cursor>>
         \/ /\ Matched' /\ status' = "matching"
            /\ \E q \in Procs : \E n :
                 /\ Takes(q, n) /\ Leads(v_desc) /\ ~Leads(synchronizations[q][n])
                 /\ synchronizations[q][n] \in SyncVertices
                 /\ Op(synchronizations[q][n]) = Op(v_desc)
<1>1. /\ AtVertex /\ ~IsCollective(v_desc) /\ status = "matching"
  BY DEF ConnectPeer, Matching
<1>2. PICK q, n, w : /\ q = vertex.remote /\ n = First(PeersOf(q))
                     /\ w = synchronizations[q][n]
  OBVIOUS
<1>3. /\ v_desc \in SyncVertices /\ Loc \in Procs /\ vertex.proc = Loc
      /\ graph[v_desc].proc = Loc /\ graph[v_desc].remote = q /\ vertex.remote = q
      /\ ~Through(v_desc) /\ Leads(v_desc) /\ InDeque(v_desc)
  BY <1>1, <1>2, DescFacts, AtLeader DEF vertex
<1>4. CASE q = Loc
  <2>1. PeersOf(q) # {}
    <3>1. /\ cursor.i \in DOMAIN synchronizations[Loc]
      BY <1>1, DescFacts
    <3>2. graph[v_desc].comm_kind = "p2p"
      BY <1>1, <1>3 DEF SyncVertices, Told, NotesInv, Noted, NotesEvent, IsCollective
    <3>3. cursor.i \in PeersOf(q)
      BY <1>3, <1>4, <3>1, <3>2 DEF PeersOf, v_desc
    <3> QED
      BY <3>3
  <2> QED
    BY <1>2, <1>3, <1>4, <2>1 DEF ConnectPeer
<1>5. CASE q # Loc
  <2>1. /\ q \in Procs /\ PeersOf(q) # {} /\ n \in DOMAIN synchronizations[q]
        /\ w \in SyncVertices /\ graph[w].proc = q /\ Op(w) = Op(v_desc) /\ ~Leads(w)
    BY <1>1, <1>2, <1>5, FindsPeer
  <2>2. /\ graph' = [graph EXCEPT ![w].root_event = v_desc, ![v_desc].root_event = v_desc]
        /\ NextVertex /\ status' = status /\ Takes(q, n)
    BY <1>1, <1>2, <1>3, <1>5, <2>1 DEF ConnectPeer, AddEdge, Takes
  <2>3. SameCalls(graph, graph') /\ DOMAIN graph' = DOMAIN graph
    BY RootsStay DEF MatchingNext
  <2>4. /\ SyncVertices' = SyncVertices
        /\ \A d \in SyncVertices :
             /\ graph'[d].proc = graph[d].proc /\ graph'[d].remote = graph[d].remote
             /\ IsCollective(d)' <=> IsCollective(d)
             /\ Leads(d)' <=> Leads(d)
             /\ Op(d)' = Op(d)
             /\ graph'[d].root_event =
                  (IF d = w \/ d = v_desc THEN v_desc ELSE graph[d].root_event)
    <3>1. /\ SyncVertices' = SyncVertices
          /\ \A d \in SyncVertices :
               /\ graph'[d].proc = graph[d].proc /\ graph'[d].remote = graph[d].remote
               /\ IsCollective(d)' <=> IsCollective(d)
               /\ Leads(d)' <=> Leads(d)
               /\ Op(d)' = Op(d)
      BY <2>3, CallsStay DEF Told
    <3>2. ASSUME NEW d \in SyncVertices
          PROVE  graph'[d].root_event =
                   (IF d = w \/ d = v_desc THEN v_desc ELSE graph[d].root_event)
      <4>1. PICK x : x = v_desc
        OBVIOUS
      <4>2. graph' = RootAt(RootAt(graph, w, x), x, x)
        BY <2>2, <4>1 DEF RootAt
      <4>3. graph'[d].root_event = (IF d = w \/ d = x THEN x ELSE graph[d].root_event)
        BY <4>2, HasRootEvent, RootEvents DEF Told
      <4> QED
        BY <4>1, <4>3
    <3> QED
      BY <3>1, <3>2
  <2>5. /\ synchronizations'[Loc] = synchronizations[Loc]
        /\ \A d \in SyncVertices : InDeque(d)' <=> InDeque(d) /\ d # w
    <3>1. /\ synchronizations'[Loc] = synchronizations[Loc]
          /\ \A d \in SyncVertices : InDeque(d)' <=> InDeque(d) /\ d # synchronizations[q][n]
      BY <2>1, <2>2, <2>3, LeavesDeque
    <3> QED
      BY <1>2, <3>1
  <2>6. /\ \A v \in SyncVertices : Through(v)' <=> Through(v) \/ v = v_desc
        /\ \A v \in SyncVertices : \A d : ~Reached(v, d)'
    BY <1>1, <2>2, <2>3, <2>5, GoesOn
  <2>7. ASSUME NEW v \in SyncVertices, Leads(v) PROVE LeaderOK(v)'
    <3>1. v # w
      BY <2>1, <2>7
    <3>2. LeaderOK(v)
      BY <2>7 DEF Matched
    <3> QED
      BY <1>3, <1>5, <2>4, <2>5, <2>6, <3>1, <3>2 DEF LeaderOK
  <2>8. ASSUME NEW v \in SyncVertices, NEW d \in SyncVertices,
               Leads(v), ~Leads(d), Op(v) = Op(d)
        PROVE  FollowerOK(v, d)'
    <3>1. FollowerOK(v, d) /\ d # v_desc /\ ~Reached(v, d)
      BY <1>1, <1>3, <2>8 DEF Matched, Reached
    <3>2. v = v_desc => d = w
      <4> SUFFICES ASSUME v = v_desc PROVE d = w
        OBVIOUS
      <4>1. SameOp(v_desc, d) /\ SameOp(w, d)
        BY <2>1, <2>8, VerticesAgree DEF Told
      <4>2. SameOp(v_desc, w)
        BY <1>3, <2>1, VerticesAgree DEF Told
      <4>3. graph[d].proc = q /\ graph[w].remote = Loc /\ ~IsCollective(w)
        BY <1>1, <1>3, <2>1, <3>1, <4>1, <4>2 DEF SameOp
      <4> QED
        BY <1>5, <2>1, <4>1, <4>3 DEF SameOp, ToItself
    <3>3. d = w => v = v_desc
      <4> SUFFICES ASSUME d = w PROVE v = v_desc
        OBVIOUS
      <4>1. Op(v_desc) = Op(v)
        BY <2>1, <2>8
      <4> QED
        BY <1>3, <1>5, <2>8, <4>1, OneLeader DEF ToItself, Told
    <3> QED
      BY <2>4, <2>5, <2>6, <3>1, <3>2, <3>3 DEF FollowerOK
  <2>9. Matched'
    BY <2>4, <2>7, <2>8 DEF Matched
  <2> QED
    BY <1>1, <1>2, <1>3, <2>1, <2>2, <2>9
<1> QED
  BY <1>4, <1>5

-----------------------------------------------------------------------------
(***************************************************************************)
(* The inductive invariant of the matching                                 *)
(***************************************************************************)
LEMMA CrossKept ==
  ASSUME IInv, NotesInv, CrossEdges, UNCHANGED <<program, edges>>,
         SameCalls(graph, graph'), DOMAIN graph' = DOMAIN graph
  PROVE  CrossEdges'
<1>1. /\ SyncVertices' = SyncVertices
      /\ \A d \in SyncVertices : /\ Leads(d)' <=> Leads(d)
                                 /\ Op(d)' = Op(d)
  BY CallsStay
<1>2. \A d \in DOMAIN graph : /\ graph'[d].type = graph[d].type
                              /\ graph[d].type # "synthetic" => graph'[d].proc = graph[d].proc
  BY DEF SameCalls, SameCall
<1> QED
  BY <1>1, <1>2 DEF CrossEdges

LEMMA CrossTaken ==
  ASSUME IInv, NotesInv, CrossEdges, UNCHANGED program,
         SameCalls(graph, graph'), DOMAIN graph' = DOMAIN graph,
         NEW q \in Procs, NEW n, Takes(q, n), NEW w, w = synchronizations[q][n],
         Separable(program) => Leads(v_desc) /\ ~Leads(w) /\ Op(w) = Op(v_desc)
  PROVE  CrossEdges'
<1>1. /\ SyncVertices' = SyncVertices
      /\ \A d \in SyncVertices : /\ Leads(d)' <=> Leads(d)
                                 /\ Op(d)' = Op(d)
  BY CallsStay
<1>2. \A d \in DOMAIN graph : /\ graph'[d].type = graph[d].type
                              /\ graph[d].type # "synthetic" => graph'[d].proc = graph[d].proc
  BY DEF SameCalls, SameCall
<1>3. Range(edges') = Range(edges) \cup {<<v_desc, w>>}
  BY SequenceOver, RangeAppend DEF IInv, EdgesInv, Takes
<1>4. w \in SyncVertices
  <2>1. w \in SyncsOf(q)
    BY DequeFacts DEF Takes
  <2> QED
    BY <2>1, Timely
<1>5. v_desc \in SyncVertices
  <2>1. v_desc \in SyncsOf(Loc) /\ Loc \in Procs
    BY VertexFacts DEF Takes
  <2> QED
    BY <2>1, Timely
<1> HIDE DEF Leads, Op
<1> QED
  BY <1>1, <1>2, <1>3, <1>4, <1>5 DEF CrossEdges

LEMMA MatchedMatch ==
  ASSUME IInv, NotesInv, MatchedInv, MatchingNext, UNCHANGED <<program, pos>>
  PROVE  MatchedInv'
<1>1. SameCalls(graph, graph') /\ DOMAIN graph' = DOMAIN graph
  <2>1. RootsOnly(graph, graph')
    BY MatchRoots
  <2>2. NotesOnly(graph, graph')
    BY <2>1 DEF RootsOnly, NotesOnly
  <2> QED
    BY <2>2, NotesSame DEF NotesOnly
<1>2. status = "matching"
  BY MatchShape DEF Matching
<1>3. ASSUME ~Separable(program) PROVE CrossEdges'
  <2>1. CASE UNCHANGED edges
    BY <1>1, <2>1, CrossKept DEF MatchedInv
  <2>2. CASE \E q \in Procs : \E n : Takes(q, n)
    BY <1>1, <1>3, <2>2, CrossTaken DEF MatchedInv
  <2> QED
    BY <2>1, <2>2, MatchShape
<1>4. CASE ~Separable(program)
  BY <1>3, <1>4 DEF MatchedInv
<1>5. CASE Separable(program)
  <2>1. Told /\ Matched
    BY <1>2, <1>5 DEF Told, MatchedInv, Ended
  <2>2. ASSUME Matched', status' = "matching", UNCHANGED edges
        PROVE  MatchedInv'
    BY <1>1, <2>2, CrossKept DEF MatchedInv
  <2>3. ASSUME Matched', status' = "matching", NEW q \in Procs, NEW n,
               /\ Takes(q, n) /\ Leads(v_desc) /\ ~Leads(synchronizations[q][n])
               /\ synchronizations[q][n] \in SyncVertices
               /\ Op(synchronizations[q][n]) = Op(v_desc)
        PROVE  MatchedInv'
    <3>1. PICK w : w = synchronizations[q][n]
      OBVIOUS
    <3>2. Takes(q, n) /\ Leads(v_desc) /\ ~Leads(w) /\ Op(w) = Op(v_desc)
      BY <2>3, <3>1
    <3>3. CrossEdges'
      BY <1>1, <3>1, <3>2, CrossTaken DEF MatchedInv
    <3> QED
      BY <2>3, <3>3 DEF MatchedInv
  <2>4. CASE NextLocation
    BY <1>2, <2>1, <2>2, <2>4, MovesOn DEF NextLocation
  <2>5. CASE SkipVertex
    BY <1>2, <2>1, <2>2, <2>5, Skips DEF SkipVertex
  <2>6. CASE SkipMyself
    BY <1>2, <2>1, <2>2, <2>6, PassesItself DEF SkipMyself
  <2>7. CASE ConnectMember
    BY <2>1, <2>3, <2>7, ConnectsMember
  <2>8. CASE FinishCollective
    BY <1>2, <2>1, <2>2, <2>8, FinishesCollective DEF FinishCollective
  <2>9. CASE ConnectPeer
    <3>1. CASE status' = "undefined" /\ UNCHANGED <<graph, edges, synchronizations, cursor>>
      BY <1>1, <3>1, CrossKept DEF MatchedInv
    <3>2. CASE ~(status' = "undefined" /\ UNCHANGED <<graph, edges, synchronizations, cursor>>)
      BY <2>1, <2>3, <2>9, <3>2, ConnectsPeer
    <3> QED
      BY <3>1, <3>2
  <2>10. CASE set_graph_properties
    <3>1. /\ UNCHANGED <<graph, edges, synchronizations, cursor>>
          /\ ~AtVertex /\ Loc = NProcs - 1 /\ status' \in {"done", "aborted"}
      BY <2>10 DEF set_graph_properties
    <3>2. CrossEdges'
      BY <1>1, <3>1, CrossKept DEF MatchedInv
    <3>3. Matched'
      <4>1. \A v, d : /\ Through(v)' <=> Through(v)
                      /\ Reached(v, d)' <=> Reached(v, d)
        BY <3>1 DEF Through, Reached, AtVertex, v_desc, Loc, IsCollective
      <4> QED
        BY <2>1, <3>1, <4>1, CursorMoves
    <3>4. ~AtVertex' /\ Loc' = NProcs - 1
      BY <3>1 DEF AtVertex, Loc
    <3> QED
      BY <3>1, <3>2, <3>3, <3>4 DEF MatchedInv
  <2> QED
    BY <2>4, <2>5, <2>6, <2>7, <2>8, <2>9, <2>10 DEF MatchingNext
<1> QED
  BY <1>4, <1>5

LEMMA MatchedBegins ==
  ASSUME IInv, NotesInv, EventsDone, IInv', NotesInv'
  PROVE  MatchedInv'
<1>1. /\ UNCHANGED <<program, pos, edge_points, synchronizations, cursor>>
      /\ status = "events" /\ Reading /\ create_synthetic_end
  BY DEF EventsDone, Reading
<1>2. NoCross /\ cursor = FirstCursor
      /\ \A p \in Procs : Range(synchronizations[p]) = SyncsOf(p)
      /\ \A d \in SyncVertices : graph[d].root_event = NullVertex
  BY <1>1 DEF NotesInv
<1>3. CASE \E p \in Procs : edge_points[p] = <<>>
  BY <1>1, <1>2, <1>3 DEF create_synthetic_end, MatchedInv, CrossEdges, NoCross
<1>4. CASE ~\E p \in Procs : edge_points[p] = <<>>
  <2>1. PICK n : n = Len(graph) + 1
    OBVIOUS
  <2>2. /\ graph' = Append(graph, Synthetic("End")) /\ status' = "matching"
        /\ edges' = edges \o [m \in 1 .. NProcs |-> <<Head(edge_points[m - 1]), n>>]
    BY <1>1, <1>4, <2>1 DEF create_synthetic_end
  <2>3. NoCross'
    BY <1>2, <1>4, <2>1, <2>2, EndEdges
  <2>4. /\ DOMAIN graph' = DOMAIN graph \cup {n} /\ n \notin DOMAIN graph
        /\ graph'[n].type = "synthetic" /\ \A d \in DOMAIN graph : graph'[d] = graph[d]
    BY <2>1, <2>2, AppendFacts DEF IInv, GraphInv, Synthetic
  <2>5. SyncVertices' = SyncVertices
        /\ \A d \in SyncVertices : d \in DOMAIN graph /\ graph'[d] = graph[d]
    BY <2>4 DEF SyncVertices
  <2>6. /\ Loc' = 0 /\ cursor'.i = 1 /\ cursor'.k = 1
    BY <1>1, <1>2 DEF FirstCursor, Loc
  <2>7. \A m \in DOMAIN synchronizations'[0] : ~(m < 1)
    <3>1. 0 \in Procs
      BY NProcsAssumption DEF Procs
    <3>2. DOMAIN synchronizations[0] = 1 .. Len(synchronizations[0])
          /\ Len(synchronizations[0]) \in Nat
      BY <3>1, DequeFacts
    <3> QED
      BY <1>1, <3>2
  <2>8. ASSUME NEW v \in SyncVertices
        PROVE  ~Through(v)' /\ \A d : ~Reached(v, d)'
    <3>1. graph'[v] = graph[v]
      BY <2>5
    <3>2. ~(graph'[v].proc < 0)
      BY <3>1, SyncFacts, NProcsAssumption DEF Procs
    <3>3. \A m \in DOMAIN graph'[v].members : ~(m < 1)
      BY <3>1, MembersAre
    <3> QED
      BY <2>6, <2>7, <3>2, <3>3 DEF Through, Reached
  <2>9. ASSUME NEW d \in SyncVertices
        PROVE  InDeque(d)' /\ graph'[d].root_event = NullVertex
    <3>1. d \in SyncsOf(graph[d].proc) /\ graph[d].proc \in Procs /\ graph'[d] = graph[d]
      BY <2>5, SyncFacts
    <3> QED
      BY <1>1, <1>2, <3>1 DEF InDeque
  <2>10. Matched'
    BY <2>5, <2>8, <2>9 DEF Matched, LeaderOK, FollowerOK
  <2>11. CrossEdges'
    BY <2>3 DEF CrossEdges, NoCross
  <2> QED
    BY <2>2, <2>10, <2>11 DEF MatchedInv
<1> QED
  BY <1>3, <1>4

LEMMA MatchedStep ==
  ASSUME IInv, NotesInv, MatchedInv, [Next]_vars, IInv', NotesInv'
  PROVE  MatchedInv'
<1>1. ASSUME Reading' PROVE MatchedInv'
  BY <1>1 DEF NotesInv, NoCross, MatchedInv, CrossEdges, Reading
<1>2. CASE DefinitionsNext
  BY <1>1, <1>2 DEF DefinitionsNext, RegisterLocation, DefinitionsDone, Reading
<1>3. CASE EventNext
  <2>1. PICK p \in Procs : Handlers(p)
    BY <1>3 DEF EventNext, Handlers
  <2>2. PICK kinds : Reads(p, kinds)
    BY <2>1, EventShape
  <2>3. Reading /\ UNCHANGED program /\ status = "events"
    BY <2>2 DEF Reads, Reading
  <2>4. CASE UNCHANGED status
    BY <1>1, <2>3, <2>4 DEF Reading
  <2>5. CASE Quiet(p) /\ status' \in {"events", "aborted"}
    <3>1. SameCalls(graph, graph') /\ DOMAIN graph' = DOMAIN graph /\ UNCHANGED edges
      BY <2>5, DurationsNote, NotesSame DEF Quiet, DurationsOnly
    <3>2. CrossEdges'
      BY <2>3, <3>1, CrossKept DEF MatchedInv
    <3> QED
      BY <2>5, <3>2 DEF MatchedInv
  <2> QED
    BY <2>1, <2>4, <2>5, EventShape
<1>4. CASE EventsDone
  BY <1>4, MatchedBegins
<1>5. CASE Match
  BY <1>5, MatchedMatch DEF Match
<1>6. CASE UNCHANGED vars
  <2>1. /\ UNCHANGED <<graph, edges, synchronizations, cursor, status, program>>
    BY <1>6 DEF vars
  <2> QED
    BY <2>1 DEF MatchedInv, CrossEdges, Matched, LeaderOK, FollowerOK, Through, Reached,
       InDeque, Leads, Op, SyncVertices, AtVertex, v_desc, Loc, IsCollective
<1> QED
  BY <1>2, <1>3, <1>4, <1>5, <1>6 DEF Next

(***************************************************************************)
(* At the end every leader has been through.                               *)
(***************************************************************************)
(***************************************************************************)
(* At the end every vertex has got the vertex that draws the edges of its  *)
(* operation as root event.                                                *)
(***************************************************************************)
LEMMA LeaderDone ==
  ASSUME IInv, NotesInv, MatchedInv, status = "done", Separable(program),
         NEW v \in SyncVertices, Leads(v)
  PROVE  graph[v].root_event = v /\ ~ToItself(v) /\ Through(v)
<1>1. Told /\ Matched /\ Loc = NProcs - 1 /\ ~AtVertex
  BY DEF Told, MatchedInv, Ended
<1>2. LeaderOK(v)
  BY <1>1 DEF Matched
<1>3. Through(v)
  <2>1. graph[v].proc \in Procs
    BY SyncFacts
  <2>2. CASE graph[v].proc < Loc
    BY <2>2 DEF Through
  <2>3. CASE graph[v].proc = Loc
    <3>1. PICK n \in DOMAIN synchronizations[Loc] : synchronizations[Loc][n] = v
      BY <1>2, <2>3 DEF LeaderOK, InDeque, Range
    <3>2. n \in 1 .. Len(synchronizations[Loc]) /\ Len(synchronizations[Loc]) \in Nat
      BY <2>1, <2>3, DequeFacts
    <3>3. cursor.i \in Nat /\ ~(cursor.i <= Len(synchronizations[Loc]))
      BY <1>1, CursorIs DEF AtVertex
    <3>4. n < cursor.i
      BY <3>2, <3>3
    <3> QED
      BY <2>3, <3>1, <3>4 DEF Through
  <2> QED
    BY <1>1, <2>1, <2>2, <2>3, NProcsAssumption DEF Procs
<1> QED
  BY <1>2, <1>3 DEF LeaderOK, ToItself

LEMMA RootLeads ==
  ASSUME IInv, NotesInv, MatchedInv, status = "done", Separable(program),
         NEW d \in SyncVertices
  PROVE  \E v \in SyncVertices : Leads(v) /\ Op(v) = Op(d) /\ graph[d].root_event = v
<1>1. Told /\ Matched
  BY DEF Told, MatchedInv, Ended
<1>2. PICK v \in SyncVertices : Leads(v) /\ Op(v) = Op(d)
  BY <1>1, LeaderExists
<1>3. CASE Leads(d)
  BY <1>3, LeaderDone
<1>4. CASE ~Leads(d)
  BY <1>1, <1>2, <1>4, LeaderDone DEF Matched, FollowerOK
<1> QED
  BY <1>2, <1>3, <1>4

LEMMA MatchedAtEnd ==
  ASSUME IInv, NotesInv, MatchedInv
  PROVE  MatchedAsExecuted
<1> SUFFICES ASSUME status = "done", Separable(program)
    PROVE  /\ RootEventsSet
           /\ \A d, e \in SyncVertices :
                graph[d].root_event = graph[e].root_event <=> Op(d) = Op(e)
  BY DEF MatchedAsExecuted
<1>1. Told
  BY DEF Told, Ended
<1>2. ASSUME NEW d \in SyncVertices, NEW e \in SyncVertices
      PROVE  graph[d].root_event = graph[e].root_event <=> Op(d) = Op(e)
  <2>1. PICK v \in SyncVertices : Leads(v) /\ Op(v) = Op(d) /\ graph[d].root_event = v
    BY RootLeads
  <2>2. PICK w \in SyncVertices : Leads(w) /\ Op(w) = Op(e) /\ graph[e].root_event = w
    BY RootLeads
  <2>3. Op(v) = Op(w) => v = w
    BY <1>1, <2>1, <2>2, LeaderDone, OneLeader
  <2> QED
    BY <2>1, <2>2, <2>3
<1>3. RootEventsSet
  <2>1. \A v \in SyncVertices : v # NullVertex
    BY SyncFacts DEF NullVertex
  <2> QED
    BY <2>1, RootLeads DEF RootEventsSet
<1> QED
  BY <1>2, <1>3

LEMMA SyncInitially ==
  ASSUME Init
  PROVE  IInv /\ NotesInv /\ MatchedInv
<1>1. status = "definitions" /\ edges = <<>>
  BY DEF Init
<1>2. Range(<<>>) = {}
  BY DEF Range
<1> QED
  BY <1>1, <1>2, Initially, NotesInitially DEF MatchedInv, CrossEdges

LEMMA SyncInductive ==
  ASSUME IInv, NotesInv, MatchedInv, [Next]_vars
  PROVE  IInv' /\ NotesInv' /\ MatchedInv'
<1>1. IInv'
  BY Inductive
<1>2. NotesInv'
  BY NotesStep
<1> QED
  BY <1>1, <1>2, MatchedStep

LEMMA ProgramStays ==
  ASSUME [Next]_vars
  PROVE  UNCHANGED program
<1>1. CASE EventNext
  BY <1>1 DEF EventNext, Reads, Enter, Leave, OperationBegin, OperationComplete, CreateHandle,
     DeleteFile, DestroyHandle, DuplicateHandle, Seek, CollectiveEnd, PeerToPeer, Other
<1>2. CASE ~EventNext
  BY <1>2 DEF Next, vars, DefinitionsNext, RegisterLocation, DefinitionsDone, EventsDone, Match
<1> QED
  BY <1>1, <1>2

(***************************************************************************)
(* Once the builder is done, the vertices of an operation share a root     *)
(* event, and vertices of different operations do not, whatever the number *)
(* of processes, the communicators and the order of reading: the two       *)
(* searches of events_done (otf2_io_graph_builder.cpp) take the right      *)
(* partners.                                                               *)
(***************************************************************************)
THEOREM Synchronised == Spec => []MatchedAsExecuted
<1>1. Init => IInv /\ NotesInv /\ MatchedInv
  BY SyncInitially
<1>2. IInv /\ NotesInv /\ MatchedInv /\ [Next]_vars => IInv' /\ NotesInv' /\ MatchedInv'
  BY SyncInductive
<1>3. IInv /\ NotesInv /\ MatchedInv => MatchedAsExecuted
  BY MatchedAtEnd
<1> QED
  BY <1>1, <1>2, <1>3, PTL DEF Spec
-----------------------------------------------------------------------------
(***************************************************************************)
(* What keeps the builder from failing on sound traces: every region takes *)
(* time, so that leaving one that is not of I/O sets the totals apart, and *)
(* a process that read an event of the right kind has a vertex.            *)
(***************************************************************************)
IsTotals(t) == t = [total |-> t.total, io |-> t.io, metadata |-> t.metadata]

OutsideIo(e) == e.kind = "leave" /\ e.role = "other"

TimesInv ==
  /\ times.total \in Nat /\ times.io \in Nat /\ times.metadata \in Nat
  /\ times.io + times.metadata <= times.total
  /\ \A p \in Procs : \A k \in DOMAIN call_stack[p] : call_stack[p][k].enter <= pos[p]
  /\ \A p \in Procs : \A i \in DOMAIN program[p] :
       i <= pos[p] /\ OutsideIo(program[p][i])
         => times.io < times.total /\ times.metadata < times.total

MakesVertex(e) ==
  \/ e.kind \in PeerKinds \cup {"io_duplicate_handle", "io_delete_file"}
  \/ e.kind = "mpi_collective_end" /\ e.members # <<>>
  \/ /\ e.kind \in {"io_create_handle", "io_operation_complete", "io_seek"}
     /\ TrackedHandle(e.handle)

MadeInv ==
  status # "aborted" =>
    \A p \in Procs : \A i \in DOMAIN program[p] :
      i <= pos[p] /\ MakesVertex(program[p][i]) => OwnVertices(p) # {}

SoundInv ==
  /\ TimesInv
  /\ MadeInv
  /\ Sound(program) => status \notin Failed

LEMMA ReadSoFar ==
  ASSUME IInv, NEW p \in Procs, NEW kinds, Reads(p, kinds), NEW q \in Procs,
         NEW i \in DOMAIN program[q], i <= pos'[q]
  PROVE  i <= pos[q] \/ (q = p /\ i = Now(p) /\ program[q][i] = evt(p))
<1>1. /\ DOMAIN pos = Procs /\ pos' = [pos EXCEPT ![p] = Now(p)]
      /\ Now(p) = pos[p] + 1 /\ pos[p] \in Nat
  BY EventFacts
<1>2. CASE q # p
  BY <1>1, <1>2
<1>3. CASE q = p
  <2>1. pos'[p] = pos[p] + 1
    BY <1>1
  <2>2. i \in Nat
    <3>1. IsProgram(program)
      BY EventFacts
    <3>2. program[q] \in Seq({program[q][j] : j \in DOMAIN program[q]})
      BY <3>1 DEF IsProgram, WellFormed
    <3> QED
      BY <3>2, LenProperties
  <2>3. i <= pos[p] \/ i = pos[p] + 1
    BY <1>1, <1>3, <2>1, <2>2
  <2> QED
    BY <1>1, <1>3, <2>3 DEF evt
<1> QED
  BY <1>2, <1>3

(***************************************************************************)
(* What the handlers do to the frames and the times.                       *)
(***************************************************************************)
FramesKept(p) ==
  /\ UNCHANGED times
  /\ \/ UNCHANGED call_stack
     \/ \E d : call_stack' = [call_stack EXCEPT ![p][1].vertex = d]
     \/ call_stack' = [call_stack EXCEPT ![p] = Append(@, Frame(Now(p)))]

LEMMA FramesShape ==
  ASSUME NEW p \in Procs, Handlers(p), ~Leave(p)
  PROVE  FramesKept(p) /\ evt(p).kind # "leave"
<1>1. ASSUME NEW v, AddVertex(p, v)
      PROVE  FramesKept(p)
  BY <1>1 DEF AddVertex, FramesKept
<1>2. ASSUME NEW name, NEW kind, NEW size, NEW offset, AddIoEvent(p, name, kind, size, offset)
      PROVE  FramesKept(p)
  BY <1>1, <1>2 DEF AddIoEvent
<1>3. ASSUME NEW v, AddSyncEvent(p, v)
      PROVE  FramesKept(p)
  BY <1>1, <1>3 DEF AddSyncEvent
<1>4. ASSUME Ignore \/ Abort
      PROVE  FramesKept(p)
  BY <1>4 DEF Ignore, Abort, locals, FramesKept
<1>5. ASSUME NEW name, Drop(p, name)
      PROVE  FramesKept(p)
  BY <1>2, <1>4, <1>5 DEF Drop
<1>6. CASE Enter(p)
  BY <1>6 DEF Enter, Reads, FramesKept
<1>7. CASE OperationBegin(p)
  BY <1>7 DEF OperationBegin, Reads, FramesKept
<1>8. CASE OperationComplete(p)
  BY <1>2, <1>4, <1>8 DEF OperationComplete, Reads
<1>9. CASE CreateHandle(p)
  BY <1>2, <1>4, <1>9 DEF CreateHandle, Reads
<1>10. CASE DeleteFile(p)
  BY <1>5, <1>10 DEF DeleteFile, Reads
<1>11. CASE DestroyHandle(p)
  BY <1>4, <1>5, <1>11 DEF DestroyHandle, Reads
<1>12. CASE DuplicateHandle(p)
  BY <1>2, <1>12 DEF DuplicateHandle, Reads
<1>13. CASE Seek(p)
  BY <1>2, <1>4, <1>13 DEF Seek, Reads
<1>14. CASE CollectiveEnd(p)
  BY <1>3, <1>4, <1>14 DEF CollectiveEnd, Reads
<1>15. CASE PeerToPeer(p)
  BY <1>3, <1>15 DEF PeerToPeer, Reads, PeerKinds
<1>16. CASE Other(p)
  BY <1>4, <1>16 DEF Other, Reads
<1> QED
  BY <1>6, <1>7, <1>8, <1>9, <1>10, <1>11, <1>12, <1>13, <1>14, <1>15, <1>16 DEF Handlers

LEMMA FramesStay ==
  ASSUME IInv, LocalInv, TimesInv, NEW p \in Procs, NEW kinds, Reads(p, kinds), FramesKept(p)
  PROVE  \A q \in Procs : \A k \in DOMAIN call_stack'[q] : call_stack'[q][k].enter <= pos'[q]
<1> SUFFICES ASSUME NEW q \in Procs, NEW k \in DOMAIN call_stack'[q]
    PROVE  call_stack'[q][k].enter <= pos'[q]
  OBVIOUS
<1>1. /\ DOMAIN pos = Procs /\ pos' = [pos EXCEPT ![p] = Now(p)]
      /\ Now(p) = pos[p] + 1 /\ pos[p] \in Nat
  BY EventFacts
<1>2. /\ pos[q] \in Nat /\ DOMAIN call_stack = Procs
      /\ call_stack[p] \in Seq(FrameSet) /\ call_stack[q] \in Seq(FrameSet)
  BY DEF LocalInv, PerProcess, LocalOK, IInv, ReadingInv
<1>3. pos[q] <= pos'[q] /\ pos'[q] \in Nat
  BY <1>1, <1>2
<1>4. ASSUME k \in DOMAIN call_stack[q], call_stack'[q][k].enter = call_stack[q][k].enter
      PROVE  call_stack'[q][k].enter <= pos'[q]
  <2>1. call_stack[q][k] \in FrameSet
    BY <1>2, <1>4, LenProperties, ElementOfSeq
  <2>2. call_stack[q][k].enter \in Nat
    BY <2>1 DEF FrameSet
  <2> QED
    BY <1>2, <1>3, <1>4, <2>2 DEF TimesInv
<1>5. CASE UNCHANGED call_stack \/ q # p
  <2>1. call_stack'[q] = call_stack[q]
    BY <1>2, <1>5 DEF FramesKept
  <2> QED
    BY <1>4, <2>1
<1>6. ASSUME NEW d, call_stack' = [call_stack EXCEPT ![p][1].vertex = d], q = p
      PROVE  call_stack'[q][k].enter <= pos'[q]
  <2>1. call_stack'[p] = [call_stack[p] EXCEPT ![1] = [call_stack[p][1] EXCEPT !.vertex = d]]
    BY <1>2, <1>6
  <2>2. DOMAIN call_stack'[p] = DOMAIN call_stack[p]
    BY <2>1
  <2>3. call_stack[p][k] \in FrameSet
    BY <1>2, <1>6, <2>2, LenProperties, ElementOfSeq
  <2>4. [call_stack[p][k] EXCEPT !.vertex = d].enter = call_stack[p][k].enter
    BY <2>3 DEF FrameSet
  <2>5. call_stack'[p][k].enter = call_stack[p][k].enter
    BY <1>6, <2>1, <2>2, <2>4
  <2> QED
    BY <1>4, <1>6, <2>2, <2>5
<1>7. CASE call_stack' = [call_stack EXCEPT ![p] = Append(@, Frame(Now(p)))] /\ q = p
  <2>1. call_stack'[p] = Append(call_stack[p], Frame(Now(p)))
    BY <1>2, <1>7
  <2>2. IsSequence(call_stack[p])
    BY <1>2, SequenceOver
  <2>3. /\ DOMAIN call_stack'[p] = DOMAIN call_stack[p] \cup {Len(call_stack[p]) + 1}
        /\ call_stack'[p][Len(call_stack[p]) + 1] = Frame(Now(p))
        /\ \A j \in DOMAIN call_stack[p] : call_stack'[p][j] = call_stack[p][j]
    BY <2>1, <2>2, AppendFacts
  <2>4. CASE k = Len(call_stack[p]) + 1
    <3>1. call_stack'[q][k].enter = Now(p)
      BY <1>7, <2>3, <2>4 DEF Frame
    <3> QED
      BY <1>1, <1>7, <3>1
  <2>5. CASE k \in DOMAIN call_stack[p]
    BY <1>4, <1>7, <2>3, <2>5
  <2> QED
    BY <1>7, <2>3, <2>4, <2>5
<1> QED
  BY <1>5, <1>6, <1>7 DEF FramesKept

LEMMA TimesLeave ==
  ASSUME IInv, LocalInv, TimesInv, NEW p \in Procs, Leave(p)
  PROVE  TimesInv'
<1> DEFINE stack == call_stack[p]
           span == Now(p) - Head(stack).enter
           io == IF evt(p).role = "file_io" THEN span ELSE 0
           metadata == IF evt(p).role = "file_io_metadata" THEN span ELSE 0
<1>1. Reads(p, {"leave"}) /\ evt(p).kind = "leave"
  BY DEF Leave, Reads
<1>2. /\ DOMAIN pos = Procs /\ pos' = [pos EXCEPT ![p] = Now(p)]
      /\ Now(p) = pos[p] + 1 /\ pos[p] \in Nat
  BY <1>1, EventFacts
<1>3. /\ evt(p).kind \in SyncKinds \cup IoKinds \cup {"leave"}
           => Depth(program[p], pos[p]) > 0
  BY <1>1, EventFacts
<1>4. /\ stack \in Seq(FrameSet) /\ Len(stack) > 0 /\ DOMAIN call_stack = Procs
      /\ \A q \in Procs : call_stack[q] \in Seq(FrameSet) /\ pos[q] \in Nat
  BY <1>1, <1>3 DEF LocalInv, PerProcess, LocalOK, IInv, ReadingInv
<1>5. /\ Head(stack) = stack[1] /\ Head(stack) \in FrameSet
      /\ Tail(stack) \in Seq(FrameSet) /\ Len(Tail(stack)) = Len(stack) - 1
  BY <1>4, LastFacts
<1>6. 1 \in DOMAIN stack /\ DOMAIN stack = 1 .. Len(stack) /\ Len(stack) \in Nat
  BY <1>4, LenProperties
<1>7. Head(stack).enter \in Nat /\ Head(stack).enter <= pos[p]
  BY <1>5, <1>6 DEF FrameSet, TimesInv
<1>8. /\ times'.total = times.total + span
      /\ times'.io = times.io + io /\ times'.metadata = times.metadata + metadata
      /\ call_stack' = [call_stack EXCEPT ![p] = Tail(stack)]
      /\ UNCHANGED program
  BY <1>1 DEF Leave, Reads
<1>9. span \in Nat /\ span > 0
  BY <1>2, <1>7
<1>10. /\ io \in Nat /\ metadata \in Nat /\ io + metadata <= span
       /\ OutsideIo(evt(p)) => io = 0 /\ metadata = 0
  <2> HIDE DEF span
  <2> QED
    BY <1>9 DEF OutsideIo
<1> HIDE DEF span, io, metadata
<1>11. /\ times.total \in Nat /\ times.io \in Nat /\ times.metadata \in Nat
       /\ times.io + times.metadata <= times.total
  BY DEF TimesInv
<1>12. /\ times'.total \in Nat /\ times'.io \in Nat /\ times'.metadata \in Nat
       /\ times'.io + times'.metadata <= times'.total
  <2>1. /\ times'.total = times.total + span
        /\ times'.io = times.io + io /\ times'.metadata = times.metadata + metadata
    BY <1>8
  <2>2. io \in Nat /\ metadata \in Nat /\ io + metadata <= span
    BY <1>10
  <2> QED
    BY <1>9, <1>11, <2>1, <2>2
<1>13. ASSUME NEW q \in Procs, NEW k \in DOMAIN call_stack'[q]
       PROVE  call_stack'[q][k].enter <= pos'[q]
  <2>1. CASE q # p
    BY <1>2, <1>4, <1>8, <1>13, <2>1 DEF TimesInv
  <2>2. CASE q = p
    <3>1. call_stack'[q] = Tail(stack) /\ pos'[q] = pos[p] + 1
      BY <1>2, <1>4, <1>8, <2>2
    <3>2. k \in 1 .. Len(stack) - 1 /\ DOMAIN Tail(stack) = 1 .. Len(stack) - 1
      BY <1>5, <1>13, <3>1, LenProperties
    <3>3. Tail(stack)[k] = stack[k + 1] /\ k + 1 \in DOMAIN stack
      BY <1>4, <1>6, <3>2, HeadTailProperties
    <3>4. stack[k + 1].enter <= pos[p]
      BY <3>3 DEF TimesInv
    <3>5. stack[k + 1] \in FrameSet
      BY <1>4, <1>6, <3>3, ElementOfSeq
    <3>6. stack[k + 1].enter \in Nat
      BY <3>5 DEF FrameSet
    <3> HIDE DEF stack
    <3> QED
      BY <1>2, <3>1, <3>3, <3>4, <3>6

  <2> QED
    BY <2>1, <2>2
<1>14. ASSUME NEW q \in Procs, NEW i \in DOMAIN program[q], i <= pos'[q],
              OutsideIo(program[q][i])
       PROVE  times'.io < times'.total /\ times'.metadata < times'.total
  <2>1. CASE i <= pos[q]
    <3>1. times.io < times.total /\ times.metadata < times.total
      BY <1>14, <2>1 DEF TimesInv
    <3>2. io <= span /\ metadata <= span
      BY <1>9, <1>10
    <3> QED
      BY <1>8, <1>9, <1>10, <1>11, <3>1, <3>2
  <2>2. CASE program[q][i] = evt(p)
    <3>1. io = 0 /\ metadata = 0
      BY <1>10, <1>14, <2>2
    <3> QED
      BY <1>8, <1>9, <1>11, <3>1
  <2> QED
    BY <1>1, <1>14, <2>1, <2>2, ReadSoFar
<1> QED
  BY <1>8, <1>12, <1>13, <1>14 DEF TimesInv

LEMMA TimesStep ==
  ASSUME IInv, LocalInv, TimesInv, [Next]_vars
  PROVE  TimesInv'
<1>1. ASSUME UNCHANGED <<program, pos, call_stack, times>>
      PROVE  TimesInv'
  BY <1>1 DEF TimesInv
<1>2. CASE EventNext
  <2>1. PICK p \in Procs : Handlers(p)
    BY <1>2 DEF EventNext, Handlers
  <2>2. PICK kinds : Reads(p, kinds)
    BY <2>1, EventShape
  <2>3. CASE ~Leave(p)
    <3>1. FramesKept(p) /\ evt(p).kind # "leave"
      BY <2>1, <2>3, FramesShape
    <3>2. UNCHANGED <<program, times>>
      BY <2>2, <3>1 DEF FramesKept, Reads
    <3>3. \A q \in Procs : \A i \in DOMAIN program[q] :
            i <= pos'[q] /\ OutsideIo(program[q][i]) => i <= pos[q]
      BY <2>2, <3>1, ReadSoFar DEF OutsideIo
    <3> QED
      BY <2>2, <3>1, <3>2, <3>3, FramesStay DEF TimesInv
  <2> QED
    BY <2>3, TimesLeave
<1>3. CASE DefinitionsNext
  BY <1>1, <1>3 DEF DefinitionsNext, RegisterLocation, DefinitionsDone, locals
<1>4. CASE EventsDone
  BY <1>1, <1>4 DEF EventsDone, locals
<1>5. CASE Match
  BY <1>1, <1>5 DEF Match, locals, Matching, MatchingNext, NextLocation, SkipVertex,
     SkipMyself, ConnectMember, FinishCollective, ConnectPeer, set_graph_properties
<1>6. CASE UNCHANGED vars
  BY <1>1, <1>6 DEF vars, locals
<1> QED
  BY <1>2, <1>3, <1>4, <1>5, <1>6 DEF Next

(***************************************************************************)
(* An event of the right kind makes a vertex, unless an assertion fails.   *)
(***************************************************************************)
AddsVertex(p) == \E v : /\ v.type # "synthetic" /\ v.proc = p
                        /\ graph' = Append(graph, v)

LEMMA AddsShape ==
  ASSUME NEW p \in Procs, Handlers(p), MakesVertex(evt(p))
  PROVE  AddsVertex(p) \/ status' = "aborted"
<1>1. ASSUME NEW name, NEW kind, NEW size, NEW offset, AddIoEvent(p, name, kind, size, offset)
      PROVE  AddsVertex(p)
  <2>1. PICK v : v = IoEvent(p, name, kind, size, offset)
    OBVIOUS
  <2>2. v.type # "synthetic" /\ v.proc = p /\ graph' = Append(graph, v)
    BY <1>1, <2>1 DEF AddIoEvent, AddVertex, IoEvent
  <2> QED
    BY <2>2 DEF AddsVertex
<1>2. ASSUME NEW kind, NEW remote, NEW members, NEW root,
             AddSyncEvent(p, SyncEvent(p, kind, remote, members, root))
      PROVE  AddsVertex(p)
  <2>1. PICK v : v = SyncEvent(p, kind, remote, members, root)
    OBVIOUS
  <2>2. v.type # "synthetic" /\ v.proc = p /\ graph' = Append(graph, v)
    BY <1>2, <2>1 DEF AddSyncEvent, AddVertex, SyncEvent
  <2> QED
    BY <2>2 DEF AddsVertex
<1>3. ASSUME NEW kinds, Reads(p, kinds),
             kinds \cap {"enter", "leave", "io_operation_begin", "io_destroy_handle", "other"}
               = kinds
      PROVE  FALSE
  BY <1>3 DEF Reads, MakesVertex, PeerKinds
<1>4. CASE Enter(p)
  BY <1>3, <1>4 DEF Enter
<1>5. CASE Leave(p)
  BY <1>3, <1>5 DEF Leave
<1>6. CASE OperationBegin(p)
  BY <1>3, <1>6 DEF OperationBegin
<1>7. CASE OperationComplete(p)
  <2>1. ~IsMpiIo(p)
    BY <1>7 DEF OperationComplete, Reads, MakesVertex, PeerKinds, TrackedHandle, IsMpiIo
  <2> QED
    BY <1>1, <1>7, <2>1 DEF OperationComplete, Abort
<1>8. CASE CreateHandle(p)
  <2>1. ~Discarded(p)
    BY <1>8 DEF CreateHandle, Reads, MakesVertex, PeerKinds, TrackedHandle, IsMpiIo, Discarded
  <2> QED
    BY <1>1, <1>8, <2>1 DEF CreateHandle
<1>9. CASE DeleteFile(p)
  BY <1>1, <1>9 DEF DeleteFile, Drop, Abort
<1>10. CASE DestroyHandle(p)
  BY <1>3, <1>10 DEF DestroyHandle
<1>11. CASE DuplicateHandle(p)
  BY <1>1, <1>11 DEF DuplicateHandle
<1>12. CASE Seek(p)
  <2>1. ~IsMpiIo(p)
    BY <1>12 DEF Seek, Reads, MakesVertex, PeerKinds, TrackedHandle, IsMpiIo
  <2> QED
    BY <1>1, <1>12, <2>1 DEF Seek
<1>13. CASE CollectiveEnd(p)
  <2>1. evt(p).members # <<>>
    BY <1>13 DEF CollectiveEnd, Reads, MakesVertex, PeerKinds
  <2> QED
    BY <1>2, <1>13, <2>1 DEF CollectiveEnd
<1>14. CASE PeerToPeer(p)
  BY <1>2, <1>14 DEF PeerToPeer
<1>15. CASE Other(p)
  BY <1>3, <1>15 DEF Other
<1> QED
  BY <1>4, <1>5, <1>6, <1>7, <1>8, <1>9, <1>10, <1>11, <1>12, <1>13, <1>14, <1>15
     DEF Handlers

LEMMA OwnStay ==
  ASSUME IInv, NotesInv, NEW p \in Procs, Handlers(p), NEW q \in Procs
  PROVE  OwnVertices(q) \subseteq OwnVertices(q)'
<1>1. ASSUME NEW v, graph' = Append(graph, v)
      PROVE  OwnVertices(q) \subseteq OwnVertices(q)'
  <2>1. DOMAIN graph \subseteq DOMAIN graph' /\ \A d \in DOMAIN graph : graph'[d] = graph[d]
    BY <1>1, AppendFacts DEF IInv, GraphInv
  <2> QED
    BY <2>1 DEF OwnVertices
<1>2. CASE Quiet(p)
  <2>1. SameCalls(graph, graph')
    BY <1>2, DurationsNote, NotesSame DEF Quiet
  <2> QED
    BY <2>1 DEF SameCalls, SameCall, OwnVertices
<1>3. CASE AddsIo(p)
  BY <1>1, <1>3 DEF AddsIo, AddIoEvent, AddVertex
<1>4. CASE AddsSync(p)
  BY <1>1, <1>4 DEF AddsSync, AddSyncEvent, AddVertex
<1> QED
  BY <1>2, <1>3, <1>4, EventShape

LEMMA MadeStep ==
  ASSUME IInv, NotesInv, MadeInv, [Next]_vars, IInv'
  PROVE  MadeInv'
<1>1. ASSUME status # "aborted", UNCHANGED <<program, pos>>,
             \A p \in Procs : OwnVertices(p) \subseteq OwnVertices(p)'
      PROVE  MadeInv'
  BY <1>1 DEF MadeInv
<1>2. CASE EventNext
  <2>1. PICK p \in Procs : Handlers(p)
    BY <1>2 DEF EventNext, Handlers
  <2>2. PICK kinds : Reads(p, kinds)
    BY <2>1, EventShape
  <2>3. UNCHANGED program /\ status = "events"
    BY <2>2 DEF Reads
  <2>4. ASSUME status' # "aborted", NEW q \in Procs, NEW i \in DOMAIN program[q],
               i <= pos'[q], MakesVertex(program[q][i])
        PROVE  OwnVertices(q)' # {}
    <3>1. OwnVertices(q) \subseteq OwnVertices(q)'
      BY <2>1, OwnStay
    <3>2. CASE i <= pos[q]
      BY <2>3, <2>4, <3>1, <3>2 DEF MadeInv
    <3>3. CASE q = p /\ program[q][i] = evt(p)
      <4>1. PICK v : v.type # "synthetic" /\ v.proc = p /\ graph' = Append(graph, v)
        BY <2>1, <2>4, <3>3, AddsShape DEF AddsVertex
      <4>2. Len(graph) + 1 \in DOMAIN graph' /\ graph'[Len(graph) + 1] = v
        BY <4>1, AppendFacts DEF IInv, GraphInv
      <4> QED
        BY <3>3, <4>1, <4>2 DEF OwnVertices
    <3> QED
      BY <2>2, <2>4, <3>2, <3>3, ReadSoFar
  <2> QED
    BY <2>3, <2>4 DEF MadeInv
<1>3. CASE DefinitionsNext
  BY <1>1, <1>3 DEF DefinitionsNext, RegisterLocation, DefinitionsDone, OwnVertices
<1>4. CASE EventsDone
  <2>1. UNCHANGED <<program, pos>> /\ status = "events"
        /\ (UNCHANGED graph \/ graph' = Append(graph, Synthetic("End")))
    BY <1>4 DEF EventsDone, create_synthetic_end
  <2>2. DOMAIN graph \subseteq DOMAIN graph' /\ \A d \in DOMAIN graph : graph'[d] = graph[d]
    <3>1. CASE UNCHANGED graph
      BY <3>1
    <3>2. CASE graph' = Append(graph, Synthetic("End"))
      BY <3>2, AppendFacts DEF IInv, GraphInv
    <3> QED
      BY <2>1, <3>1, <3>2
  <2> QED
    BY <1>1, <2>1, <2>2 DEF OwnVertices
<1>5. CASE Match
  <2>1. UNCHANGED <<program, pos>> /\ MatchingNext
    BY <1>5 DEF Match
  <2>2. NotesOnly(graph, graph')
    BY <2>1, MatchRoots DEF RootsOnly, NotesOnly
  <2>3. SameCalls(graph, graph')
    BY <2>2, NotesSame
  <2>4. status = "matching"
    BY <2>1 DEF Matching, MatchingNext, NextLocation, SkipVertex,
       SkipMyself, ConnectMember, FinishCollective, ConnectPeer, set_graph_properties
  <2> QED
    BY <1>1, <2>1, <2>3, <2>4 DEF SameCalls, SameCall, OwnVertices
<1>6. CASE UNCHANGED vars
  BY <1>6 DEF vars, MadeInv, OwnVertices
<1> QED
  BY <1>2, <1>3, <1>4, <1>5, <1>6 DEF Next

(***************************************************************************)
(* The operation that completes is the one at the front of the queue: any  *)
(* other begun before it and still under way would complete later.         *)
(***************************************************************************)
LEMMA FrontCompletes ==
  ASSUME NEW s, WellFormed(s), OperationsComplete(s), InOrder(s),
         NEW n \in Nat, NEW i \in 1 .. Len(s), i = n + 1, NEW ops, OpsOK(s, n, ops),
         s[i].kind = "io_operation_complete", s[i].handle.paradigm # "MPI-IO"
  PROVE  s[i].matching_id = Head(ops).matching_id
<1>1. PICK b : Lists(s, n, ops, b)
  BY DEF OpsOK
<1>2. Len(ops) \in Nat /\ DOMAIN ops = 1 .. Len(ops)
  BY SequenceFacts DEF OpsOK
<1>3. Len(s) \in Nat /\ DOMAIN s = 1 .. Len(s)
  BY LenProperties DEF WellFormed
<1>4. PICK j \in 1 .. i - 1 : Operation(s, j, i)
  BY <1>3 DEF OperationsComplete
<1>5. j \in UnderWay(s, n)
  <2>1. j \in 1 .. n /\ i - 1 = n
    BY <1>4
  <2>2. ASSUME NEW c \in j + 1 .. n, Operation(s, j, c)
        PROVE  FALSE
    <3>1. c \in j + 1 .. i - 1
      BY <2>1, <2>2
    <3>2. s[c].kind = "io_operation_complete" /\ s[c].matching_id = s[j].matching_id
      BY <2>2 DEF Operation
    <3> QED
      BY <1>4, <3>1, <3>2 DEF Operation
  <2>3. s[j].kind = "io_operation_begin" /\ s[j].handle.paradigm # "MPI-IO"
    BY <1>4 DEF Operation
  <2> QED
    BY <2>1, <2>2, <2>3 DEF UnderWay
<1>6. PICK k \in 1 .. Len(ops) : b[k] = j
  BY <1>1, <1>5 DEF Lists
<1>7. 1 \in 1 .. Len(ops)
  BY <1>2
<1>8. PICK f : f = b[1]
  OBVIOUS
<1>9. f \in UnderWay(s, n) /\ ops[1] = s[f] /\ Head(ops) = ops[1]
  BY <1>1, <1>7, <1>8 DEF Lists
<1>10. f \in 1 .. n /\ f \in DOMAIN s
       /\ s[f].kind = "io_operation_begin" /\ s[f].handle.paradigm # "MPI-IO"
       /\ \A c \in f + 1 .. n : ~Operation(s, f, c)
  BY <1>3, <1>9 DEF UnderWay
<1>11. k # 1 => f < j
  BY <1>1, <1>2, <1>6, <1>7, <1>8 DEF Lists
<1>12. ASSUME f < j
       PROVE  FALSE
  <2>1. PICK e \in f + 1 .. Len(s) : Operation(s, f, e)
    BY <1>10 DEF OperationsComplete
  <2>2. s[e].kind = "io_operation_complete" /\ s[e].handle.paradigm # "MPI-IO"
    BY <1>10, <2>1 DEF Operation
  <2>3. e \in Nat /\ e \in DOMAIN s /\ f \in 1 .. e - 1
    BY <1>3, <1>10, <2>1
  <2>4. e # i
    <3>1. e = i => f \in 1 .. i - 1 /\ j \in 1 .. i - 1 /\ Operation(s, f, i)
      BY <1>4, <2>1, <2>3
    <3> QED
      BY <1>4, <1>12, <3>1, OperationUnique
  <2>5. ~(e \in f + 1 .. n)
    BY <1>10, <2>1
  <2>6. i < e
    BY <2>1, <2>3, <2>4, <2>5
  <2>7. BeginOf(s, i) = j
    BY <1>4, BeginIs
  <2>8. BeginOf(s, e) = f
    BY <2>1, <2>3, BeginIs
  <2>9. i \in DOMAIN s
    BY <1>3
  <2>10. j < f
    BY <2>2, <2>3, <2>6, <2>7, <2>8, <2>9 DEF InOrder
  <2> QED
    BY <1>4, <1>10, <1>12, <2>10
<1>13. k = 1
  BY <1>11, <1>12
<1>14. s[j].matching_id = s[i].matching_id
  BY <1>4 DEF Operation
<1> QED
  BY <1>6, <1>8, <1>9, <1>13, <1>14

(***************************************************************************)
(* No assertion of a handler fails on a sound trace.                       *)
(***************************************************************************)
LEMMA HandlersSucceed ==
  ASSUME IInv, FilesInv, Sound(program), NEW p \in Procs, Handlers(p)
  PROVE  status' # "aborted"
<1>1. /\ OneHandlePerFile(program[p]) /\ InOrder(program[p])
  BY DEF Sound
<1>2. PICK kinds : Reads(p, kinds)
  BY EventShape
<1>3. /\ WellFormed(program[p]) /\ OperationsComplete(program[p])
      /\ pos[p] \in Nat /\ Now(p) \in 1 .. Len(program[p]) /\ Now(p) = pos[p] + 1
      /\ evt(p) = program[p][Now(p)] /\ status = "events"
      /\ FilesOK(program[p], pos[p], io_ops_started[p], offset_map[p])
      /\ Now(p) \in DOMAIN program[p]
  BY <1>2, FilesFacts DEF Reads
<1>4. ASSUME OperationComplete(p)
      PROVE  status' # "aborted"
  <2>1. evt(p).kind = "io_operation_complete"
    BY <1>4 DEF OperationComplete, Reads
  <2>2. IsMpiIo(p) \/ evt(p).matching_id = Head(io_ops_started[p]).matching_id
    BY <1>1, <1>3, <2>1, FrontCompletes DEF FilesOK, IsMpiIo
  <2> QED
    BY <1>3, <1>4, <2>2 DEF OperationComplete, Ignore, AddIoEvent
<1>5. ASSUME DeleteFile(p)
      PROVE  FALSE
  <2>1. evt(p).kind = "io_delete_file"
    BY <1>5 DEF DeleteFile, Reads
  <2> QED
    BY <1>1, <1>3, <2>1 DEF OneHandlePerFile, IoKinds
<1>6. ASSUME DestroyHandle(p)
      PROVE  status' # "aborted"
  <2>1. evt(p).kind = "io_destroy_handle"
    BY <1>6 DEF DestroyHandle, Reads
  <2>2. evt(p).handle \in OpenAt(program[p], Now(p))
    BY <1>1, <1>3, <2>1 DEF OneHandlePerFile, IoKinds
  <2>3. OffsetsOK(program[p], pos[p], offset_map[p])
    BY <1>1, <1>3 DEF FilesOK
  <2>4. ~Discarded(p) => Name(p) \in DOMAIN offset_map[p]
    BY <1>3, <2>2, <2>3 DEF OffsetsOK, Discarded, IsMpiIo, TrackedHandle, Name
  <2> QED
    BY <1>3, <1>6, <2>4 DEF DestroyHandle, Drop, Ignore, AddIoEvent
<1> QED
  BY <1>3, <1>4, <1>5, <1>6 DEF Handlers, Enter, Leave, OperationBegin, CreateHandle,
     DuplicateHandle, Seek, CollectiveEnd, PeerToPeer, Other, Ignore, AddIoEvent, AddSyncEvent

LEMMA SomethingMade ==
  ASSUME MadeInv, status # "aborted", NEW p \in Procs, pos[p] = Len(program[p]),
         WellFormed(program[p]), SomeVertex(program[p])
  PROVE  OwnVertices(p) # {}
<1>1. PICK i \in DOMAIN program[p] : MakesVertex(program[p][i])
  BY DEF SomeVertex, MakesVertex
<1>2. DOMAIN program[p] = 1 .. Len(program[p]) /\ Len(program[p]) \in Nat
  BY LenProperties DEF WellFormed
<1>3. i <= pos[p]
  BY <1>2
<1> QED
  BY <1>1, <1>3 DEF MadeInv

LEMMA SoundStep ==
  ASSUME IInv, FilesInv, NotesInv, MatchedInv, TimesInv, MadeInv, MatchedInv',
         [Next]_vars, Sound(program), status \notin Failed
  PROVE  status' \notin Failed
<1>1. IsProgram(program) /\ Separable(program)
  BY ProgramsAssumption DEF IInv, ReadingInv, Sound
<1>2. CASE EventNext
  <2>1. PICK p \in Procs : Handlers(p)
    BY <1>2 DEF EventNext, Handlers
  <2>2. PICK kinds : Reads(p, kinds)
    BY <2>1, EventShape
  <2>3. status' \in {"events", "aborted"}
    BY <2>1, <2>2, EventShape DEF Reads
  <2> QED
    BY <2>1, <2>3, HandlersSucceed DEF Failed
<1>3. CASE DefinitionsNext
  BY <1>3 DEF DefinitionsNext, RegisterLocation, DefinitionsDone, Failed
<1>4. CASE EventsDone
  <2>1. status = "events" /\ create_synthetic_end
        /\ \A p \in Procs : pos[p] = Len(program[p])
    BY <1>4 DEF EventsDone
  <2>2. ASSUME NEW p \in Procs
        PROVE  edge_points[p] # <<>>
    <3>1. SomeVertex(program[p]) /\ WellFormed(program[p])
      BY <1>1 DEF Sound, IsProgram
    <3>2. OwnVertices(p) # {}
      BY <2>1, <3>1, SomethingMade
    <3>3. PICK d \in OwnVertices(p) : edge_points[p] = <<d>>
      BY <3>2 DEF IInv, PointsInv
    <3> QED
      BY <3>3
  <2> QED
    BY <2>1, <2>2 DEF create_synthetic_end, Failed
<1>5. CASE Match
  <2>1. UNCHANGED program /\ MatchingNext
    BY <1>5 DEF Match
  <2>2. status' # "returned"
    BY <1>1, <2>1 DEF MatchedInv
  <2>3. CASE NextLocation \/ SkipVertex \/ SkipMyself \/ FinishCollective
    BY <2>3 DEF NextLocation, SkipVertex, SkipMyself, FinishCollective
  <2>4. CASE ConnectMember
    BY <2>2, <2>4 DEF ConnectMember, GiveUp
  <2>5. CASE ConnectPeer
    <3>1. /\ AtVertex /\ ~IsCollective(v_desc) /\ Matching
          /\ vertex.remote # vertex.proc =>
               status' = "returned" \/ UNCHANGED status
      BY <2>5 DEF ConnectPeer, GiveUp
    <3>2. Matching /\ AtVertex /\ Ended
      BY <3>1 DEF Matching, Ended
    <3>3. v_desc \in DOMAIN graph /\ vertex.type = "sync_event" /\ vertex.proc \in Procs
      BY <3>2, VertexFacts
    <3>4.
 Noted(program, vertex)
      BY <3>3 DEF NotesInv, vertex
    <3>5. PICK i : i = vertex.timestamp
      OBVIOUS
    <3>6. PICK e : e = program[vertex.proc][i]
      OBVIOUS
    <3>7. /\ i \in DOMAIN program[vertex.proc] /\ e.kind \in SyncKinds
          /\ NotesEvent(vertex, e)
      BY <3>3, <3>4, <3>5, <3>6 DEF Noted, SyncCalls
    <3>8. e.kind \in PeerKinds /\ vertex.remote = e.remote
      BY <3>1, <3>7 DEF NotesEvent, SyncKinds, IsCollective, vertex
    <3>9. <<vertex.proc, i>> \in SyncPlaces(program)
      BY <3>3, <3>6, <3>7 DEF SyncPlaces
    <3>10. e.remote # vertex.proc
      BY <3>6, <3>8, <3>9 DEF Sound
    <3> QED
      BY <2>2, <3>1, <3>8, <3>10 DEF Failed
  <2>6. CASE set_graph_properties
    <3>7. PICK p \in Procs : \E i \in DOMAIN program[p] : OutsideIo(program[p][i])
      BY DEF Sound, OutsideIo
    <3>1. PICK i \in DOMAIN program[p] : OutsideIo(program[p][i])
      BY <3>7

    <3>2. pos[p] = Len(program[p])
      BY <2>6 DEF set_graph_properties, Matching, NotesInv, Ended
    <3>3. DOMAIN program[p] = 1 .. Len(program[p])
      BY <1>1, LenProperties DEF IsProgram, WellFormed
    <3>4. i <= pos[p]
      BY <3>2, <3>3
    <3>5. times.io < times.total /\ times.metadata < times.total
      BY <3>1, <3>4 DEF TimesInv
    <3>6. times.total > times.io /\ times.total > times.metadata
      BY <3>5 DEF TimesInv
    <3> QED
      BY <2>6, <3>6 DEF set_graph_properties, Failed
  <2> QED
    BY <2>1, <2>3, <2>4, <2>5, <2>6 DEF MatchingNext
<1>6. CASE UNCHANGED vars
  BY <1>6 DEF vars
<1> QED
  BY <1>2, <1>3, <1>4, <1>5, <1>6 DEF Next

LEMMA SoundInitially ==
  ASSUME Init, IInv
  PROVE  SoundInv
<1>1. \A p \in Procs : call_stack[p] = <<>> /\ pos[p] = 0 /\ DOMAIN <<>> = {}
  BY DEF Init
<1>2. \A p \in Procs : \A i \in DOMAIN program[p] : ~(i <= pos[p])
  <2> SUFFICES ASSUME NEW p \in Procs, NEW i \in DOMAIN program[p] PROVE ~(i <= pos[p])
    OBVIOUS
  <2>1. IsProgram(program)
    BY ProgramsAssumption DEF IInv, ReadingInv
  <2>2. DOMAIN program[p] = 1 .. Len(program[p])
    BY <2>1, LenProperties DEF IsProgram, WellFormed
  <2> QED
    BY <1>1, <2>2
<1>3. times = [total |-> 0, io |-> 0, metadata |-> 0] /\ status = "definitions"
  BY DEF Init
<1> QED
  BY <1>1, <1>2, <1>3 DEF SoundInv, TimesInv, MadeInv, Failed

(***************************************************************************)
(* A trace free of the peculiarities that Sound names is read to the end,  *)
(* by any number of processes and in any order: no assertion of a handler  *)
(* fails (otf2_io_graph_builder.cpp:204, :336, :379), every process has an *)
(* edge point (:45), every search of events_done finds a partner, and the  *)
(* assertions about the totals of time hold.                               *)
(***************************************************************************)
THEOREM SoundTraces == Spec => []SoundTracesSucceed
<1>1. Init => IInv /\ LocalInv /\ FilesInv /\ NotesInv /\ MatchedInv /\ SoundInv
  <2> SUFFICES ASSUME Init
      PROVE  IInv /\ LocalInv /\ FilesInv /\ NotesInv /\ MatchedInv /\ SoundInv
    OBVIOUS
  <2>1. IInv /\ NotesInv /\ MatchedInv
    BY SyncInitially
  <2> QED
    BY <2>1, LocalInitially, FilesInitially, SoundInitially
<1>2. IInv /\ LocalInv /\ FilesInv /\ NotesInv /\ MatchedInv /\ SoundInv /\ [Next]_vars
        => IInv' /\ LocalInv' /\ FilesInv' /\ NotesInv' /\ MatchedInv' /\ SoundInv'
  <2> SUFFICES ASSUME IInv, LocalInv, FilesInv, NotesInv, MatchedInv, SoundInv, [Next]_vars
      PROVE  IInv' /\ LocalInv' /\ FilesInv' /\ NotesInv' /\ MatchedInv' /\ SoundInv'
    OBVIOUS
  <2>1. IInv' /\ NotesInv' /\ MatchedInv'
    BY SyncInductive
  <2>2. LocalInv' /\ FilesInv'
    BY LocalStep, FilesStep
  <2>3. TimesInv' /\ MadeInv'
    BY <2>1, TimesStep, MadeStep DEF SoundInv
  <2>4. UNCHANGED program
    BY ProgramStays
  <2>5. Sound(program) => status' \notin Failed
    BY <2>1, SoundStep DEF SoundInv
  <2> QED
    BY <2>1, <2>2, <2>3, <2>4, <2>5 DEF SoundInv
<1>3. SoundInv => SoundTracesSucceed
  BY DEF SoundInv, SoundTracesSucceed
<1> QED
  BY <1>1, <1>2, <1>3, PTL DEF Spec

-----------------------------------------------------------------------------
(***************************************************************************)
(* Peeling: what is left after n rounds, as a function of n.  There is one *)
(* because there is one for any number of rounds.                          *)
(***************************************************************************)
Inner(R, rel) == {x \in R : \E y \in R : <<x, y>> \in rel}

Peeling(S, rel, k, f) ==
  f = [n \in 0 .. k |-> IF n = 0 THEN S ELSE Inner(f[n - 1], rel)]

LEMMA PeelingExists ==
  ASSUME NEW S, NEW rel, NEW N \in Nat
  PROVE  \E f : Peeling(S, rel, N, f)
<1> DEFINE Bad == {k \in Nat : ~\E f : Peeling(S, rel, k, f)}
<1>1. SUFFICES ASSUME Bad # {} PROVE FALSE
  BY <1>1
<1>2. PICK k \in Bad : \A j \in Bad : k <= j
  <2>1. Bad \in SUBSET Nat
    OBVIOUS
  <2> HIDE DEF Bad
  <2> QED
    BY <1>1, <2>1, LeastNat
<1>3. CASE k = 0
  <2>1. PICK f : f = [n \in 0 .. 0 |-> S]
    OBVIOUS
  <2>2. f = [n \in 0 .. 0 |-> IF n = 0 THEN S ELSE Inner(f[n - 1], rel)]
    BY <2>1
  <2>3. Peeling(S, rel, 0, f)
    BY <2>2 DEF Peeling
  <2> QED
    BY <1>3, <2>3
<1>4. CASE k # 0
  <2>1. k \in Nat /\ k - 1 \in Nat /\ k - 1 \notin Bad
    <3>1. k \in Nat
      OBVIOUS
    <3> HIDE DEF Bad
    <3> QED
      BY <1>2, <1>4, <3>1
  <2>2. PICK f : Peeling(S, rel, k - 1, f)
    BY <2>1
  <2> DEFINE g == [n \in 0 .. k |-> IF n = k THEN Inner(f[k - 1], rel) ELSE f[n]]
  <2>3. \A n \in 0 .. k - 1 : f[n] = IF n = 0 THEN S ELSE Inner(f[n - 1], rel)
    BY <2>2 DEF Peeling
  <2>4. /\ g[k] = Inner(f[k - 1], rel) /\ \A n \in 0 .. k - 1 : g[n] = f[n]
        /\ g = [n \in 0 .. k |-> g[n]]
    BY <2>1
  <2> HIDE DEF g
  <2>5. \A n \in 0 .. k : g[n] = IF n = 0 THEN S ELSE Inner(g[n - 1], rel)
    <3> SUFFICES ASSUME NEW n \in 0 .. k
        PROVE  g[n] = IF n = 0 THEN S ELSE Inner(g[n - 1], rel)
      OBVIOUS
    <3>1. CASE n = k
      <4>1. k - 1 \in 0 .. k - 1
        BY <2>1
      <4>2. g[k - 1] = f[k - 1]
        BY <2>4, <4>1
      <4> QED
        BY <1>4, <2>4, <3>1, <4>2
    <3>2. CASE n = 0
      <4>1. 0 \in 0 .. k - 1
        BY <2>1
      <4> QED
        BY <2>3, <2>4, <3>2, <4>1
    <3>3. CASE n # k /\ n # 0
      <4>1. n - 1 \in 0 .. k - 1 /\ n \in 0 .. k - 1
        BY <2>1, <3>3
      <4>2. g[n - 1] = f[n - 1] /\ g[n] = f[n]
        BY <2>4, <4>1
      <4> QED
        BY <2>3, <3>3, <4>1, <4>2
    <3> QED
      BY <3>1, <3>2, <3>3
  <2>6. Peeling(S, rel, k, g)
    BY <2>4, <2>5 DEF Peeling
  <2> QED
    BY <2>6
<1> QED
  BY <1>3, <1>4

LEMMA PeelingFacts ==
  ASSUME NEW S, IsFiniteSet(S), NEW rel
  PROVE  /\ Cardinality(S) \in Nat
         /\ \E f : /\ f[0] = S
                   /\ \A n \in 1 .. Cardinality(S) : f[n] = Inner(f[n - 1], rel)
                   /\ HasNoCycle(S, rel) <=> f[Cardinality(S)] = {}
<1>1. PICK N : N = Cardinality(S)
  OBVIOUS
<1>2. N \in Nat
  BY <1>1, FS_CardinalityType
<1>3. PICK f : f = CHOOSE g : Peeling(S, rel, N, g)
  OBVIOUS
<1>4. Peeling(S, rel, N, f)
  BY <1>2, <1>3, PeelingExists, Zenon
<1>5. f[0] = S /\ \A n \in 1 .. N : f[n] = Inner(f[n - 1], rel)
  BY <1>2, <1>4 DEF Peeling
<1>6. HasNoCycle(S, rel) <=> f[N] = {}
  BY <1>1, <1>3, Zenon DEF HasNoCycle, Peeling, Inner
<1> QED
  BY <1>1, <1>2, <1>5, <1>6

(***************************************************************************)
(* A relation without cycle leaves in every non-empty set an element that  *)
(* has no successor there, and a relation that does so has no cycle.       *)
(***************************************************************************)
LEMMA NoCycleLast ==
  ASSUME NEW S, IsFiniteSet(S), NEW rel, HasNoCycle(S, rel), NEW T \in SUBSET S, T # {}
  PROVE  \E x \in T : \A y \in T : <<x, y>> \notin rel
<1>1. PICK N : N = Cardinality(S)
  OBVIOUS
<1>2. PICK f : /\ f[0] = S /\ \A n \in 1 .. N : f[n] = Inner(f[n - 1], rel)
               /\ f[N] = {}
  BY <1>1, PeelingFacts
<1>3. N \in Nat
  BY <1>1, PeelingFacts
<1> SUFFICES ASSUME \A x \in T : \E y \in T : <<x, y>> \in rel
    PROVE  FALSE
  OBVIOUS
<1> DEFINE Bad == {n \in 0 .. N : ~(T \subseteq f[n])}
<1>4. N \in Bad
  BY <1>2, <1>3
<1>5. PICK k \in Bad : \A j \in Bad : k <= j
  <2>1. Bad \in SUBSET Nat
    OBVIOUS
  <2> HIDE DEF Bad
  <2> QED
    BY <1>4, <2>1, LeastNat
<1>6. k # 0
  BY <1>2
<1>7. k \in 1 .. N /\ k - 1 \in 0 .. N
  BY <1>3, <1>6
<1>8. k - 1 \notin Bad
  <2>1. k \in Nat
    BY <1>7
  <2> HIDE DEF Bad
  <2> QED
    BY <1>5, <2>1
<1>9. T \subseteq f[k - 1]
  BY <1>7, <1>8
<1>10. T \subseteq f[k]
  BY <1>2, <1>7, <1>9 DEF Inner
<1> QED
  BY <1>10

LEMMA LastNoCycle ==
  ASSUME NEW S, IsFiniteSet(S), NEW rel,
         \A T \in SUBSET S : T # {} => \E x \in T : \A y \in T : <<x, y>> \notin rel
  PROVE  HasNoCycle(S, rel)
<1>1. PICK N : N = Cardinality(S)
  OBVIOUS
<1>2. PICK f : /\ f[0] = S /\ \A n \in 1 .. N : f[n] = Inner(f[n - 1], rel)
               /\ HasNoCycle(S, rel) <=> f[N] = {}
  BY <1>1, PeelingFacts
<1>3. N \in Nat
  BY <1>1, PeelingFacts
<1> DEFINE Good(n) == f[n] \subseteq S /\ Cardinality(f[n]) <= N - n
           Bad == {n \in 0 .. N : ~Good(n)}
<1>4. Good(0)
  BY <1>1, <1>2, <1>3
<1>5. ASSUME NEW n \in 1 .. N, Good(n - 1)
      PROVE  Good(n)
  <2>1. PICK R : R = f[n - 1]
    OBVIOUS
  <2>2. f[n] = Inner(R, rel)
    BY <1>2, <2>1
  <2>3. R \subseteq S /\ Cardinality(R) <= N - (n - 1)
    BY <1>5, <2>1
  <2>4. IsFiniteSet(R) /\ Cardinality(R) \in Nat
    BY <2>3, FS_Subset, FS_CardinalityType
  <2>5. Inner(R, rel) \subseteq R
    BY DEF Inner
  <2>6. CASE R = {}
    <3>1. Inner(R, rel) = {}
      BY <2>5, <2>6
    <3>2. Cardinality({}) = 0
      BY FS_EmptySet
    <3> QED
      BY <1>3, <2>2, <3>1, <3>2
  <2>7. CASE R # {}
    <3>1. PICK x \in R : \A y \in R : <<x, y>> \notin rel
      BY <2>3, <2>7
    <3>2. Inner(R, rel) \subseteq R \ {x}
      BY <2>5, <3>1 DEF Inner
    <3>3. IsFiniteSet(R \ {x}) /\ Cardinality(R \ {x}) = Cardinality(R) - 1
      BY <2>4, <3>1, FS_RemoveElement
    <3>4. Cardinality(Inner(R, rel)) <= Cardinality(R \ {x})
      BY <3>2, <3>3, FS_Subset
    <3>5. IsFiniteSet(Inner(R, rel))
      BY <3>2, <3>3, FS_Subset
    <3>6. Cardinality(Inner(R, rel)) \in Nat
      BY <3>5, FS_CardinalityType
    <3>7. Cardinality(Inner(R, rel)) <= N - n
      BY <1>3, <2>3, <2>4, <3>3, <3>4, <3>6
    <3> QED
      BY <2>2, <2>3, <2>5, <3>7
  <2> QED
    BY <2>6, <2>7
<1>6. Bad = {}
  <2> SUFFICES ASSUME Bad # {} PROVE FALSE
    OBVIOUS
  <2>1. PICK k \in Bad : \A j \in Bad : k <= j
    <3>1. Bad \in SUBSET Nat
      OBVIOUS
    <3> HIDE DEF Bad
    <3> QED
      BY <3>1, LeastNat
  <2>2. k \in 0 .. N /\ ~Good(k)
    OBVIOUS
  <2>3. k # 0
    BY <1>4, <2>2
  <2>4. k \in 1 .. N /\ k - 1 \in 0 .. N
    BY <1>3, <2>2, <2>3
  <2>5. k - 1 \notin Bad
    <3> HIDE DEF Bad
    <3> QED
      BY <2>1, <2>4
  <2>6. Good(k - 1)
    BY <2>4, <2>5
  <2> QED
    BY <1>5, <2>2, <2>4, <2>6
<1>7. Good(N)
  BY <1>3, <1>6
<1>8. f[N] = {}
  <2>1. IsFiniteSet(f[N]) /\ Cardinality(f[N]) \in Nat
    BY <1>7, FS_Subset, FS_CardinalityType
  <2>2. Cardinality(f[N]) = 0
    BY <1>3, <1>7, <2>1
  <2> QED
    BY <2>1, <2>2, FS_EmptySet
<1> QED
  BY <1>2, <1>8

(***************************************************************************)
(* The pairs of operations that SameOrder is about.                        *)
(***************************************************************************)
PairsInTurn(tr) ==
  {z \in SyncPlaces(tr) \X SyncPlaces(tr) : z[1][1] = z[2][1] /\ z[1][2] < z[2][2]}

OpsInTurn(tr) ==
  {<<tr[z[1][1]][z[1][2]].op, tr[z[2][1]][z[2][2]].op>> : z \in PairsInTurn(tr)}

LEMMA ImageFinite ==
  ASSUME NEW S, IsFiniteSet(S), NEW f, f = [x \in S |-> f[x]]
  PROVE  IsFiniteSet({f[x] : x \in S})
<1>1. f \in Surjection(S, {f[x] : x \in S})
  BY DEF Surjection
<1> QED
  BY <1>1, FS_Surjection

LEMMA OpsFinite ==
  ASSUME NEW tr, IsProgram(tr)
  PROVE  IsFiniteSet(Ops(tr))
<1> DEFINE Own(p) == {p} \X {i \in DOMAIN tr[p] : tr[p][i].kind \in SyncKinds}
           All == {Own(p) : p \in Procs}
<1>1. IsFiniteSet(Procs)
  BY NProcsAssumption, FS_Interval DEF Procs
<1>2. ASSUME NEW p \in Procs
      PROVE  IsFiniteSet(Own(p))
  <2>1. DOMAIN tr[p] = 1 .. Len(tr[p]) /\ Len(tr[p]) \in Nat
    BY LenProperties DEF IsProgram, WellFormed
  <2>2. IsFiniteSet(DOMAIN tr[p])
    BY <2>1, FS_Interval
  <2>3. IsFiniteSet({i \in DOMAIN tr[p] : tr[p][i].kind \in SyncKinds})
    BY <2>2, FS_Subset
  <2>4. IsFiniteSet({p})
    BY FS_Singleton
  <2> QED
    BY <2>3, <2>4, FS_Product
<1>3. IsFiniteSet(All)
  <2>1. PICK f : f = [p \in Procs |-> Own(p)]
    OBVIOUS
  <2>2. f = [p \in Procs |-> f[p]] /\ All = {f[p] : p \in Procs}
    BY <2>1
  <2> HIDE DEF Own, All
  <2> QED
    BY <1>1, <2>2, ImageFinite
<1>4. IsFiniteSet(UNION All)
  <2>1. \A S \in All : IsFiniteSet(S)
    BY <1>2
  <2> HIDE DEF All
  <2> QED
    BY <1>3, <2>1, FS_UNION
<1>5. SyncPlaces(tr) = UNION All
  BY Zenon DEF SyncPlaces
<1>6. IsFiniteSet(SyncEvents(tr))
  <2>1. SyncEvents(tr) = {tr[x[1]][x[2]] : x \in SyncPlaces(tr)}
    BY DEF SyncEvents
  <2>2. IsFiniteSet(SyncPlaces(tr))
    BY <1>4, <1>5
  <2>3. PICK f : f = [x \in SyncPlaces(tr) |-> tr[x[1]][x[2]]]
    OBVIOUS
  <2>4. f = [x \in SyncPlaces(tr) |-> f[x]] /\ SyncEvents(tr) = {f[x] : x \in SyncPlaces(tr)}
    BY <2>1, <2>3
  <2> QED
    BY <2>2, <2>4, ImageFinite
<1>7. IsFiniteSet({e.op : e \in SyncEvents(tr)})
  <2>1. PICK f : f = [e \in SyncEvents(tr) |-> e.op]
    OBVIOUS
  <2>2. f = [e \in SyncEvents(tr) |-> f[e]]
        /\ {e.op : e \in SyncEvents(tr)} = {f[e] : e \in SyncEvents(tr)}
    BY <2>1
  <2> QED
    BY <1>6, <2>2, ImageFinite
<1> QED
  BY <1>7 DEF Ops

(***************************************************************************)
(* In a set of vertices each of which leads on inside it, the last vertex  *)
(* of every process leads an operation and leads to a follower.            *)
(***************************************************************************)
LeadsOn(T) ==
  /\ T \subseteq DOMAIN graph /\ root_ \notin T
  /\ \A x \in T : \E y \in T : <<x, y>> \in Range(edges)

LEMMA LastLeads ==
  ASSUME IInv, NotesInv, CrossEdges, Separable(program), NEW T, LeadsOn(T),
         NEW p \in Procs, NEW d \in T, d \in OwnVertices(p)
  PROVE  \E h, f \in T \cap SyncVertices :
           /\ graph[h].proc = p /\ d <= h /\ Leads(h)
           /\ ~Leads(f) /\ Op(f) = Op(h)
<1>1. DOMAIN graph = 1 .. Len(graph) /\ Len(graph) \in Nat
  BY SequenceFacts DEF IInv, GraphInv
<1>2. T \subseteq DOMAIN graph
  BY DEF LeadsOn
<1> DEFINE S == T \cap OwnVertices(p)
<1>3. S \in SUBSET (0 .. Len(graph)) /\ S # {}
  <2>1. \A x \in S : x \in 1 .. Len(graph)
    BY <1>1, <1>2
  <2>2. \A x \in 1 .. Len(graph) : x \in 0 .. Len(graph)
    BY <1>1
  <2> QED
    BY <2>1, <2>2
<1>4. PICK h \in S : \A x \in S : h >= x
  <2> HIDE DEF S
  <2> QED
    BY <1>1, <1>3, GreatestNat
<1>5. PICK y \in T : <<h, y>> \in Range(edges)
  BY DEF LeadsOn
<1>6. h \in DOMAIN graph /\ y \in DOMAIN graph /\ y \in Nat /\ h \in Nat /\ d \in Nat
      /\ graph[h].type # "synthetic" /\ graph[h].proc = p
  BY <1>1, <1>2 DEF OwnVertices
<1>7. graph[y].type # "synthetic"
  <2>1. PICK z \in T : <<y, z>> \in Range(edges)
    BY DEF LeadsOn
  <2>2. graph[y].type = "synthetic" => y = root_
    BY <2>1 DEF NotesInv
  <2> QED
    BY <2>2 DEF LeadsOn
<1>8. graph[y].proc # p
  <2> SUFFICES ASSUME graph[y].proc = p PROVE FALSE
    OBVIOUS
  <2>1. y \in OwnVertices(p) /\ h \in OwnVertices(p)
    BY <1>6, <1>7 DEF OwnVertices
  <2>2. h < y
    BY <1>5, <2>1 DEF IInv, ProgramOrderChained, IsNext
  <2>3. h >= y
    BY <1>4, <2>1
  <2> QED
    BY <1>6, <2>2, <2>3
<1>9. /\ h \in SyncVertices /\ y \in SyncVertices
      /\ Leads(h) /\ ~Leads(y) /\ Op(h) = Op(y)
  BY <1>5, <1>6, <1>7, <1>8 DEF CrossEdges
<1>10. d <= h
  BY <1>4, <1>6
<1> QED
  BY <1>6, <1>9, <1>10

LEMMA AcyclicFollows ==
  ASSUME IInv, NotesInv, CrossEdges
  PROVE  OrderedAcyclic
<1> SUFFICES ASSUME Separable(program), SameOrder(program)
    PROVE  HasNoCycle(DOMAIN graph, Range(edges))
  BY DEF OrderedAcyclic
<1>1. IsProgram(program)
  BY ProgramsAssumption DEF IInv, ReadingInv
<1>2. HasNoCycle(Ops(program), OpsInTurn(program))
  BY Zenon DEF SameOrder, OpsInTurn, PairsInTurn
<1>3. ASSUME NEW T, LeadsOn(T), T # {}
      PROVE  FALSE
  <2> DEFINE O == {Op(d) : d \in T \cap SyncVertices}
  <2>1. PICK x \in T : TRUE
    BY <1>3
  <2>2. ASSUME NEW x1 \in T
        PROVE  graph[x1].type # "synthetic" /\ graph[x1].proc \in Procs
               /\ x1 \in OwnVertices(graph[x1].proc)
    <3>1. x1 \in DOMAIN graph /\ x1 # root_ /\ \E y \in T : <<x1, y>> \in Range(edges)
      BY <1>3 DEF LeadsOn
    <3>2. graph[x1].type # "synthetic"
      BY <3>1 DEF NotesInv
    <3> QED
      BY <3>1, <3>2 DEF IInv, GraphInv, GoodVertex, OwnVertices
  <2>3. O # {}
    <3>1. \E h \in T : h \in SyncVertices
      BY <1>3, <2>1, <2>2, LastLeads
    <3> QED
      BY <3>1
  <2>4. ASSUME NEW d \in SyncVertices
        PROVE  /\ <<graph[d].proc, graph[d].timestamp>> \in SyncPlaces(program)
               /\ Op(d) \in Ops(program)
    <3>1. /\ graph[d].proc \in Procs
          /\ graph[d].timestamp \in SyncCalls(program[graph[d].proc])
          /\ Op(d) = program[graph[d].proc][graph[d].timestamp].op
      BY <2>4, SyncFacts
    <3>2. <<graph[d].proc, graph[d].timestamp>> \in SyncPlaces(program)
      BY <3>1 DEF SyncPlaces, SyncCalls
    <3>3. program[graph[d].proc][graph[d].timestamp] \in SyncEvents(program)
      BY <3>2 DEF SyncEvents
    <3> QED
      BY <3>1, <3>2, <3>3 DEF Ops
  <2>5. O \in SUBSET Ops(program)
    BY <2>4
  <2>6. PICK o \in O : \A w \in O : <<o, w>> \notin OpsInTurn(program)
    <3> HIDE DEF O
    <3> QED
      BY <1>1, <1>2, <2>3, <2>5, OpsFinite, NoCycleLast
  <2>7. ASSUME NEW d \in T \cap SyncVertices, Op(d) = o
        PROVE  Leads(d) /\ \E f \in T \cap SyncVertices : ~Leads(f) /\ Op(f) = o
    <3>1. PICK h, f \in T \cap SyncVertices :
            /\ graph[h].proc = graph[d].proc /\ d <= h /\ Leads(h)
            /\ ~Leads(f) /\ Op(f) = Op(h)
      BY <1>3, <2>2, LastLeads
    <3>2. ~(d < h)
      <4> SUFFICES ASSUME d < h PROVE FALSE
        OBVIOUS
      <4>1. PICK p, i, j : p = graph[d].proc /\ i = graph[d].timestamp /\ j = graph[h].timestamp
        OBVIOUS
      <4>2. d \in SyncsOf(p) /\ h \in SyncsOf(p) /\ p \in Procs
        BY <3>1, <4>1, SyncFacts
      <4>3. i < j
        BY <4>1, <4>2, Timely
      <4>4. <<p, i>> \in SyncPlaces(program) /\ <<p, j>> \in SyncPlaces(program)
        BY <2>4, <3>1, <4>1
      <4>5. Op(d) = program[p][i].op /\ Op(h) = program[p][j].op
        BY <3>1, <4>1 DEF Op
      <4>6. <<<<p, i>>, <<p, j>>>> \in PairsInTurn(program)
        BY <4>3, <4>4 DEF PairsInTurn
      <4>7. <<program[p][i].op, program[p][j].op>> \in OpsInTurn(program)
        BY <4>6 DEF OpsInTurn
      <4> QED
        BY <2>6, <2>7, <4>5, <4>7
    <3>3. d \in Nat /\ h \in Nat
      BY SyncFacts
    <3>4. d = h
      BY <3>1, <3>2, <3>3
    <3> QED
      BY <2>7, <3>1, <3>4
  <2>8. PICK d \in T \cap SyncVertices : Op(d) = o
    OBVIOUS
  <2>9. PICK f \in T \cap SyncVertices : ~Leads(f) /\ Op(f) = o
    BY <2>7, <2>8
  <2> QED
    BY <2>7, <2>9
<1>4. ASSUME NEW T \in SUBSET DOMAIN graph, T # {},
             \A x \in T : \E y \in T : <<x, y>> \in Range(edges)
      PROVE  FALSE
  <2>1. \A x : <<x, root_>> \notin Range(edges)
    BY DEF IInv, EdgesInv
  <2>2. LeadsOn(T \ {root_})
    BY <1>4, <2>1 DEF LeadsOn
  <2>3. T \ {root_} # {}
    <3>1. PICK x \in T : TRUE
      BY <1>4
    <3>2. PICK y \in T : <<x, y>> \in Range(edges)
      BY <1>4
    <3>3. y # root_
      BY <2>1, <3>2
    <3> QED
      BY <3>3
  <2> QED
    BY <1>3, <2>2, <2>3
<1>5. IsFiniteSet(DOMAIN graph)
  <2>1. DOMAIN graph = 1 .. Len(graph) /\ Len(graph) \in Nat
    BY SequenceFacts DEF IInv, GraphInv
  <2> QED
    BY <2>1, FS_Interval
<1> QED
  BY <1>4, <1>5, LastNoCycle

(***************************************************************************)
(* If all processes agree on the order of synchronisations, and these can  *)
(* be told apart, the edges that events_done adds never close a cycle: the *)
(* graph handed to the search is acyclic.                                  *)
(***************************************************************************)
THEOREM Acyclic == Spec => []OrderedAcyclic
<1>1. Init => IInv /\ NotesInv /\ MatchedInv
  BY SyncInitially
<1>2. IInv /\ NotesInv /\ MatchedInv /\ [Next]_vars => IInv' /\ NotesInv' /\ MatchedInv'
  BY SyncInductive
<1>3. IInv /\ NotesInv /\ MatchedInv => OrderedAcyclic
  BY AcyclicFollows DEF MatchedInv
<1> QED
  BY <1>1, <1>2, <1>3, PTL DEF Spec

=============================================================================
