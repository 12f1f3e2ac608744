-------------------------- MODULE BuilderProperties --------------------------
(***************************************************************************)
(* What the graph should say about the trace it was built from.            *)
(***************************************************************************)
EXTENDS IoGraphBuilder

Failed == {"aborted", "undefined", "returned"}

TypeOK ==
  /\ \A p \in Procs :
       /\ pos[p] \in 0 .. Len(program[p])
       /\ Len(region_name_queue[p]) = Depth(program[p], pos[p])
       /\ Len(call_stack[p]) = Depth(program[p], pos[p])
       /\ Len(edge_points[p]) <= 1
       /\ Range(synchronizations[p]) \cup Range(edge_points[p]) \subseteq DOMAIN graph
       /\ \A d \in Range(synchronizations[p]) :
            graph[d].type = "sync_event" /\ graph[d].proc = p
       /\ Range(offset_map[p]) \subseteq 0 .. MaxOffset
  /\ Range(edges) \subseteq (DOMAIN graph) \X (DOMAIN graph)
  /\ num_locations \in {NProcs, Uninitialised}
  /\ status \in {"definitions", "events", "matching", "done"} \cup Failed

-----------------------------------------------------------------------------
(***************************************************************************)
(* "ranks > locations: #locations ranks are used the other idle", "ranks < *)
(* locations: 1 : N" (mapping.hpp:20): whatever the order in which the     *)
(* locations are defined, the two maps are inverse to each other, every    *)
(* location has one rank, the idle ranks, at which to_location would read  *)
(* through the end iterator, are those that are too many, and no rank has  *)
(* two locations more than another.                                        *)
(***************************************************************************)
MappingRight ==
  status # "definitions" =>
    LET size(r) == Cardinality(local_locations(r))
        ranks == 0 .. NRanks - 1
    IN /\ rank_to_loc = {<<x[2], x[1]>> : x \in loc_to_rank}
       /\ \A p \in Procs : \E r \in ranks : {x \in loc_to_rank : x[1] = p} = {<<p, r>>}
       /\ \A r \in ranks : size(r) = 0 <=> r >= NProcs
       /\ \A r, s \in ranks : size(r) <= size(s) + 1

-----------------------------------------------------------------------------
(***************************************************************************)
(* Program order                                                           *)
(***************************************************************************)
OwnVertices(p) == {d \in DOMAIN graph : graph[d].type # "synthetic" /\ graph[d].proc = p}

IsNext(p, d, e) == d < e /\ \A x \in OwnVertices(p) : x <= d \/ e <= x
IsFirst(p, d) == \A x \in OwnVertices(p) : d <= x
IsLast(p, d) == \A x \in OwnVertices(p) : x <= d

LeadsToEnd(d) ==
  \E e \in DOMAIN graph : graph[e].type = "synthetic" /\ <<d, e>> \in Range(edges)

(***************************************************************************)
(* However the events of the processes are interleaved, the vertices of    *)
(* one process form a chain in program order that starts at the synthetic  *)
(* root and ends, once all events are read, at the synthetic end.          *)
(***************************************************************************)
ProgramOrderChained ==
  \A p \in Procs :
    /\ \A d, e \in OwnVertices(p) :
         /\ d < e => graph[d].timestamp < graph[e].timestamp
         /\ <<d, e>> \in Range(edges) <=> IsNext(p, d, e)
    /\ \A d \in OwnVertices(p) : <<root_, d>> \in Range(edges) <=> IsFirst(p, d)
    /\ status \in {"matching", "done", "returned"} =>
         \A d \in OwnVertices(p) : LeadsToEnd(d) <=> IsLast(p, d)

-----------------------------------------------------------------------------
(***************************************************************************)
(* Regions and durations                                                   *)
(***************************************************************************)
LeaveOf(s, i) == Min({j \in i + 1 .. Len(s) : Depth(s, j) < Depth(s, i)})

FlatRegions(s) == \A i \in DOMAIN s : Depth(s, i) <= 1

(***************************************************************************)
(* "durations for each I/O event" (modules/README.md): the duration noted  *)
(* at a vertex is that of the region the vertex is named after.            *)
(***************************************************************************)
DurationOfOwnRegion(d) ==
  graph[d].type # "synthetic" /\ graph[d].duration # NoSpan =>
    graph[d].duration =
      <<graph[d].region, LeaveOf(program[graph[d].proc], graph[d].region)>>

DurationsOfOwnRegions == \A d \in DOMAIN graph : DurationOfOwnRegion(d)

(***************************************************************************)
(* It is so in processes whose regions do not nest: the stack that names   *)
(* the regions and the queue that measures them agree there.               *)
(***************************************************************************)
FlatDurationsRight ==
  \A d \in DOMAIN graph :
    graph[d].type # "synthetic" /\ FlatRegions(program[graph[d].proc])
      => DurationOfOwnRegion(d)

(***************************************************************************)
(* The totals are the times spent in the regions left so far, and of those *)
(* in regions of file I/O.  Where regions nest, the queue measures them    *)
(* with each other's ends, and the total is right only once all are left.  *)
(***************************************************************************)
TimeIn(p, roles) ==
  LET s == program[p]
      left == {i \in 1 .. pos[p] : /\ s[i].kind = "enter"
                                   /\ LeaveOf(s, i) <= pos[p]
                                   /\ s[LeaveOf(s, i)].role \in roles}
  IN MapThenSumSet(LAMBDA i : LeaveOf(s, i) - i, left)

TimesRight ==
  LET TimeOf(roles) == MapThenSumSet(LAMBDA p : TimeIn(p, roles), Procs)
      total == TimeOf({"file_io", "file_io_metadata", "other"})
  IN /\ (\A p \in Procs : Depth(program[p], pos[p]) = 0) => times.total = total
     /\ (\A p \in Procs : FlatRegions(program[p])) =>
          times = [total |-> total, io |-> TimeOf({"file_io"}),
                   metadata |-> TimeOf({"file_io_metadata"})]

-----------------------------------------------------------------------------
(***************************************************************************)
(* Files                                                                   *)
(***************************************************************************)
OpenAt(s, i) ==
  {s[j].handle : j \in {k \in 1 .. i - 1 :
     /\ s[k].kind = "io_create_handle"
     /\ \A n \in k + 1 .. i - 1 :
          ~(s[n].kind = "io_destroy_handle" /\ s[n].handle = s[k].handle)}}

TrackedHandle(h) == h.paradigm # "MPI-IO" /\ ~h.parent

(***************************************************************************)
(* The process uses at most one POSIX handle of a file at a time, neither  *)
(* duplicates handles nor deletes files, and its operations complete in    *)
(* the order in which they begin.                                          *)
(***************************************************************************)
OneHandlePerFile(s) ==
  \A i \in DOMAIN s : s[i].kind \in IoKinds =>
    /\ s[i].kind \notin {"io_duplicate_handle", "io_delete_file"}
    /\ s[i].kind = "io_create_handle" /\ TrackedHandle(s[i].handle) =>
         \A h \in OpenAt(s, i) : TrackedHandle(h) => h.file # s[i].handle.file
    /\ s[i].kind # "io_create_handle" =>
         s[i].handle \in OpenAt(s, i)
    /\ s[i].handle.paradigm # "MPI-IO" => ~s[i].handle.parent

InOrder(s) ==
  LET Completion(i) ==
        s[i].kind = "io_operation_complete" /\ s[i].handle.paradigm # "MPI-IO"
  IN \A i, j \in DOMAIN s :
       Completion(i) /\ Completion(j) /\ i < j => BeginOf(s, i) < BeginOf(s, j)

(***************************************************************************)
(* The file position that POSIX defines for handle h, after n events.      *)
(***************************************************************************)
Moved(s, h, n, before) ==
  CASE s[n].kind = "io_create_handle" /\ s[n].handle = h -> 0
    [] s[n].kind = "io_seek" /\ s[n].handle = h -> s[n].offset
    [] /\ s[n].kind = "io_operation_complete" /\ s[n].handle = h
       /\ s[BeginOf(s, n)].mode # "flush" -> Wrap(before + s[n].bytes)
    [] OTHER -> before

Position(s, h) ==
  LET after[n \in 0 .. Len(s)] == IF n = 0 THEN 0 ELSE Moved(s, h, n, after[n - 1])
  IN after

(***************************************************************************)
(* The offset of a read or write is the position after it: the analysis    *)
(* takes offset - response_size .. offset for the bytes touched            *)
(* (overlap.py, make_intervaltree).                                        *)
(***************************************************************************)
OffsetsRight ==
  \A d \in DOMAIN graph :
    LET v == graph[d]
        s == program[v.proc]
    IN /\ v.type = "io_event"
       /\ v.kind \in {"read", "write", "flush"}
       /\ OneHandlePerFile(s)
       => v.offset = Position(s, s[v.timestamp].handle)[v.timestamp]

-----------------------------------------------------------------------------
(***************************************************************************)
(* Synchronisation                                                         *)
(***************************************************************************)
Op(d) == program[graph[d].proc][graph[d].timestamp].op

SyncVertices == {d \in DOMAIN graph : graph[d].type = "sync_event"}

(***************************************************************************)
(* Peeling: a relation has no cycle when repeatedly taking away the        *)
(* elements without successor leaves nothing.                              *)
(***************************************************************************)
HasNoCycle(S, rel) ==
  LET core[n \in 0 .. Cardinality(S)] ==
        IF n = 0 THEN S
        ELSE LET rest == core[n - 1]
             IN {x \in rest : \E y \in rest : <<x, y>> \in rel}
  IN core[Cardinality(S)] = {}

(* Which process draws the edges of a collective, by the test of the code. *)
Drawer(e) ==
  IF e.root <= Len(e.members) THEN e.root ELSE Min(MembersOf(e.members))

(***************************************************************************)
(* The traces whose synchronisations the two searches can tell apart: any  *)
(* two collectives with a common member have the same members, and the     *)
(* same one of them draws their edges; and two processes record the        *)
(* collectives they share in the same order, and the messages between them *)
(* too.                                                                    *)
(***************************************************************************)
SyncEvents(tr) == {tr[x[1]][x[2]] : x \in SyncPlaces(tr)}

SameTurns(s, t) ==
  \A i, j \in SyncCalls(s) : \A k, l \in SyncCalls(t) :
    /\ s[i].op = t[k].op /\ s[j].op = t[l].op
    /\ s[i].kind = "mpi_collective_end" <=> s[j].kind = "mpi_collective_end"
    /\ i < j
    => k < l

Separable(tr) ==
  /\ \A d, e \in {f \in SyncEvents(tr) : f.kind = "mpi_collective_end"} :
       MembersOf(d.members) \cap MembersOf(e.members) # {} =>
         /\ d.members = e.members
         /\ Drawer(d) = Drawer(e) /\ Drawer(e) \in MembersOf(e.members)
  /\ \A p, q \in Procs : p # q => SameTurns(tr[p], tr[q])

(* No process takes part in two operations in one order, some others in    *)
(* the other order.                                                        *)
Ops(tr) == {e.op : e \in SyncEvents(tr)}

SameOrder(tr) ==
  LET InTurn == {z \in SyncPlaces(tr) \X SyncPlaces(tr) :
                   z[1][1] = z[2][1] /\ z[1][2] < z[2][2]}
      op(x) == tr[x[1]][x[2]].op
  IN HasNoCycle(Ops(tr), {<<op(z[1]), op(z[2])>> : z \in InTurn})

(***************************************************************************)
(* The visitor asserts that every synchronisation has a root event         *)
(* (cio_types.hpp:222 and :254).                                           *)
(***************************************************************************)
RootEventsSet ==
  status = "done" => \A d \in SyncVertices : graph[d].root_event # NullVertex

(***************************************************************************)
(* Once the builder is done, the vertices of an operation share a root     *)
(* event, and vertices of different operations do not.                     *)
(***************************************************************************)
MatchedAsExecuted ==
  status = "done" /\ Separable(program) =>
    /\ RootEventsSet
    /\ \A d, e \in SyncVertices :
         graph[d].root_event = graph[e].root_event <=> Op(d) = Op(e)

(***************************************************************************)
(* The graph of a trace in which all processes agree on the order of       *)
(* synchronisations, and whose synchronisations can be told apart, is      *)
(* acyclic at every step of the matching.                                  *)
(***************************************************************************)
OrderedAcyclic ==
  status \in {"matching", "done"} /\ Separable(program) /\ SameOrder(program) =>
    HasNoCycle(DOMAIN graph, Range(edges))

-----------------------------------------------------------------------------
(***************************************************************************)
(* Outcome                                                                 *)
(***************************************************************************)
SomeVertex(s) ==
  \E i \in DOMAIN s :
    \/ s[i].kind \in PeerKinds \cup {"io_duplicate_handle", "io_delete_file"}
    \/ s[i].kind = "mpi_collective_end" /\ s[i].members # <<>>
    \/ /\ s[i].kind \in {"io_create_handle", "io_operation_complete", "io_seek"}
       /\ TrackedHandle(s[i].handle)

Sound(tr) ==
  /\ \A p \in Procs : OneHandlePerFile(tr[p]) /\ InOrder(tr[p]) /\ SomeVertex(tr[p])
  /\ \E p \in Procs : \E i \in DOMAIN tr[p] :
       tr[p][i].kind = "leave" /\ tr[p][i].role = "other"
  /\ Separable(tr)
  /\ \A x \in SyncPlaces(tr) :
       LET e == tr[x[1]][x[2]] IN e.kind \in PeerKinds => e.remote # x[1]

(***************************************************************************)
(* A trace without the peculiarities named above is read to the end: no    *)
(* assertion fails, nothing is undefined, and every search finds what it   *)
(* looks for.                                                              *)
(***************************************************************************)
SoundTracesSucceed == status \in Failed => ~Sound(program)

(***************************************************************************)
(* The handlers assert that deleting a file or destroying a handle finds   *)
(* an offset tracker (otf2_io_graph_builder.cpp:336 and :379); the one for *)
(* opening says that it checks "that there is no existing offset_tracker   *)
(* for this file" (:290).                                                  *)
(***************************************************************************)
OffsetTrackerExists ==
  \A p \in Procs :
    /\ status = "events" /\ Now(p) \in DOMAIN program[p]
    => /\ evt(p).kind = "io_delete_file" => evt(p).file \in DOMAIN offset_map[p]
       /\ evt(p).kind = "io_destroy_handle" /\ ~Discarded(p) =>
            Name(p) \in DOMAIN offset_map[p]

(***************************************************************************)
(* The builder comes to an end on every trace.                             *)
(***************************************************************************)
Completes == <>(status \notin {"definitions", "events", "matching"})
=============================================================================
