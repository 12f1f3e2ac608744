--------------------------- MODULE IoGraphBuilder ---------------------------
(***************************************************************************)
(* io_graph_builder: one action for every handler of trace events, in any  *)
(* order in which the reader may merge the events of the processes, before *)
(* that the registration of locations, and then the matching of            *)
(* synchronisations.                                                       *)
(***************************************************************************)
EXTENDS SyncMatching, RankMapping

CONSTANT Programs   \* the traces considered

ASSUME ProgramsAssumption == \A tr \in Programs : IsProgram(tr)

VARIABLES
  program,            \* the trace that is read, chosen once
  pos,                \* number of events read of every process
  region_name_queue,  \* region_name_queue_: a stack of regions per process
  call_stack,         \* call_stack_: a queue of frames per process
  io_ops_started,     \* io_ops_started_: a queue of operations per process
  offset_map          \* offset_map_: file -> offset, per process

locals == <<region_name_queue, call_stack, io_ops_started, offset_map>>
vars == <<program, pos, locals, mapping_vars, graph, edges, edge_points, synchronizations,
          times, cursor, num_locations, status>>

NoSpan == <<>>   \* the duration of a vertex whose region has not been left
Frame(now) == [enter |-> now, vertex |-> NullVertex]

Init ==
  /\ program \in Programs
  /\ pos = [p \in Procs |-> 0]
  /\ region_name_queue = [p \in Procs |-> <<>>]
  /\ call_stack = [p \in Procs |-> <<>>]
  /\ io_ops_started = [p \in Procs |-> <<>>]
  /\ offset_map = [p \in Procs |-> <<>>]
  /\ graph = <<Synthetic("Root")>>
  /\ edges = <<>>
  /\ edge_points = [p \in Procs |-> <<>>]
  /\ synchronizations = [p \in Procs |-> <<>>]
  /\ times = [total |-> 0, io |-> 0, metadata |-> 0]
  /\ cursor = FirstCursor
  /\ num_locations = Uninitialised
  /\ MappingInit
  /\ status = "definitions"

-----------------------------------------------------------------------------
(***************************************************************************)
(* definitions_done registers the locations of the trace; then the reader  *)
(* goes on with the events.                                                *)
(***************************************************************************)
RegisterLocation ==
  /\ status = "definitions"
  /\ \E p \in Procs : register_location(p)
  /\ UNCHANGED <<program, pos, locals, graph, edges, edge_points, synchronizations,
                 times, cursor, num_locations, status>>

DefinitionsDone ==
  /\ status = "definitions"
  /\ \A p \in Procs : ~Unregistered(p)
  /\ status' = "events"
  /\ UNCHANGED <<program, pos, locals, mapping_vars, graph, edges, edge_points,
                 synchronizations, times, cursor, num_locations>>

DefinitionsNext == RegisterLocation \/ DefinitionsDone

-----------------------------------------------------------------------------
(***************************************************************************)
(* The reader hands over the next event of process p, of a certain kind.   *)
(* A region stands for its enter event: its name is the place of that.     *)
(***************************************************************************)
Now(p) == pos[p] + 1
evt(p) == program[p][Now(p)]

Reads(p, kinds) ==
  /\ status = "events"
  /\ Now(p) \in DOMAIN program[p]
  /\ evt(p).kind \in kinds
  /\ pos' = [pos EXCEPT ![p] = @ + 1]
  /\ UNCHANGED <<program, mapping_vars, cursor, num_locations>>

Name(p) == evt(p).handle.file
IsMpiIo(p) == evt(p).handle.paradigm = "MPI-IO"
Discarded(p) == IsMpiIo(p) \/ evt(p).handle.parent

region_name(p) == Last(region_name_queue[p])

(* Faulty variant of build_edge: the old vertex is never removed. *)
build_edge_to_first(p, d) ==
  IF edge_points[p] = <<>>
  THEN /\ AddEdge(root_, d)
       /\ edge_points' = [edge_points EXCEPT ![p] = <<d>>]
  ELSE /\ AddEdge(Head(edge_points[p]), d)
       /\ UNCHANGED edge_points

build_edge(p, d) ==
  IF edge_points[p] = <<>>
  THEN /\ AddEdge(root_, d)
       /\ edge_points' = [edge_points EXCEPT ![p] = Append(@, d)]
  ELSE /\ AddEdge(Head(edge_points[p]), d)
       /\ edge_points' = [edge_points EXCEPT ![p] = Append(Tail(@), d)]

(***************************************************************************)
(* What all handlers that add a vertex end with.  The vertex is noted in   *)
(* the frame at the front of the queue of frames.                          *)
(***************************************************************************)
AddVertex(p, v) ==
  LET d == Len(graph) + 1 IN
  /\ graph' = Append(graph, v)
  /\ build_edge(p, d)
  /\ call_stack' = [call_stack EXCEPT ![p][1].vertex = d]
  /\ UNCHANGED <<region_name_queue, times>>

IoEvent(p, name, kind, size, offset) ==
  [type |-> "io_event", proc |-> p, region |-> region_name(p), filename |-> name,
   kind |-> kind, response_size |-> size, offset |-> offset, timestamp |-> Now(p),
   duration |-> NoSpan]

AddIoEvent(p, name, kind, size, offset) ==
  /\ AddVertex(p, IoEvent(p, name, kind, size, offset))
  /\ UNCHANGED <<synchronizations, status>>

SyncEvent(p, comm_kind, remote, members, root) ==
  [type |-> "sync_event", proc |-> p, region |-> region_name(p), comm_kind |-> comm_kind,
   remote |-> remote, members |-> members, root |-> root, root_event |-> NullVertex,
   timestamp |-> Now(p), duration |-> NoSpan]

AddSyncEvent(p, v) ==
  /\ AddVertex(p, v)
  /\ synchronizations' = [synchronizations EXCEPT ![p] = Append(@, Len(graph) + 1)]
  /\ UNCHANGED <<io_ops_started, offset_map, status>>

Ignore ==
  UNCHANGED <<locals, graph, edges, edge_points, synchronizations, times, status>>

(* assert: the program stops there. *)
Abort ==
  /\ status' = "aborted"
  /\ UNCHANGED <<locals, graph, edges, edge_points, synchronizations, times>>

-----------------------------------------------------------------------------
(***************************************************************************)
(* Regions                                                                 *)
(***************************************************************************)
Enter(p) ==
  /\ Reads(p, {"enter"})
  /\ call_stack' = [call_stack EXCEPT ![p] = Append(@, Frame(Now(p)))]
  /\ region_name_queue' = [region_name_queue EXCEPT ![p] = Append(@, Now(p))]
  /\ UNCHANGED <<io_ops_started, offset_map, graph, edges, edge_points,
                 synchronizations, times, status>>

(* Faulty variant of Leave: the frame stays in the queue. *)
LeaveFrame(p) ==
  LET frame == Head(call_stack[p])
      span  == Now(p) - frame.enter
  IN /\ Reads(p, {"leave"})
     /\ graph' = IF frame.vertex = NullVertex THEN graph
                 ELSE [graph EXCEPT ![frame.vertex].duration = <<frame.enter, Now(p)>>]
     /\ times' = [times EXCEPT !.total = @ + span]
     /\ region_name_queue' = [region_name_queue EXCEPT ![p] = Front(@)]
     /\ UNCHANGED <<call_stack, io_ops_started, offset_map, edges, edge_points,
                    synchronizations, status>>

Leave(p) ==
  LET frame == Head(call_stack[p])
      span  == Now(p) - frame.enter
      In(role) == IF evt(p).role = role THEN span ELSE 0
  IN /\ Reads(p, {"leave"})
     /\ graph' = IF frame.vertex = NullVertex THEN graph
                 ELSE [graph EXCEPT ![frame.vertex].duration = <<frame.enter, Now(p)>>]
     /\ times' = [total    |-> times.total + span,
                  io       |-> times.io + In("file_io"),
                  metadata |-> times.metadata + In("file_io_metadata")]
     /\ region_name_queue' = [region_name_queue EXCEPT ![p] = Front(@)]
     /\ call_stack' = [call_stack EXCEPT ![p] = Tail(@)]
     /\ UNCHANGED <<io_ops_started, offset_map, edges, edge_points, synchronizations,
                    status>>

-----------------------------------------------------------------------------
(***************************************************************************)
(* I/O.  offset_map_ keeps one offset for a file name; looking a name up   *)
(* creates an entry.                                                       *)
(***************************************************************************)
Tracked(p, name) ==
  IF name \in DOMAIN offset_map[p] THEN offset_map[p][name] ELSE 0

Assign(f, name, n) == [x \in DOMAIN f \cup {name} |-> IF x = name THEN n ELSE f[x]]

(* Faulty variant of SetOffset: one offset for all processes. *)
SetOffsetEverywhere(p, name, n) ==
  offset_map' = [q \in Procs |-> Assign(offset_map[q], name, n)]

SetOffset(p, name, n) == offset_map' = [offset_map EXCEPT ![p] = Assign(@, name, n)]

EraseOffset(p, name) ==
  offset_map' = [offset_map EXCEPT ![p] = Restrict(@, DOMAIN @ \ {name})]

OperationBegin(p) ==
  /\ Reads(p, {"io_operation_begin"})
  /\ io_ops_started' = IF IsMpiIo(p) THEN io_ops_started
                       ELSE [io_ops_started EXCEPT ![p] = Append(@, evt(p))]
  /\ UNCHANGED <<region_name_queue, call_stack, offset_map, graph, edges, edge_points,
                 synchronizations, times, status>>

(* Faulty variant: the offset of a completed read does not move. *)
AdvancedByWrites(p, begin) ==
  Wrap(Tracked(p, Name(p)) + (IF begin.mode = "write" THEN evt(p).bytes ELSE 0))

(* The offset after the operation: flushing does not move it. *)
Advanced(p, begin) ==
  Wrap(Tracked(p, Name(p)) + (IF begin.mode \in {"read", "write"} THEN evt(p).bytes ELSE 0))

(***************************************************************************)
(* An operation is completed by the first one that was begun; the vertex   *)
(* gets the offset after the operation.                                    *)
(***************************************************************************)
OperationComplete(p) ==
  LET begin == Head(io_ops_started[p]) IN
  /\ Reads(p, {"io_operation_complete"})
  /\ IF IsMpiIo(p) THEN Ignore
     ELSE IF evt(p).matching_id # begin.matching_id THEN Abort
     ELSE /\ SetOffset(p, Name(p), Advanced(p, begin))
          /\ AddIoEvent(p, Name(p), begin.mode, evt(p).bytes, Advanced(p, begin))
          /\ io_ops_started' = [io_ops_started EXCEPT ![p] = Tail(@)]

(* Faulty variant of CreateHandle: no offset tracker is made. *)
CreateUntracked(p) ==
  /\ Reads(p, {"io_create_handle"})
  /\ IF Discarded(p) THEN Ignore
     ELSE /\ AddIoEvent(p, Name(p), "create", 0, 0)
          /\ UNCHANGED <<io_ops_started, offset_map>>

CreateHandle(p) ==
  /\ Reads(p, {"io_create_handle"})
  /\ IF Discarded(p) THEN Ignore
     ELSE /\ SetOffset(p, Name(p), 0)
          /\ AddIoEvent(p, Name(p), "create", 0, 0)
          /\ UNCHANGED io_ops_started

(* Deleting a file and destroying a handle both drop the offset. *)
Drop(p, name) ==
  IF name \notin DOMAIN offset_map[p] THEN Abort
  ELSE /\ EraseOffset(p, name)
       /\ AddIoEvent(p, name, "delete_or_close", 0, 0)
       /\ UNCHANGED io_ops_started

DeleteFile(p) ==
  /\ Reads(p, {"io_delete_file"})
  /\ Drop(p, evt(p).file)

DestroyHandle(p) ==
  /\ Reads(p, {"io_destroy_handle"})
  /\ IF Discarded(p) THEN Ignore ELSE Drop(p, Name(p))

DuplicateHandle(p) ==
  /\ Reads(p, {"io_duplicate_handle"})
  /\ AddIoEvent(p, Name(p), "dup", 0, 0)
  /\ UNCHANGED <<io_ops_started, offset_map>>

Seek(p) ==
  /\ Reads(p, {"io_seek"})
  /\ IF IsMpiIo(p) THEN Ignore
     ELSE /\ SetOffset(p, Name(p), evt(p).offset)
          /\ AddIoEvent(p, Name(p), "seek", evt(p).offset, evt(p).offset)
          /\ UNCHANGED io_ops_started

-----------------------------------------------------------------------------
(***************************************************************************)
(* Synchronisation.  A self group has no members, and its collectives are  *)
(* skipped.  The group of any other communicator has the process itself as *)
(* a member, which is what the handler asserts after that.  The four       *)
(* handlers of messages differ only in what they call the partner.         *)
(***************************************************************************)
CollectiveEnd(p) ==
  /\ Reads(p, {"mpi_collective_end"})
  /\ IF evt(p).members = <<>> THEN Ignore
     ELSE AddSyncEvent(p, SyncEvent(p, "collective", p, evt(p).members, evt(p).root))

PeerToPeer(p) ==
  /\ Reads(p, PeerKinds)
  /\ AddSyncEvent(p, SyncEvent(p, "p2p", evt(p).remote, <<>>, NoRoot))

Other(p) ==
  /\ Reads(p, {"other"})
  /\ Ignore

EventsDone ==
  /\ status = "events"
  /\ \A p \in Procs : pos[p] = Len(program[p])
  /\ create_synthetic_end
  /\ UNCHANGED <<program, pos, locals, mapping_vars, edge_points, synchronizations,
                 times, cursor, num_locations>>

EventNext ==
  \E p \in Procs :
    \/ Enter(p) \/ Leave(p)
    \/ OperationBegin(p) \/ OperationComplete(p)
    \/ CreateHandle(p) \/ DeleteFile(p) \/ DestroyHandle(p) \/ DuplicateHandle(p) \/ Seek(p)
    \/ CollectiveEnd(p) \/ PeerToPeer(p)
    \/ Other(p)

Match == MatchingNext /\ UNCHANGED <<program, pos, locals, mapping_vars>>

Next == DefinitionsNext \/ EventNext \/ EventsDone \/ Match

Spec == Init /\ [][Next]_vars

(***************************************************************************)
(* Single-threaded: the reader delivers events until there are none, and   *)
(* the builder executes the next statement.                                *)
(***************************************************************************)
FairSpec == Spec /\ WF_vars(Next)
=============================================================================
