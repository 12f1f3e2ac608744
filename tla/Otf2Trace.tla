------------------------------ MODULE Otf2Trace ------------------------------
(***************************************************************************)
(* The input of the graph builder: an OTF2 trace of an MPI program, as far *)
(* as the handlers of io_graph_builder read it.  Neither the tracer nor    *)
(* the reader is part of the repository; what is said here of traces is    *)
(* what the handlers rely on.                                              *)
(*                                                                         *)
(* A trace is one sequence of event records for every process; the         *)
(* timestamp of an event is its place in that sequence.  Synchronisation   *)
(* events carry a field op, which names the MPI operation they belong to:  *)
(* knowledge about the traced program that the builder does not have.      *)
(***************************************************************************)
EXTENDS IoGraph, Sequences

CONSTANT MaxOffset   \* file offsets and sizes are in 0 .. MaxOffset

ASSUME MaxOffsetAssumption == MaxOffset \in Nat \ {0}

Wrap(n) == n % (MaxOffset + 1)

(***************************************************************************)
(* root of a collective without root (OTF2_UNDEFINED_UINT32): larger than  *)
(* the size of any communicator.                                           *)
(***************************************************************************)
NoRoot == NProcs + 1

PeerKinds == {"mpi_send", "mpi_isend", "mpi_receive", "mpi_ireceive"}
SyncKinds == PeerKinds \cup {"mpi_collective_end"}
IoKinds == {"io_operation_begin", "io_operation_complete", "io_create_handle",
            "io_destroy_handle", "io_delete_file", "io_duplicate_handle", "io_seek"}

(***************************************************************************)
(* Event records.  A handle is a record [file, paradigm, parent, id]: the  *)
(* name it goes by, "POSIX" or "MPI-IO", whether it has a parent, and what *)
(* tells it apart from other handles of the file.  A leave event names the *)
(* role of the region that is left.                                        *)
(***************************************************************************)
EnterEvent == [kind |-> "enter"]
LeaveEvent(role) == [kind |-> "leave", role |-> role]
BeginEvent(h, mode, id) ==
  [kind |-> "io_operation_begin", handle |-> h, mode |-> mode, matching_id |-> id]
CompleteEvent(h, bytes, id) ==
  [kind |-> "io_operation_complete", handle |-> h, bytes |-> bytes, matching_id |-> id]
CreateEvent(h) == [kind |-> "io_create_handle", handle |-> h]
DestroyEvent(h) == [kind |-> "io_destroy_handle", handle |-> h]
DuplicateEvent(h) == [kind |-> "io_duplicate_handle", handle |-> h]
SeekEvent(h, to) == [kind |-> "io_seek", handle |-> h, offset |-> to]
DeleteEvent(file) == [kind |-> "io_delete_file", file |-> file]
CollectiveEvent(op, members, root) ==
  [kind |-> "mpi_collective_end", op |-> op, members |-> members, root |-> root]
PeerEvent(kind, op, remote) == [kind |-> kind, op |-> op, remote |-> remote]
OtherEvent == [kind |-> "other"]   \* the kinds whose handlers do nothing

-----------------------------------------------------------------------------
(***************************************************************************)
(* What a trace of a program looks like.                                   *)
(***************************************************************************)
WellFormed(s) ==
  /\ s \in Seq({s[i] : i \in DOMAIN s})
  /\ \A i \in DOMAIN s :
       /\ s[i].kind = "io_seek" => s[i].offset \in 0 .. MaxOffset
       /\ s[i].kind = "io_operation_begin" => s[i].mode \in {"read", "write", "flush"}
       /\ s[i].kind = "io_operation_complete" => s[i].bytes \in 0 .. MaxOffset

Count(s, n, kind) == Cardinality({j \in 1 .. n : s[j].kind = kind})

Depth(s, n) == Count(s, n, "enter") - Count(s, n, "leave")

(* Regions are left after they are entered, and events lie in a region. *)
RegionsNest(s) ==
  /\ \A i \in DOMAIN s : s[i].kind \in SyncKinds \cup IoKinds \cup {"leave"}
                            => Depth(s, i - 1) > 0
  /\ Depth(s, Len(s)) = 0

(***************************************************************************)
(* Operation begin j and completion i belong together: they are of the     *)
(* same handle, and of the events that carry their matching id none lies   *)
(* between them.                                                           *)
(***************************************************************************)
Operation(s, j, i) ==
  /\ s[j].kind = "io_operation_begin" /\ s[i].kind = "io_operation_complete"
  /\ s[j].handle = s[i].handle
  /\ s[j].matching_id = s[i].matching_id
  /\ \A k \in j + 1 .. i - 1 :
       s[k].kind \in {"io_operation_begin", "io_operation_complete"} =>
         s[k].matching_id # s[i].matching_id

(* The place of the operation begin that completion i belongs to. *)
BeginOf(s, i) == CHOOSE j \in 1 .. i - 1 : Operation(s, j, i)

OperationsComplete(s) ==
  \A i \in DOMAIN s :
    /\ s[i].kind = "io_operation_complete" => \E j \in 1 .. i - 1 : Operation(s, j, i)
    /\ s[i].kind = "io_operation_begin" => \E j \in i + 1 .. Len(s) : Operation(s, i, j)

(***************************************************************************)
(* All members of a collective record it once and agree on it; a message   *)
(* is recorded once by its sender and once by its receiver.                *)
(***************************************************************************)
SyncPlaces(tr) ==
  UNION {{p} \X {i \in DOMAIN tr[p] : tr[p][i].kind \in SyncKinds} : p \in Procs}

MembersOf(members) == {members[k] : k \in DOMAIN members}

(* The events that the builder makes synchronisation vertices of. *)
SyncCalls(s) ==
  {i \in DOMAIN s : /\ s[i].kind \in SyncKinds
                    /\ s[i].kind = "mpi_collective_end" => s[i].members # <<>>}

OperationsAgree(tr) ==
  LET ev(x) == tr[x[1]][x[2]]
      same(x) == {y \in SyncPlaces(tr) : ev(y).op = ev(x).op}
  IN \A x \in SyncPlaces(tr) :
       IF ev(x).kind = "mpi_collective_end"
       THEN \/ ev(x).members = <<>>
            \/ /\ ev(x).members \in Seq(Procs)
               /\ \A m, n \in DOMAIN ev(x).members :
                    ev(x).members[m] = ev(x).members[n] => m = n
               /\ \A y \in same(x) : ev(y) = ev(x)
               /\ {y[1] : y \in same(x)} = MembersOf(ev(x).members)
               /\ \A y, z \in same(x) : y[1] = z[1] => y = z
       ELSE /\ \E y \in same(x) \ {x} :
                 /\ same(x) = {x, y} /\ ev(y).kind \in PeerKinds
                 /\ ev(x).remote = y[1] /\ ev(y).remote = x[1]
                 /\ (ev(x).kind \in {"mpi_send", "mpi_isend"})
                       # (ev(y).kind \in {"mpi_send", "mpi_isend"})

IsProgram(tr) ==
  /\ DOMAIN tr = Procs
  /\ \A p \in Procs : WellFormed(tr[p]) /\ RegionsNest(tr[p]) /\ OperationsComplete(tr[p])
  /\ OperationsAgree(tr)
=============================================================================
