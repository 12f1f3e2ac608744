------------------------------- MODULE IoGraph -------------------------------
(***************************************************************************)
(* The part of the I/O graph that the set algorithms look at: the kind of  *)
(* a vertex and the processes that take part in a synchronisation          *)
(* (otf2_io_graph_properties.hpp, io_graph.cpp and pg_group of             *)
(* cio_set.cpp).                                                           *)
(*                                                                         *)
(* A vertex is a record [type, procs]; procs holds the members of a        *)
(* collective, or sender and receiver of a point-to-point message, and is  *)
(* empty for the vertices that are no synchronisation.  Names, timestamps  *)
(* and file offsets are left out: no operator of this module reads them.   *)
(***************************************************************************)
EXTENDS Naturals, FiniteSets

CONSTANT NProcs   \* number of processes (OTF2 locations) of the trace

ASSUME NProcsAssumption == NProcs \in Nat \ {0}

(***************************************************************************)
(* Process ids are 0 .. np-1: the code indexes vectors with them.          *)
(***************************************************************************)
Procs == 0 .. NProcs - 1

VertexKinds == {"io_event", "sync_event", "synthetic"}

Vertex == {v \in [type : VertexKinds, procs : SUBSET Procs] :
             v.type # "sync_event" => v.procs = {}}

SyncVertex(procs) == [type |-> "sync_event", procs |-> procs]
SyntheticVertex == [type |-> "synthetic", procs |-> {}]
IoVertex == [type |-> "io_event", procs |-> {}]

(***************************************************************************)
(* num_procs: the number of locations stored in the graph's properties.    *)
(***************************************************************************)
num_procs == NProcs

procs_in_sync_involved(v) == v.procs

(***************************************************************************)
(* classify_sync decides by counting, not by comparing sets.               *)
(***************************************************************************)
classify_sync(v) ==
  IF v.type = "synthetic" \/ num_procs = Cardinality(procs_in_sync_involved(v))
  THEN "Global" ELSE "Local"

(***************************************************************************)
(* pg_group: who has to move on when this vertex is passed.                *)
(***************************************************************************)
pg_group(v) ==
  CASE v.type = "sync_event" -> procs_in_sync_involved(v)
    [] v.type = "synthetic"  -> 0 .. num_procs - 1
    [] OTHER                 -> {}
=============================================================================
