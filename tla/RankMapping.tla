----------------------------- MODULE RankMapping -----------------------------
(***************************************************************************)
(* mapping.hpp: which rank of the analysing program is responsible for     *)
(* which location of the trace.  definitions_done of the builder registers *)
(* every location of the trace, in the order of their definitions.         *)
(***************************************************************************)
EXTENDS IoGraph

CONSTANT NRanks   \* ranks that run the analysis; 1 without MPI

ASSUME NRanksAssumption == NRanks \in Nat \ {0}

VARIABLES
  loc_to_rank,   \* a map: pairs <<location, rank>>
  rank_to_loc    \* a multimap: pairs <<rank, location>>

mapping_vars == <<loc_to_rank, rank_to_loc>>

MappingInit == loc_to_rank = {} /\ rank_to_loc = {}

Unregistered(ref) == \A x \in loc_to_rank : x[1] # ref

(* Faulty variant of round_robin_mapping: blocks of locations. *)
block_mapping(ref) == ref \div NRanks

round_robin_mapping(ref) == ref % NRanks

(***************************************************************************)
(* register_location: what it asserts is that the location is new.  The    *)
(* strategy maps the ids 0 .. n-1 of n locations, which are the ids there  *)
(* are here, so it finds every one of them; what happens to other ids is   *)
(* left out.                                                               *)
(***************************************************************************)
register_location(ref) ==
  /\ Unregistered(ref)
  /\ loc_to_rank' = loc_to_rank \cup {<<ref, round_robin_mapping(ref)>>}
  /\ rank_to_loc' = rank_to_loc \cup {<<round_robin_mapping(ref), ref>>}

local_locations(rank) == {x[2] : x \in {y \in rank_to_loc : y[1] = rank}}
=============================================================================
