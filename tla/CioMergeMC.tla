----------------------------- MODULE CioMergeMC -----------------------------
(***************************************************************************)
(* Every sequence of at most MaxSyncs synchronisations, as input of        *)
(* CioMerge.                                                               *)
(***************************************************************************)
EXTENDS CioMerge, CioTraceGen

CONSTANTS
  MaxSyncs,   \* synchronisations in a trace, at most
  MaxQuiet    \* the same for traces in which some sets have no I/O

MCEvents == Procs \X (1 .. MaxSyncs + 1)

(* One event in every set; synchronisations in every order of descriptors. *)
BusyTraces ==
  UNION {{MakeTrace(order, names, {}) : names \in Permutations(DOMAIN order)} :
         order \in OrdersUpTo(Groups, MaxSyncs)}

(* At most one event in every set. *)
QuietTraces ==
  UNION {{MakeTrace(order, [i \in DOMAIN order |-> i], quiet) :
            quiet \in SUBSET SegmentsOf(order)} :
         order \in OrdersUpTo(Groups, MaxQuiet)}

MCTraces == BusyTraces \cup QuietTraces
=============================================================================
