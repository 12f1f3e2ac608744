--------------------------- MODULE CioMergeCasesMC --------------------------
(***************************************************************************)
(* Single programs as input of CioMerge.                                   *)
(***************************************************************************)
EXTENDS CioMerge, CioTraceGen

MCEvents == Procs \X (1 .. 4)

(***************************************************************************)
(* One trace of five processes: 0 and 1, then 1 and 2 synchronise, and     *)
(* beside them 3 and 4.                                                    *)
(***************************************************************************)
FiveTraces == {MakeTrace(<<{0, 1}, {1, 2}, {3, 4}>>, <<1, 2, 3>>, {})}

(***************************************************************************)
(* Two pairs of processes that synchronise once each, independently.       *)
(***************************************************************************)
TwoPairs ==
  {MakeTrace(<<{2, 3}, {0, 1}>>, <<1, 2>>, quiet) :
     quiet \in SUBSET SegmentsOf(<<{2, 3}, {0, 1}>>)}
=============================================================================
