--------------------------- MODULE ConcurrentCuts ---------------------------
(***************************************************************************)
(* What the merge promises, without saying how: it looks only at cuts the  *)
(* traced program could have been in.  It starts at the first cut and from *)
(* a cut it has seen it may move on past any synchronisation all of whose  *)
(* members have arrived.                                                   *)
(***************************************************************************)
EXTENDS CioTrace

VARIABLES
  trace,    \* the input
  reached   \* the cuts looked at so far

cvars == <<trace, reached>>

FirstCut == [p \in Procs |-> 1]

(* All members of the group of e wait for e. *)
Arrived(c, e) ==
  \A p \in Group(trace, e) :
    c[p] \in Indices(trace, p) /\ EndAt(trace, p, c[p]) = e

Advance(c, e) == [p \in Procs |-> IF p \in Group(trace, e) THEN c[p] + 1 ELSE c[p]]

CInit ==
  /\ IsTrace(trace)
  /\ reached = {}

Start ==
  /\ reached' = reached \cup {FirstCut}
  /\ UNCHANGED trace

Pass(c, e) ==
  /\ Arrived(c, e)
  /\ reached' = reached \cup {Advance(c, e)}
  /\ UNCHANGED trace

CNext == Start \/ \E c \in reached, e \in DOMAIN trace.graph : Pass(c, e)

CSpec == CInit /\ [][CNext]_cvars
=============================================================================
