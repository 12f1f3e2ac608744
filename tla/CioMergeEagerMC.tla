-------------------------- MODULE CioMergeEagerMC ---------------------------
(***************************************************************************)
(* Inputs for CioMerge with one eager message: a synchronisation of two    *)
(* processes is a message whose receiver took part in its next collective  *)
(* before it received.  The sender has it before, the receiver after that  *)
(* collective, which MPI allows for a buffered send.                       *)
(***************************************************************************)
EXTENDS CioMerge, CioTraceGen

CONSTANT MaxSyncs   \* synchronisations in a trace, at most

MCEvents == Procs \X (1 .. MaxSyncs + 1)

Late(order, msg, receiver) ==
  LET mine == SyncsOf(order, receiver)
      at   == CHOOSE i \in DOMAIN mine : mine[i] = msg
  IN [mine EXCEPT ![at] = mine[at + 1], ![at + 1] = msg]

(* The messages of an order that can be late: somebody synchronises again. *)
LateMessages(order) ==
  {<<msg, receiver>> \in (1 .. Len(order)) \X Procs :
     /\ Cardinality(order[msg]) = 2
     /\ receiver \in order[msg]
     /\ \E i \in msg + 1 .. Len(order) : receiver \in order[i]}

EagerTrace(order, msg, receiver) ==
  LET k == Len(order)
      late == Append(Late(order, msg, receiver), k + 1)
      base == MakeTrace(order, [i \in 1 .. k |-> i], {})
  IN [base EXCEPT !.pio[receiver] =
        [i \in DOMAIN late |->
           [events |-> {<<receiver, i>>},
            start  |-> IF i = 1 THEN 0 ELSE late[i - 1],
            end    |-> late[i]]]]

EagerTraces ==
  UNION {{EagerTrace(order, late[1], late[2]) : late \in LateMessages(order)} :
         order \in OrdersUpTo(Groups, MaxSyncs)}

(* Whatever is not late keeps the order of its descriptors. *)
PlainTraces ==
  {MakeTrace(order, [i \in DOMAIN order |-> i], {}) : order \in OrdersUpTo(Groups, MaxSyncs)}

EagerAndPlain == PlainTraces \cup EagerTraces
=============================================================================
