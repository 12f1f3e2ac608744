---------------------------- MODULE BuilderSyncMC ----------------------------
(***************************************************************************)
(* Traces of programs that only synchronise, made from the sequence of     *)
(* their MPI operations.  Every process runs in one region.                *)
(***************************************************************************)
EXTENDS BuilderProperties

Collective(members, root) == [members |-> members, root |-> root]
Message(from, to) == [members |-> <<from, to>>, root |-> -1]
IsMessage(op) == op.root = -1

(* What process p records of operation number n. *)
Records(op, n, p) ==
  IF ~IsMessage(op) THEN <<CollectiveEvent(n, op.members, op.root)>>
  ELSE LET sent == <<PeerEvent("mpi_isend", n, op.members[2])>>
           received == <<PeerEvent("mpi_receive", n, op.members[1])>>
       IN (IF p = op.members[1] THEN sent ELSE <<>>)
            \o (IF p = op.members[2] THEN received ELSE <<>>)

Mine(order, p) ==
  SelectSeq([n \in DOMAIN order |-> n], LAMBDA n : p \in MembersOf(order[n].members))

InRegion(s) == <<EnterEvent>> \o s \o <<LeaveEvent("other")>>

(* Operation late, a message, is received after the receiver's next one. *)
Delayed(mine, late) ==
  LET at == SelectInSeq(mine, LAMBDA n : n = late)
  IN IF late = 0 \/ at \in {0, Len(mine)} THEN mine
     ELSE [mine EXCEPT ![at] = mine[at + 1], ![at + 1] = late]

ProgramOf(order, late) ==
  [p \in Procs |->
     LET mine == IF late # 0 /\ order[late].members[2] = p
                 THEN Delayed(Mine(order, p), late) ELSE Mine(order, p)
     IN InRegion(FlattenSeq([k \in DOMAIN mine |-> Records(order[mine[k]], mine[k], p)]))]

Lates(order) == {0} \cup {n \in DOMAIN order : IsMessage(order[n])}

ProgramsOf(orders) == UNION {{ProgramOf(order, late) : late \in Lates(order)} : order \in orders}

-----------------------------------------------------------------------------
CONSTANT MaxOps   \* operations in a program, at most

Comms == {SetToSortSeq(S, <) : S \in SUBSET Procs \ {{}}}

Collectives ==
  UNION {{Collective(c, r) : r \in (0 .. Len(c) - 1) \cup {NoRoot}} : c \in Comms}

Messages == {Message(p, q) : p, q \in Procs}

Orders == UNION {[1 .. k -> Collectives \cup Messages] : k \in 0 .. MaxOps}

SyncPrograms == ProgramsOf(Orders)
=============================================================================
