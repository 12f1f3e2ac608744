----------------------------- MODULE ExperimentMC -----------------------------
(***************************************************************************)
(* Experiments on traces of two processes that work on one file and        *)
(* synchronise.  Every process runs in one region.                         *)
(***************************************************************************)
EXTENDS ExperimentProperties, BuilderSyncMC

F == [file |-> "f", paradigm |-> "POSIX", parent |-> FALSE, id |-> 1]

Transfer(mode, bytes) == <<BeginEvent(F, mode, 1), CompleteEvent(F, bytes, 1)>>

(***************************************************************************)
(* What a process does with the file before its first synchronisation,     *)
(* after it, and after its last one.  It opens the file first, if at all.  *)
(***************************************************************************)
Plan(early, middle, late) == [early |-> early, middle |-> middle, late |-> late]

Opens == <<CreateEvent(F)>>
Idle == Plan(<<>>, <<>>, <<>>)
WriteEarly == Plan(Opens \o Transfer("write", 2), <<>>, <<>>)
ReadLate == Plan(Opens, <<>>, Transfer("read", 2))
WriteBehind == Plan(Opens, <<>>, <<SeekEvent(F, 2)>> \o Transfer("write", 2))
ReadThenWrite == Plan(Opens \o Transfer("read", 1), Transfer("write", 1), <<>>)

Plans == {Idle, WriteEarly, ReadLate, WriteBehind, ReadThenWrite}

TraceOf(order, late, plans) ==
  [p \in Procs |->
     LET mine == Mine(order, p)
         in_order == IF late # 0 /\ order[late].members[2] = p THEN Delayed(mine, late) ELSE mine
         records(k) == Records(order[in_order[k]], in_order[k], p)
                         \o (IF k = 1 THEN plans[p].middle ELSE <<>>)
     IN InRegion(plans[p].early \o FlattenSeq([k \in DOMAIN mine |-> records(k)])
                   \o (IF mine = <<>> THEN plans[p].middle ELSE <<>>) \o plans[p].late)]

Barrier == Collective(<<0, 1>>, NoRoot)
Lone == Collective(<<1>>, NoRoot)   \* a communicator of one process
Operations == {Barrier, Lone, Collective(<<0, 1>>, 0), Collective(<<0, 1>>, 1), Message(0, 1)}

(* All pairs of plans with one operation at most, and three with two. *)
FewOperations ==
  {TraceOf(order, 0, plans) :
     <<order, plans>> \in ({<<>>} \cup {<<op>> : op \in Operations}) \X [Procs -> Plans]}

WriteRead == (0 :> WriteEarly) @@ (1 :> ReadLate)
ReadWrite == (0 :> ReadThenWrite) @@ (1 :> ReadLate)
NoTransfer == [p \in Procs |-> Plan(IF p = 0 THEN Opens ELSE <<>>, <<>>, <<>>)]

MoreOperations ==
  UNION {{TraceOf(order, late, plans) :
            late \in Lates(order), plans \in {WriteRead, ReadWrite, NoTransfer}} :
           order \in Operations \X Operations}

Both == [with_summary |-> TRUE, pio_sets |-> TRUE, cio_sets |-> TRUE]
Configs == [with_summary : BOOLEAN, pio_sets : BOOLEAN, cio_sets : BOOLEAN]

MCInputs ==
  {[program |-> tr, config |-> Both] : tr \in FewOperations \cup MoreOperations}
    \cup {[program |-> TraceOf(<<Barrier>>, 0, WriteRead), config |-> c] : c \in Configs}

MCPrograms == {input.program : input \in MCInputs}

(***************************************************************************)
(* One process writes after a barrier.                                     *)
(***************************************************************************)
AfterBarrier ==
  [p \in Procs |-> Plan(<<>>, <<>>, IF p = 1 THEN Opens \o Transfer("write", 2) ELSE <<>>)]

DurationInputs == {[program |-> TraceOf(<<Barrier>>, 0, AfterBarrier), config |-> Both]}
DurationPrograms == {input.program : input \in DurationInputs}
=============================================================================
