---------------------------- MODULE CioTraceGen -----------------------------
(***************************************************************************)
(* Traces built for model checking.  A trace is made from the sequence of  *)
(* groups that synchronise, in the order in which they did.  Vertex 0 is   *)
(* the synthetic root, 1..k are the root events of the synchronisations    *)
(* and k+1 is the synthetic end, created last.  names maps the place of a  *)
(* synchronisation in the order to its descriptor: descriptors follow the  *)
(* time at which the drawing process left it, which for rooted collectives *)
(* and eager messages need not be the order of completion.                 *)
(***************************************************************************)
EXTENDS CioTrace, FiniteSets, TLC

(* A communicator may have one member only; its collectives are recorded   *)
(* with this member, unless it is MPI_COMM_SELF.                           *)
Groups == SUBSET Procs \ {{}}

OrdersUpTo(groups, n) == UNION {[1 .. k -> groups] : k \in 0 .. n}

SyncsOf(order, p) == SelectSeq([i \in 1 .. Len(order) |-> i], LAMBDA i : p \in order[i])

SegmentsOf(order) ==
  {s \in Procs \X (1 .. Len(order) + 1) : s[2] <= Len(SyncsOf(order, s[1])) + 1}

ProcSets(order, names, quiet, p) ==
  LET mine == SyncsOf(order, p)
      ends == Append([i \in DOMAIN mine |-> names[mine[i]]], Len(order) + 1)
  IN [i \in DOMAIN ends |->
        [events |-> {<<p, i>>} \ quiet,
         start  |-> IF i = 1 THEN 0 ELSE ends[i - 1],
         end    |-> ends[i]]]

Place(names, d) == CHOOSE i \in DOMAIN names : names[i] = d

MakeTrace(order, names, quiet) ==
  LET k == Len(order) IN
  [graph |-> [d \in 0 .. k + 1 |->
                IF d \in 1 .. k THEN SyncVertex(order[Place(names, d)])
                ELSE SyntheticVertex],
   rank  |-> [d \in 0 .. k + 1 |-> IF d \in 1 .. k THEN Place(names, d) ELSE d],
   pio   |-> [p \in Procs |-> ProcSets(order, names, quiet, p)]]
=============================================================================
