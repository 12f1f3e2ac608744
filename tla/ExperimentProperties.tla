------------------------- MODULE ExperimentProperties -------------------------
(***************************************************************************)
(* What an experiment should say about the program that was traced.        *)
(***************************************************************************)
EXTENDS Experiment, BuilderProperties

Analysis == INSTANCE Overlap

Endings == {"finished", "no_result", "build_failed", "visit_failed", "merge_failed",
          "stats_failed"}

(***************************************************************************)
(* The search makes exactly the segments of every process: see CioVisitor. *)
(* No graph that the builder makes leads it to an I/O event without open   *)
(* set ("THIS SHOULD NEVER HAPPEN", cio_types.hpp:227).                    *)
(***************************************************************************)
SegmentsFound == Visitor!SegmentsFound

(***************************************************************************)
(* The sets of a process are handed over in program order: see CioVisitor. *)
(***************************************************************************)
Chronological == Visitor!Chronological

(***************************************************************************)
(* The search keeps one set open, that of the process it is at: see        *)
(* CioVisitor.                                                             *)
(***************************************************************************)
OneOpenSet == Visitor!OneOpenSet

(***************************************************************************)
(* No two synchronisations of a process have the same timestamp.           *)
(***************************************************************************)
NoTies == \A p \in Procs : Visitor!DistinctTimes(p)

(***************************************************************************)
(* What the merge is proved for: its input is a trace, with a common order *)
(* of synchronisations if the program has one.                             *)
(***************************************************************************)
HandedOver ==
  stage = "merge" /\ calls = <<Merging!Frame(Merging!make_mapview)>> /\ NoTies =>
    /\ Merging!IsTrace(trace)
    /\ Separable(program) /\ SameOrder(program) => Merging!Ordered(trace)

(***************************************************************************)
(* An experiment on a trace without the peculiarities named in Sound, all  *)
(* of whose processes agree on the order of synchronisations, gets as far  *)
(* as to its statistics.                                                   *)
(***************************************************************************)
SoundExperimentsFinish ==
  stage \in {"no_result", "build_failed", "visit_failed", "merge_failed"} =>
    \/ ~config.pio_sets /\ ~config.cio_sets
    \/ ~Sound(program) \/ ~SameOrder(program) \/ ~NoTies

(***************************************************************************)
(* get_set_duration asserts that a set ends later than it starts           *)
(* (stats.cpp:38).                                                         *)
(***************************************************************************)
StatsAssertionHolds == stage # "stats_failed"

-----------------------------------------------------------------------------
(***************************************************************************)
(* From the program to the report of the scripts.  An access is the place  *)
(* of the completion of a read or write; the bytes it touches are those    *)
(* between the file positions before and after.                            *)
(***************************************************************************)
AccessPlaces ==
  UNION {{p} \X {i \in DOMAIN program[p] :
                   /\ program[p][i].kind = "io_operation_complete"
                   /\ program[p][BeginOf(program[p], i)].mode \in {"read", "write"}} :
           p \in Procs}

Writes(x) == program[x[1]][BeginOf(program[x[1]], x[2])].mode = "write"

Bytes(x) ==
  LET s  == program[x[1]]
      at == Position(s, s[x[2]].handle)
  IN at[BeginOf(s, x[2])] .. at[x[2]] - 1

Conflict(x, y) ==
  /\ x[1] # y[1] /\ (Writes(x) \/ Writes(y))
  /\ program[x[1]][x[2]].handle.file = program[y[1]][y[2]].handle.file
  /\ Bytes(x) \cap Bytes(y) # {}

(***************************************************************************)
(* An operation synchronises all who take part in it: x comes before y if  *)
(* the process of y has passed, directly or by way of others, an operation *)
(* that the process of x enters after x.                                   *)
(***************************************************************************)
OpsAt(p, places) == {program[p][i].op : i \in places \cap SyncCalls(program[p])}

Precedes(x, y) ==
  LET near == OpsAt(y[1], 1 .. y[2] - 1)
      past == near \cup UNION {PassedBefore(o) : o \in near}
  IN past \cap OpsAt(x[1], x[2] + 1 .. Len(program[x[1]])) # {}

Conflicts ==
  {{x[1], x[2]} : x \in {z \in AccessPlaces \X AccessPlaces :
     Conflict(z[1], z[2]) /\ ~Precedes(z[1], z[2]) /\ ~Precedes(z[2], z[1])}}

(* No place for what an earlier experiment left. *)
PlaceOf(v) == IF v \in DOMAIN graph THEN <<graph[v].proc, graph[v].timestamp>> ELSE <<>>

ReportedConflicts ==
  UNION {{{PlaceOf(z[1].vertex), PlaceOf(z[2].vertex)} : z \in Analysis!Reported(rows)} :
           rows \in Range(directory.cio)}

(***************************************************************************)
(* An access transfers its bytes from the position it began at: its handle *)
(* is not moved while it is under way, and the position does not wrap.     *)
(***************************************************************************)
Undisturbed(x) ==
  LET s  == program[x[1]]
      at == Position(s, s[x[2]].handle)
  IN at[x[2]] = at[BeginOf(s, x[2])] + s[x[2]].bytes

Analysable ==
  /\ stage = "finished" /\ config.cio_sets /\ NoTies
  /\ Separable(program) /\ SameOrder(program)
  /\ \A p \in Procs : OneHandlePerFile(program[p])
  /\ \A x \in AccessPlaces : Undisturbed(x)

(***************************************************************************)
(* Whenever two processes may touch the same byte of a file at the same    *)
(* time, and one of them writes, the scripts find it in the files of the   *)
(* experiment ("Overlapping Accesses", run_analysis.py:15).                *)
(***************************************************************************)
ConflictsFound == Analysable => Conflicts \subseteq ReportedConflicts

(***************************************************************************)
(* What the scripts report is real, unless an earlier experiment of the    *)
(* same name left more set files than there are sets now.                  *)
(***************************************************************************)
ConflictsReal ==
  Analysable /\ Leftover <= Len(cio_sets) => ReportedConflicts \subseteq Conflicts

(***************************************************************************)
(* Every experiment comes to an end.                                       *)
(***************************************************************************)
ExperimentEnds == <>(stage \in Endings)
=============================================================================
