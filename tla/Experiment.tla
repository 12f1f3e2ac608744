------------------------------ MODULE Experiment ------------------------------
(***************************************************************************)
(* An experiment (experiment.cpp): the graph of a trace is built, the      *)
(* visitor cuts the I/O of every process into sets, these are merged into  *)
(* sets of concurrent I/O, statistics are taken, and set2csv writes the    *)
(* result into the directory of the experiment.  It composes the builder,  *)
(* CioVisitor and CioMerge; the scripts that read the directory are in     *)
(* Overlap.                                                                *)
(*                                                                         *)
(* The merge works on descriptors as they are in the code, one less than   *)
(* the places of the builder's graph.                                      *)
(***************************************************************************)
EXTENDS IoGraphBuilder

CONSTANTS
  Inputs,       \* records [program, config]
  Resolution,   \* so many vertices in a row may have one timestamp
  Leftover      \* set files that an earlier experiment of the same name left

ASSUME InputsAssumption ==
  /\ Programs = {input.program : input \in Inputs}
  /\ \A input \in Inputs : input.config \in
       [with_summary : BOOLEAN, pio_sets : BOOLEAN, cio_sets : BOOLEAN]
ASSUME NumbersAssumption == Resolution \in Nat \ {0} /\ Leftover \in Nat

VARIABLES
  config,      \* experiment_config
  stage,       \* what run_experiment is at, or how it failed
  discovered, stack, set_map, visit,              \* cio_sets_per_process
  trace, calls, merged, result, merge_status,     \* find_cio_sets
  cio_sets,    \* the sets find_cio_sets returns
  stats,       \* Experiment_Stats
  directory    \* subdirectories, set files and summary of the experiment

search_vars == <<discovered, stack, set_map, visit>>
merge_vars == <<trace, calls, merged, result, merge_status>>
experiment_vars == <<vars, config, stage, search_vars, merge_vars, cio_sets, stats, directory>>

Visitor == INSTANCE CioVisitor
Merging == INSTANCE CioMerge WITH status <- merge_status, Events <- Nat, Traces <- {}

-----------------------------------------------------------------------------
(***************************************************************************)
(* What an earlier experiment of the same name may have left: sets with    *)
(* two writes of the same bytes.  Vertex 0 is in no graph.                 *)
(***************************************************************************)
StaleRow(p) == [pid |-> p, filename |-> "stale", kind |-> "write", offset |-> 1,
                response_size |-> 1, vertex |-> 0]

StaleRows == {StaleRow(p) : p \in Procs}

NoStats == [vertices |-> 0, edges |-> 0, pio_sets |-> 0, durations |-> <<>>]

ExperimentInit ==
  /\ \E input \in Inputs : program = input.program /\ config = input.config
  /\ Init
  /\ stage = "start"
  /\ Visitor!VisitorInit
  /\ trace = <<>> /\ calls = <<>> /\ merged = {} /\ result = {} /\ merge_status = "idle"
  /\ cio_sets = <<>>
  /\ stats = NoStats
  /\ directory = [subdirs |-> IF Leftover = 0 THEN {} ELSE {"cio-sets"},
                  cio |-> [n \in 1 .. Leftover |-> StaleRows],
                  pio |-> [p \in Procs |-> <<>>],
                  summary |-> NoStats]

(***************************************************************************)
(* create_directory_structure: directories that exist are kept as they     *)
(* are.                                                                    *)
(***************************************************************************)
CreateDirectories ==
  /\ stage = "start"
  /\ directory' = [directory EXCEPT !.subdirs = @ \cup
                     (IF config.cio_sets THEN {"cio-sets"} ELSE {}) \cup
                     (IF config.pio_sets THEN {"pio-sets"} ELSE {})]
  /\ stage' = "build"
  /\ UNCHANGED <<vars, config, search_vars, merge_vars, cio_sets, stats>>

Build ==
  /\ stage = "build"
  /\ Next
  /\ UNCHANGED <<config, stage, search_vars, merge_vars, cio_sets, stats, directory>>

(***************************************************************************)
(* The builder returns its graph even if it gave up in the middle of the   *)
(* matching.  If no sets are asked for, run_experiment ends without a      *)
(* return value.                                                           *)
(***************************************************************************)
BuildReturns ==
  /\ stage = "build" /\ status \in {"done", "returned"}
  /\ stats' = [stats EXCEPT !.vertices = Len(graph), !.edges = Len(edges)]
  /\ stage' = IF config.pio_sets \/ config.cio_sets THEN "visit" ELSE "no_result"
  /\ UNCHANGED <<vars, config, search_vars, merge_vars, cio_sets, directory>>

(* Faulty variant: only a failed assertion is noticed, and a trace with a  *)
(* process without vertices leaves the driver waiting for its graph.       *)
BuildFailsByAssertion ==
  /\ stage = "build" /\ status = "aborted"
  /\ stage' = "build_failed"
  /\ UNCHANGED <<vars, config, search_vars, merge_vars, cio_sets, stats, directory>>

BuildFails ==
  /\ stage = "build" /\ status \in {"aborted", "undefined"}
  /\ stage' = "build_failed"
  /\ UNCHANGED <<vars, config, search_vars, merge_vars, cio_sets, stats, directory>>

-----------------------------------------------------------------------------
Visit ==
  /\ stage = "visit"
  /\ Visitor!VisitNext
  /\ UNCHANGED <<program, pos, locals, mapping_vars, edge_points, synchronizations,
                 times, cursor, num_locations, status>>
  /\ UNCHANGED <<config, stage, merge_vars, cio_sets, stats, directory>>

VisitFails ==
  /\ stage = "visit" /\ visit = "aborted"
  /\ stage' = "visit_failed"
  /\ UNCHANGED <<vars, config, search_vars, merge_vars, cio_sets, stats, directory>>

(***************************************************************************)
(* What the merge reads: the graph, and the sets of every process.  The    *)
(* rank of a vertex, which it does not read, is the number of operations   *)
(* that the program must have passed before.  ("A single process sync with *)
(* itself is no synchronization", and passes nothing on.)                  *)
(***************************************************************************)
PassedBefore(o) ==
  LET mine(x) == {program[x[1]][i].op : i \in {k \in SyncCalls(program[x[1]]) : k < x[2]}}
      at(op) == {x \in SyncPlaces(program) : program[x[1]][x[2]].op = op}
      back(ops) == ops \cup UNION {UNION {mine(x) : x \in at(op)} : op \in ops}
      past[n \in 0 .. Cardinality(SyncPlaces(program))] ==
        IF n = 0 THEN UNION {mine(x) : x \in at(o)} ELSE back(past[n - 1])
  IN past[Cardinality(SyncPlaces(program))]

Descriptor(v) == v - 1
VertexAt(d) == graph[d + 1]

MergeVertex(v) ==
  [type  |-> v.type,
   procs |-> IF v.type # "sync_event" THEN {}
             ELSE IF v.comm_kind = "collective" THEN MembersOf(v.members)
             ELSE {v.proc, v.remote}]

RankOf(v) ==
  CASE v.type = "sync_event" -> Cardinality(PassedBefore(program[v.proc][v.timestamp].op))
    [] v.type = "synthetic"  -> Cardinality(SyncPlaces(program))
    [] OTHER                 -> 0

MergeSet(s) ==
  [events |-> {Descriptor(v) : v \in s.events},
   start |-> Descriptor(s.start), end |-> Descriptor(s.end)]

MergeInput ==
  LET descriptors == {Descriptor(v) : v \in DOMAIN graph}
  IN [graph |-> [d \in descriptors |-> MergeVertex(VertexAt(d))],
      rank  |-> [d \in descriptors |-> RankOf(VertexAt(d))],
      pio   |-> [p \in Procs |-> [n \in DOMAIN set_map[p] |-> MergeSet(set_map[p][n])]]]

(***************************************************************************)
(* PIO_Stats counts the entries of the map of sets, and find_cio_sets is   *)
(* called.  It reads the number of locations from the graph.               *)
(***************************************************************************)
VisitReturns ==
  /\ stage = "visit" /\ visit = "done"
  /\ stats' = [stats EXCEPT !.pio_sets = Cardinality({p \in Procs : set_map[p] # <<>>})]
  /\ IF num_locations = Uninitialised
     THEN stage' = "merge_failed" /\ UNCHANGED merge_vars
     ELSE /\ stage' = "merge"
          /\ trace' = MergeInput
          /\ calls' = <<Merging!Frame(Merging!make_mapview)>>
          /\ merge_status' = "running"
          /\ UNCHANGED <<merged, result>>
  /\ UNCHANGED <<vars, config, search_vars, cio_sets, directory>>

Merge ==
  /\ stage = "merge"
  /\ Merging!Next
  /\ UNCHANGED <<vars, config, stage, search_vars, cio_sets, stats, directory>>

MergeFails ==
  /\ stage = "merge" /\ merge_status \in Merging!Failures
  /\ stage' = "merge_failed"
  /\ UNCHANGED <<vars, config, search_vars, merge_vars, cio_sets, stats, directory>>

(***************************************************************************)
(* std::sort compares the events of two sets, in ascending order, like     *)
(* words; std::unique keeps any one of those with the same events.         *)
(***************************************************************************)
Before(a, b) ==
  LET differ == (a.events \ b.events) \cup (b.events \ a.events)
  IN /\ differ # {}
     /\ IF Min(differ) \in a.events
        THEN \E e \in b.events : e > Min(differ)
        ELSE \A e \in a.events : e < Min(differ)

SortedSets(kept) ==
  [n \in 1 .. Cardinality(kept) |->
     CHOOSE m \in kept : Cardinality({k \in kept : Before(k, m)}) = n - 1]

MergeReturns ==
  /\ stage = "merge" /\ merge_status = "done"
  /\ \E kept \in SUBSET result :
       /\ \A m \in result : Cardinality({k \in kept : k.events = m.events}) = 1
       /\ cio_sets' = SortedSets(kept)
  /\ stage' = "stats"
  /\ UNCHANGED <<vars, config, search_vars, merge_vars, stats, directory>>

-----------------------------------------------------------------------------
(***************************************************************************)
(* get_set_duration: from when to when a set lasts.  For a set that starts *)
(* or ends with a synthetic vertex the first or last event is taken.       *)
(***************************************************************************)
Timestamp(d) == Visitor!Time(d + 1)

Span(s) ==
  LET IsSynthetic(d) == VertexAt(d).type = "synthetic"
  IN <<Timestamp(IF IsSynthetic(s.start) THEN Min(s.events) ELSE s.start),
       Timestamp(IF IsSynthetic(s.end) THEN Max(s.events) ELSE s.end)>>

CioStats ==
  /\ stage = "stats"
  /\ IF \E n \in DOMAIN cio_sets : Span(cio_sets[n])[2] <= Span(cio_sets[n])[1]
     THEN stage' = "stats_failed" /\ UNCHANGED stats
     ELSE /\ stage' = "output"
          /\ stats' = [stats EXCEPT !.durations =
                         [n \in DOMAIN cio_sets |-> Span(cio_sets[n])[2] - Span(cio_sets[n])[1]]]
  /\ UNCHANGED <<vars, config, search_vars, merge_vars, cio_sets, directory>>

-----------------------------------------------------------------------------
(***************************************************************************)
(* csv_output.  A set becomes a file with one row for every event.  Files  *)
(* are numbered from 1, and those with higher numbers stay as they are.    *)
(***************************************************************************)
io_event_2_csv(v) ==
  [pid |-> graph[v].proc, filename |-> graph[v].filename, kind |-> graph[v].kind,
   offset |-> graph[v].offset, response_size |-> graph[v].response_size, vertex |-> v]

set2csv(vs) == {io_event_2_csv(v) : v \in vs}

sets_2_csv(files, sets) ==
  [n \in DOMAIN sets |-> set2csv(sets[n])] \o SubSeq(files, Len(sets) + 1, Len(files))

CsvOutput ==
  /\ stage = "output"
  /\ directory' =
       [directory EXCEPT
          !.cio = IF config.cio_sets
                  THEN sets_2_csv(@, [n \in DOMAIN cio_sets |-> {d + 1 : d \in cio_sets[n].events}])
                  ELSE @,
          !.pio = IF config.pio_sets
                  THEN [p \in Procs |-> sets_2_csv(@[p], [n \in DOMAIN set_map[p] |-> set_map[p][n].events])]
                  ELSE @,
          !.summary = IF config.with_summary THEN stats ELSE @]
  /\ stage' = "finished"
  /\ UNCHANGED <<vars, config, search_vars, merge_vars, cio_sets, stats>>

ExperimentNext ==
  \/ CreateDirectories
  \/ Build \/ BuildReturns \/ BuildFails
  \/ Visit \/ VisitReturns \/ VisitFails
  \/ Merge \/ MergeReturns \/ MergeFails
  \/ CioStats \/ CsvOutput

ExperimentSpec == ExperimentInit /\ [][ExperimentNext]_experiment_vars

(***************************************************************************)
(* One thread, one component after the other.                              *)
(***************************************************************************)
FairExperiment == ExperimentSpec /\ WF_experiment_vars(ExperimentNext)
=============================================================================
