------------------------------ MODULE CioMerge ------------------------------
(***************************************************************************)
(* find_cio_sets of cio_set.cpp: merging the per-process I/O sets into     *)
(* sets of concurrent I/O.                                                 *)
(*                                                                         *)
(* The visitor has cut the I/O events of every process into sets, each     *)
(* ended by the synchronisation that follows it.  The merge walks over the *)
(* processes with one position per process (a map view), emits the union   *)
(* of the sets at these positions, decides which synchronisation is passed *)
(* next, and calls itself once for each of them.  The recursion is kept as *)
(* an explicit stack of frames, one for every active call of process_sets. *)
(***************************************************************************)
EXTENDS CioTrace, FiniteSetsExt

CONSTANT Traces   \* the inputs considered: what the visitor may hand over

ASSUME TracesAssumption == \A tr \in Traces : IsTrace(tr)

(***************************************************************************)
(* make_mapview, the test of process_sets for the end of the recursion,    *)
(* and update_view.                                                        *)
(***************************************************************************)
make_mapview == [p \in Procs |-> 1]

Exhausted(tr, view, p) == view[p] = Len(tr.pio[p]) + 1
on_end(tr, view) == \A p \in Procs : Exhausted(tr, view, p)

(* Faulty variants: a view moved two sets on, and one moved for only one   *)
(* member of the group.                                                    *)
update_view_by_two(pg, view) ==
  [p \in Procs |-> IF p \in pg THEN view[p] + 2 ELSE view[p]]
update_view_one_member(pg, view) ==
  [p \in Procs |-> IF p = Min(pg) THEN view[p] + 1 ELSE view[p]]

update_view(pg, view) == [p \in Procs |-> IF p \in pg THEN view[p] + 1 ELSE view[p]]

-----------------------------------------------------------------------------
(***************************************************************************)
(* find_end_events_to_update                                               *)
(***************************************************************************)
EndEvents(tr, view) == {EndAt(tr, p, view[p]) : p \in Procs}

IsSingleton(S) == \E x \in S : S = {x}

LocalEnds(tr, view) ==
  {e \in EndEvents(tr, view) : classify_sync(tr.graph[e]) = "Local"}

(***************************************************************************)
(* Every unordered pair of distinct local end events goes into one of two  *)
(* std::sets, both its elements at once; an event may end up in both.      *)
(***************************************************************************)
dependent_syncs(tr, view) ==
  {e \in LocalEnds(tr, view) : \E f \in LocalEnds(tr, view) \ {e} :
                                  Group(tr, e) \cap Group(tr, f) # {}}

independent_syncs(tr, view) ==
  {e \in LocalEnds(tr, view) : \E f \in LocalEnds(tr, view) \ {e} :
                                  Group(tr, e) \cap Group(tr, f) = {}}

(* Faulty variant: waits for all processes, not for the group. *)
can_update_by_all(tr, view, e) ==
  \A pid \in Procs : EndAt(tr, pid, view[pid]) = e

can_update_end_event(tr, view, e) ==
  \A pid \in Group(tr, e) : EndAt(tr, pid, view[pid]) = e

(* Faulty variant of FirstUpdatable: the first event, arrived or not. *)
FirstUnchecked(tr, view, S) == {e \in S : \A f \in S : e <= f}

(***************************************************************************)
(* check_update_func: the first event of the std::set, by descriptor, that *)
(* can be updated; no element when there is none (null_vertex).            *)
(***************************************************************************)
FirstUpdatable(tr, view, S) ==
  {e \in S : /\ can_update_end_event(tr, view, e)
             /\ \A f \in S : can_update_end_event(tr, view, f) => e <= f}

(* Faulty variant: one of the independent events only, as in the line that *)
(* the code has commented out.                                             *)
find_one_end_event(tr, view) ==
  IF IsSingleton(EndEvents(tr, view)) THEN EndEvents(tr, view)
  ELSE IF IsSingleton(LocalEnds(tr, view)) THEN LocalEnds(tr, view)
  ELSE IF dependent_syncs(tr, view) # {}
       THEN FirstUpdatable(tr, view, dependent_syncs(tr, view))
       ELSE FirstUpdatable(tr, view, independent_syncs(tr, view))

find_end_events_to_update(tr, view) ==
  IF IsSingleton(EndEvents(tr, view)) THEN EndEvents(tr, view)
  ELSE IF IsSingleton(LocalEnds(tr, view)) THEN LocalEnds(tr, view)
  ELSE IF dependent_syncs(tr, view) # {}
       THEN FirstUpdatable(tr, view, dependent_syncs(tr, view))
       ELSE {e \in independent_syncs(tr, view) : can_update_end_event(tr, view, e)}

(***************************************************************************)
(* The two assertions on the way that are not met by construction.         *)
(***************************************************************************)
AssertionsHold(tr, view) ==
  /\ IsSingleton(EndEvents(tr, view)) =>
       \A e \in EndEvents(tr, view) : classify_sync(tr.graph[e]) = "Global"
  /\ (/\ ~IsSingleton(EndEvents(tr, view))
      /\ ~IsSingleton(LocalEnds(tr, view))
      /\ dependent_syncs(tr, view) # {})
       => find_end_events_to_update(tr, view) # {}

(***************************************************************************)
(* What a call of process_sets comes to: it returns at once, reads through *)
(* an end iterator (a process has run out of sets, others have not), fails *)
(* an assertion, throws because no end event can be passed, or merges.     *)
(***************************************************************************)
Outcome(tr, view) ==
  IF on_end(tr, view) THEN "return"
  ELSE IF \E p \in Procs : Exhausted(tr, view, p) THEN "undefined"
  ELSE IF ~AssertionsHold(tr, view) THEN "aborted"
  ELSE IF find_end_events_to_update(tr, view) = {} THEN "thrown"
  ELSE "merge"

(***************************************************************************)
(* do_merge: CIO_Set::merge ignores empty sets and keeps the smallest      *)
(* start descriptor; the end event is the last of the chosen ones.  The    *)
(* field cut records the view the set was merged at: it is history, not in *)
(* the code.  NoVertex is the initial value of start_evt_.                 *)
(***************************************************************************)
NoVertex == -1

MergeAt(tr, view) ==
  LET sets == {tr.pio[p][view[p]] : p \in Procs}
      full == {s \in sets : s.events # {}}
  IN [events |-> UNION {s.events : s \in full},
      start  |-> IF full = {} THEN NoVertex ELSE Min({s.start : s \in full}),
      end    |-> Max(find_end_events_to_update(tr, view)),
      cut    |-> view]

-----------------------------------------------------------------------------
VARIABLES
  trace,    \* the input, chosen once
  calls,    \* active calls of process_sets, innermost last
  merged,   \* merged_sets
  result,   \* what find_cio_sets returns
  status    \* "running", "done", or how the run failed

vars == <<trace, calls, merged, result, status>>

Failures == {"undefined", "aborted", "thrown"}

(***************************************************************************)
(* A frame: its view, whether it has merged yet, and the end events its    *)
(* loop still has to recurse on.                                           *)
(***************************************************************************)
Frame(view) == [view |-> view, pc |-> "enter", todo |-> {}]

Top == calls[Len(calls)]
Pop(s) == SubSeq(s, 1, Len(s) - 1)

Init ==
  /\ trace \in Traces
  /\ calls = <<Frame(make_mapview)>>
  /\ merged = {}
  /\ result = {}
  /\ status = "running"

(***************************************************************************)
(* process_sets entered with every process at its end.                     *)
(***************************************************************************)
ReturnOnEnd ==
  /\ calls # <<>> /\ status = "running"
  /\ Top.pc = "enter"
  /\ Outcome(trace, Top.view) = "return"
  /\ calls' = Pop(calls)
  /\ UNCHANGED <<trace, merged, result, status>>

(* Faulty variant: the new set replaces the ones found before. *)
MergeOverwrites ==
  /\ calls # <<>> /\ status = "running"
  /\ Top.pc = "enter"
  /\ Outcome(trace, Top.view) = "merge"
  /\ merged' = {MergeAt(trace, Top.view)}
  /\ calls' = Append(Pop(calls),
                [view |-> Top.view, pc |-> "loop",
                 todo |-> find_end_events_to_update(trace, Top.view)])
  /\ UNCHANGED <<trace, result, status>>

Merge ==
  /\ calls # <<>> /\ status = "running"
  /\ Top.pc = "enter"
  /\ Outcome(trace, Top.view) = "merge"
  /\ merged' = merged \cup {MergeAt(trace, Top.view)}
  /\ calls' = Append(Pop(calls),
                [view |-> Top.view, pc |-> "loop",
                 todo |-> find_end_events_to_update(trace, Top.view)])
  /\ UNCHANGED <<trace, result, status>>

(***************************************************************************)
(* One turn of the loop over the chosen end events, by descriptor: the     *)
(* recursive call gets a copy of the view, advanced for the group.         *)
(***************************************************************************)
Recurse ==
  /\ calls # <<>> /\ status = "running"
  /\ Top.pc = "loop"
  /\ \E e \in Top.todo :
       /\ \A f \in Top.todo : e <= f
       /\ calls' = Append(Append(Pop(calls),
                            [view |-> Top.view, pc |-> "loop",
                             todo |-> Top.todo \ {e}]),
                     Frame(update_view(Group(trace, e), Top.view)))
  /\ UNCHANGED <<trace, merged, result, status>>

ReturnFromLoop ==
  /\ calls # <<>> /\ status = "running"
  /\ Top.pc = "loop"
  /\ Top.todo = {}
  /\ calls' = Pop(calls)
  /\ UNCHANGED <<trace, merged, result, status>>

(* Faulty variant of Fail: the call is made again, as if the members that  *)
(* are missing were still to arrive.                                       *)
Retry ==
  /\ calls # <<>> /\ status = "running"
  /\ Top.pc = "enter"
  /\ Outcome(trace, Top.view) \in Failures
  /\ calls' = Append(Pop(calls), Frame(Top.view))
  /\ UNCHANGED <<trace, merged, result, status>>

Fail ==
  /\ calls # <<>> /\ status = "running"
  /\ Top.pc = "enter"
  /\ Outcome(trace, Top.view) \in Failures
  /\ status' = Outcome(trace, Top.view)
  /\ UNCHANGED <<trace, calls, merged, result>>

(***************************************************************************)
(* The end of find_cio_sets: empty sets are removed, the rest sorted and   *)
(* made unique by their events.  Of several sets with the same events one  *)
(* survives; which one is up to an unstable sort, so result keeps all of   *)
(* them as candidates.                                                     *)
(***************************************************************************)
Finish ==
  /\ calls = <<>> /\ status = "running"
  /\ result' = {m \in merged : m.events # {}}
  /\ status' = "done"
  /\ UNCHANGED <<trace, calls, merged>>

Next == ReturnOnEnd \/ Merge \/ Recurse \/ ReturnFromLoop \/ Fail \/ Finish

Spec == Init /\ [][Next]_vars

(***************************************************************************)
(* A single-threaded program without blocking calls: it keeps executing    *)
(* the next statement.                                                     *)
(***************************************************************************)
FairSpec == Spec /\ WF_vars(Next)

-----------------------------------------------------------------------------
(***************************************************************************)
(* Properties                                                              *)
(***************************************************************************)
TypeOK ==
  /\ IsTrace(trace)
  /\ calls \in Seq([view : Cuts(trace), pc : {"enter", "loop"},
                     todo : SUBSET DOMAIN trace.graph])
  /\ merged \subseteq [events : SUBSET Events, start : Nat \cup {NoVertex},
                       end : DOMAIN trace.graph, cut : Cuts(trace)]
  /\ result \subseteq merged
  /\ status \in {"running", "done"} \cup Failures

(***************************************************************************)
(* Every recursive call of process_sets gets a map view that the traced    *)
(* program could have been in: no member of a synchronisation has moved    *)
(* past it while another one still waits for it.                           *)
(***************************************************************************)
ViewsConsistent ==
  Ordered(trace) => \A n \in 1 .. Len(calls) : Consistent(trace, calls[n].view)

(***************************************************************************)
(* For a trace with a common order of synchronisations the merge neither   *)
(* reads through an end iterator nor trips an assertion nor throws, though *)
(* it returns a single end event without checking that all members of its  *)
(* group have arrived there ("TODO: check if can update").                 *)
(***************************************************************************)
OrderedNeverFails == Ordered(trace) => status \notin Failures

(***************************************************************************)
(* All events of a set, when it is merged and hence when it is returned,   *)
(* are concurrent: no chain of synchronisations orders two of them.        *)
(***************************************************************************)
MergedIsConcurrent ==
  Ordered(trace) =>
    \A m \in merged : \A p, q \in Procs :
      \A i \in Indices(trace, p), j \in Indices(trace, q) :
        /\ trace.pio[p][i].events \cap m.events # {}
        /\ trace.pio[q][j].events \cap m.events # {}
        => Concurrent(trace, p, i, q, j)

(***************************************************************************)
(* No I/O event of the trace gets lost on the way to the result.           *)
(***************************************************************************)
AllEvents(tr) ==
  UNION {UNION {tr.pio[p][i].events : i \in Indices(tr, p)} : p \in Procs}

EveryEventReported ==
  status = "done" => UNION {m.events : m \in result} = AllEvents(trace)

(***************************************************************************)
(* Any two I/O events that no chain of synchronisations orders share a     *)
(* returned set: the purpose of the tool (README.md: "identifies parallel  *)
(* I/O operations").  A collective of one process, which synchronises      *)
(* nothing, is a premise: it can be ready beside dependent ones, which are *)
(* then passed over or pass over it, already with three processes.         *)
(***************************************************************************)
NobodyAlone(tr) == \A e \in Syncs(tr) : Cardinality(Group(tr, e)) > 1

ConcurrentPairsFound ==
  status = "done" /\ NobodyAlone(trace) =>
    \A p, q \in Procs : \A i \in Indices(trace, p), j \in Indices(trace, q) :
      p < q /\ Concurrent(trace, p, i, q, j) =>
        \A a \in trace.pio[p][i].events, b \in trace.pio[q][j].events :
          \E m \in result : {a, b} \subseteq m.events

(***************************************************************************)
(* get_set_duration asserts that a set ends later than it starts           *)
(* (stats.cpp:38), and takes the timestamps of the synchronisations that   *)
(* start and end it, the synthetic ones aside.  At least one of the        *)
(* candidates with the same events would have to satisfy it.               *)
(***************************************************************************)
SetDurationPositive ==
  \A m \in result : \E n \in result :
    /\ n.events = m.events
    /\ n.start \in Syncs(trace) /\ n.end \in Syncs(trace)
         => trace.rank[n.start] < trace.rank[n.end]

(***************************************************************************)
(* The merge implements the exploration of cuts: every set is merged at a  *)
(* cut that is the first one or follows from an earlier one by passing a   *)
(* synchronisation all of whose members had arrived.                       *)
(***************************************************************************)
Exploration == INSTANCE ConcurrentCuts WITH reached <- {m.cut : m \in merged}

ExploresCuts == Exploration!CSpec

(***************************************************************************)
(* The recursion ends: every chain of calls moves the view forward.        *)
(***************************************************************************)
Terminates == <>(status # "running")
=============================================================================
