----------------------------- MODULE CioVisitor -----------------------------
(***************************************************************************)
(* cio_sets_per_process of cio_set.cpp: a depth-first search of the I/O    *)
(* graph, from the synthetic root, that cuts the I/O events of every       *)
(* process into sets (CIO_Visitor of cio_types.hpp), and the sorting of    *)
(* the sets of a process.                                                  *)
(*                                                                         *)
(* The graph is that of the builder: a sequence of vertices, whose places  *)
(* are the descriptors, and a sequence of edges, whose places are the      *)
(* edge descriptors.  The out-edges of a vertex are kept, and examined, in *)
(* the order they were added.                                              *)
(***************************************************************************)
EXTENDS IoGraph, Sequences, SequencesExt

CONSTANT Resolution   \* so many vertices in a row may have one timestamp

VARIABLES
  graph,       \* vertices with type, proc, and root_event of syncs
  edges,       \* pairs of descriptors
  discovered,  \* vertices whose colour is not white
  stack,       \* the search: vertices under way, each with its last out-edge
  set_map,     \* shared_set_container: the sets of every process
  visit        \* phase of cio_sets_per_process, or how it ended

visitor_vars == <<graph, edges, discovered, stack, set_map, visit>>

Unset == 0   \* root_event, end_evt_ and origin_end_ before they are set

IsSynthetic(v) == graph[v].type = "synthetic"
IsSync(v) == graph[v].type = "sync_event"
Root(v) == graph[v].root_event

out_edges(v) == {e \in DOMAIN edges : edges[e][1] = v}

(***************************************************************************)
(* The reader delivers events by time, and vertices are added as they are  *)
(* delivered: the timestamp of a vertex does not decrease with its         *)
(* descriptor.  It is 0 for the root and the largest time for the end.     *)
(***************************************************************************)
Time(v) == IF v = 1 THEN 0
           ELSE IF IsSynthetic(v) THEN Len(graph) ELSE v \div Resolution

-----------------------------------------------------------------------------
(***************************************************************************)
(* A CIO_Set under construction.  sm stands for a map of sets; find_open   *)
(* looks at the last set of a process only, and synthetic vertices have no *)
(* process.                                                                *)
(***************************************************************************)
NewSet(v) == [start |-> v, state |-> "Open", end |-> Unset, origin |-> Unset, events |-> {}]

HasOpenSet(sm, p) == sm[p] # <<>> /\ Last(sm[p]).state = "Open"

create_new_set(sm, p, v) == [sm EXCEPT ![p] = Append(@, NewSet(v))]

close(sm, p, end, origin) ==
  [sm EXCEPT ![p][Len(sm[p])] =
     [@ EXCEPT !.state = "Close", !.end = end, !.origin = origin]]

insert(sm, p, v) == [sm EXCEPT ![p][Len(sm[p])].events = @ \cup {v}]

(* Faulty variant of discover_vertex: only a discovered sync without open  *)
(* set starts one.                                                         *)
discover_restarting_only(sm, v) ==
  LET p == graph[v].proc IN
  CASE IsSynthetic(v) -> sm
    [] IsSync(v) /\ HasOpenSet(sm, p) -> close(sm, p, Root(v), v)
    [] IsSync(v) /\ ~HasOpenSet(sm, p) /\ sm[p] = <<>> -> create_new_set(sm, p, Root(v))
    [] OTHER -> IF HasOpenSet(sm, p) THEN insert(sm, p, v) ELSE sm

(***************************************************************************)
(* discover_vertex.  An I/O event without open set is logged and lost.     *)
(***************************************************************************)
discover_vertex(sm, v) ==
  LET p == graph[v].proc IN
  IF IsSynthetic(v) THEN sm
  ELSE IF ~HasOpenSet(sm, p)
  THEN IF IsSync(v) THEN create_new_set(sm, p, Root(v)) ELSE sm
  ELSE IF ~IsSync(v) THEN insert(sm, p, v)
  ELSE IF out_edges(v) = {} THEN close(sm, p, Root(v), v)
  ELSE create_new_set(close(sm, p, Root(v), v), p, Root(v))

(* Faulty variant of examine_edge: an end is the vertex of the process     *)
(* itself, not the root event.                                             *)
examine_own_end(sm, v, w) ==
  IF IsSynthetic(w)
  THEN IF HasOpenSet(sm, graph[v].proc) THEN close(sm, graph[v].proc, w, w) ELSE sm
  ELSE IF IsSynthetic(v)
  THEN LET new == create_new_set(sm, graph[w].proc, v)
       IN IF IsSync(w) THEN close(new, graph[w].proc, w, w) ELSE new
  ELSE IF graph[v].proc = graph[w].proc /\ HasOpenSet(sm, graph[w].proc) /\ IsSync(w)
  THEN close(sm, graph[w].proc, w, w)
  ELSE sm

(* Faulty variant of examine_edge: the search is not expected to come back *)
(* to a sync event it knows.                                               *)
examine_without_closing(sm, v, w) ==
  IF IsSynthetic(w)
  THEN IF HasOpenSet(sm, graph[v].proc) THEN close(sm, graph[v].proc, w, w) ELSE sm
  ELSE IF IsSynthetic(v)
  THEN LET new == create_new_set(sm, graph[w].proc, v)
       IN IF IsSync(w) THEN close(new, graph[w].proc, Root(w), w) ELSE new
  ELSE sm

(***************************************************************************)
(* examine_edge: sets are closed on the way to the synthetic end and on    *)
(* the way to a sync event of the same process, which the search may       *)
(* already know; they are opened on the way from the synthetic root.       *)
(***************************************************************************)
examine_edge(sm, v, w) ==
  IF IsSynthetic(w)
  THEN IF HasOpenSet(sm, graph[v].proc) THEN close(sm, graph[v].proc, w, w) ELSE sm
  ELSE IF IsSynthetic(v)
  THEN LET new == create_new_set(sm, graph[w].proc, v)
       IN IF IsSync(w) THEN close(new, graph[w].proc, Root(w), w) ELSE new
  ELSE IF graph[v].proc = graph[w].proc /\ HasOpenSet(sm, graph[w].proc) /\ IsSync(w)
  THEN close(sm, graph[w].proc, Root(w), w)
  ELSE sm

(***************************************************************************)
(* Both callbacks assert that a sync event has its root event wherever     *)
(* they use it.                                                            *)
(***************************************************************************)
ExamineAsserts(sm, v, w) ==
  IsSync(w) /\ (IsSynthetic(v) \/ (graph[v].proc = graph[w].proc
                                     /\ HasOpenSet(sm, graph[w].proc)))
    => Root(w) # Unset

DiscoverAsserts(v) == IsSync(v) => Root(v) # Unset

-----------------------------------------------------------------------------
VisitorInit ==
  /\ discovered = {}
  /\ stack = <<>>
  /\ set_map = [p \in Procs |-> <<>>]
  /\ visit = "idle"

(* find_root takes the first synthetic vertex. *)
find_root == Min({v \in DOMAIN graph : IsSynthetic(v)})

(* A vertex under way; no out-edge of it was taken yet. *)
Visiting(v) == [vertex |-> v, edge |-> 0]

StartVisit ==
  /\ visit = "idle"
  /\ discovered' = {find_root}
  /\ stack' = <<Visiting(find_root)>>
  /\ set_map' = discover_vertex(set_map, find_root)
  /\ visit' = "searching"
  /\ UNCHANGED <<graph, edges>>

Top == Last(stack)
EdgesLeft == {e \in out_edges(Top.vertex) : e > Top.edge}
HasEdge == stack # <<>> /\ EdgesLeft # {}
NextEdge == Min(EdgesLeft)
Target == edges[NextEdge][2]
TakeEdge == [stack EXCEPT ![Len(stack)].edge = NextEdge]
Examined == examine_edge(set_map, Top.vertex, Target)

AbortVisit ==
  /\ visit' = "aborted"
  /\ UNCHANGED <<graph, edges, discovered, stack, set_map>>

(***************************************************************************)
(* The next out-edge leads to a vertex that was not discovered, or to one  *)
(* that was.                                                               *)
(***************************************************************************)
Descend ==
  /\ visit = "searching" /\ HasEdge /\ Target \notin discovered
  /\ IF ExamineAsserts(set_map, Top.vertex, Target) /\ DiscoverAsserts(Target)
     THEN /\ stack' = Append(TakeEdge, Visiting(Target))
          /\ discovered' = discovered \cup {Target}
          /\ set_map' = discover_vertex(Examined, Target)
          /\ UNCHANGED <<graph, edges, visit>>
     ELSE AbortVisit

SkipEdge ==
  /\ visit = "searching" /\ HasEdge /\ Target \in discovered
  /\ IF ExamineAsserts(set_map, Top.vertex, Target)
     THEN /\ stack' = TakeEdge
          /\ set_map' = Examined
          /\ UNCHANGED <<graph, edges, discovered, visit>>
     ELSE AbortVisit

Backtrack ==
  /\ visit = "searching" /\ stack # <<>> /\ ~HasEdge
  /\ stack' = Front(stack)
  /\ UNCHANGED <<graph, edges, discovered, set_map, visit>>

(* Faulty variant: the sets stay in the order in which they were made. *)
AsCreated(s) == {s}

(***************************************************************************)
(* std::sort by the time of the vertex that closed the set: equal times    *)
(* leave the order open.                                                   *)
(***************************************************************************)
ChronoSorted(s) ==
  {t \in {[i \in DOMAIN s |-> s[order[i]]] : order \in SetToSeqs(DOMAIN s)} :
     \A i, j \in DOMAIN t : i < j => Time(t[i].origin) <= Time(t[j].origin)}

(* sort_set_map_chrono *)
SortSets ==
  /\ visit = "searching" /\ stack = <<>>
  /\ IF \E p \in Procs : /\ Len(set_map[p]) > 1
                         /\ \E i \in DOMAIN set_map[p] : set_map[p][i].origin = Unset
     THEN AbortVisit
     ELSE /\ set_map' \in [Procs -> UNION {ChronoSorted(set_map[p]) : p \in Procs}]
          /\ \A p \in Procs : set_map'[p] \in ChronoSorted(set_map[p])
          /\ visit' = "done"
          /\ UNCHANGED <<graph, edges, discovered, stack>>

VisitNext == StartVisit \/ Descend \/ SkipEdge \/ Backtrack \/ SortSets

-----------------------------------------------------------------------------
(***************************************************************************)
(* What the sets of a process should be: its vertices in program order,    *)
(* cut at every synchronisation.  The segment that begins at b, a          *)
(* synchronisation or the start of the program, is closed by the next      *)
(* synchronisation, or by the synthetic end.                               *)
(***************************************************************************)
Own(p) == {v \in DOMAIN graph : ~IsSynthetic(v) /\ graph[v].proc = p}
Syncs(p) == {v \in Own(p) : IsSync(v)}

Beginning == 0
Begins(p) == {Beginning} \cup Syncs(p)

Closing(p, b) ==
  LET later == {v \in Syncs(p) : v > b}
  IN IF later = {} THEN Len(graph) ELSE Min(later)

RootOf(v) == IF IsSync(v) THEN Root(v) ELSE v

Segment(p, b) ==
  [start  |-> IF b = Beginning THEN 1 ELSE Root(b),
   state  |-> "Close",
   end    |-> RootOf(Closing(p, b)),
   origin |-> Closing(p, b),
   events |-> {v \in Own(p) \ Syncs(p) : b < v /\ v < Closing(p, b)}]

(***************************************************************************)
(* The search makes exactly the segments, whatever order it comes by them  *)
(* in: no I/O event is met without an open set, none ends up behind a      *)
(* synchronisation it precedes, every set is closed by the right root      *)
(* event, and none is made twice.                                          *)
(***************************************************************************)
SegmentsFound ==
  visit = "done" =>
    \A p \in Procs : /\ Range(set_map[p]) = {Segment(p, b) : b \in Begins(p)}
                     /\ Len(set_map[p]) = Cardinality(Begins(p))

(***************************************************************************)
(* "it should work since events of the same rank can not overhaul          *)
(* themselve" (cio_set.cpp:226): sorting by time gives the order of the    *)
(* program if no two synchronisations of a process have one timestamp.     *)
(***************************************************************************)
DistinctTimes(p) == \A v, w \in Syncs(p) : v # w => Time(v) # Time(w)

Chronological ==
  visit = "done" =>
    \A p \in Procs : DistinctTimes(p) =>
      \A i, j \in DOMAIN set_map[p] : i < j => set_map[p][i].origin < set_map[p][j].origin

(***************************************************************************)
(* While the graph is searched, at most one set is open, it is the last of *)
(* its process, and the search is at a vertex of that process: an event    *)
(* is never put into the set of another process or of another descent.     *)
(***************************************************************************)
OpenSets ==
  {x \in UNION {{p} \X DOMAIN set_map[p] : p \in Procs} :
     set_map[x[1]][x[2]].state = "Open"}

OneOpenSet ==
  visit = "searching" =>
    \A x \in OpenSets :
      /\ OpenSets = {x} /\ x[2] = Len(set_map[x[1]])
      /\ stack # <<>> /\ ~IsSynthetic(Top.vertex) /\ graph[Top.vertex].proc = x[1]
=============================================================================
