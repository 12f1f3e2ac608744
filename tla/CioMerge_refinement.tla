------------------------- MODULE CioMerge_refinement -------------------------
(***************************************************************************)
(* The merge explores consistent cuts, what it returns is concurrent, and  *)
(* no I/O event gets lost.                                                 *)
(***************************************************************************)
EXTENDS CioMerge_proofs

(***************************************************************************)
(* No chain of synchronisations orders two events of a returned set, for   *)
(* every trace with a common order of synchronisations.                    *)
(***************************************************************************)
THEOREM ReturnsConcurrentSets == Spec => []MergedIsConcurrent
<1>1. IInv /\ SoundMerged => MergedIsConcurrent
  <2> SUFFICES ASSUME IInv, SoundMerged, Ordered(trace), NEW m \in merged,
                      NEW p \in Procs, NEW q \in Procs,
                      NEW i \in Indices(trace, p), NEW j \in Indices(trace, q),
                      trace.pio[p][i].events \cap m.events # {},
                      trace.pio[q][j].events \cap m.events # {}
               PROVE  Concurrent(trace, p, i, q, j)
    BY DEF MergedIsConcurrent
  <2>1. /\ IsTrace(trace) /\ m \in merged /\ m.cut \in Cuts(trace)
        /\ Inside(trace, m.cut) /\ Consistent(trace, m.cut)
        /\ m.events = UNION {trace.pio[r][m.cut[r]].events : r \in Procs}
    BY DEF IInv, TypeOK, SoundMerged
  <2>2. ASSUME NEW r \in Procs, NEW k \in Indices(trace, r),
               trace.pio[r][k].events \cap m.events # {}
        PROVE  k = m.cut[r]
    <3>1. PICK a \in trace.pio[r][k].events : a \in m.events
      BY <2>2
    <3>2. PICK s \in Procs : a \in trace.pio[s][m.cut[s]].events
      BY <2>1, <3>1
    <3>3. m.cut[s] \in Indices(trace, s)
      BY <2>1 DEF Inside
    <3>4. trace.pio[r][k].events \cap trace.pio[s][m.cut[s]].events # {}
      BY <3>1, <3>2
    <3>5. \A p1, q1 \in Procs :
            \A i1 \in Indices(trace, p1), j1 \in Indices(trace, q1) :
              trace.pio[p1][i1].events \cap trace.pio[q1][j1].events # {}
                => p1 = q1 /\ i1 = j1
      BY <2>1 DEF IsTrace
    <3> QED
      BY <3>3, <3>4, <3>5
  <2>3. i = m.cut[p] /\ j = m.cut[q]
    BY <2>2
  <2>4. ~Precedes(trace, p, i, q, j) /\ ~Precedes(trace, q, j, p, i)
    BY <2>1, <2>3, CutNotOrdered DEF Inside
  <2> QED
    BY <2>4 DEF Concurrent
<1> QED
  BY <1>1, Invariance, MergedInvariance, PTL

-----------------------------------------------------------------------------
(***************************************************************************)
(* Refinement.  The operators of the instance mean the same as those of    *)
(* CioTrace.                                                               *)
(***************************************************************************)
LEMMA SameOperators ==
  /\ \A tr : Exploration!IsTrace(tr) <=> IsTrace(tr)
  /\ \A tr, e : Exploration!Group(tr, e) = Group(tr, e)
  /\ \A tr, p, i : Exploration!EndAt(tr, p, i) = EndAt(tr, p, i)
  /\ \A tr, p : Exploration!Indices(tr, p) = Indices(tr, p)
  /\ Exploration!Procs = Procs
<1>1. Exploration!num_procs = num_procs /\ Exploration!Procs = Procs
  BY DEF Exploration!num_procs, num_procs, Exploration!Procs, Procs
<1>2. \A v : Exploration!procs_in_sync_involved(v) = procs_in_sync_involved(v)
  BY DEF Exploration!procs_in_sync_involved, procs_in_sync_involved
<1>3. \A v : Exploration!pg_group(v) = pg_group(v)
  BY <1>1, <1>2 DEF Exploration!pg_group, pg_group
<1>4. \A tr, e : Exploration!Group(tr, e) = Group(tr, e)
  BY <1>3 DEF Exploration!Group, Group
<1>5. \A tr, p, i : Exploration!EndAt(tr, p, i) = EndAt(tr, p, i)
  BY DEF Exploration!EndAt, EndAt
<1>6. \A tr, p : Exploration!Indices(tr, p) = Indices(tr, p)
  BY DEF Exploration!Indices, Indices
<1>7. Exploration!Vertex = Vertex
  BY <1>1 DEF Exploration!Vertex, Vertex, Exploration!VertexKinds, VertexKinds
<1>8. \A vs : Exploration!CioSet(vs) = CioSet(vs)
  BY DEF Exploration!CioSet, CioSet
<1>9. \A tr : Exploration!IsTrace(tr) <=> IsTrace(tr)
  BY <1>1, <1>5, <1>6, <1>7, <1>8 DEF Exploration!IsTrace, IsTrace
<1> QED
  BY <1>1, <1>4, <1>5, <1>6, <1>9

MergedCuts == {m.cut : m \in merged}

(***************************************************************************)
(* The cut w is the first one or one synchronisation ahead of a merged one.*)
(***************************************************************************)
NextCut(w) ==
  \/ w = make_mapview
  \/ \E c \in MergedCuts, e \in DOMAIN trace.graph :
       /\ \A p \in Group(trace, e) :
            c[p] \in Indices(trace, p) /\ EndAt(trace, p, c[p]) = e
       /\ w = update_view(Group(trace, e), c)

ExploredFrames ==
  {f \in SoundFrames(trace) : /\ f.pc = "loop"  => f.view \in MergedCuts
                              /\ f.pc = "enter" => NextCut(f.view)}

RInv == IInv /\ Ordered(trace) /\ calls \in Seq(ExploredFrames)

LEMMA ExploredGrow ==
  ASSUME trace' = trace, MergedCuts \subseteq MergedCuts'
  PROVE  ExploredFrames \subseteq ExploredFrames'
<1>1. ASSUME NEW w, NextCut(w) PROVE NextCut(w)'
  BY <1>1 DEF NextCut
<1>2. SoundFrames(trace)' = SoundFrames(trace)
  OBVIOUS
<1> QED
  BY <1>1, <1>2 DEF ExploredFrames

(***************************************************************************)
(* Every step keeps RInv, and is a step of the exploration or a stutter.   *)
(***************************************************************************)
LEMMA StepExplores ==
  RInv /\ [Next]_vars => RInv' /\ [Exploration!CNext]_(Exploration!cvars)
<1> SUFFICES ASSUME RInv, [Next]_vars
             PROVE  RInv' /\ [Exploration!CNext]_(Exploration!cvars)
  OBVIOUS
<1>1. IInv' /\ Ordered(trace)' /\ trace' = trace
  BY StepSound
     DEF RInv, Next, vars, ReturnOnEnd, Merge, Recurse, ReturnFromLoop, Fail, Finish
<1>2. calls # <<>> => Pop(calls) \in Seq(ExploredFrames) /\ Top \in ExploredFrames
  BY PopType DEF RInv, Top
<1>3. IsTrace(trace)
  BY DEF RInv, IInv, TypeOK
\* Steps that leave merged alone stutter.
<1>4. ASSUME merged' = merged, calls' \in Seq(ExploredFrames)
      PROVE  RInv' /\ [Exploration!CNext]_(Exploration!cvars)
  <2>1. MergedCuts' = MergedCuts
    BY <1>4 DEF MergedCuts
  <2>2. ExploredFrames \subseteq ExploredFrames'
    BY <1>1, <2>1, ExploredGrow
  <2>3. calls' \in Seq(ExploredFrames')
    BY <1>4, <2>2
  <2>4. Exploration!cvars' = Exploration!cvars
    BY <1>1, <1>4 DEF Exploration!cvars
  <2> QED
    BY <1>1, <2>3, <2>4 DEF RInv
<1>5. CASE ReturnOnEnd
  BY <1>2, <1>4, <1>5 DEF ReturnOnEnd
<1>6. CASE Merge
  <2> DEFINE m == MergeAt(trace, Top.view)
             F == find_end_events_to_update(trace, Top.view)
             f == [view |-> Top.view, pc |-> "loop", todo |-> F]
  <2>1. /\ Top \in ExploredFrames /\ Top.pc = "enter" /\ merged' = merged \cup {m}
        /\ calls' = Append(Pop(calls), f) /\ calls # <<>>
    BY <1>2, <1>6 DEF Merge
  <2>2. MergedCuts' = MergedCuts \cup {Top.view}
    <3>1. m.cut = Top.view
      BY DEF MergeAt
    <3>2. merged' = merged \cup {m}
      BY <2>1
    <3> HIDE DEF m
    <3> QED
      BY <3>1, <3>2 DEF MergedCuts
  <2>3. ExploredFrames \subseteq ExploredFrames'
    BY <1>1, <2>2, ExploredGrow
  <2>4. calls' # <<>> /\ calls'[Len(calls')] = f
    <3>1. Pop(calls) \in Seq(ExploredFrames \cup {f}) /\ f \in ExploredFrames \cup {f}
      BY <1>2, <2>1
    <3> QED
      BY <2>1, <3>1, AppendProperties
  <2>5. f \in SoundFrames(trace)
    <3>1. calls' \in Seq(SoundFrames(trace))
      BY <1>1 DEF IInv
    <3> QED
      BY <2>4, <3>1
  <2>6. f \in ExploredFrames'
    BY <1>1, <2>2, <2>5 DEF ExploredFrames
  <2>7. calls' \in Seq(ExploredFrames')
    <3>1. Pop(calls) \in Seq(ExploredFrames')
      BY <1>2, <2>1, <2>3
    <3> QED
      BY <2>1, <2>6, <3>1, AppendProperties
  <2>8. NextCut(Top.view)
    BY <2>1 DEF ExploredFrames
  <2>9. Exploration!CNext
    <3>1. CASE Top.view = make_mapview
      <4>1. Exploration!Start
        BY <1>1, <2>2, <3>1, SameOperators
           DEF Exploration!Start, MergedCuts, Exploration!FirstCut, make_mapview
      <4> QED
        BY <4>1 DEF Exploration!CNext
    <3>2. CASE Top.view # make_mapview
      <4>1. PICK c \in MergedCuts, e \in DOMAIN trace.graph :
              /\ \A p \in Group(trace, e) :
                   c[p] \in Indices(trace, p) /\ EndAt(trace, p, c[p]) = e
              /\ Top.view = update_view(Group(trace, e), c)
        BY <2>8, <3>2 DEF NextCut
      <4>2. Exploration!Advance(c, e) = Top.view
        BY <4>1, SameOperators DEF Exploration!Advance, update_view
      <4>3. Exploration!Arrived(c, e)
        BY <4>1, SameOperators DEF Exploration!Arrived
      <4>4. Exploration!Pass(c, e)
        BY <1>1, <2>2, <4>2, <4>3 DEF Exploration!Pass, MergedCuts
      <4> QED
        BY <4>1, <4>4 DEF Exploration!CNext, MergedCuts
    <3> QED
      BY <3>1, <3>2
  <2> QED
    BY <1>1, <2>7, <2>9 DEF RInv
<1>7. CASE Recurse
  <2>1. PICK e \in Top.todo :
          calls' = Append(Append(Pop(calls),
                            [view |-> Top.view, pc |-> "loop",
                             todo |-> Top.todo \ {e}]),
                     Frame(update_view(Group(trace, e), Top.view)))
    BY <1>7 DEF Recurse
  <2> DEFINE f == [view |-> Top.view, pc |-> "loop", todo |-> Top.todo \ {e}]
             w == update_view(Group(trace, e), Top.view)
  <2>2. /\ Top \in ExploredFrames /\ Top.pc = "loop" /\ merged' = merged
        /\ Pop(calls) \in Seq(ExploredFrames)
    BY <1>2, <1>7 DEF Recurse
  <2>3. /\ Top.view \in Cuts(trace) /\ Inside(trace, Top.view)
        /\ Consistent(trace, Top.view) /\ e \in DOMAIN trace.graph
        /\ can_update_end_event(trace, Top.view, e) /\ Top.view \in MergedCuts
    BY <2>2 DEF ExploredFrames, SoundFrames, Frames, RInv
  <2>4. f \in ExploredFrames
    BY <2>2, <2>3 DEF ExploredFrames, SoundFrames, Frames
  <2>5. NextCut(w)
    <3>1. Group(trace, e) \subseteq Procs
      <4>1. trace.graph[e] \in Vertex
        BY <1>3, <2>3 DEF IsTrace
      <4> QED
        BY <4>1 DEF Group, pg_group, Vertex, Procs, num_procs, procs_in_sync_involved
    <3>2. \A p \in Group(trace, e) :
            Top.view[p] \in Indices(trace, p) /\ EndAt(trace, p, Top.view[p]) = e
      BY <2>3, <3>1 DEF Inside, can_update_end_event
    <3> QED
      BY <2>3, <3>2 DEF NextCut
  <2>6. Frame(w) \in SoundFrames(trace)
    <3>1. w \in Cuts(trace) /\ Consistent(trace, w)
      BY <1>3, <2>3, UpdateViewType, UpdateViewConsistent
    <3> QED
      BY <3>1 DEF Frame, SoundFrames, Frames
  <2>7. Frame(w) \in ExploredFrames
    BY <2>5, <2>6 DEF Frame, ExploredFrames
  <2>8. Append(Pop(calls), f) \in Seq(ExploredFrames)
    BY <2>2, <2>4, AppendProperties
  <2>9. calls' \in Seq(ExploredFrames)
    BY <2>1, <2>7, <2>8, AppendProperties
  <2> QED
    BY <1>4, <2>2, <2>9
<1>8. CASE ReturnFromLoop
  BY <1>2, <1>4, <1>8 DEF ReturnFromLoop
<1>9. CASE Fail \/ Finish \/ UNCHANGED vars
  BY <1>4, <1>9 DEF Fail, Finish, vars, RInv
<1> QED
  BY <1>5, <1>6, <1>7, <1>8, <1>9 DEF Next

(***************************************************************************)
(* If all traces have a common order of synchronisations, the merge        *)
(* implements the exploration of cuts.                                     *)
(***************************************************************************)
THEOREM ImplementsExploration ==
  ASSUME \A tr \in Traces : Ordered(tr)
  PROVE  Spec => ExploresCuts
<1>1. Init => RInv /\ Exploration!CInit
  <2> SUFFICES ASSUME Init PROVE RInv /\ Exploration!CInit
    OBVIOUS
  <2>1. IInv /\ Ordered(trace) /\ IsTrace(trace)
    BY InitSound DEF Init, IInv, TypeOK
  <2>2. Frame(make_mapview) \in ExploredFrames
    BY <2>1, FirstViewSound DEF Frame, ExploredFrames, SoundFrames, Frames, NextCut
  <2>3. calls \in Seq(ExploredFrames)
    BY <2>2 DEF Init
  <2>4. Exploration!CInit
    BY <2>1, SameOperators DEF Init, Exploration!CInit
  <2> QED
    BY <2>1, <2>3, <2>4 DEF RInv
<1> QED
  BY <1>1, StepExplores, PTL DEF Spec, ExploresCuts, Exploration!CSpec

-----------------------------------------------------------------------------
(***************************************************************************)
(* No I/O event gets lost in the merge, whatever the trace: the recursion  *)
(* that drops some orders of independent synchronisations still meets      *)
(* every set of every process.                                             *)
(***************************************************************************)

(***************************************************************************)
(* Set i of process p is part of one of the merged sets; all sets are that *)
(* lie at a view or after it.                                              *)
(***************************************************************************)
Met(sets, p, i) == \E m \in sets : m.cut[p] = i

CoveredFrom(tr, sets, view) ==
  \A p \in Procs : \A i \in Indices(tr, p) : view[p] <= i => Met(sets, p, i)

(***************************************************************************)
(* A call advances every process by one set at most.                       *)
(***************************************************************************)
Near(view, next) == \A p \in Procs : next[p] <= view[p] + 1

(***************************************************************************)
(* Call n of the stack s, in its loop, has merged the sets at its view,    *)
(* and either everything from there on is merged already, or the call is   *)
(* waiting for one that sees to it, or it is going to make one.            *)
(***************************************************************************)
SeesToIt(tr, s, sets, n) ==
  /\ \A p \in Procs : Met(sets, p, s[n].view[p])
  /\ \/ s[n].todo # {}
     \/ CoveredFrom(tr, sets, s[n].view)
     \/ n < Len(s) /\ Near(s[n].view, s[n + 1].view)

(***************************************************************************)
(* The inductive invariant: all calls but the innermost one are in their   *)
(* loops, whoever is there sees to it, and when the first call is gone,    *)
(* everything is merged.                                                   *)
(***************************************************************************)
Coverage(tr, s, sets) ==
  /\ \A n \in 1 .. Len(s) : n < Len(s) => s[n].pc = "loop"
  /\ \A n \in 1 .. Len(s) : s[n].pc = "loop" => SeesToIt(tr, s, sets, n)
  /\ s = <<>> => CoveredFrom(tr, sets, make_mapview)
  /\ s # <<>> => s[1].view = make_mapview

CoverageInv ==
  /\ Coverage(trace, calls, merged)
  /\ status = "done" => calls = <<>> /\ result = {m \in merged : m.events # {}}

-----------------------------------------------------------------------------
LEMMA PopFacts ==
  ASSUME NEW S, NEW s \in Seq(S), s # <<>>
  PROVE  /\ Len(s) \in Nat \ {0}
         /\ Pop(s) \in Seq(S)
         /\ Len(Pop(s)) = Len(s) - 1
         /\ \A n \in 1 .. Len(s) - 1 : Pop(s)[n] = s[n]
<1>1. Len(s) \in Nat /\ Len(s) > 0 /\ \A i \in 1 .. Len(s) : s[i] \in S
  OBVIOUS
<1>2. 1 \in Int /\ Len(s) - 1 \in Int /\ \A i \in 1 .. Len(s) - 1 : s[i] \in S
  BY <1>1
<1> DEFINE k == Len(s) - 1
<1> HIDE DEF k
<1>3. /\ Len(SubSeq(s, 1, k)) = IF 1 <= k THEN k - 1 + 1 ELSE 0
      /\ \A n \in 1 .. k - 1 + 1 : SubSeq(s, 1, k)[n] = s[1 + n - 1]
  BY <1>2, SubSeqProperties DEF k
<1>4. k \in Nat
  BY <1>1 DEF k
<1>5. Len(SubSeq(s, 1, k)) = k
  BY <1>3, <1>4
<1>6. ASSUME NEW n \in 1 .. k PROVE SubSeq(s, 1, k)[n] = s[n]
  <2>1. n \in 1 .. k - 1 + 1 /\ 1 + n - 1 = n
    BY <1>4
  <2> QED
    BY <1>3, <2>1
<1> QED
  BY <1>1, <1>5, <1>6, PopType DEF Pop, k

(***************************************************************************)
(* The innermost frame replaced: what is left alone and what is new.       *)
(***************************************************************************)
LEMMA ReplaceFacts ==
  ASSUME NEW S, NEW s \in Seq(S), s # <<>>, NEW f \in S
  PROVE  /\ Append(Pop(s), f) \in Seq(S)
         /\ Len(Append(Pop(s), f)) = Len(s)
         /\ Append(Pop(s), f)[Len(s)] = f
         /\ \A n \in 1 .. Len(s) - 1 : Append(Pop(s), f)[n] = s[n]
<1>1. /\ Len(s) \in Nat \ {0} /\ Pop(s) \in Seq(S) /\ Len(Pop(s)) = Len(s) - 1
      /\ \A n \in 1 .. Len(s) - 1 : Pop(s)[n] = s[n]
  BY PopFacts
<1> DEFINE t == Pop(s)
<1> HIDE DEF t
<1>2. /\ Append(t, f) \in Seq(S)
      /\ Len(Append(t, f)) = Len(s)
      /\ Append(t, f)[Len(s)] = f
      /\ \A n \in 1 .. Len(s) - 1 : Append(t, f)[n] = t[n]
  BY <1>1 DEF t
<1> QED
  BY <1>1, <1>2 DEF t

LEMMA CoverageGrows ==
  ASSUME NEW sets, NEW more, sets \subseteq more
  PROVE  /\ \A p, i : Met(sets, p, i) => Met(more, p, i)
         /\ \A tr, view : CoveredFrom(tr, sets, view) => CoveredFrom(tr, more, view)
BY DEF Met, CoveredFrom

(***************************************************************************)
(* What is covered from the views a call hands on is covered from its own, *)
(* given that it has merged there.                                         *)
(***************************************************************************)
LEMMA CoveredBefore ==
  ASSUME NEW tr, IsTrace(tr), NEW sets, NEW view \in Cuts(tr), NEW next \in Cuts(tr),
         \A p \in Procs : Met(sets, p, view[p]), Near(view, next),
         CoveredFrom(tr, sets, next)
  PROVE  CoveredFrom(tr, sets, view)
<1> SUFFICES ASSUME NEW p \in Procs, NEW i \in Indices(tr, p), view[p] <= i
             PROVE  Met(sets, p, i)
  BY DEF CoveredFrom
<1>1. view[p] \in Nat /\ next[p] \in Nat /\ i \in Nat /\ next[p] <= view[p] + 1
  BY DEF Cuts, Indices, Near
<1>2. CASE i = view[p]
  BY <1>2
<1>3. CASE next[p] <= i
  BY <1>3 DEF CoveredFrom
<1> QED
  BY <1>1, <1>2, <1>3

(***************************************************************************)
(* A call may return once everything from its view on is merged.           *)
(***************************************************************************)
LEMMA ReturnCovered ==
  ASSUME NEW tr, IsTrace(tr), NEW s \in Seq(SoundFrames(tr)), s # <<>>, NEW sets,
         Coverage(tr, s, sets), CoveredFrom(tr, sets, s[Len(s)].view)
  PROVE  Coverage(tr, Pop(s), sets)
<1> DEFINE N == Len(s)
           t == Pop(s)
<1>1. /\ N \in Nat \ {0} /\ t \in Seq(SoundFrames(tr)) /\ Len(t) = N - 1
      /\ \A n \in 1 .. N - 1 : t[n] = s[n]
  BY PopFacts
<1>2. \A n \in 1 .. N : s[n].view \in Cuts(tr)
  BY DEF SoundFrames, Frames
<1>3. ASSUME NEW n \in 1 .. N - 1
      PROVE  s[n].pc = "loop" /\ SeesToIt(tr, s, sets, n)
  <2>1. n \in 1 .. N /\ n < N
    BY <1>1
  <2> QED
    BY <2>1 DEF Coverage
<1> HIDE DEF t
<1>4. ASSUME NEW n \in 1 .. N - 1
      PROVE  SeesToIt(tr, t, sets, n)
  <2>1. /\ t[n] = s[n] /\ n + 1 \in 1 .. N /\ n < N
        /\ \A p \in Procs : Met(sets, p, s[n].view[p])
        /\ \/ s[n].todo # {}
           \/ CoveredFrom(tr, sets, s[n].view)
           \/ Near(s[n].view, s[n + 1].view)
    BY <1>1, <1>3 DEF SeesToIt
  <2>2. CASE n + 1 = N
    <3>1. s[n].view \in Cuts(tr) /\ s[n + 1].view \in Cuts(tr)
      BY <1>2, <2>1
    <3>2. Near(s[n].view, s[n + 1].view) => CoveredFrom(tr, sets, s[n].view)
      BY <2>1, <2>2, <3>1, CoveredBefore
    <3> QED
      BY <2>1, <3>2 DEF SeesToIt
  <2>3. CASE n + 1 # N
    <3>1. n + 1 \in 1 .. N - 1 /\ t[n + 1] = s[n + 1]
      BY <1>1, <2>1, <2>3
    <3> QED
      BY <1>1, <2>1, <3>1 DEF SeesToIt
  <2> QED
    BY <2>2, <2>3
<1>5. CASE N = 1
  <2>1. t = <<>>
    BY <1>1, <1>5, EmptySeq
  <2>2. s[N].view = make_mapview
    BY <1>5 DEF Coverage
  <2> QED
    BY <1>1, <1>5, <2>1, <2>2 DEF Coverage, t
<1>6. CASE N # 1
  <2>1. t # <<>> /\ 1 \in 1 .. N - 1
    BY <1>1, <1>6
  <2>2. t[1].view = make_mapview
    BY <1>1, <2>1 DEF Coverage
  <2> QED
    BY <1>1, <1>3, <1>4, <2>1, <2>2 DEF Coverage, t
<1> QED
  BY <1>5, <1>6

(***************************************************************************)
(* The innermost call goes on with its loop, which is not over.            *)
(***************************************************************************)
LEMMA LoopCovered ==
  ASSUME NEW tr, IsTrace(tr), NEW s \in Seq(SoundFrames(tr)), s # <<>>,
         NEW sets, NEW more, sets \subseteq more, Coverage(tr, s, sets),
         NEW f \in SoundFrames(tr), f.view = s[Len(s)].view
  PROVE  LET t == Append(Pop(s), f) IN
         /\ \A n \in 1 .. Len(s) - 1 : t[n].pc = "loop" /\ SeesToIt(tr, t, more, n)
         /\ t \in Seq(SoundFrames(tr)) /\ Len(t) = Len(s) /\ t[Len(s)] = f
         /\ t[1].view = make_mapview
<1> DEFINE N == Len(s)
           t == Append(Pop(s), f)
<1>1. /\ t \in Seq(SoundFrames(tr)) /\ Len(t) = N /\ t[N] = f
      /\ \A n \in 1 .. N - 1 : t[n] = s[n]
  BY ReplaceFacts
<1> HIDE DEF t
<1>2. N \in Nat \ {0}
  BY PopFacts
<1>3. \A n \in 1 .. N : t[n].view = s[n].view
  BY <1>1, <1>2
<1>4. ASSUME NEW n \in 1 .. N - 1
      PROVE  t[n].pc = "loop" /\ SeesToIt(tr, t, more, n)
  <2>1. /\ t[n] = s[n] /\ n + 1 \in 1 .. N /\ n \in 1 .. N /\ n < N
    BY <1>1, <1>2
  <2>2. s[n].pc = "loop" /\ SeesToIt(tr, s, sets, n)
    BY <2>1 DEF Coverage
  <2>3. t[n + 1].view = s[n + 1].view
    BY <1>3, <2>1
  <2> QED
    BY <1>1, <2>1, <2>2, <2>3, CoverageGrows DEF SeesToIt
<1>5. t[1].view = make_mapview
  BY <1>2, <1>3 DEF Coverage
<1> QED
  BY <1>1, <1>4, <1>5 DEF t

-----------------------------------------------------------------------------
LEMMA InitCoverage == Init => CoverageInv
BY DEF Init, CoverageInv, Coverage, Frame

LEMMA StepCoverage == IInv /\ CoverageInv /\ [Next]_vars => CoverageInv'
<1> SUFFICES ASSUME IInv, CoverageInv, [Next]_vars PROVE CoverageInv'
  OBVIOUS
<1> DEFINE N == Len(calls)
           S == SoundFrames(trace)
<1>1. IsTrace(trace) /\ calls \in Seq(S) /\ Coverage(trace, calls, merged)
  BY DEF IInv, TypeOK, CoverageInv
<1>2. calls # <<>> => /\ N \in Nat \ {0} /\ Top \in S /\ Top.view \in Cuts(trace)
                      /\ Top.pc = "loop" => SeesToIt(trace, calls, merged, N)
  BY <1>1, PopFacts, PopType DEF Top, Coverage, SoundFrames, Frames
\* What remains to be shown for a step of the recursion.
<1>3. ASSUME trace' = trace, status' = "running", Coverage(trace, calls', merged')
      PROVE  CoverageInv'
  BY <1>3 DEF CoverageInv
<1>4. CASE ReturnOnEnd
  <2>1. on_end(trace, Top.view)
    BY <1>4 DEF ReturnOnEnd, Outcome
  <2>2. \A p \in Procs : Len(trace.pio[p]) \in Nat
    BY <1>1 DEF IsTrace
  <2>3. CoveredFrom(trace, merged, Top.view)
    BY <2>1, <2>2 DEF CoveredFrom, on_end, Exhausted, Indices
  <2> QED
    BY <1>1, <1>3, <1>4, <2>3, ReturnCovered DEF ReturnOnEnd, Top
<1>5. CASE Merge
  <2> DEFINE F == find_end_events_to_update(trace, Top.view)
             f == [view |-> Top.view, pc |-> "loop", todo |-> F]
             m == MergeAt(trace, Top.view)
  <2>1. /\ calls # <<>> /\ calls' = Append(Pop(calls), f) /\ F # {}
        /\ trace' = trace /\ merged' = merged \cup {m} /\ status' = "running"
    BY <1>5 DEF Merge, Outcome
  <2>2. f \in S
    <3>1. IInv'
      BY StepSound
    <3>2. calls' \in Seq(SoundFrames(trace))
      BY <2>1, <3>1 DEF IInv
    <3>3. Pop(calls) \in Seq(S)
      BY <1>1, <2>1, PopFacts
    <3>4. calls'[Len(calls')] = f /\ Len(calls') \in 1 .. Len(calls')
      BY <2>1, <3>3
    <3> QED
      BY <3>2, <3>4
  <2>3. \A p \in Procs : Met(merged', p, Top.view[p])
    <3>1. m.cut = Top.view
      BY DEF MergeAt
    <3> QED
      BY <2>1, <3>1 DEF Met
  <2>4. f.todo # {} /\ f.view = Top.view /\ f.pc = "loop"
    BY <2>1
  <2> HIDE DEF F, m
  <2>5. /\ \A n \in 1 .. N - 1 :
             calls'[n].pc = "loop" /\ SeesToIt(trace, calls', merged', n)
        /\ calls' \in Seq(S) /\ Len(calls') = N /\ calls'[N] = f
        /\ calls'[1].view = make_mapview
    <3>1. f.view = calls[N].view
      BY DEF Top
    <3> DEFINE more == merged'
    <3>2. merged \subseteq more
      BY <2>1
    <3> HIDE DEF f, more
    <3>3. LET t == Append(Pop(calls), f) IN
          /\ \A n \in 1 .. N - 1 : t[n].pc = "loop" /\ SeesToIt(trace, t, more, n)
          /\ t \in Seq(S) /\ Len(t) = N /\ t[N] = f
          /\ t[1].view = make_mapview
      BY <1>1, <2>1, <2>2, <3>1, <3>2, LoopCovered, ZenonT(40)
    <3> QED
      BY <2>1, <3>3 DEF f, more
  <2>6. SeesToIt(trace, calls', merged', N) /\ calls'[N].pc = "loop"
    BY <2>3, <2>4, <2>5 DEF SeesToIt
  <2>7. calls' # <<>> /\ \A n \in 1 .. N : n \in 1 .. N - 1 \/ n = N
    BY <1>2, <2>1, <2>5
  <2>8. Coverage(trace, calls', merged')
    BY <2>5, <2>6, <2>7 DEF Coverage
  <2> QED
    BY <1>3, <2>1, <2>8
<1>6. CASE Recurse
  <2>1. PICK e \in Top.todo :
          calls' = Append(Append(Pop(calls),
                            [view |-> Top.view, pc |-> "loop",
                             todo |-> Top.todo \ {e}]),
                     Frame(update_view(Group(trace, e), Top.view)))
    BY <1>6 DEF Recurse
  <2> DEFINE f == [view |-> Top.view, pc |-> "loop", todo |-> Top.todo \ {e}]
             w == update_view(Group(trace, e), Top.view)
             t == Append(Pop(calls), f)
  <2>2. /\ calls # <<>> /\ Top.pc = "loop" /\ status' = "running"
        /\ trace' = trace /\ merged' = merged
    BY <1>6 DEF Recurse
  <2>3. f \in S
    BY <1>2, <2>2 DEF SoundFrames, Frames
  <2>4. /\ \A n \in 1 .. N - 1 : t[n].pc = "loop" /\ SeesToIt(trace, t, merged, n)
        /\ t \in Seq(S) /\ Len(t) = N /\ t[N] = f
        /\ t[1].view = make_mapview
    <3>1. f.view = calls[N].view
      BY DEF Top
    <3>2. merged \subseteq merged
      OBVIOUS
    <3> HIDE DEF f
    <3> QED
      BY <1>1, <2>2, <2>3, <3>1, <3>2, LoopCovered, ZenonT(40)
  <2>5. Near(Top.view, w)
    <3>1. \A p \in Procs : Top.view[p] \in Nat
      BY <1>2, <2>2 DEF Cuts
    <3> QED
      BY <3>1 DEF Near, update_view
  <2>6. /\ Frame(w).view = w /\ Frame(w).pc = "enter"
        /\ f.view = Top.view /\ f.pc = "loop"
    BY DEF Frame
  <2>7. calls' = Append(t, Frame(w))
    BY <2>1
  <2> HIDE DEF w, f, t
  <2>8. /\ Len(calls') = N + 1 /\ calls'[N + 1] = Frame(w)
        /\ \A n \in 1 .. N : calls'[n] = t[n]
    BY <2>4, <2>7
  <2>9. ASSUME NEW n \in 1 .. N
        PROVE  calls'[n].pc = "loop" /\ SeesToIt(trace, calls', merged, n)
    <3>1. CASE n = N
      <4>1. \A p \in Procs : Met(merged, p, Top.view[p])
        BY <1>2, <2>2 DEF SeesToIt, Top
      <4>2. calls'[n] = f /\ calls'[n + 1] = Frame(w) /\ n < Len(calls')
        BY <1>2, <2>2, <2>4, <2>8, <3>1
      <4> QED
        BY <2>5, <2>6, <4>1, <4>2 DEF SeesToIt
    <3>2. CASE n # N
      <4>1. /\ n \in 1 .. N - 1 /\ n + 1 \in 1 .. N /\ n < N /\ n < N + 1
            /\ calls'[n] = t[n] /\ calls'[n + 1] = t[n + 1]
        BY <1>2, <2>2, <2>8, <3>2
      <4>2. t[n].pc = "loop" /\ SeesToIt(trace, t, merged, n)
        BY <2>4, <4>1
      <4> QED
        BY <2>4, <2>8, <4>1, <4>2 DEF SeesToIt
    <3> QED
      BY <3>1, <3>2
  <2>10. /\ calls' # <<>> /\ calls'[1].view = make_mapview
         /\ calls'[N + 1].pc = "enter"
         /\ \A n \in 1 .. N + 1 : n \in 1 .. N \/ n = N + 1
         /\ \A n \in 1 .. N + 1 : n < N + 1 => n \in 1 .. N
    BY <1>2, <2>2, <2>4, <2>6, <2>8
  <2>11. Coverage(trace, calls', merged)
    BY <2>8, <2>9, <2>10 DEF Coverage
  <2> QED
    BY <1>3, <2>2, <2>11
<1>7. CASE ReturnFromLoop
  <2>1. CoveredFrom(trace, merged, Top.view)
    BY <1>2, <1>7 DEF ReturnFromLoop, SeesToIt, Top
  <2> QED
    BY <1>1, <1>3, <1>7, <2>1, ReturnCovered DEF ReturnFromLoop, Top
<1>8. CASE Fail
  BY <1>8 DEF Fail, Failures, CoverageInv
<1>9. CASE Finish
  BY <1>9 DEF Finish, CoverageInv
<1>10. CASE UNCHANGED vars
  BY <1>10 DEF vars, CoverageInv
<1> QED
  BY <1>4, <1>5, <1>6, <1>7, <1>8, <1>9, <1>10 DEF Next

LEMMA CoverageInvariance == Spec => []CoverageInv
BY InitCoverage, StepCoverage, Invariance, PTL DEF Spec

(***************************************************************************)
(* find_cio_sets returns all I/O events, whenever it returns: also for     *)
(* traces without a common order of synchronisations.                      *)
(***************************************************************************)
THEOREM NothingLost == Spec => []EveryEventReported
<1>1. IInv /\ SoundMerged /\ CoverageInv => EveryEventReported
  <2> SUFFICES ASSUME IInv, SoundMerged, CoverageInv, status = "done"
               PROVE  UNION {m.events : m \in result} = AllEvents(trace)
    BY DEF EveryEventReported
  <2>1. /\ result = {m \in merged : m.events # {}}
        /\ CoveredFrom(trace, merged, make_mapview)
    BY DEF CoverageInv, Coverage
  <2>2. ASSUME NEW m \in result, NEW a \in m.events
        PROVE  a \in AllEvents(trace)
    <3>1. PICK p \in Procs : a \in trace.pio[p][m.cut[p]].events
      BY <2>1, <2>2 DEF SoundMerged
    <3>2. m.cut[p] \in Indices(trace, p)
      BY <2>1 DEF SoundMerged, Inside
    <3> QED
      BY <3>1, <3>2 DEF AllEvents
  <2>3. ASSUME NEW a \in AllEvents(trace)
        PROVE  \E m \in result : a \in m.events
    <3>1. PICK p \in Procs : \E i \in Indices(trace, p) : a \in trace.pio[p][i].events
      BY DEF AllEvents
    <3>2. PICK i \in Indices(trace, p) : a \in trace.pio[p][i].events
      BY <3>1
    <3>3. PICK m \in merged : m.cut[p] = i
      BY <2>1 DEF CoveredFrom, Met, make_mapview, Indices
    <3>4. a \in m.events
      BY <3>2, <3>3 DEF SoundMerged
    <3> QED
      BY <2>1, <3>3, <3>4
  <2> QED
    BY <2>2, <2>3
<1> QED
  BY <1>1, CoverageInvariance, Invariance, MergedInvariance, PTL
=============================================================================
