--------------------------- MODULE CioMerge_proofs ---------------------------
(***************************************************************************)
(* Theorems about CioMerge, for every number of processes and every set of *)
(* traces, and the lemmas on the choice of end events they rest on.        *)
(***************************************************************************)
EXTENDS CioMerge, FiniteSetTheorems, Basics

LEMMA ProcsFinite == IsFiniteSet(Procs) /\ Cardinality(Procs) = NProcs
<1>1. 0 \in Int /\ NProcs - 1 \in Int /\ ~(0 > NProcs - 1)
  BY NProcsAssumption
<1>2. IsFiniteSet(0 .. NProcs - 1)
      /\ Cardinality(0 .. NProcs - 1) = (NProcs - 1) - 0 + 1
  BY <1>1, FS_Interval
<1> QED
  BY <1>2, NProcsAssumption DEF Procs

LEMMA VerticesBounded ==
  ASSUME NEW tr, IsTrace(tr)
  PROVE  \E n \in Nat : DOMAIN tr.graph \subseteq 0 .. n
BY DEF IsTrace

(***************************************************************************)
(* What the end events of a trace look like.                               *)
(***************************************************************************)
LEMMA EndFacts ==
  ASSUME NEW tr, IsTrace(tr), NEW p \in Procs, NEW i \in Indices(tr, p)
  PROVE  /\ EndAt(tr, p, i) \in DOMAIN tr.graph
         /\ tr.graph[EndAt(tr, p, i)] \in Vertex
         /\ tr.graph[EndAt(tr, p, i)].type \in {"sync_event", "synthetic"}
         /\ Group(tr, EndAt(tr, p, i)) \subseteq Procs
         /\ tr.rank[EndAt(tr, p, i)] \in Nat
         /\ Len(tr.pio[p]) \in Nat
<1> DEFINE e == EndAt(tr, p, i)
           vs == DOMAIN tr.graph
<1>1. tr.pio[p] \in Seq(CioSet(vs))
  BY DEF IsTrace
<1>2. tr.pio[p][i] \in CioSet(vs) /\ Len(tr.pio[p]) \in Nat
  BY <1>1 DEF Indices
<1>3. e \in vs
  BY <1>2 DEF CioSet, EndAt
<1>4. tr.graph[e] \in Vertex /\ tr.rank[e] \in Nat
  BY <1>3 DEF IsTrace
<1>5. tr.graph[e].type \in {"sync_event", "synthetic"}
  BY DEF IsTrace
<1>6. Group(tr, e) \subseteq Procs
  BY <1>4, <1>5 DEF Group, pg_group, Vertex, Procs, num_procs, procs_in_sync_involved
<1> QED
  BY <1>2, <1>3, <1>4, <1>5, <1>6

(***************************************************************************)
(* classify_sync counts members: for a synchronisation the count is that   *)
(* of all processes only if all processes take part.                       *)
(***************************************************************************)
LEMMA GlobalGroup ==
  ASSUME NEW tr, IsTrace(tr), NEW p \in Procs, NEW i \in Indices(tr, p)
  PROVE  classify_sync(tr.graph[EndAt(tr, p, i)]) = "Global"
           <=> Group(tr, EndAt(tr, p, i)) = Procs
<1> DEFINE v == tr.graph[EndAt(tr, p, i)]
<1>1. v \in Vertex /\ v.type \in {"sync_event", "synthetic"}
  BY EndFacts
<1>2. v.procs \in SUBSET Procs
  BY <1>1 DEF Vertex
<1>3. Cardinality(v.procs) = NProcs <=> v.procs = Procs
  BY <1>2, ProcsFinite, FS_Subset
<1>4. CASE v.type = "synthetic"
  BY <1>4 DEF classify_sync, Group, pg_group, Procs, num_procs
<1>5. CASE v.type = "sync_event"
  BY <1>3, <1>5 DEF classify_sync, Group, pg_group, num_procs, procs_in_sync_involved
<1> QED
  BY <1>1, <1>4, <1>5

-----------------------------------------------------------------------------
(***************************************************************************)
(* A process does not wait for a synchronisation it has passed, and in an  *)
(* ordered trace meets a synchronisation only once.                        *)
(***************************************************************************)
LEMMA EndsDistinct ==
  ASSUME NEW tr, IsTrace(tr), Ordered(tr), NEW p \in Procs,
         NEW i \in Indices(tr, p), NEW j \in Indices(tr, p),
         EndAt(tr, p, i) = EndAt(tr, p, j)
  PROVE  i = j
<1>1. tr.rank[EndAt(tr, p, i)] \in Nat /\ i \in Int /\ j \in Int
  BY EndFacts DEF Indices
<1>2. ~(i < j) /\ ~(j < i)
  BY <1>1 DEF Ordered
<1> QED
  BY <1>1, <1>2

LEMMA WaitingNotPassed ==
  ASSUME NEW tr, IsTrace(tr), Ordered(tr), NEW v \in Cuts(tr),
         NEW p \in Procs, v[p] \in Indices(tr, p)
  PROVE  ~Passed(tr, v, p, EndAt(tr, p, v[p]))
<1>1. v[p] \in Int
  BY DEF Indices
<1> QED
  BY <1>1, EndsDistinct DEF Passed, Indices

(***************************************************************************)
(* In a consistent cut the processes reach their ends together.            *)
(***************************************************************************)
LEMMA EndTogether ==
  ASSUME NEW tr, IsTrace(tr), Ordered(tr), NEW v \in Cuts(tr), Consistent(tr, v),
         NEW p \in Procs, v[p] = Len(tr.pio[p]) + 1,
         NEW q \in Procs
  PROVE  v[q] = Len(tr.pio[q]) + 1
<1> DEFINE np == Len(tr.pio[p])
           nq == Len(tr.pio[q])
           e == EndAt(tr, p, np)
<1>1. np \in Nat /\ nq \in Nat /\ np \in Indices(tr, p) /\ nq \in Indices(tr, q)
  BY DEF IsTrace, Indices
<1>2. e = EndAt(tr, q, nq)
  BY DEF IsTrace
<1>3. e \in DOMAIN tr.graph /\ p \in Group(tr, e) /\ q \in Group(tr, e)
  BY <1>1, <1>2, EndFacts DEF Ordered
<1>4. Passed(tr, v, p, e)
  BY <1>1 DEF Passed
<1>5. Passed(tr, v, q, e)
  BY <1>3, <1>4 DEF Consistent
<1>6. PICK j \in Indices(tr, q) : j < v[q] /\ EndAt(tr, q, j) = e
  BY <1>5 DEF Passed
<1>7. j = nq
  BY <1>1, <1>2, <1>6, EndsDistinct
<1>8. v[q] \in 1 .. nq + 1
  BY DEF Cuts
<1> QED
  BY <1>1, <1>6, <1>7, <1>8

(***************************************************************************)
(* If a member q of the synchronisation e that p waits for has not arrived *)
(* there, q waits for one of lower rank.                                   *)
(***************************************************************************)
LEMMA Blocker ==
  ASSUME NEW tr, IsTrace(tr), Ordered(tr), NEW v \in Cuts(tr), Consistent(tr, v),
         \A r \in Procs : v[r] \in Indices(tr, r),
         NEW p \in Procs, NEW q \in Group(tr, EndAt(tr, p, v[p])),
         EndAt(tr, q, v[q]) # EndAt(tr, p, v[p])
  PROVE  tr.rank[EndAt(tr, q, v[q])] < tr.rank[EndAt(tr, p, v[p])]
<1> DEFINE e == EndAt(tr, p, v[p])
<1>1. e \in DOMAIN tr.graph /\ q \in Procs /\ p \in Group(tr, e)
  BY EndFacts DEF Ordered
<1>2. ~Passed(tr, v, p, e)
  BY WaitingNotPassed
<1>3. ~Passed(tr, v, q, e)
  BY <1>1, <1>2 DEF Consistent
<1>4. PICK j \in Indices(tr, q) : EndAt(tr, q, j) = e
  BY <1>1 DEF Ordered
<1>5. ~(j < v[q]) /\ j # v[q]
  BY <1>3, <1>4 DEF Passed
<1>6. v[q] < j
  BY <1>1, <1>5 DEF Indices
<1> QED
  BY <1>1, <1>4, <1>6 DEF Ordered

(***************************************************************************)
(* Passing a synchronisation for which all its members wait leads from a   *)
(* consistent cut to a consistent cut.                                     *)
(***************************************************************************)
LEMMA AdvanceConsistent ==
  ASSUME NEW tr, IsTrace(tr), NEW v \in Cuts(tr), Consistent(tr, v),
         NEW e \in DOMAIN tr.graph,
         \A p \in Group(tr, e) : v[p] \in Indices(tr, p) /\ EndAt(tr, p, v[p]) = e,
         NEW w, w = [p \in Procs |-> IF p \in Group(tr, e) THEN v[p] + 1 ELSE v[p]]
  PROVE  Consistent(tr, w)
<1> SUFFICES ASSUME NEW f \in DOMAIN tr.graph,
                    NEW p \in Group(tr, f), NEW q \in Group(tr, f),
                    Passed(tr, w, p, f)
             PROVE  Passed(tr, w, q, f)
  BY DEF Consistent
<1>0. p \in Procs /\ q \in Procs
  <2>1. tr.graph[f] \in Vertex
    BY DEF IsTrace
  <2> QED
    BY <2>1 DEF Group, pg_group, Vertex, Procs, num_procs, procs_in_sync_involved
<1>1. v[p] \in Nat /\ v[q] \in Nat
  BY <1>0 DEF Cuts
<1>2. CASE f = e
  <2>1. v[q] \in Indices(tr, q) /\ EndAt(tr, q, v[q]) = f /\ v[q] < w[q]
    BY <1>0, <1>1, <1>2
  <2> QED
    BY <2>1 DEF Passed
<1>3. CASE f # e
  <2>1. PICK i \in Indices(tr, p) : i < w[p] /\ EndAt(tr, p, i) = f
    BY DEF Passed
  <2>2. i \in Int
    BY DEF Indices
  <2>3. i < v[p]
    BY <1>0, <1>1, <1>3, <2>1, <2>2
  <2>4. Passed(tr, v, q, f)
    BY <2>1, <2>3 DEF Passed, Consistent
  <2>5. PICK j \in Indices(tr, q) : j < v[q] /\ EndAt(tr, q, j) = f
    BY <2>4 DEF Passed
  <2>6. j \in Int /\ j < w[q]
    BY <1>0, <1>1, <2>5 DEF Indices
  <2> QED
    BY <2>5, <2>6 DEF Passed
<1> QED
  BY <1>2, <1>3

(***************************************************************************)
(* No chain of synchronisations orders two sets that a consistent cut      *)
(* points to: the synchronisations passed at the cut are downward closed,  *)
(* contain the start of the one and do not contain the end of the other.   *)
(***************************************************************************)
LEMMA CutNotOrdered ==
  ASSUME NEW tr, IsTrace(tr), Ordered(tr), NEW v \in Cuts(tr), Consistent(tr, v),
         \A r \in Procs : v[r] \in Indices(tr, r),
         NEW p \in Procs, NEW q \in Procs
  PROVE  ~Precedes(tr, p, v[p], q, v[q])
<1> DEFINE D == {e \in Syncs(tr) : \E r \in Procs : Passed(tr, v, r, e)}
           e == EndAt(tr, p, v[p])
           f == EndAt(tr, q, v[q] - 1)
<1>1. D \in SUBSET Syncs(tr)
  OBVIOUS
<1>2. DownClosed(tr, D)
  <2> SUFFICES ASSUME NEW r \in Procs, NEW i \in Indices(tr, r),
                      EndAt(tr, r, i) \in D, NEW j \in 1 .. i
               PROVE  EndAt(tr, r, j) \in D
    BY DEF DownClosed
  <2>1. EndAt(tr, r, i) \in DOMAIN tr.graph /\ r \in Group(tr, EndAt(tr, r, i))
    BY EndFacts DEF Ordered
  <2>2. PICK s \in Procs : Passed(tr, v, s, EndAt(tr, r, i))
    OBVIOUS
  <2>3. s \in Group(tr, EndAt(tr, r, i))
    BY <2>2 DEF Passed, Ordered
  <2>4. Passed(tr, v, r, EndAt(tr, r, i))
    BY <2>1, <2>2, <2>3 DEF Consistent
  <2>5. i < v[r]
    BY <2>4, EndsDistinct DEF Passed
  <2>6. j \in Indices(tr, r) /\ j < v[r] /\ i <= Len(tr.pio[r]) /\ v[r] \in Indices(tr, r)
    BY <2>5 DEF Indices
  <2>7. Passed(tr, v, r, EndAt(tr, r, j))
    BY <2>6 DEF Passed
  <2>8. j # Len(tr.pio[r])
    BY <2>6 DEF Indices
  <2>9. EndAt(tr, r, j) \in Syncs(tr)
    BY <2>6, <2>8, EndFacts DEF Syncs, IsTrace
  <2> QED
    BY <2>7, <2>9
<1>3. e \notin D
  <2> SUFFICES ASSUME NEW r \in Procs, Passed(tr, v, r, e) PROVE FALSE
    OBVIOUS
  <2>1. e \in DOMAIN tr.graph /\ p \in Group(tr, e)
    BY EndFacts DEF Ordered
  <2>2. r \in Group(tr, e)
    BY DEF Passed, Ordered
  <2>3. Passed(tr, v, p, e)
    BY <2>1, <2>2 DEF Consistent
  <2> QED
    BY <2>3, WaitingNotPassed
<1>4. v[q] > 1 => f \in D
  <2> SUFFICES ASSUME v[q] > 1 PROVE f \in D
    OBVIOUS
  <2>1. /\ v[q] - 1 \in Indices(tr, q) /\ v[q] - 1 < v[q]
        /\ v[q] - 1 # Len(tr.pio[q])
    BY DEF Indices
  <2>2. Passed(tr, v, q, f)
    BY <2>1 DEF Passed
  <2>3. f \in Syncs(tr)
    BY <2>1, EndFacts DEF Syncs, IsTrace
  <2> QED
    BY <2>2, <2>3
<1> QED
  BY <1>1, <1>2, <1>3, <1>4 DEF Precedes

(***************************************************************************)
(* A view at which no process has run out of sets.                         *)
(***************************************************************************)
Inside(tr, view) == \A p \in Procs : view[p] \in Indices(tr, p)

LEMMA InsideIfNotExhausted ==
  ASSUME NEW tr, IsTrace(tr), NEW view \in Cuts(tr)
  PROVE  Inside(tr, view) <=> \A p \in Procs : ~Exhausted(tr, view, p)
<1>1. \A p \in Procs : Len(tr.pio[p]) \in Nat /\ view[p] \in 1 .. Len(tr.pio[p]) + 1
  BY DEF IsTrace, Cuts
<1> QED
  BY <1>1 DEF Inside, Exhausted, Indices

LEMMA EndEventsFacts ==
  ASSUME NEW tr, IsTrace(tr), NEW view \in Cuts(tr), Inside(tr, view)
  PROVE  /\ EndEvents(tr, view) \subseteq DOMAIN tr.graph
         /\ EndEvents(tr, view) # {}
         /\ \A e \in EndEvents(tr, view) : tr.rank[e] \in Nat
         /\ \A e \in EndEvents(tr, view) : Group(tr, e) \subseteq Procs
         /\ \A e \in EndEvents(tr, view) :
              classify_sync(tr.graph[e]) = "Global" <=> Group(tr, e) = Procs
         /\ find_end_events_to_update(tr, view) \subseteq EndEvents(tr, view)
<1>1. 0 \in Procs
  BY NProcsAssumption DEF Procs
<1> QED
  BY <1>1, EndFacts, GlobalGroup
     DEF Inside, EndEvents, find_end_events_to_update, LocalEnds, FirstUpdatable,
         dependent_syncs, independent_syncs

(***************************************************************************)
(* Whoever has the lowest rank among the current end events can be passed. *)
(***************************************************************************)
LEMMA LowestUpdatable ==
  ASSUME NEW tr, IsTrace(tr), Ordered(tr), NEW view \in Cuts(tr),
         Consistent(tr, view), Inside(tr, view),
         NEW m \in EndEvents(tr, view),
         \A e \in EndEvents(tr, view) : tr.rank[m] <= tr.rank[e]
  PROVE  can_update_end_event(tr, view, m)
<1>1. PICK p \in Procs : m = EndAt(tr, p, view[p])
  BY DEF EndEvents
<1>2. SUFFICES ASSUME NEW q \in Group(tr, m), EndAt(tr, q, view[q]) # m
               PROVE  FALSE
  BY DEF can_update_end_event
<1>3. q \in Procs
  BY EndEventsFacts
<1>4. tr.rank[EndAt(tr, q, view[q])] < tr.rank[m]
  BY <1>1, <1>2, Blocker DEF Inside
<1>5. EndAt(tr, q, view[q]) \in EndEvents(tr, view)
  BY <1>3 DEF EndEvents
<1>6. tr.rank[m] \in Nat /\ tr.rank[EndAt(tr, q, view[q])] \in Nat
  BY <1>5, EndEventsFacts
<1> QED
  BY <1>4, <1>5, <1>6

(***************************************************************************)
(* A global end event somebody waits for is passed after all others.       *)
(***************************************************************************)
LEMMA GlobalIsLast ==
  ASSUME NEW tr, IsTrace(tr), Ordered(tr), NEW view \in Cuts(tr),
         Consistent(tr, view), Inside(tr, view),
         NEW g \in EndEvents(tr, view), Group(tr, g) = Procs,
         NEW e \in EndEvents(tr, view), e # g
  PROVE  tr.rank[e] < tr.rank[g]
<1>1. PICK p \in Procs : g = EndAt(tr, p, view[p])
  BY DEF EndEvents
<1>2. PICK q \in Procs : e = EndAt(tr, q, view[q])
  BY DEF EndEvents
<1> QED
  BY <1>1, <1>2, Blocker DEF Inside

(***************************************************************************)
(* With a common order of synchronisations an event can always be chosen,  *)
(* whatever is chosen has been reached by its whole group, and the         *)
(* assertions hold.                                                        *)
(***************************************************************************)
LEMMA ChoiceIsSound ==
  ASSUME NEW tr, IsTrace(tr), Ordered(tr), NEW view \in Cuts(tr),
         Consistent(tr, view), Inside(tr, view)
  PROVE  /\ find_end_events_to_update(tr, view) # {}
         /\ \A e \in find_end_events_to_update(tr, view) :
              can_update_end_event(tr, view, e)
         /\ AssertionsHold(tr, view)
<1> DEFINE E == EndEvents(tr, view)
           L == LocalEnds(tr, view)
           D == dependent_syncs(tr, view)
           I == independent_syncs(tr, view)
           F == find_end_events_to_update(tr, view)
<1>1. PICK m \in E : \A e \in E : tr.rank[m] <= tr.rank[e]
  <2>1. E # {} /\ \A e \in E : tr.rank[e] \in Nat
    BY EndEventsFacts
  <2> HIDE DEF E
  <2>2. \E x \in E : \A y \in E : tr.rank[x] <= tr.rank[y]
    <3> DEFINE f == tr.rank
    <3> HIDE DEF f
    <3>1. \A x \in E : f[x] \in Nat
      BY <2>1 DEF f
    <3>2. \E x \in E : \A y \in E : f[x] <= f[y]
      BY <2>1, <3>1, LeastValue
    <3> QED
      BY <3>2 DEF f
  <2> QED
    BY <2>2
<1>2. can_update_end_event(tr, view, m)
  BY <1>1, LowestUpdatable
<1>3. \A e \in E : tr.rank[e] \in Nat
  BY EndEventsFacts
<1>4. CASE IsSingleton(E)
  <2>1. E = {m} /\ F = {m}
    BY <1>4 DEF IsSingleton, find_end_events_to_update
  <2>2. \A p \in Procs : EndAt(tr, p, view[p]) = m
    BY <2>1 DEF EndEvents
  <2>3. Group(tr, m) = Procs
    <3>1. \A p \in Procs : p \in Group(tr, EndAt(tr, p, view[p]))
      BY DEF Inside, Ordered
    <3>2. Group(tr, m) \subseteq Procs
      BY EndEventsFacts
    <3> QED
      BY <2>2, <3>1, <3>2
  <2>4. classify_sync(tr.graph[m]) = "Global"
    BY <2>3, EndEventsFacts
  <2> QED
    BY <1>2, <1>4, <2>1, <2>4 DEF AssertionsHold
<1>5. CASE ~IsSingleton(E)
  <2>1. Group(tr, m) # Procs
    <3>1. SUFFICES ASSUME Group(tr, m) = Procs PROVE FALSE
      OBVIOUS
    <3>2. PICK e \in E : e # m
      BY <1>5 DEF IsSingleton
    <3>3. tr.rank[e] < tr.rank[m]
      BY <3>1, <3>2, GlobalIsLast
    <3> QED
      BY <1>1, <1>3, <3>3
  <2>2. m \in L
    <3>1. classify_sync(tr.graph[m]) # "Global"
      BY <2>1, EndEventsFacts
    <3> QED
      BY <3>1 DEF LocalEnds, classify_sync
  <2>3. CASE IsSingleton(L)
    <3>1. F = {m}
      BY <1>5, <2>2, <2>3 DEF IsSingleton, find_end_events_to_update
    <3> QED
      BY <1>2, <1>5, <2>3, <3>1 DEF AssertionsHold
  <2>4. CASE ~IsSingleton(L) /\ D # {}
    \* The dependent event of lowest rank can be passed.
    <3>1. D \subseteq E /\ L \subseteq E
      BY DEF dependent_syncs, LocalEnds
    <3>2. PICK d \in D : \A c \in D : tr.rank[d] <= tr.rank[c]
      <4> DEFINE f == tr.rank
      <4>1. \A x \in D : f[x] \in Nat
        BY <1>3, <3>1
      <4> HIDE DEF f, D
      <4>2. \E x \in D : \A y \in D : f[x] <= f[y]
        BY <2>4, <4>1, LeastValue
      <4> QED
        BY <4>2 DEF f
    <3>3. can_update_end_event(tr, view, d)
      <4>1. PICK p \in Procs : d = EndAt(tr, p, view[p])
        BY <3>1 DEF EndEvents
      <4>2. SUFFICES ASSUME NEW q \in Group(tr, d), EndAt(tr, q, view[q]) # d
                     PROVE  FALSE
        BY DEF can_update_end_event
      <4> DEFINE c == EndAt(tr, q, view[q])
      <4>3. q \in Procs /\ c \in E
        BY <3>1, EndEventsFacts DEF EndEvents
      <4>4. tr.rank[c] < tr.rank[d]
        BY <4>1, <4>2, Blocker DEF Inside
      <4>5. Group(tr, c) # Procs
        <5>1. SUFFICES ASSUME Group(tr, c) = Procs PROVE FALSE
          OBVIOUS
        <5>2. tr.rank[d] < tr.rank[c]
          BY <3>1, <4>2, <4>3, <5>1, GlobalIsLast
        <5> QED
          BY <1>3, <3>1, <4>3, <4>4, <5>2
      <4>6. c \in L
        <5>1. classify_sync(tr.graph[c]) # "Global"
          BY <4>3, <4>5, EndEventsFacts
        <5> QED
          BY <4>3, <5>1 DEF LocalEnds, classify_sync
      <4>7. q \in Group(tr, c)
        BY <4>3 DEF Inside, Ordered
      <4>8. c \in D
        <5>1. d \in L /\ d # c /\ q \in Group(tr, c) \cap Group(tr, d)
          BY <4>2, <4>7 DEF dependent_syncs
        <5> QED
          BY <4>6, <5>1 DEF dependent_syncs
      <4> QED
        BY <1>3, <3>1, <3>2, <4>3, <4>4, <4>8
    <3>4. F = FirstUpdatable(tr, view, D)
      BY <1>5, <2>4 DEF find_end_events_to_update
    <3>5. F # {}
      <4> DEFINE U == {e \in D : can_update_end_event(tr, view, e)}
      <4>1. U \in SUBSET Nat /\ U # {}
        <5>1. E \subseteq Nat
          <6>1. PICK n \in Nat : DOMAIN tr.graph \subseteq 0 .. n
            BY VerticesBounded
          <6> QED
            BY <6>1, EndEventsFacts
        <5> QED
          BY <3>1, <3>3, <5>1
      <4>2. PICK u \in U : \A x \in U : u <= x
        <5> HIDE DEF U
        <5> QED BY <4>1, LeastNat
      <4>3. u \in FirstUpdatable(tr, view, D)
        BY <4>2 DEF FirstUpdatable
      <4> QED
        BY <3>4, <4>3
    <3> QED
      BY <1>5, <3>4, <3>5 DEF AssertionsHold, FirstUpdatable
  <2>5. CASE ~IsSingleton(L) /\ D = {}
    <3>1. F = {e \in I : can_update_end_event(tr, view, e)}
      BY <1>5, <2>5 DEF find_end_events_to_update
    <3>2. m \in I
      <4>1. PICK e \in L : e # m
        BY <2>2, <2>5 DEF IsSingleton
      <4>2. Group(tr, m) \cap Group(tr, e) = {}
        BY <2>2, <2>5, <4>1 DEF dependent_syncs
      <4> QED
        BY <2>2, <4>1, <4>2 DEF independent_syncs
    <3> QED
      BY <1>2, <1>5, <2>5, <3>1, <3>2 DEF AssertionsHold
  <2> QED
    BY <2>3, <2>4, <2>5
<1> QED
  BY <1>4, <1>5

-----------------------------------------------------------------------------
LEMMA FirstViewSound ==
  ASSUME NEW tr, IsTrace(tr)
  PROVE  make_mapview \in Cuts(tr) /\ Consistent(tr, make_mapview)
<1>1. make_mapview \in Cuts(tr)
  BY DEF make_mapview, Cuts, IsTrace
<1>2. ASSUME NEW e \in DOMAIN tr.graph, NEW p \in Group(tr, e)
      PROVE  ~Passed(tr, make_mapview, p, e)
  <2>1. p \in Procs
    <3>1. tr.graph[e] \in Vertex
      BY DEF IsTrace
    <3> QED
      BY <3>1 DEF Group, pg_group, Vertex, Procs, num_procs, procs_in_sync_involved
  <2> QED
    BY <2>1 DEF Passed, make_mapview, Indices
<1> QED
  BY <1>1, <1>2 DEF Consistent

LEMMA UpdateViewType ==
  ASSUME NEW tr, IsTrace(tr), NEW view \in Cuts(tr), Inside(tr, view), NEW pg
  PROVE  update_view(pg, view) \in Cuts(tr)
<1>1. \A p \in Procs : Len(tr.pio[p]) \in Nat /\ view[p] \in 1 .. Len(tr.pio[p])
  BY DEF Inside, Indices, IsTrace
<1> QED
  BY <1>1 DEF update_view, Cuts

LEMMA UpdateViewConsistent ==
  ASSUME NEW tr, IsTrace(tr), NEW view \in Cuts(tr), Inside(tr, view),
         Consistent(tr, view), NEW e \in DOMAIN tr.graph,
         can_update_end_event(tr, view, e)
  PROVE  Consistent(tr, update_view(Group(tr, e), view))
<1>1. Group(tr, e) \subseteq Procs
  <2>1. tr.graph[e] \in Vertex
    BY DEF IsTrace
  <2> QED
    BY <2>1 DEF Group, pg_group, Vertex, Procs, num_procs, procs_in_sync_involved
<1>2. \A p \in Group(tr, e) : view[p] \in Indices(tr, p) /\ EndAt(tr, p, view[p]) = e
  BY <1>1 DEF Inside, can_update_end_event
<1> QED
  BY <1>2, AdvanceConsistent DEF update_view

(***************************************************************************)
(* A merged set is well typed: its start and end descriptors exist.        *)
(***************************************************************************)
MergedSets(tr) == [events : SUBSET Events, start : Nat \cup {NoVertex},
                   end : DOMAIN tr.graph, cut : Cuts(tr)]

LEMMA MergeAtType ==
  ASSUME NEW tr, IsTrace(tr), NEW view \in Cuts(tr), Inside(tr, view),
         find_end_events_to_update(tr, view) # {}
  PROVE  MergeAt(tr, view) \in MergedSets(tr)
<1> DEFINE sets == {tr.pio[p][view[p]] : p \in Procs}
           full == {s \in sets : s.events # {}}
           starts == {s.start : s \in full}
           F == find_end_events_to_update(tr, view)
           vs == DOMAIN tr.graph
<1>1. sets \subseteq CioSet(vs)
  BY DEF Inside, Indices, IsTrace
<1>2. UNION {s.events : s \in full} \in SUBSET Events
  BY <1>1 DEF CioSet
<1>3. PICK n \in Nat : vs \subseteq 0 .. n
  BY VerticesBounded
<1>4. full # {} => Min(starts) \in Nat
  <2>1. starts \subseteq Nat /\ (full # {} => starts # {})
    BY <1>1, <1>3 DEF CioSet
  <2> HIDE DEF starts, full
  <2>2. full # {} => \E x \in starts : \A y \in starts : x <= y
    BY <2>1, LeastNat
  <2> QED
    BY <2>1, <2>2 DEF Min
<1>5. Max(F) \in vs
  <2>1. F \subseteq vs
    BY EndEventsFacts
  <2>2. F \in SUBSET (0 .. n)
    BY <1>3, <2>1
  <2> HIDE DEF F
  <2>3. \E x \in F : \A y \in F : x >= y
    BY <2>2, GreatestNat DEF F
  <2> QED
    BY <2>1, <2>3 DEF Max
<1> QED
  BY <1>2, <1>4, <1>5 DEF MergeAt, MergedSets

-----------------------------------------------------------------------------
(***************************************************************************)
(* The inductive invariant.  A frame is sound if it has merged only where  *)
(* no process had run out of sets and, for an ordered trace, its view is a *)
(* consistent cut and everything it still has to recurse on has been       *)
(* reached by its whole group.                                             *)
(***************************************************************************)
Frames(tr) == [view : Cuts(tr), pc : {"enter", "loop"}, todo : SUBSET DOMAIN tr.graph]

SoundFrames(tr) ==
  {f \in Frames(tr) :
     /\ f.pc = "loop" => Inside(tr, f.view)
     /\ Ordered(tr) =>
          /\ Consistent(tr, f.view)
          /\ \A e \in f.todo : can_update_end_event(tr, f.view, e)}

IInv ==
  /\ TypeOK
  /\ calls \in Seq(SoundFrames(trace))
  /\ OrderedNeverFails

LEMMA PopType ==
  ASSUME NEW S, NEW s \in Seq(S), s # <<>>
  PROVE  Pop(s) \in Seq(S) /\ s[Len(s)] \in S
<1>1. Len(s) \in Nat /\ Len(s) > 0 /\ \A i \in 1 .. Len(s) : s[i] \in S
  OBVIOUS
<1>2. 1 \in Int /\ Len(s) - 1 \in Int /\ \A i \in 1 .. Len(s) - 1 : s[i] \in S
  BY <1>1
<1>3. SubSeq(s, 1, Len(s) - 1) \in Seq(S)
  BY <1>2, SubSeqProperties
<1> QED
  BY <1>1, <1>3 DEF Pop

LEMMA SoundAreFrames ==
  ASSUME NEW tr, NEW s \in Seq(SoundFrames(tr))
  PROVE  s \in Seq(Frames(tr))
BY DEF SoundFrames

LEMMA InitSound == Init => IInv
<1> SUFFICES ASSUME Init PROVE IInv
  OBVIOUS
<1>1. IsTrace(trace)
  BY TracesAssumption DEF Init
<1>2. Frame(make_mapview) \in SoundFrames(trace)
  BY <1>1, FirstViewSound DEF Frame, SoundFrames, Frames
<1>3. calls \in Seq(SoundFrames(trace))
  BY <1>2 DEF Init
<1>4. calls \in Seq(Frames(trace))
  BY <1>3, SoundAreFrames
<1> QED
  BY <1>1, <1>3, <1>4 DEF Init, IInv, TypeOK, OrderedNeverFails, Failures, Frames

LEMMA StepSound == IInv /\ [Next]_vars => IInv'
<1> SUFFICES ASSUME IInv, [Next]_vars PROVE IInv'
  OBVIOUS
<1> USE DEF Failures
<1>0. IsTrace(trace) /\ calls \in Seq(SoundFrames(trace))
  BY DEF IInv, TypeOK
<1>1. calls # <<>> => Pop(calls) \in Seq(SoundFrames(trace)) /\ Top \in SoundFrames(trace)
  BY <1>0, PopType DEF Top
\* What remains to be shown for a step that leaves the trace alone.
<1>2. ASSUME trace' = trace,
             calls' \in Seq(SoundFrames(trace)),
             merged' \subseteq MergedSets(trace),
             result' \subseteq merged',
             status' \in {"running", "done"} \cup Failures,
             Ordered(trace) => status' \notin Failures
      PROVE  IInv'
  <2>1. calls' \in Seq(Frames(trace))
    BY <1>2, SoundAreFrames
  <2> QED
    BY <1>0, <1>2, <2>1 DEF IInv, TypeOK, OrderedNeverFails, Frames, MergedSets
<1>3. /\ merged \subseteq MergedSets(trace)
      /\ result \subseteq merged
      /\ status \in {"running", "done"} \cup Failures
      /\ Ordered(trace) => status \notin Failures
  BY DEF IInv, TypeOK, OrderedNeverFails, MergedSets
<1>4. CASE ReturnOnEnd
  BY <1>1, <1>2, <1>3, <1>4 DEF ReturnOnEnd
<1>5. CASE Merge
  <2>1. Top \in SoundFrames(trace) /\ Top.view \in Cuts(trace)
    BY <1>1, <1>5 DEF Merge, SoundFrames, Frames
  <2>2. /\ \A p \in Procs : ~Exhausted(trace, Top.view, p)
        /\ find_end_events_to_update(trace, Top.view) # {}
    BY <1>5 DEF Merge, Outcome
  <2>3. Inside(trace, Top.view)
    BY <1>0, <2>1, <2>2, InsideIfNotExhausted
  <2> DEFINE F == find_end_events_to_update(trace, Top.view)
             f == [view |-> Top.view, pc |-> "loop", todo |-> F]
  <2>4. F \subseteq DOMAIN trace.graph
    BY <1>0, <2>1, <2>3, EndEventsFacts
  <2>5. Ordered(trace) => \A e \in F : can_update_end_event(trace, Top.view, e)
    BY <1>0, <2>1, <2>3, ChoiceIsSound DEF SoundFrames
  <2>6. f \in SoundFrames(trace)
    BY <2>1, <2>3, <2>4, <2>5 DEF SoundFrames, Frames
  <2>7. calls' \in Seq(SoundFrames(trace))
    BY <1>1, <1>5, <2>6, AppendProperties DEF Merge
  <2>8. merged' \subseteq MergedSets(trace)
    BY <1>0, <1>3, <1>5, <2>1, <2>2, <2>3, MergeAtType DEF Merge
  <2>9. result' \subseteq merged'
    BY <1>3, <1>5 DEF Merge
  <2> QED
    BY <1>2, <1>3, <1>5, <2>7, <2>8, <2>9 DEF Merge
<1>6. CASE Recurse
  <2>1. PICK e \in Top.todo :
          calls' = Append(Append(Pop(calls),
                            [view |-> Top.view, pc |-> "loop",
                             todo |-> Top.todo \ {e}]),
                     Frame(update_view(Group(trace, e), Top.view)))
    BY <1>6 DEF Recurse
  <2>2. Top \in SoundFrames(trace) /\ Top.pc = "loop"
    BY <1>1, <1>6 DEF Recurse
  <2> DEFINE f == [view |-> Top.view, pc |-> "loop", todo |-> Top.todo \ {e}]
             w == update_view(Group(trace, e), Top.view)
  <2>3. f \in SoundFrames(trace)
    BY <2>2 DEF SoundFrames, Frames
  <2>4. /\ Top.view \in Cuts(trace) /\ Inside(trace, Top.view)
        /\ e \in DOMAIN trace.graph
    BY <2>2 DEF SoundFrames, Frames
  <2>5. w \in Cuts(trace)
    BY <1>0, <2>4, UpdateViewType
  <2>6. Ordered(trace) => Consistent(trace, w)
    BY <1>0, <2>2, <2>4, UpdateViewConsistent DEF SoundFrames
  <2>7. Frame(w) \in SoundFrames(trace)
    BY <2>5, <2>6 DEF Frame, SoundFrames, Frames
  <2>8. Append(Pop(calls), f) \in Seq(SoundFrames(trace))
    BY <1>1, <1>6, <2>3, AppendProperties DEF Recurse
  <2>9. calls' \in Seq(SoundFrames(trace))
    BY <2>1, <2>7, <2>8, AppendProperties
  <2> QED
    BY <1>2, <1>3, <1>6, <2>9 DEF Recurse
<1>7. CASE ReturnFromLoop
  BY <1>1, <1>2, <1>3, <1>7 DEF ReturnFromLoop
<1>8. CASE Fail
  <2>1. Top \in SoundFrames(trace) /\ Top.view \in Cuts(trace)
    BY <1>1, <1>8 DEF Fail, SoundFrames, Frames
  <2>2. Outcome(trace, Top.view) \in Failures
    BY <1>8 DEF Fail
  <2>3. ~Ordered(trace)
    <3> SUFFICES ASSUME Ordered(trace) PROVE FALSE
      OBVIOUS
    <3>1. Consistent(trace, Top.view)
      BY <2>1 DEF SoundFrames
    <3>2. ~on_end(trace, Top.view)
      BY <2>2 DEF Outcome
    <3>3. \A p \in Procs : ~Exhausted(trace, Top.view, p)
      BY <1>0, <2>1, <3>1, <3>2, EndTogether DEF on_end, Exhausted
    <3>4. Inside(trace, Top.view)
      BY <1>0, <2>1, <3>3, InsideIfNotExhausted
    <3>5. /\ find_end_events_to_update(trace, Top.view) # {}
          /\ AssertionsHold(trace, Top.view)
      BY <1>0, <2>1, <3>1, <3>4, ChoiceIsSound
    <3> QED
      BY <2>2, <3>2, <3>3, <3>5 DEF Outcome
  <2> QED
    BY <1>0, <1>2, <1>3, <1>8, <2>3 DEF Fail
<1>9. CASE Finish
  <2>1. result' \subseteq merged' /\ merged' = merged
    BY <1>9 DEF Finish
  <2> QED
    BY <1>0, <1>2, <1>3, <1>9, <2>1 DEF Finish
<1>10. CASE UNCHANGED vars
  BY <1>0, <1>2, <1>3, <1>10 DEF vars
<1> QED
  BY <1>4, <1>5, <1>6, <1>7, <1>8, <1>9, <1>10 DEF Next

LEMMA Invariance == Spec => []IInv
BY InitSound, StepSound, PTL DEF Spec

(***************************************************************************)
(* What is remembered in merged: the sets at a consistent cut.             *)
(***************************************************************************)
SoundMerged ==
  /\ \A m \in merged :
       /\ Inside(trace, m.cut)
       /\ Ordered(trace) => Consistent(trace, m.cut)
       /\ m.events = UNION {trace.pio[p][m.cut[p]].events : p \in Procs}
  /\ IsFiniteSet(merged)

LEMMA StepSoundMerged == IInv /\ SoundMerged /\ [Next]_vars => SoundMerged'
<1> SUFFICES ASSUME IInv, SoundMerged, [Next]_vars PROVE SoundMerged'
  OBVIOUS
<1>1. CASE trace' = trace /\ merged' = merged
  BY <1>1 DEF SoundMerged
<1>2. CASE Merge
  <2> DEFINE m == MergeAt(trace, Top.view)
  <2>1. IsTrace(trace) /\ Top \in SoundFrames(trace) /\ trace' = trace
        /\ merged' = merged \cup {m}
    BY <1>2, PopType DEF IInv, TypeOK, Top, Merge
  <2>2. Top.view \in Cuts(trace)
    BY <2>1 DEF SoundFrames, Frames
  <2>3. Inside(trace, Top.view)
    BY <1>2, <2>1, <2>2, InsideIfNotExhausted DEF Merge, Outcome
  <2>4. Ordered(trace) => Consistent(trace, Top.view)
    BY <2>1 DEF SoundFrames
  <2>5. m.cut = Top.view
    BY DEF MergeAt
  <2>6. m.events = UNION {trace.pio[p][Top.view[p]].events : p \in Procs}
    <3> DEFINE sets == {trace.pio[p][Top.view[p]] : p \in Procs}
               full == {s \in sets : s.events # {}}
    <3>1. m.events = UNION {s.events : s \in full}
      BY DEF MergeAt
    <3>2. UNION {s.events : s \in full} = UNION {s.events : s \in sets}
      OBVIOUS
    <3>3. UNION {s.events : s \in sets}
            = UNION {trace.pio[p][Top.view[p]].events : p \in Procs}
      OBVIOUS
    <3> QED
      BY <3>1, <3>2, <3>3
  <2>7. IsFiniteSet(merged')
    <3> HIDE DEF m
    <3> QED
      BY <2>1, FS_AddElement DEF SoundMerged
  <2> HIDE DEF m
  <2> QED
    BY <2>1, <2>3, <2>4, <2>5, <2>6, <2>7 DEF SoundMerged
<1> QED
  BY <1>1, <1>2 DEF Next, vars, ReturnOnEnd, Recurse, ReturnFromLoop, Fail, Finish

LEMMA MergedInvariance == Spec => []SoundMerged
<1>1. Init => SoundMerged
  BY FS_EmptySet DEF Init, SoundMerged
<1> QED
  BY <1>1, StepSoundMerged, Invariance, PTL DEF Spec

(***************************************************************************)
(* Type correctness: in particular the positions of a view never leave the *)
(* range of its process by more than the end iterator, whatever the order  *)
(* of synchronisations in the trace.                                       *)
(***************************************************************************)
THEOREM TypeCorrect == Spec => []TypeOK
<1>1. IInv => TypeOK
  BY DEF IInv
<1> QED
  BY <1>1, Invariance, PTL

(***************************************************************************)
(* process_sets is only called with consistent cuts of an ordered trace.   *)
(***************************************************************************)
THEOREM ViewsAreCuts == Spec => []ViewsConsistent
<1>1. IInv => ViewsConsistent
  <2> SUFFICES ASSUME IInv, Ordered(trace), NEW n \in 1 .. Len(calls)
               PROVE  Consistent(trace, calls[n].view)
    BY DEF ViewsConsistent
  <2>1. calls[n] \in SoundFrames(trace)
    BY DEF IInv
  <2> QED
    BY <2>1 DEF SoundFrames
<1> QED
  BY <1>1, Invariance, PTL

(***************************************************************************)
(* The merge of an ordered trace never reads through an end iterator,      *)
(* trips an assertion or throws.                                           *)
(***************************************************************************)
THEOREM NeverFails == Spec => []OrderedNeverFails
<1>1. IInv => OrderedNeverFails
  BY DEF IInv
<1> QED
  BY <1>1, Invariance, PTL
=============================================================================
