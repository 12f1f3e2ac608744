-------------------------- MODULE CioVisitor_proofs --------------------------
(***************************************************************************)
(* On every graph whose processes are chained from the synthetic root to   *)
(* the synthetic end, whatever edges join them, the depth-first search     *)
(* makes exactly the segments of every process.                            *)
(***************************************************************************)
EXTENDS CioVisitor, FiniteSetTheorems, Basics

-----------------------------------------------------------------------------
(***************************************************************************)
(* What the search relies on.  w follows v if it is the next vertex of the *)
(* process, or the synthetic end if there is none.                         *)
(***************************************************************************)
Follows(p, v, w) ==
  /\ v < w /\ w \in Own(p) \cup {Len(graph)}
  /\ \A u \in Own(p) : v < u => w <= u

(* The root leads to the first vertex of every process, by one edge. *)
RootLeads ==
  /\ \A p \in Procs : \E e \in out_edges(1) : edges[e][2] \in Own(p)
  /\ \A e \in out_edges(1) :
       \E p \in Procs : edges[e][2] \in Own(p) /\ Follows(p, 1, edges[e][2])
  /\ \A e, f \in out_edges(1) : edges[e][2] = edges[f][2] => e = f

(* The first edge of a vertex leads along its process, the others lead to  *)
(* synchronisations of other processes.                                    *)
ChainFirst(p, v) ==
  \E e \in out_edges(v) :
    /\ Follows(p, v, edges[e][2])
    /\ \A f \in out_edges(v) :
         f # e => e < f /\ IsSync(edges[f][2]) /\ edges[f][2] \notin Own(p)

Chained ==
  /\ IsSequence(graph) /\ Len(graph) > 1
  /\ \A v \in DOMAIN graph : IsSynthetic(v) <=> v \in {1, Len(graph)}
  /\ \A v \in DOMAIN graph : ~IsSynthetic(v) => graph[v].proc \in Procs
  /\ edges \in Seq((DOMAIN graph) \X (DOMAIN graph))
  /\ RootLeads
  /\ \A p \in Procs : \A v \in Own(p) : ChainFirst(p, v)
  /\ out_edges(Len(graph)) = {}

LEMMA Places ==
  ASSUME Chained
  PROVE  /\ Len(graph) \in Nat /\ DOMAIN graph = 1 .. Len(graph)
         /\ 1 \in DOMAIN graph /\ Len(graph) \in DOMAIN graph
         /\ DOMAIN edges \subseteq Nat \ {0}
         /\ \A e \in DOMAIN edges : edges[e][1] \in DOMAIN graph /\ edges[e][2] \in DOMAIN graph
         /\ \A p : Syncs(p) \subseteq Own(p) /\ Own(p) \subseteq DOMAIN graph
         /\ \A p : \A v \in Own(p) : v \in Nat /\ 1 < v /\ v < Len(graph)
         /\ \A p : \A v \in Own(p) : v \in Syncs(p) <=> IsSync(v)
         /\ \A p : \A v \in Own(p) : graph[v].proc = p /\ p \in Procs /\ ~IsSynthetic(v)
<1>1. Len(graph) \in Nat /\ DOMAIN graph = 1 .. Len(graph) /\ Len(graph) > 1
  BY SequenceFacts DEF Chained
<1>2. DOMAIN edges = 1 .. Len(edges) /\ Len(edges) \in Nat
      /\ \A e \in 1 .. Len(edges) : edges[e] \in (DOMAIN graph) \X (DOMAIN graph)
  BY LenProperties DEF Chained
<1>3. \A p : Syncs(p) \subseteq Own(p) /\ Own(p) \subseteq DOMAIN graph
  BY DEF Syncs, Own
<1>4. \A p : \A v \in Own(p) : v \in Syncs(p) <=> IsSync(v)
  BY DEF Syncs
<1>5. \A p : \A v \in Own(p) : v \in 1 .. Len(graph) /\ v # 1 /\ v # Len(graph)
  BY <1>1 DEF Own, Chained
<1>6. \A p : \A v \in Own(p) : v \in Nat /\ 1 < v /\ v < Len(graph)
  BY <1>1, <1>5
<1>7. \A p : \A v \in Own(p) : graph[v].proc = p /\ p \in Procs /\ ~IsSynthetic(v)
  BY DEF Own, Chained
<1> QED
  BY <1>1, <1>2, <1>3, <1>4, <1>6, <1>7

LEMMA FollowsOnce ==
  ASSUME Chained, NEW p, NEW v \in Nat, NEW w, NEW x, Follows(p, v, w), Follows(p, v, x)
  PROVE  w = x
<1>1. w \in Nat /\ x \in Nat
  BY Places DEF Follows
<1>2. ASSUME NEW y, NEW z, Follows(p, v, y), Follows(p, v, z), y \in Own(p)
      PROVE  z <= y
  BY <1>2 DEF Follows
<1>3. CASE w \in Own(p) /\ x \in Own(p)
  BY <1>1, <1>2, <1>3
<1>4. CASE w \notin Own(p) /\ x \notin Own(p)
  BY <1>4 DEF Follows
<1>5. ASSUME NEW y \in Own(p), Follows(p, v, y), Follows(p, v, Len(graph))
      PROVE  FALSE
  <2>1. Len(graph) <= y
    BY <1>2, <1>5
  <2>2. y < Len(graph) /\ y \in Nat /\ Len(graph) \in Nat
    BY <1>5, Places
  <2> QED
    BY <2>1, <2>2
<1>6. CASE w \in Own(p) /\ x \notin Own(p)
  BY <1>5, <1>6 DEF Follows
<1>7. CASE w \notin Own(p) /\ x \in Own(p)
  BY <1>5, <1>7 DEF Follows
<1> QED
  BY <1>3, <1>4, <1>6, <1>7

(***************************************************************************)
(* Segments                                                                *)
(***************************************************************************)
LEMMA LeastIs ==
  ASSUME NEW S \in SUBSET Nat, NEW x \in S, \A y \in S : x <= y
  PROVE  Min(S) = x
<1>1. Min(S) \in S /\ \A y \in S : Min(S) <= y
  BY Zenon DEF Min
<1>2. Min(S) <= x /\ x <= Min(S)
  BY <1>1
<1>3. Min(S) \in Nat /\ x \in Nat
  BY <1>1
<1> QED
  BY <1>2, <1>3

LEMMA LeastFacts ==
  ASSUME NEW S \in SUBSET Nat, S # {}
  PROVE  Min(S) \in S /\ \A y \in S : Min(S) <= y
<1>1. \E x \in S : \A y \in S : x <= y
  BY LeastNat
<1> QED
  BY <1>1, Zenon DEF Min

LEMMA ClosingFacts ==
  ASSUME Chained, NEW p \in Procs, NEW b \in Begins(p)
  PROVE  /\ b \in Nat /\ b < Closing(p, b)
         /\ Closing(p, b) \in Syncs(p) \cup {Len(graph)}
         /\ \A u \in Syncs(p) : b < u => Closing(p, b) <= u
<1> DEFINE later == {v \in Syncs(p) : v > b}
<1>1. Syncs(p) \subseteq Nat /\ b \in Nat /\ b < Len(graph) /\ Len(graph) \in Nat
  BY Places DEF Begins, Beginning
<1>2. Closing(p, b) = IF later = {} THEN Len(graph) ELSE Min(later)
  BY DEF Closing
<1>3. CASE later = {}
  <2>1. \A u \in Syncs(p) : ~(b < u)
    BY <1>1, <1>3
  <2> QED
    BY <1>1, <1>2, <1>3, <2>1
<1>4. CASE later # {}
  <2>1. later \in SUBSET Nat
    BY <1>1
  <2>2. Min(later) \in later /\ \A u \in later : Min(later) <= u
    <3> HIDE DEF later
    <3> QED BY <1>4, <2>1, LeastFacts
  <2>3. Min(later) \in Syncs(p) /\ b < Min(later)
    BY <1>1, <2>2
  <2>4. \A u \in Syncs(p) : b < u => Min(later) <= u
    BY <1>1, <2>2
  <2> QED
    BY <1>1, <1>2, <1>4, <2>3, <2>4
<1> QED
  BY <1>3, <1>4

LEMMA ClosingIs ==
  ASSUME Chained, NEW p \in Procs, NEW b \in Begins(p),
         NEW c \in Syncs(p) \cup {Len(graph)}, b < c,
         \A u \in Syncs(p) : b < u => c <= u
  PROVE  Closing(p, b) = c
<1>1. /\ Closing(p, b) \in Syncs(p) \cup {Len(graph)} /\ b < Closing(p, b)
      /\ \A u \in Syncs(p) : b < u => Closing(p, b) <= u
  BY ClosingFacts
<1>2. /\ Syncs(p) \subseteq Nat /\ \A u \in Syncs(p) : u < Len(graph)
      /\ Len(graph) \in Nat
  BY Places
<1>3. CASE c \in Syncs(p) /\ Closing(p, b) \in Syncs(p)
  BY <1>1, <1>2, <1>3
<1>4. CASE c = Len(graph) /\ Closing(p, b) \in Syncs(p)
  BY <1>1, <1>2, <1>4
<1>5. CASE c \in Syncs(p) /\ Closing(p, b) = Len(graph)
  BY <1>1, <1>2, <1>5
<1> QED
  BY <1>1, <1>3, <1>4, <1>5

LEMMA SegmentsDiffer ==
  ASSUME Chained, NEW p \in Procs, NEW b \in Begins(p), NEW c \in Begins(p),
         Closing(p, b) = Closing(p, c)
  PROVE  b = c
<1>1. ASSUME NEW x \in Begins(p), NEW y \in Begins(p), x < y
      PROVE  Closing(p, x) < Closing(p, y)
  <2>1. /\ x \in Nat /\ y \in Nat /\ y < Closing(p, y)
        /\ \A u \in Syncs(p) : x < u => Closing(p, x) <= u
        /\ Closing(p, x) \in Nat /\ Closing(p, y) \in Nat
    BY ClosingFacts, Places
  <2>2. y \in Syncs(p)
    BY <1>1, <2>1 DEF Begins, Beginning
  <2> QED
    BY <1>1, <2>1, <2>2
<1>2. b \in Nat /\ c \in Nat /\ Closing(p, b) \in Nat
  BY ClosingFacts, Places
<1> QED
  BY <1>1, <1>2

-----------------------------------------------------------------------------
(***************************************************************************)
(* The sets of a process while the search runs: a list of segments, each   *)
(* once, and behind them, if the search is in the middle of one, that of   *)
(* which the vertices up to v were met.                                    *)
(***************************************************************************)
Lists(s, p, begins) ==
  /\ IsSequence(s)
  /\ Range(s) = {Segment(p, b) : b \in begins}
  /\ \A i, j \in DOMAIN s : s[i] = s[j] => i = j

StartOf(b) == IF b = Beginning THEN 1 ELSE Root(b)

OpenSegment(p, b, v) ==
  [start |-> StartOf(b), state |-> "Open", end |-> Unset, origin |-> Unset,
   events |-> {u \in Own(p) \ Syncs(p) : b < u /\ u <= v}]

IsBegin(p, b, v) ==
  b \in Begins(p) /\ b <= v /\ \A u \in Syncs(p) : b < u => v < u

ListsOpen(s, p, begins, v) ==
  \E b, t : /\ b \in begins /\ IsBegin(p, b, v)
            /\ Lists(t, p, begins \ {b})
            /\ s = Append(t, OpenSegment(p, b, v))

IsMap(sm) == sm = [p \in Procs |-> sm[p]]

LEMMA LastChanged ==
  ASSUME NEW t, IsSequence(t), NEW x, NEW s, s = Append(t, x)
  PROVE  /\ IsSequence(s) /\ s # <<>> /\ Last(s) = x /\ Len(s) \in DOMAIN s
         /\ \A i \in DOMAIN s : i # Len(s) => i \in DOMAIN t /\ s[i] = t[i]
         /\ \A y : [s EXCEPT ![Len(s)] = y] = Append(t, y)
<1>1. /\ IsSequence(s) /\ DOMAIN s = DOMAIN t \cup {Len(t) + 1}
      /\ s[Len(t) + 1] = x /\ \A i \in DOMAIN t : s[i] = t[i]
  BY AppendFacts
<1>2. Len(t) \in Nat /\ DOMAIN t = 1 .. Len(t) /\ Len(s) \in Nat /\ DOMAIN s = 1 .. Len(s)
  BY <1>1, SequenceFacts
<1>3. Len(s) = Len(t) + 1
  <2>1. 1 .. Len(s) = 1 .. Len(t) \cup {Len(t) + 1}
    BY <1>1, <1>2
  <2>2. Len(t) + 1 \in 1 .. Len(s)
    BY <2>1
  <2>3. Len(s) \in 1 .. Len(s)
    BY <1>2, <2>2
  <2>4. Len(s) <= Len(t) + 1
    BY <1>2, <2>1, <2>3
  <2> QED
    BY <1>2, <2>2, <2>4
<1>4. ASSUME NEW y PROVE [s EXCEPT ![Len(s)] = y] = Append(t, y)
  <2> DEFINE a == [s EXCEPT ![Len(s)] = y]
             b == Append(t, y)
  <2>1. /\ IsSequence(b) /\ DOMAIN b = DOMAIN t \cup {Len(t) + 1}
        /\ b[Len(t) + 1] = y /\ \A i \in DOMAIN t : b[i] = t[i]
    BY AppendFacts
  <2>2. /\ IsSequence(a) /\ DOMAIN a = DOMAIN s
        /\ \A i \in DOMAIN s : a[i] = IF i = Len(s) THEN y ELSE s[i]
    BY <1>1, ExceptFacts
  <2> HIDE DEF a, b
  <2>3. a = [i \in DOMAIN a |-> a[i]] /\ b = [i \in DOMAIN b |-> b[i]]
    BY <2>1, <2>2, LenProperties DEF IsSequence
  <2>4. DOMAIN a = DOMAIN b
    BY <1>1, <2>1, <2>2
  <2>5. \A i \in DOMAIN a : a[i] = b[i]
    BY <1>1, <1>2, <1>3, <2>1, <2>2
  <2>6. a = b
    BY <2>3, <2>4, <2>5
  <2> QED
    BY <2>6 DEF a, b
<1>5. s # <<>> /\ Last(s) = x /\ Len(s) \in DOMAIN s
  <2>1. Len(s) \in DOMAIN s /\ Len(s) # 0
    BY <1>2, <1>3
  <2>2. s # <<>>
    BY <2>1
  <2> QED
    BY <1>1, <1>3, <2>1, <2>2 DEF Last
<1>6. \A i \in DOMAIN s : i # Len(s) => i \in DOMAIN t /\ s[i] = t[i]
  BY <1>1, <1>3
<1> QED
  BY <1>1, <1>4, <1>5, <1>6

LEMMA ListsMore ==
  ASSUME Chained, NEW p \in Procs, NEW begins \in SUBSET Begins(p), NEW t,
         Lists(t, p, begins), NEW b \in Begins(p), b \notin begins
  PROVE  Lists(Append(t, Segment(p, b)), p, begins \cup {b})
<1> DEFINE x == Segment(p, b)
           s == Append(t, x)
<1>1. /\ IsSequence(s) /\ DOMAIN s = DOMAIN t \cup {Len(t) + 1}
      /\ s[Len(t) + 1] = x /\ \A i \in DOMAIN t : s[i] = t[i]
  BY AppendFacts DEF Lists
<1>2. Range(s) = Range(t) \cup {x}
  BY RangeAppend DEF Lists
<1>3. Range(t) = {Segment(p, c) : c \in begins}
  BY DEF Lists
<1>4. x \notin Range(t)
  <2>1. \A c \in begins : Segment(p, c) # x
    <3> SUFFICES ASSUME NEW c \in begins, Segment(p, c) = Segment(p, b) PROVE FALSE
      OBVIOUS
    <3>1. Closing(p, c) = Closing(p, b)
      BY DEF Segment
    <3> QED
      BY <3>1, SegmentsDiffer
  <2> QED
    BY <1>3, <2>1
<1>5. \A i \in DOMAIN t : t[i] \in Range(t)
  BY DEF Range
<1>6. Range(s) = {Segment(p, c) : c \in begins \cup {b}}
  BY <1>2, <1>3
<1> HIDE DEF s, x
<1>7. \A i, j \in DOMAIN s : s[i] = s[j] => i = j
  BY <1>1, <1>4, <1>5 DEF Lists
<1>8. Lists(s, p, begins \cup {b})
  BY <1>1, <1>6, <1>7 DEF Lists
<1> QED
  BY <1>8 DEF s, x

LEMMA NoneOpen ==
  ASSUME NEW sm, NEW p, NEW begins, Lists(sm[p], p, begins)
  PROVE  /\ ~HasOpenSet(sm, p)
         /\ \A i \in DOMAIN sm[p] : sm[p][i].state = "Close"
<1>1. \A i \in DOMAIN sm[p] : sm[p][i].state = "Close"
  BY DEF Lists, Range, Segment
<1>2. ASSUME sm[p] # <<>> PROVE Len(sm[p]) \in DOMAIN sm[p]
  <2>1. Len(sm[p]) \in Nat /\ DOMAIN sm[p] = 1 .. Len(sm[p])
    BY SequenceFacts DEF Lists
  <2>2. Len(sm[p]) # 0
    BY <1>2, EmptySeq DEF Lists, IsSequence
  <2> QED
    BY <2>1, <2>2
<1> QED
  BY <1>1, <1>2 DEF HasOpenSet, Last

LEMMA OneOpen ==
  ASSUME NEW sm, NEW p, NEW begins, NEW v, ListsOpen(sm[p], p, begins, v)
  PROVE  /\ HasOpenSet(sm, p)
         /\ \A i \in DOMAIN sm[p] : sm[p][i].state = "Open" => i = Len(sm[p])
<1>1. PICK b, t : /\ b \in begins /\ IsSequence(t) /\ Lists(t, p, begins \ {b})
                  /\ sm[p] = Append(t, OpenSegment(p, b, v))
  BY DEF ListsOpen, Lists
<1>2. /\ sm[p] # <<>> /\ Last(sm[p]) = OpenSegment(p, b, v)
      /\ \A i \in DOMAIN sm[p] : i # Len(sm[p]) => i \in DOMAIN t /\ sm[p][i] = t[i]
  <2>1. IsSequence(t) /\ sm[p] = Append(t, OpenSegment(p, b, v))
    BY <1>1
  <2>2. sm[p] # <<>>
    BY <2>1, LastChanged
  <2>3. Last(sm[p]) = OpenSegment(p, b, v)
    BY <2>1, LastChanged
  <2>4. \A i \in DOMAIN sm[p] : i # Len(sm[p]) => i \in DOMAIN t /\ sm[p][i] = t[i]
    BY <2>1, LastChanged
  <2> QED
    BY <2>2, <2>3, <2>4
<1>3. \A i \in DOMAIN t : t[i].state = "Close"
  BY <1>1 DEF Lists, Range, Segment
<1>4. \A i \in DOMAIN sm[p] : sm[p][i].state = "Open" => i = Len(sm[p])
  BY <1>2, <1>3
<1> QED
  BY <1>2, <1>4 DEF HasOpenSet, OpenSegment

(* What the three changes of a set do to the list. *)
LEMMA Creates ==
  ASSUME Chained, NEW p \in Procs, NEW begins \in SUBSET Begins(p), NEW sm, IsMap(sm),
         Lists(sm[p], p, begins), NEW b \in Begins(p), b \notin begins
  PROVE  LET new == create_new_set(sm, p, StartOf(b)) IN
         /\ IsMap(new) /\ \A q \in Procs : q # p => new[q] = sm[q]
         /\ ListsOpen(new[p], p, begins \cup {b}, b)
<1> DEFINE new == create_new_set(sm, p, StartOf(b))
<1>1. /\ IsMap(new) /\ \A q \in Procs : q # p => new[q] = sm[q]
      /\ new[p] = Append(sm[p], NewSet(StartOf(b)))
  BY Zenon DEF IsMap, create_new_set
<1>2. b \in Nat /\ Own(p) \subseteq Nat
  BY ClosingFacts, Places
<1>3. NewSet(StartOf(b)) = OpenSegment(p, b, b)
  <2>1. {u \in Own(p) \ Syncs(p) : b < u /\ u <= b} = {}
    BY <1>2
  <2> QED
    BY <2>1 DEF NewSet, OpenSegment
<1>4. IsBegin(p, b, b)
  BY <1>2 DEF IsBegin
<1>5. (begins \cup {b}) \ {b} = begins
  OBVIOUS
<1>6. ListsOpen(new[p], p, begins \cup {b}, b)
  BY <1>1, <1>3, <1>4, <1>5 DEF ListsOpen
<1> QED
  BY <1>1, <1>6

LEMMA Inserts ==
  ASSUME Chained, NEW p \in Procs, NEW begins \in SUBSET Begins(p), NEW sm, IsMap(sm),
         NEW v \in Nat, ListsOpen(sm[p], p, begins, v),
         NEW w \in Own(p), w \notin Syncs(p), Follows(p, v, w)
  PROVE  LET new == insert(sm, p, w) IN
         /\ IsMap(new) /\ \A q \in Procs : q # p => new[q] = sm[q]
         /\ ListsOpen(new[p], p, begins, w)
<1> DEFINE new == insert(sm, p, w)
           s == sm[p]
<1>1. PICK b, t : /\ b \in begins /\ IsBegin(p, b, v)
                  /\ IsSequence(t) /\ Lists(t, p, begins \ {b})
                  /\ s = Append(t, OpenSegment(p, b, v))
  BY DEF ListsOpen, Lists
<1>2. /\ Last(s) = OpenSegment(p, b, v) /\ Len(s) \in DOMAIN s
      /\ \A y : [s EXCEPT ![Len(s)] = y] = Append(t, y)
  <2>1. IsSequence(t) /\ s = Append(t, OpenSegment(p, b, v))
    BY <1>1
  <2> HIDE DEF s
  <2>2. Last(s) = OpenSegment(p, b, v)
    BY <2>1, LastChanged
  <2>3. Len(s) \in DOMAIN s
    BY <2>1, LastChanged
  <2>4. \A y : [s EXCEPT ![Len(s)] = y] = Append(t, y)
    BY <2>1, LastChanged
  <2> QED
    BY <2>2, <2>3, <2>4
<1>3. /\ IsMap(new) /\ \A q \in Procs : q # p => new[q] = sm[q]
      /\ new[p] = [s EXCEPT ![Len(s)].events = @ \cup {w}]
  BY Zenon DEF IsMap, insert
<1>4. b \in Nat /\ Own(p) \subseteq Nat /\ v < w /\ \A u \in Own(p) : v < u => w <= u
  BY <1>1, ClosingFacts, Places DEF Follows
<1>5. [OpenSegment(p, b, v) EXCEPT !.events = @ \cup {w}] = OpenSegment(p, b, w)
  <2> DEFINE met(x) == {u \in Own(p) \ Syncs(p) : b < u /\ u <= x}
  <2>1. met(v) \cup {w} = met(w)
    BY <1>1, <1>4 DEF IsBegin
  <2>2. \A x : OpenSegment(p, b, x) =
          [start |-> StartOf(b), state |-> "Open", end |-> Unset, origin |-> Unset,
           events |-> met(x)]
    BY DEF OpenSegment
  <2> HIDE DEF met
  <2> QED
    BY <2>1, <2>2
<1>6. new[p] = Append(t, OpenSegment(p, b, w))
  <2>1. new[p] = [s EXCEPT ![Len(s)] = [Last(s) EXCEPT !.events = @ \cup {w}]]
    BY <1>3 DEF Last
  <2> QED
    BY <1>2, <1>5, <2>1
<1>7. IsBegin(p, b, w)
  <2>1. \A u \in Syncs(p) : b < u => w < u
    <3> SUFFICES ASSUME NEW u \in Syncs(p), b < u PROVE w < u
      OBVIOUS
    <3>1. v < u /\ u \in Own(p)
      BY <1>1, Places DEF IsBegin
    <3>2. w <= u /\ w # u
      BY <1>4, <3>1
    <3> QED
      BY <1>4, <3>1, <3>2
  <2> QED
    BY <1>1, <1>4, <2>1 DEF IsBegin
<1>8. ListsOpen(new[p], p, begins, w)
  <2> HIDE DEF new
  <2> QED BY <1>1, <1>6, <1>7 DEF ListsOpen
<1> QED
  BY <1>3, <1>8

ClosedSet(x, end, origin) ==
  [x EXCEPT !.state = "Close", !.end = end, !.origin = origin]

LEMMA SetClosed ==
  ASSUME NEW x, NEW a, NEW m, NEW e, NEW c,
         x = [start |-> a, state |-> "Open", end |-> Unset, origin |-> Unset, events |-> m]
  PROVE  ClosedSet(x, e, c) =
           [start |-> a, state |-> "Close", end |-> e, origin |-> c, events |-> m]
<1> DEFINE x1 == [x EXCEPT !.state = "Close"]
           x2 == [x1 EXCEPT !.end = e]
           x3 == [x2 EXCEPT !.origin = c]
<1>1. x1 = [start |-> a, state |-> "Close", end |-> Unset, origin |-> Unset,
             events |-> m]
  OBVIOUS
<1>2. x2 = [start |-> a, state |-> "Close", end |-> e, origin |-> Unset, events |-> m]
  <2> HIDE DEF x1
  <2> QED BY <1>1
<1>3. x3 = [start |-> a, state |-> "Close", end |-> e, origin |-> c, events |-> m]
  <2> HIDE DEF x2
  <2> QED BY <1>2
<1>4. ClosedSet(x, e, c) = x3
  <2>1. ClosedSet(x, e, c) = [x2 EXCEPT !.origin = c]
    BY Zenon DEF ClosedSet
  <2> QED BY <2>1
<1> QED
  <2> HIDE DEF x3
  <2> QED BY <1>3, <1>4

LEMMA Closes ==
  ASSUME Chained, NEW p \in Procs, NEW begins \in SUBSET Begins(p), NEW sm, IsMap(sm),
         NEW v \in Nat, ListsOpen(sm[p], p, begins, v),
         NEW c \in Syncs(p) \cup {Len(graph)}, Follows(p, v, c)
  PROVE  LET new == close(sm, p, RootOf(c), c) IN
         /\ IsMap(new) /\ \A q \in Procs : q # p => new[q] = sm[q]
         /\ Lists(new[p], p, begins)
<1> DEFINE new == close(sm, p, RootOf(c), c)
           s == sm[p]
<1>1. PICK b, t : /\ b \in begins /\ IsBegin(p, b, v)
                  /\ IsSequence(t) /\ Lists(t, p, begins \ {b})
                  /\ s = Append(t, OpenSegment(p, b, v))
  BY DEF ListsOpen, Lists
<1>2. /\ Last(s) = OpenSegment(p, b, v) /\ Len(s) \in DOMAIN s
      /\ \A y : [s EXCEPT ![Len(s)] = y] = Append(t, y)
  <2>1. IsSequence(t) /\ s = Append(t, OpenSegment(p, b, v))
    BY <1>1
  <2> HIDE DEF s
  <2>2. Last(s) = OpenSegment(p, b, v)
    BY <2>1, LastChanged
  <2>3. Len(s) \in DOMAIN s
    BY <2>1, LastChanged
  <2>4. \A y : [s EXCEPT ![Len(s)] = y] = Append(t, y)
    BY <2>1, LastChanged
  <2> QED
    BY <2>2, <2>3, <2>4
<1>3. /\ IsMap(new) /\ \A q \in Procs : q # p => new[q] = sm[q]
      /\ new[p] = [s EXCEPT ![Len(s)] = ClosedSet(s[Len(s)], RootOf(c), c)]
  BY Zenon DEF IsMap, close, ClosedSet
<1>4. /\ b \in Nat /\ Own(p) \subseteq Nat /\ v < c /\ \A u \in Own(p) : v < u => c <= u
      /\ c \in Nat /\ Syncs(p) \subseteq Own(p) /\ b <= v
  BY <1>1, ClosingFacts, Places DEF Follows, IsBegin
<1>5. Closing(p, b) = c
  <2>1. b \in Begins(p) /\ b < c /\ \A u \in Syncs(p) : b < u => c <= u
    BY <1>1, <1>4 DEF IsBegin
  <2> QED
    BY <2>1, ClosingIs
<1>6. ClosedSet(OpenSegment(p, b, v), RootOf(c), c) = Segment(p, b)
  <2> DEFINE met == {u \in Own(p) \ Syncs(p) : b < u /\ u <= v}
  <2>1. met = {u \in Own(p) \ Syncs(p) : b < u /\ u < c}
    BY <1>4
  <2>2. OpenSegment(p, b, v) =
          [start |-> StartOf(b), state |-> "Open", end |-> Unset, origin |-> Unset,
           events |-> met]
    BY DEF OpenSegment
  <2>3. Segment(p, b) =
          [start |-> StartOf(b), state |-> "Close", end |-> RootOf(c), origin |-> c,
           events |-> met]
    BY <1>5, <2>1 DEF Segment, StartOf
  <2> HIDE DEF met
  <2>4. ClosedSet(OpenSegment(p, b, v), RootOf(c), c) =
          [start |-> StartOf(b), state |-> "Close", end |-> RootOf(c), origin |-> c,
           events |-> met]
    BY <2>2, SetClosed
  <2> QED
    BY <2>3, <2>4
<1>7. new[p] = Append(t, Segment(p, b))
  <2>1. new[p] = [s EXCEPT ![Len(s)] = ClosedSet(Last(s), RootOf(c), c)]
    BY <1>3 DEF Last
  <2> QED
    BY <1>2, <1>6, <2>1
<1>8. Lists(new[p], p, begins)
  <2> HIDE DEF new
  <2>1. (begins \ {b}) \cup {b} = begins /\ b \notin begins \ {b} /\ b \in Begins(p)
    BY <1>1
  <2> QED
    BY <1>1, <1>7, <2>1, ListsMore
<1> QED
  BY <1>3, <1>8

-----------------------------------------------------------------------------
(***************************************************************************)
(* The search.  An edge is taken if it leaves a discovered vertex and the  *)
(* search, if still at this vertex, has gone past it.  What taken edges    *)
(* lead to is discovered, and all that is was met by one of them.          *)
(***************************************************************************)
Taken(disc, st) ==
  {e \in DOMAIN edges :
     /\ edges[e][1] \in disc
     /\ \A i \in DOMAIN st : st[i].vertex = edges[e][1] => e <= st[i].edge}

SearchOK(disc, st) ==
  /\ disc \subseteq DOMAIN graph /\ 1 \in disc
  /\ IsSequence(st) /\ \A i \in DOMAIN st : st[i] \in [vertex : disc, edge : Nat]
  /\ \A i, j \in DOMAIN st : st[i].vertex = st[j].vertex => i = j
  /\ \A i \in DOMAIN st : st[i].edge # 0 => st[i].edge \in out_edges(st[i].vertex)
  /\ \A i \in DOMAIN st : st[i].edge = 0 => i = Len(st)
  /\ \A e \in Taken(disc, st) : edges[e][2] \in disc
  /\ \A w \in disc : w # 1 => \E e \in Taken(disc, st) : edges[e][2] = w

LEMMA LastPlace ==
  ASSUME NEW s, IsSequence(s), s # <<>>
  PROVE  Len(s) \in DOMAIN s /\ Len(s) \in Nat /\ DOMAIN s = 1 .. Len(s) /\ Len(s) # 0
<1>1. Len(s) \in Nat /\ DOMAIN s = 1 .. Len(s)
  BY SequenceFacts
<1>2. Len(s) # 0
  BY EmptySeq DEF IsSequence
<1> QED
  BY <1>1, <1>2

LEMMA TopFacts ==
  ASSUME SearchOK(discovered, stack), stack # <<>>
  PROVE  /\ Len(stack) \in DOMAIN stack /\ Top = stack[Len(stack)]
         /\ Top.vertex \in discovered /\ Top.edge \in Nat
         /\ Top = [vertex |-> Top.vertex, edge |-> Top.edge]
         /\ \A i \in DOMAIN stack : stack[i].vertex = Top.vertex => i = Len(stack)
         /\ Top.edge # 0 => Top.edge \in out_edges(Top.vertex)
<1>1. Len(stack) \in DOMAIN stack /\ Top = stack[Len(stack)]
  BY LastPlace DEF SearchOK, Top, Last
<1>2. Top \in [vertex : discovered, edge : Nat]
  BY <1>1 DEF SearchOK
<1> QED
  BY <1>1, <1>2 DEF SearchOK

LEMMA NextEdgeFacts ==
  ASSUME Chained, SearchOK(discovered, stack), HasEdge
  PROVE  /\ stack # <<>>
         /\ NextEdge \in out_edges(Top.vertex) /\ NextEdge \in DOMAIN edges
         /\ edges[NextEdge][1] = Top.vertex /\ edges[NextEdge][2] = Target
         /\ NextEdge \in Nat \ {0} /\ NextEdge > Top.edge
         /\ Target \in DOMAIN graph
         /\ \A f \in out_edges(Top.vertex) : f > Top.edge => NextEdge <= f
         /\ NextEdge \notin Taken(discovered, stack)
<1>1. stack # <<>> /\ EdgesLeft # {}
  BY DEF HasEdge
<1>2. EdgesLeft \in SUBSET Nat
  BY Places DEF EdgesLeft, out_edges
<1>3. NextEdge \in EdgesLeft /\ \A f \in EdgesLeft : NextEdge <= f
  BY <1>1, <1>2, LeastFacts DEF NextEdge
<1>4. NextEdge \in out_edges(Top.vertex) /\ NextEdge > Top.edge
      /\ \A f \in out_edges(Top.vertex) : f > Top.edge => NextEdge <= f
  BY <1>3 DEF EdgesLeft
<1>5. NextEdge \in DOMAIN edges /\ edges[NextEdge][1] = Top.vertex
  BY <1>4 DEF out_edges
<1>6. NextEdge \in Nat \ {0} /\ Target \in DOMAIN graph /\ edges[NextEdge][2] = Target
  BY <1>5, Places DEF Target
<1>7. NextEdge \notin Taken(discovered, stack)
  <2>1. Len(stack) \in DOMAIN stack /\ Top = stack[Len(stack)] /\ Top.edge \in Nat
    BY <1>1, TopFacts
  <2> QED
    BY <1>4, <1>5, <1>6, <2>1 DEF Taken
<1> QED
  BY <1>1, <1>4, <1>5, <1>6, <1>7

LEMMA TakeEdgeFacts ==
  ASSUME Chained, SearchOK(discovered, stack), HasEdge
  PROVE  /\ IsSequence(TakeEdge) /\ DOMAIN TakeEdge = DOMAIN stack
         /\ Len(TakeEdge) = Len(stack) /\ TakeEdge # <<>>
         /\ Last(TakeEdge) = [vertex |-> Top.vertex, edge |-> NextEdge]
         /\ TakeEdge[Len(stack)] = [vertex |-> Top.vertex, edge |-> NextEdge]
         /\ \A i \in DOMAIN stack : i # Len(stack) => TakeEdge[i] = stack[i]
<1> DEFINE top == [vertex |-> Top.vertex, edge |-> NextEdge]
           t == TakeEdge
<1>1. /\ Len(stack) \in DOMAIN stack /\ Top = stack[Len(stack)]
      /\ Top = [vertex |-> Top.vertex, edge |-> Top.edge]
  BY NextEdgeFacts, TopFacts
<1>2. [Top EXCEPT !.edge = NextEdge] = top
  <2> DEFINE v == Top.vertex
             e == Top.edge
  <2>1. Top = [vertex |-> v, edge |-> e]
    BY <1>1
  <2> HIDE DEF v, e
  <2>2. [Top EXCEPT !.edge = NextEdge] = [vertex |-> v, edge |-> NextEdge]
    BY <2>1
  <2> QED
    BY <2>2 DEF v
<1>3. t = [stack EXCEPT ![Len(stack)] = top]
  BY <1>1, <1>2, Zenon DEF TakeEdge
<1>4. /\ IsSequence(t) /\ DOMAIN t = DOMAIN stack
      /\ \A i \in DOMAIN stack : t[i] = IF i = Len(stack) THEN top ELSE stack[i]
  BY <1>3, ExceptFacts DEF SearchOK
<1>5. Len(t) = Len(stack) /\ t # <<>>
  <2> HIDE DEF t
  <2>1. Len(t) \in Nat /\ DOMAIN t = 1 .. Len(t) /\ Len(stack) \in Nat
        /\ DOMAIN stack = 1 .. Len(stack)
    BY <1>4, SequenceFacts DEF SearchOK
  <2>2. Len(t) = Len(stack)
    <3>1. 1 .. Len(t) = 1 .. Len(stack)
      BY <1>4, <2>1
    <3> QED
      BY <2>1, <3>1, SameLength
  <2>3. t # <<>>
    BY <1>1, <1>4
  <2> QED
    BY <2>2, <2>3
<1> HIDE DEF t, top
<1>6. t[Len(stack)] = top /\ Last(t) = top
  BY <1>1, <1>4, <1>5 DEF Last
<1>7. \A i \in DOMAIN stack : i # Len(stack) => t[i] = stack[i]
  BY <1>4
<1> QED
  BY <1>4, <1>5, <1>6, <1>7 DEF t, top

LEMMA Skipped ==
  ASSUME Chained, SearchOK(discovered, stack), HasEdge
  PROVE  /\ Taken(discovered, TakeEdge) = Taken(discovered, stack) \cup {NextEdge}
         /\ Target \in discovered => SearchOK(discovered, TakeEdge)
<1> DEFINE t == TakeEdge
           n == Len(stack)
<1>1. /\ IsSequence(t) /\ DOMAIN t = DOMAIN stack /\ Len(t) = n /\ n \in DOMAIN stack
      /\ t[n].vertex = Top.vertex /\ t[n].edge = NextEdge
      /\ t[n] = [vertex |-> Top.vertex, edge |-> NextEdge]
      /\ \A i \in DOMAIN stack : i # n => t[i] = stack[i]
      /\ \A i \in DOMAIN stack : t[i].vertex = stack[i].vertex
  BY TakeEdgeFacts, NextEdgeFacts, TopFacts
<1>2. /\ Top = stack[n] /\ Top.vertex \in discovered /\ Top.edge \in Nat
      /\ \A i \in DOMAIN stack : stack[i].vertex = Top.vertex => i = n
  BY NextEdgeFacts, TopFacts
<1>3. /\ NextEdge \in out_edges(Top.vertex) /\ NextEdge \in DOMAIN edges
      /\ edges[NextEdge][1] = Top.vertex /\ edges[NextEdge][2] = Target
      /\ NextEdge \in Nat \ {0} /\ NextEdge > Top.edge
      /\ \A f \in out_edges(Top.vertex) : f > Top.edge => NextEdge <= f
  BY NextEdgeFacts
<1>4. DOMAIN edges \subseteq Nat
  BY Places
<1> HIDE DEF t, n
<1>5. ASSUME NEW e \in DOMAIN edges
      PROVE  e \in Taken(discovered, t) <=> e \in Taken(discovered, stack) \cup {NextEdge}
  <2>1. CASE edges[e][1] = Top.vertex
    <3>1. e \in Taken(discovered, t) <=> e <= NextEdge
      BY <1>1, <1>2, <2>1 DEF Taken
    <3>2. e \in Taken(discovered, stack) <=> e <= Top.edge
      BY <1>1, <1>2, <2>1 DEF Taken
    <3>3. e \in out_edges(Top.vertex) /\ e \in Nat
      BY <1>4, <2>1 DEF out_edges
    <3>4. e <= NextEdge <=> (e <= Top.edge \/ e = NextEdge)
      BY <1>2, <1>3, <3>3
    <3> QED
      BY <3>1, <3>2, <3>4
  <2>2. CASE edges[e][1] # Top.vertex
    <3>1. e # NextEdge
      BY <1>3, <2>2
    <3>2. e \in Taken(discovered, t) <=> e \in Taken(discovered, stack)
      BY <1>1, <1>2, <2>2 DEF Taken
    <3> QED
      BY <3>1, <3>2
  <2> QED
    BY <2>1, <2>2
<1>6. Taken(discovered, t) = Taken(discovered, stack) \cup {NextEdge}
  <2>1. Taken(discovered, t) \subseteq DOMAIN edges /\ Taken(discovered, stack) \subseteq DOMAIN edges
    BY DEF Taken
  <2> QED
    BY <1>3, <1>5, <2>1
<1>7. ASSUME Target \in discovered PROVE SearchOK(discovered, t)
  <2>1. \A i \in DOMAIN t : t[i] \in [vertex : discovered, edge : Nat]
    BY <1>1, <1>2, <1>3 DEF SearchOK
  <2>2. \A i, j \in DOMAIN t : t[i].vertex = t[j].vertex => i = j
    BY <1>1 DEF SearchOK
  <2>3. \A i \in DOMAIN t : t[i].edge # 0 => t[i].edge \in out_edges(t[i].vertex)
    BY <1>1, <1>3 DEF SearchOK
  <2>4. \A i \in DOMAIN t : t[i].edge = 0 => i = Len(t)
    BY <1>1, <1>3 DEF SearchOK, n
  <2>5. \A e \in Taken(discovered, t) : edges[e][2] \in discovered
    BY <1>3, <1>6, <1>7 DEF SearchOK
  <2>6. \A w \in discovered : w # 1 => \E e \in Taken(discovered, t) : edges[e][2] = w
    BY <1>6 DEF SearchOK
  <2> QED
    BY <1>1, <2>1, <2>2, <2>3, <2>4, <2>5, <2>6 DEF SearchOK
<1> QED
  BY <1>6, <1>7 DEF t

LEMMA Descended ==
  ASSUME Chained, SearchOK(discovered, stack), HasEdge, Target \notin discovered
  PROVE  LET st == Append(TakeEdge, Visiting(Target))
             disc == discovered \cup {Target}
         IN /\ SearchOK(disc, st)
            /\ Taken(disc, st) = Taken(discovered, stack) \cup {NextEdge}
            /\ st # <<>> /\ Last(st) = Visiting(Target)
<1> DEFINE t == TakeEdge
           n == Len(stack)
           st == Append(t, Visiting(Target))
           disc == discovered \cup {Target}
<1>1. /\ IsSequence(t) /\ DOMAIN t = DOMAIN stack /\ Len(t) = n /\ n \in DOMAIN stack
      /\ t[n] = [vertex |-> Top.vertex, edge |-> NextEdge]
      /\ t[n].vertex = Top.vertex /\ t[n].edge = NextEdge
      /\ \A i \in DOMAIN stack : i # n => t[i] = stack[i]
      /\ \A i \in DOMAIN stack : t[i].vertex = stack[i].vertex
  BY TakeEdgeFacts, NextEdgeFacts, TopFacts
<1>2. /\ IsSequence(st) /\ DOMAIN st = DOMAIN t \cup {n + 1} /\ n + 1 \notin DOMAIN t
      /\ st[n + 1] = Visiting(Target) /\ \A i \in DOMAIN t : st[i] = t[i]
  <2> HIDE DEF t, n
  <2> QED BY <1>1, AppendFacts
<1>3. st # <<>> /\ Last(st) = Visiting(Target) /\ Len(st) = n + 1
  <2>1. st # <<>>
    BY <1>1, LastChanged DEF t
  <2>2. Last(st) = Visiting(Target)
    BY <1>1, LastChanged DEF t
  <2>3. Len(st) = n + 1
    <3>1. Len(st) \in DOMAIN st /\ \A i \in DOMAIN st : i # Len(st) => i \in DOMAIN t
      <4>1. Len(st) \in DOMAIN st
        BY <1>1, LastChanged DEF t
      <4>2. \A i \in DOMAIN st : i # Len(st) => i \in DOMAIN t
        BY <1>1, LastChanged DEF t
      <4> QED BY <4>1, <4>2
    <3> HIDE DEF st
    <3> QED BY <1>2, <3>1
  <2> QED
    BY <2>1, <2>2, <2>3
<1>4. /\ Top.vertex \in discovered /\ Top.edge \in Nat /\ Top = stack[n]
      /\ NextEdge \in out_edges(Top.vertex) /\ NextEdge \in DOMAIN edges
      /\ NextEdge \in Nat \ {0} /\ edges[NextEdge][2] = Target /\ Target \in DOMAIN graph
      /\ edges[NextEdge][1] = Top.vertex
  BY NextEdgeFacts, TopFacts
<1>5. DOMAIN edges \subseteq Nat \ {0}
  BY Places
<1>6. Taken(discovered, t) = Taken(discovered, stack) \cup {NextEdge}
  BY Skipped
<1>7. Visiting(Target).vertex = Target /\ Visiting(Target).edge = 0
      /\ Visiting(Target) \in [vertex : disc, edge : Nat]
  BY DEF Visiting
<1>8. \A i \in DOMAIN stack : stack[i].vertex \in discovered /\ stack[i].vertex # Target
                              /\ stack[i] \in [vertex : disc, edge : Nat]
  BY DEF SearchOK
<1>9. n + 1 \in DOMAIN st
  BY <1>2
<1> HIDE DEF t, st, n
<1>10. ASSUME NEW e \in DOMAIN edges
       PROVE  e \in Taken(disc, st) <=> e \in Taken(discovered, t)
  <2>1. CASE edges[e][1] = Target
    <3>1. ~(e <= st[n + 1].edge)
      BY <1>2, <1>5, <1>7
    <3>2. st[n + 1].vertex = edges[e][1]
      BY <1>2, <1>7, <2>1
    <3>3. e \notin Taken(disc, st)
      BY <1>9, <3>1, <3>2 DEF Taken
    <3> QED
      BY <2>1, <3>3 DEF Taken
  <2>2. CASE edges[e][1] # Target
    <3>1. \A i \in DOMAIN st : st[i].vertex = edges[e][1] => i \in DOMAIN t
      BY <1>2, <1>7, <2>2
    <3>2. (\A i \in DOMAIN st : st[i].vertex = edges[e][1] => e <= st[i].edge)
            <=> (\A i \in DOMAIN t : t[i].vertex = edges[e][1] => e <= t[i].edge)
      BY <1>2, <3>1
    <3> QED
      BY <2>2, <3>2 DEF Taken
  <2> QED
    BY <2>1, <2>2
<1>11. Taken(disc, st) = Taken(discovered, stack) \cup {NextEdge}
  <2>1. Taken(disc, st) \subseteq DOMAIN edges /\ Taken(discovered, t) \subseteq DOMAIN edges
    BY DEF Taken
  <2> QED
    BY <1>6, <1>10, <2>1
<1>12. SearchOK(disc, st)
  <2>1. disc \subseteq DOMAIN graph /\ 1 \in disc
    BY <1>4 DEF SearchOK
  <2>2. \A i \in DOMAIN st : st[i] \in [vertex : disc, edge : Nat]
    <3>1. \A i \in DOMAIN stack : t[i] \in [vertex : disc, edge : Nat]
      BY <1>1, <1>4, <1>8
    <3> QED
      BY <1>1, <1>2, <1>7, <3>1
  <2>3. \A i, j \in DOMAIN st : st[i].vertex = st[j].vertex => i = j
    BY <1>1, <1>2, <1>7, <1>8 DEF SearchOK
  <2>4. \A i \in DOMAIN st : st[i].edge # 0 => st[i].edge \in out_edges(st[i].vertex)
    BY <1>1, <1>2, <1>4, <1>7 DEF SearchOK
  <2>5. \A i \in DOMAIN st : st[i].edge = 0 => i = Len(st)
    <3>1. \A i \in DOMAIN stack : t[i].edge # 0
      BY <1>1, <1>4 DEF SearchOK, n
    <3> QED
      BY <1>1, <1>2, <1>3, <3>1
  <2>6. \A e \in Taken(disc, st) : edges[e][2] \in disc
    BY <1>4, <1>11 DEF SearchOK
  <2>7. \A w \in disc : w # 1 => \E e \in Taken(disc, st) : edges[e][2] = w
    BY <1>4, <1>11 DEF SearchOK
  <2> HIDE DEF disc
  <2> QED
    BY <1>2, <2>1, <2>2, <2>3, <2>4, <2>5, <2>6, <2>7 DEF SearchOK
<1> QED
  BY <1>3, <1>11, <1>12 DEF st, t

LEMMA Backtracked ==
  ASSUME Chained, SearchOK(discovered, stack), stack # <<>>, ~HasEdge
  PROVE  /\ SearchOK(discovered, Front(stack))
         /\ Taken(discovered, Front(stack)) = Taken(discovered, stack)
         /\ Front(stack) # <<>> => Last(Front(stack)).edge # 0
<1> DEFINE t == Front(stack)
           n == Len(stack)
<1>1. /\ n \in DOMAIN stack /\ Top = stack[n] /\ Top.edge \in Nat
      /\ \A i \in DOMAIN stack : stack[i].vertex = Top.vertex => i = n
  BY TopFacts
<1>2. n \in Nat \ {0} /\ DOMAIN stack = 1 .. n /\ IsSequence(stack)
  BY LastPlace DEF SearchOK
<1>3. \A e \in out_edges(Top.vertex) : e \in Nat /\ e <= Top.edge
  <2>1. \A e \in out_edges(Top.vertex) : ~(e > Top.edge)
    BY DEF HasEdge, EdgesLeft
  <2>2. out_edges(Top.vertex) \subseteq Nat
    BY Places DEF out_edges
  <2> QED
    BY <1>1, <2>1, <2>2
<1>4. /\ IsSequence(t) /\ Len(t) = n - 1 /\ DOMAIN t = 1 .. n - 1
      /\ \A i \in 1 .. n - 1 : t[i] = stack[i]
  <2> DEFINE S == Range(stack)
  <2>1. stack \in Seq(S) /\ \A i \in 1 .. n - 1 : stack[i] \in S
    BY <1>2 DEF IsSequence, Range
  <2>2. t = SubSeq(stack, 1, n - 1)
    BY DEF Front
  <2> HIDE DEF S, t, n
  <2>3. /\ t \in Seq(S) /\ Len(t) = n - 1
        /\ \A i \in 1 .. n - 1 : t[i] = stack[i]
    <3>1. 1 \in Int /\ n - 1 \in Int
      BY <1>2
    <3>2. SubSeq(stack, 1, n - 1) \in Seq(S)
      BY <2>1, <3>1, SubSeqProperties
    <3>3. Len(SubSeq(stack, 1, n - 1)) = IF 1 <= n - 1 THEN n - 1 - 1 + 1 ELSE 0
      BY <2>1, <3>1, SubSeqProperties
    <3>4. \A i \in 1 .. n - 1 - 1 + 1 : SubSeq(stack, 1, n - 1)[i] = stack[1 + i - 1]
      BY <2>1, <3>1, SubSeqProperties
    <3>5. \A i \in 1 .. n - 1 : SubSeq(stack, 1, n - 1)[i] = stack[i]
      BY <1>2, <3>4
    <3> QED
      BY <1>2, <2>2, <3>2, <3>3, <3>5
  <2>4. IsSequence(t) /\ DOMAIN t = 1 .. n - 1
    BY <2>3, SequenceOver, SequenceFacts
  <2> QED
    BY <2>3, <2>4
<1>5. DOMAIN t \subseteq DOMAIN stack /\ \A i \in DOMAIN t : t[i] = stack[i] /\ i # n
  BY <1>2, <1>4
<1>6. \A i \in DOMAIN stack : i \in DOMAIN t \/ i = n
  BY <1>2, <1>4
<1> HIDE DEF t, n
<1>7. ASSUME NEW e \in DOMAIN edges
      PROVE  e \in Taken(discovered, t) <=> e \in Taken(discovered, stack)
  <2>1. CASE edges[e][1] = Top.vertex
    <3>1. e <= Top.edge
      BY <1>3, <2>1 DEF out_edges
    <3>2. \A i \in DOMAIN stack : stack[i].vertex = edges[e][1] => e <= stack[i].edge
      BY <1>1, <2>1, <3>1
    <3> QED
      BY <1>5, <3>2 DEF Taken
  <2>2. CASE edges[e][1] # Top.vertex
    <3>1. (\A i \in DOMAIN t : t[i].vertex = edges[e][1] => e <= t[i].edge)
            <=> (\A i \in DOMAIN stack : stack[i].vertex = edges[e][1] => e <= stack[i].edge)
      BY <1>1, <1>5, <1>6, <2>2
    <3> QED
      BY <3>1 DEF Taken
  <2> QED
    BY <2>1, <2>2
<1>8. Taken(discovered, t) = Taken(discovered, stack)
  <2>1. Taken(discovered, t) \subseteq DOMAIN edges /\ Taken(discovered, stack) \subseteq DOMAIN edges
    BY DEF Taken
  <2> QED
    BY <1>7, <2>1
<1>9. \A i \in DOMAIN t : t[i].edge # 0
  BY <1>5 DEF SearchOK, n
<1>10. SearchOK(discovered, t)
  <2>1. \A i, j \in DOMAIN t : t[i].vertex = t[j].vertex => i = j
    BY <1>5 DEF SearchOK
  <2>2. \A i \in DOMAIN t : t[i] \in [vertex : discovered, edge : Nat]
    BY <1>5 DEF SearchOK
  <2>3. \A i \in DOMAIN t : t[i].edge # 0 => t[i].edge \in out_edges(t[i].vertex)
    BY <1>5 DEF SearchOK
  <2> QED
    BY <1>4, <1>8, <1>9, <2>1, <2>2, <2>3 DEF SearchOK
<1>11. t # <<>> => Last(t).edge # 0
  BY <1>4, <1>9, LastPlace DEF Last
<1> QED
  BY <1>8, <1>10, <1>11 DEF t

LEMMA SearchStarts ==
  ASSUME Chained
  PROVE  /\ find_root = 1
         /\ SearchOK({1}, <<Visiting(1)>>)
         /\ Taken({1}, <<Visiting(1)>>) = {}
         /\ Last(<<Visiting(1)>>) = Visiting(1)
<1> DEFINE st == <<Visiting(1)>>
<1>1. find_root = 1
  <2> DEFINE S == {v \in DOMAIN graph : IsSynthetic(v)}
  <2>1. S \in SUBSET Nat /\ 1 \in S /\ \A y \in S : 1 <= y
    BY Places DEF Chained
  <2>2. Min(S) = 1
    <3> HIDE DEF S
    <3> QED BY <2>1, LeastIs
  <2> QED
    BY <2>2 DEF find_root
<1>2. /\ Len(st) = 1 /\ DOMAIN st = {1} /\ st[1] = Visiting(1) /\ Last(st) = Visiting(1)
      /\ st \in Seq({Visiting(1)})
  BY DEF Last
<1>3. IsSequence(st)
  BY <1>2, SequenceOver
<1>4. Visiting(1) \in [vertex : {1}, edge : Nat] /\ Visiting(1).edge = 0 /\ Visiting(1).vertex = 1
  BY DEF Visiting
<1> HIDE DEF st
<1>5. Taken({1}, st) = {}
  <2> SUFFICES ASSUME NEW e \in Taken({1}, st) PROVE FALSE
    OBVIOUS
  <2>1. e \in Nat \ {0}
    BY Places DEF Taken
  <2>2. e <= 0
    BY <1>2, <1>4 DEF Taken
  <2> QED
    BY <2>1, <2>2
<1>6. SearchOK({1}, st)
  BY <1>2, <1>3, <1>4, <1>5, Places DEF SearchOK
<1> QED
  BY <1>1, <1>2, <1>5, <1>6 DEF st

-----------------------------------------------------------------------------
(***************************************************************************)
(* What the next edge may be                                               *)
(***************************************************************************)
LEMMA Vertices ==
  ASSUME Chained, NEW v \in DOMAIN graph
  PROVE  v = 1 \/ v = Len(graph) \/ \E p \in Procs : v \in Own(p)
BY DEF Chained, Own

(* An I/O event is reached by one edge only. *)
LEMMA ByOneEdge ==
  ASSUME Chained, NEW q \in Procs, NEW w \in Own(q), w \notin Syncs(q),
         NEW e \in DOMAIN edges, NEW f \in DOMAIN edges, edges[e][2] = w, edges[f][2] = w
  PROVE  e = f
<1>1. /\ w \in Nat /\ ~IsSync(w) /\ w # Len(graph)
      /\ \A p \in Procs : w \in Own(p) => p = q
      /\ Own(q) \subseteq Nat
  BY Places
<1>2. ASSUME NEW g \in DOMAIN edges, edges[g][2] = w
      PROVE  /\ edges[g][1] \in {1} \cup Own(q)
             /\ Follows(q, edges[g][1], w)
             /\ edges[g][1] \in Own(q) => \A h \in out_edges(edges[g][1]) : h # g => IsSync(edges[h][2])
  <2> DEFINE u == edges[g][1]
  <2>1. u \in DOMAIN graph /\ g \in out_edges(u)
    BY Places DEF out_edges
  <2>2. CASE u = 1
    <3>1. Follows(q, u, w)
      BY <1>1, <1>2, <2>1, <2>2 DEF Chained, RootLeads
    <3>2. u \notin Own(q)
      BY <2>2, Places
    <3> QED
      BY <2>2, <3>1, <3>2
  <2>3. CASE u = Len(graph)
    BY <2>1, <2>3 DEF Chained
  <2>4. ASSUME NEW p \in Procs, u \in Own(p) PROVE u \in Own(q) /\ Follows(q, u, w)
                 /\ \A h \in out_edges(u) : h # g => IsSync(edges[h][2])
    <3>1. PICK k \in out_edges(u) :
            /\ Follows(p, u, edges[k][2])
            /\ \A h \in out_edges(u) : h # k => IsSync(edges[h][2])
      BY <2>4 DEF Chained, ChainFirst
    <3>2. k = g
      BY <1>1, <1>2, <2>1, <3>1
    <3>3. w \in Own(p)
      BY <1>1, <1>2, <3>1, <3>2 DEF Follows
    <3> QED
      BY <1>1, <1>2, <2>4, <3>1, <3>2, <3>3
  <2> QED
    BY <2>1, <2>2, <2>3, <2>4, Vertices
<1> DEFINE u == edges[e][1]
           v == edges[f][1]
<1>3. /\ u \in {1} \cup Own(q) /\ Follows(q, u, w)
      /\ u \in Own(q) => \A h \in out_edges(u) : h # e => IsSync(edges[h][2])
      /\ e \in out_edges(u)
  BY <1>2 DEF out_edges
<1>4. v \in {1} \cup Own(q) /\ Follows(q, v, w) /\ f \in out_edges(v)
  BY <1>2 DEF out_edges
<1> HIDE DEF u, v
<1>5. u \in Nat /\ v \in Nat /\ (u = 1 => u \notin Own(q)) /\ \A y \in Own(q) : 1 < y
  <2>1. \A y \in Own(q) : y \in Nat /\ 1 < y
    BY Places
  <2> QED
    BY <1>3, <1>4, <2>1
<1>6. u = v
  <2>1. ~(u < v)
    <3> SUFFICES ASSUME u < v PROVE FALSE
      OBVIOUS
    <3>1. v \in Own(q)
      BY <1>3, <1>4, <1>5
    <3> QED
      BY <1>1, <1>3, <1>4, <1>5, <3>1 DEF Follows
  <2>2. ~(v < u)
    <3> SUFFICES ASSUME v < u PROVE FALSE
      OBVIOUS
    <3>1. u \in Own(q)
      BY <1>3, <1>4, <1>5
    <3> QED
      BY <1>1, <1>3, <1>4, <1>5, <3>1 DEF Follows
  <2> QED
    BY <1>5, <2>1, <2>2
<1>7. CASE u = 1
  BY <1>3, <1>4, <1>6, <1>7 DEF Chained, RootLeads
<1>8. CASE u \in Own(q)
  BY <1>1, <1>3, <1>4, <1>6, <1>8
<1> QED
  BY <1>3, <1>7, <1>8

Started(p, disc, taken) ==
  {b \in Begins(p) :
     IF b = Beginning THEN \E e \in taken : edges[e][1] = 1 /\ edges[e][2] \in Own(p)
     ELSE b \in disc}

(* The first edge to a process, the edge along it, and the edge to another. *)
OpensProcess(p) ==
  /\ Top.vertex = 1 /\ Target \in Own(p) /\ Follows(p, 1, Target)
  /\ Beginning \notin Started(p, discovered, Taken(discovered, stack))

GoesAlong(p) == Top.vertex \in Own(p) /\ Top.edge = 0 /\ Follows(p, Top.vertex, Target)

Crosses(p, q) ==
  p # q /\ Top.vertex \in Own(p) /\ Top.edge # 0 /\ Target \in Syncs(q)

LEMMA EdgeKinds ==
  ASSUME Chained, SearchOK(discovered, stack), HasEdge
  PROVE  /\ \E p, q \in Procs : OpensProcess(p) \/ GoesAlong(p) \/ Crosses(p, q)
         /\ Target \in discovered => \A p \in Procs : Target \in Own(p) => Target \in Syncs(p)
<1> DEFINE v == Top.vertex
           e == NextEdge
<1>1. /\ e \in out_edges(v) /\ e \in DOMAIN edges /\ edges[e][1] = v /\ edges[e][2] = Target
      /\ e \in Nat /\ e > Top.edge /\ Target \in DOMAIN graph
      /\ \A f \in out_edges(v) : f > Top.edge => e <= f
      /\ e \notin Taken(discovered, stack)
  BY NextEdgeFacts
<1>2. /\ v \in discovered /\ v \in DOMAIN graph /\ Top.edge \in Nat
      /\ Top.edge # 0 => Top.edge \in out_edges(v)
  BY NextEdgeFacts, TopFacts DEF SearchOK
<1> HIDE DEF v, e
<1>3. ASSUME v = 1 PROVE \E p \in Procs : OpensProcess(p)
  <2>1. PICK p \in Procs : Target \in Own(p) /\ Follows(p, 1, Target)
    BY <1>1, <1>3 DEF Chained, RootLeads
  <2>2. ASSUME NEW f \in Taken(discovered, stack), edges[f][1] = 1, edges[f][2] \in Own(p)
        PROVE  FALSE
    <3>1. f \in out_edges(1) /\ f \in DOMAIN edges
      BY <2>2 DEF Taken, out_edges
    <3>2. \E q \in Procs : edges[f][2] \in Own(q) /\ Follows(q, 1, edges[f][2])
      BY <3>1 DEF Chained, RootLeads
    <3>3. Follows(p, 1, edges[f][2])
      BY <2>2, <3>2, Places
    <3>4. edges[f][2] = Target
      BY <2>1, <3>3, FollowsOnce
    <3>5. f = e
      BY <1>1, <1>3, <3>1, <3>4 DEF Chained, RootLeads
    <3> QED
      BY <1>1, <2>2, <3>5
  <2>3. Beginning \notin Started(p, discovered, Taken(discovered, stack))
    BY <2>2 DEF Started
  <2> QED
    BY <1>3, <2>1, <2>3 DEF OpensProcess, v
<1>4. v # Len(graph)
  BY <1>1 DEF Chained
<1>5. ASSUME NEW p \in Procs, v \in Own(p)
      PROVE  GoesAlong(p) \/ \E q \in Procs : Crosses(p, q)
  <2>1. PICK k \in out_edges(v) :
          /\ Follows(p, v, edges[k][2])
          /\ \A f \in out_edges(v) :
               f # k => k < f /\ IsSync(edges[f][2]) /\ edges[f][2] \notin Own(p)
    BY <1>5 DEF Chained, ChainFirst
  <2>2. k \in Nat \ {0}
    BY Places DEF out_edges
  <2>3. CASE Top.edge = 0
    <3>1. e <= k
      BY <1>1, <2>2, <2>3
    <3>2. e = k
      BY <1>1, <2>1, <2>2, <3>1
    <3> QED
      BY <1>1, <1>5, <2>1, <2>3, <3>2 DEF GoesAlong, v
  <2>4. CASE Top.edge # 0
    <3>1. k <= Top.edge
      BY <1>2, <2>1, <2>2, <2>4
    <3>2. e # k
      BY <1>1, <1>2, <2>2, <3>1
    <3>3. IsSync(Target) /\ Target \notin Own(p)
      BY <1>1, <2>1, <3>2
    <3>4. ~IsSynthetic(Target)
      BY <3>3 DEF IsSync, IsSynthetic
    <3>5. PICK q \in Procs : Target \in Own(q)
      BY <1>1, <3>4 DEF Chained, Own
    <3>6. Target \in Syncs(q) /\ p # q
      BY <3>3, <3>5 DEF Syncs
    <3> QED
      BY <1>5, <2>4, <3>6 DEF Crosses, v
  <2> QED
    BY <2>3, <2>4
<1>6. ASSUME Target \in discovered, NEW p \in Procs, Target \in Own(p), Target \notin Syncs(p)
      PROVE  FALSE
  <2>1. Target # 1
    BY <1>6, Places
  <2>2. PICK f \in Taken(discovered, stack) : edges[f][2] = Target
    BY <1>6, <2>1 DEF SearchOK
  <2>3. f \in DOMAIN edges
    BY DEF Taken
  <2>4. f = e
    BY <1>1, <1>6, <2>2, <2>3, ByOneEdge
  <2> QED
    BY <1>1, <2>4
<1> QED
  BY <1>2, <1>3, <1>4, <1>5, <1>6, Vertices

(***************************************************************************)
(* What the callbacks do at each kind of edge.                             *)
(***************************************************************************)
LEMMA ExaminedOpening ==
  ASSUME Chained, NEW p \in Procs, OpensProcess(p)
  PROVE  LET new == create_new_set(set_map, p, StartOf(Beginning)) IN
         Examined = IF Target \in Syncs(p) THEN close(new, p, RootOf(Target), Target) ELSE new
<1>1. Target \in Own(p) /\ Top.vertex = 1
  BY DEF OpensProcess
<1>2. /\ ~IsSynthetic(Target) /\ graph[Target].proc = p
      /\ Target \in Syncs(p) <=> IsSync(Target)
  BY <1>1, Places
<1>3. IsSynthetic(1)
  BY Places DEF Chained
<1> QED
  BY <1>1, <1>2, <1>3 DEF Examined, examine_edge, StartOf, RootOf

LEMMA ExaminedAlong ==
  ASSUME Chained, NEW p \in Procs, GoesAlong(p), HasOpenSet(set_map, p)
  PROVE  Examined = IF Target \in Syncs(p) \cup {Len(graph)}
                    THEN close(set_map, p, RootOf(Target), Target) ELSE set_map
<1>1. Top.vertex \in Own(p) /\ Target \in Own(p) \cup {Len(graph)}
  BY DEF GoesAlong, Follows
<1>2. ~IsSynthetic(Top.vertex) /\ graph[Top.vertex].proc = p
  BY <1>1, Places
<1>3. CASE Target = Len(graph)
  <2>1. IsSynthetic(Target) /\ ~IsSync(Target)
    BY <1>3, Places DEF Chained, IsSynthetic, IsSync
  <2> QED
    BY <1>2, <1>3, <2>1 DEF Examined, examine_edge, RootOf
<1>4. CASE Target \in Own(p)
  <2>1. /\ ~IsSynthetic(Target) /\ graph[Target].proc = p /\ Target # Len(graph)
        /\ Target \in Syncs(p) <=> IsSync(Target)
    BY <1>4, Places
  <2> QED
    BY <1>2, <2>1 DEF Examined, examine_edge, RootOf
<1> QED
  BY <1>1, <1>3, <1>4

LEMMA ExaminedAcross ==
  ASSUME Chained, NEW p \in Procs, NEW q \in Procs, Crosses(p, q)
  PROVE  Examined = set_map
<1>1. Top.vertex \in Own(p) /\ Target \in Own(q) /\ p # q
  BY Places DEF Crosses
<1>2. /\ ~IsSynthetic(Top.vertex) /\ graph[Top.vertex].proc = p
      /\ ~IsSynthetic(Target) /\ graph[Target].proc = q
  BY <1>1, Places
<1> QED
  BY <1>1, <1>2 DEF Examined, examine_edge

LEMMA DiscoveredSync ==
  ASSUME Chained, NEW p \in Procs, NEW w \in Syncs(p), NEW sm, ~HasOpenSet(sm, p)
  PROVE  discover_vertex(sm, w) = create_new_set(sm, p, StartOf(w))
<1>1. w \in Own(p) /\ w # 0 /\ ~IsSynthetic(w) /\ graph[w].proc = p /\ IsSync(w)
  BY Places
<1> QED
  BY <1>1 DEF discover_vertex, StartOf, Beginning

LEMMA DiscoveredIo ==
  ASSUME Chained, NEW p \in Procs, NEW w \in Own(p), w \notin Syncs(p), NEW sm,
         HasOpenSet(sm, p)
  PROVE  discover_vertex(sm, w) = insert(sm, p, w)
<1>1. ~IsSynthetic(w) /\ graph[w].proc = p /\ ~IsSync(w)
  BY Places
<1> QED
  BY <1>1 DEF discover_vertex

LEMMA DiscoveredEnd ==
  ASSUME Chained, NEW sm
  PROVE  /\ discover_vertex(sm, Len(graph)) = sm
         /\ discover_vertex(sm, 1) = sm
         /\ IsSynthetic(1) /\ IsSynthetic(Len(graph))
BY Places DEF Chained, discover_vertex

-----------------------------------------------------------------------------
(***************************************************************************)
(* The invariant of the sets: the segments that were begun are there, all  *)
(* closed but one of the process in which the search stands before the     *)
(* first edge of a vertex.                                                 *)
(***************************************************************************)
OpenAt(p, st) == st # <<>> /\ Last(st).vertex \in Own(p) /\ Last(st).edge = 0

SetsOK(sm, disc, st) ==
  /\ IsMap(sm)
  /\ \A p \in Procs :
       IF OpenAt(p, st)
       THEN ListsOpen(sm[p], p, Started(p, disc, Taken(disc, st)), Last(st).vertex)
       ELSE Lists(sm[p], p, Started(p, disc, Taken(disc, st)))

StartedByEdge(p) == Started(p, discovered, Taken(discovered, stack) \cup {NextEdge})

(* An edge begins the process it opens, a discovered sync its segment. *)
LEMMA StartedGrows ==
  ASSUME Chained, SearchOK(discovered, stack), HasEdge, NEW p \in Procs
  PROVE  LET old == Started(p, discovered, Taken(discovered, stack)) IN
         /\ old \subseteq Begins(p)
         /\ StartedByEdge(p) \subseteq Begins(p)
         /\ Top.vertex = 1 /\ Target \in Own(p) => StartedByEdge(p) = old \cup {Beginning}
         /\ ~(Top.vertex = 1 /\ Target \in Own(p)) => StartedByEdge(p) = old
         /\ \A taken :
              Started(p, discovered \cup {Target}, taken)
                = Started(p, discovered, taken) \cup ({Target} \cap Syncs(p))
<1> DEFINE taken0 == Taken(discovered, stack)
           old == Started(p, discovered, taken0)
<1>1. edges[NextEdge][1] = Top.vertex /\ edges[NextEdge][2] = Target
  BY NextEdgeFacts
<1>2. Beginning \notin Syncs(p) /\ Beginning \in Begins(p) /\ Begins(p) = {Beginning} \cup Syncs(p)
  BY Places DEF Beginning, Begins
<1>3. old \subseteq Begins(p) /\ StartedByEdge(p) \subseteq Begins(p)
  BY DEF Started, StartedByEdge
<1>4. \A b \in Begins(p) : b # Beginning => (b \in StartedByEdge(p) <=> b \in old)
  BY DEF Started, StartedByEdge
<1>5. ASSUME Top.vertex = 1, Target \in Own(p) PROVE StartedByEdge(p) = old \cup {Beginning}
  <2>1. Beginning \in StartedByEdge(p)
    BY <1>1, <1>2, <1>5 DEF Started, StartedByEdge
  <2> QED
    BY <1>2, <1>3, <1>4, <2>1
<1>6. ASSUME ~(Top.vertex = 1 /\ Target \in Own(p)) PROVE StartedByEdge(p) = old
  <2>1. Beginning \in StartedByEdge(p) <=> Beginning \in old
    BY <1>1, <1>2, <1>6 DEF Started, StartedByEdge
  <2> QED
    BY <1>3, <1>4, <2>1
<1>7. ASSUME NEW taken
      PROVE  Started(p, discovered \cup {Target}, taken)
               = Started(p, discovered, taken) \cup ({Target} \cap Syncs(p))
  BY <1>2 DEF Started
<1> QED
  BY <1>3, <1>5, <1>6, <1>7

(* The sets once the next edge was examined. *)
LEMMA AfterEdge ==
  ASSUME Chained, SearchOK(discovered, stack), HasEdge, SetsOK(set_map, discovered, stack)
  PROVE  /\ IsMap(Examined)
         /\ \A p \in Procs :
              IF Target \in Own(p) \ Syncs(p)
              THEN \E v \in Nat : /\ Follows(p, v, Target)
                                  /\ ListsOpen(Examined[p], p, StartedByEdge(p), v)
              ELSE Lists(Examined[p], p, StartedByEdge(p))
<1> DEFINE old(p) == Started(p, discovered, Taken(discovered, stack))
<1>1. /\ stack # <<>> /\ Last(stack) = Top
      /\ Top.vertex \in DOMAIN graph
  BY NextEdgeFacts, TopFacts DEF Top, SearchOK
<1>2. \A p, q \in Procs : p # q => Own(p) \cap Own(q) = {}
  BY DEF Own
<1>3. /\ \A p \in Procs : old(p) \in SUBSET Begins(p) /\ StartedByEdge(p) \in SUBSET Begins(p)
      /\ \A p \in Procs : Top.vertex = 1 /\ Target \in Own(p)
                             => StartedByEdge(p) = old(p) \cup {Beginning}
      /\ \A p \in Procs : ~(Top.vertex = 1 /\ Target \in Own(p)) => StartedByEdge(p) = old(p)
  BY StartedGrows
<1>4. IsMap(set_map)
  BY DEF SetsOK
<1>5. \A p \in Procs : ~OpenAt(p, stack) => Lists(set_map[p], p, old(p))
  BY DEF SetsOK
<1>6. \A p \in Procs : OpenAt(p, stack) => ListsOpen(set_map[p], p, old(p), Top.vertex)
  BY <1>1 DEF SetsOK
<1>7. \A p \in Procs : OpenAt(p, stack) <=> (Top.vertex \in Own(p) /\ Top.edge = 0)
  BY <1>1 DEF OpenAt
<1> HIDE DEF old
<1>8. ASSUME NEW r \in Procs, OpensProcess(r)
      PROVE  /\ IsMap(Examined)
             /\ \A p \in Procs : p # r => Examined[p] = set_map[p]
             /\ Target \in Syncs(r) => Lists(Examined[r], r, StartedByEdge(r))
             /\ Target \notin Syncs(r) => \E v \in Nat : /\ Follows(r, v, Target)
                                  /\ ListsOpen(Examined[r], r, StartedByEdge(r), v)
  <2> DEFINE new == create_new_set(set_map, r, StartOf(Beginning))
             begins == StartedByEdge(r)
  <2>1. Top.vertex = 1 /\ Target \in Own(r) /\ Follows(r, 1, Target)
        /\ Beginning \notin old(r) /\ Beginning \in Begins(r)
    BY <1>8 DEF OpensProcess, old, Begins
  <2>2. Lists(set_map[r], r, old(r))
    BY <1>5, <1>7, <2>1, Places
  <2>3. begins = old(r) \cup {Beginning}
    BY <1>3, <2>1
  <2>4. /\ IsMap(new) /\ \A q \in Procs : q # r => new[q] = set_map[q]
        /\ ListsOpen(new[r], r, begins, Beginning)
    <3>1. old(r) \in SUBSET Begins(r)
      BY <1>3
    <3>2. /\ IsMap(new) /\ \A q \in Procs : q # r => new[q] = set_map[q]
          /\ ListsOpen(new[r], r, old(r) \cup {Beginning}, Beginning)
      BY <1>4, <2>1, <2>2, <3>1, Creates
    <3> QED
      BY <2>3, <3>2
  <2>5. Follows(r, 0, Target) /\ Beginning = 0
    BY <2>1, Places DEF Follows, Beginning
  <2>6. Examined = IF Target \in Syncs(r) THEN close(new, r, RootOf(Target), Target) ELSE new
    BY <1>8, ExaminedOpening
  <2>7. CASE Target \in Syncs(r)
    <3> DEFINE done == close(new, r, RootOf(Target), Target)
    <3>1. /\ IsMap(done) /\ \A q \in Procs : q # r => done[q] = new[q]
          /\ Lists(done[r], r, begins)
      <4> HIDE DEF new, begins
      <4>1. begins \in SUBSET Begins(r)
        BY <1>3 DEF begins
      <4> QED
        BY <2>4, <2>5, <2>7, <4>1, Closes
    <3> QED
      BY <2>4, <2>6, <2>7, <3>1
  <2>8. CASE Target \notin Syncs(r)
    BY <2>4, <2>5, <2>6, <2>8
  <2> QED
    BY <2>7, <2>8
<1>9. ASSUME NEW r \in Procs, GoesAlong(r)
      PROVE  /\ IsMap(Examined)
             /\ \A p \in Procs : p # r => Examined[p] = set_map[p]
             /\ Target \notin Own(r) \ Syncs(r) => Lists(Examined[r], r, StartedByEdge(r))
             /\ Target \in Own(r) \ Syncs(r) => \E v \in Nat : /\ Follows(r, v, Target)
                                  /\ ListsOpen(Examined[r], r, StartedByEdge(r), v)
  <2>1. /\ Top.vertex \in Own(r) /\ Top.edge = 0 /\ Follows(r, Top.vertex, Target)
        /\ Target \in Own(r) \cup {Len(graph)} /\ Top.vertex \in Nat /\ Top.vertex # 1
    BY <1>9, Places DEF GoesAlong, Follows
  <2>2. ListsOpen(set_map[r], r, old(r), Top.vertex)
    BY <1>6, <1>7, <2>1
  <2>3. StartedByEdge(r) = old(r)
    BY <1>3, <2>1
  <2>4. HasOpenSet(set_map, r)
    BY <2>2, OneOpen
  <2>5. Examined = IF Target \in Syncs(r) \cup {Len(graph)}
                   THEN close(set_map, r, RootOf(Target), Target) ELSE set_map
    BY <1>9, <2>4, ExaminedAlong
  <2>6. CASE Target \in Syncs(r) \cup {Len(graph)}
    <3> DEFINE done == close(set_map, r, RootOf(Target), Target)
    <3>1. /\ IsMap(done) /\ \A q \in Procs : q # r => done[q] = set_map[q]
          /\ Lists(done[r], r, old(r))
      BY <1>3, <1>4, <2>1, <2>2, <2>6, Closes
    <3>2. Target \notin Own(r) \ Syncs(r)
      BY <2>6, Places
    <3> QED
      BY <2>3, <2>5, <2>6, <3>1, <3>2
  <2>7. CASE Target \notin Syncs(r) \cup {Len(graph)}
    <3>1. Examined = set_map /\ Target \in Own(r) \ Syncs(r)
      BY <2>1, <2>5, <2>7
    <3> QED
      BY <1>4, <2>1, <2>2, <2>3, <3>1
  <2> QED
    BY <2>6, <2>7
<1>10. ASSUME NEW r \in Procs, OpensProcess(r) \/ GoesAlong(r), NEW p \in Procs, p # r
       PROVE  /\ Lists(Examined[p], p, StartedByEdge(p))
              /\ Target \notin Own(p) \ Syncs(p)
  <2>1. Target \in Own(r) \cup {Len(graph)} /\ Top.vertex \in {1} \cup Own(r)
    BY <1>10 DEF OpensProcess, GoesAlong, Follows
  <2>2. Target \notin Own(p) /\ Top.vertex \notin Own(p)
    BY <1>2, <1>10, <2>1, Places
  <2>3. StartedByEdge(p) = old(p) /\ Lists(set_map[p], p, old(p))
    BY <1>3, <1>5, <1>7, <2>2
  <2>4. Examined[p] = set_map[p]
    BY <1>8, <1>9, <1>10
  <2> QED
    BY <2>2, <2>3, <2>4
<1>11. ASSUME NEW r \in Procs, NEW q \in Procs, Crosses(r, q), NEW p \in Procs
       PROVE  /\ Examined = set_map
              /\ Lists(Examined[p], p, StartedByEdge(p))
              /\ Target \notin Own(p) \ Syncs(p)
  <2>1. /\ Examined = set_map /\ Top.edge # 0 /\ Target \in Syncs(q) /\ Top.vertex \in Own(r)
        /\ Target \in Own(q)
    BY <1>11, ExaminedAcross, Places DEF Crosses
  <2>2. Top.vertex # 1
    BY <2>1, Places
  <2>3. StartedByEdge(p) = old(p) /\ Lists(set_map[p], p, old(p))
    BY <1>3, <1>5, <1>7, <2>1, <2>2
  <2>4. Target \notin Own(p) \ Syncs(p)
    BY <1>2, <2>1
  <2> QED
    BY <2>1, <2>3, <2>4
<1>12. PICK r, q \in Procs : OpensProcess(r) \/ GoesAlong(r) \/ Crosses(r, q)
  BY EdgeKinds
<1>13. CASE OpensProcess(r)
  <2>1. Target \in Own(r)
    BY <1>13 DEF OpensProcess
  <2> QED
    BY <1>8, <1>10, <1>13, <2>1
<1>14. CASE GoesAlong(r)
  BY <1>9, <1>10, <1>14
<1>15. CASE Crosses(r, q)
  BY <1>4, <1>11, <1>15
<1> QED
  BY <1>12, <1>13, <1>14, <1>15

(* The steps of the search keep the sets. *)
LEMMA StartKeepsSets ==
  ASSUME Chained, VisitorInit
  PROVE  /\ discover_vertex(set_map, find_root) = set_map
         /\ SetsOK(set_map, {1}, <<Visiting(1)>>)
<1> DEFINE st == <<Visiting(1)>>
<1>1. find_root = 1 /\ Taken({1}, st) = {} /\ Last(st) = Visiting(1)
  BY SearchStarts
<1>2. set_map = [p \in Procs |-> <<>>]
  BY DEF VisitorInit
<1>3. ASSUME NEW p \in Procs PROVE Lists(set_map[p], p, Started(p, {1}, {}))
  <2>1. Started(p, {1}, {}) = {}
    <3>1. 1 \notin Syncs(p) /\ Begins(p) = {Beginning} \cup Syncs(p)
      BY Places DEF Begins
    <3> QED
      BY <3>1 DEF Started
  <2>2. set_map[p] = <<>>
    BY <1>2
  <2>3. IsSequence(<<>>) /\ DOMAIN <<>> = {} /\ Range(<<>>) = {}
    <3>1. <<>> \in Seq({}) /\ DOMAIN <<>> = {}
      OBVIOUS
    <3> QED
      BY <3>1, SequenceOver DEF Range
  <2> QED
    BY <2>1, <2>2, <2>3 DEF Lists
<1>4. \A p \in Procs : ~OpenAt(p, st)
  BY <1>1, Places DEF OpenAt, Visiting
<1>5. IsMap(set_map)
  BY <1>2 DEF IsMap
<1> HIDE DEF st
<1>6. SetsOK(set_map, {1}, st)
  BY <1>1, <1>3, <1>4, <1>5 DEF SetsOK
<1> QED
  BY <1>1, <1>6, DiscoveredEnd DEF st

LEMMA SkipKeepsSets ==
  ASSUME Chained, SearchOK(discovered, stack), HasEdge, SetsOK(set_map, discovered, stack),
         Target \in discovered
  PROVE  SetsOK(Examined, discovered, TakeEdge)
<1>1. Taken(discovered, TakeEdge) = Taken(discovered, stack) \cup {NextEdge}
  BY Skipped
<1>2. \A p \in Procs : ~OpenAt(p, TakeEdge)
  <2>1. Last(TakeEdge).edge = NextEdge /\ NextEdge # 0
    BY TakeEdgeFacts, NextEdgeFacts
  <2> QED
    BY <2>1 DEF OpenAt
<1>3. \A p \in Procs : Target \notin Own(p) \ Syncs(p)
  BY EdgeKinds
<1>4. IsMap(Examined) /\ \A p \in Procs : Lists(Examined[p], p, StartedByEdge(p))
  BY <1>3, AfterEdge
<1> QED
  BY <1>1, <1>2, <1>4 DEF SetsOK, StartedByEdge

LEMMA DescendKeepsSets ==
  ASSUME Chained, SearchOK(discovered, stack), HasEdge, SetsOK(set_map, discovered, stack),
         Target \notin discovered
  PROVE  SetsOK(discover_vertex(Examined, Target), discovered \cup {Target},
                Append(TakeEdge, Visiting(Target)))
<1> DEFINE st == Append(TakeEdge, Visiting(Target))
           disc == discovered \cup {Target}
           sm == discover_vertex(Examined, Target)
           begun(p) == Started(p, disc, Taken(disc, st))
<1>1. /\ st # <<>> /\ Last(st) = Visiting(Target)
      /\ Taken(disc, st) = Taken(discovered, stack) \cup {NextEdge}
  BY Descended
<1>2. Visiting(Target).vertex = Target /\ Visiting(Target).edge = 0
  BY DEF Visiting
<1>3. \A p \in Procs : OpenAt(p, st) <=> Target \in Own(p)
  BY <1>1, <1>2 DEF OpenAt
<1>4. \A p \in Procs : /\ begun(p) = StartedByEdge(p) \cup ({Target} \cap Syncs(p))
                       /\ StartedByEdge(p) \in SUBSET Begins(p)
  BY <1>1, StartedGrows DEF StartedByEdge
<1>5. IsMap(Examined) /\ \A p \in Procs :
        IF Target \in Own(p) \ Syncs(p)
        THEN \E v \in Nat : /\ Follows(p, v, Target)
                            /\ ListsOpen(Examined[p], p, StartedByEdge(p), v)
        ELSE Lists(Examined[p], p, StartedByEdge(p))
  BY AfterEdge
<1>6. \A p, q \in Procs : p # q => Own(p) \cap Own(q) = {}
  BY DEF Own
<1>7. Target \in DOMAIN graph /\ Target # 1
  BY NextEdgeFacts DEF SearchOK
<1>8. SetsOK(sm, disc, st) <=>
        /\ IsMap(sm)
        /\ \A p \in Procs : IF Target \in Own(p) THEN ListsOpen(sm[p], p, begun(p), Target)
                            ELSE Lists(sm[p], p, begun(p))
  BY <1>1, <1>2, <1>3 DEF SetsOK
<1> HIDE DEF st, disc, begun, sm
<1>9. ASSUME NEW p \in Procs, Target \notin Own(p)
      PROVE  Lists(Examined[p], p, begun(p))
  <2>1. begun(p) = StartedByEdge(p)
    BY <1>4, <1>9, Places
  <2> QED
    BY <1>5, <1>9, <2>1
<1>10. ASSUME Target = Len(graph) PROVE SetsOK(sm, disc, st)
  <2>1. sm = Examined
    BY <1>10, DiscoveredEnd DEF sm
  <2>2. \A p \in Procs : Target \notin Own(p)
    BY <1>10, Places
  <2> QED
    BY <1>5, <1>8, <1>9, <2>1, <2>2
<1>11. ASSUME NEW q \in Procs, Target \in Own(q)
       PROVE  SetsOK(sm, disc, st)
  <2>1. \A p \in Procs : p # q => Target \notin Own(p)
    BY <1>6, <1>11
  <2>2. CASE Target \in Syncs(q)
    <3>1. Lists(Examined[q], q, StartedByEdge(q))
      BY <1>5, <2>2
    <3>2. ~HasOpenSet(Examined, q)
      BY <3>1, NoneOpen
    <3>3. sm = create_new_set(Examined, q, StartOf(Target))
      BY <2>2, <3>2, DiscoveredSync DEF sm
    <3>4. Target \in Begins(q) /\ Target \notin StartedByEdge(q)
      <4>1. Target # Beginning /\ Target \notin discovered
        BY <1>11, Places DEF Beginning
      <4> QED
        BY <2>2, <4>1 DEF Begins, StartedByEdge, Started
    <3>5. begun(q) = StartedByEdge(q) \cup {Target} /\ StartedByEdge(q) \in SUBSET Begins(q)
      BY <1>4, <2>2
    <3>6. IsMap(Examined)
      BY <1>5
    <3>7. /\ IsMap(sm) /\ \A p \in Procs : p # q => sm[p] = Examined[p]
          /\ ListsOpen(sm[q], q, StartedByEdge(q) \cup {Target}, Target)
      BY <3>1, <3>3, <3>4, <3>5, <3>6, Creates, ZenonT(40)
    <3> QED
      BY <1>8, <1>9, <1>11, <2>1, <3>5, <3>7
  <2>3. CASE Target \notin Syncs(q)
    <3>1. PICK v \in Nat : /\ Follows(q, v, Target)
                           /\ ListsOpen(Examined[q], q, StartedByEdge(q), v)
      BY <1>5, <1>11, <2>3
    <3>2. HasOpenSet(Examined, q)
      BY <3>1, OneOpen
    <3>3. sm = insert(Examined, q, Target)
      BY <1>11, <2>3, <3>2, DiscoveredIo DEF sm
    <3>4. begun(q) = StartedByEdge(q) /\ StartedByEdge(q) \in SUBSET Begins(q)
      BY <1>4, <2>3
    <3>5. IsMap(Examined)
      BY <1>5
    <3>6. /\ IsMap(sm) /\ \A p \in Procs : p # q => sm[p] = Examined[p]
          /\ ListsOpen(sm[q], q, StartedByEdge(q), Target)
      BY <1>11, <2>3, <3>1, <3>3, <3>4, <3>5, Inserts
    <3> QED
      BY <1>8, <1>9, <1>11, <2>1, <3>4, <3>6
  <2> QED
    BY <2>2, <2>3
<1>12. SetsOK(sm, disc, st)
  BY <1>7, <1>10, <1>11, Vertices
<1> QED
  BY <1>12 DEF sm, disc, st

LEMMA BacktrackKeepsSets ==
  ASSUME Chained, SearchOK(discovered, stack), stack # <<>>, ~HasEdge,
         SetsOK(set_map, discovered, stack)
  PROVE  SetsOK(set_map, discovered, Front(stack))
<1>1. /\ Taken(discovered, Front(stack)) = Taken(discovered, stack)
      /\ Front(stack) # <<>> => Last(Front(stack)).edge # 0
  BY Backtracked
<1>2. \A p \in Procs : ~OpenAt(p, Front(stack))
  BY <1>1 DEF OpenAt
<1>3. \A p \in Procs : ~OpenAt(p, stack)
  <2> SUFFICES ASSUME NEW p \in Procs, Top.vertex \in Own(p), Top.edge = 0 PROVE FALSE
    BY DEF OpenAt, Top
  <2>1. PICK e \in out_edges(Top.vertex) : TRUE
    BY DEF Chained, ChainFirst
  <2>2. e \in Nat \ {0}
    BY Places DEF out_edges
  <2>3. e \in EdgesLeft
    BY <2>1, <2>2 DEF EdgesLeft
  <2> QED
    BY <2>3 DEF HasEdge
<1> QED
  BY <1>1, <1>2, <1>3 DEF SetsOK

-----------------------------------------------------------------------------
(***************************************************************************)
(* When the stack is empty, the search has met every vertex: by its first  *)
(* edge a discovered vertex led it to the next one of the process.         *)
(***************************************************************************)
LEMMA AllDiscovered ==
  ASSUME Chained, NEW disc, SearchOK(disc, <<>>), NEW p \in Procs
  PROVE  Own(p) \subseteq disc /\ Started(p, disc, Taken(disc, <<>>)) = Begins(p)
<1>1. \A e \in DOMAIN edges : edges[e][1] \in disc => e \in Taken(disc, <<>>) /\ edges[e][2] \in disc
  <2>1. \A e \in DOMAIN edges : edges[e][1] \in disc => e \in Taken(disc, <<>>)
    BY DEF Taken
  <2> QED
    BY <2>1 DEF SearchOK
<1>2. \A e \in out_edges(1) : e \in Taken(disc, <<>>) /\ edges[e][2] \in disc
                              /\ edges[e][1] = 1
  BY <1>1 DEF out_edges, SearchOK
<1>3. PICK f \in out_edges(1) : edges[f][2] \in Own(p)
  BY DEF Chained, RootLeads
<1>4. Follows(p, 1, edges[f][2]) /\ edges[f][2] \in disc
  <2>1. \E q \in Procs : edges[f][2] \in Own(q) /\ Follows(q, 1, edges[f][2])
    BY DEF Chained, RootLeads
  <2> QED
    BY <1>2, <1>3, <2>1, Places
<1>5. Own(p) \subseteq disc
  <2> SUFFICES ASSUME Own(p) \ disc # {} PROVE FALSE
    OBVIOUS
  <2>1. /\ Own(p) \ disc \in SUBSET Nat
        /\ \A v \in Own(p) : 1 < v /\ v \in Nat /\ v < Len(graph) /\ v \in DOMAIN graph
        /\ Len(graph) \in Nat
    BY Places
  <2>2. PICK w \in Own(p) \ disc : \A y \in Own(p) \ disc : w <= y
    BY <2>1, LeastNat
  <2> DEFINE before == {v \in Own(p) : v < w}
  <2>3. edges[f][2] \in before
    <3>1. edges[f][2] <= w /\ edges[f][2] # w
      BY <1>3, <1>4, <2>1, <2>2 DEF Follows
    <3> QED
      BY <1>3, <2>1, <2>2, <3>1
  <2>4. PICK v \in before : \A y \in before : y <= v
    <3> DEFINE flipped == {w - y : y \in before}
    <3>1. flipped \in SUBSET Nat /\ flipped # {}
      BY <2>1, <2>2, <2>3
    <3>2. PICK d \in flipped : \A y \in flipped : d <= y
      <4> HIDE DEF flipped
      <4> QED BY <3>1, LeastNat
    <3>3. PICK v \in before : d = w - v
      BY <3>2
    <3>4. \A y \in before : y <= v
      <4> SUFFICES ASSUME NEW y \in before PROVE y <= v
        OBVIOUS
      <4>1. d <= w - y
        BY <3>2
      <4>2. y \in Nat /\ v \in Nat /\ w \in Nat
        BY <2>1
      <4> QED
        BY <3>3, <4>1, <4>2
    <3> QED
      BY <3>4
  <2>5. v \in Own(p) /\ v \in disc /\ v < w
    BY <2>1, <2>2, <2>4
  <2>6. PICK e \in out_edges(v) : Follows(p, v, edges[e][2])
    BY <2>5 DEF Chained, ChainFirst
  <2>7. edges[e][2] \in disc
    BY <1>1, <2>5, <2>6 DEF out_edges
  <2>8. edges[e][2] <= w /\ v < edges[e][2] /\ edges[e][2] \in Own(p) \cup {Len(graph)}
    BY <2>2, <2>5, <2>6 DEF Follows
  <2>9. edges[e][2] # w /\ edges[e][2] \in Nat
    BY <2>1, <2>2, <2>7, <2>8
  <2>10. edges[e][2] < w
    BY <2>1, <2>2, <2>8, <2>9
  <2>11. edges[e][2] \in before
    BY <2>1, <2>2, <2>8, <2>10
  <2> QED
    BY <2>1, <2>4, <2>5, <2>8, <2>9, <2>11
<1>6. Started(p, disc, Taken(disc, <<>>)) = Begins(p)
  <2>1. Syncs(p) \subseteq disc /\ Begins(p) = {Beginning} \cup Syncs(p)
    BY <1>5, Places DEF Begins
  <2> QED
    BY <1>2, <1>3, <2>1 DEF Started
<1> QED
  BY <1>5, <1>6

(***************************************************************************)
(* Sorting                                                                 *)
(***************************************************************************)
LEMMA Sorted ==
  ASSUME Chained, NEW p \in Procs, NEW begins, NEW s, Lists(s, p, begins), NEW t \in ChronoSorted(s)
  PROVE  /\ Lists(t, p, begins) /\ Len(t) = Len(s) /\ DOMAIN t = DOMAIN s
         /\ \A i, j \in DOMAIN t : i < j => Time(t[i].origin) <= Time(t[j].origin)
<1>1. Len(s) \in Nat /\ DOMAIN s = 1 .. Len(s)
  BY SequenceFacts DEF Lists
<1>2. PICK order \in SetToSeqs(DOMAIN s) : t = [i \in DOMAIN s |-> s[order[i]]]
  BY DEF ChronoSorted
<1>3. /\ order \in [1 .. Len(s) -> 1 .. Len(s)]
      /\ \A i \in 1 .. Len(s) : \E j \in 1 .. Len(s) : order[j] = i
      /\ \A i, j \in 1 .. Len(s) : order[i] = order[j] => i = j
  <2> DEFINE n == Len(s)
             D == 1 .. n
  <2>1. n \in Nat /\ DOMAIN s = D
    BY <1>1
  <2> HIDE DEF n
  <2>2. Cardinality(D) = n /\ IsFiniteSet(D)
    <3>1. 1 \in Int /\ n \in Int
      BY <2>1
    <3>2. Cardinality(D) = IF 1 > n THEN 0 ELSE n - 1 + 1
      BY <3>1, FS_Interval
    <3>3. IsFiniteSet(D)
      BY <3>1, FS_Interval
    <3> QED
      BY <2>1, <3>2, <3>3
  <2>3. order \in [D -> D] /\ \A i, j \in D : i # j => order[i] # order[j]
    <3> HIDE DEF D
    <3>1. order \in SetToSeqs(D) /\ D = 1 .. Cardinality(D)
      BY <1>2, <2>1, <2>2 DEF D
    <3> QED
      BY <3>1 DEF SetToSeqs
  <2>4. order \in Injection(D, D)
    BY <2>3 DEF Injection, IsInjective
  <2>5. order \in Surjection(D, D)
    BY <2>2, <2>4, FS_Injection
  <2>6. \A i \in D : \E j \in D : order[j] = i
    BY <2>5 DEF Surjection
  <2> QED
    BY <2>3, <2>6 DEF n
<1>4. DOMAIN t = 1 .. Len(s) /\ \A i \in 1 .. Len(s) : t[i] = s[order[i]]
  BY <1>1, <1>2
<1>5. Range(t) = Range(s)
  BY <1>1, <1>3, <1>4 DEF Range
<1>6. t \in Seq(Range(s))
  <2>1. t \in [1 .. Len(s) -> Range(s)]
    BY <1>1, <1>2, <1>3 DEF Range
  <2> QED
    BY <1>1, <2>1, SeqDef
<1>7. IsSequence(t) /\ Len(t) = Len(s)
  <2>1. Len(t) \in Nat /\ DOMAIN t = 1 .. Len(t)
    BY <1>6, LenProperties
  <2> QED
    BY <1>1, <1>4, <1>6, <2>1, SequenceOver, SameLength
<1>8. \A i, j \in DOMAIN t : t[i] = t[j] => i = j
  <2>1. \A i, j \in 1 .. Len(s) : s[i] = s[j] => i = j
    BY <1>1 DEF Lists
  <2>2. \A i \in 1 .. Len(s) : order[i] \in 1 .. Len(s)
    BY <1>3
  <2>3. ASSUME NEW i \in 1 .. Len(s), NEW j \in 1 .. Len(s), t[i] = t[j] PROVE i = j
    <3>1. order[i] = order[j]
      BY <1>4, <2>1, <2>2, <2>3
    <3> QED
      BY <1>3, <3>1
  <2> QED
    BY <1>4, <2>3
<1>9. \A i, j \in DOMAIN t : i < j => Time(t[i].origin) <= Time(t[j].origin)
  BY DEF ChronoSorted
<1> QED
  BY <1>1, <1>4, <1>5, <1>7, <1>8, <1>9 DEF Lists

LEMMA ListedOnce ==
  ASSUME Chained, NEW p \in Procs, NEW s, Lists(s, p, Begins(p))
  PROVE  Len(s) = Cardinality(Begins(p))
<1>1. Len(s) \in Nat /\ DOMAIN s = 1 .. Len(s)
  BY SequenceFacts DEF Lists
<1> DEFINE f == [i \in 1 .. Len(s) |-> CHOOSE b \in Begins(p) : s[i] = Segment(p, b)]
<1>2. \A i \in 1 .. Len(s) : f[i] \in Begins(p) /\ s[i] = Segment(p, f[i])
  <2> SUFFICES ASSUME NEW i \in 1 .. Len(s) PROVE \E b \in Begins(p) : s[i] = Segment(p, b)
    OBVIOUS
  <2>1. s[i] \in Range(s)
    BY <1>1 DEF Range
  <2> QED
    BY <2>1 DEF Lists
<1>3. f \in [1 .. Len(s) -> Begins(p)]
  BY <1>2
<1> HIDE DEF f
<1>4. \A i, j \in 1 .. Len(s) : f[i] = f[j] => i = j
  BY <1>1, <1>2 DEF Lists
<1>5. \A b \in Begins(p) : \E i \in 1 .. Len(s) : f[i] = b
  <2> SUFFICES ASSUME NEW b \in Begins(p) PROVE \E i \in 1 .. Len(s) : f[i] = b
    OBVIOUS
  <2>1. Segment(p, b) \in Range(s)
    BY DEF Lists
  <2>2. PICK i \in 1 .. Len(s) : s[i] = Segment(p, b)
    BY <1>1, <2>1 DEF Range
  <2>3. Segment(p, f[i]) = Segment(p, b) /\ f[i] \in Begins(p)
    BY <1>2, <2>2
  <2>4. Closing(p, f[i]) = Closing(p, b)
    BY <2>3 DEF Segment
  <2> QED
    BY <2>3, <2>4, SegmentsDiffer
<1>6. f \in Bijection(1 .. Len(s), Begins(p))
  BY <1>3, <1>4, <1>5 DEF Bijection, Injection, Surjection, IsInjective
<1>7. ExistsBijection(1 .. Len(s), Begins(p))
  BY <1>6 DEF ExistsBijection
<1>8. Cardinality(Begins(p)) = Len(s)
  BY <1>1, <1>7, FS_NatBijection, FS_CountingElements
<1> QED
  BY <1>8

-----------------------------------------------------------------------------
(***************************************************************************)
(* The inductive invariant                                                 *)
(***************************************************************************)
SortedByTime(s) == \A i, j \in DOMAIN s : i < j => Time(s[i].origin) <= Time(s[j].origin)

VisitorInv ==
  /\ visit = "idle" => VisitorInit
  /\ visit = "searching" => SearchOK(discovered, stack) /\ SetsOK(set_map, discovered, stack)
  /\ visit = "done" =>
       \A p \in Procs : Lists(set_map[p], p, Begins(p)) /\ SortedByTime(set_map[p])

(* Neither the graph nor what is said of it changes. *)
LEMMA SameGraph ==
  ASSUME UNCHANGED <<graph, edges>>
  PROVE  /\ \A v : /\ IsSync(v)' <=> IsSync(v)
                   /\ IsSynthetic(v)' <=> IsSynthetic(v)
                   /\ RootOf(v)' = RootOf(v) /\ StartOf(v)' = StartOf(v)
                   /\ out_edges(v)' = out_edges(v) /\ Time(v)' = Time(v)
         /\ \A p : Own(p)' = Own(p) /\ Syncs(p)' = Syncs(p) /\ Begins(p)' = Begins(p)
         /\ \A p, b : Segment(p, b)' = Segment(p, b)
<1>1. \A v : /\ IsSync(v)' <=> IsSync(v)
             /\ IsSynthetic(v)' <=> IsSynthetic(v)
             /\ Root(v)' = Root(v)
  BY DEF IsSync, IsSynthetic, Root
<1>2. \A v : RootOf(v)' = RootOf(v) /\ StartOf(v)' = StartOf(v)
  BY <1>1 DEF RootOf, StartOf
<1>3. \A v : out_edges(v)' = out_edges(v)
  BY DEF out_edges
<1>4. \A v : Time(v)' = Time(v)
  BY <1>1 DEF Time
<1>5. \A p : Own(p)' = Own(p)
  BY <1>1 DEF Own
<1>6. \A p : Syncs(p)' = Syncs(p)
  BY <1>1, <1>5 DEF Syncs
<1>7. \A p : Begins(p)' = Begins(p)
  BY <1>6 DEF Begins
<1>8. \A p, b : Closing(p, b)' = Closing(p, b)
  BY <1>6 DEF Closing
<1>9. ASSUME NEW p, NEW b PROVE Segment(p, b)' = Segment(p, b)
  <2>1. /\ Closing(p, b)' = Closing(p, b) /\ Own(p)' = Own(p) /\ Syncs(p)' = Syncs(p)
        /\ RootOf(Closing(p, b))' = RootOf(Closing(p, b))
        /\ StartOf(b)' = StartOf(b)
    BY <1>1, <1>2, <1>5, <1>6, <1>8 DEF RootOf
  <2>2. Segment(p, b) = [start |-> StartOf(b), state |-> "Close",
           end |-> RootOf(Closing(p, b)), origin |-> Closing(p, b),
           events |-> {v \in Own(p) \ Syncs(p) : b < v /\ v < Closing(p, b)}]
    BY DEF Segment, StartOf
  <2>3. Segment(p, b)' = [start |-> StartOf(b)', state |-> "Close",
           end |-> RootOf(Closing(p, b))', origin |-> Closing(p, b)',
           events |-> {v \in Own(p)' \ Syncs(p)' : b < v /\ v < Closing(p, b)'}]
    BY DEF Segment, StartOf
  <2> QED
    BY <2>1, <2>2, <2>3
<1> QED
  BY <1>1, <1>2, <1>3, <1>4, <1>5, <1>6, <1>7, <1>9

LEMMA SameSearch ==
  ASSUME UNCHANGED <<graph, edges>>
  PROVE  /\ Chained => Chained'
         /\ SearchOK(discovered', stack') => SearchOK(discovered, stack)'
         /\ SetsOK(set_map', discovered', stack') => SetsOK(set_map, discovered, stack)'
         /\ \A p : Lists(set_map'[p], p, Begins(p)) => Lists(set_map[p], p, Begins(p))'
         /\ \A p : SortedByTime(set_map'[p]) => SortedByTime(set_map[p])'
<1>1. /\ \A v : /\ IsSync(v)' <=> IsSync(v)
                /\ IsSynthetic(v)' <=> IsSynthetic(v)
                /\ RootOf(v)' = RootOf(v) /\ StartOf(v)' = StartOf(v)
                /\ out_edges(v)' = out_edges(v) /\ Time(v)' = Time(v)
      /\ \A p : Own(p)' = Own(p) /\ Syncs(p)' = Syncs(p) /\ Begins(p)' = Begins(p)
      /\ \A p, b : Segment(p, b)' = Segment(p, b)
  BY SameGraph
<1>2. \A p, v, w : Follows(p, v, w)' <=> Follows(p, v, w)
  BY <1>1 DEF Follows
<1>3. \A p, v : ChainFirst(p, v)' <=> ChainFirst(p, v)
  BY <1>1, <1>2 DEF ChainFirst
<1>4. RootLeads' <=> RootLeads
  BY <1>1, <1>2 DEF RootLeads
<1>5. out_edges(Len(graph))' = out_edges(Len(graph))
  BY DEF out_edges
<1>6. Chained => Chained'
  BY <1>1, <1>3, <1>4, <1>5 DEF Chained
<1>7. Taken(discovered, stack)' = Taken(discovered', stack')
  BY DEF Taken
<1>8. SearchOK(discovered', stack') => SearchOK(discovered, stack)'
  BY <1>1, <1>7 DEF SearchOK
<1>9. \A p : Started(p, discovered, Taken(discovered, stack))'
             = Started(p, discovered', Taken(discovered', stack'))
  BY <1>1, <1>7 DEF Started
<1>10. \A p, b, v : /\ OpenSegment(p, b, v)' = OpenSegment(p, b, v)
                    /\ IsBegin(p, b, v)' <=> IsBegin(p, b, v)
  BY <1>1 DEF OpenSegment, IsBegin
<1>11. \A t, p, begins : Lists(t, p, begins)' <=> Lists(t, p, begins)
  BY <1>1 DEF Lists
<1>12. \A t, p, begins, v : ListsOpen(t, p, begins, v)' <=> ListsOpen(t, p, begins, v)
  BY <1>1, <1>10, <1>11 DEF ListsOpen
<1>13. \A p : OpenAt(p, stack)' <=> OpenAt(p, stack')
  BY <1>1 DEF OpenAt
<1>14. \A p : Lists(set_map'[p], p, Begins(p)) => Lists(set_map[p], p, Begins(p))'
  BY <1>1 DEF Lists
<1>15. \A p : SortedByTime(set_map'[p]) => SortedByTime(set_map[p])'
  BY <1>1 DEF SortedByTime, Time, IsSynthetic
<1>16. SetsOK(set_map', discovered', stack') => SetsOK(set_map, discovered, stack)'
  <2> SUFFICES ASSUME SetsOK(set_map', discovered', stack')
               PROVE  SetsOK(set_map, discovered, stack)'
    OBVIOUS
  <2> QED
    BY <1>9, <1>11, <1>12, <1>13 DEF SetsOK, IsMap
<1> QED
  BY <1>6, <1>8, <1>14, <1>15, <1>16

LEMMA VisitStep ==
  ASSUME Chained, VisitorInv, VisitNext
  PROVE  VisitorInv'
<1>1. CASE StartVisit
  <2>1. /\ VisitorInit /\ find_root = 1 /\ SearchOK({1}, <<Visiting(1)>>)
        /\ SetsOK(set_map, {1}, <<Visiting(1)>>)
        /\ discover_vertex(set_map, find_root) = set_map
    BY <1>1, SearchStarts, StartKeepsSets DEF StartVisit, VisitorInv
  <2>2. /\ SearchOK(discovered', stack') /\ SetsOK(set_map', discovered', stack')
        /\ UNCHANGED <<graph, edges>> /\ visit' = "searching"
    BY <1>1, <2>1 DEF StartVisit
  <2>3. SearchOK(discovered, stack)' /\ SetsOK(set_map, discovered, stack)'
    BY <2>2, SameSearch
  <2> QED
    BY <2>2, <2>3 DEF VisitorInv
<1>2. ASSUME AbortVisit PROVE VisitorInv'
  BY <1>2 DEF AbortVisit, VisitorInv
<1>3. CASE Descend
  <2>1. /\ visit = "searching" /\ HasEdge /\ Target \notin discovered
        /\ SearchOK(discovered, stack) /\ SetsOK(set_map, discovered, stack)
    BY <1>3 DEF Descend, VisitorInv
  <2>2. /\ SearchOK(discovered \cup {Target}, Append(TakeEdge, Visiting(Target)))
        /\ SetsOK(discover_vertex(Examined, Target), discovered \cup {Target},
                  Append(TakeEdge, Visiting(Target)))
    BY <2>1, Descended, DescendKeepsSets
  <2>3. CASE /\ stack' = Append(TakeEdge, Visiting(Target))
             /\ discovered' = discovered \cup {Target}
             /\ set_map' = discover_vertex(Examined, Target)
             /\ UNCHANGED <<graph, edges, visit>>
    <3>1. SearchOK(discovered', stack') /\ SetsOK(set_map', discovered', stack')
      BY <2>2, <2>3
    <3>2. SearchOK(discovered, stack)' /\ SetsOK(set_map, discovered, stack)'
      BY <2>3, <3>1, SameSearch
    <3> QED
      BY <2>1, <2>3, <3>2 DEF VisitorInv
  <2> QED
    BY <1>2, <1>3, <2>3 DEF Descend
<1>4. CASE SkipEdge
  <2>1. /\ visit = "searching" /\ HasEdge /\ Target \in discovered
        /\ SearchOK(discovered, stack) /\ SetsOK(set_map, discovered, stack)
    BY <1>4 DEF SkipEdge, VisitorInv
  <2>2. SearchOK(discovered, TakeEdge) /\ SetsOK(Examined, discovered, TakeEdge)
    BY <2>1, Skipped, SkipKeepsSets
  <2>3. CASE stack' = TakeEdge /\ set_map' = Examined /\ UNCHANGED <<graph, edges, discovered, visit>>
    <3>1. SearchOK(discovered', stack') /\ SetsOK(set_map', discovered', stack')
      BY <2>2, <2>3
    <3>2. SearchOK(discovered, stack)' /\ SetsOK(set_map, discovered, stack)'
      BY <2>3, <3>1, SameSearch
    <3> QED
      BY <2>1, <2>3, <3>2 DEF VisitorInv
  <2> QED
    BY <1>2, <1>4, <2>3 DEF SkipEdge
<1>5. CASE Backtrack
  <2>1. /\ visit = "searching" /\ stack # <<>> /\ ~HasEdge
        /\ SearchOK(discovered, stack) /\ SetsOK(set_map, discovered, stack)
        /\ stack' = Front(stack) /\ UNCHANGED <<graph, edges, discovered, set_map, visit>>
    BY <1>5 DEF Backtrack, VisitorInv
  <2>2. SearchOK(discovered, Front(stack)) /\ SetsOK(set_map, discovered, Front(stack))
    BY <2>1, Backtracked, BacktrackKeepsSets
  <2>3. SearchOK(discovered', stack') /\ SetsOK(set_map', discovered', stack')
    BY <2>1, <2>2
  <2>4. SearchOK(discovered, stack)' /\ SetsOK(set_map, discovered, stack)'
    BY <2>1, <2>3, SameSearch
  <2> QED
    BY <2>1, <2>4 DEF VisitorInv
<1>6. CASE SortSets
  <2>1. /\ visit = "searching" /\ stack = <<>>
        /\ SearchOK(discovered, stack) /\ SetsOK(set_map, discovered, stack)
    BY <1>6 DEF SortSets, VisitorInv
  <2>2. ASSUME NEW p \in Procs PROVE Lists(set_map[p], p, Begins(p))
    <3>1. ~OpenAt(p, stack)
      BY <2>1 DEF OpenAt
    <3>2. Lists(set_map[p], p, Started(p, discovered, Taken(discovered, stack)))
      BY <2>1, <3>1 DEF SetsOK
    <3>3. SearchOK(discovered, <<>>) /\ Taken(discovered, stack) = Taken(discovered, <<>>)
      BY <2>1
    <3> QED
      BY <3>2, <3>3, AllDiscovered
  <2>3. CASE /\ \A p \in Procs : set_map'[p] \in ChronoSorted(set_map[p])
             /\ visit' = "done" /\ UNCHANGED <<graph, edges, discovered, stack>>
    <3>1. ASSUME NEW p \in Procs
          PROVE  Lists(set_map'[p], p, Begins(p)) /\ SortedByTime(set_map'[p])
      <4>1. set_map'[p] \in ChronoSorted(set_map[p])
        BY <2>3
      <4>2. Lists(set_map'[p], p, Begins(p))
        BY <2>2, <4>1, Sorted
      <4>3. SortedByTime(set_map'[p])
        BY <2>2, <4>1, Sorted DEF SortedByTime
      <4> QED
        BY <4>2, <4>3
    <3>2. \A p \in Procs : Lists(set_map[p], p, Begins(p))' /\ SortedByTime(set_map[p])'
      BY <2>3, <3>1, SameSearch
    <3> QED
      BY <2>3, <3>2 DEF VisitorInv
  <2> QED
    BY <1>2, <1>6, <2>3 DEF SortSets
<1> QED
  BY <1>1, <1>3, <1>4, <1>5, <1>6 DEF VisitNext

LEMMA VisitStutter ==
  ASSUME VisitorInv, UNCHANGED visitor_vars
  PROVE  VisitorInv'
<1>1. UNCHANGED <<graph, edges>> /\ set_map' = set_map /\ stack' = stack
      /\ discovered' = discovered /\ visit' = visit
  BY DEF visitor_vars
<1>2. CASE visit = "idle"
  BY <1>1, <1>2 DEF VisitorInv, VisitorInit
<1>3. CASE visit = "searching"
  <2>1. SearchOK(discovered', stack') /\ SetsOK(set_map', discovered', stack')
    BY <1>1, <1>3 DEF VisitorInv
  <2>2. SearchOK(discovered, stack)' /\ SetsOK(set_map, discovered, stack)'
    BY <1>1, <2>1, SameSearch
  <2> QED
    BY <1>1, <1>3, <2>2 DEF VisitorInv
<1>4. CASE visit = "done"
  <2>1. \A p \in Procs : Lists(set_map'[p], p, Begins(p)) /\ SortedByTime(set_map'[p])
    BY <1>1, <1>4 DEF VisitorInv
  <2>2. \A p \in Procs : Lists(set_map[p], p, Begins(p))' /\ SortedByTime(set_map[p])'
    BY <1>1, <2>1, SameSearch
  <2> QED
    BY <1>1, <1>4, <2>2 DEF VisitorInv
<1> QED
  BY <1>1, <1>2, <1>3, <1>4 DEF VisitorInv

-----------------------------------------------------------------------------
(***************************************************************************)
(* What the invariant gives                                                *)
(***************************************************************************)
LEMMA InvOneOpen ==
  ASSUME Chained, VisitorInv
  PROVE  OneOpenSet
<1> SUFFICES ASSUME visit = "searching", NEW x \in OpenSets
             PROVE  /\ OpenSets = {x} /\ x[2] = Len(set_map[x[1]])
                    /\ stack # <<>> /\ ~IsSynthetic(Top.vertex) /\ graph[Top.vertex].proc = x[1]
  BY DEF OneOpenSet
<1>1. SetsOK(set_map, discovered, stack)
  BY DEF VisitorInv
<1>2. ASSUME NEW y \in OpenSets
      PROVE  /\ y[1] \in Procs /\ y = <<y[1], y[2]>>
             /\ y[2] = Len(set_map[y[1]])
             /\ stack # <<>> /\ Top.vertex \in Own(y[1])
  <2>1. PICK p \in Procs : y \in {p} \X DOMAIN set_map[p]
    BY DEF OpenSets
  <2>2. y[1] = p /\ y[2] \in DOMAIN set_map[p] /\ y = <<y[1], y[2]>>
    BY <2>1
  <2>3. set_map[p][y[2]].state = "Open"
    BY <2>2 DEF OpenSets
  <2>4. OpenAt(p, stack)
    <3> SUFFICES ASSUME ~OpenAt(p, stack) PROVE FALSE
      OBVIOUS
    <3>1. Lists(set_map[p], p, Started(p, discovered, Taken(discovered, stack)))
      BY <1>1 DEF SetsOK
    <3>2. \A i \in DOMAIN set_map[p] : set_map[p][i].state = "Close"
      BY <3>1, NoneOpen
    <3> QED
      BY <2>2, <2>3, <3>2
  <2>5. ListsOpen(set_map[p], p, Started(p, discovered, Taken(discovered, stack)),
                  Last(stack).vertex)
    BY <1>1, <2>4 DEF SetsOK
  <2>6. y[2] = Len(set_map[p])
    BY <2>2, <2>3, <2>5, OneOpen
  <2> QED
    BY <2>2, <2>4, <2>6 DEF OpenAt, Top
<1>3. ASSUME NEW y \in OpenSets PROVE y = x
  <2>1. y[1] = x[1]
    BY <1>2 DEF Own
  <2> QED
    BY <1>2, <2>1
<1> QED
  BY <1>2, <1>3, Places

LEMMA InvSegments ==
  ASSUME Chained, VisitorInv
  PROVE  SegmentsFound
<1> SUFFICES ASSUME visit = "done", NEW p \in Procs
             PROVE  /\ Range(set_map[p]) = {Segment(p, b) : b \in Begins(p)}
                    /\ Len(set_map[p]) = Cardinality(Begins(p))
  BY DEF SegmentsFound
<1>1. Lists(set_map[p], p, Begins(p))
  BY DEF VisitorInv
<1> QED
  BY <1>1, ListedOnce DEF Lists

LEMMA TimeIs ==
  ASSUME Chained
  PROVE  /\ Time(Len(graph)) = Len(graph)
         /\ \A p : \A u \in Syncs(p) : Time(u) = u \div Resolution
<1>1. Len(graph) # 1
  <2> DEFINE n == Len(graph)
  <2>1. n \in Nat /\ 1 < n
    BY Places DEF Chained
  <2> HIDE DEF n
  <2>2. n # 1
    BY <2>1
  <2> QED
    BY <2>2 DEF n
<1>2. ASSUME NEW p, NEW u \in Syncs(p) PROVE u # 1 /\ ~IsSynthetic(u)
  BY Places
<1>3. IsSynthetic(Len(graph))
  BY Places DEF Chained
<1> QED
  BY <1>1, <1>2, <1>3, Zenon DEF Time

LEMMA TimeAscends ==
  ASSUME Chained, Resolution \in Nat \ {0}, NEW p \in Procs,
         NEW v \in Syncs(p) \cup {Len(graph)}, NEW w \in Syncs(p) \cup {Len(graph)},
         v < w, Time(w) <= Time(v)
  PROVE  v \in Syncs(p) /\ w \in Syncs(p) /\ Time(v) = Time(w)
<1>1. /\ Len(graph) \in Nat /\ 1 < Len(graph) /\ IsSynthetic(Len(graph))
      /\ \A u \in Syncs(p) : u \in Nat /\ 1 < u /\ u < Len(graph) /\ ~IsSynthetic(u)
  BY Places DEF Chained
<1>2. /\ Time(Len(graph)) = Len(graph)
      /\ \A u \in Syncs(p) : Time(u) = u \div Resolution
  BY TimeIs
<1>3. \A u \in Nat : /\ u % Resolution \in 0 .. Resolution - 1
                     /\ u = Resolution * (u \div Resolution) + (u % Resolution)
                     /\ u \div Resolution \in Int
  BY Remainder
<1>4. v \in Syncs(p)
  BY <1>1
<1> DEFINE n == Resolution
           a == v \div n
           r == v % n
<1>5. v = n * a + r /\ r \in 0 .. n - 1 /\ a \in Int /\ n \in Nat \ {0} /\ v \in Nat
  BY <1>1, <1>3, <1>4
<1>6. CASE w = Len(graph)
  <2>1. Time(v) = a /\ Time(w) = w /\ w \in Nat
    BY <1>1, <1>2, <1>4, <1>6
  <2> HIDE DEF n, a, r
  <2>2. a <= v
    <3>1. CASE a <= 0
      BY <1>5, <3>1
    <3>2. CASE a > 0
      <4>1. n * a >= a
        BY <1>5, <3>2
      <4> QED
        BY <1>5, <4>1
    <3> QED
      BY <1>5, <3>1, <3>2
  <2> QED
    BY <1>5, <2>1, <2>2
<1>7. CASE w \in Syncs(p)
  <2> DEFINE b == w \div n
             s == w % n
  <2>1. w = n * b + s /\ s \in 0 .. n - 1 /\ b \in Int /\ w \in Nat
    BY <1>1, <1>3, <1>7
  <2>2. Time(v) = a /\ Time(w) = b
    BY <1>2, <1>4, <1>7
  <2> HIDE DEF n, a, r, b, s
  <2>3. ~(b < a)
    <3> SUFFICES ASSUME b < a PROVE FALSE
      OBVIOUS
    <3>1. a >= b + 1
      BY <1>5, <2>1
    <3>2. n * a >= n * (b + 1)
      BY <1>5, <2>1, <3>1
    <3>3. n * (b + 1) = n * b + n
      BY <1>5, <2>1
    <3> QED
      BY <1>5, <2>1, <3>2, <3>3
  <2> QED
    BY <1>4, <1>5, <1>7, <2>1, <2>2, <2>3
<1> QED
  BY <1>6, <1>7

LEMMA InvChronological ==
  ASSUME Chained, VisitorInv, Resolution \in Nat \ {0}
  PROVE  Chronological
<1> SUFFICES ASSUME visit = "done", NEW p \in Procs, DistinctTimes(p),
                    NEW i \in DOMAIN set_map[p], NEW j \in DOMAIN set_map[p], i < j
             PROVE  set_map[p][i].origin < set_map[p][j].origin
  BY DEF Chronological
<1> DEFINE s == set_map[p]
<1>1. Lists(s, p, Begins(p)) /\ SortedByTime(s)
  BY DEF VisitorInv
<1>2. i \in Nat /\ j \in Nat /\ s[i] \in Range(s) /\ s[j] \in Range(s)
  <2>1. Len(s) \in Nat /\ DOMAIN s = 1 .. Len(s) /\ \A k \in DOMAIN s : s[k] \in Range(s)
    BY <1>1, SequenceFacts DEF Lists
  <2> QED
    BY <2>1
<1>3. PICK b, c \in Begins(p) : s[i] = Segment(p, b) /\ s[j] = Segment(p, c)
  BY <1>1, <1>2 DEF Lists
<1> DEFINE x == Closing(p, b)
           y == Closing(p, c)
<1>4. s[i].origin = x /\ s[j].origin = y
  BY <1>3 DEF Segment
<1>5. x \in Syncs(p) \cup {Len(graph)} /\ y \in Syncs(p) \cup {Len(graph)}
  BY ClosingFacts
<1>6. x \in Nat /\ y \in Nat
  BY <1>5, Places
<1>7. x # y
  <2>1. s[i] # s[j]
    BY <1>1, <1>2 DEF Lists
  <2> QED
    BY <1>3, <2>1, SegmentsDiffer
<1>8. Time(x) <= Time(y)
  BY <1>1, <1>4 DEF SortedByTime
<1> HIDE DEF x, y, s
<1>9. ~(y < x)
  <2> SUFFICES ASSUME y < x PROVE FALSE
    OBVIOUS
  <2>1. x \in Syncs(p) /\ y \in Syncs(p) /\ Time(y) = Time(x)
    BY <1>5, <1>8, TimeAscends
  <2> QED
    BY <1>7, <2>1 DEF DistinctTimes
<1> QED
  BY <1>4, <1>6, <1>7, <1>9 DEF s
-----------------------------------------------------------------------------
(***************************************************************************)
(* The assertions of the callbacks fail for one reason only, a             *)
(* synchronisation without root event; a search that gets to its end has   *)
(* met every synchronisation, and found that it has one.                   *)
(***************************************************************************)
HasRoot(v) == IsSync(v) => Root(v) # Unset

RootsMet ==
  /\ visit = "searching" => \A v \in discovered : HasRoot(v)
  /\ visit = "done" => \A v \in DOMAIN graph : HasRoot(v)
  /\ visit = "aborted" => \E v \in DOMAIN graph : ~HasRoot(v)

LEMMA SortsWhatClosed ==
  ASSUME Chained, VisitorInv, visit = "searching", stack = <<>>
  PROVE  /\ \A p \in Procs : \A i \in DOMAIN set_map[p] : set_map[p][i].origin # Unset
         /\ \A v \in DOMAIN graph : IsSync(v) => v \in discovered
<1>1. SearchOK(discovered, <<>>) /\ SetsOK(set_map, discovered, stack)
  BY DEF VisitorInv
<1>2. ASSUME NEW p \in Procs, NEW i \in DOMAIN set_map[p]
      PROVE  set_map[p][i].origin # Unset
  <2>1. Lists(set_map[p], p, Started(p, discovered, Taken(discovered, stack)))
    BY <1>1 DEF SetsOK, OpenAt
  <2>2. Lists(set_map[p], p, Begins(p))
    BY <1>1, <2>1, AllDiscovered
  <2>3. set_map[p][i] \in Range(set_map[p])
    BY DEF Range
  <2>4. PICK b \in Begins(p) : set_map[p][i] = Segment(p, b)
    BY <2>2, <2>3 DEF Lists
  <2>5. set_map[p][i].origin = Closing(p, b)
    BY <2>4 DEF Segment
  <2>6. /\ b \in Nat /\ b < Closing(p, b)
        /\ Closing(p, b) \in Syncs(p) \cup {Len(graph)}
    BY ClosingFacts
  <2>7. Closing(p, b) \in Nat
    BY <2>6, Places
  <2> QED
    BY <2>5, <2>6, <2>7 DEF Unset
<1>3. ASSUME NEW v \in DOMAIN graph, IsSync(v)
      PROVE  v \in discovered
  <2>1. ~IsSynthetic(v)
    BY <1>3 DEF IsSync, IsSynthetic
  <2>2. graph[v].proc \in Procs /\ v \in Own(graph[v].proc)
    BY <2>1 DEF Chained, Own
  <2> QED
    BY <1>1, <2>2, AllDiscovered
<1> QED
  BY <1>2, <1>3

LEMMA RootsMetStep ==
  ASSUME Chained, VisitorInv, RootsMet, VisitNext
  PROVE  RootsMet'
<1>1. UNCHANGED <<graph, edges>>
  BY DEF VisitNext, StartVisit, Descend, SkipEdge, Backtrack, SortSets, AbortVisit
<1>2. \A v : HasRoot(v)' <=> HasRoot(v)
  BY <1>1 DEF HasRoot, IsSync, Root
<1>3. CASE StartVisit
  <2>1. discovered' = {1} /\ visit' = "searching"
    BY <1>3, SearchStarts DEF StartVisit
  <2>2. 1 \in DOMAIN graph /\ HasRoot(1)
    BY Places DEF Chained, HasRoot, IsSync, IsSynthetic
  <2> QED
    BY <1>2, <2>1, <2>2 DEF RootsMet
<1>4. ASSUME HasEdge, visit = "searching"
      PROVE  Target \in DOMAIN graph
  BY <1>4, NextEdgeFacts DEF VisitorInv
<1>5. ASSUME visit' = "aborted", Target \in DOMAIN graph, ~HasRoot(Target)
      PROVE  RootsMet'
  BY <1>1, <1>2, <1>5 DEF RootsMet
<1>6. CASE Descend
  <2>1. CASE ExamineAsserts(set_map, Top.vertex, Target) /\ DiscoverAsserts(Target)
    <3>1. discovered' = discovered \cup {Target} /\ visit' = "searching" /\ visit = "searching"
      BY <1>6, <2>1 DEF Descend
    <3>2. HasRoot(Target)
      BY <2>1 DEF DiscoverAsserts, HasRoot
    <3> QED
      BY <1>2, <3>1, <3>2 DEF RootsMet
  <2>2. CASE ~(ExamineAsserts(set_map, Top.vertex, Target) /\ DiscoverAsserts(Target))
    <3>1. visit' = "aborted" /\ Target \in DOMAIN graph
      BY <1>4, <1>6, <2>2 DEF Descend, AbortVisit
    <3>2. ~HasRoot(Target)
      BY <2>2 DEF ExamineAsserts, DiscoverAsserts, HasRoot
    <3> QED
      BY <1>5, <3>1, <3>2
  <2> QED
    BY <2>1, <2>2
<1>7. CASE SkipEdge
  <2>1. CASE ExamineAsserts(set_map, Top.vertex, Target)
    <3>1. discovered' = discovered /\ visit' = "searching" /\ visit = "searching"
      BY <1>7, <2>1 DEF SkipEdge
    <3> QED
      BY <1>2, <3>1 DEF RootsMet
  <2>2. CASE ~ExamineAsserts(set_map, Top.vertex, Target)
    <3>1. visit' = "aborted" /\ Target \in DOMAIN graph
      BY <1>4, <1>7, <2>2 DEF SkipEdge, AbortVisit
    <3>2. ~HasRoot(Target)
      BY <2>2 DEF ExamineAsserts, HasRoot
    <3> QED
      BY <1>5, <3>1, <3>2
  <2> QED
    BY <2>1, <2>2
<1>8. CASE Backtrack
  BY <1>2, <1>8 DEF Backtrack, RootsMet
<1>9. CASE SortSets
  <2>1. visit = "searching" /\ stack = <<>>
    BY <1>9 DEF SortSets
  <2>2. \A p \in Procs : \A i \in DOMAIN set_map[p] : set_map[p][i].origin # Unset
    BY <2>1, SortsWhatClosed
  <2>3. \A v \in DOMAIN graph : IsSync(v) => v \in discovered
    BY <2>1, SortsWhatClosed
  <2>4. visit' = "done"
    BY <1>9, <2>2 DEF SortSets
  <2>5. \A v \in DOMAIN graph : HasRoot(v)
    BY <2>1, <2>3 DEF RootsMet, HasRoot
  <2> QED
    BY <1>1, <1>2, <2>4, <2>5 DEF RootsMet
<1> QED
  BY <1>3, <1>6, <1>7, <1>8, <1>9 DEF VisitNext

LEMMA RootsMetStutter ==
  ASSUME RootsMet, UNCHANGED visitor_vars
  PROVE  RootsMet'
<1>1. UNCHANGED <<graph, discovered, visit>>
  BY DEF visitor_vars
<1>2. \A v : HasRoot(v)' <=> HasRoot(v)
  BY <1>1 DEF HasRoot, IsSync, Root
<1> QED
  BY <1>1, <1>2 DEF RootsMet
-----------------------------------------------------------------------------
(***************************************************************************)
(* The sets of a process, if no two of its synchronisations have the same  *)
(* timestamp: every synchronisation ends one, in program order, and the    *)
(* synthetic vertex the last.                                              *)
(***************************************************************************)
Complete(s, p) ==
  /\ IsSequence(s) /\ Len(s) > 0
  /\ \A i \in DOMAIN s :
       /\ s[i].start = 1 \/ \E b \in Syncs(p) : s[i].start = Root(b)
       /\ s[i].events \subseteq Own(p) \ Syncs(p)
       /\ s[i].end = RootOf(s[i].origin)
       /\ IF i = Len(s) THEN s[i].origin = Len(graph) ELSE s[i].origin \in Syncs(p)
  /\ \A i, j \in DOMAIN s : i < j => s[i].origin < s[j].origin
  /\ \A i, j \in DOMAIN s : s[i].events \cap s[j].events # {} => i = j
  /\ \A i \in DOMAIN s : \A v \in s[i].events :
       v < s[i].origin /\ \A j \in DOMAIN s : j < i => s[j].origin < v
  /\ \A c \in Syncs(p) : \E i \in DOMAIN s : s[i].origin = c

LEMMA EverySyncCloses ==
  ASSUME Chained, NEW p \in Procs, NEW c \in Syncs(p)
  PROVE  \E b \in Begins(p) : Closing(p, b) = c
<1> DEFINE S == {b \in Begins(p) : b < c}
<1>1. /\ Syncs(p) \subseteq Nat /\ c \in Nat /\ 1 < c /\ Begins(p) \subseteq Nat
  BY Places DEF Begins, Beginning
<1>2. Beginning \in S /\ S \in SUBSET (0 .. c)
  BY <1>1 DEF Begins, Beginning
<1>3. PICK b \in S : \A x \in S : b >= x
  <2> HIDE DEF S
  <2> QED
    BY <1>1, <1>2, GreatestNat
<1>4. b \in Begins(p) /\ b < c
  OBVIOUS
<1>5. ASSUME NEW u \in Syncs(p), b < u PROVE c <= u
  <2> SUFFICES ASSUME u < c PROVE FALSE
    BY <1>1
  <2>1. u \in S
    BY DEF Begins
  <2>2. u <= b
    <3> HIDE DEF S
    <3> QED
      BY <1>3, <2>1
  <2> QED
    BY <1>1, <1>4, <1>5, <2>2
<1> QED
  BY <1>4, <1>5, ClosingIs

LEMMA SegmentsApart ==
  ASSUME Chained, NEW p \in Procs, NEW b \in Begins(p), NEW c \in Begins(p), b < c
  PROVE  Segment(p, b).events \cap Segment(p, c).events = {}
<1>1. b \in Nat /\ c \in Nat /\ \A u \in Syncs(p) : b < u => Closing(p, b) <= u
  BY ClosingFacts
<1>2. c \in Syncs(p)
  BY <1>1 DEF Begins, Beginning
<1>3. Closing(p, b) <= c /\ Closing(p, b) \in Nat
  BY <1>1, <1>2, ClosingFacts, Places
<1>4. ASSUME NEW v \in Segment(p, b).events, v \in Segment(p, c).events PROVE FALSE
  <2>1. v \in Own(p) /\ v < Closing(p, b) /\ c < v
    BY <1>4 DEF Segment
  <2>2. v \in Nat
    BY <2>1, Places
  <2> QED
    BY <1>1, <1>3, <2>1, <2>2
<1> QED
  BY <1>4

LEMMA SetsComplete ==
  ASSUME Chained, VisitorInv, Resolution \in Nat \ {0}, visit = "done",
         NEW p \in Procs, DistinctTimes(p)
  PROVE  Complete(set_map[p], p)
<1> DEFINE s == set_map[p]
           n == Len(s)
<1>1. Lists(s, p, Begins(p))
  BY DEF VisitorInv
<1>2. \A i, j \in DOMAIN s : i < j => s[i].origin < s[j].origin
  BY InvChronological DEF Chronological
<1>3. n \in Nat /\ DOMAIN s = 1 .. n /\ IsSequence(s)
  BY <1>1, SequenceFacts DEF Lists
<1> HIDE DEF s, n
<1>4. \A i \in DOMAIN s : \E b \in Begins(p) : s[i] = Segment(p, b)
  BY <1>1 DEF Lists, Range
<1>5. \A b \in Begins(p) : \E i \in DOMAIN s : s[i] = Segment(p, b)
  <2> SUFFICES ASSUME NEW b \in Begins(p) PROVE \E i \in DOMAIN s : s[i] = Segment(p, b)
    OBVIOUS
  <2>1. Segment(p, b) \in Range(s)
    BY <1>1 DEF Lists
  <2> QED
    BY <2>1 DEF Range
<1>6. \A b : /\ Segment(p, b).origin = Closing(p, b)
             /\ Segment(p, b).end = RootOf(Closing(p, b))
             /\ Segment(p, b).events \subseteq Own(p) \ Syncs(p)
             /\ Segment(p, b).start = IF b = Beginning THEN 1 ELSE Root(b)
  BY DEF Segment
<1>7. n > 0
  <2>1. Beginning \in Begins(p)
    BY DEF Begins
  <2>2. \E i \in DOMAIN s : TRUE
    BY <1>5, <2>1
  <2> QED
    BY <1>3, <2>2
<1>8. /\ Syncs(p) \subseteq Nat /\ Len(graph) \in Nat
      /\ \A c \in Syncs(p) : c < Len(graph) /\ c \in Begins(p)
  BY Places DEF Begins
<1>9. \A i \in DOMAIN s : s[i].origin \in Syncs(p) \cup {Len(graph)} /\ s[i].origin \in Nat
  BY <1>4, <1>6, <1>8, ClosingFacts
<1>10. s[n].origin = Len(graph)
  <2> SUFFICES ASSUME s[n].origin # Len(graph) PROVE FALSE
    OBVIOUS
  <2>1. n \in DOMAIN s
    BY <1>3, <1>7
  <2>2. PICK c : c = s[n].origin
    OBVIOUS
  <2>3. c \in Syncs(p) /\ c \in Begins(p) /\ c \in Nat
    BY <1>8, <1>9, <2>1, <2>2
  <2>4. PICK j \in DOMAIN s : s[j] = Segment(p, c)
    BY <1>5, <2>3
  <2>5. s[j].origin > c /\ s[j].origin \in Nat
    BY <1>6, <1>9, <2>3, <2>4, ClosingFacts
  <2>6. j \in 1 .. n
    BY <1>3
  <2>7. CASE j = n
    BY <2>2, <2>3, <2>5, <2>7
  <2>8. CASE j # n
    <3>1. j < n
      BY <1>3, <2>6, <2>8
    <3>2. s[j].origin < c
      BY <1>2, <2>1, <2>2, <3>1
    <3> QED
      BY <2>3, <2>5, <3>2
  <2> QED
    BY <2>7, <2>8
<1>11. ASSUME NEW i \in DOMAIN s, i # n
       PROVE  s[i].origin \in Syncs(p)
  <2>1. i < n /\ n \in DOMAIN s
    BY <1>3, <1>7, <1>11
  <2>2. s[i].origin < Len(graph)
    BY <1>2, <1>10, <2>1
  <2> QED
    BY <1>8, <1>9, <2>2
<1>12. ASSUME NEW i \in DOMAIN s
       PROVE  /\ s[i].start = 1 \/ \E b \in Syncs(p) : s[i].start = Root(b)
              /\ s[i].events \subseteq Own(p) \ Syncs(p)
              /\ s[i].end = RootOf(s[i].origin)
  <2>1. PICK b \in Begins(p) : s[i] = Segment(p, b)
    BY <1>4
  <2>2. b # Beginning => b \in Syncs(p)
    BY DEF Begins
  <2> QED
    BY <1>6, <2>1, <2>2
<1>13. ASSUME NEW i \in DOMAIN s, NEW j \in DOMAIN s, s[i].events \cap s[j].events # {}
       PROVE  i = j
  <2>1. PICK b \in Begins(p) : s[i] = Segment(p, b)
    BY <1>4
  <2>2. PICK c \in Begins(p) : s[j] = Segment(p, c)
    BY <1>4
  <2>3. ~(b < c) /\ ~(c < b)
    BY <1>13, <2>1, <2>2, SegmentsApart
  <2>4. b \in Nat /\ c \in Nat
    BY ClosingFacts
  <2>5. b = c
    BY <2>3, <2>4
  <2> QED
    BY <1>1, <2>1, <2>2, <2>5 DEF Lists
<1>14. \A c \in Syncs(p) : \E i \in DOMAIN s : s[i].origin = c
  BY <1>5, <1>6, EverySyncCloses
\* An event of a set lies between the synchronisations that end the set
\* before and the set itself.
<1>16. ASSUME NEW i \in DOMAIN s, NEW v \in s[i].events
       PROVE  v < s[i].origin /\ \A j \in DOMAIN s : j < i => s[j].origin < v
  <2>1. PICK b \in Begins(p) : s[i] = Segment(p, b)
    BY <1>4
  <2>2. v \in Own(p) /\ b < v /\ v < Closing(p, b) /\ s[i].origin = Closing(p, b)
    BY <1>6, <2>1 DEF Segment
  <2>3. /\ b \in Nat /\ v \in Nat /\ Closing(p, b) \in Nat
        /\ \A u \in Syncs(p) : b < u => Closing(p, b) <= u
    BY <1>9, <2>2, ClosingFacts, Places
  <2>4. ASSUME NEW j \in DOMAIN s, j < i PROVE s[j].origin < v
    <3>1. i # j /\ j # n
      BY <1>3, <2>4
    <3>2. s[j].origin \in Syncs(p) /\ s[j].origin \in Nat /\ s[j].origin < Closing(p, b)
      BY <1>2, <1>9, <1>11, <2>2, <2>4, <3>1
    <3>3. ~(b < s[j].origin)
      BY <2>3, <3>2
    <3> QED
      BY <2>2, <2>3, <3>2, <3>3
  <2> QED
    BY <2>2, <2>4
<1>15. \A i \in DOMAIN s : IF i = n THEN s[i].origin = Len(graph) ELSE s[i].origin \in Syncs(p)
  BY <1>10, <1>11
<1> QED
  BY <1>2, <1>3, <1>7, <1>12, <1>13, <1>14, <1>15, <1>16 DEF Complete, s, n
=============================================================================
