----------------------- MODULE BuilderProperties_proofs -----------------------
(***************************************************************************)
(* Theorems about the state the handlers keep of every process: the queue  *)
(* and the stack of regions, the operations under way and the offsets.     *)
(***************************************************************************)
EXTENDS IoGraphBuilder_proofs

-----------------------------------------------------------------------------
(***************************************************************************)
(* Counting the events read so far                                         *)
(***************************************************************************)
LEMMA CountStep ==
  ASSUME NEW s, NEW n \in Nat, NEW kind
  PROVE  /\ Count(s, n, kind) \in Nat
         /\ Count(s, n + 1, kind) = Count(s, n, kind) + (IF s[n + 1].kind = kind THEN 1 ELSE 0)
<1> DEFINE C(k) == {j \in 1 .. k : s[j].kind = kind}
<1>1. IsFiniteSet(1 .. n)
  BY FS_Interval
<1>2. IsFiniteSet(C(n)) /\ n + 1 \notin C(n)
  BY <1>1, FS_Subset
<1>3. Cardinality(C(n)) \in Nat
  BY <1>2, FS_CardinalityType
<1>4. 1 .. n + 1 = (1 .. n) \cup {n + 1}
  OBVIOUS
<1>5. C(n + 1) = IF s[n + 1].kind = kind THEN C(n) \cup {n + 1} ELSE C(n)
  BY <1>4
<1> HIDE DEF C
<1>6. Cardinality(C(n) \cup {n + 1}) = Cardinality(C(n)) + 1
  BY <1>2, FS_AddElement
<1>7. Cardinality(C(n + 1)) = Cardinality(C(n)) + (IF s[n + 1].kind = kind THEN 1 ELSE 0)
  BY <1>3, <1>5, <1>6
<1> QED
  BY <1>3, <1>7 DEF Count, C

LEMMA DepthStep ==
  ASSUME NEW s, NEW n \in Nat
  PROVE  /\ Depth(s, n) \in Int
         /\ Depth(s, n + 1) = CASE s[n + 1].kind = "enter" -> Depth(s, n) + 1
                                [] s[n + 1].kind = "leave" -> Depth(s, n) - 1
                                [] OTHER -> Depth(s, n)
<1>1. /\ Count(s, n, "enter") \in Nat /\ Count(s, n, "leave") \in Nat
      /\ Count(s, n + 1, "enter")
           = Count(s, n, "enter") + (IF s[n + 1].kind = "enter" THEN 1 ELSE 0)
      /\ Count(s, n + 1, "leave")
           = Count(s, n, "leave") + (IF s[n + 1].kind = "leave" THEN 1 ELSE 0)
  BY CountStep
<1> QED
  BY <1>1 DEF Depth

LEMMA DepthZero ==
  ASSUME NEW s
  PROVE  Depth(s, 0) = 0
<1>1. \A kind : {j \in 1 .. 0 : s[j].kind = kind} = {}
  OBVIOUS
<1> QED
  BY <1>1, FS_EmptySet DEF Depth, Count

(***************************************************************************)
(* What the handler of an event may rely on.                               *)
(***************************************************************************)
LEMMA EventFacts ==
  ASSUME IInv, NEW p \in Procs, NEW kinds, Reads(p, kinds)
  PROVE  /\ IsProgram(program) /\ program[p] \in Seq(Range(program[p]))
         /\ pos[p] \in Nat /\ Now(p) \in 1 .. Len(program[p]) /\ Now(p) = pos[p] + 1
         /\ Len(program[p]) \in Nat /\ pos' = [pos EXCEPT ![p] = Now(p)]
         /\ evt(p).kind \in SyncKinds \cup IoKinds \cup {"leave"}
              => Depth(program[p], pos[p]) > 0
         /\ Depth(program[p], pos[p]) \in Int
         /\ Depth(program[p], Now(p)) =
              CASE evt(p).kind = "enter" -> Depth(program[p], pos[p]) + 1
                [] evt(p).kind = "leave" -> Depth(program[p], pos[p]) - 1
                [] OTHER -> Depth(program[p], pos[p])
         /\ DOMAIN pos = Procs
<1> DEFINE s == program[p]
<1>1. IsProgram(program) /\ pos \in [Procs -> Nat]
  BY ProgramsAssumption DEF IInv, ReadingInv
<1>2. s \in Seq({s[i] : i \in DOMAIN s})
  BY <1>1 DEF IsProgram, WellFormed
<1>3. s \in Seq(Range(s)) /\ DOMAIN s = 1 .. Len(s) /\ Len(s) \in Nat
  BY <1>2, LenProperties DEF Range
<1>4. Now(p) = pos[p] + 1 /\ pos[p] \in Nat /\ pos' = [pos EXCEPT ![p] = Now(p)]
  BY <1>1 DEF Now, Reads
<1>5. Now(p) \in DOMAIN s /\ Now(p) - 1 = pos[p]
  BY <1>4 DEF Reads
<1>6. evt(p).kind \in SyncKinds \cup IoKinds \cup {"leave"} => Depth(s, Now(p) - 1) > 0
  BY <1>1, <1>5 DEF IsProgram, RegionsNest, evt
<1> HIDE DEF s
<1>7. /\ Depth(s, pos[p]) \in Int
      /\ Depth(s, pos[p] + 1) =
           CASE s[pos[p] + 1].kind = "enter" -> Depth(s, pos[p]) + 1
             [] s[pos[p] + 1].kind = "leave" -> Depth(s, pos[p]) - 1
             [] OTHER -> Depth(s, pos[p])
  BY <1>4, DepthStep
<1>8. evt(p) = s[pos[p] + 1]
  BY <1>4 DEF evt, s
<1> QED
  BY <1>1, <1>3, <1>4, <1>5, <1>6, <1>7, <1>8 DEF s

-----------------------------------------------------------------------------
(***************************************************************************)
(* The inductive invariant for type correctness: the queue and the stack   *)
(* are as deep as the regions the process is in.                           *)
(***************************************************************************)
FrameSet == [enter : Nat, vertex : Nat]

LocalOK(s, n, queue, stack, offsets) ==
  /\ n \in 0 .. Len(s)
  /\ queue \in Seq(Nat) /\ Len(queue) = Depth(s, n)
  /\ stack \in Seq(FrameSet) /\ Len(stack) = Depth(s, n)
  /\ Range(offsets) \subseteq 0 .. MaxOffset

PerProcess(f) == f = [p \in Procs |-> f[p]]

LocalInv ==
  /\ PerProcess(region_name_queue) /\ PerProcess(call_stack)
  /\ PerProcess(io_ops_started) /\ PerProcess(offset_map)
  /\ \A p \in Procs : LocalOK(program[p], pos[p], region_name_queue[p], call_stack[p],
                              offset_map[p])
  /\ num_locations \in {NProcs, Uninitialised}
  /\ status \in {"definitions", "events", "matching", "done"} \cup Failed

LEMMA FrameFacts ==
  ASSUME NEW stack \in Seq(FrameSet), NEW d \in Nat
  PROVE  /\ [stack EXCEPT ![1].vertex = d] \in Seq(FrameSet)
         /\ Len([stack EXCEPT ![1].vertex = d]) = Len(stack)
<1>1. ASSUME NEW w, 1 \in DOMAIN stack => w \in FrameSet
      PROVE  /\ [stack EXCEPT ![1] = w] \in Seq(FrameSet)
             /\ Len([stack EXCEPT ![1] = w]) = Len(stack)
  <2>1. /\ DOMAIN stack = 1 .. Len(stack) /\ Len(stack) \in Nat
        /\ stack = [j \in DOMAIN stack |-> stack[j]]
    BY LenProperties
  <2>2. CASE 1 \in DOMAIN stack
    BY <1>1, <2>1, <2>2, ExceptSeq
  <2>3. CASE 1 \notin DOMAIN stack
    <3>1. [stack EXCEPT ![1] = w] = stack
      BY <2>1, <2>3
    <3> QED
      BY <3>1
  <2> QED
    BY <2>2, <2>3
<1>2. 1 \in DOMAIN stack => [stack[1] EXCEPT !.vertex = d] \in FrameSet
  <2>1. \A f \in FrameSet : [f EXCEPT !.vertex = d] \in FrameSet
    BY DEF FrameSet
  <2>2. 1 \in DOMAIN stack => stack[1] \in FrameSet
    BY LenProperties, ElementOfSeq
  <2> QED
    BY <2>1, <2>2
<1> QED
  BY <1>1, <1>2

LEMMA LastFacts ==
  ASSUME NEW S, NEW s \in Seq(S), Len(s) > 0
  PROVE  /\ s # <<>> /\ Last(s) \in S /\ Head(s) \in S /\ Head(s) = s[1]
         /\ Front(s) \in Seq(S) /\ Len(Front(s)) = Len(s) - 1
         /\ Tail(s) \in Seq(S) /\ Len(Tail(s)) = Len(s) - 1
<1>1. Len(s) \in Nat \ {0} /\ \A i \in 1 .. Len(s) : s[i] \in S
  BY ElementOfSeq
<1>2. s # <<>> /\ Last(s) \in S /\ Head(s) = s[1] /\ Head(s) \in S
  BY <1>1 DEF Last
<1>3. Tail(s) \in Seq(S) /\ Len(Tail(s)) = Len(s) - 1
  BY <1>2, HeadTailProperties
<1>4. 1 \in Int /\ Len(s) - 1 \in Int /\ \A i \in 1 .. Len(s) - 1 : s[i] \in S
  BY <1>1
<1> DEFINE k == Len(s) - 1
<1> HIDE DEF k
<1>5. /\ SubSeq(s, 1, k) \in Seq(S)
      /\ Len(SubSeq(s, 1, k)) = IF 1 <= k THEN k - 1 + 1 ELSE 0
  BY <1>4, SubSeqProperties DEF k
<1>6. k \in Nat
  BY <1>1 DEF k
<1>7. Len(SubSeq(s, 1, k)) = k
  BY <1>5, <1>6
<1> QED
  BY <1>2, <1>3, <1>5, <1>7 DEF Front, k

LEMMA OffsetFacts ==
  ASSUME NEW f, Range(f) \subseteq 0 .. MaxOffset, NEW name
  PROVE  /\ \A n \in 0 .. MaxOffset : Range(Assign(f, name, n)) \subseteq 0 .. MaxOffset
         /\ Range(Restrict(f, DOMAIN f \ {name})) \subseteq 0 .. MaxOffset
<1>1. \A i \in DOMAIN f : f[i] \in 0 .. MaxOffset
  BY DEF Range
<1>2. ASSUME NEW n \in 0 .. MaxOffset
      PROVE  \A i \in DOMAIN Assign(f, name, n) : Assign(f, name, n)[i] \in 0 .. MaxOffset
  BY <1>1 DEF Assign
<1>3. \A i \in DOMAIN Restrict(f, DOMAIN f \ {name}) :
        Restrict(f, DOMAIN f \ {name})[i] \in 0 .. MaxOffset
  BY <1>1 DEF Restrict
<1> QED
  BY <1>2, <1>3 DEF Range

LEMMA WrapFacts ==
  ASSUME NEW n \in Nat
  PROVE  /\ Wrap(n) \in 0 .. MaxOffset
         /\ n \in 0 .. MaxOffset => Wrap(n) = n
<1>1. MaxOffset \in Nat \ {0}
  BY MaxOffsetAssumption
<1> QED
  BY <1>1 DEF Wrap

(***************************************************************************)
(* A step of process p leaves the state kept of other processes alone.     *)
(***************************************************************************)
LEMMA LocalKept ==
  ASSUME IInv, LocalInv, NEW p \in Procs, NEW kinds, Reads(p, kinds),
         NEW queue, NEW stack, NEW offsets,
         LocalOK(program[p], Now(p), queue, stack, offsets),
         region_name_queue' = [region_name_queue EXCEPT ![p] = queue],
         call_stack' = [call_stack EXCEPT ![p] = stack],
         offset_map' = [offset_map EXCEPT ![p] = offsets],
         PerProcess(io_ops_started'),
         status' \in {status, "aborted"}
  PROVE  LocalInv'
<1>1. program' = program /\ num_locations' = num_locations
  BY DEF Reads
<1>2. pos' = [pos EXCEPT ![p] = Now(p)] /\ DOMAIN pos = Procs
  BY EventFacts
<1>3. ASSUME NEW q \in Procs
      PROVE  LocalOK(program'[q], pos'[q], region_name_queue'[q], call_stack'[q],
                     offset_map'[q])
  <2>1. CASE q = p
    BY <1>1, <1>2, <2>1 DEF LocalInv, PerProcess
  <2>2. CASE q # p
    BY <1>1, <1>2, <2>2 DEF LocalInv, PerProcess
  <2> QED
    BY <2>1, <2>2
<1> QED
  BY <1>1, <1>3 DEF LocalInv, PerProcess, Failed


(* So does an event that enters and leaves no region. *)
LEMMA LocalQuiet ==
  ASSUME IInv, LocalInv, NEW p \in Procs, NEW kinds, Reads(p, kinds),
         evt(p).kind \notin {"enter", "leave"},
         UNCHANGED region_name_queue,
         \/ UNCHANGED call_stack
         \/ call_stack' = [call_stack EXCEPT ![p][1].vertex = Len(graph) + 1],
         \/ UNCHANGED offset_map
         \/ \E name : \E n \in 0 .. MaxOffset : SetOffset(p, name, n)
         \/ \E name : EraseOffset(p, name),
         \/ UNCHANGED io_ops_started
         \/ \E x : io_ops_started' = [io_ops_started EXCEPT ![p] = x],
         status' \in {status, "aborted"}
  PROVE  LocalInv'
<1> DEFINE s == program[p]
<1>1. LocalOK(s, pos[p], region_name_queue[p], call_stack[p], offset_map[p])
  BY DEF LocalInv, PerProcess
<1>2. Now(p) \in 0 .. Len(s) /\ Depth(s, Now(p)) = Depth(s, pos[p])
  <2>1. Now(p) \in 1 .. Len(s) /\ Len(s) \in Nat
    BY EventFacts
  <2>2. Depth(s, Now(p)) =
          CASE evt(p).kind = "enter" -> Depth(s, pos[p]) + 1
            [] evt(p).kind = "leave" -> Depth(s, pos[p]) - 1
            [] OTHER -> Depth(s, pos[p])
    BY EventFacts
  <2> HIDE DEF s
  <2> QED
    BY <2>1, <2>2
<1> HIDE DEF s
<1>3. PICK stack : /\ stack \in Seq(FrameSet) /\ Len(stack) = Depth(s, pos[p])
                   /\ call_stack' = [call_stack EXCEPT ![p] = stack]
  <2>1. Len(graph) + 1 \in Nat
    BY SequenceFacts DEF IInv, GraphInv
  <2>2. CASE UNCHANGED call_stack
    <3>1. call_stack' = [call_stack EXCEPT ![p] = call_stack[p]]
      BY <2>2 DEF LocalInv, PerProcess
    <3> QED
      BY <1>1, <3>1 DEF LocalOK
  <2>3. CASE call_stack' = [call_stack EXCEPT ![p][1].vertex = Len(graph) + 1]
    <3>1. call_stack[p] \in Seq(FrameSet) /\ Len(call_stack[p]) = Depth(s, pos[p])
      BY <1>1 DEF LocalOK
    <3> DEFINE new == [call_stack[p] EXCEPT ![1].vertex = Len(graph) + 1]
    <3>2. new \in Seq(FrameSet) /\ Len(new) = Len(call_stack[p])
      BY <2>1, <3>1, FrameFacts
    <3>3. call_stack' = [call_stack EXCEPT ![p] = new]
      BY <2>3
    <3> HIDE DEF new
    <3> QED
      BY <3>1, <3>2, <3>3
  <2> QED
    BY <2>2, <2>3
<1>4. PICK offsets : /\ Range(offsets) \subseteq 0 .. MaxOffset
                     /\ offset_map' = [offset_map EXCEPT ![p] = offsets]
  <2>1. Range(offset_map[p]) \subseteq 0 .. MaxOffset
    BY <1>1 DEF LocalOK
  <2>2. CASE UNCHANGED offset_map
    <3>1. offset_map' = [offset_map EXCEPT ![p] = offset_map[p]]
      BY <2>2 DEF LocalInv, PerProcess
    <3> QED
      BY <2>1, <3>1
  <2>3. CASE \E name : \E n \in 0 .. MaxOffset : SetOffset(p, name, n)
    BY <2>1, <2>3, OffsetFacts DEF SetOffset
  <2>4. CASE \E name : EraseOffset(p, name)
    BY <2>1, <2>4, OffsetFacts DEF EraseOffset
  <2> QED
    BY <2>2, <2>3, <2>4
<1>5. region_name_queue' = [region_name_queue EXCEPT ![p] = region_name_queue[p]]
  BY DEF LocalInv, PerProcess
<1>6. PerProcess(io_ops_started')
  BY DEF LocalInv, PerProcess
<1>7. LocalOK(s, Now(p), region_name_queue[p], stack, offsets)
  BY <1>1, <1>2, <1>3, <1>4 DEF LocalOK
<1> QED
  BY <1>3, <1>4, <1>5, <1>6, <1>7, LocalKept DEF s

LEMMA LocalEnter ==
  ASSUME IInv, LocalInv, NEW p \in Procs, Enter(p)
  PROVE  LocalInv'
<1> DEFINE s == program[p]
           queue == Append(region_name_queue[p], Now(p))
           stack == Append(call_stack[p], Frame(Now(p)))
<1>1. LocalOK(s, pos[p], region_name_queue[p], call_stack[p], offset_map[p])
  BY DEF LocalInv, PerProcess
<1>2. Reads(p, {"enter"}) /\ evt(p).kind = "enter"
  BY DEF Enter, Reads
<1>3. Now(p) \in 0 .. Len(s) /\ Now(p) \in Nat /\ Depth(s, Now(p)) = Depth(s, pos[p]) + 1
  <2>1. Now(p) \in 1 .. Len(s) /\ Len(s) \in Nat
    BY <1>2, EventFacts
  <2>2. Depth(s, Now(p)) =
          CASE evt(p).kind = "enter" -> Depth(s, pos[p]) + 1
            [] evt(p).kind = "leave" -> Depth(s, pos[p]) - 1
            [] OTHER -> Depth(s, pos[p])
    BY <1>2, EventFacts
  <2> HIDE DEF s
  <2> QED
    BY <1>2, <2>1, <2>2
<1>4. queue \in Seq(Nat) /\ Len(queue) = Len(region_name_queue[p]) + 1
  BY <1>1, <1>3, AppendProperties DEF LocalOK
<1>5. stack \in Seq(FrameSet) /\ Len(stack) = Len(call_stack[p]) + 1
  <2>1. Frame(Now(p)) \in FrameSet
    BY <1>3 DEF Frame, FrameSet, NullVertex
  <2> QED
    BY <1>1, <2>1, AppendProperties DEF LocalOK
<1>6. /\ region_name_queue' = [region_name_queue EXCEPT ![p] = queue]
      /\ call_stack' = [call_stack EXCEPT ![p] = stack]
      /\ offset_map' = [offset_map EXCEPT ![p] = offset_map[p]]
      /\ PerProcess(io_ops_started') /\ status' = status
  BY DEF Enter, LocalInv, PerProcess
<1> HIDE DEF s, queue, stack
<1>7. LocalOK(s, Now(p), queue, stack, offset_map[p])
  BY <1>1, <1>3, <1>4, <1>5 DEF LocalOK
<1> QED
  BY <1>2, <1>6, <1>7, LocalKept DEF s

LEMMA LocalLeave ==
  ASSUME IInv, LocalInv, NEW p \in Procs, Leave(p)
  PROVE  LocalInv'
<1> DEFINE s == program[p]
           queue == Front(region_name_queue[p])
           stack == Tail(call_stack[p])
<1>1. LocalOK(s, pos[p], region_name_queue[p], call_stack[p], offset_map[p])
  BY DEF LocalInv, PerProcess
<1>2. Reads(p, {"leave"}) /\ evt(p).kind = "leave"
  BY DEF Leave, Reads
<1>3. /\ Now(p) \in 0 .. Len(s) /\ Depth(s, pos[p]) > 0
      /\ Depth(s, Now(p)) = Depth(s, pos[p]) - 1
  <2>1. /\ Now(p) \in 1 .. Len(s) /\ Len(s) \in Nat
        /\ evt(p).kind \in SyncKinds \cup IoKinds \cup {"leave"} => Depth(s, pos[p]) > 0
    BY <1>2, EventFacts
  <2>2. Depth(s, Now(p)) =
          CASE evt(p).kind = "enter" -> Depth(s, pos[p]) + 1
            [] evt(p).kind = "leave" -> Depth(s, pos[p]) - 1
            [] OTHER -> Depth(s, pos[p])
    BY <1>2, EventFacts
  <2> HIDE DEF s
  <2> QED
    BY <1>2, <2>1, <2>2
<1>4. queue \in Seq(Nat) /\ Len(queue) = Len(region_name_queue[p]) - 1
  BY <1>1, <1>3, LastFacts DEF LocalOK
<1>5. stack \in Seq(FrameSet) /\ Len(stack) = Len(call_stack[p]) - 1
  BY <1>1, <1>3, LastFacts DEF LocalOK
<1>6. /\ region_name_queue' = [region_name_queue EXCEPT ![p] = queue]
      /\ call_stack' = [call_stack EXCEPT ![p] = stack]
      /\ offset_map' = [offset_map EXCEPT ![p] = offset_map[p]]
      /\ PerProcess(io_ops_started') /\ status' = status
  BY DEF Leave, LocalInv, PerProcess
<1> HIDE DEF s, queue, stack
<1>7. LocalOK(s, Now(p), queue, stack, offset_map[p])
  BY <1>1, <1>3, <1>4, <1>5 DEF LocalOK
<1> QED
  BY <1>2, <1>6, <1>7, LocalKept DEF s

LEMMA AdvancedFacts ==
  ASSUME IInv, LocalInv, NEW p \in Procs, NEW begin,
         Reads(p, {"io_operation_complete"})
  PROVE  /\ Advanced(p, begin) \in 0 .. MaxOffset
         /\ Tracked(p, Name(p)) \in 0 .. MaxOffset /\ evt(p).bytes \in 0 .. MaxOffset
<1>1. Tracked(p, Name(p)) \in 0 .. MaxOffset
  <2>1. Range(offset_map[p]) \subseteq 0 .. MaxOffset
    BY DEF LocalInv, LocalOK
  <2>2. 0 \in 0 .. MaxOffset
    BY MaxOffsetAssumption
  <2> QED
    BY <2>1, <2>2 DEF Tracked, Range
<1>2. evt(p).bytes \in 0 .. MaxOffset
  <2>1. IsProgram(program)
    BY EventFacts
  <2>2. Now(p) \in DOMAIN program[p] /\ program[p][Now(p)].kind = "io_operation_complete"
    BY DEF Reads, evt
  <2> QED
    BY <2>1, <2>2 DEF IsProgram, WellFormed, evt
<1>3. \A x, y \in 0 .. MaxOffset : x + y \in Nat
  BY MaxOffsetAssumption
<1>4. 0 \in 0 .. MaxOffset
  BY MaxOffsetAssumption
<1> QED
  BY <1>1, <1>2, <1>3, <1>4, WrapFacts DEF Advanced

LEMMA LocalStep ==
  ASSUME IInv, LocalInv, [Next]_vars
  PROVE  LocalInv'
<1>1. ASSUME UNCHANGED <<program, pos, locals>>,
             num_locations' \in {num_locations, NProcs},
             status' \in {status, "events", "matching", "done"} \cup Failed
      PROVE  LocalInv'
  BY <1>1 DEF LocalInv, locals
<1>2. CASE DefinitionsNext
  BY <1>1, <1>2 DEF DefinitionsNext, RegisterLocation, DefinitionsDone
<1>3. CASE EventsDone
  BY <1>1, <1>3 DEF EventsDone, create_synthetic_end, Failed
<1>4. CASE Match
  <2>1. num_locations' \in {num_locations, NProcs}
    BY <1>4 DEF Match, MatchingNext, NextLocation, SkipVertex, SkipMyself, ConnectMember,
                FinishCollective, ConnectPeer, set_graph_properties
  <2>2. status' \in {status, "events", "matching", "done"} \cup Failed
    BY <1>4 DEF Match, MatchingNext, NextLocation, SkipVertex, SkipMyself, ConnectMember,
                FinishCollective, ConnectPeer, set_graph_properties, GiveUp, Connect, Failed
  <2> QED
    BY <1>1, <1>4, <2>1, <2>2 DEF Match
<1>5. CASE UNCHANGED vars
  BY <1>1, <1>5 DEF vars
<1>6. CASE EventNext
  <2>1. PICK p \in Procs :
          \/ Enter(p) \/ Leave(p)
          \/ OperationBegin(p) \/ OperationComplete(p)
          \/ CreateHandle(p) \/ DeleteFile(p) \/ DestroyHandle(p) \/ DuplicateHandle(p)
          \/ Seek(p) \/ CollectiveEnd(p) \/ PeerToPeer(p)
          \/ Other(p)
    BY <1>6 DEF EventNext
  <2>2. ASSUME NEW kinds, Reads(p, kinds), "enter" \notin kinds, "leave" \notin kinds
        PROVE  evt(p).kind \notin {"enter", "leave"}
    BY <2>2 DEF Reads
  <2>3. 0 \in 0 .. MaxOffset
    BY MaxOffsetAssumption
  <2>4. CASE Enter(p)
    BY <2>4, LocalEnter
  <2>5. CASE Leave(p)
    BY <2>5, LocalLeave
  <2>6. CASE OperationBegin(p)
    <3>1. Reads(p, {"io_operation_begin"}) /\ evt(p).kind \notin {"enter", "leave"}
      BY <2>2, <2>6 DEF OperationBegin
    <3>2. \/ UNCHANGED io_ops_started
          \/ \E x : io_ops_started' = [io_ops_started EXCEPT ![p] = x]
      BY <2>6 DEF OperationBegin
    <3>3. UNCHANGED <<region_name_queue, call_stack, offset_map, status>>
      BY <2>6 DEF OperationBegin
    <3> QED
      BY <3>1, <3>2, <3>3, LocalQuiet
  <2>7. CASE OperationComplete(p)
    <3>1. Reads(p, {"io_operation_complete"}) /\ evt(p).kind \notin {"enter", "leave"}
      BY <2>2, <2>7 DEF OperationComplete
    <3>2. Advanced(p, Head(io_ops_started[p])) \in 0 .. MaxOffset
      BY <3>1, AdvancedFacts
    <3>3. \/ UNCHANGED io_ops_started
          \/ \E x : io_ops_started' = [io_ops_started EXCEPT ![p] = x]
      BY <2>7 DEF OperationComplete, Ignore, Abort, locals
    <3>4. \/ UNCHANGED offset_map
          \/ \E name : \E n \in 0 .. MaxOffset : SetOffset(p, name, n)
      BY <2>7, <3>2 DEF OperationComplete, Ignore, Abort, locals
    <3>5. /\ UNCHANGED region_name_queue
          /\ \/ UNCHANGED call_stack
             \/ call_stack' = [call_stack EXCEPT ![p][1].vertex = Len(graph) + 1]
          /\ status' \in {status, "aborted"}
      BY <2>7 DEF OperationComplete, Ignore, Abort, locals, AddIoEvent, AddVertex
    <3> QED
      BY <3>1, <3>3, <3>4, <3>5, LocalQuiet
  <2>8. CASE CreateHandle(p)
    <3>1. Reads(p, {"io_create_handle"}) /\ evt(p).kind \notin {"enter", "leave"}
      BY <2>2, <2>8 DEF CreateHandle
    <3>2. /\ UNCHANGED <<region_name_queue, io_ops_started, status>>
          /\ \/ UNCHANGED call_stack
             \/ call_stack' = [call_stack EXCEPT ![p][1].vertex = Len(graph) + 1]
          /\ \/ UNCHANGED offset_map
             \/ \E name : \E n \in 0 .. MaxOffset : SetOffset(p, name, n)
      BY <2>3, <2>8 DEF CreateHandle, Ignore, locals, AddIoEvent, AddVertex
    <3> QED
      BY <3>1, <3>2, LocalQuiet
  <2>9. CASE DeleteFile(p) \/ DestroyHandle(p)
    <3>1. PICK kinds : Reads(p, kinds) /\ "enter" \notin kinds /\ "leave" \notin kinds
      BY <2>9 DEF DeleteFile, DestroyHandle
    <3>2. /\ UNCHANGED <<region_name_queue, io_ops_started>>
          /\ status' \in {status, "aborted"}
          /\ \/ UNCHANGED call_stack
             \/ call_stack' = [call_stack EXCEPT ![p][1].vertex = Len(graph) + 1]
          /\ \/ UNCHANGED offset_map
             \/ \E name : EraseOffset(p, name)
      BY <2>9 DEF DeleteFile, DestroyHandle, Drop, Ignore, Abort, locals, AddIoEvent, AddVertex
    <3> QED
      BY <2>2, <3>1, <3>2, LocalQuiet
  <2>10. CASE DuplicateHandle(p)
    <3>1. Reads(p, {"io_duplicate_handle"}) /\ evt(p).kind \notin {"enter", "leave"}
      BY <2>2, <2>10 DEF DuplicateHandle
    <3>2. /\ UNCHANGED <<region_name_queue, io_ops_started, offset_map, status>>
          /\ call_stack' = [call_stack EXCEPT ![p][1].vertex = Len(graph) + 1]
      BY <2>10 DEF DuplicateHandle, AddIoEvent, AddVertex
    <3> QED
      BY <3>1, <3>2, LocalQuiet
  <2>11. CASE Seek(p)
    <3>1. Reads(p, {"io_seek"}) /\ evt(p).kind \notin {"enter", "leave"}
      BY <2>2, <2>11 DEF Seek
    <3>2. evt(p).offset \in 0 .. MaxOffset
      <4>1. IsProgram(program)
        BY <3>1, EventFacts
      <4>2. Now(p) \in DOMAIN program[p] /\ program[p][Now(p)].kind = "io_seek"
        BY <3>1 DEF Reads, evt
      <4> QED
        BY <4>1, <4>2 DEF IsProgram, WellFormed, evt
    <3>3. /\ UNCHANGED <<region_name_queue, io_ops_started, status>>
          /\ \/ UNCHANGED call_stack
             \/ call_stack' = [call_stack EXCEPT ![p][1].vertex = Len(graph) + 1]
          /\ \/ UNCHANGED offset_map
             \/ \E name : \E n \in 0 .. MaxOffset : SetOffset(p, name, n)
      BY <2>11, <3>2 DEF Seek, Ignore, locals, AddIoEvent, AddVertex
    <3> QED
      BY <3>1, <3>3, LocalQuiet
  <2>12. CASE CollectiveEnd(p) \/ PeerToPeer(p) \/ Other(p)
    <3>1. PICK kinds : Reads(p, kinds) /\ "enter" \notin kinds /\ "leave" \notin kinds
      BY <2>12 DEF CollectiveEnd, PeerToPeer, Other, PeerKinds
    <3>2. /\ UNCHANGED <<region_name_queue, io_ops_started, offset_map, status>>
          /\ \/ UNCHANGED call_stack
             \/ call_stack' = [call_stack EXCEPT ![p][1].vertex = Len(graph) + 1]
      BY <2>12 DEF CollectiveEnd, PeerToPeer, Other, Ignore, locals, AddSyncEvent, AddVertex
    <3> QED
      BY <2>2, <3>1, <3>2, LocalQuiet
  <2> QED
    BY <2>1, <2>4, <2>5, <2>6, <2>7, <2>8, <2>9, <2>10, <2>11, <2>12
<1> QED
  BY <1>2, <1>3, <1>4, <1>5, <1>6 DEF Next

LEMMA LocalInitially ==
  ASSUME Init
  PROVE  LocalInv
<1>1. ASSUME NEW p \in Procs
      PROVE  LocalOK(program[p], 0, <<>>, <<>>, <<>>)
  <2>1. IsProgram(program)
    BY ProgramsAssumption DEF Init
  <2>2. program[p] \in Seq({program[p][i] : i \in DOMAIN program[p]})
    BY <2>1 DEF IsProgram, WellFormed
  <2>3. Len(program[p]) \in Nat
    BY <2>2, LenProperties
  <2>4. Depth(program[p], 0) = 0
    BY DepthZero
  <2>5. <<>> \in Seq(Nat) /\ <<>> \in Seq(FrameSet) /\ Len(<<>>) = 0 /\ Range(<<>>) = {}
    BY EmptySeq DEF Range
  <2> QED
    BY <2>3, <2>4, <2>5 DEF LocalOK
<1>2. /\ PerProcess(region_name_queue) /\ PerProcess(call_stack)
      /\ PerProcess(io_ops_started) /\ PerProcess(offset_map)
  BY DEF Init, PerProcess
<1> QED
  BY <1>1, <1>2 DEF Init, LocalInv

LEMMA TypeFollows ==
  ASSUME IInv, LocalInv
  PROVE  TypeOK
<1>1. ASSUME NEW p \in Procs
      PROVE  /\ pos[p] \in 0 .. Len(program[p])
             /\ Len(region_name_queue[p]) = Depth(program[p], pos[p])
             /\ Len(call_stack[p]) = Depth(program[p], pos[p])
             /\ Range(offset_map[p]) \subseteq 0 .. MaxOffset
  BY DEF LocalInv, LocalOK
<1>2. ASSUME NEW p \in Procs
      PROVE  Len(edge_points[p]) <= 1 /\ Range(edge_points[p]) \subseteq DOMAIN graph
  <2>1. CASE OwnVertices(p) = {}
    <3>1. edge_points[p] = <<>>
      BY <2>1 DEF IInv, PointsInv
    <3> QED
      BY <3>1 DEF Range
  <2>2. CASE OwnVertices(p) # {}
    <3>1. PICK d \in OwnVertices(p) : edge_points[p] = <<d>>
      BY <2>2 DEF IInv, PointsInv
    <3> QED
      BY <3>1 DEF OwnVertices, Range
  <2> QED
    BY <2>1, <2>2
<1>3. ASSUME NEW p \in Procs
      PROVE  Range(synchronizations[p]) \subseteq SyncsOf(p)
  <2>1. synchronizations[p] \in Seq(SyncsOf(p))
    BY DEF IInv, MatchingInv
  <2> QED
    BY <2>1, RangeOfSeq
<1>4. \A p \in Procs : \A d \in SyncsOf(p) :
        d \in DOMAIN graph /\ graph[d].type = "sync_event" /\ graph[d].proc = p
  BY DEF SyncsOf, OwnVertices
<1>5. Range(edges) \subseteq (DOMAIN graph) \X (DOMAIN graph)
  BY RangeOfSeq DEF IInv, EdgesInv
<1>6. \A p \in Procs :
        /\ Range(synchronizations[p]) \cup Range(edge_points[p]) \subseteq DOMAIN graph
        /\ \A d \in Range(synchronizations[p]) :
             graph[d].type = "sync_event" /\ graph[d].proc = p
  BY <1>2, <1>3, <1>4
<1> QED
  BY <1>1, <1>2, <1>5, <1>6 DEF TypeOK, LocalInv

(***************************************************************************)
(* Whatever the order of reading: the queue and the stack of regions of a  *)
(* process are as deep as the regions it is in, offsets stay in their      *)
(* range, and what the deques and edges name are vertices of the graph.    *)
(***************************************************************************)
THEOREM BuilderTypeCorrect == Spec => []TypeOK
<1>1. Init => IInv /\ LocalInv
  BY Initially, LocalInitially
<1>2. IInv /\ LocalInv /\ [Next]_vars => IInv' /\ LocalInv'
  BY Inductive, LocalStep
<1>3. IInv /\ LocalInv => TypeOK
  BY TypeFollows
<1> QED
  BY <1>1, <1>2, <1>3, PTL DEF Spec

-----------------------------------------------------------------------------
(***************************************************************************)
(* The inductive invariant for durations.  Where regions do not nest, the  *)
(* one region the process is in is at the front of both the queue and the  *)
(* stack; and a frame knows only vertices of its own process.              *)
(***************************************************************************)
RegionsAgree(s, n, queue, stack) ==
  FlatRegions(s) /\ stack # <<>> =>
    /\ queue[1] = stack[1].enter
    /\ stack[1].enter \in 1 .. n
    /\ \A j \in stack[1].enter .. n : Depth(s, j) = 1

FrameOK(p, s, g, frame) ==
  frame.vertex # NullVertex =>
    /\ frame.vertex \in DOMAIN g
    /\ g[frame.vertex].type # "synthetic" /\ g[frame.vertex].proc = p
    /\ FlatRegions(s) => g[frame.vertex].region = frame.enter

FramesOK(p, s, g, stack) == \A k \in DOMAIN stack : FrameOK(p, s, g, stack[k])

SpanOK(tr, v) ==
  v.type # "synthetic" =>
    /\ {"region", "duration"} \subseteq DOMAIN v
    /\ FlatRegions(tr[v.proc]) /\ v.duration # NoSpan =>
         v.duration = <<v.region, LeaveOf(tr[v.proc], v.region)>>

DurationInv ==
  /\ \A d \in DOMAIN graph : SpanOK(program, graph[d])
  /\ \A p \in Procs :
       /\ RegionsAgree(program[p], pos[p], region_name_queue[p], call_stack[p])
       /\ FramesOK(p, program[p], graph, call_stack[p])

LEMMA LeaveFacts ==
  ASSUME NEW s, Len(s) \in Nat, NEW n \in Nat, n + 1 \in 1 .. Len(s),
         NEW e \in 1 .. n, \A j \in e .. n : Depth(s, j) = 1, Depth(s, n + 1) = 0
  PROVE  LeaveOf(s, e) = n + 1
<1> DEFINE places == {j \in e + 1 .. Len(s) : Depth(s, j) < Depth(s, e)}
<1>1. Depth(s, e) = 1
  OBVIOUS
<1>2. n + 1 \in places
  BY <1>1
<1>3. ASSUME NEW j \in places PROVE n + 1 <= j
  <2>1. j \in e + 1 .. Len(s) /\ Depth(s, j) # 1
    BY <1>1
  <2>2. j \notin e .. n
    BY <2>1
  <2> QED
    BY <2>1, <2>2
<1>4. \A j \in places : j \in Nat
  OBVIOUS
<1> HIDE DEF places
<1>5. ASSUME NEW m \in places, \A y \in places : m <= y
      PROVE  m = n + 1
  <2>1. m <= n + 1 /\ n + 1 <= m
    BY <1>2, <1>3, <1>5
  <2> QED
    BY <1>4, <2>1
<1>6. Min(places) \in places /\ \A y \in places : Min(places) <= y
  BY <1>2, <1>3, Zenon DEF Min
<1>7. Min(places) = n + 1
  BY <1>5, <1>6
<1> QED
  BY <1>7 DEF LeaveOf, places

(* Vertices stay what they are, except for durations and root events. *)
Extends(g, h) ==
  /\ DOMAIN g \subseteq DOMAIN h
  /\ \A d \in DOMAIN g :
       /\ h[d].type = g[d].type
       /\ g[d].type # "synthetic" => h[d].proc = g[d].proc /\ h[d].region = g[d].region

LEMMA DurationKept ==
  ASSUME DurationInv, NEW p \in Procs, UNCHANGED program,
         \A q \in Procs \ {p} : /\ pos'[q] = pos[q] /\ call_stack'[q] = call_stack[q]
                                /\ region_name_queue'[q] = region_name_queue[q],
         Extends(graph, graph'),
         \A d \in DOMAIN graph' : SpanOK(program, graph'[d]),
         RegionsAgree(program[p], pos'[p], region_name_queue'[p], call_stack'[p]),
         FramesOK(p, program[p], graph', call_stack'[p])
  PROVE  DurationInv'
<1>1. ASSUME NEW q, NEW frame, FrameOK(q, program[q], graph, frame)
      PROVE  FrameOK(q, program[q], graph', frame)
  BY <1>1 DEF FrameOK, Extends
<1>2. ASSUME NEW q \in Procs
      PROVE  /\ RegionsAgree(program[q], pos'[q], region_name_queue'[q], call_stack'[q])
             /\ FramesOK(q, program[q], graph', call_stack'[q])
  <2>1. CASE q = p
    BY <2>1
  <2>2. CASE q # p
    BY <1>1, <2>2 DEF DurationInv, FramesOK
  <2> QED
    BY <2>1, <2>2
<1> QED
  BY <1>2 DEF DurationInv

(* Steps that read no event. *)
LEMMA DurationIdle ==
  ASSUME DurationInv, UNCHANGED <<program, pos, region_name_queue, call_stack>>,
         Extends(graph, graph'),
         \A d \in DOMAIN graph' : SpanOK(program, graph'[d])
  PROVE  DurationInv'
<1>1. 0 \in Procs
  BY NProcsAssumption DEF Procs
<1>2. ASSUME NEW frame, FrameOK(0, program[0], graph, frame)
      PROVE  FrameOK(0, program[0], graph', frame)
  BY <1>2 DEF FrameOK, Extends
<1>3. /\ RegionsAgree(program[0], pos'[0], region_name_queue'[0], call_stack'[0])
      /\ FramesOK(0, program[0], graph', call_stack'[0])
  BY <1>1, <1>2 DEF DurationInv, FramesOK
<1> QED
  BY <1>1, <1>3, DurationKept

(* Setting root events. *)
RootsOnly(g, h) ==
  /\ DOMAIN h = DOMAIN g
  /\ \A d \in DOMAIN g : /\ DOMAIN h[d] = DOMAIN g[d]
                         /\ \A f \in DOMAIN g[d] \ {"root_event"} : h[d][f] = g[d][f]

LEMMA RootSet ==
  ASSUME NEW g, IsSequence(g), NEW d, NEW x
  PROVE  /\ RootsOnly(g, [g EXCEPT ![d].root_event = x])
         /\ RootsOnly(g, g)
         /\ IsSequence([g EXCEPT ![d].root_event = x])
<1> DEFINE v == [g[d] EXCEPT !.root_event = x]
<1>1. DOMAIN v = DOMAIN g[d] /\ \A f \in DOMAIN g[d] \ {"root_event"} : v[f] = g[d][f]
  OBVIOUS
<1>2. [g EXCEPT ![d].root_event = x] = [g EXCEPT ![d] = v]
  OBVIOUS
<1> HIDE DEF v
<1>3. /\ DOMAIN [g EXCEPT ![d] = v] = DOMAIN g /\ IsSequence([g EXCEPT ![d] = v])
      /\ \A j \in DOMAIN g : [g EXCEPT ![d] = v][j] = IF j = d THEN v ELSE g[j]
  BY ExceptFacts
<1>4. RootsOnly(g, [g EXCEPT ![d] = v])
  BY <1>1, <1>3 DEF RootsOnly
<1>5. RootsOnly(g, g)
  BY DEF RootsOnly
<1> QED
  BY <1>2, <1>3, <1>4, <1>5

LEMMA MatchRoots ==
  ASSUME IInv, MatchingNext
  PROVE  RootsOnly(graph, graph')
<1>1. IsSequence(graph)
  BY DEF IInv, GraphInv
<1>2. RootsOnly(graph, graph)
  BY <1>1, RootSet
<1>3. \A d, x : RootsOnly(graph, [graph EXCEPT ![d].root_event = x])
  BY <1>1, RootSet
<1>4. ASSUME NEW c, NEW d, NEW x
      PROVE  RootsOnly(graph, [graph EXCEPT ![c].root_event = x, ![d].root_event = x])
  <2> DEFINE g == [graph EXCEPT ![c].root_event = x]
  <2>1. RootsOnly(graph, g) /\ IsSequence(g)
    BY <1>1, RootSet
  <2>2. [graph EXCEPT ![c].root_event = x, ![d].root_event = x] = [g EXCEPT ![d].root_event = x]
    OBVIOUS
  <2> HIDE DEF g
  <2>3. RootsOnly(g, [g EXCEPT ![d].root_event = x])
    BY <2>1, RootSet
  <2>4. RootsOnly(graph, [g EXCEPT ![d].root_event = x])
    BY <2>1, <2>3 DEF RootsOnly
  <2> QED
    BY <2>2, <2>4
<1>5. CASE NextLocation \/ SkipVertex \/ SkipMyself \/ set_graph_properties
  BY <1>2, <1>5 DEF NextLocation, SkipVertex, SkipMyself, set_graph_properties
<1>6. CASE ConnectMember
  <2>1. GiveUp \/ \E q, n : Connect(q, n)
    BY <1>6 DEF ConnectMember
  <2>2. CASE GiveUp
    BY <1>2, <2>2 DEF GiveUp
  <2>3. ASSUME NEW q, NEW n, Connect(q, n)
        PROVE  RootsOnly(graph, graph')
    <3>1. PICK target : target = synchronizations[q][n]
      OBVIOUS
    <3>2. graph' = [graph EXCEPT ![target].root_event = v_desc]
      BY <2>3, <3>1 DEF Connect
    <3> QED
      BY <1>3, <3>2
  <2> QED
    BY <2>1, <2>2, <2>3
<1>7. CASE FinishCollective
  BY <1>3, <1>7 DEF FinishCollective
<1>8. CASE ConnectPeer
  BY <1>2, <1>4, <1>8 DEF ConnectPeer, GiveUp
<1> QED
  BY <1>5, <1>6, <1>7, <1>8 DEF MatchingNext

LEMMA DurationMatch ==
  ASSUME IInv, DurationInv, Match
  PROVE  DurationInv'
<1>1. RootsOnly(graph, graph')
  BY MatchRoots DEF Match
<1>2. \A d \in DOMAIN graph : /\ "type" \in DOMAIN graph[d]
                              /\ graph[d].type # "synthetic" => "proc" \in DOMAIN graph[d]
  BY DEF IInv, GraphInv, GoodVertex
<1>3. \A d \in DOMAIN graph :
        graph[d].type # "synthetic" => {"region", "duration"} \subseteq DOMAIN graph[d]
  BY DEF DurationInv, SpanOK
<1>4. \A d \in DOMAIN graph :
        /\ graph'[d].type = graph[d].type
        /\ graph[d].type # "synthetic" =>
             /\ graph'[d].proc = graph[d].proc /\ graph'[d].region = graph[d].region
             /\ graph'[d].duration = graph[d].duration
             /\ {"region", "duration"} \subseteq DOMAIN graph'[d]
  <2> SUFFICES ASSUME NEW d \in DOMAIN graph
      PROVE  /\ graph'[d].type = graph[d].type
             /\ graph[d].type # "synthetic" =>
                  /\ graph'[d].proc = graph[d].proc /\ graph'[d].region = graph[d].region
                  /\ graph'[d].duration = graph[d].duration
                  /\ {"region", "duration"} \subseteq DOMAIN graph'[d]
    OBVIOUS
  <2>1. /\ DOMAIN graph'[d] = DOMAIN graph[d]
        /\ \A f \in DOMAIN graph[d] \ {"root_event"} : graph'[d][f] = graph[d][f]
    BY <1>1 DEF RootsOnly
  <2>2. graph'[d].type = graph[d].type
    BY <1>2, <2>1
  <2>3. ASSUME graph[d].type # "synthetic"
        PROVE  /\ graph'[d].proc = graph[d].proc /\ graph'[d].region = graph[d].region
               /\ graph'[d].duration = graph[d].duration
    BY <1>2, <1>3, <2>1, <2>3
  <2> QED
    BY <1>3, <2>1, <2>2, <2>3
<1>5. Extends(graph, graph')
  BY <1>1, <1>4 DEF Extends, RootsOnly
<1>6. \A d \in DOMAIN graph' : SpanOK(program, graph'[d])
  BY <1>1, <1>4 DEF DurationInv, SpanOK, RootsOnly
<1> QED
  BY <1>5, <1>6, DurationIdle DEF Match, locals

(***************************************************************************)
(* What the handlers of process p find: its regions, and in a process      *)
(* whose regions do not nest at most one of them.                          *)
(***************************************************************************)
LEMMA RegionFacts ==
  ASSUME IInv, LocalInv, NEW p \in Procs, NEW kinds, Reads(p, kinds)
  PROVE  /\ region_name_queue[p] \in Seq(Nat) /\ call_stack[p] \in Seq(FrameSet)
         /\ Len(region_name_queue[p]) = Depth(program[p], pos[p])
         /\ Len(call_stack[p]) = Depth(program[p], pos[p])
         /\ Depth(program[p], pos[p]) \in Nat
         /\ FlatRegions(program[p]) => /\ Depth(program[p], pos[p]) <= 1
                                       /\ Depth(program[p], Now(p)) <= 1
<1> DEFINE s == program[p]
<1>1. LocalOK(s, pos[p], region_name_queue[p], call_stack[p], offset_map[p])
  BY DEF LocalInv
<1>2. Now(p) \in 1 .. Len(s) /\ pos[p] \in Nat /\ Len(s) \in Nat /\ s \in Seq(Range(s))
  BY EventFacts
<1>3. DOMAIN s = 1 .. Len(s)
  BY <1>2, LenProperties
<1>4. Depth(s, 0) = 0
  BY DepthZero
<1>5. pos[p] = 0 \/ pos[p] \in DOMAIN s
  BY <1>1, <1>2, <1>3 DEF LocalOK
<1>6. Len(call_stack[p]) \in Nat
  BY <1>1, LenProperties DEF LocalOK
<1> HIDE DEF s
<1>7. FlatRegions(s) => Depth(s, pos[p]) <= 1 /\ Depth(s, Now(p)) <= 1
  BY <1>2, <1>3, <1>4, <1>5 DEF FlatRegions
<1> QED
  BY <1>1, <1>6, <1>7 DEF LocalOK, s

LEMMA DurationVertex ==
  ASSUME IInv, LocalInv, DurationInv, NEW p \in Procs, NEW kinds, Reads(p, kinds),
         evt(p).kind \in SyncKinds \cup IoKinds,
         NEW v, v.type # "synthetic", v.proc = p, v.region = region_name(p),
         v.duration = NoSpan, {"region", "duration"} \subseteq DOMAIN v,
         graph' = Append(graph, v),
         call_stack' = [call_stack EXCEPT ![p][1].vertex = Len(graph) + 1],
         UNCHANGED region_name_queue
  PROVE  DurationInv'
<1> DEFINE s == program[p]
           queue == region_name_queue[p]
           stack == call_stack[p]
           d == Len(graph) + 1
           new == [stack EXCEPT ![1].vertex = d]
<1>1. /\ queue \in Seq(Nat) /\ stack \in Seq(FrameSet)
      /\ Len(queue) = Depth(s, pos[p]) /\ Len(stack) = Depth(s, pos[p])
      /\ Depth(s, pos[p]) \in Nat
      /\ FlatRegions(s) => Depth(s, pos[p]) <= 1 /\ Depth(s, Now(p)) <= 1
  BY RegionFacts
<1>2. /\ Depth(s, pos[p]) > 0 /\ Depth(s, Now(p)) = Depth(s, pos[p])
      /\ Now(p) = pos[p] + 1 /\ pos[p] \in Nat
      /\ pos' = [pos EXCEPT ![p] = Now(p)] /\ DOMAIN pos = Procs
  <2>1. evt(p).kind \notin {"enter", "leave"}
    BY DEF SyncKinds, IoKinds, PeerKinds
  <2>2. /\ evt(p).kind \in SyncKinds \cup IoKinds \cup {"leave"} => Depth(s, pos[p]) > 0
        /\ Now(p) = pos[p] + 1 /\ pos[p] \in Nat
        /\ pos' = [pos EXCEPT ![p] = Now(p)] /\ DOMAIN pos = Procs
    BY EventFacts
  <2>3. Depth(s, Now(p)) =
          CASE evt(p).kind = "enter" -> Depth(s, pos[p]) + 1
            [] evt(p).kind = "leave" -> Depth(s, pos[p]) - 1
            [] OTHER -> Depth(s, pos[p])
    BY EventFacts
  <2> HIDE DEF s
  <2> QED
    BY <2>1, <2>2, <2>3
<1>3. /\ IsSequence(graph)
      /\ DOMAIN graph' = DOMAIN graph \cup {d} /\ graph'[d] = v
      /\ \A c \in DOMAIN graph : graph'[c] = graph[c]
      /\ d \notin DOMAIN graph
  BY AppendFacts DEF IInv, GraphInv
<1>4. call_stack'[p] = new /\ \A q \in Procs \ {p} : call_stack'[q] = call_stack[q]
  BY DEF LocalInv, PerProcess
<1>5. /\ 1 \in DOMAIN stack /\ DOMAIN new = DOMAIN stack
      /\ new[1] = [stack[1] EXCEPT !.vertex = d]
      /\ \A k \in DOMAIN stack : k # 1 => new[k] = stack[k]
      /\ stack[1] \in FrameSet
  <2>1. DOMAIN stack = 1 .. Len(stack) /\ 1 \in DOMAIN stack
    BY <1>1, <1>2, LenProperties
  <2>2. stack[1] \in FrameSet
    BY <1>1, <2>1, ElementOfSeq
  <2> HIDE DEF d, stack
  <2> QED
    BY <2>1, <2>2
<1>6. new[1].vertex = d /\ new[1].enter = stack[1].enter
  BY <1>5 DEF FrameSet
<1> HIDE DEF s, queue, stack, d, new
<1>7. RegionsAgree(s, pos[p], queue, stack) /\ FramesOK(p, s, graph, stack)
  BY DEF DurationInv, s, queue, stack
<1>8. stack # <<>>
  BY <1>1, <1>2
<1>9. RegionsAgree(s, Now(p), queue, new)
  <2> SUFFICES ASSUME FlatRegions(s)
      PROVE  /\ queue[1] = new[1].enter
             /\ new[1].enter \in 1 .. Now(p)
             /\ \A j \in new[1].enter .. Now(p) : Depth(s, j) = 1
    BY DEF RegionsAgree
  <2>1. /\ queue[1] = stack[1].enter /\ stack[1].enter \in 1 .. pos[p]
        /\ \A j \in stack[1].enter .. pos[p] : Depth(s, j) = 1
    BY <1>7, <1>8 DEF RegionsAgree
  <2>2. Depth(s, Now(p)) = 1
    BY <1>2, <2>1
  <2> QED
    BY <1>2, <1>6, <2>1, <2>2
<1>10. Extends(graph, graph')
  BY <1>3 DEF Extends
<1>11. FramesOK(p, s, graph', new)
  <2> SUFFICES ASSUME NEW k \in DOMAIN stack
      PROVE  FrameOK(p, s, graph', new[k])
    BY <1>5 DEF FramesOK
  <2>1. CASE k = 1
    <3>1. FlatRegions(s) => v.region = new[1].enter
      <4>1. ASSUME FlatRegions(s) PROVE Len(queue) = 1
        BY <1>1, <1>2, <4>1
      <4>2. FlatRegions(s) => Last(queue) = queue[1]
        BY <4>1 DEF Last
      <4>3. FlatRegions(s) => queue[1] = stack[1].enter
        BY <1>7, <1>8 DEF RegionsAgree
      <4> QED
        BY <1>6, <4>2, <4>3 DEF region_name, queue
    <3> QED
      BY <1>3, <1>6, <2>1, <3>1 DEF FrameOK
  <2>2. CASE k # 1
    BY <1>5, <1>7, <1>10, <2>2 DEF FramesOK, FrameOK, Extends
  <2> QED
    BY <2>1, <2>2
<1>12. \A c \in DOMAIN graph' : SpanOK(program, graph'[c])
  BY <1>3 DEF DurationInv, SpanOK
<1>13. UNCHANGED program
  BY DEF Reads
<1> QED
  BY <1>2, <1>4, <1>9, <1>10, <1>11, <1>12, <1>13, DurationKept DEF s, queue

(* Events that add no vertex, and enter and leave no region. *)
LEMMA DurationQuiet ==
  ASSUME IInv, LocalInv, DurationInv, NEW p \in Procs, NEW kinds, Reads(p, kinds),
         evt(p).kind \notin {"enter", "leave"},
         UNCHANGED <<graph, region_name_queue, call_stack>>
  PROVE  DurationInv'
<1> DEFINE s == program[p]
           queue == region_name_queue[p]
           stack == call_stack[p]
<1>1. /\ Now(p) = pos[p] + 1 /\ pos[p] \in Nat
      /\ pos' = [pos EXCEPT ![p] = Now(p)] /\ DOMAIN pos = Procs
  BY EventFacts
<1>2. Depth(s, Now(p)) = Depth(s, pos[p])
  <2>1. Depth(s, Now(p)) =
          CASE evt(p).kind = "enter" -> Depth(s, pos[p]) + 1
            [] evt(p).kind = "leave" -> Depth(s, pos[p]) - 1
            [] OTHER -> Depth(s, pos[p])
    BY EventFacts
  <2> HIDE DEF s
  <2> QED
    BY <2>1
<1> HIDE DEF s, queue, stack
<1>3. RegionsAgree(s, pos[p], queue, stack) /\ FramesOK(p, s, graph, stack)
  BY DEF DurationInv, s, queue, stack
<1>4. RegionsAgree(s, Now(p), queue, stack)
  BY <1>1, <1>2, <1>3 DEF RegionsAgree
<1>5. Extends(graph, graph')
  BY DEF Extends
<1>6. \A c \in DOMAIN graph' : SpanOK(program, graph'[c])
  BY DEF DurationInv
<1>7. UNCHANGED program
  BY DEF Reads
<1> QED
  BY <1>1, <1>3, <1>4, <1>5, <1>6, <1>7, DurationKept DEF s, queue, stack

LEMMA DurationEnter ==
  ASSUME IInv, LocalInv, DurationInv, NEW p \in Procs, Enter(p)
  PROVE  DurationInv'
<1> DEFINE s == program[p]
           queue == region_name_queue[p]
           stack == call_stack[p]
           frame == Frame(Now(p))
<1>1. Reads(p, {"enter"}) /\ evt(p).kind = "enter"
  BY DEF Enter, Reads
<1>2. /\ Now(p) = pos[p] + 1 /\ pos[p] \in Nat
      /\ pos' = [pos EXCEPT ![p] = Now(p)] /\ DOMAIN pos = Procs
  BY <1>1, EventFacts
<1>3. /\ queue \in Seq(Nat) /\ stack \in Seq(FrameSet)
      /\ Len(queue) = Depth(s, pos[p]) /\ Len(stack) = Depth(s, pos[p])
      /\ Depth(s, pos[p]) \in Nat
      /\ FlatRegions(s) => Depth(s, pos[p]) <= 1 /\ Depth(s, Now(p)) <= 1
  BY <1>1, RegionFacts
<1>4. Depth(s, Now(p)) = Depth(s, pos[p]) + 1
  <2>1. Depth(s, Now(p)) =
          CASE evt(p).kind = "enter" -> Depth(s, pos[p]) + 1
            [] evt(p).kind = "leave" -> Depth(s, pos[p]) - 1
            [] OTHER -> Depth(s, pos[p])
    BY <1>1, EventFacts
  <2> HIDE DEF s
  <2> QED
    BY <1>1, <2>1
<1>5. /\ call_stack'[p] = Append(stack, frame)
      /\ region_name_queue'[p] = Append(queue, Now(p))
      /\ \A q \in Procs \ {p} : /\ call_stack'[q] = call_stack[q]
                                /\ region_name_queue'[q] = region_name_queue[q]
      /\ UNCHANGED <<graph, program>>
  BY DEF Enter, Reads, LocalInv, PerProcess
<1>6. /\ IsSequence(stack) /\ IsSequence(queue)
      /\ frame.vertex = NullVertex /\ frame.enter = Now(p)
  BY <1>3, SequenceOver DEF Frame
<1> HIDE DEF s, queue, stack, frame
<1>7. RegionsAgree(s, Now(p), Append(queue, Now(p)), Append(stack, frame))
  <2> SUFFICES ASSUME FlatRegions(s)
      PROVE  /\ Append(queue, Now(p))[1] = Append(stack, frame)[1].enter
             /\ Append(stack, frame)[1].enter \in 1 .. Now(p)
             /\ \A j \in Append(stack, frame)[1].enter .. Now(p) : Depth(s, j) = 1
    BY DEF RegionsAgree
  <2>1. Len(stack) = 0 /\ Len(queue) = 0 /\ Depth(s, Now(p)) = 1
    BY <1>3, <1>4
  <2>2. Append(stack, frame)[1] = frame /\ Append(queue, Now(p))[1] = Now(p)
    BY <1>3, <2>1, AppendProperties
  <2>3. \A j \in Now(p) .. Now(p) : j = Now(p)
    BY <1>2
  <2> QED
    BY <1>2, <1>6, <2>1, <2>2, <2>3
<1>8. FramesOK(p, s, graph, Append(stack, frame))
  <2>1. FramesOK(p, s, graph, stack)
    BY DEF DurationInv, s, stack
  <2>2. FrameOK(p, s, graph, frame)
    BY <1>6 DEF FrameOK
  <2>3. /\ DOMAIN Append(stack, frame) = DOMAIN stack \cup {Len(stack) + 1}
        /\ Append(stack, frame)[Len(stack) + 1] = frame
        /\ \A k \in DOMAIN stack : Append(stack, frame)[k] = stack[k]
    BY <1>6, AppendFacts
  <2> QED
    BY <2>1, <2>2, <2>3 DEF FramesOK
<1>9. Extends(graph, graph')
  BY <1>5 DEF Extends
<1>10. \A c \in DOMAIN graph' : SpanOK(program, graph'[c])
  BY <1>5 DEF DurationInv
<1> QED
  BY <1>2, <1>5, <1>7, <1>8, <1>9, <1>10, DurationKept DEF s

LEMMA DurationLeave ==
  ASSUME IInv, LocalInv, DurationInv, NEW p \in Procs, Leave(p)
  PROVE  DurationInv'
<1> DEFINE s == program[p]
           queue == region_name_queue[p]
           stack == call_stack[p]
           frame == Head(stack)
           d == frame.vertex
           span == <<frame.enter, Now(p)>>
<1>1. Reads(p, {"leave"}) /\ evt(p).kind = "leave"
  BY DEF Leave, Reads
<1>2. /\ Now(p) = pos[p] + 1 /\ pos[p] \in Nat /\ Now(p) \in 1 .. Len(s) /\ Len(s) \in Nat
      /\ pos' = [pos EXCEPT ![p] = Now(p)] /\ DOMAIN pos = Procs
      /\ Depth(s, pos[p]) > 0
  BY <1>1, EventFacts
<1>3. /\ queue \in Seq(Nat) /\ stack \in Seq(FrameSet)
      /\ Len(queue) = Depth(s, pos[p]) /\ Len(stack) = Depth(s, pos[p])
      /\ Depth(s, pos[p]) \in Nat
      /\ FlatRegions(s) => Depth(s, pos[p]) <= 1 /\ Depth(s, Now(p)) <= 1
  BY <1>1, RegionFacts
<1>4. Depth(s, Now(p)) = Depth(s, pos[p]) - 1
  <2>1. Depth(s, Now(p)) =
          CASE evt(p).kind = "enter" -> Depth(s, pos[p]) + 1
            [] evt(p).kind = "leave" -> Depth(s, pos[p]) - 1
            [] OTHER -> Depth(s, pos[p])
    BY <1>1, EventFacts
  <2> HIDE DEF s
  <2> QED
    BY <1>1, <2>1
<1>5. /\ call_stack'[p] = Tail(stack)
      /\ region_name_queue'[p] = Front(queue)
      /\ \A q \in Procs \ {p} : /\ call_stack'[q] = call_stack[q]
                                /\ region_name_queue'[q] = region_name_queue[q]
      /\ UNCHANGED program
      /\ graph' = IF d = NullVertex THEN graph ELSE [graph EXCEPT ![d].duration = span]
  BY DEF Leave, Reads, LocalInv, PerProcess
<1>6. /\ frame = stack[1] /\ stack # <<>> /\ 1 \in DOMAIN stack
      /\ DOMAIN Tail(stack) = 1 .. Len(stack) - 1
      /\ \A k \in 1 .. Len(stack) - 1 : k + 1 \in DOMAIN stack /\ Tail(stack)[k] = stack[k + 1]
  <2>1. Len(stack) > 0 /\ Len(stack) \in Nat /\ DOMAIN stack = 1 .. Len(stack)
    BY <1>2, <1>3, LenProperties
  <2>2. stack # <<>> /\ Head(stack) = stack[1]
    BY <1>3, <2>1, LastFacts
  <2>3. /\ Tail(stack) \in Seq(FrameSet) /\ Len(Tail(stack)) = Len(stack) - 1
        /\ \A k \in 1 .. Len(Tail(stack)) : Tail(stack)[k] = stack[k + 1]
    BY <1>3, <2>2, HeadTailProperties
  <2>4. DOMAIN Tail(stack) = 1 .. Len(stack) - 1
    BY <2>3, LenProperties
  <2> QED
    BY <2>1, <2>2, <2>3, <2>4
<1> HIDE DEF s, queue, stack
<1>7. RegionsAgree(s, pos[p], queue, stack) /\ FramesOK(p, s, graph, stack)
  BY DEF DurationInv, s, queue, stack
<1>8. FrameOK(p, s, graph, frame)
  BY <1>6, <1>7 DEF FramesOK
<1> HIDE DEF frame
<1>9. FlatRegions(s) => LeaveOf(s, frame.enter) = Now(p) /\ Len(stack) = 1
  <2> SUFFICES ASSUME FlatRegions(s)
      PROVE  LeaveOf(s, frame.enter) = Now(p) /\ Len(stack) = 1
    OBVIOUS
  <2>1. Depth(s, pos[p]) = 1 /\ Depth(s, Now(p)) = 0
    BY <1>2, <1>3, <1>4
  <2>2. frame.enter \in 1 .. pos[p] /\ \A j \in frame.enter .. pos[p] : Depth(s, j) = 1
    BY <1>6, <1>7 DEF RegionsAgree
  <2>3. LeaveOf(s, frame.enter) = pos[p] + 1
    BY <1>2, <2>1, <2>2, LeaveFacts
  <2> QED
    BY <1>2, <1>3, <2>1, <2>3
<1>10. /\ DOMAIN graph' = DOMAIN graph
       /\ \A c \in DOMAIN graph : c # d => graph'[c] = graph[c]
       /\ d # NullVertex => graph'[d] = [graph[d] EXCEPT !.duration = span]
       /\ d = NullVertex => graph' = graph
  <2>1. CASE d = NullVertex
    BY <1>5, <2>1
  <2>2. CASE d # NullVertex
    <3>1. graph' = [graph EXCEPT ![d] = [graph[d] EXCEPT !.duration = span]]
      BY <1>5, <2>2
    <3>2. IsSequence(graph) /\ d \in DOMAIN graph
      BY <1>8, <2>2 DEF IInv, GraphInv, FrameOK
    <3> HIDE DEF d, span
    <3> QED
      BY <2>2, <3>1, <3>2, ExceptFacts
  <2> QED
    BY <2>1, <2>2
<1> HIDE DEF d, span
<1>11. ASSUME d # NullVertex
       PROVE  /\ d \in DOMAIN graph /\ graph[d].type # "synthetic" /\ graph[d].proc = p
              /\ FlatRegions(s) => graph[d].region = frame.enter
              /\ {"type", "proc", "region", "duration"} \subseteq DOMAIN graph[d]
  <2>1. /\ d \in DOMAIN graph /\ graph[d].type # "synthetic" /\ graph[d].proc = p
        /\ FlatRegions(s) => graph[d].region = frame.enter
    BY <1>8, <1>11 DEF FrameOK, d
  <2>2. {"type", "proc"} \subseteq DOMAIN graph[d]
    BY <2>1 DEF IInv, GraphInv, GoodVertex
  <2>3. {"region", "duration"} \subseteq DOMAIN graph[d]
    BY <2>1 DEF DurationInv, SpanOK
  <2> QED
    BY <2>1, <2>2, <2>3
<1>12. ASSUME d # NullVertex
       PROVE  /\ graph'[d].type = graph[d].type /\ graph'[d].proc = p
              /\ graph'[d].region = graph[d].region /\ graph'[d].duration = span
              /\ DOMAIN graph'[d] = DOMAIN graph[d]
  BY <1>10, <1>11, <1>12
<1>13. Extends(graph, graph')
  <2>1. CASE d = NullVertex
    BY <1>10, <2>1 DEF Extends
  <2>2. CASE d # NullVertex
    BY <1>10, <1>11, <1>12, <2>2 DEF Extends
  <2> QED
    BY <2>1, <2>2
<1>14. \A c \in DOMAIN graph' : SpanOK(program, graph'[c])
  <2>1. \A c \in DOMAIN graph : SpanOK(program, graph[c])
    BY DEF DurationInv
  <2>2. d # NullVertex => SpanOK(program, graph'[d])
    <3>1. ASSUME d # NullVertex, FlatRegions(s)
          PROVE  graph'[d].duration = <<graph'[d].region, LeaveOf(s, graph'[d].region)>>
      BY <1>9, <1>11, <1>12, <3>1 DEF span
    <3> QED
      BY <1>11, <1>12, <3>1 DEF SpanOK, s
  <2> QED
    BY <1>10, <2>1, <2>2
<1>15. FramesOK(p, s, graph', Tail(stack))
  <2>1. ASSUME NEW f, FrameOK(p, s, graph, f)
        PROVE  FrameOK(p, s, graph', f)
    BY <1>13, <2>1 DEF FrameOK, Extends
  <2>2. \A k \in DOMAIN Tail(stack) : FrameOK(p, s, graph, Tail(stack)[k])
    BY <1>6, <1>7 DEF FramesOK
  <2> QED
    BY <2>1, <2>2 DEF FramesOK
<1>16. RegionsAgree(s, Now(p), Front(queue), Tail(stack))
  <2>1. FlatRegions(s) => Tail(stack) = <<>>
    <3>1. Tail(stack) \in Seq(FrameSet) /\ Len(Tail(stack)) = Len(stack) - 1
      BY <1>3, <1>6, HeadTailProperties
    <3> QED
      BY <1>9, <3>1
  <2> QED
    BY <2>1 DEF RegionsAgree
<1> QED
  BY <1>2, <1>5, <1>13, <1>14, <1>15, <1>16, DurationKept, ZenonT(40) DEF s

(* What every handler that adds a vertex does. *)
LEMMA IoEventAdded ==
  ASSUME NEW p \in Procs, NEW name, NEW kind, NEW size, NEW offset,
         AddIoEvent(p, name, kind, size, offset)
  PROVE  LET v == IoEvent(p, name, kind, size, offset) IN
         /\ v.type = "io_event" /\ v.proc = p /\ v.region = region_name(p)
         /\ v.duration = NoSpan /\ v.timestamp = Now(p) /\ v.kind = kind /\ v.offset = offset
         /\ {"type", "proc", "region", "duration", "kind", "offset", "timestamp"}
              \subseteq DOMAIN v
         /\ graph' = Append(graph, v)
         /\ call_stack' = [call_stack EXCEPT ![p][1].vertex = Len(graph) + 1]
         /\ UNCHANGED <<region_name_queue, synchronizations, status>>
BY DEF AddIoEvent, AddVertex, IoEvent

LEMMA SyncEventAdded ==
  ASSUME NEW p \in Procs, NEW comm_kind, NEW remote, NEW members, NEW root,
         AddSyncEvent(p, SyncEvent(p, comm_kind, remote, members, root))
  PROVE  LET v == SyncEvent(p, comm_kind, remote, members, root) IN
         /\ v.type = "sync_event" /\ v.proc = p /\ v.region = region_name(p)
         /\ v.duration = NoSpan /\ v.timestamp = Now(p)
         /\ {"type", "proc", "region", "duration", "timestamp"} \subseteq DOMAIN v
         /\ graph' = Append(graph, v)
         /\ call_stack' = [call_stack EXCEPT ![p][1].vertex = Len(graph) + 1]
         /\ UNCHANGED <<region_name_queue, io_ops_started, offset_map, status>>
BY DEF AddSyncEvent, AddVertex, SyncEvent

LEMMA DurationIo ==
  ASSUME IInv, LocalInv, DurationInv, NEW p \in Procs, NEW kinds, Reads(p, kinds),
         evt(p).kind \in IoKinds,
         NEW name, NEW kind, NEW size, NEW offset,
         AddIoEvent(p, name, kind, size, offset)
  PROVE  DurationInv'
<1>1. PICK v : v = IoEvent(p, name, kind, size, offset)
  OBVIOUS
<1>2. /\ v.type = "io_event" /\ v.proc = p /\ v.region = region_name(p)
      /\ v.duration = NoSpan
      /\ {"type", "proc", "region", "duration", "kind", "offset", "timestamp"} \subseteq DOMAIN v
      /\ graph' = Append(graph, v)
      /\ call_stack' = [call_stack EXCEPT ![p][1].vertex = Len(graph) + 1]
      /\ UNCHANGED region_name_queue
  BY <1>1, IoEventAdded
<1>3. {"region", "duration"} \subseteq DOMAIN v /\ v.type # "synthetic"
  BY <1>2
<1> QED
  BY <1>2, <1>3, DurationVertex

LEMMA DurationSync ==
  ASSUME IInv, LocalInv, DurationInv, NEW p \in Procs, NEW kinds, Reads(p, kinds),
         evt(p).kind \in SyncKinds,
         NEW comm_kind, NEW remote, NEW members, NEW root,
         AddSyncEvent(p, SyncEvent(p, comm_kind, remote, members, root))
  PROVE  DurationInv'
<1>1. PICK v : v = SyncEvent(p, comm_kind, remote, members, root)
  OBVIOUS
<1>2. /\ v.type = "sync_event" /\ v.proc = p /\ v.region = region_name(p)
      /\ v.duration = NoSpan
      /\ {"type", "proc", "region", "duration", "timestamp"} \subseteq DOMAIN v
      /\ graph' = Append(graph, v)
      /\ call_stack' = [call_stack EXCEPT ![p][1].vertex = Len(graph) + 1]
      /\ UNCHANGED region_name_queue
  BY <1>1, SyncEventAdded
<1>3. {"region", "duration"} \subseteq DOMAIN v /\ v.type # "synthetic"
  BY <1>2
<1> QED
  BY <1>2, <1>3, DurationVertex

LEMMA DurationStep ==
  ASSUME IInv, LocalInv, DurationInv, [Next]_vars
  PROVE  DurationInv'
<1>1. CASE EventNext
  <2>1. PICK p \in Procs :
          \/ Enter(p) \/ Leave(p)
          \/ OperationBegin(p) \/ OperationComplete(p)
          \/ CreateHandle(p) \/ DeleteFile(p) \/ DestroyHandle(p) \/ DuplicateHandle(p)
          \/ Seek(p) \/ CollectiveEnd(p) \/ PeerToPeer(p)
          \/ Other(p)
    BY <1>1 DEF EventNext
  <2>2. ASSUME NEW kinds, Reads(p, kinds), kinds \subseteq IoKinds \/ kinds = {"other"},
               \/ UNCHANGED <<graph, region_name_queue, call_stack>>
               \/ /\ kinds \subseteq IoKinds
                  /\ \E name, kind, size, offset : AddIoEvent(p, name, kind, size, offset)
        PROVE  DurationInv'
    <3>1. /\ evt(p).kind \notin {"enter", "leave"}
          /\ kinds \subseteq IoKinds => evt(p).kind \in IoKinds
      BY <2>2 DEF Reads, IoKinds
    <3>2. CASE UNCHANGED <<graph, region_name_queue, call_stack>>
      BY <2>2, <3>1, <3>2, DurationQuiet
    <3>3. CASE /\ kinds \subseteq IoKinds
               /\ \E name, kind, size, offset : AddIoEvent(p, name, kind, size, offset)
      BY <2>2, <3>1, <3>3, DurationIo
    <3> QED
      BY <2>2, <3>2, <3>3
  <2>3. CASE Enter(p)
    BY <2>3, DurationEnter
  <2>4. CASE Leave(p)
    BY <2>4, DurationLeave
  <2>5. CASE OperationBegin(p)
    BY <2>2, <2>5 DEF OperationBegin, IoKinds
  <2>6. CASE OperationComplete(p)
    <3>1. Reads(p, {"io_operation_complete"}) /\ {"io_operation_complete"} \subseteq IoKinds
      BY <2>6 DEF OperationComplete, IoKinds
    <3>2. \/ UNCHANGED <<graph, region_name_queue, call_stack>>
          \/ \E name, kind, size, offset : AddIoEvent(p, name, kind, size, offset)
      BY <2>6 DEF OperationComplete, Ignore, Abort, locals
    <3> QED
      BY <2>2, <3>1, <3>2
  <2>7. CASE CreateHandle(p)
    <3>1. Reads(p, {"io_create_handle"}) /\ {"io_create_handle"} \subseteq IoKinds
      BY <2>7 DEF CreateHandle, IoKinds
    <3>2. \/ UNCHANGED <<graph, region_name_queue, call_stack>>
          \/ \E name, kind, size, offset : AddIoEvent(p, name, kind, size, offset)
      BY <2>7 DEF CreateHandle, Ignore, locals
    <3> QED
      BY <2>2, <3>1, <3>2
  <2>8. CASE DeleteFile(p) \/ DestroyHandle(p)
    <3>1. PICK kinds : Reads(p, kinds) /\ kinds \subseteq IoKinds
      BY <2>8 DEF DeleteFile, DestroyHandle, IoKinds
    <3>2. \/ UNCHANGED <<graph, region_name_queue, call_stack>>
          \/ \E name, kind, size, offset : AddIoEvent(p, name, kind, size, offset)
      BY <2>8 DEF DeleteFile, DestroyHandle, Drop, Ignore, Abort, locals
    <3> QED
      BY <2>2, <3>1, <3>2
  <2>9. CASE DuplicateHandle(p)
    <3>1. Reads(p, {"io_duplicate_handle"}) /\ {"io_duplicate_handle"} \subseteq IoKinds
      BY <2>9 DEF DuplicateHandle, IoKinds
    <3>2. \E name, kind, size, offset : AddIoEvent(p, name, kind, size, offset)
      BY <2>9 DEF DuplicateHandle
    <3> QED
      BY <2>2, <3>1, <3>2
  <2>10. CASE Seek(p)
    <3>1. Reads(p, {"io_seek"}) /\ {"io_seek"} \subseteq IoKinds
      BY <2>10 DEF Seek, IoKinds
    <3>2. \/ UNCHANGED <<graph, region_name_queue, call_stack>>
          \/ \E name, kind, size, offset : AddIoEvent(p, name, kind, size, offset)
      BY <2>10 DEF Seek, Ignore, locals
    <3> QED
      BY <2>2, <3>1, <3>2
  <2>11. CASE CollectiveEnd(p) \/ PeerToPeer(p)
    <3>1. PICK kinds : Reads(p, kinds) /\ kinds \subseteq SyncKinds
      BY <2>11 DEF CollectiveEnd, PeerToPeer, SyncKinds
    <3>2. evt(p).kind \in SyncKinds /\ evt(p).kind \notin {"enter", "leave"}
      BY <3>1 DEF Reads, SyncKinds, PeerKinds
    <3>3. \/ UNCHANGED <<graph, region_name_queue, call_stack>>
          \/ \E comm_kind, remote, members, root :
               AddSyncEvent(p, SyncEvent(p, comm_kind, remote, members, root))
      BY <2>11 DEF CollectiveEnd, PeerToPeer, Ignore, locals
    <3> QED
      BY <3>1, <3>2, <3>3, DurationQuiet, DurationSync
  <2>12. CASE Other(p)
    BY <2>2, <2>12 DEF Other, Ignore, locals
  <2> QED
    BY <2>1, <2>3, <2>4, <2>5, <2>6, <2>7, <2>8, <2>9, <2>10, <2>11, <2>12
<1>2. ASSUME UNCHANGED <<program, pos, region_name_queue, call_stack, graph>>
      PROVE  DurationInv'
  BY <1>2 DEF DurationInv
<1>3. CASE DefinitionsNext
  BY <1>2, <1>3 DEF DefinitionsNext, RegisterLocation, DefinitionsDone, locals
<1>4. CASE EventsDone
  <2>1. UNCHANGED <<program, pos, region_name_queue, call_stack>>
    BY <1>4 DEF EventsDone, locals
  <2>2. CASE UNCHANGED graph
    BY <1>2, <2>1, <2>2
  <2>3. CASE graph' = Append(graph, Synthetic("End"))
    <3>1. /\ DOMAIN graph' = DOMAIN graph \cup {Len(graph) + 1}
          /\ graph'[Len(graph) + 1] = Synthetic("End")
          /\ \A c \in DOMAIN graph : graph'[c] = graph[c]
      BY <2>3, AppendFacts DEF IInv, GraphInv
    <3>2. Extends(graph, graph')
      BY <3>1 DEF Extends
    <3>3. SpanOK(program, Synthetic("End"))
      BY DEF SpanOK, Synthetic
    <3>4. \A c \in DOMAIN graph' : SpanOK(program, graph'[c])
      BY <3>1, <3>3 DEF DurationInv
    <3> QED
      BY <2>1, <3>2, <3>4, DurationIdle
  <2> QED
    BY <1>4, <2>2, <2>3 DEF EventsDone, create_synthetic_end
<1>5. CASE Match
  BY <1>5, DurationMatch
<1>6. CASE UNCHANGED vars
  BY <1>2, <1>6 DEF vars, locals
<1> QED
  BY <1>1, <1>3, <1>4, <1>5, <1>6 DEF Next

LEMMA DurationInitially ==
  ASSUME Init
  PROVE  DurationInv
<1>1. /\ DOMAIN graph = {root_} /\ graph[root_] = Synthetic("Root")
      /\ \A p \in Procs : call_stack[p] = <<>>
  BY DEF Init, root_
<1> QED
  BY <1>1 DEF DurationInv, SpanOK, Synthetic, RegionsAgree, FramesOK

(***************************************************************************)
(* The duration noted at a vertex of a process whose regions do not nest   *)
(* is that of the region it is named after, for every trace, every order   *)
(* of reading it, and whatever the other processes' regions are like.      *)
(***************************************************************************)
THEOREM FlatDurations == Spec => []FlatDurationsRight
<1>1. Init => IInv /\ LocalInv /\ DurationInv
  BY Initially, LocalInitially, DurationInitially
<1>2. IInv /\ LocalInv /\ DurationInv /\ [Next]_vars => IInv' /\ LocalInv' /\ DurationInv'
  BY Inductive, LocalStep, DurationStep
<1>3. DurationInv => FlatDurationsRight
  BY DEF DurationInv, SpanOK, FlatDurationsRight, DurationOfOwnRegion
<1> QED
  BY <1>1, <1>2, <1>3, PTL DEF Spec

-----------------------------------------------------------------------------
(***************************************************************************)
(* The file position after n events: the recursion has a solution, because *)
(* there is one up to every n.                                             *)
(***************************************************************************)
PositionStep(s, h, f) == [n \in 0 .. Len(s) |-> IF n = 0 THEN 0 ELSE Moved(s, h, n, f[n - 1])]

LEMMA PositionExists ==
  ASSUME NEW s, Len(s) \in Nat, NEW h
  PROVE  \E f : f = PositionStep(s, h, f)
<1> DEFINE Upto(k, f) == f = [n \in 0 .. k |-> IF n = 0 THEN 0 ELSE Moved(s, h, n, f[n - 1])]
           Bad == {k \in Nat : ~\E f : Upto(k, f)}
<1>1. SUFFICES Bad = {}
  <2>1. \E f : Upto(Len(s), f)
    BY <1>1
  <2> QED
    BY <2>1 DEF PositionStep
<1>2. SUFFICES ASSUME Bad # {} PROVE FALSE
  OBVIOUS
<1>3. PICK k \in Bad : \A j \in Bad : k <= j
  <2>1. Bad \in SUBSET Nat
    OBVIOUS
  <2> HIDE DEF Bad
  <2> QED
    BY <1>2, <2>1, LeastNat
<1>4. CASE k = 0
  <2>1. Upto(0, [n \in 0 .. 0 |-> 0])
    OBVIOUS
  <2> QED
    BY <1>4, <2>1
<1>5. CASE k # 0
  <2>1. k \in Nat /\ k - 1 \in Nat /\ k - 1 \notin Bad
    <3>1. k \in Nat
      OBVIOUS
    <3> HIDE DEF Bad
    <3> QED
      BY <1>3, <1>5, <3>1
  <2>2. PICK f : Upto(k - 1, f)
    BY <2>1
  <2> DEFINE g == [n \in 0 .. k |-> IF n = k THEN Moved(s, h, k, f[k - 1]) ELSE f[n]]
  <2>3. \A n \in 0 .. k - 1 : f[n] = IF n = 0 THEN 0 ELSE Moved(s, h, n, f[n - 1])
    BY <2>2
  <2>4. \A n \in 0 .. k : g[n] = IF n = 0 THEN 0 ELSE Moved(s, h, n, g[n - 1])
    <3> SUFFICES ASSUME NEW n \in 0 .. k
        PROVE  g[n] = IF n = 0 THEN 0 ELSE Moved(s, h, n, g[n - 1])
      OBVIOUS
    <3>1. CASE n = k
      <4>1. g[k - 1] = f[k - 1]
        BY <2>1
      <4>2. g[k] = Moved(s, h, k, f[k - 1])
        BY <2>1
      <4> HIDE DEF g
      <4> QED
        BY <1>5, <3>1, <4>1, <4>2
    <3>2. CASE n = 0
      BY <1>5, <2>1, <2>3, <3>2
    <3>3. CASE n # k /\ n # 0
      <4>1. n - 1 \in 0 .. k - 1 /\ n \in 0 .. k - 1
        BY <2>1, <3>3
      <4>2. g[n - 1] = f[n - 1] /\ g[n] = f[n]
        BY <2>1, <4>1
      <4> HIDE DEF g
      <4> QED
        BY <2>3, <3>3, <4>1, <4>2
    <3> QED
      BY <3>1, <3>2, <3>3
  <2>5. Upto(k, g)
    <3>1. g = [n \in 0 .. k |-> g[n]]
      OBVIOUS
    <3> HIDE DEF g
    <3> QED
      BY <2>4, <3>1
  <2> QED
    BY <2>5
<1> QED
  BY <1>4, <1>5

LEMMA PositionFacts ==
  ASSUME NEW s, Len(s) \in Nat, NEW h
  PROVE  /\ Position(s, h)[0] = 0
         /\ \A n \in 1 .. Len(s) : Position(s, h)[n] = Moved(s, h, n, Position(s, h)[n - 1])
<1>1. Position(s, h) = CHOOSE f : f = PositionStep(s, h, f)
  BY Zenon DEF Position, PositionStep
<1>2. PICK f : f = Position(s, h)
  OBVIOUS
<1>3. f = PositionStep(s, h, f)
  BY <1>1, <1>2, PositionExists, Zenon
<1>4. f[0] = 0
  BY <1>3 DEF PositionStep
<1>5. \A n \in 1 .. Len(s) : f[n] = Moved(s, h, n, f[n - 1])
  BY <1>3 DEF PositionStep
<1> QED
  BY <1>2, <1>4, <1>5
LEMMA MovedRange ==
  ASSUME NEW s, WellFormed(s), NEW h, NEW n \in 1 .. Len(s), NEW before \in 0 .. MaxOffset
  PROVE  Moved(s, h, n, before) \in 0 .. MaxOffset
<1>1. MaxOffset \in Nat \ {0} /\ 0 \in 0 .. MaxOffset
  BY MaxOffsetAssumption
<1>2. n \in DOMAIN s
  BY LenProperties DEF WellFormed
<1>3. /\ s[n].kind = "io_seek" => s[n].offset \in 0 .. MaxOffset
      /\ s[n].kind = "io_operation_complete" => s[n].bytes \in 0 .. MaxOffset
  BY <1>2 DEF WellFormed
<1>4. \A x, y \in 0 .. MaxOffset : Wrap(x + y) \in 0 .. MaxOffset
  <2>1. \A x, y \in 0 .. MaxOffset : x + y \in Nat
    BY <1>1
  <2> QED
    BY <2>1, WrapFacts
<1> QED
  BY <1>1, <1>3, <1>4 DEF Moved

LEMMA PositionRange ==
  ASSUME NEW s, WellFormed(s), NEW h
  PROVE  \A n \in 0 .. Len(s) : Position(s, h)[n] \in 0 .. MaxOffset
<1>1. Len(s) \in Nat
  BY LenProperties DEF WellFormed
<1> DEFINE Bad == {n \in 0 .. Len(s) : Position(s, h)[n] \notin 0 .. MaxOffset}
<1>2. SUFFICES ASSUME Bad # {} PROVE FALSE
  OBVIOUS
<1>3. PICK k \in Bad : \A j \in Bad : k <= j
  <2>1. Bad \in SUBSET Nat
    BY <1>1
  <2> HIDE DEF Bad
  <2> QED
    BY <1>2, <2>1, LeastNat
<1>4. Position(s, h)[0] = 0 /\ 0 \in 0 .. MaxOffset
  BY <1>1, PositionFacts, MaxOffsetAssumption
<1>5. k \in 1 .. Len(s) /\ Position(s, h)[k] \notin 0 .. MaxOffset
  BY <1>1, <1>4
<1>6. Position(s, h)[k] = Moved(s, h, k, Position(s, h)[k - 1])
  BY <1>1, <1>5, PositionFacts
<1>7. k - 1 \in 0 .. Len(s) /\ k - 1 \notin Bad
  <2> HIDE DEF Bad
  <2> QED
    BY <1>1, <1>3, <1>5
<1>8. Position(s, h)[k - 1] \in 0 .. MaxOffset
  BY <1>7
<1> QED
  BY <1>5, <1>6, <1>8, MovedRange

-----------------------------------------------------------------------------
(***************************************************************************)
(* Open handles                                                            *)
(***************************************************************************)
LEMMA OpenStep ==
  ASSUME NEW s, NEW i \in Nat \ {0}, NEW h \in OpenAt(s, i + 1)
  PROVE  \/ s[i].kind = "io_create_handle" /\ s[i].handle = h
         \/ /\ h \in OpenAt(s, i)
            /\ ~(s[i].kind = "io_destroy_handle" /\ s[i].handle = h)
<1> DEFINE Opens(k, n) ==
             /\ s[k].kind = "io_create_handle"
             /\ \A m \in k + 1 .. n :
                  ~(s[m].kind = "io_destroy_handle" /\ s[m].handle = s[k].handle)
<1>1. (i + 1) - 1 = i
  OBVIOUS
<1>2. PICK k \in 1 .. i : Opens(k, i) /\ h = s[k].handle
  BY <1>1 DEF OpenAt
<1>3. CASE k = i
  BY <1>2, <1>3
<1>4. CASE k # i
  <2>1. k \in 1 .. i - 1 /\ i \in k + 1 .. i
    BY <1>4
  <2>2. \A m \in k + 1 .. i - 1 : m \in k + 1 .. i
    OBVIOUS
  <2>3. Opens(k, i - 1)
    BY <1>2, <2>2
  <2>4. h \in OpenAt(s, i)
    BY <1>2, <2>1, <2>3 DEF OpenAt
  <2> QED
    BY <1>2, <2>1, <2>4
<1> QED
  BY <1>3, <1>4

LEMMA OneOpen ==
  ASSUME NEW s, WellFormed(s), OneHandlePerFile(s), NEW i \in 1 .. Len(s),
         NEW g \in OpenAt(s, i), NEW h \in OpenAt(s, i),
         TrackedHandle(g), TrackedHandle(h), g.file = h.file
  PROVE  g = h
<1>1. DOMAIN s = 1 .. Len(s) /\ Len(s) \in Nat
  BY LenProperties DEF WellFormed
<1> DEFINE Opens(k) ==
             /\ s[k].kind = "io_create_handle"
             /\ \A m \in k + 1 .. i - 1 :
                  ~(s[m].kind = "io_destroy_handle" /\ s[m].handle = s[k].handle)
<1>2. ASSUME NEW k \in 1 .. i - 1, Opens(k), NEW m \in 1 .. i - 1, Opens(m), k < m,
             TrackedHandle(s[k].handle), TrackedHandle(s[m].handle),
             s[k].handle.file = s[m].handle.file
      PROVE  FALSE
  <2>1. \A n \in k + 1 .. m - 1 : n \in k + 1 .. i - 1
    BY <1>1
  <2>2. k \in 1 .. m - 1
    BY <1>2
  <2>3. s[k].handle \in OpenAt(s, m)
    BY <1>2, <2>1, <2>2 DEF OpenAt
  <2>4. m \in DOMAIN s /\ s[m].kind = "io_create_handle" /\ s[m].kind \in IoKinds
    BY <1>1, <1>2 DEF IoKinds
  <2>5. \A x \in OpenAt(s, m) : TrackedHandle(x) => x.file # s[m].handle.file
    BY <1>2, <2>4 DEF OneHandlePerFile
  <2> QED
    BY <1>2, <2>3, <2>5
<1>3. PICK k \in 1 .. i - 1 : Opens(k) /\ g = s[k].handle
  BY DEF OpenAt
<1>4. PICK m \in 1 .. i - 1 : Opens(m) /\ h = s[m].handle
  BY DEF OpenAt
<1> HIDE DEF Opens
<1>5. ~(k < m)
  BY <1>2, <1>3, <1>4
<1>6. ~(m < k)
  BY <1>2, <1>3, <1>4
<1>7. k = m
  BY <1>1, <1>5, <1>6
<1> QED
  BY <1>3, <1>4, <1>7
-----------------------------------------------------------------------------
(***************************************************************************)
(* The operations under way after n events, which io_ops_started holds in  *)
(* the order in which they were begun.                                     *)
(***************************************************************************)
UnderWay(s, n) ==
  {j \in 1 .. n : /\ s[j].kind = "io_operation_begin" /\ s[j].handle.paradigm # "MPI-IO"
                  /\ \A c \in j + 1 .. n : ~Operation(s, j, c)}

Lists(s, n, ops, b) ==
  /\ b \in [1 .. Len(ops) -> UnderWay(s, n)]
  /\ \A k, l \in 1 .. Len(ops) : k < l => b[k] < b[l]
  /\ \A j \in UnderWay(s, n) : \E k \in 1 .. Len(ops) : b[k] = j
  /\ \A k \in 1 .. Len(ops) : ops[k] = s[b[k]]

OpsOK(s, n, ops) == IsSequence(ops) /\ \E b : Lists(s, n, ops, b)

LEMMA OperationUnique ==
  ASSUME NEW s, NEW i \in Nat, NEW j \in 1 .. i - 1, NEW k \in 1 .. i - 1,
         Operation(s, j, i), Operation(s, k, i)
  PROVE  j = k
<1>1. ASSUME NEW x \in 1 .. i - 1, NEW y \in 1 .. i - 1, Operation(s, x, i),
             Operation(s, y, i), x < y
      PROVE  FALSE
  <2>1. y \in x + 1 .. i - 1 /\ s[y].kind = "io_operation_begin"
    BY <1>1 DEF Operation
  <2>2. s[y].matching_id # s[i].matching_id
    BY <1>1, <2>1 DEF Operation
  <2> QED
    BY <1>1, <2>2 DEF Operation
<1>2. ~(j < k) /\ ~(k < j)
  BY <1>1
<1> QED
  BY <1>2

LEMMA BeginIs ==
  ASSUME NEW s, NEW i \in Nat, NEW j \in 1 .. i - 1, Operation(s, j, i)
  PROVE  BeginOf(s, i) = j
<1>1. BeginOf(s, i) \in 1 .. i - 1 /\ Operation(s, BeginOf(s, i), i)
  BY Zenon DEF BeginOf
<1> QED
  BY <1>1, OperationUnique

(* Events other than begins and completions of POSIX operations. *)
LEMMA OpsQuiet ==
  ASSUME NEW s, NEW n \in Nat, NEW i, i = n + 1, NEW ops, OpsOK(s, n, ops),
         s[i].kind \in {"io_operation_begin", "io_operation_complete"} =>
           s[i].handle.paradigm = "MPI-IO"
  PROVE  OpsOK(s, i, ops)
<1>1. UnderWay(s, i) = UnderWay(s, n)
  <2>1. \A j \in 1 .. i : j = i \/ j \in 1 .. n
    OBVIOUS
  <2>2. i \notin UnderWay(s, i)
    BY DEF UnderWay
  <2>3. ASSUME NEW j \in 1 .. n, s[j].handle.paradigm # "MPI-IO"
        PROVE  ~Operation(s, j, i)
    BY <2>3 DEF Operation
  <2>4. ASSUME NEW j \in UnderWay(s, n) PROVE j \in UnderWay(s, i)
    <3>1. \A c \in j + 1 .. i : c = i \/ c \in j + 1 .. n
      BY DEF UnderWay
    <3> QED
      BY <2>3, <3>1 DEF UnderWay
  <2>5. ASSUME NEW j \in UnderWay(s, i) PROVE j \in UnderWay(s, n)
    <3>1. j \in 1 .. n
      BY <2>1, <2>2 DEF UnderWay
    <3>2. \A c \in j + 1 .. n : c \in j + 1 .. i
      BY <3>1
    <3> QED
      BY <3>1, <3>2 DEF UnderWay
  <2> QED
    BY <2>4, <2>5
<1> QED
  BY <1>1 DEF OpsOK, Lists

LEMMA OpsBegin ==
  ASSUME NEW s, NEW n \in Nat, NEW i, i = n + 1, NEW ops, OpsOK(s, n, ops),
         s[i].kind = "io_operation_begin", s[i].handle.paradigm # "MPI-IO"
  PROVE  OpsOK(s, i, Append(ops, s[i]))
<1>1. PICK b : Lists(s, n, ops, b)
  BY DEF OpsOK
<1>2. /\ IsSequence(Append(ops, s[i])) /\ Len(ops) \in Nat
      /\ DOMAIN ops = 1 .. Len(ops)
      /\ Append(ops, s[i])[Len(ops) + 1] = s[i]
      /\ \A k \in 1 .. Len(ops) : Append(ops, s[i])[k] = ops[k]
      /\ Len(Append(ops, s[i])) = Len(ops) + 1
  <2>1. IsSequence(ops)
    BY DEF OpsOK
  <2>2. Len(ops) \in Nat /\ DOMAIN ops = 1 .. Len(ops)
    BY <2>1, SequenceFacts
  <2>3. /\ IsSequence(Append(ops, s[i]))
        /\ DOMAIN Append(ops, s[i]) = DOMAIN ops \cup {Len(ops) + 1}
        /\ Append(ops, s[i])[Len(ops) + 1] = s[i]
        /\ \A k \in DOMAIN ops : Append(ops, s[i])[k] = ops[k]
    BY <2>1, AppendFacts
  <2>4. Len(Append(ops, s[i])) = Len(ops) + 1
    BY <2>2
  <2> QED
    BY <2>2, <2>3, <2>4
<1>3. UnderWay(s, i) = UnderWay(s, n) \cup {i} /\ i \notin UnderWay(s, n)
  <2>1. \A j \in 1 .. i : j = i \/ j \in 1 .. n
    OBVIOUS
  <2>2. \A j : ~Operation(s, j, i)
    BY DEF Operation
  <2>3. i \in UnderWay(s, i) /\ i \notin UnderWay(s, n)
    BY DEF UnderWay
  <2>4. ASSUME NEW j \in UnderWay(s, n) PROVE j \in UnderWay(s, i)
    <3>1. \A c \in j + 1 .. i : c = i \/ c \in j + 1 .. n
      BY DEF UnderWay
    <3> QED
      BY <2>2, <3>1 DEF UnderWay
  <2>5. ASSUME NEW j \in UnderWay(s, i), j # i PROVE j \in UnderWay(s, n)
    <3>1. j \in 1 .. n
      BY <2>1, <2>5 DEF UnderWay
    <3>2. \A c \in j + 1 .. n : c \in j + 1 .. i
      BY <3>1
    <3> QED
      BY <3>1, <3>2 DEF UnderWay
  <2> QED
    BY <2>3, <2>4, <2>5
<1> DEFINE len == Len(ops)
           c == [k \in 1 .. len + 1 |-> IF k = len + 1 THEN i ELSE b[k]]
<1>4. /\ c[len + 1] = i /\ \A k \in 1 .. len : c[k] = b[k]
      /\ c = [k \in 1 .. len + 1 |-> c[k]]
  BY <1>2
<1>5. \A k \in 1 .. len + 1 : k = len + 1 \/ k \in 1 .. len
  BY <1>2
<1>6. /\ b \in [1 .. len -> UnderWay(s, n)]
      /\ \A k, l \in 1 .. len : k < l => b[k] < b[l]
      /\ \A j \in UnderWay(s, n) : \E k \in 1 .. len : b[k] = j
      /\ \A k \in 1 .. len : ops[k] = s[b[k]]
  BY <1>1 DEF Lists
<1>7. len + 1 \in 1 .. len + 1 /\ \A k \in 1 .. len : k \in 1 .. len + 1
  BY <1>2
<1> HIDE DEF c, len
<1>8. c \in [1 .. len + 1 -> UnderWay(s, i)]
  BY <1>3, <1>4, <1>5, <1>6
<1>9. ASSUME NEW k \in 1 .. len + 1, NEW l \in 1 .. len + 1, k < l
      PROVE  c[k] < c[l]
  <2>1. len \in Nat
    BY <1>2 DEF len
  <2>2. k \in 1 .. len
    <3>1. k # len + 1
      BY <1>9, <2>1
    <3> QED
      BY <1>5, <3>1
  <2>3. c[k] = b[k] /\ b[k] \in UnderWay(s, n)
    BY <1>4, <1>6, <2>2
  <2>4. b[k] \in 1 .. n
    BY <2>3 DEF UnderWay
  <2>5. CASE l = len + 1
    BY <1>4, <2>3, <2>4, <2>5
  <2>6. CASE l \in 1 .. len
    BY <1>4, <1>6, <1>9, <2>2, <2>6
  <2> QED
    BY <1>5, <2>5, <2>6
<1>10. \A j \in UnderWay(s, i) : \E k \in 1 .. len + 1 : c[k] = j
  BY <1>3, <1>4, <1>6, <1>7
<1>11. \A k \in 1 .. len + 1 : Append(ops, s[i])[k] = s[c[k]]
  BY <1>2, <1>4, <1>5, <1>6 DEF len
<1>12. Lists(s, i, Append(ops, s[i]), c)
  BY <1>2, <1>8, <1>9, <1>10, <1>11 DEF Lists, len
<1> QED
  BY <1>2, <1>12 DEF OpsOK

(***************************************************************************)
(* The operation found at the front is the one completed, if its id is.    *)
(***************************************************************************)
LEMMA OpsComplete ==
  ASSUME NEW s, WellFormed(s), OperationsComplete(s),
         NEW n \in Nat, NEW i \in 1 .. Len(s), i = n + 1, NEW ops, OpsOK(s, n, ops),
         s[i].kind = "io_operation_complete", s[i].handle.paradigm # "MPI-IO",
         s[i].matching_id = Head(ops).matching_id
  PROVE  /\ Head(ops) = s[BeginOf(s, i)]
         /\ BeginOf(s, i) \in 1 .. n /\ s[BeginOf(s, i)].kind = "io_operation_begin"
         /\ OpsOK(s, i, Tail(ops))
<1>1. PICK b : Lists(s, n, ops, b)
  BY DEF OpsOK
<1>2. Len(ops) \in Nat /\ DOMAIN ops = 1 .. Len(ops) /\ IsSequence(ops)
  BY SequenceFacts DEF OpsOK
<1>3. /\ b \in [1 .. Len(ops) -> UnderWay(s, n)]
      /\ \A k, l \in 1 .. Len(ops) : k < l => b[k] < b[l]
      /\ \A j \in UnderWay(s, n) : \E k \in 1 .. Len(ops) : b[k] = j
      /\ \A k \in 1 .. Len(ops) : ops[k] = s[b[k]]
  BY <1>1 DEF Lists
<1>4. DOMAIN s = 1 .. Len(s) /\ Len(s) \in Nat
  BY LenProperties DEF WellFormed
<1>5. PICK j \in 1 .. n : Operation(s, j, i)
  <2>1. \E j \in 1 .. i - 1 : Operation(s, j, i)
    BY <1>4 DEF OperationsComplete
  <2>2. i - 1 = n
    OBVIOUS
  <2> QED
    BY <2>1, <2>2
<1>6. /\ s[j].kind = "io_operation_begin" /\ s[j].handle.paradigm # "MPI-IO"
      /\ s[j].matching_id = s[i].matching_id
      /\ \A k \in j + 1 .. n :
           s[k].kind \in {"io_operation_begin", "io_operation_complete"} =>
             s[k].matching_id # s[i].matching_id
  <2>1. i - 1 = n
    OBVIOUS
  <2> QED
    BY <1>5, <2>1 DEF Operation
<1>7. j \in UnderWay(s, n)
  <2>1. ASSUME NEW c \in j + 1 .. n PROVE ~Operation(s, j, c)
    BY <1>6 DEF Operation
  <2> QED
    BY <1>6, <2>1 DEF UnderWay
<1>8. 1 \in 1 .. Len(ops) /\ ops # <<>> /\ Head(ops) = s[b[1]]
  <2>1. PICK k \in 1 .. Len(ops) : b[k] = j
    BY <1>3, <1>7
  <2>2. Len(ops) > 0 /\ 1 \in 1 .. Len(ops)
    BY <1>2
  <2>3. ops # <<>> /\ Head(ops) = ops[1]
    BY <1>2, <2>2, LastFacts DEF IsSequence
  <2> QED
    BY <1>3, <2>2, <2>3
<1>9. b[1] = j
  <2> DEFINE f == b[1]
  <2>1. f \in UnderWay(s, n)
    BY <1>3, <1>8
  <2>2. /\ f \in 1 .. n /\ s[f].kind = "io_operation_begin"
        /\ s[f].matching_id = s[i].matching_id
        /\ \A c \in f + 1 .. n : ~Operation(s, f, c)
    BY <1>8, <2>1 DEF UnderWay
  <2> HIDE DEF f
  <2>3. ~(j < f)
    <3>1. j < f => f \in j + 1 .. n
      BY <2>2
    <3> QED
      BY <1>6, <2>2, <3>1
  <2>4. ~(f < j)
    <3> SUFFICES ASSUME f < j PROVE FALSE
      OBVIOUS
    <3>1. f \in DOMAIN s
      BY <1>4, <2>2
    <3>2. PICK c \in f + 1 .. Len(s) : Operation(s, f, c)
      BY <2>2, <3>1 DEF OperationsComplete
    <3>3. c \notin f + 1 .. n
      BY <2>2, <3>2
    <3>4. j \in f + 1 .. c - 1
      BY <1>4, <2>2, <3>3
    <3>5. s[j].matching_id # s[c].matching_id
      BY <1>6, <3>2, <3>4 DEF Operation
    <3>6. s[f].matching_id = s[c].matching_id
      BY <3>2 DEF Operation
    <3> QED
      BY <1>6, <2>2, <3>5, <3>6
  <2>5. f = j
    BY <2>2, <2>3, <2>4
  <2> QED
    BY <2>5 DEF f
<1>10. BeginOf(s, i) = j
  <2>1. i \in Nat /\ j \in 1 .. i - 1
    OBVIOUS
  <2> QED
    BY <1>5, <2>1, BeginIs
<1>11. UnderWay(s, i) = UnderWay(s, n) \ {j}
  <2>1. \A k \in 1 .. i : k = i \/ k \in 1 .. n
    OBVIOUS
  <2>2. i \notin UnderWay(s, i)
    BY DEF UnderWay
  <2>3. ASSUME NEW k \in UnderWay(s, n) \ {j} PROVE k \in UnderWay(s, i)
    <3>1. ~Operation(s, k, i)
      <4>1. i \in Nat /\ j \in 1 .. i - 1 /\ k \in 1 .. i - 1
        BY DEF UnderWay
      <4> QED
        BY <1>5, <2>3, <4>1, OperationUnique
    <3>2. \A c \in k + 1 .. i : c = i \/ c \in k + 1 .. n
      BY DEF UnderWay
    <3> QED
      BY <3>1, <3>2 DEF UnderWay
  <2>4. ASSUME NEW k \in UnderWay(s, i) PROVE k \in UnderWay(s, n) \ {j}
    <3>1. k \in 1 .. n
      BY <2>1, <2>2 DEF UnderWay
    <3>2. \A c \in k + 1 .. n : c \in k + 1 .. i
      BY <3>1
    <3>3. i \in k + 1 .. i
      BY <3>1
    <3>4. k # j
      BY <1>5, <3>3 DEF UnderWay
    <3> QED
      BY <3>1, <3>2, <3>4 DEF UnderWay
  <2> QED
    BY <2>3, <2>4
<1>12. OpsOK(s, i, Tail(ops))
  <2> DEFINE len == Len(ops) - 1
             c == [k \in 1 .. len |-> b[k + 1]]
  <2>1. /\ Tail(ops) \in Seq(Range(ops)) /\ Len(Tail(ops)) = len
        /\ \A k \in 1 .. Len(Tail(ops)) : Tail(ops)[k] = ops[k + 1]
    BY <1>2, <1>8, HeadTailProperties DEF IsSequence
  <2>2. IsSequence(Tail(ops))
    BY <2>1, SequenceOver
  <2>3. len \in Nat /\ \A k \in 1 .. len : k + 1 \in 1 .. Len(ops) /\ k + 1 # 1
    BY <1>2, <1>8
  <2>4. \A k \in 1 .. Len(ops) : k = 1 \/ (k - 1 \in 1 .. len /\ (k - 1) + 1 = k)
    BY <1>2
  <2>5. c = [k \in 1 .. len |-> b[k + 1]]
    OBVIOUS
  <2> HIDE DEF c, len
  <2>6. c \in [1 .. len -> UnderWay(s, i)]
    <3> SUFFICES ASSUME NEW k \in 1 .. len PROVE b[k + 1] \in UnderWay(s, i)
      BY <2>5
    <3>1. 1 < k + 1 /\ k + 1 \in 1 .. Len(ops)
      BY <2>3
    <3>2. b[1] < b[k + 1] /\ b[k + 1] \in UnderWay(s, n)
      BY <1>3, <1>8, <3>1
    <3>3. b[k + 1] # j
      BY <1>9, <3>2
    <3> QED
      BY <1>11, <3>2, <3>3
  <2>7. \A k, l \in 1 .. len : k < l => c[k] < c[l]
    <3> SUFFICES ASSUME NEW k \in 1 .. len, NEW l \in 1 .. len, k < l
        PROVE  b[k + 1] < b[l + 1]
      BY <2>5
    <3>1. k + 1 < l + 1
      BY <2>3
    <3> QED
      BY <1>3, <2>3, <3>1
  <2>8. \A x \in UnderWay(s, i) : \E k \in 1 .. len : c[k] = x
    <3> SUFFICES ASSUME NEW x \in UnderWay(s, i)
        PROVE  \E k \in 1 .. len : c[k] = x
      OBVIOUS
    <3>1. x \in UnderWay(s, n) /\ x # b[1]
      BY <1>9, <1>11
    <3>2. PICK k \in 1 .. Len(ops) : b[k] = x
      BY <1>3, <3>1
    <3>3. k - 1 \in 1 .. len /\ (k - 1) + 1 = k
      BY <2>4, <3>1, <3>2
    <3>4. c[k - 1] = x
      BY <2>5, <3>2, <3>3
    <3> QED
      BY <3>3, <3>4
  <2>9. \A k \in 1 .. len : Tail(ops)[k] = s[c[k]]
    BY <1>3, <2>1, <2>3, <2>5
  <2>10. Lists(s, i, Tail(ops), c)
    BY <2>1, <2>6, <2>7, <2>8, <2>9 DEF Lists
  <2> QED
    BY <2>2, <2>10 DEF OpsOK
<1> QED
  BY <1>6, <1>8, <1>9, <1>10, <1>12
-----------------------------------------------------------------------------
(***************************************************************************)
(* The offsets kept after n events are the file positions of the handles   *)
(* that are open then.                                                     *)
(***************************************************************************)
OffsetsOK(s, n, offsets) ==
  \A h \in OpenAt(s, n + 1) :
    TrackedHandle(h) => h.file \in DOMAIN offsets /\ offsets[h.file] = Position(s, h)[n]

Moves == {"io_create_handle", "io_seek", "io_operation_complete"}

LEMMA OffsetsQuiet ==
  ASSUME NEW s, WellFormed(s), NEW n \in Nat, NEW i \in 1 .. Len(s), i = n + 1,
         NEW offsets, OffsetsOK(s, n, offsets),
         s[i].kind \in Moves => ~TrackedHandle(s[i].handle)
  PROVE  OffsetsOK(s, i, offsets)
<1>1. Len(s) \in Nat
  BY LenProperties DEF WellFormed
<1> SUFFICES ASSUME NEW h \in OpenAt(s, i + 1), TrackedHandle(h)
    PROVE  h.file \in DOMAIN offsets /\ offsets[h.file] = Position(s, h)[i]
  BY DEF OffsetsOK
<1>2. ~(s[i].kind \in Moves /\ s[i].handle = h)
  OBVIOUS
<1>3. h \in OpenAt(s, i) /\ i \in Nat \ {0} /\ i - 1 = n
  BY <1>2, OpenStep DEF Moves
<1>4. Position(s, h)[i] = Moved(s, h, i, Position(s, h)[n])
  BY <1>1, <1>3, PositionFacts
<1>5. Moved(s, h, i, Position(s, h)[n]) = Position(s, h)[n]
  BY <1>2 DEF Moved, Moves
<1> QED
  BY <1>3, <1>4, <1>5 DEF OffsetsOK

(* An event of handle g that leaves it at a new position. *)
LEMMA OffsetsMoved ==
  ASSUME NEW s, WellFormed(s), OneHandlePerFile(s),
         NEW n \in Nat, NEW i \in 1 .. Len(s), i = n + 1,
         NEW offsets, OffsetsOK(s, n, offsets),
         NEW g, s[i].handle = g, TrackedHandle(g), s[i].kind \in Moves,
         NEW x, x = Position(s, g)[i]
  PROVE  OffsetsOK(s, i, Assign(offsets, g.file, x))
<1>1. Len(s) \in Nat /\ DOMAIN s = 1 .. Len(s)
  BY LenProperties DEF WellFormed
<1> SUFFICES ASSUME NEW h \in OpenAt(s, i + 1), TrackedHandle(h)
    PROVE  /\ h.file \in DOMAIN Assign(offsets, g.file, x)
           /\ Assign(offsets, g.file, x)[h.file] = Position(s, h)[i]
  BY DEF OffsetsOK
<1>2. CASE h = g
  BY <1>2 DEF Assign
<1>3. CASE h # g
  <2>1. h \in OpenAt(s, i) /\ i \in Nat \ {0} /\ i - 1 = n
    BY <1>3, OpenStep
  <2>2. Position(s, h)[i] = Moved(s, h, i, Position(s, h)[n])
    BY <1>1, <2>1, PositionFacts
  <2>3. Moved(s, h, i, Position(s, h)[n]) = Position(s, h)[n]
    BY <1>3 DEF Moved
  <2>4. h.file \in DOMAIN offsets /\ offsets[h.file] = Position(s, h)[n]
    BY <2>1 DEF OffsetsOK
  <2>5. h.file # g.file
    <3>1. i \in DOMAIN s /\ s[i].kind \in IoKinds
      BY <1>1 DEF Moves, IoKinds
    <3>2. CASE s[i].kind = "io_create_handle"
      <4>1. \A y \in OpenAt(s, i) : TrackedHandle(y) => y.file # g.file
        BY <3>1, <3>2 DEF OneHandlePerFile
      <4> QED
        BY <2>1, <4>1
    <3>3. CASE s[i].kind # "io_create_handle"
      <4>1. g \in OpenAt(s, i)
        BY <3>1, <3>3 DEF OneHandlePerFile
      <4> QED
        BY <1>3, <2>1, <4>1, OneOpen
    <3> QED
      BY <3>2, <3>3
  <2> QED
    BY <2>2, <2>3, <2>4, <2>5 DEF Assign
<1> QED
  BY <1>2, <1>3

LEMMA OffsetsDestroyed ==
  ASSUME NEW s, WellFormed(s), OneHandlePerFile(s),
         NEW n \in Nat, NEW i \in 1 .. Len(s), i = n + 1,
         NEW offsets, OffsetsOK(s, n, offsets),
         NEW g, s[i].handle = g, TrackedHandle(g), s[i].kind = "io_destroy_handle"
  PROVE  /\ g.file \in DOMAIN offsets
         /\ OffsetsOK(s, i, Restrict(offsets, DOMAIN offsets \ {g.file}))
<1>1. Len(s) \in Nat /\ DOMAIN s = 1 .. Len(s) /\ i \in Nat \ {0} /\ i - 1 = n
  BY LenProperties DEF WellFormed
<1>2. g \in OpenAt(s, i)
  BY <1>1 DEF OneHandlePerFile, IoKinds
<1>3. ASSUME NEW h \in OpenAt(s, i + 1), TrackedHandle(h)
      PROVE  /\ h.file \in DOMAIN offsets \ {g.file}
             /\ offsets[h.file] = Position(s, h)[i]
  <2>1. h \in OpenAt(s, i) /\ h # g
    BY <1>1, OpenStep
  <2>2. Position(s, h)[i] = Moved(s, h, i, Position(s, h)[n])
    BY <1>1, PositionFacts
  <2>3. Moved(s, h, i, Position(s, h)[n]) = Position(s, h)[n]
    BY DEF Moved
  <2>4. h.file \in DOMAIN offsets /\ offsets[h.file] = Position(s, h)[n]
    BY <1>3, <2>1 DEF OffsetsOK
  <2>5. h.file # g.file
    BY <1>2, <1>3, <2>1, OneOpen
  <2> QED
    BY <2>2, <2>3, <2>4, <2>5
<1>4. g.file \in DOMAIN offsets
  BY <1>2 DEF OffsetsOK
<1> QED
  BY <1>3, <1>4 DEF OffsetsOK, Restrict

(* The operation completed moves the offset by the bytes it read or wrote. *)
LEMMA OffsetsCompleted ==
  ASSUME NEW s, WellFormed(s), OneHandlePerFile(s),
         NEW n \in Nat, NEW i \in 1 .. Len(s), i = n + 1,
         NEW offsets, OffsetsOK(s, n, offsets),
         NEW g, s[i].handle = g, TrackedHandle(g), s[i].kind = "io_operation_complete",
         BeginOf(s, i) \in 1 .. n, s[BeginOf(s, i)].kind = "io_operation_begin"
  PROVE  /\ g.file \in DOMAIN offsets
         /\ Position(s, g)[i] =
              Wrap(offsets[g.file] + (IF s[BeginOf(s, i)].mode \in {"read", "write"}
                                      THEN s[i].bytes ELSE 0))
<1>1. Len(s) \in Nat /\ DOMAIN s = 1 .. Len(s) /\ i \in Nat \ {0} /\ i - 1 = n
  BY LenProperties DEF WellFormed
<1>2. g \in OpenAt(s, i)
  BY <1>1 DEF OneHandlePerFile, IoKinds
<1>3. g.file \in DOMAIN offsets /\ offsets[g.file] = Position(s, g)[n]
  BY <1>2 DEF OffsetsOK
<1>4. Position(s, g)[i] = Moved(s, g, i, Position(s, g)[n])
  BY <1>1, PositionFacts
<1>5. BeginOf(s, i) \in DOMAIN s
  BY <1>1
<1>6. s[BeginOf(s, i)].mode \in {"read", "write", "flush"}
  BY <1>5 DEF WellFormed
<1>7. Position(s, g)[n] \in 0 .. MaxOffset
  BY <1>1, PositionRange
<1>8. Position(s, g)[n] + 0 = Position(s, g)[n] /\ Wrap(Position(s, g)[n]) = Position(s, g)[n]
  <2>1. Position(s, g)[n] \in Nat
    BY <1>7, MaxOffsetAssumption
  <2> QED
    BY <1>7, <2>1, WrapFacts
<1>9. Moved(s, g, i, Position(s, g)[n]) =
        IF s[BeginOf(s, i)].mode # "flush" THEN Wrap(Position(s, g)[n] + s[i].bytes)
        ELSE Position(s, g)[n]
  BY DEF Moved
<1>10. CASE s[BeginOf(s, i)].mode = "flush"
  BY <1>3, <1>4, <1>8, <1>9, <1>10
<1>11. CASE s[BeginOf(s, i)].mode # "flush"
  BY <1>3, <1>4, <1>6, <1>9, <1>11
<1> QED
  BY <1>3, <1>10, <1>11
-----------------------------------------------------------------------------
(***************************************************************************)
(* The inductive invariant for offsets.  Once the program has stopped at   *)
(* an assertion, the operation it stopped at is still in its queue.        *)
(***************************************************************************)
Transfers == {"read", "write", "flush"}

(* A read, write or flush is the completion of an operation of that mode. *)
Transferred(s, i, v) ==
  /\ {"filename", "response_size"} \subseteq DOMAIN v
  /\ i \in DOMAIN s /\ s[i].kind = "io_operation_complete"
  /\ s[BeginOf(s, i)].mode = v.kind
  /\ v.filename = s[i].handle.file /\ v.response_size = s[i].bytes

OffsetOK(tr, v) ==
  v.type = "io_event" =>
    /\ {"kind", "offset"} \subseteq DOMAIN v
    /\ v.kind \in Transfers => Transferred(tr[v.proc], v.timestamp, v)
    /\ v.kind \in Transfers /\ OneHandlePerFile(tr[v.proc]) =>
         v.offset = Position(tr[v.proc], tr[v.proc][v.timestamp].handle)[v.timestamp]

FilesOK(s, n, ops, offsets) ==
  /\ OpsOK(s, n, ops)
  /\ OneHandlePerFile(s) => OffsetsOK(s, n, offsets)

FilesInv ==
  /\ \A d \in DOMAIN graph : OffsetOK(program, graph[d])
  /\ status # "aborted" =>
       \A p \in Procs : FilesOK(program[p], pos[p], io_ops_started[p], offset_map[p])

(* Durations and root events are noted at vertices that are there already. *)
NotesOnly(g, h) ==
  /\ DOMAIN h = DOMAIN g
  /\ \A d \in DOMAIN g :
       /\ DOMAIN h[d] = DOMAIN g[d]
       /\ \A f \in DOMAIN g[d] \ {"root_event", "duration"} : h[d][f] = g[d][f]

LEMMA NotesKept ==
  ASSUME IInv, FilesInv, NotesOnly(graph, graph')
  PROVE  \A d \in DOMAIN graph' : OffsetOK(program, graph'[d])
<1> SUFFICES ASSUME NEW d \in DOMAIN graph
    PROVE  OffsetOK(program, graph'[d])
  BY DEF NotesOnly
<1>1. /\ DOMAIN graph'[d] = DOMAIN graph[d]
      /\ \A f \in DOMAIN graph[d] \ {"root_event", "duration"} : graph'[d][f] = graph[d][f]
  BY DEF NotesOnly
<1>2. /\ "type" \in DOMAIN graph[d]
      /\ graph[d].type = "io_event" => {"proc", "timestamp"} \subseteq DOMAIN graph[d]
  BY DEF IInv, GraphInv, GoodVertex
<1>3. OffsetOK(program, graph[d])
  BY DEF FilesInv
<1>4. graph'[d].type = graph[d].type
  BY <1>1, <1>2
<1>5. CASE graph[d].type = "io_event"
  <2>1. {"kind", "offset"} \subseteq DOMAIN graph[d]
    BY <1>3, <1>5 DEF OffsetOK
  <2>2. /\ graph'[d].proc = graph[d].proc /\ graph'[d].timestamp = graph[d].timestamp
        /\ graph'[d].kind = graph[d].kind /\ graph'[d].offset = graph[d].offset
    BY <1>1, <1>2, <1>5, <2>1
  <2>3. graph[d].kind \in Transfers =>
          Transferred(program[graph[d].proc], graph[d].timestamp, graph[d])
    BY <1>3, <1>5 DEF OffsetOK
  <2>4. graph'[d].kind \in Transfers =>
          Transferred(program[graph'[d].proc], graph'[d].timestamp, graph'[d])
    <3> SUFFICES ASSUME graph[d].kind \in Transfers
                 PROVE  Transferred(program[graph[d].proc], graph[d].timestamp, graph'[d])
      BY <2>2
    <3>1. {"filename", "response_size"} \subseteq DOMAIN graph[d]
      BY <2>3 DEF Transferred
    <3>2. graph'[d].filename = graph[d].filename
          /\ graph'[d].response_size = graph[d].response_size
      BY <1>1, <3>1
    <3> QED
      BY <1>1, <2>2, <2>3, <3>2 DEF Transferred
  <2> QED
    BY <1>1, <1>3, <1>4, <2>2, <2>4 DEF OffsetOK
<1> QED
  BY <1>4, <1>5 DEF OffsetOK

LEMMA VertexAdded ==
  ASSUME IInv, FilesInv, NEW v, OffsetOK(program, v), graph' = Append(graph, v)
  PROVE  \A d \in DOMAIN graph' : OffsetOK(program, graph'[d])
<1>1. /\ DOMAIN graph' = DOMAIN graph \cup {Len(graph) + 1}
      /\ graph'[Len(graph) + 1] = v
      /\ \A c \in DOMAIN graph : graph'[c] = graph[c]
  BY AppendFacts DEF IInv, GraphInv
<1> QED
  BY <1>1 DEF FilesInv

LEMMA FilesFacts ==
  ASSUME IInv, FilesInv, NEW p \in Procs, NEW kinds, Reads(p, kinds)
  PROVE  /\ WellFormed(program[p]) /\ OperationsComplete(program[p])
         /\ pos[p] \in Nat /\ Now(p) \in 1 .. Len(program[p]) /\ Now(p) = pos[p] + 1
         /\ evt(p) = program[p][Now(p)] /\ evt(p).kind \in kinds
         /\ FilesOK(program[p], pos[p], io_ops_started[p], offset_map[p])
         /\ UNCHANGED program /\ status = "events"
<1>1. IsProgram(program)
  BY EventFacts
<1>2. pos[p] \in Nat /\ Now(p) \in 1 .. Len(program[p]) /\ Now(p) = pos[p] + 1
  BY EventFacts
<1> QED
  BY <1>1, <1>2 DEF IsProgram, evt, Reads, FilesInv

LEMMA FilesKept ==
  ASSUME IInv, LocalInv, FilesInv, NEW p \in Procs, NEW kinds, Reads(p, kinds),
         \A d \in DOMAIN graph' : OffsetOK(program, graph'[d]),
         NEW ops, NEW offsets,
         io_ops_started' = [io_ops_started EXCEPT ![p] = ops],
         offset_map' = [offset_map EXCEPT ![p] = offsets],
         status' # "aborted" => FilesOK(program[p], Now(p), ops, offsets)
  PROVE  FilesInv'
<1>1. program' = program /\ status = "events"
  BY DEF Reads
<1>2. pos' = [pos EXCEPT ![p] = Now(p)] /\ DOMAIN pos = Procs
  BY EventFacts
<1>3. ASSUME NEW q \in Procs, status' # "aborted"
      PROVE  FilesOK(program[q], pos'[q], io_ops_started'[q], offset_map'[q])
  <2>1. CASE q = p
    BY <1>2, <1>3, <2>1 DEF LocalInv, PerProcess
  <2>2. CASE q # p
    BY <1>1, <1>2, <2>2 DEF LocalInv, PerProcess, FilesInv
  <2> QED
    BY <2>1, <2>2
<1> QED
  BY <1>1, <1>3 DEF FilesInv

(* Events that begin and complete no POSIX operation, and move no offset. *)
LEMMA FilesQuiet ==
  ASSUME IInv, LocalInv, FilesInv, NEW p \in Procs, NEW kinds, Reads(p, kinds),
         \A d \in DOMAIN graph' : OffsetOK(program, graph'[d]),
         UNCHANGED io_ops_started,
         evt(p).kind \in {"io_operation_begin", "io_operation_complete"} =>
           evt(p).handle.paradigm = "MPI-IO",
         \/ UNCHANGED offset_map /\ (evt(p).kind \in Moves => ~TrackedHandle(evt(p).handle))
         \/ /\ ~OneHandlePerFile(program[p])
            /\ \E offsets : offset_map' = [offset_map EXCEPT ![p] = offsets]
  PROVE  FilesInv'
<1> DEFINE s == program[p]
<1>1. /\ WellFormed(s) /\ pos[p] \in Nat /\ Now(p) \in 1 .. Len(s) /\ Now(p) = pos[p] + 1
      /\ evt(p) = s[Now(p)] /\ FilesOK(s, pos[p], io_ops_started[p], offset_map[p])
  BY FilesFacts
<1>2. io_ops_started' = [io_ops_started EXCEPT ![p] = io_ops_started[p]]
  BY DEF LocalInv, PerProcess
<1>3. OpsOK(s, Now(p), io_ops_started[p])
  <2> HIDE DEF s
  <2> QED
    BY <1>1, OpsQuiet DEF FilesOK
<1>4. CASE UNCHANGED offset_map /\ (evt(p).kind \in Moves => ~TrackedHandle(evt(p).handle))
  <2>1. offset_map' = [offset_map EXCEPT ![p] = offset_map[p]]
    BY <1>4 DEF LocalInv, PerProcess
  <2>2. OneHandlePerFile(s) => OffsetsOK(s, Now(p), offset_map[p])
    <3> HIDE DEF s
    <3> QED
      BY <1>1, <1>4, OffsetsQuiet DEF FilesOK
  <2> QED
    BY <1>2, <1>3, <2>1, <2>2, FilesKept DEF FilesOK
<1>5. CASE /\ ~OneHandlePerFile(program[p])
           /\ \E offsets : offset_map' = [offset_map EXCEPT ![p] = offsets]
  BY <1>2, <1>3, <1>5, FilesKept DEF FilesOK
<1> QED
  BY <1>4, <1>5
(* A vertex that is no read, write or flush. *)
LEMMA OtherVertexAdded ==
  ASSUME IInv, FilesInv, NEW p \in Procs, NEW name, NEW kind, kind \notin Transfers,
         NEW size, NEW offset, AddIoEvent(p, name, kind, size, offset)
  PROVE  \A d \in DOMAIN graph' : OffsetOK(program, graph'[d])
<1>1. PICK v : v = IoEvent(p, name, kind, size, offset)
  OBVIOUS
<1>2. /\ {"type", "proc", "region", "duration", "kind", "offset", "timestamp"} \subseteq DOMAIN v
      /\ v.kind = kind /\ graph' = Append(graph, v)
  BY <1>1, IoEventAdded
<1>3. OffsetOK(program, v)
  BY <1>2 DEF OffsetOK
<1> QED
  BY <1>2, <1>3, VertexAdded

LEMMA SyncVertexAdded ==
  ASSUME IInv, FilesInv, NEW p \in Procs,
         NEW comm_kind, NEW remote, NEW members, NEW root,
         AddSyncEvent(p, SyncEvent(p, comm_kind, remote, members, root))
  PROVE  \A d \in DOMAIN graph' : OffsetOK(program, graph'[d])
<1>1. PICK v : v = SyncEvent(p, comm_kind, remote, members, root)
  OBVIOUS
<1>2. v.type = "sync_event" /\ graph' = Append(graph, v)
  BY <1>1, SyncEventAdded
<1>3. OffsetOK(program, v)
  BY <1>2 DEF OffsetOK
<1> QED
  BY <1>2, <1>3, VertexAdded

LEMMA SameGraph ==
  ASSUME FilesInv, UNCHANGED graph
  PROVE  \A d \in DOMAIN graph' : OffsetOK(program, graph'[d])
BY DEF FilesInv

(* Opening a file and seeking in it. *)
LEMMA FilesMoved ==
  ASSUME IInv, LocalInv, FilesInv, NEW p \in Procs, NEW kinds, Reads(p, kinds),
         NEW x,
         \/ evt(p).kind = "io_create_handle" /\ ~Discarded(p) /\ x = 0
         \/ evt(p).kind = "io_seek" /\ ~IsMpiIo(p) /\ x = evt(p).offset,
         SetOffset(p, Name(p), x), UNCHANGED io_ops_started,
         \A d \in DOMAIN graph' : OffsetOK(program, graph'[d])
  PROVE  FilesInv'
<1> DEFINE s == program[p]
           i == Now(p)
           g == evt(p).handle
           new == Assign(offset_map[p], g.file, x)
<1>1. /\ WellFormed(s) /\ pos[p] \in Nat /\ i \in 1 .. Len(s) /\ i = pos[p] + 1
      /\ evt(p) = s[i] /\ FilesOK(s, pos[p], io_ops_started[p], offset_map[p])
  BY FilesFacts
<1>2. io_ops_started' = [io_ops_started EXCEPT ![p] = io_ops_started[p]]
  BY DEF LocalInv, PerProcess
<1>3. offset_map' = [offset_map EXCEPT ![p] = new]
  BY DEF SetOffset, Name
<1>4. /\ g.paradigm # "MPI-IO" /\ s[i].handle = g /\ s[i].kind \in Moves
      /\ s[i].kind \in {"io_create_handle", "io_seek"}
      /\ s[i].kind = "io_create_handle" => TrackedHandle(g) /\ x = 0
      /\ s[i].kind = "io_seek" => x = s[i].offset
  BY <1>1 DEF Discarded, IsMpiIo, TrackedHandle, Moves
<1> HIDE DEF s, i, g, new
<1>5. Len(s) \in Nat /\ DOMAIN s = 1 .. Len(s)
  BY <1>1, LenProperties DEF WellFormed
<1>6. OpsOK(s, i, io_ops_started[p])
  BY <1>1, <1>4, OpsQuiet DEF FilesOK
<1>7. Position(s, g)[i] = x
  <2>1. Position(s, g)[i] = Moved(s, g, i, Position(s, g)[i - 1])
    BY <1>1, <1>5, PositionFacts
  <2> QED
    BY <1>4, <2>1 DEF Moved
<1>8. OneHandlePerFile(s) => TrackedHandle(g)
  <2>1. s[i].kind \in IoKinds
    BY <1>4 DEF IoKinds
  <2>2. OneHandlePerFile(s) => (s[i].handle.paradigm # "MPI-IO" => ~s[i].handle.parent)
    BY <1>1, <1>5, <2>1 DEF OneHandlePerFile
  <2> QED
    BY <1>4, <2>2 DEF TrackedHandle
<1>9. OneHandlePerFile(s) => OffsetsOK(s, i, new)
  BY <1>1, <1>4, <1>7, <1>8, OffsetsMoved DEF FilesOK, new
<1>10. FilesOK(s, i, io_ops_started[p], new)
  BY <1>6, <1>9 DEF FilesOK
<1> QED
  BY <1>2, <1>3, <1>10, FilesKept DEF s, i

(* Destroying a handle. *)
LEMMA FilesDestroyed ==
  ASSUME IInv, LocalInv, FilesInv, NEW p \in Procs, DestroyHandle(p), ~Discarded(p)
  PROVE  FilesInv' /\ (OneHandlePerFile(program[p]) => Name(p) \in DOMAIN offset_map[p])
<1> DEFINE s == program[p]
           i == Now(p)
           g == evt(p).handle
           new == Restrict(offset_map[p], DOMAIN offset_map[p] \ {g.file})
<1>1. Reads(p, {"io_destroy_handle"}) /\ Drop(p, Name(p))
  BY DEF DestroyHandle
<1>2. /\ WellFormed(s) /\ pos[p] \in Nat /\ i \in 1 .. Len(s) /\ i = pos[p] + 1
      /\ evt(p) = s[i] /\ evt(p).kind \in {"io_destroy_handle"}
      /\ FilesOK(s, pos[p], io_ops_started[p], offset_map[p])
  BY <1>1, FilesFacts
<1>3. io_ops_started' = [io_ops_started EXCEPT ![p] = io_ops_started[p]]
  BY <1>1 DEF LocalInv, PerProcess, Drop, Abort, locals
<1>4. s[i].handle = g /\ s[i].kind = "io_destroy_handle" /\ TrackedHandle(g) /\ Name(p) = g.file
  BY <1>2 DEF Discarded, IsMpiIo, TrackedHandle, Name
<1> HIDE DEF s, i, g, new
<1>5. OpsOK(s, i, io_ops_started[p])
  BY <1>2, <1>4, OpsQuiet DEF FilesOK
<1>6. OneHandlePerFile(s) => g.file \in DOMAIN offset_map[p] /\ OffsetsOK(s, i, new)
  BY <1>2, <1>4, OffsetsDestroyed DEF FilesOK, new
<1>7. FilesOK(s, i, io_ops_started[p], new)
  BY <1>5, <1>6 DEF FilesOK
<1>8. CASE Name(p) \notin DOMAIN offset_map[p]
  <2>1. /\ status' = "aborted" /\ UNCHANGED graph
        /\ offset_map' = [offset_map EXCEPT ![p] = offset_map[p]]
    BY <1>1, <1>8 DEF Drop, Abort, locals, LocalInv, PerProcess
  <2>2. \A d \in DOMAIN graph' : OffsetOK(program, graph'[d])
    BY <2>1, SameGraph
  <2> QED
    BY <1>1, <1>3, <1>4, <1>6, <2>1, <2>2, FilesKept DEF s
<1>9. CASE Name(p) \in DOMAIN offset_map[p]
  <2>1. /\ EraseOffset(p, g.file) /\ AddIoEvent(p, Name(p), "delete_or_close", 0, 0)
    BY <1>1, <1>4, <1>9 DEF Drop
  <2>2. offset_map' = [offset_map EXCEPT ![p] = new]
    BY <2>1 DEF EraseOffset, new
  <2>3. \A d \in DOMAIN graph' : OffsetOK(program, graph'[d])
    BY <2>1, OtherVertexAdded DEF Transfers
  <2> QED
    BY <1>1, <1>3, <1>7, <1>9, <2>2, <2>3, FilesKept DEF s, i
<1> QED
  BY <1>8, <1>9

LEMMA FilesBegun ==
  ASSUME IInv, LocalInv, FilesInv, NEW p \in Procs, OperationBegin(p)
  PROVE  FilesInv'
<1> DEFINE s == program[p]
           i == Now(p)
           new == Append(io_ops_started[p], evt(p))
<1>1. Reads(p, {"io_operation_begin"}) /\ UNCHANGED <<graph, offset_map, status>>
  BY DEF OperationBegin
<1>2. /\ WellFormed(s) /\ pos[p] \in Nat /\ i \in 1 .. Len(s) /\ i = pos[p] + 1
      /\ evt(p) = s[i] /\ evt(p).kind \in {"io_operation_begin"}
      /\ FilesOK(s, pos[p], io_ops_started[p], offset_map[p])
  BY <1>1, FilesFacts
<1>3. \A d \in DOMAIN graph' : OffsetOK(program, graph'[d])
  BY <1>1, SameGraph
<1>4. CASE IsMpiIo(p)
  <2>1. UNCHANGED io_ops_started
    BY <1>4 DEF OperationBegin
  <2>2. evt(p).kind \notin Moves
    BY <1>2 DEF Moves
  <2> QED
    BY <1>1, <1>3, <1>4, <2>1, <2>2, FilesQuiet DEF IsMpiIo
<1>5. CASE ~IsMpiIo(p)
  <2>1. io_ops_started' = [io_ops_started EXCEPT ![p] = new]
    BY <1>5 DEF OperationBegin
  <2>2. offset_map' = [offset_map EXCEPT ![p] = offset_map[p]]
    BY <1>1 DEF LocalInv, PerProcess
  <2>3. FilesOK(s, i, new, offset_map[p])
    <3>1. s[i].kind = "io_operation_begin" /\ s[i].handle.paradigm # "MPI-IO"
      BY <1>2, <1>5 DEF IsMpiIo
    <3>2. new = Append(io_ops_started[p], s[i])
      BY <1>2
    <3> HIDE DEF s, i, new
    <3>3. OpsOK(s, i, new)
      BY <1>2, <3>1, <3>2, OpsBegin DEF FilesOK
    <3>4. OneHandlePerFile(s) => OffsetsOK(s, i, offset_map[p])
      BY <1>2, <3>1, OffsetsQuiet DEF FilesOK, Moves
    <3> QED
      BY <3>3, <3>4 DEF FilesOK
  <2> QED
    BY <1>1, <1>3, <2>1, <2>2, <2>3, FilesKept
<1> QED
  BY <1>4, <1>5

(***************************************************************************)
(* Completing an operation: the one at the front of the queue is the one   *)
(* that is completed, and the vertex gets the position after it.           *)
(***************************************************************************)
LEMMA FilesCompleted ==
  ASSUME IInv, LocalInv, FilesInv, NEW p \in Procs, OperationComplete(p)
  PROVE  FilesInv'
<1> DEFINE s == program[p]
           i == Now(p)
           g == evt(p).handle
           ops == io_ops_started[p]
           begin == Head(ops)
           x == Advanced(p, begin)
           new == Assign(offset_map[p], g.file, x)
<1>1. Reads(p, {"io_operation_complete"})
  BY DEF OperationComplete
<1>2. /\ WellFormed(s) /\ OperationsComplete(s)
      /\ pos[p] \in Nat /\ i \in 1 .. Len(s) /\ i = pos[p] + 1
      /\ evt(p) = s[i] /\ evt(p).kind \in {"io_operation_complete"}
      /\ FilesOK(s, pos[p], ops, offset_map[p])
  BY <1>1, FilesFacts
<1>3. CASE IsMpiIo(p)
  <2>1. UNCHANGED <<graph, io_ops_started, offset_map>>
    BY <1>3 DEF OperationComplete, Ignore, locals
  <2>2. \A d \in DOMAIN graph' : OffsetOK(program, graph'[d])
    BY <2>1, SameGraph
  <2> QED
    BY <1>1, <1>3, <2>1, <2>2, FilesQuiet DEF IsMpiIo, TrackedHandle
<1>4. CASE ~IsMpiIo(p) /\ evt(p).matching_id # begin.matching_id
  <2>1. UNCHANGED <<graph, io_ops_started, offset_map>> /\ status' = "aborted"
    BY <1>4 DEF OperationComplete, Abort, locals
  <2>2. \A d \in DOMAIN graph' : OffsetOK(program, graph'[d])
    BY <2>1, SameGraph
  <2>3. /\ io_ops_started' = [io_ops_started EXCEPT ![p] = io_ops_started[p]]
        /\ offset_map' = [offset_map EXCEPT ![p] = offset_map[p]]
    BY <2>1 DEF LocalInv, PerProcess
  <2> QED
    BY <1>1, <2>1, <2>2, <2>3, FilesKept
<1>5. CASE ~IsMpiIo(p) /\ evt(p).matching_id = begin.matching_id
  <2>1. /\ SetOffset(p, Name(p), x)
        /\ AddIoEvent(p, Name(p), begin.mode, evt(p).bytes, x)
        /\ io_ops_started' = [io_ops_started EXCEPT ![p] = Tail(@)]
    BY <1>5 DEF OperationComplete
  <2>2. /\ io_ops_started' = [io_ops_started EXCEPT ![p] = Tail(ops)]
        /\ offset_map' = [offset_map EXCEPT ![p] = new]
    BY <2>1 DEF SetOffset, Name
  <2>3. /\ s[i].handle = g /\ s[i].kind = "io_operation_complete"
        /\ g.paradigm # "MPI-IO" /\ s[i].matching_id = begin.matching_id
        /\ Name(p) = g.file
    BY <1>2, <1>5 DEF IsMpiIo, Name
  <2>4. x = Wrap(Tracked(p, g.file) + (IF begin.mode \in {"read", "write"}
                                       THEN s[i].bytes ELSE 0))
    BY <1>2, <2>3 DEF Advanced
  <2> HIDE DEF s, i, g, ops, begin, x, new
  <2>5. Len(s) \in Nat /\ DOMAIN s = 1 .. Len(s)
    BY <1>2, LenProperties DEF WellFormed
  <2>6. /\ begin = s[BeginOf(s, i)] /\ BeginOf(s, i) \in 1 .. pos[p]
        /\ s[BeginOf(s, i)].kind = "io_operation_begin"
        /\ OpsOK(s, i, Tail(ops))
    BY <1>2, <2>3, OpsComplete DEF FilesOK, begin
  <2>7. OneHandlePerFile(s) => TrackedHandle(g)
    <3>1. s[i].kind \in IoKinds
      BY <2>3 DEF IoKinds
    <3>2. OneHandlePerFile(s) => (s[i].handle.paradigm # "MPI-IO" => ~s[i].handle.parent)
      BY <1>2, <2>5, <3>1 DEF OneHandlePerFile
    <3> QED
      BY <2>3, <3>2 DEF TrackedHandle
  <2>8. OneHandlePerFile(s) => x = Position(s, g)[i]
    <3>1. ASSUME OneHandlePerFile(s)
          PROVE  /\ g.file \in DOMAIN offset_map[p]
                 /\ Position(s, g)[i] =
                      Wrap(offset_map[p][g.file] +
                             (IF s[BeginOf(s, i)].mode \in {"read", "write"}
                              THEN s[i].bytes ELSE 0))
      BY <1>2, <2>3, <2>6, <2>7, <3>1, OffsetsCompleted DEF FilesOK
    <3> QED
      BY <2>4, <2>6, <3>1 DEF Tracked
  <2>9. OneHandlePerFile(s) => OffsetsOK(s, i, new)
    BY <1>2, <2>3, <2>7, <2>8, OffsetsMoved DEF FilesOK, new, Moves
  <2>10. FilesOK(s, i, Tail(ops), new)
    BY <2>6, <2>9 DEF FilesOK
  <2>11. \A d \in DOMAIN graph' : OffsetOK(program, graph'[d])
    <3>1. PICK v : v = IoEvent(p, Name(p), begin.mode, evt(p).bytes, x)
      OBVIOUS
    <3>2. /\ {"type", "proc", "region", "duration", "kind", "offset", "timestamp"} \subseteq DOMAIN v
          /\ v.proc = p /\ v.timestamp = Now(p) /\ v.offset = x
          /\ graph' = Append(graph, v)
      BY <2>1, <3>1, IoEventAdded
    <3>3. OneHandlePerFile(program[p]) =>
            v.offset = Position(program[p], program[p][Now(p)].handle)[Now(p)]
      BY <2>3, <2>8, <3>2 DEF s, i
    <3>4. Transferred(s, i, v)
      <4>1. /\ {"filename", "response_size"} \subseteq DOMAIN v
            /\ v.kind = begin.mode /\ v.filename = Name(p) /\ v.response_size = evt(p).bytes
        BY <3>1 DEF IoEvent
      <4> QED
        BY <1>2, <2>3, <2>5, <2>6, <4>1 DEF Transferred
    <3>5. OffsetOK(program, v)
      BY <3>2, <3>3, <3>4 DEF OffsetOK, s, i
    <3> QED
      BY <3>2, <3>5, VertexAdded
  <2> QED
    BY <1>1, <2>2, <2>10, <2>11, FilesKept DEF s, i
<1> QED
  BY <1>3, <1>4, <1>5
LEMMA FilesStep ==
  ASSUME IInv, LocalInv, FilesInv, [Next]_vars
  PROVE  FilesInv'
<1>1. CASE EventNext
  <2>1. PICK p \in Procs :
          \/ Enter(p) \/ Leave(p)
          \/ OperationBegin(p) \/ OperationComplete(p)
          \/ CreateHandle(p) \/ DeleteFile(p) \/ DestroyHandle(p) \/ DuplicateHandle(p)
          \/ Seek(p) \/ CollectiveEnd(p) \/ PeerToPeer(p)
          \/ Other(p)
    BY <1>1 DEF EventNext
  <2>2. ASSUME NEW kinds, Reads(p, kinds),
               kinds \cap (Moves \cup {"io_operation_begin", "io_operation_complete"}) = {},
               UNCHANGED <<io_ops_started, offset_map>>,
               \A d \in DOMAIN graph' : OffsetOK(program, graph'[d])
        PROVE  FilesInv'
    <3>1. evt(p).kind \notin Moves \cup {"io_operation_begin", "io_operation_complete"}
      BY <2>2 DEF Reads
    <3> QED
      BY <2>2, <3>1, FilesQuiet
  <2>3. CASE Enter(p)
    <3>1. Reads(p, {"enter"}) /\ UNCHANGED <<graph, io_ops_started, offset_map>>
      BY <2>3 DEF Enter
    <3> QED
      BY <2>2, <3>1, SameGraph DEF Moves
  <2>4. CASE Leave(p)
    <3>1. Reads(p, {"leave"}) /\ UNCHANGED <<io_ops_started, offset_map>>
      BY <2>4 DEF Leave
    <3>2. NotesOnly(graph, graph')
      <4>1. NotesOnly(graph, graph)
        BY DEF NotesOnly
      <4>2. \A d, x : NotesOnly(graph, [graph EXCEPT ![d].duration = x])
        <5> SUFFICES ASSUME NEW d, NEW x
            PROVE  NotesOnly(graph, [graph EXCEPT ![d] = [graph[d] EXCEPT !.duration = x]])
          OBVIOUS
        <5>1. PICK v : v = [graph[d] EXCEPT !.duration = x]
          OBVIOUS
        <5>2. DOMAIN v = DOMAIN graph[d]
              /\ \A f \in DOMAIN graph[d] \ {"root_event", "duration"} : v[f] = graph[d][f]
          BY <5>1
        <5>3. /\ DOMAIN [graph EXCEPT ![d] = v] = DOMAIN graph
              /\ \A j \in DOMAIN graph :
                   [graph EXCEPT ![d] = v][j] = IF j = d THEN v ELSE graph[j]
          BY ExceptFacts DEF IInv, GraphInv
        <5>4. NotesOnly(graph, [graph EXCEPT ![d] = v])
          BY <5>2, <5>3 DEF NotesOnly
        <5> QED
          BY <5>1, <5>4
      <4>3. \/ UNCHANGED graph
            \/ \E d, x : graph' = [graph EXCEPT ![d].duration = x]
        BY <2>4 DEF Leave
      <4> QED
        BY <4>1, <4>2, <4>3
    <3>3. \A d \in DOMAIN graph' : OffsetOK(program, graph'[d])
      BY <3>2, NotesKept
    <3> QED
      BY <2>2, <3>1, <3>3 DEF Moves
  <2>5. CASE OperationBegin(p)
    BY <2>5, FilesBegun
  <2>6. CASE OperationComplete(p)
    BY <2>6, FilesCompleted
  <2>7. CASE CreateHandle(p)
    <3>1. Reads(p, {"io_create_handle"}) /\ evt(p).kind = "io_create_handle"
      BY <2>7 DEF CreateHandle, Reads
    <3>2. CASE Discarded(p)
      <4>1. UNCHANGED <<graph, io_ops_started, offset_map>>
        BY <2>7, <3>2 DEF CreateHandle, Ignore, locals
      <4>2. ~TrackedHandle(evt(p).handle)
        BY <3>2 DEF Discarded, IsMpiIo, TrackedHandle
      <4> QED
        BY <3>1, <4>1, <4>2, SameGraph, FilesQuiet
    <3>3. CASE ~Discarded(p)
      <4>1. /\ SetOffset(p, Name(p), 0) /\ UNCHANGED io_ops_started
            /\ AddIoEvent(p, Name(p), "create", 0, 0)
        BY <2>7, <3>3 DEF CreateHandle
      <4>2. \A d \in DOMAIN graph' : OffsetOK(program, graph'[d])
        BY <4>1, OtherVertexAdded DEF Transfers
      <4> QED
        BY <3>1, <3>3, <4>1, <4>2, FilesMoved
    <3> QED
      BY <3>2, <3>3
  <2>8. CASE DeleteFile(p)
    <3>1. Reads(p, {"io_delete_file"}) /\ evt(p).kind = "io_delete_file"
          /\ Drop(p, evt(p).file)
      BY <2>8 DEF DeleteFile, Reads
    <3>2. ~OneHandlePerFile(program[p])
      <4>1. Now(p) \in DOMAIN program[p] /\ program[p][Now(p)].kind = "io_delete_file"
        BY <3>1 DEF Reads, evt
      <4> QED
        BY <4>1 DEF OneHandlePerFile, IoKinds
    <3>3. /\ UNCHANGED io_ops_started
          /\ \E offsets : offset_map' = [offset_map EXCEPT ![p] = offsets]
      <4>1. CASE evt(p).file \in DOMAIN offset_map[p]
        BY <3>1, <4>1 DEF Drop, EraseOffset
      <4>2. CASE evt(p).file \notin DOMAIN offset_map[p]
        <5>1. UNCHANGED <<io_ops_started, offset_map>>
          BY <3>1, <4>2 DEF Drop, Abort, locals
        <5>2. offset_map' = [offset_map EXCEPT ![p] = offset_map[p]]
          BY <5>1 DEF LocalInv, PerProcess
        <5> QED
          BY <5>1, <5>2
      <4> QED
        BY <4>1, <4>2
    <3>4. \A d \in DOMAIN graph' : OffsetOK(program, graph'[d])
      <4>1. CASE evt(p).file \in DOMAIN offset_map[p]
        BY <3>1, <4>1, OtherVertexAdded DEF Drop, Transfers
      <4>2. CASE evt(p).file \notin DOMAIN offset_map[p]
        BY <3>1, <4>2, SameGraph DEF Drop, Abort
      <4> QED
        BY <4>1, <4>2
    <3> QED
      BY <3>1, <3>2, <3>3, <3>4, FilesQuiet
  <2>9. CASE DestroyHandle(p)
    <3>1. CASE Discarded(p)
      <4>1. Reads(p, {"io_destroy_handle"}) /\ UNCHANGED <<graph, io_ops_started, offset_map>>
        BY <2>9, <3>1 DEF DestroyHandle, Ignore, locals
      <4> QED
        BY <2>2, <4>1, SameGraph DEF Moves
    <3>2. CASE ~Discarded(p)
      BY <2>9, <3>2, FilesDestroyed
    <3> QED
      BY <3>1, <3>2
  <2>10. CASE DuplicateHandle(p)
    <3>1. Reads(p, {"io_duplicate_handle"}) /\ UNCHANGED <<io_ops_started, offset_map>>
          /\ AddIoEvent(p, Name(p), "dup", 0, 0)
      BY <2>10 DEF DuplicateHandle
    <3>2. \A d \in DOMAIN graph' : OffsetOK(program, graph'[d])
      BY <3>1, OtherVertexAdded DEF Transfers
    <3> QED
      BY <2>2, <3>1, <3>2 DEF Moves
  <2>11. CASE Seek(p)
    <3>1. Reads(p, {"io_seek"}) /\ evt(p).kind = "io_seek"
      BY <2>11 DEF Seek, Reads
    <3>2. CASE IsMpiIo(p)
      <4>1. UNCHANGED <<graph, io_ops_started, offset_map>>
        BY <2>11, <3>2 DEF Seek, Ignore, locals
      <4>2. ~TrackedHandle(evt(p).handle)
        BY <3>2 DEF IsMpiIo, TrackedHandle
      <4> QED
        BY <3>1, <4>1, <4>2, SameGraph, FilesQuiet
    <3>3. CASE ~IsMpiIo(p)
      <4>1. /\ SetOffset(p, Name(p), evt(p).offset) /\ UNCHANGED io_ops_started
            /\ AddIoEvent(p, Name(p), "seek", evt(p).offset, evt(p).offset)
        BY <2>11, <3>3 DEF Seek
      <4>2. \A d \in DOMAIN graph' : OffsetOK(program, graph'[d])
        BY <4>1, OtherVertexAdded DEF Transfers
      <4> QED
        BY <3>1, <3>3, <4>1, <4>2, FilesMoved
    <3> QED
      BY <3>2, <3>3
  <2>12. CASE CollectiveEnd(p) \/ PeerToPeer(p)
    <3>1. PICK kinds : Reads(p, kinds) /\ kinds \subseteq SyncKinds
      BY <2>12 DEF CollectiveEnd, PeerToPeer, SyncKinds
    <3>2. kinds \cap (Moves \cup {"io_operation_begin", "io_operation_complete"}) = {}
      BY <3>1 DEF SyncKinds, PeerKinds, Moves
    <3>3. \/ UNCHANGED <<graph, io_ops_started, offset_map>>
          \/ \E comm_kind, remote, members, root :
               AddSyncEvent(p, SyncEvent(p, comm_kind, remote, members, root))
      BY <2>12 DEF CollectiveEnd, PeerToPeer, Ignore, locals
    <3>4. UNCHANGED <<io_ops_started, offset_map>>
      BY <3>3 DEF AddSyncEvent
    <3>5. \A d \in DOMAIN graph' : OffsetOK(program, graph'[d])
      BY <3>3, SameGraph, SyncVertexAdded
    <3> QED
      BY <2>2, <3>1, <3>2, <3>4, <3>5
  <2>13. CASE Other(p)
    <3>1. Reads(p, {"other"}) /\ UNCHANGED <<graph, io_ops_started, offset_map>>
      BY <2>13 DEF Other, Ignore, locals
    <3> QED
      BY <2>2, <3>1, SameGraph DEF Moves
  <2> QED
    BY <2>1, <2>3, <2>4, <2>5, <2>6, <2>7, <2>8, <2>9, <2>10, <2>11, <2>12, <2>13
<1>2. ASSUME UNCHANGED <<program, pos, io_ops_started, offset_map>>,
             status' # "aborted" => status # "aborted",
             \A d \in DOMAIN graph' : OffsetOK(program, graph'[d])
      PROVE  FilesInv'
  BY <1>2 DEF FilesInv
<1>3. CASE DefinitionsNext
  BY <1>2, <1>3, SameGraph DEF DefinitionsNext, RegisterLocation, DefinitionsDone, locals
<1>4. CASE EventsDone
  <2>1. UNCHANGED <<program, pos, io_ops_started, offset_map>> /\ status = "events"
    BY <1>4 DEF EventsDone, locals
  <2>2. UNCHANGED graph \/ graph' = Append(graph, Synthetic("End"))
    BY <1>4 DEF EventsDone, create_synthetic_end
  <2>3. OffsetOK(program, Synthetic("End"))
    BY DEF OffsetOK, Synthetic
  <2>4. \A d \in DOMAIN graph' : OffsetOK(program, graph'[d])
    BY <2>2, <2>3, SameGraph, VertexAdded
  <2> QED
    BY <1>2, <2>1, <2>4
<1>5. CASE Match
  <2>1. UNCHANGED <<program, pos, io_ops_started, offset_map>> /\ MatchingNext
    BY <1>5 DEF Match, locals
  <2>2. status = "matching"
    BY <2>1 DEF MatchingNext, Matching, NextLocation, SkipVertex, SkipMyself, ConnectMember,
                FinishCollective, ConnectPeer, set_graph_properties
  <2>3. NotesOnly(graph, graph')
    BY <2>1, MatchRoots DEF RootsOnly, NotesOnly
  <2> QED
    BY <1>2, <2>1, <2>2, <2>3, NotesKept
<1>6. CASE UNCHANGED vars
  BY <1>2, <1>6, SameGraph DEF vars, locals
<1> QED
  BY <1>1, <1>3, <1>4, <1>5, <1>6 DEF Next

LEMMA FilesInitially ==
  ASSUME Init
  PROVE  FilesInv
<1>1. DOMAIN graph = {root_} /\ graph[root_] = Synthetic("Root")
  BY DEF Init, root_
<1>2. ASSUME NEW s PROVE OpsOK(s, 0, <<>>) /\ OffsetsOK(s, 0, <<>>)
  <2>1. 1 .. 0 = {} /\ 1 .. (0 + 1) - 1 = {}
    OBVIOUS
  <2>2. UnderWay(s, 0) = {} /\ OpenAt(s, 0 + 1) = {}
    BY <2>1 DEF UnderWay, OpenAt
  <2>3. Len(<<>>) = 0 /\ IsSequence(<<>>)
    BY SequenceOver, EmptySeq
  <2>4. Lists(s, 0, <<>>, [k \in {} |-> k])
    BY <2>1, <2>2, <2>3 DEF Lists
  <2> QED
    BY <2>2, <2>3, <2>4 DEF OpsOK, OffsetsOK
<1> QED
  BY <1>1, <1>2 DEF Init, FilesInv, FilesOK, OffsetOK, Synthetic

(***************************************************************************)
(* The offset noted at a read, write or flush is the position of the file  *)
(* after it, in every process that uses one handle of a file at a time:    *)
(* whatever is begun in between, and whatever other processes do.          *)
(***************************************************************************)
THEOREM Offsets == Spec => []OffsetsRight
<1>1. Init => IInv /\ LocalInv /\ FilesInv
  BY Initially, LocalInitially, FilesInitially
<1>2. IInv /\ LocalInv /\ FilesInv /\ [Next]_vars => IInv' /\ LocalInv' /\ FilesInv'
  BY Inductive, LocalStep, FilesStep
<1>3. FilesInv => OffsetsRight
  BY DEF FilesInv, OffsetOK, OffsetsRight, Transfers
<1> QED
  BY <1>1, <1>2, <1>3, PTL DEF Spec

(***************************************************************************)
(* In such traces the assertions that a file has an offset tracker hold.   *)
(***************************************************************************)
THEOREM TrackersFound ==
  Spec => []((\A p \in Procs : OneHandlePerFile(program[p])) => OffsetTrackerExists)
<1>1. Init => IInv /\ LocalInv /\ FilesInv
  BY Initially, LocalInitially, FilesInitially
<1>2. IInv /\ LocalInv /\ FilesInv /\ [Next]_vars => IInv' /\ LocalInv' /\ FilesInv'
  BY Inductive, LocalStep, FilesStep
<1>3. IInv /\ FilesInv =>
        ((\A p \in Procs : OneHandlePerFile(program[p])) => OffsetTrackerExists)
  <2> SUFFICES ASSUME IInv, FilesInv, NEW p \in Procs, OneHandlePerFile(program[p]),
                      status = "events", Now(p) \in DOMAIN program[p]
      PROVE  /\ evt(p).kind = "io_delete_file" => evt(p).file \in DOMAIN offset_map[p]
             /\ evt(p).kind = "io_destroy_handle" /\ ~Discarded(p) =>
                  Name(p) \in DOMAIN offset_map[p]
    BY DEF OffsetTrackerExists
  <2>1. evt(p).kind # "io_delete_file"
    BY DEF OneHandlePerFile, IoKinds, evt
  <2>2. ASSUME evt(p).kind = "io_destroy_handle", ~Discarded(p)
        PROVE  Name(p) \in DOMAIN offset_map[p]
    <3>1. OffsetsOK(program[p], pos[p], offset_map[p])
      BY DEF FilesInv, FilesOK
    <3>2. evt(p).handle \in OpenAt(program[p], Now(p))
      BY <2>2 DEF OneHandlePerFile, IoKinds, evt
    <3> QED
      BY <2>2, <3>1, <3>2 DEF OffsetsOK, Now, Discarded, IsMpiIo, TrackedHandle, Name
  <2> QED
    BY <2>1, <2>2
<1> QED
  BY <1>1, <1>2, <1>3, PTL DEF Spec
=============================================================================
