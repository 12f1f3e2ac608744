------------------------------- MODULE Basics -------------------------------
(***************************************************************************)
(* Lemmas on least and greatest elements, sequences and division.          *)
(***************************************************************************)
EXTENDS Integers, SequencesExt, SequenceTheorems, WellFoundedInduction, TLAPS

LessNat == {ss \in Nat \X Nat : ss[1] < ss[2]}

LEMMA LessNatWellFounded == IsWellFoundedOn(LessNat, Nat)
<1>1. OpToRel(<, Nat) = LessNat
  BY DEF OpToRel, LessNat
<1> QED
  BY <1>1, NatLessThanWellFounded, Zenon

(***************************************************************************)
(* A non-empty set of naturals has a least element.                        *)
(***************************************************************************)
LEMMA LeastNat ==
  ASSUME NEW S \in SUBSET Nat, S # {}
  PROVE  \E x \in S : \A y \in S : x <= y
<1>1. PICK x \in S : \A y \in S : <<y, x>> \notin LessNat
  BY LessNatWellFounded, WFMin
<1>2. ASSUME NEW y \in S PROVE x <= y
  <2>1. x \in Nat /\ y \in Nat
    OBVIOUS
  <2>2. y < x => <<y, x>> \in LessNat
    BY <2>1 DEF LessNat
  <2>3. ~(y < x)
    BY <1>1, <2>2
  <2> QED
    BY <2>1, <2>3
<1> QED
  BY <1>2

(***************************************************************************)
(* A non-empty set of naturals below a bound has a greatest element.       *)
(***************************************************************************)
LEMMA GreatestNat ==
  ASSUME NEW n \in Nat, NEW S \in SUBSET (0 .. n), S # {}
  PROVE  \E x \in S : \A y \in S : x >= y
<1> DEFINE T == {k \in Nat : n - k \in S}
<1>1. ASSUME NEW y \in S PROVE n - y \in T
  <2>1. y \in 0 .. n
    OBVIOUS
  <2>2. n - y \in Nat /\ n - (n - y) = y
    BY <2>1
  <2> QED
    BY <2>2
<1>2. T # {} /\ T \in SUBSET Nat
  BY <1>1
<1>3. PICK t \in T : \A u \in T : t <= u
  <2> HIDE DEF T
  <2> QED BY <1>2, LeastNat
<1>4. n - t \in S /\ t \in Nat
  OBVIOUS
<1>5. ASSUME NEW y \in S PROVE n - t >= y
  <2>1. t <= n - y
    BY <1>1, <1>3
  <2>2. y \in Int
    OBVIOUS
  <2> QED
    BY <1>4, <2>1, <2>2
<1> QED
  BY <1>4, <1>5

(***************************************************************************)
(* A non-empty set has an element of least value under a function to Nat.  *)
(***************************************************************************)
LEMMA LeastValue ==
  ASSUME NEW S, S # {}, NEW f, \A x \in S : f[x] \in Nat
  PROVE  \E x \in S : \A y \in S : f[x] <= f[y]
<1> DEFINE V == {f[x] : x \in S}
<1>1. V \in SUBSET Nat /\ V # {}
  OBVIOUS
<1>2. PICK v \in V : \A w \in V : v <= w
  <2> HIDE DEF V
  <2> QED BY <1>1, LeastNat
<1>3. PICK x \in S : v = f[x]
  OBVIOUS
<1>4. \A y \in S : f[x] <= f[y]
  BY <1>2, <1>3
<1> QED
  BY <1>4

-----------------------------------------------------------------------------
(***************************************************************************)
(* Sequences of whatever they hold                                         *)
(***************************************************************************)
IsSequence(s) == s \in Seq(Range(s))

LEMMA SequenceOver ==
  ASSUME NEW S, NEW s \in Seq(S)
  PROVE  IsSequence(s)
BY SeqOfRange DEF IsSequence

LEMMA SequenceFacts ==
  ASSUME NEW s, IsSequence(s)
  PROVE  /\ Len(s) \in Nat
         /\ DOMAIN s = 1 .. Len(s)
         /\ \A i \in DOMAIN s : s[i] \in Range(s)
BY LenProperties DEF IsSequence, Range

LEMMA SameLength ==
  ASSUME NEW m \in Nat, NEW n \in Nat, 1 .. m = 1 .. n
  PROVE  m = n
<1>1. CASE m = 0
  <2>1. 1 \notin 1 .. n
    BY <1>1
  <2> QED
    BY <1>1, <2>1
<1>2. CASE n = 0
  <2>1. 1 \notin 1 .. m
    BY <1>2
  <2> QED
    BY <1>2, <2>1
<1>3. CASE m # 0 /\ n # 0
  <2>1. m \in 1 .. n /\ n \in 1 .. m
    BY <1>3
  <2> QED
    BY <2>1
<1> QED
  BY <1>1, <1>2, <1>3

LEMMA AppendFacts ==
  ASSUME NEW s, IsSequence(s), NEW e
  PROVE  /\ IsSequence(Append(s, e))
         /\ DOMAIN Append(s, e) = DOMAIN s \cup {Len(s) + 1}
         /\ Append(s, e)[Len(s) + 1] = e
         /\ \A i \in DOMAIN s : Append(s, e)[i] = s[i]
         /\ Len(s) + 1 \notin DOMAIN s
<1> DEFINE S == Range(s) \cup {e}
<1>1. s \in Seq(S) /\ e \in S
  BY SeqMonotonic DEF IsSequence
<1>2. /\ Append(s, e) \in Seq(S)
      /\ Len(Append(s, e)) = Len(s) + 1
      /\ \A i \in 1 .. Len(s) : Append(s, e)[i] = s[i]
      /\ Append(s, e)[Len(s) + 1] = e
  BY <1>1, AppendProperties
<1>3. IsSequence(Append(s, e)) /\ DOMAIN Append(s, e) = 1 .. Len(s) + 1
  BY <1>2, SequenceOver, LenProperties
<1>4. DOMAIN s = 1 .. Len(s) /\ Len(s) \in Nat
  BY SequenceFacts
<1> QED
  BY <1>2, <1>3, <1>4

LEMMA ExceptFacts ==
  ASSUME NEW s, IsSequence(s), NEW i, NEW e
  PROVE  /\ IsSequence([s EXCEPT ![i] = e])
         /\ DOMAIN [s EXCEPT ![i] = e] = DOMAIN s
         /\ \A j \in DOMAIN s : [s EXCEPT ![i] = e][j] = IF j = i THEN e ELSE s[j]
<1> DEFINE S == Range(s) \cup {e}
<1>1. s \in Seq(S) /\ e \in S
  BY SeqMonotonic DEF IsSequence
<1>2. DOMAIN s = 1 .. Len(s) /\ s = [j \in DOMAIN s |-> s[j]]
  BY SequenceFacts, LenProperties DEF IsSequence
<1>3. CASE i \in DOMAIN s
  <2>1. [s EXCEPT ![i] = e] \in Seq(S)
    BY <1>1, <1>2, <1>3, ExceptSeq
  <2>2. IsSequence([s EXCEPT ![i] = e])
    BY <2>1, SequenceOver
  <2> QED
    BY <1>2, <2>2
<1>4. CASE i \notin DOMAIN s
  <2>1. [s EXCEPT ![i] = e] = s
    BY <1>2, <1>4
  <2> QED
    BY <1>4, <2>1
<1> QED
  BY <1>3, <1>4

LEMMA RangeAppend ==
  ASSUME NEW s, IsSequence(s), NEW e
  PROVE  Range(Append(s, e)) = Range(s) \cup {e}
<1> DEFINE t == Append(s, e)
<1>1. /\ DOMAIN t = DOMAIN s \cup {Len(s) + 1}
      /\ t[Len(s) + 1] = e
      /\ \A i \in DOMAIN s : t[i] = s[i]
  BY AppendFacts
<1> HIDE DEF t
<1>2. Range(t) = {t[i] : i \in DOMAIN s} \cup {t[Len(s) + 1]}
  BY <1>1 DEF Range
<1>3. {t[i] : i \in DOMAIN s} = Range(s)
  BY <1>1 DEF Range
<1> QED
  BY <1>1, <1>2, <1>3 DEF t

LEMMA RemoveFacts ==
  ASSUME NEW S, NEW s \in Seq(S), NEW n \in DOMAIN s
  PROVE  RemoveAt(s, n) \in Seq(S)
<1>1. Len(s) \in Nat /\ DOMAIN s = 1 .. Len(s) /\ \A i \in 1 .. Len(s) : s[i] \in S
  BY LenProperties
<1>2. n \in 1 .. Len(s) /\ n - 1 \in Int /\ n + 1 \in Int /\ Len(s) \in Int
  BY <1>1
<1>3. \A i \in 1 .. n - 1 : s[i] \in S
  BY <1>1, <1>2
<1>4. \A i \in n + 1 .. Len(s) : s[i] \in S
  BY <1>1, <1>2
<1>5. SubSeq(s, 1, n - 1) \in Seq(S)
  BY <1>2, <1>3, SubSeqProperties
<1>6. SubSeq(s, n + 1, Len(s)) \in Seq(S)
  BY <1>2, <1>4, SubSeqProperties
<1> QED
  BY <1>5, <1>6, ConcatProperties DEF RemoveAt

(* Taking away an element of an ascending sequence. *)
Ascending(s) == \A m, n \in DOMAIN s : m < n => s[m] < s[n]

LEMMA RemoveAscending ==
  ASSUME NEW S \in SUBSET Nat, NEW s \in Seq(S), NEW n \in DOMAIN s, Ascending(s)
  PROVE  /\ Ascending(RemoveAt(s, n))
         /\ Range(RemoveAt(s, n)) = Range(s) \ {s[n]}
<1> DEFINE a == SubSeq(s, 1, n - 1)
           b == SubSeq(s, n + 1, Len(s))
           t == RemoveAt(s, n)
<1>1. Len(s) \in Nat /\ DOMAIN s = 1 .. Len(s) /\ \A i \in 1 .. Len(s) : s[i] \in S
  BY LenProperties
<1>2. n \in 1 .. Len(s) /\ n - 1 \in Int /\ n + 1 \in Int /\ Len(s) \in Int
  BY <1>1
<1>3. /\ \A i \in 1 .. n - 1 : s[i] \in S
      /\ \A i \in n + 1 .. Len(s) : s[i] \in S
  BY <1>1, <1>2
<1>4. /\ a \in Seq(S) /\ Len(a) = n - 1 /\ \A i \in 1 .. n - 1 : a[i] = s[i]
  <2>1. Len(a) = IF 1 <= n - 1 THEN (n - 1) - 1 + 1 ELSE 0
    BY <1>2, <1>3, SubSeqProperties
  <2>2. a \in Seq(S) /\ \A i \in 1 .. (n - 1) - 1 + 1 : a[i] = s[1 + i - 1]
    BY <1>2, <1>3, SubSeqProperties
  <2> HIDE DEF a
  <2> QED
    BY <1>2, <2>1, <2>2
<1>5. /\ b \in Seq(S) /\ Len(b) = Len(s) - n /\ \A i \in 1 .. Len(s) - n : b[i] = s[n + i]
  <2>1. Len(b) = IF n + 1 <= Len(s) THEN Len(s) - (n + 1) + 1 ELSE 0
    BY <1>2, <1>3, SubSeqProperties
  <2>2. b \in Seq(S) /\ \A i \in 1 .. Len(s) - (n + 1) + 1 : b[i] = s[(n + 1) + i - 1]
    BY <1>2, <1>3, SubSeqProperties
  <2> HIDE DEF b
  <2>3. Len(b) = Len(s) - n
    BY <1>2, <2>1
  <2>4. ASSUME NEW i \in 1 .. Len(s) - n PROVE b[i] = s[n + i]
    <3>1. i \in 1 .. Len(s) - (n + 1) + 1 /\ (n + 1) + i - 1 = n + i
      BY <1>2
    <3> QED
      BY <2>2, <3>1
  <2> QED
    BY <2>2, <2>3, <2>4
<1>6. t = a \o b
  BY DEF RemoveAt
<1> HIDE DEF a, b, t
<1>7. /\ t \in Seq(S) /\ Len(t) = Len(s) - 1 /\ DOMAIN t = 1 .. Len(s) - 1
      /\ \A i \in 1 .. Len(s) - 1 : t[i] = IF i < n THEN s[i] ELSE s[i + 1]
  <2>1. t \in Seq(S) /\ Len(t) = Len(a) + Len(b)
        /\ \A i \in 1 .. Len(a) + Len(b) :
             t[i] = IF i <= Len(a) THEN a[i] ELSE b[i - Len(a)]
    BY <1>4, <1>5, <1>6, ConcatProperties
  <2>2. DOMAIN t = 1 .. Len(t)
    BY <2>1, LenProperties
  <2>3. \A i \in 1 .. Len(s) - 1 : /\ i < n => i \in 1 .. n - 1 /\ i <= Len(a)
                                  /\ ~(i < n) => /\ ~(i <= Len(a))
                                                 /\ i - Len(a) \in 1 .. Len(s) - n
                                                 /\ n + (i - Len(a)) = i + 1
    BY <1>2, <1>4
  <2>4. Len(a) + Len(b) = Len(s) - 1
    BY <1>2, <1>4, <1>5
  <2> QED
    BY <1>4, <1>5, <2>1, <2>2, <2>3, <2>4
<1>8. /\ \A i \in 1 .. Len(s) : s[i] \in Nat
      /\ \A i, j \in 1 .. Len(s) : i < j => s[i] < s[j]
  BY <1>1 DEF Ascending
<1>9. \A i \in 1 .. Len(s) : i # n => s[i] # s[n]
  <2> SUFFICES ASSUME NEW i \in 1 .. Len(s), i # n PROVE s[i] # s[n]
    OBVIOUS
  <2>1. i < n \/ n < i
    BY <1>2
  <2>2. s[i] < s[n] \/ s[n] < s[i]
    BY <1>2, <1>8, <2>1
  <2> QED
    BY <1>2, <1>8, <2>2
<1>13. Ascending(t)
  <2> SUFFICES ASSUME NEW i \in DOMAIN t, NEW j \in DOMAIN t, i < j PROVE t[i] < t[j]
    BY DEF Ascending
  <2>1. i \in 1 .. Len(s) /\ j \in 1 .. Len(s) /\ i + 1 \in 1 .. Len(s) /\ j + 1 \in 1 .. Len(s)
        /\ (j < n => i < n) /\ i < j + 1 /\ i + 1 < j + 1
    BY <1>1, <1>2, <1>7
  <2>2. t[i] = (IF i < n THEN s[i] ELSE s[i + 1]) /\ t[j] = (IF j < n THEN s[j] ELSE s[j + 1])
    BY <1>7
  <2>3. s[i] < s[j] /\ s[i] < s[j + 1] /\ s[i + 1] < s[j + 1]
    BY <1>8, <2>1
  <2> QED
    BY <2>1, <2>2, <2>3
<1>10. ASSUME NEW i \in DOMAIN t PROVE t[i] \in Range(s) \ {s[n]}
  <2>1. CASE i < n
    BY <1>1, <1>2, <1>7, <1>9, <2>1 DEF Range
  <2>2. CASE ~(i < n)
    <3>1. i + 1 \in 1 .. Len(s) /\ i + 1 # n /\ t[i] = s[i + 1]
      BY <1>1, <1>2, <1>7, <2>2
    <3> QED
      BY <1>1, <1>9, <3>1 DEF Range
  <2> QED
    BY <2>1, <2>2
<1>11. ASSUME NEW i \in DOMAIN s, i # n PROVE s[i] \in Range(t)
  <2>1. CASE i < n
    <3>1. i \in DOMAIN t /\ t[i] = s[i]
      BY <1>1, <1>2, <1>7, <2>1
    <3> QED
      BY <3>1 DEF Range
  <2>2. CASE ~(i < n)
    <3>1. i - 1 \in DOMAIN t /\ ~(i - 1 < n) /\ (i - 1) + 1 = i
      BY <1>1, <1>2, <1>7, <1>11, <2>2
    <3>2. t[i - 1] = s[i]
      BY <1>7, <3>1
    <3> QED
      BY <3>1, <3>2 DEF Range
  <2> QED
    BY <2>1, <2>2
<1>12. Range(t) = Range(s) \ {s[n]}
  BY <1>10, <1>11 DEF Range
<1> QED
  BY <1>12, <1>13 DEF t

-----------------------------------------------------------------------------
(***************************************************************************)
(* Division with remainder                                                 *)
(***************************************************************************)
LEMMA Remainder ==
  ASSUME NEW n \in Nat \ {0}, NEW p \in Nat
  PROVE  /\ p % n \in 0 .. n - 1
         /\ p % n <= p
         /\ p = n * (p \div n) + (p % n)
         /\ p \div n \in Int
BY SMTT(30)
=============================================================================
