---------------------------- MODULE SequenceFacts ----------------------------
(***************************************************************************)
(* Facts about sequences that the proofs about several modules need: how a *)
(* loop takes a sequence apart, and what concatenation does to elements    *)
(* and to names.                                                           *)
(***************************************************************************)
EXTENDS Naturals, Sequences, Functions, SequenceTheorems, TLAPS

LEMMA SeqHead == \A S : \A s \in Seq(S) : s # <<>> => Head(s) \in S
BY HeadTailProperties

LEMMA TailNotEmpty == \A S : \A s \in Seq(S) : Len(s) > 1 => Tail(s) # <<>>
<1> SUFFICES ASSUME NEW S, NEW s \in Seq(S), Len(s) > 1
             PROVE  Tail(s) # <<>>
  OBVIOUS
<1>1. s # <<>> /\ Len(s) \in Nat
  BY EmptySeq, LenProperties
<1>2. Len(Tail(s)) = Len(s) - 1
  BY <1>1, HeadTailProperties
<1>3. Len(Tail(s)) # 0
  BY <1>1, <1>2
<1>4. Len(<<>>) = 0
  OBVIOUS
<1> QED
  BY <1>3, <1>4

(***************************************************************************)
(* A loop over a sequence: its elements are the one it is at and the rest. *)
(***************************************************************************)
LEMMA RangeOfLoop ==
  ASSUME NEW S, NEW s \in Seq(S)
  PROVE  /\ Range(s) \subseteq S
         /\ s = <<>> => Range(s) = {}
         /\ s # <<>> => /\ Head(s) \in S /\ Tail(s) \in Seq(S)
                        /\ Range(s) = {Head(s)} \cup Range(Tail(s))
<1>1. Range(s) \subseteq S
  BY LenProperties, ElementOfSeq DEF Range
<1>2. s = <<>> => Range(s) = {}
  BY DEF Range
<1>3. ASSUME s # <<>>
      PROVE  /\ Head(s) \in S /\ Tail(s) \in Seq(S)
             /\ Range(s) = {Head(s)} \cup Range(Tail(s))
  <2>1. /\ Head(s) \in S /\ Tail(s) \in Seq(S) /\ Head(s) = s[1]
        /\ Len(s) \in Nat /\ Len(s) >= 1 /\ DOMAIN s = 1..Len(s)
        /\ DOMAIN Tail(s) = 1..(Len(s) - 1)
        /\ \A i \in 1..(Len(s) - 1) : Tail(s)[i] = s[i + 1]
    BY <1>3, HeadTailProperties, LenProperties, EmptySeq
  <2>2. \A i \in 2..Len(s) : i - 1 \in DOMAIN Tail(s) /\ s[i] = Tail(s)[i - 1]
    BY <2>1
  <2>3. Range(s) \subseteq {Head(s)} \cup Range(Tail(s))
    <3>1. ASSUME NEW i \in 1..Len(s)
          PROVE  s[i] \in {Head(s)} \cup Range(Tail(s))
      <4>1. CASE i = 1
        BY <2>1, <4>1
      <4>2. CASE i # 1
        <5>1. i \in 2..Len(s)
          BY <2>1, <4>2
        <5> QED
          BY <2>2, <5>1 DEF Range
      <4> QED
        BY <4>1, <4>2
    <3> QED
      BY <2>1, <3>1 DEF Range
  <2>4. {Head(s)} \cup Range(Tail(s)) \subseteq Range(s)
    BY <2>1 DEF Range
  <2> QED
    BY <2>1, <2>3, <2>4
<1> QED
  BY <1>1, <1>2, <1>3

(***************************************************************************)
(* The elements of a concatenation.                                        *)
(***************************************************************************)
LEMMA RangeOfConcat ==
  ASSUME NEW S, NEW s \in Seq(S), NEW t \in Seq(S)
  PROVE  s \o t \in Seq(S) /\ Range(s \o t) = Range(s) \cup Range(t)
<1>1. /\ s \o t \in Seq(S)
      /\ Len(s) \in Nat /\ Len(t) \in Nat /\ Len(s \o t) = Len(s) + Len(t)
      /\ DOMAIN s = 1..Len(s) /\ DOMAIN t = 1..Len(t)
      /\ DOMAIN (s \o t) = 1..(Len(s) + Len(t))
      /\ \A i \in 1..(Len(s) + Len(t)) :
            (s \o t)[i] = IF i <= Len(s) THEN s[i] ELSE t[i - Len(s)]
  BY ConcatProperties, LenProperties
<1>2. Range(s) \subseteq Range(s \o t)
  BY <1>1 DEF Range
<1>3. ASSUME NEW j \in 1..Len(t) PROVE t[j] \in Range(s \o t)
  <2>1. /\ Len(s) + j \in 1..(Len(s) + Len(t)) /\ ~(Len(s) + j <= Len(s))
        /\ (Len(s) + j) - Len(s) = j
    BY <1>1
  <2>2. (s \o t)[Len(s) + j] = t[j]
    BY <1>1, <2>1
  <2> QED
    BY <1>1, <2>1, <2>2 DEF Range
<1>4. ASSUME NEW i \in 1..(Len(s) + Len(t))
      PROVE  (s \o t)[i] \in Range(s) \cup Range(t)
  <2>1. CASE i <= Len(s)
    BY <1>1, <2>1 DEF Range
  <2>2. CASE ~(i <= Len(s))
    <3>1. i - Len(s) \in 1..Len(t)
      BY <1>1, <2>2
    <3> QED
      BY <1>1, <2>2, <3>1 DEF Range
  <2> QED
    BY <2>1, <2>2
<1> QED
  BY <1>1, <1>2, <1>3, <1>4 DEF Range

\* The elements of a sequence with one more.
LEMMA RangeOfAppend ==
  ASSUME NEW S, NEW s \in Seq(S), NEW x \in S
  PROVE  Range(Append(s, x)) = Range(s) \cup {x}
<1>1. /\ Len(s) \in Nat /\ DOMAIN s = 1..Len(s)
      /\ DOMAIN Append(s, x) = 1..(Len(s) + 1)
      /\ \A i \in 1..Len(s) : Append(s, x)[i] = s[i]
      /\ Append(s, x)[Len(s) + 1] = x
  BY AppendProperties, LenProperties
<1>2. Range(s) \cup {x} \subseteq Range(Append(s, x))
  BY <1>1 DEF Range
<1>3. ASSUME NEW i \in 1..(Len(s) + 1) PROVE Append(s, x)[i] \in Range(s) \cup {x}
  <2>1. i \in 1..Len(s) \/ i = Len(s) + 1
    BY <1>1
  <2> QED
    BY <1>1, <2>1 DEF Range
<1> QED
  BY <1>1, <1>2, <1>3 DEF Range

(***************************************************************************)
(* A concatenation can be cut in one way only where the first parts have   *)
(* the same length.                                                        *)
(***************************************************************************)
LEMMA CutOnce ==
  ASSUME NEW S, NEW s1 \in Seq(S), NEW s2 \in Seq(S), NEW t1 \in Seq(S), NEW t2 \in Seq(S),
         Len(s1) = Len(s2), s1 \o t1 = s2 \o t2
  PROVE  s1 = s2 /\ t1 = t2
<1>1. /\ \A s, t \in Seq(S) :
            /\ Len(s) \in Nat /\ Len(t) \in Nat
            /\ Len(s \o t) = Len(s) + Len(t)
            /\ \A i \in 1..(Len(s) + Len(t)) :
                  (s \o t)[i] = IF i <= Len(s) THEN s[i] ELSE t[i - Len(s)]
  BY ConcatProperties, LenProperties
<1>2. Len(t1) = Len(t2)
  BY <1>1
<1>3. ASSUME NEW i \in 1..Len(s1) PROVE s1[i] = s2[i]
  <2>1. i \in 1..(Len(s1) + Len(t1)) /\ i <= Len(s1)
    BY <1>1
  <2> QED
    BY <1>1, <1>2, <2>1
<1>4. ASSUME NEW j \in 1..Len(t1) PROVE t1[j] = t2[j]
  <2>1. /\ Len(s1) + j \in 1..(Len(s1) + Len(t1)) /\ ~(Len(s1) + j <= Len(s1))
        /\ (Len(s1) + j) - Len(s1) = j
    BY <1>1
  <2>2. (s1 \o t1)[Len(s1) + j] = t1[j] /\ (s2 \o t2)[Len(s1) + j] = t2[j]
    BY <1>1, <1>2, <2>1
  <2> QED
    BY <2>2
<1> QED
  BY <1>2, <1>3, <1>4, SeqEqual

\* Two concatenations of three parts with the cuts at the same places.
SameCut(r1, s1, t1, r2, s2, t2) ==
  Len(r1) = Len(r2) /\ Len(s1) = Len(s2) /\ (r1 \o s1) \o t1 = (r2 \o s2) \o t2
     => r1 = r2 /\ s1 = s2 /\ t1 = t2

LEMMA CutTwice ==
  ASSUME NEW S, NEW r1 \in Seq(S), NEW s1 \in Seq(S), NEW t1 \in Seq(S),
         NEW r2 \in Seq(S), NEW s2 \in Seq(S), NEW t2 \in Seq(S)
  PROVE  SameCut(r1, s1, t1, r2, s2, t2)
<1>1. /\ r1 \o s1 \in Seq(S) /\ r2 \o s2 \in Seq(S)
      /\ Len(r1 \o s1) = Len(r1) + Len(s1) /\ Len(r2 \o s2) = Len(r2) + Len(s2)
  BY ConcatProperties, Zenon
<1>2. Len(r1) = Len(r2) /\ r1 \o s1 = r2 \o s2 => r1 = r2 /\ s1 = s2
  BY CutOnce, Zenon
<1>3. Len(r1 \o s1) = Len(r2 \o s2) /\ (r1 \o s1) \o t1 = (r2 \o s2) \o t2
         => r1 \o s1 = r2 \o s2 /\ t1 = t2
  <2> DEFINE a1 == r1 \o s1
             a2 == r2 \o s2
  <2>1. a1 \in Seq(S) /\ a2 \in Seq(S)
    BY <1>1
  <2> HIDE DEF a1, a2
  <2>2. Len(a1) = Len(a2) /\ a1 \o t1 = a2 \o t2 => a1 = a2 /\ t1 = t2
    BY <2>1, CutOnce, Zenon
  <2> QED
    BY <2>2 DEF a1, a2
<1> QED
  BY <1>1, <1>2, <1>3 DEF SameCut

=============================================================================
