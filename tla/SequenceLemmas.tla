---------------------------- MODULE SequenceLemmas ----------------------------
(* What the proofs about lists need to know of sequences and functions. *)
EXTENDS Integers, Sequences, SequencesExt, TLAPS

\* Changing one element of a sequence leaves a sequence of the same length.
LEMMA SeqExcept ==
  ASSUME NEW S, NEW q \in Seq(S), NEW n, NEW v \in S
  PROVE  /\ [q EXCEPT ![n] = v] \in Seq(S)
         /\ Len([q EXCEPT ![n] = v]) = Len(q)
<1> DEFINE p == [q EXCEPT ![n] = v]
<1>1. q \in [1 .. Len(q) -> S] /\ Len(q) \in Nat
  OBVIOUS
<1>2. p \in [1 .. Len(q) -> S]
  BY <1>1
<1>3. p \in Seq(S)
  BY <1>1, <1>2
<1>4. Len(p) = Len(q)
  BY <1>1, <1>2, <1>3
<1> QED BY <1>3, <1>4

\* A sequence with one more element.
LEMMA Appended ==
  ASSUME NEW S, NEW s \in Seq(S), NEW e \in S
  PROVE  /\ Append(s, e) \in Seq(S) /\ Len(Append(s, e)) = Len(s) + 1
         /\ Append(s, e)[Len(s) + 1] = e /\ \A i \in 1 .. Len(s) : Append(s, e)[i] = s[i]
OBVIOUS

LEMMA AppendNotEmpty ==
  ASSUME NEW S, NEW q \in Seq(S), NEW e \in S
  PROVE  Append(q, e) # <<>>
<1>1. Len(Append(q, e)) = Len(q) + 1 /\ Len(q) \in Nat
  OBVIOUS
<1>2. Len(<<>>) = 0
  OBVIOUS
<1>3. Len(Append(q, e)) # Len(<<>>)
  BY <1>1, <1>2
<1> QED BY <1>3, Zenon

\* A sequence without one of its elements.
LEMMA Without ==
  ASSUME NEW S, NEW s \in Seq(S), NEW i \in 1 .. Len(s)
  PROVE  /\ RemoveAt(s, i) \in Seq(S) /\ Len(RemoveAt(s, i)) = Len(s) - 1
         /\ \A j \in 1 .. Len(s) - 1 :
               RemoveAt(s, i)[j] = IF j < i THEN s[j] ELSE s[j + 1]
<1> DEFINE a == SubSeq(s, 1, i - 1)
           b == SubSeq(s, i + 1, Len(s))
<1>1. /\ a \in Seq(S) /\ Len(a) = i - 1
      /\ \A j \in 1 .. i - 1 : a[j] = s[j]
  OBVIOUS
<1>2. /\ b \in Seq(S) /\ Len(b) = Len(s) - i
      /\ \A j \in 1 .. Len(s) - i : b[j] = s[i + j]
  OBVIOUS
<1>3. RemoveAt(s, i) = a \o b
  BY DEF RemoveAt
<1>n. Len(s) \in Nat
  OBVIOUS
<1> HIDE DEF a, b
<1>4. a \o b \in Seq(S) /\ Len(a \o b) = Len(s) - 1
  <2>0. a \in Seq(S) /\ b \in Seq(S)
    BY <1>1, <1>2
  <2>1. Len(a \o b) = Len(a) + Len(b)
    BY <2>0
  <2>2. a \o b \in Seq(S)
    BY <2>0
  <2> QED BY <1>1, <1>2, <1>n, <2>1, <2>2
<1>5. ASSUME NEW j \in 1 .. Len(s) - 1
      PROVE  (a \o b)[j] = IF j < i THEN s[j] ELSE s[j + 1]
  <2>1. CASE j < i
    BY <1>1, <1>2, <2>1
  <2>2. CASE j >= i
    <3>1. (a \o b)[j] = b[j - (i - 1)]
      BY <1>1, <1>2, <2>2
    <3>2. j - (i - 1) \in 1 .. Len(s) - i /\ i + (j - (i - 1)) = j + 1
      BY <2>2
    <3>3. b[j - (i - 1)] = s[i + (j - (i - 1))]
      BY <1>2, <3>2
    <3> QED BY <2>2, <3>1, <3>2, <3>3
  <2>3. j < i \/ j >= i
    OBVIOUS
  <2> QED BY <2>1, <2>2, <2>3
<1> QED BY <1>3, <1>4, <1>5

\* A sequence without its first k elements, and one whose elements are in T.
LEMMA Dropped ==
  ASSUME NEW S, NEW s \in Seq(S), NEW k \in 0 .. Len(s)
  PROVE  /\ SubSeq(s, k + 1, Len(s)) \in Seq(S)
         /\ Len(SubSeq(s, k + 1, Len(s))) = Len(s) - k
         /\ \A i \in 1 .. Len(s) - k : SubSeq(s, k + 1, Len(s))[i] = s[i + k]
OBVIOUS

LEMMA Tailed ==
  ASSUME NEW S, NEW s \in Seq(S), Len(s) > 0
  PROVE  /\ Tail(s) \in Seq(S) /\ Len(Tail(s)) = Len(s) - 1
         /\ \A i \in 1 .. Len(s) - 1 : Tail(s)[i] = s[i + 1]
OBVIOUS

LEMMA Narrowed ==
  ASSUME NEW S, NEW T, NEW s \in Seq(S), \A i \in 1 .. Len(s) : s[i] \in T
  PROVE  s \in Seq(T)
OBVIOUS

\* Every second element of a sequence.
Second(s) == [i \in 1 .. Len(s) \div 2 |-> s[2 * i]]

LEMMA Evens ==
  ASSUME NEW S, NEW s \in Seq(S)
  PROVE  /\ Second(s) \in Seq(S) /\ 2 * Len(Second(s)) <= Len(s) /\ Len(s) <= 2 * Len(Second(s)) + 1
         /\ \A i \in 1 .. Len(Second(s)) : 2 * i \in 1 .. Len(s) /\ Second(s)[i] = s[2 * i]
         /\ \A j \in 1 .. Len(s) : j % 2 # 1 => \E i \in 1 .. Len(Second(s)) : j = 2 * i
         /\ \A i \in 1 .. Len(Second(s)) : (2 * i) % 2 # 1
<1> DEFINE e == Second(s)
           h == Len(s) \div 2
<1>1. h \in Nat /\ 2 * h <= Len(s) /\ Len(s) <= 2 * h + 1
  OBVIOUS
<1>2. \A i \in 1 .. h : 2 * i \in 1 .. Len(s)
  BY <1>1
<1>3. e \in Seq(S) /\ Len(Second(s)) = h
  <2>1. e \in [1 .. h -> S]
    BY <1>2 DEF Second
  <2> QED BY <1>1, <2>1
<1>4. ASSUME NEW j \in 1 .. Len(s), j % 2 # 1 PROVE \E i \in 1 .. h : j = 2 * i
  <2>1. j \div 2 \in 1 .. h /\ j = 2 * (j \div 2)
    BY <1>1, <1>4
  <2> QED BY <2>1
<1>5. \A i \in 1 .. h : (2 * i) % 2 # 1
  BY <1>1
<1>6. \A i \in 1 .. h : e[i] = s[2 * i]
  BY DEF Second
<1> QED BY <1>1, <1>2, <1>3, <1>4, <1>5, <1>6
=============================================================================
