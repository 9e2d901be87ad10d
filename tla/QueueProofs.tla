---------------------------- MODULE QueueProofs ----------------------------
(***************************************************************************)
(* What the operations on the task queue do to it, for queues of any       *)
(* length: the facts that the proofs about the pool rest on.               *)
(***************************************************************************)
EXTENDS Naturals, Sequences, SequencesExt, WellFoundedInduction, TLAPS

\* The entries of a queue, and that none is there twice.
Entries(q)  == {q[i] : i \in 1..Len(q)}
Distinct(q) == \A i, j \in 1..Len(q) : q[i] = q[j] => i = j

(* A non-empty set of naturals has a least element, so that the index which *)
(* RemoveFirst looks for exists.                                           *)
LEMMA MinInSet ==
    ASSUME NEW I \in SUBSET Nat, I # {}
    PROVE  Min(I) \in I
<1> DEFINE R == OpToRel(<, Nat)
<1>1. IsWellFoundedOn(R, Nat)
  BY NatLessThanWellFounded, Zenon
<1>2. \A x, y \in Nat : x < y => <<x, y>> \in R
  BY Zenon DEF OpToRel
<1> HIDE DEF R
<1>3. PICK x \in I : \A y \in I : ~(<<y, x>> \in R)
  BY <1>1, WFMin, Zenon
<1>4. \A y \in I : ~(y < x)
  BY <1>2, <1>3, Zenon
<1>5. \A y \in I : x =< y
  BY <1>4
<1> QED
  BY <1>5 DEF Min

(* Enqueue (append to the queue): it stays a queue of S, the task becomes  *)
(* an entry, and no entry is doubled if the task was not one.              *)
LEMMA AppendQueue ==
    ASSUME NEW S, NEW q \in Seq(S), NEW t \in S
    PROVE  /\ Append(q, t) \in Seq(S)
           /\ Entries(Append(q, t)) = Entries(q) \cup {t}
           /\ Distinct(q) /\ t \notin Entries(q) => Distinct(Append(q, t))
<1>1. /\ Append(q, t) \in Seq(S)
      /\ Len(Append(q, t)) = Len(q) + 1
      /\ Append(q, t)[Len(q) + 1] = t
      /\ \A i \in 1..Len(q) : Append(q, t)[i] = q[i]
  OBVIOUS
<1>2. Entries(Append(q, t)) = Entries(q) \cup {t}
  BY <1>1 DEF Entries
<1>3. ASSUME Distinct(q), t \notin Entries(q)
      PROVE  Distinct(Append(q, t))
  BY <1>1, <1>3 DEF Distinct, Entries
<1> QED
  BY <1>1, <1>2, <1>3

(* The head of a queue is taken: without doubles it is no longer an entry. *)
LEMMA TailQueue ==
    ASSUME NEW S, NEW q \in Seq(S), q # <<>>
    PROVE  /\ Tail(q) \in Seq(S) /\ Head(q) \in S /\ Head(q) \in Entries(q)
           /\ Distinct(q) => Distinct(Tail(q)) /\ Entries(Tail(q)) = Entries(q) \ {Head(q)}
<1>1. /\ Tail(q) \in Seq(S) /\ Len(Tail(q)) = Len(q) - 1 /\ Len(q) \in Nat \ {0}
      /\ Head(q) = q[1] /\ Head(q) \in S
      /\ \A i \in 1..(Len(q) - 1) : Tail(q)[i] = q[i + 1]
  OBVIOUS
<1>2. Head(q) \in Entries(q)
  BY <1>1 DEF Entries
<1>3. \A i \in 1..(Len(q) - 1) : i + 1 \in 1..Len(q) /\ i + 1 # 1 /\ 1 \in 1..Len(q)
  BY <1>1
<1>4. \A i \in 1..Len(q) : i # 1 => i - 1 \in 1..(Len(q) - 1) /\ Tail(q)[i - 1] = q[i]
  BY <1>1
<1>5. ASSUME Distinct(q)
      PROVE  Distinct(Tail(q))
  BY <1>1, <1>3, <1>5 DEF Distinct
<1>6. ASSUME Distinct(q)
      PROVE  Entries(Tail(q)) = Entries(q) \ {Head(q)}
  <2>1. \A i \in 1..(Len(q) - 1) : Tail(q)[i] \in Entries(q) /\ Tail(q)[i] # Head(q)
    BY <1>1, <1>3, <1>6 DEF Distinct, Entries
  <2>2. \A i \in 1..Len(q) : q[i] # Head(q) => q[i] \in Entries(Tail(q))
    BY <1>1, <1>4 DEF Entries
  <2> QED
    BY SMTT(20), <1>1, <2>1, <2>2 DEF Entries
<1> QED
  BY <1>1, <1>2, <1>5, <1>6

(* DequeueByID and ClaimAndDequeue (RemoveFirst): the result is a queue of  *)
(* S, and of a queue without doubles exactly the task's entry is gone.     *)
LEMMA RemoveQueue ==
    ASSUME NEW S, NEW q \in Seq(S), NEW t
    PROVE  /\ RemoveFirst(q, t) \in Seq(S)
           /\ Distinct(q) => /\ Distinct(RemoveFirst(q, t))
                             /\ Entries(RemoveFirst(q, t)) = Entries(q) \ {t}
<1>1. CASE t \notin Entries(q)
  <2>1. RemoveFirst(q, t) = q
    BY <1>1 DEF RemoveFirst, Entries
  <2> QED
    BY <1>1, <2>1
<1>2. CASE t \in Entries(q)
  <2> DEFINE I == {i \in 1..Len(q) : q[i] = t}
             k == Min(I)
             p == RemoveFirst(q, t)
  <2>1. I \in SUBSET Nat /\ I # {}
    BY <1>2 DEF Entries
  <2>2. k \in 1..Len(q) /\ q[k] = t
    BY <2>1, MinInSet
  <2>3. p = SubSeq(q, 1, k - 1) \o SubSeq(q, k + 1, Len(q))
    BY <2>1 DEF RemoveFirst, SelectInSeq, RemoveAt
  <2> HIDE DEF k
  <2>4. /\ p \in Seq(S) /\ Len(p) = Len(q) - 1
        /\ \A i \in 1..Len(p) : p[i] = q[IF i < k THEN i ELSE i + 1]
    <3> DEFINE a == SubSeq(q, 1, k - 1)
               b == SubSeq(q, k + 1, Len(q))
    <3>1. /\ a \in Seq(S) /\ Len(a) = k - 1
          /\ \A i \in 1..(k - 1) : a[i] = q[i]
      BY <2>2
    <3>2. /\ b \in Seq(S) /\ Len(b) = Len(q) - k
          /\ \A i \in 1..(Len(q) - k) : b[i] = q[k + i]
      BY <2>2
    <3>3. p = a \o b
      BY <2>3
    <3> HIDE DEF a, b, p
    <3>4. p \in Seq(S) /\ Len(p) = Len(q) - 1
      BY <2>2, <3>1, <3>2, <3>3
    <3>5. ASSUME NEW i \in 1..Len(p)
          PROVE  p[i] = q[IF i < k THEN i ELSE i + 1]
      <4>1. CASE i < k
        BY <2>2, <3>1, <3>2, <3>3, <4>1
      <4>2. CASE ~(i < k)
        <5>1. p[i] = b[i - (k - 1)]
          BY <2>2, <3>1, <3>2, <3>3, <3>4, <4>2
        <5>2. i - (k - 1) \in 1..(Len(q) - k) /\ k + (i - (k - 1)) = i + 1
          BY <2>2, <3>4, <4>2
        <5> QED
          BY <3>2, <4>2, <5>1, <5>2
      <4> QED
        BY <4>1, <4>2
    <3> QED
      BY <3>4, <3>5
  <2> HIDE DEF p
  <2>5. ASSUME Distinct(q)
        PROVE  Distinct(p)
    <3>1. SUFFICES ASSUME NEW i \in 1..Len(p), NEW j \in 1..Len(p), p[i] = p[j]
                   PROVE  i = j
      BY DEF Distinct
    <3>2. q[IF i < k THEN i ELSE i + 1] = q[IF j < k THEN j ELSE j + 1]
      BY <2>4, <3>1
    <3>3. /\ (IF i < k THEN i ELSE i + 1) \in 1..Len(q)
          /\ (IF j < k THEN j ELSE j + 1) \in 1..Len(q)
      BY <2>2, <2>4
    <3>4. (IF i < k THEN i ELSE i + 1) = (IF j < k THEN j ELSE j + 1)
      BY <2>5, <3>2, <3>3 DEF Distinct
    <3> QED
      BY <2>2, <2>4, <3>4
  <2>6. ASSUME Distinct(q)
        PROVE  Entries(p) = Entries(q) \ {t}
    <3>1. ASSUME NEW i \in 1..Len(p)
          PROVE  p[i] \in Entries(q) /\ p[i] # t
      <4> DEFINE j == IF i < k THEN i ELSE i + 1
      <4>1. j \in 1..Len(q) /\ j # k /\ p[i] = q[j]
        BY <2>2, <2>4
      <4> HIDE DEF j
      <4> QED
        BY <2>2, <2>6, <4>1 DEF Distinct, Entries
    <3>2. ASSUME NEW j \in 1..Len(q), q[j] # t
          PROVE  q[j] \in Entries(p)
      <4>1. CASE j < k
        BY <2>2, <2>4, <3>2, <4>1 DEF Entries
      <4>2. CASE j > k
        <5>1. j - 1 \in 1..Len(p) /\ p[j - 1] = q[j]
          BY <2>2, <2>4, <4>2
        <5> QED
          BY <5>1 DEF Entries
      <4> QED
        BY <2>2, <3>2, <4>1, <4>2
    <3> QED
      BY <3>1, <3>2 DEF Entries
  <2> QED
    BY <2>4, <2>5, <2>6 DEF p
<1> QED
  BY <1>1, <1>2
=============================================================================
