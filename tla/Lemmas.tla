------------------------------- MODULE Lemmas -------------------------------
(***************************************************************************)
(* Facts about numbers, finite sets and sequences that the proofs of       *)
(* several components rest on.  The library states induction for an        *)
(* operator, which the provers cannot instantiate; LeastNat gives it for   *)
(* any set of numbers: a property that fails somewhere fails somewhere     *)
(* first.                                                                  *)
(***************************************************************************)
EXTENDS Integers, Sequences, SequencesExt, FiniteSetsExt, FiniteSetTheorems, SequenceTheorems,
        WellFoundedInduction, TLAPS

\* Every non-empty set of natural numbers has a least element.
LEMMA LeastNat ==
    ASSUME NEW S \in SUBSET Nat, S # {}
    PROVE  \E m \in S : \A k \in S : m <= k
  <1> DEFINE R == OpToRel(<, Nat)
  <1>1. IsWellFoundedOn(R, Nat)
    BY NatLessThanWellFounded, Zenon
  <1>2. \A x, y \in Nat : x < y => <<x, y>> \in R
    BY DEF OpToRel
  <1> HIDE DEF R
  <1>3. PICK x \in S : \A y \in S : ~ (<<y, x>> \in R)
    BY <1>1, WFMin
  <1>4. SUFFICES ASSUME NEW k \in S, k < x PROVE FALSE
    OBVIOUS
  <1>5. <<k, x>> \in R
    BY <1>2, <1>4
  <1>6. ~ (<<k, x>> \in R)
    BY <1>3
  <1> QED BY <1>5, <1>6

\* Every non-empty bounded set of natural numbers has a greatest element.
LEMMA GreatestNat ==
    ASSUME NEW S \in SUBSET Nat, S # {}, NEW b \in Nat, \A k \in S : k <= b
    PROVE  \E m \in S : \A k \in S : k <= m
  <1> DEFINE T == {d \in Nat : b - d \in S}
  <1>1. T \in SUBSET Nat /\ T # {}
    <2>1. PICK s \in S : TRUE
      OBVIOUS
    <2>2. b - s \in Nat /\ b - (b - s) = s
      BY <2>1
    <2>3. b - s \in T
      BY <2>2
    <2> QED BY <2>3
  <1>2. PICK d \in T : \A e \in T : d <= e
    BY <1>1, LeastNat
  <1>3. b - d \in S
    BY <1>2
  <1>4. ASSUME NEW k \in S PROVE k <= b - d
    <2>1. b - k \in Nat /\ b - (b - k) = k
      BY <1>4
    <2>2. b - k \in T
      BY <2>1
    <2>3. d <= b - k /\ d \in Nat
      BY <2>2, <1>2
    <2> QED BY <2>3
  <1> QED BY <1>3, <1>4

\* The least element that Min chooses.
LEMMA MinNat ==
    ASSUME NEW S \in SUBSET Nat, S # {}
    PROVE  Min(S) \in S /\ \A k \in S : Min(S) <= k
  <1>1. \E m \in S : \A k \in S : m =< k
    BY LeastNat
  <1> QED BY <1>1 DEF Min

\* An index past the end of a ring by less than its size comes round once.
LEMMA ModOnce ==
    ASSUME NEW n \in Nat \ {0}, NEW k \in 0 .. 2 * n - 1
    PROVE  k % n = IF k < n THEN k ELSE k - n
  <1>1. CASE k < n
    BY <1>1
  <1>2. CASE k >= n
    <2>1. k - n \in 0 .. n - 1 /\ k = 1 * n + (k - n)
      BY <1>2
    <2> QED BY <2>1
  <1> QED BY <1>1, <1>2

-----------------------------------------------------------------------------
(* Sequences as queues.                                                    *)

\* What Append, Head and Tail do to the elements of a queue.
LEMMA AppendRange ==
    ASSUME NEW S, NEW q \in Seq(S), NEW x \in S
    PROVE  /\ Append(q, x) \in Seq(S)
           /\ Len(Append(q, x)) = Len(q) + 1
           /\ Range(Append(q, x)) = Range(q) \cup {x}
  <1> DEFINE r == Append(q, x)
  <1>1. /\ r \in Seq(S) /\ Len(r) = Len(q) + 1 /\ Len(q) \in Nat
        /\ \A i \in 1..Len(q) : r[i] = q[i]
        /\ r[Len(q) + 1] = x
        /\ DOMAIN q = 1..Len(q) /\ DOMAIN r = 1..(Len(q) + 1)
    BY AppendProperties, LenProperties
  <1> HIDE DEF r
  <1>2. Range(r) = Range(q) \cup {x}
    <2>1. ASSUME NEW y \in Range(r) PROVE y \in Range(q) \cup {x}
      BY <1>1 DEF Range
    <2>2. ASSUME NEW y \in Range(q) PROVE y \in Range(r)
      BY <1>1 DEF Range
    <2>3. x \in Range(r)
      BY <1>1 DEF Range
    <2> QED BY <2>1, <2>2, <2>3
  <1> QED BY <1>1, <1>2 DEF r

\* What is left of a queue when its head is taken was in it before.
LEMMA TailRange ==
    ASSUME NEW S, NEW q \in Seq(S), q # << >>
    PROVE  /\ Head(q) \in S /\ Head(q) \in Range(q)
           /\ Tail(q) \in Seq(S)
           /\ Len(Tail(q)) = Len(q) - 1 /\ Len(q) \in Nat \ {0}
           /\ Range(Tail(q)) \subseteq Range(q)
  <1>1. /\ Head(q) = q[1] /\ Len(q) \in Nat \ {0} /\ DOMAIN q = 1..Len(q)
        /\ Tail(q) \in Seq(S) /\ Len(Tail(q)) = Len(q) - 1
        /\ \A i \in 1..(Len(q) - 1) : Tail(q)[i] = q[i + 1]
    BY HeadTailProperties, LenProperties, EmptySeq
  <1>2. DOMAIN Tail(q) = 1..(Len(q) - 1)
    BY <1>1, LenProperties
  <1>3. Head(q) \in Range(q) /\ Range(q) \subseteq S
    BY <1>1, ElementOfSeq DEF Range
  <1>4. ASSUME NEW y \in Range(Tail(q)) PROVE y \in Range(q)
    <2>1. PICK i \in 1..(Len(q) - 1) : y = Tail(q)[i]
      BY <1>2 DEF Range
    <2>2. y = q[i + 1] /\ i + 1 \in DOMAIN q
      BY <1>1, <2>1
    <2> QED BY <2>2 DEF Range
  <1> QED BY <1>1, <1>3, <1>4

\* The elements of a sequence over S are in S.
LEMMA SeqRange ==
    ASSUME NEW S, NEW q \in Seq(S)
    PROVE  Range(q) \subseteq S
  BY ElementOfSeq, LenProperties DEF Range


\* An element put before the others.
LEMMA ConsLemma ==
    ASSUME NEW S, NEW q \in Seq(S), NEW e \in S
    PROVE  /\ <<e>> \o q \in Seq(S)
           /\ Len(q) \in Nat /\ Len(<<e>> \o q) = Len(q) + 1
           /\ (<<e>> \o q)[1] = e
           /\ \A i \in 2 .. Len(q) + 1 : (<<e>> \o q)[i] = q[i - 1]
  <1> DEFINE r == <<e>> \o q
  <1>1. <<e>> \in Seq(S) /\ Len(<<e>>) = 1 /\ <<e>>[1] = e /\ Len(q) \in Nat
    BY LenProperties
  <1>2. /\ r \in Seq(S) /\ Len(r) = Len(<<e>>) + Len(q)
        /\ \A i \in 1..Len(<<e>>) + Len(q) : r[i] = IF i <= Len(<<e>>) THEN <<e>>[i] ELSE q[i - Len(<<e>>)]
    BY <1>1, ConcatProperties
  <1> HIDE DEF r
  <1>3. Len(r) = Len(q) + 1 /\ \A i \in 1..Len(q) + 1 : r[i] = IF i <= 1 THEN e ELSE q[i - 1]
    BY <1>1, <1>2
  <1>4. 1 \in 1..Len(q) + 1 /\ \A i \in 2..Len(q) + 1 : i \in 1..Len(q) + 1 /\ ~(i <= 1)
    BY <1>1
  <1> QED BY <1>1, <1>2, <1>3, <1>4 DEF r

\* An element taken out of the middle.
LEMMA RemoveAtLemma ==
    ASSUME NEW S, NEW q \in Seq(S), NEW i \in 1..Len(q)
    PROVE  /\ RemoveAt(q, i) \in Seq(S)
           /\ Len(q) \in Nat /\ Len(RemoveAt(q, i)) = Len(q) - 1
           /\ \A k \in 1..Len(q) - 1 : RemoveAt(q, i)[k] = q[IF k < i THEN k ELSE k + 1]
  <1> DEFINE r == RemoveAt(q, i)
             n == Len(q)
             a == SubSeq(q, 1, i - 1)
             b == SubSeq(q, i + 1, n)
  <1>0. n \in Nat /\ i \in 1..n
    BY LenProperties
  <1>1. a \in Seq(S) /\ Len(a) = i - 1 /\ \A k \in 1..i - 1 : a[k] = q[k]
    <2>1. \A k \in 1..i - 1 : q[k] \in S /\ k \in DOMAIN q
      BY <1>0, ElementOfSeq
    <2>2. a = [k \in 1..i - 1 |-> q[k]]
      BY <1>0, SubSeqProperties
    <2> QED BY <1>0, <2>1, <2>2, IsASeq
  <1>2. b \in Seq(S) /\ Len(b) = n - i /\ \A k \in 1..n - i : b[k] = q[i + k]
    BY <1>0, SubSeqProperties
  <1>3. r = a \o b
    BY DEF RemoveAt
  <1> HIDE DEF r, a, b, n
  <1>4. /\ r \in Seq(S) /\ Len(r) = Len(a) + Len(b)
        /\ \A k \in 1..Len(a) + Len(b) : r[k] = IF k <= Len(a) THEN a[k] ELSE b[k - Len(a)]
    BY <1>1, <1>2, <1>3, ConcatProperties
  <1>5. Len(r) = n - 1 /\ \A k \in 1..n - 1 : r[k] = IF k <= i - 1 THEN a[k] ELSE b[k - (i - 1)]
    BY <1>0, <1>1, <1>2, <1>4
  <1>6. ASSUME NEW k \in 1..n - 1 PROVE r[k] = q[IF k < i THEN k ELSE k + 1]
    <2>1. CASE k < i
      BY <1>0, <1>1, <1>5, <2>1
    <2>2. CASE ~(k < i)
      <3>1. k - (i - 1) \in 1..n - i /\ i + (k - (i - 1)) = k + 1 /\ ~(k <= i - 1)
        BY <1>0, <2>2
      <3>2. b[k - (i - 1)] = q[k + 1]
        BY <1>2, <3>1
      <3> QED BY <1>5, <2>2, <3>1, <3>2
    <2> QED BY <2>1, <2>2
  <1> QED BY <1>0, <1>4, <1>5, <1>6 DEF r, n

\* An element put at the j-th place, not the first.
LEMMA InsertAtLemma ==
    ASSUME NEW S, NEW q \in Seq(S), NEW j \in 2..Len(q) + 1, NEW e \in S
    PROVE  /\ InsertAt(q, j, e) \in Seq(S)
           /\ Len(q) \in Nat /\ Len(InsertAt(q, j, e)) = Len(q) + 1
           /\ \A i \in 1..Len(q) + 1 :
                 InsertAt(q, j, e)[i] = IF i < j THEN q[i] ELSE IF i = j THEN e ELSE q[i - 1]
  <1> DEFINE k == j - 1
             r == InsertAt(q, j, e)
             n == Len(q)
             a == SubSeq(q, 1, k)
             b == SubSeq(q, k + 1, n)
             c == a \o <<e>>
  <1>0. n \in Nat /\ k \in 1..n /\ k + 1 = j
    BY LenProperties
  <1>j. r = a \o <<e>> \o SubSeq(q, j, n)
    BY DEF InsertAt
  <1> HIDE DEF k
  <1>1. a \in Seq(S) /\ Len(a) = k /\ \A i \in 1..k : a[i] = q[i]
    <2>1. \A i \in 1..k : q[i] \in S /\ i \in DOMAIN q
      BY <1>0, ElementOfSeq
    <2>2. a = [i \in 1..k |-> q[i]]
      BY <1>0, SubSeqProperties
    <2> QED BY <1>0, <2>1, <2>2, IsASeq
  <1>2. b \in Seq(S) /\ Len(b) = n - k /\ \A i \in 1..n - k : b[i] = q[k + i]
    <2>1. CASE k = n
      <3>1. b = << >>
        BY <1>0, <2>1
      <3> QED BY <1>0, <2>1, <3>1
    <2>2. CASE k < n
      <3>1. k + 1 \in 1..n /\ n \in k..n
        BY <1>0, <2>2
      <3> QED BY <1>0, <3>1, SubSeqProperties
    <2> QED BY <1>0, <2>1, <2>2
  <1>3. r = c \o b
    BY <1>0, <1>j
  <1>4. c \in Seq(S) /\ Len(c) = k + 1 /\ \A i \in 1..k + 1 : c[i] = IF i <= k THEN q[i] ELSE e
    <2>1. <<e>> \in Seq(S) /\ Len(<<e>>) = 1 /\ <<e>>[1] = e
      OBVIOUS
    <2> HIDE DEF a
    <2>2. /\ c \in Seq(S) /\ Len(c) = Len(a) + Len(<<e>>)
          /\ \A i \in 1..Len(a) + Len(<<e>>) : c[i] = IF i <= Len(a) THEN a[i] ELSE <<e>>[i - Len(a)]
      BY <1>1, <2>1, ConcatProperties
    <2> HIDE DEF c
    <2>3. Len(c) = k + 1 /\ \A i \in 1..k + 1 : c[i] = IF i <= k THEN a[i] ELSE <<e>>[i - k]
      BY <1>0, <1>1, <2>1, <2>2
    <2>4. ASSUME NEW i \in 1..k + 1 PROVE c[i] = IF i <= k THEN q[i] ELSE e
      <3>1. CASE i <= k
        BY <1>0, <1>1, <2>3, <3>1
      <3>2. CASE ~(i <= k)
        <4>1. i - k = 1
          BY <1>0, <3>2
        <4> QED BY <2>1, <2>3, <3>2, <4>1
      <3> QED BY <3>1, <3>2
    <2> QED BY <2>2, <2>3, <2>4
  <1> HIDE DEF r, a, b, c, n
  <1>5. /\ r \in Seq(S) /\ Len(r) = Len(c) + Len(b)
        /\ \A i \in 1..Len(c) + Len(b) : r[i] = IF i <= Len(c) THEN c[i] ELSE b[i - Len(c)]
    BY <1>2, <1>3, <1>4, ConcatProperties
  <1>6. Len(r) = n + 1 /\ \A i \in 1..n + 1 : r[i] = IF i <= k + 1 THEN c[i] ELSE b[i - (k + 1)]
    BY <1>0, <1>2, <1>4, <1>5
  <1>7. ASSUME NEW i \in 1..n + 1
        PROVE  r[i] = IF i <= k THEN q[i] ELSE IF i = k + 1 THEN e ELSE q[i - 1]
    <2>1. CASE i <= k + 1
      <3>1. i \in 1..k + 1 /\ c[i] = IF i <= k THEN q[i] ELSE e
        BY <1>0, <1>4, <2>1
      <3>2. r[i] = c[i]
        BY <1>6, <2>1
      <3> QED BY <1>0, <2>1, <3>1, <3>2
    <2>2. CASE ~(i <= k + 1)
      <3>1. i - (k + 1) \in 1..n - k /\ k + (i - (k + 1)) = i - 1 /\ ~(i <= k) /\ i # k + 1
        BY <1>0, <2>2
      <3>2. b[i - (k + 1)] = q[i - 1]
        BY <1>2, <3>1
      <3> QED BY <1>6, <2>2, <3>1, <3>2
    <2> QED BY <2>1, <2>2
  <1>8. ASSUME NEW i \in 1..n + 1
        PROVE  r[i] = IF i < j THEN q[i] ELSE IF i = j THEN e ELSE q[i - 1]
    <2>1. i \in Int /\ k \in Int /\ (i < j <=> i <= k)
      BY <1>0
    <2> QED BY <1>0, <1>7, <2>1
  <1> QED BY <1>0, <1>5, <1>6, <1>8 DEF r, n

\* What the elements are.
LEMMA InsertAtElem ==
    ASSUME NEW S, NEW q \in Seq(S), NEW j \in 2..Len(q) + 1, NEW e \in S
    PROVE  \A i \in 1..Len(q) + 1 :
              InsertAt(q, j, e)[i] = IF i < j THEN q[i] ELSE IF i = j THEN e ELSE q[i - 1]
  BY InsertAtLemma

\* A number put after the x-th.
LEMMA InsertAfter ==
    \A q \in Seq(Nat), e \in Nat : \A x \in 1..Len(q) :
       /\ InsertAt(q, x + 1, e) \in Seq(Nat) /\ Len(InsertAt(q, x + 1, e)) = Len(q) + 1
       /\ \A i \in 1..Len(q) + 1 :
             InsertAt(q, x + 1, e)[i] = IF i <= x THEN q[i] ELSE IF i = x + 1 THEN e ELSE q[i - 1]
  <1> SUFFICES ASSUME NEW q \in Seq(Nat), NEW e \in Nat, NEW x \in 1..Len(q)
               PROVE  /\ InsertAt(q, x + 1, e) \in Seq(Nat) /\ Len(InsertAt(q, x + 1, e)) = Len(q) + 1
                      /\ \A i \in 1..Len(q) + 1 :
                            InsertAt(q, x + 1, e)[i] = IF i <= x THEN q[i] ELSE IF i = x + 1 THEN e ELSE q[i - 1]
    BY Zenon
  <1>0. PICK N : N = Nat
    OBVIOUS
  <1>n. q \in Seq(N) /\ e \in N
    BY <1>0
  <1>1. PICK y \in 2..Len(q) + 1 : y = x + 1
    BY LenProperties
  <1>2. InsertAt(q, y, e) \in Seq(N) /\ Len(InsertAt(q, y, e)) = Len(q) + 1
    BY <1>n, InsertAtLemma
  <1>3. \A i \in 1..Len(q) + 1 : InsertAt(q, y, e)[i] = IF i < y THEN q[i] ELSE IF i = y THEN e ELSE q[i - 1]
    BY <1>n, InsertAtElem
  <1>4. ASSUME NEW i \in 1..Len(q) + 1
        PROVE  InsertAt(q, x + 1, e)[i] = IF i <= x THEN q[i] ELSE IF i = x + 1 THEN e ELSE q[i - 1]
    <2>1. x \in Nat /\ i \in Nat
      BY LenProperties
    <2>2. i < y <=> i <= x
      BY <1>1, <2>1
    <2>3. InsertAt(q, y, e)[i] = IF i < y THEN q[i] ELSE IF i = y THEN e ELSE q[i - 1]
      BY <1>3
    <2>4. InsertAt(q, y, e)[i] = IF i <= x THEN q[i] ELSE IF i = y THEN e ELSE q[i - 1]
      BY <2>2, <2>3
    <2> QED BY <1>1, <2>4
  <1> QED BY <1>0, <1>1, <1>2, <1>4
=============================================================================
