--------------------------- MODULE KernelProofs ----------------------------
(***************************************************************************)
(* The kernel heap, for every size of the heap and every sequence of       *)
(* requests, the program loader, for every set of programs, and the        *)
(* frames, page tables and ACPI windows, for every memory map and firmware.*)
(***************************************************************************)
EXTENDS Heap, Exec, Acpi, Lemmas

-----------------------------------------------------------------------------
(* The blocks tile the heap.                                               *)

Tiles(sz) ==
    /\ DOMAIN sz \in SUBSET (0..HEAP - 1) /\ 0 \in DOMAIN sz
    /\ sz \in [DOMAIN sz -> 1..HEAP]
    /\ \A b \in DOMAIN sz : End(sz, b) \in DOMAIN sz \cup {HEAP}
    /\ \A b, c \in DOMAIN sz : b < c => End(sz, b) <= c

\* What the tiling says of one block.
LEMMA TileFacts ==
    ASSUME NEW sz, Tiles(sz), NEW b \in DOMAIN sz
    PROVE  /\ HEAP \in Nat /\ b \in Nat /\ b < HEAP /\ sz[b] \in Nat /\ sz[b] >= 1 /\ sz[b] <= HEAP
           /\ End(sz, b) = b + 2 + sz[b] /\ End(sz, b) \in Nat
           /\ End(sz, b) > b + 2 /\ End(sz, b) <= HEAP
  <1>1. HEAP \in Nat /\ b \in 0..HEAP - 1 /\ sz[b] \in 1..HEAP
    BY HeapAssumption DEF Tiles
  <1>2. End(sz, b) = b + 2 + sz[b]
    BY DEF End, HDR
  <1>3. End(sz, b) \in DOMAIN sz \cup {HEAP}
    BY DEF Tiles
  <1>4. End(sz, b) <= HEAP
    BY <1>1, <1>3 DEF Tiles
  <1> QED BY <1>1, <1>2, <1>4

\* A block that is cut in two.
LEMMA SplitTiles ==
    ASSUME NEW sz, Tiles(sz), NEW b \in DOMAIN sz, NEW n \in Nat, n >= 1, sz[b] - n - 2 >= 1
    PROVE  LET rest == b + 2 + n
               new  == Split(sz, b, n, rest, sz[b] - n - 2)
           IN  /\ rest \in Nat /\ rest \notin DOMAIN sz /\ rest > b /\ rest # b
               /\ DOMAIN new = DOMAIN sz \cup {rest}
               /\ new[b] = n /\ new[rest] = sz[b] - n - 2
               /\ End(new, b) = rest /\ End(new, rest) = End(sz, b)
               /\ \A x \in DOMAIN sz : x # b => new[x] = sz[x] /\ End(new, x) = End(sz, x)
               /\ Tiles(new)
  <1> DEFINE rest == b + 2 + n
             new  == Split(sz, b, n, rest, sz[b] - n - 2)
             D == DOMAIN sz
  <1>0. /\ HEAP \in Nat /\ b \in Nat /\ b < HEAP /\ sz[b] \in Nat
        /\ End(sz, b) = b + 2 + sz[b] /\ End(sz, b) \in Nat /\ End(sz, b) <= HEAP
    BY TileFacts
  <1>1. rest \in Nat /\ rest > b /\ rest < End(sz, b) /\ rest < HEAP
    BY <1>0
  <1>2. rest \notin D
    <2> SUFFICES ASSUME rest \in D PROVE FALSE
      OBVIOUS
    <2>1. End(sz, b) <= rest
      BY <1>1 DEF Tiles
    <2> HIDE DEF rest
    <2> QED BY <1>0, <1>1, <2>1
  <1> HIDE DEF rest
  <1>3. /\ DOMAIN new = D \cup {rest} /\ new[b] = n /\ new[rest] = sz[b] - n - 2
        /\ \A x \in D : x # b => new[x] = sz[x]
    BY <1>0, <1>1, <1>2 DEF Split
  <1> HIDE DEF new
  <1>4. End(new, b) = rest
    BY <1>3 DEF End, HDR, rest
  <1>5. End(new, rest) = End(sz, b)
    <2>1. End(new, rest) = rest + 2 + (sz[b] - n - 2)
      BY <1>3 DEF End, HDR
    <2> QED BY <1>0, <1>1, <2>1 DEF rest
  <1>6. \A x \in D : x # b => End(new, x) = End(sz, x)
    BY <1>3 DEF End
  <1>7. Tiles(new)
    <2>1. DOMAIN new \in SUBSET (0..HEAP - 1) /\ 0 \in DOMAIN new
      BY <1>0, <1>1, <1>3 DEF Tiles
    <2>2. new \in [DOMAIN new -> 1..HEAP]
      <3>1. \A x \in DOMAIN new : new[x] \in 1..HEAP
        <4> SUFFICES ASSUME NEW x \in DOMAIN new PROVE new[x] \in 1..HEAP
          OBVIOUS
        <4>1. sz[b] \in 1..HEAP /\ n \in 1..HEAP /\ sz[b] - n - 2 \in 1..HEAP
          BY <1>0 DEF Tiles
        <4> QED BY <1>3, <4>1 DEF Tiles
      <3>2. new = [x \in DOMAIN new |-> new[x]]
        BY DEF new, Split
      <3> QED BY <3>1, <3>2
    <2>3. ASSUME NEW x \in DOMAIN new PROVE End(new, x) \in DOMAIN new \cup {HEAP}
      <3>1. CASE x = b
        BY <1>3, <1>4, <3>1
      <3>2. CASE x = rest
        BY <1>3, <1>5, <3>2 DEF Tiles
      <3>3. CASE x \in D /\ x # b
        BY <1>3, <1>6, <3>3 DEF Tiles
      <3> QED BY <1>3, <3>1, <3>2, <3>3
    <2>4. ASSUME NEW x \in DOMAIN new, NEW y \in DOMAIN new, x < y PROVE End(new, x) <= y
      <3>0. D \in SUBSET Nat
        BY <1>0 DEF Tiles
      <3>1. CASE x = b
        <4>1. CASE y = rest
          BY <1>1, <1>4, <3>1, <4>1
        <4>2. CASE y \in D
          <5>1. End(sz, b) <= y
            BY <2>4, <3>1, <4>2 DEF Tiles
          <5> QED BY <1>0, <1>1, <1>4, <3>0, <3>1, <4>2, <5>1
        <4> QED BY <1>3, <4>1, <4>2
      <3>2. CASE x = rest
        <4>1. y \in D /\ b < y
          BY <1>0, <1>1, <1>3, <2>4, <3>0, <3>2
        <4>2. End(sz, b) <= y
          BY <4>1 DEF Tiles
        <4> QED BY <1>5, <3>2, <4>2
      <3>3. CASE x \in D /\ x # b
        <4>1. CASE y \in D
          BY <1>6, <2>4, <3>3, <4>1 DEF Tiles
        <4>2. CASE y = rest
          <5>1. x < b
            <6> SUFFICES ASSUME b < x PROVE FALSE
              BY <1>0, <3>0, <3>3
            <6>1. End(sz, b) <= x
              BY <3>3 DEF Tiles
            <6> QED BY <1>0, <1>1, <2>4, <3>0, <3>3, <4>2, <6>1
          <5>2. End(sz, x) <= b /\ End(sz, x) \in Nat
            BY <3>3, <5>1, TileFacts DEF Tiles
          <5> QED BY <1>0, <1>1, <1>6, <3>3, <4>2, <5>2
        <4> QED BY <1>3, <4>1, <4>2
      <3> QED BY <1>3, <3>1, <3>2, <3>3
    <2> QED BY <2>1, <2>2, <2>3, <2>4 DEF Tiles
  <1>8. rest # b
    BY <1>0, <1>1
  <1> QED BY <1>1, <1>2, <1>3, <1>4, <1>5, <1>6, <1>7, <1>8 DEF rest, new

\* What JoinNext does to the sizes.
Join(sz, t, b) == Restrict([sz EXCEPT ![t] = @ + HDR + sz[b]], DOMAIN sz \ {b})

\* Two blocks that touch become one.
LEMMA JoinTiles ==
    ASSUME NEW sz, Tiles(sz), NEW t \in DOMAIN sz, End(sz, t) \in DOMAIN sz
    PROVE  LET b == End(sz, t)
           IN  /\ DOMAIN Join(sz, t, b) = DOMAIN sz \ {b}
               /\ End(Join(sz, t, b), t) = End(sz, b)
               /\ \A x \in DOMAIN sz \ {t, b} : End(Join(sz, t, b), x) = End(sz, x)
               /\ Tiles(Join(sz, t, b))
  <1> DEFINE b == End(sz, t)
             new == Join(sz, t, b)
             D == DOMAIN sz
  <1>b. b \in D /\ End(sz, t) = b
    OBVIOUS
  <1>0. /\ HEAP \in Nat /\ t \in Nat /\ b \in Nat /\ sz[t] \in Nat /\ sz[b] \in Nat
        /\ End(sz, t) = t + 2 + sz[t] /\ End(sz, b) = b + 2 + sz[b] /\ End(sz, b) <= HEAP
        /\ D \in SUBSET Nat
    BY TileFacts DEF Tiles
  <1>1. t < b /\ b = t + 2 + sz[t] /\ b # 0
    BY <1>0
  <1> HIDE DEF b
  <1>2. /\ DOMAIN new = D \ {b} /\ new[t] = sz[t] + 2 + sz[b]
        /\ \A x \in D \ {t, b} : new[x] = sz[x]
    BY <1>0, <1>1 DEF Join, Restrict, HDR
  <1>3. new = [x \in DOMAIN new |-> new[x]]
    BY DEF Join, Restrict
  <1> HIDE DEF new
  <1>4. End(new, t) = End(sz, b)
    <2>1. End(new, t) = t + 2 + (sz[t] + 2 + sz[b])
      BY <1>2 DEF End, HDR
    <2> QED BY <1>0, <1>1, <2>1
  <1>5. \A x \in D \ {t, b} : End(new, x) = End(sz, x)
    BY <1>2 DEF End
  <1>6. Tiles(new)
    <2>1. DOMAIN new \in SUBSET (0..HEAP - 1) /\ 0 \in DOMAIN new
      <3>1. D \in SUBSET (0..HEAP - 1) /\ 0 \in D
        BY DEF Tiles
      <3> QED BY <1>1, <1>2, <3>1
    <2>2. new \in [DOMAIN new -> 1..HEAP]
      <3>1. sz[t] + 2 + sz[b] \in 1..HEAP
        BY <1>0, <1>1
      <3> QED BY <1>1, <1>2, <1>3, <3>1 DEF Tiles
    <2>3. ASSUME NEW x \in DOMAIN new PROVE End(new, x) \in DOMAIN new \cup {HEAP}
      <3>1. CASE x = t
        <4>1. End(sz, b) \in D \cup {HEAP} /\ End(sz, b) # b
          BY <1>0, <1>b DEF Tiles
        <4> QED BY <1>2, <1>4, <3>1, <4>1
      <3>2. CASE x # t
        <4>1. x \in D \ {t, b} /\ End(sz, x) \in D \cup {HEAP} /\ End(sz, x) \in Nat
          BY <1>2, <2>3, <3>2, TileFacts DEF Tiles
        <4>2. End(sz, x) # b
          <5>1. CASE x < t
            <6>1. End(sz, x) <= t
              BY <4>1, <5>1 DEF Tiles
            <6> QED BY <1>0, <1>1, <4>1, <6>1
          <5>2. CASE t < x
            <6>1. b <= x
              BY <1>b, <4>1, <5>2 DEF Tiles
            <6>2. x < End(sz, x)
              BY <4>1, TileFacts
            <6> QED BY <1>0, <4>1, <6>1, <6>2
          <5> QED BY <1>0, <3>2, <4>1, <5>1, <5>2
        <4> QED BY <1>2, <1>5, <4>1, <4>2
      <3> QED BY <3>1, <3>2
    <2>4. ASSUME NEW x \in DOMAIN new, NEW y \in DOMAIN new, x < y PROVE End(new, x) <= y
      <3>1. x \in D \ {b} /\ y \in D \ {b}
        BY <1>2, <2>4
      <3>2. CASE x # t
        BY <1>5, <2>4, <3>1, <3>2 DEF Tiles
      <3>3. CASE x = t
        <4>1. b <= y
          BY <1>b, <2>4, <3>1, <3>3 DEF Tiles
        <4>2. b < y
          BY <1>0, <3>1, <4>1
        <4>3. End(sz, b) <= y
          BY <1>b, <3>1, <4>2 DEF Tiles
        <4> QED BY <1>4, <3>3, <4>3
      <3> QED BY <3>2, <3>3
    <2> QED BY <2>1, <2>2, <2>3, <2>4 DEF Tiles
  <1> QED BY <1>2, <1>4, <1>5, <1>6 DEF new, b
-----------------------------------------------------------------------------
(* The free list is in address order.                                      *)

Sorted(l) == \A i, j \in 1..Len(l) : i < j => l[i] < l[j]

\* A block put between the ones below it and the ones above it.
LEMMA PlacedLemma ==
    ASSUME NEW l \in Seq(Nat), Sorted(l), NEW b \in Nat, NEW k \in 0..Len(l), NEW m \in Seq(Nat),
           Len(m) = Len(l) + 1,
           \A i \in 1..Len(l) + 1 : m[i] = IF i <= k THEN l[i] ELSE IF i = k + 1 THEN b ELSE l[i - 1],
           \A i \in 1..k : l[i] < b, \A i \in k + 1..Len(l) : b < l[i]
    PROVE  Sorted(m) /\ Range(m) = Range(l) \cup {b}
  <1> DEFINE n == Len(l)
  <1>0. /\ n \in Nat /\ DOMAIN l = 1..n /\ DOMAIN m = 1..n + 1
        /\ \A i \in 1..n : l[i] \in Nat
    BY LenProperties, ElementOfSeq
  <1>1. \A i \in 1..n + 1 : m[i] = IF i <= k THEN l[i] ELSE IF i = k + 1 THEN b ELSE l[i - 1]
    OBVIOUS
  <1>2. k \in 0..n /\ \A i \in 1..k : l[i] < b
    OBVIOUS
  <1>3. \A i \in k + 1..n : b < l[i]
    OBVIOUS
  <1>4. \A i, j \in 1..n : i < j => l[i] < l[j]
    BY DEF Sorted
  <1>5. Len(m) = n + 1
    OBVIOUS
  <1> HIDE DEF n
  <1>6. ASSUME NEW i \in 1..n + 1, NEW j \in 1..n + 1, i < j PROVE m[i] < m[j]
    <2>1. CASE j <= k
      <3>1. m[i] = l[i] /\ m[j] = l[j] /\ i \in 1..n /\ j \in 1..n
        BY <1>0, <1>1, <1>2, <1>6, <2>1
      <3> QED BY <1>4, <1>6, <3>1
    <2>2. CASE j = k + 1
      <3>1. m[i] = l[i] /\ m[j] = b /\ i \in 1..k
        BY <1>0, <1>1, <1>2, <1>6, <2>2
      <3> QED BY <1>2, <3>1
    <2>3. CASE j > k + 1
      <3>1. m[j] = l[j - 1] /\ j - 1 \in 1..n /\ j - 1 \in k + 1..n
        BY <1>0, <1>1, <1>2, <1>6, <2>3
      <3>2. CASE i <= k
        <4>1. m[i] = l[i] /\ i \in 1..n /\ i < j - 1
          BY <1>0, <1>1, <1>2, <2>3, <3>2
        <4> QED BY <1>4, <3>1, <4>1
      <3>3. CASE i = k + 1
        <4>1. m[i] = b
          BY <1>0, <1>1, <1>2, <3>3
        <4> QED BY <1>3, <3>1, <4>1
      <3>4. CASE i > k + 1
        <4>1. m[i] = l[i - 1] /\ i - 1 \in 1..n /\ i - 1 < j - 1
          BY <1>0, <1>1, <1>2, <1>6, <3>4
        <4> QED BY <1>4, <3>1, <4>1
      <3> QED BY <1>0, <1>2, <3>2, <3>3, <3>4
    <2> QED BY <1>0, <1>2, <2>1, <2>2, <2>3
  <1>7. Range(m) = Range(l) \cup {b}
    <2>1. ASSUME NEW x \in Range(m) PROVE x \in Range(l) \cup {b}
      <3>1. PICK i \in 1..n + 1 : x = m[i]
        BY <1>0, <2>1 DEF Range
      <3>2. CASE i <= k
        <4>1. i \in DOMAIN l /\ x = l[i]
          BY <1>0, <1>1, <1>2, <3>1, <3>2
        <4> QED BY <4>1 DEF Range
      <3>3. CASE i = k + 1
        BY <1>0, <1>1, <1>2, <3>1, <3>3
      <3>4. CASE i > k + 1
        <4>1. i - 1 \in DOMAIN l /\ x = l[i - 1]
          BY <1>0, <1>1, <1>2, <3>1, <3>4
        <4> QED BY <4>1 DEF Range
      <3> QED BY <1>0, <1>2, <3>2, <3>3, <3>4
    <2>2. ASSUME NEW x \in Range(l) PROVE x \in Range(m)
      <3>1. PICK i \in 1..n : x = l[i]
        BY <1>0, <2>2 DEF Range
      <3>2. CASE i <= k
        <4>1. i \in DOMAIN m /\ m[i] = x
          BY <1>0, <1>1, <1>2, <3>1, <3>2
        <4> QED BY <4>1 DEF Range
      <3>3. CASE i > k
        <4>1. i + 1 \in DOMAIN m /\ m[i + 1] = l[(i + 1) - 1] /\ (i + 1) - 1 = i
          BY <1>0, <1>1, <1>2, <3>1, <3>3
        <4> QED BY <3>1, <4>1 DEF Range
      <3> QED BY <1>0, <1>2, <3>2, <3>3
    <2>3. b \in Range(m)
      <3>1. k + 1 \in DOMAIN m /\ m[k + 1] = b
        BY <1>0, <1>1, <1>2
      <3> QED BY <3>1 DEF Range
    <2> QED BY <2>1, <2>2, <2>3
  <1> QED BY <1>0, <1>5, <1>6, <1>7 DEF Sorted

\* kernel_free puts the block where it belongs.
LEMMA InsertLemma ==
    ASSUME NEW l \in Seq(Nat), Sorted(l), NEW b \in Nat, b \notin Range(l)
    PROVE  /\ InsertBlock(l, b) \in Seq(Nat) /\ Sorted(InsertBlock(l, b))
           /\ Range(InsertBlock(l, b)) = Range(l) \cup {b} /\ InsertBlock(l, b) # << >>
  <1> DEFINE m == InsertBlock(l, b)
             n == Len(l)
  <1>0. /\ n \in Nat /\ DOMAIN l = 1..n /\ \A i \in 1..n : l[i] \in Nat /\ l[i] # b
    BY LenProperties, ElementOfSeq DEF Range
  <1>1. CASE l = << >> \/ b < l[1]
    <2>1. m = <<b>> \o l
      BY <1>1 DEF InsertBlock
    <2>2. /\ m \in Seq(Nat) /\ Len(m) = n + 1 /\ m[1] = b
          /\ \A i \in 2..n + 1 : m[i] = l[i - 1]
      BY <2>1, ConsLemma
    <2>3. \A i \in 1..n : b < l[i]
      <3> SUFFICES ASSUME NEW i \in 1..n PROVE b < l[i]
        OBVIOUS
      <3>1. l # << >> /\ 1 \in 1..n
        BY <1>0
      <3>2. i = 1 \/ l[1] < l[i]
        BY <1>0, <3>1 DEF Sorted
      <3> QED BY <1>0, <1>1, <3>1, <3>2
    <2> HIDE DEF m, n
    <2>4. PICK k \in Nat : k = 0
      OBVIOUS
    <2>5. Sorted(m) /\ Range(m) = Range(l) \cup {b}
      <3>1. k \in 0..n /\ (\A i \in 1..k : l[i] < b)
        BY <1>0, <2>4
      <3>2. \A i \in k + 1..n : b < l[i]
        BY <1>0, <2>3, <2>4
      <3>3. \A i \in 1..n + 1 : m[i] = IF i <= k THEN l[i] ELSE IF i = k + 1 THEN b ELSE l[i - 1]
        BY <1>0, <2>2, <2>4
      <3>4. m \in Seq(Nat) /\ Len(m) = n + 1
        BY <2>2
      <3> QED BY <3>1, <3>2, <3>3, <3>4, PlacedLemma DEF n
    <2>6. m # << >>
      BY <1>0, <2>2
    <2> QED BY <2>2, <2>5, <2>6 DEF m
  <1>2. CASE ~(l = << >> \/ b < l[1])
    <2> DEFINE P(k) == /\ k = n \/ ~(l[k + 1] < b)
                       /\ \A j \in 2..k : l[j] < b
    <2>1. \E k \in 1..n : P(k)
      <3> DEFINE S == {k \in 1..n : l[k] < b}
      <3>1. 1 \in S /\ S \in SUBSET Nat /\ \A k \in S : k <= n
        <4>1. n # 0
          BY <1>0, <1>2, EmptySeq
        <4>2. 1 \in 1..n /\ l[1] \in Nat /\ l[1] # b
          BY <1>0, <4>1
        <4> QED BY <1>0, <1>2, <4>2
      <3>2. PICK k \in S : \A i \in S : i <= k
        <4> HIDE DEF S
        <4> QED BY <1>0, <3>1, GreatestNat
      <3>3. ASSUME k # n PROVE ~(l[k + 1] < b)
        <4>0. k \in 1..n
          BY <3>2
        <4>1. k + 1 \in 1..n /\ ~(k + 1 <= k)
          <5> HIDE DEF n, S
          <5>1. n \in Nat
            BY <1>0
          <5> QED BY <3>3, <4>0, <5>1
        <4> QED BY <3>2, <4>1
      <3>4. ASSUME NEW j \in 2..k PROVE l[j] < b
        <4>1. j \in 1..n /\ k \in 1..n /\ (j = k \/ j < k)
          BY <1>0, <3>2
        <4>2. j = k \/ l[j] < l[k]
          BY <4>1 DEF Sorted
        <4>3. l[k] < b
          BY <3>2
        <4> QED BY <1>0, <4>1, <4>2, <4>3
      <3> QED BY <3>2, <3>3, <3>4
    <2> DEFINE k == CHOOSE x \in 1..n : P(x)
    <2>2. k \in 1..n
      BY <2>1
    <2>2a. k = n \/ ~(l[k + 1] < b)
      BY <2>1
    <2>2b. \A j \in 2..k : l[j] < b
      BY <2>1
    <2>3. m = InsertAt(l, k + 1, b)
      BY <1>2 DEF InsertBlock
    <2> HIDE DEF k, P
    <2>3a. n \in Nat
      BY <1>0
    <2>3b. n = Len(l)
      OBVIOUS
    <2>3c. /\ InsertAt(l, k + 1, b) \in Seq(Nat) /\ Len(InsertAt(l, k + 1, b)) = Len(l) + 1
           /\ \A i \in 1..Len(l) + 1 :
                InsertAt(l, k + 1, b)[i] = IF i <= k THEN l[i] ELSE IF i = k + 1 THEN b ELSE l[i - 1]
      BY <2>2, InsertAfter
    <2>4. /\ m \in Seq(Nat) /\ Len(m) = n + 1
          /\ \A i \in 1..n + 1 : m[i] = IF i <= k THEN l[i] ELSE IF i = k + 1 THEN b ELSE l[i - 1]
      BY <2>3, <2>3c
    <2>5. \A i \in 1..k : l[i] < b
      <3> SUFFICES ASSUME NEW i \in 1..k PROVE l[i] < b
        OBVIOUS
      <3>1. CASE i = 1
        <4>1. i \in 1..n /\ l[1] \in Nat /\ l[1] # b
          BY <1>0, <2>2, <3>1
        <4> QED BY <1>2, <3>1, <4>1
      <3>2. CASE i # 1
        <4>1. i \in 2..k
          BY <2>2, <3>2
        <4> QED BY <2>2b, <4>1
      <3> QED BY <3>1, <3>2
    <2>6. \A i \in k + 1..n : b < l[i]
      <3> SUFFICES ASSUME NEW i \in k + 1..n PROVE b < l[i]
        OBVIOUS
      <3>1. k # n /\ k + 1 \in 1..n /\ i \in 1..n /\ (i = k + 1 \/ k + 1 < i)
        <4> HIDE DEF n
        <4> QED BY <2>2, <2>3a
      <3>2. ~(l[k + 1] < b) /\ l[k + 1] \in Nat /\ l[i] \in Nat /\ l[k + 1] # b
        BY <1>0, <2>2a, <3>1
      <3>3. i = k + 1 \/ l[k + 1] < l[i]
        BY <3>1 DEF Sorted
      <3> QED BY <3>2, <3>3
    <2> HIDE DEF m
    <2>7. Sorted(m) /\ Range(m) = Range(l) \cup {b}
      <3>1. k \in 0..n
        BY <1>0, <2>2
      <3> QED BY <2>4, <2>5, <2>6, <3>1, PlacedLemma
    <2>8. m # << >>
      BY <1>0, <2>4
    <2> QED BY <2>4, <2>7, <2>8 DEF m
  <1> QED BY <1>1, <1>2

\* A block is taken from the list.
LEMMA RemoveLemma ==
    ASSUME NEW l \in Seq(Nat), Sorted(l), NEW i \in 1..Len(l)
    PROVE  /\ RemoveAt(l, i) \in Seq(Nat) /\ Sorted(RemoveAt(l, i))
           /\ Range(RemoveAt(l, i)) = Range(l) \ {l[i]}
  <1> DEFINE m == RemoveAt(l, i)
             n == Len(l)
  <1>0. /\ n \in Nat /\ DOMAIN l = 1..n /\ i \in 1..n /\ \A x \in 1..n : l[x] \in Nat
    BY LenProperties, ElementOfSeq
  <1>1. /\ m \in Seq(Nat) /\ Len(m) = n - 1
        /\ \A k \in 1..n - 1 : m[k] = l[IF k < i THEN k ELSE k + 1]
    BY RemoveAtLemma
  <1>2. \A x, y \in 1..n : x < y => l[x] < l[y]
    BY DEF Sorted
  <1>3. DOMAIN m = 1..n - 1
    BY <1>1, LenProperties
  <1> HIDE DEF m, n
  <1>4. ASSUME NEW x \in 1..n - 1, NEW y \in 1..n - 1, x < y PROVE m[x] < m[y]
    <2> DEFINE u == IF x < i THEN x ELSE x + 1
               v == IF y < i THEN y ELSE y + 1
    <2>1. u \in 1..n /\ v \in 1..n /\ u < v
      BY <1>0, <1>4
    <2>2. m[x] = l[u] /\ m[y] = l[v]
      BY <1>1
    <2> HIDE DEF u, v
    <2> QED BY <1>2, <2>1, <2>2
  <1>5. ASSUME NEW z \in Range(m) PROVE z \in Range(l) /\ z # l[i]
    <2>1. PICK x \in 1..n - 1 : z = m[x]
      BY <1>3, <1>5 DEF Range
    <2> DEFINE u == IF x < i THEN x ELSE x + 1
    <2>2. u \in 1..n /\ (u < i \/ i < u)
      BY <1>0, <2>1
    <2>3. z = l[u]
      BY <1>1, <2>1
    <2> HIDE DEF u
    <2>4. l[u] # l[i]
      BY <1>0, <1>2, <2>2
    <2> QED BY <1>0, <2>2, <2>3, <2>4 DEF Range
  <1>6. ASSUME NEW z \in Range(l), z # l[i] PROVE z \in Range(m)
    <2>1. PICK x \in 1..n : z = l[x]
      BY <1>0, <1>6 DEF Range
    <2>2. x # i
      BY <1>6, <2>1
    <2> DEFINE u == IF x < i THEN x ELSE x - 1
    <2>3. u \in 1..n - 1 /\ (IF u < i THEN u ELSE u + 1) = x
      BY <1>0, <2>1, <2>2
    <2> HIDE DEF u
    <2>4. m[u] = l[x]
      BY <1>1, <2>3
    <2> QED BY <1>3, <2>1, <2>3, <2>4 DEF Range
  <1> QED BY <1>1, <1>4, <1>5, <1>6 DEF Sorted, m

\* The rest of a block takes its place in the list.
LEMMA ReplaceLemma ==
    ASSUME NEW l \in Seq(Nat), Sorted(l), NEW i \in 1..Len(l), NEW r \in Nat, r > l[i],
           \A j \in 1..Len(l) : l[j] > l[i] => l[j] > r
    PROVE  /\ [l EXCEPT ![i] = r] \in Seq(Nat) /\ Sorted([l EXCEPT ![i] = r])
           /\ Range([l EXCEPT ![i] = r]) = (Range(l) \ {l[i]}) \cup {r}
  <1> DEFINE m == [l EXCEPT ![i] = r]
             n == Len(l)
  <1>0. /\ n \in Nat /\ DOMAIN l = 1..n /\ i \in 1..n /\ \A x \in 1..n : l[x] \in Nat
    BY LenProperties, ElementOfSeq
  <1>1. m \in Seq(Nat) /\ Len(m) = n /\ DOMAIN m = 1..n /\ m[i] = r /\ \A x \in 1..n : x # i => m[x] = l[x]
    BY <1>0, ExceptSeq, LenProperties
  <1>2. \A x, y \in 1..n : x < y => l[x] < l[y]
    BY DEF Sorted
  <1> HIDE DEF m, n
  <1>3. ASSUME NEW x \in 1..n, NEW y \in 1..n, x < y PROVE m[x] < m[y]
    <2>1. CASE x = i
      <3>1. l[y] > l[i] /\ m[y] = l[y]
        BY <1>0, <1>1, <1>2, <1>3, <2>1
      <3> QED BY <1>1, <2>1, <3>1, <1>0 DEF n
    <2>2. CASE y = i
      <3>1. m[x] = l[x] /\ l[x] < l[i] /\ l[x] \in Nat /\ l[i] \in Nat
        BY <1>0, <1>1, <1>2, <1>3, <2>2
      <3> QED BY <1>1, <2>2, <3>1
    <2>3. CASE x # i /\ y # i
      BY <1>1, <1>2, <1>3, <2>3
    <2> QED BY <2>1, <2>2, <2>3
  <1>4. \A x, y \in 1..n : x # y => l[x] # l[y]
    BY <1>0, <1>2
  <1>5. Range(m) = (Range(l) \ {l[i]}) \cup {r}
    BY <1>0, <1>1, <1>4 DEF Range
  <1> QED BY <1>1, <1>3, <1>5 DEF Sorted, m

-----------------------------------------------------------------------------
(* The walk that joins free neighbours.                                    *)

Mark == {"FREE", "HEAP"}

\* The headers and the list agree: blocks tile the heap, and the list has the
\* free ones in address order, all 16-aligned.
Sound(sz, mg, l) ==
    /\ Tiles(sz)
    /\ mg \in [DOMAIN sz -> Mark]
    /\ l \in Seq(Nat) /\ Sorted(l)
    /\ \A b : b \in Range(l) <=> b \in DOMAIN sz /\ mg[b] = "FREE"
    /\ \A b \in Range(l) : b % 2 = 0

Coalesced(sz, l) == \A b, c \in Range(l) : End(sz, b) # c

\* The first i blocks of a list.
FirstOf(l, i) == {l[j] : j \in 1..i}

\* What the walk over h has made of the heap after i blocks.
Walk(h, i, g) ==
    /\ Tiles(g.size)
    /\ g.list \in Seq(Nat) /\ g.list # << >> /\ Sorted(g.list)
    /\ Range(g.list) \subseteq FirstOf(h.list, i)
    /\ DOMAIN g.size = DOMAIN h.size \ (FirstOf(h.list, i) \ Range(g.list))
    /\ g.magic = Restrict(h.magic, DOMAIN g.size)
    /\ Coalesced(g.size, g.list)

\* The last block kept is the highest one.
LEMMA LastLemma ==
    ASSUME NEW l \in Seq(Nat), l # << >>, Sorted(l)
    PROVE  /\ l[Len(l)] \in Range(l) /\ l[Len(l)] \in Nat
           /\ \A x \in Range(l) : x \in Nat /\ (x = l[Len(l)] \/ x < l[Len(l)])
  <1>1. Len(l) \in Nat /\ Len(l) # 0 /\ DOMAIN l = 1..Len(l) /\ \A i \in 1..Len(l) : l[i] \in Nat
    BY LenProperties, ElementOfSeq, EmptySeq
  <1>2. Len(l) \in 1..Len(l)
    BY <1>1
  <1>3. ASSUME NEW x \in Range(l) PROVE x \in Nat /\ (x = l[Len(l)] \/ x < l[Len(l)])
    <2>1. PICK i \in 1..Len(l) : x = l[i]
      BY <1>1 DEF Range
    <2>2. i = Len(l) \/ i < Len(l)
      <3>1. Len(l) \in Nat /\ i \in 1..Len(l)
        BY <1>1
      <3> QED BY <3>1
    <2> QED BY <1>1, <1>2, <2>1, <2>2 DEF Sorted
  <1> QED BY <1>1, <1>2, <1>3 DEF Range

\* A block above the others goes to the end.
LEMMA AppendLemma ==
    ASSUME NEW l \in Seq(Nat), Sorted(l), NEW b \in Nat, \A x \in Range(l) : x < b
    PROVE  /\ Append(l, b) \in Seq(Nat) /\ Append(l, b) # << >> /\ Sorted(Append(l, b))
           /\ Range(Append(l, b)) = Range(l) \cup {b}
  <1> DEFINE m == Append(l, b)
             n == Len(l)
  <1>1. m \in Seq(Nat) /\ Len(m) = n + 1 /\ Range(m) = Range(l) \cup {b}
    BY AppendRange
  <1>2. n \in Nat /\ m[n + 1] = b /\ \A i \in 1..n : m[i] = l[i]
    BY AppendProperties, LenProperties
  <1>3. \A i \in 1..n : l[i] < b
    <2>1. DOMAIN l = 1..n
      BY LenProperties
    <2> QED BY <2>1 DEF Range
  <1>4. \A i, j \in 1..n : i < j => l[i] < l[j]
    BY DEF Sorted
  <1> HIDE DEF m, n
  <1>5. ASSUME NEW i \in 1..n + 1, NEW j \in 1..n + 1, i < j PROVE m[i] < m[j]
    <2>1. i \in 1..n
      BY <1>2, <1>5
    <2>2. CASE j = n + 1
      BY <1>2, <1>3, <2>1, <2>2
    <2>3. CASE j # n + 1
      <3>1. j \in 1..n
        BY <1>2, <2>3
      <3> QED BY <1>2, <1>4, <1>5, <2>1, <3>1
    <2> QED BY <2>2, <2>3
  <1>6. m # << >>
    BY <1>1, <1>2
  <1> QED BY <1>1, <1>5, <1>6 DEF Sorted, m

\* One turn of the walk.
LEMMA WalkStep ==
    ASSUME NEW h, Sound(h.size, h.magic, h.list), NEW i \in 2..Len(h.list), NEW g, Walk(h, i - 1, g)
    PROVE  Walk(h, i, JoinNext(g, h.list[i]))
  <1> DEFINE l == h.list
             b == l[i]
             t == g.list[Len(g.list)]
             F == FirstOf(l, i - 1)
             D == DOMAIN g.size
             R == Range(g.list)
  <1>1. l \in Seq(Nat) /\ Len(l) \in Nat /\ DOMAIN l = 1..Len(l)
    BY LenProperties DEF Sound
  <1>2. b \in Nat /\ b \in Range(l)
    <2>1. i \in 1..Len(l)
      BY <1>1
    <2> QED BY <1>1, <2>1, ElementOfSeq DEF Range
  <1>3. FirstOf(l, i) = F \cup {b} /\ \A x \in F : x < b
    <2>1. 1..i = (1..i - 1) \cup {i}
      BY <1>1
    <2>2. \A j \in 1..i - 1 : l[j] < l[i]
      <3>1. \A j \in 1..i - 1 : j \in 1..Len(l) /\ j < i /\ i \in 1..Len(l)
        BY <1>1
      <3> QED BY <3>1 DEF Sound, Sorted
    <2> QED BY <2>1, <2>2 DEF FirstOf
  <1>4. /\ Tiles(g.size) /\ g.list \in Seq(Nat) /\ g.list # << >> /\ Sorted(g.list)
        /\ R \subseteq F /\ D = DOMAIN h.size \ (F \ R)
        /\ g.magic = Restrict(h.magic, D) /\ Coalesced(g.size, g.list)
    BY DEF Walk
  <1>5. b \in DOMAIN h.size /\ b \notin F /\ b \in D /\ b \notin R
    BY <1>2, <1>3, <1>4 DEF Sound
  <1>6. t \in R /\ t \in Nat /\ \A x \in R : x \in Nat /\ (x = t \/ x < t) /\ x < b
    BY <1>3, <1>4, LastLemma
  <1>7. R \subseteq D
    <2>1. F \subseteq Range(l)
      <3>1. \A j \in 1..i - 1 : j \in DOMAIN l
        BY <1>1
      <3> QED BY <3>1 DEF FirstOf, Range
    <2> QED BY <1>4, <2>1 DEF Sound
  <1> HIDE DEF b, t, F, D, R, l
  <1>8. CASE End(g.size, t) = b
    <2> DEFINE new == Join(g.size, t, b)
    <2>1. JoinNext(g, b) = [size |-> new, magic |-> Restrict(g.magic, DOMAIN g.magic \ {b}), list |-> g.list]
      BY <1>8 DEF JoinNext, Join, t
    <2>2. /\ DOMAIN new = D \ {b} /\ End(new, t) = End(g.size, b) /\ Tiles(new)
          /\ \A x \in D \ {t, b} : End(new, x) = End(g.size, x)
      <3>1. Tiles(g.size) /\ t \in DOMAIN g.size /\ b \in DOMAIN g.size
        BY <1>4, <1>5, <1>6, <1>7 DEF D
      <3>2. PICK sz : sz = g.size
        OBVIOUS
      <3>3. /\ DOMAIN Join(sz, t, b) = DOMAIN sz \ {b}
            /\ End(Join(sz, t, b), t) = End(sz, b) /\ Tiles(Join(sz, t, b))
            /\ \A x \in DOMAIN sz \ {t, b} : End(Join(sz, t, b), x) = End(sz, x)
        <4>1. Tiles(sz) /\ t \in DOMAIN sz /\ b \in DOMAIN sz /\ End(sz, t) = b
          BY <1>8, <3>1, <3>2
        <4>2. End(sz, t) \in DOMAIN sz
          BY <4>1
        <4>3. /\ DOMAIN Join(sz, t, End(sz, t)) = DOMAIN sz \ {End(sz, t)}
              /\ End(Join(sz, t, End(sz, t)), t) = End(sz, End(sz, t)) /\ Tiles(Join(sz, t, End(sz, t)))
              /\ \A x \in DOMAIN sz \ {t, End(sz, t)} : End(Join(sz, t, End(sz, t)), x) = End(sz, x)
          BY <4>1, <4>2, JoinTiles
        <4> QED BY <4>1, <4>3
      <3> QED BY <3>2, <3>3 DEF D
    <2> HIDE DEF new
    <2>3. Coalesced(new, g.list)
      <3> SUFFICES ASSUME NEW x \in R, NEW y \in R PROVE End(new, x) # y
        BY DEF Coalesced, R
      <3>1. CASE x = t
        <4>1. End(g.size, b) > b + 2 /\ End(g.size, b) \in Nat
          BY <1>4, <1>5, TileFacts DEF D
        <4>2. y < b /\ y \in Nat
          BY <1>6
        <4> QED BY <1>2, <2>2, <3>1, <4>1, <4>2
      <3>2. CASE x # t
        <4>1. x \in D \ {t, b}
          BY <1>5, <1>7, <3>2
        <4> QED BY <1>4, <2>2, <4>1 DEF Coalesced, R
      <3> QED BY <3>1, <3>2
    <2>4. D \ {b} = DOMAIN h.size \ ((F \cup {b}) \ R)
      BY <1>4, <1>5
    <2>5. Restrict(g.magic, DOMAIN g.magic \ {b}) = Restrict(h.magic, D \ {b})
      BY <1>4 DEF Restrict
    <2> DEFINE G == JoinNext(g, b)
    <2>6. G.size = new /\ G.magic = Restrict(h.magic, D \ {b}) /\ G.list = g.list
      BY <2>1, <2>5
    <2> HIDE DEF G
    <2>7. Range(G.list) = R /\ DOMAIN G.size = D \ {b}
      BY <2>2, <2>6 DEF R
    <2>8. Walk(h, i, G)
      BY <1>3, <1>4, <2>2, <2>3, <2>4, <2>6, <2>7 DEF Walk, l
    <2> QED BY <2>8 DEF G, b, l
  <1>9. CASE End(g.size, t) # b
    <2>1. JoinNext(g, b) = [size |-> g.size, magic |-> g.magic, list |-> Append(g.list, b)]
      BY <1>9 DEF JoinNext, t
    <2>2. /\ Append(g.list, b) \in Seq(Nat) /\ Append(g.list, b) # << >> /\ Sorted(Append(g.list, b))
          /\ Range(Append(g.list, b)) = R \cup {b}
      BY <1>2, <1>4, <1>6, AppendLemma DEF R
    <2>3. Coalesced(g.size, Append(g.list, b))
      <3> SUFFICES ASSUME NEW x \in R \cup {b}, NEW y \in R \cup {b} PROVE End(g.size, x) # y
        BY <2>2 DEF Coalesced
      <3>1. CASE x = b
        <4>1. End(g.size, b) > b + 2 /\ End(g.size, b) \in Nat
          BY <1>4, <1>5, TileFacts DEF D
        <4>2. y \in Nat /\ (y = b \/ y < b)
          BY <1>2, <1>6
        <4> QED BY <1>2, <3>1, <4>1, <4>2
      <3>2. CASE x \in R /\ y \in R
        BY <1>4, <3>2 DEF Coalesced, R
      <3>3. CASE x \in R /\ y = b
        <4>1. CASE x = t
          BY <1>9, <3>3, <4>1
        <4>2. CASE x < t
          <5>1. x \in D /\ t \in D
            BY <1>6, <1>7, <3>3
          <5>2. End(g.size, x) <= t /\ End(g.size, x) \in Nat
            BY <1>4, <4>2, <5>1, TileFacts DEF Tiles, D
          <5> QED BY <1>2, <1>6, <3>3, <5>2
        <4> QED BY <1>6, <3>3, <4>1, <4>2
      <3> QED BY <3>1, <3>2, <3>3
    <2>4. D = DOMAIN h.size \ ((F \cup {b}) \ (R \cup {b}))
      BY <1>4, <1>5
    <2> DEFINE G == JoinNext(g, b)
    <2>6. G.size = g.size /\ G.magic = g.magic /\ G.list = Append(g.list, b)
      BY <2>1
    <2> HIDE DEF G
    <2>7. Range(G.list) = R \cup {b} /\ DOMAIN G.size = D
      BY <2>2, <2>6 DEF D
    <2>8. Walk(h, i, G)
      BY <1>3, <1>4, <2>2, <2>3, <2>4, <2>6, <2>7 DEF Walk, l
    <2> QED BY <2>8 DEF G, b, l
  <1> QED BY <1>8, <1>9 DEF b, l

\* The headers and the list when the walk starts.
Start(h) == [size |-> h.size, magic |-> h.magic, list |-> <<h.list[1]>>]

\* What the walk has made of the heap is well defined at every turn.
LEMMA WalkExists ==
    ASSUME NEW h, NEW n \in Nat
    PROVE  \E g : g = [i \in 1..n |-> IF i = 1 THEN Start(h) ELSE JoinNext(g[i - 1], h.list[i])]
  <1> DEFINE Sol(m, g) == g = [i \in 1..m |-> IF i = 1 THEN Start(h) ELSE JoinNext(g[i - 1], h.list[i])]
             Bad == {m \in Nat : ~\E g : Sol(m, g)}
  <1>1. Bad = {}
    <2> SUFFICES ASSUME Bad # {} PROVE FALSE
      OBVIOUS
    <2>1. PICK m \in Bad : \A k \in Bad : m <= k
      BY LeastNat
    <2>2. Sol(0, [i \in 1..0 |-> h])
      OBVIOUS
    <2>3. m # 0
      BY <2>1, <2>2
    <2>4. m - 1 \in Nat /\ m - 1 \notin Bad
      <3>1. m \in Nat
        OBVIOUS
      <3> HIDE DEF Bad
      <3> QED BY <3>1, <2>1, <2>3
    <2>5. PICK g : Sol(m - 1, g)
      BY <2>4
    <2> DEFINE f == [i \in 1..m |-> IF i = m THEN (IF m = 1 THEN Start(h) ELSE JoinNext(g[m - 1], h.list[m]))
                                    ELSE g[i]]
    <2>6. \A i \in 1..m : f[i] = IF i = 1 THEN Start(h) ELSE JoinNext(f[i - 1], h.list[i])
      <3> SUFFICES ASSUME NEW i \in 1..m
                   PROVE  f[i] = IF i = 1 THEN Start(h) ELSE JoinNext(f[i - 1], h.list[i])
        OBVIOUS
      <3>1. CASE i = m
        <4>1. f[i] = IF m = 1 THEN Start(h) ELSE JoinNext(g[m - 1], h.list[m])
          BY <3>1, <2>1
        <4>2. m # 1 => f[i - 1] = g[m - 1]
          BY <3>1, <2>1, <2>3
        <4> QED BY <4>1, <4>2, <3>1, <2>3
      <3>2. CASE i # m
        <4>1. i \in 1..(m - 1) /\ f[i] = g[i]
          BY <3>2, <2>1
        <4>2. g[i] = IF i = 1 THEN Start(h) ELSE JoinNext(g[i - 1], h.list[i])
          BY <4>1, <2>5
        <4>3. i # 1 => f[i - 1] = g[i - 1]
          BY <4>1, <2>1
        <4> QED BY <4>1, <4>2, <4>3
      <3> QED BY <3>1, <3>2
    <2>7. Sol(m, f)
      <3> HIDE DEF f
      <3>1. f = [i \in 1..m |-> f[i]]
        BY DEF f
      <3> QED BY <3>1, <2>6
    <2> QED BY <2>7, <2>1
  <1> QED BY <1>1

\* The walk starts with the first block of the list.
LEMMA WalkStart ==
    ASSUME NEW h, Sound(h.size, h.magic, h.list), h.list # << >>
    PROVE  Walk(h, 1, Start(h))
  <1> DEFINE a == h.list[1]
             q == <<a>>
             S == Start(h)
  <1>1. a \in Nat /\ a \in Range(h.list)
    <2>1. h.list \in Seq(Nat) /\ 1 \in DOMAIN h.list /\ Len(h.list) \in Nat /\ DOMAIN h.list = 1..Len(h.list)
      BY LenProperties, EmptySeq DEF Sound
    <2> QED BY <2>1, ElementOfSeq DEF Range
  <1>2. a \in DOMAIN h.size /\ Tiles(h.size)
    BY <1>1 DEF Sound
  <1>3. S.size = h.size /\ S.magic = h.magic /\ S.list = q
    BY DEF Start
  <1>4. FirstOf(h.list, 1) = {a}
    BY DEF FirstOf
  <1> HIDE DEF a
  <1>5. q \in Seq(Nat) /\ q # << >> /\ Len(q) = 1 /\ q[1] = a /\ Range(q) = {a}
    <2>1. q \in Seq(Nat) /\ Len(q) = 1 /\ DOMAIN q = 1..1 /\ q[1] = a
      BY <1>1
    <2> QED BY <2>1 DEF Range
  <1> HIDE DEF q, S
  <1>6. Sorted(q)
    BY <1>5 DEF Sorted
  <1>7. Coalesced(h.size, q)
    <2>1. End(h.size, a) > a + 2 /\ End(h.size, a) \in Nat
      BY <1>2, TileFacts
    <2> QED BY <1>1, <1>5, <2>1 DEF Coalesced
  <1>8. h.magic = Restrict(h.magic, DOMAIN h.size)
    BY DEF Sound, Restrict
  <1>9. DOMAIN h.size = DOMAIN h.size \ (FirstOf(h.list, 1) \ Range(q))
    BY <1>4, <1>5
  <1> QED BY <1>2, <1>3, <1>4, <1>5, <1>6, <1>7, <1>8, <1>9 DEF Walk, S

\* The state of the heap between two operations, but for the pointers held.
Settled(h) == Sound(h.size, h.magic, h.list) /\ Coalesced(h.size, h.list)

InUse(h) == {b \in DOMAIN h.size : h.magic[b] = "HEAP"}

\* Joining neighbours leaves the heap sound and coalesced, and every block in
\* use where it was.
LEMMA CoalesceLemma ==
    ASSUME NEW h, Sound(h.size, h.magic, h.list)
    PROVE  Settled(Coalesce(h)) /\ InUse(Coalesce(h)) = InUse(h)
  <1> DEFINE n == Len(h.list)
             Sol(g) == g = [i \in 1..n |-> IF i = 1 THEN Start(h) ELSE JoinNext(g[i - 1], h.list[i])]
  <1>0. h.list \in Seq(Nat) /\ n \in Nat /\ DOMAIN h.list = 1..n
    BY LenProperties DEF Sound
  <1>1. CASE h.list = << >>
    <2>1. Coalesce(h) = h
      BY <1>1 DEF Coalesce
    <2>2. Range(h.list) = {}
      BY <1>1 DEF Range
    <2> QED BY <2>1, <2>2 DEF Settled, Coalesced
  <1>2. CASE h.list # << >>
    <2> DEFINE u == CHOOSE g : Sol(g)
    <2>1. \E g : Sol(g)
      BY <1>0, WalkExists
    <2>2. Sol(u)
      BY <2>1
    <2>3. Coalesce(h) = u[n]
      BY <1>2 DEF Coalesce, Start
    <2> HIDE DEF u
    <2>4. n \in Nat \ {0}
      BY <1>0, <1>2, EmptySeq
    <2>5. \A i \in 1..n : u[i] = IF i = 1 THEN Start(h) ELSE JoinNext(u[i - 1], h.list[i])
      BY <2>2
    <2> HIDE DEF n
    <2>6. \A i \in 1..n : Walk(h, i, u[i])
      <3> DEFINE Bad == {i \in 1..n : ~Walk(h, i, u[i])}
      <3> SUFFICES ASSUME Bad # {} PROVE FALSE
        OBVIOUS
      <3>1. PICK i \in Bad : \A k \in Bad : i <= k
        <4>1. Bad \in SUBSET Nat
          BY <1>0
        <4> HIDE DEF Bad
        <4> QED BY <4>1, LeastNat
      <3>2. i \in 1..n /\ ~Walk(h, i, u[i])
        BY <3>1
      <3>3. i # 1
        BY <1>2, <2>5, <3>2, WalkStart
      <3>4. i \in 2..n /\ i - 1 \in 1..n /\ ~(i <= i - 1)
        BY <1>0, <3>2, <3>3
      <3>5. Walk(h, i - 1, u[i - 1])
        BY <3>1, <3>4
      <3>6. Walk(h, i, JoinNext(u[i - 1], h.list[i]))
        BY <3>4, <3>5, WalkStep DEF n
      <3> QED BY <2>5, <3>2, <3>3, <3>6
    <2>7. Walk(h, n, u[n]) 
      BY <2>4, <2>6
    <2>8. FirstOf(h.list, n) = Range(h.list)
      BY <1>0 DEF FirstOf, Range
    <2> DEFINE g == u[n]
    <2>9. /\ Tiles(g.size) /\ g.list \in Seq(Nat) /\ Sorted(g.list)
          /\ Range(g.list) \subseteq Range(h.list)
          /\ DOMAIN g.size = DOMAIN h.size \ (Range(h.list) \ Range(g.list))
          /\ g.magic = Restrict(h.magic, DOMAIN g.size)
          /\ Coalesced(g.size, g.list)
      BY <2>7, <2>8 DEF Walk
    <2> HIDE DEF g
    <2>10. /\ g.magic \in [DOMAIN g.size -> Mark]
           /\ \A b \in DOMAIN g.size : g.magic[b] = h.magic[b]
      <3>1. h.magic \in [DOMAIN h.size -> Mark]
        BY DEF Sound
      <3> QED BY <2>9, <3>1 DEF Restrict
    <2>11. \A b : b \in Range(g.list) <=> b \in DOMAIN g.size /\ g.magic[b] = "FREE"
      <3>1. \A b : b \in Range(h.list) <=> b \in DOMAIN h.size /\ h.magic[b] = "FREE"
        BY DEF Sound
      <3> QED BY <2>9, <2>10, <3>1
    <2>12. \A b \in Range(g.list) : b % 2 = 0
      BY <2>9 DEF Sound
    <2>13. InUse(g) = InUse(h)
      <3>1. \A b : b \in Range(h.list) <=> b \in DOMAIN h.size /\ h.magic[b] = "FREE"
        BY DEF Sound
      <3>2. ASSUME NEW b \in InUse(g) PROVE b \in InUse(h)
        BY <2>9, <2>10 DEF InUse
      <3>3. ASSUME NEW b \in InUse(h) PROVE b \in InUse(g)
        <4>1. b \in DOMAIN h.size /\ b \notin Range(h.list) /\ h.magic[b] = "HEAP"
          BY <3>1 DEF InUse
        <4>2. b \in DOMAIN g.size
          BY <2>9, <4>1
        <4> QED BY <2>10, <4>1, <4>2 DEF InUse
      <3> QED BY <3>2, <3>3
    <2> QED BY <2>3, <2>9, <2>10, <2>11, <2>12, <2>13 DEF Settled, Sound, g
  <1> QED BY <1>1, <1>2

-----------------------------------------------------------------------------
(* The operations on a heap.                                               *)

\* What Sound says of the blocks of the list.
LEMMA ListFacts ==
    ASSUME NEW h, Sound(h.size, h.magic, h.list), NEW i \in 1..Len(h.list)
    PROVE  /\ h.list[i] \in Nat /\ h.list[i] \in Range(h.list) /\ h.list[i] % 2 = 0
           /\ h.list[i] \in DOMAIN h.size /\ h.magic[h.list[i]] = "FREE"
  <1>1. h.list \in Seq(Nat) /\ DOMAIN h.list = 1..Len(h.list)
    BY LenProperties DEF Sound
  <1>2. h.list[i] \in Nat /\ h.list[i] \in Range(h.list)
    BY <1>1, ElementOfSeq DEF Range
  <1> QED BY <1>2 DEF Sound

\* kernel_free of a pointer to a block in use frees that block and no other.
LEMMA FreeLemma ==
    ASSUME NEW h, Sound(h.size, h.magic, h.list), NEW p, p % 2 = 0, p - 2 \in InUse(h), (p - 2) % 2 = 0
    PROVE  Settled(FreePtr(h, p)) /\ InUse(FreePtr(h, p)) = InUse(h) \ {p - 2}
  <1> DEFINE b == p - 2
             mg == [h.magic EXCEPT ![b] = "FREE"]
             l == InsertBlock(h.list, b)
             k == [size |-> h.size, magic |-> mg, list |-> l]
  <1>1. /\ Tiles(h.size) /\ h.magic \in [DOMAIN h.size -> Mark] /\ h.list \in Seq(Nat) /\ Sorted(h.list)
        /\ \A x : x \in Range(h.list) <=> x \in DOMAIN h.size /\ h.magic[x] = "FREE"
        /\ \A x \in Range(h.list) : x % 2 = 0
    BY DEF Sound
  <1>2. b \in DOMAIN h.size /\ h.magic[b] = "HEAP" /\ b % 2 = 0
    BY DEF InUse
  <1>3. FreePtr(h, p) = Coalesce(k)
    BY <1>2 DEF FreePtr, HDR
  <1> HIDE DEF b
  <1>4. b \in Nat /\ b \notin Range(h.list)
    BY <1>1, <1>2, TileFacts
  <1>5. l \in Seq(Nat) /\ Sorted(l) /\ Range(l) = Range(h.list) \cup {b}
    BY <1>1, <1>4, InsertLemma
  <1> HIDE DEF l
  <1>6. mg \in [DOMAIN h.size -> Mark] /\ mg[b] = "FREE" /\ \A x \in DOMAIN h.size : x # b => mg[x] = h.magic[x]
    BY <1>1, <1>2 DEF Mark
  <1> HIDE DEF mg
  <1>7. Sound(h.size, mg, l)
    BY <1>1, <1>2, <1>5, <1>6 DEF Sound
  <1>8. k.size = h.size /\ k.magic = mg /\ k.list = l
    OBVIOUS
  <1> HIDE DEF k
  <1>9. Sound(k.size, k.magic, k.list)
    BY <1>7, <1>8
  <1>10. Settled(Coalesce(k)) /\ InUse(Coalesce(k)) = InUse(k)
    BY <1>9, CoalesceLemma
  <1>11. InUse(k) = InUse(h) \ {b}
    BY <1>2, <1>6, <1>8 DEF InUse
  <1> QED BY <1>3, <1>10, <1>11 DEF b

\* A header and an even number of bytes after an even address.
LEMMA EvenSum ==
    ASSUME NEW x \in Nat, NEW y \in Nat, x % 2 = 0, y % 2 = 0
    PROVE  (x + 2 + y) % 2 = 0
  OBVIOUS

\* kernel_malloc takes block i of the list, whole or cut in two.
LEMMA TakeLemma ==
    ASSUME NEW h, Settled(h), NEW i \in 1..Len(h.list), NEW n \in Nat, n >= 1, n % 2 = 0,
           h.size[h.list[i]] >= n
    PROVE  Settled(Take(h, i, n)) /\ InUse(Take(h, i, n)) = InUse(h) \cup {h.list[i]}
  <1> DEFINE b == h.list[i]
             l == h.list
             sz == h.size
             rest == b + 2 + n
  <1>1. /\ Tiles(sz) /\ h.magic \in [DOMAIN sz -> Mark] /\ l \in Seq(Nat) /\ Sorted(l)
        /\ \A x : x \in Range(l) <=> x \in DOMAIN sz /\ h.magic[x] = "FREE"
        /\ \A x \in Range(l) : x % 2 = 0
        /\ Coalesced(sz, l) /\ Sound(h.size, h.magic, h.list)
    BY DEF Settled, Sound
  <1>2. b \in Nat /\ b \in Range(l) /\ b % 2 = 0 /\ b \in DOMAIN sz
    BY <1>1, ListFacts
  <1>3. sz[b] \in Nat /\ End(sz, b) = b + 2 + sz[b]
    BY <1>1, <1>2, TileFacts
  <1>4. CASE sz[b] >= n + 2 + 3
    <2> DEFINE new == Split(sz, b, n, rest, sz[b] - n - 2)
               mg == Split(h.magic, b, "HEAP", rest, "FREE")
               m == [l EXCEPT ![i] = rest]
    <2>1. Take(h, i, n) = [size |-> new, magic |-> mg, list |-> m]
      BY <1>4 DEF Take, HDR, MIN_BLOCK
    <2>2. sz[b] - n - 2 >= 1
      BY <1>3, <1>4
    <2>3. /\ rest \in Nat /\ rest \notin DOMAIN sz /\ rest > b /\ rest # b
          /\ DOMAIN new = DOMAIN sz \cup {rest}
          /\ End(new, rest) = End(sz, b)
          /\ \A x \in DOMAIN sz : x # b => End(new, x) = End(sz, x)
          /\ Tiles(new)
      <3> HIDE DEF b, sz
      <3>1. PICK s : s = sz
        OBVIOUS
      <3>2. PICK c \in DOMAIN s : c = b
        BY <1>2, <3>1
      <3>3. Tiles(s) /\ s[c] - n - 2 >= 1
        BY <1>1, <2>2, <3>1, <3>2
      <3>4. LET r == c + 2 + n
                f == Split(s, c, n, r, s[c] - n - 2)
            IN  /\ r \in Nat /\ r \notin DOMAIN s /\ r > c /\ r # c
                /\ DOMAIN f = DOMAIN s \cup {r}
                /\ f[c] = n /\ f[r] = s[c] - n - 2
                /\ End(f, c) = r /\ End(f, r) = End(s, c)
                /\ \A x \in DOMAIN s : x # c => f[x] = s[x] /\ End(f, x) = End(s, x)
                /\ Tiles(f)
        BY <3>3, SplitTiles
      <3> QED BY <3>1, <3>2, <3>4
    <2>4. rest % 2 = 0
      <3>1. PICK x \in Nat : x = b /\ x % 2 = 0
        BY <1>2
      <3>2. (x + 2 + n) % 2 = 0
        BY <3>1, EvenSum
      <3> QED BY <3>1, <3>2
    <2>5. rest < End(sz, b) /\ End(sz, b) <= HEAP /\ HEAP \in Nat /\ End(sz, b) \in Nat
      <3>1. End(sz, b) <= HEAP /\ HEAP \in Nat /\ End(sz, b) \in Nat
        BY <1>1, <1>2, TileFacts
      <3> HIDE DEF b, sz
      <3> QED BY <1>2, <1>3, <2>2, <3>1
    <2> HIDE DEF b, l, sz, new, rest
    <2>6. /\ m \in Seq(Nat) /\ Sorted(m) /\ Range(m) = (Range(l) \ {b}) \cup {rest}
      <3>1. \A j \in 1..Len(l) : l[j] > l[i] => l[j] > rest
        <4> SUFFICES ASSUME NEW j \in 1..Len(l), l[j] > l[i] PROVE l[j] > rest
          OBVIOUS
        <4>1. l[j] \in DOMAIN sz /\ l[j] \in Nat
          BY <1>1, ListFacts DEF l, sz
        <4>2. End(sz, b) <= l[j]
          BY <1>1, <1>2, <4>1 DEF Tiles, b, l
        <4> QED BY <2>3, <2>5, <4>1, <4>2
      <3>2. b = l[i] /\ i \in 1..Len(l)
        BY DEF b, l
      <3> QED BY <1>1, <2>3, <3>1, <3>2, ReplaceLemma
    <2>7. /\ mg \in [DOMAIN new -> Mark] /\ mg[b] = "HEAP" /\ mg[rest] = "FREE"
          /\ \A x \in DOMAIN sz : x # b => mg[x] = h.magic[x]
      BY <1>1, <1>2, <2>3 DEF Split, Mark
    <2> HIDE DEF m, mg
    <2>8. Sound(new, mg, m)
      <3>1. \A x : x \in Range(m) <=> x \in DOMAIN new /\ mg[x] = "FREE"
        BY <1>1, <1>2, <2>3, <2>6, <2>7
      <3>2. \A x \in Range(m) : x % 2 = 0
        BY <1>1, <2>4, <2>6
      <3> QED BY <2>3, <2>6, <2>7, <3>1, <3>2 DEF Sound
    <2>9. Coalesced(new, m)
      <3> SUFFICES ASSUME NEW x \in (Range(l) \ {b}) \cup {rest}, NEW y \in (Range(l) \ {b}) \cup {rest}
                   PROVE  End(new, x) # y
        BY <2>6 DEF Coalesced
      <3>1. \A u, v \in Range(l) : End(sz, u) # v
        BY <1>1 DEF Coalesced
      <3>2. CASE x = rest
        <4>1. End(new, x) = End(sz, b) /\ End(sz, b) # rest
          BY <2>3, <2>5, <3>2
        <4> QED BY <1>2, <3>1, <4>1
      <3>3. CASE x \in Range(l) \ {b}
        <4>1. x \in DOMAIN sz /\ End(new, x) = End(sz, x) /\ End(sz, x) \in DOMAIN sz \cup {HEAP}
          BY <1>1, <2>3, <3>3 DEF Tiles
        <4>2. rest # HEAP
          BY <2>3, <2>5
        <4> QED BY <2>3, <3>1, <3>3, <4>1, <4>2
      <3> QED BY <3>2, <3>3
    <2> DEFINE T == Take(h, i, n)
    <2>10. T.size = new /\ T.magic = mg /\ T.list = m
      BY <2>1
    <2> HIDE DEF T
    <2>11. InUse(T) = InUse(h) \cup {b}
      <3>1. InUse(T) = {x \in DOMAIN new : mg[x] = "HEAP"}
        BY <2>10 DEF InUse
      <3>2. InUse(h) = {x \in DOMAIN sz : h.magic[x] = "HEAP"}
        BY DEF InUse, sz
      <3> QED BY <1>2, <2>3, <2>7, <3>1, <3>2
    <2> QED BY <2>8, <2>9, <2>10, <2>11 DEF Settled, T, b, l
  <1>5. CASE ~(sz[b] >= n + 2 + 3)
    <2> DEFINE mg == [h.magic EXCEPT ![b] = "HEAP"]
               m == RemoveAt(l, i)
    <2>1. Take(h, i, n) = [size |-> sz, magic |-> mg, list |-> m]
      BY <1>5 DEF Take, HDR, MIN_BLOCK
    <2>2. m \in Seq(Nat) /\ Sorted(m) /\ Range(m) = Range(l) \ {b}
      BY <1>1, RemoveLemma
    <2> HIDE DEF b, l, sz
    <2>3. mg \in [DOMAIN sz -> Mark] /\ mg[b] = "HEAP" /\ \A x \in DOMAIN sz : x # b => mg[x] = h.magic[x]
      BY <1>1, <1>2 DEF Mark
    <2> HIDE DEF m, mg
    <2>4. Sound(sz, mg, m)
      <3>1. \A x : x \in Range(m) <=> x \in DOMAIN sz /\ mg[x] = "FREE"
        BY <1>1, <1>2, <2>2, <2>3
      <3> QED BY <1>1, <2>2, <2>3, <3>1 DEF Sound
    <2>5. Coalesced(sz, m)
      BY <1>1, <2>2 DEF Coalesced
    <2> DEFINE T == Take(h, i, n)
    <2>6. T.size = sz /\ T.magic = mg /\ T.list = m
      BY <2>1
    <2> HIDE DEF T
    <2>7. InUse(T) = InUse(h) \cup {b}
      <3>1. InUse(T) = {x \in DOMAIN sz : mg[x] = "HEAP"}
        BY <2>6 DEF InUse
      <3>2. InUse(h) = {x \in DOMAIN sz : h.magic[x] = "HEAP"}
        BY DEF InUse, sz
      <3> QED BY <1>2, <2>3, <3>1, <3>2
    <2> QED BY <2>4, <2>5, <2>6, <2>7 DEF Settled, T, b, l
  <1> QED BY <1>4, <1>5

\* First fit and best fit find a block when there is one.
LEMMA PickLemma ==
    ASSUME NEW h, Sound(h.size, h.magic, h.list), NEW n \in Nat, Fits(h, n) # {}
    PROVE  Pick(h, n) \in Fits(h, n)
  <1> DEFINE F == Fits(h, n)
             s(i) == h.size[h.list[i]]
  <1>1. F \in SUBSET Nat /\ \A i \in F : s(i) \in Nat
    <2>1. h.list \in Seq(Nat) /\ Len(h.list) \in Nat /\ Tiles(h.size)
      BY LenProperties DEF Sound
    <2>2. ASSUME NEW i \in F PROVE i \in Nat /\ s(i) \in Nat
      <3>1. i \in 1..Len(h.list)
        BY DEF Fits
      <3> QED BY <2>1, <3>1, ListFacts, TileFacts
    <2> QED BY <2>2
  <1>2. \E i \in F : \A j \in F : i <= j
    BY <1>1, LeastNat
  <1>3. FirstFit(h, n) \in F
    BY <1>2 DEF FirstFit
  <1>4. \E i \in F : \A j \in F : s(i) < s(j) \/ (s(i) = s(j) /\ i <= j)
    <2> HIDE DEF F, s
    <2> DEFINE Sizes == {s(i) : i \in F}
    <2>1. Sizes \in SUBSET Nat /\ Sizes # {}
      BY <1>1, <1>2
    <2>2. PICK v \in Sizes : \A w \in Sizes : v <= w
      <3> HIDE DEF Sizes
      <3> QED BY <2>1, LeastNat
    <2> DEFINE G == {i \in F : s(i) = v}
    <2>3. G \in SUBSET Nat /\ G # {}
      BY <1>1, <2>2
    <2>4. PICK i \in G : \A j \in G : i <= j
      <3> HIDE DEF G
      <3> QED BY <2>3, LeastNat
    <2>5. ASSUME NEW j \in F PROVE s(i) < s(j) \/ (s(i) = s(j) /\ i <= j)
      <3>1. s(i) = v /\ i \in F
        BY <2>4
      <3>2. v <= s(j) /\ s(j) \in Nat /\ v \in Nat
        BY <1>1, <2>1, <2>2
      <3>3. CASE s(j) = v
        BY <2>4, <3>1, <3>3
      <3>4. CASE s(j) # v
        BY <3>1, <3>2, <3>4
      <3> QED BY <3>3, <3>4
    <2> QED BY <2>4, <2>5
  <1>5. BestFit(h, n) \in F
    BY <1>4 DEF BestFit
  <1> QED BY <1>3, <1>5 DEF Pick

\* kernel_realloc cuts a block in use in two.
LEMMA CutLemma ==
    ASSUME NEW h, Settled(h), NEW b \in InUse(h), NEW n \in Nat, n >= 1, h.size[b] - n >= 5, NEW k,
           k = [size  |-> Split(h.size, b, n, b + 2 + n, h.size[b] - n - 2),
                magic |-> Split(h.magic, b, h.magic[b], b + 2 + n, "HEAP"),
                list  |-> h.list]
    PROVE  Settled(k) /\ b + 2 + n \in Nat /\ b + 2 + n \notin InUse(h) /\ InUse(k) = InUse(h) \cup {b + 2 + n}
  <1> DEFINE l == h.list
             sz == h.size
             rest == b + 2 + n
             new == Split(sz, b, n, rest, sz[b] - n - 2)
             mg == Split(h.magic, b, h.magic[b], rest, "HEAP")
  <1>1. /\ Tiles(sz) /\ h.magic \in [DOMAIN sz -> Mark] /\ l \in Seq(Nat) /\ Sorted(l)
        /\ \A x : x \in Range(l) <=> x \in DOMAIN sz /\ h.magic[x] = "FREE"
        /\ \A x \in Range(l) : x % 2 = 0
        /\ Coalesced(sz, l)
    BY DEF Settled, Sound
  <1>2. b \in DOMAIN sz /\ h.magic[b] = "HEAP" /\ InUse(h) = {x \in DOMAIN sz : h.magic[x] = "HEAP"}
    BY DEF InUse
  <1>3. sz[b] - n - 2 >= 1
    <2>1. sz[b] \in Nat
      BY <1>1, <1>2, TileFacts
    <2> QED BY <2>1
  <1>4. /\ rest \in Nat /\ rest \notin DOMAIN sz /\ rest > b /\ rest # b
        /\ DOMAIN new = DOMAIN sz \cup {rest}
        /\ \A x \in DOMAIN sz : x # b => End(new, x) = End(sz, x)
        /\ Tiles(new)
    <2> HIDE DEF sz
    <2>1. PICK s : s = sz
      OBVIOUS
    <2>2. PICK c \in DOMAIN s : c = b
      BY <1>2, <2>1
    <2>3. Tiles(s) /\ s[c] - n - 2 >= 1
      BY <1>1, <1>3, <2>1, <2>2
    <2>4. LET r == c + 2 + n
              f == Split(s, c, n, r, s[c] - n - 2)
          IN  /\ r \in Nat /\ r \notin DOMAIN s /\ r > c /\ r # c
              /\ DOMAIN f = DOMAIN s \cup {r}
              /\ f[c] = n /\ f[r] = s[c] - n - 2
              /\ End(f, c) = r /\ End(f, r) = End(s, c)
              /\ \A x \in DOMAIN s : x # c => f[x] = s[x] /\ End(f, x) = End(s, x)
              /\ Tiles(f)
      BY <2>3, SplitTiles
    <2> QED BY <2>1, <2>2, <2>4
  <1>5. k.size = new /\ k.magic = mg /\ k.list = l
    OBVIOUS
  <1> HIDE DEF l, sz, rest, new
  <1>6. /\ mg \in [DOMAIN new -> Mark] /\ mg[rest] = "HEAP"
        /\ \A x \in DOMAIN sz : mg[x] = h.magic[x]
    BY <1>1, <1>2, <1>4 DEF Split, Mark
  <1> HIDE DEF mg
  <1>7. Sound(new, mg, l)
    <2>1. \A x : x \in Range(l) <=> x \in DOMAIN new /\ mg[x] = "FREE"
      BY <1>1, <1>4, <1>6
    <2> QED BY <1>1, <1>4, <1>6, <2>1 DEF Sound
  <1>8. Coalesced(new, l)
    <2> SUFFICES ASSUME NEW x \in Range(l), NEW y \in Range(l) PROVE End(new, x) # y
      BY DEF Coalesced
    <2>1. x \in DOMAIN sz /\ x # b
      BY <1>1, <1>2
    <2> QED BY <1>1, <1>4, <2>1 DEF Coalesced
  <1>9. InUse(k) = InUse(h) \cup {rest}
    <2>1. InUse(k) = {x \in DOMAIN new : mg[x] = "HEAP"}
      BY <1>5 DEF InUse
    <2> QED BY <1>2, <1>4, <1>6, <2>1
  <1>10. rest \notin InUse(h)
    BY <1>2, <1>4
  <1> QED BY <1>4, <1>5, <1>7, <1>8, <1>9, <1>10 DEF Settled, rest

-----------------------------------------------------------------------------
(* The inductive invariant and the theorems.                               *)

\* Between two operations the heap is sound and coalesced, and the pointers
\* the kernel holds are those of the 16-aligned blocks in use.
HeapInv ==
    /\ Settled(Now)
    /\ held = {b + 2 : b \in {x \in InUse(Now) : x % 2 = 0}}

\* A pointer held leads to a block in use.
LEMMA HeldFacts ==
    ASSUME HeapInv, NEW p \in held
    PROVE  p \in Nat /\ p % 2 = 0 /\ p - 2 \in InUse(Now) /\ p - 2 \in Nat /\ (p - 2) % 2 = 0 /\ p < HEAP
  <1>1. PICK b \in InUse(Now) : p = b + 2 /\ b % 2 = 0
    BY DEF HeapInv
  <1>2. b \in DOMAIN size /\ Tiles(size)
    BY DEF InUse, Now, HeapInv, Settled, Sound
  <1>3. b \in Nat /\ End(size, b) > b + 2 /\ End(size, b) <= HEAP /\ HEAP \in Nat /\ End(size, b) \in Nat
    BY <1>2, TileFacts
  <1>4. p \in Nat /\ p - 2 = b /\ p % 2 = 0 /\ p < HEAP
    BY <1>1, <1>3
  <1> QED BY <1>1, <1>3, <1>4

\* The pointers held follow the blocks in use.
Held(h, hd) == hd = {b + 2 : b \in {x \in InUse(h) : x % 2 = 0}}

\* A step that leaves a settled heap, with the pointers that belong to it,
\* keeps the invariant.
LEMMA Kept ==
    ASSUME NEW h, Becomes(h), Settled(h), Held(h, held')
    PROVE  HeapInv'
  <1>1. size' = h.size /\ magic' = h.magic /\ free_list' = h.list
    BY DEF Becomes
  <1>2. Now' = [size |-> size', magic |-> magic', list |-> free_list']
    BY DEF Now
  <1>3. Now'.size = h.size /\ Now'.magic = h.magic /\ Now'.list = h.list
    BY <1>1, <1>2
  <1>4. Settled(Now)'
    BY <1>1 DEF Settled, Now
  <1>5. InUse(Now)' = InUse(h)
    BY <1>1 DEF InUse, Now
  <1> QED BY <1>4, <1>5 DEF HeapInv, Held

\* The heap that memory_init lays out is one free block.
LEMMA InitHeap == HeapInit => HeapInv
  <1> SUFFICES ASSUME HeapInit PROVE HeapInv
    OBVIOUS
  <1>1. HEAP \in Nat /\ HEAP >= 5
    BY HeapAssumption DEF HDR, MIN_BLOCK
  <1>2. /\ DOMAIN size = {0} /\ size[0] = HEAP - 2 /\ DOMAIN magic = {0} /\ magic[0] = "FREE"
        /\ free_list = <<0>> /\ held = {} /\ End(size, 0) = HEAP
        /\ size \in [{0} -> 1..HEAP] /\ magic \in [{0} -> Mark]
    BY <1>1 DEF HeapInit, End, HDR, Mark
  <1>3. Tiles(size)
    BY <1>1, <1>2 DEF Tiles
  <1>4. free_list \in Seq(Nat) /\ Len(free_list) = 1 /\ Range(free_list) = {0}
    BY <1>2 DEF Range
  <1>5. Sorted(free_list)
    BY <1>4 DEF Sorted
  <1>6. Sound(size, magic, free_list)
    BY <1>2, <1>3, <1>4, <1>5 DEF Sound
  <1>7. Coalesced(size, free_list)
    BY <1>1, <1>2, <1>4 DEF Coalesced
  <1>8. Now.size = size /\ Now.magic = magic /\ Now.list = free_list
    BY DEF Now
  <1>9. InUse(Now) = {}
    BY <1>2, <1>8 DEF InUse
  <1> QED BY <1>2, <1>6, <1>7, <1>8, <1>9 DEF HeapInv, Settled

\* A request of n units takes a block, which was not in use.
LEMMA TakenBlock ==
    ASSUME HeapInv, NEW n \in 1..MaxRequest, Fits(Now, Align16(n)) # {}, NEW i, i = Pick(Now, Align16(n))
    PROVE  LET T == Take(Now, i, Align16(n))
               b == free_list[i]
           IN  /\ Settled(T) /\ InUse(T) = InUse(Now) \cup {b}
               /\ b \notin InUse(Now) /\ b \in Nat /\ b % 2 = 0
  <1> DEFINE a == Align16(n)
  <1>1. n \in Nat /\ n >= 1
    BY HeapAssumption
  <1>2. a \in Nat /\ a >= 1 /\ a % 2 = 0
    <2>1. CASE n % 2 = 0
      BY <1>1, <2>1 DEF Align16
    <2>2. CASE n % 2 = 1
      BY <1>1, <2>2 DEF Align16
    <2> QED BY <1>1, <2>1, <2>2
  <1> HIDE DEF a
  <1>3. Settled(Now) /\ Sound(Now.size, Now.magic, Now.list) /\ Now.list = free_list
    BY DEF HeapInv, Settled, Now
  <1>4. i \in Fits(Now, a)
    BY <1>2, <1>3, PickLemma DEF a
  <1>5. i \in 1..Len(Now.list) /\ Now.size[Now.list[i]] >= a
    BY <1>4 DEF Fits
  <1>6. Settled(Take(Now, i, a)) /\ InUse(Take(Now, i, a)) = InUse(Now) \cup {Now.list[i]}
    BY <1>2, <1>3, <1>5, TakeLemma
  <1>7. Now.list[i] \in Nat /\ Now.list[i] % 2 = 0 /\ Now.magic[Now.list[i]] = "FREE"
    BY <1>3, <1>5, ListFacts
  <1>8. Now.list[i] \notin InUse(Now)
    BY <1>7 DEF InUse
  <1> QED BY <1>3, <1>6, <1>7, <1>8 DEF a

\* Every operation of the heap keeps the invariant.
LEMMA HeapStep ==
    ASSUME HeapInv, [HeapNext]_HeapVars
    PROVE  HeapInv'
  <1>0. Settled(Now) /\ Sound(Now.size, Now.magic, Now.list) /\ Held(Now, held)
    BY DEF HeapInv, Settled, Held
  <1>1. ASSUME NEW n \in 1..MaxRequest, Malloc(n) PROVE HeapInv'
    <2>1. PICK i : i = Pick(Now, Align16(n))
      OBVIOUS
    <2> DEFINE T == Take(Now, i, Align16(n))
               b == free_list[i]
    <2>2. Fits(Now, Align16(n)) # {} /\ Becomes(T) /\ held' = held \cup {b + 2}
      BY <1>1, <2>1 DEF Malloc, HDR
    <2>3. /\ Settled(T) /\ InUse(T) = InUse(Now) \cup {b}
          /\ b \notin InUse(Now) /\ b \in Nat /\ b % 2 = 0
      BY <2>1, <2>2, TakenBlock
    <2> HIDE DEF T, b
    <2>4. Held(T, held')
      BY <1>0, <2>2, <2>3 DEF Held
    <2> QED BY <2>2, <2>3, <2>4, Kept
  <1>2. ASSUME NEW p \in held, KernelFree(p) PROVE HeapInv'
    <2> DEFINE T == FreePtr(Now, p)
    <2>1. p \in Nat /\ p % 2 = 0 /\ p - 2 \in InUse(Now) /\ p - 2 \in Nat /\ (p - 2) % 2 = 0
      BY HeldFacts
    <2>2. Settled(T) /\ InUse(T) = InUse(Now) \ {p - 2}
      BY <1>0, <2>1, FreeLemma
    <2>3. Becomes(T) /\ held' = held \ {p}
      BY <1>2 DEF KernelFree
    <2> HIDE DEF T
    <2>4. \A x \in InUse(Now) : x \in Nat
      <3>1. \A x \in InUse(Now) : x \in DOMAIN Now.size
        BY DEF InUse
      <3> QED BY <1>0, <3>1, TileFacts DEF Sound
    <2>5. Held(T, held')
      BY <1>0, <2>1, <2>2, <2>3, <2>4 DEF Held
    <2> QED BY <2>2, <2>3, <2>5, Kept
  <1>3. ASSUME NEW p \in held, NEW n \in 1..MaxRequest, ReallocShrink(p, n) PROVE HeapInv'
    <2> DEFINE b == p - 2
               k == [size  |-> Split(Now.size, b, n, b + 2 + n, Now.size[b] - n - 2),
                     magic |-> Split(Now.magic, b, Now.magic[b], b + 2 + n, "HEAP"),
                     list  |-> Now.list]
               rest == b + 2 + n
               T == FreePtr(k, rest + 2)
    <2>1. p \in Nat /\ p % 2 = 0 /\ b \in InUse(Now) /\ b \in Nat /\ b % 2 = 0
      BY HeldFacts
    <2>2. n \in Nat /\ n >= 1
      BY HeapAssumption
    <2>3. p + n = b + 2 + n /\ size[b] - n >= 5 /\ Becomes(T) /\ held' = held
      <3>1. p + n = b + 2 + n
        BY <2>1, <2>2
      <3>2. size[b] - n >= 5 /\ held' = held
        BY <1>3 DEF ReallocShrink, HDR, MIN_BLOCK
      <3>3. Becomes(FreePtr([size  |-> Split(size, b, n, p + n, size[b] - n - 2),
                            magic |-> Split(magic, b, magic[b], p + n, "HEAP"),
                            list  |-> free_list], p + n + 2))
        BY <1>3 DEF ReallocShrink, HDR
      <3> QED BY <3>1, <3>2, <3>3 DEF Now
    <2>4. Now.size[b] - n >= 5
      BY <2>3 DEF Now
    <2> HIDE DEF b
    <2>5. Settled(k) /\ rest \in Nat /\ rest \notin InUse(Now) /\ InUse(k) = InUse(Now) \cup {rest}
      BY <1>0, <2>1, <2>2, <2>4, CutLemma
    <2> HIDE DEF k, rest
    <2>6. CASE rest % 2 = 0
      <3>1. (rest + 2) % 2 = 0 /\ (rest + 2) - 2 = rest
        BY <2>5, <2>6
      <3>2. (rest + 2) - 2 \in InUse(k) /\ ((rest + 2) - 2) % 2 = 0
        BY <2>5, <2>6, <3>1
      <3>3. PICK q : q = rest + 2
        OBVIOUS
      <3>4. Sound(k.size, k.magic, k.list)
        BY <2>5 DEF Settled
      <3>5. Settled(T) /\ InUse(T) = InUse(k) \ {q - 2}
        BY <3>1, <3>2, <3>3, <3>4, FreeLemma
      <3>6. InUse(T) = InUse(Now)
        BY <2>5, <3>1, <3>3, <3>5
      <3> HIDE DEF T
      <3>7. Held(T, held')
        BY <1>0, <2>3, <3>6 DEF Held
      <3> QED BY <2>3, <3>5, <3>7, Kept
    <2>7. CASE rest % 2 # 0
      <3>1. (rest + 2) % 2 # 0
        BY <2>5, <2>7
      <3>2. T = k
        BY <3>1 DEF FreePtr
      <3>3. Held(k, held')
        BY <1>0, <2>3, <2>5, <2>7 DEF Held
      <3> QED BY <2>3, <2>5, <3>2, <3>3, Kept
    <2> QED BY <2>6, <2>7
  <1>4. ASSUME NEW p \in held, NEW n \in 1..MaxRequest, ReallocGrow(p, n) PROVE HeapInv'
    <2>1. PICK i : i = Pick(Now, Align16(n))
      OBVIOUS
    <2> DEFINE T == Take(Now, i, Align16(n))
               b == free_list[i]
               U == FreePtr(T, p)
    <2>2. Fits(Now, Align16(n)) # {} /\ Becomes(U) /\ held' = (held \ {p}) \cup {b + 2}
      BY <1>4, <2>1 DEF ReallocGrow, HDR
    <2>3. /\ Settled(T) /\ InUse(T) = InUse(Now) \cup {b}
          /\ b \notin InUse(Now) /\ b \in Nat /\ b % 2 = 0
      BY <2>1, <2>2, TakenBlock
    <2>4. p \in Nat /\ p % 2 = 0 /\ p - 2 \in InUse(Now) /\ p - 2 \in Nat /\ (p - 2) % 2 = 0
      BY HeldFacts
    <2> HIDE DEF T, b
    <2>5. Settled(U) /\ InUse(U) = InUse(T) \ {p - 2}
      <3>1. Sound(T.size, T.magic, T.list) /\ p - 2 \in InUse(T)
        BY <2>3, <2>4 DEF Settled
      <3> QED BY <2>4, <3>1, FreeLemma
    <2> HIDE DEF U
    <2>6. \A x \in InUse(Now) : x \in Nat
      <3>1. \A x \in InUse(Now) : x \in DOMAIN Now.size
        BY DEF InUse
      <3> QED BY <1>0, <3>1, TileFacts DEF Sound
    <2>7. Held(U, held')
      <3>1. InUse(U) = (InUse(Now) \ {p - 2}) \cup {b}
        BY <2>3, <2>4, <2>5
      <3> QED BY <1>0, <2>2, <2>3, <2>4, <2>6, <3>1 DEF Held
    <2> QED BY <2>2, <2>5, <2>7, Kept
  <1>5. CASE DefragTask
    <2>1. Settled(Coalesce(Now)) /\ InUse(Coalesce(Now)) = InUse(Now)
      BY <1>0, CoalesceLemma
    <2>2. Becomes(Coalesce(Now)) /\ held' = held
      BY <1>5 DEF DefragTask, Defragment
    <2>3. Held(Coalesce(Now), held')
      BY <1>0, <2>1, <2>2 DEF Held
    <2> QED BY <2>1, <2>2, <2>3, Kept
  <1>6. CASE UNCHANGED HeapVars
    BY <1>6 DEF HeapVars, HeapInv, Now
  <1> QED BY <1>1, <1>2, <1>3, <1>4, <1>5, <1>6 DEF HeapNext

\* The invariant is what the heap is meant to be.
LEMMA HeapImplies == HeapInv => HeapTypeOK /\ HeapSound
  <1> SUFFICES ASSUME HeapInv PROVE HeapTypeOK /\ HeapSound
    OBVIOUS
  <1>1. Sound(size, magic, free_list) /\ Coalesced(size, free_list) /\ InUse(Now) = {b \in DOMAIN size : magic[b] = "HEAP"}
    BY DEF HeapInv, Settled, Now, InUse
  <1>2. /\ Tiles(size) /\ magic \in [DOMAIN size -> Mark]
        /\ free_list \in Seq(Nat) /\ Sorted(free_list)
        /\ \A b : b \in Range(free_list) <=> b \in DOMAIN size /\ magic[b] = "FREE"
    BY <1>1 DEF Sound
  <1>3. HEAP \in Nat
    BY HeapAssumption
  <1>4. HeapTypeOK
    <2>1. free_list \in Seq(DOMAIN size)
      <3>1. Len(free_list) \in Nat /\ DOMAIN free_list = 1..Len(free_list)
        BY <1>2, LenProperties
      <3>2. \A i \in 1..Len(free_list) : free_list[i] \in DOMAIN size
        BY <1>2, <3>1 DEF Range
      <3> QED BY <1>2, <3>1, <3>2
    <2>2. held \subseteq 0..HEAP
      BY <1>3, HeldFacts
    <2> QED BY <1>2, <2>1, <2>2 DEF HeapTypeOK, Blocks, Tiles, Mark
  <1>5. Tiling
    BY <1>2 DEF Tiling, Blocks, Tiles
  <1>6. FreeListExact
    BY <1>2 DEF FreeListExact, Blocks, Sorted
  <1>7. FullyCoalesced
    BY <1>1, <1>2 DEF FullyCoalesced, Blocks, Coalesced
  <1>8. HeldIsValid
    BY <1>1, HeldFacts DEF HeldIsValid, HDR, Blocks
  <1>9. OnlyShrinkLeaks
    <2> SUFFICES ASSUME NEW b \in DOMAIN size, magic[b] = "HEAP", b % 2 # 1 PROVE b + 2 \in held
      BY DEF OnlyShrinkLeaks, Blocks, HDR
    <2>1. b \in Nat
      BY <1>2, TileFacts
    <2>2. b % 2 = 0
      BY <2>1
    <2> QED BY <1>1, <2>2 DEF HeapInv
  <1> QED BY <1>4, <1>5, <1>6, <1>7, <1>8, <1>9 DEF HeapSound

\* kernel_malloc, kernel_free, kernel_realloc and the defragmenter keep the
\* heap sound, for every size of the heap and every limit of first fit.
THEOREM HeapCorrect == HeapSpec => []HeapSound
  <1>1. HeapInv /\ [HeapNext]_HeapVars => HeapInv'
    BY HeapStep
  <1> QED BY <1>1, InitHeap, HeapImplies, PTL DEF HeapSpec

\* Every header and every pointer has its type.
THEOREM HeapTypeCorrect == HeapSpec => []HeapTypeOK
  <1>1. HeapInv /\ [HeapNext]_HeapVars => HeapInv'
    BY HeapStep
  <1> QED BY <1>1, InitHeap, HeapImplies, PTL DEF HeapSpec

-----------------------------------------------------------------------------
(* The program loader.                                                     *)


LoadType ==
    /\ load \in [pc : {"idle", "read", "place", "create"}, prog : Programs, id : Nat,
                 read : Nat, alloc : Nat]
    /\ load.id <= MaxLoads
    /\ next_auto_base \in Nat /\ FirstBase <= next_auto_base
    /\ user_page \subseteq 0 .. LastPage
    /\ \A t \in programs : t.prog \in Programs /\ t.base \in Nat /\ t.id \in 1 .. load.id

LoadInv ==
    /\ load.pc = "read" => load.read + CHUNK <= load.alloc
    /\ load.pc # "idle" => load.id \in 1 .. MaxLoads
    /\ owned = [fd |-> IF load.pc = "read" THEN 1 ELSE 0,
                buf |-> IF load.pc \in {"read", "place"} THEN 1 ELSE 0]

(* A load or program p at base b that belongs to the load id. *)
Keeps(p, b, id) ==
    p.kind = "dyn" =>
        /\ FirstBase <= b /\ b + SLOT <= next_auto_base
        /\ \A v \in OwnPages(p, b) \ stray : image[v] = id

ImageInv ==
    /\ \A t \in programs : Keeps(t.prog, t.base, t.id)
    /\ load.pc = "create" => Keeps(load.prog, load.alloc, load.id)
    /\ \A v \in Reserved \ stray : image[v] = Kernel /\ (v \in user_page => v \in lent)

(* Loading and Idle as records. *)
LEMMA LoadFields ==
    \A pc, r, a, i :
        /\ Loading(pc, r, a).pc = pc /\ Loading(pc, r, a).prog = load.prog /\ Loading(pc, r, a).id = load.id
        /\ Loading(pc, r, a).read = r /\ Loading(pc, r, a).alloc = a
        /\ Idle(i).pc = "idle" /\ Idle(i).id = i /\ Idle(i).read = 0 /\ Idle(i).alloc = 0
        /\ Idle(i).prog \in Programs
BY ExecAssumption DEF Loading, Idle

(* The pages of a program are pages. *)
LEMMA PagesLemma ==
    ASSUME NEW p \in Programs, NEW b \in Nat
    PROVE  PagesOf(p, b) \subseteq 0 .. LastPage
<1>1. SUFFICES ASSUME NEW v \in p.pages PROVE (b + v) % (LastPage + 1) \in 0 .. LastPage
  BY DEF PagesOf
<1>2. b + v \in Nat /\ LastPage + 1 \in Nat \ {0}
  BY ExecAssumption
<1> QED BY <1>2, ExecAssumption

(* The pages in a slot lie in it, below the upper kernel. *)
LEMMA SlotPages ==
    ASSUME NEW p \in Programs, NEW b \in Nat, NEW v \in OwnPages(p, b)
    PROVE  /\ p.kind = "dyn" /\ v \in PagesOf(p, b) /\ v \in 0 .. LastPage
           /\ b <= v /\ v < b + SLOT /\ v < KernelBase
<1>1. p.kind = "dyn" /\ b + SLOT <= KernelBase /\ v \in PagesOf(p, b) /\ v \in b .. b + SLOT - 1
  BY DEF OwnPages
<1>2. v \in 0 .. LastPage
  BY <1>1, PagesLemma
<1> QED BY <1>1, <1>2, ExecAssumption

(* The kernel's pages lie below the first base or above the last. *)
LEMMA ReservedPages ==
    ASSUME NEW v \in Reserved
    PROVE  v \in 0 .. LastPage /\ (v < FirstBase \/ v >= KernelBase)
<1>1. CASE v \in KernelImage
  BY <1>1, ExecAssumption
<1>2. CASE v \in KernelBase .. LastPage
  BY <1>2, ExecAssumption
<1> QED BY <1>1, <1>2 DEF Reserved

(* Boot. *)
LEMMA InitExec == ExecInit => LoadType /\ LoadInv /\ ImageInv
<1> SUFFICES ASSUME ExecInit PROVE LoadType /\ LoadInv /\ ImageInv
  OBVIOUS
<1>1. load.pc = "idle" /\ load.id = 0
  BY LoadFields DEF ExecInit
<1>2. load \in [pc : {"idle", "read", "place", "create"}, prog : Programs, id : Nat,
                 read : Nat, alloc : Nat]
  BY ExecAssumption DEF ExecInit, Idle
<1>3. LoadType
  BY <1>1, <1>2, ExecAssumption DEF ExecInit, LoadType
<1>4. LoadInv
  BY <1>1 DEF ExecInit, LoadInv
<1>5. ImageInv
  <2>1. \A v \in Reserved : image[v] = Kernel
    BY ReservedPages DEF ExecInit
  <2> QED BY <1>1, <2>1 DEF ExecInit, ImageInv
<1> QED BY <1>3, <1>4, <1>5

(* The record of a load stays one. *)
LEMMA LoadTyped ==
    ASSUME LoadType, NEW pc \in {"idle", "read", "place", "create"}, NEW r \in Nat, NEW a \in Nat
    PROVE  Loading(pc, r, a) \in [pc : {"idle", "read", "place", "create"}, prog : Programs, id : Nat,
                                  read : Nat, alloc : Nat]
BY DEF LoadType, Loading

(* And so does that of no load. *)
LEMMA IdleTyped ==
    ASSUME NEW i \in Nat
    PROVE  Idle(i) \in [pc : {"idle", "read", "place", "create"}, prog : Programs, id : Nat,
                        read : Nat, alloc : Nat]
BY ExecAssumption DEF Idle

(* The task that task_create_user makes runs the load. *)
LEMMA CreatedTask ==
    ASSUME CreateTask, NEW t \in programs'
    PROVE  t \in programs \/ (t.id = load.id /\ t.base = load.alloc /\ t.prog = load.prog)
<1>1. CASE programs' = programs
  BY <1>1
<1>2. CASE \E s \in StackBlocks :
             programs' = programs \cup {[id |-> load.id, base |-> load.alloc, prog |-> load.prog, stack |-> s]}
  <2>1. PICK s \in StackBlocks :
             programs' = programs \cup {[id |-> load.id, base |-> load.alloc, prog |-> load.prog, stack |-> s]}
    BY <1>2
  <2>2. t \in programs \/ t = [id |-> load.id, base |-> load.alloc, prog |-> load.prog, stack |-> s]
    BY <2>1
  <2> QED BY <2>2
<1> QED BY <1>1, <1>2 DEF CreateTask

(* And the pages it opens to the program are recorded as lent. *)
LEMMA CreatedPages ==
    ASSUME CreateTask, LoadType
    PROVE  \E pages \in SUBSET (0 .. LastPage) : user_page' = user_page \cup pages /\ lent' = lent \cup pages
<1>1. CASE UNCHANGED <<user_page, lent>>
  <2>1. {} \in SUBSET (0 .. LastPage) /\ user_page' = user_page \cup {} /\ lent' = lent \cup {}
    BY <1>1
  <2> QED BY <2>1
<1>2. ASSUME EntryTaken PROVE EntryPage \in 0 .. LastPage
  <2>1. EntryPage \in Reserved \/ EntryPage \in user_page
    BY <1>2 DEF EntryTaken
  <2> QED BY <2>1, ReservedPages DEF LoadType
<1>3. CASE EntryTaken /\ OpenToUser({EntryPage})
  BY <1>2, <1>3 DEF OpenToUser
<1>4. CASE EntryTaken /\ \E s \in StackBlocks : OpenToUser({EntryPage} \cup (s.first + 1 .. s.last))
  <2>1. PICK s \in StackBlocks : OpenToUser({EntryPage} \cup (s.first + 1 .. s.last))
    BY <1>4
  <2>2. s.first \in KernelHeapPages /\ s.last \in KernelHeapPages
    BY DEF StackBlocks
  <2>3. s.first \in Nat /\ s.last \in Nat /\ s.last <= LastPage
    <3>1. s.first \in 0 .. LastPage /\ s.last \in 0 .. LastPage /\ LastPage \in Nat
      BY <2>2, ExecAssumption
    <3> QED BY <3>1
  <2>4. s.first + 1 .. s.last \subseteq 0 .. LastPage
    BY <2>3, ExecAssumption
  <2> QED BY <1>2, <1>4, <2>1, <2>4 DEF OpenToUser
<1> QED BY <1>1, <1>3, <1>4 DEF CreateTask

(* The buffer and the file descriptor, action by action. *)
LEMMA LoadStep == LoadType /\ LoadInv /\ [ExecNext]_ExecVars => LoadType' /\ LoadInv'
<1> SUFFICES ASSUME LoadType, LoadInv, [ExecNext]_ExecVars PROVE LoadType' /\ LoadInv'
  OBVIOUS
<1> DEFINE T == [pc : {"idle", "read", "place", "create"}, prog : Programs, id : Nat,
                 read : Nat, alloc : Nat]
<1>t. /\ load \in T /\ load.pc \in {"idle", "read", "place", "create"} /\ load.prog \in Programs
      /\ load.id \in Nat /\ load.read \in Nat /\ load.alloc \in Nat
      /\ CHUNK \in Nat /\ SLOT \in Nat /\ next_auto_base \in Nat /\ MaxLoads \in Nat
  BY ExecAssumption DEF LoadType
<1>1. ASSUME NEW p \in Programs, OpenFile(p) PROVE LoadType' /\ LoadInv'
  <2>1. load' = [pc |-> "read", prog |-> p, id |-> load.id + 1, read |-> 0, alloc |-> CHUNK]
    BY <1>1 DEF OpenFile
  <2>2. load' \in T
    BY <2>1, <1>t
  <2>3. load'.pc = "read" /\ load'.id = load.id + 1 /\ load'.read = 0 /\ load'.alloc = CHUNK
    BY <2>1
  <2>4. load'.id \in 1 .. MaxLoads
    BY <2>3, <1>1, <1>t DEF OpenFile
  <2>5. owned = [fd |-> 0, buf |-> 0]
    BY <1>1 DEF OpenFile, LoadInv
  <2>6. owned' = [fd |-> 1, buf |-> 1]
    <3>1. owned.fd = 0 /\ owned.buf = 0
      BY <2>5
    <3>2. owned' = [owned EXCEPT !.fd = owned.fd + 1, !.buf = owned.buf + 1]
      BY <1>1 DEF OpenFile
    <3>3. owned' = [owned EXCEPT !.fd = 1, !.buf = 1]
      BY <3>1, <3>2
    <3> QED BY <2>5, <3>3
  <2>7. LoadType'
    BY <2>2, <2>3, <2>4, <1>1, <1>t DEF LoadType, OpenFile
  <2>8. LoadInv'
    BY <2>3, <2>4, <2>6, <1>t DEF LoadInv
  <2> QED BY <2>7, <2>8
<1>2. ASSUME NEW h, Fail(h), h = [fd |-> 0, buf |-> 0],
             UNCHANGED <<user_page, next_auto_base, programs>>
      PROVE  LoadType' /\ LoadInv'
  <2>1. load' = Idle(load.id)
    BY <1>2 DEF Fail
  <2>2. load' \in T
    BY <2>1, <1>t, IdleTyped
  <2>3. load'.pc = "idle" /\ load'.id = load.id
    BY <2>1, LoadFields
  <2>4. LoadType'
    BY <2>2, <2>3, <1>2 DEF LoadType
  <2>5. LoadInv'
    BY <2>3, <1>2 DEF LoadInv, Fail
  <2> QED BY <2>4, <2>5
<1>3. ASSUME NEW n \in 1 .. CHUNK, ReadChunk(n) PROVE LoadType' /\ LoadInv'
  <2> DEFINE total == load.read + n
             double == 2 * load.alloc
  <2>0. load.pc = "read" /\ UNCHANGED <<image, user_page, next_auto_base, programs>>
    BY <1>3 DEF ReadChunk
  <2>1. n \in Nat /\ total \in Nat /\ double \in Nat
    BY <1>t, <1>3
  <2>2. load.read + CHUNK <= load.alloc /\ owned = [fd |-> 1, buf |-> 1] /\ load.id \in 1 .. MaxLoads
    BY <2>0 DEF LoadInv
  <2>3. total <= load.alloc /\ total + CHUNK <= double
    BY <2>2, <1>t, <1>3
  <2> HIDE DEF total, double
  <2>4. ASSUME NEW a \in Nat, load' = Loading("read", total, a), total + CHUNK <= a, owned' = owned
        PROVE  LoadType' /\ LoadInv'
    <3>1. load' \in T
      BY <2>4, <2>1, LoadTyped
    <3>2. load'.pc = "read" /\ load'.id = load.id /\ load'.read = total /\ load'.alloc = a
      BY <2>4, LoadFields
    <3>3. LoadType'
      BY <3>1, <3>2, <2>0 DEF LoadType
    <3>4. LoadInv'
      BY <3>2, <2>4, <2>2 DEF LoadInv
    <3> QED BY <3>3, <3>4
  <2>5. \/ ~NeedsRoom(total, load.alloc) /\ load' = Loading("read", total, load.alloc) /\ owned' = owned
        \/ load' = Loading("read", total, double) /\ owned' = owned
        \/ Fail([fd |-> owned.fd - 1, buf |-> owned.buf - 1])
    BY <1>3 DEF ReadChunk, total, double
  <2>6. CASE ~NeedsRoom(total, load.alloc) /\ load' = Loading("read", total, load.alloc) /\ owned' = owned
    BY <2>6, <2>4, <2>1, <1>t DEF NeedsRoom
  <2>7. CASE load' = Loading("read", total, double) /\ owned' = owned
    BY <2>7, <2>4, <2>1, <2>3
  <2>8. CASE Fail([fd |-> owned.fd - 1, buf |-> owned.buf - 1])
    <3>1. [fd |-> owned.fd - 1, buf |-> owned.buf - 1] = [fd |-> 0, buf |-> 0]
      BY <2>2
    <3> QED BY <3>1, <2>8, <1>2, <2>0
  <2> QED BY <2>5, <2>6, <2>7, <2>8
<1>4. CASE EndOfFile
  <2>0. load.pc = "read" /\ UNCHANGED <<image, user_page, next_auto_base, programs>>
    BY <1>4 DEF EndOfFile
  <2>2. owned = [fd |-> 1, buf |-> 1] /\ load.id \in 1 .. MaxLoads
    BY <2>0 DEF LoadInv
  <2>3. CASE load.read = 0
    <3>1. [fd |-> owned.fd - 1, buf |-> owned.buf - 1] = [fd |-> 0, buf |-> 0]
      BY <2>2
    <3> QED BY <3>1, <2>3, <1>2, <1>4, <2>0 DEF EndOfFile
  <2>4. CASE load.read # 0
    <3>1. load' = Loading("place", load.read, load.read) /\ owned' = [owned EXCEPT !.fd = @ - 1]
      BY <2>4, <1>4 DEF EndOfFile
    <3>2. load' \in T
      BY <3>1, <1>t, LoadTyped
    <3>3. load'.pc = "place" /\ load'.id = load.id
      BY <3>1, LoadFields
    <3>4. owned' = [fd |-> 0, buf |-> 1]
      BY <3>1, <2>2
    <3>5. LoadType'
      BY <3>2, <3>3, <2>0 DEF LoadType
    <3>6. LoadInv'
      BY <3>3, <3>4, <2>2 DEF LoadInv
    <3> QED BY <3>5, <3>6
  <2> QED BY <2>3, <2>4
<1>5. CASE PlaceProgram
  <2> DEFINE p == load.prog
             pages == PagesOf(p, Base(p))
  <2>0. load.pc = "place" /\ programs' = programs
    BY <1>5 DEF PlaceProgram
  <2>1. owned = [fd |-> 0, buf |-> 1] /\ load.id \in 1 .. MaxLoads
    BY <2>0 DEF LoadInv
  <2>2. Base(p) \in Nat
    BY <1>t, ExecAssumption DEF Base
  <2>3. pages \subseteq 0 .. LastPage
    BY <2>2, <1>t, PagesLemma
  <2>4. user_page' \subseteq 0 .. LastPage
    BY <2>3, <1>5 DEF PlaceProgram, MapUserPages, LoadType
  <2>5. next_auto_base' \in Nat /\ FirstBase <= next_auto_base'
    BY <1>5, <1>t, ExecAssumption DEF PlaceProgram, Advance, LoadType
  <2>6. [owned EXCEPT !.buf = @ - 1] = [fd |-> 0, buf |-> 0]
    BY <2>1
  <2>7. load' \in T /\ load'.pc \in {"idle", "create"} /\ load'.id = load.id
    <3>1. load' = Idle(load.id) \/ load' = Loading("create", load.read, Base(p))
      BY <1>5 DEF PlaceProgram, Refused, Fail
    <3>2. CASE load' = Idle(load.id)
      BY <3>2, <1>t, IdleTyped, LoadFields
    <3>3. CASE load' = Loading("create", load.read, Base(p))
      BY <3>3, <1>t, <2>2, LoadTyped, LoadFields
    <3> QED BY <3>1, <3>2, <3>3
  <2>8. owned' = [fd |-> 0, buf |-> 0]
    BY <2>6, <1>5 DEF PlaceProgram, Refused, Fail
  <2>9. LoadType'
    BY <2>0, <2>4, <2>5, <2>7 DEF LoadType
  <2>10. LoadInv'
    BY <2>1, <2>7, <2>8 DEF LoadInv
  <2> QED BY <2>9, <2>10
<1>6. CASE CreateTask
  <2>1. load.pc = "create" /\ owned' = owned /\ load' = Idle(load.id)
    BY <1>6 DEF CreateTask, Fail
  <2>2. owned = [fd |-> 0, buf |-> 0] /\ load.id \in 1 .. MaxLoads
    BY <2>1 DEF LoadInv
  <2>3. load' \in T /\ load'.pc = "idle" /\ load'.id = load.id
    BY <2>1, <1>t, IdleTyped, LoadFields
  <2>4. ASSUME NEW t \in programs' PROVE t.prog \in Programs /\ t.base \in Nat /\ t.id \in 1 .. load.id
    <3>1. t \in programs \/ (t.id = load.id /\ t.base = load.alloc /\ t.prog = load.prog)
      BY <1>6, CreatedTask
    <3> QED BY <3>1, <1>t, <2>2 DEF LoadType
  <2>7. user_page' \subseteq 0 .. LastPage
    BY <1>6, CreatedPages DEF LoadType
  <2>5. LoadType'
    BY <2>3, <2>4, <2>7, <1>6 DEF LoadType, CreateTask
  <2>6. LoadInv'
    BY <2>1, <2>2, <2>3 DEF LoadInv
  <2> QED BY <2>5, <2>6
<1>7. ASSUME NEW t \in programs, ProgramExits(t) PROVE LoadType' /\ LoadInv'
  BY <1>7 DEF ProgramExits, LoadType, LoadInv
<1>8. CASE UNCHANGED ExecVars
  BY <1>8 DEF ExecVars, LoadType, LoadInv
<1> QED BY <1>1, <1>3, <1>4, <1>5, <1>6, <1>7, <1>8 DEF ExecNext

(* A step that moves neither the base nor an image keeps every program. *)
LEMMA SameImages ==
    ASSUME ImageInv, UNCHANGED <<image, next_auto_base, stray>>, load'.pc # "create",
           \A v \in user_page' : v \in user_page \/ v \in lent', lent \subseteq lent',
           \A t \in programs' :
               \/ t \in programs
               \/ (load.pc = "create" /\ t.prog = load.prog /\ t.base = load.alloc /\ t.id = load.id)
    PROVE  ImageInv'
<1>1. \A p, b, i : Keeps(p, b, i) <=> Keeps(p, b, i)'
  BY DEF Keeps, PagesOf, OwnPages
<1>2. ASSUME NEW t \in programs' PROVE Keeps(t.prog, t.base, t.id)'
  <2>1. Keeps(t.prog, t.base, t.id)
    BY DEF ImageInv
  <2> QED BY <1>1, <2>1
<1>3. ASSUME NEW v \in Reserved \ stray PROVE image'[v] = Kernel /\ (v \in user_page' => v \in lent')
  BY DEF ImageInv
<1> QED BY <1>2, <1>3 DEF ImageInv, Reserved, Kernel

(* The images, action by action: a load writes in a slot above every base   *)
(* handed out so far, or is recorded as a stray.                            *)
LEMMA ImageStep ==
    LoadType /\ LoadInv /\ ImageInv /\ [ExecNext]_ExecVars => ImageInv'
<1> SUFFICES ASSUME LoadType, LoadInv, ImageInv, [ExecNext]_ExecVars PROVE ImageInv'
  OBVIOUS
<1>t. /\ load.prog \in Programs /\ load.id \in Nat /\ load.alloc \in Nat
      /\ SLOT \in Nat /\ next_auto_base \in Nat /\ FirstBase <= next_auto_base
      /\ FirstBase \in Nat /\ KernelBase \in Nat /\ LastPage \in Nat
  BY ExecAssumption DEF LoadType
<1>1. ASSUME NEW p \in Programs, OpenFile(p) PROVE ImageInv'
  <2>1. load'.pc = "read"
    BY <1>1 DEF OpenFile
  <2> QED BY <1>1, <2>1, SameImages DEF OpenFile
<1>2. ASSUME NEW n \in 1 .. CHUNK, ReadChunk(n) PROVE ImageInv'
  <2>1. load'.pc # "create"
    BY <1>2, LoadFields DEF ReadChunk, Fail
  <2> QED BY <1>2, <2>1, SameImages DEF ReadChunk
<1>3. CASE EndOfFile
  <2>1. load'.pc # "create"
    BY <1>3, LoadFields DEF EndOfFile, Fail
  <2> QED BY <1>3, <2>1, SameImages DEF EndOfFile
<1>4. CASE PlaceProgram
  <2> DEFINE p == load.prog
             base == Base(p)
             pages == PagesOf(p, base)
             own == OwnPages(p, base)
             N == next_auto_base'
  <2>0. /\ load.pc = "place" /\ UNCHANGED <<programs, lent>> /\ user_page' = user_page \cup pages
        /\ stray' = stray \cup (pages \ own)
    BY <1>4 DEF PlaceProgram, MapUserPages, Strays
  <2>1. N \in Nat /\ next_auto_base <= N /\ (p.kind = "dyn" => N = next_auto_base + SLOT)
    BY <1>4, <1>t DEF PlaceProgram, Advance
  <2>2. image' = image \/ image' = Written(pages)
    BY <1>4 DEF PlaceProgram
  <2>3. base \in Nat /\ (p.kind = "dyn" => base = next_auto_base)
    BY <1>t, ExecAssumption DEF Base
  <2>4. \/ load' = Idle(load.id)
        \/ (image' = Written(pages) /\ load' = Loading("create", load.read, base))
    BY <1>4 DEF PlaceProgram, Refused, Fail
  <2>5. ASSUME NEW v \in own PROVE next_auto_base <= v /\ v < KernelBase /\ v \in Nat
    <3>1. p.kind = "dyn" /\ base <= v /\ v < KernelBase /\ v \in 0 .. LastPage
      BY <1>t, <2>3, SlotPages
    <3> QED BY <3>1, <2>3, <1>t
  <2>6. \A v \in 0 .. LastPage : v \notin pages => image'[v] = image[v]
    BY <2>2 DEF Written
  <2>7. ASSUME NEW t \in programs' PROVE Keeps(t.prog, t.base, t.id)'
    <3>1. t \in programs /\ Keeps(t.prog, t.base, t.id) /\ t.prog \in Programs /\ t.base \in Nat
      BY <2>0 DEF ImageInv, LoadType
    <3>2. SUFFICES ASSUME t.prog.kind = "dyn"
                   PROVE  /\ FirstBase <= t.base /\ t.base + SLOT <= N
                          /\ \A v \in OwnPages(t.prog, t.base) \ stray' : image'[v] = t.id
      BY DEF Keeps, PagesOf, OwnPages
    <3>3. FirstBase <= t.base /\ t.base + SLOT <= next_auto_base
      BY <3>1, <3>2 DEF Keeps
    <3>4. ASSUME NEW v \in OwnPages(t.prog, t.base) \ stray' PROVE image'[v] = t.id
      <4>1. v \in 0 .. LastPage /\ v < t.base + SLOT
        BY <3>1, SlotPages
      <4>2. v \notin own
        BY <4>1, <3>1, <3>3, <2>5, <1>t
      <4>3. v \notin pages /\ v \notin stray
        BY <4>2, <2>0
      <4>4. image[v] = t.id
        BY <4>3, <3>1, <3>2 DEF Keeps
      <4> QED BY <4>1, <4>3, <4>4, <2>6
    <3> QED BY <3>1, <3>3, <3>4, <2>1, <1>t
  <2>8. ASSUME load'.pc = "create" PROVE Keeps(load.prog, load.alloc, load.id)'
    <3>1. /\ image' = Written(pages)
          /\ load'.prog = p /\ load'.alloc = base /\ load'.id = load.id
      BY <2>4, <2>8, LoadFields
    <3>2. SUFFICES ASSUME p.kind = "dyn"
                   PROVE  /\ FirstBase <= base /\ base + SLOT <= N
                          /\ \A v \in own \ stray' : image'[v] = load.id
      BY <3>1 DEF Keeps, PagesOf, OwnPages
    <3>3. \A v \in own : image'[v] = load.id
      <4>1. \A v \in own : v \in pages /\ v \in 0 .. LastPage
        BY <2>3, <1>t, SlotPages
      <4> QED BY <4>1, <3>1 DEF Written
    <3> QED BY <3>2, <3>3, <2>1, <2>3, <1>t
  <2>9. ASSUME NEW v \in Reserved \ stray'
        PROVE  image'[v] = Kernel /\ (v \in user_page' => v \in lent')
    <3>1. v \in 0 .. LastPage /\ (v < FirstBase \/ v >= KernelBase)
      BY ReservedPages
    <3>2. v \notin own
      BY <3>1, <2>5, <1>t
    <3>3. v \notin pages /\ v \notin stray
      BY <3>2, <2>0
    <3>4. image[v] = Kernel /\ (v \in user_page => v \in lent)
      BY <3>3 DEF ImageInv
    <3> QED BY <3>1, <3>3, <3>4, <2>0, <2>6
  <2> QED BY <2>7, <2>8, <2>9 DEF ImageInv, Kernel, Reserved
<1>5. CASE CreateTask
  <2>1. load'.pc = "idle"
    BY <1>5, LoadFields DEF CreateTask, Fail
  <2>2. ASSUME NEW t \in programs', t \notin programs
        PROVE  load.pc = "create" /\ t.prog = load.prog /\ t.base = load.alloc /\ t.id = load.id
    BY <1>5, <2>2, CreatedTask DEF CreateTask
  <2>3. PICK pages \in SUBSET (0 .. LastPage) : user_page' = user_page \cup pages /\ lent' = lent \cup pages
    BY <1>5, CreatedPages
  <2> QED BY <1>5, <2>1, <2>2, <2>3, SameImages DEF CreateTask
<1>6. ASSUME NEW t \in programs, ProgramExits(t) PROVE ImageInv'
  <2>1. load'.pc # "create"
    BY <1>6 DEF ProgramExits
  <2> QED BY <1>6, <2>1, SameImages DEF ProgramExits
<1>7. CASE UNCHANGED ExecVars
  BY <1>7 DEF ExecVars, ImageInv, Keeps, PagesOf, OwnPages, Reserved, Kernel
<1> QED BY <1>1, <1>2, <1>3, <1>4, <1>5, <1>6, <1>7 DEF ExecNext

(* The loader's record of itself is well typed (exec.c). *)
THEOREM ExecTypeCorrect == ExecSpec => []ExecTypeOK
<1>1. ExecInit => LoadType /\ LoadInv
  BY InitExec
<1>2. LoadType /\ LoadInv => ExecTypeOK
  <2> SUFFICES ASSUME LoadType PROVE ExecTypeOK
    OBVIOUS
  <2>1. load.id \in Nat /\ load.id <= MaxLoads /\ MaxLoads \in Nat
    BY ExecAssumption DEF LoadType
  <2>2. load.pc \in {"idle", "read", "place", "create"} /\ load.prog \in Programs
    BY DEF LoadType
  <2>3. \A t \in programs : t.id \in 1 .. load.id
    BY DEF LoadType
  <2>4. \A t \in programs : t.id \in 1 .. MaxLoads
    BY <2>1, <2>3
  <2> QED BY <2>2, <2>4 DEF LoadType, ExecTypeOK
<1> QED BY <1>1, <1>2, LoadStep, PTL DEF ExecSpec

(* Every program, whatever it says of itself: a read never runs over the    *)
(* buffer and no path leaves the buffer or the descriptor behind            *)
(* (load_file_from_disk and exec_load_and_run).                             *)
THEOREM LoaderCleansUp == ExecSpec => []LoadBuffer
<1>1. LoadType /\ LoadInv => LoadBuffer
  BY DEF LoadInv, LoadBuffer
<1>2. ExecInit => LoadType /\ LoadInv
  BY InitExec
<1> QED BY <1>1, <1>2, LoadStep, PTL DEF ExecSpec

(* For any programs, wherever they say they are linked, and any number of   *)
(* loads: the programs in slots keep their own pages and the kernel its     *)
(* own, as OwnImage says (exec_load_and_run, task_create_user).             *)
THEOREM LoaderSound == ExecSpec => []ExecSound
<1>1. ExecInit => LoadType /\ LoadInv /\ ImageInv
  BY InitExec
<1>2. LoadType /\ LoadInv /\ ImageInv /\ [ExecNext]_ExecVars => (LoadType /\ LoadInv /\ ImageInv)'
  BY LoadStep, ImageStep
<1>3. LoadType /\ LoadInv /\ ImageInv => ExecSound
  <2> SUFFICES ASSUME LoadType, LoadInv, ImageInv PROVE ExecSound
    OBVIOUS
  <2>1. ASSUME NEW t \in programs, NEW v \in OwnPages(t.prog, t.base) \ stray PROVE image[v] = t.id
    <3>1. t.prog.kind = "dyn"
      BY DEF OwnPages
    <3> QED BY <3>1 DEF ImageInv, Keeps
  <2>2. OwnImage
    BY <2>1 DEF OwnImage, ImageInv
  <2> QED BY <2>2 DEF LoadInv, LoadBuffer, ExecSound
<1> QED BY <1>1, <1>2, <1>3, PTL DEF ExecSpec

-----------------------------------------------------------------------------
(* Physical pages.                                                         *)

\* Every page of a region has an index of its own; none is the heap's or the
\* bitmap's.
Pmm(p) ==
    /\ DOMAIN p = {"index", "total", "free", "bitmap"}
    /\ DOMAIN p.index \subseteq 0 .. Frames - 1
    /\ p.index \in [DOMAIN p.index -> Nat]
    /\ \A f, g \in DOMAIN p.index : p.index[f] = p.index[g] => f = g
    /\ DOMAIN p.index \cap (KernelHeap \cup p.bitmap) = {}
    /\ p.total \in Nat /\ p.free \subseteq 0 .. p.total - 1

Below(S, f) == {g \in S : g < f}

LEMMA FramesFinite ==
    ASSUME NEW S \in SUBSET (0 .. Frames - 1)
    PROVE  IsFiniteSet(S) /\ Cardinality(S) \in Nat
  <1>1. PICK k \in Int : k = Frames - 1
    BY PagingAssumption
  <1>2. IsFiniteSet(0 .. k)
    BY FS_Interval
  <1> QED BY <1>1, <1>2, FS_Subset, FS_CardinalityType

\* Pages counted in order have different numbers.
LEMMA RankInjective ==
    ASSUME NEW S \in SUBSET (0 .. Frames - 1)
    PROVE  /\ \A f \in S : Cardinality(Below(S, f)) \in Nat
           /\ \A f, g \in S : Cardinality(Below(S, f)) = Cardinality(Below(S, g)) => f = g
  <1>1. IsFiniteSet(S)
    BY FramesFinite
  <1>2. ASSUME NEW f \in S PROVE IsFiniteSet(Below(S, f)) /\ Cardinality(Below(S, f)) \in Nat
    <2>1. Below(S, f) \in SUBSET S
      BY DEF Below
    <2> QED BY <1>1, <2>1, FS_Subset, FS_CardinalityType
  <1>3. ASSUME NEW f \in S, NEW g \in S, f < g PROVE Cardinality(Below(S, f)) # Cardinality(Below(S, g))
    <2>1. Below(S, f) \in SUBSET Below(S, g)
      <3> SUFFICES ASSUME NEW h \in Below(S, f) PROVE h \in Below(S, g)
        OBVIOUS
      <3>1. h \in S /\ h < f
        BY DEF Below
      <3>2. h \in Int /\ f \in Int /\ g \in Int
        BY <3>1, PagingAssumption
      <3>3. h < g
        BY <1>3, <3>1, <3>2
      <3> QED BY <3>1, <3>3 DEF Below
    <2>2. f \in Below(S, g) /\ f \notin Below(S, f)
      BY <1>3, PagingAssumption DEF Below
    <2>3. Below(S, g) # Below(S, f)
      BY <2>2
    <2> QED BY <1>2, <2>1, <2>3, FS_Subset
  <1>4. ASSUME NEW f \in S, NEW g \in S, Cardinality(Below(S, f)) = Cardinality(Below(S, g))
        PROVE  f = g
    <2>1. f \in Int /\ g \in Int
      BY PagingAssumption
    <2> QED BY <1>3, <1>4, <2>1
  <1> QED BY <1>2, <1>4

LEMMA BootedPmm ==
    ASSUME NEW usable \in MemoryMaps
    PROVE  Pmm(Booted(usable))
  <1> DEFINE home == BitmapHome(usable)
             first == home.len - BitmapPages
             bitmap == home.base + first .. home.base + home.len - 1
             pages == ExcludeHeap(usable \ bitmap)
             p == Booted(usable)
  <1>1. usable \in SUBSET (0 .. Frames - 1)
    BY PagingAssumption
  <1>2. pages \in SUBSET (0 .. Frames - 1) /\ pages \cap (KernelHeap \cup bitmap) = {}
    BY <1>1 DEF ExcludeHeap
  <1>3. IsFiniteSet(usable) /\ Cardinality(usable) \in Nat
    BY <1>1, FramesFinite
  <1>4. /\ DOMAIN p = {"index", "total", "free", "bitmap"}
        /\ p.index = [f \in pages |-> Cardinality(Below(pages, f))]
        /\ p.total = Cardinality(usable) /\ p.bitmap = bitmap
        /\ p.free = (0 .. Cardinality(usable) - 1) \ (first .. first + BitmapPages - 1)
    BY DEF Booted, Below
  <1> HIDE DEF p, pages, bitmap, first
  <1>5. DOMAIN p.index = pages /\ \A f \in pages : p.index[f] = Cardinality(Below(pages, f))
    BY <1>4
  <1>6. p.index \in [DOMAIN p.index -> Nat]
    BY <1>4, <1>5, <1>2, RankInjective
  <1>7. \A f, g \in DOMAIN p.index : p.index[f] = p.index[g] => f = g
    <2> SUFFICES ASSUME NEW f \in pages, NEW g \in pages, p.index[f] = p.index[g] PROVE f = g
      BY <1>5
    <2>1. Cardinality(Below(pages, f)) = Cardinality(Below(pages, g))
      BY <1>5
    <2> QED BY <1>2, <2>1, RankInjective
  <1> QED BY <1>2, <1>3, <1>4, <1>5, <1>6, <1>7 DEF Pmm, p

\* An address that is not 0 is that of the index.
LEMMA AddressKnown ==
    ASSUME NEW p, Pmm(p), NEW i, Address(p, i) # 0
    PROVE  Address(p, i) \in DOMAIN p.index /\ p.index[Address(p, i)] = i
  <1> DEFINE at == {f \in DOMAIN p.index : p.index[f] = i}
  <1>1. at # {} /\ Address(p, i) = Min(at)
    BY DEF Address
  <1>2. at \in SUBSET Nat
    BY DEF Pmm
  <1>3. Min(at) \in at
    BY <1>1, <1>2, MinNat
  <1> QED BY <1>1, <1>3

-----------------------------------------------------------------------------
(* The search for a run of free pages.                                     *)

NoRun == [run |-> 0, start |-> 0]
ScanStep(p, n, acc, i) ==
    LET start == IF acc.run = 0 THEN i ELSE acc.start
    IN  IF acc.run = n THEN acc
        ELSE IF i \notin p.free \/ (acc.run + 1 = n /\ Address(p, start) = 0) THEN NoRun
        ELSE [run |-> acc.run + 1, start |-> start]

IsScan(p, n, m, g) == g = [k \in 0 .. m |-> IF k = 0 THEN NoRun ELSE ScanStep(p, n, g[k - 1], k - 1)]

LEMMA ScanExists ==
    ASSUME NEW p, NEW n, NEW t \in Nat
    PROVE  \E g : IsScan(p, n, t, g)
  <1> DEFINE Step(x, k) == ScanStep(p, n, x, k)
             Bad == {m \in Nat : ~\E g : IsScan(p, n, m, g)}
  <1>1. Bad = {}
    <2> SUFFICES ASSUME Bad # {} PROVE FALSE
      OBVIOUS
    <2>1. PICK m \in Bad : \A k \in Bad : m <= k
      BY LeastNat
    <2>2. IsScan(p, n, 0, [k \in 0 .. 0 |-> NoRun])
      BY DEF IsScan
    <2>3. m # 0
      BY <2>1, <2>2
    <2>4. m - 1 \in Nat /\ m - 1 \notin Bad /\ m \in Nat
      <3>1. m \in Nat
        OBVIOUS
      <3> HIDE DEF Bad
      <3> QED BY <3>1, <2>1, <2>3
    <2>5. PICK g : IsScan(p, n, m - 1, g)
      BY <2>4
    <2> HIDE DEF Step
    <2> DEFINE h == [k \in 0 .. m |-> IF k = m THEN Step(g[m - 1], m - 1) ELSE g[k]]
    <2>6. \A k \in 0 .. m - 1 : g[k] = IF k = 0 THEN NoRun ELSE Step(g[k - 1], k - 1)
      BY <2>5, Zenon DEF IsScan, Step
    <2>7. ASSUME NEW k \in 0 .. m PROVE h[k] = IF k = 0 THEN NoRun ELSE Step(h[k - 1], k - 1)
      <3>1. CASE k = m
        <4>1. h[k] = Step(g[m - 1], m - 1)
          BY <3>1, <2>4
        <4>2. h[k - 1] = g[m - 1]
          BY <3>1, <2>4, <2>3
        <4> QED BY <4>1, <4>2, <3>1, <2>3
      <3>2. CASE k # m
        <4>1. k \in 0 .. m - 1 /\ h[k] = g[k]
          BY <3>2, <2>4
        <4>2. k # 0 => h[k - 1] = g[k - 1]
          BY <4>1, <2>4
        <4> QED BY <4>1, <4>2, <2>6
      <3> QED BY <3>1, <3>2
    <2>8. h = [k \in 0 .. m |-> IF k = 0 THEN NoRun ELSE Step(h[k - 1], k - 1)]
      <3> DEFINE u == [k \in 0 .. m |-> IF k = 0 THEN NoRun ELSE Step(h[k - 1], k - 1)]
      <3>1. \A k \in 0 .. m : h[k] = u[k]
        BY <2>7
      <3>2. h \in [0 .. m -> {h[k] : k \in 0 .. m}] /\ u \in [0 .. m -> {u[k] : k \in 0 .. m}]
        OBVIOUS
      <3> HIDE DEF h, u
      <3> QED BY <3>1, <3>2 DEF u
    <2>9. IsScan(p, n, m, h)
      BY <2>8, Zenon DEF IsScan, Step
    <2> QED BY <2>1, <2>9
  <1> QED BY <1>1

\* The run found so far is free; when it is long enough its address is known.
Run(p, n, acc, k) ==
    /\ acc.run \in 0 .. n /\ acc.start \in Nat
    /\ \A j \in Nat : j < acc.run => acc.start + j \in p.free
    /\ acc.run # 0 /\ acc.run # n => acc.start + acc.run = k
    /\ acc.run = n => Address(p, acc.start) # 0

LEMMA ScanStepRun ==
    ASSUME NEW p, NEW n \in Nat \ {0}, NEW k \in Nat, NEW acc, Run(p, n, acc, k)
    PROVE  Run(p, n, ScanStep(p, n, acc, k), k + 1)
  <1> DEFINE start == IF acc.run = 0 THEN k ELSE acc.start
             r == ScanStep(p, n, acc, k)
  <1>1. PICK c \in Nat : c = acc.run /\ c <= n
    BY DEF Run
  <1>2. CASE c = n
    <2>1. r = acc
      BY <1>1, <1>2 DEF ScanStep
    <2> QED BY <2>1, <1>1, <1>2 DEF Run
  <1>3. CASE c # n /\ (k \notin p.free \/ (c + 1 = n /\ Address(p, start) = 0))
    <2>1. r = NoRun
      BY <1>1, <1>3 DEF ScanStep
    <2> QED BY <2>1 DEF Run, NoRun
  <1>4. CASE c # n /\ k \in p.free /\ ~(c + 1 = n /\ Address(p, start) = 0)
    <2>1. r = [run |-> c + 1, start |-> start]
      BY <1>1, <1>4 DEF ScanStep
    <2>2. PICK s \in Nat : s = start /\ s + c = k
      <3>1. CASE c = 0
        BY <3>1, <1>1
      <3>2. CASE c # 0
        BY <3>2, <1>1, <1>4 DEF Run
      <3> QED BY <3>1, <3>2
    <2>3. ASSUME NEW j \in Nat, j < c + 1 PROVE s + j \in p.free
      <3>1. CASE j = c
        BY <3>1, <2>2, <1>4
      <3>2. CASE j # c
        <4>1. j < c /\ c # 0
          BY <3>2, <2>3
        <4>2. s = acc.start
          BY <4>1, <2>2, <1>1
        <4> QED BY <4>1, <4>2, <1>1 DEF Run
      <3> QED BY <3>1, <3>2
    <2>4. r.run = c + 1 /\ r.start = s
      BY <2>1, <2>2
    <2> HIDE DEF r
    <2>5. c + 1 \in 0 .. n /\ s + (c + 1) = k + 1
      BY <1>1, <1>4, <2>2
    <2>6. c + 1 = n => Address(p, s) # 0
      BY <1>4, <2>2
    <2> QED BY <2>3, <2>4, <2>5, <2>6 DEF Run, r
  <1> QED BY <1>1, <1>2, <1>3, <1>4

\* pmm_alloc_pages finds a run of free pages whose first has an address.
LEMMA ScanFinds ==
    ASSUME NEW p, Pmm(p), NEW n \in Nat \ {0}, Found(p, n)
    PROVE  /\ FirstIdx(p, n) \in Nat /\ Address(p, FirstIdx(p, n)) # 0
           /\ \A j \in Nat : j < n => FirstIdx(p, n) + j \in p.free
  <1> DEFINE g == CHOOSE f : f = [k \in 0 .. p.total |->
                      IF k = 0 THEN [run |-> 0, start |-> 0]
                      ELSE LET acc == f[k - 1]
                               start == IF acc.run = 0 THEN k - 1 ELSE acc.start
                           IN  IF acc.run = n THEN acc
                               ELSE IF k - 1 \notin p.free \/ (acc.run + 1 = n /\ Address(p, start) = 0)
                               THEN [run |-> 0, start |-> 0]
                               ELSE [run |-> acc.run + 1, start |-> start]]
  <1>0. p.total \in Nat
    BY DEF Pmm
  <1>1. Scan(p, n) = g[p.total]
    BY Zenon DEF Scan
  <1>2. g = CHOOSE f : IsScan(p, n, p.total, f)
    BY Zenon DEF IsScan, ScanStep, NoRun
  <1> HIDE DEF g
  <1>3. IsScan(p, n, p.total, g)
    BY <1>0, <1>2, ScanExists
  <1>4. \A k \in 0 .. p.total : g[k] = IF k = 0 THEN NoRun ELSE ScanStep(p, n, g[k - 1], k - 1)
    BY <1>3, Zenon DEF IsScan
  <1> DEFINE Bad == {k \in 0 .. p.total : ~Run(p, n, g[k], k)}
  <1>5. Bad = {}
    <2> SUFFICES ASSUME Bad # {} PROVE FALSE
      OBVIOUS
    <2>1. Bad \in SUBSET Nat
      BY <1>0
    <2>2. PICK m \in Bad : \A k \in Bad : m <= k
      BY <2>1, LeastNat
    <2>3. m \in 0 .. p.total /\ ~Run(p, n, g[m], m)
      BY <2>2
    <2>4. m # 0
      <3>1. g[0] = NoRun
        BY <1>0, <1>4
      <3>2. Run(p, n, NoRun, 0)
        BY DEF Run, NoRun
      <3> QED BY <2>3, <3>1, <3>2
    <2>5. m - 1 \in 0 .. p.total /\ m - 1 \notin Bad /\ m - 1 \in Nat /\ (m - 1) + 1 = m
      <3> HIDE DEF Bad
      <3> QED BY <1>0, <2>2, <2>3, <2>4
    <2>6. Run(p, n, g[m - 1], m - 1)
      BY <2>5
    <2>7. g[m] = ScanStep(p, n, g[m - 1], m - 1)
      BY <1>4, <2>3, <2>4
    <2> QED BY <2>3, <2>5, <2>6, <2>7, ScanStepRun
  <1>6. Run(p, n, g[p.total], p.total) /\ g[p.total].run = n /\ FirstIdx(p, n) = g[p.total].start
    BY <1>0, <1>1, <1>5 DEF Found, FirstIdx
  <1> QED BY <1>6 DEF Run

-----------------------------------------------------------------------------
(* Who owns which frames.                                                  *)

\* An address space owns its regions and the frame of its page directory.
PartsOf(sp) ==
    [s \in Spaces |-> sp[s].regions \cup (IF sp[s].pd = None THEN {} ELSE {Region(None, sp[s].pd, 1)})]

Busy(x, F, r) == \A f \in FramesOf(r) : f \in DOMAIN x /\ x[f] \notin F
Apart(q, r) == FramesOf(q) \cap FramesOf(r) = {}
OwnedBy(P, x, F) ==
    /\ \A s \in Spaces : \A r \in P[s] : Busy(x, F, r)
    /\ \A s, t \in Spaces : \A q \in P[s], r \in P[t] : (s = t /\ q = r) \/ Apart(q, r)

\* All the frames of a part are free.
Loose(x, F, r) == \A f \in FramesOf(r) : f \in DOMAIN x /\ x[f] \in F

\* Frames that were free and are so no longer get one owner.
LEMMA TakeOwned ==
    ASSUME NEW P, NEW Q, NEW x, NEW F, NEW G, OwnedBy(P, x, F), NEW s \in Spaces, NEW r,
           Loose(x, F, r), Busy(x, G, r), G \subseteq F,
           \A t \in Spaces : t # s => Q[t] \subseteq P[t],
           Q[s] \subseteq P[s] \cup {r}
    PROVE  OwnedBy(Q, x, G)
  <1>1. ASSUME NEW t \in Spaces, NEW q \in P[t] PROVE Busy(x, G, q) /\ Apart(q, r) /\ Apart(r, q)
    BY DEF OwnedBy, Busy, Apart, Loose
  <1>2. ASSUME NEW t \in Spaces, NEW q \in Q[t] PROVE q \in P[t] \/ (t = s /\ q = r)
    OBVIOUS
  <1>3. ASSUME NEW t \in Spaces, NEW q \in Q[t] PROVE Busy(x, G, q)
    BY <1>1, <1>2
  <1>4. ASSUME NEW t \in Spaces, NEW u \in Spaces, NEW q \in Q[t], NEW p \in Q[u]
        PROVE  (t = u /\ q = p) \/ Apart(q, p)
    BY <1>1, <1>2 DEF OwnedBy
  <1> QED BY <1>3, <1>4 DEF OwnedBy

\* Frames that become free belonged to a part that is given up.
LEMMA GiveOwned ==
    ASSUME NEW P, NEW Q, NEW x, NEW F, NEW G, OwnedBy(P, x, F),
           \A f, g \in DOMAIN x : x[f] = x[g] => f = g,
           \A t \in Spaces : Q[t] \subseteq P[t],
           \A i \in G : i \in F \/ \E t \in Spaces : \E r \in P[t] \ Q[t] : \E f \in FramesOf(r) : i = x[f]
    PROVE  OwnedBy(Q, x, G)
  <1>1. ASSUME NEW t \in Spaces, NEW q \in Q[t] PROVE Busy(x, G, q)
    <2> SUFFICES ASSUME NEW f \in FramesOf(q) PROVE f \in DOMAIN x /\ x[f] \notin G
      BY DEF Busy
    <2>1. q \in P[t] /\ f \in DOMAIN x /\ x[f] \notin F
      BY DEF OwnedBy, Busy
    <2>2. SUFFICES ASSUME x[f] \in G PROVE FALSE
      BY <2>1
    <2>3. PICK u \in Spaces : \E r \in P[u] \ Q[u] : \E g \in FramesOf(r) : x[f] = x[g]
      BY <2>1, <2>2
    <2>4. PICK r \in P[u] \ Q[u] : \E g \in FramesOf(r) : x[f] = x[g]
      BY <2>3
    <2>5. PICK g \in FramesOf(r) : x[f] = x[g]
      BY <2>4
    <2>6. g \in DOMAIN x
      BY <2>4, <2>5 DEF OwnedBy, Busy
    <2>7. f = g
      BY <2>1, <2>5, <2>6
    <2>8. (t = u /\ q = r) \/ Apart(q, r)
      BY <2>1, <2>4 DEF OwnedBy
    <2>9. ~(t = u /\ q = r)
      BY <2>4
    <2> QED BY <2>5, <2>7, <2>8, <2>9 DEF Apart
  <1>2. ASSUME NEW t \in Spaces, NEW u \in Spaces, NEW q \in Q[t], NEW p \in Q[u]
        PROVE  (t = u /\ q = p) \/ Apart(q, p)
    BY DEF OwnedBy
  <1> QED BY <1>1, <1>2 DEF OwnedBy

SpaceRec == [pd : {None} \cup Nat, regions : SUBSET [v : Nat, base : Nat, n : Nat], brk : Nat, heap : BOOLEAN]

Spaced(sp) ==
    /\ sp \in [Spaces -> SpaceRec]
    /\ \A s \in Spaces : /\ sp[s].pd = None => sp[s].regions = {}
                         /\ \A r \in sp[s].regions : r.v + r.n <= UserPages

\* One owner each, and none of them free, the heap's or the bitmap's.
LEMMA OwnedFrames ==
    ASSUME Pmm(pmm), Spaced(space), ~crossed => OwnedBy(PartsOf(space), pmm.index, pmm.free)
    PROVE  FramesOwned
  <1> SUFFICES ASSUME ~crossed PROVE FramesOwned
    BY DEF FramesOwned
  <1> DEFINE Owns(s, f) == f = space[s].pd \/ \E r \in space[s].regions : f \in FramesOf(r)
             mine == {o \in Spaces \X (0 .. Frames - 1) : Owns(o[1], o[2])}
             free == {Address(pmm, i) : i \in pmm.free} \ {0}
             P == PartsOf(space)
  <1>0. OwnedBy(P, pmm.index, pmm.free)
    OBVIOUS
  <1>1. ASSUME NEW s \in Spaces, NEW f \in 0 .. Frames - 1, Owns(s, f)
        PROVE  \E r \in P[s] : f \in FramesOf(r)
    <2>1. f # None
      BY PagingAssumption DEF None
    <2>2. CASE f = space[s].pd
      <3>1. Region(None, space[s].pd, 1) \in P[s]
        BY <2>1, <2>2 DEF PartsOf
      <3>2. f \in FramesOf(Region(None, space[s].pd, 1))
        <4>1. f \in f .. f + 1 - 1
          BY PagingAssumption
        <4> QED BY <2>2, <4>1 DEF FramesOf, Region
      <3> QED BY <3>1, <3>2
    <2>3. CASE \E r \in space[s].regions : f \in FramesOf(r)
      BY <2>3 DEF PartsOf
    <2> QED BY <1>1, <2>2, <2>3
  <1>2. ASSUME NEW s \in Spaces, NEW r \in space[s].regions PROVE r \in P[s]
    BY DEF PartsOf
  <1>3. ASSUME NEW a \in mine, NEW b \in mine, a[2] = b[2] PROVE a = b
    <2>1. a[1] \in Spaces /\ b[1] \in Spaces /\ a[2] \in 0 .. Frames - 1 /\ Owns(a[1], a[2]) /\ Owns(b[1], a[2])
      BY <1>3
    <2>2. PICK q \in P[a[1]] : a[2] \in FramesOf(q)
      BY <1>1, <2>1
    <2>3. PICK r \in P[b[1]] : a[2] \in FramesOf(r)
      BY <1>1, <2>1
    <2>4. a[1] = b[1]
      BY <1>0, <2>1, <2>2, <2>3 DEF OwnedBy, Apart
    <2> QED BY <1>3, <2>4
  <1>4. ASSUME NEW s \in Spaces, NEW q \in space[s].regions, NEW r \in space[s].regions, q # r
        PROVE  FramesOf(q) \cap FramesOf(r) = {}
    BY <1>0, <1>2, <1>4 DEF OwnedBy, Apart
  <1>5. ASSUME NEW a \in mine PROVE a[2] \notin (free \cup KernelHeap \cup pmm.bitmap)
    <2>1. a[1] \in Spaces /\ a[2] \in 0 .. Frames - 1 /\ Owns(a[1], a[2])
      OBVIOUS
    <2>2. PICK q \in P[a[1]] : a[2] \in FramesOf(q)
      BY <1>1, <2>1
    <2>3. a[2] \in DOMAIN pmm.index /\ pmm.index[a[2]] \notin pmm.free
      BY <1>0, <2>1, <2>2 DEF OwnedBy, Busy
    <2>4. a[2] \notin free
      <3> SUFFICES ASSUME NEW i \in pmm.free, a[2] = Address(pmm, i), a[2] # 0 PROVE FALSE
        OBVIOUS
      <3>1. pmm.index[a[2]] = i
        BY AddressKnown
      <3> QED BY <2>3, <3>1
    <2> QED BY <2>3, <2>4 DEF Pmm
  <1>6. {a[2] : a \in mine} \cap (free \cup KernelHeap \cup pmm.bitmap) = {}
    <2> HIDE DEF mine, free
    <2> QED BY <1>5
  <1>7. FramesOwned <=> (/\ \A a, b \in mine : a[2] = b[2] => a = b
                         /\ \A s \in Spaces : \A q, r \in space[s].regions : q # r => FramesOf(q) \cap FramesOf(r) = {}
                         /\ {a[2] : a \in mine} \cap (free \cup KernelHeap \cup pmm.bitmap) = {})
    BY Zenon DEF FramesOwned
  <1> HIDE DEF mine, free
  <1> QED BY <1>3, <1>4, <1>6, <1>7

-----------------------------------------------------------------------------
(* Taking and giving back pages.                                           *)

\* A page map with other free pages.
Refreed(p, q) == Pmm(q) /\ q.index = p.index /\ q.bitmap = p.bitmap

LEMMA TakenPmm ==
    ASSUME NEW p, Pmm(p), NEW n
    PROVE  Refreed(p, Taken(p, n)) /\ Taken(p, n).free \subseteq p.free
  <1> DEFINE q == Taken(p, n)
  <1>1. /\ DOMAIN q = DOMAIN p /\ q.index = p.index /\ q.bitmap = p.bitmap /\ q.total = p.total
        /\ q.free = p.free \ (FirstIdx(p, n) .. FirstIdx(p, n) + n - 1)
    BY DEF Taken, Pmm
  <1> HIDE DEF q
  <1> QED BY <1>1 DEF Pmm, Refreed, q

\* The pages of a run that crosses no border are those of the indexes found.
LEMMA RunTaken ==
    ASSUME NEW p, Pmm(p), NEW n \in Nat \ {0}, Found(p, n), ~Crosses(p, n), NEW v
    PROVE  LET r == Region(v, Address(p, FirstIdx(p, n)), n)
           IN  Loose(p.index, p.free, r) /\ Busy(p.index, Taken(p, n).free, r)
  <1> DEFINE b == FirstIdx(p, n)
             a == Address(p, b)
             r == Region(v, a, n)
  <1>1. b \in Nat /\ a # 0 /\ \A j \in Nat : j < n => b + j \in p.free
    BY ScanFinds
  <1>2. a \in DOMAIN p.index /\ p.index[a] = b
    BY <1>1, AddressKnown
  <1>3. a \in Nat
    BY <1>2, PagingAssumption DEF Pmm
  <1>4. \A j \in 1 .. n - 1 : Address(p, b + j) = a + j
    BY DEF Crosses
  <1>5. Taken(p, n).free = p.free \ (b .. b + n - 1)
    BY DEF Taken, Pmm
  <1>6. FramesOf(r) = a .. a + n - 1
    BY DEF FramesOf, Region
  <1> HIDE DEF a, b, r
  <1>7. ASSUME NEW f \in FramesOf(r) PROVE f \in DOMAIN p.index /\ p.index[f] \in p.free /\ p.index[f] \in b .. b + n - 1
    <2>1. PICK j \in Nat : f = a + j /\ j < n
      <3>1. f \in a .. a + n - 1
        BY <1>6
      <3>2. f - a \in Nat /\ f = a + (f - a) /\ f - a < n
        BY <3>1, <1>3
      <3> QED BY <3>2
    <2>2. f \in DOMAIN p.index /\ p.index[f] = b + j
      <3>1. CASE j = 0
        <4>1. f = a /\ b + j = b
          BY <3>1, <2>1, <1>1, <1>3
        <4> QED BY <4>1, <1>2
      <3>2. CASE j # 0
        <4>1. Address(p, b + j) = f
          BY <3>2, <2>1, <1>4
        <4>2. f # 0
          BY <2>1, <3>2, <1>3
        <4> QED BY <4>1, <4>2, AddressKnown
      <3> QED BY <3>1, <3>2
    <2>3. b + j \in b .. b + n - 1
      BY <2>1, <1>1
    <2> QED BY <1>1, <2>1, <2>2, <2>3
  <1>8. Loose(p.index, p.free, r)
    BY <1>7 DEF Loose
  <1>9. Busy(p.index, Taken(p, n).free, r)
    BY <1>5, <1>7 DEF Busy
  <1> QED BY <1>8, <1>9 DEF r, a, b

\* pmm_free_pages makes free what belongs to the frames, if it knows them.
LEMMA FreedPmm ==
    ASSUME NEW p, Pmm(p), NEW S
    PROVE  /\ Refreed(p, Freed(p, S))
           /\ S \subseteq DOMAIN p.index =>
                 \A i \in Freed(p, S).free : i \in p.free \/ \E f \in S : i = p.index[f]
  <1> DEFINE q == Freed(p, S)
  <1>1. /\ DOMAIN q = DOMAIN p /\ q.index = p.index /\ q.bitmap = p.bitmap /\ q.total = p.total
        /\ q.free = p.free \cup {i \in {Index(p, f) : f \in S} : i < p.total}
    BY DEF Freed, Pmm
  <1> HIDE DEF q
  <1>2. \A f : Index(p, f) \in Nat
    BY DEF Index, Pmm
  <1>3. q.free \subseteq 0 .. q.total - 1
    BY <1>1, <1>2 DEF Pmm
  <1>4. Refreed(p, q)
    BY <1>1, <1>3 DEF Pmm, Refreed
  <1>5. ASSUME S \subseteq DOMAIN p.index, NEW i \in q.free PROVE i \in p.free \/ \E f \in S : i = p.index[f]
    BY <1>1, <1>5 DEF Index
  <1> QED BY <1>4, <1>5 DEF q

\* A run taken and given back again.
LEMMA TakenFreed ==
    ASSUME NEW p, Pmm(p), NEW n \in Nat \ {0}, Found(p, n), NEW P, ~Crosses(p, n) => OwnedBy(P, p.index, p.free)
    PROVE  LET q == Freed(Taken(p, n), RunOf(p, n))
           IN  Refreed(p, q) /\ (~Crosses(p, n) => OwnedBy(P, p.index, q.free))
  <1> DEFINE t == Taken(p, n)
             q == Freed(t, RunOf(p, n))
             r == Region(0, Address(p, FirstIdx(p, n)), n)
  <1>1. Refreed(p, t) /\ t.free \subseteq p.free
    BY TakenPmm
  <1>2. RunOf(p, n) = FramesOf(r)
    BY DEF RunOf, FramesOf, Region
  <1> HIDE DEF t
  <1>3. Refreed(t, q)
    BY <1>1, FreedPmm DEF Refreed
  <1>4. ASSUME ~Crosses(p, n) PROVE OwnedBy(P, p.index, q.free)
    <2>1. Loose(p.index, p.free, r)
      BY <1>4, RunTaken
    <2> HIDE DEF r
    <2>2. RunOf(p, n) \subseteq DOMAIN t.index
      BY <1>1, <1>2, <2>1 DEF Loose, Refreed
    <2>3. \A i \in q.free : i \in t.free \/ \E f \in RunOf(p, n) : i = t.index[f]
      BY <1>1, <2>2, FreedPmm DEF Refreed
    <2> HIDE DEF q
    <2>4. q.free \subseteq p.free
      BY <1>1, <1>2, <2>1, <2>3 DEF Loose, Refreed
    <2> QED BY <1>4, <2>4 DEF OwnedBy, Busy
  <1>5. Refreed(p, q)
    <2> HIDE DEF q
    <2> QED BY <1>1, <1>3 DEF Refreed
  <1> QED BY <1>4, <1>5 DEF q, t

-----------------------------------------------------------------------------
(* The windows onto physical memory.                                       *)

Windows(t) ==
    /\ t \in [Virtual -> {None} \cup Nat]
    /\ \A v \in Virtual : v >= UserPages => t[v] \in {None} \cup 0 .. Frames

\* No page of a window that shows something shows something else later.
Grows(t, u) == Windows(u) /\ \A x \in Virtual : x >= UserPages /\ t[x] # None => u[x] = t[x]

Window(t, v, p, n) == v \in Nat /\ v >= UserPages /\ Shows(t, v, p, n)

\* Changes below the windows.
LEMMA UserGrows ==
    ASSUME NEW t, Windows(t), NEW u, u \in [Virtual -> {None} \cup Nat],
           \A x \in Virtual : x >= UserPages => u[x] = t[x]
    PROVE  Grows(t, u)
  BY DEF Windows, Grows

LEMMA MapRunGrows ==
    ASSUME NEW t, Windows(t), NEW v \in Nat, NEW b \in Nat, NEW n \in Nat \ {0}, v + n <= UserPages
    PROVE  Grows(t, MapRun(t, v, b, n))
  <1> DEFINE stop == IF Conflict(t, v, b, n) = {} THEN n ELSE Min(Conflict(t, v, b, n))
             u == MapRun(t, v, b, n)
  <1>1. PICK k \in Nat : k = stop /\ k <= n
    <2>1. CASE Conflict(t, v, b, n) = {}
      BY <2>1
    <2>2. CASE Conflict(t, v, b, n) # {}
      <3>1. Conflict(t, v, b, n) \in SUBSET Nat /\ \A j \in Conflict(t, v, b, n) : j <= n
        BY DEF Conflict
      <3>2. Min(Conflict(t, v, b, n)) \in Conflict(t, v, b, n)
        BY <2>2, <3>1, MinNat
      <3> QED BY <2>2, <3>1, <3>2
    <2> QED BY <2>1, <2>2
  <1>2. u = [x \in Virtual |-> IF x \in v .. v + k - 1 THEN b + x - v ELSE t[x]]
    BY <1>1 DEF MapRun
  <1> HIDE DEF u, stop
  <1>3. \A x \in Virtual : x \in Nat
    BY PagingAssumption DEF Virtual
  <1>4. u \in [Virtual -> {None} \cup Nat]
    <2> SUFFICES ASSUME NEW x \in Virtual PROVE (IF x \in v .. v + k - 1 THEN b + x - v ELSE t[x]) \in {None} \cup Nat
      BY <1>2
    <2>1. CASE x \in v .. v + k - 1
      <3>1. b + x - v \in Nat
        BY <2>1, <1>1, <1>3
      <3> QED BY <2>1, <3>1
    <2>2. CASE x \notin v .. v + k - 1
      BY <2>2 DEF Windows
    <2> QED BY <2>1, <2>2
  <1>5. ASSUME NEW x \in Virtual, x >= UserPages PROVE u[x] = t[x]
    <2>1. x \notin v .. v + k - 1
      BY <1>1, <1>3, <1>5, PagingAssumption
    <2> QED BY <2>1, <1>2
  <1> QED BY <1>4, <1>5, UserGrows DEF u

LEMMA UnmapRunGrows ==
    ASSUME NEW t, Windows(t), NEW vs, \A x \in vs : x \in Int /\ x < UserPages
    PROVE  Grows(t, UnmapRun(t, vs))
  <1> DEFINE u == UnmapRun(t, vs)
  <1>1. u = [x \in Virtual |-> IF x \in vs THEN None ELSE t[x]]
    BY DEF UnmapRun
  <1> HIDE DEF u
  <1>2. u \in [Virtual -> {None} \cup Nat]
    BY <1>1 DEF Windows
  <1>3. ASSUME NEW x \in Virtual, x >= UserPages PROVE u[x] = t[x]
    <2>1. x \notin vs
      BY <1>3, PagingAssumption DEF Virtual
    <2> QED BY <1>1, <2>1
  <1> QED BY <1>2, <1>3, UserGrows DEF u

-----------------------------------------------------------------------------
(* The steps of address spaces.                                            *)

Memory(pm, sp, cr) ==
    /\ Pmm(pm) /\ Spaced(sp) /\ cr \in BOOLEAN
    /\ ~cr => OwnedBy(PartsOf(sp), pm.index, pm.free)

\* What the parts of an address space are.
LEMMA PartsIs ==
    ASSUME NEW sp, NEW s \in Spaces
    PROVE  /\ sp[s].pd = None => PartsOf(sp)[s] = sp[s].regions
           /\ sp[s].pd # None => PartsOf(sp)[s] = sp[s].regions \cup {Region(None, sp[s].pd, 1)}
  BY DEF PartsOf

LEMMA CreateStep ==
    ASSUME NEW s \in Spaces, Memory(pmm, space, crossed), Windows(pt), CreateSpace(s)
    PROVE  Memory(pmm', space', crossed') /\ Grows(pt, pt')
  <1> DEFINE f == Address(pmm, FirstIdx(pmm, 1))
             r == Region(None, f, 1)
             new == [NoSpace EXCEPT !.pd = f]
  <1>0. Pmm(pmm) /\ Spaced(space) /\ Found(pmm, 1) /\ pmm' = Taken(pmm, 1) /\ crossed' = crossed
        /\ space' = [space EXCEPT ![s] = new] /\ space[s].pd = None
        /\ pt' = IF pt[Direct(f)] = None THEN [pt EXCEPT ![Direct(f)] = f] ELSE pt
    BY DEF CreateSpace, Memory
  <1>1. f # 0 /\ f \in DOMAIN pmm.index
    BY <1>0, ScanFinds, AddressKnown
  <1>2. f \in 0 .. Frames - 1 /\ f # None /\ f \in Nat
    BY <1>0, <1>1, PagingAssumption DEF Pmm, None
  <1>3. ~Crosses(pmm, 1)
    BY DEF Crosses
  <1>4. Loose(pmm.index, pmm.free, r) /\ Busy(pmm.index, pmm'.free, r)
    BY <1>0, <1>3, RunTaken
  <1>5. Refreed(pmm, pmm') /\ pmm'.free \subseteq pmm.free
    BY <1>0, TakenPmm
  <1> HIDE DEF f, r
  <1>6. new \in SpaceRec /\ new.pd = f /\ new.regions = {}
    <2>1. NoSpace \in SpaceRec /\ NoSpace.regions = {}
      BY PagingAssumption DEF NoSpace, SpaceRec
    <2> QED BY <1>2, <2>1 DEF SpaceRec
  <1> HIDE DEF new
  <1>7. space'[s] = new /\ (\A t \in Spaces : t # s => space'[t] = space[t]) /\ space' \in [Spaces -> SpaceRec]
    BY <1>0, <1>6 DEF Spaced
  <1>8. Spaced(space')
    BY <1>0, <1>2, <1>6, <1>7 DEF Spaced
  <1>9. ASSUME ~crossed PROVE OwnedBy(PartsOf(space'), pmm.index, pmm'.free)
    <2>1. OwnedBy(PartsOf(space), pmm.index, pmm.free)
      BY <1>9 DEF Memory
    <2>2. PartsOf(space')[s] = {r}
      BY <1>2, <1>6, <1>7, PartsIs DEF r
    <2>3. ASSUME NEW t \in Spaces, t # s PROVE PartsOf(space')[t] = PartsOf(space)[t]
      BY <1>7, <2>3 DEF PartsOf
    <2> QED BY <1>4, <1>5, <2>1, <2>2, <2>3, TakeOwned
  <1>10. Memory(pmm', space', crossed')
    BY <1>0, <1>5, <1>8, <1>9 DEF Memory, Refreed
  <1>11. Grows(pt, pt')
    <2>1. CASE pt[Direct(f)] # None
      BY <2>1, <1>0 DEF Grows, Windows
    <2>2. CASE pt[Direct(f)] = None
      <3>1. Direct(f) \in Virtual /\ f \in 0 .. Frames
        BY <1>2, PagingAssumption DEF Direct, Virtual
      <3>2. pt' = [pt EXCEPT ![Direct(f)] = f]
        BY <1>0, <2>2
      <3> QED BY <2>2, <3>1, <3>2, <1>2 DEF Grows, Windows
    <2> QED BY <2>1, <2>2
  <1> QED BY <1>10, <1>11

LEMMA DestroyStep ==
    ASSUME NEW s \in Spaces, Memory(pmm, space, crossed), Windows(pt), DestroySpace(s)
    PROVE  Memory(pmm', space', crossed') /\ Grows(pt, pt')
  <1> DEFINE S == {space[s].pd} \cup UNION {FramesOf(r) : r \in space[s].regions}
             P == PartsOf(space)
             Q == PartsOf(space')
  <1>0. Pmm(pmm) /\ Spaced(space) /\ pmm' = Freed(pmm, S) /\ space' = [space EXCEPT ![s] = NoSpace]
        /\ pt' = pt /\ crossed' = crossed /\ space[s].pd # None
    BY DEF DestroySpace, Memory
  <1>1. NoSpace \in SpaceRec /\ NoSpace.pd = None /\ NoSpace.regions = {}
    BY PagingAssumption DEF NoSpace, SpaceRec
  <1>2. space'[s] = NoSpace /\ (\A t \in Spaces : t # s => space'[t] = space[t]) /\ space' \in [Spaces -> SpaceRec]
    BY <1>0, <1>1 DEF Spaced
  <1>3. Spaced(space')
    BY <1>0, <1>1, <1>2 DEF Spaced
  <1>4. Refreed(pmm, pmm') /\ (S \subseteq DOMAIN pmm.index =>
                 \A i \in pmm'.free : i \in pmm.free \/ \E f \in S : i = pmm.index[f])
    BY <1>0, FreedPmm
  <1>5. ASSUME ~crossed PROVE OwnedBy(Q, pmm.index, pmm'.free)
    <2>1. OwnedBy(P, pmm.index, pmm.free)
      BY <1>5 DEF Memory
    <2>2. Q[s] = {} /\ \A t \in Spaces : t # s => Q[t] = P[t]
      BY <1>1, <1>2 DEF PartsOf
    <2>3. P[s] = space[s].regions \cup {Region(None, space[s].pd, 1)}
      BY <1>0, PartsIs
    <2>4. ASSUME NEW f \in S PROVE \E r \in P[s] : f \in FramesOf(r)
      <3>1. CASE f = space[s].pd
        <4>1. f \in Nat
          BY <3>1, <1>0 DEF Spaced, SpaceRec
        <4>2. f \in f .. f + 1 - 1
          BY <4>1
        <4>3. f \in FramesOf(Region(None, space[s].pd, 1))
          BY <3>1, <4>2 DEF FramesOf, Region
        <4> QED BY <2>3, <4>3
      <3>2. CASE f # space[s].pd
        BY <3>2, <2>3
      <3> QED BY <3>1, <3>2
    <2> HIDE DEF P, Q, S
    <2>5. S \subseteq DOMAIN pmm.index
      BY <2>1, <2>4 DEF OwnedBy, Busy
    <2>6. \A i \in pmm'.free : i \in pmm.free \/ \E t \in Spaces : \E r \in P[t] \ Q[t] : \E f \in FramesOf(r) : i = pmm.index[f]
      BY <1>4, <2>2, <2>4, <2>5
    <2>7. \A t \in Spaces : Q[t] \subseteq P[t]
      BY <2>2
    <2>8. \A f, g \in DOMAIN pmm.index : pmm.index[f] = pmm.index[g] => f = g
      BY <1>0 DEF Pmm
    <2> QED BY <2>1, <2>6, <2>7, <2>8, GiveOwned
  <1>6. Grows(pt, pt')
    BY <1>0 DEF Grows
  <1> QED BY <1>0, <1>3, <1>4, <1>5, <1>6 DEF Memory, Refreed

LEMMA UnmapStep ==
    ASSUME NEW s \in Spaces, NEW v, Memory(pmm, space, crossed), Windows(pt), UnmapRegion(s, v)
    PROVE  Memory(pmm', space', crossed') /\ Grows(pt, pt')
  <1> DEFINE P == PartsOf(space)
             Q == PartsOf(space')
  <1>0. Pmm(pmm) /\ Spaced(space) /\ crossed' = crossed
    BY DEF UnmapRegion, Memory
  <1>1. PICK r \in space[s].regions :
          /\ pt' = UnmapRun(pt, r.v .. r.v + r.n - 1)
          /\ pmm' = Freed(pmm, FramesOf(r))
          /\ space' = [space EXCEPT ![s].regions = @ \ {r}]
    BY DEF UnmapRegion
  <1>2. r.v \in Nat /\ r.n \in Nat /\ r.base \in Nat /\ r.v + r.n <= UserPages
    BY <1>0, <1>1 DEF Spaced, SpaceRec
  <1>3. /\ space'[s].regions = space[s].regions \ {r} /\ space'[s].pd = space[s].pd
        /\ \A t \in Spaces : t # s => space'[t] = space[t]
        /\ space' \in [Spaces -> SpaceRec]
    BY <1>0, <1>1 DEF Spaced, SpaceRec
  <1>4. Spaced(space')
    BY <1>0, <1>3 DEF Spaced
  <1>5. Refreed(pmm, pmm') /\ (FramesOf(r) \subseteq DOMAIN pmm.index =>
                 \A i \in pmm'.free : i \in pmm.free \/ \E f \in FramesOf(r) : i = pmm.index[f])
    BY <1>0, <1>1, FreedPmm
  <1>6. ASSUME ~crossed PROVE OwnedBy(Q, pmm.index, pmm'.free)
    <2>1. OwnedBy(P, pmm.index, pmm.free)
      BY <1>6 DEF Memory
    <2>2. \A t \in Spaces : t # s => Q[t] = P[t]
      BY <1>3 DEF PartsOf
    <2>3. r # Region(None, space[s].pd, 1)
      <3>1. Region(None, space[s].pd, 1).v = None
        BY DEF Region
      <3>2. r.v # None
        BY <1>2 DEF None
      <3> QED BY <3>1, <3>2
    <2>4. r \in P[s] /\ Q[s] = P[s] \ {r}
      BY <1>3, <2>3 DEF PartsOf
    <2> HIDE DEF P, Q
    <2>5. FramesOf(r) \subseteq DOMAIN pmm.index
      BY <2>1, <2>4 DEF OwnedBy, Busy
    <2>6. \A i \in pmm'.free : i \in pmm.free \/ \E t \in Spaces : \E q \in P[t] \ Q[t] : \E f \in FramesOf(q) : i = pmm.index[f]
      BY <1>5, <2>4, <2>5
    <2>7. \A t \in Spaces : Q[t] \subseteq P[t]
      BY <2>2, <2>4
    <2>8. \A f, g \in DOMAIN pmm.index : pmm.index[f] = pmm.index[g] => f = g
      BY <1>0 DEF Pmm
    <2> QED BY <2>1, <2>6, <2>7, <2>8, GiveOwned
  <1>7. \A x \in r.v .. r.v + r.n - 1 : x \in Int /\ x < UserPages
    BY <1>2, PagingAssumption
  <1>8. Grows(pt, pt')
    BY <1>1, <1>7, UnmapRunGrows
  <1> QED BY <1>0, <1>4, <1>5, <1>6, <1>8 DEF Memory, Refreed

LEMMA MapStep ==
    ASSUME NEW s \in Spaces, NEW v \in Nat, NEW n \in Nat \ {0}, NEW heap \in BOOLEAN, NEW brk \in Nat,
           Memory(pmm, space, crossed), Windows(pt), MapRegion(s, v, n, heap, brk)
    PROVE  Memory(pmm', space', crossed') /\ Grows(pt, pt')
  <1> DEFINE f == Address(pmm, FirstIdx(pmm, n))
             r == Region(v, f, n)
             taken == Taken(pmm, n)
             freed == Freed(taken, RunOf(pmm, n))
             P == PartsOf(space)
             Q == PartsOf(space')
  <1>0. /\ Pmm(pmm) /\ Spaced(space) /\ Found(pmm, n) /\ space[s].pd # None /\ v + n <= UserPages
        /\ crossed' = (crossed \/ Crosses(pmm, n)) /\ crossed \in BOOLEAN
    BY DEF MapRegion, Memory
  <1>1. \/ pt' = MapRun(pt, v, f, n) /\ pmm' = freed /\ space' = space
        \/ pt' = UnmapRun(pt, v .. v + n - 1) /\ pmm' = freed /\ space' = space
        \/ /\ pt' = MapRun(pt, v, f, n) /\ pmm' = taken
           /\ space' = [space EXCEPT ![s].regions = @ \cup {r}, ![s].heap = heap, ![s].brk = brk]
    BY DEF MapRegion
  <1>2. f # 0 /\ f \in DOMAIN pmm.index
    BY <1>0, ScanFinds, AddressKnown
  <1>3. f \in Nat
    BY <1>0, <1>2, PagingAssumption DEF Pmm
  <1>4. Refreed(pmm, taken) /\ taken.free \subseteq pmm.free
    BY <1>0, TakenPmm
  <1>5. ~crossed' => ~crossed /\ ~Crosses(pmm, n)
    BY <1>0
  <1>6. ~crossed => OwnedBy(P, pmm.index, pmm.free)
    BY DEF Memory
  <1>7. Refreed(pmm, freed) /\ (~crossed' => OwnedBy(P, pmm.index, freed.free))
    <2>1. CASE ~crossed'
      BY <2>1, <1>0, <1>5, <1>6, TakenFreed
    <2>2. CASE crossed'
      <3>1. Refreed(taken, freed)
        BY <1>4, FreedPmm DEF Refreed
      <3> HIDE DEF taken, freed
      <3> QED BY <1>4, <2>2, <3>1 DEF Refreed
    <2> QED BY <2>1, <2>2
  <1>8. Grows(pt, MapRun(pt, v, f, n)) /\ Grows(pt, UnmapRun(pt, v .. v + n - 1))
    <2>1. \A x \in v .. v + n - 1 : x \in Int /\ x < UserPages
      BY <1>0, PagingAssumption
    <2> HIDE DEF f
    <2> QED BY <1>0, <1>3, <2>1, MapRunGrows, UnmapRunGrows
  <1>9. ~Crosses(pmm, n) => Loose(pmm.index, pmm.free, r) /\ Busy(pmm.index, taken.free, r)
    BY <1>0, RunTaken
  <1>10. r \in [v : Nat, base : Nat, n : Nat] /\ r.v + r.n <= UserPages
    BY <1>0, <1>3 DEF Region
  <1> HIDE DEF f, r, taken, freed
  <1>10a. crossed' \in BOOLEAN
    BY <1>0, Zenon
  <1>11. ASSUME pmm' = freed, space' = space PROVE Memory(pmm', space', crossed')
    BY <1>10a, <1>0, <1>7, <1>11 DEF Memory, Refreed
  <1>12. ASSUME pmm' = taken,
                space' = [space EXCEPT ![s].regions = @ \cup {r}, ![s].heap = heap, ![s].brk = brk]
         PROVE  Memory(pmm', space', crossed')
    <2>1. /\ space'[s].regions = space[s].regions \cup {r} /\ space'[s].pd = space[s].pd
          /\ space'[s] \in SpaceRec
          /\ \A t \in Spaces : t # s => space'[t] = space[t]
      BY <1>0, <1>10, <1>12 DEF Spaced, SpaceRec
    <2>2. space' \in [Spaces -> SpaceRec]
      BY <1>0, <1>12, <2>1 DEF Spaced
    <2>3. Spaced(space')
      BY <1>0, <1>10, <2>1, <2>2 DEF Spaced
    <2>4. ASSUME ~crossed' PROVE OwnedBy(Q, pmm.index, taken.free)
      <3>1. OwnedBy(P, pmm.index, pmm.free) /\ ~Crosses(pmm, n)
        BY <1>5, <1>6, <2>4
      <3>2. (\A t \in Spaces : t # s => Q[t] = P[t]) /\ Q[s] = P[s] \cup {r}
        BY <2>1 DEF PartsOf
      <3> HIDE DEF P, Q
      <3> QED BY <1>4, <1>9, <3>1, <3>2, TakeOwned
    <2> QED BY <1>4, <1>12, <1>10a, <2>3, <2>4 DEF Memory, Refreed
  <1> QED BY <1>1, <1>8, <1>11, <1>12

-----------------------------------------------------------------------------
(* Windows asked for.                                                      *)

\* What a window shows it shows as long as the tables grow.
LEMMA WindowGrows ==
    ASSUME NEW t, NEW u, Grows(t, u), NEW v, NEW p \in Nat, NEW n \in Nat, Window(t, v, p, n)
    PROVE  Window(u, v, p, n)
  <1> SUFFICES ASSUME NEW j \in 0 .. n - 1 PROVE v + j \in Virtual /\ u[v + j] = p + j
    BY DEF Window, Shows
  <1>1. v \in Nat /\ v >= UserPages /\ v + j \in Virtual /\ t[v + j] = p + j
    BY DEF Window, Shows
  <1>2. v + j >= UserPages
    BY <1>1, PagingAssumption
  <1>3. p + j # None
    BY DEF None
  <1> QED BY <1>1, <1>2, <1>3 DEF Grows

LEMMA GrowsGrows ==
    ASSUME NEW t, NEW u, NEW w, Grows(t, u), Grows(u, w)
    PROVE  Grows(t, w)
  BY DEF Grows

\* Pages that show nothing, or the right frame already, become a window.
LEMMA FillGrows ==
    ASSUME NEW t, Windows(t), NEW p \in Nat, NEW n \in Nat \ {0}, p + n <= Frames, NEW v \in Nat, v >= UserPages,
           \A j \in 0 .. n - 1 : v + j \in Virtual /\ t[v + j] \in {None, p + j},
           NEW u, u = [x \in Virtual |-> IF x \in v .. v + n - 1 THEN p + x - v ELSE t[x]]
    PROVE  Grows(t, u) /\ Window(u, v, p, n)
  <1>1. \A x \in Virtual : x \in Nat
    BY PagingAssumption DEF Virtual
  <1>2. ASSUME NEW x \in Virtual, x \in v .. v + n - 1
        PROVE  /\ u[x] = p + x - v /\ u[x] \in 0 .. Frames /\ u[x] \in Nat /\ t[x] \in {None, u[x]}
    <2>1. PICK j \in 0 .. n - 1 : j = x - v /\ x = v + j
      BY <1>1, <1>2
    <2>2. u[x] = p + x - v
      BY <1>2
    <2>3. p + x - v = p + j /\ p + j \in 0 .. Frames /\ p + j \in Nat
      BY <2>1, PagingAssumption
    <2> QED BY <2>1, <2>2, <2>3
  <1>3. ASSUME NEW x \in Virtual, x \notin v .. v + n - 1 PROVE u[x] = t[x]
    BY <1>3
  <1>4. u \in [Virtual -> {None} \cup Nat]
    <2>1. \A x \in Virtual : u[x] \in {None} \cup Nat
      BY <1>2, <1>3 DEF Windows
    <2>2. u \in [Virtual -> {u[x] : x \in Virtual}]
      OBVIOUS
    <2> QED BY <2>1, <2>2
  <1>5. Windows(u)
    BY <1>2, <1>3, <1>4 DEF Windows
  <1>6. Grows(t, u)
    BY <1>2, <1>3, <1>5 DEF Grows
  <1>7. ASSUME NEW j \in 0 .. n - 1 PROVE v + j \in Virtual /\ u[v + j] = p + j
    <2>1. v + j \in v .. v + n - 1 /\ p + (v + j) - v = p + j
      OBVIOUS
    <2> QED BY <1>2, <2>1
  <1> QED BY <1>6, <1>7 DEF Window, Shows

\* mmu_ensure_physical_accessible.
LEMMA AccessWindow ==
    ASSUME NEW t, Windows(t), NEW p \in Nat, NEW n \in Nat \ {0}, p + n <= Frames
    PROVE  LET a == Access(t, p, n)
           IN  Grows(t, a.pt) /\ a.ok \in BOOLEAN /\ (a.ok => Window(a.pt, a.v, p, n))
  <1> DEFINE found == FindVirtual(t, p)
             v == Target(t, p, n)
             a == Access(t, p, n)
  <1>0. Direct(p) \in Nat /\ Direct(p) >= UserPages /\ Direct(p) # None
    BY PagingAssumption DEF Direct, None
  <1>1. CASE found # None
    <2>1. a.ok = Shows(t, found, p, n) /\ a.v = found /\ a.pt = t
      BY <1>1 DEF Access
    <2>2. found \in Nat /\ found >= UserPages
      <3> DEFINE vs == {x \in Virtual : x >= UserPages /\ t[x] = p}
      <3>1. CASE t[Direct(p)] = p
        BY <3>1, <1>0 DEF FindVirtual
      <3>2. CASE t[Direct(p)] # p
        <4>1. found = Min(vs) /\ vs # {}
          BY <3>2, <1>1 DEF FindVirtual
        <4>2. vs \in SUBSET Nat
          BY PagingAssumption DEF Virtual
        <4>3. Min(vs) \in vs
          BY <4>1, <4>2, MinNat
        <4> QED BY <4>1, <4>2, <4>3
      <3> QED BY <3>1, <3>2
    <2>3. Grows(t, t)
      BY DEF Grows
    <2> HIDE DEF a, found
    <2>4. a.ok \in BOOLEAN
      BY <2>1, Zenon DEF Shows
    <2> QED BY <2>1, <2>2, <2>3, <2>4 DEF Window, a
  <1>2. CASE found = None /\ v = None
    <2>1. a.ok = FALSE /\ a.pt = t
      BY <1>2 DEF Access
    <2> QED BY <2>1 DEF Grows
  <1>3. CASE found = None /\ v # None
    <2> DEFINE u == [x \in Virtual |-> IF x \in v .. v + n - 1 THEN p + x - v ELSE t[x]]
    <2>1. a.ok = TRUE /\ a.v = v /\ a.pt = u
      BY <1>3 DEF Access
    <2>2. v \in Nat /\ v >= UserPages /\ \A j \in 0 .. n - 1 : v + j \in Virtual /\ t[v + j] \in {None, p + j}
      <3>1. CASE \A j \in 0 .. n - 1 : t[Direct(p + j)] \in {None, p + j}
        <4>1. v = Direct(p)
          BY <3>1 DEF Target
        <4>2. ASSUME NEW j \in 0 .. n - 1 PROVE Direct(p) + j = Direct(p + j) /\ Direct(p) + j \in Virtual
          BY PagingAssumption DEF Direct, Virtual
        <4> QED BY <3>1, <4>1, <4>2, <1>0
      <3>2. CASE ~\A j \in 0 .. n - 1 : t[Direct(p + j)] \in {None, p + j}
        <4>1. v = Min(AltRoom(t, n)) /\ AltRoom(t, n) # {}
          BY <3>2, <1>3 DEF Target
        <4>2. AltRoom(t, n) \in SUBSET Nat
          BY PagingAssumption DEF AltRoom, Alt
        <4>3. v \in AltRoom(t, n)
          BY <4>1, <4>2, MinNat
        <4>4. PICK k \in 0 .. AltPages - n : v = Alt(k) /\ \A j \in 0 .. n - 1 : t[Alt(k + j)] = None
          BY <4>3 DEF AltRoom
        <4>5. ASSUME NEW j \in 0 .. n - 1 PROVE Alt(k) + j = Alt(k + j) /\ Alt(k) + j \in Virtual
          BY PagingAssumption DEF Alt, Virtual
        <4>6. Alt(k) \in Nat /\ Alt(k) >= UserPages
          BY PagingAssumption DEF Alt
        <4> QED BY <4>4, <4>5, <4>6
      <3> QED BY <3>1, <3>2
    <2> HIDE DEF v, a
    <2>3. Grows(t, u) /\ Window(u, v, p, n)
      BY <2>2, FillGrows
    <2> HIDE DEF u
    <2> QED BY <2>1, <2>3 DEF a
  <1> QED BY <1>1, <1>2, <1>3

\* Windows given to drivers show what they were given for.
GrantOK(t, G) == \A g \in G : g[1] \in Virtual /\ g[1] >= UserPages /\ t[g[1]] = g[2] /\ g[2] # None

LEMMA GrantsGrow ==
    ASSUME NEW t, NEW u, Grows(t, u), NEW G, GrantOK(t, G)
    PROVE  GrantOK(u, G)
  BY DEF Grows, GrantOK

LEMMA GrantedOK ==
    ASSUME NEW a, NEW p \in Nat, NEW n \in Nat \ {0}, a.ok => Window(a.pt, a.v, p, n)
    PROVE  GrantOK(a.pt, Granted(a, p, n))
  <1> SUFFICES ASSUME NEW g \in Granted(a, p, n)
               PROVE  g[1] \in Virtual /\ g[1] >= UserPages /\ a.pt[g[1]] = g[2] /\ g[2] # None
    BY DEF GrantOK
  <1>1. a.ok
    BY DEF Granted
  <1>2. PICK j \in 0 .. n - 1 : g = <<a.v + j, p + j>>
    BY <1>1 DEF Granted
  <1>3. a.v \in Nat /\ a.v >= UserPages /\ a.v + j \in Virtual /\ a.pt[a.v + j] = p + j
    BY <1>1 DEF Window, Shows
  <1>4. p + j # None /\ a.v + j >= UserPages
    BY <1>3, PagingAssumption DEF None
  <1> QED BY <1>2, <1>3, <1>4

LEMMA EnsureStep ==
    ASSUME NEW p \in Nat, NEW n \in Nat \ {0}, Windows(pt), GrantOK(pt, grants), EnsureAccessible(p, n)
    PROVE  Grows(pt, pt') /\ GrantOK(pt', grants') /\ UNCHANGED <<pmm, space, crossed>>
  <1> DEFINE a == Access(pt, p, n)
  <1>1. p + n <= Frames /\ pt' = a.pt /\ grants' = grants \cup Granted(a, p, n) /\ UNCHANGED <<pmm, space, crossed>>
    BY DEF EnsureAccessible
  <1>2. Grows(pt, a.pt) /\ (a.ok => Window(a.pt, a.v, p, n))
    BY <1>1, AccessWindow
  <1> HIDE DEF a
  <1>3. GrantOK(a.pt, grants) /\ GrantOK(a.pt, Granted(a, p, n))
    BY <1>2, GrantsGrow, GrantedOK
  <1> QED BY <1>1, <1>2, <1>3 DEF GrantOK

-----------------------------------------------------------------------------
(* The cache of windows.                                                   *)

EntryRec == [valid : BOOLEAN, p : Nat, v : Nat, n : Nat]
CacheOK(t, c) ==
    /\ c \in [0 .. CacheSize - 1 -> EntryRec]
    /\ \A i \in 0 .. CacheSize - 1 : c[i].valid => Window(t, c[i].v, c[i].p, c[i].n)

MapOK(m) ==
    /\ DOMAIN m = {"ok", "v", "pt", "cache", "idx", "given"}
    /\ Windows(m.pt) /\ CacheOK(m.pt, m.cache) /\ m.idx \in 0 .. CacheSize - 1
    /\ GrantOK(m.pt, m.given)

\* What a routine has made of the tables and the cache so far.
After(m, r) == MapOK(r) /\ Grows(m.pt, r.pt)

LEMMA CacheGrows ==
    ASSUME NEW t, NEW u, Grows(t, u), NEW c, CacheOK(t, c)
    PROVE  CacheOK(u, c)
  <1> SUFFICES ASSUME NEW i \in 0 .. CacheSize - 1, c[i].valid PROVE Window(u, c[i].v, c[i].p, c[i].n)
    BY DEF CacheOK
  <1>1. Window(t, c[i].v, c[i].p, c[i].n) /\ c[i].p \in Nat /\ c[i].n \in Nat
    BY DEF CacheOK, EntryRec
  <1> QED BY <1>1, WindowGrows

LEMMA AfterAfter ==
    ASSUME NEW m, NEW r, NEW q, After(m, r), After(r, q)
    PROVE  After(m, q)
  BY GrowsGrows DEF After

\* A part of a window is a window.
LEMMA Within ==
    ASSUME NEW t, NEW v, NEW p \in Nat, NEW n \in Nat, Window(t, v, p, n),
           NEW q \in Nat, NEW k \in Nat, p <= q, p + n >= q + k
    PROVE  Window(t, v + q - p, q, k)
  <1>1. v \in Nat /\ v >= UserPages
    BY DEF Window
  <1>2. PICK d \in Nat : d = q - p
    OBVIOUS
  <1>3. v + q - p = v + d /\ v + d \in Nat /\ v + d >= UserPages
    BY <1>1, <1>2, PagingAssumption
  <1>4. ASSUME NEW j \in 0 .. k - 1 PROVE (v + d) + j \in Virtual /\ t[(v + d) + j] = q + j
    <2>1. d + j \in 0 .. n - 1 /\ (v + d) + j = v + (d + j) /\ q + j = p + (d + j)
      BY <1>1, <1>2
    <2> QED BY <2>1 DEF Window, Shows
  <1> QED BY <1>3, <1>4 DEF Window, Shows

\* mmu_ensure_physical_accessible_cached, through a hit or a new window.
LEMMA CachedWindow ==
    ASSUME NEW m, MapOK(m), NEW p \in Nat, NEW n \in Nat \ {0}, p + n <= Frames
    PROVE  LET r == Cached(m, p, n)
           IN  After(m, r) /\ (r.ok => Window(r.pt, r.v, p, n))
  <1> DEFINE hits == Hits(m, p, n)
             cache == Struck(m, p, n)
             a == Access(m.pt, p, n)
             r == Cached(m, p, n)
             Entries == 0 .. CacheSize - 1
  <1>0. /\ m.cache \in [Entries -> EntryRec] /\ Windows(m.pt) /\ m.idx \in Entries /\ GrantOK(m.pt, m.given)
        /\ \A i \in Entries : m.cache[i].valid => Window(m.pt, m.cache[i].v, m.cache[i].p, m.cache[i].n)
    BY DEF MapOK, CacheOK
  <1>a. hits # {} =>
          r = [m EXCEPT !.ok = TRUE, !.cache = cache, !.v = m.cache[Min(hits)].v + p - m.cache[Min(hits)].p]
    BY DEF Cached
  <1>b. hits = {} /\ a.ok =>
          r = [ok |-> TRUE, v |-> a.v, pt |-> a.pt, idx |-> (m.idx + 1) % CacheSize,
               cache |-> [cache EXCEPT ![m.idx] = [valid |-> TRUE, p |-> p, v |-> a.v, n |-> n]],
               given |-> m.given \cup Granted(a, p, n)]
    BY DEF Cached
  <1>c. hits = {} /\ ~a.ok => r = [m EXCEPT !.ok = FALSE, !.cache = cache]
    BY DEF Cached
  <1>2. hits \in SUBSET Nat /\ \A i \in hits : i \in Entries /\ Covers(m.cache[i], p, n)
    BY <1>0, AcpiAssumption DEF Hits
  <1> HIDE DEF r, hits
  <1>3. CacheOK(m.pt, cache)
    <2>1. ASSUME NEW i \in Entries
          PROVE  cache[i] \in EntryRec /\ (cache[i].valid => cache[i] = m.cache[i])
      <3>1. CASE Stale(m, p, n, i)
        <4>1. cache[i] = [m.cache[i] EXCEPT !.valid = FALSE]
          BY <3>1, <1>0 DEF Struck
        <4>2. m.cache[i] \in EntryRec
          BY <1>0
        <4> QED BY <4>1, <4>2 DEF EntryRec
      <3>2. CASE ~Stale(m, p, n, i)
        BY <3>2, <1>0 DEF Struck
      <3> QED BY <3>1, <3>2
    <2>2. cache \in [Entries -> {cache[i] : i \in Entries}]
      BY <1>0 DEF Struck
    <2> HIDE DEF cache
    <2>3. cache \in [Entries -> EntryRec]
      BY <2>1, <2>2
    <2> QED BY <1>0, <2>1, <2>3 DEF CacheOK
  <1> HIDE DEF cache
  <1>4. CASE hits # {}
    <2> DEFINE e == m.cache[Min(hits)]
    <2>1. Min(hits) \in hits
      BY <1>2, <1>4, MinNat
    <2>2. Min(hits) \in Entries /\ Covers(e, p, n)
      BY <1>2, <2>1
    <2>3. e \in EntryRec
      BY <1>0, <2>2
    <2>4. e.valid /\ e.p <= p /\ e.p + e.n >= p + n /\ e.p \in Nat /\ e.n \in Nat
      BY <2>2, <2>3 DEF Covers, EntryRec
    <2>5. Window(m.pt, e.v, e.p, e.n)
      BY <1>0, <2>2, <2>4
    <2> HIDE DEF e
    <2>6. Window(m.pt, e.v + p - e.p, p, n)
      BY <2>4, <2>5, Within
    <2>7. /\ DOMAIN r = {"ok", "v", "pt", "cache", "idx", "given"}
          /\ r.v = e.v + p - e.p /\ r.pt = m.pt /\ r.cache = cache /\ r.idx = m.idx /\ r.given = m.given
      BY <1>a, <1>4 DEF e, MapOK
    <2>8. Grows(m.pt, m.pt)
      BY <1>0 DEF Grows
    <2> QED BY <1>0, <1>3, <2>6, <2>7, <2>8 DEF After, MapOK, r
  <1>5. CASE hits = {} /\ ~a.ok
    <2>1. /\ DOMAIN r = {"ok", "v", "pt", "cache", "idx", "given"}
          /\ r.ok = FALSE /\ r.pt = m.pt /\ r.cache = cache /\ r.idx = m.idx /\ r.given = m.given
      BY <1>c, <1>5 DEF MapOK
    <2>2. Grows(m.pt, m.pt)
      BY <1>0 DEF Grows
    <2> QED BY <1>0, <1>3, <2>1, <2>2 DEF After, MapOK, r
  <1>6. CASE hits = {} /\ a.ok
    <2>1. Grows(m.pt, a.pt) /\ Window(a.pt, a.v, p, n)
      BY <1>0, <1>6, AccessWindow
    <2> HIDE DEF a
    <2> DEFINE e == [valid |-> TRUE, p |-> p, v |-> a.v, n |-> n]
               c == [cache EXCEPT ![m.idx] = e]
    <2>2. e \in EntryRec /\ e.v = a.v /\ e.p = p /\ e.n = n
      BY <2>1 DEF EntryRec, Window
    <2>3. CacheOK(a.pt, cache)
      BY <1>3, <2>1, CacheGrows
    <2> HIDE DEF e
    <2>4. c[m.idx] = e /\ (\A i \in Entries : i # m.idx => c[i] = cache[i]) /\ c \in [Entries -> EntryRec]
      BY <1>0, <2>2, <2>3 DEF CacheOK
    <2> HIDE DEF c
    <2>5. CacheOK(a.pt, c)
      <3> SUFFICES ASSUME NEW i \in Entries, c[i].valid PROVE Window(a.pt, c[i].v, c[i].p, c[i].n)
        BY <2>4 DEF CacheOK
      <3>1. CASE i = m.idx
        BY <3>1, <2>1, <2>2, <2>4
      <3>2. CASE i # m.idx
        BY <3>2, <2>3, <2>4 DEF CacheOK
      <3> QED BY <3>1, <3>2
    <2>6. (m.idx + 1) % CacheSize \in Entries
      <3>1. PICK i \in Nat : i = m.idx + 1
        BY <1>0
      <3> QED BY <3>1, AcpiAssumption
    <2>7. GrantOK(a.pt, m.given \cup Granted(a, p, n))
      <3>1. GrantOK(a.pt, m.given)
        BY <1>0, <2>1, GrantsGrow
      <3>2. GrantOK(a.pt, Granted(a, p, n))
        BY <2>1, GrantedOK
      <3> QED BY <3>1, <3>2 DEF GrantOK
    <2>8. /\ DOMAIN r = {"ok", "v", "pt", "cache", "idx", "given"}
          /\ r.v = a.v /\ r.pt = a.pt /\ r.cache = c /\ r.idx = (m.idx + 1) % CacheSize
          /\ r.given = m.given \cup Granted(a, p, n)
      BY <1>b, <1>6 DEF c, e
    <2>9. Windows(a.pt)
      BY <2>1 DEF Grows
    <2> QED BY <2>1, <2>5, <2>6, <2>7, <2>8, <2>9 DEF After, MapOK, r
  <1> QED BY <1>4, <1>5, <1>6

LEMMA MappedWindow ==
    ASSUME NEW m, MapOK(m), NEW t, InMemory(t)
    PROVE  LET r == Mapped(m, t)
           IN  After(m, r) /\ (r.ok => Window(r.pt, r.v, t.p, t.n))
  <1> DEFINE h == Cached(m, t.p, 1)
             w == Cached(h, t.p, t.n)
  <1>1. t.p \in Nat /\ t.n \in Nat \ {0} /\ t.p + t.n <= Frames /\ t.p + 1 <= Frames
    BY PagingAssumption DEF InMemory
  <1>2. After(m, h)
    BY <1>1, CachedWindow
  <1> HIDE DEF h
  <1>3. After(h, w) /\ (w.ok => Window(w.pt, w.v, t.p, t.n))
    BY <1>1, <1>2, CachedWindow DEF After
  <1>4. Mapped(m, t) = IF h.ok THEN w ELSE h
    BY DEF Mapped, h
  <1> HIDE DEF w
  <1>5. After(m, w)
    BY <1>2, <1>3, AfterAfter
  <1> QED BY <1>2, <1>3, <1>4, <1>5

-----------------------------------------------------------------------------
(* The tables ACPI keeps.                                                  *)

AllTables == UNION {ToSet(f.rsdt.list) \cup ToSet(f.xsdt.list) : f \in Firmwares}
TableRec == [t : AllTables, v : Nat]

AcpiOK(a) ==
    /\ DOMAIN a = {"at", "list", "wide", "tables", "fadt", "initialized", "pm1a", "enabled"}
    /\ a.list \in Seq(AllTables) /\ a.tables \in Seq(TableRec)
    /\ Len(a.tables) <= MAX_ACPI_TABLES
    /\ a.fadt \in 0 .. Len(a.tables)
    /\ a.fadt # 0 => a.tables[a.fadt].t.sig = "FACP"

TablesOK(t, ts) == \A i \in 1 .. Len(ts) : ts[i].t.sum /\ Window(t, ts[i].v, ts[i].t.p, ts[i].t.n)

PowerOK(w, a) ==
    /\ DOMAIN w = {"sci", "touched", "end"} /\ w.end \in {"on", "S5", "ports", "reset", "legacy"}
    /\ w.touched => a.fadt # 0

\* The windows, the cache and the tables, as far as they show physical memory.
Shown(t, g, c, i, ts) ==
    /\ Windows(t) /\ GrantOK(t, g) /\ CacheOK(t, c) /\ i \in 0 .. CacheSize - 1 /\ TablesOK(t, ts)

AcpiInv ==
    /\ Memory(pmm, space, crossed)
    /\ Shown(pt, grants, mapping_cache, cache_index, acpi.tables)
    /\ firmware \in Firmwares /\ AcpiOK(acpi) /\ PowerOK(power, acpi)

LEMMA FirmwareLists ==
    ASSUME NEW f \in Firmwares
    PROVE  /\ f.rsdt.list \in Seq(AllTables) /\ f.xsdt.list \in Seq(AllTables)
           /\ InMemory(f.rsdt) /\ InMemory(f.xsdt) /\ f.resetAt \in Nat /\ f.resetAt + 1 <= Frames
  <1>1. ASSUME NEW l \in {f.rsdt.list, f.xsdt.list} PROVE l \in Seq(AllTables)
    <2>1. l \in Seq(ToSet(l))
      BY AcpiAssumption
    <2>2. ToSet(l) \subseteq AllTables
      BY DEF AllTables
    <2> QED BY <2>1, <2>2
  <1>2. f.resetAt \in 0 .. Frames - 1 /\ Frames \in Nat
    BY AcpiAssumption, PagingAssumption
  <1> QED BY <1>1, <1>2, AcpiAssumption

LEMMA TablesInMemory ==
    ASSUME NEW t \in AllTables
    PROVE  InMemory(t) /\ t.p \in Nat /\ t.n \in Nat
  <1>1. PICK f \in Firmwares : t \in ToSet(f.rsdt.list) \/ t \in ToSet(f.xsdt.list)
    BY DEF AllTables
  <1>2. InMemory(t)
    BY <1>1, AcpiAssumption
  <1> QED BY <1>2 DEF InMemory

LEMMA TablesGrow ==
    ASSUME NEW t, NEW u, Grows(t, u), NEW ts \in Seq(TableRec), TablesOK(t, ts)
    PROVE  TablesOK(u, ts)
  <1> SUFFICES ASSUME NEW i \in 1 .. Len(ts) PROVE ts[i].t.sum /\ Window(u, ts[i].v, ts[i].t.p, ts[i].t.n)
    BY DEF TablesOK
  <1>1. ts[i] \in TableRec
    OBVIOUS
  <1>2. ts[i].t \in AllTables
    BY <1>1 DEF TableRec
  <1>3. ts[i].t.p \in Nat /\ ts[i].t.n \in Nat
    BY <1>2, TablesInMemory
  <1>4. ts[i].t.sum /\ Window(t, ts[i].v, ts[i].t.p, ts[i].t.n)
    BY DEF TablesOK
  <1> QED BY <1>3, <1>4, WindowGrows

\* Any growth of the page tables keeps what is shown.
LEMMA ShownGrows ==
    ASSUME NEW t, NEW u, Grows(t, u), NEW g, NEW c, NEW i, NEW ts \in Seq(TableRec), Shown(t, g, c, i, ts)
    PROVE  Shown(u, g, c, i, ts)
  <1>1. Windows(u)
    BY DEF Grows
  <1>2. GrantOK(u, g)
    BY GrantsGrow DEF Shown
  <1>3. CacheOK(u, c)
    BY CacheGrows DEF Shown
  <1>4. TablesOK(u, ts)
    BY TablesGrow DEF Shown
  <1> QED BY <1>1, <1>2, <1>3, <1>4 DEF Shown

\* A routine starts from the state of the mappings and leaves it behind.
LEMMA MappingsOK ==
    ASSUME AcpiInv
    PROVE  MapOK(Mappings) /\ Mappings.pt = pt
  <1>1. /\ DOMAIN Mappings = {"ok", "v", "pt", "cache", "idx", "given"}
        /\ Mappings.pt = pt /\ Mappings.cache = mapping_cache /\ Mappings.idx = cache_index /\ Mappings.given = {}
    BY DEF Mappings
  <1>2. GrantOK(pt, {})
    BY DEF GrantOK
  <1> QED BY <1>1, <1>2 DEF MapOK, AcpiInv, Shown

LEMMA LeavesShown ==
    ASSUME AcpiInv, NEW m, After(Mappings, m), Leaves(m)
    PROVE  /\ Memory(pmm', space', crossed')
           /\ Shown(pt', grants', mapping_cache', cache_index', acpi.tables)
           /\ pt' = m.pt
  <1>1. /\ pt' = m.pt /\ mapping_cache' = m.cache /\ cache_index' = m.idx /\ grants' = grants \cup m.given
        /\ pmm' = pmm /\ space' = space /\ crossed' = crossed
    BY DEF Leaves
  <1>2. MapOK(m) /\ Grows(pt, m.pt)
    BY MappingsOK DEF After
  <1>3. Shown(pt, grants, mapping_cache, cache_index, acpi.tables) /\ acpi.tables \in Seq(TableRec)
    BY DEF AcpiInv, AcpiOK
  <1>4. Shown(m.pt, grants, mapping_cache, cache_index, acpi.tables)
    BY <1>2, <1>3, ShownGrows
  <1>5. GrantOK(m.pt, grants \cup m.given)
    BY <1>2, <1>4 DEF GrantOK, Shown, MapOK
  <1>6. Shown(m.pt, grants \cup m.given, m.cache, m.idx, acpi.tables)
    BY <1>2, <1>4, <1>5 DEF Shown, MapOK
  <1> QED BY <1>1, <1>6 DEF AcpiInv

\* ACPI's record with other tables to come, or at another place.
LEMMA FindRsdpStep ==
    ASSUME AcpiInv, FindRsdp
    PROVE  AcpiInv'
  <1> DEFINE bda == Cached(Mappings, LowFrame, 1)
             ebda == IF bda.ok THEN Cached(bda, LowFrame, 1) ELSE bda
             inEbda == ebda.ok /\ firmware.rsdp = "ebda" /\ firmware.sound
             rom == IF inEbda THEN ebda ELSE Cached(ebda, RomFrame, 1)
             found == inEbda \/ (rom.ok /\ firmware.rsdp = "rom" /\ firmware.sound)
  <1>1. /\ Leaves(rom) /\ acpi' = [acpi EXCEPT !.at = IF found THEN "root" ELSE "none"]
        /\ firmware' = firmware /\ power' = power
    BY Zenon DEF FindRsdp
  <1>2. LowFrame \in Nat /\ RomFrame \in Nat /\ LowFrame + 1 <= Frames /\ RomFrame + 1 <= Frames
    BY AcpiAssumption, PagingAssumption
  <1>3. MapOK(Mappings)
    BY MappingsOK
  <1>4. After(Mappings, bda)
    BY <1>2, <1>3, CachedWindow
  <1>5. After(Mappings, ebda)
    <2> HIDE DEF bda
    <2>1. After(bda, Cached(bda, LowFrame, 1))
      BY <1>2, <1>4, CachedWindow DEF After
    <2> QED BY <1>4, <2>1, AfterAfter
  <1>6. After(Mappings, rom)
    <2> HIDE DEF ebda, inEbda
    <2>1. After(ebda, Cached(ebda, RomFrame, 1))
      BY <1>2, <1>5, CachedWindow DEF After
    <2> QED BY <1>5, <2>1, AfterAfter
  <1> HIDE DEF rom, found
  <1>7. Memory(pmm', space', crossed') /\ Shown(pt', grants', mapping_cache', cache_index', acpi.tables)
    BY <1>1, <1>6, LeavesShown
  <1>8. AcpiOK(acpi') /\ acpi'.tables = acpi.tables /\ acpi'.fadt = acpi.fadt
    BY <1>1 DEF AcpiInv, AcpiOK
  <1> QED BY <1>1, <1>7, <1>8 DEF AcpiInv, PowerOK

\* What the search for the root table leaves.
Listed(r) == After(Mappings, r.m) /\ r.list \in Seq(AllTables)

LEMMA RsdtListed ==
    ASSUME AcpiInv, NEW m, After(Mappings, m)
    PROVE  Listed(Rsdt(m))
  <1> DEFINE r == firmware.rsdt
             header == Cached(m, r.p, 1)
             whole == IF header.ok /\ r.sig THEN Cached(header, r.p, r.n) ELSE header
  <1>1. Rsdt(m).m = whole /\ (Rsdt(m).list = <<>> \/ Rsdt(m).list = r.list)
    BY DEF Rsdt
  <1>2. r.p \in Nat /\ r.n \in Nat \ {0} /\ r.p + r.n <= Frames /\ r.p + 1 <= Frames /\ r.list \in Seq(AllTables)
    BY FirmwareLists, PagingAssumption DEF AcpiInv, InMemory
  <1> HIDE DEF r
  <1>3. After(m, header)
    BY <1>2, CachedWindow DEF After
  <1>4. After(Mappings, header)
    BY <1>3, AfterAfter
  <1>5. After(Mappings, whole)
    <2> HIDE DEF header
    <2>1. After(header, Cached(header, r.p, r.n))
      BY <1>2, <1>4, CachedWindow DEF After
    <2> QED BY <1>4, <2>1, AfterAfter
  <1> HIDE DEF whole
  <1>6. <<>> \in Seq(AllTables)
    OBVIOUS
  <1> QED BY <1>1, <1>2, <1>5, <1>6 DEF Listed

LEMMA ParseTablesStep ==
    ASSUME AcpiInv, ParseTables
    PROVE  AcpiInv'
  <1> DEFINE x == firmware.xsdt
             header == Cached(Mappings, x.p, 1)
             whole == Cached(header, x.p, x.n)
             lost(m) == [m |-> m, wide |-> TRUE, list |-> <<>>]
             r == RootTable
  <1>1. \/ r = Rsdt(Mappings) \/ r = lost(header) \/ r = Rsdt(header) \/ r = lost(whole) \/ r = Rsdt(whole)
        \/ r = [m |-> whole, wide |-> TRUE, list |-> x.list]
    BY Zenon DEF RootTable
  <1>2. x.p \in Nat /\ x.n \in Nat \ {0} /\ x.p + x.n <= Frames /\ x.p + 1 <= Frames /\ x.list \in Seq(AllTables)
    BY FirmwareLists, PagingAssumption DEF AcpiInv, InMemory
  <1> HIDE DEF x
  <1>3. MapOK(Mappings)
    BY MappingsOK
  <1>4. After(Mappings, header)
    BY <1>2, <1>3, CachedWindow
  <1>5. After(Mappings, whole)
    <2> HIDE DEF header
    <2>1. After(header, whole)
      BY <1>2, <1>4, CachedWindow DEF After
    <2> QED BY <1>4, <2>1, AfterAfter
  <1>6. After(Mappings, Mappings)
    BY <1>3 DEF After, Grows, MapOK
  <1> HIDE DEF header, whole, r
  <1>7. Listed(Rsdt(Mappings)) /\ Listed(Rsdt(header)) /\ Listed(Rsdt(whole))
    BY <1>4, <1>5, <1>6, RsdtListed
  <1>8. Listed(lost(header)) /\ Listed(lost(whole)) /\ Listed([m |-> whole, wide |-> TRUE, list |-> x.list])
    BY <1>2, <1>4, <1>5 DEF Listed
  <1>9. Listed(r)
    <2> HIDE DEF lost
    <2> QED BY <1>1, <1>7, <1>8
  <1>10. /\ Leaves(r.m) /\ acpi' = [acpi EXCEPT !.at = "tables", !.list = r.list, !.wide = r.wide]
         /\ firmware' = firmware /\ power' = power
    BY DEF ParseTables, r
  <1>11. Memory(pmm', space', crossed') /\ Shown(pt', grants', mapping_cache', cache_index', acpi.tables)
    BY <1>9, <1>10, LeavesShown DEF Listed
  <1>12. AcpiOK(acpi') /\ acpi'.tables = acpi.tables /\ acpi'.fadt = acpi.fadt
    BY <1>9, <1>10 DEF AcpiInv, AcpiOK, Listed
  <1> QED BY <1>10, <1>11, <1>12 DEF AcpiInv, PowerOK

LEMMA ParseEntryStep ==
    ASSUME AcpiInv, ParseEntry
    PROVE  AcpiInv'
  <1> DEFINE t == Head(acpi.list)
             high == acpi.wide /\ t.high
             m == IF high THEN Mappings ELSE Mapped(Mappings, t)
             kept == ~high /\ m.ok /\ t.sum
             e == [t |-> t, v |-> m.v]
             ts == IF kept THEN Append(acpi.tables, e) ELSE acpi.tables
  <1>1. /\ Leaves(m) /\ acpi' = [acpi EXCEPT !.list = Tail(acpi.list), !.tables = ts]
        /\ firmware' = firmware /\ power' = power /\ acpi.list # <<>> /\ Len(acpi.tables) < MAX_ACPI_TABLES
    BY DEF ParseEntry
  <1>2. acpi.list \in Seq(AllTables) /\ acpi.tables \in Seq(TableRec) /\ acpi.fadt \in 0 .. Len(acpi.tables)
    BY DEF AcpiInv, AcpiOK
  <1>3. t \in AllTables /\ Tail(acpi.list) \in Seq(AllTables)
    BY <1>1, <1>2
  <1>4. MapOK(Mappings)
    BY MappingsOK
  <1>5. After(Mappings, m) /\ (kept => Window(m.pt, m.v, t.p, t.n))
    <2>1. InMemory(t)
      BY <1>3, TablesInMemory
    <2> DEFINE w == Mapped(Mappings, t)
    <2>2. After(Mappings, w) /\ (w.ok => Window(w.pt, w.v, t.p, t.n))
      BY <1>4, <2>1, MappedWindow
    <2>3. After(Mappings, Mappings)
      BY <1>4 DEF After, Grows, MapOK
    <2> HIDE DEF w, t, high
    <2>4. m = IF high THEN Mappings ELSE w
      BY DEF w
    <2> HIDE DEF m
    <2> QED BY <2>2, <2>3, <2>4
  <1> HIDE DEF t, high, m
  <1>6. /\ Memory(pmm', space', crossed') /\ Shown(pt', grants', mapping_cache', cache_index', acpi.tables)
        /\ pt' = m.pt
    BY <1>1, <1>5, LeavesShown
  <1>7. CASE ~kept
    <2>1. acpi' = [acpi EXCEPT !.list = Tail(acpi.list), !.tables = acpi.tables]
      BY <1>1, <1>7
    <2>2. AcpiOK(acpi') /\ acpi'.tables = acpi.tables /\ acpi'.fadt = acpi.fadt
      BY <1>2, <1>3, <2>1 DEF AcpiInv, AcpiOK
    <2> QED BY <1>1, <1>6, <2>2 DEF AcpiInv, PowerOK
  <1>8. CASE kept
    <2>1. acpi' = [acpi EXCEPT !.list = Tail(acpi.list), !.tables = Append(acpi.tables, e)]
      BY <1>1, <1>8
    <2>2. Window(pt', m.v, t.p, t.n) /\ t.sum
      BY <1>5, <1>6, <1>8
    <2>3. e \in TableRec /\ e.t = t /\ e.v = m.v
      BY <1>3, <2>2 DEF TableRec, Window
    <2> HIDE DEF e
    <2> DEFINE us == Append(acpi.tables, e)
    <2>4. us \in Seq(TableRec) /\ Len(us) = Len(acpi.tables) + 1 /\ us[Len(us)] = e
          /\ \A i \in 1 .. Len(acpi.tables) : us[i] = acpi.tables[i]
      BY <1>2, <2>3
    <2>5. acpi'.tables = us /\ acpi'.fadt = acpi.fadt
      BY <2>1 DEF AcpiInv, AcpiOK
    <2>6. TablesOK(pt', us)
      <3> SUFFICES ASSUME NEW i \in 1 .. Len(us)
                   PROVE  us[i].t.sum /\ Window(pt', us[i].v, us[i].t.p, us[i].t.n)
        BY DEF TablesOK
      <3> HIDE DEF us
      <3>1. CASE i = Len(us)
        BY <3>1, <2>2, <2>3, <2>4
      <3>2. CASE i # Len(us)
        <4>1. i \in 1 .. Len(acpi.tables)
          BY <1>2, <2>4, <3>2
        <4> QED BY <1>6, <2>4, <4>1 DEF Shown, TablesOK
      <3> QED BY <3>1, <3>2
    <2> HIDE DEF us
    <2>7. Len(us) <= MAX_ACPI_TABLES /\ acpi.fadt \in 0 .. Len(us) /\ (acpi.fadt # 0 => us[acpi.fadt].t.sig = "FACP")
      <3>1. Len(us) <= MAX_ACPI_TABLES /\ acpi.fadt \in 0 .. Len(us)
        BY <1>1, <1>2, <2>4, AcpiAssumption
      <3>2. acpi.fadt # 0 => acpi.fadt \in 1 .. Len(acpi.tables) /\ acpi.tables[acpi.fadt].t.sig = "FACP"
        BY <1>2 DEF AcpiInv, AcpiOK
      <3> QED BY <3>1, <3>2, <2>4
    <2>8. AcpiOK(acpi')
      <3>1. /\ DOMAIN acpi' = {"at", "list", "wide", "tables", "fadt", "initialized", "pm1a", "enabled"}
            /\ acpi'.list = Tail(acpi.list)
        BY <2>1 DEF AcpiInv, AcpiOK
      <3> QED BY <1>3, <2>4, <2>5, <2>7, <3>1 DEF AcpiOK
    <2>9. Shown(pt', grants', mapping_cache', cache_index', acpi'.tables)
      BY <1>6, <2>5, <2>6 DEF Shown
    <2>10. PowerOK(power', acpi')
      BY <1>1, <2>5 DEF AcpiInv, PowerOK
    <2> QED BY <1>1, <1>6, <2>8, <2>9, <2>10 DEF AcpiInv
  <1> QED BY <1>7, <1>8

LEMMA FindFadtStep ==
    ASSUME AcpiInv, FindFadt
    PROVE  AcpiInv'
  <1>1. firmware' = firmware /\ power' = power /\ UNCHANGED <<pmm, pt, space, grants, crossed>>
    BY DEF FindFadt, PagingVars
  <1>2. \/ mapping_cache' = EmptyCache /\ cache_index' = 0
        \/ mapping_cache' = mapping_cache /\ cache_index' = cache_index
    BY DEF FindFadt
  <1>3. \/ acpi' = [acpi EXCEPT !.at = "none"]
        \/ acpi' = [acpi EXCEPT !.at = "up", !.initialized = TRUE]
        \/ /\ Facp # {}
           /\ acpi' = [ParseFadt(acpi, Min(Facp)) EXCEPT !.at = "up", !.initialized = TRUE]
    BY Zenon DEF FindFadt
  <1>4. CacheOK(pt, EmptyCache) /\ 0 \in 0 .. CacheSize - 1
    BY AcpiAssumption DEF CacheOK, EmptyCache, EntryRec, NoEntry
  <1>5. Shown(pt', grants', mapping_cache', cache_index', acpi.tables)
    BY <1>1, <1>2, <1>4 DEF AcpiInv, Shown
  <1>6. AcpiOK(acpi) /\ PowerOK(power, acpi) /\ acpi.tables \in Seq(TableRec)
    BY DEF AcpiInv, AcpiOK
  <1>7. AcpiOK(acpi') /\ acpi'.tables = acpi.tables /\ PowerOK(power, acpi')
    <2>1. CASE acpi' = [acpi EXCEPT !.at = "none"]
      BY <1>6, <2>1 DEF AcpiOK, PowerOK
    <2>2. CASE acpi' = [acpi EXCEPT !.at = "up", !.initialized = TRUE]
      BY <1>6, <2>2 DEF AcpiOK, PowerOK
    <2>3. CASE Facp # {} /\ acpi' = [ParseFadt(acpi, Min(Facp)) EXCEPT !.at = "up", !.initialized = TRUE]
      <3>1. Facp \in SUBSET Nat /\ Facp \subseteq 1 .. Len(acpi.tables)
        BY <1>6 DEF Facp
      <3>2. Min(Facp) \in Facp
        BY <2>3, <3>1, MinNat
      <3>3. PICK k \in 1 .. Len(acpi.tables) : k = Min(Facp) /\ acpi.tables[k].t.sig = "FACP"
        BY <3>2 DEF Facp
      <3>4. acpi' = [acpi EXCEPT !.fadt = k, !.pm1a = firmware.pm1a, !.at = "up", !.initialized = TRUE]
        BY <2>3, <3>3, <1>6 DEF ParseFadt, AcpiOK
      <3>5. k \in 0 .. Len(acpi.tables) /\ k # 0
        BY <1>6
      <3> QED BY <1>6, <3>3, <3>4, <3>5 DEF AcpiOK, PowerOK
    <2> QED BY <1>3, <2>1, <2>2, <2>3
  <1> QED BY <1>1, <1>5, <1>7 DEF AcpiInv

\* The control register is written when there is a FADT.
LEMMA PoweredOK ==
    ASSUME AcpiInv, NEW on \in BOOLEAN, NEW end \in {"on", "S5", "ports", "reset", "legacy"},
           acpi' = [acpi EXCEPT !.enabled = on], power' = Powered(on, end)
    PROVE  AcpiOK(acpi') /\ PowerOK(power', acpi') /\ acpi'.tables = acpi.tables
  <1>1. AcpiOK(acpi) /\ PowerOK(power, acpi)
    BY DEF AcpiInv
  <1>2. AcpiOK(acpi') /\ acpi'.tables = acpi.tables /\ acpi'.fadt = acpi.fadt
    BY <1>1 DEF AcpiOK
  <1>3. DOMAIN power' = {"sci", "touched", "end"} /\ power'.end = end
    BY DEF Powered
  <1>4. power'.touched = (power.touched \/ CanEnable)
    BY DEF Powered
  <1>5. power'.touched => acpi.fadt # 0
    BY <1>1, <1>4, Zenon DEF PowerOK, CanEnable
  <1> QED BY <1>2, <1>3, <1>5 DEF PowerOK

LEMMA EnableStep ==
    ASSUME AcpiInv, AcpiEnable \/ PowerOff
    PROVE  AcpiInv'
  <1>1. firmware' = firmware /\ UNCHANGED <<mapping_cache, cache_index, pmm, pt, space, grants, crossed>>
    BY DEF AcpiEnable, PowerOff, PagingVars
  <1>2. PICK on \in BOOLEAN, end \in {"on", "S5", "ports"} :
            acpi' = [acpi EXCEPT !.enabled = on] /\ power' = Powered(on, end)
    BY DEF AcpiEnable, PowerOff
  <1>3. AcpiOK(acpi') /\ PowerOK(power', acpi') /\ acpi'.tables = acpi.tables
    BY <1>2, PoweredOK
  <1> QED BY <1>1, <1>3 DEF AcpiInv

LEMMA ResetStep ==
    ASSUME AcpiInv, Reset
    PROVE  AcpiInv'
  <1> DEFINE byMemory == CanReset /\ firmware.reset = "memory"
             m == IF byMemory THEN Cached(Mappings, firmware.resetAt, 1) ELSE Mappings
             done == CanReset /\ (firmware.reset = "io" \/ (byMemory /\ m.ok))
             end == IF done THEN "reset" ELSE "legacy"
  <1>1. /\ Leaves(m) /\ firmware' = firmware
        /\ \/ \E on \in BOOLEAN : acpi' = [acpi EXCEPT !.enabled = on] /\ power' = Powered(on, end)
           \/ power' = [power EXCEPT !.end = end] /\ acpi' = acpi
    BY Zenon DEF Reset
  <1>2. MapOK(Mappings)
    BY MappingsOK
  <1>3. firmware.resetAt \in Nat /\ firmware.resetAt + 1 <= Frames
    BY FirmwareLists DEF AcpiInv
  <1>4. After(Mappings, Cached(Mappings, firmware.resetAt, 1))
    BY <1>2, <1>3, CachedWindow
  <1>5. After(Mappings, Mappings)
    BY <1>2 DEF After, Grows, MapOK
  <1>6. After(Mappings, m)
    BY <1>4, <1>5
  <1>7. end \in {"on", "S5", "ports", "reset", "legacy"}
    OBVIOUS
  <1> HIDE DEF m, end
  <1>8. Memory(pmm', space', crossed') /\ Shown(pt', grants', mapping_cache', cache_index', acpi.tables)
    BY <1>1, <1>6, LeavesShown
  <1>9. AcpiOK(acpi') /\ PowerOK(power', acpi') /\ acpi'.tables = acpi.tables
    <2>1. CASE \E on \in BOOLEAN : acpi' = [acpi EXCEPT !.enabled = on] /\ power' = Powered(on, end)
      BY <1>7, <2>1, PoweredOK
    <2>2. CASE power' = [power EXCEPT !.end = end] /\ acpi' = acpi
      BY <1>7, <2>2 DEF AcpiInv, PowerOK
    <2> QED BY <1>1, <2>1, <2>2
  <1> QED BY <1>1, <1>8, <1>9 DEF AcpiInv

-----------------------------------------------------------------------------
(* Programs and other drivers.                                             *)

\* Only the memory and the page tables change, and the tables grow.
LEMMA MemoryStep ==
    ASSUME AcpiInv, Memory(pmm', space', crossed'), Grows(pt, pt'), GrantOK(pt', grants'), UNCHANGED AcpiVars
    PROVE  AcpiInv'
  <1>1. UNCHANGED <<firmware, acpi, mapping_cache, cache_index, power>>
    BY DEF AcpiVars
  <1>2. acpi.tables \in Seq(TableRec) /\ Shown(pt, grants, mapping_cache, cache_index, acpi.tables)
    BY DEF AcpiInv, AcpiOK
  <1>3. Shown(pt', grants, mapping_cache, cache_index, acpi.tables)
    BY <1>2, ShownGrows
  <1>4. Shown(pt', grants', mapping_cache, cache_index, acpi.tables)
    BY <1>3 DEF Shown
  <1> QED BY <1>1, <1>4 DEF AcpiInv

LEMMA SpaceStep ==
    ASSUME AcpiInv, NEW s \in Spaces, UNCHANGED AcpiVars,
           \/ CreateSpace(s) \/ DestroySpace(s)
           \/ \E v \in Nat, n \in Nat \ {0}, heap \in BOOLEAN, brk \in Nat : MapRegion(s, v, n, heap, brk)
           \/ \E v \in Nat : UnmapRegion(s, v)
    PROVE  AcpiInv'
  <1>1. Memory(pmm, space, crossed) /\ Windows(pt) /\ GrantOK(pt, grants)
    BY DEF AcpiInv, Shown
  <1>2. Memory(pmm', space', crossed') /\ Grows(pt, pt')
    BY <1>1, CreateStep, DestroyStep, MapStep, UnmapStep
  <1>3. grants' = grants
    BY DEF CreateSpace, DestroySpace, MapRegion, UnmapRegion
  <1>4. GrantOK(pt', grants')
    BY <1>1, <1>2, <1>3, GrantsGrow
  <1> QED BY <1>2, <1>4, MemoryStep

LEMMA DeviceStep ==
    ASSUME AcpiInv, NEW p \in Devices, NEW n \in 1 .. 2, EnsureAccessible(p, n), UNCHANGED AcpiVars
    PROVE  AcpiInv'
  <1>1. Memory(pmm, space, crossed) /\ Windows(pt) /\ GrantOK(pt, grants)
    BY DEF AcpiInv, Shown
  <1>2. p \in Nat /\ n \in Nat \ {0}
    BY PagingAssumption
  <1>3. Grows(pt, pt') /\ GrantOK(pt', grants') /\ UNCHANGED <<pmm, space, crossed>>
    BY <1>1, <1>2, EnsureStep
  <1>4. Memory(pmm', space', crossed')
    BY <1>1, <1>3
  <1> QED BY <1>3, <1>4, MemoryStep

LEMMA PagingStep ==
    ASSUME AcpiInv, PagingNext, UNCHANGED AcpiVars
    PROVE  AcpiInv'
  <1>1. CASE \E p \in Devices, n \in 1 .. 2 : EnsureAccessible(p, n)
    BY <1>1, DeviceStep
  <1>2. ASSUME NEW s \in Spaces,
               \/ CreateSpace(s) \/ DestroySpace(s)
               \/ \E n \in 1 .. 2 : AllocateStack(s, n) \/ AllocateHeap(s, n)
               \/ \E v \in 0 .. UserPages - 1 : Brk(s, v) \/ UnmapRegion(s, v)
        PROVE  AcpiInv'
    <2>0. space[s].heap \in BOOLEAN /\ space[s].brk \in Nat
      BY DEF AcpiInv, Memory, Spaced, SpaceRec
    <2>1. CASE CreateSpace(s) \/ DestroySpace(s)
      BY <2>1, SpaceStep
    <2>2. ASSUME NEW n \in 1 .. 2, AllocateStack(s, n) PROVE AcpiInv'
      <3>1. UserPages - n \in Nat /\ n \in Nat \ {0}
        BY PagingAssumption
      <3>2. MapRegion(s, UserPages - n, n, space[s].heap, space[s].brk)
        BY <2>2 DEF AllocateStack
      <3> QED BY <2>0, <3>1, <3>2, SpaceStep
    <2>3. ASSUME NEW n \in 1 .. 2, AllocateHeap(s, n) PROVE AcpiInv'
      <3>1. HeapStart \in Nat /\ n \in Nat \ {0}
        BY PagingAssumption
      <3>2. MapRegion(s, HeapStart, n, TRUE, HeapStart)
        BY <2>3 DEF AllocateHeap
      <3> QED BY <3>1, <3>2, SpaceStep
    <2>4. ASSUME NEW v \in 0 .. UserPages - 1, Brk(s, v) PROVE AcpiInv'
      <3>1. v > space[s].brk /\ MapRegion(s, space[s].brk, v - space[s].brk, TRUE, v)
        BY <2>4 DEF Brk
      <3>2. v \in Nat /\ v - space[s].brk \in Nat \ {0}
        BY <2>0, <3>1, PagingAssumption
      <3> QED BY <2>0, <3>1, <3>2, SpaceStep
    <2>5. ASSUME NEW v \in 0 .. UserPages - 1, UnmapRegion(s, v) PROVE AcpiInv'
      <3>1. v \in Nat
        BY PagingAssumption
      <3> QED BY <2>5, <3>1, SpaceStep
    <2> QED BY <1>2, <2>1, <2>2, <2>3, <2>4, <2>5
  <1> QED BY <1>1, <1>2 DEF PagingNext

LEMMA AcpiInductive ==
    ASSUME AcpiInv, [AcpiNext \/ (PagingNext /\ UNCHANGED AcpiVars)]_<<PagingVars, AcpiVars>>
    PROVE  AcpiInv'
  <1>1. CASE FindRsdp
    BY <1>1, FindRsdpStep
  <1>2. CASE ParseTables
    BY <1>2, ParseTablesStep
  <1>3. CASE ParseEntry
    BY <1>3, ParseEntryStep
  <1>4. CASE FindFadt
    BY <1>4, FindFadtStep
  <1>5. CASE AcpiEnable \/ PowerOff
    BY <1>5, EnableStep
  <1>6. CASE Reset
    BY <1>6, ResetStep
  <1>7. CASE OtherWindows
    <2>1. UNCHANGED AcpiVars
      BY <1>7 DEF OtherWindows
    <2>2. \/ \E p \in Devices, n \in 1 .. 2 : EnsureAccessible(p, n)
          \/ \E s \in Spaces : CreateSpace(s) \/ DestroySpace(s)
      BY <1>7 DEF OtherWindows
    <2> QED BY <2>1, <2>2, DeviceStep, SpaceStep
  <1>8. CASE PagingNext /\ UNCHANGED AcpiVars
    BY <1>8, PagingStep
  <1>9. CASE UNCHANGED <<PagingVars, AcpiVars>>
    BY <1>9 DEF AcpiInv, PagingVars, AcpiVars
  <1> QED BY <1>1, <1>2, <1>3, <1>4, <1>5, <1>6, <1>7, <1>8, <1>9 DEF AcpiNext

LEMMA AcpiInitial ==
    ASSUME PagingInit, AcpiInit
    PROVE  AcpiInv
  <1>1. Pmm(pmm)
    BY BootedPmm DEF PagingInit
  <1>2. space = [s \in Spaces |-> NoSpace] /\ grants = {} /\ crossed = FALSE
        /\ pt = [v \in Virtual |-> IF v = Direct(MmioFrame) THEN Frames ELSE None]
    BY DEF PagingInit
  <1>3. NoSpace \in SpaceRec /\ NoSpace.pd = None /\ NoSpace.regions = {}
    BY PagingAssumption DEF NoSpace, SpaceRec
  <1>4. Spaced(space)
    BY <1>2, <1>3 DEF Spaced
  <1>5. \A s \in Spaces : PartsOf(space)[s] = {}
    BY <1>2, <1>3, PartsIs
  <1>6. Memory(pmm, space, crossed)
    BY <1>1, <1>2, <1>4, <1>5 DEF Memory, OwnedBy
  <1>7. Windows(pt)
    BY <1>2, PagingAssumption DEF Windows
  <1>8. GrantOK(pt, grants)
    BY <1>2 DEF GrantOK
  <1>9. /\ firmware \in Firmwares /\ acpi = NoTables /\ mapping_cache = EmptyCache /\ cache_index = 0
        /\ \E sci \in BOOLEAN : power = [sci |-> sci, touched |-> FALSE, end |-> "on"]
    BY DEF AcpiInit
  <1>10. CacheOK(pt, EmptyCache) /\ 0 \in 0 .. CacheSize - 1
    BY AcpiAssumption DEF CacheOK, EmptyCache, EntryRec, NoEntry
  <1>11. acpi.tables = <<>> /\ acpi.fadt = 0 /\ AcpiOK(acpi)
    BY <1>9, AcpiAssumption DEF NoTables, AcpiOK
  <1>12. TablesOK(pt, acpi.tables)
    BY <1>11 DEF TablesOK
  <1>13. PowerOK(power, acpi)
    BY <1>9 DEF PowerOK
  <1> QED BY <1>6, <1>7, <1>8, <1>9, <1>10, <1>11, <1>12, <1>13 DEF AcpiInv, Shown

LEMMA AcpiImplies ==
    ASSUME AcpiInv
    PROVE  MappingSound /\ PagingTypeOK /\ AcpiTypeOK
  <1>1. Memory(pmm, space, crossed) /\ Windows(pt) /\ GrantOK(pt, grants) /\ CacheOK(pt, mapping_cache)
        /\ cache_index \in 0 .. CacheSize - 1 /\ TablesOK(pt, acpi.tables) /\ AcpiOK(acpi) /\ PowerOK(power, acpi)
    BY DEF AcpiInv, Shown
  <1>2. FramesOwned
    BY <1>1, OwnedFrames DEF Memory
  <1>3. GrantsHold
    BY <1>1 DEF GrantOK, GrantsHold
  <1>4. TablesShown
    <2>1. ASSUME NEW i \in DOMAIN mapping_cache, mapping_cache[i].valid
          PROVE  Shows(pt, mapping_cache[i].v, mapping_cache[i].p, mapping_cache[i].n)
      BY <1>1, <2>1 DEF CacheOK, Window
    <2>2. ASSUME NEW i \in 1 .. Len(acpi.tables)
          PROVE  /\ acpi.tables[i].t.sum
                 /\ Shows(pt, acpi.tables[i].v, acpi.tables[i].t.p, acpi.tables[i].t.n)
      BY <1>1 DEF TablesOK, Window
    <2>3. power.touched => acpi.fadt # 0 /\ acpi.tables[acpi.fadt].t.sig = "FACP"
      BY <1>1 DEF PowerOK, AcpiOK
    <2> QED BY <2>1, <2>2, <2>3 DEF TablesShown
  <1>5. PagingTypeOK
    <2>1. pmm.free \subseteq 0 .. pmm.total - 1
      BY <1>1 DEF Memory, Pmm
    <2>2. ASSUME NEW v \in Virtual PROVE pt[v] \in {None} \cup (IF v < UserPages THEN Nat ELSE 0 .. Frames)
      <3>1. v \in Nat /\ UserPages \in Nat
        BY PagingAssumption DEF Virtual
      <3>2. CASE v < UserPages
        BY <1>1, <3>2 DEF Windows
      <3>3. CASE v >= UserPages
        BY <1>1, <3>1, <3>3 DEF Windows
      <3> QED BY <3>1, <3>2, <3>3
    <2> QED BY <2>1, <2>2 DEF PagingTypeOK
  <1>6. AcpiTypeOK
    BY <1>1 DEF AcpiOK, PowerOK, AcpiTypeOK
  <1> QED BY <1>2, <1>3, <1>4, <1>5, <1>6 DEF MappingSound, PagingSound

-----------------------------------------------------------------------------
LEMMA AcpiInvariant == AcpiSpec => []AcpiInv
  <1>1. PagingInit /\ AcpiInit => AcpiInv
    BY AcpiInitial
  <1>2. AcpiInv /\ [AcpiNext \/ (PagingNext /\ UNCHANGED AcpiVars)]_<<PagingVars, AcpiVars>> => AcpiInv'
    BY AcpiInductive
  <1> QED BY <1>1, <1>2, PTL DEF AcpiSpec

(* Whatever the boot loader and the firmware report and in whatever order    *)
(* programs come and go, drivers ask for windows and acpi_init goes through  *)
(* its tables: unless a run of pages crossed the end of a region no frame    *)
(* has two owners or is free while it is used, every window granted stays    *)
(* mapped, and every cached window and kept table can be read whole although *)
(* a hit checks its first page only (pmm.c, mmu.c, vmm.c, acpi.c).           *)
THEOREM MappingCorrect == AcpiSpec => []MappingSound
  <1>1. AcpiInv => MappingSound
    BY AcpiImplies
  <1> QED BY <1>1, AcpiInvariant, PTL

(* The types of the memory manager's, the page tables' and ACPI's state.    *)
THEOREM MappingTypeCorrect == AcpiSpec => [](PagingTypeOK /\ AcpiTypeOK)
  <1>1. AcpiInv => PagingTypeOK /\ AcpiTypeOK
    BY AcpiImplies
  <1> QED BY <1>1, AcpiInvariant, PTL
=============================================================================
