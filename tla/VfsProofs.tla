----------------------------- MODULE VfsProofs -----------------------------
(***************************************************************************)
(* The mount table, the superblocks and the open files, for every number   *)
(* of tasks, descriptors, partitions and mount points.                     *)
(***************************************************************************)
EXTENDS Vfs, Lemmas

Texts == [path : Seq(Name), normal : BOOLEAN]
Entry == [mp : Texts, sb : Sb, part : Part \cup {NULL}]
Superblock == [refcount : Nat, fs : {"fat32", "tmpfs"}, device : Disk \cup {NULL},
               part : Part \cup {NULL}, root : BOOLEAN]

-----------------------------------------------------------------------------
(* find_mount_for_path.                                                    *)

\* The loop's variable after i entries.
BestStep(ml, path, b, i) ==
    IF /\ Under(ml[i], path)
       /\ b = 0 \/ Len(ml[i].mp.path) > Len(ml[b].mp.path)
    THEN i ELSE b
IsBest(ml, path, n, g) == g = [i \in 0..n |-> IF i = 0 THEN 0 ELSE BestStep(ml, path, g[i - 1], i)]

\* Each turn of the loop is computed from the one before.
LEMMA BestExists ==
    ASSUME NEW ml, NEW path, NEW n \in Nat
    PROVE  \E g : IsBest(ml, path, n, g)
  <1> DEFINE Step(b, i) == BestStep(ml, path, b, i)
             Bad == {m \in Nat : ~\E g : IsBest(ml, path, m, g)}
  <1>1. Bad = {}
    <2> SUFFICES ASSUME Bad # {} PROVE FALSE
      OBVIOUS
    <2>1. PICK m \in Bad : \A k \in Bad : m <= k
      BY LeastNat
    <2>2. IsBest(ml, path, 0, [i \in 0..0 |-> 0])
      BY DEF IsBest
    <2>3. m # 0
      BY <2>1, <2>2
    <2>4. m - 1 \in Nat /\ m - 1 \notin Bad /\ m \in Nat
      <3>1. m \in Nat
        OBVIOUS
      <3> HIDE DEF Bad
      <3> QED BY <3>1, <2>1, <2>3
    <2>5. PICK g : IsBest(ml, path, m - 1, g)
      BY <2>4
    <2> HIDE DEF Step
    <2> DEFINE h == [i \in 0..m |-> IF i = m THEN Step(g[m - 1], m) ELSE g[i]]
    <2>6. \A i \in 0..m - 1 : g[i] = IF i = 0 THEN 0 ELSE Step(g[i - 1], i)
      BY <2>5, Zenon DEF IsBest, Step
    <2>7. ASSUME NEW i \in 0..m PROVE h[i] = IF i = 0 THEN 0 ELSE Step(h[i - 1], i)
      <3>1. CASE i = m
        <4>1. h[i] = Step(g[m - 1], m)
          BY <3>1, <2>4
        <4>2. h[i - 1] = g[m - 1]
          BY <3>1, <2>4, <2>3
        <4> QED BY <4>1, <4>2, <3>1, <2>3
      <3>2. CASE i # m
        <4>1. i \in 0..(m - 1) /\ h[i] = g[i]
          BY <3>2, <2>4
        <4>2. i # 0 => h[i - 1] = g[i - 1]
          BY <4>1, <2>4
        <4> QED BY <4>1, <4>2, <2>6
      <3> QED BY <3>1, <3>2
    <2>8. h = [i \in 0..m |-> h[i]]
      OBVIOUS
    <2> HIDE DEF h
    <2>9. IsBest(ml, path, m, h)
      BY <2>7, <2>8, Zenon DEF IsBest, Step
    <2> QED BY <2>9, <2>1
  <1> QED BY <1>1

\* Of the first i entries above the path, j is the one to take.
Above(ml, path, i) == {k \in 1..i : Under(ml[k], path)}
Takes(ml, path, i, b) ==
    IF Above(ml, path, i) = {} THEN b = 0
    ELSE /\ b \in Above(ml, path, i)
         /\ \A k \in Above(ml, path, i) \ {b} :
               \/ Len(ml[k].mp.path) < Len(ml[b].mp.path)
               \/ Len(ml[k].mp.path) = Len(ml[b].mp.path) /\ b < k

\* One turn of the loop.
LEMMA TakesStep ==
    ASSUME NEW ml \in Seq(Entry), NEW path, NEW i \in 1..Len(ml), NEW b, Takes(ml, path, i - 1, b)
    PROVE  Takes(ml, path, i, BestStep(ml, path, b, i))
  <1> DEFINE A == Above(ml, path, i - 1)
             B == Above(ml, path, i)
             L(k) == Len(ml[k].mp.path)
  <1>0. i \in Nat \ {0} /\ \A k \in 1..i : L(k) \in Nat
    <2>1. Len(ml) \in Nat /\ i \in Nat \ {0}
      BY LenProperties
    <2>2. ASSUME NEW k \in 1..i PROVE L(k) \in Nat
      <3>1. ml[k] \in Entry
        BY <2>1, ElementOfSeq
      <3>2. ml[k].mp.path \in Seq(Name)
        BY <3>1 DEF Entry, Texts
      <3> QED BY <3>2, LenProperties
    <2> QED BY <2>1, <2>2
  <1>1. A = {k \in 1..i - 1 : Under(ml[k], path)} /\ B = {k \in 1..i : Under(ml[k], path)}
    BY DEF Above
  <1>2. IF A = {} THEN b = 0
        ELSE /\ b \in A
             /\ \A k \in A \ {b} : L(k) < L(b) \/ (L(k) = L(b) /\ b < k)
    BY DEF Takes
  <1> DEFINE c == BestStep(ml, path, b, i)
  <1>3. c = IF Under(ml[i], path) /\ (b = 0 \/ L(i) > L(b)) THEN i ELSE b
    BY DEF BestStep
  <1> HIDE DEF A, B, L, c
  <1>4. CASE ~Under(ml[i], path)
    <2>1. B = A /\ c = b
      BY <1>0, <1>1, <1>3, <1>4
    <2> QED BY <1>2, <2>1 DEF Takes, A, B, L, c
  <1>5. CASE Under(ml[i], path)
    <2>1. B = A \cup {i} /\ i \notin A /\ A \subseteq 1..i - 1
      BY <1>0, <1>1, <1>5
    <2>2. CASE A = {}
      <3>1. c = i /\ B = {i}
        BY <1>2, <1>3, <1>5, <2>1, <2>2
      <3> QED BY <3>1 DEF Takes, B, c
    <2>3. CASE A # {}
      <3>1. b \in A /\ b # 0 /\ b < i /\ b \in 1..i
        <4>1. b \in A
          BY <1>2, <2>3
        <4>2. b \in 1..i - 1
          BY <2>1, <4>1
        <4> QED BY <1>0, <4>1, <4>2
      <3>2. c = IF L(i) > L(b) THEN i ELSE b
        BY <1>3, <1>5, <3>1
      <3>3. c \in B
        BY <2>1, <3>1, <3>2
      <3>4. ASSUME NEW k \in B \ {c} PROVE L(k) < L(c) \/ (L(k) = L(c) /\ c < k)
        <4>1. L(k) \in Nat /\ L(b) \in Nat /\ L(i) \in Nat /\ k \in 1..i
          BY <1>0, <2>1, <3>1, <3>4
        <4>2. CASE L(i) > L(b)
          <5>1. c = i /\ k \in A
            BY <2>1, <3>2, <3>4, <4>2
          <5>2. k = b \/ L(k) <= L(b)
            BY <1>2, <2>3, <4>1, <5>1
          <5> QED BY <4>1, <4>2, <5>1, <5>2
        <4>3. CASE ~(L(i) > L(b))
          <5>1. c = b
            BY <3>2, <4>3
          <5>2. CASE k = i
            BY <3>1, <4>1, <4>3, <5>1, <5>2
          <5>3. CASE k # i
            BY <1>2, <2>1, <2>3, <3>4, <5>1, <5>3
          <5> QED BY <5>2, <5>3
        <4> QED BY <4>2, <4>3
      <3>5. B # {}
        BY <3>3
      <3> QED BY <3>3, <3>4, <3>5 DEF Takes, B, L, c
    <2> QED BY <2>2, <2>3
  <1> QED BY <1>4, <1>5

\* The whole loop.
LEMMA FindLemma ==
    ASSUME NEW ml \in Seq(Entry), NEW path
    PROVE  Takes(ml, path, Len(ml), FindMount(ml, path))
  <1>0. Len(ml) \in Nat
    BY LenProperties
  <1>1. PICK h : IsBest(ml, path, Len(ml), h)
    BY <1>0, BestExists
  <1> DEFINE g == CHOOSE f : IsBest(ml, path, Len(ml), f)
  <1>2. IsBest(ml, path, Len(ml), g)
    BY <1>1
  <1>3. FindMount(ml, path) = g[Len(ml)]
    BY DEF FindMount, IsBest, BestStep
  <1> HIDE DEF g
  <1>4. \A i \in 0..Len(ml) : g[i] = IF i = 0 THEN 0 ELSE BestStep(ml, path, g[i - 1], i)
    BY <1>2, Zenon DEF IsBest
  <1> DEFINE Bad == {i \in 0..Len(ml) : ~Takes(ml, path, i, g[i])}
  <1>5. Bad = {}
    <2> SUFFICES ASSUME Bad # {} PROVE FALSE
      OBVIOUS
    <2>0. Bad \in SUBSET Nat
      BY <1>0
    <2>1. PICK m \in Bad : \A k \in Bad : m <= k
      BY <2>0, LeastNat
    <2>2. m \in 0..Len(ml) /\ ~Takes(ml, path, m, g[m])
      BY <2>1
    <2>3. m # 0
      <3>1. Takes(ml, path, 0, g[0])
        BY <1>0, <1>4 DEF Takes, Above
      <3> QED BY <2>2, <3>1
    <2>4. m - 1 \in 0..Len(ml) /\ m - 1 \notin Bad /\ m \in 1..Len(ml)
      <3> HIDE DEF Bad
      <3> QED BY <1>0, <2>1, <2>2, <2>3
    <2>5. Takes(ml, path, m - 1, g[m - 1])
      BY <2>4
    <2>6. g[m] = BestStep(ml, path, g[m - 1], m)
      BY <1>4, <2>2, <2>3
    <2> QED BY <2>2, <2>4, <2>5, <2>6, TakesStep
  <1> QED BY <1>0, <1>3, <1>5

\* What find_mount_for_path returns is an entry of the list, or none.
LEMMA FindDomain ==
    ASSUME NEW ml \in Seq(Entry), NEW path
    PROVE  FindMount(ml, path) \in DOMAIN ml \cup {0}
  <1>1. DOMAIN ml = 1..Len(ml)
    BY LenProperties
  <1> QED BY <1>1, FindLemma DEF Takes, Above

\* Two mount points above one path that are as long as each other are the
\* same.
LEMMA SamePrefix ==
    ASSUME NEW a \in Seq(Name), NEW b \in Seq(Name), NEW path,
           IsPrefix(a, path), IsPrefix(b, path), Len(a) = Len(b)
    PROVE  a = b
  <1>1. SubSeq(a, 1, Len(a)) = SubSeq(b, 1, Len(b))
    BY DEF IsPrefix
  <1>2. SubSeq(a, 1, Len(a)) = a /\ SubSeq(b, 1, Len(b)) = b
    BY SubSeqFull
  <1> QED BY <1>1, <1>2

-----------------------------------------------------------------------------
(* The number of mounts of a superblock.                                   *)

On(ml, s) == {i \in DOMAIN ml : ml[i].sb = s}

\* Sets that correspond one to one have as many elements.
LEMMA SameSize ==
    ASSUME NEW S, NEW T, IsFiniteSet(S), NEW f \in [S -> T],
           \A x, y \in S : f[x] = f[y] => x = y, \A z \in T : \E x \in S : f[x] = z
    PROVE  IsFiniteSet(T) /\ Cardinality(T) = Cardinality(S)
  <1>1. f \in Bijection(S, T)
    BY DEF Bijection, Injection, Surjection, IsInjective
  <1>2. ExistsBijection(S, T)
    BY <1>1 DEF ExistsBijection
  <1> QED BY <1>2, FS_Bijection

\* The indices of a list form a finite set.
LEMMA OnFinite ==
    ASSUME NEW ml \in Seq(Entry), NEW s
    PROVE  IsFiniteSet(On(ml, s)) /\ Cardinality(On(ml, s)) \in Nat
  <1>1. On(ml, s) \subseteq 1..Len(ml) /\ Len(ml) \in Nat
    BY LenProperties DEF On
  <1>2. IsFiniteSet(1..Len(ml))
    BY <1>1, FS_Interval
  <1> QED BY <1>1, <1>2, FS_Subset, FS_CardinalityType

\* A new mount goes to the front of the list.
LEMMA PutFront ==
    ASSUME NEW ml \in Seq(Entry), NEW e \in Entry, NEW s
    PROVE  /\ <<e>> \o ml \in Seq(Entry)
           /\ \A x \in Sb : On(ml, x) # {} => On(<<e>> \o ml, x) # {}
           /\ Cardinality(On(<<e>> \o ml, s)) = Cardinality(On(ml, s)) + (IF e.sb = s THEN 1 ELSE 0)
           /\ \A i \in DOMAIN (<<e>> \o ml) : (<<e>> \o ml)[i] = e \/ \E j \in DOMAIN ml : (<<e>> \o ml)[i] = ml[j]
  <1> DEFINE l == <<e>> \o ml
  <1>0. Len(ml) \in Nat /\ DOMAIN ml = 1..Len(ml)
    BY LenProperties
  <1>1. /\ l \in Seq(Entry) /\ Len(l) = Len(ml) + 1 /\ DOMAIN l = 1..Len(ml) + 1
        /\ l[1] = e /\ \A i \in 1..Len(ml) : l[i + 1] = ml[i]
    <2>1. <<e>> \in Seq(Entry) /\ Len(<<e>>) = 1 /\ <<e>>[1] = e
      OBVIOUS
    <2>2. l \in Seq(Entry) /\ Len(l) = Len(<<e>>) + Len(ml)
          /\ \A i \in 1..Len(<<e>>) + Len(ml) : l[i] = IF i <= Len(<<e>>) THEN <<e>>[i] ELSE ml[i - Len(<<e>>)]
      BY <2>1, ConcatProperties
    <2> HIDE DEF l
    <2>3. Len(l) = Len(ml) + 1 /\ \A i \in 1..Len(ml) + 1 : l[i] = IF i <= 1 THEN e ELSE ml[i - 1]
      BY <1>0, <2>1, <2>2
    <2>4. DOMAIN l = 1..Len(ml) + 1
      BY <2>2, <2>3, LenProperties
    <2>5. \A i \in 1..Len(ml) : i + 1 \in 1..Len(ml) + 1 /\ ~(i + 1 <= 1) /\ (i + 1) - 1 = i
      BY <1>0
    <2>6. 1 \in 1..Len(ml) + 1
      BY <1>0
    <2> QED BY <2>2, <2>3, <2>4, <2>5, <2>6
  <1> HIDE DEF l
  <1> DEFINE T == On(l, s) \ {1}
             f == [i \in On(ml, s) |-> i + 1]
  <1>2. f \in [On(ml, s) -> T]
    BY <1>0, <1>1 DEF On
  <1>3. \A x, y \in On(ml, s) : f[x] = f[y] => x = y
    BY <1>0 DEF On
  <1>4. ASSUME NEW z \in T PROVE \E x \in On(ml, s) : f[x] = z
    <2>1. z \in 1..Len(ml) + 1 /\ z # 1 /\ l[z].sb = s
      BY <1>1 DEF On
    <2>2. z - 1 \in 1..Len(ml) /\ (z - 1) + 1 = z
      BY <1>0, <2>1
    <2>3. l[z] = ml[z - 1]
      BY <1>1, <2>2
    <2>4. z - 1 \in On(ml, s)
      BY <1>0, <2>1, <2>2, <2>3 DEF On
    <2> QED BY <2>2, <2>4
  <1>5. Cardinality(T) = Cardinality(On(ml, s)) /\ IsFiniteSet(T)
    <2> HIDE DEF f, T
    <2> QED BY <1>2, <1>3, <1>4, OnFinite, SameSize
  <1>6. Cardinality(On(l, s)) = Cardinality(On(ml, s)) + (IF e.sb = s THEN 1 ELSE 0)
    <2>1. CASE e.sb = s
      <3>1. On(l, s) = T \cup {1} /\ 1 \notin T
        BY <1>0, <1>1, <2>1 DEF On
      <3> HIDE DEF T
      <3> QED BY <1>5, <2>1, <3>1, FS_AddElement
    <2>2. CASE e.sb # s
      <3>1. On(l, s) = T
        BY <1>1, <2>2 DEF On
      <3>2. Cardinality(On(ml, s)) \in Nat
        BY OnFinite
      <3> HIDE DEF T
      <3> QED BY <1>5, <2>2, <3>1, <3>2
    <2> QED BY <2>1, <2>2
  <1>7. ASSUME NEW i \in DOMAIN l PROVE l[i] = e \/ \E j \in DOMAIN ml : l[i] = ml[j]
    <2>1. CASE i = 1
      BY <1>1, <2>1
    <2>2. CASE i # 1
      <3>1. i - 1 \in 1..Len(ml) /\ (i - 1) + 1 = i
        BY <1>0, <1>1, <2>2
      <3> QED BY <1>0, <1>1, <3>1
    <2> QED BY <2>1, <2>2
  <1>8. ASSUME NEW x \in Sb, On(ml, x) # {} PROVE On(l, x) # {}
    <2>1. PICK j \in 1..Len(ml) : ml[j].sb = x
      BY <1>0, <1>8 DEF On
    <2>2. j + 1 \in DOMAIN l /\ l[j + 1].sb = x
      BY <1>0, <1>1, <2>1
    <2> QED BY <2>2 DEF On
  <1> QED BY <1>1, <1>6, <1>7, <1>8 DEF l

\* An unmount takes one entry out of the list.
LEMMA TakeOut ==
    ASSUME NEW ml \in Seq(Entry), NEW i \in DOMAIN ml, NEW s
    PROVE  /\ RemoveAt(ml, i) \in Seq(Entry)
           /\ Cardinality(On(RemoveAt(ml, i), s)) =
                Cardinality(On(ml, s)) - (IF ml[i].sb = s THEN 1 ELSE 0)
           /\ ml[i].sb # s /\ On(ml, s) # {} => On(RemoveAt(ml, i), s) # {}
           /\ \A k \in DOMAIN RemoveAt(ml, i) : \E j \in DOMAIN ml \ {i} : RemoveAt(ml, i)[k] = ml[j]
  <1> DEFINE l == RemoveAt(ml, i)
             n == Len(ml)
             up(k) == IF k < i THEN k ELSE k + 1
  <1>0. n \in Nat /\ DOMAIN ml = 1..n /\ i \in 1..n
    BY LenProperties
  <1>1. l \in Seq(Entry) /\ DOMAIN l = 1..n - 1 /\ \A k \in 1..n - 1 : l[k] = ml[up(k)]
    <2> DEFINE a == SubSeq(ml, 1, i - 1)
               b == SubSeq(ml, i + 1, n)
    <2>1. a \in Seq(Entry) /\ Len(a) = i - 1 /\ \A k \in 1..i - 1 : a[k] = ml[k]
      <3>1. \A k \in 1..i - 1 : ml[k] \in Entry /\ k \in DOMAIN ml
        BY <1>0, ElementOfSeq
      <3>2. a = [k \in 1..i - 1 |-> ml[k]]
        BY <1>0, SubSeqProperties
      <3> QED BY <1>0, <3>1, <3>2, IsASeq
    <2>2. b \in Seq(Entry) /\ Len(b) = n - i /\ \A k \in 1..n - i : b[k] = ml[i + k]
      BY <1>0, SubSeqProperties
    <2>3. l = a \o b
      BY DEF RemoveAt
    <2> HIDE DEF l, a, b, n
    <2>4. l \in Seq(Entry) /\ Len(l) = Len(a) + Len(b)
          /\ \A k \in 1..Len(a) + Len(b) : l[k] = IF k <= Len(a) THEN a[k] ELSE b[k - Len(a)]
      BY <2>1, <2>2, <2>3, ConcatProperties
    <2>5. Len(l) = n - 1 /\ \A k \in 1..n - 1 : l[k] = IF k <= i - 1 THEN a[k] ELSE b[k - (i - 1)]
      BY <1>0, <2>1, <2>2, <2>4
    <2>6. ASSUME NEW k \in 1..n - 1 PROVE l[k] = ml[up(k)]
      <3>1. CASE k < i
        BY <1>0, <2>1, <2>5, <3>1
      <3>2. CASE ~(k < i)
        <4>1. k - (i - 1) \in 1..n - i /\ i + (k - (i - 1)) = k + 1 /\ ~(k <= i - 1)
          BY <1>0, <3>2
        <4>2. b[k - (i - 1)] = ml[k + 1]
          BY <2>2, <4>1
        <4> QED BY <2>5, <3>2, <4>1, <4>2
      <3> QED BY <3>1, <3>2
    <2>7. DOMAIN l = 1..n - 1
      BY <2>4, <2>5, LenProperties
    <2> QED BY <2>4, <2>6, <2>7
  <1> HIDE DEF l, n
  <1> DEFINE T == On(ml, s) \ {i}
             f == [k \in On(l, s) |-> up(k)]
  <1>2. f \in [On(l, s) -> T]
    <2> SUFFICES ASSUME NEW k \in On(l, s) PROVE up(k) \in T
      OBVIOUS
    <2>1. k \in 1..n - 1 /\ l[k].sb = s
      BY <1>1 DEF On
    <2>2. up(k) \in 1..n /\ up(k) # i
      BY <1>0, <2>1
    <2> QED BY <1>0, <1>1, <2>1, <2>2 DEF On
  <1>3. ASSUME NEW x \in On(l, s), NEW y \in On(l, s), f[x] = f[y] PROVE x = y
    <2>1. x \in Int /\ y \in Int /\ i \in Int /\ up(x) = up(y)
      BY <1>0, <1>1, <1>3 DEF On
    <2> QED BY <2>1
  <1>4. ASSUME NEW z \in T PROVE \E x \in On(l, s) : f[x] = z
    <2> DEFINE x == IF z < i THEN z ELSE z - 1
    <2>1. z \in 1..n /\ z # i /\ ml[z].sb = s
      BY <1>0 DEF On
    <2>2. x \in 1..n - 1 /\ up(x) = z
      BY <1>0, <2>1
    <2> HIDE DEF x, up
    <2>3. x \in On(l, s)
      BY <1>1, <2>1, <2>2 DEF On
    <2> QED BY <2>2, <2>3
  <1> HIDE DEF f
  <1>5. Cardinality(On(l, s)) = Cardinality(T)
    <2>1. l \in Seq(Entry)
      BY <1>1
    <2> HIDE DEF T
    <2> QED BY <2>1, <1>2, <1>3, <1>4, OnFinite, SameSize
  <1>6. Cardinality(On(l, s)) = Cardinality(On(ml, s)) - (IF ml[i].sb = s THEN 1 ELSE 0)
    <2>0. IsFiniteSet(On(ml, s)) /\ Cardinality(On(ml, s)) \in Nat
      BY OnFinite
    <2>1. CASE ml[i].sb = s
      <3>1. i \in On(ml, s)
        BY <2>1 DEF On
      <3>2. Cardinality(On(ml, s) \ {i}) = Cardinality(On(ml, s)) - 1
        BY <2>0, <3>1, FS_RemoveElement
      <3>3. Cardinality(T) = Cardinality(On(ml, s)) - 1
        BY <3>2
      <3> HIDE DEF T
      <3> QED BY <1>5, <2>0, <2>1, <3>3
    <2>2. CASE ml[i].sb # s
      <3>1. T = On(ml, s)
        BY <2>2 DEF On
      <3> HIDE DEF T
      <3> QED BY <1>5, <2>0, <2>2, <3>1
    <2> QED BY <2>1, <2>2
  <1>7. ASSUME ml[i].sb # s, On(ml, s) # {} PROVE On(l, s) # {}
    <2>1. PICK z \in On(ml, s) : TRUE
      BY <1>7
    <2>2. z \in T
      BY <1>7, <2>1 DEF On
    <2> QED BY <1>4, <2>2
  <1>8. ASSUME NEW k \in DOMAIN l PROVE \E j \in DOMAIN ml \ {i} : l[k] = ml[j]
    <2>1. up(k) \in DOMAIN ml \ {i}
      BY <1>0, <1>1
    <2> QED BY <1>1, <2>1
  <1> QED BY <1>1, <1>6, <1>7, <1>8 DEF l
-----------------------------------------------------------------------------
(* Mounting and unmounting.                                                *)

\* The mount list and the superblocks agree on who mounts what.
Mounts(ml, sbs) ==
    /\ ml \in Seq(Entry)
    /\ DOMAIN sbs \in SUBSET Sb /\ sbs \in [DOMAIN sbs -> Superblock]
    /\ \A i \in DOMAIN ml : ml[i].sb \in DOMAIN sbs
    /\ \A s \in DOMAIN sbs : sbs[s].refcount = Cardinality(On(ml, s))

\* A superblock whose files can be used.
Live(ml, sbs, s) == s \in DOMAIN sbs /\ sbs[s].root /\ On(ml, s) # {}

\* What changing one field of a superblock gives.
LEMMA SuperblockLemma ==
    ASSUME NEW b \in Superblock, NEW n \in Nat
    PROVE  /\ [b EXCEPT !.refcount = n] \in Superblock
           /\ [b EXCEPT !.refcount = n].refcount = n /\ [b EXCEPT !.refcount = n].root = b.root
           /\ [b EXCEPT !.root = FALSE] \in Superblock
           /\ [b EXCEPT !.root = FALSE].refcount = b.refcount
           /\ [b EXCEPT !.refcount = n, !.root = FALSE] \in Superblock
           /\ [b EXCEPT !.refcount = n, !.root = FALSE].refcount = n
  <1> DEFINE c == [b EXCEPT !.refcount = n]
             d == [b EXCEPT !.root = FALSE]
             e == [c EXCEPT !.root = FALSE]
  <1>1. c = [refcount |-> n, fs |-> b.fs, device |-> b.device, part |-> b.part, root |-> b.root]
    BY DEF Superblock
  <1>2. d = [refcount |-> b.refcount, fs |-> b.fs, device |-> b.device, part |-> b.part, root |-> FALSE]
    <2>1. ASSUME NEW v PROVE [b EXCEPT !.root = v] =
            [refcount |-> b.refcount, fs |-> b.fs, device |-> b.device, part |-> b.part, root |-> v]
      BY DEF Superblock
    <2> QED BY <2>1, Zenon
  <1>3. /\ b.refcount \in Nat /\ b.fs \in {"fat32", "tmpfs"} /\ b.device \in Disk \cup {NULL}
        /\ b.part \in Part \cup {NULL} /\ b.root \in BOOLEAN
    BY DEF Superblock
  <1>4. e = [[b EXCEPT !.refcount = n] EXCEPT !.root = FALSE]
    OBVIOUS
  <1>5. c \in Superblock /\ c.refcount = n /\ c.root = b.root
    <2> HIDE DEF c
    <2> QED BY <1>1, <1>3 DEF Superblock
  <1>6. d \in Superblock /\ d.refcount = b.refcount
    <2> HIDE DEF d
    <2> QED BY <1>2, <1>3 DEF Superblock
  <1>7. e \in Superblock /\ e.refcount = n
    <2> HIDE DEF c
    <2>1. e = [refcount |-> n, fs |-> b.fs, device |-> b.device, part |-> b.part, root |-> FALSE]
      <3>1. ASSUME NEW v PROVE [c EXCEPT !.root = v] =
              [refcount |-> n, fs |-> b.fs, device |-> b.device, part |-> b.part, root |-> v]
        BY <1>1
      <3> QED BY <3>1, Zenon
    <2> HIDE DEF e
    <2> QED BY <1>3, <2>1 DEF Superblock
  <1> QED BY <1>5, <1>6, <1>7, Zenon

\* vfs_mount, whatever it returns, keeps the counts, and every superblock in
\* use with them.
LEMMA MountLemma ==
    ASSUME NEW ml, NEW sbs, Mounts(ml, sbs), NEW mp \in Texts, NEW d \in Disk \cup {NULL},
           NEW p \in Part \cup {NULL}, NEW r \in VfsMount(ml, sbs, mp, d, p)
    PROVE  /\ Mounts(r.ml, r.sbs)
           /\ \A x : Live(ml, sbs, x) => Live(r.ml, r.sbs, x)
  <1> USE DEF Mounts
  <1>1. CASE r = Failed(ml, sbs)
    BY <1>1 DEF Failed
  <1>2. CASE r \in ShareOrCreate(ml, sbs, mp, d, p)
    <2>1. CASE MountedOn(ml, sbs, d) # {}
      <3> DEFINE j == Min(MountedOn(ml, sbs, d))
                 s == ml[j].sb
                 e == [mp |-> mp, sb |-> s, part |-> p]
                 b == [sbs[s] EXCEPT !.refcount = sbs[s].refcount + 1]
      <3>1. j \in DOMAIN ml
        <4>1. MountedOn(ml, sbs, d) \in SUBSET Nat
          BY LenProperties DEF MountedOn
        <4>2. j \in MountedOn(ml, sbs, d)
          BY <2>1, <4>1, MinNat
        <4> QED BY <4>2 DEF MountedOn
      <3>2. s \in DOMAIN sbs /\ s \in Sb
        BY <3>1
      <3>3. r.ml = <<e>> \o ml /\ r.sbs = [sbs EXCEPT ![s] = b]
        BY <1>2, <2>1 DEF ShareOrCreate
      <3>4. e \in Entry /\ e.sb = s
        BY <3>2 DEF Entry
      <3>5. sbs[s] \in Superblock /\ sbs[s].refcount + 1 \in Nat
        BY <3>2 DEF Superblock
      <3>6. b \in Superblock /\ b.refcount = sbs[s].refcount + 1 /\ b.root = sbs[s].root
        BY <3>5, SuperblockLemma
      <3> HIDE DEF j, s, e, b
      <3>7. /\ DOMAIN r.sbs = DOMAIN sbs /\ r.sbs \in [DOMAIN sbs -> Superblock]
            /\ r.sbs[s] = b /\ \A x \in DOMAIN sbs : x # s => r.sbs[x] = sbs[x]
        BY <3>2, <3>3, <3>6
      <3>8. /\ r.ml \in Seq(Entry)
            /\ \A x \in Sb : On(ml, x) # {} => On(r.ml, x) # {}
            /\ \A i \in DOMAIN r.ml : r.ml[i] = e \/ \E k \in DOMAIN ml : r.ml[i] = ml[k]
        BY <3>3, <3>4, PutFront
      <3>9. ASSUME NEW x \in DOMAIN r.sbs PROVE r.sbs[x].refcount = Cardinality(On(r.ml, x))
        <4>1. Cardinality(On(r.ml, x)) = Cardinality(On(ml, x)) + (IF e.sb = x THEN 1 ELSE 0)
          BY <3>3, <3>4, PutFront
        <4>2. sbs[x].refcount = Cardinality(On(ml, x)) /\ Cardinality(On(ml, x)) \in Nat
          BY <3>7, <3>9, OnFinite
        <4> QED BY <3>4, <3>6, <3>7, <3>9, <4>1, <4>2
      <3>10. Mounts(r.ml, r.sbs)
        BY <3>2, <3>4, <3>7, <3>8, <3>9
      <3>11. ASSUME NEW x, Live(ml, sbs, x) PROVE Live(r.ml, r.sbs, x)
        BY <3>6, <3>7, <3>8, <3>11 DEF Live
      <3> QED BY <3>10, <3>11
    <2>2. CASE MountedOn(ml, sbs, d) = {}
      <3> DEFINE b == [refcount |-> 1, fs |-> "fat32", device |-> d, part |-> p, root |-> TRUE]
      <3>1. PICK s \in Sb \ DOMAIN sbs :
              r = [ok |-> TRUE, ml |-> <<[mp |-> mp, sb |-> s, part |-> p]>> \o ml, sbs |-> Plus(sbs, s, b)]
        BY <1>2, <2>2 DEF ShareOrCreate
      <3> DEFINE e == [mp |-> mp, sb |-> s, part |-> p]
      <3>2. e \in Entry /\ e.sb = s
        BY DEF Entry
      <3>3. b \in Superblock /\ b.refcount = 1
        BY DEF Superblock
      <3>4. r.ml = <<e>> \o ml /\ r.sbs = Plus(sbs, s, b)
        BY <3>1
      <3> HIDE DEF e, b
      <3>5. /\ DOMAIN r.sbs = DOMAIN sbs \cup {s} /\ r.sbs \in [DOMAIN sbs \cup {s} -> Superblock]
            /\ r.sbs[s] = b /\ \A x \in DOMAIN sbs : r.sbs[x] = sbs[x]
        BY <3>3, <3>4 DEF Plus
      <3>6. /\ r.ml \in Seq(Entry)
            /\ \A x \in Sb : On(ml, x) # {} => On(r.ml, x) # {}
            /\ \A i \in DOMAIN r.ml : r.ml[i] = e \/ \E k \in DOMAIN ml : r.ml[i] = ml[k]
        <4>1. e \in Entry /\ r.ml = <<e>> \o ml /\ ml \in Seq(Entry)
          BY <3>2, <3>4
        <4> HIDE DEF Mounts
        <4>2. /\ <<e>> \o ml \in Seq(Entry)
              /\ \A x \in Sb : On(ml, x) # {} => On(<<e>> \o ml, x) # {}
              /\ \A i \in DOMAIN (<<e>> \o ml) :
                    (<<e>> \o ml)[i] = e \/ \E k \in DOMAIN ml : (<<e>> \o ml)[i] = ml[k]
          BY <4>1, PutFront
        <4> QED BY <4>1, <4>2
      <3>7. ASSUME NEW x \in DOMAIN r.sbs PROVE r.sbs[x].refcount = Cardinality(On(r.ml, x))
        <4>1. Cardinality(On(r.ml, x)) = Cardinality(On(ml, x)) + (IF s = x THEN 1 ELSE 0)
          BY <3>2, <3>4, PutFront
        <4>2. CASE x # s
          <5>1. x \in DOMAIN sbs /\ r.sbs[x] = sbs[x]
            BY <3>5, <3>7, <4>2
          <5>2. sbs[x].refcount = Cardinality(On(ml, x)) /\ Cardinality(On(ml, x)) \in Nat
            BY <5>1, OnFinite
          <5> QED BY <4>1, <4>2, <5>1, <5>2
        <4>3. CASE x = s
          <5>1. On(ml, s) = {}
            BY <3>1 DEF On
          <5>2. Cardinality(On(ml, s)) = 0
            BY <5>1, FS_EmptySet
          <5> QED BY <3>3, <3>5, <4>1, <4>3, <5>2
        <4> QED BY <4>2, <4>3
      <3>8. Mounts(r.ml, r.sbs)
        BY <3>1, <3>2, <3>5, <3>6, <3>7
      <3>9. ASSUME NEW x, Live(ml, sbs, x) PROVE Live(r.ml, r.sbs, x)
        BY <3>5, <3>6, <3>9 DEF Live
      <3> QED BY <3>8, <3>9
    <2> QED BY <2>1, <2>2
  <1> QED BY <1>1, <1>2 DEF VfsMount

\* An entry goes, and its superblock's count with it.
LEMMA EntryGone ==
    ASSUME NEW ml, NEW sbs, Mounts(ml, sbs), NEW i \in DOMAIN ml, NEW new,
           DOMAIN new \in SUBSET DOMAIN sbs, new \in [DOMAIN new -> Superblock],
           \A x \in DOMAIN sbs : x # ml[i].sb => x \in DOMAIN new /\ new[x] = sbs[x],
           ml[i].sb \notin DOMAIN new => sbs[ml[i].sb].refcount = 1,
           ml[i].sb \in DOMAIN new => new[ml[i].sb].refcount = sbs[ml[i].sb].refcount - 1
    PROVE  /\ Mounts(RemoveAt(ml, i), new)
           /\ \A x : x # ml[i].sb /\ Live(ml, sbs, x) => Live(RemoveAt(ml, i), new, x)
  <1> DEFINE l == RemoveAt(ml, i)
             s == ml[i].sb
  <1>0. ml \in Seq(Entry) /\ s \in DOMAIN sbs
    BY DEF Mounts
  <1>1. /\ l \in Seq(Entry)
        /\ \A k \in DOMAIN l : \E j \in DOMAIN ml \ {i} : l[k] = ml[j]
        /\ \A x : s # x /\ On(ml, x) # {} => On(l, x) # {}
    <2>1. ASSUME NEW x
          PROVE  /\ l \in Seq(Entry)
                 /\ \A k \in DOMAIN l : \E j \in DOMAIN ml \ {i} : l[k] = ml[j]
                 /\ s # x /\ On(ml, x) # {} => On(l, x) # {}
      <3>1. l \in Seq(Entry)
        BY <1>0, TakeOut
      <3>2. \A k \in DOMAIN l : \E j \in DOMAIN ml \ {i} : l[k] = ml[j]
        BY <1>0, TakeOut, Zenon
      <3>3. s # x /\ On(ml, x) # {} => On(l, x) # {}
        BY <1>0, TakeOut
      <3> QED BY <3>1, <3>2, <3>3
    <2> HIDE DEF l, s
    <2> QED BY <2>1
  <1>2. \A x : Cardinality(On(l, x)) = Cardinality(On(ml, x)) - (IF s = x THEN 1 ELSE 0)
    BY <1>0, TakeOut
  <1> HIDE DEF l
  <1>3. ASSUME NEW x \in DOMAIN new PROVE new[x].refcount = Cardinality(On(l, x))
    <2>1. x \in DOMAIN sbs /\ sbs[x].refcount = Cardinality(On(ml, x)) /\ Cardinality(On(ml, x)) \in Nat
      BY <1>0, <1>3, OnFinite DEF Mounts
    <2>2. Cardinality(On(l, x)) = Cardinality(On(ml, x)) - (IF s = x THEN 1 ELSE 0)
      BY <1>2
    <2>3. CASE x = s
      BY <1>3, <2>1, <2>2, <2>3
    <2>4. CASE x # s
      BY <1>3, <2>1, <2>2, <2>4
    <2> QED BY <2>3, <2>4
  <1>4. ASSUME NEW k \in DOMAIN l PROVE l[k].sb \in DOMAIN new
    <2>1. PICK j \in DOMAIN ml \ {i} : l[k] = ml[j]
      BY <1>1, <1>4
    <2>2. ml[j].sb \in DOMAIN sbs
      BY DEF Mounts
    <2>3. CASE ml[j].sb = s /\ s \notin DOMAIN new
      <3>1. Cardinality(On(ml, s)) = 1
        BY <1>0, <2>3 DEF Mounts
      <3>2. Cardinality(On(l, s)) = 0
        BY <1>2, <3>1
      <3>3. On(l, s) = {}
        BY <1>1, <3>2, OnFinite, FS_EmptySet
      <3>4. k \in On(l, s)
        BY <1>4, <2>1, <2>3 DEF On
      <3> QED BY <3>3, <3>4
    <2> QED BY <2>1, <2>2, <2>3
  <1>5. Mounts(l, new)
    BY <1>1, <1>3, <1>4 DEF Mounts
  <1>6. ASSUME NEW x, x # s, Live(ml, sbs, x) PROVE Live(l, new, x)
    BY <1>1, <1>6 DEF Live
  <1> QED BY <1>5, <1>6 DEF l

\* A superblock loses its tree and nothing else.
LEMMA TreeGone ==
    ASSUME NEW ml, NEW sbs, Mounts(ml, sbs), NEW s \in DOMAIN sbs
    PROVE  /\ Mounts(ml, [sbs EXCEPT ![s].root = FALSE])
           /\ \A x : x # s /\ Live(ml, sbs, x) => Live(ml, [sbs EXCEPT ![s].root = FALSE], x)
  <1> DEFINE b == [sbs[s] EXCEPT !.root = FALSE]
             new == [sbs EXCEPT ![s].root = FALSE]
  <1>1. sbs[s] \in Superblock /\ sbs[s].refcount \in Nat
    BY DEF Mounts, Superblock
  <1>2. b \in Superblock /\ b.refcount = sbs[s].refcount
    BY <1>1, SuperblockLemma
  <1>3. new = [sbs EXCEPT ![s] = b]
    OBVIOUS
  <1> HIDE DEF new, b
  <1>4. /\ DOMAIN new = DOMAIN sbs /\ new \in [DOMAIN sbs -> Superblock]
        /\ new[s] = b /\ \A x \in DOMAIN sbs : x # s => new[x] = sbs[x]
    BY <1>2, <1>3 DEF Mounts
  <1>5. Mounts(ml, new)
    BY <1>2, <1>4 DEF Mounts
  <1>6. ASSUME NEW x, x # s, Live(ml, sbs, x) PROVE Live(ml, new, x)
    BY <1>4, <1>6 DEF Live
  <1> QED BY <1>5, <1>6 DEF new

\* vfs_unmount keeps the counts, and every superblock with open files.
LEMMA UnmountLemma ==
    ASSUME NEW ml, NEW sbs, Mounts(ml, sbs), NEW fdt, NEW path,
           NEW r \in VfsUnmount(ml, sbs, fdt, path)
    PROVE  /\ Mounts(r.ml, r.sbs)
           /\ \A x : OpenOn(fdt, x) # {} /\ Live(ml, sbs, x) => Live(r.ml, r.sbs, x)
  <1> DEFINE Goal == /\ Mounts(r.ml, r.sbs)
                     /\ \A x : OpenOn(fdt, x) # {} /\ Live(ml, sbs, x) => Live(r.ml, r.sbs, x)
             i == Min(MountIndex(ml, path))
             s == ml[i].sb
  <1>1. CASE r = Failed(ml, sbs)
    BY <1>1 DEF Failed
  <1>2. CASE MountIndex(ml, path) # {} /\ OpenOn(fdt, s) = {}
    <2>1. i \in DOMAIN ml /\ s \in DOMAIN sbs
      <3>1. MountIndex(ml, path) \in SUBSET Nat
        BY LenProperties DEF MountIndex, Mounts
      <3>2. i \in MountIndex(ml, path)
        BY <1>2, <3>1, MinNat
      <3> QED BY <3>2 DEF MountIndex, Mounts
    <2>2. sbs[s] \in Superblock /\ sbs[s].refcount \in Nat /\ sbs[s].refcount # 0
      <3>1. i \in On(ml, s) /\ IsFiniteSet(On(ml, s)) /\ sbs[s].refcount = Cardinality(On(ml, s))
        BY <2>1, OnFinite DEF On, Mounts
      <3>2. sbs[s].refcount # 0
        BY <3>1, FS_EmptySet
      <3> QED BY <2>1, <3>2 DEF Mounts, Superblock
    <2> HIDE DEF i
    <2>3. ASSUME NEW new, r = Unmounted(ml, i, new),
                 DOMAIN new \in SUBSET DOMAIN sbs, new \in [DOMAIN new -> Superblock],
                 \A x \in DOMAIN sbs : x # s => x \in DOMAIN new /\ new[x] = sbs[x],
                 s \notin DOMAIN new => sbs[s].refcount = 1,
                 s \in DOMAIN new => new[s].refcount = sbs[s].refcount - 1
          PROVE  Goal
      <3>1. r.ml = RemoveAt(ml, i) /\ r.sbs = new
        BY <2>3 DEF Unmounted
      <3>2. /\ Mounts(RemoveAt(ml, i), new)
            /\ \A x : x # s /\ Live(ml, sbs, x) => Live(RemoveAt(ml, i), new, x)
        BY <2>1, <2>3, EntryGone
      <3> QED BY <1>2, <3>1, <3>2
    <2>4. CASE sbs[s].refcount # 1
      <3> DEFINE b == [sbs[s] EXCEPT !.refcount = sbs[s].refcount - 1]
                 new == [sbs EXCEPT ![s] = b]
      <3>1. r = Unmounted(ml, i, new)
        BY <1>2, <2>4 DEF VfsUnmount, i
      <3>2. sbs[s].refcount - 1 \in Nat
        BY <2>2
      <3>3. b \in Superblock /\ b.refcount = sbs[s].refcount - 1
        BY <2>2, <3>2, SuperblockLemma
      <3> HIDE DEF b
      <3>4. /\ DOMAIN new = DOMAIN sbs /\ new \in [DOMAIN sbs -> Superblock]
            /\ new[s] = b /\ \A x \in DOMAIN sbs : x # s => new[x] = sbs[x]
        BY <2>1, <3>3 DEF Mounts
      <3> HIDE DEF new
      <3> QED BY <2>1, <2>3, <3>1, <3>3, <3>4
    <2>5. CASE sbs[s].refcount = 1
      <3>0. r \in LastUnmount(ml, sbs, i)
        BY <1>2, <2>5 DEF VfsUnmount, i
      <3>1. CASE sbs[s].fs # "fat32"
        <4> DEFINE new == Restrict(sbs, DOMAIN sbs \ {s})
        <4>1. r = Unmounted(ml, i, new)
          BY <3>0, <3>1 DEF LastUnmount
        <4>2. /\ DOMAIN new = DOMAIN sbs \ {s} /\ new \in [DOMAIN new -> Superblock]
              /\ \A x \in DOMAIN sbs \ {s} : new[x] = sbs[x]
          BY DEF Restrict, Mounts
        <4> HIDE DEF new
        <4> QED BY <2>3, <2>5, <4>1, <4>2
      <3>2. CASE sbs[s].fs = "fat32" /\ ~sbs[s].root
        <4>1. r = Failed(ml, sbs)
          BY <3>0, <3>2 DEF LastUnmount
        <4> QED BY <1>1, <4>1
      <3>3. CASE sbs[s].fs = "fat32" /\ sbs[s].root
        <4> DEFINE b == [sbs[s] EXCEPT !.refcount = 0, !.root = FALSE]
                   new == [sbs EXCEPT ![s] = b]
        <4>1. r \in {Unmounted(ml, i, new), Failed(ml, [sbs EXCEPT ![s].root = FALSE])}
          BY <3>0, <3>3 DEF LastUnmount
        <4>2. b \in Superblock /\ b.refcount = 0
          BY <2>2, SuperblockLemma
        <4> HIDE DEF b
        <4>3. CASE r = Unmounted(ml, i, new)
          <5>1. /\ DOMAIN new = DOMAIN sbs /\ new \in [DOMAIN sbs -> Superblock]
                /\ new[s] = b /\ \A x \in DOMAIN sbs : x # s => new[x] = sbs[x]
            BY <2>1, <4>2 DEF Mounts
          <5> HIDE DEF new
          <5> QED BY <2>1, <2>3, <2>5, <4>2, <4>3, <5>1
        <4>4. CASE r = Failed(ml, [sbs EXCEPT ![s].root = FALSE])
          <5>1. r.ml = ml /\ r.sbs = [sbs EXCEPT ![s].root = FALSE]
            BY <4>4 DEF Failed
          <5>2. /\ Mounts(ml, [sbs EXCEPT ![s].root = FALSE])
                /\ \A x : x # s /\ Live(ml, sbs, x) => Live(ml, [sbs EXCEPT ![s].root = FALSE], x)
            <6> HIDE DEF s
            <6> QED BY <2>1, TreeGone
          <5> DEFINE new2 == [sbs EXCEPT ![s].root = FALSE]
          <5> HIDE DEF new2, s
          <5> QED BY <1>2, <5>1, <5>2 DEF new2
        <4> QED BY <4>1, <4>3, <4>4
      <3> QED BY <3>1, <3>2, <3>3
    <2> QED BY <2>4, <2>5
  <1> QED BY <1>1, <1>2 DEF VfsUnmount
-----------------------------------------------------------------------------
(* The inductive invariant.                                                *)

Pinned(ml, sbs, fdt) ==
    \A t \in Task, f \in Fd : fdt[t][f] # NULL => Live(ml, sbs, fdt[t][f])
Descriptors == [Task -> [Fd -> Sb \cup {NULL}]]
Autos == [i : 0..(Len(Partitions) + 1), home : Part \cup {NULL}, disk : Disk \cup {NULL}]

VfsInv ==
    /\ Mounts(mount_list, sb)
    /\ Pinned(mount_list, sb, fd_table)
    /\ DOMAIN disk \subseteq Disk
    /\ fd_table \in Descriptors
    /\ auto \in Autos

\* Open files stay pinned when every superblock with open files stays live.
LEMMA PinnedLemma ==
    ASSUME NEW ml, NEW sbs, NEW ml2, NEW sbs2, NEW fdt,
           Pinned(ml, sbs, fdt),
           \A x : OpenOn(fdt, x) # {} /\ Live(ml, sbs, x) => Live(ml2, sbs2, x)
    PROVE  Pinned(ml2, sbs2, fdt)
  <1> SUFFICES ASSUME NEW t \in Task, NEW f \in Fd, fdt[t][f] # NULL
               PROVE  Live(ml2, sbs2, fdt[t][f])
    BY DEF Pinned
  <1>1. Live(ml, sbs, fdt[t][f])
    BY DEF Pinned
  <1>2. <<t, f>> \in OpenOn(fdt, fdt[t][f])
    BY DEF OpenOn
  <1> QED BY <1>1, <1>2

\* The auto-mounter: its counter and the mount points it asks for.
LEMMA AutoLemma ==
    ASSUME auto \in Autos
    PROVE  /\ Len(Partitions) \in Nat /\ auto.i \in Nat
           /\ auto.home \in Part \cup {NULL} /\ auto.disk \in Disk \cup {NULL}
           /\ NoAuto \in Autos /\ [NoAuto EXCEPT !.i = 1] \in Autos
           /\ \A p \in Part : Text(MntOf(p)) \in Texts
           /\ Text(Home) \in Texts /\ PartMounts \subseteq Texts
           /\ auto.i \in DOMAIN Partitions =>
                /\ Partitions[auto.i] \in Part /\ auto.i + 1 \in 0..(Len(Partitions) + 1)
                /\ [auto EXCEPT !.i = auto.i + 1] \in Autos
  <1>1. Len(Partitions) \in Nat /\ DOMAIN Partitions = 1..Len(Partitions)
    BY VfsAssumption, LenProperties
  <1>2. /\ auto.i \in 0..(Len(Partitions) + 1)
        /\ auto.home \in Part \cup {NULL} /\ auto.disk \in Disk \cup {NULL}
    BY DEF Autos
  <1>3. NoAuto \in Autos
    BY <1>1 DEF NoAuto, Autos
  <1>4. [NoAuto EXCEPT !.i = 1] \in Autos
    BY <1>1 DEF NoAuto, Autos
  <1>5. ASSUME NEW p \in Part PROVE Text(MntOf(p)) \in Texts
    <2>1. MntOf(p) \in Seq(Name)
      BY DEF MntOf, Name
    <2> QED BY <2>1 DEF Text, Texts
  <1>6. Text(Home) \in Texts
    <2>1. Home \in Seq(Name)
      BY DEF Home, Name
    <2> QED BY <2>1 DEF Text, Texts
  <1>7. PartMounts \subseteq Texts
    BY VfsAssumption DEF Texts
  <1>8. ASSUME auto.i \in DOMAIN Partitions
        PROVE  /\ Partitions[auto.i] \in Part /\ auto.i + 1 \in 0..(Len(Partitions) + 1)
               /\ [auto EXCEPT !.i = auto.i + 1] \in Autos
    <2>1. auto.i + 1 \in 0..(Len(Partitions) + 1) /\ Partitions[auto.i] \in Part
      BY <1>1, <1>8 DEF Part, Range
    <2>2. ASSUME NEW n \in 0..(Len(Partitions) + 1) PROVE [auto EXCEPT !.i = n] \in Autos
      BY DEF Autos
    <2> QED BY <2>1, <2>2
  <1> QED BY <1>1, <1>2, <1>3, <1>4, <1>5, <1>6, <1>7, <1>8

\* The auto-mounter keeps the invariant.
LEMMA AutoStep ==
    ASSUME VfsInv, AutoBegin \/ AutoPart \/ AutoSkip \/ AutoHome
    PROVE  VfsInv'
  <1> USE DEF VfsInv
  <1>0. /\ Len(Partitions) \in Nat /\ auto.i \in Nat
        /\ auto.home \in Part \cup {NULL} /\ auto.disk \in Disk \cup {NULL}
        /\ NoAuto \in Autos /\ [NoAuto EXCEPT !.i = 1] \in Autos
        /\ \A p \in Part : Text(MntOf(p)) \in Texts
        /\ Text(Home) \in Texts
        /\ auto.i \in DOMAIN Partitions =>
             /\ Partitions[auto.i] \in Part /\ auto.i + 1 \in 0..(Len(Partitions) + 1)
             /\ [auto EXCEPT !.i = auto.i + 1] \in Autos
    BY AutoLemma
  <1>1. CASE AutoBegin
    BY <1>0, <1>1 DEF AutoBegin
  <1>2. CASE AutoSkip
    BY <1>0, <1>2 DEF AutoSkip
  <1>3. CASE AutoPart
    <2> DEFINE p == Partitions[auto.i]
    <2>1. auto.i \in DOMAIN Partitions /\ fd_table' = fd_table
      BY <1>3 DEF AutoPart
    <2>2. PICK d \in Disk \ DOMAIN disk :
            \E r \in VfsMount(mount_list, sb, Text(MntOf(p)), d, p) :
               /\ mount_list' = r.ml
               /\ sb' = r.sbs
               /\ IF r.ok /\ auto.home = NULL
                  THEN /\ disk' = Plus(disk, d, p)
                       /\ auto' = [i |-> auto.i + 1, home |-> p, disk |-> d]
                  ELSE /\ UNCHANGED disk
                       /\ auto' = [auto EXCEPT !.i = auto.i + 1]
      BY <1>3 DEF AutoPart
    <2>3. p \in Part /\ Text(MntOf(p)) \in Texts
      BY <1>0, <2>1
    <2> HIDE DEF p
    <2>4. PICK r \in VfsMount(mount_list, sb, Text(MntOf(p)), d, p) :
               /\ mount_list' = r.ml
               /\ sb' = r.sbs
               /\ IF r.ok /\ auto.home = NULL
                  THEN /\ disk' = Plus(disk, d, p)
                       /\ auto' = [i |-> auto.i + 1, home |-> p, disk |-> d]
                  ELSE /\ UNCHANGED disk
                       /\ auto' = [auto EXCEPT !.i = auto.i + 1]
      BY <2>2
    <2>5. /\ Mounts(r.ml, r.sbs)
          /\ \A x : Live(mount_list, sb, x) => Live(r.ml, r.sbs, x)
      BY <2>3, MountLemma
    <2>6. Pinned(r.ml, r.sbs, fd_table)
      BY <2>5, PinnedLemma
    <2>7. DOMAIN disk' \subseteq Disk
      BY <2>4 DEF Plus
    <2>8. auto' \in Autos
      <3>1. [i |-> auto.i + 1, home |-> p, disk |-> d] \in Autos
        BY <1>0, <2>1, <2>3 DEF Autos
      <3> QED BY <1>0, <2>1, <2>4, <3>1
    <2> QED BY <2>1, <2>4, <2>5, <2>6, <2>7, <2>8
  <1>4. CASE AutoHome
    <2>1. auto' = NoAuto /\ disk' = disk
      BY <1>4 DEF AutoHome
    <2>2. CASE auto.home = NULL
      BY <1>0, <1>4, <2>1, <2>2 DEF AutoHome
    <2>3. CASE auto.home # NULL
      <3> DEFINE taken == MountIndex(mount_list, Home)
                 Fdt(t) == IF taken = {} THEN fd_table
                           ELSE CloseFor(fd_table, t, mount_list[Min(taken)].sb)
      <3>1. PICK t \in Task :
              /\ fd_table' = Fdt(t)
              /\ \E u \in VfsUnmount(mount_list, sb, Fdt(t), Home) :
                    \E r \in VfsMount(u.ml, u.sbs, Text(Home), auto.disk, auto.home) :
                       mount_list' = r.ml /\ sb' = r.sbs
        BY <1>4, <2>3 DEF AutoHome
      <3> DEFINE fdt == Fdt(t)
      <3>2. fdt \in Descriptors /\ Pinned(mount_list, sb, fdt)
        <4>1. CASE taken = {}
          BY <4>1
        <4>2. CASE taken # {}
          <5> DEFINE s == mount_list[Min(taken)].sb
          <5>1. fdt = CloseFor(fd_table, t, s)
            BY <4>2
          <5> HIDE DEF s, fdt
          <5>2. fdt \in Descriptors
            BY <5>1 DEF CloseFor, Descriptors
          <5>3. \A x \in Task, f \in Fd : fdt[x][f] \in {NULL, fd_table[x][f]}
            BY <5>1 DEF CloseFor, Descriptors
          <5> QED BY <5>2, <5>3 DEF Pinned
        <4> QED BY <4>1, <4>2
      <3> HIDE DEF fdt
      <3>3. PICK u \in VfsUnmount(mount_list, sb, fdt, Home) :
              \E r \in VfsMount(u.ml, u.sbs, Text(Home), auto.disk, auto.home) :
                 mount_list' = r.ml /\ sb' = r.sbs
        BY <3>1 DEF fdt
      <3>4. /\ Mounts(u.ml, u.sbs)
            /\ \A x : OpenOn(fdt, x) # {} /\ Live(mount_list, sb, x) => Live(u.ml, u.sbs, x)
        BY UnmountLemma
      <3>5. Pinned(u.ml, u.sbs, fdt)
        BY <3>2, <3>4, PinnedLemma
      <3>6. PICK r \in VfsMount(u.ml, u.sbs, Text(Home), auto.disk, auto.home) :
              mount_list' = r.ml /\ sb' = r.sbs
        BY <3>3
      <3>7. /\ Mounts(r.ml, r.sbs)
            /\ \A x : Live(u.ml, u.sbs, x) => Live(r.ml, r.sbs, x)
        BY <1>0, <3>4, MountLemma
      <3>8. Pinned(r.ml, r.sbs, fdt)
        BY <3>5, <3>7, PinnedLemma
      <3>9. fd_table' = fdt
        BY <3>1 DEF fdt
      <3> QED BY <1>0, <2>1, <3>2, <3>6, <3>7, <3>8, <3>9
    <2> QED BY <2>2, <2>3
  <1> QED BY <1>1, <1>2, <1>3, <1>4

\* Commands and system calls keep it.
LEMMA CallStep ==
    ASSUME VfsInv,
           \/ \E p \in Part, mp \in PartMounts : PartMount(p, mp)
           \/ \E i \in DOMAIN mount_list : Umount(mount_list[i].mp.path)
           \/ \E t \in Task : \/ \E path \in OpenPaths : Open(t, path)
                              \/ \E f \in Fd : Close(t, f)
                              \/ DestroyTask(t)
    PROVE  VfsInv'
  <1> USE DEF VfsInv
  <1>1. ASSUME NEW p \in Part, NEW mp \in PartMounts, PartMount(p, mp) PROVE VfsInv'
    <2>0. PICK d \in Disk \ DOMAIN disk :
            \E r \in VfsMount(mount_list, sb, mp, d, p) :
               mount_list' = r.ml /\ sb' = r.sbs /\ disk' = Plus(disk, d, p)
      BY <1>1 DEF PartMount
    <2>1. PICK r \in VfsMount(mount_list, sb, mp, d, p) :
            mount_list' = r.ml /\ sb' = r.sbs /\ disk' = Plus(disk, d, p)
      BY <2>0
    <2>2. UNCHANGED <<fd_table, auto>>
      BY <1>1 DEF PartMount
    <2>3. mp \in Texts
      BY AutoLemma
    <2>4. /\ Mounts(r.ml, r.sbs)
          /\ \A x : Live(mount_list, sb, x) => Live(r.ml, r.sbs, x)
      BY <2>3, MountLemma
    <2>5. Pinned(r.ml, r.sbs, fd_table)
      BY <2>4, PinnedLemma
    <2>6. DOMAIN disk' \subseteq Disk
      BY <2>1 DEF Plus
    <2> QED BY <2>1, <2>2, <2>4, <2>5, <2>6
  <1>2. ASSUME NEW path, Umount(path) PROVE VfsInv'
    <2>1. PICK r \in VfsUnmount(mount_list, sb, fd_table, path) : mount_list' = r.ml /\ sb' = r.sbs
      BY <1>2 DEF Umount
    <2>2. UNCHANGED <<disk, fd_table, auto>>
      BY <1>2 DEF Umount
    <2>3. /\ Mounts(r.ml, r.sbs)
          /\ \A x : OpenOn(fd_table, x) # {} /\ Live(mount_list, sb, x) => Live(r.ml, r.sbs, x)
      BY UnmountLemma
    <2>4. Pinned(r.ml, r.sbs, fd_table)
      BY <2>3, PinnedLemma
    <2> QED BY <2>1, <2>2, <2>3, <2>4
  <1>3. ASSUME NEW t \in Task, NEW path \in OpenPaths, Open(t, path) PROVE VfsInv'
    <2>1. PICK i \in {FindMount(mount_list, path)} \ {0} :
            LET s    == mount_list[i].sb
                free == { f \in Fd : fd_table[t][f] = NULL }
            IN  /\ sb[s].root
                /\ free # {}
                /\ fd_table' = [fd_table EXCEPT ![t][Min(free)] = s]
      BY <1>3 DEF Open
    <2> DEFINE s == mount_list[i].sb
               free == { f \in Fd : fd_table[t][f] = NULL }
    <2>2. i \in DOMAIN mount_list
      BY FindDomain DEF Mounts
    <2>3. Live(mount_list, sb, s) /\ s \in Sb
      BY <2>1, <2>2 DEF Live, Mounts, On
    <2>4. free \in SUBSET Nat /\ free # {}
      BY <2>1, VfsAssumption
    <2>5. Min(free) \in Fd
      <3>1. Min(free) \in free
        <4> HIDE DEF free
        <4> QED BY <2>4, MinNat
      <3> QED BY <3>1
    <2>6. fd_table' = [fd_table EXCEPT ![t][Min(free)] = s] /\ UNCHANGED <<mount_list, sb, disk, auto>>
      BY <1>3, <2>1 DEF Open
    <2> HIDE DEF s, free
    <2>7. fd_table' \in Descriptors /\ \A x \in Task, f \in Fd : fd_table'[x][f] \in {s, fd_table[x][f]}
      BY <2>3, <2>5, <2>6 DEF Descriptors
    <2>8. Pinned(mount_list, sb, fd_table')
      BY <2>3, <2>7 DEF Pinned
    <2> QED BY <2>6, <2>7, <2>8
  <1>4. ASSUME NEW t \in Task, (\E f \in Fd : Close(t, f)) \/ DestroyTask(t) PROVE VfsInv'
    <2>1. fd_table' \in Descriptors /\ \A x \in Task, f \in Fd : fd_table'[x][f] \in {NULL, fd_table[x][f]}
      BY <1>4 DEF Close, DestroyTask, Descriptors
    <2>2. UNCHANGED <<mount_list, sb, disk, auto>>
      BY <1>4 DEF Close, DestroyTask
    <2>3. Pinned(mount_list, sb, fd_table')
      BY <2>1 DEF Pinned
    <2> QED BY <2>1, <2>2, <2>3
  <1> QED BY <1>1, <1>2, <1>3, <1>4

\* Every step keeps the invariant.
LEMMA VfsStep == VfsInv /\ [Next]_vars => VfsInv'
  <1> SUFFICES ASSUME VfsInv, [Next]_vars PROVE VfsInv'
    OBVIOUS
  <1>1. CASE AutoBegin \/ AutoPart \/ AutoSkip \/ AutoHome
    BY <1>1, AutoStep
  <1>2. CASE UNCHANGED vars
    BY <1>2 DEF vars, VfsInv
  <1> QED BY <1>1, <1>2, CallStep DEF Next

\* It holds after the two mounts of cmain.
LEMMA VfsStart == Init => VfsInv
  <1> SUFFICES ASSUME Init PROVE VfsInv
    OBVIOUS
  <1> DEFINE tmpfs == [refcount |-> 1, fs |-> "tmpfs", device |-> NULL, part |-> NULL, root |-> TRUE]
  <1>1. PICK r \in Sb, h \in Sb :
          /\ r # h /\ sb = [s \in {r, h} |-> tmpfs]
          /\ mount_list = <<[mp |-> Text(Home), sb |-> h, part |-> NULL],
                            [mp |-> Text(<< >>), sb |-> r, part |-> NULL]>>
    BY DEF Init
  <1>2. disk = << >> /\ fd_table = [t \in Task |-> [f \in Fd |-> NULL]] /\ auto = [NoAuto EXCEPT !.i = 1]
    BY DEF Init
  <1>3. tmpfs \in Superblock /\ tmpfs.refcount = 1
    BY DEF Superblock
  <1>4. sb \in [{r, h} -> Superblock] /\ DOMAIN sb = {r, h} /\ \A s \in {r, h} : sb[s].refcount = 1
    <2> HIDE DEF tmpfs
    <2> QED BY <1>1, <1>3
  <1> DEFINE a == [mp |-> Text(Home), sb |-> h, part |-> NULL]
             b == [mp |-> Text(<< >>), sb |-> r, part |-> NULL]
  <1>5. a \in Entry /\ b \in Entry /\ a.sb = h /\ b.sb = r
    <2>1. Home \in Seq(Name) /\ << >> \in Seq(Name)
      BY DEF Home, Name
    <2>2. Text(Home) \in Texts /\ Text(<< >>) \in Texts
      BY <2>1 DEF Text, Texts
    <2> QED BY <2>2 DEF Entry
  <1>6. mount_list = <<a, b>>
    BY <1>1
  <1> HIDE DEF a, b
  <1>7. mount_list \in Seq(Entry) /\ DOMAIN mount_list = {1, 2} /\ mount_list[1] = a /\ mount_list[2] = b
    BY <1>5, <1>6
  <1>8. On(mount_list, h) = {1} /\ On(mount_list, r) = {2}
    BY <1>1, <1>5, <1>7 DEF On
  <1>9. Mounts(mount_list, sb)
    BY <1>4, <1>5, <1>7, <1>8, FS_Singleton DEF Mounts
  <1>10. Pinned(mount_list, sb, fd_table) /\ fd_table \in Descriptors /\ DOMAIN disk \subseteq Disk
    BY <1>2 DEF Pinned, Descriptors
  <1>11. auto \in Autos
    <2>1. Len(Partitions) \in Nat
      BY VfsAssumption, LenProperties
    <2> QED BY <1>2, <2>1 DEF NoAuto, Autos
  <1> QED BY <1>9, <1>10, <1>11 DEF VfsInv

\* The state of the mount table has its type, for every number of mounts.
THEOREM VfsTypeCorrect == Spec => []TypeOK
  <1>1. VfsInv => TypeOK
    BY DEF VfsInv, Mounts, Superblock, Descriptors, Autos, TypeOK
  <1> QED BY <1>1, VfsStart, VfsStep, PTL DEF Spec

\* sb->refcount counts the mounts of the superblock through every sequence of
\* mounts, shared mounts, failures and unmounts.
THEOREM RefcountsRight == Spec => []RefcountIsMounts
  <1>1. VfsInv => RefcountIsMounts
    BY DEF VfsInv, Mounts, On, RefcountIsMounts
  <1> QED BY <1>1, VfsStart, VfsStep, PTL DEF Spec

\* No unmount, by a command or by the auto-mounter, takes away the tree an
\* open file lies in.
THEOREM OpenFilesStay == Spec => []OpenFilesPinned
  <1>1. VfsInv => OpenFilesPinned
    <2> SUFFICES ASSUME VfsInv, NEW t \in Task, NEW f \in Fd, fd_table[t][f] # NULL
                 PROVE  /\ fd_table[t][f] \in DOMAIN sb
                        /\ sb[fd_table[t][f]].root
                        /\ \E i \in DOMAIN mount_list : mount_list[i].sb = fd_table[t][f]
      BY DEF OpenFilesPinned
    <2>1. Live(mount_list, sb, fd_table[t][f])
      BY DEF VfsInv, Pinned
    <2> QED BY <2>1 DEF Live, On
  <1> QED BY <1>1, VfsStart, VfsStep, PTL DEF Spec

\* The one pass of find_mount_for_path finds the deepest mount point above
\* every path, for mount lists of every length.
THEOREM FindMountRight == Spec => []FindsDeepest
  <1>1. VfsInv => FindsDeepest
    <2> SUFFICES ASSUME VfsInv, NEW path \in OpenPaths
                 PROVE  LET above == { i \in DOMAIN mount_list : Under(mount_list[i], path) }
                            b     == FindMount(mount_list, path)
                        IN  IF above = {} THEN b = 0
                            ELSE /\ b \in above
                                 /\ \A i \in above \ {b} :
                                       \/ Len(mount_list[i].mp.path) < Len(mount_list[b].mp.path)
                                       \/ mount_list[i].mp.path = mount_list[b].mp.path /\ b < i
      BY DEF FindsDeepest
    <2> DEFINE above == { i \in DOMAIN mount_list : Under(mount_list[i], path) }
               b == FindMount(mount_list, path)
    <2>1. mount_list \in Seq(Entry) /\ DOMAIN mount_list = 1..Len(mount_list)
      BY LenProperties DEF VfsInv, Mounts
    <2>2. Above(mount_list, path, Len(mount_list)) = above
      BY <2>1 DEF Above
    <2>3. Takes(mount_list, path, Len(mount_list), b)
      BY <2>1, FindLemma
    <2>4. \A i, j \in above : Len(mount_list[i].mp.path) = Len(mount_list[j].mp.path)
                              => mount_list[i].mp.path = mount_list[j].mp.path
      <3> SUFFICES ASSUME NEW i \in above, NEW j \in above,
                          Len(mount_list[i].mp.path) = Len(mount_list[j].mp.path)
                   PROVE  mount_list[i].mp.path = mount_list[j].mp.path
        OBVIOUS
      <3>1. mount_list[i] \in Entry /\ mount_list[j] \in Entry
        BY <2>1, ElementOfSeq
      <3>2. mount_list[i].mp.path \in Seq(Name) /\ mount_list[j].mp.path \in Seq(Name)
        BY <3>1 DEF Entry, Texts
      <3>3. IsPrefix(mount_list[i].mp.path, path) /\ IsPrefix(mount_list[j].mp.path, path)
        BY DEF Under
      <3> QED BY <3>2, <3>3, SamePrefix
    <2> HIDE DEF above, b
    <2> QED BY <2>2, <2>3, <2>4 DEF Takes, above, b
  <1> QED BY <1>1, VfsStart, VfsStep, PTL DEF Spec
=============================================================================
