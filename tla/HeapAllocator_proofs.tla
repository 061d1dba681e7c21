----------------------- MODULE HeapAllocator_proofs -----------------------
(***************************************************************************)
(* Proofs about HeapAllocator for every heap size and every set of request *)
(* sizes.                                                                  *)
(***************************************************************************)
EXTENDS HeapAllocator, FiniteSetTheorems, SequenceTheorems, TLAPS

----------------------------------------------------------------------------
(* Sequences. *)

\* Unlinking the element at i from a bin chain keeps the order of the others.
LEMMA RemoveAtFacts ==
  ASSUME NEW S, NEW s \in Seq(S), NEW i \in 1..Len(s)
  PROVE  /\ RemoveAt(s, i) \in Seq(S)
         /\ DOMAIN RemoveAt(s, i) = 1..(Len(s) - 1)
         /\ \A k \in 1..(Len(s) - 1) :
              RemoveAt(s, i)[k] = IF k < i THEN s[k] ELSE s[k + 1]
<1> DEFINE a == SubSeq(s, 1, i - 1)
           b == SubSeq(s, i + 1, Len(s))
<1>1. a \in Seq(S) /\ Len(a) = i - 1 /\ \A k \in 1..(i - 1) : a[k] = s[k]
  OBVIOUS
<1>2. b \in Seq(S) /\ Len(b) = Len(s) - i
      /\ \A k \in 1..(Len(s) - i) : b[k] = s[i + k]
  OBVIOUS
<1>3. /\ a \o b \in Seq(S) /\ Len(a \o b) = Len(a) + Len(b)
      /\ \A k \in 1..(Len(a) + Len(b)) :
           (a \o b)[k] = IF k <= Len(a) THEN a[k] ELSE b[k - Len(a)]
  BY <1>1, <1>2, ConcatProperties
<1>4. Len(s) \in Nat /\ i \in 1..Len(s)
  OBVIOUS
<1>5. RemoveAt(s, i) = a \o b
  BY DEF RemoveAt, a, b
<1> HIDE DEF a, b
<1>6. /\ DOMAIN (a \o b) = 1..(Len(s) - 1)
      /\ \A k \in 1..(Len(s) - 1) : (a \o b)[k] = IF k < i THEN s[k] ELSE s[k + 1]
  BY <1>1, <1>2, <1>3, <1>4
<1> QED BY <1>3, <1>5, <1>6

----------------------------------------------------------------------------
(* The inductive invariant. *)

\* The part of Accounted that needs no sum over the live blocks.
Counted == IsFiniteSet(live) /\ gcAllocs - gcFrees = Cardinality(live)

Inv == TypeOK /\ Tiled /\ Partitioned /\ Coalesced /\ BinsSorted /\ Counted

\* Tiled, of the sizes and the heap end with which the trim loop starts.
TiledBy(sz, off) ==
  /\ off > 0 => 0 \in DOMAIN sz
  /\ \A b \in DOMAIN sz :
       /\ sz[b] >= MinPayload
       /\ b + HeaderSize + sz[b] = off \/ b + HeaderSize + sz[b] \in DOMAIN sz
       /\ b + HeaderSize + sz[b] <= off
       /\ \A a \in DOMAIN sz : a < b => a + HeaderSize + sz[a] <= b

\* Membership of the bins, element by element.
LEMMA BinnedIff ==
  \A b : b \in Binned <=> \E c \in Classes : \E i \in DOMAIN bins[c] : bins[c][i] = b
BY DEF Binned, Range

\* No block is cached twice.
LEMMA BinsDistinct ==
  ASSUME Partitioned, NEW c \in Classes, NEW d \in Classes,
         NEW i \in DOMAIN bins[c], NEW j \in DOMAIN bins[d], bins[c][i] = bins[d][j]
  PROVE  c = d /\ i = j
BY Zenon DEF Partitioned

\* A small payload has a bin that is large enough for it.
LEMMA ClassOfSmall ==
  ASSUME NEW n \in Nat, n <= MaxSmall
  PROVE  ClassOf(n) \in Classes /\ n <= ClassOf(n)
<1> DEFINE P(c) == c \in Classes /\ n <= c /\ \A d \in Classes : n <= d => c <= d
<1>1. \E c : P(c)
  <2>1. CASE n <= 8   BY <2>1 DEF Classes
  <2>2. CASE 8 < n /\ n <= 16  BY <2>2 DEF Classes
  <2>3. CASE 16 < n /\ n <= 32  BY <2>3 DEF Classes
  <2>4. CASE 32 < n   BY <2>4 DEF Classes, MaxSmall
  <2> QED BY <2>1, <2>2, <2>3, <2>4
<1> QED BY <1>1 DEF ClassOf, Min

\* No defence of the free-list walk ever fires.
LEMMA FreeListUsable ==
  ASSUME TypeOK, Tiled, Partitioned
  PROVE  /\ \A b \in freeList : Usable(b) /\ Unlinked(b) = {}
         /\ {b \in freeList : Usable(b)} = freeList
<1>1. \A b \in freeList : Usable(b)
  BY DEF TypeOK, Tiled, Partitioned, Usable, InWindow, WellFormed, End, Blocks,
         HeaderSize, MinPayload
<1> QED BY <1>1 DEF Unlinked

\* Where no free block touches another or the heap end, the trim loop stops at
\* once.
LEMMA TrimNothing ==
  ASSUME NEW sz, NEW off \in Nat, NEW list,
         DOMAIN sz \subseteq Nat, sz \in [DOMAIN sz -> Nat],
         TiledBy(sz, off),
         list \subseteq DOMAIN sz,
         \A b \in list : /\ b + HeaderSize + sz[b] \notin list
                         /\ b + HeaderSize + sz[b] # off,
         TrimTail(list, sz, off)
  PROVE  freeList' = list /\ heapOff' = off /\ size' = sz
<1>1. TailOf(list, sz, off) = {}
  <2> SUFFICES ASSUME NEW x \in list,
                      \A y \in DOMAIN sz : x <= y /\ y < off => y \in list
               PROVE  FALSE
    BY DEF TailOf
  <2>1. /\ x + HeaderSize + sz[x] \in DOMAIN sz
        /\ x <= x + HeaderSize + sz[x] /\ x + HeaderSize + sz[x] < off
    BY DEF TiledBy, HeaderSize
  <2> QED BY <2>1
<1>2. {x \in DOMAIN sz : x < off} = DOMAIN sz
  BY DEF TiledBy, HeaderSize
<1>3. size' = [x \in DOMAIN sz |-> sz[x]]
  BY <1>1, <1>2, Zenon DEF TrimTail
<1>4. heapOff' = CHOOSE o \in {off} : \A a \in {off} : o <= a
  BY <1>1 DEF TrimTail, Min
<1>5. heapOff' = off
  BY <1>4
<1>6. freeList' = list
  BY <1>1 DEF TrimTail
<1> QED BY <1>3, <1>5, <1>6

----------------------------------------------------------------------------
(* Allocation preserves the invariant. *)

\* Handing out a block adds one to the live blocks and to the allocations.
LEMMA CountedAlloc ==
  ASSUME TypeOK, Counted, NEW b, b \notin live, live' = live \cup {b},
         NEW k, CountAlloc(k)
  PROVE  Counted'
<1>1. IsFiniteSet(live') /\ Cardinality(live') = Cardinality(live) + 1
  BY FS_AddElement DEF Counted
<1>2. gcAllocs' - gcFrees' = gcAllocs - gcFrees + 1
  BY DEF CountAlloc, TypeOK
<1> QED BY <1>1, <1>2 DEF Counted

\* The counters stay integers when the granted payload is a number.
LEMMA CountTypes ==
  ASSUME TypeOK, NEW k \in Nat, CountAlloc(k)
  PROVE  gcAllocs' \in Nat /\ gcFrees' \in Nat /\ gcLive' \in Int /\ gcPeak' \in Int
BY DEF TypeOK, CountAlloc, HeaderSize

LEMMA AllocFromBinInv ==
  ASSUME Inv, NEW n \in Nat, AllocFromBin(n)
  PROVE  Inv'
<1> USE DEF Inv
<1>1. PICK c \in Classes : \E i \in DOMAIN bins[c] :
        /\ bins' = [bins EXCEPT ![c] = RemoveAt(@, i)]
        /\ live' = live \cup {bins[c][i]}
        /\ CountAlloc(size[bins[c][i]])
        /\ UNCHANGED <<heapOff, size, freeList, exhausted>>
  BY DEF AllocFromBin, HandOut
<1>2. PICK i \in DOMAIN bins[c] :
        /\ bins' = [bins EXCEPT ![c] = RemoveAt(@, i)]
        /\ live' = live \cup {bins[c][i]}
        /\ CountAlloc(size[bins[c][i]])
        /\ UNCHANGED <<heapOff, size, freeList, exhausted>>
  BY <1>1
<1> DEFINE b == bins[c][i]
<1>3. bins[c] \in Seq(Blocks) /\ DOMAIN bins[c] = 1..Len(bins[c]) /\ Len(bins[c]) \in Nat
  BY DEF TypeOK
<1>4. b \in Blocks /\ b \in Binned /\ b \notin live /\ b \notin freeList
  BY <1>3, BinnedIff DEF Partitioned
<1>5. /\ RemoveAt(bins[c], i) \in Seq(Blocks)
      /\ DOMAIN RemoveAt(bins[c], i) = 1..(Len(bins[c]) - 1)
      /\ \A k \in 1..(Len(bins[c]) - 1) :
           RemoveAt(bins[c], i)[k] = IF k < i THEN bins[c][k] ELSE bins[c][k + 1]
  BY <1>3, RemoveAtFacts
<1>6. /\ bins'[c] = RemoveAt(bins[c], i)
      /\ \A d \in Classes : d # c => bins'[d] = bins[d]
      /\ bins' \in [Classes -> Seq(Blocks)]
  BY <1>2, <1>5 DEF TypeOK
<1>7. Blocks' = Blocks
  BY <1>2 DEF Blocks
<1>8. TypeOK'
  BY <1>2, <1>4, <1>6, <1>7, CountTypes DEF TypeOK
<1>9. Tiled' /\ Coalesced'
  BY <1>2, <1>7 DEF Tiled, Coalesced, End
<1>10. \A d \in Classes : \A k \in DOMAIN bins'[d] : \E j \in DOMAIN bins[d] :
         /\ bins'[d][k] = bins[d][j]
         /\ j = IF d = c /\ i <= k THEN k + 1 ELSE k
  <2> TAKE d \in Classes
  <2> TAKE k \in DOMAIN bins'[d]
  <2>1. CASE d # c
    <3>1. k \in DOMAIN bins[d] /\ bins'[d][k] = bins[d][k]
      BY <1>6, <2>1
    <3> QED BY ONLY <2>1, <3>1
  <2>2. CASE d = c
    <3> PICK j : j = IF i <= k THEN k + 1 ELSE k
      OBVIOUS
    <3>1. k \in 1..(Len(bins[c]) - 1)
          /\ bins'[c][k] = IF k < i THEN bins[c][k] ELSE bins[c][k + 1]
      BY <1>5, <1>6, <2>2
    <3>2. j \in DOMAIN bins[c] /\ bins'[c][k] = bins[c][j]
      BY ONLY <1>3, <3>1, i \in DOMAIN bins[c], j = IF i <= k THEN k + 1 ELSE k
    <3> QED BY ONLY <2>2, <3>2, j = IF i <= k THEN k + 1 ELSE k
  <2> QED BY ONLY <2>1, <2>2
<1>11. \A d \in Classes : \A j \in DOMAIN bins[d] : (d = c /\ j = i) \/
         \E k \in DOMAIN bins'[d] : bins'[d][k] = bins[d][j]
  <2> TAKE d \in Classes
  <2> TAKE j \in DOMAIN bins[d]
  <2>1. CASE d # c  BY <2>1, <1>6
  <2>2. CASE d = c /\ j < i
    BY <2>2, <1>3, <1>5, <1>6
  <2>3. CASE d = c /\ i < j
    <3>1. j - 1 \in 1..(Len(bins[c]) - 1) /\ ~(j - 1 < i)
      BY <2>3, <1>3
    <3>2. bins'[c][j - 1] = bins[c][j]
      BY <3>1, <1>5, <1>6, <2>3, <1>3
    <3> QED BY <3>1, <3>2, <1>5, <1>6, <2>3
  <2> QED BY <2>1, <2>2, <2>3, <1>3
<1>12. \A d, e \in Classes : \A k \in DOMAIN bins'[d], l \in DOMAIN bins'[e] :
         bins'[d][k] = bins'[e][l] => d = e /\ k = l
  <2> SUFFICES ASSUME NEW d \in Classes, NEW e \in Classes,
                      NEW k \in DOMAIN bins'[d], NEW l \in DOMAIN bins'[e],
                      bins'[d][k] = bins'[e][l]
               PROVE  d = e /\ k = l
    OBVIOUS
  <2>1. k \in Int /\ l \in Int
    BY <1>6
  <2>2. PICK j \in DOMAIN bins[d] :
          bins'[d][k] = bins[d][j] /\ j = IF d = c /\ i <= k THEN k + 1 ELSE k
    BY <1>10
  <2>3. PICK m \in DOMAIN bins[e] :
          bins'[e][l] = bins[e][m] /\ m = IF e = c /\ i <= l THEN l + 1 ELSE l
    BY <1>10
  <2>4. bins[d][j] = bins[e][m]
    BY <2>2, <2>3
  <2>5. d = e /\ j = m
    BY <2>2, <2>3, <2>4, BinsDistinct
  <2> QED BY <2>1, <2>2, <2>3, <2>5, <1>3
<1>13. \A x : x \in Binned' <=> x \in Binned /\ x # b
  <2>1. \A x : x \in Binned' => x \in Binned
    BY <1>10, BinnedIff DEF Binned, Range
  <2>2. b \notin Binned'
    <3> SUFFICES ASSUME NEW d \in Classes, NEW k \in DOMAIN bins'[d], bins'[d][k] = b
                 PROVE  FALSE
      BY DEF Binned, Range
    <3>1. PICK j \in DOMAIN bins[d] :
            bins'[d][k] = bins[d][j] /\ j = IF d = c /\ i <= k THEN k + 1 ELSE k
      BY <1>10
    <3>2. bins[d][j] = bins[c][i]
      BY <3>1
    <3>3. d = c /\ j = i
      BY <1>1, <1>2, <3>1, <3>2, BinsDistinct
    <3>4. k \in Int
      BY <1>6
    <3> QED BY <3>1, <3>3, <3>4, <1>3
  <2>3. \A x : x \in Binned /\ x # b => x \in Binned'
    BY <1>11, BinnedIff DEF Binned, Range
  <2> QED BY <2>1, <2>2, <2>3
<1>14. Partitioned'
  <2>1. Blocks' = live' \cup freeList' \cup Binned'
    BY <1>2, <1>4, <1>7, <1>13 DEF Partitioned
  <2>2. live' \cap freeList' = {} /\ live' \cap Binned' = {} /\ freeList' \cap Binned' = {}
    BY <1>2, <1>4, <1>13 DEF Partitioned
  <2> QED BY <2>1, <2>2, <1>12 DEF Partitioned
<1>15. BinsSorted'
  <2> SUFFICES ASSUME NEW d \in Classes, NEW k \in DOMAIN bins'[d]
               PROVE  ClassOf(size[bins'[d][k]]) = d
    BY <1>2 DEF BinsSorted, ClassOf
  <2>1. PICK j \in DOMAIN bins[d] : bins'[d][k] = bins[d][j]
    BY <1>10
  <2> QED BY <2>1 DEF BinsSorted
<1>16. Counted'
  BY <1>2, <1>4, CountedAlloc
<1> QED BY <1>8, <1>9, <1>14, <1>15, <1>16

\* A step that leaves the bins alone, keeps the cached blocks with their sizes
\* and re-divides the other blocks among live and free ones keeps them
\* partitioned and the bins sorted.
LEMMA BinsKept ==
  ASSUME TypeOK, Partitioned, BinsSorted, bins' = bins,
         Binned \subseteq Blocks', \A b \in Binned : size'[b] = size[b]
  PROVE  /\ Binned' = Binned
         /\ BinsSorted'
         /\ bins' \in [Classes -> Seq(Blocks')]
         /\ \A c, d \in Classes : \A i \in DOMAIN bins'[c], j \in DOMAIN bins'[d] :
              bins'[c][i] = bins'[d][j] => c = d /\ i = j
<1>1. Binned' = Binned
  BY DEF Binned
<1>2. \A c \in Classes : \A i \in DOMAIN bins[c] : bins[c][i] \in Binned
  BY BinnedIff
<1>3. BinsSorted'
  BY <1>2 DEF BinsSorted, ClassOf
<1>4. bins' \in [Classes -> Seq(Blocks')]
  <2>1. ASSUME NEW c \in Classes
        PROVE  bins[c] \in Seq(Blocks')
    <3>1. bins[c] \in Seq(Blocks)
      BY DEF TypeOK
    <3>2. \A i \in 1..Len(bins[c]) : bins[c][i] \in Blocks'
      BY <3>1, <1>2
    <3> QED BY <3>1, <3>2
  <2> QED BY <2>1 DEF TypeOK
<1> QED BY <1>1, <1>3, <1>4 DEF Partitioned

LEMMA AllocSplitInv ==
  ASSUME Inv, NEW n \in Nat, n >= MinPayload, AllocSplit(n)
  PROVE  Inv'
<1> USE DEF Inv
<1>1. PICK b \in freeList :
        LET rest == b + HeaderSize + n IN
        /\ FirstInList(n, b)
        /\ size[b] - n >= MinSplit
        /\ size' = [a \in Blocks \cup {rest} |->
                      IF a = b THEN n
                      ELSE IF a = rest THEN RestPayload(b, n)
                      ELSE size[a]]
        /\ freeList' = (freeList \ (Unlinked(b) \cup {b})) \cup {rest}
        /\ live' = live \cup {b}
        /\ CountAlloc(n)
        /\ UNCHANGED <<heapOff, bins, exhausted>>
  BY DEF AllocSplit, HandOut
<1> DEFINE rest == b + HeaderSize + n
<1>2. /\ b \in Blocks /\ b \in Nat /\ size[b] \in Nat /\ heapOff \in Nat
      /\ b \notin live /\ b \notin Binned
  BY <1>1 DEF TypeOK, Partitioned
<1>3. b < rest /\ rest < End(b) /\ rest \in Nat /\ End(b) \in Nat /\ End(b) <= heapOff
  BY <1>1, <1>2 DEF MinSplit, HeaderSize, End, Tiled
<1>4. rest \notin Blocks
  BY <1>2, <1>3 DEF Tiled
<1>5. freeList' = (freeList \ {b}) \cup {rest}
  BY <1>1, FreeListUsable
<1>6. Blocks' = Blocks \cup {rest}
  BY <1>1, Zenon DEF Blocks
<1>7. /\ size'[b] = n
      /\ size'[rest] = size[b] - n - HeaderSize
      /\ \A a \in Blocks : a # b => size'[a] = size[a]
  BY <1>1, <1>2, <1>3, <1>4 DEF RestPayload
<1>8. /\ End(b)' = rest
      /\ End(rest)' = End(b)
      /\ \A a \in Blocks : a # b => End(a)' = End(a)
  BY <1>2, <1>3, <1>7 DEF End, HeaderSize
<1>9. \A a \in Blocks' : size'[a] \in Nat /\ size'[a] >= MinPayload /\ a \in Nat
  BY <1>1, <1>2, <1>3, <1>6, <1>7
     DEF TypeOK, Tiled, MinSplit, MinPayload, HeaderSize
<1>10. Tiled'
  <2>1. heapOff' > 0 => 0 \in Blocks'
    BY <1>1, <1>6 DEF Tiled
  <2>2. ASSUME NEW a \in Blocks'
        PROVE  (End(a)' = heapOff' \/ End(a)' \in Blocks') /\ End(a)' <= heapOff'
    <3>1. CASE a = b
      BY <3>1, <1>1, <1>2, <1>3, <1>6, <1>8
    <3>2. CASE a = rest
      BY <3>2, <1>1, <1>2, <1>3, <1>6, <1>8 DEF Tiled
    <3>3. CASE a \in Blocks /\ a # b
      BY <3>3, <1>1, <1>6, <1>8 DEF Tiled
    <3> QED BY <3>1, <3>2, <3>3, <1>6
  <2>3. ASSUME NEW a \in Blocks', NEW x \in Blocks', a < x
        PROVE  End(a)' <= x
    <3>1. \A y, z \in Blocks : y < z => End(y) <= z
      BY DEF Tiled
    <3>2. \A y \in Blocks : y \in Nat /\ size[y] \in Nat
      BY DEF TypeOK
    <3>3. CASE a = b /\ x # rest
      <4>1. x \in Blocks /\ b < x
        BY <2>3, <3>3, <1>6
      <4>2. End(b) <= x /\ x \in Nat
        BY <4>1, <3>1, <3>2, <1>2
      <4>3. End(a)' = rest
        BY <3>3, <1>8
      <4> QED BY <4>2, <4>3, <1>3
    <3>4. CASE a = rest /\ x # rest
      BY <2>3, <3>1, <3>2, <3>4, <1>2, <1>3, <1>6, <1>8
    <3>5. CASE x = rest /\ a \in Blocks /\ a # b
      BY <2>3, <3>1, <3>2, <3>5, <1>2, <1>3, <1>8 DEF End, HeaderSize
    <3>6. CASE a = b /\ x = rest
      BY <3>6, <1>8, <1>3
    <3>7. CASE a \in Blocks /\ a # b /\ x \in Blocks
      BY <2>3, <3>1, <3>7, <1>8
    <3> QED BY <2>3, <3>3, <3>4, <3>5, <3>6, <3>7, <1>3, <1>6
  <2> QED BY <2>1, <2>2, <2>3, <1>9 DEF Tiled, MinPayload
<1>11. Binned \subseteq Blocks' /\ \A x \in Binned : size'[x] = size[x]
  BY <1>2, <1>6, <1>7 DEF Partitioned
<1>12. TypeOK'
  <2>1. size' \in [Blocks' -> Nat] /\ Blocks' \subseteq Nat
    BY <1>1, <1>6, <1>9
  <2>2. gcAllocs' \in Nat /\ gcFrees' \in Nat /\ gcLive' \in Int /\ gcPeak' \in Int
    BY <1>1, CountTypes
  <2>3. bins' \in [Classes -> Seq(Blocks')]
    BY <1>1, <1>11, BinsKept
  <2> QED BY <1>1, <1>2, <1>5, <1>6, <2>1, <2>2, <2>3 DEF TypeOK
<1>13. Partitioned' /\ BinsSorted'
  <2>1. rest \notin live /\ rest \notin Binned
    BY <1>4 DEF Partitioned
  <2>2. /\ Binned' = Binned /\ BinsSorted'
        /\ \A c, d \in Classes : \A i \in DOMAIN bins'[c], j \in DOMAIN bins'[d] :
             bins'[c][i] = bins'[d][j] => c = d /\ i = j
    BY <1>1, <1>11, BinsKept
  <2>3. Blocks' = live' \cup freeList' \cup Binned'
    BY <1>1, <1>5, <1>6, <2>2 DEF Partitioned
  <2>4. live' \cap freeList' = {} /\ live' \cap Binned' = {} /\ freeList' \cap Binned' = {}
    <3>1. live \cap freeList = {} /\ live \cap Binned = {} /\ freeList \cap Binned = {}
      BY DEF Partitioned
    <3>2. b # rest /\ live' = live \cup {b}
      BY <1>1, <1>2, <1>3
    <3> QED BY <1>2, <1>5, <2>1, <2>2, <3>1, <3>2
  <2> QED BY <2>2, <2>3, <2>4 DEF Partitioned
<1>14. Coalesced'
  <2> SUFFICES ASSUME NEW a \in freeList'
               PROVE  End(a)' \notin freeList' /\ End(a)' # heapOff'
    BY DEF Coalesced
  <2>1. CASE a = rest
    BY <2>1, <1>1, <1>2, <1>3, <1>5, <1>8 DEF Coalesced
  <2>2. CASE a # rest
    <3>1. a \in freeList /\ a # b /\ a \in Blocks
      BY <2>2, <1>5 DEF TypeOK
    <3>2. End(a) # rest
      BY <3>1, <1>2, <1>3, <1>4 DEF Tiled
    <3> QED BY <3>1, <3>2, <1>1, <1>5, <1>8 DEF Coalesced
  <2> QED BY <2>1, <2>2
<1>15. Counted'
  BY <1>1, <1>2, CountedAlloc
<1> QED BY <1>10, <1>12, <1>13, <1>14, <1>15

LEMMA AllocWholeInv ==
  ASSUME Inv, NEW n \in Nat, AllocWhole(n)
  PROVE  Inv'
<1> USE DEF Inv
<1>1. PICK b \in freeList :
        /\ freeList' = freeList \ (Unlinked(b) \cup {b})
        /\ live' = live \cup {b}
        /\ CountAlloc(size[b])
        /\ UNCHANGED <<heapOff, size, bins, exhausted>>
  BY DEF AllocWhole, HandOut
<1>2. b \in Blocks /\ b \notin live /\ b \notin Binned /\ size[b] \in Nat
  BY <1>1 DEF TypeOK, Partitioned
<1>3. freeList' = freeList \ {b} /\ Blocks' = Blocks /\ Binned' = Binned
  BY <1>1, FreeListUsable DEF Blocks, Binned
<1>4. TypeOK'
  BY <1>1, <1>2, <1>3, CountTypes DEF TypeOK
<1>5. Tiled' /\ Coalesced' /\ BinsSorted'
  BY <1>1, <1>3 DEF Tiled, Coalesced, BinsSorted, End, ClassOf
<1>6. Partitioned'
  BY <1>1, <1>2, <1>3 DEF Partitioned
<1>7. Counted'
  BY <1>1, <1>2, CountedAlloc
<1> QED BY <1>4, <1>5, <1>6, <1>7

LEMMA AllocBumpInv ==
  ASSUME Inv, NEW n \in Nat, n >= MinPayload, AllocBump(n)
  PROVE  Inv'
<1> USE DEF Inv
<1>0. PICK b : b = heapOff
  OBVIOUS
<1>1. /\ heapOff + HeaderSize + n <= HeapMax
      /\ heapOff' = heapOff + HeaderSize + n
      /\ size' = [a \in Blocks \cup {b} |-> IF a = b THEN n ELSE size[a]]
      /\ live' = live \cup {b}
      /\ freeList' = freeList
      /\ CountAlloc(n)
      /\ UNCHANGED <<bins, exhausted>>
  BY <1>0, FreeListUsable DEF AllocBump, HasRoom, HandOut
<1>2. b \in Nat /\ b \notin Blocks /\ \A a \in Blocks : a \in Nat /\ size[a] \in Nat /\ a < b
  BY <1>0 DEF TypeOK, Tiled, End, HeaderSize
<1>3. Blocks' = Blocks \cup {b} /\ size'[b] = n /\ \A a \in Blocks : size'[a] = size[a]
  BY <1>1, <1>2, Zenon DEF Blocks
<1>4. End(b)' = heapOff' /\ \A a \in Blocks : End(a)' = End(a)
  BY <1>0, <1>1, <1>2, <1>3 DEF End, TypeOK
<1>5. Tiled'
  <2>1. 0 \in Blocks'
    BY <1>0, <1>2, <1>3 DEF Tiled
  <2>2. ASSUME NEW a \in Blocks'
        PROVE  /\ size'[a] >= MinPayload
               /\ End(a)' = heapOff' \/ End(a)' \in Blocks'
               /\ End(a)' <= heapOff'
    BY <1>1, <1>0, <1>2, <1>3, <1>4 DEF Tiled, HeaderSize
  <2>3. ASSUME NEW a \in Blocks', NEW x \in Blocks', a < x
        PROVE  End(a)' <= x
    <3>1. a \in Blocks
      BY <2>3, <1>2, <1>3
    <3> QED BY <2>3, <3>1, <1>0, <1>2, <1>3, <1>4 DEF Tiled
  <2> QED BY <2>1, <2>2, <2>3 DEF Tiled
<1>6. Binned \subseteq Blocks' /\ \A x \in Binned : size'[x] = size[x]
  BY <1>3 DEF Partitioned
<1>7. /\ Binned' = Binned /\ BinsSorted' /\ bins' \in [Classes -> Seq(Blocks')]
      /\ \A c, d \in Classes : \A i \in DOMAIN bins'[c], j \in DOMAIN bins'[d] :
           bins'[c][i] = bins'[d][j] => c = d /\ i = j
  BY <1>1, <1>6, BinsKept
<1>8. TypeOK'
  <2>1. size' \in [Blocks' -> Nat] /\ Blocks' \subseteq Nat
    BY <1>1, <1>2, <1>3
  <2>2. heapOff' \in 0..HeapMax
    BY <1>0, <1>1, <1>2, HeapMaxAssumption DEF HeaderSize
  <2>3. gcAllocs' \in Nat /\ gcFrees' \in Nat /\ gcLive' \in Int /\ gcPeak' \in Int
    BY <1>1, CountTypes
  <2> QED BY <1>1, <1>3, <1>7, <2>1, <2>2, <2>3 DEF TypeOK
<1>9. Partitioned'
  BY <1>1, <1>2, <1>3, <1>7 DEF Partitioned
<1>10. Coalesced'
  BY <1>0, <1>1, <1>2, <1>3, <1>4 DEF Coalesced, TypeOK, Tiled, HeaderSize
<1>11. Counted'
  <2>1. b \notin live
    BY <1>2 DEF TypeOK
  <2> QED BY <1>1, <2>1, CountedAlloc
<1> QED BY <1>5, <1>7, <1>8, <1>9, <1>10, <1>11

LEMMA AllocExhaustedInv ==
  ASSUME Inv, NEW n \in Nat, AllocExhausted(n)
  PROVE  Inv'
<1>1. /\ freeList' = freeList /\ exhausted' = TRUE
      /\ UNCHANGED <<heapOff, size, live, bins, counters>>
  BY FreeListUsable DEF AllocExhausted, Inv
<1>2. Blocks' = Blocks /\ Binned' = Binned
  BY <1>1 DEF Blocks, Binned
<1>3. TypeOK' /\ Counted'
  BY <1>1, <1>2 DEF Inv, TypeOK, Counted, counters
<1>4. Tiled' /\ Partitioned' /\ Coalesced'
  BY <1>1, <1>2 DEF Inv, Tiled, Partitioned, Coalesced, End
<1>5. BinsSorted'
  BY <1>1 DEF Inv, BinsSorted, ClassOf
<1> QED BY <1>3, <1>4, <1>5 DEF Inv

----------------------------------------------------------------------------
(* Release preserves the invariant. *)

\* Releasing a live block takes one from the live blocks and adds a release.
LEMMA CountedFree ==
  ASSUME Inv, NEW b \in live, live' = live \ {b}, CountFree(b)
  PROVE  /\ Counted'
         /\ gcAllocs' \in Nat /\ gcFrees' \in Nat /\ gcLive' \in Int /\ gcPeak' \in Int
<1>1. IsFiniteSet(live') /\ Cardinality(live') = Cardinality(live) - 1
  BY FS_RemoveElement DEF Counted, Inv
<1>2. /\ gcAllocs' \in Nat /\ gcFrees' \in Nat /\ gcLive' \in Int /\ gcPeak' \in Int
      /\ gcAllocs' - gcFrees' = gcAllocs - gcFrees - 1
  BY DEF CountFree, TypeOK, Inv, HeaderSize
<1>3. Cardinality(live) \in Nat
  BY FS_CardinalityType DEF Counted, Inv
<1> QED BY <1>1, <1>2, <1>3 DEF Counted, Inv

\* What the invariant says of a block, in arithmetic.
LEMMA BlockFacts ==
  ASSUME TypeOK, Tiled, NEW b \in Blocks
  PROVE  /\ b \in Nat /\ size[b] \in Nat /\ End(b) \in Nat /\ heapOff \in Nat
         /\ b < End(b) /\ End(b) <= heapOff
         /\ size[b] >= MinPayload
         /\ End(b) = heapOff \/ End(b) \in Blocks
         /\ \A a \in Blocks : /\ a \in Nat /\ End(a) \in Nat
                              /\ a < b => End(a) <= b
                              /\ b < a => End(b) <= a
BY DEF TypeOK, Tiled, End, HeaderSize

\* A live block is on neither the free list nor in a bin.
LEMMA LiveApart ==
  ASSUME TypeOK, Partitioned, NEW b \in live
  PROVE  b \in Blocks /\ b \notin freeList /\ b \notin Binned
BY DEF TypeOK, Partitioned

LEMMA FreeCachedInv ==
  ASSUME Inv, NEW b \in live, live' = live \ {b}, CountFree(b),
         FreeCached(b), UNCHANGED exhausted
  PROVE  Inv'
<1> USE DEF Inv
<1>0. PICK c : c = BinFor(b)
  OBVIOUS
<1>1. /\ size[b] <= MaxSmall
      /\ bins' = [bins EXCEPT ![c] = Cons(b, bins[c])]
      /\ UNCHANGED <<heapOff, size, freeList>>
  BY <1>0 DEF FreeCached
<1>2. b \in Blocks /\ b \notin freeList /\ b \notin Binned /\ size[b] \in Nat
  BY LiveApart, BlockFacts
<1>3. c \in Classes /\ c = ClassOf(size[b])
  BY <1>0, <1>1, <1>2, ClassOfSmall DEF BinFor
<1>4. bins[c] \in Seq(Blocks) /\ DOMAIN bins[c] = 1..Len(bins[c]) /\ Len(bins[c]) \in Nat
  BY <1>3 DEF TypeOK
<1>5. /\ Cons(b, bins[c]) \in Seq(Blocks)
      /\ DOMAIN Cons(b, bins[c]) = 1..(Len(bins[c]) + 1)
      /\ Cons(b, bins[c])[1] = b
      /\ \A i \in 2..(Len(bins[c]) + 1) : Cons(b, bins[c])[i] = bins[c][i - 1]
  <2>1. bins[c] \in Seq(Blocks) /\ b \in Blocks
    BY <1>2, <1>4
  <2> QED BY <2>1 DEF Cons
<1>6. /\ bins' \in [Classes -> Seq(Blocks)]
      /\ bins'[c] = Cons(b, bins[c])
      /\ \A d \in Classes : d # c => bins'[d] = bins[d]
  BY <1>1, <1>3, <1>5 DEF TypeOK
<1>7. Blocks' = Blocks /\ \A a : End(a)' = End(a)
  BY <1>1 DEF Blocks, End
<1>8. TypeOK' /\ Counted'
  BY <1>1, <1>6, <1>7, CountedFree DEF TypeOK
<1>9. Tiled' /\ Coalesced'
  BY <1>1, <1>7 DEF Tiled, Coalesced
<1>10. \A d \in Classes : \A k \in DOMAIN bins'[d] :
         \/ d = c /\ k = 1 /\ bins'[d][k] = b
         \/ \E j \in DOMAIN bins[d] : /\ bins'[d][k] = bins[d][j]
                                      /\ j = IF d = c THEN k - 1 ELSE k
  <2> TAKE d \in Classes
  <2> TAKE k \in DOMAIN bins'[d]
  <2>1. CASE d # c
    <3>1. k \in DOMAIN bins[d] /\ bins'[d][k] = bins[d][k]
      BY <1>6, <2>1
    <3> QED BY ONLY <2>1, <3>1
  <2>2. CASE d = c
    <3>1. /\ k \in 1..(Len(bins[c]) + 1)
          /\ k = 1 => bins'[c][k] = b
          /\ k \in 2..(Len(bins[c]) + 1) => bins'[c][k] = bins[c][k - 1]
      BY <1>5, <1>6, <2>2
    <3>2. k # 1 => k - 1 \in DOMAIN bins[c] /\ bins'[c][k] = bins[c][k - 1]
      BY ONLY <1>4, <3>1
    <3> QED BY ONLY <2>2, <3>1, <3>2
  <2> QED BY ONLY <2>1, <2>2
<1>11. \A d \in Classes : \A j \in DOMAIN bins[d] :
         \E k \in DOMAIN bins'[d] : bins'[d][k] = bins[d][j]
  <2> SUFFICES ASSUME NEW d \in Classes, NEW j \in DOMAIN bins[d]
               PROVE  \E k \in DOMAIN bins'[d] : bins'[d][k] = bins[d][j]
    OBVIOUS
  <2>1. CASE d # c  BY <2>1, <1>6
  <2>2. CASE d = c
    <3>1. j + 1 \in 2..(Len(bins[c]) + 1) /\ (j + 1) - 1 = j
      BY <2>2, <1>4
    <3>2. j + 1 \in DOMAIN bins'[c] /\ bins'[c][j + 1] = bins[c][j]
      BY <3>1, <1>4, <1>5, <1>6
    <3> QED BY <2>2, <3>2
  <2> QED BY <2>1, <2>2
<1>12. \A x : x \in Binned' <=> x \in Binned \/ x = b
  <2>1. b \in Binned'
    BY <1>3, <1>4, <1>5, <1>6 DEF Binned, Range
  <2>2. \A x : x \in Binned => x \in Binned'
    BY <1>11, BinnedIff DEF Binned, Range
  <2>3. \A x : x \in Binned' => x \in Binned \/ x = b
    BY <1>10, BinnedIff DEF Binned, Range
  <2> QED BY <2>1, <2>2, <2>3
<1>13. \A d, e \in Classes : \A k \in DOMAIN bins'[d], l \in DOMAIN bins'[e] :
         bins'[d][k] = bins'[e][l] => d = e /\ k = l
  <2> SUFFICES ASSUME NEW d \in Classes, NEW e \in Classes,
                      NEW k \in DOMAIN bins'[d], NEW l \in DOMAIN bins'[e],
                      bins'[d][k] = bins'[e][l]
               PROVE  d = e /\ k = l
    OBVIOUS
  <2>1. k \in Int /\ l \in Int
    BY <1>6
  <2>2. \A f \in Classes : \A j \in DOMAIN bins[f] : bins[f][j] # b
    BY <1>2, BinnedIff
  <2>3. CASE d = c /\ k = 1 /\ bins'[d][k] = b
    <3>1. ~ \E j \in DOMAIN bins[e] : bins'[e][l] = bins[e][j]
      BY <2>2, <2>3
    <3> QED BY <2>3, <3>1, <1>10
  <2>4. CASE e = c /\ l = 1 /\ bins'[e][l] = b
    <3>1. ~ \E j \in DOMAIN bins[d] : bins'[d][k] = bins[d][j]
      BY <2>2, <2>4
    <3> QED BY <2>4, <3>1, <1>10
  <2>5. CASE /\ ~(d = c /\ k = 1 /\ bins'[d][k] = b)
             /\ ~(e = c /\ l = 1 /\ bins'[e][l] = b)
    <3>1. PICK j \in DOMAIN bins[d] :
            bins'[d][k] = bins[d][j] /\ j = IF d = c THEN k - 1 ELSE k
      BY <2>5, <1>10
    <3>2. PICK m \in DOMAIN bins[e] :
            bins'[e][l] = bins[e][m] /\ m = IF e = c THEN l - 1 ELSE l
      BY <2>5, <1>10
    <3>3. bins[d][j] = bins[e][m]
      BY <3>1, <3>2
    <3>4. d = e /\ j = m
      BY <3>1, <3>2, <3>3, BinsDistinct
    <3> QED BY <2>1, <3>1, <3>2, <3>4
  <2> QED BY <2>3, <2>4, <2>5
<1>14. Partitioned'
  <2>1. Blocks' = live' \cup freeList' \cup Binned'
    BY <1>1, <1>2, <1>7, <1>12 DEF Partitioned
  <2>2. live' \cap freeList' = {} /\ live' \cap Binned' = {} /\ freeList' \cap Binned' = {}
    BY <1>1, <1>2, <1>12 DEF Partitioned
  <2> QED BY <2>1, <2>2, <1>13 DEF Partitioned
<1>15. BinsSorted'
  <2> SUFFICES ASSUME NEW d \in Classes, NEW k \in DOMAIN bins'[d]
               PROVE  ClassOf(size[bins'[d][k]]) = d
    BY <1>1 DEF BinsSorted, ClassOf
  <2>1. CASE d = c /\ k = 1 /\ bins'[d][k] = b
    BY <2>1, <1>3
  <2>2. CASE \E j \in DOMAIN bins[d] : bins'[d][k] = bins[d][j]
    BY <2>2 DEF BinsSorted
  <2> QED BY <2>1, <2>2, <1>10
<1> QED BY <1>8, <1>9, <1>14, <1>15

\* The last block of the region shrinks the region, and with it the one free
\* block that may end where it started.
LEMMA FreeTailInv ==
  ASSUME Inv, NEW b \in live, live' = live \ {b}, CountFree(b),
         FreeTail(b), UNCHANGED exhausted
  PROVE  Inv'
<1> USE DEF Inv
<1> DEFINE tail == TailOf(freeList, size, b)
<1>1. /\ End(b) = heapOff
      /\ TrimTail(freeList, size, b)
      /\ UNCHANGED bins
  BY DEF FreeTail
<1>2. b \in Blocks /\ b \notin freeList /\ b \notin Binned /\ b \in Nat
  BY LiveApart, BlockFacts
<1>3. \A x \in Blocks : /\ x \in Nat /\ End(x) \in Nat /\ x < End(x)
                        /\ x # b => End(x) <= b /\ End(x) \in Blocks
  BY <1>1, <1>2, BlockFacts
<1>4. \A x \in tail : x \in freeList /\ End(x) = b
  <2> SUFFICES ASSUME NEW x \in freeList, End(x) # b,
                      \A y \in Blocks : x <= y /\ y < b => y \in freeList
               PROVE  FALSE
    BY DEF TailOf, Blocks
  <2>1. x \in Blocks /\ x # b
    BY <1>2 DEF TypeOK
  <2>2. End(x) \in Blocks /\ x <= End(x) /\ End(x) < b
    BY <2>1, <1>2, <1>3
  <2> QED BY <2>2 DEF Coalesced
<1>5. \A x \in freeList : End(x) = b => x \in tail
  <2> SUFFICES ASSUME NEW x \in freeList, End(x) = b, NEW y \in Blocks, x <= y, y < b
               PROVE  y = x
    BY DEF TailOf, Blocks
  <2>1. x \in Blocks /\ y \in Blocks /\ x \in Nat /\ y \in Nat /\ b \in Nat
    BY <1>2, <1>3 DEF TypeOK
  <2>2. x < y => End(x) <= y
    BY <2>1, BlockFacts
  <2> QED BY ONLY <2>1, <2>2, End(x) = b, x <= y, y < b
<1> HIDE DEF tail
<1>6. PICK h : h = heapOff'
  OBVIOUS
<1>7. \/ tail = {} /\ h = b
      \/ tail = {h} /\ h \in freeList /\ End(h) = b
  <2>1. h = CHOOSE o \in {b} \cup tail : \A a \in {b} \cup tail : o <= a
    BY <1>1, <1>6 DEF TrimTail, tail, Min
  <2>2. CASE tail = {}
    <3>1. \E o \in {b} \cup tail : \A a \in {b} \cup tail : o <= a
      BY <2>2, <1>2
    <3> QED BY <2>1, <2>2, <3>1
  <2>3. CASE tail # {}
    <3>1. PICK t : t \in tail
      BY <2>3
    <3>2. t \in freeList /\ End(t) = b /\ t \in Blocks /\ t < b
      BY <3>1, <1>2, <1>3, <1>4 DEF TypeOK
    <3>3. ASSUME NEW x \in tail
          PROVE  x = t
      <4>1. x \in Blocks /\ End(x) = b /\ x < b /\ x \in Nat /\ t \in Nat
        BY <3>2, <1>2, <1>3, <1>4 DEF TypeOK
      <4>2. (x < t => End(x) <= t) /\ (t < x => End(t) <= x)
        BY <3>2, <4>1, BlockFacts
      <4> QED BY <3>2, <4>1, <4>2, <1>2
    <3>4. tail = {t}
      BY <3>1, <3>3
    <3>5. \E o \in {b} \cup tail : \A a \in {b} \cup tail : o <= a
      BY <3>2, <3>4, <1>2, <1>3
    <3>6. h = t
      BY <2>1, <3>2, <3>4, <3>5, <1>2, <1>3
    <3> QED BY <3>2, <3>4, <3>6
  <2> QED BY <2>2, <2>3
<1>8. h \in Nat /\ h <= b /\ (h # b => h \in Blocks /\ h < b)
  <2>1. CASE tail = {} /\ h = b
    BY <2>1, <1>2
  <2>2. CASE tail = {h} /\ h \in freeList /\ End(h) = b
    BY <2>2, <1>2, <1>3 DEF TypeOK
  <2> QED BY <2>1, <2>2, <1>7
<1>9. /\ Blocks' = Blocks \ ({b} \cup tail)
      /\ \A x \in Blocks' : size'[x] = size[x] /\ End(x)' = End(x)
      /\ size' = [x \in Blocks' |-> size[x]]
  <2>1. size' = [x \in {y \in Blocks : y < b} \ tail |-> size[x]]
    BY <1>1 DEF TrimTail, tail, Blocks
  <2>2. {y \in Blocks : y < b} = Blocks \ {b}
    <3>1. ASSUME NEW y \in Blocks
          PROVE  y < b <=> y # b
      BY <1>2, <1>3
    <3> QED BY <3>1
  <2>3. Blocks' = Blocks \ ({b} \cup tail)
    BY <2>1, <2>2 DEF Blocks
  <2> QED BY <2>1, <2>2, <2>3 DEF End
<1>10. freeList' = freeList \ tail
  BY <1>1 DEF TrimTail, tail
<1>11. \A x \in Blocks' : /\ x \in Blocks /\ x < h /\ End(x) <= h
                          /\ End(x) = h \/ End(x) \in Blocks'
  <2> SUFFICES ASSUME NEW x \in Blocks'
               PROVE  /\ x < h /\ End(x) <= h
                      /\ End(x) = h \/ End(x) \in Blocks'
    BY <1>9
  <2>1. x \in Blocks /\ x # b /\ x \notin tail
    BY <1>9
  <2>2. x \in Nat /\ End(x) \in Nat /\ x < End(x) /\ End(x) <= b /\ End(x) \in Blocks
    BY <2>1, <1>3
  <2>3. CASE tail = {} /\ h = b
    BY <2>2, <2>3, <1>2, <1>9
  <2>4. CASE tail = {h} /\ h \in freeList /\ End(h) = b
    <3>1. h \in Blocks /\ x # h /\ h \in Nat /\ h < b
      BY <2>1, <2>4, <1>2, <1>3 DEF TypeOK
    <3>2. End(x) <= h \/ b <= x
      BY <2>1, <2>2, <2>4, <3>1, BlockFacts
    <3> QED BY <2>2, <2>4, <3>1, <3>2, <1>2, <1>9
  <2> QED BY <2>3, <2>4, <1>7
<1>12. Tiled'
  <2>1. heapOff' > 0 => 0 \in Blocks'
    <3>1. heapOff > 0 /\ 0 \in Blocks
      BY <1>1, <1>2, <1>3 DEF Tiled
    <3>2. h > 0 => 0 \notin tail /\ 0 # b
      BY <1>7, <1>8, <1>2
    <3> QED BY <3>1, <3>2, <1>6, <1>9
  <2>2. ASSUME NEW x \in Blocks'
        PROVE  /\ size'[x] >= MinPayload
               /\ End(x)' = heapOff' \/ End(x)' \in Blocks'
               /\ End(x)' <= heapOff'
    BY <1>6, <1>9, <1>11 DEF Tiled
  <2>3. ASSUME NEW a \in Blocks', NEW x \in Blocks', a < x
        PROVE  End(a)' <= x
    BY <2>3, <1>9, <1>11 DEF Tiled
  <2> QED BY <2>1, <2>2, <2>3 DEF Tiled
<1>13. Binned \subseteq Blocks' /\ \A x \in Binned : size'[x] = size[x]
  BY <1>2, <1>4, <1>9 DEF Partitioned
<1>14. /\ Binned' = Binned /\ BinsSorted' /\ bins' \in [Classes -> Seq(Blocks')]
       /\ \A c, d \in Classes : \A i \in DOMAIN bins'[c], j \in DOMAIN bins'[d] :
            bins'[c][i] = bins'[d][j] => c = d /\ i = j
  BY <1>1, <1>13, BinsKept
<1>15. TypeOK' /\ Counted'
  <2>1. size' \in [Blocks' -> Nat] /\ Blocks' \subseteq Nat
    BY <1>3, <1>9, BlockFacts
  <2>2. heapOff' \in 0..HeapMax
    BY <1>1, <1>2, <1>3, <1>6, <1>8, HeapMaxAssumption DEF TypeOK
  <2>3. live' \subseteq Blocks' /\ freeList' \subseteq Blocks'
    BY <1>2, <1>4, <1>9, <1>10, LiveApart DEF TypeOK
  <2> QED BY <1>14, <2>1, <2>2, <2>3, CountedFree DEF TypeOK
<1>16. Partitioned'
  <2>1. Blocks' = live' \cup freeList' \cup Binned'
    BY <1>2, <1>4, <1>9, <1>10, <1>14, LiveApart DEF Partitioned
  <2>2. live' \cap freeList' = {} /\ live' \cap Binned' = {} /\ freeList' \cap Binned' = {}
    BY <1>10, <1>14 DEF Partitioned
  <2> QED BY <2>1, <2>2, <1>14 DEF Partitioned
<1>17. Coalesced'
  <2> SUFFICES ASSUME NEW x \in freeList'
               PROVE  End(x)' \notin freeList' /\ End(x)' # heapOff'
    BY DEF Coalesced
  <2>1. x \in freeList /\ x \notin tail /\ x \in Blocks' /\ End(x)' = End(x)
    BY <1>2, <1>9, <1>10 DEF TypeOK
  <2>2. End(x) # h
    BY <2>1, <1>5, <1>7 DEF Coalesced
  <2> QED BY <2>1, <2>2, <1>6, <1>10 DEF Coalesced
<1> QED BY <1>12, <1>14, <1>15, <1>16, <1>17

\* The run of blocks that a released block forms with the free blocks it
\* touches: it starts and ends at blocks of the run, and nothing of the heap
\* between is left out.
LEMMA MergedRun ==
  ASSUME Inv, NEW b \in live, End(b) # heapOff,
         NEW M, M = Before(b) \cup {b} \cup After(b),
         NEW start, start = Min(M), NEW last, last = Max(M)
  PROVE  /\ M \subseteq freeList \cup {b} /\ M \subseteq Blocks
         /\ start \in M /\ last \in M /\ start <= b /\ b <= last
         /\ start = b \/ (start \in freeList /\ End(start) = b)
         /\ last = b \/ (last \in freeList /\ End(b) = last)
         /\ \A x \in freeList : End(x) = b => x = start
         /\ End(b) \in freeList => last = End(b)
         /\ M = {start, b, last}
<1> USE DEF Inv
<1>1. /\ b \in Blocks /\ b \notin freeList /\ b \in Nat /\ End(b) \in Nat /\ b < End(b)
      /\ \A x \in freeList : x \in Blocks /\ x \in Nat
  BY LiveApart, BlockFacts DEF TypeOK
<1>2. \A x, y \in freeList : End(x) = b /\ End(y) = b => x = y
  <2> SUFFICES ASSUME NEW x \in freeList, NEW y \in freeList, End(x) = b, End(y) = b
               PROVE  x = y
    OBVIOUS
  <2>1. (x < y => End(x) <= y) /\ (y < x => End(y) <= x) /\ x < b /\ y < b
    BY <1>1, BlockFacts
  <2> QED BY <2>1, <1>1
<1>3. PICK p : \/ p = b /\ Before(b) = {}
               \/ p \in freeList /\ p < b /\ End(p) = b /\ Before(b) = {p}
  <2>1. CASE Before(b) = {}
    BY <2>1
  <2>2. CASE Before(b) # {}
    <3>1. PICK p : p \in Before(b)
      BY <2>2
    <3>2. p \in freeList /\ p < b /\ End(p) = b
      BY <3>1 DEF Before
    <3>3. Before(b) = {p}
      BY <1>2, <3>1, <3>2 DEF Before
    <3> QED BY <3>2, <3>3
  <2> QED BY <2>1, <2>2
<1>4. PICK q : \/ q = b /\ After(b) = {} /\ End(b) \notin freeList
               \/ q \in freeList /\ b < q /\ End(b) = q /\ After(b) = {q}
  <2>1. CASE End(b) \in freeList
    BY <2>1, <1>1 DEF After
  <2>2. CASE End(b) \notin freeList
    BY <2>2 DEF After
  <2> QED BY <2>1, <2>2
<1>5. p \in Nat /\ q \in Nat /\ p <= b /\ b <= q
  BY <1>1, <1>3, <1>4
<1>6. M = {p, b, q}
  BY <1>3, <1>4
<1>7. start = p
  <2>1. p \in M /\ \A x \in M : p <= x
    BY <1>5, <1>6, <1>1
  <2>2. start \in M /\ \A x \in M : start <= x
    BY <2>1 DEF Min
  <2> QED BY <2>1, <2>2, <1>1, <1>5, <1>6
<1>8. last = q
  <2>1. q \in M /\ \A x \in M : x <= q
    BY <1>5, <1>6, <1>1
  <2>2. last \in M /\ \A x \in M : x <= last
    BY <2>1 DEF Max
  <2> QED BY <2>1, <2>2, <1>1, <1>5, <1>6
<1>9. \A x \in freeList : End(x) = b => x = p
  <2> SUFFICES ASSUME NEW x \in freeList, End(x) = b
               PROVE  x = p
    OBVIOUS
  <2>1. x \in Before(b)
    BY <1>1, BlockFacts DEF Before
  <2> QED BY <2>1, <1>3
<1> QED BY <1>1, <1>3, <1>4, <1>5, <1>6, <1>7, <1>8, <1>9

\* A released block joins the free list as one block with the free blocks it
\* touches.
LEMMA FreeListedInv ==
  ASSUME Inv, NEW b \in live, live' = live \ {b}, CountFree(b),
         FreeListed(b), UNCHANGED exhausted
  PROVE  Inv'
<1> USE DEF Inv
<1> DEFINE M     == Before(b) \cup {b} \cup After(b)
           start == Min(M)
           last  == Max(M)
           list  == (freeList \ M) \cup {start}
           D     == (Blocks \ M) \cup {start}
           sz    == [a \in D |-> IF a = start THEN End(last) - start - HeaderSize
                                 ELSE size[a]]
<1>1. End(b) # heapOff /\ TrimTail(list, sz, heapOff) /\ UNCHANGED bins
  BY DEF FreeListed
<1>2. PICK m, s, l, e : m = M /\ s = start /\ l = last /\ e = End(last)
  OBVIOUS
<1>3. /\ m \subseteq freeList \cup {b} /\ m \subseteq Blocks
      /\ s \in m /\ l \in m /\ s <= b /\ b <= l
      /\ s = b \/ (s \in freeList /\ End(s) = b)
      /\ l = b \/ (l \in freeList /\ End(b) = l)
      /\ \A x \in freeList : End(x) = b => x = s
      /\ End(b) \in freeList => l = End(b)
      /\ m = {s, b, l}
  BY <1>1, <1>2, MergedRun
<1> HIDE DEF M, start, last
<1>4. PICK nl, nd, nz : nl = list /\ nd = D /\ nz = sz
  OBVIOUS
<1>5. /\ nl = (freeList \ m) \cup {s}
      /\ nd = (Blocks \ m) \cup {s}
      /\ nz = [a \in nd |-> IF a = s THEN e - s - HeaderSize ELSE size[a]]
  BY <1>2, <1>4
<1>6. TrimTail(nl, nz, heapOff)
  BY <1>1, <1>4
<1> HIDE DEF list, D, sz
<1>7. /\ b \in Blocks /\ b \notin freeList /\ b \notin Binned /\ b \in Nat
      /\ \A x \in Blocks : x \in Nat /\ End(x) \in Nat /\ x < End(x)
      /\ \A x \in freeList : x \in Blocks /\ x \notin live /\ x \notin Binned
      /\ heapOff \in Nat
  BY LiveApart, BlockFacts DEF TypeOK, Partitioned
<1>8. e = End(l) /\ e \in Nat /\ s \in Nat /\ l \in Nat /\ l < e /\ s < e
  BY <1>2, <1>3, <1>7
<1>9. e \notin freeList /\ e # heapOff /\ e \in Blocks /\ e \notin m
  <2>1. e \notin freeList /\ e # heapOff
    <3>1. CASE l = b
      BY <3>1, <1>1, <1>3, <1>7, <1>8
    <3>2. CASE l \in freeList
      BY <3>2, <1>8 DEF Coalesced
    <3> QED BY <3>1, <3>2, <1>3
  <2>2. e \in Blocks
    BY <2>1, <1>3, <1>8 DEF Tiled
  <2>3. e \notin m
    BY <1>3, <1>7, <1>8
  <2> QED BY <2>1, <2>2, <2>3
<1>10. nd \subseteq Nat /\ DOMAIN nz = nd /\ nl \subseteq nd
  BY <1>3, <1>5, <1>7, <1>8
<1>11. /\ nz[s] = e - s - HeaderSize
       /\ \A x \in nd : x # s => nz[x] = size[x] /\ x \in Blocks /\ x \notin m
  BY <1>5
<1>12. /\ e - s - HeaderSize \in Nat /\ e - s - HeaderSize >= MinPayload
       /\ End(b) <= e
  <2>1. End(b) <= e
    BY <1>3, <1>7, <1>8
  <2>2. s + HeaderSize + MinPayload <= End(b)
    BY <1>3, <1>7, <1>8, BlockFacts DEF End, HeaderSize, MinPayload
  <2> QED BY <2>1, <2>2, <1>7, <1>8 DEF HeaderSize, MinPayload
<1>13. /\ s + HeaderSize + nz[s] = e
       /\ \A x \in nd : x # s => x + HeaderSize + nz[x] = End(x)
  BY <1>8, <1>11, <1>12 DEF End, HeaderSize
<1>14. \A x \in nd : x # s =>
         /\ End(x) = heapOff \/ End(x) \in nd
         /\ End(x) <= heapOff /\ size[x] \in Nat /\ size[x] >= MinPayload
  <2> SUFFICES ASSUME NEW x \in nd, x # s
               PROVE  /\ End(x) = heapOff \/ End(x) \in nd
                      /\ End(x) <= heapOff /\ size[x] \in Nat /\ size[x] >= MinPayload
    OBVIOUS
  <2>1. x \in Blocks /\ x \notin m /\ x # b /\ x # l
    BY <1>3, <1>11
  <2>2. /\ End(x) = heapOff \/ End(x) \in Blocks
        /\ End(x) <= heapOff /\ size[x] \in Nat /\ size[x] >= MinPayload
    BY <2>1, BlockFacts
  <2>3. \A y \in Blocks : End(x) = End(y) => x = y
    <3> SUFFICES ASSUME NEW y \in Blocks, End(x) = End(y)
                 PROVE  x = y
      OBVIOUS
    <3>1. (x < y => End(x) <= y) /\ (y < x => End(y) <= x)
      BY <2>1, BlockFacts
    <3> QED BY <2>1, <3>1, <1>7
  <2>4. End(x) # b \/ s = b
    BY <2>1, <2>3, <1>3, <1>7
  <2>5. End(x) # l \/ l = b
    BY <2>1, <2>3, <1>3, <1>7
  <2>6. End(x) \in m => End(x) = s
    BY <2>4, <2>5, <1>3
  <2> QED BY <2>2, <2>6, <1>5
<1>15. \A x \in nd : /\ s < x => e <= x
                     /\ x < s => End(x) <= s
  <2> SUFFICES ASSUME NEW x \in nd
               PROVE  (s < x => e <= x) /\ (x < s => End(x) <= s)
    OBVIOUS
  <2>1. x \in Nat
    BY <1>10
  <2>2. CASE x = s
    BY <2>2, <1>8
  <2>3. CASE x # s
    <3>1. x \in Blocks /\ x # b /\ x # l
      BY <2>3, <1>3, <1>11
    <3>2. x < s => End(x) <= s
      BY <3>1, <1>3, BlockFacts
    <3>3. s < x => End(s) <= x
      BY <3>1, <1>3, BlockFacts
    <3>4. b < x => End(b) <= x
      BY <3>1, <1>7, BlockFacts
    <3>5. l < x => e <= x
      BY <3>1, <1>3, <1>8, BlockFacts
    <3>6. s < x => b < x
      BY <2>1, <3>1, <3>3, <1>3, <1>7
    <3>7. b < x => l < x
      BY <2>1, <3>1, <3>4, <1>3, <1>7, <1>8
    <3> QED BY <3>2, <3>5, <3>6, <3>7
  <2> QED BY <2>2, <2>3
<1>16. TiledBy(nz, heapOff)
  <2>1. heapOff > 0 => 0 \in DOMAIN nz
    <3> SUFFICES ASSUME heapOff > 0
                 PROVE  0 \in nd
      BY <1>10
    <3>1. 0 \in Blocks
      BY DEF Tiled
    <3>2. 0 \in m => s = 0
      <4>1. \A x \in Blocks : End(x) # 0
        BY <1>7
      <4> QED BY <4>1, <1>3, <1>7
    <3> QED BY <3>1, <3>2, <1>5
  <2>2. ASSUME NEW x \in nd
        PROVE  /\ nz[x] >= MinPayload
               /\ x + HeaderSize + nz[x] = heapOff \/ x + HeaderSize + nz[x] \in DOMAIN nz
               /\ x + HeaderSize + nz[x] <= heapOff
               /\ \A a \in nd : a < x => a + HeaderSize + nz[a] <= x
    <3>1. CASE x = s
      <4>1. e \in nd /\ e <= heapOff
        BY <1>3, <1>5, <1>8, <1>9, BlockFacts
      <4>2. \A a \in nd : a < s => a # s /\ a + HeaderSize + nz[a] <= s
        BY <1>8, <1>10, <1>13, <1>15
      <4> QED BY <3>1, <4>1, <4>2, <1>10, <1>11, <1>12, <1>13
    <3>2. CASE x # s
      <4>1. \A a \in nd : a < x => a + HeaderSize + nz[a] <= x
        <5> SUFFICES ASSUME NEW a \in nd, a < x
                     PROVE  a + HeaderSize + nz[a] <= x
          OBVIOUS
        <5>1. CASE a = s
          BY <5>1, <1>13, <1>15
        <5>2. CASE a # s
          <6>1. a \in Blocks /\ x \in Blocks
            BY <3>2, <5>2, <1>11
          <6> QED BY <5>2, <6>1, <1>13, BlockFacts
        <5> QED BY <5>1, <5>2
      <4> QED BY <3>2, <4>1, <1>10, <1>11, <1>13, <1>14
    <3> QED BY <3>1, <3>2
  <2> QED BY <2>1, <2>2, <1>10 DEF TiledBy
<1>17. nz \in [nd -> Nat]
  <2>1. \A x \in nd : nz[x] \in Nat
    BY <1>11, <1>12, <1>14
  <2> QED BY <2>1, <1>5
<1>18. \A x \in nl : /\ x + HeaderSize + nz[x] \notin nl
                     /\ x + HeaderSize + nz[x] # heapOff
  <2> SUFFICES ASSUME NEW x \in nl
               PROVE  /\ x + HeaderSize + nz[x] \notin nl
                      /\ x + HeaderSize + nz[x] # heapOff
    OBVIOUS
  <2>1. CASE x = s
    BY <2>1, <1>5, <1>8, <1>9, <1>13
  <2>2. CASE x # s
    <3>1. x \in freeList /\ x \notin m /\ x \in nd
      BY <2>2, <1>5, <1>10
    <3>2. End(x) \notin freeList /\ End(x) # heapOff
      BY <3>1 DEF Coalesced
    <3>3. End(x) # s
      BY <2>2, <3>1, <3>2, <1>3
    <3> QED BY <2>2, <3>1, <3>2, <3>3, <1>5, <1>13
  <2> QED BY <2>1, <2>2
<1>19. freeList' = nl /\ heapOff' = heapOff /\ size' = nz
  BY <1>6, <1>7, <1>10, <1>16, <1>17, <1>18, TrimNothing
<1>20. Blocks' = nd
  BY <1>10, <1>19 DEF Blocks
<1>21. Tiled' /\ Coalesced'
  <2>1. Tiled'
    BY <1>16, <1>19, <1>20 DEF Tiled, TiledBy, End, Blocks
  <2>2. Coalesced'
    BY <1>18, <1>19 DEF Coalesced, End
  <2> QED BY <2>1, <2>2
<1>22. Binned \subseteq Blocks' /\ \A x \in Binned : size'[x] = size[x]
  <2>1. \A x \in Binned : x \in Blocks /\ x \notin m
    BY <1>3, <1>7 DEF Partitioned
  <2>2. \A x \in Binned : x \in nd /\ x # s
    BY <2>1, <1>3, <1>5
  <2> QED BY <2>2, <1>11, <1>19, <1>20
<1>23. /\ Binned' = Binned /\ BinsSorted' /\ bins' \in [Classes -> Seq(Blocks')]
       /\ \A c, d \in Classes : \A i \in DOMAIN bins'[c], j \in DOMAIN bins'[d] :
            bins'[c][i] = bins'[d][j] => c = d /\ i = j
  BY <1>1, <1>22, BinsKept
<1>24. TypeOK' /\ Counted'
  <2>1. live' \subseteq Blocks'
    BY <1>3, <1>5, <1>7, <1>20 DEF TypeOK
  <2> QED BY <2>1, <1>10, <1>17, <1>19, <1>20, <1>23, CountedFree DEF TypeOK
<1>25. Partitioned'
  <2>1. Blocks' = live' \cup freeList' \cup Binned'
    BY <1>3, <1>5, <1>7, <1>19, <1>20, <1>22, <1>23, <1>24 DEF Partitioned, TypeOK
  <2>2. live' \cap freeList' = {}
    BY <1>3, <1>5, <1>7, <1>19
  <2>3. live' \cap Binned' = {} /\ freeList' \cap Binned' = {}
    BY <1>3, <1>5, <1>7, <1>19, <1>23 DEF Partitioned
  <2> QED BY <2>1, <2>2, <2>3, <1>23 DEF Partitioned
<1> QED BY <1>21, <1>23, <1>24, <1>25

----------------------------------------------------------------------------
(* The theorems. *)

LEMMA InitInv == Init => Inv
<1> SUFFICES ASSUME Init PROVE Inv
  OBVIOUS
<1>1. Blocks = {} /\ Binned = {}
  BY DEF Init, Blocks, Binned, Range
<1>2. TypeOK
  <2>1. size \in [Blocks -> Nat]
    BY <1>1, SMT DEF Init
  <2>2. bins \in [Classes -> Seq(Blocks)]
    BY DEF Init
  <2>3. /\ heapOff \in 0..HeapMax /\ live \subseteq Blocks /\ freeList \subseteq Blocks
        /\ gcAllocs \in Nat /\ gcFrees \in Nat /\ gcLive \in Int /\ gcPeak \in Int
    BY HeapMaxAssumption DEF Init
  <2>4. exhausted \in BOOLEAN
    BY Zenon DEF Init
  <2> QED BY <1>1, <2>1, <2>2, <2>3, <2>4 DEF TypeOK
<1>3. Tiled /\ Coalesced /\ Partitioned /\ BinsSorted
  BY <1>1 DEF Init, Tiled, Coalesced, Partitioned, BinsSorted
<1>4. Counted
  BY FS_EmptySet DEF Init, Counted
<1> QED BY <1>2, <1>3, <1>4 DEF Inv

LEMMA AllocInv ==
  ASSUME Inv, NEW r \in Requests, Alloc(Payload(r))
  PROVE  Inv'
<1> DEFINE n == Payload(r)
<1>1. n \in Nat /\ n >= MinPayload
  BY RequestsAssumption DEF Payload, MinPayload
<1>2. \/ AllocFromBin(n) \/ AllocSplit(n) \/ AllocWhole(n)
      \/ AllocBump(n) \/ AllocExhausted(n)
  BY DEF Alloc
<1> HIDE DEF n
<1> QED BY <1>1, <1>2, AllocFromBinInv, AllocSplitInv, AllocWholeInv,
           AllocBumpInv, AllocExhaustedInv

LEMMA FreeInv ==
  ASSUME Inv, NEW b \in live, Free(b)
  PROVE  Inv'
BY FreeTailInv, FreeCachedInv, FreeListedInv DEF Free

LEMMA StutterInv == Inv /\ UNCHANGED vars => Inv'
<1> SUFFICES ASSUME Inv, UNCHANGED vars PROVE Inv'
  OBVIOUS
<1>1. Blocks' = Blocks /\ Binned' = Binned
  BY DEF vars, Blocks, Binned
<1>2. TypeOK' /\ Counted'
  BY <1>1 DEF vars, counters, Inv, TypeOK, Counted
<1>3. Tiled' /\ Partitioned' /\ Coalesced'
  BY <1>1 DEF vars, Inv, Tiled, Partitioned, Coalesced, End
<1>4. BinsSorted'
  BY DEF vars, Inv, BinsSorted, ClassOf
<1> QED BY <1>2, <1>3, <1>4 DEF Inv

LEMMA NextInv == Inv /\ [Next]_vars => Inv'
<1> SUFFICES ASSUME Inv, [Next]_vars PROVE Inv'
  OBVIOUS
<1>1. CASE \E n \in Requests : Alloc(Payload(n))
  BY <1>1, AllocInv
<1>2. CASE \E b \in live : Free(b)
  BY <1>2, FreeInv
<1>3. CASE \E p \in Blocks \cup {HeapMax} : FreeSafe(p)
  BY <1>3, FreeInv, StutterInv DEF FreeSafe
<1>4. CASE UNCHANGED vars
  BY <1>4, StutterInv
<1> QED BY <1>1, <1>2, <1>3, <1>4 DEF Next

\* The types of the allocator's state are preserved; in particular the bump
\* pointer never passes _heap_max.
THEOREM HeapTyped == Spec => []TypeOK
<1>1. Inv => TypeOK
  BY DEF Inv
<1> QED BY <1>1, InitInv, NextInv, PTL DEF Spec

\* The blocks always tile the bump region: heap_alloc.rs and heap_free.rs never
\* give a byte to two blocks and never lose one.
THEOREM HeapTiled == Spec => []Tiled
<1>1. Inv => Tiled
  BY DEF Inv
<1> QED BY <1>1, InitInv, NextInv, PTL DEF Spec

\* Every block is live, listed or cached and only one of these, once.
THEOREM HeapPartitioned == Spec => []Partitioned
<1>1. Inv => Partitioned
  BY DEF Inv
<1> QED BY <1>1, InitInv, NextInv, PTL DEF Spec

\* Two free neighbours never stay apart on the free list, and none is left at
\* the heap end.
THEOREM HeapCoalesced == Spec => []Coalesced
<1>1. Inv => Coalesced
  BY DEF Inv
<1> QED BY <1>1, InitInv, NextInv, PTL DEF Spec

\* A cached block is always in the bin where the search for its size begins.
THEOREM HeapBinsSorted == Spec => []BinsSorted
<1>1. Inv => BinsSorted
  BY DEF Inv
<1> QED BY <1>1, InitInv, NextInv, PTL DEF Spec

\* Allocations minus releases, as --heap-debug reports them, are the live blocks.
THEOREM HeapCounted == Spec => [](gcAllocs - gcFrees = Cardinality(live))
<1>1. Inv => gcAllocs - gcFrees = Cardinality(live)
  BY DEF Inv, Counted
<1> QED BY <1>1, InitInv, NextInv, PTL DEF Spec

\* When the program has released everything and no small block is cached, the
\* bump region is empty: nothing that was coalesced is left behind.
THEOREM HeapReclaimed == Spec => []Reclaimed
<1>1. Inv => Reclaimed
  <2> SUFFICES ASSUME Inv, live = {}, Binned = {}, heapOff # 0
               PROVE  FALSE
    BY DEF Reclaimed
  <2>1. heapOff > 0 /\ 0 \in Blocks
    BY DEF Inv, TypeOK, Tiled
  <2>2. 0 \in freeList /\ End(0) \in Blocks
    BY <2>1 DEF Inv, Partitioned, Coalesced, Tiled
  <2>3. End(0) \in freeList
    BY <2>2 DEF Inv, Partitioned
  <2> QED BY <2>2, <2>3 DEF Inv, Coalesced
<1> QED BY <1>1, InitInv, NextInv, PTL DEF Spec

----------------------------------------------------------------------------
(* The heap implements AbstractHeap. *)

\* What the program sees of an allocation.
LEMMA AllocGrants ==
  ASSUME Inv, NEW n \in Nat, Alloc(n)
  PROVE  \/ /\ \E b : HandOut(b, n) /\ b \notin live /\ size'[b] >= n /\ CountAlloc(size'[b])
            /\ \A a \in live : size'[a] = size[a]
            /\ UNCHANGED exhausted
         \/ exhausted' = TRUE /\ UNCHANGED <<live, asked, size, counters>>
<1> USE DEF Inv
<1>1. CASE AllocFromBin(n)
  <2>1. PICK c \in Classes : \E i \in DOMAIN bins[c] :
          /\ FirstInBins(n, c, i) /\ HandOut(bins[c][i], n) /\ CountAlloc(size[bins[c][i]])
          /\ UNCHANGED <<size, exhausted>>
    BY <1>1 DEF AllocFromBin
  <2>2. PICK i \in DOMAIN bins[c] :
          /\ FirstInBins(n, c, i) /\ HandOut(bins[c][i], n) /\ CountAlloc(size[bins[c][i]])
          /\ UNCHANGED <<size, exhausted>>
    BY <2>1
  <2>3. size[bins[c][i]] >= n
    BY <2>2 DEF FirstInBins, BinFits
  <2>4. bins[c][i] \notin live
    BY <2>1, <2>2, BinnedIff DEF Partitioned
  <2> QED BY <2>2, <2>3, <2>4
<1>2. CASE AllocSplit(n)
  <2>1. PICK b \in freeList :
          /\ size[b] - n >= MinSplit
          /\ size' = [a \in Blocks \cup {b + HeaderSize + n} |->
                        IF a = b THEN n
                        ELSE IF a = b + HeaderSize + n THEN RestPayload(b, n)
                        ELSE size[a]]
          /\ HandOut(b, n) /\ CountAlloc(n)
          /\ UNCHANGED exhausted
    BY <1>2 DEF AllocSplit
  <2>2. /\ b \in Blocks /\ b \notin live /\ b \in Nat /\ size[b] \in Nat
        /\ \A a \in live : a \in Blocks
    BY <2>1 DEF TypeOK, Partitioned
  <2>3. b + HeaderSize + n \notin Blocks
    BY <2>1, <2>2, BlockFacts DEF End, HeaderSize, MinSplit
  <2>4. size'[b] = n /\ \A a \in live : size'[a] = size[a]
    BY <2>1, <2>2, <2>3
  <2>5. size'[b] >= n
    BY <2>4
  <2>6. HandOut(b, n) /\ CountAlloc(size'[b]) /\ UNCHANGED exhausted
    BY <2>1, <2>4
  <2> QED BY ONLY <2>2, <2>4, <2>5, <2>6
<1>3. CASE AllocWhole(n)
  <2>1. PICK b \in freeList :
          /\ FirstInList(n, b) /\ HandOut(b, n) /\ CountAlloc(size[b])
          /\ UNCHANGED <<size, exhausted>>
    BY <1>3 DEF AllocWhole
  <2> QED BY <2>1 DEF FirstInList, ListFits, Partitioned
<1>4. CASE AllocBump(n)
  <2>1. /\ size' = [a \in Blocks \cup {heapOff} |-> IF a = heapOff THEN n ELSE size[a]]
        /\ HandOut(heapOff, n) /\ CountAlloc(n)
        /\ UNCHANGED exhausted
    BY <1>4 DEF AllocBump
  <2>2. \A a \in Blocks : a # heapOff
    BY BlockFacts
  <2>3. heapOff \notin live /\ \A a \in live : a \in Blocks /\ a # heapOff
    BY <2>2 DEF TypeOK
  <2>4. \A a \in live : size'[a] = size[a]
    BY <2>1, <2>3
  <2>5. PICK b : b = heapOff
    OBVIOUS
  <2>6. size'[b] = n
    BY <2>1, <2>5
  <2> QED BY <2>1, <2>3, <2>4, <2>5, <2>6
<1>5. CASE AllocExhausted(n)
  BY <1>5 DEF AllocExhausted
<1> QED BY <1>1, <1>2, <1>3, <1>4, <1>5 DEF Alloc

\* What the program sees of a release.
LEMMA FreeReleases ==
  ASSUME Inv, NEW b \in live, Free(b)
  PROVE  /\ live' = live \ {b} /\ asked' = [a \in live \ {b} |-> asked[a]]
         /\ UNCHANGED exhausted /\ CountFree(b)
         /\ \A a \in live' : size'[a] = size[a]
<1> USE DEF Inv
<1>1. /\ live' = live \ {b} /\ asked' = [a \in live \ {b} |-> asked[a]]
      /\ UNCHANGED exhausted /\ CountFree(b)
  BY DEF Free
<1>2. \A a \in live' : /\ a \in Blocks /\ a \in Nat /\ a # b /\ a \notin freeList
                       /\ End(a) \in Nat /\ a < End(a) /\ End(a) <= heapOff
  BY <1>1, LiveApart, BlockFacts
<1>3. b \in Blocks /\ b \in Nat /\ heapOff \in Nat
  BY LiveApart, BlockFacts
<1>4. CASE FreeTail(b)
  <2> SUFFICES ASSUME NEW a \in live'
               PROVE  size'[a] = size[a]
    BY <1>1
  <2>1. End(b) = heapOff /\ TrimTail(freeList, size, b)
    BY <1>4 DEF FreeTail
  <2>2. a < b
    BY <2>1, <1>2, <1>3, BlockFacts
  <2>3. a \in {x \in Blocks : x < b} \ TailOf(freeList, size, b)
    BY <2>2, <1>2 DEF TailOf
  <2>4. size' = [x \in {x \in Blocks : x < b} \ TailOf(freeList, size, b) |-> size[x]]
    BY <2>1 DEF TrimTail, Blocks
  <2> QED BY <2>3, <2>4
<1>5. CASE FreeCached(b)
  BY <1>1, <1>5 DEF FreeCached
<1>6. CASE FreeListed(b)
  <2> SUFFICES ASSUME NEW a \in live'
               PROVE  size'[a] = size[a]
    BY <1>1
  <2> DEFINE M     == Before(b) \cup {b} \cup After(b)
             start == Min(M)
             last  == Max(M)
             list  == (freeList \ M) \cup {start}
             D     == (Blocks \ M) \cup {start}
             sz    == [x \in D |-> IF x = start THEN End(last) - start - HeaderSize
                                   ELSE size[x]]
  <2>1. End(b) # heapOff /\ TrimTail(list, sz, heapOff)
    BY <1>6 DEF FreeListed
  <2>2. M \subseteq freeList \cup {b} /\ start \in M
    BY <2>1, MergedRun
  <2>3. a \notin M /\ a # start /\ a \notin list /\ a \in D
    BY <2>2, <1>2
  <2>4. size' = [x \in {x \in D : x < heapOff} \ TailOf(list, sz, heapOff) |-> sz[x]]
    BY <2>1 DEF TrimTail
  <2>5. a \in {x \in D : x < heapOff} \ TailOf(list, sz, heapOff)
    BY <2>3, <1>2, <1>3 DEF TailOf
  <2>6. sz[a] = size[a]
    BY <2>3
  <2> HIDE DEF sz, D, list
  <2> QED BY <2>4, <2>5, <2>6
<1> QED BY <1>1, <1>4, <1>5, <1>6 DEF Free

\* While a payload is owned it neither moves nor changes its length.
THEOREM PayloadsStable == Spec => PayloadStable
<1>1. Inv /\ Inv' /\ [Next]_vars =>
        [\A b \in live : b \in live' => b \in DOMAIN size' /\ size'[b] = size[b]]_vars
  <2> SUFFICES ASSUME Inv, Inv', Next, NEW b \in live, b \in live'
               PROVE  b \in DOMAIN size' /\ size'[b] = size[b]
    OBVIOUS
  <2>1. b \in DOMAIN size'
    BY DEF Inv, TypeOK, Blocks
  <2>2. CASE \E n \in Requests : Alloc(Payload(n))
    <3>1. PICK n \in Requests : Alloc(Payload(n))
      BY <2>2
    <3>2. Payload(n) \in Nat
      BY RequestsAssumption DEF Payload, MinPayload
    <3> QED BY <2>1, <3>1, <3>2, AllocGrants DEF HandOut
  <2>3. CASE \E c \in live : Free(c)
    BY <2>1, <2>3, FreeReleases
  <2>4. CASE \E p \in Blocks \cup {HeapMax} : FreeSafe(p)
    BY <2>1, <2>4, FreeReleases DEF FreeSafe, vars
  <2> QED BY <2>2, <2>3, <2>4 DEF Next
<1> QED BY <1>1, InitInv, NextInv, PTL DEF Spec, PayloadStable

LEMMA SufficientStep == Inv /\ Sufficient /\ [Next]_vars => Sufficient'
<1> SUFFICES ASSUME Inv, Sufficient, [Next]_vars PROVE Sufficient'
  OBVIOUS
<1>1. ASSUME NEW r \in Requests, Alloc(Payload(r))
      PROVE  Sufficient'
  <2> DEFINE n == Payload(r)
  <2>1. n \in Nat
    BY RequestsAssumption DEF Payload, MinPayload
  <2> HIDE DEF n
  <2>2. CASE exhausted' = TRUE /\ UNCHANGED <<live, asked, size>>
    BY <2>2 DEF Sufficient
  <2>3. CASE /\ \E b : HandOut(b, n) /\ b \notin live /\ size'[b] >= n
             /\ \A a \in live : size'[a] = size[a]
    <3>1. PICK b : HandOut(b, n) /\ b \notin live /\ size'[b] >= n
      BY <2>3
    <3>2. /\ live' = live \cup {b}
          /\ asked' = [a \in live \cup {b} |-> IF a = b THEN n ELSE asked[a]]
      BY <3>1 DEF HandOut
    <3> QED BY <2>1, <2>3, <3>1, <3>2 DEF Sufficient
  <2> QED BY <1>1, <2>1, <2>2, <2>3, AllocGrants DEF n
<1>2. ASSUME NEW b \in live, Free(b)
      PROVE  Sufficient'
  BY <1>2, FreeReleases DEF Sufficient
<1>3. CASE UNCHANGED vars
  BY <1>3 DEF vars, Sufficient
<1>4. CASE \E p \in Blocks \cup {HeapMax} : FreeSafe(p)
  BY <1>2, <1>3, <1>4 DEF FreeSafe
<1> QED BY <1>1, <1>2, <1>3, <1>4 DEF Next

LEMMA SufficientInit == Init => Sufficient
BY SMT DEF Init, Sufficient

\* Every live block has room for what the program asked for.
THEOREM HeapSufficient == Spec => []Sufficient
BY InitInv, NextInv, SufficientInit, SufficientStep, PTL DEF Spec

\* The payload of a live block lies in the buffer, apart from the others'.
ExtentsApart ==
  \A b \in live :
    /\ 0 <= Extent(b).lo /\ Extent(b).hi <= HeapMax
    /\ \A a \in live : a # b => /\ Abstract!Apart(Extent(b), Extent(a))
                                /\ Extent(a) # Extent(b)

LEMMA ExtentFacts == Inv /\ Sufficient => ExtentsApart
<1> USE DEF Inv
<1> SUFFICES ASSUME Inv, Sufficient, NEW b \in live
             PROVE  /\ 0 <= Extent(b).lo /\ Extent(b).hi <= HeapMax
                    /\ \A a \in live : a # b => /\ Abstract!Apart(Extent(b), Extent(a))
                                                /\ Extent(a) # Extent(b)
  BY DEF ExtentsApart
<1>1. /\ b \in Blocks /\ b \in Nat /\ size[b] \in Nat /\ End(b) <= heapOff
      /\ End(b) \in Nat /\ heapOff \in Nat /\ heapOff <= HeapMax
  BY LiveApart, BlockFacts, HeapMaxAssumption DEF TypeOK
<1>0. \A a \in live : /\ asked[a] \in Nat
                      /\ a + HeaderSize + asked[a] <= End(a)
  BY BlockFacts, LiveApart DEF Sufficient, End, HeaderSize
<1>2. ASSUME NEW a \in live, a # b
      PROVE  Abstract!Apart(Extent(b), Extent(a)) /\ Extent(a) # Extent(b)
  <2>1. a \in Blocks /\ a \in Nat /\ End(a) \in Nat
    BY LiveApart, BlockFacts
  <2>2. (a < b => End(a) <= b) /\ (b < a => End(b) <= a)
    BY <1>1, <2>1, BlockFacts
  <2>3. End(a) <= b + HeaderSize \/ End(b) <= a + HeaderSize
    BY <1>1, <1>2, <2>1, <2>2 DEF HeaderSize
  <2>4. a + HeaderSize # b + HeaderSize
    BY <1>1, <1>2, <2>1 DEF HeaderSize
  <2>5. \/ a + HeaderSize + asked[a] <= b + HeaderSize
        \/ b + HeaderSize + asked[b] <= a + HeaderSize
    BY <1>0, <1>1, <2>1, <2>3 DEF HeaderSize
  <2> QED BY <2>4, <2>5 DEF Abstract!Apart, Extent
<1> QED BY <1>0, <1>1, <1>2, HeapMaxAssumption DEF Extent, HeaderSize

\* The allocator, with its lists, bins and merging, keeps the promise of
\* AbstractHeap: a granted payload lies inside the buffer, is long enough and
\* apart from every payload the program owns, and only a release ends it.
THEOREM HeapImplementsAbstract == Spec => AbstractSpec
<1>1. Init => Abstract!Init
  BY DEF Init, Abstract!Init
<1>2. Inv /\ ExtentsApart /\ ExtentsApart' /\ [Next]_vars =>
        [Abstract!Next]_<<{Extent(b) : b \in live}, exhausted>>
  <2> SUFFICES ASSUME Inv, ExtentsApart, ExtentsApart', [Next]_vars
               PROVE  [Abstract!Next]_<<{Extent(b) : b \in live}, exhausted>>
    OBVIOUS
  <2> DEFINE owned == {Extent(b) : b \in live}
  <2>1. ASSUME NEW r \in Requests, Alloc(Payload(r))
        PROVE  Abstract!Next \/ UNCHANGED <<owned, exhausted>>
    <3> DEFINE n == Payload(r)
    <3>1. n \in Nat
      BY RequestsAssumption DEF Payload, MinPayload
    <3>2. ~exhausted
      BY <2>1 DEF Alloc
    <3>3. CASE exhausted' = TRUE /\ UNCHANGED <<live, asked, size>>
      <4>1. owned' = owned
        BY <3>3 DEF Extent
      <4> QED BY <3>2, <3>3, <4>1 DEF Abstract!Next, Abstract!Die
    <3>4. CASE /\ \E b : HandOut(b, n) /\ b \notin live /\ size'[b] >= n
               /\ \A a \in live : size'[a] = size[a]
               /\ UNCHANGED exhausted
      <4>1. PICK b : HandOut(b, n) /\ b \notin live
        BY <3>4
      <4>2. /\ live' = live \cup {b}
            /\ asked' = [a \in live \cup {b} |-> IF a = b THEN n ELSE asked[a]]
        BY <4>1 DEF HandOut
      <4>3. /\ \A a \in live : Extent(a)' = Extent(a)
            /\ Extent(b)' = [lo |-> b + HeaderSize, hi |-> b + HeaderSize + n]
        BY <4>1, <4>2 DEF Extent
      <4>4. owned' = owned \cup {Extent(b)'}
        BY <4>2, <4>3
      <4>5. /\ 0 <= Extent(b)'.lo /\ Extent(b)'.hi <= HeapMax
            /\ Extent(b)'.hi = Extent(b)'.lo + n
            /\ \A a \in live' : a # b => Abstract!Apart(Extent(b)', Extent(a)')
        BY <4>2, <4>3 DEF ExtentsApart
      <4>6. \A y \in owned : Abstract!Apart(Extent(b)', y)
        BY <4>1, <4>2, <4>3, <4>5
      <4>7. Abstract!Grant(n)
        BY <3>2, <3>4, <4>4, <4>5, <4>6 DEF Abstract!Grant
      <4> QED BY <4>7 DEF Abstract!Next
    <3> QED BY <2>1, <3>1, <3>3, <3>4, AllocGrants
  <2>2. ASSUME NEW b \in live, Free(b)
        PROVE  Abstract!Next
    <3>1. ~exhausted
      BY <2>2 DEF Free
    <3>2. /\ live' = live \ {b} /\ asked' = [a \in live \ {b} |-> asked[a]]
          /\ UNCHANGED exhausted
      BY <2>2, FreeReleases
    <3>3. \A a \in live' : Extent(a)' = Extent(a)
      BY <3>2 DEF Extent
    <3>4. \A a \in live : a # b => Extent(a) # Extent(b)
      BY DEF ExtentsApart
    <3>5. owned' = owned \ {Extent(b)}
      BY <3>2, <3>3, <3>4
    <3>6. Extent(b) \in owned
      OBVIOUS
    <3> QED BY <3>1, <3>2, <3>5, <3>6 DEF Abstract!Next, Abstract!Release
  <2>3. CASE UNCHANGED vars
    BY <2>3 DEF vars, Extent
  <2>4. CASE \E n \in Requests : Alloc(Payload(n))
    BY <2>4, <2>1
  <2>5. CASE \E b \in live : Free(b)
    BY <2>5, <2>2
  <2>6. CASE \E p \in Blocks \cup {HeapMax} : FreeSafe(p)
    BY <2>6, <2>2, <2>3 DEF FreeSafe
  <2> QED BY <2>3, <2>4, <2>5, <2>6 DEF Next
<1> QED BY <1>1, <1>2, InitInv, NextInv, SufficientInit, SufficientStep,
           ExtentFacts, PTL DEF Spec, AbstractSpec, Abstract!Spec


----------------------------------------------------------------------------
(* The figures of --gc-stats. *)

BytesBut(b) == UNION {a..(End(a) - 1) : a \in live \ {b}}

BytesExact ==
  /\ \A b \in live :
       Cardinality(LiveBytes) = Cardinality(BytesBut(b)) + size[b] + HeaderSize
  /\ Cardinality(LiveBytes) \in Nat /\ Cardinality(LiveBytes) <= HeapMax

\* A live block adds its payload and its header to the bytes in use.
LEMMA BytesOf ==
  ASSUME TypeOK, Tiled, NEW b \in live
  PROVE  Cardinality(LiveBytes) = Cardinality(BytesBut(b)) + size[b] + HeaderSize
<1>1. \A a \in live : a \in Blocks
  BY DEF TypeOK
<1>2. /\ b \in Nat /\ size[b] \in Nat /\ End(b) \in Nat /\ heapOff \in Nat
      /\ b < End(b) /\ End(b) <= heapOff
  BY <1>1, BlockFacts
<1> DEFINE I == b..(End(b) - 1)
           H == 0..(heapOff - 1)
<1>3. IsFiniteSet(H)
  <2>1. 0 \in Int /\ heapOff - 1 \in Int
    BY <1>2
  <2> QED  BY <2>1, FS_Interval
<1>4. BytesBut(b) \subseteq H
  BY <1>1, BlockFacts DEF BytesBut
<1>5. IsFiniteSet(I) /\ Cardinality(I) = size[b] + HeaderSize
  <2>1. b \in Int /\ End(b) - 1 \in Int /\ ~(b > End(b) - 1)
    BY <1>2
  <2>2. IsFiniteSet(I) /\ Cardinality(I) = (End(b) - 1) - b + 1
    BY <2>1, FS_Interval
  <2>3. (End(b) - 1) - b + 1 = size[b] + HeaderSize
    BY <1>2 DEF End, HeaderSize
  <2> QED  BY <2>2, <2>3
<1>6. LiveBytes = BytesBut(b) \cup I
  BY DEF LiveBytes, BytesBut
<1>7. BytesBut(b) \cap I = {}
  <2> SUFFICES ASSUME NEW a \in live, a # b, NEW x \in a..(End(a) - 1), x \in I
               PROVE  FALSE
    BY DEF BytesBut
  <2>1. /\ a \in Nat /\ End(a) \in Nat /\ x \in Nat
        /\ a < b => End(a) <= b
        /\ b < a => End(b) <= a
    BY <1>1, <1>2, BlockFacts
  <2> QED  BY <1>2, <2>1
<1>8. IsFiniteSet(BytesBut(b)) /\ Cardinality(BytesBut(b)) \in Nat
  BY <1>3, <1>4, FS_Subset, FS_CardinalityType
<1> HIDE DEF I, H
<1>9. Cardinality(LiveBytes) = Cardinality(BytesBut(b)) + Cardinality(I) - Cardinality({})
  BY <1>5, <1>6, <1>7, <1>8, FS_Union
<1>10. Cardinality({}) = 0
  BY FS_EmptySet
<1> QED  BY <1>2, <1>5, <1>8, <1>9, <1>10 DEF HeaderSize

\* They all lie in the bump region.
LEMMA BytesFacts == TypeOK /\ Tiled => BytesExact
<1> SUFFICES ASSUME TypeOK, Tiled PROVE BytesExact
  OBVIOUS
<1>1. LiveBytes \subseteq 0..(heapOff - 1)
  <2> SUFFICES ASSUME NEW a \in live, NEW x \in a..(End(a) - 1)
               PROVE  x \in 0..(heapOff - 1)
    BY DEF LiveBytes
  <2>1. a \in Nat /\ End(a) \in Nat /\ heapOff \in Nat /\ End(a) <= heapOff
    BY BlockFacts DEF TypeOK
  <2> QED  BY <2>1
<1>2. heapOff \in Nat /\ heapOff <= HeapMax
  BY HeapMaxAssumption DEF TypeOK
<1>3. /\ IsFiniteSet(0..(heapOff - 1))
      /\ Cardinality(0..(heapOff - 1)) = heapOff
  <2>1. 0 \in Int /\ heapOff - 1 \in Int /\ (heapOff - 1) - 0 + 1 = heapOff
        /\ (0 > heapOff - 1 <=> heapOff = 0)
    BY <1>2
  <2> QED  BY <2>1, FS_Interval
<1>4. /\ IsFiniteSet(LiveBytes) /\ Cardinality(LiveBytes) <= Cardinality(0..(heapOff - 1))
      /\ Cardinality(LiveBytes) \in Nat
  BY <1>1, <1>3, FS_Subset, FS_CardinalityType
<1>5. Cardinality(LiveBytes) \in Nat /\ Cardinality(LiveBytes) <= HeapMax
  BY <1>2, <1>3, <1>4, HeapMaxAssumption
<1> QED  BY <1>5, BytesOf DEF BytesExact

LEMMA BytesNext ==
  ASSUME TypeOK', Tiled'
  PROVE  BytesExact'
<1>1. (TypeOK /\ Tiled => BytesExact)'
  BY BytesFacts, PTL
<1> QED  BY <1>1

LEMMA AccountedStep ==
  ASSUME Inv, Accounted, [Next]_vars
  PROVE  Accounted'
<1>1. Inv' /\ TypeOK' /\ Tiled' /\ Counted' /\ TypeOK /\ Tiled
  BY NextInv DEF Inv
<1>2. gcAllocs' - gcFrees' = Cardinality(live')
  BY <1>1 DEF Counted
<1>3. ASSUME UNCHANGED <<live, counters>>, \A a \in live : size'[a] = size[a]
      PROVE  Accounted'
  <2>1. LiveBytes' = LiveBytes
    BY <1>3 DEF LiveBytes, End
  <2> QED  BY <1>2, <1>3, <2>1 DEF Accounted, counters
<1>4. ASSUME NEW n \in Nat, Alloc(n)
      PROVE  Accounted'
  <2>1. CASE exhausted' = TRUE /\ UNCHANGED <<live, asked, size, counters>>
    BY <1>3, <2>1
  <2>2. CASE /\ \E b : HandOut(b, n) /\ b \notin live /\ size'[b] >= n /\ CountAlloc(size'[b])
             /\ \A a \in live : size'[a] = size[a]
    <3>1. PICK b : live' = live \cup {b} /\ b \notin live /\ CountAlloc(size'[b])
      BY <2>2 DEF HandOut
    <3>2. Cardinality(LiveBytes') = Cardinality(BytesBut(b)') + size'[b] + HeaderSize
      BY <1>1, <3>1, BytesNext DEF BytesExact
    <3>3. BytesBut(b)' = LiveBytes
      BY <2>2, <3>1 DEF BytesBut, LiveBytes, End
    <3>4. gcLive' = Cardinality(LiveBytes')
      BY <3>1, <3>2, <3>3 DEF Accounted, CountAlloc
    <3>5. gcLive' \in Nat /\ gcLive' <= HeapMax
      BY <1>1, <3>4, BytesNext DEF BytesExact
    <3>6. gcLive' <= gcPeak' /\ gcPeak' <= HeapMax
      BY <3>1, <3>5, HeapMaxAssumption DEF CountAlloc, Accounted, Inv, TypeOK
    <3> QED  BY <1>2, <3>4, <3>6 DEF Accounted
  <2> QED  BY <1>4, <2>1, <2>2, AllocGrants
<1>5. ASSUME NEW b \in live, Free(b)
      PROVE  Accounted'
  <2>1. live' = live \ {b} /\ CountFree(b) /\ \A a \in live' : size'[a] = size[a]
    BY <1>5, FreeReleases
  <2>2. Cardinality(LiveBytes) = Cardinality(BytesBut(b)) + size[b] + HeaderSize
    BY <1>1, BytesOf
  <2>3. BytesBut(b) = LiveBytes'
    BY <2>1 DEF BytesBut, LiveBytes, End
  <2>4. Cardinality(LiveBytes') \in Nat /\ size[b] \in Nat
    BY <1>1, BytesNext DEF BytesExact, TypeOK
  <2>5. gcLive' = Cardinality(LiveBytes')
    BY <2>1, <2>2, <2>3, <2>4 DEF Accounted, CountFree, HeaderSize
  <2>6. gcLive' <= gcPeak' /\ gcPeak' <= HeapMax
    BY <2>1, <2>2, <2>3, <2>4, <2>5 DEF Accounted, CountFree, HeaderSize, Inv, TypeOK
  <2> QED  BY <1>2, <2>5, <2>6 DEF Accounted
<1>6. CASE UNCHANGED vars
  BY <1>3, <1>6 DEF vars
<1>7. CASE \E n \in Requests : Alloc(Payload(n))
  <2>1. \A n \in Requests : Payload(n) \in Nat
    BY RequestsAssumption DEF Payload, MinPayload
  <2> QED  BY <1>4, <1>7, <2>1
<1>8. CASE \E b \in live : Free(b)
  BY <1>5, <1>8
<1>9. CASE \E p \in Blocks \cup {HeapMax} : FreeSafe(p)
  BY <1>5, <1>6, <1>9 DEF FreeSafe
<1> QED  BY <1>6, <1>7, <1>8, <1>9 DEF Next

LEMMA AccountedInit == Init => Accounted
<1> SUFFICES ASSUME Init PROVE Accounted
  OBVIOUS
<1>1. live = {} /\ LiveBytes = {}
  BY DEF Init, LiveBytes
<1> QED  BY <1>1, FS_EmptySet, HeapMaxAssumption DEF Init, Accounted

\* The figures of --gc-stats are exact for every heap size: the live bytes
\* are those of the live blocks, headers included, and the peak is between
\* them and the size of the heap.
THEOREM HeapAccounted == Spec => []Accounted
<1>1. Inv /\ Accounted /\ [Next]_vars => Accounted'
  BY AccountedStep
<1> QED BY <1>1, InitInv, NextInv, AccountedInit, PTL DEF Spec
============================================================================
