--------------------------- MODULE HeapAllocator ---------------------------
(***************************************************************************)
(* The heap of a compiled program: __rt_heap_alloc, __rt_heap_free and     *)
(* __rt_heap_free_safe (src/src/codegen/runtime/arrays/heap_alloc.rs and   *)
(* heap_free.rs).  Addresses are byte offsets from _heap_buf and a block   *)
(* is named by the offset of its 16-byte header.  The heap is a bump       *)
(* region with two stores of freed blocks inside it: an address-ordered    *)
(* free list whose neighbours are merged, and four LIFO bins of small      *)
(* blocks that are never merged.                                           *)
(***************************************************************************)
EXTENDS Integers, Sequences, FiniteSets, SequencesExt

CONSTANTS
  HeapMax,    \* _heap_max, the size of _heap_buf in bytes
  Requests,   \* the payload sizes the program asks for
  MaxAllocs   \* bound on _gc_allocs; the code has none

ASSUME HeapMaxAssumption == HeapMax \in Nat
ASSUME RequestsAssumption == Requests \subseteq Nat
ASSUME MaxAllocsAssumption == MaxAllocs \in Nat

HeaderSize == 16
MinPayload == 8
MaxSmall   == 64
MinSplit   == 24                \* room for a header and a smallest payload
Classes    == {8, 16, 32, 64}   \* a bin is named by its largest payload

VARIABLES
  heapOff,    \* _heap_off, the end of the bump region
  size,       \* header -> payload size, for every block of the region
  live,       \* headers whose refcount word is not zero
  asked,      \* what the program asked for in each live block; it knows, the
              \* heap does not
  freeList,   \* _heap_free_list, linked in address order: a set of headers
  bins,       \* _heap_small_bins, class -> chain of headers
  gcAllocs, gcFrees, gcLive, gcPeak,   \* the counters of --gc-stats
  exhausted   \* the program died with "heap memory exhausted"

counters == <<gcAllocs, gcFrees, gcLive, gcPeak>>
vars == <<heapOff, size, live, asked, freeList, bins, counters, exhausted>>

Blocks == DOMAIN size
End(b) == b + HeaderSize + size[b]
Binned == UNION {Range(bins[c]) : c \in Classes}

Init ==
  /\ heapOff = 0
  /\ size = << >>
  /\ live = {} /\ asked = << >>
  /\ freeList = {}
  /\ bins = [c \in Classes |-> << >>]
  /\ gcAllocs = 0 /\ gcFrees = 0 /\ gcLive = 0 /\ gcPeak = 0
  /\ exhausted = FALSE

----------------------------------------------------------------------------
(* Allocation. *)

\* the smallest payload leaves room for the link of a freed block
Payload(n) == IF n < MinPayload THEN MinPayload ELSE n

ClassOf(n) == Min({c \in Classes : n <= c})

\* The bins are searched from the request's class upwards, each bin from its
\* head; a bin may hold blocks of its class too small for the request.
AnyBlockFits(n, c, i) ==   \* mutant: the class bound taken for the size
  n <= MaxSmall /\ c \in Classes /\ ClassOf(n) <= c /\ i \in DOMAIN bins[c]

BinFits(n, c, i) ==
  /\ n <= MaxSmall
  /\ c \in Classes /\ ClassOf(n) <= c
  /\ i \in DOMAIN bins[c] /\ size[bins[c][i]] >= n

NoBinFits(n) == \A c \in Classes : \A i \in DOMAIN bins[c] : ~BinFits(n, c, i)

FirstInBins(n, c, i) ==
  /\ BinFits(n, c, i)
  /\ \A d \in Classes : \A j \in DOMAIN bins[d] :
       BinFits(n, d, j) => c < d \/ (c = d /\ i <= j)

\* The defences of the free-list walk: a node outside the heap ends the list,
\* a malformed or live one is unlinked.
InWindow(b)   == 0 <= b /\ b < heapOff
WellFormed(b) == size[b] >= MinPayload /\ b \notin live /\ End(b) <= heapOff
Usable(b)     == InWindow(b) /\ WellFormed(b)
ListFits(n, b) == b \in freeList /\ Usable(b) /\ size[b] >= n
NoListFits(n)  == \A b \in freeList : ~ListFits(n, b)
FirstInList(n, b) ==
  /\ ListFits(n, b)
  /\ \A a \in freeList : ListFits(n, a) => b <= a

\* the unusable nodes the walk meets before it stops at b
Unlinked(b) == {a \in freeList : a < b /\ ~Usable(a)}

\* __rt_heap_alloc_count; footprint is the block's payload and header
CountAlloc(payload) ==
  LET now == gcLive + payload + HeaderSize IN
  /\ gcAllocs < MaxAllocs
  /\ gcAllocs' = gcAllocs + 1
  /\ gcLive' = now
  /\ gcPeak' = IF now > gcPeak THEN now ELSE gcPeak
  /\ UNCHANGED gcFrees

\* Block b becomes the program's, for the n bytes it asked for.
HandOut(b, n) ==
  /\ live' = live \cup {b}
  /\ asked' = [a \in live \cup {b} |-> IF a = b THEN n ELSE asked[a]]

\* A cached small block is handed out whole, at its own size.
AllocFromBin(n) ==
  \E c \in Classes : \E i \in DOMAIN bins[c] :
    /\ FirstInBins(n, c, i)
    /\ bins' = [bins EXCEPT ![c] = RemoveAt(@, i)]
    /\ HandOut(bins[c][i], n)
    /\ CountAlloc(size[bins[c][i]])
    /\ UNCHANGED <<heapOff, size, freeList, exhausted>>

RestKeepsHeader(b, n) == size[b] - n   \* mutant

RestPayload(b, n) == size[b] - n - HeaderSize

\* First fit in the free list, the rest of the block staying on the list.
AllocSplit(n) ==
  /\ NoBinFits(n)
  /\ \E b \in freeList :
       LET rest == b + HeaderSize + n IN
       /\ FirstInList(n, b)
       /\ size[b] - n >= MinSplit
       /\ size' = [a \in Blocks \cup {rest} |->
                     IF a = b THEN n
                     ELSE IF a = rest THEN RestPayload(b, n)
                     ELSE size[a]]
       /\ freeList' = (freeList \ (Unlinked(b) \cup {b})) \cup {rest}
       /\ HandOut(b, n)
       /\ CountAlloc(n)
       /\ UNCHANGED <<heapOff, bins, exhausted>>

AllocWhole(n) ==
  /\ NoBinFits(n)
  /\ \E b \in freeList :
       /\ FirstInList(n, b)
       /\ size[b] - n < MinSplit
       /\ freeList' = freeList \ (Unlinked(b) \cup {b})
       /\ HandOut(b, n)
       /\ CountAlloc(size[b])
       /\ UNCHANGED <<heapOff, size, bins, exhausted>>

HasRoom(n) == heapOff + HeaderSize + n <= HeapMax

AllocBump(n) ==
  /\ NoBinFits(n) /\ NoListFits(n)
  /\ HasRoom(n)
  /\ heapOff' = heapOff + HeaderSize + n
  /\ size' = [a \in Blocks \cup {heapOff} |-> IF a = heapOff THEN n ELSE size[a]]
  /\ HandOut(heapOff, n)
  /\ freeList' = {b \in freeList : Usable(b)}
  /\ CountAlloc(n)
  /\ UNCHANGED <<bins, exhausted>>

\* __rt_heap_exhausted: the process prints its message and exits.
AllocExhausted(n) ==
  /\ NoBinFits(n) /\ NoListFits(n)
  /\ ~HasRoom(n)
  /\ freeList' = {b \in freeList : Usable(b)}
  /\ exhausted' = TRUE
  /\ UNCHANGED <<heapOff, size, live, asked, bins, counters>>

Alloc(n) ==
  /\ ~exhausted
  /\ \/ AllocFromBin(n)
     \/ AllocSplit(n)
     \/ AllocWhole(n)
     \/ AllocBump(n)
     \/ AllocExhausted(n)

----------------------------------------------------------------------------
(* Release. *)

\* The free blocks the trim loop gives back to the bump region, one after the
\* other: those with nothing but free blocks between them and the heap end.
TailOf(list, sz, off) ==
  {x \in list : \A y \in DOMAIN sz : x <= y /\ y < off => y \in list}

\* list is the free list and off the heap end when the loop starts
TrimTail(list, sz, off) ==
  LET tail == TailOf(list, sz, off)
      kept == {x \in DOMAIN sz : x < off} \ tail
  IN  /\ freeList' = list \ tail
      /\ heapOff' = Min({off} \cup tail)
      /\ size' = [x \in kept |-> sz[x]]

CountFreePayload(b) ==   \* mutant
  /\ gcLive' = gcLive - size[b]
  /\ gcFrees' = gcFrees + 1
  /\ UNCHANGED <<gcAllocs, gcPeak>>

CountFree(b) ==
  /\ gcLive' = gcLive - (size[b] + HeaderSize)
  /\ gcFrees' = gcFrees + 1
  /\ UNCHANGED <<gcAllocs, gcPeak>>

\* The last block of the region shrinks the region.
FreeTail(b) ==
  /\ End(b) = heapOff
  /\ TrimTail(freeList, size, b)
  /\ UNCHANGED bins

BinFor(b) == ClassOf(size[b])

\* A small block is pushed on the bin of its class.
FreeCached(b) ==
  /\ End(b) # heapOff /\ size[b] <= MaxSmall
  /\ bins' = [bins EXCEPT ![BinFor(b)] = Cons(b, @)]
  /\ UNCHANGED <<heapOff, size, freeList>>

\* The free blocks that a block being linked into the list touches: its
\* insertion successor when that one starts at its end, its insertion
\* predecessor when that one ends at its start.
AfterIfDead(b) == {a \in Blocks \ live : a = End(b)}   \* mutant
After(b)       == {a \in freeList : a = End(b)}

NoBefore(b) == {}   \* mutant
Before(b)   == {a \in freeList : a < b /\ End(a) = b}

\* Any other block is linked into the free list and merged with those.
FreeListed(b) ==
  /\ End(b) # heapOff /\ size[b] > MaxSmall
  /\ LET merged == Before(b) \cup {b} \cup After(b)
         start  == Min(merged)
         last   == Max(merged)
     IN  TrimTail((freeList \ merged) \cup {start},
                  [a \in (Blocks \ merged) \cup {start} |->
                     IF a = start THEN End(last) - start - HeaderSize ELSE size[a]],
                  heapOff)
  /\ UNCHANGED bins

\* __rt_heap_free of a block the caller owns; the range and size tests at its
\* entry hold for every block of the region.
Free(b) ==
  /\ ~exhausted
  /\ b \in live
  /\ live' = live \ {b} /\ asked' = [a \in live \ {b} |-> asked[a]]
  /\ CountFree(b)
  /\ FreeTail(b) \/ FreeCached(b) \/ FreeListed(b)
  /\ UNCHANGED exhausted

\* __rt_heap_free_safe of any block address or of an address outside the
\* region: a block whose refcount is zero is left alone.
FreeSafe(p) ==
  IF p \in Blocks /\ p \in live
  THEN Free(p)
  ELSE ~exhausted /\ UNCHANGED vars

Next ==
  \/ \E n \in Requests : Alloc(Payload(n))
  \/ \E b \in live : Free(b)
  \/ \E p \in Blocks \cup {HeapMax} : FreeSafe(p)

Spec == Init /\ [][Next]_vars

----------------------------------------------------------------------------
(* Correctness. *)

\* The variables hold values of their types.
TypeOK ==
  /\ heapOff \in 0..HeapMax
  /\ Blocks \subseteq Nat /\ size \in [Blocks -> Nat]
  /\ live \subseteq Blocks /\ freeList \subseteq Blocks
  /\ bins \in [Classes -> Seq(Blocks)]
  /\ gcAllocs \in Nat /\ gcFrees \in Nat /\ gcLive \in Int /\ gcPeak \in Int
  /\ exhausted \in BOOLEAN

\* The blocks tile the bump region: they lie inside it, no two overlap, and
\* one starts wherever another ends, so that splitting, merging and trimming
\* neither lose a byte nor give one to two blocks.
Tiled ==
  /\ heapOff > 0 => 0 \in Blocks
  /\ \A b \in Blocks :
       /\ size[b] >= MinPayload
       /\ End(b) = heapOff \/ End(b) \in Blocks
       /\ End(b) <= heapOff
       /\ \A a \in Blocks : a < b => End(a) <= b

\* A block is live, on the free list or in one bin, and is exactly one of
\* them, once: no block is handed out twice and none is forgotten.
Partitioned ==
  /\ Blocks = live \cup freeList \cup Binned
  /\ live \cap freeList = {} /\ live \cap Binned = {} /\ freeList \cap Binned = {}
  /\ \A c, d \in Classes : \A i \in DOMAIN bins[c], j \in DOMAIN bins[d] :
       bins[c][i] = bins[d][j] => c = d /\ i = j

\* Coalescing is complete: no block of the free list touches another one or
\* the end of the heap, as __rt_heap_debug_validate_free_list asserts.
Coalesced ==
  \A b \in freeList : End(b) \notin freeList /\ End(b) # heapOff

\* A cached block is in the bin of its class, so that the search which starts
\* at the request's class misses no block that fits (the class bounds
\* __rt_heap_debug_validate_free_list asserts).
BinsSorted ==
  \A c \in Classes : \A i \in DOMAIN bins[c] : ClassOf(size[bins[c][i]]) = c

\* The figures --gc-stats prints and the "live blocks" --heap-debug derives
\* from them count the live blocks and their bytes exactly.
LiveBytes == UNION {b..(End(b) - 1) : b \in live}
Accounted ==
  /\ gcAllocs - gcFrees = Cardinality(live)
  /\ gcLive = Cardinality(LiveBytes)
  /\ gcLive <= gcPeak /\ gcPeak <= HeapMax

\* When the program has released everything and no small block is cached,
\* the whole heap is available to one request again.
Reclaimed == live = {} /\ Binned = {} => heapOff = 0

\* While a payload is owned it neither moves nor changes its length, whatever
\* its neighbours are split from or merged with.
PayloadStable ==
  [][\A b \in live : b \in live' => b \in DOMAIN size' /\ size'[b] = size[b]]_vars

\* The program's view of what it owns: every live block, and in each of them
\* room for what was asked for, though a bin or the free list may have given
\* a block cut for another request.
Sufficient == asked \in [live -> Nat] /\ \A b \in live : asked[b] <= size[b]

\* The heap keeps the promise of AbstractHeap to the program.
Extent(b) == [lo |-> b + HeaderSize, hi |-> b + HeaderSize + asked[b]]
Abstract == INSTANCE AbstractHeap WITH
  Requests <- {Payload(n) : n \in Requests},
  owned    <- {Extent(b) : b \in live},
  dead     <- exhausted
AbstractSpec == Abstract!Spec
============================================================================
