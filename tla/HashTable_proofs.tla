--------------------------- MODULE HashTable_proofs ---------------------------
(***************************************************************************)
(* Proofs about HashTable, for every set of keys, every hash function and  *)
(* every capacity a table may start with.                                  *)
(***************************************************************************)
EXTENDS HashTable, FiniteSetTheorems, SequenceTheorems, TLAPS

-----------------------------------------------------------------------------
(* The inductive invariant. *)

KeysOf(t) == {t.slot[s].key : s \in Occupied(t)}

\* No probe goes past the slot of a stored key.
Probed(t) == \A s \in Occupied(t) : ProbeEnd(t, t.slot[s].key) = {s}

\* What holds of a table at every moment, also while it is being filled.
Sound(t) ==
  /\ TableOK(t)
  /\ Probed(t)
  /\ t.count = Cardinality(Occupied(t))
  /\ t.count < t.cap

TablesSound == \A t \in Tables : table[t] = Unused \/ Sound(table[t])

\* The variables that hold t, or will when the call in progress returns.
Holders(t) == {v \in Locals : Holding(v) = t}

CountsExact ==
  \A t \in Tables :
    table[t].refs = Cardinality(Holders(t)) + (IF job.into = t THEN 1 ELSE 0)

\* A cursor of a walk over t.
CursorOK(t, cursor) == cursor \in {AtHead, Done, PastTail} \/ cursor - 1 \in Occupied(t)

LoopOK ==
  Looping =>
    /\ loop.table \in Tables /\ Allocated(loop.table)
    /\ CursorOK(table[loop.table], loop.cursor)

\* A call works on the table of its variable, which is the caller's own once
\* it is unique, and then not the one a loop walks.
CallOK ==
  ~Idle =>
    /\ job.do # "idle"
    /\ job.var \in Locals /\ job.table \in Tables
    /\ job.key \in Keys /\ job.value \in Values
    /\ IF job.do \in {"share", "clone"} THEN Work.refs > 1
       ELSE Work.refs = 1 /\ loop.table # job.table
    /\ job.do = "put" => Work.count + 1 < Work.cap

\* The table being filled has no holder yet, room for what is coming, and only
\* keys of the table it is filled from.
MoveOK ==
  IF job.do \in {"clone", "grow"}
  THEN /\ job.into \in Tables \ {job.table, loop.table}
       /\ table[job.into].refs = 1
       /\ table[job.into].cap = IF job.do = "clone" THEN Work.cap ELSE 2 * Work.cap
       /\ KeysOf(table[job.into]) \subseteq KeysOf(Work)
       /\ CursorOK(Work, job.cursor)
  ELSE job.into = None

IInv == TypeOK /\ TablesSound /\ CountsExact /\ LoopOK /\ CallOK /\ MoveOK

-----------------------------------------------------------------------------
(* Action properties. *)

\* The pairs of a table and their order; what changes is who refers to it.
Body(t) == <<t.cap, t.count, t.head, t.tail, t.slot>>

\* Copies are values: no step changes the array of a variable other than the
\* one that is written, though they may have shared a table before
\* (hash_ensure_unique.rs).
OthersKept ==
  [][\A v \in Locals :
       var[v] # None /\ v # job.var /\ var'[v] = var[v]
         => Body(table'[var[v]]) = Body(table[var[v]])]_vars

\* No step changes the array a loop walks (iterators.rs).
WalkKept ==
  [][Looping /\ loop'.table = loop.table
       => Body(table'[loop.table]) = Body(table[loop.table])]_vars

\* A call that returns has stored its pair (hash_set.rs).
WritesLand ==
  [][job.do # "idle" /\ job'.do = "idle"
       => \E s \in Found(table'[job.table], job.key) :
            table'[job.table].slot[s].value = job.value]_vars

-----------------------------------------------------------------------------
(* Arithmetic of a probe. *)

LEMMA Division ==
  ASSUME NEW a \in Nat, NEW c \in Nat, c > 0
  PROVE  a = c * (a \div c) + (a % c) /\ a \div c \in Nat /\ a % c \in 0..(c - 1)
  BY SMT

LEMMA Remainder ==
  ASSUME NEW q \in Nat, NEW c \in Nat, c > 0, NEW r \in 0..(c - 1)
  PROVE  (c * q + r) % c = r
  BY SMT

\* Linear probing looks at every slot.
LEMMA ProbeCovers ==
  ASSUME NEW h \in Nat, NEW c \in Nat, c > 0, NEW s \in 0..(c - 1)
  PROVE  \E i \in 0..(c - 1) : (h + i) % c = s
<1> DEFINE q == h \div c
           r == h % c
           m == c * q
<1>1. q \in Nat /\ r \in 0..(c - 1) /\ h = m + r
  BY Division
<1>2. m \in Int /\ c * (q + 1) = m + c
  BY <1>1
<1>3. CASE r <= s
  <2>1. s - r \in 0..(c - 1) /\ h + (s - r) = m + s
    <3> HIDE DEF m, q, r
    <3> QED  BY <1>1, <1>2, <1>3
  <2>2. (m + s) % c = s
    BY <1>1, Remainder
  <2> QED  BY <2>1, <2>2
<1>4. CASE r > s
  <2>1. s + c - r \in 0..(c - 1) /\ h + (s + c - r) = m + c + s
    <3> HIDE DEF m, q, r
    <3> QED  BY <1>1, <1>2, <1>4
  <2>2. (c * (q + 1) + s) % c = s
    <3>1. q + 1 \in Nat
      BY <1>1
    <3> HIDE DEF q
    <3> QED  BY <3>1, Remainder
  <2> QED  BY <2>1, <2>2, <1>2
<1> QED  BY <1>1, <1>3, <1>4

LEMMA LeastOf ==
  ASSUME NEW S, S \subseteq Nat, S # {}
  PROVE  \E i \in S : \A j \in S : i <= j
<1> DEFINE R == {p \in Nat \X Nat : p[1] < p[2]}
<1>1. IsWellFoundedOn(R, Nat)
  BY NatLessThanWellFounded DEF OpToRel
<1>2. PICK i \in S : \A j \in S : <<j, i>> \notin R
  <2> HIDE DEF R
  <2> QED  BY <1>1, WFMin
<1>3. ASSUME NEW j \in S PROVE i <= j
  <2>1. <<j, i>> \in Nat \X Nat
    OBVIOUS
  <2>2. ~(j < i)
    BY <1>2, <2>1
  <2> QED  BY <2>2
<1> QED  BY <1>3

-----------------------------------------------------------------------------
(* Probes. *)

LEMMA ProbeInside ==
  ASSUME NEW t, TableOK(t), NEW k \in Keys, NEW i \in Nat
  PROVE  Probe(t, k, i) \in DOMAIN t.slot
<1>1. t.cap \in Nat /\ t.cap > 0 /\ DOMAIN t.slot = 0..(t.cap - 1)
  BY CapacityAssumption DEF TableOK
<1>2. Hash[k] + i \in Nat
  BY HashAssumption
<1> QED  BY <1>1, <1>2, Division DEF Probe

\* Where a probe ends is one slot at most.
LEMMA ProbeEndOne ==
  ASSUME NEW t, TableOK(t), NEW k \in Keys, NEW i \in DOMAIN t.slot,
         EndsProbe(t, k, i), \A j \in 0..(i - 1) : ~EndsProbe(t, k, j)
  PROVE  ProbeEnd(t, k) = {Probe(t, k, i)}
<1>1. DOMAIN t.slot \subseteq Nat
  BY DEF TableOK
<1>2. ASSUME NEW j \in DOMAIN t.slot,
             EndsProbe(t, k, j), \A l \in 0..(j - 1) : ~EndsProbe(t, k, l)
      PROVE  j = i
  BY <1>1, <1>2
<1> QED  BY <1>2 DEF ProbeEnd

\* A slot a probe ends at, with how the probe gets there.
LEMMA ProbeEndAt ==
  ASSUME NEW t, TableOK(t), NEW k \in Keys, NEW s \in ProbeEnd(t, k)
  PROVE  /\ s \in DOMAIN t.slot
         /\ ProbeEnd(t, k) = {s}
         /\ \E i \in DOMAIN t.slot :
              /\ s = Probe(t, k, i) /\ EndsProbe(t, k, i)
              /\ \A j \in 0..(i - 1) : ~EndsProbe(t, k, j)
<1>1. PICK i \in DOMAIN t.slot :
        /\ s = Probe(t, k, i) /\ EndsProbe(t, k, i)
        /\ \A j \in 0..(i - 1) : ~EndsProbe(t, k, j)
  BY DEF ProbeEnd
<1>2. i \in Nat
  BY DEF TableOK
<1> QED  BY <1>1, <1>2, ProbeInside, ProbeEndOne

\* In a table with a vacant slot every probe ends.
LEMMA ProbeEnds ==
  ASSUME NEW t, TableOK(t), NEW k \in Keys, Occupied(t) # DOMAIN t.slot
  PROVE  \E s \in DOMAIN t.slot : ProbeEnd(t, k) = {s}
<1>1. t.cap \in Nat /\ t.cap > 0 /\ DOMAIN t.slot = 0..(t.cap - 1)
  BY CapacityAssumption DEF TableOK
<1>2. PICK s \in DOMAIN t.slot : t.slot[s] = None
  BY DEF Occupied
<1>3. Hash[k] \in Nat
  BY HashAssumption
<1>4. PICK i \in DOMAIN t.slot : Probe(t, k, i) = s
  <2>1. s \in 0..(t.cap - 1)
    BY <1>1
  <2>2. \E i \in 0..(t.cap - 1) : (Hash[k] + i) % t.cap = s
    BY <1>1, <1>3, <2>1, ProbeCovers
  <2> QED  BY <1>1, <2>2 DEF Probe
<1> DEFINE Ends == {j \in DOMAIN t.slot : EndsProbe(t, k, j)}
<1>5. i \in Ends
  BY <1>2, <1>4 DEF EndsProbe
<1>6. PICK j \in Ends : \A l \in Ends : j <= l
  <2>1. Ends \subseteq Nat
    BY <1>1
  <2> HIDE DEF Ends
  <2> QED  BY <1>5, <2>1, LeastOf
<1>7. ASSUME NEW l \in 0..(j - 1) PROVE ~EndsProbe(t, k, l)
  BY <1>1, <1>6
<1>8. j \in DOMAIN t.slot /\ EndsProbe(t, k, j) /\ j \in Nat
  BY <1>1, <1>6
<1> QED  BY <1>7, <1>8, ProbeEndOne, ProbeInside

-----------------------------------------------------------------------------
(* Insertion. *)

\* The types of a table, one by one.
LEMMA TableParts ==
  ASSUME NEW t, TableOK(t)
  PROVE  /\ t.cap \in Nat /\ t.cap > 0
         /\ t.count \in Nat /\ t.refs \in Nat /\ t.refs > 0
         /\ DOMAIN t.slot = 0..(t.cap - 1)
         /\ NoSlot \notin DOMAIN t.slot
         /\ Occupied(t) \subseteq DOMAIN t.slot
         /\ \A s \in Occupied(t) : t.slot[s] \in Entries
<1>1. /\ t.cap \in Nat /\ t.count \in Nat /\ t.refs \in Nat \ {0}
      /\ t.slot \in [0..(t.cap - 1) -> Entries \cup {None}] /\ t.cap >= MinCapacity
  BY DEF TableOK
<1>2. t.cap > 0 /\ t.refs > 0
  BY <1>1, CapacityAssumption
<1>3. DOMAIN t.slot = 0..(t.cap - 1)
  BY <1>1
<1>4. NoSlot \notin DOMAIN t.slot
  BY <1>3 DEF NoSlot
<1>5. Occupied(t) \subseteq DOMAIN t.slot /\ \A s \in Occupied(t) : t.slot[s] \in Entries
  BY <1>1, <1>3 DEF Occupied
<1> QED  BY <1>1, <1>2, <1>3, <1>4, <1>5

\* What Link stores and what it leaves.
LEMMA LinkSlots ==
  ASSUME NEW t, TableOK(t), NEW s \in DOMAIN t.slot, t.slot[s] = None,
         NEW k \in Keys, NEW x \in Values
  PROVE  LET u == Link(t, s, k, x) IN
         /\ u.cap = t.cap /\ u.refs = t.refs /\ u.count = t.count + 1
         /\ DOMAIN u.slot = DOMAIN t.slot
         /\ u.slot[s] \in Entries /\ u.slot[s].key = k /\ u.slot[s].value = x
         /\ u.slot[s].prev = t.tail /\ u.slot[s].next = NoSlot
         /\ \A q \in DOMAIN t.slot \ Occupied(t) : q # s => u.slot[q] = None
         /\ \A q \in Occupied(t) :
              /\ q # s /\ u.slot[q] \in Entries
              /\ u.slot[q].key = t.slot[q].key /\ u.slot[q].value = t.slot[q].value
              /\ u.slot[q].prev = t.slot[q].prev
              /\ u.slot[q].next \in {t.slot[q].next, s}
<1> DEFINE e == [key |-> k, value |-> x, prev |-> t.tail, next |-> NoSlot]
           f == [q \in DOMAIN t.slot |->
                   IF q = s THEN e
                   ELSE IF q = t.tail THEN [t.slot[q] EXCEPT !.next = s] ELSE t.slot[q]]
           u == Link(t, s, k, x)
<1>1. /\ u.cap = t.cap /\ u.refs = t.refs /\ u.count = t.count + 1 /\ u.slot = f
  BY DEF Link, TableOK
<1>2. e \in Entries /\ e.key = k /\ e.value = x /\ e.prev = t.tail /\ e.next = NoSlot
  BY DEF Entries, TableOK, NoSlot
<1>3. f[s] = e
  OBVIOUS
<1>4. ASSUME NEW q \in DOMAIN t.slot, q # s, q # t.tail
      PROVE  f[q] = t.slot[q]
  BY <1>4
<1>5. ASSUME NEW q \in Occupied(t)
      PROVE  /\ q # s /\ f[q] \in Entries
             /\ f[q].key = t.slot[q].key /\ f[q].value = t.slot[q].value
             /\ f[q].prev = t.slot[q].prev
             /\ f[q].next \in {t.slot[q].next, s}
  <2>1. q # s /\ q \in DOMAIN t.slot /\ t.slot[q] \in Entries
    BY TableParts DEF Occupied
  <2>2. s \in Int
    BY TableParts
  <2>3. CASE q = t.tail
    <3>1. f[q] = [t.slot[q] EXCEPT !.next = s]
      BY <2>1, <2>3
    <3> HIDE DEF f
    <3> QED  BY <2>1, <2>2, <3>1 DEF Entries
  <2>4. CASE q # t.tail
    <3>1. f[q] = t.slot[q]
      BY <1>4, <2>1, <2>4
    <3> HIDE DEF f
    <3> QED  BY <2>1, <3>1
  <2> QED  BY <2>3, <2>4
<1>6. ASSUME NEW q \in DOMAIN t.slot \ Occupied(t), q # s
      PROVE  f[q] = None
  <2>1. q # t.tail
    BY TableParts DEF TableOK
  <2> QED  BY <1>4, <1>6, <2>1 DEF Occupied
<1>7. DOMAIN f = DOMAIN t.slot
  OBVIOUS
<1> HIDE DEF e, f, u
<1>8. u.slot[s] \in Entries /\ u.slot[s].key = k /\ u.slot[s].value = x /\ u.slot[s].prev = t.tail /\ u.slot[s].next = NoSlot
  BY <1>1, <1>2, <1>3
<1> QED  BY <1>1, <1>5, <1>6, <1>7, <1>8 DEF u

LEMMA LinkOccupied ==
  ASSUME NEW t, TableOK(t), NEW s \in DOMAIN t.slot, t.slot[s] = None,
         NEW k \in Keys, NEW x \in Values
  PROVE  Occupied(Link(t, s, k, x)) = Occupied(t) \cup {s} /\ s \notin Occupied(t)
<1> DEFINE u == Link(t, s, k, x)
<1>1. DOMAIN u.slot = DOMAIN t.slot /\ u.slot[s] \in Entries
      /\ (\A q \in DOMAIN t.slot \ Occupied(t) : q # s => u.slot[q] = None)
      /\ (\A q \in Occupied(t) : u.slot[q] \in Entries)
  BY LinkSlots
<1> HIDE DEF u
<1>2. Occupied(u) = Occupied(t) \cup {s}
  BY <1>1, NoneAssumption DEF Occupied
<1> QED  BY <1>2 DEF u, Occupied

LEMMA LinkRecord ==
  ASSUME NEW S, NEW t \in [cap : Nat, count : Nat, head : Int, tail : Int, refs : Nat \ {0}, slot : S],
         NEW f, NEW c \in Nat, NEW h \in Int, NEW s \in Int
  PROVE  [t EXCEPT !.slot = f, !.head = h, !.tail = s, !.count = c]
           \in [cap : Nat, count : Nat, head : Int, tail : Int, refs : Nat \ {0}, slot : {f}]
  OBVIOUS

LEMMA LinkTyped ==
  ASSUME NEW t, TableOK(t), NEW s \in DOMAIN t.slot, t.slot[s] = None,
         NEW k \in Keys, NEW x \in Values
  PROVE  TableOK(Link(t, s, k, x))
<1> DEFINE u == Link(t, s, k, x)
<1>1. Occupied(u) = Occupied(t) \cup {s}
  BY LinkOccupied
<1>2. u \in [cap : Nat, count : Nat, head : Int, tail : Int, refs : Nat \ {0},
             slot : [0..(u.cap - 1) -> Entries \cup {None}]]
  <2>1. \A q \in DOMAIN t.slot : u.slot[q] \in Entries \cup {None}
    BY LinkSlots
  <2>2. u.slot \in [0..(t.cap - 1) -> Entries \cup {None}]
    <3>1. u.slot = [q \in DOMAIN t.slot |->
                      IF q = s THEN [key |-> k, value |-> x, prev |-> t.tail, next |-> NoSlot]
                      ELSE IF q = t.tail THEN [t.slot[q] EXCEPT !.next = s] ELSE t.slot[q]]
      BY DEF Link, TableOK
    <3>2. u.slot = [q \in DOMAIN t.slot |-> u.slot[q]]
      BY <3>1
    <3> HIDE DEF u
    <3> QED  BY <2>1, <3>2, TableParts
  <2>3. u \in [cap : Nat, count : Nat, head : Int, tail : Int, refs : Nat \ {0}, slot : {u.slot}]
    <3> DEFINE f == [q \in DOMAIN t.slot |->
                       IF q = s THEN [key |-> k, value |-> x, prev |-> t.tail, next |-> NoSlot]
                       ELSE IF q = t.tail THEN [t.slot[q] EXCEPT !.next = s] ELSE t.slot[q]]
               h == IF t.head = NoSlot THEN s ELSE t.head
               v == [t EXCEPT !.slot = f, !.head = h, !.tail = s, !.count = t.count + 1]
    <3>1. u = v
      BY DEF Link
    <3>2. h \in Int /\ s \in Int /\ t.count + 1 \in Nat
      BY TableParts DEF TableOK
    <3>3. t \in [cap : Nat, count : Nat, head : Int, tail : Int, refs : Nat \ {0},
                slot : [0..(t.cap - 1) -> Entries \cup {None}]]
      BY DEF TableOK
    <3> HIDE DEF f, h, u
    <3>4. v \in [cap : Nat, count : Nat, head : Int, tail : Int, refs : Nat \ {0}, slot : {f}]
      BY <3>2, <3>3, LinkRecord
    <3> HIDE DEF v
    <3> QED  BY <3>1, <3>4
  <2>4. u.cap = t.cap
    BY LinkSlots
  <2> HIDE DEF u
  <2> QED  BY <2>2, <2>3, <2>4
<1>3. u.cap >= MinCapacity
  BY LinkSlots DEF TableOK
<1>4. {u.head, u.tail} \subseteq Occupied(u) \cup {NoSlot}
  <2>1. u.head \in {t.head, s} /\ u.tail = s
    BY DEF Link, TableOK
  <2> HIDE DEF u
  <2> QED  BY <1>1, <2>1 DEF TableOK
<1>5. ASSUME NEW q \in Occupied(u)
      PROVE  {u.slot[q].prev, u.slot[q].next} \subseteq Occupied(u) \cup {NoSlot}
  <2>1. CASE q = s
    BY <1>1, <2>1, LinkSlots DEF TableOK
  <2>2. CASE q \in Occupied(t)
    <3>1. u.slot[q].prev = t.slot[q].prev /\ u.slot[q].next \in {t.slot[q].next, s}
      BY <2>2, LinkSlots
    <3> HIDE DEF u
    <3> QED  BY <1>1, <2>2, <3>1 DEF TableOK
  <2> HIDE DEF u
  <2> QED  BY <1>1, <2>1, <2>2
<1> HIDE DEF u
<1>6. TableOK(u)
  BY <1>2, <1>3, <1>4, <1>5 DEF TableOK
<1> QED  BY <1>6 DEF u

\* A probe that passed only stored keys of a table passes them in one where
\* these slots hold the same keys.
LEMMA ProbeSame ==
  ASSUME NEW t, TableOK(t), NEW u, TableOK(u), u.cap = t.cap,
         \A q \in Occupied(t) : q \in Occupied(u) /\ u.slot[q].key = t.slot[q].key,
         NEW k \in Keys, NEW s \in ProbeEnd(t, k), s \in Occupied(u), u.slot[s].key = k
  PROVE  ProbeEnd(u, k) = {s}
<1>1. PICK i \in DOMAIN t.slot :
        /\ s = Probe(t, k, i)
        /\ \A j \in 0..(i - 1) : ~EndsProbe(t, k, j)
  BY ProbeEndAt
<1>2. i \in Nat /\ i \in DOMAIN u.slot /\ DOMAIN t.slot = DOMAIN u.slot
  BY TableParts
<1>3. \A j \in Nat : Probe(u, k, j) = Probe(t, k, j)
  BY DEF Probe
<1>4. EndsProbe(u, k, i)
  BY <1>1, <1>2, <1>3 DEF EndsProbe
<1>5. ASSUME NEW j \in 0..(i - 1) PROVE ~EndsProbe(u, k, j)
  <2>1. j \in Nat /\ ~EndsProbe(t, k, j) /\ Probe(t, k, j) \in DOMAIN t.slot
    BY <1>1, <1>2, ProbeInside
  <2>2. Probe(t, k, j) \in Occupied(t) /\ t.slot[Probe(t, k, j)].key # k
    BY <2>1 DEF EndsProbe, Occupied
  <2> QED  BY <1>3, <2>1, <2>2 DEF EndsProbe, Occupied
<1> QED  BY <1>1, <1>2, <1>3, <1>4, <1>5, ProbeEndOne

\* A key that is not stored: its probe ends at a vacant slot.
LEMMA LinkProbed ==
  ASSUME NEW t, TableOK(t), Probed(t), NEW k \in Keys, NEW x \in Values,
         NEW s \in ProbeEnd(t, k), t.slot[s] = None
  PROVE  Probed(Link(t, s, k, x)) /\ k \notin KeysOf(t)
<1> DEFINE u == Link(t, s, k, x)
<1>1. s \in DOMAIN t.slot /\ ProbeEnd(t, k) = {s} /\ s \notin Occupied(t)
  BY ProbeEndAt DEF Occupied
<1>2. k \notin KeysOf(t)
  BY <1>1 DEF KeysOf, Probed
<1>3. TableOK(u) /\ Occupied(u) = Occupied(t) \cup {s} /\ u.cap = t.cap /\ u.slot[s].key = k
  BY <1>1, LinkTyped, LinkOccupied, LinkSlots
<1>4. \A q \in Occupied(t) : u.slot[q].key = t.slot[q].key
  BY <1>1, LinkSlots
<1> HIDE DEF u
<1>5. ASSUME NEW q \in Occupied(u) PROVE ProbeEnd(u, u.slot[q].key) = {q}
  <2>1. CASE q = s
    BY <1>1, <1>3, <1>4, <2>1, ProbeSame
  <2>2. CASE q \in Occupied(t)
    <3>1. q \in ProbeEnd(t, t.slot[q].key) /\ t.slot[q].key \in Keys
      BY <2>2, TableParts DEF Probed, Entries
    <3> QED  BY <1>3, <1>4, <1>5, <2>2, <3>1, ProbeSame
  <2> QED  BY <1>3, <2>1, <2>2
<1> QED  BY <1>2, <1>5 DEF Probed, u

LEMMA ReplaceSlots ==
  ASSUME NEW t, TableOK(t), NEW s \in Occupied(t), NEW x \in Values
  PROVE  LET u == [t EXCEPT !.slot[s].value = x] IN
         /\ TableOK(u) /\ Occupied(u) = Occupied(t)
         /\ u.cap = t.cap /\ u.refs = t.refs /\ u.count = t.count
         /\ u.slot[s].value = x
         /\ \A q \in Occupied(t) : u.slot[q].key = t.slot[q].key
<1> DEFINE e == [t.slot[s] EXCEPT !.value = x]
           f == [t.slot EXCEPT ![s] = e]
           u == [t EXCEPT !.slot = f]
<1>1. s \in DOMAIN t.slot /\ t.slot[s] \in Entries
  BY TableParts
<1>2. e \in Entries /\ e.value = x /\ e.key = t.slot[s].key /\ e.prev = t.slot[s].prev /\ e.next = t.slot[s].next
  BY <1>1 DEF Entries
<1>3. f \in [0..(t.cap - 1) -> Entries \cup {None}]
  <2> HIDE DEF e
  <2> QED  BY <1>1, <1>2 DEF TableOK
<1>4. f[s] = e /\ \A q \in DOMAIN t.slot : q # s => f[q] = t.slot[q]
  BY <1>1 DEF TableOK
<1>5. DOMAIN f = DOMAIN t.slot
  OBVIOUS
<1> HIDE DEF e, f
<1>6. /\ u.cap = t.cap /\ u.refs = t.refs /\ u.count = t.count
      /\ u.head = t.head /\ u.tail = t.tail /\ u.slot = f
  BY DEF TableOK
<1>7. u \in [cap : Nat, count : Nat, head : Int, tail : Int, refs : Nat \ {0},
             slot : [0..(u.cap - 1) -> Entries \cup {None}]]
  BY <1>3 DEF TableOK
<1> HIDE DEF u
<1>8. Occupied(u) = Occupied(t)
  BY <1>1, <1>2, <1>4, <1>5, <1>6, NoneAssumption DEF Occupied
<1>9. \A q \in Occupied(t) :
        u.slot[q].key = t.slot[q].key /\ u.slot[q].prev = t.slot[q].prev /\ u.slot[q].next = t.slot[q].next
  BY <1>1, <1>2, <1>4, <1>6, TableParts
<1>10. TableOK(u)
  BY <1>6, <1>7, <1>8, <1>9 DEF TableOK
<1>11. u = [t EXCEPT !.slot[s].value = x]
  BY DEF u, f, e
<1> QED  BY <1>2, <1>4, <1>6, <1>8, <1>9, <1>10, <1>11

\* Storing a pair in a table that has room: the pair is found afterwards, and
\* so is every key that was found before.
LEMMA InsertStores ==
  ASSUME NEW t, TableOK(t), Probed(t), Occupied(t) # DOMAIN t.slot,
         NEW k \in Keys, NEW x \in Values
  PROVE  LET u == Insert(t, k, x) IN
         /\ TableOK(u) /\ Probed(u)
         /\ u.cap = t.cap /\ u.refs = t.refs
         /\ KeysOf(u) = KeysOf(t) \cup {k}
         /\ \E s \in Occupied(u) : ProbeEnd(u, k) = {s} /\ u.slot[s].value = x
         /\ \/ Occupied(u) = Occupied(t) /\ u.count = t.count
            \/ /\ \E s : s \notin Occupied(t) /\ Occupied(u) = Occupied(t) \cup {s}
               /\ u.count = t.count + 1
<1> DEFINE u == Insert(t, k, x)
<1>1. PICK s \in DOMAIN t.slot : ProbeEnd(t, k) = {s}
  BY ProbeEnds
<1>2. u = IF t.slot[s] = None THEN Link(t, s, k, x) ELSE [t EXCEPT !.slot[s].value = x]
  BY <1>1 DEF Insert
<1>3. CASE t.slot[s] = None
  <2> DEFINE v == Link(t, s, k, x)
  <2>1. u = v
    BY <1>2, <1>3
  <2>2. TableOK(v) /\ Probed(v)
    BY <1>1, <1>3, LinkTyped, LinkProbed
  <2>3. /\ v.cap = t.cap /\ v.refs = t.refs /\ v.count = t.count + 1
        /\ v.slot[s].key = k /\ v.slot[s].value = x
        /\ \A q \in Occupied(t) : v.slot[q].key = t.slot[q].key
    BY <1>3, LinkSlots
  <2>4. s \notin Occupied(t) /\ Occupied(v) = Occupied(t) \cup {s}
    BY <1>3, LinkOccupied
  <2> HIDE DEF u, v
  <2>5. KeysOf(v) = KeysOf(t) \cup {k}
    BY <2>3, <2>4 DEF KeysOf
  <2>6. s \in Occupied(v) /\ ProbeEnd(v, k) = {s}
    BY <2>2, <2>3, <2>4 DEF Probed
  <2> QED  BY <2>1, <2>2, <2>3, <2>4, <2>5, <2>6 DEF u
<1>4. CASE t.slot[s] # None
  <2> DEFINE v == [t EXCEPT !.slot[s].value = x]
  <2>1. u = v
    BY <1>2, <1>4
  <2>2. s \in Occupied(t)
    BY <1>4 DEF Occupied
  <2>3. t.slot[s].key = k
    <3>1. PICK i \in DOMAIN t.slot : s = Probe(t, k, i) /\ EndsProbe(t, k, i)
      BY <1>1 DEF ProbeEnd
    <3> QED  BY <1>4, <3>1 DEF EndsProbe
  <2>4. /\ TableOK(v) /\ Occupied(v) = Occupied(t)
        /\ v.cap = t.cap /\ v.refs = t.refs /\ v.count = t.count
        /\ v.slot[s].value = x
        /\ \A q \in Occupied(t) : v.slot[q].key = t.slot[q].key
    BY <2>2, ReplaceSlots
  <2> HIDE DEF u, v
  <2>5. KeysOf(v) = KeysOf(t) /\ k \in KeysOf(t)
    BY <2>2, <2>3, <2>4 DEF KeysOf
  <2>6. Probed(v)
    <3> SUFFICES ASSUME NEW q \in Occupied(v) PROVE ProbeEnd(v, v.slot[q].key) = {q}
      BY DEF Probed
    <3>1. q \in Occupied(t) /\ t.slot[q].key \in Keys /\ q \in ProbeEnd(t, t.slot[q].key)
      BY <2>4, TableParts DEF Probed, Entries
    <3> QED  BY <2>4, <3>1, ProbeSame
  <2>7. ProbeEnd(v, k) = {s}
    BY <2>2, <2>3, <2>4, <2>6 DEF Probed
  <2> QED  BY <2>1, <2>2, <2>4, <2>5, <2>6, <2>7 DEF u
<1> QED  BY <1>3, <1>4

LEMMA OccupiedFinite ==
  ASSUME NEW t, TableOK(t)
  PROVE  /\ IsFiniteSet(Occupied(t)) /\ Cardinality(Occupied(t)) \in Nat
         /\ Cardinality(DOMAIN t.slot) = t.cap
<1>1. IsFiniteSet(0..(t.cap - 1)) /\ Cardinality(0..(t.cap - 1)) = t.cap
  BY TableParts, FS_Interval
<1>2. DOMAIN t.slot = 0..(t.cap - 1) /\ Occupied(t) \subseteq 0..(t.cap - 1)
  BY TableParts
<1> QED  BY <1>1, <1>2, FS_Subset, FS_CardinalityType

\* A table that counts less than its capacity has a vacant slot.
LEMMA SoundHasRoom ==
  ASSUME NEW t, Sound(t)
  PROVE  Occupied(t) # DOMAIN t.slot
BY OccupiedFinite, TableParts DEF Sound

\* The count stays that of the occupied slots.
LEMMA InsertCounts ==
  ASSUME NEW t, Sound(t), NEW k \in Keys, NEW x \in Values
  PROVE  LET u == Insert(t, k, x) IN
         /\ u.count = Cardinality(Occupied(u))
         /\ u.count <= t.count + 1
<1> DEFINE u == Insert(t, k, x)
<1>1. /\ TableOK(t)
      /\ \/ Occupied(u) = Occupied(t) /\ u.count = t.count
         \/ /\ \E s : s \notin Occupied(t) /\ Occupied(u) = Occupied(t) \cup {s}
            /\ u.count = t.count + 1
  BY SoundHasRoom, InsertStores DEF Sound
<1> HIDE DEF u
<1>2. IsFiniteSet(Occupied(t)) /\ t.count = Cardinality(Occupied(t)) /\ t.count \in Nat
  BY <1>1, OccupiedFinite, TableParts DEF Sound
<1> QED  BY <1>1, <1>2, FS_AddElement DEF u

\* A table holds no more entries than one that has all its keys.
LEMMA KeysBound ==
  ASSUME NEW t, TableOK(t), Probed(t), NEW u, TableOK(u), KeysOf(t) \subseteq KeysOf(u)
  PROVE  Cardinality(Occupied(t)) <= Cardinality(Occupied(u))
<1>1. \A s \in Occupied(t) : \E q \in Occupied(u) : u.slot[q].key = t.slot[s].key
  BY DEF KeysOf
<1> DEFINE f == [s \in Occupied(t) |-> CHOOSE q \in Occupied(u) : u.slot[q].key = t.slot[s].key]
<1>2. \A s \in Occupied(t) : f[s] \in Occupied(u) /\ u.slot[f[s]].key = t.slot[s].key
  BY <1>1
<1>3. f \in [Occupied(t) -> Occupied(u)]
  BY <1>2
<1>4. \A r, s \in Occupied(t) : f[r] = f[s] => r = s
  <2> SUFFICES ASSUME NEW r \in Occupied(t), NEW s \in Occupied(t), f[r] = f[s] PROVE r = s
    OBVIOUS
  <2>1. t.slot[r].key = t.slot[s].key
    BY <1>2
  <2> QED  BY <2>1 DEF Probed
<1> HIDE DEF f
<1>5. f \in Injection(Occupied(t), Occupied(u))
  BY <1>3, <1>4 DEF Injection, IsInjective
<1> QED  BY <1>5, OccupiedFinite, FS_Injection

-----------------------------------------------------------------------------
(* Walks, references and blocks. *)

\* What a walk looks at next is an entry of the table, and what it is left
\* with is a cursor of the table again.
LEMMA Walks ==
  ASSUME NEW t, TableOK(t), NEW c \in Int, CursorOK(t, c), ~Over(t, c)
  PROVE  /\ EntryAt(t, c) \in Entries
         /\ EntryAt(t, c).key \in KeysOf(t)
         /\ After(t, c) \in Int /\ CursorOK(t, After(t, c))
<1> DEFINE s == IF c = AtHead THEN t.head ELSE c - 1
<1>1. s \in Occupied(t)
  <2>1. t.head \in Occupied(t) \cup {NoSlot}
    BY DEF TableOK
  <2> QED  BY <2>1 DEF Over, CursorOK
<1>2. t.slot[s] \in Entries /\ s \in Int
  BY <1>1, TableParts
<1>3. t.slot[s].next \in Occupied(t) \cup {NoSlot}
  BY <1>1 DEF TableOK
<1>4. EntryAt(t, c) = t.slot[s]
  BY DEF EntryAt
<1> HIDE DEF s
<1>5. EntryAt(t, c).key \in KeysOf(t)
  BY <1>1, <1>4 DEF KeysOf
<1>6. After(t, c) = IF t.slot[s].next = NoSlot THEN PastTail ELSE t.slot[s].next + 1
  BY <1>4 DEF After
<1>7. t.slot[s].next \in Int
  BY <1>3, TableParts DEF NoSlot
<1>8. After(t, c) \in Int /\ CursorOK(t, After(t, c))
  BY <1>3, <1>6, <1>7 DEF CursorOK, PastTail
<1> QED  BY <1>2, <1>4, <1>5, <1>8

LEMMA EmptySound ==
  ASSUME NEW c \in Nat, c >= MinCapacity
  PROVE  /\ Sound(Empty(c)) /\ Empty(c).refs = 1 /\ Empty(c).cap = c
         /\ KeysOf(Empty(c)) = {} /\ Empty(c).count = 0
<1> DEFINE e == Empty(c)
<1>1. /\ e.cap = c /\ e.count = 0 /\ e.head = NoSlot /\ e.tail = NoSlot /\ e.refs = 1
      /\ e.slot = [s \in 0..(c - 1) |-> None]
  BY DEF Empty
<1>2. e \in [cap : Nat, count : Nat, head : Int, tail : Int, refs : Nat \ {0},
             slot : [0..(e.cap - 1) -> Entries \cup {None}]]
  BY DEF Empty, NoSlot
<1> HIDE DEF e
<1>3. Occupied(e) = {}
  BY <1>1 DEF Occupied
<1>4. TableOK(e) /\ Probed(e) /\ KeysOf(e) = {}
  BY <1>1, <1>2, <1>3 DEF TableOK, Probed, KeysOf
<1>5. e.count = Cardinality(Occupied(e)) /\ e.count < e.cap
  BY <1>1, <1>3, FS_EmptySet, CapacityAssumption
<1> QED  BY <1>1, <1>4, <1>5 DEF Sound, e

\* Counting a reference leaves what is in the table.
LEMMA RefsSound ==
  ASSUME NEW t, Sound(t), NEW r \in Nat \ {0}
  PROVE  LET u == [t EXCEPT !.refs = r] IN
         Sound(u) /\ u.refs = r /\ Body(u) = Body(t)
<1> DEFINE u == [t EXCEPT !.refs = r]
<1>1. /\ u.cap = t.cap /\ u.count = t.count /\ u.head = t.head /\ u.tail = t.tail
      /\ u.slot = t.slot /\ u.refs = r
  BY DEF Sound, TableOK
<1>2. u \in [cap : Nat, count : Nat, head : Int, tail : Int, refs : Nat \ {0},
             slot : [0..(u.cap - 1) -> Entries \cup {None}]]
  BY DEF Sound, TableOK
<1> HIDE DEF u
<1>3. Occupied(u) = Occupied(t)
  BY <1>1 DEF Occupied
<1>4. \A k : ProbeEnd(u, k) = ProbeEnd(t, k)
  BY <1>1 DEF ProbeEnd, EndsProbe, Probe
<1>5. TableOK(u)
  BY <1>1, <1>2, <1>3 DEF Sound, TableOK
<1>6. Sound(u)
  BY <1>1, <1>3, <1>4, <1>5 DEF Sound, Probed
<1> QED  BY <1>1, <1>6 DEF Body, u

\* What the invariant says of a table is about its pairs.
LEMMA BodySame ==
  ASSUME NEW t, NEW u, Body(u) = Body(t)
  PROVE  /\ Occupied(u) = Occupied(t) /\ KeysOf(u) = KeysOf(t) /\ u.cap = t.cap /\ u.count = t.count
         /\ \A c : CursorOK(u, c) = CursorOK(t, c)
<1>1. u.cap = t.cap /\ u.count = t.count /\ u.slot = t.slot
  BY DEF Body
<1> QED  BY <1>1 DEF Occupied, KeysOf, CursorOK

LEMMA AllocatedSound ==
  ASSUME TablesSound, NEW t \in Tables
  PROVE  /\ Allocated(t) => Sound(table[t])
         /\ ~Allocated(t) => table[t] = Unused
         /\ table[t].refs \in Nat
<1>1. Unused.refs = 0
  BY DEF Unused, Empty
<1>2. Sound(table[t]) => table[t].refs \in Nat \ {0}
  BY DEF Sound, TableOK
<1> QED  BY <1>1, <1>2 DEF TablesSound, Allocated

\* Giving up a reference.
LEMMA ReleasedTables ==
  ASSUME TablesSound, DOMAIN table = Tables, NEW t \in Tables, Allocated(t)
  PROVE  LET T == Released(table, t) IN
         /\ DOMAIN T = Tables
         /\ \A q \in Tables : q # t => T[q] = table[q]
         /\ T[t].refs = table[t].refs - 1
         /\ T[t] = Unused \/ (Sound(T[t]) /\ Body(T[t]) = Body(table[t]))
<1>1. Sound(table[t]) /\ table[t].refs \in Nat \ {0}
  BY AllocatedSound DEF Allocated
<1>2. t # None
  BY NoneAssumption
<1>3. CASE table[t].refs = 1
  <2>1. Released(table, t) = [table EXCEPT ![t] = Unused]
    BY <1>2, <1>3 DEF Released
  <2>2. Unused.refs = 0
    BY DEF Unused, Empty
  <2> QED  BY <1>3, <2>1, <2>2
<1>4. CASE table[t].refs # 1
  <2> DEFINE u == [table[t] EXCEPT !.refs = table[t].refs - 1]
  <2>1. Released(table, t) = [table EXCEPT ![t] = u]
    BY <1>2, <1>4 DEF Released
  <2>2. table[t].refs - 1 \in Nat \ {0}
    BY <1>1, <1>4
  <2>3. Sound(u) /\ u.refs = table[t].refs - 1 /\ Body(u) = Body(table[t])
    BY <1>1, <2>2, RefsSound
  <2> HIDE DEF u
  <2> QED  BY <2>1, <2>3
<1> QED  BY <1>3, <1>4

-----------------------------------------------------------------------------
(* Variables and the tables they hold. *)

LEMMA HoldersFinite ==
  ASSUME NEW t \in Tables
  PROVE  /\ IsFiniteSet(Holders(t)) /\ Cardinality(Holders(t)) \in Nat
         /\ Cardinality(Holders(t)) = 0 <=> Holders(t) = {}
<1>1. Holders(t) \subseteq Locals
  BY DEF Holders
<1> QED  BY <1>1, LocalsAssumption, FS_Subset, FS_CardinalityType, FS_EmptySet

LEMMA HeldAllocated ==
  ASSUME IInv, NEW t \in Tables, Holders(t) # {}
  PROVE  Allocated(t) /\ Sound(table[t])
BY HoldersFinite, AllocatedSound DEF IInv, CountsExact, Allocated

\* A table with one reference and a holder has no other holder.
LEMMA OnlyHolder ==
  ASSUME IInv, NEW t \in Tables, table[t].refs = 1, NEW v \in Holders(t), NEW w \in Holders(t)
  PROVE  v = w
<1> SUFFICES ASSUME v # w PROVE FALSE
  OBVIOUS
<1>1. IsFiniteSet(Holders(t)) /\ Cardinality(Holders(t)) \in Nat
  BY HoldersFinite
<1>2. Cardinality(Holders(t)) <= 1
  BY <1>1 DEF IInv, CountsExact
<1>3. Cardinality(Holders(t) \ {v}) = Cardinality(Holders(t)) - 1 /\ IsFiniteSet(Holders(t) \ {v})
  BY <1>1, FS_RemoveElement
<1>4. w \in Holders(t) \ {v}
  OBVIOUS
<1>5. Cardinality(Holders(t) \ {v}) \in Nat /\ Cardinality(Holders(t) \ {v}) # 0
  BY <1>3, <1>4, FS_CardinalityType, FS_EmptySet
<1> QED  BY <1>1, <1>2, <1>3, <1>5

LEMMA BetweenCalls ==
  ASSUME Idle
  PROVE  /\ job.do = "idle" /\ job.var = None /\ job.into = None
         /\ \A v \in Locals : Holding(v) = var[v]
         /\ \A t : Holders(t) = {v \in Locals : var[v] = t}
BY NoneAssumption DEF Idle, NoJob, Holding, Holders

\* What the variables hold between two calls exists.
LEMMA VarAllocated ==
  ASSUME IInv, Idle, NEW v \in Locals, var[v] # None
  PROVE  var[v] \in Tables /\ Allocated(var[v]) /\ Sound(table[var[v]])
<1>1. var[v] \in Tables
  BY DEF IInv, TypeOK
<1>2. v \in Holders(var[v])
  BY BetweenCalls
<1> QED  BY <1>1, <1>2, HeldAllocated

\* What OthersKept and WalkKept say of one step.
Kept ==
  /\ \A v \in Locals :
       var[v] # None /\ v # job.var /\ var'[v] = var[v]
         => Body(table'[var[v]]) = Body(table[var[v]])
  /\ Looping /\ loop'.table = loop.table
       => Body(table'[loop.table]) = Body(table[loop.table])

\* A variable gives up the table it holds for another, or for none.
Assigned(v, t) ==
  /\ Idle /\ Spared(var[v])
  /\ var' = [var EXCEPT ![v] = t]
  /\ UNCHANGED <<loop, job>>
  /\ DOMAIN table' = Tables
  /\ \A q \in Tables :
       /\ table'[q] = Unused \/ Sound(table'[q])
       /\ table'[q].refs = table[q].refs - (IF var[v] = q THEN 1 ELSE 0) + (IF t = q THEN 1 ELSE 0)
       /\ Allocated(q) /\ table'[q].refs > 0 => Body(table'[q]) = Body(table[q])

LEMMA Assigns ==
  ASSUME IInv, NEW v \in Locals, NEW t \in Tables \cup {None}, Assigned(v, t)
  PROVE  IInv' /\ Kept
<1> USE DEF Assigned
<1>1. TypeOK'
  <2>1. var' \in [Locals -> Tables \cup {None}]
    BY DEF IInv, TypeOK
  <2>2. \A q \in Tables : table'[q] = Unused \/ TableOK(table'[q])
    BY DEF Sound
  <2> QED  BY <2>1, <2>2 DEF IInv, TypeOK
<1>2. TablesSound'
  BY DEF TablesSound
<1>3. \A q \in Tables : Holders(q)' = IF q = t THEN Holders(q) \cup {v} ELSE Holders(q) \ {v}
  <2>1. job'.var = None /\ \A w \in Locals : w # None
    BY BetweenCalls, NoneAssumption
  <2>2. \A w \in Locals : var'[w] = IF w = v THEN t ELSE var[w]
    BY DEF IInv, TypeOK
  <2>3. \A q : Holders(q)' = {w \in Locals : var'[w] = q}
    BY <2>1 DEF Holders, Holding
  <2> QED  BY <2>2, <2>3, BetweenCalls
<1>4. \A q \in Tables : v \in Holders(q) <=> var[v] = q
  BY BetweenCalls
<1>5. ASSUME NEW q \in Tables
      PROVE  /\ table'[q].refs = Cardinality(Holders(q)') /\ Cardinality(Holders(q)') \in Nat
             /\ IsFiniteSet(Holders(q)')
  <2>1. /\ IsFiniteSet(Holders(q)) /\ Cardinality(Holders(q)) \in Nat
        /\ table[q].refs = Cardinality(Holders(q))
    BY HoldersFinite, BetweenCalls, NoneAssumption DEF IInv, CountsExact
  <2>2. CASE q = t /\ v \in Holders(q)
    <3>1. Holders(q)' = Holders(q)
      <4>1. Holders(q)' = Holders(q) \cup {v}
        BY ONLY <1>3, <2>2, q \in Tables
      <4> QED BY ONLY <2>2, <4>1
    <3> QED  BY <1>4, <2>1, <2>2, <3>1
  <2>3. CASE q = t /\ v \notin Holders(q)
    <3>1. Holders(q)' = Holders(q) \cup {v}
      BY <1>3, <2>3
    <3>2. Cardinality(Holders(q) \cup {v}) = Cardinality(Holders(q)) + 1 /\ IsFiniteSet(Holders(q) \cup {v})
      BY <2>1, <2>3, FS_AddElement
    <3> QED  BY <1>4, <2>1, <2>3, <3>1, <3>2
  <2>4. CASE q # t /\ v \in Holders(q)
    <3>1. Holders(q)' = Holders(q) \ {v}
      BY <1>3, <2>4
    <3>2. Cardinality(Holders(q) \ {v}) = Cardinality(Holders(q)) - 1 /\ IsFiniteSet(Holders(q) \ {v})
      BY <2>1, <2>4, FS_RemoveElement
    <3>3. Cardinality(Holders(q) \ {v}) \in Nat
      BY <3>2, FS_CardinalityType
    <3> QED  BY <1>4, <2>1, <2>4, <3>1, <3>2, <3>3
  <2>5. CASE q # t /\ v \notin Holders(q)
    <3>1. Holders(q)' = Holders(q)
      BY <1>3, <2>5
    <3> QED  BY <1>4, <2>1, <2>5, <3>1
  <2> QED  BY <2>2, <2>3, <2>4, <2>5
<1>6. CountsExact'
  <2>1. \A q \in Tables : job'.into # q
    BY BetweenCalls, NoneAssumption
  <2> QED  BY <1>5, <2>1 DEF CountsExact
<1>7. Looping => /\ loop.table \in Tables /\ Allocated(loop.table)
                 /\ table'[loop.table].refs > 0
                 /\ Body(table'[loop.table]) = Body(table[loop.table])
  <2> SUFFICES ASSUME Looping
               PROVE  /\ loop.table \in Tables /\ Allocated(loop.table)
                      /\ table'[loop.table].refs > 0
                      /\ Body(table'[loop.table]) = Body(table[loop.table])
    OBVIOUS
  <2>1. loop.table \in Tables /\ Allocated(loop.table) /\ table[loop.table].refs \in Nat
    BY AllocatedSound DEF IInv, LoopOK
  <2>2. var[v] = loop.table => table[loop.table].refs > 1
    BY <2>1, NoneAssumption DEF Spared
  <2>3. table'[loop.table].refs > 0
    BY <2>1, <2>2 DEF Allocated
  <2> QED  BY <2>1, <2>3
<1>8. LoopOK'
  <2> SUFFICES ASSUME Looping'
               PROVE  loop.table \in Tables /\ Allocated(loop.table)'
                      /\ CursorOK(table'[loop.table], loop.cursor)
    BY DEF LoopOK
  <2>1. Looping
    BY DEF Looping
  <2>2. CursorOK(table[loop.table], loop.cursor)
    BY <2>1 DEF IInv, LoopOK
  <2> QED  BY <1>7, <2>1, <2>2, BodySame DEF Allocated
<1>9. CallOK' /\ MoveOK'
  <2>1. Idle' /\ job'.do = "idle" /\ job'.into = None
    BY BetweenCalls DEF Idle
  <2> QED  BY <2>1 DEF CallOK, MoveOK
<1>10. Kept
  <2>1. ASSUME NEW w \in Locals, var[w] # None, var'[w] = var[w]
        PROVE  Body(table'[var[w]]) = Body(table[var[w]])
    <3>1. PICK q \in Tables : q = var[w] /\ Allocated(q)
      BY <2>1, VarAllocated
    <3>2. w \in Holders(q)'
      BY <2>1, <3>1, NoneAssumption, BetweenCalls DEF Holders, Holding
    <3>3. Cardinality(Holders(q)') # 0
      BY <1>5, <3>2, FS_EmptySet
    <3>4. table'[q].refs > 0
      BY <1>5, <3>3
    <3> QED  BY <3>1, <3>4
  <2> QED  BY <1>7, <2>1 DEF Kept
<1> QED  BY <1>1, <1>2, <1>6, <1>8, <1>9, <1>10 DEF IInv

-----------------------------------------------------------------------------
(* The statements. *)

\* A table that is not released is the same.
LEMMA ReleasedRefs ==
  ASSUME IInv, Idle, NEW v \in Locals
  PROVE  LET T == Released(table, var[v]) IN
         /\ DOMAIN T = Tables
         /\ \A q \in Tables :
              /\ T[q] = Unused \/ Sound(T[q])
              /\ T[q].refs \in Nat
              /\ T[q].refs = table[q].refs - (IF var[v] = q THEN 1 ELSE 0)
              /\ T[q].refs > 0 => Sound(T[q]) /\ Body(T[q]) = Body(table[q])
<1> DEFINE T == Released(table, var[v])
<1>1. Unused.refs = 0 /\ \A q \in Tables : table[q].refs \in Nat /\ (Allocated(q) => Sound(table[q]))
  BY AllocatedSound DEF IInv, Unused, Empty
<1>2. CASE var[v] = None
  <2>1. T = table
    BY <1>2 DEF Released
  <2>2. \A q \in Tables : var[v] # q
    BY <1>2, NoneAssumption
  <2> HIDE DEF T
  <2> QED  BY <1>1, <2>1, <2>2 DEF IInv, TypeOK, TablesSound, Allocated, T
<1>3. CASE var[v] # None
  <2>1. PICK t \in Tables : t = var[v] /\ Allocated(t)
    BY <1>3, VarAllocated
  <2>2. /\ DOMAIN T = Tables
        /\ \A q \in Tables : q # t => T[q] = table[q]
        /\ T[t].refs = table[t].refs - 1
        /\ T[t] = Unused \/ (Sound(T[t]) /\ Body(T[t]) = Body(table[t]))
    BY <2>1, ReleasedTables DEF IInv, TypeOK
  <2> HIDE DEF T
  <2>3. ASSUME NEW q \in Tables
        PROVE  /\ T[q] = Unused \/ Sound(T[q])
               /\ T[q].refs \in Nat
               /\ T[q].refs = table[q].refs - (IF var[v] = q THEN 1 ELSE 0)
               /\ T[q].refs > 0 => Sound(T[q]) /\ Body(T[q]) = Body(table[q])
    <3>1. CASE q = t
      BY <1>1, <2>1, <2>2, <3>1 DEF Allocated
    <3>2. CASE q # t
      BY <1>1, <2>1, <2>2, <3>2 DEF IInv, TablesSound, Allocated
    <3> QED  BY <3>1, <3>2
  <2> QED  BY <2>2, <2>3 DEF T
<1> QED  BY <1>2, <1>3

LEMMA LiteralAssigns ==
  ASSUME IInv, NEW v \in Locals, Literal(v)
  PROVE  \E t \in Tables : Assigned(v, t) /\ table'[t] = Empty(MinCapacity)
<1> DEFINE T == Released(table, var[v])
<1>1. PICK t \in Tables :
        /\ ~Allocated(t)
        /\ table' = [T EXCEPT ![t] = Empty(MinCapacity)]
        /\ var' = [var EXCEPT ![v] = t]
  BY DEF Literal
<1>2. Idle /\ Spared(var[v]) /\ UNCHANGED <<loop, job>>
  BY DEF Literal
<1>3. /\ DOMAIN T = Tables
      /\ \A q \in Tables :
              /\ T[q] = Unused \/ Sound(T[q])
              /\ T[q].refs = table[q].refs - (IF var[v] = q THEN 1 ELSE 0)
              /\ T[q].refs > 0 => Body(T[q]) = Body(table[q])
  BY <1>2, ReleasedRefs
<1>4. var[v] # t /\ table[t].refs = 0
  BY <1>1, <1>2, VarAllocated, AllocatedSound, NoneAssumption DEF IInv, Allocated
<1>5. Sound(Empty(MinCapacity)) /\ Empty(MinCapacity).refs = 1
  BY EmptySound, CapacityAssumption
<1> HIDE DEF T
<1>6. DOMAIN table' = Tables
  BY <1>1, <1>3
<1>7. ASSUME NEW q \in Tables
      PROVE  /\ table'[q] = Unused \/ Sound(table'[q])
             /\ table'[q].refs = table[q].refs - (IF var[v] = q THEN 1 ELSE 0) + (IF t = q THEN 1 ELSE 0)
             /\ Allocated(q) /\ table'[q].refs > 0 => Body(table'[q]) = Body(table[q])
  <2>0. table[q].refs \in Nat
    BY AllocatedSound DEF IInv
  <2>1. CASE q = t
    BY <1>1, <1>3, <1>4, <1>5, <2>1
  <2>2. CASE q # t
    BY <1>1, <1>3, <2>0, <2>2
  <2> QED  BY <2>1, <2>2
<1>8. Assigned(v, t)
  BY <1>1, <1>2, <1>6, <1>7 DEF Assigned
<1>9. table'[t] = Empty(MinCapacity)
  BY <1>1, <1>3
<1> QED  BY <1>8, <1>9

LEMMA LiteralKeeps ==
  ASSUME IInv, NEW v \in Locals, Literal(v)
  PROVE  IInv' /\ Kept
BY LiteralAssigns, Assigns

LEMMA CopyAssigns ==
  ASSUME IInv, NEW v \in Locals, NEW w \in Locals, Copy(v, w)
  PROVE  v # w /\ var[w] \in Tables /\ Allocated(var[w]) /\ Assigned(v, var[w])
<1> DEFINE T == Released(table, var[v])
<1>1. /\ Idle /\ v # w /\ Spared(var[v]) /\ UNCHANGED <<loop, job>>
      /\ var' = [var EXCEPT ![v] = var[w]] /\ table' = Retained(T, var[w])
  BY DEF Copy
<1>2. PICK t \in Tables : t = var[w] /\ Allocated(t)
  BY VarAllocated DEF Copy
<1>3. /\ DOMAIN T = Tables
      /\ \A q \in Tables :
              /\ T[q] = Unused \/ Sound(T[q])
              /\ T[q].refs \in Nat
              /\ T[q].refs = table[q].refs - (IF var[v] = q THEN 1 ELSE 0)
              /\ T[q].refs > 0 => Sound(T[q]) /\ Body(T[q]) = Body(table[q])
  BY <1>1, ReleasedRefs
<1>4. T[t].refs > 0
  <2>1. CASE var[v] = t
    <3>1. v \in Holders(t) /\ w \in Holders(t)
      BY <1>1, <1>2, <2>1, BetweenCalls
    <3>2. table[t].refs # 1
      BY <1>1, <3>1, OnlyHolder
    <3> QED  BY <1>2, <1>3, <2>1, <3>2, AllocatedSound DEF IInv, Allocated
  <2>2. CASE var[v] # t
    BY <1>2, <1>3, <2>2, AllocatedSound DEF IInv, Allocated
  <2> QED  BY <2>1, <2>2
<1> HIDE DEF T
<1> DEFINE u == [T[t] EXCEPT !.refs = T[t].refs + 1]
<1>5. table' = [T EXCEPT ![t] = u]
  BY <1>1, <1>2 DEF Retained
<1>6. Sound(u) /\ u.refs = T[t].refs + 1 /\ Body(u) = Body(T[t])
  <2>1. T[t].refs + 1 \in Nat \ {0}
    BY <1>3
  <2> QED  BY <1>3, <1>4, <2>1, RefsSound
<1> HIDE DEF u
<1>7. DOMAIN table' = Tables
  BY <1>3, <1>5
<1>8. ASSUME NEW q \in Tables
      PROVE  /\ table'[q] = Unused \/ Sound(table'[q])
             /\ table'[q].refs = table[q].refs - (IF var[v] = q THEN 1 ELSE 0) + (IF t = q THEN 1 ELSE 0)
             /\ Allocated(q) /\ table'[q].refs > 0 => Body(table'[q]) = Body(table[q])
  <2>0. table[q].refs \in Nat
    BY AllocatedSound DEF IInv
  <2>1. CASE q = t
    BY <1>3, <1>4, <1>5, <1>6, <2>1
  <2>2. CASE q # t
    BY <1>3, <1>5, <2>0, <2>2
  <2> QED  BY <2>1, <2>2
<1>9. var' = [var EXCEPT ![v] = t]
  BY <1>1, <1>2
<1>10. Assigned(v, t)
  BY <1>1, <1>7, <1>8, <1>9 DEF Assigned
<1> QED  BY <1>1, <1>2, <1>10

LEMMA CopyKeeps ==
  ASSUME IInv, NEW v \in Locals, NEW w \in Locals, Copy(v, w)
  PROVE  IInv' /\ Kept
BY CopyAssigns, Assigns

LEMMA UnsetAssigns ==
  ASSUME IInv, NEW v \in Locals, Unset(v)
  PROVE  Assigned(v, None)
<1>1. /\ Idle /\ Spared(var[v]) /\ UNCHANGED <<loop, job>>
      /\ var' = [var EXCEPT ![v] = None] /\ table' = Released(table, var[v])
  BY DEF Unset
<1>2. DOMAIN table' = Tables
  BY <1>1, ReleasedRefs
<1>3. ASSUME NEW q \in Tables
      PROVE  /\ table'[q] = Unused \/ Sound(table'[q])
             /\ table'[q].refs = table[q].refs - (IF var[v] = q THEN 1 ELSE 0) + (IF None = q THEN 1 ELSE 0)
             /\ Allocated(q) /\ table'[q].refs > 0 => Body(table'[q]) = Body(table[q])
  <2>1. None # q /\ table[q].refs \in Nat
    BY NoneAssumption, AllocatedSound DEF IInv
  <2> QED  BY <1>1, <2>1, ReleasedRefs
<1> QED  BY <1>1, <1>2, <1>3 DEF Assigned

LEMMA UnsetKeeps ==
  ASSUME IInv, NEW v \in Locals, Unset(v)
  PROVE  IInv' /\ Kept
BY UnsetAssigns, Assigns

LEMMA CallKeeps ==
  ASSUME IInv, NEW v \in Locals, NEW k \in Keys, NEW x \in Values, Call(v, k, x)
  PROVE  IInv' /\ Kept
<1> DEFINE step == IF Shared(table[var[v]]) THEN "share" ELSE "room"
<1>1. /\ Idle /\ var[v] # None /\ Spared(var[v]) /\ UNCHANGED <<table, var, loop>>
      /\ job' = [NoJob EXCEPT !.do = step, !.var = v, !.table = var[v], !.key = k, !.value = x]
  BY DEF Call
<1>2. PICK t \in Tables : t = var[v] /\ Allocated(t)
  BY <1>1, VarAllocated
<1>3. job' = [do |-> step, var |-> v, table |-> t, into |-> None,
              cursor |-> AtHead, key |-> k, value |-> x]
  BY <1>1, <1>2 DEF NoJob
<1>4. /\ job'.do = step /\ job'.var = v /\ job'.table = t /\ job'.into = None
      /\ job'.key = k /\ job'.value = x
  BY <1>3
<1>5. step \in {"share", "room"} /\ (step = "share" <=> table[t].refs > 1)
  BY <1>2 DEF Shared
<1> HIDE DEF step
<1>6. TypeOK'
  <2>1. job' \in [do : {"idle", "share", "clone", "room", "grow", "put"},
                  var : Locals \cup {None}, table : Tables \cup {None}, into : Tables \cup {None},
                  cursor : Int, key : Keys \cup {None}, value : Values \cup {None}]
    BY <1>3, <1>5 DEF AtHead
  <2> QED  BY <1>1, <2>1 DEF IInv, TypeOK
<1>7. TablesSound'
  BY <1>1 DEF IInv, TablesSound
<1>8. CountsExact'
  <2>1. \A w \in Locals : Holding(w)' = Holding(w)
    BY <1>1, <1>2, <1>4, BetweenCalls DEF Holding
  <2>2. \A q : Holders(q)' = Holders(q)
    BY <2>1 DEF Holders
  <2> QED  BY <1>1, <1>4, <2>2, BetweenCalls DEF IInv, CountsExact
<1>9. LoopOK'
  BY <1>1 DEF IInv, LoopOK, Looping, Allocated
<1>10. CallOK'
  <2>1. table[t].refs > 1 \/ (table[t].refs = 1 /\ loop.table # t)
    BY <1>1, <1>2, AllocatedSound DEF IInv, Allocated, Spared
  <2>2. Work' = table[t]
    BY <1>1, <1>4 DEF Work
  <2>3. IF step \in {"share", "clone"} THEN table[t].refs > 1
        ELSE table[t].refs = 1 /\ loop.table # t
    BY <1>2, <1>5, <2>1, AllocatedSound DEF IInv
  <2> QED  BY <1>1, <1>4, <1>5, <2>2, <2>3 DEF CallOK
<1>11. MoveOK'
  BY <1>4, <1>5 DEF MoveOK
<1>12. Kept
  BY <1>1 DEF Kept
<1> QED  BY <1>6, <1>7, <1>8, <1>9, <1>10, <1>11, <1>12 DEF IInv

LEMMA SetKeeps ==
  ASSUME IInv, NEW v \in Locals, NEW write \in Writes, Set(v, write[1], write[2])
  PROVE  IInv' /\ Kept
<1>1. write[1] \in Keys /\ write[2] \in Values
  BY WritesAssumption DEF Values
<1> QED  BY <1>1, CallKeeps DEF Set

LEMMA AppendKeeps ==
  ASSUME IInv, NEW v \in Locals, NEW x \in Pushed, AppendTo(v, x)
  PROVE  IInv' /\ Kept
<1> DEFINE k == AppendKey(table[var[v]])
<1>1. k \in IntKeys /\ Call(v, k, x)
  BY DEF AppendTo
<1> HIDE DEF k
<1>2. k \in Keys /\ x \in Values
  BY <1>1 DEF Keys, Values
<1> QED  BY <1>1, <1>2, CallKeeps

\* A step of the loop itself.
LEMMA LoopSteps ==
  ASSUME IInv, Idle, UNCHANGED <<table, var, job>>,
         loop' \in [table : Tables \cup {None}, cursor : Int, pair : (Keys \X Values) \cup {None}],
         Looping' => /\ loop'.table \in Tables /\ Allocated(loop'.table)
                     /\ CursorOK(table[loop'.table], loop'.cursor)
  PROVE  IInv' /\ Kept
<1>1. TypeOK' /\ TablesSound'
  BY DEF IInv, TypeOK, TablesSound
<1>2. CountsExact'
  BY DEF IInv, CountsExact, Holders, Holding
<1>3. LoopOK'
  BY DEF LoopOK, Allocated
<1>4. CallOK' /\ MoveOK'
  <2>1. Idle' /\ job'.do = "idle" /\ job'.into = None
    BY BetweenCalls DEF Idle
  <2> QED  BY <2>1 DEF CallOK, MoveOK
<1>5. Kept
  BY DEF Kept
<1> QED  BY <1>1, <1>2, <1>3, <1>4, <1>5 DEF IInv

LEMMA BeginKeeps ==
  ASSUME IInv, NEW v \in Locals, Begin(v)
  PROVE  IInv' /\ Kept
<1>1. Idle /\ UNCHANGED <<table, var, job>> /\ loop' = [NoLoop EXCEPT !.table = var[v]]
  BY DEF Begin
<1>2. PICK t \in Tables : t = var[v] /\ Allocated(t)
  BY VarAllocated DEF Begin
<1>3. loop' = [table |-> t, cursor |-> AtHead, pair |-> None]
  BY <1>1, <1>2 DEF NoLoop
<1>4. loop' \in [table : Tables \cup {None}, cursor : Int, pair : (Keys \X Values) \cup {None}]
  BY <1>3 DEF AtHead
<1>5. loop'.table = t /\ CursorOK(table[t], loop'.cursor)
  BY <1>3 DEF CursorOK
<1> QED  BY <1>1, <1>2, <1>4, <1>5, LoopSteps

LEMMA VisitKeeps ==
  ASSUME IInv, Visit
  PROVE  IInv' /\ Kept
<1> DEFINE t == table[loop.table]
           e == EntryAt(t, loop.cursor)
           c == After(t, loop.cursor)
<1>1. /\ Idle /\ Looping /\ ~Over(t, loop.cursor) /\ UNCHANGED <<table, var, job>>
      /\ loop' = [loop EXCEPT !.cursor = c, !.pair = <<e.key, e.value>>]
  BY DEF Visit
<1>2. loop.table \in Tables /\ Allocated(loop.table) /\ CursorOK(t, loop.cursor)
  BY <1>1 DEF IInv, LoopOK
<1>3. TableOK(t) /\ loop.cursor \in Int
  BY <1>2, AllocatedSound DEF IInv, Sound, TypeOK
<1> HIDE DEF t
<1>4. e \in Entries /\ c \in Int /\ CursorOK(t, c)
  BY <1>1, <1>2, <1>3, Walks
<1> HIDE DEF e, c
<1>5. <<e.key, e.value>> \in Keys \X Values
  BY <1>4 DEF Entries
<1>6. loop' = [table |-> loop.table, cursor |-> c, pair |-> <<e.key, e.value>>]
  BY <1>1 DEF IInv, TypeOK
<1>7. loop' \in [table : Tables \cup {None}, cursor : Int, pair : (Keys \X Values) \cup {None}]
  BY <1>2, <1>4, <1>5, <1>6
<1>8. loop'.table = loop.table /\ loop'.cursor = c
  BY <1>6
<1> QED  BY <1>1, <1>2, <1>4, <1>7, <1>8, LoopSteps DEF t

LEMMA LeaveKeeps ==
  ASSUME IInv, Leave
  PROVE  IInv' /\ Kept
<1>1. Idle /\ UNCHANGED <<table, var, job>> /\ loop' = NoLoop
  BY DEF Leave
<1>2. ~Looping'
  BY <1>1 DEF Looping
<1>3. loop' \in [table : Tables \cup {None}, cursor : Int, pair : (Keys \X Values) \cup {None}]
  BY <1>1 DEF NoLoop, AtHead
<1> QED  BY <1>1, <1>2, <1>3, LoopSteps

-----------------------------------------------------------------------------
(* The steps of a call. *)

LEMMA InCall ==
  ASSUME IInv, job.do # "idle"
  PROVE  /\ ~Idle
         /\ job.var \in Locals /\ job.table \in Tables /\ job.var \in Holders(job.table)
         /\ job.key \in Keys /\ job.value \in Values
         /\ Allocated(job.table) /\ Sound(Work)
<1>1. ~Idle
  BY DEF Idle, NoJob
<1>2. job.var \in Locals /\ job.table \in Tables /\ job.key \in Keys /\ job.value \in Values
  BY <1>1 DEF IInv, CallOK
<1>3. job.var \in Holders(job.table)
  BY <1>2 DEF Holders, Holding
<1>4. Allocated(job.table) /\ Sound(table[job.table])
  BY <1>2, <1>3, HeldAllocated
<1> QED  BY <1>1, <1>2, <1>3, <1>4 DEF Work

\* The table being filled has no holder.
LEMMA IntoUnheld ==
  ASSUME IInv, job.do \in {"clone", "grow"}
  PROVE  /\ job.into \in Tables \ {job.table, loop.table}
         /\ Holders(job.into) = {} /\ table[job.into].refs = 1
         /\ Allocated(job.into) /\ Sound(table[job.into])
<1>1. job.into \in Tables \ {job.table, loop.table} /\ table[job.into].refs = 1
  BY DEF IInv, MoveOK
<1>2. Cardinality(Holders(job.into)) = 0
  BY <1>1, HoldersFinite DEF IInv, CountsExact
<1>3. Allocated(job.into)
  BY <1>1 DEF Allocated
<1> QED  BY <1>1, <1>2, <1>3, HoldersFinite, AllocatedSound DEF IInv

\* A step of a call leaves every table alone that the call does not own.
Spares ==
  /\ loop' = loop
  /\ \A q \in Tables :
       Allocated(q) /\ q # job.into /\ (job.do \in {"share", "clone"} \/ q # job.table)
         => table'[q].refs > 0 /\ Body(table'[q]) = Body(table[q])

LEMMA SparesKept ==
  ASSUME IInv, job.do # "idle", Spares
  PROVE  LoopOK' /\ Kept
<1> USE DEF Spares
<1>1. ASSUME Looping
      PROVE  /\ loop.table \in Tables /\ Allocated(loop.table)
             /\ table'[loop.table].refs > 0
             /\ Body(table'[loop.table]) = Body(table[loop.table])
  <2>1. loop.table \in Tables /\ Allocated(loop.table)
    BY <1>1 DEF IInv, LoopOK
  <2>2. job.into # loop.table
    BY <2>1, NoneAssumption DEF IInv, MoveOK
  <2>3. job.do \in {"share", "clone"} \/ loop.table # job.table
    BY InCall DEF IInv, CallOK
  <2> QED  BY <2>1, <2>2, <2>3
<1>2. LoopOK'
  <2> SUFFICES ASSUME Looping'
               PROVE  loop.table \in Tables /\ Allocated(loop.table)'
                      /\ CursorOK(table'[loop.table], loop.cursor)
    BY DEF LoopOK
  <2>1. Looping
    BY DEF Looping
  <2>2. CursorOK(table[loop.table], loop.cursor)
    BY <2>1 DEF IInv, LoopOK
  <2> QED  BY <1>1, <2>1, <2>2, BodySame DEF Allocated
<1>3. ASSUME NEW w \in Locals, var[w] # None, w # job.var
      PROVE  Body(table'[var[w]]) = Body(table[var[w]])
  <2>1. PICK q \in Tables : q = var[w]
    BY <1>3 DEF IInv, TypeOK
  <2>2. w \in Holders(q)
    BY <1>3, <2>1 DEF Holders, Holding
  <2>3. Allocated(q)
    BY <2>2, HeldAllocated
  <2>4. q # job.into
    <3>1. CASE job.do \in {"clone", "grow"}
      BY <2>2, <3>1, IntoUnheld
    <3>2. CASE job.do \notin {"clone", "grow"}
      BY <3>2, NoneAssumption DEF IInv, MoveOK
    <3> QED  BY <3>1, <3>2
  <2>5. job.do \in {"share", "clone"} \/ q # job.table
    <3> SUFFICES ASSUME job.do \notin {"share", "clone"}, q = job.table PROVE FALSE
      OBVIOUS
    <3>1. table[q].refs = 1
      BY InCall DEF IInv, CallOK, Work
    <3>2. job.var \in Holders(q)
      BY InCall
    <3> QED  BY <1>3, <2>2, <3>1, <3>2, OnlyHolder
  <2> QED  BY <2>1, <2>3, <2>4, <2>5
<1> QED  BY <1>1, <1>2, <1>3 DEF Kept

LEMMA MoveToKeeps ==
  ASSUME IInv, NEW c \in Nat, NEW step, MoveTo(c, step),
         \/ job.do = "share" /\ step = "clone" /\ c = Work.cap
         \/ job.do = "room" /\ step = "grow" /\ c = 2 * Work.cap
  PROVE  IInv' /\ Kept
<1>1. PICK t \in Tables :
        /\ ~Allocated(t)
        /\ table' = [table EXCEPT ![t] = Empty(c)]
        /\ job' = [job EXCEPT !.do = step, !.into = t, !.cursor = AtHead]
        /\ UNCHANGED <<var, loop>>
  BY DEF MoveTo
<1>2. /\ ~Idle /\ job.table \in Tables /\ job.var \in Locals /\ job.key \in Keys /\ job.value \in Values
      /\ Allocated(job.table) /\ Sound(Work)
  BY InCall
<1>3. Work.cap \in Nat /\ Work.cap >= MinCapacity
  BY <1>2 DEF Sound, TableOK
<1>4. c >= MinCapacity
  BY <1>3, CapacityAssumption
<1>5. /\ Sound(Empty(c)) /\ Empty(c).refs = 1 /\ Empty(c).cap = c /\ KeysOf(Empty(c)) = {}
  BY <1>4, EmptySound
<1>6. /\ job'.do = step /\ job'.into = t /\ job'.cursor = AtHead
      /\ job'.var = job.var /\ job'.table = job.table /\ job'.key = job.key /\ job'.value = job.value
      /\ job' \in [do : {"idle", "share", "clone", "room", "grow", "put"},
                  var : Locals \cup {None}, table : Tables \cup {None}, into : Tables \cup {None},
                  cursor : Int, key : Keys \cup {None}, value : Values \cup {None}]
  <2>1. job \in [do : {"idle", "share", "clone", "room", "grow", "put"},
                 var : Locals \cup {None}, table : Tables \cup {None}, into : Tables \cup {None},
                 cursor : Int, key : Keys \cup {None}, value : Values \cup {None}]
    BY DEF IInv, TypeOK
  <2>2. step \in {"idle", "share", "clone", "room", "grow", "put"} /\ AtHead \in Int
    BY DEF AtHead
  <2> QED  BY <1>1, <2>1, <2>2
<1>7. /\ DOMAIN table' = Tables /\ table'[t] = Empty(c)
      /\ \A q \in Tables : q # t => table'[q] = table[q]
  BY <1>1 DEF IInv, TypeOK
<1>8. t # job.table /\ job.into = None /\ t # loop.table
  <2>1. job.into = None
    BY DEF IInv, MoveOK
  <2>2. t # loop.table
    BY <1>1, NoneAssumption DEF IInv, LoopOK, Looping, NoLoop
  <2> QED  BY <1>1, <1>2, <2>1, <2>2
<1>9. TablesSound'
  BY <1>5, <1>7 DEF IInv, TablesSound
<1>10. TypeOK'
  BY <1>1, <1>6, <1>7, <1>9 DEF IInv, TypeOK, TablesSound, Sound
<1>11. CountsExact'
  <2>1. \A q : Holders(q)' = Holders(q)
    BY <1>1, <1>6 DEF Holders, Holding
  <2>2. table[t].refs = 0
    BY <1>1, AllocatedSound DEF IInv, Allocated
  <2>3. \A q \in Tables : job.into # q
    BY <1>8, NoneAssumption
  <2>4. \A q \in Tables : Cardinality(Holders(q)) = table[q].refs
    BY <2>3, HoldersFinite DEF IInv, CountsExact
  <2> QED  BY <1>5, <1>6, <1>7, <2>1, <2>2, <2>4, HoldersFinite DEF CountsExact
<1>12. Work' = Work
  BY <1>2, <1>6, <1>7, <1>8 DEF Work
<1>13. CallOK'
  BY <1>1, <1>2, <1>6, <1>12 DEF IInv, CallOK
<1>14. MoveOK'
  <2>1. CursorOK(Work, AtHead)
    BY DEF CursorOK
  <2> QED  BY <1>1, <1>5, <1>6, <1>7, <1>8, <1>12, <2>1 DEF MoveOK
<1>15. Spares
  BY <1>1, <1>7 DEF Spares, Allocated
<1>16. LoopOK' /\ Kept
  BY <1>15, SparesKept
<1> QED  BY <1>9, <1>10, <1>11, <1>13, <1>14, <1>16 DEF IInv

LEMMA CloneKeeps ==
  ASSUME IInv, Clone
  PROVE  IInv' /\ Kept
<1>1. Work.cap \in Nat /\ job.do = "share" /\ MoveTo(Work.cap, "clone")
  BY InCall, TableParts DEF Clone, Sound
<1> QED  BY <1>1, MoveToKeeps

LEMMA GrowKeeps ==
  ASSUME IInv, Grow
  PROVE  IInv' /\ Kept
<1>1. Work.cap \in Nat /\ job.do = "room" /\ MoveTo(2 * Work.cap, "grow")
  BY InCall, TableParts DEF Grow, Sound
<1>2. 2 * Work.cap \in Nat
  BY <1>1
<1> QED  BY <1>1, <1>2, MoveToKeeps

\* What the two tables of a move have to do with one another.
LEMMA InMove ==
  ASSUME IInv, job.do \in {"clone", "grow"}
  PROVE  /\ table[job.into].cap = IF job.do = "clone" THEN Work.cap ELSE 2 * Work.cap
         /\ KeysOf(table[job.into]) \subseteq KeysOf(Work)
         /\ CursorOK(Work, job.cursor) /\ job.cursor \in Int
         /\ Work.cap \in Nat /\ Work.cap > 0 /\ Work.count \in Nat /\ Work.count < Work.cap
         /\ Cardinality(Occupied(Work)) = Work.count
<1>1. Sound(Work)
  BY InCall
<1> QED  BY <1>1, TableParts DEF IInv, MoveOK, TypeOK, Sound

LEMMA MoveEntryKeeps ==
  ASSUME IInv, MoveEntry
  PROVE  IInv' /\ Kept
<1> DEFINE t == table[job.into]
           e == EntryAt(Work, job.cursor)
           u == Insert(t, e.key, e.value)
           c == After(Work, job.cursor)
<1>1. /\ job.do \in {"clone", "grow"} /\ ~Over(Work, job.cursor) /\ UNCHANGED <<var, loop>>
      /\ job' = [job EXCEPT !.cursor = c]
      /\ table' = [table EXCEPT ![job.into] = u]
  BY DEF MoveEntry
<1>2. /\ job.into \in Tables \ {job.table, loop.table} /\ t.refs = 1 /\ Sound(t)
  BY <1>1, IntoUnheld
<1>3. job.table \in Tables /\ Sound(Work)
  BY <1>1, InCall
<1>4. /\ t.cap = IF job.do = "clone" THEN Work.cap ELSE 2 * Work.cap
      /\ KeysOf(t) \subseteq KeysOf(Work)
      /\ CursorOK(Work, job.cursor) /\ job.cursor \in Int
      /\ Work.cap \in Nat /\ Work.cap > 0 /\ Work.count \in Nat /\ Work.count < Work.cap
      /\ Cardinality(Occupied(Work)) = Work.count
  BY <1>1, InMove
<1>5. e \in Entries /\ e.key \in KeysOf(Work) /\ c \in Int /\ CursorOK(Work, c)
  BY <1>1, <1>3, <1>4, Walks DEF Sound
<1> HIDE DEF t, e, c
<1>6. e.key \in Keys /\ e.value \in Values
  BY <1>5 DEF Entries
<1>7. /\ TableOK(u) /\ Probed(u) /\ u.cap = t.cap /\ u.refs = t.refs
      /\ KeysOf(u) = KeysOf(t) \cup {e.key}
  BY <1>2, <1>6, InsertStores, SoundHasRoom DEF Sound
<1>8. u.count = Cardinality(Occupied(u))
  BY <1>2, <1>6, InsertCounts
<1> HIDE DEF u
<1>9. KeysOf(u) \subseteq KeysOf(Work)
  BY <1>4, <1>5, <1>7
<1>10. u.count <= Work.count
  BY <1>3, <1>4, <1>7, <1>8, <1>9, KeysBound DEF Sound
<1>11. Sound(u)
  <2>1. u.count \in Nat
    BY <1>7, TableParts
  <2> QED  BY <1>4, <1>7, <1>8, <1>10, <2>1 DEF Sound
<1>12. /\ DOMAIN table' = Tables /\ table'[job.into] = u
       /\ \A q \in Tables : q # job.into => table'[q] = table[q]
  BY <1>1, <1>2 DEF IInv, TypeOK
<1>13. /\ job'.do = job.do /\ job'.into = job.into /\ job'.cursor = c
       /\ job'.var = job.var /\ job'.table = job.table /\ job'.key = job.key /\ job'.value = job.value
       /\ job' \in [do : {"idle", "share", "clone", "room", "grow", "put"},
                   var : Locals \cup {None}, table : Tables \cup {None}, into : Tables \cup {None},
                   cursor : Int, key : Keys \cup {None}, value : Values \cup {None}]
  BY <1>1, <1>5 DEF IInv, TypeOK
<1>14. TablesSound'
  BY <1>11, <1>12 DEF IInv, TablesSound
<1>15. TypeOK'
  BY <1>1, <1>12, <1>13, <1>14 DEF IInv, TypeOK, TablesSound, Sound
<1>16. CountsExact'
  <2>1. \A q : Holders(q)' = Holders(q)
    BY <1>1, <1>13 DEF Holders, Holding
  <2>2. \A q \in Tables : table'[q].refs = table[q].refs
    BY <1>7, <1>12 DEF t
  <2> QED  BY <1>13, <2>1, <2>2 DEF IInv, CountsExact
<1>17. Work' = Work
  BY <1>2, <1>3, <1>12, <1>13 DEF Work
<1>18. CallOK'
  BY <1>1, <1>13, <1>17, InCall DEF IInv, CallOK
<1>19. MoveOK'
  BY <1>1, <1>2, <1>4, <1>5, <1>7, <1>9, <1>12, <1>13, <1>17 DEF MoveOK
<1>20. Spares
  BY <1>1, <1>12 DEF Spares, Allocated
<1>21. LoopOK' /\ Kept
  BY <1>1, <1>20, SparesKept
<1> QED  BY <1>14, <1>15, <1>16, <1>18, <1>19, <1>21 DEF IInv

\* The writer changes over to the table that has been filled.
Moved(step) ==
  /\ UNCHANGED <<var, loop>>
  /\ job' = [job EXCEPT !.do = step, !.table = job.into, !.into = None]
  /\ DOMAIN table' = Tables
  /\ \A q \in Tables : q # job.table => table'[q] = table[q]
  /\ table'[job.table].refs = table[job.table].refs - 1
  /\ \/ table'[job.table] = Unused
     \/ Sound(table'[job.table]) /\ Body(table'[job.table]) = Body(table[job.table])

LEMMA MovedKeeps ==
  ASSUME IInv, NEW step, Moved(step),
         \/ job.do = "clone" /\ step = "room"
         \/ job.do = "grow" /\ step = "put"
  PROVE  IInv' /\ Kept
<1> USE DEF Moved
<1>1. /\ job.into \in Tables \ {job.table, loop.table} /\ table[job.into].refs = 1
      /\ Sound(table[job.into]) /\ Holders(job.into) = {}
  BY IntoUnheld
<1>2. /\ ~Idle /\ job.table \in Tables /\ job.var \in Locals /\ job.key \in Keys /\ job.value \in Values
      /\ job.var \in Holders(job.table) /\ Sound(Work)
  BY InCall
<1>3. /\ job'.do = step /\ job'.into = None /\ job'.var = job.var /\ job'.table = job.into
      /\ job'.key = job.key /\ job'.value = job.value
      /\ job' \in [do : {"idle", "share", "clone", "room", "grow", "put"},
                  var : Locals \cup {None}, table : Tables \cup {None}, into : Tables \cup {None},
                  cursor : Int, key : Keys \cup {None}, value : Values \cup {None}]
  <2>1. job \in [do : {"idle", "share", "clone", "room", "grow", "put"},
                 var : Locals \cup {None}, table : Tables \cup {None}, into : Tables \cup {None},
                 cursor : Int, key : Keys \cup {None}, value : Values \cup {None}]
    BY DEF IInv, TypeOK
  <2>2. step \in {"idle", "share", "clone", "room", "grow", "put"}
    OBVIOUS
  <2> QED  BY <1>1, <2>1, <2>2
<1>4. TablesSound'
  BY <1>2 DEF IInv, TablesSound
<1>5. TypeOK'
  BY <1>3, <1>4 DEF IInv, TypeOK, TablesSound, Sound
<1>6. \A q \in Tables : Holders(q)' = IF q = job.into THEN {job.var} ELSE Holders(q) \ {job.var}
  <2>1. \A w \in Locals : Holding(w)' = IF w = job.var THEN job.into ELSE Holding(w)
    BY <1>3 DEF Holding
  <2>2. Holding(job.var) = job.table
    BY DEF Holding
  <2>3. \A w \in Locals : Holding(w) # job.into
    BY <1>1 DEF Holders
  <2> QED  BY <1>1, <1>2, <2>1, <2>2, <2>3 DEF Holders
<1>7. ASSUME NEW q \in Tables
      PROVE  table'[q].refs = Cardinality(Holders(q)')
  <2>1. /\ IsFiniteSet(Holders(q)) /\ Cardinality(Holders(q)) \in Nat
        /\ q # job.into => table[q].refs = Cardinality(Holders(q))
    BY HoldersFinite DEF IInv, CountsExact
  <2>2. CASE q = job.into
    <3>1. Holders(q)' = {job.var}
      BY <1>6, <2>2
    <3>2. Cardinality({job.var}) = 1
      BY FS_Singleton
    <3> QED  BY <1>1, <2>2, <3>1, <3>2
  <2>3. CASE q = job.table
    <3>1. Holders(q)' = Holders(q) \ {job.var}
      BY <1>1, <1>6, <2>3
    <3>2. Cardinality(Holders(q) \ {job.var}) = Cardinality(Holders(q)) - 1
      BY <1>2, <2>1, <2>3, FS_RemoveElement
    <3> QED  BY <1>1, <2>1, <2>3, <3>1, <3>2
  <2>4. CASE q # job.into /\ q # job.table
    <3>1. job.var \notin Holders(q)
      BY <2>4 DEF Holders, Holding
    <3>2. Holders(q)' = Holders(q)
      BY <1>6, <2>4, <3>1
    <3> QED  BY <2>1, <2>4, <3>2
  <2> QED  BY <2>2, <2>3, <2>4
<1>8. CountsExact'
  <2>1. \A q \in Tables : job'.into # q
    BY <1>3, NoneAssumption
  <2>2. \A q \in Tables : Cardinality(Holders(q)') \in Nat
    <3> SUFFICES ASSUME NEW q \in Tables PROVE Cardinality(Holders(q)') \in Nat
      OBVIOUS
    <3>1. Holders(q)' \subseteq Locals
      BY DEF Holders
    <3> QED  BY <3>1, LocalsAssumption, FS_Subset, FS_CardinalityType
  <2> QED  BY <1>7, <2>1, <2>2 DEF CountsExact
<1>9. Work' = table[job.into]
  BY <1>1, <1>3 DEF Work
<1>10. CallOK'
  <2>1. ASSUME step = "put" PROVE table[job.into].count + 1 < table[job.into].cap
    <3>1. /\ table[job.into].cap = 2 * Work.cap
          /\ KeysOf(table[job.into]) \subseteq KeysOf(Work)
          /\ Work.cap \in Nat /\ Work.cap > 0 /\ Work.count \in Nat /\ Work.count < Work.cap
          /\ Cardinality(Occupied(Work)) = Work.count
      BY <2>1, InMove
    <3>2. Cardinality(Occupied(table[job.into])) <= Work.count
      BY <1>1, <1>2, <3>1, KeysBound DEF Sound
    <3>3. table[job.into].count \in Nat /\ table[job.into].count = Cardinality(Occupied(table[job.into]))
      BY <1>1, TableParts DEF Sound
    <3> QED  BY <3>1, <3>2, <3>3
  <2> QED  BY <1>1, <1>2, <1>3, <1>9, <2>1 DEF CallOK
<1>11. MoveOK'
  BY <1>3 DEF MoveOK
<1>12. Spares
  <2>1. ASSUME NEW q \in Tables, Allocated(q), q # job.into, job.do \in {"share", "clone"} \/ q # job.table
        PROVE  table'[q].refs > 0 /\ Body(table'[q]) = Body(table[q])
    <3>1. CASE q = job.table
      <4>1. table[q].refs > 1 /\ table[q].refs \in Nat
        BY <1>2, <2>1, <3>1, AllocatedSound DEF IInv, CallOK, Work
      <4>2. Unused.refs = 0
        BY DEF Unused, Empty
      <4> QED  BY <3>1, <4>1, <4>2
    <3>2. CASE q # job.table
      BY <2>1, <3>2 DEF Allocated
    <3> QED  BY <3>1, <3>2
  <2> QED  BY <2>1 DEF Spares
<1>13. LoopOK' /\ Kept
  BY <1>12, SparesKept
<1> QED  BY <1>4, <1>5, <1>8, <1>10, <1>11, <1>13 DEF IInv

LEMMA CloneEndMoves ==
  ASSUME IInv, CloneEnd
  PROVE  job.do = "clone" /\ Over(Work, job.cursor) /\ Moved("room")
<1> DEFINE t == job.table
           u == [table[t] EXCEPT !.refs = table[t].refs - 1]
<1>1. /\ job.do = "clone" /\ table' = [table EXCEPT ![t] = u] /\ UNCHANGED <<var, loop>>
      /\ job' = [job EXCEPT !.do = "room", !.table = job.into, !.into = None]
  BY DEF CloneEnd
<1>2. t \in Tables /\ Sound(table[t]) /\ ~Idle
  BY <1>1, InCall DEF Work
<1>3. table[t].refs > 1 /\ table[t].refs \in Nat
  BY <1>1, <1>2, AllocatedSound DEF IInv, CallOK, Work
<1>4. table[t].refs - 1 \in Nat \ {0}
  BY <1>3
<1>5. Sound(u) /\ u.refs = table[t].refs - 1 /\ Body(u) = Body(table[t])
  BY <1>2, <1>4, RefsSound
<1> HIDE DEF u
<1>6. Moved("room")
  BY <1>1, <1>2, <1>5 DEF Moved, IInv, TypeOK
<1> QED  BY <1>1, <1>6 DEF CloneEnd

LEMMA CloneEndKeeps ==
  ASSUME IInv, CloneEnd
  PROVE  IInv' /\ Kept
BY CloneEndMoves, MovedKeeps

LEMMA GrowEndMoves ==
  ASSUME IInv, GrowEnd
  PROVE  job.do = "grow" /\ Over(Work, job.cursor) /\ Moved("put")
<1>1. /\ job.do = "grow" /\ table' = [table EXCEPT ![job.table] = Unused] /\ UNCHANGED <<var, loop>>
      /\ job' = [job EXCEPT !.do = "put", !.table = job.into, !.into = None]
  BY DEF GrowEnd
<1>2. job.table \in Tables /\ ~Idle
  BY <1>1, InCall
<1>3. table[job.table].refs = 1
  BY <1>1, <1>2 DEF IInv, CallOK, Work
<1>4. Unused.refs = 0
  BY DEF Unused, Empty
<1>5. Moved("put")
  BY <1>1, <1>2, <1>3, <1>4 DEF Moved, IInv, TypeOK
<1> QED  BY <1>1, <1>5 DEF GrowEnd

LEMMA GrowEndKeeps ==
  ASSUME IInv, GrowEnd
  PROVE  IInv' /\ Kept
BY GrowEndMoves, MovedKeeps

LEMMA PutKeeps ==
  ASSUME IInv, Put
  PROVE  /\ IInv' /\ Kept
         /\ \E s \in Found(table'[job.table], job.key) : table'[job.table].slot[s].value = job.value
<1> DEFINE u == Insert(Work, job.key, job.value)
<1>1. /\ job.do \in {"room", "put"}
      /\ job.do = "room" => ~Crowded(Work)
      /\ table' = [table EXCEPT ![job.table] = u]
      /\ var' = [var EXCEPT ![job.var] = job.table]
      /\ job' = NoJob /\ loop' = loop
  BY DEF Put, Work
<1>2. /\ ~Idle /\ job.table \in Tables /\ job.var \in Locals /\ job.key \in Keys /\ job.value \in Values
      /\ Sound(Work)
  BY <1>1, InCall
<1>3. /\ TableOK(u) /\ Probed(u) /\ u.cap = Work.cap /\ u.refs = Work.refs
      /\ \E s \in Occupied(u) : ProbeEnd(u, job.key) = {s} /\ u.slot[s].value = job.value
  BY <1>2, InsertStores, SoundHasRoom DEF Sound
<1>4. u.count = Cardinality(Occupied(u)) /\ u.count <= Work.count + 1
  BY <1>2, InsertCounts
<1> HIDE DEF u
<1>5. u.count < u.cap
  <2>1. Work.count \in Nat /\ Work.cap \in Nat /\ Work.cap >= 4 /\ u.count \in Nat
    BY <1>2, <1>3, TableParts, CapacityAssumption DEF Sound, TableOK
  <2>2. Work.count + 1 < Work.cap
    <3>1. CASE job.do = "put"
      BY <1>2, <3>1 DEF IInv, CallOK
    <3>2. CASE job.do = "room"
      BY <1>1, <2>1, <3>2 DEF Crowded
    <3> QED  BY <1>1, <3>1, <3>2
  <2> QED  BY <1>3, <1>4, <2>1, <2>2
<1>6. Sound(u)
  BY <1>3, <1>4, <1>5 DEF Sound
<1>7. /\ DOMAIN table' = Tables /\ table'[job.table] = u
      /\ \A q \in Tables : q # job.table => table'[q] = table[q]
  BY <1>1, <1>2 DEF IInv, TypeOK
<1>8. /\ job'.do = "idle" /\ job'.var = None /\ job'.into = None /\ Idle'
      /\ job' \in [do : {"idle", "share", "clone", "room", "grow", "put"},
                  var : Locals \cup {None}, table : Tables \cup {None}, into : Tables \cup {None},
                  cursor : Int, key : Keys \cup {None}, value : Values \cup {None}]
  BY <1>1 DEF NoJob, Idle, AtHead
<1>9. TablesSound'
  BY <1>6, <1>7 DEF IInv, TablesSound
<1>10. TypeOK'
  <2>1. var' \in [Locals -> Tables \cup {None}]
    BY <1>1, <1>2 DEF IInv, TypeOK
  <2>2. \A q \in Tables : table'[q] = Unused \/ TableOK(table'[q])
    BY <1>9 DEF TablesSound, Sound
  <2> QED  BY <1>1, <1>7, <1>8, <2>1, <2>2 DEF IInv, TypeOK
<1>11. CountsExact'
  <2>1. \A w \in Locals : Holding(w)' = Holding(w)
    <3>1. \A w \in Locals : var'[w] = IF w = job.var THEN job.table ELSE var[w]
      BY <1>1 DEF IInv, TypeOK
    <3>2. \A w \in Locals : job'.var # w
      BY <1>8, NoneAssumption
    <3> QED  BY <3>1, <3>2 DEF Holding
  <2>2. \A q : Holders(q)' = Holders(q)
    BY <2>1 DEF Holders
  <2>3. \A q \in Tables : table'[q].refs = table[q].refs
    BY <1>3, <1>7 DEF Work
  <2>4. job.into = job'.into
    BY <1>1, <1>8 DEF IInv, MoveOK
  <2> QED  BY <2>2, <2>3, <2>4 DEF IInv, CountsExact
<1>12. CallOK' /\ MoveOK'
  BY <1>8 DEF CallOK, MoveOK
<1>13. Spares
  BY <1>1, <1>7 DEF Spares, Allocated
<1>14. LoopOK' /\ Kept
  BY <1>1, <1>13, SparesKept
<1>15. \E s \in Found(u, job.key) : u.slot[s].value = job.value
  BY <1>3 DEF Found, Occupied
<1> QED  BY <1>7, <1>9, <1>10, <1>11, <1>12, <1>14, <1>15 DEF IInv

-----------------------------------------------------------------------------
(* All steps. *)

Lands ==
  job.do # "idle" /\ job'.do = "idle"
    => \E s \in Found(table'[job.table], job.key) :
         table'[job.table].slot[s].value = job.value

LEMMA InitSound ==
  Init => IInv
<1> SUFFICES ASSUME Init PROVE IInv
  OBVIOUS
<1>1. /\ table = [t \in Tables |-> Unused] /\ var = [v \in Locals |-> None]
      /\ loop = NoLoop /\ job = NoJob
  BY DEF Init
<1>2. TypeOK /\ TablesSound
  BY <1>1 DEF TypeOK, TablesSound, NoLoop, NoJob, AtHead
<1>3. CountsExact
  <2>1. Idle
    BY <1>1 DEF Idle
  <2>2. \A t \in Tables : Holders(t) = {} /\ job.into # t
    BY <1>1, <2>1, BetweenCalls, NoneAssumption
  <2>3. Unused.refs = 0
    BY DEF Unused, Empty
  <2> QED  BY <1>1, <2>2, <2>3, FS_EmptySet DEF CountsExact
<1>4. LoopOK /\ CallOK /\ MoveOK
  BY <1>1 DEF LoopOK, Looping, CallOK, Idle, MoveOK, NoJob
<1> QED  BY <1>2, <1>3, <1>4 DEF IInv

LEMMA NextKeeps ==
  ASSUME IInv, [Next]_vars
  PROVE  IInv' /\ Kept /\ Lands
<1>1. CASE Statement
  <2>1. IInv' /\ Kept
    BY <1>1, LiteralKeeps, UnsetKeeps, BeginKeeps, CopyKeeps, SetKeeps, AppendKeeps,
       VisitKeeps, LeaveKeeps DEF Statement
  <2>2. Idle
    BY <1>1 DEF Statement, Literal, Unset, Begin, Copy, Set, AppendTo, Call, Visit, Leave
  <2> QED  BY <2>1, <2>2, BetweenCalls DEF Lands
<1>2. CASE Runtime
  <2>1. CASE Clone
    <3>1. job'.do # "idle"
      BY <2>1 DEF Clone, MoveTo, IInv, TypeOK
    <3> QED  BY <2>1, <3>1, CloneKeeps DEF Lands
  <2>2. CASE MoveEntry
    <3>1. job'.do # "idle"
      BY <2>2 DEF MoveEntry, IInv, TypeOK
    <3> QED  BY <2>2, <3>1, MoveEntryKeeps DEF Lands
  <2>3. CASE CloneEnd
    <3>1. job'.do # "idle"
      BY <2>3 DEF CloneEnd, IInv, TypeOK
    <3> QED  BY <2>3, <3>1, CloneEndKeeps DEF Lands
  <2>4. CASE Grow
    <3>1. job'.do # "idle"
      BY <2>4 DEF Grow, MoveTo, IInv, TypeOK
    <3> QED  BY <2>4, <3>1, GrowKeeps DEF Lands
  <2>5. CASE GrowEnd
    <3>1. job'.do # "idle"
      BY <2>5 DEF GrowEnd, IInv, TypeOK
    <3> QED  BY <2>5, <3>1, GrowEndKeeps DEF Lands
  <2>6. CASE Put
    BY <2>6, PutKeeps DEF Lands
  <2> QED  BY <1>2, <2>1, <2>2, <2>3, <2>4, <2>5, <2>6 DEF Runtime
<1>3. CASE UNCHANGED vars
  <2>1. UNCHANGED <<table, var, loop, job>>
    BY <1>3 DEF vars
  <2>2. IInv'
    BY <2>1 DEF IInv, TypeOK, TablesSound, CountsExact, Holders, Holding, LoopOK, Looping,
                Allocated, CallOK, Idle, Work, MoveOK
  <2>3. Kept /\ Lands
    BY <2>1 DEF Kept, Lands
  <2> QED  BY <2>2, <2>3
<1> QED  BY <1>1, <1>2, <1>3 DEF Next

LEMMA Invariant ==
  Spec => []IInv
<1>1. IInv /\ [Next]_vars => IInv'
  BY NextKeeps
<1> QED  BY InitSound, <1>1, PTL DEF Spec

-----------------------------------------------------------------------------
(* The results. *)

\* The blocks hold well-formed tables: slot numbers name occupied slots of
\* their table, whatever was stored, copied or grown.
THEOREM TypedAlways ==
  Spec => []TypeOK
<1>1. IInv => TypeOK
  BY DEF IInv
<1> QED  BY Invariant, <1>1, PTL

\* Whatever was stored, moved into a copy or into a larger table, a probe for
\* a stored key finds its slot, and no key has two (hash_get.rs).
THEOREM ProbesFindAlways ==
  Spec => []ProbesFind
<1>1. IInv => ProbesFind
  <2> SUFFICES ASSUME IInv, NEW t \in TablesNow, NEW s \in Occupied(table[t])
               PROVE  Found(table[t], table[t].slot[s].key) = {s}
    BY DEF ProbesFind
  <2>1. Sound(table[t])
    BY AllocatedSound DEF IInv, TablesNow
  <2>2. ProbeEnd(table[t], table[t].slot[s].key) = {s} /\ table[t].slot[s] # None
    BY <2>1 DEF Sound, Probed, Occupied
  <2> QED  BY <2>2 DEF Found
<1> QED  BY Invariant, <1>1, PTL

\* No table is ever full (hash_set.rs).
THEOREM RoomLeftAlways ==
  Spec => []RoomLeft
<1>1. IInv => RoomLeft
  BY AllocatedSound, SoundHasRoom DEF IInv, RoomLeft, TablesNow
<1> QED  BY Invariant, <1>1, PTL

\* A reference count is the number of the variables that hold the table, at
\* every moment of a copy or a growth (hash_ensure_unique.rs, hash_grow.rs).
THEOREM OwnersCountedAlways ==
  Spec => []OwnersCounted
<1>1. IInv => OwnersCounted
  BY DEF IInv, CountsExact, OwnersCounted, TablesNow, Holders
<1> QED  BY Invariant, <1>1, PTL

\* The table of a loop exists as long as the loop does, and its cursor names
\* an entry of it (iterators.rs, hash_iter.rs).
THEOREM LoopReadsTableAlways ==
  Spec => []LoopReadsTable
<1>1. IInv => LoopReadsTable
  <2> SUFFICES ASSUME IInv, Looping
               PROVE  /\ Allocated(loop.table)
                      /\ loop.cursor > 0 => loop.cursor - 1 \in Occupied(table[loop.table])
    BY DEF LoopReadsTable
  <2>1. Allocated(loop.table) /\ CursorOK(table[loop.table], loop.cursor)
    BY DEF IInv, LoopOK
  <2> QED  BY <2>1 DEF CursorOK, AtHead, Done, PastTail
<1> QED  BY Invariant, <1>1, PTL

\* Copies are values: a write through one variable is never seen through
\* another that shared its table (hash_ensure_unique.rs).
THEOREM OthersKeptAlways ==
  Spec => OthersKept
<1>1. IInv /\ [Next]_vars =>
        [\A v \in Locals :
           var[v] # None /\ v # job.var /\ var'[v] = var[v]
             => Body(table'[var[v]]) = Body(table[var[v]])]_vars
  BY NextKeeps DEF Kept
<1> QED  BY Invariant, <1>1, PTL DEF Spec, OthersKept

\* Nothing the body of a loop does changes the array the loop walks
\* (iterators.rs).
THEOREM WalkKeptAlways ==
  Spec => WalkKept
<1>1. IInv /\ [Next]_vars =>
        [Looping /\ loop'.table = loop.table
           => Body(table'[loop.table]) = Body(table[loop.table])]_vars
  BY NextKeeps DEF Kept
<1> QED  BY Invariant, <1>1, PTL DEF Spec, WalkKept

\* No insert is lost: when __rt_hash_set returns, a lookup of its key finds
\* its value (hash_set.rs: "table is full (shouldn't happen)").
THEOREM WritesLandAlways ==
  Spec => WritesLand
<1>1. IInv /\ [Next]_vars =>
        [job.do # "idle" /\ job'.do = "idle"
           => \E s \in Found(table'[job.table], job.key) :
                table'[job.table].slot[s].value = job.value]_vars
  BY NextKeeps DEF Lands
<1> QED  BY Invariant, <1>1, PTL DEF Spec, WritesLand

-----------------------------------------------------------------------------
(* The chains, and what the program sees. *)

\* c lists the slots of the chain of t: it visits each occupied slot once, and
\* the links in both directions are those of its neighbours.
Threaded(t, c) ==
  /\ c \in [1..t.count -> Occupied(t)]
  /\ \A s \in Occupied(t) : \E i \in 1..t.count : c[i] = s
  /\ \A i, j \in 1..t.count : c[i] = c[j] => i = j
  /\ t.head = IF t.count = 0 THEN NoSlot ELSE c[1]
  /\ t.tail = IF t.count = 0 THEN NoSlot ELSE c[t.count]
  /\ \A i \in 1..t.count :
       /\ t.slot[c[i]].next = IF i = t.count THEN NoSlot ELSE c[i + 1]
       /\ t.slot[c[i]].prev = IF i = 1 THEN NoSlot ELSE c[i - 1]

Whole(t) == Threaded(t, Chain(t))

\* The pairs of t in the order of their insertion.
Listing(t) == Pairs(t, Chain(t))

\* A walk over t whose cursor is cursor has passed n entries.
CursorAt(t, cursor, n) ==
  /\ n \in 0..t.count
  /\ \/ cursor = AtHead /\ n = 0
     \/ cursor = PastTail /\ n = t.count
     \/ n < t.count /\ cursor = Chain(t)[n + 1] + 1

LoopPlaced == Looping => \E n \in 0..table[loop.table].count : CursorAt(table[loop.table], loop.cursor, n)

\* The table being filled holds the pairs that the walk has passed.
MoveListed ==
  job.do \in {"clone", "grow"} =>
    \E n \in 0..Work.count :
      /\ CursorAt(Work, job.cursor, n)
      /\ Listing(table[job.into]) = SubSeq(Listing(Work), 1, n)

\* The pair of a call is one the program stores, or a value it appends under
\* the key that is next.
Asked ==
  ~Idle =>
    \/ \E write \in Writes : write[1] = job.key /\ write[2] = job.value
    \/ job.key = AppendKey(Work) /\ job.key \in IntKeys /\ job.value \in Pushed

Order == (\A t \in Tables : Whole(table[t])) /\ LoopPlaced /\ MoveListed /\ Asked

-----------------------------------------------------------------------------
(* The chain is the list of slots that the links thread. *)

\* What Chain follows: the links from the head.
Follows(t, g) ==
  g = [i \in 1..t.count |->
         IF i = 1 THEN t.head
         ELSE IF g[i - 1] \in Occupied(t) THEN t.slot[g[i - 1]].next ELSE NoSlot]

LEMMA ChainFollows ==
  ASSUME NEW t, NEW c, Follows(t, c)
  PROVE  Follows(t, Chain(t))
<1> DEFINE g == CHOOSE g : Follows(t, g)
<1>1. Follows(t, g)
  OBVIOUS
<1>2. Chain(t) = [i \in 1..t.count |-> g[i]]
  BY Zenon DEF Chain, Follows
<1> HIDE DEF g
<1>3. DOMAIN g = 1..t.count /\ g = [i \in 1..t.count |-> g[i]]
  BY <1>1 DEF Follows
<1> QED  BY <1>1, <1>2, <1>3

LEMMA FollowsOne ==
  ASSUME NEW t, t.count \in Nat, NEW g, NEW h, Follows(t, g), Follows(t, h)
  PROVE  g = h
<1> DEFINE S == {i \in 1..t.count : g[i] # h[i]}
<1>1. /\ \A i \in 1..t.count :
           g[i] = IF i = 1 THEN t.head
                  ELSE IF g[i - 1] \in Occupied(t) THEN t.slot[g[i - 1]].next ELSE NoSlot
      /\ g = [i \in 1..t.count |-> g[i]]
  BY DEF Follows
<1>2. /\ \A i \in 1..t.count :
           h[i] = IF i = 1 THEN t.head
                  ELSE IF h[i - 1] \in Occupied(t) THEN t.slot[h[i - 1]].next ELSE NoSlot
      /\ h = [i \in 1..t.count |-> h[i]]
  BY DEF Follows
<1>3. S = {}
  <2> SUFFICES ASSUME S # {} PROVE FALSE
    OBVIOUS
  <2>1. PICK i \in S : \A j \in S : i <= j
    <3>1. S \subseteq Nat
      OBVIOUS
    <3> HIDE DEF S
    <3> QED  BY <3>1, LeastOf
  <2>2. i \in 1..t.count /\ g[i] # h[i]
    BY <2>1
  <2>3. i # 1
    BY <1>1, <1>2, <2>2
  <2>4. i - 1 \in 1..t.count /\ g[i - 1] = h[i - 1]
    BY <2>1, <2>2, <2>3
  <2>5. g[i] = IF g[i - 1] \in Occupied(t) THEN t.slot[g[i - 1]].next ELSE NoSlot
    BY <1>1, <2>2, <2>3
  <2>6. h[i] = IF h[i - 1] \in Occupied(t) THEN t.slot[h[i - 1]].next ELSE NoSlot
    BY <1>2, <2>2, <2>3
  <2> QED  BY ONLY <2>2, <2>4, <2>5, <2>6
<1>4. \A i \in 1..t.count : g[i] = h[i]
  BY <1>3
<1>5. g = [i \in 1..t.count |-> g[i]] /\ h = [i \in 1..t.count |-> h[i]]
  BY <1>1, <1>2
<1> QED  BY ONLY <1>4, <1>5

LEMMA ChainIs ==
  ASSUME NEW t, TableOK(t) \/ t = Unused, NEW c, Threaded(t, c)
  PROVE  Chain(t) = c
<1>1. t.count \in Nat
  BY TableParts DEF Unused, Empty
<1>2. c \in [1..t.count -> Occupied(t)] /\ (t.count > 0 => t.head = c[1])
  BY <1>1 DEF Threaded
<1>3. ASSUME NEW i \in 1..t.count
      PROVE  c[i] = IF i = 1 THEN t.head
                    ELSE IF c[i - 1] \in Occupied(t) THEN t.slot[c[i - 1]].next ELSE NoSlot
  <2>1. CASE i = 1
    BY <1>1, <1>2, <2>1
  <2>2. CASE i # 1
    <3>1. i - 1 \in 1..t.count /\ i - 1 # t.count
      BY <1>1, <2>2
    <3>2. c[i - 1] \in Occupied(t) /\ t.slot[c[i - 1]].next = c[(i - 1) + 1]
      BY <1>2, <3>1 DEF Threaded
    <3>3. (i - 1) + 1 = i
      BY <1>1
    <3> QED  BY <2>2, <3>2, <3>3
  <2> QED  BY <2>1, <2>2
<1>4. Follows(t, c)
  BY <1>2, <1>3 DEF Follows
<1> QED  BY <1>1, <1>4, ChainFollows, FollowsOne

\* The chain and the pairs are about the body.
LEMMA BodyChain ==
  ASSUME NEW t, NEW u, Body(u) = Body(t)
  PROVE  /\ Chain(u) = Chain(t) /\ Listing(u) = Listing(t)
         /\ Whole(u) = Whole(t)
         /\ \A c : Over(u, c) = Over(t, c) /\ Ahead(u, c) = Ahead(t, c)
         /\ \A c, n : CursorAt(u, c, n) = CursorAt(t, c, n)
<1>1. u.count = t.count /\ u.head = t.head /\ u.tail = t.tail /\ u.slot = t.slot
  BY DEF Body
<1>2. Occupied(u) = Occupied(t)
  BY <1>1 DEF Occupied
<1>3. Chain(u) = Chain(t)
  BY <1>1, <1>2 DEF Chain
<1>4. \A c : Pairs(u, c) = Pairs(t, c)
  BY <1>1 DEF Pairs
<1>5. Listing(u) = Listing(t)
  BY <1>3, <1>4 DEF Listing
<1>6. Whole(u) = Whole(t)
  BY <1>1, <1>2, <1>3 DEF Whole, Threaded
<1>7. \A c : Over(u, c) = Over(t, c) /\ Ahead(u, c) = Ahead(t, c)
  BY <1>1, <1>3, <1>4 DEF Over, Ahead
<1>8. \A c, n : CursorAt(u, c, n) = CursorAt(t, c, n)
  BY <1>1, <1>3 DEF CursorAt
<1> QED  BY <1>3, <1>5, <1>6, <1>7, <1>8

LEMMA EmptyWhole ==
  ASSUME NEW n \in Nat, NEW t, Body(t) = Body(Empty(n)), TableOK(t) \/ t = Unused
  PROVE  Whole(t) /\ Listing(t) = << >> /\ t.count = 0
<1>1. t.count = 0 /\ t.head = NoSlot /\ t.tail = NoSlot /\ t.slot = [s \in 0..(n - 1) |-> None]
  BY DEF Body, Empty
<1>2. Occupied(t) = {}
  BY <1>1 DEF Occupied
<1>3. Threaded(t, << >>)
  BY <1>1, <1>2 DEF Threaded
<1>4. Chain(t) = << >>
  BY <1>3, ChainIs
<1>5. Pairs(t, << >>) = << >>
  BY DEF Pairs
<1> QED  BY <1>1, <1>3, <1>4, <1>5 DEF Whole, Listing

LEMMA KeysOfListing ==
  ASSUME NEW t, TableOK(t), Whole(t)
  PROVE  /\ Listing(t) \in Seq(Keys \X Values) /\ Len(Listing(t)) = t.count
         /\ Chain(t) \in [1..t.count -> Occupied(t)] /\ DOMAIN Listing(t) = 1..t.count
         /\ \A i \in 1..t.count :
              Listing(t)[i] = <<t.slot[Chain(t)[i]].key, t.slot[Chain(t)[i]].value>>
         /\ Abstract!KeysOf(Listing(t)) = KeysOf(t)
<1> DEFINE c == Chain(t)
           n == t.count
           e(i) == <<t.slot[c[i]].key, t.slot[c[i]].value>>
<1>1. n \in Nat /\ c \in [1..n -> Occupied(t)] /\ \A s \in Occupied(t) : \E i \in 1..n : c[i] = s
  BY TableParts DEF Whole, Threaded
<1>2. Listing(t) = [i \in 1..n |-> e(i)]
  <2>1. DOMAIN c = 1..n
    BY <1>1
  <2> QED  BY <2>1 DEF Listing, Pairs
<1>3. \A i \in 1..n : e(i) \in Keys \X Values
  <2> SUFFICES ASSUME NEW i \in 1..n PROVE e(i) \in Keys \X Values
    OBVIOUS
  <2>1. t.slot[c[i]] \in Entries
    BY <1>1, TableParts
  <2> HIDE DEF c
  <2> QED  BY <2>1 DEF Entries
<1>4. Listing(t) \in Seq(Keys \X Values)
  <2> HIDE DEF e, n, c
  <2> QED  BY <1>1, <1>2, <1>3, IsASeq
<1>5. DOMAIN Listing(t) = 1..n /\ \A i \in 1..n : Listing(t)[i] = e(i)
  BY <1>2
<1>6. Len(Listing(t)) = n
  BY <1>1, <1>4, <1>5, LenProperties
<1>7. Abstract!KeysOf(Listing(t)) = KeysOf(t)
  <2>1. Abstract!KeysOf(Listing(t)) = {Listing(t)[i][1] : i \in 1..n}
    BY <1>5 DEF Abstract!KeysOf
  <2>2. \A i \in 1..n : Listing(t)[i][1] = t.slot[c[i]].key
    BY <1>5
  <2> HIDE DEF c, n, e
  <2> QED  BY <1>1, <2>1, <2>2 DEF KeysOf
<1> QED  BY <1>1, <1>4, <1>5, <1>6, <1>7

LEMMA LinkChain ==
  ASSUME NEW t, TableOK(t), NEW s \in DOMAIN t.slot, t.slot[s] = None,
         NEW k \in Keys, NEW x \in Values
  PROVE  LET u == Link(t, s, k, x) IN
         /\ u.head = (IF t.head = NoSlot THEN s ELSE t.head) /\ u.tail = s
         /\ \A q \in Occupied(t) :
              u.slot[q].next = IF q = t.tail THEN s ELSE t.slot[q].next
<1> DEFINE f == [q \in DOMAIN t.slot |->
                   IF q = s THEN [key |-> k, value |-> x, prev |-> t.tail, next |-> NoSlot]
                   ELSE IF q = t.tail THEN [t.slot[q] EXCEPT !.next = s] ELSE t.slot[q]]
           u == Link(t, s, k, x)
<1>1. u.head = (IF t.head = NoSlot THEN s ELSE t.head) /\ u.tail = s /\ u.slot = f
  BY DEF Link, TableOK
<1>2. ASSUME NEW q \in Occupied(t)
      PROVE  f[q].next = IF q = t.tail THEN s ELSE t.slot[q].next
  <2>1. q # s /\ q \in DOMAIN t.slot /\ t.slot[q] \in Entries
    BY TableParts DEF Occupied
  <2>2. f[q] = IF q = t.tail THEN [t.slot[q] EXCEPT !.next = s] ELSE t.slot[q]
    BY <2>1
  <2> HIDE DEF f
  <2> QED  BY <2>1, <2>2 DEF Entries
<1> QED  BY <1>1, <1>2

LEMMA ReplaceChain ==
  ASSUME NEW t, TableOK(t), NEW s \in Occupied(t), NEW x \in Values
  PROVE  LET u == [t EXCEPT !.slot[s].value = x] IN
         /\ u.head = t.head /\ u.tail = t.tail
         /\ \A q \in Occupied(t) :
              /\ u.slot[q].prev = t.slot[q].prev /\ u.slot[q].next = t.slot[q].next
              /\ q # s => u.slot[q].value = t.slot[q].value
<1> DEFINE e == [t.slot[s] EXCEPT !.value = x]
           f == [t.slot EXCEPT ![s] = e]
           u == [t EXCEPT !.slot = f]
<1>1. s \in DOMAIN t.slot /\ t.slot[s] \in Entries
  BY TableParts
<1>2. e.prev = t.slot[s].prev /\ e.next = t.slot[s].next
  BY <1>1 DEF Entries
<1>3. f[s] = e /\ \A q \in DOMAIN t.slot : q # s => f[q] = t.slot[q]
  BY <1>1 DEF TableOK
<1> HIDE DEF e, f
<1>4. u.head = t.head /\ u.tail = t.tail /\ u.slot = f
  BY DEF TableOK
<1>5. u = [t EXCEPT !.slot[s].value = x]
  BY DEF u, f, e
<1> HIDE DEF u
<1>6. \A q \in Occupied(t) :
        /\ u.slot[q].prev = t.slot[q].prev /\ u.slot[q].next = t.slot[q].next
        /\ q # s => u.slot[q].value = t.slot[q].value
  BY <1>2, <1>3, <1>4, TableParts
<1> QED  BY <1>4, <1>5, <1>6

\* A new pair goes to the end of the chain.
LEMMA LinkWhole ==
  ASSUME NEW t, TableOK(t), Whole(t), NEW s \in DOMAIN t.slot, t.slot[s] = None,
         NEW k \in Keys, NEW x \in Values
  PROVE  LET u == Link(t, s, k, x) IN
         /\ Whole(u)
         /\ Listing(u) = Append(Listing(t), <<k, x>>)
<1> DEFINE u == Link(t, s, k, x)
           c == Chain(t)
           n == t.count
           d == [i \in 1..(n + 1) |-> IF i = n + 1 THEN s ELSE c[i]]
<1>1. TableOK(u)
  BY LinkTyped
<1>2. Occupied(u) = Occupied(t) \cup {s} /\ s \notin Occupied(t)
  BY LinkOccupied
<1>3. /\ u.count = n + 1
      /\ u.slot[s].key = k /\ u.slot[s].value = x
      /\ u.slot[s].prev = t.tail /\ u.slot[s].next = NoSlot
      /\ \A q \in Occupied(t) :
           /\ u.slot[q].key = t.slot[q].key /\ u.slot[q].value = t.slot[q].value
           /\ u.slot[q].prev = t.slot[q].prev
  BY LinkSlots
<1>4. /\ u.head = (IF t.head = NoSlot THEN s ELSE t.head) /\ u.tail = s
      /\ \A q \in Occupied(t) : u.slot[q].next = IF q = t.tail THEN s ELSE t.slot[q].next
  BY LinkChain
<1>5. n \in Nat /\ NoSlot \notin Occupied(t)
  BY TableParts
<1>6. Threaded(t, c)
  BY DEF Whole
<1> HIDE DEF u, c
<1>7. /\ c \in [1..n -> Occupied(t)]
      /\ \A q \in Occupied(t) : \E i \in 1..n : c[i] = q
      /\ \A i, j \in 1..n : c[i] = c[j] => i = j
      /\ t.head = IF n = 0 THEN NoSlot ELSE c[1]
      /\ t.tail = IF n = 0 THEN NoSlot ELSE c[n]
      /\ \A i \in 1..n :
           /\ t.slot[c[i]].next = IF i = n THEN NoSlot ELSE c[i + 1]
           /\ t.slot[c[i]].prev = IF i = 1 THEN NoSlot ELSE c[i - 1]
  BY <1>6 DEF Threaded
<1>8. d[n + 1] = s /\ \A i \in 1..n : d[i] = c[i] /\ i \in 1..(n + 1)
  BY <1>5
<1>9. d \in [1..(n + 1) -> Occupied(u)]
  BY <1>2, <1>5, <1>7
<1>10. \A q \in Occupied(u) : \E i \in 1..(n + 1) : d[i] = q
  <2>1. n + 1 \in 1..(n + 1)
    BY <1>5
  <2> HIDE DEF d
  <2> QED  BY <1>2, <1>7, <1>8, <2>1
<1> HIDE DEF d
<1>11. \A i, j \in 1..(n + 1) : d[i] = d[j] => i = j
  <2> SUFFICES ASSUME NEW i \in 1..(n + 1), NEW j \in 1..(n + 1), d[i] = d[j] PROVE i = j
    OBVIOUS
  <2>1. CASE i \in 1..n /\ j \in 1..n
    BY <1>7, <1>8, <2>1
  <2>2. CASE i = n + 1 \/ j = n + 1
    <3>1. \A l \in 1..n : d[l] # s
      BY <1>2, <1>7, <1>8
    <3> QED  BY <1>5, <1>8, <2>2, <3>1
  <2> QED  BY <1>5, <2>1, <2>2
<1>12. u.head = d[1] /\ u.tail = d[n + 1] /\ n + 1 # 0
  <2>1. u.head = d[1]
    <3>1. CASE n = 0
      BY <1>4, <1>7, <1>8, <3>1
    <3>2. CASE n # 0
      <4>1. 1 \in 1..n
        BY <1>5, <3>2
      <4>2. c[1] \in Occupied(t)
        BY <1>7, <4>1
      <4> QED  BY <1>4, <1>5, <1>7, <1>8, <3>2, <4>1, <4>2
    <3> QED  BY <3>1, <3>2
  <2> QED  BY <1>4, <1>5, <1>8, <2>1
<1>13. ASSUME NEW i \in 1..(n + 1)
       PROVE  /\ u.slot[d[i]].next = IF i = n + 1 THEN NoSlot ELSE d[i + 1]
              /\ u.slot[d[i]].prev = IF i = 1 THEN NoSlot ELSE d[i - 1]
  <2>1. CASE i = n + 1
    <3>1. u.slot[d[i]].next = NoSlot /\ u.slot[d[i]].prev = t.tail
      BY <1>3, <1>8, <2>1
    <3>2. t.tail = IF i = 1 THEN NoSlot ELSE d[i - 1]
      <4>1. CASE n = 0
        BY <1>7, <2>1, <4>1
      <4>2. CASE n # 0
        <5>1. n \in 1..n /\ i - 1 = n /\ i # 1
          BY <1>5, <2>1, <4>2
        <5> QED  BY <1>7, <1>8, <4>2, <5>1
      <4> QED  BY <4>1, <4>2
    <3> QED  BY <2>1, <3>1, <3>2
  <2>2. CASE i # n + 1
    <3>1. i \in 1..n /\ d[i] = c[i] /\ c[i] \in Occupied(t)
      <4>1. i \in 1..n
        BY <1>5, <2>2
      <4>2. d[i] = c[i]
        BY <1>8, <4>1
      <4>3. c[i] \in Occupied(t)
        BY ONLY <1>7, <4>1
      <4> QED  BY ONLY <4>1, <4>2, <4>3
    <3>2. u.slot[d[i]].prev = IF i = 1 THEN NoSlot ELSE d[i - 1]
      <4>1. u.slot[d[i]].prev = IF i = 1 THEN NoSlot ELSE c[i - 1]
        BY <1>3, <1>7, <3>1
      <4>2. i # 1 => i - 1 \in 1..n
        BY <1>5, <3>1
      <4> QED  BY <1>8, <4>1, <4>2
    <3>3. CASE i = n
      <4>1. c[i] = t.tail
        BY <1>5, <1>7, <3>1, <3>3
      <4> QED  BY <1>4, <1>8, <2>2, <3>1, <3>2, <3>3, <4>1
    <3>4. CASE i # n
      <4>1. i + 1 \in 1..n /\ n \in 1..n /\ n # 0
        BY <1>5, <3>1, <3>4
      <4>2. c[i] # t.tail
        BY <1>7, <3>1, <3>4, <4>1
      <4>3. u.slot[c[i]].next = c[i + 1]
        BY <1>4, <1>7, <3>1, <3>4, <4>2
      <4> QED  BY <1>8, <2>2, <3>1, <3>2, <4>1, <4>3
    <3> QED  BY <3>3, <3>4
  <2> QED  BY <2>1, <2>2
<1>14. Threaded(u, d)
  BY <1>3, <1>9, <1>10, <1>11, <1>12, <1>13 DEF Threaded
<1>15. Chain(u) = d
  BY <1>1, <1>14, ChainIs
<1>16. Whole(u)
  BY <1>14, <1>15 DEF Whole
<1>17. Listing(u) = Append(Listing(t), <<k, x>>)
  <2> DEFINE S == Keys \X Values
  <2>1. /\ Listing(t) \in Seq(S) /\ Len(Listing(t)) = n
        /\ \A i \in 1..n : Listing(t)[i] = <<t.slot[c[i]].key, t.slot[c[i]].value>>
    BY KeysOfListing DEF c
  <2>2. /\ Listing(u) \in Seq(S) /\ Len(Listing(u)) = n + 1
        /\ \A i \in 1..(n + 1) : Listing(u)[i] = <<u.slot[d[i]].key, u.slot[d[i]].value>>
    BY <1>1, <1>3, <1>15, <1>16, KeysOfListing
  <2>3. <<k, x>> \in S
    OBVIOUS
  <2> HIDE DEF S
  <2> DEFINE g == Append(Listing(t), <<k, x>>)
  <2>4. /\ g \in Seq(S) /\ Len(g) = n + 1 /\ g[n + 1] = <<k, x>>
        /\ \A i \in 1..n : g[i] = Listing(t)[i]
    BY <2>1, <2>3, AppendProperties
  <2> HIDE DEF g
  <2>5. ASSUME NEW i \in 1..(n + 1) PROVE Listing(u)[i] = g[i]
    <3>1. CASE i = n + 1
      BY <1>3, <1>8, <2>2, <2>4, <3>1
    <3>2. CASE i # n + 1
      <4>1. i \in 1..n /\ c[i] \in Occupied(t)
        BY <1>5, <1>7, <3>2
      <4>2. d[i] = c[i] /\ g[i] = <<t.slot[c[i]].key, t.slot[c[i]].value>>
        BY <1>8, <2>1, <2>4, <4>1
      <4>3. u.slot[c[i]].key = t.slot[c[i]].key /\ u.slot[c[i]].value = t.slot[c[i]].value
        BY <1>3, <4>1
      <4>4. Listing(u)[i] = <<u.slot[c[i]].key, u.slot[c[i]].value>>
        BY <2>2, <4>2
      <4> QED  BY <4>2, <4>3, <4>4
    <3> QED  BY <3>1, <3>2
  <2>6. Listing(u) = g
    BY <2>2, <2>4, <2>5, SeqEqual
  <2> QED  BY <2>6 DEF g
<1> QED  BY <1>16, <1>17 DEF u

\* A stored key keeps its place.
LEMMA ReplaceWhole ==
  ASSUME NEW t, TableOK(t), Probed(t), Whole(t), NEW s \in Occupied(t), NEW x \in Values
  PROVE  LET u == [t EXCEPT !.slot[s].value = x]
             k == t.slot[s].key
         IN  /\ Whole(u)
             /\ Listing(u) = Abstract!Stored(Listing(t), k, x)
<1> DEFINE u == [t EXCEPT !.slot[s].value = x]
           c == Chain(t)
           n == t.count
           k == t.slot[s].key
<1>1. /\ TableOK(u) /\ Occupied(u) = Occupied(t) /\ u.count = n
      /\ u.slot[s].value = x
      /\ \A q \in Occupied(t) : u.slot[q].key = t.slot[q].key
  BY ReplaceSlots
<1>2. /\ u.head = t.head /\ u.tail = t.tail
      /\ \A q \in Occupied(t) :
           /\ u.slot[q].prev = t.slot[q].prev /\ u.slot[q].next = t.slot[q].next
           /\ q # s => u.slot[q].value = t.slot[q].value
  BY ReplaceChain
<1>3. Threaded(t, c) /\ n \in Nat
  BY TableParts DEF Whole
<1> HIDE DEF u, c
<1>4. c \in [1..n -> Occupied(t)] /\ \A q \in Occupied(t) : \E i \in 1..n : c[i] = q
  BY <1>3 DEF Threaded
<1>5. Threaded(u, c)
  <2> HIDE DEF n, k
  <2>1. /\ \A i, j \in 1..n : c[i] = c[j] => i = j
        /\ t.head = (IF n = 0 THEN NoSlot ELSE c[1])
        /\ t.tail = (IF n = 0 THEN NoSlot ELSE c[n])
        /\ \A i \in 1..n : /\ t.slot[c[i]].next = (IF i = n THEN NoSlot ELSE c[i + 1])
                           /\ t.slot[c[i]].prev = (IF i = 1 THEN NoSlot ELSE c[i - 1])
    BY <1>3 DEF Threaded, n
  <2>2. \A i \in 1..n : u.slot[c[i]].next = t.slot[c[i]].next /\ u.slot[c[i]].prev = t.slot[c[i]].prev
    BY ONLY <1>2, <1>4
  <2>3. \A i \in 1..n : /\ u.slot[c[i]].next = (IF i = n THEN NoSlot ELSE c[i + 1])
                        /\ u.slot[c[i]].prev = (IF i = 1 THEN NoSlot ELSE c[i - 1])
    BY ONLY <2>1, <2>2
  <2>4. /\ c \in [1..n -> Occupied(u)] /\ \A q \in Occupied(u) : \E i \in 1..n : c[i] = q
    BY ONLY <1>1, <1>4
  <2>5. /\ u.head = (IF n = 0 THEN NoSlot ELSE c[1])
        /\ u.tail = (IF n = 0 THEN NoSlot ELSE c[n])
    BY ONLY <1>2, <2>1
  <2> QED  BY <1>1, <2>1, <2>3, <2>4, <2>5, Zenon DEF Threaded
<1>6. Chain(u) = c /\ Whole(u)
  BY <1>1, <1>5, ChainIs DEF Whole
<1> DEFINE p == Listing(t)
           q == Listing(u)
           g == [i \in DOMAIN p |-> IF p[i][1] = k THEN <<k, x>> ELSE p[i]]
<1>7. /\ p \in Seq(Keys \X Values) /\ DOMAIN p = 1..n
      /\ \A i \in 1..n : p[i] = <<t.slot[c[i]].key, t.slot[c[i]].value>>
      /\ Abstract!KeysOf(p) = KeysOf(t)
  BY KeysOfListing DEF c
<1>8. /\ q \in Seq(Keys \X Values) /\ DOMAIN q = 1..n
      /\ \A i \in 1..n : q[i] = <<u.slot[c[i]].key, u.slot[c[i]].value>>
  BY <1>1, <1>6, KeysOfListing
<1>9. k \in Abstract!KeysOf(p)
  BY <1>7 DEF KeysOf
<1>10. Abstract!Stored(p, k, x) = g
  BY <1>9 DEF Abstract!Stored
<1> HIDE DEF p, q, k
<1>11. ASSUME NEW i \in 1..n PROVE q[i] = IF p[i][1] = k THEN <<k, x>> ELSE p[i]
  <2>1. c[i] \in Occupied(t) /\ u.slot[c[i]].key = t.slot[c[i]].key
    BY <1>1, <1>4
  <2>2. p[i][1] = t.slot[c[i]].key /\ p[i] = <<t.slot[c[i]].key, t.slot[c[i]].value>>
    BY <1>7
  <2>3. q[i] = <<t.slot[c[i]].key, u.slot[c[i]].value>>
    BY <1>8, <2>1
  <2>4. CASE c[i] = s
    <3>1. p[i][1] = k /\ u.slot[c[i]].value = x
      BY <1>1, <2>2, <2>4 DEF k
    <3> QED  BY <2>2, <2>3, <3>1
  <2>5. CASE c[i] # s
    <3>1. p[i][1] # k
      BY <2>1, <2>2, <2>5 DEF Probed, k
    <3>2. u.slot[c[i]].value = t.slot[c[i]].value
      BY <1>2, <2>1, <2>5
    <3> QED  BY <2>2, <2>3, <3>1, <3>2
  <2> QED  BY <2>4, <2>5
<1>12. q = [i \in 1..n |-> q[i]]
  BY <1>8, LenProperties
<1>13. q = g
  BY <1>7, <1>11, <1>12
<1> QED  BY <1>6, <1>10, <1>13 DEF u, p, q, k

\* What an insertion does to the list of pairs.
LEMMA InsertListed ==
  ASSUME NEW t, Sound(t), Whole(t), NEW k \in Keys, NEW x \in Values
  PROVE  LET u == Insert(t, k, x) IN
         /\ Whole(u)
         /\ Listing(u) = Abstract!Stored(Listing(t), k, x)
<1> DEFINE u == Insert(t, k, x)
<1>1. TableOK(t) /\ Probed(t)
  BY DEF Sound
<1>2. PICK s \in DOMAIN t.slot : ProbeEnd(t, k) = {s}
  BY <1>1, SoundHasRoom, ProbeEnds
<1>3. u = IF t.slot[s] = None THEN Link(t, s, k, x) ELSE [t EXCEPT !.slot[s].value = x]
  BY <1>2 DEF Insert
<1>4. CASE t.slot[s] = None
  <2> DEFINE w == Link(t, s, k, x)
  <2>1. Whole(w) /\ Listing(w) = Append(Listing(t), <<k, x>>)
    BY <1>1, <1>4, LinkWhole
  <2>2. k \notin KeysOf(t)
    BY <1>1, <1>2, <1>4, LinkProbed
  <2>3. Abstract!KeysOf(Listing(t)) = KeysOf(t)
    BY <1>1, KeysOfListing
  <2>4. Abstract!Stored(Listing(t), k, x) = Append(Listing(t), <<k, x>>)
    BY <2>2, <2>3 DEF Abstract!Stored
  <2>5. u = w
    BY <1>3, <1>4
  <2> HIDE DEF u, w
  <2> QED  BY <2>1, <2>4, <2>5 DEF u
<1>5. CASE t.slot[s] # None
  <2> DEFINE w == [t EXCEPT !.slot[s].value = x]
  <2>1. s \in Occupied(t)
    BY <1>5 DEF Occupied
  <2>2. t.slot[s].key = k
    <3>1. PICK i \in DOMAIN t.slot : s = Probe(t, k, i) /\ EndsProbe(t, k, i)
      BY <1>2 DEF ProbeEnd
    <3> QED  BY <1>5, <3>1 DEF EndsProbe
  <2>3. Whole(w) /\ Listing(w) = Abstract!Stored(Listing(t), t.slot[s].key, x)
    BY <1>1, <2>1, ReplaceWhole
  <2>4. u = w
    BY <1>3, <1>5
  <2> HIDE DEF u, w
  <2> QED  BY <2>2, <2>3, <2>4 DEF u
<1> QED  BY <1>4, <1>5

\* The key of $v[] = x.
LEMMA AppendKeyListed ==
  ASSUME NEW t, TableOK(t), Whole(t)
  PROVE  AppendKey(t) = Abstract!NextKey(Listing(t))
<1>1. Abstract!KeysOf(Listing(t)) = KeysOf(t)
  BY KeysOfListing
<1>2. {t.slot[s].key : s \in {s \in DOMAIN t.slot : t.slot[s] # None}} = KeysOf(t)
  BY DEF KeysOf, Occupied
<1>3. \A S : Max(S) = Abstract!Max(S)
  BY DEF Max, Abstract!Max
<1> QED  BY <1>1, <1>2, <1>3 DEF AppendKey, Abstract!NextKey

-----------------------------------------------------------------------------
(* Walks over the chain. *)

\* No key is listed twice.
LEMMA ListingDistinct ==
  ASSUME NEW t, TableOK(t), Probed(t), Whole(t), NEW i \in 1..t.count, NEW j \in 1..t.count,
         Listing(t)[i][1] = Listing(t)[j][1]
  PROVE  i = j
<1> DEFINE c == Chain(t)
<1>1. /\ c \in [1..t.count -> Occupied(t)]
      /\ Listing(t)[i][1] = t.slot[c[i]].key /\ Listing(t)[j][1] = t.slot[c[j]].key
  BY KeysOfListing
<1>2. \A a, b \in 1..t.count : c[a] = c[b] => a = b
  BY DEF Whole, Threaded
<1> HIDE DEF c
<1>3. c[i] = c[j]
  BY <1>1 DEF Probed
<1> QED  BY <1>2, <1>3

\* Where a walk is that has passed n entries.
LEMMA WalkPlaced ==
  ASSUME NEW t, TableOK(t), Whole(t), NEW cursor, NEW n, CursorAt(t, cursor, n)
  PROVE  /\ n \in 0..t.count /\ t.count \in Nat
         /\ Over(t, cursor) <=> n = t.count
         /\ n < t.count =>
              /\ <<EntryAt(t, cursor).key, EntryAt(t, cursor).value>> = Listing(t)[n + 1]
              /\ CursorAt(t, After(t, cursor), n + 1)
<1> DEFINE c == Chain(t)
<1>1. t.count \in Nat /\ n \in 0..t.count /\ NoSlot \notin Occupied(t) /\ Occupied(t) \subseteq Nat
  BY TableParts DEF CursorAt
<1>2. /\ c \in [1..t.count -> Occupied(t)]
      /\ t.head = IF t.count = 0 THEN NoSlot ELSE c[1]
      /\ \A i \in 1..t.count : t.slot[c[i]].next = IF i = t.count THEN NoSlot ELSE c[i + 1]
  BY DEF Whole, Threaded
<1>3. /\ \/ cursor = AtHead /\ n = 0
         \/ cursor = PastTail /\ n = t.count
         \/ n < t.count /\ cursor = c[n + 1] + 1
  BY DEF CursorAt
<1>4. \A i \in 1..t.count : Listing(t)[i] = <<t.slot[c[i]].key, t.slot[c[i]].value>>
  BY KeysOfListing
<1>a. \A m : CursorAt(t, PastTail, t.count) /\
             (m \in 0..t.count /\ m < t.count => CursorAt(t, c[m + 1] + 1, m))
  BY <1>1 DEF CursorAt
<1> HIDE DEF c
<1>5. Over(t, cursor) <=> n = t.count
  <2>1. CASE cursor = AtHead /\ n = 0
    <3>1. t.count # 0 => t.head # NoSlot
      BY <1>1, <1>2
    <3> QED  BY <1>2, <2>1, <3>1 DEF Over, AtHead, Done, PastTail
  <2>2. CASE cursor = PastTail /\ n = t.count
    BY <2>2 DEF Over
  <2>3. CASE n < t.count /\ cursor = c[n + 1] + 1
    <3>1. c[n + 1] \in Nat
      BY <1>1, <1>2, <2>3
    <3> QED  BY <1>1, <2>3, <3>1 DEF Over, AtHead, Done, PastTail
  <2> QED  BY <1>3, <2>1, <2>2, <2>3
<1>6. ASSUME n < t.count
      PROVE  /\ <<EntryAt(t, cursor).key, EntryAt(t, cursor).value>> = Listing(t)[n + 1]
             /\ CursorAt(t, After(t, cursor), n + 1)
  <2>1. n + 1 \in 1..t.count /\ c[n + 1] \in Nat /\ n \in Nat
    BY <1>1, <1>2, <1>6
  <2>2. EntryAt(t, cursor) = t.slot[c[n + 1]]
    <3>1. CASE cursor = AtHead /\ n = 0
      BY <1>1, <1>2, <1>6, <3>1 DEF EntryAt
    <3>2. CASE cursor = PastTail /\ n = t.count
      BY <1>1, <1>6, <3>2
    <3>3. CASE n < t.count /\ cursor = c[n + 1] + 1
      <4>1. cursor # AtHead /\ cursor - 1 = c[n + 1]
        BY <2>1, <3>3 DEF AtHead
      <4> QED  BY <4>1 DEF EntryAt
    <3> QED  BY <1>3, <3>1, <3>2, <3>3
  <2>3. EntryAt(t, cursor).next = IF n + 1 = t.count THEN NoSlot ELSE c[(n + 1) + 1]
    BY <1>2, <2>1, <2>2
  <2>4. CursorAt(t, After(t, cursor), n + 1)
    <3>1. CASE n + 1 = t.count
      <4>1. After(t, cursor) = PastTail
        BY <2>3, <3>1 DEF After
      <4> QED  BY <1>a, <3>1, <4>1
    <3>2. CASE n + 1 # t.count
      <4>1. (n + 1) + 1 \in 1..t.count /\ n + 1 \in 0..t.count /\ n + 1 < t.count
        BY <1>1, <2>1, <3>2
      <4>2. c[(n + 1) + 1] # NoSlot
        BY <1>1, <1>2, <4>1
      <4>3. After(t, cursor) = c[(n + 1) + 1] + 1
        BY <2>3, <3>2, <4>2 DEF After
      <4> QED  BY <1>a, <4>1, <4>3
    <3> QED  BY <3>1, <3>2
  <2> QED  BY <1>4, <2>1, <2>2, <2>4
<1> QED  BY <1>1, <1>5, <1>6

\* What is ahead of it.
LEMMA AheadListed ==
  ASSUME NEW t, TableOK(t), Whole(t), NEW cursor, NEW n, CursorAt(t, cursor, n)
  PROVE  Ahead(t, cursor) = SubSeq(Listing(t), n + 1, t.count)
<1> DEFINE c == Chain(t)
           N == t.count
           S == Keys \X Values
           from == IF cursor = AtHead THEN 1
                   ELSE IF cursor = PastTail THEN Len(c) + 1
                   ELSE SelectInSeq(c, LAMBDA s : s = cursor - 1)
           d == SubSeq(c, n + 1, N)
           q == SubSeq(Listing(t), n + 1, N)
<1>1. N \in Nat /\ n \in 0..N /\ Occupied(t) \subseteq Nat
  BY TableParts DEF CursorAt
<1>2. /\ c \in [1..N -> Occupied(t)]
      /\ \A i, j \in 1..N : c[i] = c[j] => i = j
  BY DEF Whole, Threaded
<1>3. /\ \/ cursor = AtHead /\ n = 0
         \/ cursor = PastTail /\ n = N
         \/ n < N /\ cursor = c[n + 1] + 1
  BY DEF CursorAt
<1>4. /\ Listing(t) \in Seq(S) /\ Len(Listing(t)) = N
      /\ \A i \in 1..N : Listing(t)[i] = <<t.slot[c[i]].key, t.slot[c[i]].value>>
  BY KeysOfListing
<1>5. c \in Seq(Occupied(t)) /\ Len(c) = N
  <2>1. c \in Seq(Occupied(t))
    BY <1>1, <1>2, SeqDef
  <2>2. DOMAIN c = 1..N /\ DOMAIN c = 1..Len(c) /\ Len(c) \in Nat
    BY <1>2, <2>1, LenProperties
  <2> HIDE DEF c, N
  <2> QED  BY <1>1, <2>1, <2>2
<1>6. Ahead(t, cursor) = Pairs(t, SubSeq(c, from, N))
  BY <1>5 DEF Ahead
<1> HIDE DEF c, N
<1>7. from = n + 1
  <2>1. CASE cursor = AtHead /\ n = 0
    BY <2>1
  <2>2. CASE cursor = PastTail /\ n = N
    BY <1>5, <2>2 DEF AtHead, PastTail
  <2>3. CASE n < N /\ cursor = c[n + 1] + 1
    <3> DEFINE I == {i \in 1..Len(c) : c[i] = cursor - 1}
    <3>1. n + 1 \in 1..N /\ c[n + 1] \in Nat
      BY <1>1, <1>2, <2>3
    <3>2. cursor # AtHead /\ cursor # PastTail /\ cursor - 1 = c[n + 1]
      BY <2>3, <3>1 DEF AtHead, PastTail
    <3>3. I = {n + 1}
      BY <1>2, <1>5, <3>1, <3>2
    <3>4. SelectInSeq(c, LAMBDA s : s = cursor - 1) = IF I # {} THEN Min(I) ELSE 0
      BY DEF SelectInSeq
    <3> HIDE DEF I
    <3>5. Min(I) = n + 1
      BY <3>1, <3>3 DEF Min
    <3> QED  BY <3>2, <3>3, <3>4, <3>5
  <2> QED  BY <1>3, <2>1, <2>2, <2>3
<1> HIDE DEF from
<1>8. Ahead(t, cursor) = Pairs(t, d)
  BY <1>6, <1>7
<1>9. /\ d \in Seq(Occupied(t)) /\ Len(d) = N - n
      /\ \A i \in 1..(N - n) : d[i] = c[n + i]
  <2>1. n + 1 \in Int /\ N \in Int /\ \A i \in (n + 1)..N : c[i] \in Occupied(t)
    BY <1>1, <1>2
  <2>2. /\ d \in Seq(Occupied(t))
        /\ Len(d) = IF n + 1 <= N THEN N - (n + 1) + 1 ELSE 0
        /\ \A i \in 1..(N - (n + 1) + 1) : d[i] = c[(n + 1) + i - 1]
    BY <2>1, SubSeqProperties
  <2> HIDE DEF d
  <2> QED  BY <1>1, <2>2
<1>10. /\ q \in Seq(S) /\ Len(q) = N - n
       /\ \A i \in 1..(N - n) : q[i] = Listing(t)[n + i]
  <2>1. n + 1 \in Int /\ N \in Int /\ \A i \in (n + 1)..N : Listing(t)[i] \in S
    <3> HIDE DEF S
    <3> QED  BY <1>1, <1>4, ElementOfSeq
  <2>2. /\ q \in Seq(S)
        /\ Len(q) = IF n + 1 <= N THEN N - (n + 1) + 1 ELSE 0
        /\ \A i \in 1..(N - (n + 1) + 1) : q[i] = Listing(t)[(n + 1) + i - 1]
    <3> HIDE DEF S
    <3> QED  BY <2>1, SubSeqProperties
  <2> HIDE DEF q, S
  <2> QED  BY <1>1, <2>2
<1> HIDE DEF d, q
<1>11. DOMAIN d = 1..(N - n) /\ DOMAIN q = 1..(N - n)
  BY <1>9, <1>10, LenProperties
<1>12. Pairs(t, d) = [i \in 1..(N - n) |-> <<t.slot[d[i]].key, t.slot[d[i]].value>>]
  BY <1>11 DEF Pairs
<1>13. \A i \in 1..(N - n) : <<t.slot[d[i]].key, t.slot[d[i]].value>> = q[i]
  <2> SUFFICES ASSUME NEW i \in 1..(N - n) PROVE <<t.slot[d[i]].key, t.slot[d[i]].value>> = q[i]
    OBVIOUS
  <2>1. n + i \in 1..N
    BY <1>1
  <2> QED  BY <1>4, <1>9, <1>10, <2>1
<1>14. q = [i \in 1..(N - n) |-> q[i]]
  <2>1. q \in [1..Len(q) -> S]
    <3> HIDE DEF S
    <3> QED  BY <1>10, LenProperties
  <2> QED  BY <1>10, <2>1
<1>15. Pairs(t, d) = q
  BY <1>12, <1>13, <1>14
<1> QED  BY <1>8, <1>15 DEF q, N

\* An entry that a walk comes to next is new to a table that holds the pairs
\* it has passed.
LEMMA MoveListsNext ==
  ASSUME NEW t, TableOK(t), Probed(t), Whole(t), NEW n \in 0..(t.count - 1)
  PROVE  Abstract!Stored(SubSeq(Listing(t), 1, n), Listing(t)[n + 1][1], Listing(t)[n + 1][2])
           = SubSeq(Listing(t), 1, n + 1)
<1> DEFINE p == Listing(t)
           S == Keys \X Values
           q == SubSeq(p, 1, n)
           N == t.count
<1>1. N \in Nat /\ p \in Seq(S) /\ Len(p) = N
  BY TableParts, KeysOfListing
<1>2. n \in 0..N /\ n + 1 \in 1..N /\ n \in Nat
  BY <1>1
<1>3. \A i, j \in 1..N : p[i][1] = p[j][1] => i = j
  BY ListingDistinct
<1>4. p[n + 1] \in S
  <2> HIDE DEF p, S, N
  <2> QED  BY <1>1, <1>2, ElementOfSeq
<1>5. p[n + 1] = <<p[n + 1][1], p[n + 1][2]>>
  BY <1>4
<1> HIDE DEF p, S, N
<1>6. /\ q \in Seq(S) /\ Len(q) = n
      /\ \A i \in 1..n : q[i] = p[i]
  <2>1. 1 \in Int /\ n \in Int /\ \A i \in 1..n : p[i] \in S
    BY <1>1, <1>2, ElementOfSeq
  <2>2. /\ q \in Seq(S) /\ Len(q) = (IF 1 <= n THEN n - 1 + 1 ELSE 0)
        /\ \A i \in 1..(n - 1 + 1) : q[i] = p[1 + i - 1]
    BY <2>1, SubSeqProperties
  <2> HIDE DEF q
  <2> QED  BY <1>2, <2>2
<1>7. SubSeq(p, 1, n + 1) = Append(q, p[n + 1])
  <2>1. 1 \in 1..Len(p) /\ n + 1 \in 1..Len(p)
    BY <1>1, <1>2
  <2>2. SubSeq(p, 1, n + 1) = SubSeq(p, 1, (n + 1) - 1) \o <<p[n + 1]>>
    BY <1>1, <2>1, SubSeqRecursiveSecond
  <2>3. (n + 1) - 1 = n
    BY <1>2
  <2>4. Append(q, p[n + 1]) = q \o <<p[n + 1]>>
    <3> HIDE DEF q
    <3> QED  BY <1>4, <1>6, AppendIsConcat
  <2> QED  BY <2>2, <2>3, <2>4
<1> HIDE DEF q
<1>8. p[n + 1][1] \notin Abstract!KeysOf(q)
  <2>1. DOMAIN q = 1..n
    BY <1>6, LenProperties
  <2>2. ASSUME NEW i \in 1..n PROVE q[i][1] # p[n + 1][1]
    <3>1. i \in 1..N /\ i # n + 1 /\ q[i] = p[i]
      BY <1>1, <1>2, <1>6
    <3> QED  BY <1>2, <1>3, <3>1
  <2> QED  BY <2>1, <2>2 DEF Abstract!KeysOf
<1>9. Abstract!Stored(q, p[n + 1][1], p[n + 1][2]) = Append(q, p[n + 1])
  BY <1>5, <1>8 DEF Abstract!Stored
<1> QED  BY <1>7, <1>9 DEF p, q

-----------------------------------------------------------------------------
(* Steps, as the program sees them. *)

\* The state of OrderedArrays.
Arrays == [v \in Locals |-> Contents(Holding(v))]
Left == IF Looping THEN Ahead(table[loop.table], loop.cursor) ELSE None
View == <<Arrays, Left, loop.pair>>

LEMMA WholeTables ==
  ASSUME IInv, Order, NEW t \in Tables
  PROVE  /\ Whole(table[t])
         /\ Allocated(t) => TableOK(table[t]) /\ Sound(table[t])
         /\ Contents(t) = Listing(table[t])
<1>1. t # None
  BY NoneAssumption
<1> QED  BY <1>1, AllocatedSound DEF IInv, Order, Sound, Contents, Listing

\* A block that is free threads nothing.
LEMMA UnusedWhole ==
  Whole(Unused)
<1>1. Body(Unused) = Body(Empty(0))
  BY DEF Body, Unused, Empty
<1> QED  BY <1>1, EmptyWhole

\* No list of pairs is None.
LEMMA ListsSomething ==
  ASSUME NEW t, TableOK(t), Whole(t)
  PROVE  Listing(t) # None
BY KeysOfListing, NoneListAssumption

\* What a running loop has passed and has ahead.
LEMMA LoopListed ==
  ASSUME IInv, Order, Looping
  PROVE  LET t == table[loop.table] IN
         /\ TableOK(t) /\ Whole(t) /\ Left # None
         /\ \E n \in 0..t.count :
              CursorAt(t, loop.cursor, n) /\ Left = SubSeq(Listing(t), n + 1, t.count)
<1> DEFINE t == table[loop.table]
           S == Keys \X Values
<1>1. TableOK(t) /\ Whole(t)
  BY WholeTables DEF IInv, LoopOK
<1>2. PICK n \in 0..t.count : CursorAt(t, loop.cursor, n)
  BY DEF Order, LoopPlaced
<1>3. Left = Ahead(t, loop.cursor)
  BY DEF Left
<1> HIDE DEF t
<1>4. Left = SubSeq(Listing(t), n + 1, t.count)
  BY <1>1, <1>2, <1>3, AheadListed
<1>5. Left \in Seq(S)
  <2>1. Listing(t) \in Seq(S) /\ Len(Listing(t)) = t.count /\ t.count \in Nat
    BY <1>1, KeysOfListing, TableParts
  <2> HIDE DEF S
  <2>2. n + 1 \in Int /\ t.count \in Int /\ \A i \in (n + 1)..t.count : Listing(t)[i] \in S
    BY <1>2, <2>1, ElementOfSeq
  <2> QED  BY <1>4, <2>2, SubSeqProperties
<1> QED  BY <1>1, <1>2, <1>4, <1>5, NoneListAssumption DEF t

\* A loop that goes on over the same pairs is where it was.
LEMMA LoopSame ==
  ASSUME Kept, Order, loop' = loop
  PROVE  LoopPlaced' /\ Left' = Left
<1>1. CASE Looping
  <2>1. Body(table'[loop.table]) = Body(table[loop.table])
    BY <1>1 DEF Kept
  <2>2. Looping'
    BY <1>1 DEF Looping
  <2>3. table'[loop.table].count = table[loop.table].count
    BY <2>1 DEF Body
  <2>4. LoopPlaced'
    BY <1>1, <2>1, <2>2, <2>3, BodyChain DEF Order, LoopPlaced
  <2>5. Left' = Left
    BY <1>1, <2>1, <2>2, BodyChain DEF Left
  <2> QED  BY <2>4, <2>5
<1>2. CASE ~Looping
  BY <1>2 DEF Looping, LoopPlaced, Left
<1> QED  BY <1>1, <1>2

\* A statement that gives a variable another array.
LEMMA AssignsArray ==
  ASSUME IInv, Order, NEW v \in Locals, NEW t \in Tables \cup {None}, Assigned(v, t),
         t # None /\ ~Allocated(t) => table'[t] = Empty(MinCapacity)
  PROVE  /\ Order' /\ Left' = Left /\ loop' = loop
         /\ Arrays' = [Arrays EXCEPT ![v] = Contents(t)']
<1>1. IInv' /\ Kept
  BY Assigns
<1>2. Idle /\ var' = [var EXCEPT ![v] = t] /\ loop' = loop /\ job' = job
  BY DEF Assigned
<1>3. LoopPlaced' /\ Left' = Left
  BY <1>1, <1>2, LoopSame
<1>4. ASSUME NEW q \in Tables PROVE Whole(table'[q])
  <2>1. CASE table'[q] = Unused
    BY <2>1, UnusedWhole
  <2>2. CASE table'[q] # Unused /\ Allocated(q)
    <3>1. Sound(table'[q])
      BY <2>2 DEF Assigned
    <3>2. table'[q].refs > 0
      BY <3>1, TableParts DEF Sound
    <3>3. Body(table'[q]) = Body(table[q])
      BY <2>2, <3>2 DEF Assigned
    <3> QED  BY <3>3, BodyChain DEF Order
  <2>3. CASE table'[q] # Unused /\ ~Allocated(q)
    <3>1. Sound(table'[q])
      BY <2>3 DEF Assigned
    <3>2. table'[q].refs > 0 /\ table'[q].refs \in Nat
      BY <3>1, TableParts DEF Sound
    <3>3. table[q].refs = 0
      BY <2>3, AllocatedSound DEF IInv, Allocated
    <3>4. t = q
      BY <3>2, <3>3 DEF Assigned
    <3>5. table'[q] = Empty(MinCapacity) /\ q # None
      BY <2>3, <3>4, NoneAssumption
    <3> QED  BY <3>1, <3>5, EmptyWhole, CapacityAssumption DEF Sound
  <2> QED  BY <2>1, <2>2, <2>3
<1>5. MoveListed' /\ Asked'
  <2>1. Idle' /\ job'.do = "idle"
    BY <1>2, BetweenCalls DEF Idle
  <2> QED  BY <2>1 DEF MoveListed, Asked
<1>6. Order'
  BY <1>3, <1>4, <1>5 DEF Order
<1>7. ASSUME NEW w \in Locals
      PROVE  Contents(Holding(w))' = IF w = v THEN Contents(t)' ELSE Contents(Holding(w))
  <2>1. Holding(w) = var[w] /\ Holding(w)' = var'[w]
    <3>1. job.var = None /\ job'.var = None /\ w # None
      BY <1>2, BetweenCalls, NoneAssumption
    <3> QED  BY <3>1 DEF Holding
  <2>2. CASE w = v
    <3>1. Holding(w)' = t
      BY <1>2, <2>1, <2>2 DEF IInv, TypeOK
    <3> QED  BY <2>2, <3>1 DEF Contents
  <2>3. CASE w # v
    <3>1. var'[w] = var[w]
      BY <1>2, <2>3 DEF IInv, TypeOK
    <3>2. CASE var[w] = None
      BY <2>1, <2>3, <3>1, <3>2 DEF Contents
    <3>3. CASE var[w] # None
      <4>1. job.var # w
        BY <1>2, BetweenCalls, NoneAssumption
      <4>2. Body(table'[var[w]]) = Body(table[var[w]])
        BY <1>1, <3>1, <3>3, <4>1 DEF Kept
      <4>3. Listing(table'[var[w]]) = Listing(table[var[w]])
        BY <4>2, BodyChain
      <4> QED  BY <2>1, <2>3, <3>1, <3>3, <4>3 DEF Contents, Listing
    <3> QED  BY <3>2, <3>3
  <2> QED  BY <2>2, <2>3
<1>8. Arrays' = [Arrays EXCEPT ![v] = Contents(t)']
  <2>1. Arrays' = [w \in Locals |-> Contents(Holding(w))']
    BY DEF Arrays
  <2>2. \A w \in Locals : Arrays[w] = Contents(Holding(w))
    BY DEF Arrays
  <2>3. DOMAIN Arrays = Locals
    BY DEF Arrays
  <2> HIDE DEF Arrays
  <2>4. [Arrays EXCEPT ![v] = Contents(t)'] = [w \in Locals |-> IF w = v THEN Contents(t)' ELSE Arrays[w]]
    BY <2>3
  <2> QED  BY <1>7, <2>1, <2>2, <2>4
<1> QED  BY <1>2, <1>3, <1>6, <1>8

\* A statement of OrderedArrays.
LEMMA StatementView ==
  ASSUME NEW v \in Locals, NEW pairs \in Abstract!PairsAfter(Arrays, v),
         Arrays' = [Arrays EXCEPT ![v] = pairs], Left' = Left, loop' = loop
  PROVE  Abstract!Next
<1>1. Arrays' \in Abstract!ArraysAfter(Arrays)
  <2> DEFINE S(u) == {[Arrays EXCEPT ![u] = p] : p \in Abstract!PairsAfter(Arrays, u)}
  <2>1. Arrays' \in S(v)
    OBVIOUS
  <2>2. Abstract!ArraysAfter(Arrays) = UNION {S(u) : u \in Locals}
    BY DEF Abstract!ArraysAfter
  <2> HIDE DEF S
  <2> QED  BY <2>1, <2>2
<1>2. Abstract!Statement
  BY <1>1 DEF Abstract!Statement, Arrays, Left
<1> QED  BY <1>2 DEF Abstract!Next

LEMMA LiteralView ==
  ASSUME IInv, Order, NEW v \in Locals, Literal(v)
  PROVE  Order' /\ Abstract!Next
<1>1. PICK t \in Tables : Assigned(v, t) /\ table'[t] = Empty(MinCapacity)
  BY LiteralAssigns
<1>2. Order' /\ Left' = Left /\ loop' = loop /\ Arrays' = [Arrays EXCEPT ![v] = Contents(t)']
  BY <1>1, AssignsArray
<1>3. Contents(t)' = << >>
  <2>1. TableOK(table'[t])
    BY <1>1, EmptySound, CapacityAssumption DEF Sound
  <2>2. Listing(table'[t]) = << >>
    BY <1>1, <2>1, EmptyWhole, CapacityAssumption
  <2>3. t # None
    BY NoneAssumption
  <2> QED  BY <2>2, <2>3 DEF Contents, Listing
<1>4. << >> \in Abstract!PairsAfter(Arrays, v)
  BY DEF Abstract!PairsAfter
<1> QED  BY <1>2, <1>3, <1>4, StatementView

LEMMA CopyView ==
  ASSUME IInv, Order, NEW v \in Locals, NEW w \in Locals, Copy(v, w)
  PROVE  Order' /\ Abstract!Next
<1>1. v # w /\ var[w] \in Tables /\ Allocated(var[w]) /\ Assigned(v, var[w])
  BY CopyAssigns
<1> DEFINE t == var[w]
<1>2. PICK q \in Tables : q = var[w] /\ Allocated(q)
  BY <1>1
<1>3. Order' /\ Left' = Left /\ loop' = loop /\ Arrays' = [Arrays EXCEPT ![v] = Contents(q)']
  BY <1>1, <1>2, AssignsArray
<1>4. Idle /\ job' = job /\ var' = [var EXCEPT ![v] = q]
  BY <1>1, <1>2 DEF Assigned
<1>5. Contents(q)' = Arrays'[w]
  <2>1. job'.var = None /\ w # None
    BY <1>4, BetweenCalls, NoneAssumption
  <2>2. var'[w] = q
    BY <1>1, <1>2, <1>4 DEF IInv, TypeOK
  <2>3. Holding(w)' = q
    BY <2>1, <2>2 DEF Holding
  <2>4. Contents(Holding(w))' = Contents(q)'
    BY <2>3 DEF Contents
  <2> QED  BY <2>4 DEF Arrays
<1>6. Arrays'[w] = Arrays[w]
  <2>1. DOMAIN Arrays = Locals
    BY DEF Arrays
  <2> HIDE DEF Arrays
  <2> QED  BY <1>1, <1>3, <2>1
<1>7. Arrays[w] \in Abstract!PairsAfter(Arrays, v)
  BY DEF Abstract!PairsAfter
<1> QED  BY <1>3, <1>5, <1>6, <1>7, StatementView

LEMMA UnsetView ==
  ASSUME IInv, Order, NEW v \in Locals, Unset(v)
  PROVE  Order' /\ Abstract!Next
<1>1. Assigned(v, None)
  BY UnsetAssigns
<1>2. Order' /\ Left' = Left /\ loop' = loop /\ Arrays' = [Arrays EXCEPT ![v] = Contents(None)']
  BY <1>1, AssignsArray
<1>3. Contents(None)' = None
  BY DEF Contents
<1>4. None \in Abstract!PairsAfter(Arrays, v)
  BY DEF Abstract!PairsAfter
<1> QED  BY <1>2, <1>3, <1>4, StatementView

\* A call begins: nothing is seen yet.
LEMMA CallView ==
  ASSUME IInv, Order, NEW v \in Locals, NEW k \in Keys, NEW x \in Values, Call(v, k, x),
         \/ \E write \in Writes : write[1] = k /\ write[2] = x
         \/ k = AppendKey(table[var[v]]) /\ k \in IntKeys /\ x \in Pushed
  PROVE  Order' /\ UNCHANGED View
<1>1. /\ Idle /\ UNCHANGED <<table, var, loop>>
      /\ job'.do \in {"share", "room"} /\ job'.var = v /\ job'.table = var[v]
      /\ job'.key = k /\ job'.value = x
  BY DEF Call, NoJob
<1>2. Asked'
  BY <1>1 DEF Asked, Work
<1>3. Order'
  <2>1. (\A t \in Tables : Whole(table[t]))' /\ LoopPlaced'
    BY <1>1 DEF Order, LoopPlaced, Looping
  <2>2. MoveListed'
    BY <1>1 DEF MoveListed
  <2> QED  BY <1>2, <2>1, <2>2 DEF Order
<1>4. Arrays' = Arrays
  <2>1. \A w \in Locals : Holding(w)' = Holding(w)
    BY <1>1, BetweenCalls DEF Holding
  <2>2. \A w \in Locals : Contents(Holding(w))' = Contents(Holding(w))
    BY <1>1, <2>1 DEF Contents
  <2> QED  BY <2>2 DEF Arrays
<1>5. Left' = Left
  BY <1>1 DEF Left, Looping
<1> QED  BY <1>1, <1>3, <1>4, <1>5 DEF View

LEMMA SetView ==
  ASSUME IInv, Order, NEW v \in Locals, NEW write \in Writes, Set(v, write[1], write[2])
  PROVE  Order' /\ UNCHANGED View
<1>1. write[1] \in Keys /\ write[2] \in Values
  BY WritesAssumption DEF Values
<1> QED  BY <1>1, CallView DEF Set

LEMMA AppendView ==
  ASSUME IInv, Order, NEW v \in Locals, NEW x \in Pushed, AppendTo(v, x)
  PROVE  Order' /\ UNCHANGED View
<1> DEFINE k == AppendKey(table[var[v]])
<1>1. k \in IntKeys /\ Call(v, k, x) /\ k = AppendKey(table[var[v]])
  BY DEF AppendTo
<1> HIDE DEF k
<1>2. k \in Keys /\ x \in Values
  BY <1>1 DEF Keys, Values
<1> QED  BY <1>1, <1>2, CallView

\* The steps of the loop.
LEMMA LoopOrder ==
  ASSUME Order, Idle, UNCHANGED <<table, var, job>>, LoopPlaced'
  PROVE  Order' /\ Arrays' = Arrays
<1>1. MoveListed' /\ Asked'
  <2>1. Idle' /\ job'.do = "idle"
    BY BetweenCalls DEF Idle
  <2> QED  BY <2>1 DEF MoveListed, Asked
<1>2. Order'
  BY <1>1 DEF Order
<1>3. Arrays' = Arrays
  BY DEF Arrays, Holding, Contents
<1> QED  BY <1>2, <1>3

LEMMA BeginView ==
  ASSUME IInv, Order, NEW v \in Locals, Begin(v)
  PROVE  Order' /\ Abstract!Next
<1>1. /\ Idle /\ ~Looping /\ UNCHANGED <<table, var, job>> /\ loop' = [NoLoop EXCEPT !.table = var[v]]
  BY DEF Begin
<1>2. PICK t \in Tables : t = var[v] /\ Allocated(t)
  BY VarAllocated DEF Begin
<1>3. loop' = [table |-> t, cursor |-> AtHead, pair |-> None]
  BY <1>1, <1>2 DEF NoLoop
<1>4. TableOK(table[t]) /\ Whole(table[t]) /\ Contents(t) = Listing(table[t])
  BY <1>2, WholeTables
<1>5. table[t].count \in Nat /\ 0 \in 0..table[t].count /\ CursorAt(table[t], AtHead, 0)
  BY <1>4, TableParts DEF CursorAt
<1>6. Looping'
  BY <1>3, NoneAssumption DEF Looping, NoLoop
<1>7. LoopPlaced'
  BY <1>1, <1>3, <1>5 DEF LoopPlaced
<1>8. Order' /\ Arrays' = Arrays
  BY <1>1, <1>7, LoopOrder
<1>9. Left' = Listing(table[t])
  <2>1. Left' = Ahead(table[t], AtHead)
    BY <1>1, <1>3, <1>6 DEF Left
  <2>2. Ahead(table[t], AtHead) = SubSeq(Listing(table[t]), 0 + 1, table[t].count)
    BY <1>4, <1>5, AheadListed
  <2>3. Listing(table[t]) \in Seq(Keys \X Values) /\ Len(Listing(table[t])) = table[t].count
    BY <1>4, KeysOfListing
  <2>4. SubSeq(Listing(table[t]), 1, Len(Listing(table[t]))) = Listing(table[t])
    BY <2>3, SubSeqFull
  <2> QED  BY <2>1, <2>2, <2>3, <2>4
<1>10. Arrays[v] = Listing(table[t]) /\ Arrays[v] # None
  <2>1. Holding(v) = t
    BY <1>1, <1>2, BetweenCalls
  <2> QED  BY <1>4, <2>1, ListsSomething DEF Arrays
<1>11. Left = None /\ loop.pair = None /\ loop'.pair = None
  BY <1>1, <1>3 DEF Left, Looping, NoLoop
<1>12. Abstract!Begin(v)
  BY <1>8, <1>9, <1>10, <1>11 DEF Abstract!Begin, Arrays, Left
<1> QED  BY <1>8, <1>12 DEF Abstract!Next

LEMMA VisitView ==
  ASSUME IInv, Order, Visit
  PROVE  Order' /\ Abstract!Next
<1> DEFINE t == table[loop.table]
           e == EntryAt(t, loop.cursor)
           p == Listing(t)
           N == t.count
<1>1. /\ Idle /\ Looping /\ ~Over(t, loop.cursor) /\ UNCHANGED <<table, var, job>>
      /\ loop' = [loop EXCEPT !.cursor = After(t, loop.cursor), !.pair = <<e.key, e.value>>]
  BY DEF Visit
<1>2. /\ loop'.table = loop.table /\ loop'.cursor = After(t, loop.cursor)
      /\ loop'.pair = <<e.key, e.value>>
  BY <1>1 DEF IInv, TypeOK
<1>3. TableOK(t) /\ Whole(t) /\ Left # None
  BY <1>1, LoopListed
<1>4. PICK n \in 0..N : CursorAt(t, loop.cursor, n) /\ Left = SubSeq(p, n + 1, N)
  BY <1>1, LoopListed
<1>5. t' = t
  BY <1>1, <1>2
<1>6. /\ N \in Nat /\ n < N
      /\ <<e.key, e.value>> = p[n + 1]
      /\ CursorAt(t, After(t, loop.cursor), n + 1)
  <2> HIDE DEF t
  <2>1. n \in 0..N /\ N \in Nat /\ n # N
    BY <1>1, <1>3, <1>4, WalkPlaced
  <2>2. n < t.count
    BY <2>1
  <2> QED  BY <1>3, <1>4, <2>1, <2>2, WalkPlaced
<1>7. Looping'
  BY <1>1, <1>2, NoneAssumption DEF IInv, LoopOK, Looping, NoLoop
<1>8. LoopPlaced'
  <2>1. n + 1 \in 0..N
    BY <1>6
  <2> QED  BY <1>2, <1>5, <1>6, <2>1 DEF LoopPlaced
<1>9. Order' /\ Arrays' = Arrays
  BY <1>1, <1>8, LoopOrder
<1>10. Left' = SubSeq(p, (n + 1) + 1, N)
  <2>1. Left' = Ahead(t, After(t, loop.cursor))
    BY <1>2, <1>5, <1>7 DEF Left
  <2> HIDE DEF t
  <2> QED  BY <1>3, <1>6, <2>1, AheadListed
<1>11. /\ Left # << >> /\ Head(Left) = p[n + 1] /\ Tail(Left) = SubSeq(p, (n + 1) + 1, N)
  <2> DEFINE S == Keys \X Values
  <2>1. p \in Seq(S) /\ Len(p) = N
    BY <1>3, KeysOfListing
  <2>2. n + 1 \in 1..Len(p) /\ N \in (n + 1)..Len(p)
    BY <1>6, <2>1
  <2> HIDE DEF S, p, t, N
  <2>3. Head(Left) = p[n + 1] /\ Tail(Left) = SubSeq(p, (n + 1) + 1, N)
    BY <1>4, <2>1, <2>2, HeadTailOfSubSeq
  <2>4. Len(Left) = N - (n + 1) + 1
    <3>1. n + 1 \in Int /\ N \in Int /\ n + 1 <= N /\ \A i \in (n + 1)..N : p[i] \in S
      BY <1>6, <2>1, <2>2, ElementOfSeq
    <3> QED  BY <1>4, <3>1, SubSeqProperties
  <2>5. Len(Left) # 0
    BY <1>6, <2>4
  <2>6. Len(<< >>) = 0
    BY EmptySeq
  <2> QED  BY <2>3, <2>5, <2>6
<1> HIDE DEF t, e, p, N
<1>12. Abstract!Visit
  BY <1>2, <1>3, <1>6, <1>9, <1>10, <1>11 DEF Abstract!Visit, Arrays, Left
<1> QED  BY <1>9, <1>12 DEF Abstract!Next

LEMMA LeaveView ==
  ASSUME IInv, Order, Leave
  PROVE  Order' /\ Abstract!Next
<1>1. Idle /\ Looping /\ UNCHANGED <<table, var, job>> /\ loop' = NoLoop
  BY DEF Leave
<1>2. ~Looping' /\ loop'.pair = None
  BY <1>1 DEF Looping, NoLoop
<1>3. LoopPlaced' /\ Left' = None
  BY <1>2 DEF LoopPlaced, Left
<1>4. Order' /\ Arrays' = Arrays
  BY <1>1, <1>3, LoopOrder
<1>5. Left # None
  BY <1>1, LoopListed
<1>6. Abstract!Leave
  BY <1>2, <1>3, <1>4, <1>5 DEF Abstract!Leave, Arrays, Left
<1> QED  BY <1>4, <1>6 DEF Abstract!Next

\* A step of a call, but for the last, changes nothing the program sees.
LEMMA CallUnseen ==
  ASSUME IInv, Order, Kept, job.do # "idle", UNCHANGED <<var, loop>>,
         job'.var = job.var, job'.table \in Tables, Listing(table'[job'.table]) = Listing(Work)
  PROVE  LoopPlaced' /\ UNCHANGED View
<1>1. LoopPlaced' /\ Left' = Left
  BY LoopSame
<1>2. job.var \in Locals /\ job.table \in Tables
  BY InCall
<1>3. ASSUME NEW w \in Locals PROVE Contents(Holding(w))' = Contents(Holding(w))
  <2>1. CASE w = job.var
    <3>1. Holding(w) = job.table /\ Holding(w)' = job'.table
      BY <2>1 DEF Holding
    <3>2. Contents(job.table) = Listing(Work) /\ Contents(Holding(w))' = Listing(table'[job'.table])
      BY <1>2, <3>1, NoneAssumption DEF Contents, Listing, Work
    <3> QED  BY <3>1, <3>2
  <2>2. CASE w # job.var
    <3>1. Holding(w) = var[w] /\ Holding(w)' = var[w]
      BY <2>2 DEF Holding
    <3>2. CASE var[w] = None
      BY <3>1, <3>2 DEF Contents
    <3>3. CASE var[w] # None
      <4>1. Body(table'[var[w]]) = Body(table[var[w]])
        BY <2>2, <3>3 DEF Kept
      <4>2. Listing(table'[var[w]]) = Listing(table[var[w]])
        BY <4>1, BodyChain
      <4> QED  BY <3>1, <3>3, <4>2 DEF Contents, Listing
    <3> QED  BY <3>2, <3>3
  <2> QED  BY <2>1, <2>2
<1>4. Arrays' = Arrays
  BY <1>3 DEF Arrays
<1> QED  BY <1>1, <1>4 DEF View

LEMMA MoveToView ==
  ASSUME IInv, Order, Kept, job.do # "idle", NEW c \in Nat, c >= MinCapacity,
         NEW step \in {"clone", "grow"}, MoveTo(c, step)
  PROVE  Order' /\ UNCHANGED View
<1>1. PICK t \in Tables :
        /\ ~Allocated(t)
        /\ table' = [table EXCEPT ![t] = Empty(c)]
        /\ job' = [job EXCEPT !.do = step, !.into = t, !.cursor = AtHead]
        /\ UNCHANGED <<var, loop>>
  BY DEF MoveTo
<1>2. job.table \in Tables /\ Allocated(job.table) /\ ~Idle
  BY InCall
<1>3. /\ job'.do = step /\ job'.into = t /\ job'.cursor = AtHead
      /\ job'.var = job.var /\ job'.table = job.table /\ job'.key = job.key /\ job'.value = job.value
  BY <1>1 DEF IInv, TypeOK
<1>4. table'[t] = Empty(c) /\ \A q \in Tables : q # t => table'[q] = table[q]
  BY <1>1 DEF IInv, TypeOK
<1>5. Work' = Work
  BY <1>1, <1>2, <1>3, <1>4 DEF Work
<1>6. TableOK(Work) /\ Whole(Work)
  BY <1>2, WholeTables DEF Work
<1>7. Whole(Empty(c)) /\ Listing(Empty(c)) = << >>
  <2>1. TableOK(Empty(c))
    BY EmptySound DEF Sound
  <2> QED  BY <2>1, EmptyWhole
<1>8. LoopPlaced' /\ UNCHANGED View
  <2>1. Listing(table'[job'.table]) = Listing(Work)
    BY <1>1, <1>2, <1>3, <1>4 DEF Work
  <2> QED  BY <1>1, <1>2, <1>3, <2>1, CallUnseen
<1>9. \A q \in Tables : Whole(table'[q])
  BY <1>4, <1>7 DEF Order
<1>10. MoveListed'
  <2>1. Work.count \in Nat /\ 0 \in 0..Work.count /\ CursorAt(Work, AtHead, 0)
    BY <1>6, TableParts DEF CursorAt
  <2>2. SubSeq(Listing(Work), 1, 0) = << >>
    BY SubSeqEmpty
  <2>3. Listing(table'[t]) = SubSeq(Listing(Work), 1, 0)
    BY <1>4, <1>7, <2>2
  <2> QED  BY <1>3, <1>5, <2>1, <2>3 DEF MoveListed
<1>11. Asked'
  BY <1>2, <1>3, <1>5 DEF Order, Asked
<1> QED  BY <1>8, <1>9, <1>10, <1>11 DEF Order

LEMMA CloneView ==
  ASSUME IInv, Order, Clone
  PROVE  Order' /\ UNCHANGED View
<1>1. Work.cap \in Nat /\ Work.cap >= MinCapacity /\ job.do = "share" /\ MoveTo(Work.cap, "clone")
  BY InCall DEF Clone, Sound, TableOK
<1>2. Kept
  BY CloneKeeps
<1> QED  BY <1>1, <1>2, MoveToView

LEMMA GrowView ==
  ASSUME IInv, Order, Grow
  PROVE  Order' /\ UNCHANGED View
<1>1. Work.cap \in Nat /\ Work.cap >= MinCapacity /\ job.do = "room" /\ MoveTo(2 * Work.cap, "grow")
  BY InCall DEF Grow, Sound, TableOK
<1>2. 2 * Work.cap \in Nat /\ 2 * Work.cap >= MinCapacity
  BY <1>1, CapacityAssumption
<1>3. Kept
  BY GrowKeeps
<1> QED  BY <1>1, <1>2, <1>3, MoveToView

LEMMA MoveEntryView ==
  ASSUME IInv, Order, MoveEntry
  PROVE  Order' /\ UNCHANGED View
<1> DEFINE t == table[job.into]
           e == EntryAt(Work, job.cursor)
           u == Insert(t, e.key, e.value)
           c == After(Work, job.cursor)
           p == Listing(Work)
           N == Work.count
<1>1. /\ job.do \in {"clone", "grow"} /\ ~Over(Work, job.cursor) /\ UNCHANGED <<var, loop>>
      /\ job' = [job EXCEPT !.cursor = c]
      /\ table' = [table EXCEPT ![job.into] = u]
  BY DEF MoveEntry
<1>2. Kept
  BY MoveEntryKeeps
<1>3. job.into \in Tables \ {job.table, loop.table} /\ Sound(t) /\ Whole(t)
  BY <1>1, IntoUnheld DEF Order
<1>4. ~Idle /\ job.table \in Tables /\ Sound(Work) /\ TableOK(Work) /\ Whole(Work)
  BY <1>1, InCall DEF Order, Work, Sound
<1>5. PICK n \in 0..N : CursorAt(Work, job.cursor, n) /\ Listing(t) = SubSeq(p, 1, n)
  BY <1>1 DEF Order, MoveListed
<1>6. /\ job'.do = job.do /\ job'.into = job.into /\ job'.cursor = c
      /\ job'.var = job.var /\ job'.table = job.table /\ job'.key = job.key /\ job'.value = job.value
  BY <1>1 DEF IInv, TypeOK
<1>7. table'[job.into] = u /\ \A q \in Tables : q # job.into => table'[q] = table[q]
  BY <1>1, <1>3 DEF IInv, TypeOK
<1>8. Work' = Work
  BY <1>3, <1>4, <1>6, <1>7 DEF Work
<1>9. N \in Nat /\ n # N
  BY <1>1, <1>4, <1>5, WalkPlaced
<1>10. <<e.key, e.value>> = p[n + 1] /\ CursorAt(Work, c, n + 1)
  <2>1. n < Work.count
    BY <1>9
  <2> QED  BY <1>4, <1>5, <2>1, WalkPlaced
<1>11. e.key \in Keys /\ e.value \in Values
  <2>1. p \in Seq(Keys \X Values) /\ Len(p) = N
    BY <1>4, KeysOfListing
  <2>2. n + 1 \in 1..Len(p)
    BY <1>9, <2>1
  <2> HIDE DEF p, N, e
  <2>3. p[n + 1] \in Keys \X Values
    BY <2>1, <2>2, ElementOfSeq
  <2> QED  BY <1>10, <2>3
<1>12. Whole(u) /\ Listing(u) = Abstract!Stored(SubSeq(p, 1, n), e.key, e.value)
  <2> HIDE DEF t, e, p
  <2> QED  BY <1>3, <1>5, <1>11, InsertListed
<1>13. Listing(u) = SubSeq(p, 1, n + 1)
  <2>1. e.key = p[n + 1][1] /\ e.value = p[n + 1][2]
    <3> HIDE DEF e, p
    <3>1. <<e.key, e.value>>[1] = e.key /\ <<e.key, e.value>>[2] = e.value
      OBVIOUS
    <3> QED  BY <1>10, <3>1
  <2>2. n \in 0..(Work.count - 1)
    BY <1>9
  <2>3. Abstract!Stored(SubSeq(Listing(Work), 1, n), Listing(Work)[n + 1][1], Listing(Work)[n + 1][2])
          = SubSeq(Listing(Work), 1, n + 1)
    BY <1>4, <2>2, MoveListsNext DEF Sound
  <2> HIDE DEF u, e
  <2> QED  BY <1>12, <2>1, <2>3
<1> HIDE DEF u, c, e
<1>14. LoopPlaced' /\ UNCHANGED View
  <2>1. Listing(table'[job'.table]) = Listing(Work)
    BY <1>8 DEF Work
  <2>2. job.do # "idle"
    BY <1>1
  <2> QED  BY <1>1, <1>2, <1>4, <1>6, <2>1, <2>2, CallUnseen
<1>15. \A q \in Tables : Whole(table'[q])
  BY <1>7, <1>12 DEF Order
<1>16. MoveListed'
  <2>1. n + 1 \in 0..N
    BY <1>9
  <2> QED  BY <1>6, <1>7, <1>8, <1>10, <1>13, <2>1 DEF MoveListed
<1>17. Asked'
  BY <1>4, <1>6, <1>8 DEF Order, Asked
<1> QED  BY <1>14, <1>15, <1>16, <1>17 DEF Order

LEMMA MovedView ==
  ASSUME IInv, Order, Kept, job.do \in {"clone", "grow"}, Over(Work, job.cursor),
         NEW step \in {"room", "put"}, Moved(step)
  PROVE  Order' /\ UNCHANGED View
<1> DEFINE t == table[job.into]
           p == Listing(Work)
           N == Work.count
<1>1. /\ UNCHANGED <<var, loop>>
      /\ job' = [job EXCEPT !.do = step, !.table = job.into, !.into = None]
      /\ \A q \in Tables : q # job.table => table'[q] = table[q]
      /\ \/ table'[job.table] = Unused
         \/ Body(table'[job.table]) = Body(table[job.table])
  BY DEF Moved
<1>2. job.into \in Tables \ {job.table, loop.table} /\ TableOK(t) /\ Whole(t)
  BY IntoUnheld DEF Order, Sound
<1>3. ~Idle /\ job.table \in Tables /\ TableOK(Work) /\ Whole(Work)
  BY InCall DEF Order, Work, Sound
<1>4. PICK n \in 0..N : CursorAt(Work, job.cursor, n) /\ Listing(t) = SubSeq(p, 1, n)
  BY DEF Order, MoveListed
<1>5. Listing(t) = p
  <2>1. n = N
    BY <1>3, <1>4, WalkPlaced
  <2>2. p \in Seq(Keys \X Values) /\ Len(p) = N
    BY <1>3, KeysOfListing
  <2>3. SubSeq(p, 1, Len(p)) = p
    BY <2>2, SubSeqFull
  <2> QED  BY <1>4, <2>1, <2>2, <2>3
<1>6. /\ job'.do = step /\ job'.table = job.into /\ job'.var = job.var
      /\ job'.key = job.key /\ job'.value = job.value
  BY <1>1 DEF IInv, TypeOK
<1>7. Work' = t
  BY <1>1, <1>2, <1>6 DEF Work
<1>8. LoopPlaced' /\ UNCHANGED View
  <2>1. Listing(table'[job'.table]) = Listing(Work)
    BY <1>5, <1>7 DEF Work
  <2>2. job.do # "idle" /\ job'.table \in Tables
    BY <1>2, <1>6
  <2> QED  BY <1>1, <1>6, <2>1, <2>2, CallUnseen
<1>9. ASSUME NEW q \in Tables PROVE Whole(table'[q])
  <2>1. CASE q # job.table
    BY <1>1, <2>1 DEF Order
  <2>2. CASE q = job.table
    BY <1>1, <2>2, UnusedWhole, BodyChain DEF Order
  <2> QED  BY <2>1, <2>2
<1>10. MoveListed'
  BY <1>6 DEF MoveListed
<1>11. AppendKey(t) = AppendKey(Work)
  BY <1>2, <1>3, <1>5, AppendKeyListed
<1>12. Asked'
  BY <1>3, <1>6, <1>7, <1>11 DEF Order, Asked
<1> QED  BY <1>8, <1>9, <1>10, <1>12 DEF Order

\* The pair is stored: the statement takes effect.
LEMMA PutView ==
  ASSUME IInv, Order, Put
  PROVE  Order' /\ Abstract!Next
<1> DEFINE u == Insert(Work, job.key, job.value)
           v == job.var
<1>1. /\ job.do \in {"room", "put"}
      /\ table' = [table EXCEPT ![job.table] = u]
      /\ var' = [var EXCEPT ![v] = job.table]
      /\ job' = NoJob /\ loop' = loop
  BY DEF Put, Work
<1>2. Kept
  BY PutKeeps
<1>3. /\ ~Idle /\ v \in Locals /\ job.table \in Tables /\ job.key \in Keys /\ job.value \in Values
      /\ Sound(Work) /\ TableOK(Work) /\ Whole(Work)
  BY <1>1, InCall DEF Order, Work, Sound
<1>4. Whole(u) /\ Listing(u) = Abstract!Stored(Listing(Work), job.key, job.value)
  BY <1>3, InsertListed
<1> HIDE DEF u
<1>5. table'[job.table] = u /\ \A q \in Tables : q # job.table => table'[q] = table[q]
  BY <1>1, <1>3 DEF IInv, TypeOK
<1>6. job'.do = "idle" /\ job'.var = None /\ Idle'
  BY <1>1 DEF NoJob, Idle
<1>7. LoopPlaced' /\ Left' = Left
  BY <1>1, <1>2, LoopSame
<1>8. Order'
  <2>1. \A q \in Tables : Whole(table'[q])
    BY <1>4, <1>5 DEF Order
  <2>2. MoveListed' /\ Asked'
    BY <1>6 DEF MoveListed, Asked
  <2> QED  BY <1>7, <2>1, <2>2 DEF Order
<1>9. ASSUME NEW w \in Locals
      PROVE  Contents(Holding(w))' = IF w = v THEN Listing(u) ELSE Contents(Holding(w))
  <2>1. Holding(w)' = IF w = v THEN job.table ELSE var[w]
    <3>1. job'.var # w
      BY <1>6, NoneAssumption
    <3> QED  BY <1>1, <3>1 DEF Holding, IInv, TypeOK
  <2>2. CASE w = v
    BY <1>3, <1>5, <2>1, <2>2, NoneAssumption DEF Contents, Listing
  <2>3. CASE w # v
    <3>1. Holding(w) = var[w] /\ Holding(w)' = var[w] /\ var'[w] = var[w]
      BY <1>1, <2>1, <2>3 DEF Holding, IInv, TypeOK
    <3>2. CASE var[w] = None
      BY <2>3, <3>1, <3>2 DEF Contents
    <3>3. CASE var[w] # None
      <4>1. Body(table'[var[w]]) = Body(table[var[w]])
        BY <1>2, <2>3, <3>1, <3>3 DEF Kept
      <4>2. Listing(table'[var[w]]) = Listing(table[var[w]])
        BY <4>1, BodyChain
      <4> QED  BY <2>3, <3>1, <3>3, <4>2 DEF Contents, Listing
    <3> QED  BY <3>2, <3>3
  <2> QED  BY <2>2, <2>3
<1>10. Arrays' = [Arrays EXCEPT ![v] = Listing(u)]
  <2>1. Arrays' = [w \in Locals |-> Contents(Holding(w))']
    BY DEF Arrays
  <2>2. (\A w \in Locals : Arrays[w] = Contents(Holding(w))) /\ DOMAIN Arrays = Locals
    BY DEF Arrays
  <2> HIDE DEF Arrays, v
  <2>3. [Arrays EXCEPT ![v] = Listing(u)] = [w \in Locals |-> IF w = v THEN Listing(u) ELSE Arrays[w]]
    BY <2>2
  <2> QED  BY <1>9, <2>1, <2>2, <2>3
<1>11. Arrays[v] = Listing(Work) /\ Arrays[v] # None
  <2>1. Holding(v) = job.table
    BY DEF Holding
  <2>2. Contents(job.table) = Listing(Work)
    BY <1>3, WholeTables DEF Work
  <2> QED  BY <1>3, <2>1, <2>2, ListsSomething DEF Arrays
<1>12. Listing(u) \in Abstract!PairsAfter(Arrays, v)
  <2> DEFINE a == Arrays
             s(k, x) == Abstract!Stored(a[v], k, x)
  <2>1. Listing(u) = s(job.key, job.value)
    BY <1>4, <1>11
  <2>2. CASE \E write \in Writes : write[1] = job.key /\ write[2] = job.value
    <3>1. PICK write \in Writes : write[1] = job.key /\ write[2] = job.value
      BY <2>2
    <3>2. Listing(u) \in {s(one[1], one[2]) : one \in Writes}
      BY <2>1, <3>1
    <3> QED  BY <1>11, <3>2 DEF Abstract!PairsAfter
  <2>3. CASE job.key = AppendKey(Work) /\ job.key \in IntKeys /\ job.value \in Pushed
    <3>1. job.key = Abstract!NextKey(a[v])
      BY <1>3, <1>11, <2>3, AppendKeyListed
    <3>2. Listing(u) \in {s(k, x) : k \in {Abstract!NextKey(a[v])} \cap IntKeys, x \in Pushed}
      BY <2>1, <2>3, <3>1
    <3> QED  BY <1>11, <3>2 DEF Abstract!PairsAfter
  <2> QED  BY <1>3, <2>2, <2>3 DEF Order, Asked
<1> HIDE DEF v
<1> QED  BY <1>1, <1>3, <1>7, <1>8, <1>10, <1>12, StatementView

LEMMA InitOrder ==
  Init => Order /\ Abstract!Init
<1> SUFFICES ASSUME Init PROVE Order /\ Abstract!Init
  OBVIOUS
<1>1. /\ table = [t \in Tables |-> Unused] /\ var = [v \in Locals |-> None]
      /\ loop = NoLoop /\ job = NoJob
  BY DEF Init
<1>2. Order
  BY <1>1, UnusedWhole DEF Order, LoopPlaced, Looping, MoveListed, NoJob, Asked, Idle
<1>3. \A v \in Locals : Contents(Holding(v)) = None
  BY <1>1, BetweenCalls DEF Idle, Contents
<1>4. ~Looping /\ loop.pair = None
  BY <1>1 DEF Looping, NoLoop
<1> QED  BY <1>2, <1>3, <1>4 DEF Abstract!Init

LEMMA NextView ==
  ASSUME IInv, Order, [Next]_vars
  PROVE  Order' /\ (Abstract!Next \/ UNCHANGED View)
<1>1. CASE Statement
  BY <1>1, LiteralView, UnsetView, BeginView, CopyView, SetView, AppendView, VisitView, LeaveView
     DEF Statement
<1>2. CASE Runtime
  <2>1. CASE CloneEnd
    BY <2>1, CloneEndMoves, CloneEndKeeps, MovedView
  <2>2. CASE GrowEnd
    BY <2>2, GrowEndMoves, GrowEndKeeps, MovedView
  <2> QED  BY <1>2, <2>1, <2>2, CloneView, MoveEntryView, GrowView, PutView DEF Runtime
<1>3. CASE UNCHANGED vars
  <2>1. UNCHANGED <<table, var, loop, job>>
    BY <1>3 DEF vars
  <2>2. Order'
    BY <2>1 DEF Order, LoopPlaced, Looping, MoveListed, Work, Asked, Idle
  <2>3. UNCHANGED View
    BY <2>1 DEF View, Arrays, Left, Holding, Contents, Looping
  <2> QED  BY <2>2, <2>3
<1> QED  BY <1>1, <1>2, <1>3 DEF Next

LEMMA Ordered ==
  Spec => []Order
<1>1. Init => Order
  BY InitOrder
<1>2. IInv /\ Order /\ [Next]_vars => Order'
  BY NextView
<1> QED  BY Invariant, <1>1, <1>2, PTL DEF Spec

\* The links of every table are one doubly linked list over its entries: the
\* chain visits each once, ends at the tail and reads the same backwards, in
\* every table, also in one that a copy or a growth is still filling
\* (hash_set.rs, hash_insert_owned.rs).
THEOREM ChainsWholeAlways ==
  Spec => []ChainsWhole
<1>1. IInv /\ Order => ChainsWhole
  <2> SUFFICES ASSUME IInv, Order, NEW t \in TablesNow
               PROVE  LET chain == Chain(table[t]) IN
                      /\ Range(chain) = Occupied(table[t])
                      /\ Cardinality(Occupied(table[t])) = table[t].count
                      /\ table[t].tail = (IF chain = << >> THEN NoSlot ELSE Last(chain))
                      /\ \A i \in DOMAIN chain :
                           table[t].slot[chain[i]].prev = (IF i = 1 THEN NoSlot ELSE chain[i - 1])
    BY DEF ChainsWhole
  <2> DEFINE u == table[t]
             c == Chain(u)
             n == u.count
  <2>1. Sound(u) /\ TableOK(u) /\ Threaded(u, c) /\ n \in Nat
    BY WholeTables, TableParts DEF TablesNow, Whole
  <2> HIDE DEF u, c
  <2>2. /\ c \in [1..n -> Occupied(u)] /\ \A s \in Occupied(u) : \E i \in 1..n : c[i] = s
        /\ u.tail = IF n = 0 THEN NoSlot ELSE c[n]
        /\ \A i \in 1..n : u.slot[c[i]].prev = IF i = 1 THEN NoSlot ELSE c[i - 1]
    BY <2>1 DEF Threaded
  <2>3. Range(c) = Occupied(u)
    BY <2>2 DEF Range
  <2>4. Cardinality(Occupied(u)) = n
    BY <2>1 DEF Sound
  <2>5. u.tail = IF c = << >> THEN NoSlot ELSE Last(c)
    <3>1. c \in Seq(Occupied(u))
      BY <2>1, <2>2, SeqDef
    <3>2. Len(c) = n
      BY <2>1, <2>2, <3>1, LenProperties
    <3>3. c = << >> <=> n = 0
      BY <3>1, <3>2, EmptySeq
    <3> QED  BY <2>2, <3>2, <3>3 DEF Last
  <2> QED  BY <2>2, <2>3, <2>4, <2>5 DEF u, c
<1> QED  BY Invariant, Ordered, <1>1, PTL

\* The tables behave as PHP's arrays: each variable has a value of its own, a
\* list of pairs in the order of their first insertion; copies, growth and the
\* moving of entries are unseen; a loop visits what its array held when it
\* began (docs/php/arrays.md).
THEOREM ArraysImplemented ==
  Spec => ArraySpec
<1>1. Init => Abstract!Init
  BY InitOrder
<1>2. IInv /\ Order /\ [Next]_vars => [Abstract!Next]_Abstract!vars
  <2> SUFFICES ASSUME IInv, Order, [Next]_vars PROVE Abstract!Next \/ UNCHANGED Abstract!vars
    OBVIOUS
  <2>1. CASE UNCHANGED View
    BY <2>1 DEF View, Arrays, Left, Abstract!vars
  <2> QED  BY <2>1, NextView
<1> QED  BY Invariant, Ordered, <1>1, <1>2, PTL DEF Spec, ArraySpec, Abstract!Spec
=============================================================================
