------------------------------ MODULE HashTable ------------------------------
(***************************************************************************)
(* Associative arrays of a compiled program (arrays/hash_*.rs in           *)
(* src/src/codegen/runtime): an open-addressing table with linear probing, *)
(* whose entries are also linked in the order of their insertion, shared   *)
(* by the variables that hold it until one of them is written.             *)
(*                                                                         *)
(* A write is one call of __rt_hash_set; `job' is how far it has got:      *)
(* making the table unique, checking the room in it, moving the entries    *)
(* into a copy or into a larger table, storing the pair.  A foreach loop   *)
(* keeps the address of a table and a cursor; its body may be any          *)
(* statement.  No statement of the language takes a key out of a table, so *)
(* the tombstones that the probes step over never occur.                   *)
(*                                                                         *)
(* Who owns the values is the business of RefCountGC.                      *)
(***************************************************************************)
EXTENDS Integers, FiniteSets, Sequences, SequencesExt

CONSTANTS
  Names,        \* string keys that do not read as integers
  IntKeys,      \* the others
  Hash,         \* __rt_hash_key_hash
  Writes,       \* the key/value pairs the program stores under a key
  Pushed,       \* the values it appends
  MinCapacity,  \* of a table a literal makes; 16 in the code
  Tables,       \* the blocks tables can be in
  Locals,       \* the program's variables
  None

Keys == Names \cup IntKeys
Values == {write[2] : write \in Writes} \cup Pushed

\* What a slot holds: a pair and the slots of its neighbours in the chain.
Entries == [key : Keys, value : Values, prev : Int, next : Int]

ASSUME HashAssumption == Hash \in [Keys -> Nat]
ASSUME IntKeysAssumption == IntKeys \subseteq Int
ASSUME WritesAssumption == \A write \in Writes : write[1] \in Keys

ASSUME LocalsAssumption == IsFiniteSet(Locals)
ASSUME NoneAssumption == None \notin Tables \cup Locals \cup Entries
ASSUME NoneListAssumption == None \notin Seq(Keys \X Values)

\* Below 4, three quarters of the capacity round up to all of it.
ASSUME CapacityAssumption == MinCapacity \in Nat /\ MinCapacity >= 4

NoSlot == -1

\* The cursors of __rt_hash_iter_next that are no slot number plus one.
AtHead == 0
Done == -1
PastTail == -2

VARIABLES
  table,   \* what is in each block; refs is 0 in one that holds no table
  var,     \* the block each variable holds, or None
  loop,    \* the block, the cursor and the last pair of the running foreach
  job      \* the call of __rt_hash_set in progress

vars == <<table, var, loop, job>>

NoLoop == [table |-> None, cursor |-> AtHead, pair |-> None]
NoJob == [do |-> "idle", var |-> None, table |-> None, into |-> None,
          cursor |-> AtHead, key |-> None, value |-> None]

-----------------------------------------------------------------------------
(* One table. *)

\* __rt_hash_new.  A vacant slot is None.
Empty(capacity) ==
  [cap |-> capacity, count |-> 0, head |-> NoSlot, tail |-> NoSlot, refs |-> 1,
   slot |-> [s \in 0..(capacity - 1) |-> None]]

\* A block that is free.
Unused == [Empty(0) EXCEPT !.refs = 0]

Init ==
  /\ table = [t \in Tables |-> Unused]
  /\ var = [v \in Locals |-> None]
  /\ loop = NoLoop
  /\ job = NoJob

\* The i-th slot a probe for k looks at, and whether it ends there.
Probe(t, k, i) == (Hash[k] + i) % t.cap

EndsWhenVacant(t, k, i) == t.slot[Probe(t, k, i)] = None   \* mutant

EndsProbe(t, k, i) ==
  LET entry == t.slot[Probe(t, k, i)] IN entry = None \/ entry.key = k

\* Where the probe for k ends: one slot, or none after a full round.
ProbeEnd(t, k) ==
  {Probe(t, k, i) : i \in {i \in DOMAIN t.slot :
     EndsProbe(t, k, i) /\ \A j \in 0..(i - 1) : ~EndsProbe(t, k, j)}}

\* The pair takes the vacant slot s and becomes the tail of the chain.
Link(t, s, k, x) ==
  [t EXCEPT
     !.slot = [q \in DOMAIN @ |->
                 IF q = s THEN [key |-> k, value |-> x, prev |-> t.tail, next |-> NoSlot]
                 ELSE IF q = t.tail THEN [@[q] EXCEPT !.next = s] ELSE @[q]],
     !.head = IF @ = NoSlot THEN s ELSE @,
     !.tail = s,
     !.count = @ + 1]

\* The store of __rt_hash_set and __rt_hash_insert_owned; a probe that finds
\* no slot stores nothing.
Insert(t, k, x) ==
  IF ProbeEnd(t, k) = {} THEN t
  ELSE LET s == CHOOSE s \in ProbeEnd(t, k) : TRUE IN
       IF t.slot[s] = None THEN Link(t, s, k, x) ELSE [t EXCEPT !.slot[s].value = x]

\* __rt_hash_get: the slot of k, if it is found.
Found(t, k) == {s \in ProbeEnd(t, k) : t.slot[s] # None}

\* __rt_hash_iter_next.
Over(t, cursor) == cursor \in {Done, PastTail} \/ (cursor = AtHead /\ t.head = NoSlot)
EntryAt(t, cursor) == t.slot[IF cursor = AtHead THEN t.head ELSE cursor - 1]
After(t, cursor) ==
  LET next == EntryAt(t, cursor).next IN IF next = NoSlot THEN PastTail ELSE next + 1

CrowdedLate(t) == t.count = t.cap   \* mutant

\* The growth test: three quarters.
Crowded(t) == t.count * 4 >= t.cap * 3

CountAsKey(t) == t.count   \* mutant

\* The key of $v[] = x.
AppendKey(t) ==
  LET ints == {t.slot[s].key : s \in {s \in DOMAIN t.slot : t.slot[s] # None}} \ Names
  IN  IF ints = {} THEN 0 ELSE Max(ints) + 1

-----------------------------------------------------------------------------
(* Statements. *)

Allocated(t) == table[t].refs > 0
Idle == job = NoJob

\* A variable gives up its reference.
Released(tables, t) ==
  IF t = None THEN tables
  ELSE IF tables[t].refs = 1 THEN [tables EXCEPT ![t] = Unused]
  ELSE [tables EXCEPT ![t].refs = @ - 1]

Retained(tables, t) == [tables EXCEPT ![t].refs = @ + 1]

\* The loop holds no reference to its table.  The programs modelled leave the
\* table of a running loop to another variable before they write to it or
\* drop it.
Spared(t) == t # None /\ loop.table = t => table[t].refs > 1

\* $v = [];
Literal(v) ==
  /\ Idle /\ Spared(var[v])
  /\ \E t \in Tables :
       /\ ~Allocated(t)
       /\ table' = [Released(table, var[v]) EXCEPT ![t] = Empty(MinCapacity)]
       /\ var' = [var EXCEPT ![v] = t]
  /\ UNCHANGED <<loop, job>>

\* $v = $w;
Copy(v, w) ==
  /\ Idle /\ v # w /\ var[w] # None /\ Spared(var[v])
  /\ table' = Retained(Released(table, var[v]), var[w])
  /\ var' = [var EXCEPT ![v] = var[w]]
  /\ UNCHANGED <<loop, job>>

\* unset($v);
Unset(v) ==
  /\ Idle /\ Spared(var[v])
  /\ table' = Released(table, var[v])
  /\ var' = [var EXCEPT ![v] = None]
  /\ UNCHANGED <<loop, job>>

SharedNever(t) == FALSE   \* mutant
Shared(t) == t.refs > 1

\* __rt_hash_set begins; __rt_hash_ensure_unique keeps a table with one owner.
Call(v, k, x) ==
  /\ Idle /\ var[v] # None /\ Spared(var[v])
  /\ job' = [NoJob EXCEPT !.do = IF Shared(table[var[v]]) THEN "share" ELSE "room",
                          !.var = v, !.table = var[v], !.key = k, !.value = x]
  /\ UNCHANGED <<table, var, loop>>

\* $v[k] = x;
Set(v, k, x) == Call(v, k, x)

\* $v[] = x;
AppendTo(v, x) ==
  /\ Idle /\ var[v] # None
  /\ AppendKey(table[var[v]]) \in IntKeys
  /\ Call(v, AppendKey(table[var[v]]), x)

-----------------------------------------------------------------------------
(* __rt_hash_set. *)

Work == table[job.table]

\* An empty table the entries of the present one are going to move to.
MoveTo(capacity, step) ==
  \E t \in Tables :
    /\ ~Allocated(t)
    /\ table' = [table EXCEPT ![t] = Empty(capacity)]
    /\ job' = [job EXCEPT !.do = step, !.into = t, !.cursor = AtHead]
    /\ UNCHANGED <<var, loop>>

Clone == job.do = "share" /\ MoveTo(Work.cap, "clone")

\* One entry, in insertion order, of __rt_hash_clone_shallow or __rt_hash_grow.
MoveEntry ==
  /\ job.do \in {"clone", "grow"} /\ ~Over(Work, job.cursor)
  /\ LET entry == EntryAt(Work, job.cursor)
     IN  table' = [table EXCEPT ![job.into] = Insert(@, entry.key, entry.value)]
  /\ job' = [job EXCEPT !.cursor = After(Work, job.cursor)]
  /\ UNCHANGED <<var, loop>>

CloneEndUncounted ==   \* mutant
  /\ job.do = "clone" /\ Over(Work, job.cursor)
  /\ UNCHANGED table
  /\ job' = [job EXCEPT !.do = "room", !.table = job.into, !.into = None]
  /\ UNCHANGED <<var, loop>>

\* The writer's reference moves from the shared table to its copy.
CloneEnd ==
  /\ job.do = "clone" /\ Over(Work, job.cursor)
  /\ table' = [table EXCEPT ![job.table].refs = @ - 1]
  /\ job' = [job EXCEPT !.do = "room", !.table = job.into, !.into = None]
  /\ UNCHANGED <<var, loop>>

Grow == job.do = "room" /\ Crowded(Work) /\ MoveTo(2 * Work.cap, "grow")

\* The entries have moved; the old table is freed.
GrowEnd ==
  /\ job.do = "grow" /\ Over(Work, job.cursor)
  /\ table' = [table EXCEPT ![job.table] = Unused]
  /\ job' = [job EXCEPT !.do = "put", !.table = job.into, !.into = None]
  /\ UNCHANGED <<var, loop>>

\* The pair is stored, and the caller stores the address of the table in the
\* variable.
Put ==
  /\ job.do = "put" \/ (job.do = "room" /\ ~Crowded(Work))
  /\ table' = [table EXCEPT ![job.table] = Insert(@, job.key, job.value)]
  /\ var' = [var EXCEPT ![job.var] = job.table]
  /\ job' = NoJob
  /\ UNCHANGED loop

-----------------------------------------------------------------------------
(* foreach ($v as $k => $x), by value. *)

Looping == loop # NoLoop

Begin(v) ==
  /\ Idle /\ ~Looping /\ var[v] # None
  /\ loop' = [NoLoop EXCEPT !.table = var[v]]
  /\ UNCHANGED <<table, var, job>>

Visit ==
  /\ Idle /\ Looping /\ ~Over(table[loop.table], loop.cursor)
  /\ LET entry == EntryAt(table[loop.table], loop.cursor)
     IN  loop' = [loop EXCEPT !.cursor = After(table[loop.table], loop.cursor),
                              !.pair = <<entry.key, entry.value>>]
  /\ UNCHANGED <<table, var, job>>

\* The loop runs out, or its body breaks it off.
Leave == Idle /\ Looping /\ loop' = NoLoop /\ UNCHANGED <<table, var, job>>

-----------------------------------------------------------------------------
Statement ==
  \/ \E v \in Locals : Literal(v) \/ Unset(v) \/ Begin(v)
  \/ \E v, w \in Locals : Copy(v, w)
  \/ \E v \in Locals, write \in Writes : Set(v, write[1], write[2])
  \/ \E v \in Locals, x \in Pushed : AppendTo(v, x)
  \/ Visit
  \/ Leave

Runtime == Clone \/ MoveEntry \/ CloneEnd \/ Grow \/ GrowEnd \/ Put

Next == Statement \/ Runtime

Spec == Init /\ [][Next]_vars

-----------------------------------------------------------------------------
(* Properties. *)

Occupied(t) == {s \in DOMAIN t.slot : t.slot[s] # None}
TablesNow == {t \in Tables : Allocated(t)}

TableOK(t) ==
  /\ t \in [cap : Nat, count : Nat, head : Int, tail : Int, refs : Nat \ {0},
            slot : [0..(t.cap - 1) -> Entries \cup {None}]]
  /\ t.cap >= MinCapacity
  /\ {t.head, t.tail} \subseteq Occupied(t) \cup {NoSlot}
  /\ \A s \in Occupied(t) : {t.slot[s].prev, t.slot[s].next} \subseteq Occupied(t) \cup {NoSlot}

\* Types, and that slot numbers name occupied slots.
TypeOK ==
  /\ DOMAIN table = Tables
  /\ \A t \in Tables : table[t] = Unused \/ TableOK(table[t])
  /\ var \in [Locals -> Tables \cup {None}]
  /\ loop \in [table : Tables \cup {None}, cursor : Int, pair : (Keys \X Values) \cup {None}]
  /\ job \in [do : {"idle", "share", "clone", "room", "grow", "put"},
             var : Locals \cup {None}, table : Tables \cup {None}, into : Tables \cup {None},
             cursor : Int, key : Keys \cup {None}, value : Values \cup {None}]

\* The slots of a table in the order of the chain.  A broken chain ends in
\* NoSlot.
Chain(t) ==
  LET at[i \in 1..t.count] ==
        IF i = 1 THEN t.head
        ELSE LET s == at[i - 1] IN IF s \in Occupied(t) THEN t.slot[s].next ELSE NoSlot
  IN  [i \in 1..t.count |-> at[i]]

\* The chain visits each occupied slot once, ends at the tail, and reads the
\* same backwards: what hash_set.rs and hash_insert_owned.rs link one entry at
\* a time is one doubly linked list, in every table, also in one that a clone
\* or a growth is still filling.
ChainsWhole ==
  \A t \in TablesNow :
    LET chain == Chain(table[t]) IN
    /\ Range(chain) = Occupied(table[t])
    /\ Cardinality(Occupied(table[t])) = table[t].count
    /\ table[t].tail = (IF chain = << >> THEN NoSlot ELSE Last(chain))
    /\ \A i \in DOMAIN chain :
         table[t].slot[chain[i]].prev = (IF i = 1 THEN NoSlot ELSE chain[i - 1])

\* A probe for a stored key finds its slot, whatever was stored, moved or grown
\* since, and no key has two slots (hash_get.rs).
ProbesFind ==
  \A t \in TablesNow : \A s \in Occupied(table[t]) :
    Found(table[t], table[t].slot[s].key) = {s}

\* A table always has a vacant slot, so that no insert is lost and the probe
\* for an absent key ends (hash_set.rs: "table is full (shouldn't happen)").
RoomLeft == \A t \in TablesNow : Occupied(table[t]) # DOMAIN table[t].slot

\* The table variable v is going to hold when the call in progress returns.
Holding(v) == IF job.var = v THEN job.table ELSE var[v]

\* A table's reference count is the number of variables that hold it; the
\* table being filled has the reference its writer will take.
OwnersCounted ==
  \A t \in TablesNow :
    table[t].refs = Cardinality({v \in Locals : Holding(v) = t}) + (IF job.into = t THEN 1 ELSE 0)

\* The table a loop walks exists for as long as the loop does, and its cursor
\* names an entry of it: writes to other holders go to copies.
LoopReadsTable ==
  Looping =>
    /\ Allocated(loop.table)
    /\ loop.cursor > 0 => loop.cursor - 1 \in Occupied(table[loop.table])

-----------------------------------------------------------------------------
(* What the program sees. *)

Pairs(t, chain) == [i \in DOMAIN chain |-> <<t.slot[chain[i]].key, t.slot[chain[i]].value>>]

Contents(t) == IF t = None THEN None ELSE Pairs(table[t], Chain(table[t]))

\* The pairs from the cursor on.
Ahead(t, cursor) ==
  LET chain == Chain(t)
      from == IF cursor = AtHead THEN 1
              ELSE IF cursor = PastTail THEN Len(chain) + 1
              ELSE SelectInSeq(chain, LAMBDA s : s = cursor - 1)
  IN  Pairs(t, SubSeq(chain, from, Len(chain)))

Abstract ==
  INSTANCE OrderedArrays WITH
    array <- [v \in Locals |-> Contents(Holding(v))],
    left <- IF Looping THEN Ahead(table[loop.table], loop.cursor) ELSE None,
    visited <- loop.pair

\* The tables behave as PHP's arrays: values, in insertion order, with the
\* moving of entries unseen, and loops visit what their array held.
ArraySpec == Abstract!Spec
=============================================================================
