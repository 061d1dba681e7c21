----------------------------- MODULE RefCountGC -----------------------------
(***************************************************************************)
(* Ownership of heap values in a compiled program: reference counts, deep  *)
(* release, destructors and the targeted cycle collector, as the compiler  *)
(* emits them for ARM64 and as the lowered statements of a program call    *)
(* them.                                                                   *)
(*                                                                         *)
(* The helpers are recursive assembly routines.  `stack' holds what is     *)
(* left to do of the calls in progress, innermost first; a program         *)
(* statement runs when it is empty, a destructor body when it is the       *)
(* innermost.  Every action but a statement is the next step of the call   *)
(* at the top.  The three counting passes of the collector call no user    *)
(* code and are one step; its sweep, which runs destructors, is not.       *)
(*                                                                         *)
(* A block is its address: the collector sweeps blocks in this order.      *)
(* Which free block an allocation returns is HeapAllocator's business and  *)
(* is left open here.  A slot holds a block or None; strings and scalars   *)
(* are no edges of the graph and are not modelled.                         *)
(***************************************************************************)
EXTENDS Integers, Sequences, FiniteSets

CONSTANTS
  MaxBlock,   \* blocks the heap has room for
  NumSlots,   \* child slots of a block
  Locals,     \* the program's variables
  Layouts,    \* the kinds of value the program builds
  Holds,      \* <<container, content>>: what the program's types let it store
  Idioms,     \* the idioms it uses, of those listed in AllIdioms
  MaxRefs     \* bound: no statement adds a reference to a value with this many

\* An object, an object whose class has __destruct, an indexed array or a
\* hash of heap values, an indexed array of scalars, a boxed Mixed cell.
AllLayouts == {"object", "dtor", "array", "hash", "scalars", "mixed"}

\* "selfread": $v = $v, or $v = $v->f.  "unlink": a store to $v->f that takes
\* out an object that leads back to the object in $v.  "dtorwrite": a
\* destructor changes or allocates properties of its receiver.
AllIdioms == {"selfread", "unlink", "dtorwrite"}

ASSUME GraphAssumption ==
  /\ MaxBlock \in Nat \ {0}
  /\ NumSlots \in Nat \ {0}
  /\ Layouts \subseteq AllLayouts
  /\ Holds \subseteq (Layouts \ {"scalars"}) \X Layouts
  /\ Idioms \subseteq AllIdioms
  /\ MaxRefs \in Nat \ {0}

ASSUME LocalsAssumption == IsFiniteSet(Locals)

None == 0
Blocks == 1..MaxBlock
Slots == 1..NumSlots

VARIABLES
  heap,        \* the header and the slots of every block
  local,       \* the block each variable holds, or None
  stack,       \* what is left to do of the calls in progress
  collecting,  \* _gc_collecting
  suppressed   \* _gc_release_suppressed

vars == <<heap, local, stack, collecting, suppressed>>

\* refs is the low 31 bits of the reference count, dying its bit 31, marked
\* bit 16 of the kind word.
Free == [layout |-> "free", refs |-> 0, dying |-> FALSE, marked |-> FALSE,
         kids |-> [i \in Slots |-> None]]
New(l) == [Free EXCEPT !.layout = l, !.refs = 1]

Init ==
  /\ heap = [b \in Blocks |-> Free]
  /\ local = [v \in Locals |-> None]
  /\ stack = <<>>
  /\ collecting = FALSE
  /\ suppressed = FALSE

-----------------------------------------------------------------------------
(* The calls in progress. *)

Op(do, b, at, x) == [do |-> do, b |-> b, at |-> at, x |-> x]
DecrefOp(b) == Op("decref", b, 0, None)      \* __rt_decref_<kind>(b)
DecrefAnyOp(b) == Op("any", b, 0, None)      \* __rt_decref_any(b)
WalkOp(b, i) == Op("walk", b, i, None)       \* deep release of b, from slot i
BodyOp(b) == Op("body", b, 0, None)          \* __destruct of b is running
SweepOp(b) == Op("sweep", None, b, None)     \* the sweep, from block b
BindOp(v, x) == Op("bind", None, v, x)       \* retain x, store it in $v
SlotOp(c, i, x) == Op("slot", c, i, x)       \* store x in slot i of c

Top == stack[1]
Running(do) == stack # <<>> /\ Top.do = do
Rest == Tail(stack)

Idle == stack = <<>>

-----------------------------------------------------------------------------
(* What the collector sees. *)

Live(h, b) == h[b].refs > 0 \/ h[b].dying

CandidatesAll(h) == {b \in Blocks : Live(h, b)} \* mutant

Candidates(h) == {b \in Blocks : Live(h, b) /\ h[b].layout # "scalars"}

\* Pass 2.  A boxed Mixed cell is never counted as a child.
Incoming(h, b) ==
  IF h[b].layout = "mixed" THEN 0
  ELSE Cardinality({e \in Candidates(h) \X Slots : h[e[1]].kids[e[2]] = b})

RootsPlusOne(h) == {b \in Candidates(h) : h[b].refs > Incoming(h, b) + 1} \* mutant
RootsEqual(h) == {b \in Candidates(h) : h[b].refs >= Incoming(h, b)} \* mutant

\* Pass 3 starts from blocks with more references than incoming edges.
Roots(h) ==
  {b \in Candidates(h) : h[b].dying \/ h[b].refs > Incoming(h, b)}

ClosedUnderKids(h, S) ==
  \A b \in S, i \in Slots :
    LET kid == h[b].kids[i] IN kid # None /\ Live(h, kid) => kid \in S

ReachableIn(h, R) ==
  {b \in Blocks :
     \A S \in SUBSET Blocks : R \subseteq S /\ ClosedUnderKids(h, S) => b \in S}

\* The headers after passes 1 to 3.
Marked(h) ==
  LET reached == ReachableIn(h, Roots(h)) IN
  [b \in Blocks |->
     IF Live(h, b) THEN [h[b] EXCEPT !.marked = b \in reached] ELSE h[b]]

\* Dropping one of several references to b may have cut off a cycle.
MayCutCycle(h, b) ==
  \/ h[b].layout \in {"object", "dtor", "array"}
  \/ h[b].layout \in {"hash", "mixed"} /\ \E i \in Slots : h[b].kids[i] # None

-----------------------------------------------------------------------------
(* Releasing. *)

Retained(h, b) == IF b = None THEN h ELSE [h EXCEPT ![b].refs = @ + 1]

\* Entry of __rt_<kind>_free_deep.  The flag, not a counter, is set by all
\* of them except that of Mixed cells.
FreeDeep(h, b, rest) ==
  LET destructs == h[b].layout = "dtor" /\ ~h[b].dying IN
  /\ heap' = [h EXCEPT ![b].dying = @ \/ destructs]
  /\ stack' = (IF destructs THEN <<BodyOp(b)>> ELSE <<>>) \o <<WalkOp(b, 1)>> \o rest
  /\ suppressed' = (suppressed \/ h[b].layout # "mixed")
  /\ UNCHANGED <<local, collecting>>

Collects(h, b) == ~suppressed /\ ~collecting /\ MayCutCycle(h, b)

Dropped(b) == [heap EXCEPT ![b].refs = @ - 1]

Decref(b) ==
  LET h == Dropped(b) IN
  \/ /\ ~Live(h, b)
     /\ FreeDeep(h, b, Rest)
  \/ /\ Live(h, b) /\ Collects(h, b)
     /\ heap' = Marked(h)
     /\ stack' = <<SweepOp(1)>> \o Rest
     /\ collecting' = TRUE
     /\ UNCHANGED <<local, suppressed>>
  \/ /\ Live(h, b) /\ ~Collects(h, b)
     /\ heap' = h
     /\ stack' = Rest
     /\ UNCHANGED <<local, collecting, suppressed>>

DecrefTyped == Running("decref") /\ Decref(Top.b)

\* A freed block has kind 0, or lies past the trimmed end of the heap; and
\* during a sweep the unmarked blocks are left to the sweep.
Ignored(b) ==
  heap[b].layout = "free" \/ (collecting /\ ~heap[b].marked)

DecrefAny ==
  /\ Running("any")
  /\ \/ ~Ignored(Top.b) /\ Decref(Top.b)
     \/ /\ Ignored(Top.b)
        /\ stack' = Rest
        /\ UNCHANGED <<heap, local, collecting, suppressed>>

\* mutant: the index does not survive the call
ReleaseKidAgain ==
  /\ Running("walk") /\ Top.at \in Slots
  /\ LET kid == heap[Top.b].kids[Top.at] IN
     stack' = IF kid = None THEN <<WalkOp(Top.b, Top.at + 1)>> \o Rest
              ELSE <<DecrefAnyOp(kid)>> \o stack
  /\ UNCHANGED <<heap, local, collecting, suppressed>>

ReleaseKid ==
  /\ Running("walk") /\ Top.at \in Slots
  /\ LET kid == heap[Top.b].kids[Top.at] IN
     stack' = (IF kid = None THEN <<>> ELSE <<DecrefAnyOp(kid)>>)
                \o <<WalkOp(Top.b, Top.at + 1)>> \o Rest
  /\ UNCHANGED <<heap, local, collecting, suppressed>>

FreeBlock ==
  /\ Running("walk") /\ Top.at \notin Slots
  /\ heap' = [heap EXCEPT ![Top.b] = Free]
  /\ suppressed' = (suppressed /\ heap[Top.b].layout = "mixed")
  /\ stack' = Rest
  /\ UNCHANGED <<local, collecting>>

Victims(at) == {b \in Candidates(heap) : b >= at /\ ~heap[b].marked}

\* Pass 4.  It reads headers as they are when it comes to them.
SweepNext ==
  /\ Running("sweep")
  /\ \E b \in Victims(Top.at) :
       /\ \A c \in Victims(Top.at) : b <= c
       /\ FreeDeep(heap, b, <<SweepOp(b + 1)>> \o Rest)

\* mutant: _gc_collecting is not cleared
SweepEndKeepsFlag ==
  /\ Running("sweep") /\ Victims(Top.at) = {}
  /\ stack' = Rest
  /\ UNCHANGED <<heap, local, collecting, suppressed>>

SweepEnd ==
  /\ Running("sweep") /\ Victims(Top.at) = {}
  /\ collecting' = FALSE
  /\ stack' = Rest
  /\ UNCHANGED <<heap, local, suppressed>>

-----------------------------------------------------------------------------
(* Statements.  Both kinds of store release the value they replace before   *)
(* the new one is in place; a variable's store retains the new value after  *)
(* this release, a slot's store before it.  A value just made is a          *)
(* temporary that owns a reference: the store retains it once more and the  *)
(* temporary is released last.                                              *)

Releasing(b) == IF b = None THEN <<>> ELSE <<DecrefOp(b)>>

Bind ==
  /\ Running("bind")
  /\ heap' = Retained(heap, Top.x)
  /\ local' = [local EXCEPT ![Top.at] = Top.x]
  /\ stack' = Rest
  /\ UNCHANGED <<collecting, suppressed>>

SetSlot ==
  /\ Running("slot")
  /\ heap' = [heap EXCEPT ![Top.b].kids[Top.at] = Top.x]
  /\ stack' = Rest
  /\ UNCHANGED <<local, collecting, suppressed>>

Unused(b) == heap[b].layout = "free"

\* The values that $w or $w->i reads for some w of W.
Read(W) ==
  {None} \cup {local[w] : w \in W}
    \cup {heap[local[w]].kids[i] : w \in {w \in W : local[w] # None}, i \in Slots}

Countable(x) == x # None => heap[x].refs < MaxRefs

StoreLocal(v, x, h, temporary) ==
  /\ heap' = h
  /\ stack' = Releasing(local[v]) \o <<BindOp(v, x)>> \o Releasing(temporary)
  /\ UNCHANGED <<local, collecting, suppressed>>

\* $v = null, $v = $w, $v = $w->i, unset($v) and the end of $v's scope.
Assign(v) ==
  /\ Idle
  /\ \E x \in Read(IF "selfread" \in Idioms THEN Locals ELSE Locals \ {v}) :
       Countable(x) /\ StoreLocal(v, x, heap, None)

\* $v = new C, or an array literal.
AssignNew(v) ==
  /\ Idle
  /\ \E b \in Blocks, l \in Layouts \ {"mixed"} :
       Unused(b) /\ StoreLocal(v, b, [heap EXCEPT ![b] = New(l)], b)

\* A slot's old value goes through __rt_decref_any in arrays and hashes, and
\* through the routine of the property's type in objects.
StoreSlot(c, i, x, h, temporary) ==
  LET old == h[c].kids[i]
      releasing == IF old # None /\ h[c].layout \in {"array", "hash"}
                     THEN <<DecrefAnyOp(old)>> ELSE Releasing(old) IN
  /\ heap' = h
  /\ stack' = releasing \o <<SlotOp(c, i, x)>> \o Releasing(temporary) \o stack
  /\ UNCHANGED <<collecting, suppressed>>

MayHold(c, l) == <<heap[c].layout, l>> \in Holds
MayStore(c, x) == x # None => MayHold(c, heap[x].layout) /\ Countable(x)

NeverShared(c) == FALSE \* mutant

\* Arrays and hashes are values: a write needs a sole owner.
Shared(c) == heap[c].layout \in {"array", "hash"} /\ heap[c].refs > 1

\* Where statements store: $v[i], $v->i and $v->j->i, never in a box.
Targets(v) ==
  {c \in Read({v}) \ {None} :
     \/ heap[c].layout \in {"object", "dtor"}
     \/ c = local[v] /\ heap[c].layout # "mixed"}

LeadsBack(c, i) ==
  LET old == heap[c].kids[i] IN old # None /\ c \in ReachableIn(heap, {old})

MayChange(c, i) == ~Shared(c) /\ (LeadsBack(c, i) => "unlink" \in Idioms)

\* $v->i = x and $v[i] = x.
Write(v, i) ==
  /\ Idle
  /\ \E c \in Targets(v), x \in Read(Locals) :
       /\ MayStore(c, x) /\ MayChange(c, i)
       /\ StoreSlot(c, i, x, Retained(heap, x), None)
  /\ UNCHANGED local

ClonedBare(c, d) == \* mutant: the contents are not retained
  [heap EXCEPT ![d] = [heap[c] EXCEPT !.refs = 1], ![c].refs = @ - 1]

\* __rt_array_clone_shallow and __rt_hash_clone_shallow of c into d; the
\* variable that writes gives up its reference to c.
Cloned(c, d) ==
  [b \in Blocks |->
     IF b = d THEN [heap[c] EXCEPT !.refs = 1, !.marked = FALSE]
     ELSE [heap[b] EXCEPT !.refs =
             @ + Cardinality({i \in Slots : heap[c].kids[i] = b})
               - (IF b = c THEN 1 ELSE 0)]]

WriteShared(v, i) ==
  /\ Idle
  /\ local[v] # None /\ Shared(local[v])
  /\ \E x \in Read(Locals), d \in Blocks :
       /\ MayStore(local[v], x) /\ Unused(d)
       /\ StoreSlot(d, i, x, Retained(Cloned(local[v], d), x), None)
       /\ local' = [local EXCEPT ![v] = d]

StoreNewUnretained(c, i) == \* mutant
  \E b \in Blocks, l \in Layouts \ {"mixed"} :
    /\ MayHold(c, l) /\ Unused(b)
    /\ StoreSlot(c, i, b, [heap EXCEPT ![b] = New(l)], b)

StoreNew(c, i) ==
  \E b \in Blocks, l \in Layouts \ {"mixed"} :
    /\ MayHold(c, l) /\ Unused(b)
    /\ StoreSlot(c, i, b, Retained([heap EXCEPT ![b] = New(l)], b), b)

\* $v->i = new C.
WriteNew(v, i) ==
  /\ Idle
  /\ \E c \in Targets(v) : MayChange(c, i) /\ StoreNew(c, i)
  /\ UNCHANGED local

\* A heap value stored in a property typed mixed is boxed; the box is owned
\* by the slot from the start.
WriteBoxed(v, i) ==
  /\ Idle
  /\ \E c \in Targets(v), x \in Read(Locals) \ {None}, m \in Blocks :
       /\ MayHold(c, "mixed") /\ <<"mixed", heap[x].layout>> \in Holds
       /\ MayChange(c, i) /\ Countable(x) /\ Unused(m)
       /\ StoreSlot(c, i, m,
            [Retained(heap, x) EXCEPT ![m] = [New("mixed") EXCEPT !.kids[1] = x]], None)
  /\ UNCHANGED local

BodyReturn ==
  /\ Running("body")
  /\ stack' = Rest
  /\ UNCHANGED <<heap, local, collecting, suppressed>>

\* mutant: the stored value is not retained
BodyWriteUnretained(i) ==
  /\ Running("body") /\ "dtorwrite" \in Idioms
  /\ \E x \in {None} \cup {heap[Top.b].kids[j] : j \in Slots} :
       MayStore(Top.b, x) /\ StoreSlot(Top.b, i, x, heap, None)
  /\ UNCHANGED local

\* $this->i = null or $this->i = $this->j in a destructor.
BodyWrite(i) ==
  /\ Running("body") /\ "dtorwrite" \in Idioms
  /\ \E x \in {None} \cup {heap[Top.b].kids[j] : j \in Slots} :
       /\ MayStore(Top.b, x)
       /\ StoreSlot(Top.b, i, x, Retained(heap, x), None)
  /\ UNCHANGED local

BodyWriteNew(i) ==
  /\ Running("body") /\ "dtorwrite" \in Idioms
  /\ StoreNew(Top.b, i)
  /\ UNCHANGED local

-----------------------------------------------------------------------------

Runtime ==
  \/ DecrefTyped \/ DecrefAny \/ ReleaseKid \/ FreeBlock
  \/ SweepNext \/ SweepEnd \/ Bind \/ SetSlot \/ BodyReturn

Statement ==
  \/ \E v \in Locals :
       \/ Assign(v) \/ AssignNew(v)
       \/ \E i \in Slots :
            Write(v, i) \/ WriteShared(v, i) \/ WriteNew(v, i) \/ WriteBoxed(v, i)
  \/ \E i \in Slots : BodyWrite(i) \/ BodyWriteNew(i)

Next == Runtime \/ Statement

Spec == Init /\ [][Next]_vars

\* A call in progress goes on: the program has one thread of control.
FairSpec == Spec /\ WF_vars(Runtime)

-----------------------------------------------------------------------------
(* What the program sees: a store under way has happened. *)

Pending(do, b, at) ==
  {k \in DOMAIN stack : stack[k].do = do /\ stack[k].b = b /\ stack[k].at = at}

SeenVar(v) ==
  IF Pending("bind", None, v) = {} THEN local[v]
  ELSE stack[CHOOSE k \in Pending("bind", None, v) : TRUE].x

SeenSlot(c, i) ==
  IF Pending("slot", c, i) = {} THEN heap[c].kids[i]
  ELSE stack[CHOOSE k \in Pending("slot", c, i) : TRUE].x

Allocated == {b \in Blocks : heap[b].layout # "free"}

Store == INSTANCE AbstractStore WITH
  values <- Allocated,
  objects <- {b \in Allocated : heap[b].layout \in {"object", "dtor"}},
  slot <- [c \in Blocks |-> [i \in Slots |-> SeenSlot(c, i)]],
  var <- [v \in Locals |-> SeenVar(v)]

-----------------------------------------------------------------------------
(* Properties. *)

HeaderType ==
  [layout : AllLayouts \cup {"free"}, refs : Nat, dying : BOOLEAN,
   marked : BOOLEAN, kids : [Slots -> Blocks \cup {None}]]

\* Every variable has its type; a 32-bit count taken below zero has not.
TypeOK ==
  /\ heap \in [Blocks -> HeaderType]
  /\ local \in [Locals -> Blocks \cup {None}]
  /\ collecting \in BOOLEAN /\ suppressed \in BOOLEAN
  /\ \A k \in DOMAIN stack :
       /\ stack[k].do \in {"decref", "any", "walk", "body", "sweep", "bind", "slot"}
       /\ stack[k].b \in Blocks \cup {None} /\ stack[k].x \in Blocks \cup {None}

BeingFreed == {stack[k].b : k \in {k \in DOMAIN stack : stack[k].do = "walk"}}

\* No value the program can reach is freed or on its way there
\* (__rt_*_free_deep is entered only for values no one holds).
ReachableLive ==
  \A b \in Store!Reachable : b \in Allocated \ BeingFreed /\ heap[b].refs > 0

\* __rt_incref, a store and a typed release only ever meet live storage, and
\* a block is released once (the assertions of __rt_heap_debug_check_live).
PendingValid ==
  \A k \in DOMAIN stack :
    LET op == stack[k] IN
    /\ op.do \in {"decref", "walk", "body", "slot"} => op.b \in Allocated
    /\ op.do = "any" => op.b \in Allocated \/ collecting
    /\ op.do \in {"bind", "slot"} /\ op.x # None => Live(heap, op.x)
    /\ op.do = "walk" =>
         \A j \in DOMAIN stack : stack[j].do = "walk" /\ stack[j].b = op.b => j = k

\* Slots that the release of their block has passed, or whose new value is
\* on its way, own nothing.
OwningSlots ==
  {e \in Allocated \X Slots :
     /\ Pending("slot", e[1], e[2]) = {}
     /\ \A k \in DOMAIN stack :
          stack[k].do = "walk" /\ stack[k].b = e[1] => stack[k].at <= e[2]}

Owners(b) ==
  Cardinality({v \in Locals : local[v] = b /\ Pending("bind", None, v) = {}})
  + Cardinality({e \in OwningSlots : heap[e[1]].kids[e[2]] = b})
  + Cardinality({k \in DOMAIN stack :
       \/ stack[k].do \in {"decref", "any"} /\ stack[k].b = b
       \/ stack[k].do = "slot" /\ stack[k].x = b})

\* A count is the number of owners: variables, slots and pending releases.
\* During a sweep the blocks left to it are not counted down, and an array of
\* scalars that a collected cycle held keeps the references of the cycle.
Counted ==
  \A b \in Allocated :
    \/ collecting /\ ~heap[b].marked
    \/ heap[b].refs = Owners(b)
    \/ heap[b].layout = "scalars" /\ heap[b].refs > Owners(b)

\* Blocks some owner outside the graph keeps: a variable, a call in progress,
\* a destructor's receiver, a block already given up but not yet walked.
HeldOutside ==
  {local[v] : v \in {v \in Locals : Pending("bind", None, v) = {}}}
    \cup {stack[k].b : k \in {k \in DOMAIN stack : stack[k].do \in {"decref", "any"}}}
    \cup {stack[k].x : k \in {k \in DOMAIN stack : stack[k].do = "slot"}}
    \cup {b \in Blocks : heap[b].dying}
    \cup {heap[e[1]].kids[e[2]] :
            e \in {e \in OwningSlots : ~Live(heap, e[1])}}

\* When the sweep starts, what the counting passes marked is exactly what is
\* reachable from outside: nothing reachable is swept, no cycle is missed.
CollectorExact ==
  Running("sweep") /\ Top.at = 1 =>
    \A b \in Candidates(heap) :
      heap[b].marked <=> b \in ReachableIn(heap, HeldOutside \ {None})

\* Between statements both flags are down and every block has an owner: no
\* count is zero and no destructor is half done.
AtRest ==
  Idle => /\ ~collecting /\ ~suppressed
          /\ \A b \in Allocated : heap[b].refs > 0 /\ ~heap[b].dying

\* While a destructor runs, the values in its receiver's slots are intact.
DestructorSeesProperties ==
  Running("body") =>
    \A i \in Slots :
      LET kid == heap[Top.b].kids[i] IN kid # None => Live(heap, kid)

\* Values change and disappear only as the program's statements say.
StoreSpec == Store!Spec

\* Every statement ends, the collections it starts included.
Terminates == (stack # <<>>) ~> Idle
=============================================================================
