--------------------------- MODULE RefCountGC_proofs ---------------------------
(***************************************************************************)
(* What reference counting and the cycle collector promise, proved of any  *)
(* number of blocks, slots and variables, for every choice of what may     *)
(* hold what, and in every order of releases, sweeps and destructors; and  *)
(* that the program sees of all this what AbstractStore says.              *)
(*                                                                         *)
(* The operators below take the heap h, the variables l, the calls in      *)
(* progress r and the flag col as parameters, so that the lemmas can speak *)
(* of a heap half way through a step.  In r the calls are numbered from    *)
(* the outermost, so that a call keeps its number while others come and go *)
(* above it.                                                               *)
(***************************************************************************)
EXTENDS RefCountGC, FunctionTheorems, FiniteSetTheorems, SequenceTheorems, TLAPS

\* The calls in progress, outermost first.
Up(s) == [p \in 1..Len(s) |-> s[Len(s) + 1 - p]]

Doing(r, do) == {p \in 1..Len(r) : r[p].do = do}

-----------------------------------------------------------------------------
(* Blocks and their owners. *)

Used(h, b) == h[b].layout # "free"

\* A member of an island of garbage that the sweep has not released yet.
White(h, col, b) == col /\ Live(h, b) /\ h[b].layout # "scalars" /\ ~h[b].marked

Safe(h, col, b) == b \in Blocks /\ Used(h, b) /\ ~White(h, col, b)

Walked(r, b) == \E p \in Doing(r, "walk") : r[p].b = b
Passed(r, c, i) == \E p \in Doing(r, "walk") : r[p].b = c /\ r[p].at > i
Storing(r, c, i) == \E p \in Doing(r, "slot") : r[p].b = c /\ r[p].at = i
Binding(r, v) == \E p \in Doing(r, "bind") : r[p].at = v

Owns(h, r, c, i) == Used(h, c) /\ ~Storing(r, c, i) /\ ~Passed(r, c, i)

\* What a white block holds may have been freed before it, and a destructor
\* may since have made an array of scalars in the place.
Muted(h, col, c, b) ==
  /\ White(h, col, c) /\ h[c].layout # "dtor"
  /\ h[b].layout = "scalars" /\ ~h[b].marked

Edge(h, r, col, c, i, b) == h[c].kids[i] = b /\ Owns(h, r, c, i) /\ ~Muted(h, col, c, b)

\* __rt_decref_any does nothing with blocks that are left to the sweep.
Hits(h, col, op, b) ==
  \/ op.do = "decref" /\ op.b = b
  \/ op.do = "slot" /\ op.x = b
  \/ op.do = "any" /\ op.b = b /\ (col => h[b].marked)

VarsOf(l, r, b) == {v \in Locals : l[v] = b /\ ~Binding(r, v)}
SlotsOf(h, r, col, b) == {e \in Blocks \X Slots : Edge(h, r, col, e[1], e[2], b)}
OpsOf(h, r, col, b) == {p \in 1..Len(r) : Hits(h, col, r[p], b)}

Count(h, l, r, col, b) ==
  Cardinality(VarsOf(l, r, b)) + Cardinality(SlotsOf(h, r, col, b))
    + Cardinality(OpsOf(h, r, col, b))

-----------------------------------------------------------------------------
(* The inductive invariant. *)

Kinds == {"decref", "any", "walk", "body", "sweep", "bind", "slot"}

OpOK(op) ==
  /\ op \in [do : Kinds, b : Blocks \cup {None}, at : Nat \cup Locals, x : Blocks \cup {None}]
  /\ op.do \in {"decref", "any", "walk", "body", "slot"} => op.b \in Blocks
  /\ op.do = "walk" => op.at \in 1..NumSlots + 1
  /\ op.do = "sweep" => op.at \in Nat
  /\ op.do = "slot" => op.at \in Slots
  /\ op.do = "bind" => op.at \in Locals /\ op.b = None
  /\ op.do \in {"walk", "sweep"} => op.x = None
  /\ op.do = "sweep" => op.b = None

Header ==
  [layout : AllLayouts \cup {"free"}, refs : Nat, dying : BOOLEAN,
   marked : BOOLEAN, kids : [Slots -> Blocks \cup {None}]]

TypesOK(h, l, r, col, sup) ==
  /\ h \in [Blocks -> Header]
  /\ l \in [Locals -> Blocks \cup {None}]
  /\ col \in BOOLEAN /\ sup \in BOOLEAN
  /\ r \in Seq([do : Kinds, b : Blocks \cup {None}, at : Nat \cup Locals, x : Blocks \cup {None}])
  /\ \A p \in 1..Len(r) : OpOK(r[p])

HeadersOK(h) ==
  \A b \in Blocks :
    /\ ~Used(h, b) => h[b] = Free
    /\ h[b].layout = "scalars" => \A i \in Slots : h[b].kids[i] = None
    /\ h[b].dying => h[b].layout = "dtor"

\* What b is owed: its owners, and the reference a step has taken to x and not
\* yet given to anyone.
Due(h, l, r, col, x, b) == Count(h, l, r, col, b) + (IF b = x THEN 1 ELSE 0)

\* An array of scalars may have lost the trace of some of its owners.
CountsOK(h, l, r, col, x) ==
  \A b \in Blocks : Safe(h, col, b) =>
    IF h[b].layout = "scalars" THEN h[b].refs >= Due(h, l, r, col, x, b)
    ELSE h[b].refs = Due(h, l, r, col, x, b)

\* Only what is left to the sweep refers to what is left to the sweep.
OwnersOK(h, l, r, col) ==
  /\ \A v \in Locals : l[v] # None /\ ~Binding(r, v) => Safe(h, col, l[v])
  /\ \A p \in Doing(r, "decref") : Safe(h, col, r[p].b)
  /\ \A p \in Doing(r, "any") : col \/ Used(h, r[p].b)
  /\ \A p \in Doing(r, "slot") : r[p].x # None => Safe(h, col, r[p].x)
  /\ \A c \in Blocks, i \in Slots :
       Owns(h, r, c, i) /\ ~White(h, col, c) /\ h[c].kids[i] # None => Safe(h, col, h[c].kids[i])

\* What has no owner is being released, once, and so is what is left to the
\* sweep and has come up.
WalksOK(h, r, col) ==
  /\ \A p \in Doing(r, "walk") :
       /\ Used(h, r[p].b)
       /\ h[r[p].b].refs = 0 \/ White(h, col, r[p].b)
       /\ \A q \in Doing(r, "walk") : r[q].b = r[p].b => q = p
  /\ \A p \in Doing(r, "body") :
       /\ p > 1 /\ r[p - 1] = WalkOp(r[p].b, 1)
       /\ h[r[p].b].dying

ZeroWalked(h, r) ==
  \A b \in Blocks : Used(h, b) /\ (h[b].refs = 0 \/ h[b].dying) => Walked(r, b)

\* One sweep at a time, below the releases it has begun.
SweepsOK(h, r, col) ==
  /\ col <=> Doing(r, "sweep") # {}
  /\ \A p \in Doing(r, "sweep") :
       /\ \A q \in Doing(r, "sweep") : q = p
       /\ \A q \in Doing(r, "walk") : q < p => ~White(h, col, r[q].b)
       /\ \A b \in Blocks : White(h, col, b) =>
            b >= r[p].at \/ \E q \in Doing(r, "walk") : q > p /\ r[q].b = b

\* x is what a variable of W holds, or in a slot of it.
Shows(h, l, w, x) == l[w] = x \/ (l[w] # None /\ \E i \in Slots : h[l[w]].kids[i] = x)

\* x does not lead back to c.
Apart(h, c, x) ==
  x # None => \E S \in SUBSET Blocks :
    /\ c \notin S /\ x \in S
    /\ \A b \in S, i \in Slots :
         h[b].kids[i] # None /\ Used(h, h[b].kids[i]) => h[b].kids[i] \in S
    /\ \A b \in Blocks \ {c} : h[b].layout = "scalars" => b \in S

\* The second half of a statement's store is outermost but for the release of
\* a temporary.
Outermost(r, p) == p = 1 \/ (p = 2 /\ r[1].do = "decref")

BindsOK(h, l, r) ==
  \A p \in Doing(r, "bind") :
    /\ Outermost(r, p)
    /\ r[p].x # None =>
         \/ \E w \in Locals \ {r[p].at} : Shows(h, l, w, r[p].x)
         \/ p = 2 /\ r[1].b = r[p].x

\* The programs spoken of: an object with a destructor holds, if its destructor
\* stores anything, only arrays of scalars.
GuardsHoldScalars == \A k \in Layouts : <<"dtor", k>> \in Holds => k = "scalars"

\* A destructor's store is one to its receiver.
InBody(r, p) == \E q \in Doing(r, "body") : q < p /\ r[q].b = r[p].b

StoresOK(h, l, r) ==
  \A p \in Doing(r, "slot") :
    /\ \A q \in Doing(r, "slot") : r[q].b = r[p].b /\ r[q].at = r[p].at => q = p
    /\ Used(h, r[p].b) /\ (r[p].x # None => h[r[p].b].layout # "scalars")
    /\ \/ /\ Outermost(r, p)
          /\ \E v \in Locals : Shows(h, l, v, r[p].b)
          /\ Apart(h, r[p].b, h[r[p].b].kids[r[p].at])
       \/ InBody(r, p) /\ GuardsHoldScalars

TopsOK(h, r, col) ==
  /\ \A p \in Doing(r, "any") : p = Len(r)
  /\ \A p \in Doing(r, "decref") : p = 1 \/ h[r[p].b].layout = "scalars" \/ (p = Len(r) /\ ~col)

FlagOK(h, r, sup) == sup => \E p \in Doing(r, "walk") : h[r[p].b].layout # "mixed"

\* What a destructor's object holds.
GuardsOK(h, r) ==
  /\ \A c \in Blocks, i \in Slots :
       Owns(h, r, c, i) /\ h[c].layout = "dtor" /\ h[c].kids[i] # None =>
         h[h[c].kids[i]].layout = "scalars"
  /\ \A p \in Doing(r, "slot") :
       h[r[p].b].layout = "dtor" /\ r[p].x # None => h[r[p].x].layout = "scalars"

\* What holds at every step of a step.
Shape(h, l, r, col, sup) ==
  /\ TypesOK(h, l, r, col, sup) /\ HeadersOK(h)
  /\ OwnersOK(h, l, r, col) /\ WalksOK(h, r, col)
  /\ BindsOK(h, l, r) /\ StoresOK(h, l, r)
  /\ TopsOK(h, r, col) /\ FlagOK(h, r, sup)
  /\ GuardsHoldScalars => GuardsOK(h, r)

\* Between the halves of a step: one reference to x is in nobody's hands.
Owing(h, l, r, col, sup, x) ==
  /\ Shape(h, l, r, col, sup)
  /\ x # None => Safe(h, col, x)
  /\ CountsOK(h, l, r, col, x)
  /\ ZeroWalked(h, r) /\ SweepsOK(h, r, col)

K(h, l, r, col, sup) == Owing(h, l, r, col, sup, None)

-----------------------------------------------------------------------------
(* The calls in progress as a sequence. *)

OpRec == [do : Kinds, b : Blocks \cup {None}, at : Nat \cup Locals, x : Blocks \cup {None}]

LEMMA UpFacts ==
    /\ Up(<<>>) = <<>>
    /\ \A s \in Seq(OpRec) : Up(s) \in Seq(OpRec) /\ Len(Up(s)) = Len(s)
    /\ \A s \in Seq(OpRec), o \in OpRec : Up(<<o>> \o s) = Append(Up(s), o) /\ <<o>> \o s \in Seq(OpRec)
    /\ \A s \in Seq(OpRec) : s # <<>> =>
         /\ Tail(s) \in Seq(OpRec) /\ s[1] \in OpRec
         /\ Up(s) = Append(Up(Tail(s)), s[1])
<1>1. Up(<<>>) = <<>>
  BY DEF Up
<1>2. ASSUME NEW s \in Seq(OpRec) PROVE Up(s) \in Seq(OpRec) /\ Len(Up(s)) = Len(s)
  <2>1. \A p \in 1..Len(s) : s[Len(s) + 1 - p] \in OpRec
    OBVIOUS
  <2> HIDE DEF OpRec
  <2>2. Up(s) \in [1..Len(s) -> OpRec] /\ Len(s) \in Nat
    BY <2>1 DEF Up
  <2> QED BY <2>2
<1>3. ASSUME NEW s \in Seq(OpRec), NEW o \in OpRec
      PROVE  Up(<<o>> \o s) = Append(Up(s), o) /\ <<o>> \o s \in Seq(OpRec)
  <2> HIDE DEF OpRec
  <2> DEFINE t == <<o>> \o s
             u == Append(Up(s), o)
  <2>1. /\ t \in Seq(OpRec) /\ Len(t) = Len(s) + 1 /\ Len(s) \in Nat
        /\ \A p \in 1..Len(s) + 1 : t[p] = IF p = 1 THEN o ELSE s[p - 1]
    OBVIOUS
  <2>2. /\ u \in Seq(OpRec) /\ Len(u) = Len(s) + 1
        /\ \A p \in 1..Len(s) + 1 : u[p] = IF p = Len(s) + 1 THEN o ELSE Up(s)[p]
    BY <1>2, AppendProperties
  <2> HIDE DEF t, u
  <2>3. Up(t) \in Seq(OpRec) /\ Len(Up(t)) = Len(s) + 1
    BY <1>2, <2>1
  <2>4. /\ Up(t) = [p \in 1..Len(s) + 1 |-> t[Len(s) + 2 - p]]
        /\ Up(s) = [p \in 1..Len(s) |-> s[Len(s) + 1 - p]]
    BY <2>1 DEF Up
  <2>5. ASSUME NEW p \in 1..Len(s) + 1 PROVE Up(t)[p] = u[p]
    <3>1. Up(t)[p] = t[Len(s) + 2 - p] /\ Len(s) + 2 - p \in 1..Len(s) + 1
      BY <2>1, <2>4
    <3>2. CASE p = Len(s) + 1
      BY <2>1, <2>2, <3>1, <3>2
    <3>3. CASE p # Len(s) + 1
      <4>1. p \in 1..Len(s) /\ Len(s) + 2 - p # 1 /\ Len(s) + 2 - p - 1 = Len(s) + 1 - p
        BY <2>1, <3>3
      <4>2. u[p] = s[Len(s) + 1 - p]
        BY <2>2, <2>4, <3>3, <4>1
      <4>3. t[Len(s) + 2 - p] = s[Len(s) + 2 - p - 1]
        BY <2>1, <3>1, <4>1
      <4> QED BY <3>1, <4>1, <4>2, <4>3
    <3> QED BY <3>2, <3>3
  <2>6. Up(t) = u
    BY <2>2, <2>3, <2>5, SeqEqual
  <2> QED BY <2>1, <2>6 DEF t, u
<1>4. ASSUME NEW s \in Seq(OpRec), s # <<>>
      PROVE  Tail(s) \in Seq(OpRec) /\ s[1] \in OpRec /\ s = <<s[1]>> \o Tail(s)
  <2> HIDE DEF OpRec
  <2>1. /\ s[1] \in OpRec /\ Tail(s) \in Seq(OpRec)
        /\ Len(Tail(s)) = Len(s) - 1 /\ Len(s) \in Nat \ {0}
        /\ \A p \in 1..Len(Tail(s)) : Tail(s)[p] = s[p + 1]
    <3>1. Head(s) = s[1]
      OBVIOUS
    <3> QED BY <1>4, <3>1, HeadTailProperties, EmptySeq
  <2> DEFINE t == <<s[1]>> \o Tail(s)
  <2>2. /\ t \in Seq(OpRec) /\ Len(t) = Len(s)
        /\ \A p \in 1..Len(s) : t[p] = IF p = 1 THEN s[1] ELSE Tail(s)[p - 1]
    BY <2>1
  <2> HIDE DEF t
  <2>3. \A p \in 1..Len(s) : t[p] = s[p]
    BY <2>1, <2>2
  <2>4. t = s
    BY <2>2, <2>3, SeqEqual
  <2> QED BY <2>1, <2>4 DEF t
<1>5. ASSUME NEW s \in Seq(OpRec), s # <<>>
      PROVE  Up(s) = Append(Up(Tail(s)), s[1])
  <2>1. Up(<<s[1]>> \o Tail(s)) = Append(Up(Tail(s)), s[1])
    BY <1>3, <1>4, <1>5
  <2>2. s = <<s[1]>> \o Tail(s)
    BY <1>4, <1>5
  <2> QED BY <2>1, <2>2
<1> QED BY <1>1, <1>2, <1>3, <1>4, <1>5

Push(q, o) == Append(q, o)

LEMMA PushIs ==
    ASSUME NEW q \in Seq(OpRec), NEW o \in OpRec
    PROVE  /\ Push(q, o) \in Seq(OpRec)
           /\ Len(Push(q, o)) = Len(q) + 1 /\ Len(q) \in Nat
           /\ Push(q, o)[Len(q) + 1] = o
           /\ \A p \in 1..Len(q) : Push(q, o)[p] = q[p] /\ q[p] \in OpRec
  BY DEF Push

LEMMA PushMeans ==
    ASSUME NEW q \in Seq(OpRec), NEW o \in OpRec
    PROVE  /\ \A do : \A p : p \in Doing(Push(q, o), do) <=>
                p \in Doing(q, do) \/ (p = Len(q) + 1 /\ o.do = do)
           /\ \A do : do # o.do => Doing(Push(q, o), do) = Doing(q, do)
           /\ \A b : Walked(Push(q, o), b) <=> Walked(q, b) \/ (o.do = "walk" /\ o.b = b)
           /\ \A c, i : Passed(Push(q, o), c, i) <=>
                Passed(q, c, i) \/ (o.do = "walk" /\ o.b = c /\ o.at > i)
           /\ \A c, i : Storing(Push(q, o), c, i) <=>
                Storing(q, c, i) \/ (o.do = "slot" /\ o.b = c /\ o.at = i)
           /\ \A v : Binding(Push(q, o), v) <=> Binding(q, v) \/ (o.do = "bind" /\ o.at = v)
<1> PICK r : r = Push(q, o)
  OBVIOUS
<1>1. /\ Len(r) = Len(q) + 1 /\ Len(q) \in Nat /\ r[Len(q) + 1] = o
      /\ \A p \in 1..Len(q) : r[p] = q[p]
  BY PushIs
<1>2. \A do : \A p : p \in Doing(r, do) <=> p \in Doing(q, do) \/ (p = Len(q) + 1 /\ o.do = do)
  BY <1>1 DEF Doing
<1>3. \A do : \A p \in Doing(q, do) : r[p] = q[p]
  BY <1>1 DEF Doing
<1>8. ASSUME NEW do, do # o.do PROVE Doing(r, do) = Doing(q, do)
  BY <1>1, <1>8 DEF Doing
<1>4. \A b : Walked(r, b) <=> Walked(q, b) \/ (o.do = "walk" /\ o.b = b)
  BY <1>1, <1>2, <1>3 DEF Walked
<1>5. \A c, i : Passed(r, c, i) <=> Passed(q, c, i) \/ (o.do = "walk" /\ o.b = c /\ o.at > i)
  BY <1>1, <1>2, <1>3 DEF Passed
<1>6. \A c, i : Storing(r, c, i) <=> Storing(q, c, i) \/ (o.do = "slot" /\ o.b = c /\ o.at = i)
  BY <1>1, <1>2, <1>3 DEF Storing
<1>7. \A v : Binding(r, v) <=> Binding(q, v) \/ (o.do = "bind" /\ o.at = v)
  BY <1>1, <1>2, <1>3 DEF Binding
<1> QED BY <1>2, <1>4, <1>5, <1>6, <1>7, <1>8

-----------------------------------------------------------------------------
(* Counting owners. *)

LEMMA SetsMove ==
    ASSUME NEW S, NEW T, NEW x, IsFiniteSet(S), IsFiniteSet(T), S \ {x} = T \ {x}
    PROVE  /\ Cardinality(S) \in Nat /\ Cardinality(T) \in Nat
           /\ (x \in S <=> x \in T) => Cardinality(S) = Cardinality(T)
           /\ x \in S /\ x \notin T => Cardinality(S) = Cardinality(T) + 1
           /\ x \in S => Cardinality(S) > 0
<1>1. /\ Cardinality(S) \in Nat /\ Cardinality(T) \in Nat
      /\ Cardinality(S \ {x}) \in Nat /\ IsFiniteSet(S \ {x})
  BY FS_CardinalityType, FS_RemoveElement
<1>2. /\ Cardinality(S \ {x}) = IF x \in S THEN Cardinality(S) - 1 ELSE Cardinality(S)
      /\ Cardinality(T \ {x}) = IF x \in T THEN Cardinality(T) - 1 ELSE Cardinality(T)
  BY FS_RemoveElement
<1>3. Cardinality(S \ {x}) = Cardinality(T \ {x})
  OBVIOUS
<1> QED BY <1>1, <1>2, <1>3

Vn(l, r, b) == Cardinality(VarsOf(l, r, b))
Sn(h, r, col, b) == Cardinality(SlotsOf(h, r, col, b))
On(h, r, col, b) == Cardinality(OpsOf(h, r, col, b))

LEMMA Finite ==
    ASSUME NEW h, NEW l, NEW r \in Seq(OpRec), NEW col, NEW b
    PROVE  /\ IsFiniteSet(VarsOf(l, r, b)) /\ Vn(l, r, b) \in Nat
           /\ IsFiniteSet(SlotsOf(h, r, col, b)) /\ Sn(h, r, col, b) \in Nat
           /\ IsFiniteSet(OpsOf(h, r, col, b)) /\ On(h, r, col, b) \in Nat
           /\ Count(h, l, r, col, b) = Vn(l, r, b) + Sn(h, r, col, b) + On(h, r, col, b)
<1>1. VarsOf(l, r, b) \subseteq Locals
  BY DEF VarsOf
<1>2. SlotsOf(h, r, col, b) \subseteq Blocks \X Slots /\ IsFiniteSet(Blocks \X Slots)
  <2>1. IsFiniteSet(Blocks) /\ IsFiniteSet(Slots)
    BY GraphAssumption, FS_Interval DEF Blocks, Slots
  <2> QED BY <2>1, FS_Product DEF SlotsOf
<1>3. OpsOf(h, r, col, b) \subseteq 1..Len(r) /\ IsFiniteSet(1..Len(r))
  <2>1. Len(r) \in Nat
    OBVIOUS
  <2> QED BY <2>1, FS_Interval DEF OpsOf
<1>4. /\ IsFiniteSet(VarsOf(l, r, b)) /\ IsFiniteSet(SlotsOf(h, r, col, b))
      /\ IsFiniteSet(OpsOf(h, r, col, b))
  BY <1>1, <1>2, <1>3, FS_Subset, LocalsAssumption
<1>5. Vn(l, r, b) \in Nat /\ Sn(h, r, col, b) \in Nat /\ On(h, r, col, b) \in Nat
  BY <1>4, FS_CardinalityType DEF Vn, Sn, On
<1> QED BY <1>4, <1>5 DEF Count, Vn, Sn, On

LEMMA SomeOwner ==
    ASSUME NEW h, NEW l, NEW r \in Seq(OpRec), NEW col, NEW b
    PROVE  /\ Count(h, l, r, col, b) \in Nat
           /\ \A v \in Locals : l[v] = b /\ ~Binding(r, v) => Count(h, l, r, col, b) > 0
           /\ \A c \in Blocks, i \in Slots : Edge(h, r, col, c, i, b) => Count(h, l, r, col, b) > 0
           /\ \A p \in 1..Len(r) : Hits(h, col, r[p], b) => Count(h, l, r, col, b) > 0
<1>1. ASSUME NEW v \in Locals, l[v] = b, ~Binding(r, v) PROVE Vn(l, r, b) > 0
  <2>1. v \in VarsOf(l, r, b)
    BY <1>1 DEF VarsOf
  <2> QED BY <2>1, Finite, SetsMove DEF Vn
<1>2. ASSUME NEW c \in Blocks, NEW i \in Slots, Edge(h, r, col, c, i, b) PROVE Sn(h, r, col, b) > 0
  <2>1. <<c, i>> \in SlotsOf(h, r, col, b)
    BY <1>2 DEF SlotsOf
  <2> QED BY <2>1, Finite, SetsMove DEF Sn
<1>3. ASSUME NEW p \in 1..Len(r), Hits(h, col, r[p], b) PROVE On(h, r, col, b) > 0
  <2>1. p \in OpsOf(h, r, col, b)
    BY <1>3 DEF OpsOf
  <2> QED BY <2>1, Finite, SetsMove DEF On
<1> QED BY <1>1, <1>2, <1>3, Finite

LEMMA OpsPush ==
    ASSUME NEW h, NEW q \in Seq(OpRec), NEW o \in OpRec, NEW col, NEW b
    PROVE  /\ Hits(h, col, o, b) => On(h, Push(q, o), col, b) = On(h, q, col, b) + 1
           /\ ~Hits(h, col, o, b) => On(h, Push(q, o), col, b) = On(h, q, col, b)
<1> DEFINE S == OpsOf(h, Push(q, o), col, b)
           T == OpsOf(h, q, col, b)
           n == Len(q) + 1
<1>1. /\ Push(q, o) \in Seq(OpRec) /\ Len(Push(q, o)) = n /\ Len(q) \in Nat
      /\ Push(q, o)[n] = o /\ \A p \in 1..Len(q) : Push(q, o)[p] = q[p]
  BY PushIs
<1>2. n \notin T /\ (n \in S <=> Hits(h, col, o, b)) /\ S \ {n} = T \ {n}
  BY <1>1 DEF OpsOf
<1>3. IsFiniteSet(S) /\ IsFiniteSet(T)
  BY <1>1, Finite
<1> HIDE DEF S, T, n
<1>4. /\ n \in S => Cardinality(S) = Cardinality(T) + 1
      /\ n \notin S => Cardinality(S) = Cardinality(T)
  BY <1>2, <1>3, SetsMove
<1> QED BY <1>2, <1>4 DEF On, S, T

\* Two situations that differ in at most one slot, as far as b is concerned.
LEMMA SlotsMove ==
    ASSUME NEW g, NEW q \in Seq(OpRec), NEW dol,
           NEW h, NEW r \in Seq(OpRec), NEW col, NEW b,
           NEW d \in Blocks, NEW j \in Slots,
           \A c \in Blocks, i \in Slots :
             (c # d \/ i # j) => (Edge(g, q, dol, c, i, b) <=> Edge(h, r, col, c, i, b))
    PROVE  /\ (Edge(g, q, dol, d, j, b) <=> Edge(h, r, col, d, j, b)) => Sn(g, q, dol, b) = Sn(h, r, col, b)
           /\ Edge(g, q, dol, d, j, b) /\ ~Edge(h, r, col, d, j, b) => Sn(g, q, dol, b) = Sn(h, r, col, b) + 1
           /\ ~Edge(g, q, dol, d, j, b) /\ Edge(h, r, col, d, j, b) => Sn(h, r, col, b) = Sn(g, q, dol, b) + 1
<1> DEFINE S == SlotsOf(g, q, dol, b)
           T == SlotsOf(h, r, col, b)
<1>1. /\ <<d, j>> \in S <=> Edge(g, q, dol, d, j, b)
      /\ <<d, j>> \in T <=> Edge(h, r, col, d, j, b)
  BY DEF SlotsOf
<1>2. ASSUME NEW e \in Blocks \X Slots, e # <<d, j>> PROVE e \in S <=> e \in T
  <2>1. e[1] \in Blocks /\ e[2] \in Slots /\ (e[1] # d \/ e[2] # j)
    BY <1>2
  <2>2. Edge(g, q, dol, e[1], e[2], b) <=> Edge(h, r, col, e[1], e[2], b)
    BY <2>1
  <2> QED BY <2>2 DEF SlotsOf
<1>3. S \ {<<d, j>>} = T \ {<<d, j>>}
  <2>1. S \subseteq Blocks \X Slots /\ T \subseteq Blocks \X Slots
    BY DEF SlotsOf
  <2> HIDE DEF S, T
  <2> QED BY <1>2, <2>1
<1>4. IsFiniteSet(S) /\ IsFiniteSet(T)
  BY Finite
<1>5. /\ (<<d, j>> \in S <=> <<d, j>> \in T) => Cardinality(S) = Cardinality(T)
      /\ <<d, j>> \in S /\ <<d, j>> \notin T => Cardinality(S) = Cardinality(T) + 1
      /\ <<d, j>> \in T /\ <<d, j>> \notin S => Cardinality(T) = Cardinality(S) + 1
  <2> HIDE DEF S, T
  <2> QED BY <1>3, <1>4, SetsMove
<1> QED BY <1>1, <1>5 DEF Sn, S, T

LEMMA SlotsSame ==
    ASSUME NEW g, NEW q \in Seq(OpRec), NEW dol,
           NEW h, NEW r \in Seq(OpRec), NEW col, NEW b,
           \A c \in Blocks, i \in Slots : Edge(g, q, dol, c, i, b) <=> Edge(h, r, col, c, i, b)
    PROVE  Sn(g, q, dol, b) = Sn(h, r, col, b)
<1>1. SlotsOf(g, q, dol, b) = SlotsOf(h, r, col, b)
  <2>1. \A e \in Blocks \X Slots : Edge(g, q, dol, e[1], e[2], b) <=> Edge(h, r, col, e[1], e[2], b)
    OBVIOUS
  <2> QED BY <2>1 DEF SlotsOf
<1> QED BY <1>1 DEF Sn

LEMMA SlotsFewer ==
    ASSUME NEW g, NEW q \in Seq(OpRec), NEW dol,
           NEW h, NEW r \in Seq(OpRec), NEW col, NEW b,
           \A c \in Blocks, i \in Slots : Edge(g, q, dol, c, i, b) => Edge(h, r, col, c, i, b)
    PROVE  Sn(g, q, dol, b) <= Sn(h, r, col, b)
<1>1. SlotsOf(g, q, dol, b) \subseteq SlotsOf(h, r, col, b)
  <2>1. \A e \in Blocks \X Slots : Edge(g, q, dol, e[1], e[2], b) => Edge(h, r, col, e[1], e[2], b)
    OBVIOUS
  <2> QED BY <2>1 DEF SlotsOf
<1> QED BY <1>1, Finite, FS_Subset DEF Sn

LEMMA VarsSame ==
    ASSUME NEW l, NEW q \in Seq(OpRec), NEW r \in Seq(OpRec), NEW b,
           \A v \in Locals : Binding(q, v) <=> Binding(r, v)
    PROVE  Vn(l, q, b) = Vn(l, r, b)
<1>1. VarsOf(l, q, b) = VarsOf(l, r, b)
  BY DEF VarsOf
<1> QED BY <1>1 DEF Vn

\* Two situations that differ in what v holds.
LEMMA VarsMove ==
    ASSUME NEW l, NEW q \in Seq(OpRec), NEW m, NEW r \in Seq(OpRec), NEW b, NEW v \in Locals,
           \A w \in Locals \ {v} : l[w] = m[w] /\ (Binding(q, w) <=> Binding(r, w)),
           ~Binding(q, v)
    PROVE  /\ Binding(r, v) => IF l[v] = b THEN Vn(l, q, b) = Vn(m, r, b) + 1 ELSE Vn(l, q, b) = Vn(m, r, b)
           /\ ~Binding(r, v) =>
                /\ (l[v] = b <=> m[v] = b) => Vn(l, q, b) = Vn(m, r, b)
                /\ l[v] = b /\ m[v] # b => Vn(l, q, b) = Vn(m, r, b) + 1
                /\ l[v] # b /\ m[v] = b => Vn(m, r, b) = Vn(l, q, b) + 1
<1> DEFINE S == VarsOf(l, q, b)
           T == VarsOf(m, r, b)
<1>1. S \ {v} = T \ {v} /\ (v \in S <=> l[v] = b) /\ (v \in T <=> m[v] = b /\ ~Binding(r, v))
  BY DEF VarsOf
<1>2. IsFiniteSet(S) /\ IsFiniteSet(T)
  BY Finite
<1> HIDE DEF S, T
<1>3. /\ (v \in S <=> v \in T) => Cardinality(S) = Cardinality(T)
      /\ v \in S /\ v \notin T => Cardinality(S) = Cardinality(T) + 1
      /\ v \in T /\ v \notin S => Cardinality(T) = Cardinality(S) + 1
  BY <1>1, <1>2, SetsMove
<1> QED BY <1>1, <1>3 DEF Vn, S, T

-----------------------------------------------------------------------------
(* Calls that end and calls that begin. *)

LEMMA OpsTyped ==
    /\ \A b \in Blocks :
         /\ DecrefOp(b) \in OpRec /\ OpOK(DecrefOp(b)) /\ DecrefOp(b).do = "decref" /\ DecrefOp(b).b = b
         /\ DecrefAnyOp(b) \in OpRec /\ OpOK(DecrefAnyOp(b)) /\ DecrefAnyOp(b).do = "any" /\ DecrefAnyOp(b).b = b
         /\ BodyOp(b) \in OpRec /\ OpOK(BodyOp(b)) /\ BodyOp(b).do = "body" /\ BodyOp(b).b = b
    /\ \A b \in Blocks, i \in 1..NumSlots + 1 :
         WalkOp(b, i) \in OpRec /\ OpOK(WalkOp(b, i)) /\ WalkOp(b, i).do = "walk" /\ WalkOp(b, i).b = b /\ WalkOp(b, i).at = i
    /\ \A i \in Nat :
         SweepOp(i) \in OpRec /\ OpOK(SweepOp(i)) /\ SweepOp(i).do = "sweep" /\ SweepOp(i).at = i
    /\ \A v \in Locals, x \in Blocks \cup {None} :
         BindOp(v, x) \in OpRec /\ OpOK(BindOp(v, x)) /\ BindOp(v, x).do = "bind" /\ BindOp(v, x).at = v /\ BindOp(v, x).x = x
    /\ \A c \in Blocks, i \in Slots, x \in Blocks \cup {None} :
         SlotOp(c, i, x) \in OpRec /\ OpOK(SlotOp(c, i, x)) /\ SlotOp(c, i, x).do = "slot"
         /\ SlotOp(c, i, x).b = c /\ SlotOp(c, i, x).at = i /\ SlotOp(c, i, x).x = x
  BY GraphAssumption DEF DecrefOp, DecrefAnyOp, BodyOp, WalkOp, SweepOp, BindOp, SlotOp, Op, OpOK, OpRec, Kinds, Slots, None

Low(h, q) ==
  /\ Doing(q, "any") = {}
  /\ \A p \in Doing(q, "decref") : p = 1 \/ h[q[p].b].layout = "scalars"

\* What the end of a call leaves as it was.
LEMMA PopKeeps ==
    ASSUME NEW h, NEW l, NEW q \in Seq(OpRec), NEW o \in OpRec, NEW col, NEW sup
    PROVE  /\ TypesOK(h, l, Push(q, o), col, sup) => TypesOK(h, l, q, col, sup)
           /\ WalksOK(h, Push(q, o), col) => WalksOK(h, q, col)
           /\ BindsOK(h, l, Push(q, o)) => BindsOK(h, l, q)
           /\ StoresOK(h, l, Push(q, o)) => StoresOK(h, l, q)
           /\ TopsOK(h, Push(q, o), col) => Low(h, q) /\ TopsOK(h, q, col)
<1> PICK r : r = Push(q, o)
  OBVIOUS
<1>1. /\ r \in Seq(OpRec) /\ Len(r) = Len(q) + 1 /\ Len(q) \in Nat /\ r[Len(q) + 1] = o
      /\ \A p \in 1..Len(q) : r[p] = q[p] /\ q[p] \in OpRec
  BY PushIs
<1>2. \A do : \A p \in Doing(q, do) : p \in Doing(r, do) /\ r[p] = q[p] /\ p \in 1..Len(q)
  BY <1>1 DEF Doing
<1>3. TypesOK(h, l, r, col, sup) => TypesOK(h, l, q, col, sup)
  BY <1>1 DEF TypesOK, OpRec
<1>4. WalksOK(h, r, col) => WalksOK(h, q, col)
  <2>1. \A p \in 1..Len(q) : p > 1 => p - 1 \in 1..Len(q) /\ r[p - 1] = q[p - 1]
    BY <1>1
  <2> QED BY <1>2, <2>1 DEF WalksOK
<1>5. \A p \in 1..Len(q) : r[1] = q[1] /\ 1 \in 1..Len(q)
  BY <1>1
<1>6. BindsOK(h, l, r) => BindsOK(h, l, q)
  BY <1>2, <1>5 DEF BindsOK, Outermost
<1>7. StoresOK(h, l, r) => StoresOK(h, l, q)
  <2>1. ASSUME NEW p \in Doing(q, "slot"), InBody(r, p) PROVE InBody(q, p)
    <3>1. PICK n \in Doing(r, "body") : n < p /\ r[n].b = r[p].b
      BY <2>1 DEF InBody
    <3>2. n \in 1..Len(q) /\ r[n] = q[n] /\ n \in Doing(q, "body") /\ r[p] = q[p]
      BY <1>1, <1>2, <3>1 DEF Doing
    <3> QED BY <3>1, <3>2 DEF InBody
  <2> QED BY <1>2, <1>5, <2>1 DEF StoresOK, Outermost
<1>8. TopsOK(h, r, col) => Low(h, q) /\ TopsOK(h, q, col)
  <2>1. ASSUME TopsOK(h, r, col), NEW p \in Doing(q, "any") PROVE FALSE
    BY <1>1, <1>2, <2>1 DEF TopsOK
  <2>2. ASSUME TopsOK(h, r, col), NEW p \in Doing(q, "decref") PROVE p = 1 \/ h[q[p].b].layout = "scalars"
    BY <1>1, <1>2, <2>2 DEF TopsOK
  <2> QED BY <2>1, <2>2 DEF TopsOK, Low
<1> QED BY <1>3, <1>4, <1>6, <1>7, <1>8

Plain == {"any", "decref", "body"}

LEMMA PlainOwns ==
    ASSUME NEW q \in Seq(OpRec), NEW o \in OpRec, o.do \in Plain \cup {"sweep"}
    PROVE  /\ \A b : Walked(Push(q, o), b) <=> Walked(q, b)
           /\ \A v : Binding(Push(q, o), v) <=> Binding(q, v)
           /\ \A h, c, i : Owns(h, Push(q, o), c, i) <=> Owns(h, q, c, i)
           /\ \A h, col, c, i, b : Edge(h, Push(q, o), col, c, i, b) <=> Edge(h, q, col, c, i, b)
<1>1. /\ \A b : Walked(Push(q, o), b) <=> Walked(q, b)
      /\ \A c, i : Passed(Push(q, o), c, i) <=> Passed(q, c, i)
      /\ \A c, i : Storing(Push(q, o), c, i) <=> Storing(q, c, i)
      /\ \A v : Binding(Push(q, o), v) <=> Binding(q, v)
  BY PushMeans DEF Plain
<1>2. \A h, c, i : Owns(h, Push(q, o), c, i) <=> Owns(h, q, c, i)
  BY <1>1 DEF Owns
<1> QED BY <1>1, <1>2 DEF Edge

LEMMA PlainCount ==
    ASSUME NEW h, NEW l, NEW q \in Seq(OpRec), NEW o \in OpRec, o.do \in Plain \cup {"sweep"}, NEW col, NEW b
    PROVE  /\ Count(h, l, q, col, b) \in Nat
           /\ Hits(h, col, o, b) => Count(h, l, Push(q, o), col, b) = Count(h, l, q, col, b) + 1
           /\ ~Hits(h, col, o, b) => Count(h, l, Push(q, o), col, b) = Count(h, l, q, col, b)
<1>1. Push(q, o) \in Seq(OpRec)
  BY PushIs
<1>2. Vn(l, Push(q, o), b) = Vn(l, q, b)
  BY <1>1, PlainOwns, VarsSame
<1>3. Sn(h, Push(q, o), col, b) = Sn(h, q, col, b)
  BY <1>1, PlainOwns, SlotsSame
<1> QED BY <1>1, <1>2, <1>3, OpsPush, Finite

LEMMA HitsOne ==
    ASSUME NEW h, NEW o \in OpRec, NEW col, NEW b, o.do \in Plain, Hits(h, col, o, b)
    PROVE  b = o.b
  BY DEF Hits, Plain

LEMMA ShapeFacts ==
    ASSUME NEW h, NEW l, NEW r, NEW col, NEW sup, TypesOK(h, l, r, col, sup)
    PROVE  r \in Seq(OpRec)
  BY DEF TypesOK, OpRec

\* A call that owns nothing but a reference to b.
LEMMA PopPlain ==
    ASSUME NEW h, NEW l, NEW q \in Seq(OpRec), NEW o \in OpRec, NEW col, NEW sup,
           o.do \in Plain, K(h, l, Push(q, o), col, sup)
    PROVE  /\ Low(h, q)
           /\ (\A b : ~Hits(h, col, o, b)) => K(h, l, q, col, sup)
           /\ Hits(h, col, o, o.b) => Owing(h, l, q, col, sup, o.b) /\ o.b \in Blocks
<1> PICK r : r = Push(q, o)
  OBVIOUS
<1>1. /\ r \in Seq(OpRec) /\ Len(r) = Len(q) + 1 /\ Len(q) \in Nat /\ r[Len(q) + 1] = o
      /\ \A p \in 1..Len(q) : r[p] = q[p] /\ q[p] \in OpRec
  BY PushIs
<1>2. \A do : \A p \in Doing(q, do) : p \in Doing(r, do) /\ r[p] = q[p] /\ p \in 1..Len(q)
  BY <1>1 DEF Doing
<1>3. \A do : do # o.do => Doing(r, do) = Doing(q, do)
  BY PushMeans
<1>4. /\ Owing(h, l, r, col, sup, None) /\ Shape(h, l, r, col, sup)
  BY DEF K, Owing
<1>5. /\ \A b : Walked(r, b) <=> Walked(q, b)
      /\ \A v : Binding(r, v) <=> Binding(q, v)
      /\ \A c, i : Owns(h, r, c, i) <=> Owns(h, q, c, i)
  BY PlainOwns
<1>6. /\ TypesOK(h, l, q, col, sup) /\ WalksOK(h, q, col) /\ BindsOK(h, l, q) /\ StoresOK(h, l, q)
      /\ Low(h, q) /\ TopsOK(h, q, col) /\ HeadersOK(h)
  BY <1>4, PopKeeps DEF Shape
<1>7. OwnersOK(h, l, q, col)
  BY <1>2, <1>4, <1>5 DEF Shape, OwnersOK
<1>8. FlagOK(h, q, sup)
  <2>1. Doing(r, "walk") = Doing(q, "walk")
    BY <1>3 DEF Plain
  <2> QED BY <1>2, <1>4, <2>1 DEF Shape, FlagOK
<1>9. GuardsHoldScalars => GuardsOK(h, q)
  BY <1>2, <1>4, <1>5 DEF Shape, GuardsOK
<1>10. ZeroWalked(h, q)
  BY <1>4, <1>5 DEF Owing, ZeroWalked
<1>11. SweepsOK(h, q, col)
  <2>1. Doing(r, "walk") = Doing(q, "walk") /\ Doing(r, "sweep") = Doing(q, "sweep")
    BY <1>3 DEF Plain
  <2> QED BY <1>2, <1>4, <2>1 DEF Owing, SweepsOK
<1>12. Shape(h, l, q, col, sup)
  BY <1>6, <1>7, <1>8, <1>9 DEF Shape
<1>13. ASSUME \A b : ~Hits(h, col, o, b) PROVE K(h, l, q, col, sup)
  <2>1. \A b \in Blocks : Due(h, l, r, col, None, b) = Due(h, l, q, col, None, b)
    BY <1>13, PlainCount DEF Due
  <2>2. CountsOK(h, l, q, col, None)
    BY <1>4, <2>1 DEF Owing, CountsOK
  <2> QED BY <1>10, <1>11, <1>12, <2>2 DEF K, Owing
<1>14. ASSUME Hits(h, col, o, o.b) PROVE Owing(h, l, q, col, sup, o.b) /\ o.b \in Blocks
  <2>1. ASSUME NEW b \in Blocks
        PROVE  Due(h, l, r, col, None, b) = Due(h, l, q, col, o.b, b)
    <3>1. b # None /\ Count(h, l, q, col, b) \in Nat
      <4>1. b # None
        BY DEF Blocks, None
      <4> QED BY <4>1, SomeOwner
    <3>2. CASE b = o.b
      <4>1. Count(h, l, r, col, b) = Count(h, l, q, col, b) + 1
        BY <1>14, <3>2, PlainCount
      <4> QED BY <3>1, <3>2, <4>1 DEF Due
    <3>3. CASE b # o.b
      <4>1. ~Hits(h, col, o, b)
        BY <3>3, HitsOne
      <4>2. Count(h, l, r, col, b) = Count(h, l, q, col, b)
        BY <4>1, PlainCount
      <4> QED BY <3>1, <3>3, <4>2 DEF Due
    <3> QED BY <3>2, <3>3
  <2>2. CountsOK(h, l, q, col, o.b)
    BY <1>4, <2>1 DEF Owing, CountsOK
  <2>3. OpOK(r[Len(r)]) /\ r[Len(r)] = o
    BY <1>1, <1>4 DEF Shape, TypesOK
  <2>4. o.b \in Blocks
    BY <2>3 DEF OpOK, Plain
  <2>5. Safe(h, col, o.b)
    <3>1. Len(r) \in Doing(r, o.do) /\ r[Len(r)] = o
      BY <1>1 DEF Doing
    <3>2. CASE o.do = "decref"
      BY <1>4, <3>1, <3>2 DEF Shape, OwnersOK
    <3>3. CASE o.do = "any"
      <4>1. (col => h[o.b].marked) /\ (col \/ Used(h, o.b))
        BY <1>4, <1>14, <3>1, <3>3 DEF Shape, OwnersOK, Hits
      <4>2. ~Used(h, o.b) => ~h[o.b].marked
        BY <1>4, <2>4 DEF Shape, HeadersOK, Free
      <4>3. col \in BOOLEAN
        BY <1>4 DEF Shape, TypesOK
      <4> QED BY <2>4, <4>1, <4>2, <4>3 DEF Safe, White
    <3>4. CASE o.do = "body"
      BY <1>14, <3>4 DEF Hits
    <3> QED BY <3>2, <3>3, <3>4 DEF Plain
  <2> QED BY <1>10, <1>11, <1>12, <2>2, <2>4, <2>5 DEF Owing
<1> QED BY <1>6, <1>13, <1>14

\* A release begins.
LEMMA PushRelease ==
    ASSUME NEW h, NEW l, NEW q \in Seq(OpRec), NEW o \in OpRec, NEW col, NEW sup,
           o.do \in {"any", "decref"}, OpOK(o), Low(h, q),
           o.do = "decref" => Len(q) = 0 \/ h[o.b].layout = "scalars" \/ ~col,
           IF Hits(h, col, o, o.b) THEN Owing(h, l, q, col, sup, o.b)
           ELSE K(h, l, q, col, sup) /\ o.do = "any" /\ col
    PROVE  K(h, l, Push(q, o), col, sup)
<1> PICK r : r = Push(q, o)
  OBVIOUS
<1>1. /\ r \in Seq(OpRec) /\ Len(r) = Len(q) + 1 /\ Len(q) \in Nat /\ r[Len(q) + 1] = o
      /\ \A p \in 1..Len(q) : r[p] = q[p] /\ q[p] \in OpRec
  BY PushIs
<1>2. \A do : \A p \in Doing(r, do) :
        (p = Len(q) + 1 /\ r[p] = o /\ o.do = do) \/ (p \in Doing(q, do) /\ r[p] = q[p] /\ p \in 1..Len(q))
  BY <1>1 DEF Doing
<1>3. \A do : do # o.do => Doing(r, do) = Doing(q, do)
  BY PushMeans
<1> DEFINE x == IF Hits(h, col, o, o.b) THEN o.b ELSE None
<1>4. Owing(h, l, q, col, sup, x) /\ Shape(h, l, q, col, sup)
  BY DEF K, Owing
<1>5. /\ \A b : Walked(r, b) <=> Walked(q, b)
      /\ \A v : Binding(r, v) <=> Binding(q, v)
      /\ \A c, i : Owns(h, r, c, i) <=> Owns(h, q, c, i)
  <2>1. o.do \in Plain
    BY DEF Plain
  <2> QED BY <2>1, PlainOwns
<1>6. o.b \in Blocks /\ o.b # None
  BY DEF OpOK, Blocks, None
<1>7. TypesOK(h, l, r, col, sup) /\ HeadersOK(h)
  BY <1>1, <1>4 DEF Shape, TypesOK, OpRec
<1>8. OwnersOK(h, l, r, col)
  <2>1. Doing(r, "slot") = Doing(q, "slot")
    BY <1>3
  <2>2. Hits(h, col, o, o.b) => Safe(h, col, o.b)
    BY <1>4, <1>6 DEF Owing
  <2>3. ASSUME NEW p \in Doing(r, "decref") PROVE Safe(h, col, r[p].b)
    <3>1. CASE p = Len(q) + 1 /\ r[p] = o /\ o.do = "decref"
      BY <2>2, <3>1 DEF Hits
    <3>2. CASE p \in Doing(q, "decref") /\ r[p] = q[p]
      BY <1>4, <3>2 DEF Shape, OwnersOK
    <3> QED BY <1>2, <3>1, <3>2
  <2>4. ASSUME NEW p \in Doing(r, "any") PROVE col \/ Used(h, r[p].b)
    <3>1. CASE p = Len(q) + 1 /\ r[p] = o /\ o.do = "any"
      BY <2>2, <3>1 DEF Hits, Safe
    <3>2. CASE p \in Doing(q, "any") /\ r[p] = q[p]
      BY <1>4, <3>2 DEF Shape, OwnersOK
    <3> QED BY <1>2, <3>1, <3>2
  <2>5. \A p \in Doing(r, "slot") : r[p].x # None => Safe(h, col, r[p].x)
    BY <1>2, <1>4, <2>1 DEF Shape, OwnersOK
  <2>6. /\ \A v \in Locals : l[v] # None /\ ~Binding(r, v) => Safe(h, col, l[v])
        /\ \A c \in Blocks, i \in Slots :
             Owns(h, r, c, i) /\ ~White(h, col, c) /\ h[c].kids[i] # None => Safe(h, col, h[c].kids[i])
    BY <1>4, <1>5 DEF Shape, OwnersOK
  <2> QED BY <2>3, <2>4, <2>5, <2>6 DEF OwnersOK
<1>9. /\ Doing(r, "walk") = Doing(q, "walk") /\ Doing(r, "body") = Doing(q, "body")
      /\ Doing(r, "sweep") = Doing(q, "sweep") /\ Doing(r, "bind") = Doing(q, "bind")
      /\ Doing(r, "slot") = Doing(q, "slot")
  BY <1>3
<1>10. WalksOK(h, r, col) /\ FlagOK(h, r, sup) /\ SweepsOK(h, r, col)
  <2>1. \A do \in {"walk", "body", "sweep"} : \A p \in Doing(q, do) :
          r[p] = q[p] /\ (p > 1 => r[p - 1] = q[p - 1])
    BY <1>1 DEF Doing
  <2>2. WalksOK(h, r, col)
    BY <1>4, <1>9, <2>1 DEF Shape, WalksOK
  <2>3. FlagOK(h, r, sup)
    BY <1>4, <1>9, <2>1 DEF Shape, FlagOK
  <2>4. SweepsOK(h, r, col)
    BY <1>4, <1>9, <2>1 DEF Owing, SweepsOK
  <2> QED BY <2>2, <2>3, <2>4
<1>11. BindsOK(h, l, r) /\ StoresOK(h, l, r)
  <2>1. \A p \in 1..Len(q) : r[1] = q[1]
    BY <1>1
  <2>2. \A p \in Doing(q, "slot") : InBody(q, p) => InBody(r, p)
    BY <1>2, <1>9 DEF InBody
  <2> QED BY <1>2, <1>4, <1>9, <2>1, <2>2 DEF Shape, BindsOK, StoresOK, Outermost
<1>12. TopsOK(h, r, col)
  BY <1>1, <1>2 DEF TopsOK, Low
<1>13. GuardsHoldScalars => GuardsOK(h, r)
  BY <1>2, <1>4, <1>5, <1>9 DEF Shape, GuardsOK
<1>14. ZeroWalked(h, r)
  BY <1>4, <1>5 DEF Owing, ZeroWalked
<1>15. CountsOK(h, l, r, col, None)
  <2>1. ASSUME NEW b \in Blocks
        PROVE  Due(h, l, r, col, None, b) = Due(h, l, q, col, x, b)
    <3>1. b # None /\ Count(h, l, q, col, b) \in Nat /\ o.do \in Plain \cup {"sweep"}
      BY PlainCount DEF Blocks, None, Plain
    <3>2. CASE b = o.b /\ Hits(h, col, o, o.b)
      <4>1. Count(h, l, r, col, b) = Count(h, l, q, col, b) + 1
        BY <3>1, <3>2, PlainCount
      <4> QED BY <3>1, <3>2, <4>1 DEF Due
    <3>3. CASE ~(b = o.b /\ Hits(h, col, o, o.b))
      <4>1. ~Hits(h, col, o, b)
        BY <3>3, HitsOne DEF Plain
      <4>2. Count(h, l, r, col, b) = Count(h, l, q, col, b)
        BY <3>1, <4>1, PlainCount
      <4> QED BY <3>1, <3>3, <4>2 DEF Due
    <3> QED BY <3>2, <3>3
  <2> HIDE DEF x
  <2> QED BY <1>4, <2>1 DEF Owing, CountsOK
<1>16. Shape(h, l, r, col, sup)
  BY <1>7, <1>8, <1>10, <1>11, <1>12, <1>13 DEF Shape
<1> QED BY <1>10, <1>14, <1>15, <1>16 DEF K, Owing

-----------------------------------------------------------------------------
(* Changes of headers. *)

LEMMA Types ==
    ASSUME NEW h, NEW l, NEW r, NEW col, NEW sup, TypesOK(h, l, r, col, sup)
    PROVE  /\ r \in Seq(OpRec) /\ Len(r) \in Nat
           /\ \A b \in Blocks : h[b] \in Header /\ h[b].refs \in Nat
                /\ h[b].dying \in BOOLEAN /\ h[b].marked \in BOOLEAN
           /\ \A b \in Blocks, i \in Slots : h[b].kids[i] \in Blocks \cup {None}
           /\ \A v \in Locals : l[v] \in Blocks \cup {None}
           /\ \A p \in 1..Len(r) : OpOK(r[p])
           /\ \A do : \A p \in Doing(r, do) : OpOK(r[p]) /\ r[p].do = do /\ p \in 1..Len(r)
           /\ col \in BOOLEAN /\ sup \in BOOLEAN
           /\ None \notin Blocks
<1>1. r \in Seq(OpRec) /\ Len(r) \in Nat
  BY ShapeFacts
<1>2. \A b \in Blocks : h[b] \in Header
  BY DEF TypesOK
<1>3. \A b \in Blocks : h[b].refs \in Nat /\ h[b].dying \in BOOLEAN /\ h[b].marked \in BOOLEAN
         /\ h[b].kids \in [Slots -> Blocks \cup {None}]
  BY <1>2 DEF Header
<1>4. \A p \in 1..Len(r) : OpOK(r[p])
  BY DEF TypesOK
<1>5. \A do : \A p \in Doing(r, do) : OpOK(r[p]) /\ r[p].do = do /\ p \in 1..Len(r)
  BY <1>4 DEF Doing
<1>6. None \notin Blocks
  BY DEF None, Blocks
<1> QED BY <1>1, <1>2, <1>3, <1>4, <1>5, <1>6 DEF TypesOK

\* The graph of g is that of h.
Like(g, h) == \A c \in Blocks : g[c].layout = h[c].layout /\ g[c].kids = h[c].kids

LEMMA LikeShows ==
    ASSUME NEW g, NEW h, NEW l, NEW r, NEW col, NEW sup,
           TypesOK(h, l, r, col, sup), Like(g, h)
    PROVE  /\ \A w \in Locals : \A x : Shows(h, l, w, x) <=> Shows(g, l, w, x)
           /\ \A c \in Blocks : \A x : Apart(h, c, x) => Apart(g, c, x)
<1>1. \A c \in Blocks : Used(g, c) <=> Used(h, c)
  BY DEF Used, Like
<1>3. \A w \in Locals : \A x : Shows(h, l, w, x) <=> Shows(g, l, w, x)
  BY Types DEF Shows, Like
<1>4. ASSUME NEW c \in Blocks, NEW x, Apart(h, c, x) PROVE Apart(g, c, x)
  <2>1. SUFFICES ASSUME x # None PROVE Apart(g, c, x)
    BY DEF Apart
  <2>2. PICK S \in SUBSET Blocks :
          /\ c \notin S /\ x \in S
          /\ \A b \in S, i \in Slots :
               h[b].kids[i] # None /\ Used(h, h[b].kids[i]) => h[b].kids[i] \in S
          /\ \A b \in Blocks \ {c} : h[b].layout = "scalars" => b \in S
    BY <1>4, <2>1 DEF Apart
  <2>3. \A b \in S, i \in Slots :
          g[b].kids[i] # None /\ Used(g, g[b].kids[i]) => g[b].kids[i] \in S
    <3>1. \A b \in S, i \in Slots : g[b].kids[i] = h[b].kids[i] /\ h[b].kids[i] \in Blocks \cup {None}
      BY Types DEF Like
    <3> QED BY <1>1, <2>2, <3>1
  <2>4. \A b \in Blocks \ {c} : g[b].layout = "scalars" => b \in S
    BY <2>2 DEF Like
  <2> QED BY <2>2, <2>3, <2>4 DEF Apart
<1> QED BY <1>3, <1>4

LEMMA LikeKeeps ==
    ASSUME NEW g, NEW h, NEW l, NEW r, NEW col, NEW sup,
           TypesOK(h, l, r, col, sup), Like(g, h)
    PROVE  /\ \A c \in Blocks : Used(g, c) <=> Used(h, c)
           /\ \A c \in Blocks : \A i : Owns(g, r, c, i) <=> Owns(h, r, c, i)
           /\ BindsOK(h, l, r) => BindsOK(g, l, r)
           /\ StoresOK(h, l, r) => StoresOK(g, l, r)
           /\ TopsOK(h, r, col) => TopsOK(g, r, col)
           /\ Low(h, r) => Low(g, r)
           /\ FlagOK(h, r, sup) => FlagOK(g, r, sup)
           /\ GuardsOK(h, r) => GuardsOK(g, r)
<1>1. \A c \in Blocks : Used(g, c) <=> Used(h, c)
  BY DEF Used, Like
<1>2. \A c \in Blocks : \A i : Owns(g, r, c, i) <=> Owns(h, r, c, i)
  BY <1>1 DEF Owns
<1>3. \A w \in Locals : \A x : Shows(h, l, w, x) <=> Shows(g, l, w, x)
  BY LikeShows
<1>4. \A c \in Blocks : \A x : Apart(h, c, x) => Apart(g, c, x)
  BY LikeShows
<1>5. BindsOK(h, l, r) => BindsOK(g, l, r)
  BY <1>3 DEF BindsOK
<1>6. ASSUME StoresOK(h, l, r) PROVE StoresOK(g, l, r)
  <2>1. ASSUME NEW p \in Doing(r, "slot")
        PROVE /\ r[p].b \in Blocks /\ r[p].at \in Slots
              /\ g[r[p].b].layout = h[r[p].b].layout
              /\ g[r[p].b].kids[r[p].at] = h[r[p].b].kids[r[p].at]
              /\ Apart(h, r[p].b, h[r[p].b].kids[r[p].at]) => Apart(g, r[p].b, g[r[p].b].kids[r[p].at])
    <3>1. r[p].b \in Blocks /\ r[p].at \in Slots
      BY Types DEF OpOK
    <3> QED BY <1>4, <3>1 DEF Like
  <2> QED BY <1>1, <1>3, <1>6, <2>1 DEF StoresOK
<1>7. /\ \A p \in Doing(r, "walk") : g[r[p].b].layout = h[r[p].b].layout
      /\ \A p \in Doing(r, "decref") : g[r[p].b].layout = h[r[p].b].layout
      /\ \A p \in Doing(r, "slot") : g[r[p].b].layout = h[r[p].b].layout
            /\ (r[p].x # None => g[r[p].x].layout = h[r[p].x].layout)
  BY Types DEF OpOK, Like
<1>8. GuardsOK(h, r) => GuardsOK(g, r)
  <2>1. \A c \in Blocks, i \in Slots :
          /\ g[c].layout = h[c].layout /\ g[c].kids[i] = h[c].kids[i]
          /\ h[c].kids[i] # None => g[h[c].kids[i]].layout = h[h[c].kids[i]].layout
    BY Types DEF Like
  <2> QED BY <1>2, <1>7, <2>1 DEF GuardsOK
<1>9. /\ TopsOK(h, r, col) => TopsOK(g, r, col)
      /\ Low(h, r) => Low(g, r)
      /\ FlagOK(h, r, sup) => FlagOK(g, r, sup)
  BY <1>7 DEF TopsOK, Low, FlagOK
<1> QED BY <1>1, <1>2, <1>5, <1>6, <1>8, <1>9

\* g looks as h does to the sweep.
Same(g, h, col) ==
  Like(g, h) /\ \A c \in Blocks : g[c].marked = h[c].marked /\ (White(g, col, c) <=> White(h, col, c))

LEMMA SameKeeps ==
    ASSUME NEW g, NEW h, NEW l, NEW r, NEW col, NEW sup,
           TypesOK(h, l, r, col, sup), Same(g, h, col)
    PROVE  /\ Like(g, h)
           /\ \A c \in Blocks : White(g, col, c) <=> White(h, col, c)
           /\ \A c \in Blocks : Safe(g, col, c) <=> Safe(h, col, c)
           /\ OwnersOK(h, l, r, col) => OwnersOK(g, l, r, col)
           /\ SweepsOK(h, r, col) => SweepsOK(g, r, col)
<1>1. Like(g, h) /\ \A c \in Blocks : White(g, col, c) <=> White(h, col, c)
  BY DEF Same
<1>2. /\ \A c \in Blocks : Used(g, c) <=> Used(h, c)
      /\ \A c \in Blocks : \A i : Owns(g, r, c, i) <=> Owns(h, r, c, i)
  BY <1>1, LikeKeeps
<1>3. \A c \in Blocks : Safe(g, col, c) <=> Safe(h, col, c)
  BY <1>1, <1>2 DEF Safe
<1>4. \A c \in Blocks, i \in Slots : g[c].kids[i] = h[c].kids[i] /\ h[c].kids[i] \in Blocks \cup {None}
  BY <1>1, Types DEF Like
<1>5. OwnersOK(h, l, r, col) => OwnersOK(g, l, r, col)
  <2>1. \A v \in Locals : l[v] \in Blocks \cup {None}
    BY Types
  <2>2. /\ \A p \in Doing(r, "decref") : r[p].b \in Blocks
        /\ \A p \in Doing(r, "any") : r[p].b \in Blocks
        /\ \A p \in Doing(r, "slot") : r[p].x \in Blocks \cup {None}
    BY Types DEF OpOK
  <2> QED BY <1>1, <1>2, <1>3, <1>4, <2>1, <2>2 DEF OwnersOK
<1>6. SweepsOK(h, r, col) => SweepsOK(g, r, col)
  <2>1. \A p \in Doing(r, "walk") : r[p].b \in Blocks
    BY Types DEF OpOK
  <2> QED BY <1>1, <2>1 DEF SweepsOK
<1> QED BY <1>1, <1>3, <1>5, <1>6

LEMMA SameCount ==
    ASSUME NEW g, NEW h, NEW l, NEW r, NEW col, NEW sup,
           TypesOK(h, l, r, col, sup), Same(g, h, col), NEW b \in Blocks
    PROVE  Count(g, l, r, col, b) = Count(h, l, r, col, b)
<1>1. Like(g, h) /\ \A c \in Blocks : White(g, col, c) <=> White(h, col, c)
  BY DEF Same
<1>2. \A c \in Blocks : \A i : Owns(g, r, c, i) <=> Owns(h, r, c, i)
  BY <1>1, LikeKeeps
<1>3. \A c \in Blocks, i \in Slots : g[c].kids[i] = h[c].kids[i]
  BY <1>1 DEF Like
<1>4. r \in Seq(OpRec)
  BY Types
<1>5. \A c \in Blocks : Muted(g, col, c, b) <=> Muted(h, col, c, b)
  BY <1>1 DEF Muted, Same, Like
<1>6. \A c \in Blocks, i \in Slots : Edge(g, r, col, c, i, b) <=> Edge(h, r, col, c, i, b)
  BY <1>2, <1>3, <1>5 DEF Edge
<1>7. Sn(g, r, col, b) = Sn(h, r, col, b)
  BY <1>4, <1>6, SlotsSame
<1>8. OpsOf(g, r, col, b) = OpsOf(h, r, col, b)
  <2>1. g[b].marked = h[b].marked
    BY DEF Same
  <2> QED BY <2>1 DEF OpsOf, Hits
<1>9. On(g, r, col, b) = On(h, r, col, b)
  BY <1>8 DEF On
<1> QED BY <1>4, <1>7, <1>9, Finite

\* h with another count for b.
Refs(h, b, n) == [h EXCEPT ![b].refs = n]

LEMMA RefsIs ==
    ASSUME NEW h \in [Blocks -> Header], NEW b \in Blocks, NEW n \in Nat
    PROVE  /\ Refs(h, b, n) \in [Blocks -> Header]
           /\ Refs(h, b, n)[b].refs = n
           /\ Like(Refs(h, b, n), h)
           /\ \A c \in Blocks : Refs(h, b, n)[c].dying = h[c].dying /\ Refs(h, b, n)[c].marked = h[c].marked
           /\ \A c \in Blocks : c # b => Refs(h, b, n)[c] = h[c]
  BY DEF Refs, Header, Like

LEMMA RefsSame ==
    ASSUME NEW h \in [Blocks -> Header], NEW b \in Blocks, NEW n \in Nat, NEW col,
           h[b].refs > 0, n > 0 \/ ~White(h, col, b)
    PROVE  Same(Refs(h, b, n), h, col)
<1> DEFINE g == Refs(h, b, n)
<1>1. /\ Like(g, h) /\ g[b].refs = n /\ h[b].refs \in Nat
      /\ \A c \in Blocks : g[c].dying = h[c].dying /\ g[c].marked = h[c].marked
      /\ \A c \in Blocks : c # b => g[c] = h[c]
  BY RefsIs DEF Header
<1> HIDE DEF g
<1>2. ASSUME NEW c \in Blocks PROVE White(g, col, c) <=> White(h, col, c)
  <2>1. c # b => (White(g, col, c) <=> White(h, col, c))
    BY <1>1 DEF White, Live
  <2>2. White(g, col, b) <=> White(h, col, b)
    BY <1>1 DEF White, Live, Like
  <2> QED BY <2>1, <2>2
<1> QED BY <1>1, <1>2 DEF Same, g

-----------------------------------------------------------------------------
(* What has an owner is whole. *)

Held(h, r, col, b) ==
  /\ Safe(h, col, b) /\ h[b].refs > 0 /\ ~h[b].dying /\ ~Walked(r, b)

LEMMA OwnedHeld ==
    ASSUME NEW h, NEW l, NEW r, NEW col, NEW sup, NEW x, Owing(h, l, r, col, sup, x),
           NEW b, Safe(h, col, b), Count(h, l, r, col, b) > 0 \/ b = x
    PROVE  Held(h, r, col, b)
<1>1. TypesOK(h, l, r, col, sup) /\ WalksOK(h, r, col) /\ ZeroWalked(h, r) /\ CountsOK(h, l, r, col, x)
  BY DEF Owing, Shape
<1>2. b \in Blocks /\ Used(h, b) /\ ~White(h, col, b)
  BY DEF Safe
<1>3. h[b].refs \in Nat /\ Count(h, l, r, col, b) \in Nat
  BY <1>1, <1>2, Types, SomeOwner
<1>4. h[b].refs >= Due(h, l, r, col, x, b) /\ Due(h, l, r, col, x, b) > 0
  BY <1>1, <1>2, <1>3 DEF CountsOK, Due
<1>5. h[b].refs > 0
  BY <1>3, <1>4 DEF Due
<1>6. ~Walked(r, b)
  BY <1>1, <1>2, <1>3, <1>5 DEF WalksOK, Walked
<1>7. ~h[b].dying
  BY <1>1, <1>2, <1>6 DEF ZeroWalked
<1> QED BY <1>5, <1>6, <1>7 DEF Held

LEMMA VarHeld ==
    ASSUME NEW h, NEW l, NEW r, NEW col, NEW sup, NEW x, Owing(h, l, r, col, sup, x),
           NEW v \in Locals, l[v] # None, ~Binding(r, v)
    PROVE  Held(h, r, col, l[v])
<1>1. TypesOK(h, l, r, col, sup) /\ OwnersOK(h, l, r, col)
  BY DEF Owing, Shape
<1>2. Safe(h, col, l[v]) /\ r \in Seq(OpRec)
  BY <1>1, Types DEF OwnersOK
<1>3. Count(h, l, r, col, l[v]) > 0
  BY <1>2, SomeOwner
<1> QED BY <1>2, <1>3, OwnedHeld

LEMMA SlotHeld ==
    ASSUME NEW h, NEW l, NEW r, NEW col, NEW sup, NEW x, Owing(h, l, r, col, sup, x),
           NEW c \in Blocks, NEW i \in Slots, h[c].kids[i] # None, Owns(h, r, c, i),
           ~White(h, col, c) \/ (h[c].layout = "dtor" /\ GuardsHoldScalars)
    PROVE  Held(h, r, col, h[c].kids[i]) /\ Edge(h, r, col, c, i, h[c].kids[i])
<1> DEFINE b == h[c].kids[i]
<1>1. /\ TypesOK(h, l, r, col, sup) /\ OwnersOK(h, l, r, col)
      /\ GuardsHoldScalars => GuardsOK(h, r)
  BY DEF Owing, Shape
<1>2. r \in Seq(OpRec) /\ b \in Blocks
  BY <1>1, Types
<1>3. Safe(h, col, b)
  <2>1. CASE ~White(h, col, c)
    BY <1>1, <2>1 DEF OwnersOK
  <2>2. CASE h[c].layout = "dtor" /\ GuardsHoldScalars
    <3>1. h[b].layout = "scalars"
      BY <1>1, <2>2 DEF GuardsOK
    <3> QED BY <1>2, <3>1 DEF Safe, Used, White
  <2> QED BY <2>1, <2>2
<1>4. Edge(h, r, col, c, i, b)
  BY DEF Edge, Muted
<1>5. Count(h, l, r, col, b) > 0
  BY <1>2, <1>4, SomeOwner
<1> QED BY <1>3, <1>4, <1>5, OwnedHeld

LEMMA HitHeld ==
    ASSUME NEW h, NEW l, NEW r, NEW col, NEW sup, NEW x, Owing(h, l, r, col, sup, x),
           NEW p \in 1..Len(r), NEW b, Safe(h, col, b), Hits(h, col, r[p], b)
    PROVE  Held(h, r, col, b)
<1>1. r \in Seq(OpRec)
  BY Types DEF Owing, Shape
<1> QED BY <1>1, SomeOwner, OwnedHeld

\* At most one statement's store is under way, and no bind with it.
LEMMA OneOutermost ==
    ASSUME NEW r, NEW p \in Doing(r, "slot") \cup Doing(r, "bind"), Outermost(r, p),
           NEW q \in Doing(r, "slot") \cup Doing(r, "bind"), Outermost(r, q)
    PROVE  p = q
  BY DEF Outermost, Doing

LEMMA NoBind ==
    ASSUME NEW h, NEW l, NEW r, BindsOK(h, l, r), NEW p \in Doing(r, "slot"), Outermost(r, p)
    PROVE  \A v : ~Binding(r, v)
<1> SUFFICES ASSUME NEW q \in Doing(r, "bind") PROVE FALSE
  BY DEF Binding
<1>1. Outermost(r, q)
  BY DEF BindsOK
<1>2. q = p
  BY <1>1, OneOutermost
<1> QED BY <1>2 DEF Doing

\* A body is that of the walk just below it, which has not begun.
LEMMA BodyIs ==
    ASSUME NEW h, NEW l, NEW r, NEW col, NEW sup, TypesOK(h, l, r, col, sup),
           WalksOK(h, r, col), NEW p \in Doing(r, "body")
    PROVE  /\ p - 1 \in Doing(r, "walk") /\ r[p - 1].b = r[p].b /\ r[p - 1].at = 1
           /\ r[p].b \in Blocks /\ h[r[p].b].dying
           /\ \A n \in Doing(r, "walk") : r[n].b = r[p].b => n = p - 1
<1>1. p > 1 /\ r[p - 1] = WalkOp(r[p].b, 1) /\ h[r[p].b].dying
  BY DEF WalksOK
<1>2. p - 1 \in 1..Len(r) /\ r[p].b \in Blocks
  BY <1>1, Types DEF OpOK
<1>3. p - 1 \in Doing(r, "walk") /\ r[p - 1].b = r[p].b /\ r[p - 1].at = 1
  BY <1>1, <1>2 DEF Doing, WalkOp, Op
<1> QED BY <1>1, <1>2, <1>3 DEF WalksOK

\* The receiver of a destructor's store owns all its other slots.
LEMMA InBodyIs ==
    ASSUME NEW h, NEW l, NEW r, NEW col, NEW sup, TypesOK(h, l, r, col, sup),
           HeadersOK(h), WalksOK(h, r, col), NEW p, InBody(r, p)
    PROVE  /\ r[p].b \in Blocks /\ h[r[p].b].dying /\ h[r[p].b].layout = "dtor"
           /\ Walked(r, r[p].b) /\ \A i \in Slots : ~Passed(r, r[p].b, i)
<1>1. PICK q \in Doing(r, "body") : q < p /\ r[q].b = r[p].b
  BY DEF InBody
<1>2. /\ q - 1 \in Doing(r, "walk") /\ r[q - 1].b = r[p].b /\ r[q - 1].at = 1
      /\ r[p].b \in Blocks /\ h[r[p].b].dying
      /\ \A n \in Doing(r, "walk") : r[n].b = r[p].b => n = q - 1
  BY <1>1, BodyIs
<1>3. h[r[p].b].layout = "dtor"
  BY <1>2 DEF HeadersOK
<1>4. Walked(r, r[p].b)
  BY <1>2 DEF Walked
<1>5. ASSUME NEW i \in Slots PROVE ~Passed(r, r[p].b, i)
  <2>1. \A n \in Doing(r, "walk") : r[n].b = r[p].b => ~(r[n].at > i)
    BY <1>2 DEF Slots
  <2> QED BY <2>1 DEF Passed
<1> QED BY <1>2, <1>3, <1>4, <1>5

\* Shown by a variable: the variable holds what it holds, and so do its slots.
LEMMA ShownHeld ==
    ASSUME NEW h, NEW l, NEW r, NEW col, NEW sup, NEW x, Owing(h, l, r, col, sup, x),
           NEW w \in Locals, ~Binding(r, w), NEW b \in Blocks, Shows(h, l, w, b),
           \A p \in Doing(r, "slot") : Outermost(r, p) => r[p].b = b
    PROVE  /\ Held(h, r, col, b)
           /\ l[w] # None /\ Held(h, r, col, l[w])
<1>1. /\ TypesOK(h, l, r, col, sup) /\ HeadersOK(h) /\ WalksOK(h, r, col) /\ StoresOK(h, l, r)
      /\ None \notin Blocks /\ l[w] \in Blocks \cup {None}
  BY Types DEF Owing, Shape
<1>2. l[w] # None
  BY <1>1 DEF Shows
<1>3. Held(h, r, col, l[w])
  BY <1>2, VarHeld
<1>4. ASSUME l[w] # b PROVE Held(h, r, col, b)
  <2>1. PICK i \in Slots : h[l[w]].kids[i] = b
    BY <1>4 DEF Shows
  <2>2. /\ l[w] \in Blocks /\ Used(h, l[w]) /\ ~White(h, col, l[w]) /\ ~Walked(r, l[w])
    BY <1>3 DEF Held, Safe
  <2>3. ~Passed(r, l[w], i)
    BY <2>2 DEF Passed, Walked
  <2>4. ~Storing(r, l[w], i)
    <3>1. SUFFICES ASSUME NEW p \in Doing(r, "slot"), r[p].b = l[w] PROVE FALSE
      BY DEF Storing
    <3>2. Outermost(r, p) => r[p].b = b
      OBVIOUS
    <3>3. InBody(r, p) => Walked(r, r[p].b)
      BY <1>1, InBodyIs
    <3> QED BY <1>1, <1>4, <2>2, <3>1, <3>2, <3>3 DEF StoresOK
  <2>5. Owns(h, r, l[w], i)
    BY <2>2, <2>3, <2>4 DEF Owns
  <2> QED BY <1>1, <2>1, <2>2, <2>5, SlotHeld
<1> QED BY <1>2, <1>3, <1>4

\* What a statement is about to store to is held.
LEMMA TargetHeld ==
    ASSUME NEW h, NEW l, NEW r, NEW col, NEW sup, NEW x, Owing(h, l, r, col, sup, x),
           NEW p \in Doing(r, "slot")
    PROVE  \/ Held(h, r, col, r[p].b) /\ Outermost(r, p)
           \/ InBody(r, p) /\ GuardsHoldScalars
<1>1. /\ TypesOK(h, l, r, col, sup) /\ BindsOK(h, l, r) /\ StoresOK(h, l, r)
      /\ r[p].b \in Blocks
  BY Types DEF Owing, Shape, OpOK
<1>2. SUFFICES ASSUME Outermost(r, p), NEW v \in Locals, Shows(h, l, v, r[p].b)
               PROVE  Held(h, r, col, r[p].b)
  BY <1>1 DEF StoresOK
<1>3. ~Binding(r, v)
  BY <1>1, <1>2, NoBind
<1>4. \A q \in Doing(r, "slot") : Outermost(r, q) => q = p
  BY <1>2, OneOutermost
<1> QED BY <1>1, <1>2, <1>3, <1>4, ShownHeld

-----------------------------------------------------------------------------
(* References taken and given up. *)

LEMMA Recount ==
    ASSUME NEW h, NEW l, NEW r, NEW col, NEW sup, NEW x, Owing(h, l, r, col, sup, x),
           NEW b, Held(h, r, col, b), NEW n \in Nat
    PROVE  LET g == Refs(h, b, n) IN
           /\ g \in [Blocks -> Header] /\ g[b].refs = n /\ ~g[b].dying /\ Used(g, b) /\ ~Walked(r, b)
           /\ b \in Blocks
           /\ \A c \in Blocks : c # b => g[c] = h[c]
           /\ Same(g, h, col)
           /\ Shape(g, l, r, col, sup) /\ SweepsOK(g, r, col)
           /\ Low(h, r) => Low(g, r)
           /\ \A c \in Blocks : Count(g, l, r, col, c) = Count(h, l, r, col, c)
           /\ \A c \in Blocks : (Safe(g, col, c) <=> Safe(h, col, c)) /\ g[c].layout = h[c].layout
           /\ ~White(g, col, b) /\ (col => g[b].marked \/ h[b].layout = "scalars")
<1> PICK g : g = Refs(h, b, n)
  OBVIOUS
<1>1. /\ Shape(h, l, r, col, sup) /\ TypesOK(h, l, r, col, sup) /\ WalksOK(h, r, col)
      /\ SweepsOK(h, r, col) /\ HeadersOK(h)
  BY DEF Owing, Shape
<1>2. /\ b \in Blocks /\ Used(h, b) /\ ~White(h, col, b) /\ h[b].refs > 0 /\ ~h[b].dying /\ ~Walked(r, b)
  BY DEF Held, Safe
<1>3. h \in [Blocks -> Header]
  BY <1>1 DEF TypesOK, Header
<1>4. /\ g \in [Blocks -> Header] /\ g[b].refs = n /\ Like(g, h)
      /\ \A c \in Blocks : g[c].dying = h[c].dying /\ g[c].marked = h[c].marked
      /\ \A c \in Blocks : c # b => g[c] = h[c]
  BY <1>2, <1>3, RefsIs
<1>5. Same(g, h, col)
  BY <1>2, <1>3, RefsSame
<1>6. /\ \A c \in Blocks : White(g, col, c) <=> White(h, col, c)
      /\ \A c \in Blocks : Safe(g, col, c) <=> Safe(h, col, c)
      /\ OwnersOK(h, l, r, col) => OwnersOK(g, l, r, col)
      /\ SweepsOK(h, r, col) => SweepsOK(g, r, col)
      /\ \A c \in Blocks : Count(g, l, r, col, c) = Count(h, l, r, col, c)
  <2>1. \A c \in Blocks : Count(g, l, r, col, c) = Count(h, l, r, col, c)
    BY <1>1, <1>5, SameCount
  <2> QED BY <1>1, <1>5, <2>1, SameKeeps
<1>7. /\ \A c \in Blocks : Used(g, c) <=> Used(h, c)
      /\ BindsOK(h, l, r) => BindsOK(g, l, r)
      /\ StoresOK(h, l, r) => StoresOK(g, l, r)
      /\ TopsOK(h, r, col) => TopsOK(g, r, col)
      /\ Low(h, r) => Low(g, r)
      /\ FlagOK(h, r, sup) => FlagOK(g, r, sup)
      /\ GuardsOK(h, r) => GuardsOK(g, r)
  BY <1>1, <1>4, LikeKeeps
<1>8. TypesOK(g, l, r, col, sup)
  BY <1>1, <1>4 DEF TypesOK
<1>9. HeadersOK(g)
  <2>1. \A c \in Blocks : g[c].layout = h[c].layout /\ g[c].kids = h[c].kids
    BY <1>4 DEF Like
  <2> QED BY <1>1, <1>2, <1>4, <1>7, <2>1 DEF HeadersOK
<1>10. WalksOK(g, r, col)
  <2>1. \A p \in Doing(r, "walk") : r[p].b \in Blocks /\ r[p].b # b
    BY <1>1, <1>2, Types DEF OpOK, Walked
  <2>2. \A p \in Doing(r, "body") : r[p].b \in Blocks
    BY <1>1, Types DEF OpOK
  <2> QED BY <1>1, <1>4, <1>6, <1>7, <2>1, <2>2 DEF WalksOK
<1>11. Shape(g, l, r, col, sup)
  BY <1>1, <1>6, <1>7, <1>8, <1>9, <1>10 DEF Shape
<1>12. col => g[b].marked \/ h[b].layout = "scalars"
  BY <1>2, <1>4 DEF White, Live
<1>13. \A c \in Blocks : g[c].layout = h[c].layout
  BY <1>4 DEF Like
<1> QED BY <1>1, <1>2, <1>4, <1>5, <1>6, <1>7, <1>11, <1>12, <1>13

LEMMA Retain ==
    ASSUME NEW h, NEW l, NEW r, NEW col, NEW sup, K(h, l, r, col, sup),
           NEW b, Held(h, r, col, b)
    PROVE  Owing(Refs(h, b, h[b].refs + 1), l, r, col, sup, b)
<1>1. Owing(h, l, r, col, sup, None) /\ CountsOK(h, l, r, col, None) /\ ZeroWalked(h, r)
  BY DEF K, Owing
<1>2. b \in Blocks /\ h[b].refs \in Nat /\ h[b].refs > 0 /\ None \notin Blocks /\ r \in Seq(OpRec)
  BY <1>1, Types DEF Held, Safe, Owing, Shape
<1> PICK n : n = h[b].refs + 1
  OBVIOUS
<1>3. n \in Nat
  BY <1>2
<1> PICK g : g = Refs(h, b, n)
  OBVIOUS
<1>4. /\ g[b].refs = n /\ ~g[b].dying /\ Shape(g, l, r, col, sup) /\ SweepsOK(g, r, col)
      /\ \A c \in Blocks : c # b => g[c] = h[c]
      /\ \A c \in Blocks : Count(g, l, r, col, c) = Count(h, l, r, col, c)
      /\ \A c \in Blocks : (Safe(g, col, c) <=> Safe(h, col, c)) /\ g[c].layout = h[c].layout
  BY <1>1, <1>3, Recount
<1>5. Safe(g, col, b)
  BY <1>2, <1>4 DEF Held
<1>6. ZeroWalked(g, r)
  BY <1>1, <1>2, <1>4 DEF ZeroWalked, Used
<1>7. CountsOK(g, l, r, col, b)
  <2>1. \A c \in Blocks : Count(h, l, r, col, c) \in Nat
    BY <1>2, SomeOwner
  <2>2. \A c \in Blocks : Due(g, l, r, col, b, c) = Due(h, l, r, col, None, c) + (IF c = b THEN 1 ELSE 0)
    BY <1>2, <1>4, <2>1 DEF Due
  <2>3. \A c \in Blocks : Due(h, l, r, col, None, c) \in Nat
    BY <1>2, <2>1 DEF Due
  <2>4. ASSUME NEW c \in Blocks
        PROVE  /\ h[c].refs \in Nat
               /\ g[c].refs = h[c].refs + (IF c = b THEN 1 ELSE 0)
    <3>1. h[c].refs \in Nat
      BY <1>1, Types DEF Owing, Shape
    <3> QED BY <1>2, <1>4, <3>1
  <2> QED BY <1>1, <1>4, <2>2, <2>3, <2>4 DEF CountsOK
<1> QED BY <1>4, <1>5, <1>6, <1>7 DEF Owing

\* b has no owner left, or was left to the sweep, and its release begins.
Ready(h, l, q, col, sup, b) ==
  /\ Shape(h, l, q, col, sup) /\ Low(h, q)
  /\ CountsOK(h, l, q, col, None)
  /\ b \in Blocks /\ Used(h, b) /\ ~h[b].dying /\ ~Walked(q, b)
  /\ \/ h[b].refs = 0 /\ (col => h[b].marked \/ h[b].layout = "scalars")
     \/ White(h, col, b)
  /\ \A c \in Blocks \ {b} : Used(h, c) /\ (h[c].refs = 0 \/ h[c].dying) => Walked(q, c)
  /\ col <=> Doing(q, "sweep") # {}
  /\ \A p \in Doing(q, "sweep") :
       /\ \A n \in Doing(q, "sweep") : n = p
       /\ \A n \in Doing(q, "walk") : n < p => ~White(h, col, q[n].b)
       /\ \A c \in Blocks \ {b} : White(h, col, c) =>
            c >= q[p].at \/ \E n \in Doing(q, "walk") : n > p /\ q[n].b = c

LEMMA Drop ==
    ASSUME NEW h, NEW l, NEW q, NEW col, NEW sup, NEW b \in Blocks,
           Owing(h, l, q, col, sup, b)
    PROVE  LET g == Refs(h, b, h[b].refs - 1) IN
           /\ g \in [Blocks -> Header] /\ g[b].refs = h[b].refs - 1 /\ g[b].refs \in Nat
           /\ ~g[b].dying /\ g[b].layout = h[b].layout
           /\ Low(h, q) => Low(g, q)
           /\ g[b].refs > 0 => K(g, l, q, col, sup)
           /\ g[b].refs = 0 /\ Low(h, q) => Ready(g, l, q, col, sup, b)
<1>1. /\ Safe(h, col, b) /\ None \notin Blocks /\ q \in Seq(OpRec)
      /\ CountsOK(h, l, q, col, b) /\ ZeroWalked(h, q) /\ SweepsOK(h, q, col)
  BY Types DEF Owing, Shape
<1>2. Held(h, q, col, b)
  BY <1>1, OwnedHeld
<1>3. h[b].refs \in Nat /\ h[b].refs > 0
  BY <1>2, Types DEF Owing, Shape, Held
<1> PICK n : n = h[b].refs - 1
  OBVIOUS
<1>4. n \in Nat
  BY <1>3
<1> PICK g : g = Refs(h, b, n)
  OBVIOUS
<1>5. /\ g \in [Blocks -> Header] /\ g[b].refs = n /\ ~g[b].dying /\ Used(g, b) /\ ~Walked(q, b)
      /\ Shape(g, l, q, col, sup) /\ SweepsOK(g, q, col)
      /\ Low(h, q) => Low(g, q)
      /\ \A c \in Blocks : c # b => g[c] = h[c]
      /\ \A c \in Blocks : Count(g, l, q, col, c) = Count(h, l, q, col, c)
      /\ \A c \in Blocks : (Safe(g, col, c) <=> Safe(h, col, c)) /\ g[c].layout = h[c].layout
      /\ ~White(g, col, b) /\ (col => g[b].marked \/ h[b].layout = "scalars")
  BY <1>2, <1>4, Recount
<1>6. CountsOK(g, l, q, col, None)
  <2>1. \A c \in Blocks : Count(h, l, q, col, c) \in Nat
    BY <1>1, SomeOwner
  <2>2. \A c \in Blocks : Due(g, l, q, col, None, c) = Due(h, l, q, col, b, c) - (IF c = b THEN 1 ELSE 0)
    BY <1>1, <1>5, <2>1 DEF Due
  <2>3. \A c \in Blocks : Due(h, l, q, col, b, c) \in Nat
    BY <1>1, <2>1 DEF Due
  <2>4. ASSUME NEW c \in Blocks
        PROVE  /\ h[c].refs \in Nat
               /\ g[c].refs = h[c].refs - (IF c = b THEN 1 ELSE 0)
    <3>1. h[c].refs \in Nat
      BY Types DEF Owing, Shape
    <3> QED BY <1>5, <3>1
  <2> QED BY <1>1, <1>5, <2>2, <2>3, <2>4 DEF CountsOK
<1>7. \A c \in Blocks \ {b} : Used(g, c) /\ (g[c].refs = 0 \/ g[c].dying) => Walked(q, c)
  BY <1>1, <1>5 DEF ZeroWalked, Used
<1>8. ASSUME n > 0 PROVE K(g, l, q, col, sup)
  <2>1. ZeroWalked(g, q)
    BY <1>5, <1>7, <1>8 DEF ZeroWalked
  <2> QED BY <1>5, <1>6, <2>1 DEF K, Owing
<1>9. ASSUME n = 0, Low(h, q) PROVE Ready(g, l, q, col, sup, b)
  BY <1>5, <1>6, <1>7, <1>9 DEF Ready, SweepsOK
<1> QED BY <1>4, <1>5, <1>8, <1>9

-----------------------------------------------------------------------------
(* A release goes deep. *)

\* What the beginning of a call leaves as it was.
LEMMA PushKeeps ==
    ASSUME NEW h, NEW l, NEW q \in Seq(OpRec), NEW o \in OpRec, NEW col, NEW sup
    PROVE  /\ TypesOK(h, l, q, col, sup) /\ OpOK(o) => TypesOK(h, l, Push(q, o), col, sup)
           /\ WalksOK(h, q, col) /\ o.do \notin {"walk", "body"} => WalksOK(h, Push(q, o), col)
           /\ BindsOK(h, l, q) /\ o.do # "bind" => BindsOK(h, l, Push(q, o))
           /\ StoresOK(h, l, q) /\ o.do # "slot" => StoresOK(h, l, Push(q, o))
           /\ Low(h, q) /\ o.do \notin {"any", "decref"} => TopsOK(h, Push(q, o), col) /\ Low(h, Push(q, o))
           /\ FlagOK(h, q, sup) => FlagOK(h, Push(q, o), sup)
           /\ GuardsOK(h, q) /\ o.do # "slot" => GuardsOK(h, Push(q, o))
<1> PICK r : r = Push(q, o)
  OBVIOUS
<1>1. /\ r \in Seq(OpRec) /\ Len(r) = Len(q) + 1 /\ Len(q) \in Nat /\ r[Len(q) + 1] = o
      /\ \A p \in 1..Len(q) : r[p] = q[p] /\ q[p] \in OpRec
  BY PushIs
<1>2. /\ \A do : do # o.do => Doing(r, do) = Doing(q, do)
      /\ \A c, i : Owns(h, r, c, i) => Owns(h, q, c, i)
  BY PushMeans DEF Owns
<1>3. \A do : \A p \in Doing(q, do) : r[p] = q[p] /\ p \in Doing(r, do) /\ r[1] = q[1]
  BY <1>1 DEF Doing
<1>4. TypesOK(h, l, q, col, sup) /\ OpOK(o) => TypesOK(h, l, r, col, sup)
  <2>1. \A p \in 1..Len(r) : p \in 1..Len(q) \/ p = Len(q) + 1
    BY <1>1
  <2> QED BY <1>1, <2>1 DEF TypesOK, OpRec
<1>5. WalksOK(h, q, col) /\ o.do \notin {"walk", "body"} => WalksOK(h, r, col)
  <2>1. \A p \in Doing(q, "body") : p > 1 => r[p - 1] = q[p - 1]
    BY <1>1 DEF Doing
  <2> QED BY <1>2, <1>3, <2>1 DEF WalksOK
<1>6. BindsOK(h, l, q) /\ o.do # "bind" => BindsOK(h, l, r)
  BY <1>2, <1>3 DEF BindsOK, Outermost
<1>7. ASSUME StoresOK(h, l, q), o.do # "slot" PROVE StoresOK(h, l, r)
  <2>1. \A p \in Doing(q, "slot") : InBody(q, p) => InBody(r, p)
    BY <1>3 DEF InBody
  <2>2. \A p \in Doing(q, "slot") : Outermost(q, p) => Outermost(r, p)
    BY <1>3 DEF Outermost
  <2>3. Doing(r, "slot") = Doing(q, "slot") /\ \A p \in Doing(q, "slot") : r[p] = q[p]
    BY <1>2, <1>3, <1>7
  <2> QED BY <1>7, <2>1, <2>2, <2>3 DEF StoresOK
<1>8. Low(h, q) /\ o.do \notin {"any", "decref"} => TopsOK(h, r, col) /\ Low(h, r)
  BY <1>2, <1>3 DEF TopsOK, Low
<1>9. FlagOK(h, q, sup) => FlagOK(h, r, sup)
  BY <1>3 DEF FlagOK
<1>10. GuardsOK(h, q) /\ o.do # "slot" => GuardsOK(h, r)
  BY <1>2, <1>3 DEF GuardsOK
<1> QED BY <1>4, <1>5, <1>6, <1>7, <1>8, <1>9, <1>10

\* h with b given bit 31 when its destructor is to run.
Doomed(h, b) ==
  [h EXCEPT ![b].dying = @ \/ (h[b].layout = "dtor" /\ ~h[b].dying)]

LEMMA DoomedIs ==
    ASSUME NEW h \in [Blocks -> Header], NEW b \in Blocks, ~h[b].dying
    PROVE  /\ Doomed(h, b) \in [Blocks -> Header]
           /\ Like(Doomed(h, b), h)
           /\ (Doomed(h, b)[b].dying <=> h[b].layout = "dtor")
           /\ \A c \in Blocks : Doomed(h, b)[c].refs = h[c].refs /\ Doomed(h, b)[c].marked = h[c].marked
           /\ \A c \in Blocks : c # b => Doomed(h, b)[c] = h[c]
  BY DEF Doomed, Header, Like

\* The walk of b owns what b owned.
LEMMA WalkCount ==
    ASSUME NEW h, NEW l, NEW q \in Seq(OpRec), NEW c \in Blocks, NEW col, NEW b
    PROVE  Count(h, l, Push(q, WalkOp(c, 1)), col, b) = Count(h, l, q, col, b)
<1> DEFINE o == WalkOp(c, 1)
<1>1. o \in OpRec /\ o.do = "walk" /\ o.b = c /\ o.at = 1
  <2>1. 1 \in 1..NumSlots + 1
    BY GraphAssumption
  <2> QED BY <2>1, OpsTyped
<1> HIDE DEF o
<1>2. Push(q, o) \in Seq(OpRec)
  BY <1>1, PushIs
<1>3. /\ \A d \in Blocks : \A i \in Slots : Passed(Push(q, o), d, i) <=> Passed(q, d, i)
      /\ \A d, i : Storing(Push(q, o), d, i) <=> Storing(q, d, i)
      /\ \A v : Binding(Push(q, o), v) <=> Binding(q, v)
  BY <1>1, PushMeans DEF Slots
<1>4. \A d \in Blocks : \A i \in Slots : Edge(h, q, col, d, i, b) <=> Edge(h, Push(q, o), col, d, i, b)
  BY <1>3 DEF Edge, Owns
<1>5. Sn(h, Push(q, o), col, b) = Sn(h, q, col, b)
  BY <1>2, <1>4, SlotsSame
<1>6. Vn(l, Push(q, o), b) = Vn(l, q, b)
  BY <1>2, <1>3, VarsSame
<1>7. On(h, Push(q, o), col, b) = On(h, q, col, b)
  BY <1>1, OpsPush DEF Hits
<1>8. Count(h, l, Push(q, o), col, b) = Count(h, l, q, col, b)
  BY <1>2, <1>5, <1>6, <1>7, Finite
<1> QED BY <1>8 DEF o

LEMMA BeginWalk ==
    ASSUME NEW h, NEW l, NEW q \in Seq(OpRec), NEW col, NEW sup, NEW b, Ready(h, l, q, col, sup, b)
    PROVE  K(Doomed(h, b), l, Push(q, WalkOp(b, 1)), col, sup \/ h[b].layout # "mixed")
<1>1. /\ b \in Blocks /\ Used(h, b) /\ ~h[b].dying /\ ~Walked(q, b) /\ Low(h, q)
      /\ h \in [Blocks -> Header] /\ TypesOK(h, l, q, col, sup) /\ HeadersOK(h)
      /\ CountsOK(h, l, q, col, None) /\ WalksOK(h, q, col) /\ Shape(h, l, q, col, sup)
      /\ OwnersOK(h, l, q, col)
  BY DEF Ready, Shape, TypesOK, Header
<1> PICK g : g = Doomed(h, b)
  OBVIOUS
<1>2. /\ g \in [Blocks -> Header] /\ Like(g, h) /\ (g[b].dying <=> h[b].layout = "dtor")
      /\ \A c \in Blocks : g[c].refs = h[c].refs /\ g[c].marked = h[c].marked
      /\ \A c \in Blocks : c # b => g[c] = h[c]
  BY <1>1, DoomedIs
<1>3. \A c \in Blocks : g[c].layout = h[c].layout /\ g[c].kids = h[c].kids
  BY <1>2 DEF Like
<1>4. Same(g, h, col)
  <2>1. \A c \in Blocks : c # b => (White(g, col, c) <=> White(h, col, c))
    BY <1>2 DEF White, Live
  <2>2. White(g, col, b) <=> White(h, col, b)
    <3>1. h[b].refs \in Nat
      BY <1>1, Types
    <3>2. CASE White(h, col, b)
      BY <1>1, <1>2, <1>3, <3>1, <3>2 DEF White, Live
    <3>3. CASE h[b].refs = 0 /\ (col => h[b].marked \/ h[b].layout = "scalars")
      BY <1>1, <1>2, <1>3, <3>3 DEF White, Live
    <3> QED BY <3>2, <3>3 DEF Ready
  <2> QED BY <1>2, <2>1, <2>2 DEF Same
<1>5. /\ \A c \in Blocks : White(g, col, c) <=> White(h, col, c)
      /\ \A c \in Blocks : Safe(g, col, c) <=> Safe(h, col, c)
      /\ OwnersOK(g, l, q, col)
  BY <1>1, <1>4, SameKeeps
<1>6. /\ \A c \in Blocks : Used(g, c) <=> Used(h, c)
      /\ BindsOK(g, l, q) /\ StoresOK(g, l, q) /\ Low(g, q) /\ FlagOK(g, q, sup)
      /\ GuardsHoldScalars => GuardsOK(g, q)
  BY <1>1, <1>2, LikeKeeps DEF Shape
<1> PICK o : o = WalkOp(b, 1)
  OBVIOUS
<1>7. o \in OpRec /\ OpOK(o) /\ o.do = "walk" /\ o.b = b /\ o.at = 1
  <2>1. 1 \in 1..NumSlots + 1
    BY GraphAssumption
  <2> QED BY <1>1, <2>1, OpsTyped
<1> PICK r : r = Push(q, o)
  OBVIOUS
<1>8. /\ r \in Seq(OpRec) /\ Len(r) = Len(q) + 1 /\ Len(q) \in Nat /\ r[Len(q) + 1] = o
      /\ \A p \in 1..Len(q) : r[p] = q[p] /\ q[p] \in OpRec
  BY <1>7, PushIs
<1>9. /\ \A do : do # "walk" => Doing(r, do) = Doing(q, do)
      /\ \A p : p \in Doing(r, "walk") <=> p \in Doing(q, "walk") \/ p = Len(q) + 1
      /\ \A c : Walked(r, c) <=> Walked(q, c) \/ c = b
      /\ \A v : Binding(r, v) <=> Binding(q, v)
      /\ \A c \in Blocks : \A i \in Slots : Owns(g, r, c, i) <=> Owns(g, q, c, i)
  <2>1. \A c \in Blocks : \A i \in Slots : Passed(r, c, i) <=> Passed(q, c, i)
    BY <1>7, PushMeans DEF Slots
  <2> QED BY <1>7, <2>1, PushMeans DEF Owns
<1>10. \A do : \A p \in Doing(q, do) : r[p] = q[p] /\ p \in 1..Len(q)
  BY <1>8 DEF Doing
<1>11. TypesOK(g, l, r, col, sup \/ h[b].layout # "mixed")
  <2>1. TypesOK(g, l, q, col, sup)
    BY <1>1, <1>2 DEF TypesOK
  <2>2. TypesOK(g, l, r, col, sup)
    BY <1>7, <2>1, PushKeeps
  <2> QED BY <2>2 DEF TypesOK
<1>12. HeadersOK(g)
  <2>1. \A c \in Blocks : g[c].dying => g[c].layout = "dtor"
    BY <1>1, <1>2, <1>3 DEF HeadersOK
  <2> QED BY <1>1, <1>2, <1>3, <1>6, <2>1 DEF HeadersOK
<1>13. OwnersOK(g, l, r, col)
  <2>1. \A do \in {"decref", "any", "slot"} : Doing(r, do) = Doing(q, do) /\ \A p \in Doing(q, do) : r[p] = q[p]
    BY <1>9, <1>10
  <2> QED BY <1>5, <1>9, <2>1 DEF OwnersOK
<1>14. WalksOK(g, r, col)
  <2>1. \A p \in Doing(q, "walk") : q[p].b \in Blocks /\ q[p].b # b
    BY <1>1, Types DEF OpOK, Walked
  <2>2. g[b].refs = 0 \/ White(g, col, b)
    BY <1>1, <1>2, <1>5 DEF Ready
  <2>3. ASSUME NEW p \in Doing(r, "walk")
        PROVE /\ Used(g, r[p].b)
              /\ g[r[p].b].refs = 0 \/ White(g, col, r[p].b)
              /\ \A n \in Doing(r, "walk") : r[n].b = r[p].b => n = p
    <3>1. p = Len(q) + 1 => r[p].b = b
      BY <1>7, <1>8
    <3>2. \A n \in Doing(r, "walk") : n # Len(q) + 1 => n \in Doing(q, "walk") /\ r[n] = q[n] /\ r[n].b # b
      BY <1>9, <1>10, <2>1
    <3>3. \A n \in Doing(r, "walk") : r[n].b = r[p].b => n = p
      BY <1>1, <1>7, <1>8, <3>1, <3>2 DEF WalksOK
    <3> QED BY <1>1, <1>2, <1>5, <1>6, <2>1, <2>2, <3>1, <3>2, <3>3 DEF WalksOK
  <2>4. ASSUME NEW p \in Doing(r, "body")
        PROVE  p > 1 /\ r[p - 1] = WalkOp(r[p].b, 1) /\ g[r[p].b].dying
    <3>1. p \in Doing(q, "body") /\ r[p] = q[p] /\ p \in 1..Len(q) /\ q[p].b \in Blocks
      BY <1>1, <1>9, <1>10, Types DEF OpOK
    <3>2. p > 1 /\ q[p - 1] = WalkOp(q[p].b, 1) /\ h[q[p].b].dying
      BY <1>1, <3>1 DEF WalksOK
    <3>3. r[p - 1] = q[p - 1]
      BY <1>8, <3>1, <3>2
    <3> QED BY <1>1, <1>2, <3>1, <3>2, <3>3
  <2> QED BY <2>3, <2>4 DEF WalksOK
<1>15. BindsOK(g, l, r) /\ StoresOK(g, l, r) /\ TopsOK(g, r, col) /\ (GuardsHoldScalars => GuardsOK(g, r))
  BY <1>6, <1>7, PushKeeps
<1>16. FlagOK(g, r, sup \/ h[b].layout # "mixed")
  <2>1. FlagOK(g, r, sup)
    BY <1>6, <1>7, PushKeeps
  <2>2. Len(q) + 1 \in Doing(r, "walk") /\ r[Len(q) + 1].b = b
    BY <1>7, <1>8, <1>9
  <2> QED BY <1>1, <1>3, <2>1, <2>2 DEF FlagOK
<1>17. CountsOK(g, l, r, col, None)
  <2>1. \A c \in Blocks : Count(g, l, q, col, c) = Count(h, l, q, col, c)
    BY <1>1, <1>4, SameCount
  <2>2. \A c \in Blocks : Count(g, l, r, col, c) = Count(g, l, q, col, c)
    BY <1>1, WalkCount
  <2>3. \A c \in Blocks : Due(g, l, r, col, None, c) = Due(h, l, q, col, None, c)
    BY <2>1, <2>2 DEF Due
  <2> QED BY <1>1, <1>2, <1>3, <1>5, <2>3 DEF CountsOK
<1>18. ZeroWalked(g, r)
  BY <1>2, <1>6, <1>9 DEF ZeroWalked, Ready
<1>19. SweepsOK(g, r, col)
  <2>1. Doing(r, "sweep") = Doing(q, "sweep") /\ \A p \in Doing(q, "sweep") : r[p] = q[p] /\ p < Len(q) + 1
    BY <1>8, <1>9, <1>10
  <2>2. \A p \in Doing(q, "walk") : q[p].b \in Blocks
    BY <1>1, Types DEF OpOK
  <2>3. col <=> Doing(r, "sweep") # {}
    BY <2>1 DEF Ready
  <2>4. ASSUME NEW p \in Doing(r, "sweep")
        PROVE  /\ \A n \in Doing(r, "sweep") : n = p
               /\ \A n \in Doing(r, "walk") : n < p => ~White(g, col, r[n].b)
               /\ \A c \in Blocks : White(g, col, c) =>
                    c >= r[p].at \/ \E n \in Doing(r, "walk") : n > p /\ r[n].b = c
    <3>1. \A n \in Doing(r, "sweep") : n = p
      BY <2>1 DEF Ready
    <3>2. ASSUME NEW n \in Doing(r, "walk"), n < p PROVE ~White(g, col, r[n].b)
      <4>1. n \in Doing(q, "walk") /\ r[n] = q[n]
        BY <1>8, <1>9, <1>10, <2>1, <3>2
      <4> QED BY <1>5, <2>1, <2>2, <3>2, <4>1 DEF Ready
    <3>3. ASSUME NEW c \in Blocks, White(g, col, c)
          PROVE  c >= r[p].at \/ \E n \in Doing(r, "walk") : n > p /\ r[n].b = c
      <4>1. CASE c = b
        <5>1. Len(q) + 1 \in Doing(r, "walk") /\ r[Len(q) + 1].b = b /\ Len(q) + 1 > p
          BY <1>7, <1>8, <1>9, <1>10, <2>1
        <5> QED BY <4>1, <5>1
      <4>2. CASE c # b
        <5>1. c >= q[p].at \/ \E n \in Doing(q, "walk") : n > p /\ q[n].b = c
          BY <1>5, <2>1, <3>3, <4>2 DEF Ready
        <5> QED BY <1>9, <1>10, <2>1, <5>1
      <4> QED BY <4>1, <4>2
    <3> QED BY <3>1, <3>2, <3>3
  <2> QED BY <2>3, <2>4 DEF SweepsOK
<1> QED BY <1>11, <1>12, <1>13, <1>14, <1>15, <1>16, <1>17, <1>18, <1>19 DEF K, Owing, Shape

\* The destructor is called before the walk begins.
LEMMA BeginBody ==
    ASSUME NEW h, NEW l, NEW q \in Seq(OpRec), NEW col, NEW sup, NEW b \in Blocks,
           K(h, l, Push(q, WalkOp(b, 1)), col, sup), h[b].dying, Low(h, q)
    PROVE  K(h, l, Push(Push(q, WalkOp(b, 1)), BodyOp(b)), col, sup)
<1> PICK o : o = WalkOp(b, 1)
  OBVIOUS
<1>1. o \in OpRec /\ o.do = "walk" /\ o.b = b /\ o.at = 1
  <2>1. 1 \in 1..NumSlots + 1
    BY GraphAssumption
  <2> QED BY <2>1, OpsTyped
<1> PICK s : s = Push(q, o)
  OBVIOUS
<1>2. /\ s \in Seq(OpRec) /\ Len(s) = Len(q) + 1 /\ Len(q) \in Nat /\ s[Len(q) + 1] = o
      /\ \A p \in 1..Len(q) : s[p] = q[p]
  BY ONLY <1>1, q \in Seq(OpRec), s = Push(q, o), PushIs
<1> PICK e : e = BodyOp(b)
  OBVIOUS
<1>3. e \in OpRec /\ OpOK(e) /\ e.do = "body" /\ e.b = b /\ e.do \in Plain \cup {"sweep"}
  BY OpsTyped DEF Plain
<1> PICK r : r = Push(s, e)
  OBVIOUS
<1>4. /\ r \in Seq(OpRec) /\ Len(r) = Len(s) + 1 /\ Len(s) \in Nat /\ r[Len(s) + 1] = e
      /\ \A p \in 1..Len(s) : r[p] = s[p]
  <2>1. s \in Seq(OpRec) /\ e \in OpRec
    BY <1>2, <1>3
  <2> QED BY ONLY <2>1, r = Push(s, e), PushIs
<1>5. K(h, l, s, col, sup) /\ Owing(h, l, s, col, sup, None) /\ Shape(h, l, s, col, sup)
  BY DEF K, Owing
<1>6. /\ TypesOK(h, l, s, col, sup) /\ HeadersOK(h) /\ BindsOK(h, l, s) /\ StoresOK(h, l, s)
      /\ FlagOK(h, s, sup) /\ (GuardsHoldScalars => GuardsOK(h, s)) /\ OwnersOK(h, l, s, col)
      /\ WalksOK(h, s, col) /\ CountsOK(h, l, s, col, None) /\ ZeroWalked(h, s) /\ SweepsOK(h, s, col)
  BY <1>5 DEF Owing, Shape
<1>7. /\ \A do : do # "body" => Doing(r, do) = Doing(s, do)
      /\ \A p : p \in Doing(r, "body") <=> p \in Doing(s, "body") \/ p = Len(s) + 1
  BY <1>2, <1>3, PushMeans
<1>8. \A do : \A p \in Doing(s, do) : r[p] = s[p] /\ p \in 1..Len(s)
  BY <1>4 DEF Doing
<1>9. /\ \A c : Walked(r, c) <=> Walked(s, c)
      /\ \A v : Binding(r, v) <=> Binding(s, v)
      /\ \A c, i : Owns(h, r, c, i) <=> Owns(h, s, c, i)
  BY <1>2, <1>3, PlainOwns
<1>10. Low(h, s)
  BY <1>1, PushKeeps
<1>11. /\ TypesOK(h, l, r, col, sup) /\ BindsOK(h, l, r) /\ StoresOK(h, l, r)
       /\ FlagOK(h, r, sup) /\ (GuardsHoldScalars => GuardsOK(h, r)) /\ TopsOK(h, r, col)
  BY <1>2, <1>3, <1>6, <1>10, PushKeeps
<1>12. OwnersOK(h, l, r, col)
  <2>1. \A do \in {"decref", "any", "slot"} : Doing(r, do) = Doing(s, do) /\ \A p \in Doing(s, do) : r[p] = s[p]
    BY <1>7, <1>8
  <2> QED BY <1>6, <1>9, <2>1 DEF OwnersOK
<1>13. WalksOK(h, r, col)
  <2>1. Doing(r, "walk") = Doing(s, "walk") /\ \A p \in Doing(s, "walk") : r[p] = s[p]
    BY <1>7, <1>8
  <2>2. ASSUME NEW p \in Doing(r, "body")
        PROVE  p > 1 /\ r[p - 1] = WalkOp(r[p].b, 1) /\ h[r[p].b].dying
    <3>1. CASE p = Len(s) + 1
      <4>1. r[p] = e /\ p - 1 = Len(s) /\ Len(s) \in 1..Len(s) /\ p > 1 /\ r[p - 1] = s[Len(s)]
        BY <1>2, <1>4, <3>1
      <4> QED BY <1>2, <1>3, <4>1
    <3>2. CASE p \in Doing(s, "body")
      <4>1. p > 1 /\ s[p - 1] = WalkOp(s[p].b, 1) /\ h[s[p].b].dying /\ r[p] = s[p] /\ p \in 1..Len(s)
        BY <1>6, <1>8, <3>2 DEF WalksOK
      <4>2. r[p - 1] = s[p - 1]
        BY <1>4, <4>1
      <4> QED BY <4>1, <4>2
    <3> QED BY <1>7, <3>1, <3>2
  <2> QED BY <1>6, <2>1, <2>2 DEF WalksOK
<1>14. CountsOK(h, l, r, col, None)
  <2>1. \A c \in Blocks : ~Hits(h, col, e, c)
    BY <1>3 DEF Hits
  <2>2. \A c \in Blocks : Count(h, l, r, col, c) = Count(h, l, s, col, c)
    BY <1>2, <1>3, <2>1, PlainCount
  <2> QED BY <1>6, <2>2 DEF CountsOK, Due
<1>15. ZeroWalked(h, r)
  BY <1>6, <1>9 DEF ZeroWalked
<1>16. SweepsOK(h, r, col)
  <2>1. \A do \in {"walk", "sweep"} : Doing(r, do) = Doing(s, do) /\ \A p \in Doing(s, do) : r[p] = s[p]
    BY <1>7, <1>8
  <2> QED BY <1>6, <2>1 DEF SweepsOK
<1> QED BY <1>6, <1>11, <1>12, <1>13, <1>14, <1>15, <1>16 DEF K, Owing, Shape

-----------------------------------------------------------------------------
(* The sweep. *)

LEMMA NextVictim ==
    ASSUME NEW h, NEW l, NEW q \in Seq(OpRec), NEW col, NEW sup, NEW at \in Nat,
           K(h, l, Push(q, SweepOp(at)), col, sup),
           NEW b \in Blocks, White(h, col, b), b >= at,
           \A c \in Blocks : White(h, col, c) /\ c >= at => b <= c
    PROVE  Ready(h, l, Push(q, SweepOp(b + 1)), col, sup, b)
<1> PICK o : o = SweepOp(at)
  OBVIOUS
<1> PICK e : e = SweepOp(b + 1)
  OBVIOUS
<1>1. /\ o \in OpRec /\ OpOK(o) /\ o.do = "sweep" /\ o.at = at
      /\ e \in OpRec /\ OpOK(e) /\ e.do = "sweep" /\ e.at = b + 1
      /\ o.do \in Plain \cup {"sweep"} /\ e.do \in Plain \cup {"sweep"}
  <2>1. b + 1 \in Nat
    BY DEF Blocks
  <2> QED BY <2>1, OpsTyped
<1> PICK r : r = Push(q, o)
  OBVIOUS
<1> PICK s : s = Push(q, e)
  OBVIOUS
<1>2. /\ r \in Seq(OpRec) /\ Len(r) = Len(q) + 1 /\ Len(q) \in Nat /\ r[Len(q) + 1] = o
      /\ \A p \in 1..Len(q) : r[p] = q[p] /\ q[p] \in OpRec
      /\ s \in Seq(OpRec) /\ Len(s) = Len(q) + 1 /\ s[Len(q) + 1] = e
      /\ \A p \in 1..Len(q) : s[p] = q[p]
  BY <1>1, PushIs
<1>3. Owing(h, l, r, col, sup, None) /\ Shape(h, l, r, col, sup)
  BY DEF K, Owing
<1>4. /\ TypesOK(h, l, r, col, sup) /\ HeadersOK(h) /\ BindsOK(h, l, r) /\ StoresOK(h, l, r)
      /\ FlagOK(h, r, sup) /\ (GuardsHoldScalars => GuardsOK(h, r)) /\ OwnersOK(h, l, r, col)
      /\ WalksOK(h, r, col) /\ CountsOK(h, l, r, col, None) /\ ZeroWalked(h, r) /\ SweepsOK(h, r, col)
      /\ TopsOK(h, r, col)
  BY <1>3 DEF Owing, Shape
<1>5. /\ TypesOK(h, l, q, col, sup) /\ WalksOK(h, q, col) /\ BindsOK(h, l, q) /\ StoresOK(h, l, q)
      /\ Low(h, q)
  BY <1>1, <1>4, PopKeeps
<1>6. /\ \A do : do # "sweep" => Doing(r, do) = Doing(q, do) /\ Doing(s, do) = Doing(q, do)
      /\ \A p : p \in Doing(r, "sweep") <=> p \in Doing(q, "sweep") \/ p = Len(q) + 1
      /\ \A p : p \in Doing(s, "sweep") <=> p \in Doing(q, "sweep") \/ p = Len(q) + 1
  BY <1>1, PushMeans
<1>7. /\ \A c : (Walked(r, c) <=> Walked(q, c)) /\ (Walked(s, c) <=> Walked(q, c))
      /\ \A v : (Binding(r, v) <=> Binding(q, v)) /\ (Binding(s, v) <=> Binding(q, v))
      /\ \A c, i : (Owns(h, r, c, i) <=> Owns(h, q, c, i)) /\ (Owns(h, s, c, i) <=> Owns(h, q, c, i))
  BY <1>1, PlainOwns
<1>8. \A do : \A p \in Doing(q, do) : r[p] = q[p] /\ s[p] = q[p] /\ p \in 1..Len(q)
  BY <1>2 DEF Doing
<1>9. \A do \in {"walk", "decref", "any", "slot"} :
        /\ Doing(r, do) = Doing(q, do) /\ Doing(s, do) = Doing(q, do)
        /\ \A p \in Doing(q, do) : r[p] = q[p] /\ s[p] = q[p] /\ p \in 1..Len(q)
  BY <1>6, <1>8
<1>10. FlagOK(h, s, sup)
  BY <1>4, <1>9 DEF FlagOK
<1>11. OwnersOK(h, l, s, col)
  BY <1>4, <1>7, <1>9 DEF OwnersOK
<1>12. GuardsHoldScalars => GuardsOK(h, s)
  BY <1>4, <1>7, <1>9 DEF GuardsOK
<1>13. /\ TypesOK(h, l, s, col, sup) /\ WalksOK(h, s, col) /\ BindsOK(h, l, s) /\ StoresOK(h, l, s)
       /\ TopsOK(h, s, col) /\ Low(h, s)
  BY <1>1, <1>5, PushKeeps
<1>14. Shape(h, l, s, col, sup)
  BY <1>4, <1>10, <1>11, <1>12, <1>13 DEF Shape
<1>15. CountsOK(h, l, s, col, None)
  <2>1. \A c \in Blocks : ~Hits(h, col, o, c) /\ ~Hits(h, col, e, c)
    BY <1>1 DEF Hits
  <2>2. \A c \in Blocks : Count(h, l, s, col, c) = Count(h, l, q, col, c)
    BY <1>1, <2>1, PlainCount
  <2>3. \A c \in Blocks : Count(h, l, r, col, c) = Count(h, l, q, col, c)
    BY <1>1, <2>1, PlainCount
  <2> QED BY <1>4, <2>2, <2>3 DEF CountsOK, Due
<1>16. Len(q) + 1 \in Doing(r, "sweep") /\ Len(q) + 1 \in Doing(s, "sweep") /\ Doing(q, "sweep") = {}
  <2>1. Len(q) + 1 \in Doing(r, "sweep") /\ Len(q) + 1 \in Doing(s, "sweep")
    BY <1>6
  <2>2. \A p \in Doing(q, "sweep") : p = Len(q) + 1
    BY <1>4, <1>6, <2>1 DEF SweepsOK
  <2> QED BY <1>2, <1>8, <2>1, <2>2
<1>17. \A n \in Doing(q, "walk") : ~White(h, col, q[n].b) /\ n < Len(q) + 1
  <2>1. \A n \in Doing(q, "walk") : n < Len(q) + 1 /\ n \in Doing(r, "walk") /\ r[n] = q[n]
    BY <1>2, <1>9
  <2> QED BY <1>4, <1>16, <2>1 DEF SweepsOK
<1>18. Used(h, b) /\ ~Walked(s, b) /\ ~h[b].dying
  <2>1. Used(h, b)
    <3>1. ~Used(h, b) => h[b].refs = 0 /\ ~h[b].dying
      BY <1>4 DEF HeadersOK, Free
    <3> QED BY <3>1 DEF White, Live
  <2>2. ~Walked(q, b)
    BY <1>17 DEF Walked
  <2> QED BY <1>4, <1>7, <2>1, <2>2 DEF ZeroWalked
<1>19. \A c \in Blocks : White(h, col, c) => c >= at
  <2>1. \A c \in Blocks : White(h, col, c) =>
          c >= r[Len(q) + 1].at \/ \E n \in Doing(r, "walk") : n > Len(q) + 1 /\ r[n].b = c
    BY <1>4, <1>16 DEF SweepsOK
  <2>2. \A n \in Doing(r, "walk") : ~(n > Len(q) + 1)
    BY <1>2, <1>9, <1>17
  <2> QED BY <1>1, <1>2, <2>1, <2>2
<1>20. \A c \in Blocks \ {b} : White(h, col, c) => c >= b + 1
  BY <1>19 DEF Blocks
<1>21. \A c \in Blocks \ {b} : Used(h, c) /\ (h[c].refs = 0 \/ h[c].dying) => Walked(s, c)
  BY <1>4, <1>7 DEF ZeroWalked
<1>22. col <=> Doing(s, "sweep") # {}
  BY <1>4, <1>16 DEF SweepsOK
<1>23. ASSUME NEW p \in Doing(s, "sweep")
       PROVE  /\ \A n \in Doing(s, "sweep") : n = p
              /\ \A n \in Doing(s, "walk") : n < p => ~White(h, col, s[n].b)
              /\ \A c \in Blocks \ {b} : White(h, col, c) =>
                   c >= s[p].at \/ \E n \in Doing(s, "walk") : n > p /\ s[n].b = c
  <2>1. p = Len(q) + 1 /\ s[p].at = b + 1 /\ \A n \in Doing(s, "sweep") : n = p
    BY <1>1, <1>2, <1>6, <1>16
  <2>2. \A n \in Doing(s, "walk") : n < p => ~White(h, col, s[n].b)
    BY <1>9, <1>17
  <2> QED BY <1>20, <2>1, <2>2
<1> QED BY <1>13, <1>14, <1>15, <1>18, <1>21, <1>22, <1>23 DEF Ready

LEMMA EndSweep ==
    ASSUME NEW h, NEW l, NEW q \in Seq(OpRec), NEW col, NEW sup, NEW at \in Nat,
           K(h, l, Push(q, SweepOp(at)), col, sup),
           \A c \in Blocks : White(h, col, c) => c < at
    PROVE  K(h, l, q, FALSE, sup)
<1> PICK o : o = SweepOp(at)
  OBVIOUS
<1>1. o \in OpRec /\ OpOK(o) /\ o.do = "sweep" /\ o.at = at /\ o.do \in Plain \cup {"sweep"}
  BY OpsTyped
<1> PICK r : r = Push(q, o)
  OBVIOUS
<1>2. /\ r \in Seq(OpRec) /\ Len(r) = Len(q) + 1 /\ Len(q) \in Nat /\ r[Len(q) + 1] = o
      /\ \A p \in 1..Len(q) : r[p] = q[p] /\ q[p] \in OpRec
  BY <1>1, PushIs
<1>3. Owing(h, l, r, col, sup, None) /\ Shape(h, l, r, col, sup)
  BY DEF K, Owing
<1>4. /\ TypesOK(h, l, r, col, sup) /\ HeadersOK(h) /\ BindsOK(h, l, r) /\ StoresOK(h, l, r)
      /\ FlagOK(h, r, sup) /\ (GuardsHoldScalars => GuardsOK(h, r)) /\ OwnersOK(h, l, r, col)
      /\ WalksOK(h, r, col) /\ CountsOK(h, l, r, col, None) /\ ZeroWalked(h, r) /\ SweepsOK(h, r, col)
      /\ TopsOK(h, r, col)
  BY <1>3 DEF Owing, Shape
<1>5. /\ TypesOK(h, l, q, col, sup) /\ WalksOK(h, q, col) /\ BindsOK(h, l, q) /\ StoresOK(h, l, q)
      /\ Low(h, q) /\ TopsOK(h, q, col)
  BY <1>1, <1>4, PopKeeps
<1>6. /\ \A do : do # "sweep" => Doing(r, do) = Doing(q, do)
      /\ \A p : p \in Doing(r, "sweep") <=> p \in Doing(q, "sweep") \/ p = Len(q) + 1
  BY <1>1, PushMeans
<1>7. /\ \A c : Walked(r, c) <=> Walked(q, c)
      /\ \A v : Binding(r, v) <=> Binding(q, v)
      /\ \A c, i : Owns(h, r, c, i) <=> Owns(h, q, c, i)
  BY <1>1, PlainOwns
<1>8. \A do : \A p \in Doing(q, do) : r[p] = q[p] /\ p \in 1..Len(q)
  BY <1>2 DEF Doing
<1>9. \A do \in {"walk", "decref", "any", "slot"} :
        Doing(r, do) = Doing(q, do) /\ \A p \in Doing(q, do) : r[p] = q[p] /\ p \in 1..Len(q)
  BY <1>6, <1>8
<1>10. Doing(q, "sweep") = {} /\ Len(q) + 1 \in Doing(r, "sweep")
  <2>1. Len(q) + 1 \in Doing(r, "sweep")
    BY <1>6
  <2>2. \A p \in Doing(q, "sweep") : p = Len(q) + 1
    BY <1>4, <1>6, <2>1 DEF SweepsOK
  <2> QED BY <1>2, <1>8, <2>1, <2>2
<1>11. \A c \in Blocks : ~White(h, col, c)
  <2>1. \A c \in Blocks : White(h, col, c) =>
          c >= r[Len(q) + 1].at \/ \E n \in Doing(r, "walk") : n > Len(q) + 1 /\ r[n].b = c
    BY <1>4, <1>10 DEF SweepsOK
  <2>2. \A n \in Doing(r, "walk") : ~(n > Len(q) + 1)
    BY <1>2, <1>9
  <2>3. r[Len(q) + 1].at = at
    BY <1>1, <1>2
  <2> QED BY <2>1, <2>2, <2>3 DEF Blocks
<1> PICK dol : dol = FALSE
  OBVIOUS
<1>12. \A c \in Blocks : ~White(h, dol, c)
  BY DEF White
<1>13. \A c : Safe(h, dol, c) <=> Safe(h, col, c)
  BY <1>11, <1>12 DEF Safe
<1>14. OwnersOK(h, l, q, dol)
  BY <1>4, <1>5, <1>7, <1>9, <1>11, <1>12, <1>13 DEF OwnersOK, Low
<1>15. WalksOK(h, q, dol)
  <2>1. \A p \in Doing(q, "walk") : q[p].b \in Blocks
    BY <1>5, Types DEF OpOK
  <2> QED BY <1>5, <1>11, <2>1 DEF WalksOK
<1>16. FlagOK(h, q, sup)
  BY <1>4, <1>9 DEF FlagOK
<1>17. GuardsHoldScalars => GuardsOK(h, q)
  BY <1>4, <1>7, <1>9 DEF GuardsOK
<1>18. TopsOK(h, q, dol) /\ TypesOK(h, l, q, dol, sup)
  BY <1>5 DEF TopsOK, TypesOK
<1>19. Shape(h, l, q, dol, sup)
  BY <1>4, <1>5, <1>14, <1>15, <1>16, <1>17, <1>18 DEF Shape
<1>20. CountsOK(h, l, q, dol, None)
  <2>1. ASSUME NEW c \in Blocks PROVE Count(h, l, q, dol, c) = Count(h, l, r, col, c)
    <3>1. \A d \in Blocks : ~Muted(h, dol, d, c) /\ ~Muted(h, col, d, c)
      BY <1>11, <1>12 DEF Muted
    <3>2. \A d \in Blocks, i \in Slots : Edge(h, q, dol, d, i, c) <=> Edge(h, r, col, d, i, c)
      BY <1>7, <3>1 DEF Edge
    <3>3. Sn(h, q, dol, c) = Sn(h, r, col, c)
      BY <1>2, <3>2, SlotsSame
    <3>4. Vn(l, q, c) = Vn(l, r, c)
      BY <1>2, <1>7, VarsSame
    <3>5. On(h, q, dol, c) = On(h, q, col, c)
      <4>1. \A p \in 1..Len(q) : q[p].do # "any"
        BY <1>5 DEF Low, Doing
      <4>2. \A p \in 1..Len(q) : Hits(h, dol, q[p], c) <=> Hits(h, col, q[p], c)
        BY <4>1 DEF Hits
      <4>3. OpsOf(h, q, dol, c) = OpsOf(h, q, col, c)
        BY <4>2 DEF OpsOf
      <4> QED BY <4>3 DEF On
    <3>6. On(h, r, col, c) = On(h, q, col, c)
      BY <1>1, OpsPush DEF Hits
    <3> QED BY <1>2, <3>3, <3>4, <3>5, <3>6, Finite
  <2> QED BY <1>4, <1>13, <2>1 DEF CountsOK, Due
<1>21. ZeroWalked(h, q)
  BY <1>4, <1>7 DEF ZeroWalked
<1>22. SweepsOK(h, q, dol)
  BY <1>10 DEF SweepsOK
<1>23. K(h, l, q, dol, sup)
  BY <1>19, <1>20, <1>21, <1>22 DEF K, Owing
<1> QED BY <1>23

-----------------------------------------------------------------------------
(* The walk. *)

\* What is being walked has no owner among what is not left to the sweep, and
\* no store goes to it.
LEMMA WalkTop ==
    ASSUME NEW h, NEW l, NEW q \in Seq(OpRec), NEW col, NEW sup, NEW b \in Blocks, NEW at \in 1..NumSlots + 1,
           K(h, l, Push(q, WalkOp(b, at)), col, sup)
    PROVE  LET r == Push(q, WalkOp(b, at)) IN
           /\ Used(h, b) /\ (h[b].refs = 0 \/ White(h, col, b))
           /\ ~Walked(q, b) /\ Low(h, q)
           /\ \A p \in Doing(q, "body") : q[p].b # b
           /\ \A p \in Doing(q, "slot") : q[p].b # b
           /\ Safe(h, col, b) => \A c \in Blocks, i \in Slots : ~Edge(h, r, col, c, i, b)
           /\ \A v \in Locals : l[v] = b => Binding(q, v)
           /\ \A p \in Doing(q, "decref") : q[p].b # b
           /\ \A p \in Doing(q, "slot") : q[p].x # b
           /\ \A c \in Blocks, i \in Slots :
                Owns(h, r, c, i) /\ ~White(h, col, c) => h[c].kids[i] # b
<1> PICK o : o = WalkOp(b, at)
  OBVIOUS
<1>1. o \in OpRec /\ o.do = "walk" /\ o.b = b /\ o.at = at
  BY OpsTyped
<1> PICK r : r = Push(q, o)
  OBVIOUS
<1>2. /\ r \in Seq(OpRec) /\ Len(r) = Len(q) + 1 /\ Len(q) \in Nat /\ r[Len(q) + 1] = o
      /\ \A p \in 1..Len(q) : r[p] = q[p]
  BY <1>1, PushIs
<1>3. Owing(h, l, r, col, sup, None) /\ Shape(h, l, r, col, sup)
  BY DEF K, Owing
<1>4. /\ TypesOK(h, l, r, col, sup) /\ OwnersOK(h, l, r, col) /\ WalksOK(h, r, col)
      /\ CountsOK(h, l, r, col, None) /\ TopsOK(h, r, col)
  BY <1>3 DEF Owing, Shape
<1>5. /\ \A do : do # "walk" => Doing(r, do) = Doing(q, do)
      /\ \A p : p \in Doing(r, "walk") <=> p \in Doing(q, "walk") \/ p = Len(q) + 1
      /\ \A v : Binding(r, v) <=> Binding(q, v)
      /\ Walked(r, b)
  BY <1>1, PushMeans
<1>6. \A do : \A p \in Doing(q, do) : r[p] = q[p] /\ p \in 1..Len(q) /\ p # Len(q) + 1
  BY <1>2 DEF Doing
<1>7. /\ Used(h, b) /\ (h[b].refs = 0 \/ White(h, col, b))
      /\ \A n \in Doing(r, "walk") : r[n].b = b => n = Len(q) + 1
  BY <1>1, <1>2, <1>4, <1>5 DEF WalksOK
<1>8. ~Walked(q, b)
  BY <1>5, <1>6, <1>7 DEF Walked
<1>9. Low(h, q)
  BY <1>1, <1>4, PopKeeps
<1>10. \A p \in Doing(q, "body") : q[p].b # b
  <2> SUFFICES ASSUME NEW p \in Doing(q, "body"), q[p].b = b PROVE FALSE
    OBVIOUS
  <2>1. p \in Doing(r, "body") /\ r[p].b = b /\ p \in 1..Len(q)
    BY <1>5, <1>6
  <2>2. p - 1 \in Doing(r, "walk") /\ r[p - 1].b = b
    BY <1>4, <2>1, BodyIs
  <2>3. p - 1 = Len(q) + 1
    BY <1>7, <2>2
  <2> QED BY <1>2, <2>1, <2>3
<1>11. \A p \in Doing(q, "slot") : q[p].b # b
  <2> SUFFICES ASSUME NEW p \in Doing(q, "slot"), q[p].b = b PROVE FALSE
    OBVIOUS
  <2>1. p \in Doing(r, "slot") /\ r[p].b = b
    BY <1>5, <1>6
  <2>2. ~Held(h, r, col, b)
    BY <1>5 DEF Held
  <2>3. InBody(r, p)
    BY <1>3, <2>1, <2>2, TargetHeld
  <2>4. \A n \in Doing(r, "body") : r[n].b # b
    BY <1>5, <1>6, <1>10
  <2> QED BY <2>1, <2>3, <2>4 DEF InBody
<1>12. h[b].refs \in Nat /\ Count(h, l, r, col, b) \in Nat /\ b # None
  BY <1>2, <1>4, Types, SomeOwner
<1>13. ASSUME Safe(h, col, b) PROVE Count(h, l, r, col, b) = 0
  <2>1. h[b].refs = 0
    BY <1>7, <1>13 DEF Safe
  <2>2. h[b].refs >= Due(h, l, r, col, None, b)
    BY <1>4, <1>12, <1>13 DEF CountsOK, Due
  <2> QED BY <1>12, <2>1, <2>2 DEF Due
<1>14. ASSUME NEW v \in Locals, l[v] = b, ~Binding(q, v) PROVE FALSE
  <2>1. Safe(h, col, b)
    BY <1>4, <1>5, <1>12, <1>14 DEF OwnersOK
  <2>2. Count(h, l, r, col, b) > 0
    BY <1>2, <1>5, <1>14, SomeOwner
  <2> QED BY <1>13, <2>1, <2>2
<1>15. ASSUME NEW p \in Doing(q, "decref"), q[p].b = b PROVE FALSE
  <2>1. p \in Doing(r, "decref") /\ r[p].b = b /\ p \in 1..Len(r) /\ r[p].do = "decref"
    BY <1>5, <1>6, <1>15 DEF Doing
  <2>2. Safe(h, col, b) /\ Hits(h, col, r[p], b)
    BY <1>4, <2>1 DEF OwnersOK, Hits
  <2>3. Count(h, l, r, col, b) > 0
    BY <1>2, <2>1, <2>2, SomeOwner
  <2> QED BY <1>13, <2>2, <2>3
<1>16. ASSUME NEW p \in Doing(q, "slot"), q[p].x = b PROVE FALSE
  <2>1. p \in Doing(r, "slot") /\ r[p].x = b /\ p \in 1..Len(r) /\ r[p].do = "slot"
    BY <1>5, <1>6, <1>16 DEF Doing
  <2>2. Safe(h, col, b) /\ Hits(h, col, r[p], b)
    BY <1>4, <1>12, <2>1 DEF OwnersOK, Hits
  <2>3. Count(h, l, r, col, b) > 0
    BY <1>2, <2>1, <2>2, SomeOwner
  <2> QED BY <1>13, <2>2, <2>3
<1>17. ASSUME NEW c \in Blocks, NEW i \in Slots, Owns(h, r, c, i), ~White(h, col, c), h[c].kids[i] = b
       PROVE  FALSE
  <2>1. Safe(h, col, b)
    BY <1>4, <1>12, <1>17 DEF OwnersOK
  <2>2. Edge(h, r, col, c, i, b)
    BY <1>17 DEF Edge, Muted
  <2>3. Count(h, l, r, col, b) > 0
    BY <1>2, <2>2, SomeOwner
  <2> QED BY <1>13, <2>1, <2>3
<1>18. ASSUME Safe(h, col, b), NEW c \in Blocks, NEW i \in Slots, Edge(h, r, col, c, i, b) PROVE FALSE
  <2>1. Count(h, l, r, col, b) > 0
    BY <1>2, <1>18, SomeOwner
  <2> QED BY <1>13, <1>18, <2>1
<1> QED BY <1>7, <1>8, <1>9, <1>10, <1>11, <1>18, <1>14, <1>15, <1>16, <1>17

LEMMA WalkOn ==
    ASSUME NEW h, NEW l, NEW q \in Seq(OpRec), NEW col, NEW sup, NEW b \in Blocks, NEW i \in Slots,
           K(h, l, Push(q, WalkOp(b, i)), col, sup)
    PROVE  LET kid == h[b].kids[i]
               s == Push(q, WalkOp(b, i + 1)) IN
           /\ Low(h, s)
           /\ kid = None => K(h, l, s, col, sup)
           /\ kid # None => /\ kid \in Blocks
                            /\ Hits(h, col, DecrefAnyOp(kid), kid) => Owing(h, l, s, col, sup, kid)
                            /\ ~Hits(h, col, DecrefAnyOp(kid), kid) => K(h, l, s, col, sup) /\ col
<1> PICK o : o = WalkOp(b, i)
  OBVIOUS
<1> PICK e : e = WalkOp(b, i + 1)
  OBVIOUS
<1>1. /\ o \in OpRec /\ o.do = "walk" /\ o.b = b /\ o.at = i
      /\ e \in OpRec /\ OpOK(e) /\ e.do = "walk" /\ e.b = b /\ e.at = i + 1
      /\ i \in Nat /\ i \in 1..NumSlots + 1
  <2>1. i \in 1..NumSlots + 1 /\ i + 1 \in 1..NumSlots + 1 /\ i \in Nat
    BY GraphAssumption DEF Slots
  <2> QED BY <2>1, OpsTyped
<1> PICK r : r = Push(q, o)
  OBVIOUS
<1> PICK s : s = Push(q, e)
  OBVIOUS
<1> PICK kid : kid = h[b].kids[i]
  OBVIOUS
<1>2. /\ r \in Seq(OpRec) /\ Len(r) = Len(q) + 1 /\ Len(q) \in Nat /\ r[Len(q) + 1] = o
      /\ \A p \in 1..Len(q) : r[p] = q[p]
      /\ s \in Seq(OpRec) /\ Len(s) = Len(q) + 1 /\ s[Len(q) + 1] = e
      /\ \A p \in 1..Len(q) : s[p] = q[p]
  BY <1>1, PushIs
<1>3. Owing(h, l, r, col, sup, None) /\ Shape(h, l, r, col, sup)
  BY DEF K, Owing
<1>4. /\ TypesOK(h, l, r, col, sup) /\ HeadersOK(h) /\ BindsOK(h, l, r) /\ StoresOK(h, l, r)
      /\ FlagOK(h, r, sup) /\ (GuardsHoldScalars => GuardsOK(h, r)) /\ OwnersOK(h, l, r, col)
      /\ WalksOK(h, r, col) /\ CountsOK(h, l, r, col, None) /\ ZeroWalked(h, r) /\ SweepsOK(h, r, col)
      /\ TopsOK(h, r, col)
  BY <1>3 DEF Owing, Shape
<1>5. /\ Used(h, b) /\ (h[b].refs = 0 \/ White(h, col, b)) /\ ~Walked(q, b) /\ Low(h, q)
      /\ \A p \in Doing(q, "slot") : q[p].b # b
      /\ \A p \in Doing(q, "body") : q[p].b # b
  <2>1. i \in 1..NumSlots + 1 /\ K(h, l, Push(q, WalkOp(b, i)), col, sup)
    BY <1>1
  <2> QED BY ONLY <2>1, WalkTop, b \in Blocks, q \in Seq(OpRec)
<1>6. /\ TypesOK(h, l, q, col, sup) /\ BindsOK(h, l, q) /\ StoresOK(h, l, q)
  BY <1>1, <1>4, PopKeeps
<1>7. /\ TypesOK(h, l, s, col, sup) /\ BindsOK(h, l, s) /\ StoresOK(h, l, s)
      /\ TopsOK(h, s, col) /\ Low(h, s)
  BY <1>1, <1>5, <1>6, PushKeeps
<1>8. /\ \A do : do # "walk" => Doing(r, do) = Doing(q, do) /\ Doing(s, do) = Doing(q, do)
      /\ \A p : p \in Doing(r, "walk") <=> p \in Doing(q, "walk") \/ p = Len(q) + 1
      /\ \A p : p \in Doing(s, "walk") <=> p \in Doing(q, "walk") \/ p = Len(q) + 1
      /\ \A v : (Binding(r, v) <=> Binding(q, v)) /\ (Binding(s, v) <=> Binding(q, v))
      /\ \A c : Walked(r, c) <=> Walked(s, c)
      /\ \A c, j : (Storing(r, c, j) <=> Storing(q, c, j)) /\ (Storing(s, c, j) <=> Storing(q, c, j))
      /\ \A c, j : Passed(r, c, j) <=> Passed(q, c, j) \/ (b = c /\ i > j)
      /\ \A c, j : Passed(s, c, j) <=> Passed(q, c, j) \/ (b = c /\ i + 1 > j)
  BY <1>1, PushMeans
<1>9. \A do : \A p \in Doing(q, do) : r[p] = q[p] /\ s[p] = q[p] /\ p \in 1..Len(q)
  BY <1>2 DEF Doing
<1>10. /\ Doing(r, "walk") = Doing(s, "walk")
       /\ \A p \in Doing(s, "walk") : r[p].b = s[p].b
       /\ Doing(r, "sweep") = Doing(s, "sweep") /\ \A p \in Doing(s, "sweep") : r[p] = s[p]
       /\ \A do \in {"decref", "any", "slot"} :
            Doing(r, do) = Doing(s, do) /\ \A p \in Doing(s, do) : r[p] = s[p]
  <2>1. Doing(r, "walk") = Doing(s, "walk")
    BY <1>8
  <2> QED BY <1>1, <1>2, <1>8, <1>9, <2>1
<1>11. ~Storing(q, b, i) /\ ~Passed(q, b, i)
  BY <1>5 DEF Storing, Passed, Walked
<1>12. /\ Owns(h, r, b, i) /\ ~Owns(h, s, b, i)
       /\ \A c \in Blocks, j \in Slots : c # b \/ j # i => (Owns(h, s, c, j) <=> Owns(h, r, c, j))
  <2>1. \A j \in Slots : j # i => (i > j <=> i + 1 > j)
    BY DEF Slots
  <2>2. ~(i > i) /\ i + 1 > i
    BY <1>1
  <2> QED BY <1>5, <1>8, <1>11, <2>1, <2>2 DEF Owns
<1>13. \A c \in Blocks, j \in Slots : Owns(h, s, c, j) => Owns(h, r, c, j)
  BY <1>12
<1>14. OwnersOK(h, l, s, col)
  BY <1>4, <1>8, <1>10, <1>13 DEF OwnersOK
<1>15. WalksOK(h, s, col)
  <2>1. ASSUME NEW p \in Doing(s, "body") PROVE p > 1 /\ s[p - 1] = WalkOp(s[p].b, 1) /\ h[s[p].b].dying
    <3>1. p \in Doing(r, "body") /\ r[p] = s[p] /\ p \in 1..Len(q)
      BY <1>8, <1>9
    <3>2. p > 1 /\ r[p - 1] = WalkOp(r[p].b, 1) /\ h[r[p].b].dying
      BY <1>4, <3>1 DEF WalksOK
    <3>3. r[p - 1] = s[p - 1]
      BY <1>2, <3>1, <3>2
    <3> QED BY <3>1, <3>2, <3>3
  <2> QED BY <1>4, <1>10, <2>1 DEF WalksOK
<1>16. FlagOK(h, s, sup)
  BY <1>4, <1>10 DEF FlagOK
<1>17. GuardsHoldScalars => GuardsOK(h, s)
  BY <1>4, <1>10, <1>13 DEF GuardsOK
<1>18. Shape(h, l, s, col, sup)
  BY <1>4, <1>7, <1>14, <1>15, <1>16, <1>17 DEF Shape
<1>19. ZeroWalked(h, s) /\ SweepsOK(h, s, col)
  <2>1. ZeroWalked(h, s)
    BY <1>4, <1>8 DEF ZeroWalked
  <2>2. SweepsOK(h, s, col)
    BY <1>4, <1>10 DEF SweepsOK
  <2> QED BY <2>1, <2>2
<1>20. ASSUME NEW c \in Blocks
       PROVE  /\ Edge(h, r, col, b, i, c) => Count(h, l, r, col, c) = Count(h, l, s, col, c) + 1
              /\ ~Edge(h, r, col, b, i, c) => Count(h, l, r, col, c) = Count(h, l, s, col, c)
              /\ Count(h, l, s, col, c) \in Nat
  <2>1. Vn(l, r, c) = Vn(l, s, c)
    BY <1>2, <1>8, VarsSame
  <2>2. On(h, r, col, c) = On(h, s, col, c)
    <3>1. ~Hits(h, col, o, c) /\ ~Hits(h, col, e, c)
      BY <1>1 DEF Hits
    <3>2. On(h, r, col, c) = On(h, q, col, c)
      BY <1>1, <3>1, OpsPush
    <3>3. On(h, s, col, c) = On(h, q, col, c)
      BY <1>1, <3>1, OpsPush
    <3> QED BY <3>2, <3>3
  <2>3. \A d \in Blocks, j \in Slots : (d # b \/ j # i) => (Edge(h, r, col, d, j, c) <=> Edge(h, s, col, d, j, c))
    BY <1>12 DEF Edge
  <2>4. ~Edge(h, s, col, b, i, c)
    BY <1>12 DEF Edge
  <2>5. /\ Edge(h, r, col, b, i, c) => Sn(h, r, col, c) = Sn(h, s, col, c) + 1
        /\ ~Edge(h, r, col, b, i, c) => Sn(h, r, col, c) = Sn(h, s, col, c)
    BY <1>2, <2>3, <2>4, SlotsMove
  <2> QED BY <1>2, <2>1, <2>2, <2>5, Finite
<1>21. kid \in Blocks \cup {None} /\ None \notin Blocks /\ col \in BOOLEAN
  BY <1>4, Types
<1>22. ASSUME kid = None PROVE K(h, l, s, col, sup)
  <2>1. \A c \in Blocks : ~Edge(h, r, col, b, i, c)
    BY <1>21, <1>22 DEF Edge
  <2>2. CountsOK(h, l, s, col, None)
    BY <1>4, <1>20, <2>1 DEF CountsOK, Due
  <2> QED BY <1>18, <1>19, <2>2 DEF K, Owing
<1>23. ASSUME kid # None PROVE kid \in Blocks /\ (Hits(h, col, DecrefAnyOp(kid), kid) <=> (col => h[kid].marked))
  <2>1. kid \in Blocks
    BY <1>21, <1>23
  <2> QED BY <2>1 DEF Hits, DecrefAnyOp, Op
<1>24. ASSUME kid # None, col => h[kid].marked PROVE Owing(h, l, s, col, sup, kid)
  <2>1. kid \in Blocks
    BY <1>23, <1>24
  <2>2. Safe(h, col, kid)
    <3>1. CASE White(h, col, b)
      <4>1. h[kid].marked
        BY <1>24, <3>1 DEF White
      <4>2. Used(h, kid)
        BY <1>4, <2>1, <4>1 DEF HeadersOK, Free
      <4> QED BY <2>1, <4>1, <4>2 DEF Safe, White
    <3>2. CASE ~White(h, col, b)
      BY <1>4, <1>12, <1>24, <3>2 DEF OwnersOK
    <3> QED BY <3>1, <3>2
  <2>3. Edge(h, r, col, b, i, kid)
    BY <1>12, <1>24 DEF Edge, Muted, White
  <2>4. \A c \in Blocks : c # kid => ~Edge(h, r, col, b, i, c)
    BY DEF Edge
  <2>5. \A c \in Blocks : Due(h, l, s, col, kid, c) = Due(h, l, r, col, None, c)
    BY <1>20, <1>21, <2>1, <2>3, <2>4 DEF Due
  <2>6. CountsOK(h, l, s, col, kid)
    BY <1>4, <2>5 DEF CountsOK
  <2> QED BY <1>18, <1>19, <2>2, <2>6 DEF Owing
<1>25. ASSUME kid # None, col, ~h[kid].marked PROVE K(h, l, s, col, sup)
  <2>1. kid \in Blocks
    BY <1>23, <1>25
  <2>2. ASSUME Safe(h, col, kid), h[kid].layout # "scalars" PROVE FALSE
    <3>1. ~Live(h, kid) /\ h[kid].refs \in Nat
      BY <1>4, <1>25, <2>1, <2>2, Types DEF Safe, White
    <3>2. Edge(h, r, col, b, i, kid)
      BY <1>12, <2>2 DEF Edge, Muted
    <3>3. Count(h, l, r, col, kid) > 0
      BY <1>20, <2>1, <3>2
    <3>4. Held(h, r, col, kid)
      BY <1>3, <2>2, <3>3, OwnedHeld
    <3> QED BY <3>1, <3>4 DEF Held, Live
  <2>3. \A c \in Blocks : c # kid => ~Edge(h, r, col, b, i, c)
    BY DEF Edge
  <2>4. ASSUME NEW c \in Blocks, Safe(h, col, c)
        PROVE  IF h[c].layout = "scalars" THEN h[c].refs >= Due(h, l, s, col, None, c)
               ELSE h[c].refs = Due(h, l, s, col, None, c)
    <3>1. /\ h[c].refs \in Nat /\ c # None
          /\ Count(h, l, s, col, c) \in Nat
          /\ Count(h, l, r, col, c) = Count(h, l, s, col, c) \/ Count(h, l, r, col, c) = Count(h, l, s, col, c) + 1
      BY <1>4, <1>20, <1>21, Types
    <3>2. h[c].layout # "scalars" => Count(h, l, r, col, c) = Count(h, l, s, col, c)
      BY <1>20, <2>2, <2>3, <2>4
    <3>3. IF h[c].layout = "scalars" THEN h[c].refs >= Due(h, l, r, col, None, c)
          ELSE h[c].refs = Due(h, l, r, col, None, c)
      BY <1>4, <2>4 DEF CountsOK
    <3> QED BY <3>1, <3>2, <3>3 DEF Due
  <2>5. CountsOK(h, l, s, col, None)
    BY <2>4 DEF CountsOK
  <2> QED BY <1>18, <1>19, <2>5 DEF K, Owing
<1> QED BY <1>7, <1>22, <1>23, <1>24, <1>25

\* h with b free.
Freed(h, b) == [h EXCEPT ![b] = Free]

LEMMA FreedIs ==
    ASSUME NEW h \in [Blocks -> Header], NEW b \in Blocks
    PROVE  /\ Freed(h, b) \in [Blocks -> Header]
           /\ Freed(h, b)[b] = Free
           /\ \A c \in Blocks : c # b => Freed(h, b)[c] = h[c]
           /\ Free.layout = "free" /\ Free.refs = 0 /\ ~Free.dying /\ ~Free.marked
           /\ \A i \in Slots : Free.kids[i] = None
  BY DEF Freed, Free, Header

LEMMA WalkDone ==
    ASSUME NEW h, NEW l, NEW q \in Seq(OpRec), NEW col, NEW sup, NEW b \in Blocks,
           K(h, l, Push(q, WalkOp(b, NumSlots + 1)), col, sup)
    PROVE  K(Freed(h, b), l, q, col, sup /\ h[b].layout = "mixed")
<1> PICK at : at = NumSlots + 1
  OBVIOUS
<1> PICK o : o = WalkOp(b, at)
  OBVIOUS
<1>1. o \in OpRec /\ o.do = "walk" /\ o.b = b /\ o.at = at /\ at \in 1..NumSlots + 1 /\ \A i \in Slots : at > i
  <2>1. at \in 1..NumSlots + 1 /\ \A i \in Slots : at > i
    BY GraphAssumption DEF Slots
  <2> QED BY <2>1, OpsTyped
<1> PICK r : r = Push(q, o)
  OBVIOUS
<1>2. /\ r \in Seq(OpRec) /\ Len(r) = Len(q) + 1 /\ Len(q) \in Nat /\ r[Len(q) + 1] = o
      /\ \A p \in 1..Len(q) : r[p] = q[p]
  BY <1>1, PushIs
<1>3. Owing(h, l, r, col, sup, None) /\ Shape(h, l, r, col, sup)
  BY DEF K, Owing
<1>4. /\ TypesOK(h, l, r, col, sup) /\ HeadersOK(h) /\ BindsOK(h, l, r) /\ StoresOK(h, l, r)
      /\ FlagOK(h, r, sup) /\ (GuardsHoldScalars => GuardsOK(h, r)) /\ OwnersOK(h, l, r, col)
      /\ WalksOK(h, r, col) /\ CountsOK(h, l, r, col, None) /\ ZeroWalked(h, r) /\ SweepsOK(h, r, col)
      /\ TopsOK(h, r, col)
  BY <1>3 DEF Owing, Shape
<1>5. /\ Used(h, b) /\ (h[b].refs = 0 \/ White(h, col, b)) /\ ~Walked(q, b) /\ Low(h, q)
      /\ \A p \in Doing(q, "body") : q[p].b # b
      /\ \A p \in Doing(q, "slot") : q[p].b # b
      /\ Safe(h, col, b) => \A c \in Blocks, i \in Slots : ~Edge(h, r, col, c, i, b)
      /\ \A v \in Locals : l[v] = b => Binding(q, v)
      /\ \A p \in Doing(q, "decref") : q[p].b # b
      /\ \A p \in Doing(q, "slot") : q[p].x # b
      /\ \A c \in Blocks, i \in Slots :
           Owns(h, r, c, i) /\ ~White(h, col, c) => h[c].kids[i] # b
  <2>1. at \in 1..NumSlots + 1 /\ K(h, l, Push(q, WalkOp(b, at)), col, sup) /\ r = Push(q, WalkOp(b, at))
    BY <1>1
  <2>2. /\ Used(h, b) /\ (h[b].refs = 0 \/ White(h, col, b)) /\ ~Walked(q, b) /\ Low(h, q)
        /\ \A p \in Doing(q, "body") : q[p].b # b
        /\ \A p \in Doing(q, "slot") : q[p].b # b
        /\ \A p \in Doing(q, "decref") : q[p].b # b
        /\ \A p \in Doing(q, "slot") : q[p].x # b
    BY ONLY <2>1, WalkTop, b \in Blocks, q \in Seq(OpRec)
  <2>3. \A v \in Locals : l[v] = b => Binding(q, v)
    BY ONLY <2>1, WalkTop, b \in Blocks, q \in Seq(OpRec)
  <2>4. \A c \in Blocks, i \in Slots :
           Owns(h, r, c, i) /\ ~White(h, col, c) => h[c].kids[i] # b
    <3> SUFFICES ASSUME NEW c \in Blocks, NEW i \in Slots,
                        Owns(h, Push(q, WalkOp(b, at)), c, i), ~White(h, col, c)
                 PROVE  h[c].kids[i] # b
      BY <2>1
    <3> QED BY ONLY <2>1, WalkTop, b \in Blocks, q \in Seq(OpRec), c \in Blocks, i \in Slots,
                    Owns(h, Push(q, WalkOp(b, at)), c, i), ~White(h, col, c)
  <2>5. Safe(h, col, b) => \A c \in Blocks, i \in Slots : ~Edge(h, r, col, c, i, b)
    BY ONLY <2>1, WalkTop, b \in Blocks, q \in Seq(OpRec)
  <2> QED BY <2>2, <2>3, <2>4, <2>5
<1>6. /\ TypesOK(h, l, q, col, sup) /\ BindsOK(h, l, q) /\ StoresOK(h, l, q) /\ WalksOK(h, q, col)
      /\ TopsOK(h, q, col)
  BY <1>1, <1>4, PopKeeps
<1>7. /\ \A do : do # "walk" => Doing(r, do) = Doing(q, do)
      /\ \A p : p \in Doing(r, "walk") <=> p \in Doing(q, "walk") \/ p = Len(q) + 1
      /\ \A v : Binding(r, v) <=> Binding(q, v)
      /\ \A c : Walked(r, c) <=> Walked(q, c) \/ c = b
      /\ \A c, j : Storing(r, c, j) <=> Storing(q, c, j)
      /\ \A c, j : Passed(r, c, j) <=> Passed(q, c, j) \/ (b = c /\ at > j)
  BY <1>1, PushMeans
<1>8. \A do : \A p \in Doing(q, do) : r[p] = q[p] /\ p \in 1..Len(q)
  BY <1>2 DEF Doing
<1>9. \A do \in {"decref", "any", "slot", "sweep", "body", "bind"} :
         Doing(r, do) = Doing(q, do) /\ \A p \in Doing(q, do) : r[p] = q[p] /\ p \in 1..Len(q)
  BY <1>7, <1>8
<1> PICK g : g = Freed(h, b)
  OBVIOUS
<1>10. /\ g \in [Blocks -> Header] /\ g[b].layout = "free" /\ g[b].refs = 0 /\ ~g[b].dying /\ ~g[b].marked
       /\ \A i \in Slots : g[b].kids[i] = None
       /\ g[b] = Free
       /\ \A c \in Blocks : c # b => g[c] = h[c]
  <2>1. h \in [Blocks -> Header]
    BY <1>4 DEF TypesOK, Header
  <2> QED BY <2>1, FreedIs
<1>11. /\ ~Used(g, b) /\ ~White(g, col, b) /\ ~Safe(g, col, b)
       /\ \A c \in Blocks : c # b => (Used(g, c) <=> Used(h, c)) /\ (White(g, col, c) <=> White(h, col, c))
                                  /\ (Safe(g, col, c) <=> Safe(h, col, c))
  BY <1>10 DEF Used, White, Live, Safe
<1>12. /\ \A i \in Slots : ~Owns(g, q, b, i) /\ ~Owns(h, r, b, i)
       /\ \A c \in Blocks, i \in Slots : c # b => (Owns(g, q, c, i) <=> Owns(h, r, c, i))
  <2>1. \A i \in Slots : ~Owns(g, q, b, i) /\ ~Owns(h, r, b, i)
    BY <1>1, <1>7, <1>11 DEF Owns
  <2> QED BY <1>7, <1>11, <2>1 DEF Owns
<1>13. /\ \A c \in Blocks, i \in Slots : h[c].kids[i] \in Blocks \cup {None}
       /\ \A v \in Locals : l[v] \in Blocks \cup {None}
       /\ None \notin Blocks /\ col \in BOOLEAN
       /\ \A do : \A p \in Doing(q, do) : OpOK(q[p])
  <2>1. TypesOK(h, l, r, col, sup) /\ TypesOK(h, l, q, col, sup)
    BY <1>4, <1>6
  <2> QED BY <2>1, Types
<1>14. TypesOK(g, l, q, col, sup /\ h[b].layout = "mixed")
  BY <1>6, <1>10 DEF TypesOK
<1>15. HeadersOK(g)
  BY <1>4, <1>10, <1>11 DEF HeadersOK
<1>16. OwnersOK(g, l, q, col)
  <2>1. ASSUME NEW v \in Locals, l[v] # None, ~Binding(q, v) PROVE Safe(g, col, l[v])
    BY <1>4, <1>5, <1>7, <1>11, <1>13, <2>1 DEF OwnersOK
  <2>2. ASSUME NEW p \in Doing(q, "decref") PROVE Safe(g, col, q[p].b)
    <3>1. Safe(h, col, q[p].b) /\ q[p].b # b
      BY <1>4, <1>5, <1>9 DEF OwnersOK
    <3> QED BY <1>11, <3>1 DEF Safe
  <2>3. ASSUME NEW p \in Doing(q, "slot"), q[p].x # None PROVE Safe(g, col, q[p].x)
    <3>1. Safe(h, col, q[p].x) /\ q[p].x # b
      BY <1>4, <1>5, <1>9, <2>3 DEF OwnersOK
    <3> QED BY <1>11, <3>1 DEF Safe
  <2>4. ASSUME NEW c \in Blocks, NEW i \in Slots, Owns(g, q, c, i), ~White(g, col, c), g[c].kids[i] # None
        PROVE  Safe(g, col, g[c].kids[i])
    <3>1. c # b /\ g[c] = h[c]
      BY <1>10, <1>12, <2>4
    <3>2. Owns(h, r, c, i) /\ ~White(h, col, c) /\ h[c].kids[i] # None
      BY <1>11, <1>12, <2>4, <3>1
    <3>3. Safe(h, col, h[c].kids[i]) /\ h[c].kids[i] # b
      BY <1>4, <1>5, <3>2 DEF OwnersOK
    <3> QED BY <1>11, <3>1, <3>3 DEF Safe
  <2>5. Doing(q, "any") = {}
    BY <1>5 DEF Low
  <2> QED BY <2>1, <2>2, <2>3, <2>4, <2>5 DEF OwnersOK
<1>17. WalksOK(g, q, col)
  <2>1. \A p \in Doing(q, "walk") : q[p].b \in Blocks /\ q[p].b # b
    BY <1>5, <1>13 DEF OpOK, Doing, Walked
  <2>2. \A p \in Doing(q, "body") : q[p].b \in Blocks /\ q[p].b # b
    BY <1>5, <1>13 DEF OpOK, Doing
  <2> QED BY <1>6, <1>10, <1>11, <2>1, <2>2 DEF WalksOK
<1>18. BindsOK(g, l, q)
  <2>1. ASSUME NEW p \in Doing(q, "bind"), NEW w \in Locals \ {q[p].at}, Shows(h, l, w, q[p].x)
        PROVE  Shows(g, l, w, q[p].x)
    <3>1. ~Binding(q, w)
      <4> SUFFICES ASSUME NEW n \in Doing(q, "bind"), q[n].at = w PROVE FALSE
        BY DEF Binding
      <4>1. Outermost(q, n) /\ Outermost(q, p)
        BY <1>6 DEF BindsOK
      <4>2. n = p
        BY <4>1, OneOutermost
      <4> QED BY <4>2
    <3>2. l[w] # b
      BY <1>5, <3>1
    <3> QED BY <1>10, <1>13, <2>1, <3>2 DEF Shows
  <2> QED BY <1>6, <2>1 DEF BindsOK
<1>19. StoresOK(g, l, q)
  <2>1. ASSUME NEW p \in Doing(q, "slot"), Outermost(q, p), NEW v \in Locals, Shows(h, l, v, q[p].b)
        PROVE  Shows(g, l, v, q[p].b)
    <3>1. ~Binding(q, v)
      BY <1>6, <2>1, NoBind
    <3>2. l[v] # b
      BY <1>5, <3>1
    <3> QED BY <1>10, <1>13, <2>1, <3>2 DEF Shows
  <2>2. ASSUME NEW c \in Blocks, NEW x, Apart(h, c, x) PROVE Apart(g, c, x)
    <3> SUFFICES ASSUME x # None PROVE Apart(g, c, x)
      BY DEF Apart
    <3>1. PICK S \in SUBSET Blocks :
            /\ c \notin S /\ x \in S
            /\ \A d \in S, i \in Slots :
                 h[d].kids[i] # None /\ Used(h, h[d].kids[i]) => h[d].kids[i] \in S
            /\ \A d \in Blocks \ {c} : h[d].layout = "scalars" => d \in S
      BY <2>2 DEF Apart
    <3>2. ASSUME NEW d \in S, NEW i \in Slots, g[d].kids[i] # None, Used(g, g[d].kids[i])
          PROVE  g[d].kids[i] \in S
      <4>1. d # b /\ g[d].kids[i] = h[d].kids[i] /\ g[d].kids[i] \in Blocks
        BY <1>10, <1>13, <3>2
      <4>2. Used(h, h[d].kids[i])
        BY <1>11, <3>2, <4>1
      <4> QED BY <3>1, <3>2, <4>1, <4>2
    <3>3. \A d \in Blocks \ {c} : g[d].layout = "scalars" => d \in S
      BY <1>10, <3>1
    <3> QED BY <3>1, <3>2, <3>3 DEF Apart
  <2>3. ASSUME NEW p \in Doing(q, "slot")
        PROVE  q[p].b \in Blocks /\ q[p].b # b /\ g[q[p].b] = h[q[p].b] /\ (Used(g, q[p].b) <=> Used(h, q[p].b))
    <3>1. q[p].b \in Blocks
      BY <1>13 DEF OpOK, Doing
    <3> QED BY <1>5, <1>10, <1>11, <3>1
  <2> QED BY <1>6, <2>1, <2>2, <2>3 DEF StoresOK
<1>20. TopsOK(g, q, col)
  <2>1. \A p \in Doing(q, "decref") : q[p].b \in Blocks /\ q[p].b # b
    BY <1>5, <1>13 DEF OpOK, Doing
  <2> QED BY <1>6, <1>10, <2>1 DEF TopsOK
<1>21. FlagOK(g, q, sup /\ h[b].layout = "mixed")
  <2> SUFFICES ASSUME sup, h[b].layout = "mixed" PROVE \E p \in Doing(q, "walk") : g[q[p].b].layout # "mixed"
    BY DEF FlagOK
  <2>1. PICK p \in Doing(r, "walk") : h[r[p].b].layout # "mixed"
    BY <1>4 DEF FlagOK
  <2>2. p # Len(q) + 1
    BY <1>1, <1>2, <2>1
  <2>3. p \in Doing(q, "walk") /\ r[p] = q[p] /\ q[p].b \in Blocks /\ q[p].b # b
    BY <1>5, <1>7, <1>8, <1>13, <2>1, <2>2 DEF OpOK, Doing, Walked
  <2> QED BY <1>10, <2>1, <2>3
<1>22. GuardsHoldScalars => GuardsOK(g, q)
  <2> SUFFICES ASSUME GuardsHoldScalars PROVE GuardsOK(g, q)
    OBVIOUS
  <2>1. ASSUME NEW c \in Blocks, NEW i \in Slots, Owns(g, q, c, i), g[c].layout = "dtor", g[c].kids[i] # None
        PROVE  g[g[c].kids[i]].layout = "scalars"
    <3>1. c # b /\ g[c] = h[c] /\ Owns(h, r, c, i) /\ h[c].kids[i] \in Blocks
      BY <1>10, <1>12, <1>13, <2>1
    <3>2. h[h[c].kids[i]].layout = "scalars"
      BY <1>4, <2>1, <3>1 DEF GuardsOK
    <3>3. h[c].kids[i] # b
      <4> SUFFICES ASSUME h[c].kids[i] = b PROVE FALSE
        OBVIOUS
      <4>1. Safe(h, col, b)
        BY <1>5, <3>2 DEF Safe, White
      <4>2. Edge(h, r, col, c, i, b)
        BY <2>1, <3>1 DEF Edge, Muted
      <4> QED BY <1>5, <4>1, <4>2
    <3> QED BY <1>10, <3>1, <3>2, <3>3
  <2>2. ASSUME NEW p \in Doing(q, "slot"), g[q[p].b].layout = "dtor", q[p].x # None
        PROVE  g[q[p].x].layout = "scalars"
    <3>1. q[p].b \in Blocks /\ q[p].x \in Blocks /\ q[p].b # b /\ q[p].x # b
      BY <1>5, <1>13, <2>2 DEF OpOK, Doing
    <3>2. h[q[p].x].layout = "scalars"
      BY <1>4, <1>9, <1>10, <2>2, <3>1 DEF GuardsOK
    <3> QED BY <1>10, <3>1, <3>2
  <2> QED BY <2>1, <2>2 DEF GuardsOK
<1>23. CountsOK(g, l, q, col, None)
  <2>1. ASSUME NEW c \in Blocks, c # b PROVE Count(g, l, q, col, c) = Count(h, l, r, col, c)
    <3>1. \A d \in Blocks, j \in Slots : Edge(g, q, col, d, j, c) <=> Edge(h, r, col, d, j, c)
      <4>1. \A d \in Blocks : d # b => (Muted(g, col, d, c) <=> Muted(h, col, d, c))
        BY <1>10, <1>11, <2>1 DEF Muted
      <4> QED BY <1>10, <1>12, <4>1 DEF Edge
    <3>2. Sn(g, q, col, c) = Sn(h, r, col, c)
      BY <1>2, <3>1, SlotsSame
    <3>3. Vn(l, q, c) = Vn(l, r, c)
      BY <1>2, <1>7, VarsSame
    <3>4. On(h, r, col, c) = On(h, q, col, c)
      BY <1>1, OpsPush DEF Hits
    <3>5. On(g, q, col, c) = On(h, q, col, c)
      <4>1. OpsOf(g, q, col, c) = OpsOf(h, q, col, c)
        BY <1>10, <2>1 DEF OpsOf, Hits
      <4> QED BY <4>1 DEF On
    <3> QED BY <1>2, <3>2, <3>3, <3>4, <3>5, Finite
  <2>2. \A c \in Blocks : Safe(g, col, c) => c # b /\ Safe(h, col, c) /\ g[c] = h[c]
    BY <1>10, <1>11
  <2> QED BY <1>4, <2>1, <2>2 DEF CountsOK, Due
<1>24. ZeroWalked(g, q)
  BY <1>4, <1>7, <1>10, <1>11 DEF ZeroWalked
<1>25. SweepsOK(g, q, col)
  <2>1. \A c \in Blocks : White(g, col, c) => White(h, col, c) /\ c # b
    BY <1>11
  <2>2. \A p \in Doing(q, "walk") : q[p].b \in Blocks /\ p \in Doing(r, "walk") /\ r[p] = q[p]
    BY <1>7, <1>8, <1>13 DEF OpOK, Doing
  <2>3. \A p \in Doing(r, "walk") : p \in Doing(q, "walk") \/ r[p].b = b
    BY <1>1, <1>2, <1>7
  <2>4. col <=> Doing(q, "sweep") # {}
    BY <1>4, <1>9 DEF SweepsOK
  <2>5. ASSUME NEW p \in Doing(q, "sweep")
        PROVE  /\ \A n \in Doing(q, "sweep") : n = p
               /\ \A n \in Doing(q, "walk") : n < p => ~White(g, col, q[n].b)
               /\ \A c \in Blocks : White(g, col, c) =>
                    c >= q[p].at \/ \E n \in Doing(q, "walk") : n > p /\ q[n].b = c
    <3>1. p \in Doing(r, "sweep") /\ r[p] = q[p] /\ Doing(r, "sweep") = Doing(q, "sweep")
      BY <1>9
    <3>2. /\ \A n \in Doing(r, "sweep") : n = p
          /\ \A n \in Doing(r, "walk") : n < p => ~White(h, col, r[n].b)
          /\ \A c \in Blocks : White(h, col, c) =>
               c >= r[p].at \/ \E n \in Doing(r, "walk") : n > p /\ r[n].b = c
      BY <1>4, <3>1 DEF SweepsOK
    <3>3. \A n \in Doing(q, "walk") : n < p => ~White(g, col, q[n].b)
      BY <2>1, <2>2, <3>2
    <3>4. ASSUME NEW c \in Blocks, White(g, col, c)
          PROVE  c >= q[p].at \/ \E n \in Doing(q, "walk") : n > p /\ q[n].b = c
      <4>1. c >= q[p].at \/ \E n \in Doing(r, "walk") : n > p /\ r[n].b = c
        BY <2>1, <3>1, <3>2, <3>4
      <4> QED BY <2>1, <2>2, <2>3, <3>4, <4>1
    <3> QED BY <3>1, <3>2, <3>3, <3>4
  <2> QED BY <2>4, <2>5 DEF SweepsOK
<1> QED BY <1>14, <1>15, <1>16, <1>17, <1>18, <1>19, <1>20, <1>21, <1>22, <1>23, <1>24, <1>25 DEF K, Owing, Shape

-----------------------------------------------------------------------------
(* A new block. *)

LEMMA NoneOf == ASSUME NEW S, S = {} PROVE Cardinality(S) = 0
  BY FS_EmptySet

\* h with z in b.
Built(h, b, z) == [h EXCEPT ![b] = z]

LEMMA BuiltIs ==
    ASSUME NEW h \in [Blocks -> Header], NEW b \in Blocks, NEW z \in Header
    PROVE  /\ Built(h, b, z) \in [Blocks -> Header]
           /\ Built(h, b, z)[b] = z
           /\ \A c \in Blocks : c # b => Built(h, b, z)[c] = h[c]
  BY DEF Built

\* Nothing in hand refers to a free block.
LEMMA FreeUnowned ==
    ASSUME NEW h, NEW l, NEW q, NEW col, NEW sup, NEW x, Owing(h, l, q, col, sup, x),
           NEW b \in Blocks, ~Used(h, b)
    PROVE  /\ \A v \in Locals : l[v] = b => Binding(q, v)
           /\ \A p \in Doing(q, "decref") : q[p].b # b
           /\ \A p \in Doing(q, "slot") : q[p].x # b /\ q[p].b # b
           /\ \A p \in Doing(q, "walk") : q[p].b # b
           /\ \A p \in Doing(q, "body") : q[p].b # b
           /\ x # b
           /\ h[b] = Free
<1>1. /\ TypesOK(h, l, q, col, sup) /\ HeadersOK(h) /\ OwnersOK(h, l, q, col) /\ WalksOK(h, q, col)
      /\ StoresOK(h, l, q) /\ None \notin Blocks
  BY Types DEF Owing, Shape
<1>2. h[b] = Free /\ ~h[b].dying
  <2>1. h[b] = Free
    BY <1>1 DEF HeadersOK
  <2>2. ~Free.dying
    BY DEF Free
  <2> QED BY <2>1, <2>2
<1>3. ~Safe(h, col, b) /\ x # b
  BY <1>1 DEF Safe, Owing
<1>4. \A v \in Locals : l[v] = b => Binding(q, v)
  BY <1>1, <1>3 DEF OwnersOK
<1>5. \A p \in Doing(q, "decref") : q[p].b # b
  BY <1>1, <1>3 DEF OwnersOK
<1>6. \A p \in Doing(q, "slot") : q[p].x # b /\ q[p].b # b
  BY <1>1, <1>3 DEF OwnersOK, StoresOK
<1>7. \A p \in Doing(q, "walk") : q[p].b # b
  BY <1>1 DEF WalksOK
<1>8. \A p \in Doing(q, "body") : q[p].b # b
  BY <1>1, <1>2 DEF WalksOK
<1> QED BY <1>2, <1>3, <1>4, <1>5, <1>6, <1>7, <1>8

LEMMA Make ==
    ASSUME NEW h, NEW l, NEW q \in Seq(OpRec), NEW col, NEW sup, NEW x, Owing(h, l, q, col, sup, x),
           Low(h, q), NEW b \in Blocks, ~Used(h, b),
           NEW z \in Header, z.layout # "free", z.refs = 1, ~z.dying, ~z.marked,
           \A i \in Slots : z.kids[i] = IF i = 1 THEN x ELSE None,
           z.layout \in {"scalars", "dtor"} => x = None,
           ~col \/ (z.layout = "scalars" /\ GuardsHoldScalars),
           x # None => Doing(q, "slot") = {}
    PROVE  Owing(Built(h, b, z), l, q, col, sup, b)
<1>1. /\ TypesOK(h, l, q, col, sup) /\ HeadersOK(h) /\ BindsOK(h, l, q) /\ StoresOK(h, l, q)
      /\ FlagOK(h, q, sup) /\ (GuardsHoldScalars => GuardsOK(h, q)) /\ OwnersOK(h, l, q, col)
      /\ WalksOK(h, q, col) /\ CountsOK(h, l, q, col, x) /\ ZeroWalked(h, q) /\ SweepsOK(h, q, col)
      /\ TopsOK(h, q, col) /\ (x # None => Safe(h, col, x))
  BY DEF Owing, Shape
<1>2. /\ \A v \in Locals : l[v] = b => Binding(q, v)
      /\ \A p \in Doing(q, "decref") : q[p].b # b
      /\ \A p \in Doing(q, "slot") : q[p].x # b /\ q[p].b # b
      /\ \A p \in Doing(q, "walk") : q[p].b # b
      /\ \A p \in Doing(q, "body") : q[p].b # b
      /\ x # b
      /\ h[b] = Free
  BY FreeUnowned
<1>3. /\ \A c \in Blocks, i \in Slots : h[c].kids[i] \in Blocks \cup {None}
      /\ \A v \in Locals : l[v] \in Blocks \cup {None}
      /\ None \notin Blocks /\ col \in BOOLEAN
      /\ \A do : \A p \in Doing(q, do) : OpOK(q[p]) /\ q[p].do = do
      /\ h \in [Blocks -> Header]
  <2>1. h \in [Blocks -> Header]
    BY <1>1 DEF TypesOK, Header
  <2> QED BY <1>1, <2>1, Types
<1> PICK g : g = Built(h, b, z)
  OBVIOUS
<1>4. g \in [Blocks -> Header] /\ g[b] = z /\ \A c \in Blocks : c # b => g[c] = h[c]
  BY <1>3, BuiltIs
<1>5. /\ Used(g, b) /\ ~White(g, col, b) /\ Safe(g, col, b) /\ ~White(h, col, b) /\ ~Safe(h, col, b)
      /\ \A c \in Blocks : c # b => (Used(g, c) <=> Used(h, c)) /\ (White(g, col, c) <=> White(h, col, c))
                                 /\ (Safe(g, col, c) <=> Safe(h, col, c))
  BY <1>2, <1>4 DEF Used, White, Live, Safe, Free
<1>6. \A i \in Slots : h[b].kids[i] = None
  BY <1>2 DEF Free
<1>7. /\ \A i \in Slots : Owns(g, q, b, i) /\ ~Owns(h, q, b, i)
      /\ \A c \in Blocks, i \in Slots : c # b => (Owns(g, q, c, i) <=> Owns(h, q, c, i))
  <2>1. \A i \in Slots : Owns(g, q, b, i) /\ ~Owns(h, q, b, i)
    BY <1>2, <1>5 DEF Owns, Storing, Passed
  <2> QED BY <1>5, <2>1 DEF Owns
<1>8. TypesOK(g, l, q, col, sup)
  BY <1>1, <1>4 DEF TypesOK
<1>9. HeadersOK(g)
  BY <1>1, <1>4, <1>5 DEF HeadersOK
<1>10. OwnersOK(g, l, q, col)
  <2>1. \A c : Safe(h, col, c) => Safe(g, col, c)
    BY <1>5 DEF Safe
  <2>2. Doing(q, "any") = {}
    BY DEF Low
  <2>3. ASSUME NEW c \in Blocks, NEW i \in Slots, Owns(g, q, c, i), ~White(g, col, c), g[c].kids[i] # None
        PROVE  Safe(g, col, g[c].kids[i])
    <3>1. CASE c = b
      <4>1. g[c].kids[i] = x /\ x # None
        BY <1>4, <2>3, <3>1
      <4> QED BY <1>1, <2>1, <4>1
    <3>2. CASE c # b
      BY <1>1, <1>4, <1>5, <1>7, <2>1, <2>3, <3>2 DEF OwnersOK
    <3> QED BY <3>1, <3>2
  <2> QED BY <1>1, <2>1, <2>2, <2>3 DEF OwnersOK
<1>11. WalksOK(g, q, col)
  <2>1. /\ \A p \in Doing(q, "walk") : q[p].b \in Blocks /\ q[p].b # b
        /\ \A p \in Doing(q, "body") : q[p].b \in Blocks /\ q[p].b # b
    BY <1>2, <1>3 DEF OpOK
  <2> QED BY <1>1, <1>4, <1>5, <2>1 DEF WalksOK
<1>12. \A w \in Locals : \A c \in Blocks : Shows(h, l, w, c) => Shows(g, l, w, c)
  BY <1>3, <1>4, <1>6 DEF Shows
<1>13. BindsOK(g, l, q)
  <2>1. \A p \in Doing(q, "bind") : q[p].x \in Blocks \cup {None}
    BY <1>3 DEF OpOK
  <2> QED BY <1>1, <1>12, <2>1 DEF BindsOK
<1>14. StoresOK(g, l, q)
  <2>1. ASSUME NEW p \in Doing(q, "slot"), NEW c \in Blocks, NEW y, c # b, Apart(h, c, y) PROVE Apart(g, c, y)
    <3> SUFFICES ASSUME y # None PROVE Apart(g, c, y)
      BY DEF Apart
    <3>1. PICK S \in SUBSET Blocks :
            /\ c \notin S /\ y \in S
            /\ \A d \in S, i \in Slots :
                 h[d].kids[i] # None /\ Used(h, h[d].kids[i]) => h[d].kids[i] \in S
            /\ \A d \in Blocks \ {c} : h[d].layout = "scalars" => d \in S
      BY <2>1 DEF Apart
    <3> DEFINE T == S \cup {b}
    <3>2. x = None
      BY <2>1
    <3>3. ASSUME NEW d \in T, NEW i \in Slots, g[d].kids[i] # None, Used(g, g[d].kids[i])
          PROVE  g[d].kids[i] \in T
      <4>1. d # b
        BY <1>4, <3>2, <3>3
      <4>2. d \in S /\ g[d].kids[i] = h[d].kids[i] /\ h[d].kids[i] \in Blocks
        BY <1>3, <1>4, <3>1, <3>3, <4>1
      <4> QED BY <1>5, <3>1, <3>3, <4>2
    <3>4. \A d \in Blocks \ {c} : g[d].layout = "scalars" => d \in T
      BY <1>4, <3>1
    <3>5. T \in SUBSET Blocks /\ c \notin T /\ y \in T
      BY <2>1, <3>1
    <3> HIDE DEF T
    <3> QED BY <3>3, <3>4, <3>5 DEF Apart
  <2>2. ASSUME NEW p \in Doing(q, "slot")
        PROVE  q[p].b \in Blocks /\ q[p].b # b /\ g[q[p].b] = h[q[p].b] /\ (Used(g, q[p].b) <=> Used(h, q[p].b))
    <3>1. q[p].b \in Blocks
      BY <1>3 DEF OpOK
    <3> QED BY <1>2, <1>4, <1>5, <3>1
  <2> QED BY <1>1, <1>12, <2>1, <2>2 DEF StoresOK
<1>15. TopsOK(g, q, col)
  <2>1. \A p \in Doing(q, "decref") : q[p].b \in Blocks /\ q[p].b # b
    BY <1>2, <1>3 DEF OpOK
  <2> QED BY <1>1, <1>4, <2>1 DEF TopsOK
<1>16. FlagOK(g, q, sup)
  <2>1. \A p \in Doing(q, "walk") : q[p].b \in Blocks /\ q[p].b # b
    BY <1>2, <1>3 DEF OpOK
  <2> QED BY <1>1, <1>4, <2>1 DEF FlagOK
<1>17. GuardsHoldScalars => GuardsOK(g, q)
  <2> SUFFICES ASSUME GuardsHoldScalars PROVE GuardsOK(g, q)
    OBVIOUS
  <2>1. ASSUME NEW c \in Blocks, NEW i \in Slots, Owns(g, q, c, i), g[c].layout = "dtor", g[c].kids[i] # None
        PROVE  g[g[c].kids[i]].layout = "scalars"
    <3>1. c # b
      BY <1>4, <2>1
    <3>2. g[c] = h[c] /\ h[c].kids[i] \in Blocks
      BY <1>3, <1>4, <2>1, <3>1
    <3>3. h[h[c].kids[i]].layout = "scalars"
      BY <1>1, <1>7, <2>1, <3>1, <3>2 DEF GuardsOK
    <3>4. h[c].kids[i] # b
      BY <3>3 DEF Used
    <3> QED BY <1>4, <3>2, <3>3, <3>4
  <2>2. ASSUME NEW p \in Doing(q, "slot"), g[q[p].b].layout = "dtor", q[p].x # None
        PROVE  g[q[p].x].layout = "scalars"
    <3>1. q[p].b \in Blocks /\ q[p].x \in Blocks /\ q[p].b # b /\ q[p].x # b
      BY <1>2, <1>3, <2>2 DEF OpOK
    <3>2. h[q[p].x].layout = "scalars"
      BY <1>1, <1>4, <2>2, <3>1 DEF GuardsOK
    <3> QED BY <1>4, <3>1, <3>2
  <2> QED BY <2>1, <2>2 DEF GuardsOK
<1>18. ZeroWalked(g, q)
  BY <1>1, <1>4, <1>5 DEF ZeroWalked
<1>19. SweepsOK(g, q, col)
  <2>1. \A p \in Doing(q, "walk") : q[p].b \in Blocks
    BY <1>3 DEF OpOK
  <2>2. \A c \in Blocks : White(g, col, c) => White(h, col, c)
    BY <1>5
  <2> QED BY <1>1, <2>1, <2>2 DEF SweepsOK
<1>20. Count(g, l, q, col, b) = 0
  <2>1. VarsOf(l, q, b) = {}
    BY <1>2 DEF VarsOf
  <2>2. \A c \in Blocks, i \in Slots : ~Edge(g, q, col, c, i, b)
    <3> SUFFICES ASSUME NEW c \in Blocks, NEW i \in Slots, Edge(g, q, col, c, i, b) PROVE FALSE
      OBVIOUS
    <3>1. g[c].kids[i] = b /\ Owns(g, q, c, i) /\ ~Muted(g, col, c, b)
      BY DEF Edge
    <3>2. c # b
      BY <1>2, <1>3, <1>4, <3>1
    <3>3. h[c].kids[i] = b /\ Owns(h, q, c, i)
      BY <1>4, <1>7, <3>1, <3>2
    <3>4. White(h, col, c)
      BY <1>1, <1>3, <1>5, <3>3 DEF OwnersOK
    <3>5. z.layout = "scalars" /\ GuardsHoldScalars
      BY <3>4 DEF White
    <3>6. h[c].layout = "dtor"
      BY <1>4, <1>5, <3>1, <3>2, <3>4, <3>5 DEF Muted
    <3>7. h[b].layout = "scalars"
      BY <1>1, <1>3, <3>3, <3>5, <3>6 DEF GuardsOK
    <3> QED BY <3>7 DEF Used
  <2>3. SlotsOf(g, q, col, b) = {}
    <3>1. \A e \in Blocks \X Slots : ~Edge(g, q, col, e[1], e[2], b)
      BY <2>2
    <3> QED BY <3>1 DEF SlotsOf
  <2>4. OpsOf(g, q, col, b) = {}
    <3> SUFFICES ASSUME NEW p \in 1..Len(q), Hits(g, col, q[p], b) PROVE FALSE
      BY DEF OpsOf
    <3>1. /\ q[p].do = "decref" => p \in Doing(q, "decref")
          /\ q[p].do = "slot" => p \in Doing(q, "slot")
          /\ q[p].do = "any" => p \in Doing(q, "any")
      BY DEF Doing
    <3> QED BY <1>2, <3>1 DEF Hits, Low
  <2> QED BY <2>1, <2>3, <2>4, NoneOf DEF Count
<1>21. ASSUME NEW c \in Blocks, c # b
       PROVE  Due(g, l, q, col, b, c) = Due(h, l, q, col, x, c)
  <2>1. 1 \in Slots
    BY GraphAssumption DEF Slots
  <2>2. \A d \in Blocks, j \in Slots :
          (d # b \/ j # 1) => (Edge(g, q, col, d, j, c) <=> Edge(h, q, col, d, j, c))
    <3>1. \A j \in Slots : j # 1 => ~Edge(g, q, col, b, j, c) /\ ~Edge(h, q, col, b, j, c)
      BY <1>3, <1>4, <1>7 DEF Edge
    <3>2. \A d \in Blocks : d # b => (Muted(g, col, d, c) <=> Muted(h, col, d, c))
      BY <1>4, <1>5, <1>21 DEF Muted
    <3>3. \A d \in Blocks, j \in Slots : d # b => (Edge(g, q, col, d, j, c) <=> Edge(h, q, col, d, j, c))
      BY <1>4, <1>7, <3>2 DEF Edge
    <3> QED BY <3>1, <3>3
  <2>3. (Edge(g, q, col, b, 1, c) <=> x = c) /\ ~Edge(h, q, col, b, 1, c)
    BY <1>4, <1>5, <1>7, <2>1 DEF Edge, Muted
  <2>4. /\ x = c => Sn(g, q, col, c) = Sn(h, q, col, c) + 1
        /\ x # c => Sn(g, q, col, c) = Sn(h, q, col, c)
    BY <2>1, <2>2, <2>3, SlotsMove
  <2>5. On(g, q, col, c) = On(h, q, col, c)
    <3>1. OpsOf(g, q, col, c) = OpsOf(h, q, col, c)
      BY <1>4, <1>21 DEF OpsOf, Hits
    <3> QED BY <3>1 DEF On
  <2>6. /\ Count(g, l, q, col, c) = Count(h, l, q, col, c) + (IF x = c THEN 1 ELSE 0)
        /\ Count(h, l, q, col, c) \in Nat
    BY <2>4, <2>5, Finite
  <2> QED BY <1>21, <2>6 DEF Due
<1>22. CountsOK(g, l, q, col, b)
  <2>1. Due(g, l, q, col, b, b) = 1 /\ g[b].refs = 1
    BY <1>4, <1>20 DEF Due
  <2>2. \A c \in Blocks : c # b /\ Safe(g, col, c) => Safe(h, col, c) /\ g[c] = h[c]
    BY <1>4, <1>5
  <2> QED BY <1>1, <1>21, <2>1, <2>2 DEF CountsOK
<1>23. Shape(g, l, q, col, sup)
  BY <1>8, <1>9, <1>10, <1>11, <1>13, <1>14, <1>15, <1>16, <1>17 DEF Shape
<1> QED BY <1>5, <1>18, <1>19, <1>22, <1>23 DEF Owing

-----------------------------------------------------------------------------
(* The first half of a store. *)

\* Where a statement, or the destructor at p, may begin to store to slot i of c.
FromStatement(h, l, q, c, i) ==
  /\ Len(q) = 0 \/ (Len(q) = 1 /\ q[1].do = "decref")
  /\ \E v \in Locals : Shows(h, l, v, c)
  /\ Apart(h, c, h[c].kids[i])

FromBody(q, c) ==
  /\ GuardsHoldScalars
  /\ \E p \in Doing(q, "body") :
       q[p].b = c /\ (p = Len(q) \/ (p = Len(q) - 1 /\ q[Len(q)].do = "decref"))

\* What is stored to is whole but for what is being stored.
LEMMA MayStoreTo ==
    ASSUME NEW h, NEW l, NEW q, NEW col, NEW sup, NEW x, Owing(h, l, q, col, sup, x),
           NEW c \in Blocks, NEW i \in Slots,
           FromStatement(h, l, q, c, i) \/ FromBody(q, c)
    PROVE  /\ Used(h, c) /\ \A j \in Slots : Owns(h, q, c, j)
           /\ ~White(h, col, c) \/ (h[c].layout = "dtor" /\ GuardsHoldScalars)
<1>1. /\ TypesOK(h, l, q, col, sup) /\ HeadersOK(h) /\ WalksOK(h, q, col) /\ SweepsOK(h, q, col)
      /\ BindsOK(h, l, q) /\ StoresOK(h, l, q)
  BY DEF Owing, Shape
<1>2. Len(q) \in Nat
  BY <1>1, Types
<1>3. ASSUME FromStatement(h, l, q, c, i)
      PROVE  Used(h, c) /\ (\A j \in Slots : Owns(h, q, c, j)) /\ ~White(h, col, c)
  <2>1. Doing(q, "slot") = {} /\ Doing(q, "bind") = {} /\ Doing(q, "sweep") = {}
    BY <1>2, <1>3 DEF Doing, FromStatement
  <2>2. PICK v \in Locals : Shows(h, l, v, c)
    BY <1>3 DEF FromStatement
  <2>3. ~Binding(q, v)
    BY <2>1 DEF Binding
  <2>4. Held(h, q, col, c)
    BY <2>1, <2>2, <2>3, ShownHeld
  <2>5. \A j \in Slots : ~Storing(q, c, j) /\ ~Passed(q, c, j)
    BY <2>1, <2>4 DEF Storing, Passed, Held, Walked
  <2> QED BY <2>4, <2>5 DEF Held, Safe, Owns
<1>4. ASSUME FromBody(q, c)
      PROVE  Used(h, c) /\ (\A j \in Slots : Owns(h, q, c, j)) /\ h[c].layout = "dtor" /\ GuardsHoldScalars
  <2>1. PICK p \in Doing(q, "body") :
          q[p].b = c /\ (p = Len(q) \/ (p = Len(q) - 1 /\ q[Len(q)].do = "decref"))
    BY <1>4 DEF FromBody
  <2>2. /\ p - 1 \in Doing(q, "walk") /\ q[p - 1].b = c /\ q[p - 1].at = 1 /\ h[c].dying
        /\ \A n \in Doing(q, "walk") : q[n].b = c => n = p - 1
    BY <1>1, <2>1, BodyIs
  <2>3. h[c].layout = "dtor" /\ Used(h, c)
    BY <1>1, <2>2 DEF HeadersOK, Used
  <2>4. \A j \in Slots : ~Passed(q, c, j)
    <3>1. \A n \in Doing(q, "walk") : \A j \in Slots : q[n].b = c => ~(q[n].at > j)
      BY <2>2 DEF Slots
    <3> QED BY <3>1 DEF Passed
  <2>5. \A j \in Slots : ~Storing(q, c, j)
    <3> SUFFICES ASSUME NEW n \in Doing(q, "slot"), q[n].b = c PROVE FALSE
      BY DEF Storing
    <3>1. ~Held(h, q, col, c)
      BY <2>2 DEF Held, Walked
    <3>2. InBody(q, n)
      BY <3>1, TargetHeld
    <3>3. PICK m \in Doing(q, "body") : m < n /\ q[m].b = c
      BY <3>2 DEF InBody
    <3>4. m - 1 \in Doing(q, "walk") /\ q[m - 1].b = c
      BY <1>1, <3>3, BodyIs
    <3>5. m - 1 = p - 1
      BY <2>2, <3>4
    <3>6. m = p
      BY <2>1, <3>3, <3>5 DEF Doing
    <3> QED BY <1>2, <2>1, <3>3, <3>6 DEF Doing
  <2> QED BY <1>4, <2>3, <2>4, <2>5 DEF Owns, FromBody
<1> QED BY <1>3, <1>4

LEMMA BeginStore ==
    ASSUME NEW h, NEW l, NEW q \in Seq(OpRec), NEW col, NEW sup, NEW x \in Blocks \cup {None},
           Owing(h, l, q, col, sup, x), Low(h, q), NEW c \in Blocks, NEW i \in Slots,
           FromStatement(h, l, q, c, i) \/ FromBody(q, c),
           x # None => h[c].layout # "scalars",
           GuardsHoldScalars /\ h[c].layout = "dtor" /\ x # None => h[x].layout = "scalars"
    PROVE  /\ Owing(h, l, Push(q, SlotOp(c, i, x)), col, sup, h[c].kids[i])
           /\ Low(h, Push(q, SlotOp(c, i, x)))
<1> PICK old : old = h[c].kids[i]
  OBVIOUS
<1> PICK o : o = SlotOp(c, i, x)
  OBVIOUS
<1>1. o \in OpRec /\ OpOK(o) /\ o.do = "slot" /\ o.b = c /\ o.at = i /\ o.x = x
  BY OpsTyped
<1> PICK r : r = Push(q, o)
  OBVIOUS
<1>2. /\ r \in Seq(OpRec) /\ Len(r) = Len(q) + 1 /\ Len(q) \in Nat /\ r[Len(q) + 1] = o
      /\ \A p \in 1..Len(q) : r[p] = q[p]
  BY <1>1, PushIs
<1>3. /\ TypesOK(h, l, q, col, sup) /\ HeadersOK(h) /\ BindsOK(h, l, q) /\ StoresOK(h, l, q)
      /\ FlagOK(h, q, sup) /\ (GuardsHoldScalars => GuardsOK(h, q)) /\ OwnersOK(h, l, q, col)
      /\ WalksOK(h, q, col) /\ CountsOK(h, l, q, col, x) /\ ZeroWalked(h, q) /\ SweepsOK(h, q, col)
      /\ (x # None => Safe(h, col, x))
  BY DEF Owing, Shape
<1>4. /\ Used(h, c) /\ Owns(h, q, c, i)
      /\ ~White(h, col, c) \/ (h[c].layout = "dtor" /\ GuardsHoldScalars)
  BY MayStoreTo
<1>5. old # None => Safe(h, col, old) /\ Edge(h, q, col, c, i, old)
  BY <1>4, SlotHeld DEF Held
<1>6. /\ \A do : do # "slot" => Doing(r, do) = Doing(q, do)
      /\ \A p : p \in Doing(r, "slot") <=> p \in Doing(q, "slot") \/ p = Len(q) + 1
      /\ \A v : Binding(r, v) <=> Binding(q, v)
      /\ \A b : Walked(r, b) <=> Walked(q, b)
      /\ \A d, j : Storing(r, d, j) <=> Storing(q, d, j) \/ (c = d /\ i = j)
      /\ \A d, j : Passed(r, d, j) <=> Passed(q, d, j)
  BY <1>1, PushMeans
<1>7. \A do : \A p \in Doing(q, do) : r[p] = q[p] /\ p \in 1..Len(q)
  BY <1>2 DEF Doing
<1>8. \A do \in {"decref", "any", "walk", "sweep", "body", "bind"} :
         Doing(r, do) = Doing(q, do) /\ \A p \in Doing(q, do) : r[p] = q[p] /\ p \in 1..Len(q)
  BY <1>6, <1>7
<1>9. /\ ~Owns(h, r, c, i)
      /\ \A d \in Blocks, j \in Slots : d # c \/ j # i => (Owns(h, r, d, j) <=> Owns(h, q, d, j))
      /\ \A d \in Blocks, j \in Slots : Owns(h, r, d, j) => Owns(h, q, d, j)
  BY <1>6 DEF Owns
<1>10. /\ TypesOK(h, l, r, col, sup) /\ WalksOK(h, r, col) /\ BindsOK(h, l, r)
       /\ TopsOK(h, r, col) /\ Low(h, r) /\ FlagOK(h, r, sup)
  BY <1>1, <1>3, PushKeeps
<1>11. OwnersOK(h, l, r, col)
  <2>1. ASSUME NEW p \in Doing(r, "slot"), r[p].x # None PROVE Safe(h, col, r[p].x)
    <3>1. CASE p = Len(q) + 1
      BY <1>1, <1>2, <1>3, <2>1, <3>1
    <3>2. CASE p \in Doing(q, "slot")
      BY <1>3, <1>7, <2>1, <3>2 DEF OwnersOK
    <3> QED BY <1>6, <3>1, <3>2
  <2> QED BY <1>3, <1>6, <1>8, <1>9, <2>1 DEF OwnersOK
<1>12. StoresOK(h, l, r)
  <2>1. \A p \in Doing(q, "slot") : ~(q[p].b = c /\ q[p].at = i)
    BY <1>4 DEF Owns, Storing
  <2>2. ASSUME NEW p \in Doing(r, "slot"), NEW n \in Doing(r, "slot"), r[n].b = r[p].b, r[n].at = r[p].at
        PROVE  n = p
    <3>1. \A m \in Doing(r, "slot") : m = Len(q) + 1 \/ (m \in Doing(q, "slot") /\ r[m] = q[m])
      BY <1>6, <1>7
    <3>2. \A m \in Doing(r, "slot") : m = Len(q) + 1 <=> (r[m].b = c /\ r[m].at = i)
      BY <1>1, <1>2, <2>1, <3>1
    <3> QED BY <1>3, <2>2, <3>1, <3>2 DEF StoresOK
  <2>3. ASSUME NEW p \in Doing(q, "slot")
        PROVE  /\ r[p] = q[p]
               /\ Outermost(q, p) => Outermost(r, p)
               /\ InBody(q, p) => InBody(r, p)
    <3>1. r[p] = q[p] /\ r[1] = q[1]
      BY <1>2, <1>7
    <3> QED BY <1>8, <3>1 DEF Outermost, InBody
  <2> DEFINE n == Len(q) + 1
  <2>4. /\ r[n] = o /\ Used(h, c) /\ (x # None => h[c].layout # "scalars")
        /\ \/ /\ Outermost(r, n)
              /\ \E v \in Locals : Shows(h, l, v, c)
              /\ Apart(h, c, h[c].kids[i])
           \/ InBody(r, n) /\ GuardsHoldScalars
    <3>1. r[n] = o
      BY <1>2
    <3>2. CASE FromStatement(h, l, q, c, i)
      <4>1. Outermost(r, n)
        BY <1>2, <3>2 DEF FromStatement, Outermost
      <4> QED BY <1>4, <3>1, <3>2, <4>1 DEF FromStatement
    <3>3. CASE FromBody(q, c)
      <4>1. PICK p \in Doing(q, "body") : q[p].b = c
        BY <3>3 DEF FromBody
      <4>2. p \in Doing(r, "body") /\ r[p].b = c /\ p < n
        BY <1>2, <1>8, <4>1
      <4>3. InBody(r, n)
        BY <1>1, <3>1, <4>2 DEF InBody
      <4> QED BY <1>4, <3>1, <3>3, <4>3 DEF FromBody
    <3> QED BY <3>2, <3>3
  <2> HIDE DEF n
  <2>5. \A p \in Doing(r, "slot") : p = n \/ p \in Doing(q, "slot")
    BY <1>6 DEF n
  <2>6. ASSUME NEW p \in Doing(r, "slot")
        PROVE  /\ Used(h, r[p].b) /\ (r[p].x # None => h[r[p].b].layout # "scalars")
               /\ \/ /\ Outermost(r, p)
                     /\ \E v \in Locals : Shows(h, l, v, r[p].b)
                     /\ Apart(h, r[p].b, h[r[p].b].kids[r[p].at])
                  \/ InBody(r, p) /\ GuardsHoldScalars
    <3>1. CASE p = n
      BY <1>1, <2>4, <3>1
    <3>2. CASE p \in Doing(q, "slot")
      BY <1>3, <2>3, <3>2 DEF StoresOK
    <3> QED BY <2>5, <3>1, <3>2
  <2> QED BY <2>2, <2>6 DEF StoresOK
<1>13. GuardsHoldScalars => GuardsOK(h, r)
  <2> SUFFICES ASSUME GuardsHoldScalars PROVE GuardsOK(h, r)
    OBVIOUS
  <2>1. ASSUME NEW p \in Doing(r, "slot"), h[r[p].b].layout = "dtor", r[p].x # None
        PROVE  h[r[p].x].layout = "scalars"
    <3>1. CASE p = Len(q) + 1
      BY <1>1, <1>2, <2>1, <3>1
    <3>2. CASE p \in Doing(q, "slot")
      BY <1>3, <1>7, <2>1, <3>2 DEF GuardsOK
    <3> QED BY <1>6, <3>1, <3>2
  <2> QED BY <1>3, <1>9, <2>1 DEF GuardsOK
<1>14. CountsOK(h, l, r, col, old)
  <2>1. ASSUME NEW b \in Blocks PROVE Due(h, l, r, col, old, b) = Due(h, l, q, col, x, b)
    <3>1. /\ Vn(l, r, b) = Vn(l, q, b)
      BY <1>2, <1>6, VarsSame
    <3>2. /\ x = b => On(h, r, col, b) = On(h, q, col, b) + 1
          /\ x # b => On(h, r, col, b) = On(h, q, col, b)
      <4>1. Hits(h, col, o, b) <=> x = b
        BY <1>1 DEF Hits
      <4> QED BY <1>1, <4>1, OpsPush
    <3>3. \A d \in Blocks, j \in Slots :
            (d # c \/ j # i) => (Edge(h, q, col, d, j, b) <=> Edge(h, r, col, d, j, b))
      BY <1>9 DEF Edge
    <3>4. ~Edge(h, r, col, c, i, b) /\ (Edge(h, q, col, c, i, b) <=> old = b)
      <4>1. ~Edge(h, r, col, c, i, b)
        BY <1>9 DEF Edge
      <4>2. Edge(h, q, col, c, i, b) => old = b
        BY DEF Edge
      <4>3. b # None
        BY <1>3, Types
      <4> QED BY <1>5, <4>1, <4>2, <4>3
    <3>5. /\ old = b => Sn(h, q, col, b) = Sn(h, r, col, b) + 1
          /\ old # b => Sn(h, q, col, b) = Sn(h, r, col, b)
      BY <1>2, <3>3, <3>4, SlotsMove
    <3>6. /\ Count(h, l, r, col, b) = Vn(l, r, b) + Sn(h, r, col, b) + On(h, r, col, b)
          /\ Vn(l, r, b) \in Nat /\ Sn(h, r, col, b) \in Nat /\ On(h, r, col, b) \in Nat
      BY <1>2, Finite
    <3>7. /\ Count(h, l, q, col, b) = Vn(l, q, b) + Sn(h, q, col, b) + On(h, q, col, b)
          /\ Vn(l, q, b) \in Nat /\ Sn(h, q, col, b) \in Nat /\ On(h, q, col, b) \in Nat
      BY Finite
    <3>8. /\ x = b => On(h, r, col, b) = On(h, q, col, b) + 1
          /\ x # b => On(h, r, col, b) = On(h, q, col, b)
          /\ old = b => Sn(h, q, col, b) = Sn(h, r, col, b) + 1
          /\ old # b => Sn(h, q, col, b) = Sn(h, r, col, b)
          /\ Vn(l, r, b) = Vn(l, q, b)
      BY <3>1, <3>2, <3>5
    <3> QED BY ONLY <3>6, <3>7, <3>8 DEF Due
  <2> QED BY <1>3, <2>1 DEF CountsOK
<1>15. ZeroWalked(h, r)
  BY <1>3, <1>6 DEF ZeroWalked
<1>16. SweepsOK(h, r, col)
  BY <1>3, <1>8 DEF SweepsOK
<1> QED BY <1>3, <1>5, <1>10, <1>11, <1>12, <1>13, <1>14, <1>15, <1>16 DEF Owing, Shape

-----------------------------------------------------------------------------
(* A variable's store. *)

\* At most a temporary waits to be released.
AtMostTemporary(q) == Len(q) = 0 \/ (Len(q) = 1 /\ q[1].do = "decref")

LEMMA NothingElse ==
    ASSUME NEW q \in Seq(OpRec), AtMostTemporary(q)
    PROVE  /\ \A do : do # "decref" => Doing(q, do) = {}
           /\ \A b : ~Walked(q, b)
           /\ \A v : ~Binding(q, v)
           /\ \A c, i : ~Storing(q, c, i) /\ ~Passed(q, c, i)
<1>1. Len(q) \in Nat
  OBVIOUS
<1>2. \A do : do # "decref" => Doing(q, do) = {}
  BY <1>1 DEF Doing, AtMostTemporary
<1> QED BY <1>2 DEF Walked, Binding, Storing, Passed

LEMMA BeginBind ==
    ASSUME NEW h, NEW l, NEW q \in Seq(OpRec), NEW col, NEW sup, K(h, l, q, col, sup),
           AtMostTemporary(q), NEW v \in Locals, NEW x \in Blocks \cup {None},
           x # None => \/ \E w \in Locals \ {v} : Shows(h, l, w, x)
                       \/ Len(q) = 1 /\ q[1].b = x
    PROVE  /\ Owing(h, l, Push(q, BindOp(v, x)), col, sup, l[v])
           /\ Low(h, Push(q, BindOp(v, x)))
<1> PICK o : o = BindOp(v, x)
  OBVIOUS
<1>1. o \in OpRec /\ OpOK(o) /\ o.do = "bind" /\ o.at = v /\ o.x = x
  BY OpsTyped
<1> PICK r : r = Push(q, o)
  OBVIOUS
<1>2. /\ r \in Seq(OpRec) /\ Len(r) = Len(q) + 1 /\ Len(q) \in Nat /\ r[Len(q) + 1] = o
      /\ \A p \in 1..Len(q) : r[p] = q[p]
  BY <1>1, PushIs
<1>3. /\ TypesOK(h, l, q, col, sup) /\ HeadersOK(h) /\ BindsOK(h, l, q) /\ StoresOK(h, l, q)
      /\ FlagOK(h, q, sup) /\ (GuardsHoldScalars => GuardsOK(h, q)) /\ OwnersOK(h, l, q, col)
      /\ WalksOK(h, q, col) /\ CountsOK(h, l, q, col, None) /\ ZeroWalked(h, q) /\ SweepsOK(h, q, col)
      /\ TopsOK(h, q, col)
  BY DEF K, Owing, Shape
<1>4. /\ \A do : do # "decref" => Doing(q, do) = {}
      /\ \A w : ~Binding(q, w)
  BY NothingElse
<1>5. /\ \A do : do # "bind" => Doing(r, do) = Doing(q, do)
      /\ \A p : p \in Doing(r, "bind") <=> p = Len(q) + 1
      /\ \A w : Binding(r, w) <=> w = v
      /\ \A b : Walked(r, b) <=> Walked(q, b)
      /\ \A d, j : Storing(r, d, j) <=> Storing(q, d, j)
      /\ \A d, j : Passed(r, d, j) <=> Passed(q, d, j)
  BY <1>1, <1>4, PushMeans
<1>6. \A do \in {"decref", "any", "walk", "sweep", "body", "slot"} :
         Doing(r, do) = Doing(q, do) /\ \A p \in Doing(q, do) : r[p] = q[p] /\ p \in 1..Len(q)
  BY <1>2, <1>5 DEF Doing
<1>7. \A d, j : Owns(h, r, d, j) <=> Owns(h, q, d, j)
  BY <1>5 DEF Owns
<1>8. Low(h, q)
  <2>1. \A p \in Doing(q, "decref") : p = 1
    BY <1>2 DEF Doing, AtMostTemporary
  <2> QED BY <1>4, <2>1 DEF Low
<1>9. /\ TypesOK(h, l, r, col, sup) /\ WalksOK(h, r, col) /\ StoresOK(h, l, r)
      /\ TopsOK(h, r, col) /\ Low(h, r) /\ FlagOK(h, r, sup) /\ (GuardsHoldScalars => GuardsOK(h, r))
  BY <1>1, <1>3, <1>8, PushKeeps
<1>10. OwnersOK(h, l, r, col)
  BY <1>3, <1>4, <1>5, <1>6, <1>7 DEF OwnersOK
<1>11. BindsOK(h, l, r)
  <2>1. Len(q) = 1 => r[1] = q[1]
    BY <1>2
  <2> QED BY <1>1, <1>2, <1>5, <2>1 DEF BindsOK, Outermost, AtMostTemporary
<1>12. l[v] # None => Safe(h, col, l[v])
  BY <1>3, <1>4 DEF OwnersOK
<1>13. CountsOK(h, l, r, col, l[v])
  <2>1. ASSUME NEW b \in Blocks PROVE Due(h, l, r, col, l[v], b) = Due(h, l, q, col, None, b)
    <3>1. IF l[v] = b THEN Vn(l, q, b) = Vn(l, r, b) + 1 ELSE Vn(l, q, b) = Vn(l, r, b)
      BY <1>2, <1>4, <1>5, VarsMove
    <3>2. Sn(h, r, col, b) = Sn(h, q, col, b)
      <4>1. \A d \in Blocks, j \in Slots : Edge(h, r, col, d, j, b) <=> Edge(h, q, col, d, j, b)
        BY <1>7 DEF Edge
      <4> QED BY <1>2, <4>1, SlotsSame
    <3>3. On(h, r, col, b) = On(h, q, col, b)
      <4>1. ~Hits(h, col, o, b)
        BY <1>1 DEF Hits
      <4> QED BY <1>1, <4>1, OpsPush
    <3>4. b # None
      BY <1>3, Types
    <3>5. /\ Count(h, l, r, col, b) = Vn(l, r, b) + Sn(h, r, col, b) + On(h, r, col, b)
          /\ Vn(l, r, b) \in Nat /\ Sn(h, r, col, b) \in Nat /\ On(h, r, col, b) \in Nat
      BY <1>2, Finite
    <3>6. Count(h, l, q, col, b) = Vn(l, q, b) + Sn(h, q, col, b) + On(h, q, col, b)
      BY Finite
    <3> QED BY ONLY <3>1, <3>2, <3>3, <3>4, <3>5, <3>6 DEF Due
  <2> QED BY <1>3, <2>1 DEF CountsOK
<1>14. ZeroWalked(h, r) /\ SweepsOK(h, r, col)
  BY <1>3, <1>5, <1>6 DEF ZeroWalked, SweepsOK
<1> QED BY <1>3, <1>9, <1>10, <1>11, <1>12, <1>13, <1>14 DEF Owing, Shape

LEMMA BindHeld ==
    ASSUME NEW h, NEW l, NEW q \in Seq(OpRec), NEW col, NEW sup,
           NEW v \in Locals, NEW x \in Blocks \cup {None},
           K(h, l, Push(q, BindOp(v, x)), col, sup)
    PROVE  /\ AtMostTemporary(q)
           /\ x # None => Held(h, Push(q, BindOp(v, x)), col, x)
<1> PICK o : o = BindOp(v, x)
  OBVIOUS
<1>1. o \in OpRec /\ OpOK(o) /\ o.do = "bind" /\ o.at = v /\ o.x = x
  BY OpsTyped
<1> PICK r : r = Push(q, o)
  OBVIOUS
<1>2. /\ r \in Seq(OpRec) /\ Len(r) = Len(q) + 1 /\ Len(q) \in Nat /\ r[Len(q) + 1] = o
      /\ \A p \in 1..Len(q) : r[p] = q[p]
  BY <1>1, PushIs
<1> DEFINE p == Len(q) + 1
<1>3. Owing(h, l, r, col, sup, None) /\ BindsOK(h, l, r) /\ OwnersOK(h, l, r, col)
  BY DEF K, Owing, Shape
<1>4. p \in Doing(r, "bind") /\ r[p] = o
  BY <1>1, <1>2 DEF Doing
<1>5. Outermost(r, p)
  BY <1>3, <1>4 DEF BindsOK
<1>6. AtMostTemporary(q)
  <2>1. p = 2 => r[1] = q[1]
    BY <1>2
  <2>2. Len(q) \in Nat
    BY <1>2
  <2>3. p = 1 \/ (p = 2 /\ r[1].do = "decref")
    BY <1>5 DEF Outermost
  <2>4. p = 2 => q[1].do = "decref"
    BY ONLY <2>1, <2>3
  <2>5. (p = 1 => Len(q) = 0) /\ (p = 2 => Len(q) = 1)
    <3>1. \A n \in Nat : (n + 1 = 1 => n = 0) /\ (n + 1 = 2 => n = 1)
      OBVIOUS
    <3> QED BY <2>2, <3>1
  <2> QED BY <2>3, <2>4, <2>5 DEF AtMostTemporary
<1>7. /\ \A do : do # "decref" => Doing(q, do) = {}
      /\ \A w : ~Binding(q, w)
  BY <1>6, NothingElse
<1>8. /\ Doing(r, "slot") = {} /\ \A w : Binding(r, w) <=> w = v
  BY <1>1, <1>7, PushMeans
<1>9. ASSUME x # None PROVE Held(h, r, col, x)
  <2>1. \/ \E w \in Locals \ {v} : Shows(h, l, w, x)
        \/ p = 2 /\ r[1].b = x
    BY <1>1, <1>3, <1>4, <1>9 DEF BindsOK
  <2>2. ASSUME NEW w \in Locals \ {v}, Shows(h, l, w, x) PROVE Held(h, r, col, x)
    BY <1>3, <1>8, <1>9, <2>2, ShownHeld
  <2>3. ASSUME p = 2, r[1].b = x PROVE Held(h, r, col, x)
    <3>1. r[1] = q[1] /\ q[1].do = "decref" /\ 1 \in 1..Len(r)
      BY <1>2, <1>6, <2>3 DEF AtMostTemporary
    <3>2. 1 \in Doing(r, "decref")
      BY <3>1 DEF Doing
    <3>3. Safe(h, col, x) /\ Hits(h, col, r[1], x)
      BY <1>3, <2>3, <3>1, <3>2 DEF OwnersOK, Hits
    <3> QED BY <1>3, <3>1, <3>3, HitHeld
  <2> QED BY <2>1, <2>2, <2>3
<1> QED BY <1>6, <1>9

\* The variable takes the reference to x.
LEMMA EndBind ==
    ASSUME NEW h, NEW l, NEW q \in Seq(OpRec), NEW col, NEW sup,
           NEW v \in Locals, NEW x \in Blocks \cup {None}, AtMostTemporary(q),
           Owing(h, l, Push(q, BindOp(v, x)), col, sup, x)
    PROVE  K(h, [l EXCEPT ![v] = x], q, col, sup)
<1> PICK o : o = BindOp(v, x)
  OBVIOUS
<1>1. o \in OpRec /\ OpOK(o) /\ o.do = "bind" /\ o.at = v /\ o.x = x
  BY OpsTyped
<1> PICK r : r = Push(q, o)
  OBVIOUS
<1>2. /\ r \in Seq(OpRec) /\ Len(r) = Len(q) + 1 /\ Len(q) \in Nat /\ r[Len(q) + 1] = o
      /\ \A p \in 1..Len(q) : r[p] = q[p]
  BY <1>1, PushIs
<1>3. /\ TypesOK(h, l, r, col, sup) /\ HeadersOK(h) /\ BindsOK(h, l, r) /\ StoresOK(h, l, r)
      /\ FlagOK(h, r, sup) /\ (GuardsHoldScalars => GuardsOK(h, r)) /\ OwnersOK(h, l, r, col)
      /\ WalksOK(h, r, col) /\ CountsOK(h, l, r, col, x) /\ ZeroWalked(h, r) /\ SweepsOK(h, r, col)
      /\ TopsOK(h, r, col) /\ (x # None => Safe(h, col, x))
  BY DEF Owing, Shape
<1>4. /\ \A do : do # "decref" => Doing(q, do) = {}
      /\ \A w : ~Binding(q, w)
  BY NothingElse
<1>5. /\ \A do : do # "bind" => Doing(r, do) = Doing(q, do)
      /\ \A w : Binding(r, w) <=> w = v
      /\ \A b : Walked(r, b) <=> Walked(q, b)
      /\ \A d, j : Storing(r, d, j) <=> Storing(q, d, j)
      /\ \A d, j : Passed(r, d, j) <=> Passed(q, d, j)
  BY <1>1, <1>4, PushMeans
<1>6. \A do \in {"decref", "any", "walk", "sweep", "body", "slot"} :
         Doing(r, do) = Doing(q, do) /\ \A p \in Doing(q, do) : r[p] = q[p] /\ p \in 1..Len(q)
  BY <1>2, <1>5 DEF Doing
<1>7. \A d, j : Owns(h, r, d, j) <=> Owns(h, q, d, j)
  BY <1>5 DEF Owns
<1> PICK m : m = [l EXCEPT ![v] = x]
  OBVIOUS
<1>8. /\ m \in [Locals -> Blocks \cup {None}] /\ m[v] = x
      /\ \A w \in Locals : w # v => m[w] = l[w]
  BY <1>3 DEF TypesOK
<1>9. TypesOK(h, m, q, col, sup) /\ WalksOK(h, q, col) /\ TopsOK(h, q, col)
  <2>1. TypesOK(h, l, q, col, sup) /\ WalksOK(h, q, col) /\ TopsOK(h, q, col)
    BY <1>1, <1>3, PopKeeps
  <2> QED BY <1>8, <2>1 DEF TypesOK
<1>10. OwnersOK(h, m, q, col)
  <2>1. ASSUME NEW w \in Locals, m[w] # None PROVE Safe(h, col, m[w])
    <3>1. CASE w = v
      BY <1>3, <1>8, <2>1, <3>1
    <3>2. CASE w # v
      BY <1>3, <1>5, <1>8, <2>1, <3>2 DEF OwnersOK
    <3> QED BY <3>1, <3>2
  <2> QED BY <1>3, <1>6, <1>7, <2>1 DEF OwnersOK
<1>11. BindsOK(h, m, q) /\ StoresOK(h, m, q)
  BY <1>4 DEF BindsOK, StoresOK
<1>12. FlagOK(h, q, sup) /\ (GuardsHoldScalars => GuardsOK(h, q))
  BY <1>3, <1>6, <1>7 DEF FlagOK, GuardsOK
<1>13. CountsOK(h, m, q, col, None)
  <2>1. ASSUME NEW b \in Blocks PROVE Due(h, m, q, col, None, b) = Due(h, l, r, col, x, b)
    <3>1. IF x = b THEN Vn(m, q, b) = Vn(l, r, b) + 1 ELSE Vn(m, q, b) = Vn(l, r, b)
      <4>1. \A w \in Locals \ {v} : m[w] = l[w] /\ (Binding(q, w) <=> Binding(r, w))
        BY <1>4, <1>5, <1>8
      <4>2. ~Binding(q, v) /\ Binding(r, v)
        BY <1>4, <1>5
      <4>3. IF m[v] = b THEN Vn(m, q, b) = Vn(l, r, b) + 1 ELSE Vn(m, q, b) = Vn(l, r, b)
        BY ONLY <1>2, <4>1, <4>2, v \in Locals, q \in Seq(OpRec), VarsMove
      <4> QED BY <1>8, <4>3
    <3>2. Sn(h, r, col, b) = Sn(h, q, col, b)
      <4>1. \A d \in Blocks, j \in Slots : Edge(h, r, col, d, j, b) <=> Edge(h, q, col, d, j, b)
        BY <1>7 DEF Edge
      <4> QED BY <1>2, <4>1, SlotsSame
    <3>3. On(h, r, col, b) = On(h, q, col, b)
      <4>1. ~Hits(h, col, o, b)
        BY <1>1 DEF Hits
      <4> QED BY <1>1, <4>1, OpsPush
    <3>4. b # None
      BY <1>3, Types
    <3>5. /\ Count(h, l, r, col, b) = Vn(l, r, b) + Sn(h, r, col, b) + On(h, r, col, b)
          /\ Vn(l, r, b) \in Nat /\ Sn(h, r, col, b) \in Nat /\ On(h, r, col, b) \in Nat
      BY <1>2, Finite
    <3>6. Count(h, m, q, col, b) = Vn(m, q, b) + Sn(h, q, col, b) + On(h, q, col, b)
      BY Finite
    <3> QED BY ONLY <3>1, <3>2, <3>3, <3>4, <3>5, <3>6 DEF Due
  <2> QED BY <1>3, <2>1 DEF CountsOK
<1>14. ZeroWalked(h, q) /\ SweepsOK(h, q, col)
  BY <1>3, <1>5, <1>6 DEF ZeroWalked, SweepsOK
<1> QED BY <1>3, <1>9, <1>10, <1>11, <1>12, <1>13, <1>14 DEF K, Owing, Shape

-----------------------------------------------------------------------------
(* A slot's store. *)

\* h with x in slot i of c.
Put(h, c, i, x) == [h EXCEPT ![c].kids[i] = x]

LEMMA PutIs ==
    ASSUME NEW h \in [Blocks -> Header], NEW c \in Blocks, NEW i \in Slots, NEW x \in Blocks \cup {None}
    PROVE  /\ Put(h, c, i, x) \in [Blocks -> Header]
           /\ Put(h, c, i, x)[c].kids[i] = x
           /\ \A d \in Blocks, j \in Slots : d # c \/ j # i => Put(h, c, i, x)[d].kids[j] = h[d].kids[j]
           /\ \A d \in Blocks : d # c => Put(h, c, i, x)[d] = h[d]
           /\ \A d \in Blocks : /\ Put(h, c, i, x)[d].layout = h[d].layout
                                /\ Put(h, c, i, x)[d].refs = h[d].refs
                                /\ Put(h, c, i, x)[d].dying = h[d].dying
                                /\ Put(h, c, i, x)[d].marked = h[d].marked
  BY DEF Put, Header

LEMMA EndStore ==
    ASSUME NEW h, NEW l, NEW q \in Seq(OpRec), NEW col, NEW sup,
           NEW c \in Blocks, NEW i \in Slots, NEW x \in Blocks \cup {None},
           K(h, l, Push(q, SlotOp(c, i, x)), col, sup)
    PROVE  K(Put(h, c, i, x), l, q, col, sup)
<1> PICK o : o = SlotOp(c, i, x)
  OBVIOUS
<1>1. o \in OpRec /\ OpOK(o) /\ o.do = "slot" /\ o.b = c /\ o.at = i /\ o.x = x
  BY OpsTyped
<1> PICK r : r = Push(q, o)
  OBVIOUS
<1>2. /\ r \in Seq(OpRec) /\ Len(r) = Len(q) + 1 /\ Len(q) \in Nat /\ r[Len(q) + 1] = o
      /\ \A p \in 1..Len(q) : r[p] = q[p]
  BY <1>1, PushIs
<1> PICK n : n = Len(q) + 1
  OBVIOUS
<1>3. /\ Owing(h, l, r, col, sup, None)
      /\ TypesOK(h, l, r, col, sup) /\ HeadersOK(h) /\ BindsOK(h, l, r) /\ StoresOK(h, l, r)
      /\ FlagOK(h, r, sup) /\ (GuardsHoldScalars => GuardsOK(h, r)) /\ OwnersOK(h, l, r, col)
      /\ WalksOK(h, r, col) /\ CountsOK(h, l, r, col, None) /\ ZeroWalked(h, r) /\ SweepsOK(h, r, col)
      /\ TopsOK(h, r, col)
  BY DEF K, Owing, Shape
<1>4. n \in Doing(r, "slot") /\ r[n] = o /\ n \notin Doing(q, "slot")
  BY <1>1, <1>2 DEF Doing
<1>5. Used(h, c) /\ (x # None => h[c].layout # "scalars")
  BY <1>1, <1>3, <1>4 DEF StoresOK
<1>6. /\ \A do : do # "slot" => Doing(r, do) = Doing(q, do)
      /\ \A p : p \in Doing(r, "slot") <=> p \in Doing(q, "slot") \/ p = n
      /\ \A v : Binding(r, v) <=> Binding(q, v)
      /\ \A b : Walked(r, b) <=> Walked(q, b)
      /\ \A d, j : Storing(r, d, j) <=> Storing(q, d, j) \/ (c = d /\ i = j)
      /\ \A d, j : Passed(r, d, j) <=> Passed(q, d, j)
  BY <1>1, PushMeans
<1>7. \A do : \A p \in Doing(q, do) : r[p] = q[p] /\ p \in 1..Len(q)
  BY <1>2 DEF Doing
<1>8. \A do \in {"decref", "any", "walk", "sweep", "body", "bind"} :
         Doing(r, do) = Doing(q, do) /\ \A p \in Doing(q, do) : r[p] = q[p] /\ p \in 1..Len(q)
  BY <1>6, <1>7
<1>9. \A p \in Doing(q, "slot") : p \in Doing(r, "slot") /\ r[p] = q[p] /\ p # n
  BY <1>4, <1>6, <1>7
<1>10. ~Storing(q, c, i)
  BY <1>1, <1>3, <1>4, <1>9 DEF Storing, StoresOK
<1>11. \/ Held(h, r, col, c) /\ Outermost(r, n)
       \/ InBody(r, n) /\ GuardsHoldScalars
  BY <1>1, <1>3, <1>4, TargetHeld
<1>12. ASSUME InBody(r, n)
       PROVE  h[c].layout = "dtor" /\ Walked(r, c) /\ \A j \in Slots : ~Passed(r, c, j)
  BY <1>1, <1>3, <1>4, <1>12, InBodyIs
<1>13. ~Passed(q, c, i) /\ (~White(h, col, c) \/ (h[c].layout = "dtor" /\ GuardsHoldScalars))
  <2>1. CASE Held(h, r, col, c)
    <3>1. ~Passed(r, c, i)
      BY <2>1 DEF Held, Walked, Passed
    <3> QED BY <1>6, <2>1, <3>1 DEF Held, Safe
  <2>2. CASE InBody(r, n) /\ GuardsHoldScalars
    BY <1>6, <1>12, <2>2
  <2> QED BY <1>11, <2>1, <2>2
<1> PICK g : g = Put(h, c, i, x)
  OBVIOUS
<1>14. /\ g \in [Blocks -> Header] /\ g[c].kids[i] = x
       /\ \A d \in Blocks, j \in Slots : d # c \/ j # i => g[d].kids[j] = h[d].kids[j]
       /\ \A d \in Blocks : d # c => g[d] = h[d]
       /\ \A d \in Blocks : g[d].layout = h[d].layout /\ g[d].refs = h[d].refs
                         /\ g[d].dying = h[d].dying /\ g[d].marked = h[d].marked
  <2>1. h \in [Blocks -> Header]
    BY <1>3 DEF TypesOK, Header
  <2> QED BY ONLY <2>1, c \in Blocks, i \in Slots, x \in Blocks \cup {None}, g = Put(h, c, i, x), PutIs
<1>15. /\ \A d \in Blocks : (Used(g, d) <=> Used(h, d)) /\ (White(g, col, d) <=> White(h, col, d))
       /\ \A d : Safe(g, col, d) <=> Safe(h, col, d)
  BY <1>14 DEF Used, White, Live, Safe
<1>16. /\ Owns(g, q, c, i) /\ ~Owns(h, r, c, i)
       /\ \A d \in Blocks, j \in Slots : d # c \/ j # i => (Owns(g, q, d, j) <=> Owns(h, r, d, j))
  BY <1>5, <1>6, <1>10, <1>13, <1>15 DEF Owns
<1>17. x # None => Safe(h, col, x)
  BY <1>1, <1>3, <1>4 DEF OwnersOK
<1>18. /\ \A b \in Blocks : h[b].refs \in Nat
       /\ \A d \in Blocks, j \in Slots : h[d].kids[j] \in Blocks \cup {None}
       /\ \A v \in Locals : l[v] \in Blocks \cup {None}
       /\ \A do : \A p \in Doing(r, do) : OpOK(r[p]) /\ r[p].do = do
       /\ None \notin Blocks
  BY <1>3, Types
<1>19. TypesOK(g, l, q, col, sup) /\ TopsOK(h, q, col) /\ WalksOK(h, q, col) /\ StoresOK(h, l, q) /\ BindsOK(h, l, q)
  <2>1. TypesOK(h, l, q, col, sup) /\ TopsOK(h, q, col) /\ WalksOK(h, q, col) /\ StoresOK(h, l, q) /\ BindsOK(h, l, q)
    BY <1>1, <1>3, PopKeeps
  <2> QED BY <1>14, <2>1 DEF TypesOK
<1>20. HeadersOK(g)
  <2>1. ASSUME NEW b \in Blocks, ~Used(g, b) PROVE g[b] = Free
    BY <1>3, <1>5, <1>14, <1>15, <2>1 DEF HeadersOK
  <2>2. ASSUME NEW b \in Blocks, g[b].layout = "scalars", NEW j \in Slots PROVE g[b].kids[j] = None
    BY <1>3, <1>5, <1>14, <2>2 DEF HeadersOK
  <2>3. ASSUME NEW b \in Blocks, g[b].dying PROVE g[b].layout = "dtor"
    BY <1>3, <1>14, <2>3 DEF HeadersOK
  <2> QED BY <2>1, <2>2, <2>3 DEF HeadersOK
<1>21. OwnersOK(g, l, q, col)
  <2>1. ASSUME NEW d \in Blocks, NEW j \in Slots, Owns(g, q, d, j), ~White(g, col, d), g[d].kids[j] # None
        PROVE  Safe(g, col, g[d].kids[j])
    <3>1. CASE d = c /\ j = i
      BY <1>14, <1>15, <1>17, <2>1, <3>1
    <3>2. CASE d # c \/ j # i
      <4>1. Owns(h, r, d, j) /\ ~White(h, col, d) /\ g[d].kids[j] = h[d].kids[j]
        BY <1>14, <1>15, <1>16, <2>1, <3>2
      <4> QED BY <1>3, <1>15, <2>1, <4>1 DEF OwnersOK
    <3> QED BY <3>1, <3>2
  <2>2. \A v \in Locals : l[v] # None /\ ~Binding(q, v) => Safe(g, col, l[v])
    BY <1>3, <1>6, <1>15 DEF OwnersOK
  <2>3. \A p \in Doing(q, "decref") : Safe(g, col, q[p].b)
    BY <1>3, <1>8, <1>15 DEF OwnersOK
  <2>4. \A p \in Doing(q, "any") : col \/ Used(g, q[p].b)
    <3>1. \A p \in Doing(q, "any") : q[p].b \in Blocks
      BY <1>8, <1>18 DEF OpOK
    <3> QED BY <1>3, <1>8, <1>15, <3>1 DEF OwnersOK
  <2>5. \A p \in Doing(q, "slot") : q[p].x # None => Safe(g, col, q[p].x)
    BY <1>3, <1>9, <1>15 DEF OwnersOK
  <2> QED BY <2>1, <2>2, <2>3, <2>4, <2>5 DEF OwnersOK
<1>22. WalksOK(g, q, col)
  <2>1. /\ \A p \in Doing(q, "walk") : q[p].b \in Blocks
        /\ \A p \in Doing(q, "body") : q[p].b \in Blocks
    BY <1>8, <1>18 DEF OpOK
  <2> QED BY <1>14, <1>15, <1>19, <2>1 DEF WalksOK
\* Below the store of a destructor, variables show what they did.
<1>23. ASSUME InBody(r, n), NEW w \in Locals, ~Binding(r, w), NEW b \in Blocks, Shows(h, l, w, b)
       PROVE  Shows(g, l, w, b)
  <2>1. l[w] # None
    BY <1>18, <1>23 DEF Shows
  <2>2. Held(h, r, col, l[w])
    BY <1>3, <1>23, <2>1, VarHeld
  <2>3. l[w] # c /\ l[w] \in Blocks
    BY <1>12, <1>18, <1>23, <2>1, <2>2 DEF Held
  <2> QED BY <1>14, <1>23, <2>3 DEF Shows
<1>24. BindsOK(g, l, q)
  <2>1. CASE Outermost(r, n)
    <3>1. \A v : ~Binding(r, v)
      BY <1>3, <1>4, <2>1, NoBind
    <3>2. \A p \in Doing(q, "bind") : FALSE
      BY <1>8, <3>1 DEF Binding
    <3> QED BY <3>2 DEF BindsOK
  <2>2. CASE InBody(r, n)
    <3>1. ASSUME NEW p \in Doing(q, "bind"), NEW w \in Locals \ {q[p].at}, Shows(h, l, w, q[p].x), q[p].x # None
          PROVE  Shows(g, l, w, q[p].x)
      <4>1. \A m \in Doing(r, "bind") : m = p
        BY <1>3, <1>8, OneOutermost DEF BindsOK
      <4>2. ~Binding(r, w)
        BY <1>8, <4>1 DEF Binding
      <4>3. q[p].x \in Blocks
        BY <1>8, <1>18, <3>1 DEF OpOK
      <4> QED BY <1>23, <2>2, <3>1, <4>2, <4>3
    <3> QED BY <1>19, <3>1 DEF BindsOK
  <2> QED BY <1>11, <2>1, <2>2
<1>25. StoresOK(g, l, q)
  <2>1. ASSUME NEW p \in Doing(q, "slot"), Outermost(q, p), NEW v \in Locals, Shows(h, l, v, q[p].b),
               Apart(h, q[p].b, h[q[p].b].kids[q[p].at]), ~(InBody(q, p) /\ GuardsHoldScalars)
        PROVE  Shows(g, l, v, q[p].b) /\ Apart(g, q[p].b, g[q[p].b].kids[q[p].at])
    <3>1. q[p].b \in Blocks /\ q[p].at \in Slots /\ r[p] = q[p] /\ p \in Doing(r, "slot")
      BY <1>9, <1>18 DEF OpOK
    <3>2. Outermost(r, p)
      <4>1. r[1] = q[1]
        BY <1>2, <1>7
      <4> QED BY <2>1, <4>1 DEF Outermost
    <3>3. ~Outermost(r, n)
      BY <1>4, <1>9, <3>1, <3>2, OneOutermost
    <3>4. InBody(r, n) /\ GuardsHoldScalars
      BY <1>11, <3>3
    <3>5. \A w : ~Binding(r, w)
      BY <1>3, <3>1, <3>2, NoBind
    <3>6. Shows(g, l, v, q[p].b)
      BY <1>23, <2>1, <3>1, <3>4, <3>5
    <3> PICK d \in Blocks : d = q[p].b
      BY <3>1
    <3> PICK old : old = h[d].kids[q[p].at]
      OBVIOUS
    <3>7. d # c
      <4>1. \A m \in Doing(r, "slot") : Outermost(r, m) => m = p
        BY <3>1, <3>2, OneOutermost
      <4>2. Held(h, r, col, d)
        BY <1>3, <2>1, <3>1, <3>5, <4>1, ShownHeld
      <4> QED BY <1>12, <3>4, <4>2 DEF Held
    <3>8. g[d].kids[q[p].at] = old
      BY <1>14, <3>7
    <3>9. ASSUME old # None PROVE Apart(g, d, old)
      <4>1. PICK S \in SUBSET Blocks :
              /\ d \notin S /\ old \in S
              /\ \A b \in S, j \in Slots :
                   h[b].kids[j] # None /\ Used(h, h[b].kids[j]) => h[b].kids[j] \in S
              /\ \A b \in Blocks \ {d} : h[b].layout = "scalars" => b \in S
        BY <2>1, <3>9 DEF Apart
      <4>2. x # None => x \in S
        <5>1. h[d].layout # "scalars"
          BY <1>3, <3>1, <3>9 DEF HeadersOK
        <5>2. x # None => h[x].layout = "scalars" /\ x \in Blocks
          BY <1>1, <1>3, <1>4, <1>12, <3>4 DEF GuardsOK
        <5> QED BY <4>1, <5>1, <5>2
      <4>3. ASSUME NEW b \in S, NEW j \in Slots, g[b].kids[j] # None, Used(g, g[b].kids[j])
            PROVE  g[b].kids[j] \in S
        <5>1. CASE b = c /\ j = i
          BY <1>14, <4>2, <4>3, <5>1
        <5>2. CASE b # c \/ j # i
          <6>1. g[b].kids[j] = h[b].kids[j] /\ h[b].kids[j] \in Blocks
            BY <1>14, <1>18, <4>3, <5>2
          <6> QED BY <1>15, <4>1, <4>3, <6>1
        <5> QED BY <5>1, <5>2
      <4>4. \A b \in Blocks \ {d} : g[b].layout = "scalars" => b \in S
        BY <1>14, <4>1
      <4> QED BY <4>1, <4>3, <4>4 DEF Apart
    <3>10. old = None => Apart(g, d, old)
      BY DEF Apart
    <3> QED BY <3>6, <3>8, <3>9, <3>10
  <2>2. \A p \in Doing(q, "slot") : q[p].b \in Blocks
    BY <1>9, <1>18 DEF OpOK
  <2>3. ASSUME NEW p \in Doing(q, "slot")
        PROVE  \/ /\ Outermost(q, p)
                  /\ \E v \in Locals : Shows(g, l, v, q[p].b)
                  /\ Apart(g, q[p].b, g[q[p].b].kids[q[p].at])
               \/ InBody(q, p) /\ GuardsHoldScalars
    BY <1>19, <2>1 DEF StoresOK
  <2> QED BY <1>14, <1>15, <1>19, <2>2, <2>3 DEF StoresOK
<1>26. TopsOK(g, q, col)
  <2>1. \A p \in Doing(q, "decref") : q[p].b \in Blocks
    BY <1>8, <1>18 DEF OpOK
  <2> QED BY <1>14, <1>19, <2>1 DEF TopsOK
<1>27. FlagOK(g, q, sup)
  <2>1. \A p \in Doing(q, "walk") : q[p].b \in Blocks
    BY <1>8, <1>18 DEF OpOK
  <2> QED BY <1>3, <1>8, <1>14, <2>1 DEF FlagOK
<1>28. GuardsHoldScalars => GuardsOK(g, q)
  <2> SUFFICES ASSUME GuardsHoldScalars PROVE GuardsOK(g, q)
    OBVIOUS
  <2>1. ASSUME NEW d \in Blocks, NEW j \in Slots, Owns(g, q, d, j), g[d].layout = "dtor", g[d].kids[j] # None
        PROVE  g[g[d].kids[j]].layout = "scalars"
    <3>1. CASE d = c /\ j = i
      <4>1. h[x].layout = "scalars" /\ x \in Blocks
        BY <1>1, <1>3, <1>4, <1>14, <2>1, <3>1 DEF GuardsOK
      <4> QED BY <1>14, <3>1, <4>1
    <3>2. CASE d # c \/ j # i
      <4>1. Owns(h, r, d, j) /\ h[d].layout = "dtor" /\ g[d].kids[j] = h[d].kids[j] /\ h[d].kids[j] \in Blocks
        BY <1>14, <1>16, <1>18, <2>1, <3>2
      <4>2. h[h[d].kids[j]].layout = "scalars"
        BY <1>3, <1>18, <4>1 DEF GuardsOK
      <4> QED BY <1>14, <4>1, <4>2
    <3> QED BY <3>1, <3>2
  <2>2. ASSUME NEW p \in Doing(q, "slot"), g[q[p].b].layout = "dtor", q[p].x # None
        PROVE  g[q[p].x].layout = "scalars"
    <3>1. q[p].b \in Blocks /\ q[p].x \in Blocks
      BY <1>9, <1>18, <2>2 DEF OpOK
    <3> QED BY <1>3, <1>9, <1>14, <2>2, <3>1 DEF GuardsOK
  <2> QED BY <2>1, <2>2 DEF GuardsOK
<1>29. CountsOK(g, l, q, col, None)
  <2>1. ASSUME NEW b \in Blocks PROVE Due(g, l, q, col, None, b) = Due(h, l, r, col, None, b)
    <3>1. Vn(l, r, b) = Vn(l, q, b)
      BY <1>2, <1>6, VarsSame
    <3>2. /\ x = b => On(h, r, col, b) = On(h, q, col, b) + 1
          /\ x # b => On(h, r, col, b) = On(h, q, col, b)
      <4>1. Hits(h, col, o, b) <=> x = b
        BY <1>1 DEF Hits
      <4> QED BY <1>1, <4>1, OpsPush
    <3>3. On(g, q, col, b) = On(h, q, col, b)
      <4>1. OpsOf(g, q, col, b) = OpsOf(h, q, col, b)
        BY <1>14 DEF OpsOf, Hits
      <4> QED BY <4>1 DEF On
    <3>4. \A d \in Blocks : Muted(g, col, d, b) <=> Muted(h, col, d, b)
      BY <1>14, <1>15 DEF Muted
    <3>5. \A d \in Blocks, j \in Slots :
            (d # c \/ j # i) => (Edge(g, q, col, d, j, b) <=> Edge(h, r, col, d, j, b))
      BY <1>14, <1>16, <3>4 DEF Edge
    <3>6. ~Edge(h, r, col, c, i, b) /\ (Edge(g, q, col, c, i, b) <=> x = b)
      BY <1>13, <1>14, <1>16, <3>4 DEF Edge, Muted
    <3>7. /\ x = b => Sn(g, q, col, b) = Sn(h, r, col, b) + 1
          /\ x # b => Sn(g, q, col, b) = Sn(h, r, col, b)
      BY <1>2, <3>5, <3>6, SlotsMove
    <3>8. b # None
      BY <1>18
    <3>9. /\ Count(h, l, r, col, b) = Vn(l, r, b) + Sn(h, r, col, b) + On(h, r, col, b)
          /\ Vn(l, r, b) \in Nat /\ Sn(h, r, col, b) \in Nat /\ On(h, r, col, b) \in Nat
      BY <1>2, Finite
    <3>10. /\ Count(g, l, q, col, b) = Vn(l, q, b) + Sn(g, q, col, b) + On(g, q, col, b)
           /\ On(g, q, col, b) \in Nat
      BY Finite
    <3> QED BY ONLY <3>1, <3>2, <3>3, <3>7, <3>8, <3>9, <3>10 DEF Due
  <2> QED BY <1>3, <1>14, <1>15, <2>1 DEF CountsOK
<1>30. ZeroWalked(g, q)
  BY <1>3, <1>6, <1>14, <1>15 DEF ZeroWalked
<1>31. SweepsOK(g, q, col)
  <2>1. \A p \in Doing(q, "walk") : q[p].b \in Blocks
    BY <1>8, <1>18 DEF OpOK
  <2> QED BY <1>3, <1>8, <1>15, <2>1 DEF SweepsOK
<1> QED BY <1>19, <1>20, <1>21, <1>22, <1>24, <1>25, <1>26, <1>27, <1>28, <1>29, <1>30, <1>31, <1>18 DEF K, Owing, Shape

-----------------------------------------------------------------------------
(* A copy before a write to a shared array. *)

\* How often c holds b.
Kn(h, c, b) == Cardinality({i \in Slots : h[c].kids[i] = b})

LEMMA KidCount ==
    ASSUME NEW h, NEW c, NEW b
    PROVE  Kn(h, c, b) \in Nat /\ ((\A i \in Slots : h[c].kids[i] # b) => Kn(h, c, b) = 0)
<1> DEFINE I == {i \in Slots : h[c].kids[i] = b}
<1>1. IsFiniteSet(Slots) /\ I \subseteq Slots
  BY GraphAssumption, FS_Interval DEF Slots
<1>2. IsFiniteSet(I)
  BY <1>1, FS_Subset
<1>3. ASSUME \A i \in Slots : h[c].kids[i] # b PROVE I = {}
  BY <1>3
<1> QED BY <1>2, <1>3, FS_CardinalityType, FS_EmptySet DEF Kn

\* h with a copy of c in d; one reference to c is given up.
Copied(h, c, d) ==
  [b \in Blocks |->
     IF b = d THEN [h[c] EXCEPT !.refs = 1, !.marked = FALSE]
     ELSE [h[b] EXCEPT !.refs = @ + Kn(h, c, b) - (IF b = c THEN 1 ELSE 0)]]

LEMMA CopiedIs ==
    ASSUME NEW h \in [Blocks -> Header], NEW c \in Blocks, NEW d \in Blocks, c # d, h[c].refs > 1
    PROVE  /\ Copied(h, c, d) \in [Blocks -> Header]
           /\ Copied(h, c, d)[d].refs = 1 /\ ~Copied(h, c, d)[d].marked
           /\ Copied(h, c, d)[d].dying = h[c].dying
           /\ Copied(h, c, d)[d].layout = h[c].layout /\ Copied(h, c, d)[d].kids = h[c].kids
           /\ \A b \in Blocks : b # d =>
                /\ Copied(h, c, d)[b].layout = h[b].layout /\ Copied(h, c, d)[b].kids = h[b].kids
                /\ Copied(h, c, d)[b].dying = h[b].dying /\ Copied(h, c, d)[b].marked = h[b].marked
                /\ Copied(h, c, d)[b].refs = h[b].refs + Kn(h, c, b) - (IF b = c THEN 1 ELSE 0)
<1> PICK g : g = Copied(h, c, d)
  OBVIOUS
<1>1. /\ \A b \in Blocks : h[b] \in Header
      /\ \A b \in Blocks : h[b].refs \in Nat
  BY DEF Header
<1>2. /\ g[d] \in Header /\ g[d].refs = 1 /\ ~g[d].marked /\ g[d].dying = h[c].dying
      /\ g[d].layout = h[c].layout /\ g[d].kids = h[c].kids
  <2>1. g[d] = [h[c] EXCEPT !.refs = 1, !.marked = FALSE]
    BY DEF Copied
  <2> PICK y \in Header : y = h[c]
    BY <1>1
  <2>2. g[d] = [y EXCEPT !.refs = 1, !.marked = FALSE]
    BY <2>1
  <2> PICK w : w = [y EXCEPT !.refs = 1]
    OBVIOUS
  <2>3. w \in Header /\ w.refs = 1 /\ w.dying = y.dying /\ w.layout = y.layout /\ w.kids = y.kids
    BY ONLY y \in Header, w = [y EXCEPT !.refs = 1] DEF Header
  <2>4. g[d] = [w EXCEPT !.marked = FALSE]
    BY <2>2
  <2>5. /\ g[d] \in Header /\ g[d].refs = w.refs /\ g[d].marked = FALSE
        /\ g[d].dying = w.dying /\ g[d].layout = w.layout /\ g[d].kids = w.kids
    BY ONLY <2>3, <2>4 DEF Header
  <2> QED BY <2>3, <2>5
<1>3. ASSUME NEW b \in Blocks, b # d
      PROVE  /\ g[b] \in Header
             /\ g[b].layout = h[b].layout /\ g[b].kids = h[b].kids
             /\ g[b].dying = h[b].dying /\ g[b].marked = h[b].marked
             /\ g[b].refs = h[b].refs + Kn(h, c, b) - (IF b = c THEN 1 ELSE 0)
  <2> PICK n : n = h[b].refs + Kn(h, c, b) - (IF b = c THEN 1 ELSE 0)
    OBVIOUS
  <2>2. n \in Nat
    BY <1>1, KidCount
  <2>3. g[b] = [h[b] EXCEPT !.refs = n]
    BY <1>3 DEF Copied
  <2> PICK y \in Header : y = h[b]
    BY <1>1
  <2>4. g[b] = [y EXCEPT !.refs = n]
    BY <2>3
  <2> QED BY <2>2, <2>4 DEF Header
<1>4. g \in [Blocks -> Header]
  <2>1. \A b \in Blocks : g[b] \in Header
    BY <1>2, <1>3
  <2>2. g = [b \in Blocks |-> g[b]]
    BY DEF Copied
  <2> QED BY <2>1, <2>2
<1> QED BY <1>2, <1>3, <1>4

LEMMA Nothing ==
    ASSUME NEW q \in Seq(OpRec), Len(q) = 0
    PROVE  /\ \A do : Doing(q, do) = {}
           /\ \A b : ~Walked(q, b)
           /\ \A v : ~Binding(q, v)
           /\ \A c, i : ~Storing(q, c, i) /\ ~Passed(q, c, i)
           /\ \A h, col, b : On(h, q, col, b) = 0
<1>1. \A do : Doing(q, do) = {}
  BY DEF Doing
<1>2. \A h, col, b : On(h, q, col, b) = 0
  <2>1. \A h, col, b : OpsOf(h, q, col, b) = {}
    BY DEF OpsOf
  <2> QED BY <2>1, NoneOf DEF On
<1> QED BY <1>1, <1>2 DEF Walked, Binding, Storing, Passed

\* With no call in progress.
LEMMA Rested ==
    ASSUME NEW h, NEW l, NEW q \in Seq(OpRec), Len(q) = 0, NEW col, NEW sup, K(h, l, q, col, sup)
    PROVE  /\ col = FALSE /\ sup = FALSE
           /\ \A b \in Blocks : Used(h, b) => h[b].refs > 0 /\ ~h[b].dying
           /\ \A b \in Blocks : ~White(h, col, b) /\ (Safe(h, col, b) <=> Used(h, b))
           /\ \A v \in Locals : l[v] # None => Safe(h, col, l[v])
           /\ \A b \in Blocks, i \in Slots :
                h[b].kids[i] # None => Used(h, b) /\ Safe(h, col, h[b].kids[i]) /\ Used(h, h[b].kids[i])
<1>1. /\ TypesOK(h, l, q, col, sup) /\ HeadersOK(h) /\ FlagOK(h, q, sup)
      /\ OwnersOK(h, l, q, col) /\ ZeroWalked(h, q) /\ SweepsOK(h, q, col)
  BY DEF K, Owing, Shape
<1>2. col = FALSE /\ sup = FALSE
  BY <1>1, Nothing, Types DEF SweepsOK, FlagOK
<1>3. \A b \in Blocks : Used(h, b) => h[b].refs > 0 /\ ~h[b].dying
  BY <1>1, Nothing, Types DEF ZeroWalked
<1>4. \A b \in Blocks : ~White(h, col, b) /\ (Safe(h, col, b) <=> Used(h, b))
  BY <1>2 DEF White, Safe
<1>5. \A v \in Locals : l[v] # None => Safe(h, col, l[v])
  BY <1>1, Nothing DEF OwnersOK
<1>6. ASSUME NEW b \in Blocks, NEW i \in Slots, h[b].kids[i] # None
      PROVE  Used(h, b) /\ Safe(h, col, h[b].kids[i]) /\ Used(h, h[b].kids[i])
  <2>1. Free.kids[i] = None
    BY DEF Free
  <2>2. Used(h, b)
    BY <1>1, <1>6, <2>1 DEF HeadersOK
  <2>3. Owns(h, q, b, i)
    BY <2>2, Nothing DEF Owns
  <2>4. Safe(h, col, h[b].kids[i])
    BY <1>1, <1>4, <1>6, <2>3 DEF OwnersOK
  <2> QED BY <2>2, <2>4 DEF Safe
<1> QED BY <1>2, <1>3, <1>4, <1>5, <1>6

\* l with d in v.
Rebound(l, v, d) == [l EXCEPT ![v] = d]

\* The variable v holds the shared array or hash c, and d is free.
Copies(h, l, v, c, d) ==
  /\ v \in Locals /\ c \in Blocks /\ l[v] = c
  /\ h[c].layout \in {"array", "hash"} /\ h[c].refs > 1
  /\ d \in Blocks /\ ~Used(h, d)

\* The copy is d, v holds it, and no way leads from what it holds to it.
CopyDone(h, q, col, sup, v, c, d, g, m) ==
  /\ K(g, m, q, col, sup)
  /\ Used(g, d) /\ g[d].layout = h[c].layout
  /\ Shows(g, m, v, d) /\ \A i \in Slots : Apart(g, d, g[d].kids[i])
  /\ \A b \in Blocks : Used(h, b) => Used(g, b) /\ g[b].layout = h[b].layout

LEMMA Copy ==
    ASSUME NEW h, NEW l, NEW q \in Seq(OpRec), Len(q) = 0, NEW col, NEW sup, K(h, l, q, col, sup),
           NEW v, NEW c, NEW d, Copies(h, l, v, c, d),
           NEW g, g = Copied(h, c, d), NEW m, m = Rebound(l, v, d)
    PROVE  CopyDone(h, q, col, sup, v, c, d, g, m)
<1> /\ v \in Locals /\ c \in Blocks /\ l[v] = c
    /\ h[c].layout \in {"array", "hash"} /\ h[c].refs > 1
    /\ d \in Blocks /\ ~Used(h, d)
  BY DEF Copies
<1>1. /\ Owing(h, l, q, col, sup, None) /\ TypesOK(h, l, q, col, sup) /\ HeadersOK(h)
      /\ CountsOK(h, l, q, col, None) /\ (GuardsHoldScalars => GuardsOK(h, q))
      /\ ZeroWalked(h, q)
  BY DEF K, Owing, Shape
<1>2. /\ col = FALSE /\ sup = FALSE
      /\ \A b \in Blocks : Used(h, b) => h[b].refs > 0 /\ ~h[b].dying
      /\ \A b \in Blocks : ~White(h, col, b) /\ (Safe(h, col, b) <=> Used(h, b))
      /\ \A w \in Locals : l[w] # None => Safe(h, col, l[w])
      /\ \A b \in Blocks, i \in Slots :
           h[b].kids[i] # None => Used(h, b) /\ Safe(h, col, h[b].kids[i]) /\ Used(h, h[b].kids[i])
  BY Rested
<1>3. /\ h \in [Blocks -> Header] /\ None \notin Blocks
      /\ \A b \in Blocks : h[b].refs \in Nat
      /\ \A b \in Blocks, i \in Slots : h[b].kids[i] \in Blocks \cup {None}
      /\ \A w \in Locals : l[w] \in Blocks \cup {None}
  <2>1. h \in [Blocks -> Header]
    BY <1>1 DEF TypesOK, Header
  <2> QED BY <1>1, <2>1, Types
<1>4. Used(h, c) /\ c # d
  BY DEF Used
<1> m = [l EXCEPT ![v] = d]
  BY DEF Rebound
<1>5. /\ g \in [Blocks -> Header]
      /\ g[d].refs = 1 /\ ~g[d].marked /\ g[d].dying = h[c].dying
      /\ g[d].layout = h[c].layout /\ g[d].kids = h[c].kids
      /\ \A b \in Blocks : b # d =>
           /\ g[b].layout = h[b].layout /\ g[b].kids = h[b].kids
           /\ g[b].dying = h[b].dying /\ g[b].marked = h[b].marked
           /\ g[b].refs = h[b].refs + Kn(h, c, b) - (IF b = c THEN 1 ELSE 0)
  BY <1>3, <1>4, CopiedIs
<1>6. m \in [Locals -> Blocks \cup {None}] /\ m[v] = d /\ \A w \in Locals : w # v => m[w] = l[w]
  BY <1>1 DEF TypesOK
<1>7. /\ \A b \in Blocks, i \in Slots : h[b].kids[i] # d
      /\ \A w \in Locals : l[w] # d
  BY <1>2, <1>3 DEF Safe
<1>8. /\ Used(g, d) /\ \A b \in Blocks \ {d} : Used(g, b) <=> Used(h, b)
      /\ \A b \in Blocks, i \in Slots : g[b].kids[i] # d /\ g[b].kids[i] \in Blocks \cup {None}
      /\ \A b \in Blocks, i \in Slots : g[b].kids[i] # None => Used(g, b) /\ Used(g, g[b].kids[i])
  <2>1. Used(g, d) /\ \A b \in Blocks \ {d} : Used(g, b) <=> Used(h, b)
    BY <1>5 DEF Used
  <2>2. \A b \in Blocks, i \in Slots : g[b].kids[i] = IF b = d THEN h[c].kids[i] ELSE h[b].kids[i]
    BY <1>5
  <2> QED BY <1>2, <1>3, <1>7, <2>1, <2>2
<1>9. \A b \in Blocks : ~White(g, col, b) /\ (Safe(g, col, b) <=> Used(g, b))
  BY <1>2 DEF White, Safe
<1>10. \A b \in Blocks : \A i : Owns(g, q, b, i) <=> Used(g, b)
  BY Nothing DEF Owns
<1>11. \A b \in Blocks : \A i : Owns(h, q, b, i) <=> Used(h, b)
  BY Nothing DEF Owns
<1>12. TypesOK(g, m, q, col, sup)
  BY <1>1, <1>5, <1>6 DEF TypesOK
<1>13. HeadersOK(g)
  <2>1. ASSUME NEW b \in Blocks, ~Used(g, b) PROVE g[b] = Free
    <3>1. b # d /\ ~Used(h, b) /\ h[b] = Free
      BY <1>1, <1>8, <2>1 DEF HeadersOK
    <3>3. Kn(h, c, b) = 0
      BY <1>2, <1>3, <3>1, KidCount
    <3>4. g[b].refs = 0
      BY <1>3, <1>4, <1>5, <3>1, <3>3 DEF Free
    <3>5. g[b] \in Header /\ h[b] \in Header
      BY <1>3, <1>5
    <3>6. g[b].refs = h[b].refs /\ g[b].layout = h[b].layout /\ g[b].kids = h[b].kids
          /\ g[b].dying = h[b].dying /\ g[b].marked = h[b].marked
      <4>1. h[b].refs = 0
        BY <3>1 DEF Free
      <4> QED BY <1>5, <3>1, <3>4, <4>1
    <3> QED BY <3>1, <3>5, <3>6 DEF Header
  <2>2. ASSUME NEW b \in Blocks, g[b].layout = "scalars", NEW i \in Slots PROVE g[b].kids[i] = None
    <3>1. b # d
      BY <1>5, <2>2
    <3> QED BY <1>1, <1>5, <2>2, <3>1 DEF HeadersOK
  <2>3. ASSUME NEW b \in Blocks, g[b].dying PROVE g[b].layout = "dtor"
    <3>1. b # d
      BY <1>2, <1>4, <1>5, <2>3
    <3> QED BY <1>1, <1>5, <2>3, <3>1 DEF HeadersOK
  <2> QED BY <2>1, <2>2, <2>3 DEF HeadersOK
<1>14. OwnersOK(g, m, q, col)
  <2>1. ASSUME NEW w \in Locals, m[w] # None PROVE Safe(g, col, m[w])
    <3>1. CASE w = v
      BY <1>6, <1>8, <1>9, <3>1
    <3>2. CASE w # v
      BY <1>2, <1>3, <1>6, <1>8, <1>9, <2>1, <3>2
    <3> QED BY <3>1, <3>2
  <2>2. \A b \in Blocks, i \in Slots : g[b].kids[i] # None => Safe(g, col, g[b].kids[i])
    BY <1>8, <1>9
  <2> QED BY <2>1, <2>2, Nothing DEF OwnersOK
<1>15. /\ WalksOK(g, q, col) /\ BindsOK(g, m, q) /\ StoresOK(g, m, q)
       /\ TopsOK(g, q, col) /\ FlagOK(g, q, sup)
  BY <1>2, Nothing DEF WalksOK, BindsOK, StoresOK, TopsOK, FlagOK
<1>16. GuardsHoldScalars => GuardsOK(g, q)
  <2> SUFFICES ASSUME GuardsHoldScalars PROVE GuardsOK(g, q)
    OBVIOUS
  <2>1. ASSUME NEW b \in Blocks, NEW i \in Slots, g[b].layout = "dtor", g[b].kids[i] # None
        PROVE  g[g[b].kids[i]].layout = "scalars"
    <3>1. b # d
      BY <1>5, <2>1
    <3>2. h[b].layout = "dtor" /\ g[b].kids[i] = h[b].kids[i] /\ h[b].kids[i] \in Blocks \ {d}
      BY <1>3, <1>5, <1>7, <2>1, <3>1
    <3>3. h[h[b].kids[i]].layout = "scalars"
      BY <1>1, <1>2, <1>3, <1>11, <2>1, <3>2 DEF GuardsOK
    <3> QED BY <1>5, <3>2, <3>3
  <2> QED BY <2>1, Nothing DEF GuardsOK
<1>17. ZeroWalked(g, q)
  <2>1. ASSUME NEW b \in Blocks, Used(g, b) PROVE g[b].refs # 0 /\ ~g[b].dying
    <3>1. CASE b = d
      BY <1>2, <1>4, <1>5, <3>1
    <3>2. CASE b # d
      BY <1>2, <1>3, <1>5, <1>8, <2>1, <3>2, KidCount
    <3> QED BY <3>1, <3>2
  <2> QED BY <2>1 DEF ZeroWalked
<1>18. SweepsOK(g, q, col)
  BY <1>2, Nothing DEF SweepsOK
<1>19. \A e, b \in Blocks : ~Muted(g, col, e, b) /\ ~Muted(h, col, e, b)
  BY <1>2, <1>9 DEF Muted
<1>20. /\ \A e, b \in Blocks : \A i \in Slots : Edge(g, q, col, e, i, b) <=> g[e].kids[i] = b
       /\ \A e, b \in Blocks : \A i \in Slots : Edge(h, q, col, e, i, b) <=> h[e].kids[i] = b
  BY <1>2, <1>3, <1>8, <1>10, <1>11, <1>19 DEF Edge
<1>21. ASSUME NEW b \in Blocks
       PROVE  Sn(g, q, col, b) = Sn(h, q, col, b) + Kn(h, c, b)
  <2> DEFINE I == {i \in Slots : h[c].kids[i] = b}
             S == SlotsOf(h, q, col, b)
             T == {d} \X I
  <2>1. \A e \in Blocks \X Slots : Edge(g, q, col, e[1], e[2], b) <=> e \in S \/ e \in T
    <3> SUFFICES ASSUME NEW f \in Blocks, NEW i \in Slots
                 PROVE  Edge(g, q, col, f, i, b) <=> <<f, i>> \in S \/ <<f, i>> \in T
      OBVIOUS
    <3>1. <<f, i>> \in S <=> h[f].kids[i] = b
      BY <1>20 DEF SlotsOf
    <3>2. <<f, i>> \in T <=> f = d /\ h[c].kids[i] = b
      OBVIOUS
    <3>3. Edge(g, q, col, f, i, b) <=> g[f].kids[i] = b
      BY <1>20
    <3>4. h[d].kids[i] # b
      BY <1>2, <1>3
    <3> QED BY <1>5, <3>1, <3>2, <3>3, <3>4
  <2>2. SlotsOf(g, q, col, b) = S \cup T
    <3>1. S \subseteq Blocks \X Slots /\ T \subseteq Blocks \X Slots
      BY DEF SlotsOf
    <3> HIDE DEF S, T
    <3> QED BY <2>1, <3>1 DEF SlotsOf
  <2>3. S \cap T = {}
    <3>1. \A i \in Slots : <<d, i>> \notin S
      <4>1. \A i \in Slots : h[d].kids[i] # b
        BY <1>2, <1>3
      <4> QED BY <1>20, <4>1 DEF SlotsOf
    <3> HIDE DEF S
    <3> QED BY <3>1
  <2>4. IsFiniteSet(S) /\ Cardinality(S) \in Nat
    BY Finite, Nothing, FS_CardinalityType
  <2>5. IsFiniteSet(T) /\ Cardinality(T) = Kn(h, c, b)
    <3>1. IsFiniteSet(Slots) /\ I \subseteq Slots
      BY GraphAssumption, FS_Interval DEF Slots
    <3>2. IsFiniteSet({d}) /\ Cardinality({d}) = 1 /\ IsFiniteSet(I) /\ Cardinality(I) = Kn(h, c, b)
      BY <3>1, FS_Singleton, FS_Subset DEF Kn
    <3>3. IsFiniteSet(T) /\ Cardinality(T) = Cardinality({d}) * Cardinality(I)
      <4> HIDE DEF I
      <4> QED BY <3>2, FS_Product
    <3> HIDE DEF I, T
    <3> QED BY <3>2, <3>3, KidCount
  <2>6. Cardinality(S \cup T) = Cardinality(S) + Kn(h, c, b)
    <3>1. Cardinality(S \cap T) = 0
      BY <2>3, NoneOf
    <3> HIDE DEF S, T, I
    <3>2. Cardinality(S \cup T) = Cardinality(S) + Cardinality(T) - Cardinality(S \cap T)
      BY <2>4, <2>5, FS_Union
    <3> QED BY <2>4, <2>5, <3>1, <3>2, KidCount
  <2> QED BY <2>2, <2>6 DEF Sn
<1>22. ASSUME NEW b \in Blocks
       PROVE  /\ b = d => Vn(m, q, b) = 1 /\ Kn(h, c, b) = 0 /\ Sn(h, q, col, b) = 0
              /\ b = c => Vn(l, q, b) = Vn(m, q, b) + 1
              /\ b # d /\ b # c => Vn(m, q, b) = Vn(l, q, b)
  <2>1. \A w \in Locals \ {v} : l[w] = m[w] /\ (Binding(q, w) <=> Binding(q, w))
    BY <1>6
  <2>2. /\ (l[v] = b <=> m[v] = b) => Vn(l, q, b) = Vn(m, q, b)
        /\ l[v] = b /\ m[v] # b => Vn(l, q, b) = Vn(m, q, b) + 1
        /\ l[v] # b /\ m[v] = b => Vn(m, q, b) = Vn(l, q, b) + 1
    <3>1. ~Binding(q, v)
      BY Nothing
    <3> QED BY ONLY <2>1, <3>1, q \in Seq(OpRec), v \in Locals, VarsMove
  <2>3. ASSUME b = d PROVE Vn(l, q, b) = 0 /\ Kn(h, c, b) = 0 /\ Sn(h, q, col, b) = 0
    <3>1. VarsOf(l, q, b) = {} /\ Kn(h, c, b) = 0
      BY <1>7, <2>3, KidCount DEF VarsOf
    <3>2. \A e \in Blocks \X Slots : ~Edge(h, q, col, e[1], e[2], b)
      BY <1>7, <1>20, <2>3
    <3>3. SlotsOf(h, q, col, b) = {}
      BY <3>2 DEF SlotsOf
    <3> QED BY <3>1, <3>3, NoneOf DEF Vn, Sn
  <2> QED BY <1>4, <1>6, <2>2, <2>3
<1>23. CountsOK(g, m, q, col, None)
  <2>1. ASSUME NEW b \in Blocks
        PROVE  /\ b = d => Due(g, m, q, col, None, b) = 1
               /\ b # d => Due(g, m, q, col, None, b)
                            = Due(h, l, q, col, None, b) + Kn(h, c, b) - (IF b = c THEN 1 ELSE 0)
               /\ Due(h, l, q, col, None, b) \in Nat
    <3>1. /\ Count(g, m, q, col, b) = Vn(m, q, b) + Sn(g, q, col, b) + On(g, q, col, b)
          /\ Vn(m, q, b) \in Nat /\ Sn(g, q, col, b) \in Nat
      BY ONLY q \in Seq(OpRec), Finite
    <3>2. /\ Count(h, l, q, col, b) = Vn(l, q, b) + Sn(h, q, col, b) + On(h, q, col, b)
          /\ Vn(l, q, b) \in Nat /\ Sn(h, q, col, b) \in Nat
      BY ONLY q \in Seq(OpRec), Finite
    <3>3. On(g, q, col, b) = 0 /\ On(h, q, col, b) = 0
      BY Nothing
    <3>4. b # None /\ Kn(h, c, b) \in Nat
      BY <1>3, KidCount
    <3>5. /\ Due(g, m, q, col, None, b) = Count(g, m, q, col, b)
          /\ Due(h, l, q, col, None, b) = Count(h, l, q, col, b)
      BY <3>1, <3>2, <3>3, <3>4 DEF Due
    <3>6. /\ Sn(g, q, col, b) = Sn(h, q, col, b) + Kn(h, c, b)
          /\ b = d => Vn(m, q, b) = 1 /\ Kn(h, c, b) = 0 /\ Sn(h, q, col, b) = 0
          /\ b = c => Vn(l, q, b) = Vn(m, q, b) + 1
          /\ b # d /\ b # c => Vn(m, q, b) = Vn(l, q, b)
      BY <1>21, <1>22
    <3> QED BY ONLY <1>4, <3>1, <3>2, <3>3, <3>4, <3>5, <3>6
  <2>2. ASSUME NEW b \in Blocks, Used(g, b)
        PROVE  IF g[b].layout = "scalars" THEN g[b].refs >= Due(g, m, q, col, None, b)
               ELSE g[b].refs = Due(g, m, q, col, None, b)
    <3>1. CASE b = d
      BY <1>5, <2>1, <3>1
    <3>2. CASE b # d
      <4>1. IF h[b].layout = "scalars" THEN h[b].refs >= Due(h, l, q, col, None, b)
            ELSE h[b].refs = Due(h, l, q, col, None, b)
        BY <1>1, <1>2, <1>8, <2>2, <3>2 DEF CountsOK
      <4>2. /\ g[b].layout = h[b].layout
            /\ g[b].refs = h[b].refs + Kn(h, c, b) - (IF b = c THEN 1 ELSE 0)
            /\ Kn(h, c, b) \in Nat /\ h[b].refs \in Nat
        BY <1>3, <1>5, <3>2, KidCount
      <4> QED BY ONLY <2>1, <3>2, <4>1, <4>2
    <3> QED BY <3>1, <3>2
  <2> QED BY <1>9, <2>2 DEF CountsOK
<1>24. K(g, m, q, col, sup)
  BY <1>3, <1>12, <1>13, <1>14, <1>15, <1>16, <1>17, <1>18, <1>23 DEF K, Owing, Shape
<1>25. ASSUME NEW i \in Slots PROVE Apart(g, d, g[d].kids[i])
  <2> DEFINE S == Blocks \ {d}
  <2>1. \A b \in S, j \in Slots : g[b].kids[j] # None /\ Used(g, g[b].kids[j]) => g[b].kids[j] \in S
    BY <1>8
  <2>2. g[d].kids[i] # None => g[d].kids[i] \in S
    BY <1>8
  <2> QED BY <2>1, <2>2 DEF Apart
<1>26. Shows(g, m, v, d)
  BY <1>6 DEF Shows
<1>27. \A b \in Blocks : Used(h, b) => Used(g, b) /\ g[b].layout = h[b].layout
  BY <1>5, <1>8
<1> QED BY <1>5, <1>8, <1>24, <1>25, <1>26, <1>27 DEF CopyDone

-----------------------------------------------------------------------------
(* What the collector marks. *)

LEMMA Reaches ==
    ASSUME NEW h \in [Blocks -> Header], NEW W \in SUBSET Blocks
    PROVE  /\ W \subseteq ReachableIn(h, W) /\ ReachableIn(h, W) \subseteq Blocks
           /\ \A b \in ReachableIn(h, W), i \in Slots :
                h[b].kids[i] # None /\ Live(h, h[b].kids[i]) => h[b].kids[i] \in ReachableIn(h, W)
<1> PICK R : R = ReachableIn(h, W)
  OBVIOUS
<1>1. \A b : b \in R <=> b \in Blocks
        /\ \A S \in SUBSET Blocks : W \subseteq S /\ ClosedUnderKids(h, S) => b \in S
  BY DEF ReachableIn
<1>2. ASSUME NEW b \in R, NEW i \in Slots, NEW kid, kid = h[b].kids[i], kid # None, Live(h, kid)
      PROVE  kid \in R
  <2>1. kid \in Blocks
    BY <1>1, <1>2 DEF Header
  <2>2. ASSUME NEW S \in SUBSET Blocks, W \subseteq S, ClosedUnderKids(h, S) PROVE kid \in S
    <3>1. b \in S
      BY <1>1, <2>2
    <3> QED BY <1>2, <2>2, <3>1 DEF ClosedUnderKids
  <2> QED BY <1>1, <2>1, <2>2
<1> QED BY <1>1, <1>2

\* d has an owner that is no slot of a live block.
Outside(h, l, q, col, d) ==
  \/ \E v \in Locals : l[v] = d /\ ~Binding(q, v)
  \/ \E p \in 1..Len(q) : Hits(h, col, q[p], d)
  \/ \E c \in Blocks, i \in Slots : Owns(h, q, c, i) /\ h[c].kids[i] = d /\ ~Live(h, c)

EdgesTo(h, d) == {e \in Candidates(h) \X Slots : h[e[1]].kids[e[2]] = d}

LEMMA Unmuted ==
    ASSUME NEW h, NEW q, NEW col, col = FALSE, NEW c, NEW i, NEW d
    PROVE  Edge(h, q, col, c, i, d) <=> h[c].kids[i] = d /\ Owns(h, q, c, i)
  BY DEF Edge, Muted, White

\* Counting finds every root that no slot on its way out hides.
LEMMA Counting ==
    ASSUME NEW h, NEW l, NEW q, NEW sup, NEW col, col = FALSE, K(h, l, q, col, sup),
           NEW d \in Candidates(h), d \notin Roots(h), Outside(h, l, q, col, d)
    PROVE  \E e \in EdgesTo(h, d) : ~Owns(h, q, e[1], e[2])
<1>1. TypesOK(h, l, q, col, sup) /\ CountsOK(h, l, q, col, None) /\ HeadersOK(h)
  BY DEF K, Owing, Shape
<1>2. /\ q \in Seq(OpRec) /\ d \in Blocks /\ None \notin Blocks /\ Live(h, d) /\ h[d].layout # "scalars"
      /\ h[d].refs \in Nat
  BY <1>1, Types DEF Candidates
<1>3. ~h[d].dying /\ ~(h[d].refs > Incoming(h, d)) /\ h[d].refs > 0
  BY <1>2 DEF Roots, Live
<1>4. Incoming(h, d) = Cardinality(EdgesTo(h, d))
  BY <1>2, <1>3 DEF Incoming, EdgesTo
<1>5. Safe(h, col, d)
  <2>1. Free.refs = 0
    BY DEF Free
  <2>2. Used(h, d)
    BY <1>1, <1>2, <1>3, <2>1 DEF HeadersOK
  <2> QED BY <1>2, <2>2 DEF Safe, White
<1>6. /\ h[d].refs = Vn(l, q, d) + On(h, q, col, d) + Sn(h, q, col, d)
      /\ Vn(l, q, d) \in Nat /\ On(h, q, col, d) \in Nat /\ Sn(h, q, col, d) \in Nat
      /\ IsFiniteSet(SlotsOf(h, q, col, d))
  <2>1. h[d].refs = Due(h, l, q, col, None, d)
    BY <1>1, <1>2, <1>5 DEF CountsOK
  <2>2. /\ Count(h, l, q, col, d) = Vn(l, q, d) + Sn(h, q, col, d) + On(h, q, col, d)
        /\ Vn(l, q, d) \in Nat /\ On(h, q, col, d) \in Nat /\ Sn(h, q, col, d) \in Nat
        /\ IsFiniteSet(SlotsOf(h, q, col, d))
    BY <1>2, Finite
  <2>3. Due(h, l, q, col, None, d) = Count(h, l, q, col, d)
    BY <1>2, <2>2 DEF Due
  <2> QED BY <2>1, <2>2, <2>3
<1> SUFFICES ASSUME \A e \in EdgesTo(h, d) : Owns(h, q, e[1], e[2]) PROVE FALSE
  OBVIOUS
<1>7. EdgesTo(h, d) \subseteq SlotsOf(h, q, col, d)
  <2>1. \A e \in EdgesTo(h, d) : e \in Blocks \X Slots /\ h[e[1]].kids[e[2]] = d
    BY DEF EdgesTo, Candidates
  <2>2. \A e \in EdgesTo(h, d) : Edge(h, q, col, e[1], e[2], d)
    BY <2>1, Unmuted
  <2> QED BY <2>1, <2>2 DEF SlotsOf
<1>8. /\ Cardinality(EdgesTo(h, d)) \in Nat
      /\ Cardinality(EdgesTo(h, d)) <= Sn(h, q, col, d)
      /\ EdgesTo(h, d) # SlotsOf(h, q, col, d) => Cardinality(EdgesTo(h, d)) < Sn(h, q, col, d)
  <2>1. IsFiniteSet(EdgesTo(h, d)) /\ Cardinality(EdgesTo(h, d)) <= Cardinality(SlotsOf(h, q, col, d))
    BY <1>6, <1>7, FS_Subset
  <2>2. Cardinality(EdgesTo(h, d)) \in Nat
    BY <2>1, FS_CardinalityType
  <2>3. EdgesTo(h, d) # SlotsOf(h, q, col, d) => Cardinality(EdgesTo(h, d)) < Cardinality(SlotsOf(h, q, col, d))
    BY <1>6, <1>7, <2>1, <2>2, FS_Subset, FS_CardinalityType
  <2> QED BY <2>1, <2>2, <2>3 DEF Sn
<1>9. Vn(l, q, d) = 0 /\ On(h, q, col, d) = 0 /\ ~(Cardinality(EdgesTo(h, d)) < Sn(h, q, col, d))
  BY ONLY <1>2, <1>3, <1>4, <1>6, <1>8
<1>10. EdgesTo(h, d) = SlotsOf(h, q, col, d)
  BY <1>8, <1>9
<1>11. ASSUME NEW v \in Locals, l[v] = d, ~Binding(q, v) PROVE FALSE
  <2>1. v \in VarsOf(l, q, d)
    BY <1>11 DEF VarsOf
  <2>2. Cardinality(VarsOf(l, q, d)) > 0
    BY <1>2, <2>1, Finite, SetsMove
  <2> QED BY <1>9, <2>2 DEF Vn
<1>12. ASSUME NEW p \in 1..Len(q), Hits(h, col, q[p], d) PROVE FALSE
  <2>1. p \in OpsOf(h, q, col, d)
    BY <1>12 DEF OpsOf
  <2>2. Cardinality(OpsOf(h, q, col, d)) > 0
    <3>1. IsFiniteSet(OpsOf(h, q, col, d))
      BY <1>2, Finite
    <3> QED BY ONLY <2>1, <3>1, SetsMove
  <2> QED BY <1>9, <2>2 DEF On
<1>13. ASSUME NEW c \in Blocks, NEW i \in Slots, Owns(h, q, c, i), h[c].kids[i] = d, ~Live(h, c) PROVE FALSE
  <2>1. <<c, i>> \in SlotsOf(h, q, col, d)
    <3>1. ~Muted(h, col, c, d)
      BY col = FALSE DEF Muted, White
    <3>2. Edge(h, q, col, c, i, d)
      BY <1>13, <3>1 DEF Edge
    <3> QED BY <3>2 DEF SlotsOf
  <2>2. <<c, i>> \notin EdgesTo(h, d)
    BY <1>13 DEF EdgesTo, Candidates
  <2> QED BY <1>10, <2>1, <2>2
<1> QED BY <1>11, <1>12, <1>13 DEF Outside

\* A slot on its way out is that of a dying block, or the one a statement
\* is storing to.
LEMMA OnItsWay ==
    ASSUME NEW h, NEW l, NEW q, NEW sup, NEW col, col = FALSE, K(h, l, q, col, sup),
           NEW c \in Candidates(h), NEW i \in Slots, ~Owns(h, q, c, i)
    PROVE  \/ c \in Roots(h)
           \/ \E n \in Doing(q, "slot") :
                /\ q[n].b = c /\ q[n].at = i /\ Outermost(q, n)
                /\ \E v \in Locals : Shows(h, l, v, c)
                /\ Apart(h, c, h[c].kids[i])
<1>1. /\ TypesOK(h, l, q, col, sup) /\ HeadersOK(h) /\ WalksOK(h, q, col) /\ StoresOK(h, l, q)
  BY DEF K, Owing, Shape
<1>2. Live(h, c) /\ c \in Blocks /\ h[c].refs \in Nat
  BY <1>1, Types DEF Candidates
<1>3. Used(h, c)
  <2>1. Free.refs = 0 /\ ~Free.dying
    BY DEF Free
  <2> QED BY <1>1, <1>2, <2>1 DEF HeadersOK, Live
<1>4. Passed(q, c, i) \/ Storing(q, c, i)
  BY <1>3 DEF Owns
<1>5. ASSUME Passed(q, c, i) PROVE c \in Roots(h)
  <2>1. h[c].refs = 0
    BY <1>1, <1>5 DEF Passed, WalksOK, White
  <2> QED BY <1>2, <2>1 DEF Live, Roots
<1>6. ASSUME NEW n \in Doing(q, "slot"), q[n].b = c, q[n].at = i, InBody(q, n) PROVE c \in Roots(h)
  <2>1. h[c].dying
    BY <1>1, <1>6, InBodyIs
  <2> QED BY <2>1 DEF Roots
<1>7. ASSUME Storing(q, c, i)
      PROVE  \/ c \in Roots(h)
             \/ \E n \in Doing(q, "slot") :
                  /\ q[n].b = c /\ q[n].at = i /\ Outermost(q, n)
                  /\ \E v \in Locals : Shows(h, l, v, c)
                  /\ Apart(h, c, h[c].kids[i])
  BY <1>1, <1>6, <1>7 DEF Storing, StoresOK
<1> QED BY <1>4, <1>5, <1>7

\* Whatever has an owner outside the graph is marked.
LEMMA Marking ==
    ASSUME NEW h, NEW l, NEW q, NEW sup, NEW col, col = FALSE, K(h, l, q, col, sup),
           NEW d \in Candidates(h), Outside(h, l, q, col, d)
    PROVE  d \in ReachableIn(h, Roots(h))
<1>1. /\ TypesOK(h, l, q, col, sup) /\ HeadersOK(h) /\ BindsOK(h, l, q)
      /\ Owing(h, l, q, col, sup, None)
  BY DEF K, Owing, Shape
<1> PICK R : R = ReachableIn(h, Roots(h))
  OBVIOUS
<1>2. /\ Roots(h) \subseteq R
      /\ \A b \in R, i \in Slots : h[b].kids[i] # None /\ Live(h, h[b].kids[i]) => h[b].kids[i] \in R
      /\ None \notin Blocks
      /\ \A b \in Candidates(h) : b \in Blocks /\ Live(h, b) /\ b # None
  <2>1. h \in [Blocks -> Header] /\ Roots(h) \in SUBSET Blocks
    BY <1>1 DEF TypesOK, Header, Roots, Candidates
  <2>2. /\ None \notin Blocks
        /\ \A b \in Candidates(h) : b \in Blocks /\ Live(h, b) /\ b # None
    BY <1>1, Types DEF Candidates
  <2> QED BY <2>1, <2>2, Reaches
\* Of two things owned outside, neither is hidden by an edge from a root.
<1>3. ASSUME NEW a \in Candidates(h), Outside(h, l, q, col, a), a \notin R
      PROVE  \E n \in Doing(q, "slot") : \E c \in Candidates(h), i \in Slots, v \in Locals :
               /\ q[n].b = c /\ q[n].at = i /\ Outermost(q, n)
               /\ Shows(h, l, v, c) /\ h[c].kids[i] = a /\ Apart(h, c, a)
  <2>1. a \notin Roots(h)
    BY <1>2, <1>3
  <2>2. PICK e \in EdgesTo(h, a) : ~Owns(h, q, e[1], e[2])
    BY <1>3, <2>1, Counting
  <2>3. e[1] \in Candidates(h) /\ e[2] \in Slots /\ h[e[1]].kids[e[2]] = a
    BY DEF EdgesTo
  <2>4. e[1] \notin Roots(h)
    BY <1>2, <1>3, <2>3
  <2>5. \E n \in Doing(q, "slot") :
          /\ q[n].b = e[1] /\ q[n].at = e[2] /\ Outermost(q, n)
          /\ \E v \in Locals : Shows(h, l, v, e[1])
          /\ Apart(h, e[1], h[e[1]].kids[e[2]])
    BY <2>2, <2>3, <2>4, OnItsWay
  <2> QED BY <2>3, <2>5
<1> SUFFICES ASSUME d \notin R PROVE FALSE
  OBVIOUS
<1>4. PICK n \in Doing(q, "slot"), c \in Candidates(h), i \in Slots, v \in Locals :
        /\ q[n].b = c /\ q[n].at = i /\ Outermost(q, n)
        /\ Shows(h, l, v, c) /\ h[c].kids[i] = d /\ Apart(h, c, d)
  BY <1>3
<1>5. ~Binding(q, v) /\ \A m \in Doing(q, "slot") : Outermost(q, m) => m = n
  BY <1>1, <1>4, NoBind, OneOutermost
<1> PICK a : a = l[v]
  OBVIOUS
<1>6. a # None /\ Held(h, q, col, a)
  BY <1>1, <1>2, <1>4, <1>5, ShownHeld
<1>7. a \in Blocks /\ Live(h, a) /\ (a = c \/ \E j \in Slots : h[a].kids[j] = c)
  BY <1>4, <1>6 DEF Held, Safe, Live, Shows
<1>8. a \in Candidates(h)
  <2>1. h[a].layout # "scalars"
    BY <1>1, <1>2, <1>4, <1>7 DEF HeadersOK, Candidates
  <2> QED BY <1>7, <2>1 DEF Candidates
<1>9. a \in R
  <2> SUFFICES ASSUME a \notin R PROVE FALSE
    OBVIOUS
  <2>1. Outside(h, l, q, col, a)
    BY <1>5 DEF Outside
  <2>2. PICK m \in Doing(q, "slot"), e \in Candidates(h), j \in Slots :
          q[m].b = e /\ q[m].at = j /\ Outermost(q, m) /\ h[e].kids[j] = a
    BY <1>3, <1>8, <2>1
  <2>3. m = n /\ a = d
    BY <1>4, <1>5, <2>2
  <2>4. PICK S \in SUBSET Blocks :
          /\ c \notin S /\ a \in S
          /\ \A b \in S, k \in Slots :
               h[b].kids[k] # None /\ Used(h, h[b].kids[k]) => h[b].kids[k] \in S
    BY <1>4, <1>6, <2>3 DEF Apart
  <2>5. Used(h, c)
    <3>1. Free.refs = 0 /\ ~Free.dying
      BY DEF Free
    <3> QED BY <1>1, <1>2, <3>1 DEF HeadersOK, Live
  <2> QED BY <1>2, <1>7, <2>4, <2>5
<1>10. c \in R
  BY <1>2, <1>7, <1>9
<1> QED BY <1>2, <1>4, <1>10

LEMMA MarkedIs ==
    ASSUME NEW h \in [Blocks -> Header]
    PROVE  /\ Marked(h) \in [Blocks -> Header]
           /\ Like(Marked(h), h)
           /\ \A b \in Blocks :
                /\ Marked(h)[b].refs = h[b].refs /\ Marked(h)[b].dying = h[b].dying
                /\ Live(h, b) => (Marked(h)[b].marked <=> b \in ReachableIn(h, Roots(h)))
                /\ ~Live(h, b) => Marked(h)[b] = h[b]
<1> PICK g : g = Marked(h)
  OBVIOUS
<1> PICK R : R = ReachableIn(h, Roots(h))
  OBVIOUS
<1>1. g = [b \in Blocks |-> IF Live(h, b) THEN [h[b] EXCEPT !.marked = (b \in R)] ELSE h[b]]
  BY DEF Marked
<1>2. ASSUME NEW b \in Blocks
      PROVE  /\ g[b] \in Header /\ g[b].layout = h[b].layout /\ g[b].kids = h[b].kids
             /\ g[b].refs = h[b].refs /\ g[b].dying = h[b].dying
             /\ Live(h, b) => (g[b].marked <=> b \in R)
             /\ ~Live(h, b) => g[b] = h[b]
  <2>1. CASE Live(h, b)
    <3> PICK y \in Header : y = h[b]
      OBVIOUS
    <3>1. g[b] = [y EXCEPT !.marked = (b \in R)]
      BY <1>1, <2>1
    <3>2. /\ g[b] \in Header /\ g[b].layout = y.layout /\ g[b].kids = y.kids
          /\ g[b].refs = y.refs /\ g[b].dying = y.dying /\ (g[b].marked <=> b \in R)
      <4>1. (b \in R) = TRUE \/ (b \in R) = FALSE
        OBVIOUS
      <4>2. (b \in R) = TRUE => g[b] = [y EXCEPT !.marked = TRUE]
        BY <3>1
      <4>3. (b \in R) = FALSE => g[b] = [y EXCEPT !.marked = FALSE]
        BY <3>1
      <4> QED BY ONLY <4>1, <4>2, <4>3, y \in Header DEF Header
    <3> QED BY <2>1, <3>2
  <2>2. CASE ~Live(h, b)
    BY <1>1, <2>2
  <2> QED BY <2>1, <2>2
<1>3. g \in [Blocks -> Header]
  <2>1. \A b \in Blocks : g[b] \in Header
    BY <1>2
  <2>2. g = [b \in Blocks |-> g[b]]
    BY <1>1
  <2> QED BY <2>1, <2>2
<1> QED BY <1>2, <1>3 DEF Like

LEMMA Collect ==
    ASSUME NEW h, NEW l, NEW q \in Seq(OpRec), NEW col, NEW sup, col = FALSE,
           K(h, l, q, col, sup), Low(h, q), NEW dol, dol = TRUE
    PROVE  K(Marked(h), l, Push(q, SweepOp(1)), dol, sup)
<1> PICK o : o = SweepOp(1)
  OBVIOUS
<1>1. o \in OpRec /\ OpOK(o) /\ o.do = "sweep" /\ o.at = 1 /\ o.do \in Plain \cup {"sweep"}
  BY OpsTyped
<1> PICK r : r = Push(q, o)
  OBVIOUS
<1>2. /\ r \in Seq(OpRec) /\ Len(r) = Len(q) + 1 /\ Len(q) \in Nat /\ r[Len(q) + 1] = o
      /\ \A p \in 1..Len(q) : r[p] = q[p]
  BY <1>1, PushIs
<1>3. /\ Owing(h, l, q, col, sup, None)
      /\ TypesOK(h, l, q, col, sup) /\ HeadersOK(h) /\ BindsOK(h, l, q) /\ StoresOK(h, l, q)
      /\ FlagOK(h, q, sup) /\ (GuardsHoldScalars => GuardsOK(h, q)) /\ OwnersOK(h, l, q, col)
      /\ WalksOK(h, q, col) /\ CountsOK(h, l, q, col, None) /\ ZeroWalked(h, q) /\ SweepsOK(h, q, col)
  BY DEF K, Owing, Shape
<1>4. /\ \A do : do # "sweep" => Doing(r, do) = Doing(q, do)
      /\ \A p : p \in Doing(r, "sweep") <=> p \in Doing(q, "sweep") \/ p = Len(q) + 1
      /\ \A v : Binding(r, v) <=> Binding(q, v)
      /\ \A b : Walked(r, b) <=> Walked(q, b)
      /\ \A f, c, i : Owns(f, r, c, i) <=> Owns(f, q, c, i)
  BY <1>1, PushMeans, PlainOwns
<1>5. \A do \in {"decref", "any", "walk", "body", "bind", "slot"} :
         Doing(r, do) = Doing(q, do) /\ \A p \in Doing(q, do) : r[p] = q[p] /\ p \in 1..Len(q)
  BY <1>2, <1>4 DEF Doing
<1>6. /\ h \in [Blocks -> Header] /\ None \notin Blocks
      /\ \A b \in Blocks : h[b].refs \in Nat /\ h[b].dying \in BOOLEAN
      /\ \A b \in Blocks, i \in Slots : h[b].kids[i] \in Blocks \cup {None}
      /\ \A v \in Locals : l[v] \in Blocks \cup {None}
      /\ \A do : \A p \in Doing(q, do) : OpOK(q[p]) /\ q[p].do = do /\ p \in 1..Len(q)
  <2>1. h \in [Blocks -> Header]
    BY <1>3 DEF TypesOK, Header
  <2> QED BY <1>3, <2>1, Types
<1> PICK R : R = ReachableIn(h, Roots(h))
  OBVIOUS
<1>7. /\ Roots(h) \subseteq R
      /\ \A b \in R, i \in Slots : h[b].kids[i] # None /\ Live(h, h[b].kids[i]) => h[b].kids[i] \in R
  <2>1. Roots(h) \in SUBSET Blocks
    BY DEF Roots, Candidates
  <2> QED BY <1>6, <2>1, Reaches
<1> PICK g : g = Marked(h)
  OBVIOUS
<1>8. /\ g \in [Blocks -> Header] /\ Like(g, h)
      /\ \A b \in Blocks : /\ g[b].refs = h[b].refs /\ g[b].dying = h[b].dying
                           /\ Live(h, b) => (g[b].marked <=> b \in R)
                           /\ ~Live(h, b) => g[b] = h[b]
  BY <1>6, MarkedIs
<1>9. \A b \in Blocks : g[b].layout = h[b].layout /\ g[b].kids = h[b].kids
  BY <1>8 DEF Like
<1>10. /\ \A b \in Blocks : White(g, dol, b) <=> b \in Candidates(h) /\ b \notin R
       /\ \A b \in Blocks : ~White(h, col, b)
       /\ \A b \in Blocks : Used(g, b) <=> Used(h, b)
       /\ \A b \in Blocks : Safe(h, col, b) <=> Used(h, b)
  BY <1>8, <1>9 DEF White, Live, Candidates, Used, Safe
<1>11. /\ \A c \in Blocks : \A i : Owns(g, r, c, i) <=> Owns(h, q, c, i)
  BY <1>4, <1>10 DEF Owns
\* What is owned outside is not left to the sweep.
<1>12. ASSUME NEW d \in Blocks, Used(h, d), Outside(h, l, q, col, d) PROVE Safe(g, dol, d)
  <2>1. d \in Candidates(h) => d \in R
    BY <1>3, <1>12, Marking
  <2> QED BY <1>10, <1>12, <2>1 DEF Safe
<1>13. TypesOK(h, l, r, dol, sup) /\ WalksOK(h, r, col) /\ BindsOK(h, l, r) /\ StoresOK(h, l, r)
       /\ TopsOK(h, r, dol) /\ FlagOK(h, r, sup) /\ (GuardsHoldScalars => GuardsOK(h, r))
  <2>1. TypesOK(h, l, r, col, sup) /\ WalksOK(h, r, col) /\ BindsOK(h, l, r) /\ StoresOK(h, l, r)
        /\ FlagOK(h, r, sup) /\ (GuardsHoldScalars => GuardsOK(h, r))
    BY <1>1, <1>3, PushKeeps
  <2>2. TopsOK(h, r, dol)
    BY <1>1, PushKeeps
  <2> QED BY <2>1, <2>2 DEF TypesOK
<1>14. /\ TypesOK(g, l, r, dol, sup) /\ BindsOK(g, l, r) /\ StoresOK(g, l, r)
       /\ TopsOK(g, r, dol) /\ FlagOK(g, r, sup) /\ (GuardsHoldScalars => GuardsOK(g, r))
  <2>1. TypesOK(g, l, r, dol, sup)
    BY <1>8, <1>13 DEF TypesOK
  <2>2. /\ BindsOK(g, l, r) /\ StoresOK(g, l, r)
        /\ TopsOK(g, r, dol) /\ FlagOK(g, r, sup)
    BY <1>8, <1>13, LikeKeeps
  <2>3. GuardsOK(h, r) => GuardsOK(g, r)
    BY <1>8, <1>13, LikeKeeps
  <2> QED BY <1>13, <2>1, <2>2, <2>3
<1>15. HeadersOK(g)
  <2>1. Free.refs = 0 /\ ~Free.dying
    BY DEF Free
  <2>2. \A b \in Blocks : ~Used(g, b) => g[b] = Free
    BY <1>3, <1>6, <1>8, <1>10, <2>1 DEF HeadersOK, Live
  <2> QED BY <1>3, <1>8, <1>9, <2>2 DEF HeadersOK
<1>16. OwnersOK(g, l, r, dol)
  <2>1. ASSUME NEW v \in Locals, l[v] # None, ~Binding(r, v) PROVE Safe(g, dol, l[v])
    <3>1. Used(h, l[v]) /\ l[v] \in Blocks
      BY <1>3, <1>4, <1>6, <2>1 DEF OwnersOK, Safe
    <3> QED BY <1>4, <1>12, <2>1, <3>1 DEF Outside
  <2>2. ASSUME NEW p \in Doing(r, "decref") PROVE Safe(g, dol, r[p].b)
    <3>1. r[p] = q[p] /\ p \in Doing(q, "decref") /\ p \in 1..Len(q) /\ q[p].b \in Blocks
      BY <1>5, <1>6 DEF OpOK
    <3>2. Used(h, q[p].b)
      BY <1>3, <3>1 DEF OwnersOK, Safe
    <3>3. Hits(h, col, q[p], q[p].b)
      BY <1>6, <3>1 DEF Hits
    <3> QED BY <1>12, <3>1, <3>2, <3>3 DEF Outside
  <2>3. ASSUME NEW p \in Doing(r, "slot"), r[p].x # None PROVE Safe(g, dol, r[p].x)
    <3>1. r[p] = q[p] /\ p \in Doing(q, "slot") /\ p \in 1..Len(q)
      BY <1>5
    <3>2. Used(h, q[p].x) /\ q[p].x \in Blocks
      BY <1>3, <2>3, <3>1 DEF OwnersOK, Safe
    <3>3. Hits(h, col, q[p], q[p].x)
      BY <1>6, <3>1 DEF Hits
    <3> QED BY <1>12, <3>1, <3>2, <3>3 DEF Outside
  <2>4. ASSUME NEW c \in Blocks, NEW i \in Slots, Owns(g, r, c, i), ~White(g, dol, c), g[c].kids[i] # None
        PROVE  Safe(g, dol, g[c].kids[i])
    <3> PICK kid : kid = h[c].kids[i]
      OBVIOUS
    <3>1. kid \in Blocks /\ Owns(h, q, c, i) /\ g[c].kids[i] = kid
      BY <1>6, <1>9, <1>11, <2>4
    <3>2. Held(h, q, col, kid)
      BY <1>3, <1>6, <1>10, <3>1, SlotHeld
    <3>3. Used(h, kid) /\ Live(h, kid)
      BY <3>2 DEF Held, Safe, Live
    <3>4. CASE ~Live(h, c)
      BY <1>12, <3>1, <3>3, <3>4 DEF Outside
    <3>5. CASE Live(h, c)
      <4>1. h[c].layout # "scalars"
        BY <1>3, <1>6, <3>1 DEF HeadersOK
      <4>2. c \in R
        BY <1>10, <2>4, <3>5, <4>1 DEF Candidates
      <4>3. kid \in R
        BY <1>6, <1>7, <3>1, <3>3, <4>2
      <4> QED BY <1>10, <3>1, <3>3, <4>3 DEF Safe
    <3> QED BY <3>4, <3>5
  <2>5. \A p \in Doing(r, "any") : dol \/ Used(g, r[p].b)
    OBVIOUS
  <2> QED BY <2>1, <2>2, <2>3, <2>4, <2>5 DEF OwnersOK
<1>17. WalksOK(g, r, dol)
  <2>1. /\ \A p \in Doing(r, "walk") : r[p].b \in Blocks
        /\ \A p \in Doing(r, "body") : r[p].b \in Blocks
    BY <1>5, <1>6 DEF OpOK
  <2>2. ASSUME NEW p \in Doing(r, "walk")
        PROVE  /\ Used(g, r[p].b) /\ g[r[p].b].refs = 0
               /\ \A n \in Doing(r, "walk") : r[n].b = r[p].b => n = p
    <3>1. /\ Used(h, r[p].b) /\ (h[r[p].b].refs = 0 \/ White(h, col, r[p].b))
          /\ \A n \in Doing(r, "walk") : r[n].b = r[p].b => n = p
      BY <1>13 DEF WalksOK
    <3> QED BY <1>8, <1>10, <2>1, <3>1
  <2>3. ASSUME NEW p \in Doing(r, "body")
        PROVE  p > 1 /\ r[p - 1] = WalkOp(r[p].b, 1) /\ g[r[p].b].dying
    <3>1. p > 1 /\ r[p - 1] = WalkOp(r[p].b, 1) /\ h[r[p].b].dying
      BY <1>13 DEF WalksOK
    <3> QED BY <1>8, <2>1, <3>1
  <2> QED BY ONLY <2>2, <2>3 DEF WalksOK
<1>18. ZeroWalked(g, r)
  BY <1>3, <1>4, <1>8, <1>10 DEF ZeroWalked
<1>19. SweepsOK(g, r, dol)
  <2>1. Doing(q, "sweep") = {}
    BY <1>3 DEF SweepsOK
  <2>2. \A p : p \in Doing(r, "sweep") <=> p = Len(q) + 1
    BY <1>4, <2>1
  <2>3. ASSUME NEW n \in Doing(r, "walk") PROVE ~White(g, dol, r[n].b)
    <3>1. r[n] = q[n] /\ n \in Doing(q, "walk") /\ q[n].b \in Blocks
      BY <1>5, <1>6 DEF OpOK
    <3>2. h[q[n].b].refs = 0
      BY <1>3, <1>10, <3>1 DEF WalksOK
    <3>3. q[n].b \in Candidates(h) => q[n].b \in Roots(h)
      BY <1>6, <3>1, <3>2 DEF Candidates, Roots, Live
    <3> QED BY <1>7, <1>10, <3>1, <3>3
  <2>4. \A b \in Blocks : b >= 1
    BY DEF Blocks
  <2>5. dol <=> Doing(r, "sweep") # {}
    <3>1. Len(q) + 1 \in Doing(r, "sweep")
      BY <2>2
    <3> QED BY <3>1
  <2>6. ASSUME NEW p \in Doing(r, "sweep")
        PROVE  /\ \A n \in Doing(r, "sweep") : n = p
               /\ \A n \in Doing(r, "walk") : n < p => ~White(g, dol, r[n].b)
               /\ \A b \in Blocks : White(g, dol, b) =>
                    b >= r[p].at \/ \E n \in Doing(r, "walk") : n > p /\ r[n].b = b
    <3>1. p = Len(q) + 1
      BY <2>2
    <3>2. r[p].at = 1
      BY <1>1, <1>2, <3>1
    <3>3. \A n \in Doing(r, "sweep") : n = p
      BY <2>2, <3>1
    <3> QED BY <2>3, <2>4, <3>2, <3>3
  <2> QED BY ONLY <2>5, <2>6 DEF SweepsOK
<1>20. CountsOK(g, l, r, dol, None)
  <2>1. ASSUME NEW b \in Blocks
        PROVE  /\ Due(g, l, r, dol, None, b) <= Due(h, l, q, col, None, b)
               /\ h[b].layout # "scalars" => Due(g, l, r, dol, None, b) = Due(h, l, q, col, None, b)
               /\ Due(g, l, r, dol, None, b) \in Nat /\ Due(h, l, q, col, None, b) \in Nat
    <3>1. Vn(l, r, b) = Vn(l, q, b)
      BY <1>2, <1>4, VarsSame
    <3>2. On(g, r, dol, b) = On(h, q, col, b)
      <4>1. OpsOf(g, r, dol, b) = OpsOf(h, q, col, b)
        <5>1. ASSUME NEW p \in 1..Len(r) PROVE Hits(g, dol, r[p], b) <=> p \in 1..Len(q) /\ Hits(h, col, q[p], b)
          <6>0. \A n \in Nat : n + 1 \notin 1..n /\ \A m \in 1..n + 1 : m = n + 1 \/ m \in 1..n
            OBVIOUS
          <6>1. CASE p = Len(q) + 1
            <7>1. p \notin 1..Len(q) /\ r[p].do = "sweep"
              BY <1>1, <1>2, <6>0, <6>1
            <7> QED BY <7>1 DEF Hits
          <6>2. CASE p \in 1..Len(q)
            <7>1. q[p].do # "any"
              BY <6>2 DEF Low, Doing
            <7> QED BY <1>2, <6>2, <7>1 DEF Hits
          <6> QED BY <1>2, <6>0, <6>1, <6>2
        <5>2. \A p \in 1..Len(q) : p \in 1..Len(r)
          BY <1>2
        <5> QED BY <5>1, <5>2 DEF OpsOf
      <4> QED BY <4>1 DEF On
    <3>3. \A c \in Blocks, i \in Slots : Edge(g, r, dol, c, i, b) => Edge(h, q, col, c, i, b)
      BY <1>9, <1>10, <1>11 DEF Edge, Muted
    <3>4. Sn(g, r, dol, b) <= Sn(h, q, col, b)
      BY <1>2, <3>3, SlotsFewer
    <3>5. h[b].layout # "scalars" => Sn(g, r, dol, b) = Sn(h, q, col, b)
      <4>1. SUFFICES ASSUME h[b].layout # "scalars" PROVE Sn(g, r, dol, b) = Sn(h, q, col, b)
        OBVIOUS
      <4>2. \A c \in Blocks, i \in Slots : Edge(g, r, dol, c, i, b) <=> Edge(h, q, col, c, i, b)
        BY <1>9, <1>10, <1>11, <4>1 DEF Edge, Muted
      <4> QED BY ONLY <1>2, q \in Seq(OpRec), <4>2, SlotsSame
    <3>6. b # None
      BY <1>6
    <3>7. /\ Count(g, l, r, dol, b) = Vn(l, r, b) + Sn(g, r, dol, b) + On(g, r, dol, b)
          /\ Vn(l, r, b) \in Nat /\ Sn(g, r, dol, b) \in Nat /\ On(g, r, dol, b) \in Nat
      BY ONLY <1>2, Finite
    <3>8. /\ Count(h, l, q, col, b) = Vn(l, q, b) + Sn(h, q, col, b) + On(h, q, col, b)
          /\ Sn(h, q, col, b) \in Nat
      BY Finite
    <3> QED BY ONLY <3>1, <3>2, <3>4, <3>5, <3>6, <3>7, <3>8 DEF Due
  <2>2. ASSUME NEW b \in Blocks, Safe(g, dol, b)
        PROVE  IF g[b].layout = "scalars" THEN g[b].refs >= Due(g, l, r, dol, None, b)
               ELSE g[b].refs = Due(g, l, r, dol, None, b)
    <3>1. IF h[b].layout = "scalars" THEN h[b].refs >= Due(h, l, q, col, None, b)
          ELSE h[b].refs = Due(h, l, q, col, None, b)
      BY <1>3, <1>10, <2>2 DEF CountsOK, Safe
    <3>2. g[b].layout = h[b].layout /\ g[b].refs = h[b].refs /\ h[b].refs \in Nat
      BY <1>6, <1>8, <1>9
    <3> QED BY ONLY b \in Blocks, <2>1, <3>1, <3>2
  <2> QED BY <2>2 DEF CountsOK
<1> QED BY <1>6, <1>14, <1>15, <1>16, <1>17, <1>18, <1>19, <1>20 DEF K, Owing, Shape

-----------------------------------------------------------------------------
(* Statements: what they read and where they store. *)

LEMMA StepTypes ==
    ASSUME NEW q, K(heap, local, q, collecting, suppressed)
    PROVE  /\ TypesOK(heap, local, q, collecting, suppressed) /\ q \in Seq(OpRec)
           /\ heap \in [Blocks -> Header] /\ local \in [Locals -> Blocks \cup {None}]
           /\ \A b \in Blocks, i \in Slots : heap[b].kids[i] \in Blocks \cup {None}
           /\ None \notin Blocks
<1>1. TypesOK(heap, local, q, collecting, suppressed)
  BY DEF K, Owing, Shape
<1> QED BY <1>1, Types DEF TypesOK

LEMMA ReadShown ==
    ASSUME NEW q, K(heap, local, q, collecting, suppressed),
           NEW W \in SUBSET Locals, NEW x \in Read(W)
    PROVE  /\ x \in Blocks \cup {None}
           /\ x # None => \E w \in W : Shows(heap, local, w, x)
<1>1. CASE x = None
  BY <1>1
<1>2. ASSUME NEW w \in W, x = local[w] PROVE x \in Blocks \cup {None} /\ Shows(heap, local, w, x)
  BY <1>2, StepTypes DEF Shows
<1>3. ASSUME NEW w \in W, NEW i \in Slots, local[w] # None, x = heap[local[w]].kids[i]
      PROVE  x \in Blocks \cup {None} /\ Shows(heap, local, w, x)
  <2>1. local[w] \in Blocks
    BY <1>3, StepTypes
  <2> QED BY <1>3, <2>1, StepTypes DEF Shows
<1>4. \/ x = None \/ \E w \in W : x = local[w]
      \/ \E w \in W, i \in Slots : local[w] # None /\ x = heap[local[w]].kids[i]
  BY DEF Read
<1> QED BY <1>1, <1>2, <1>3, <1>4

LEMMA TargetShown ==
    ASSUME NEW q, K(heap, local, q, collecting, suppressed),
           NEW v \in Locals, NEW c \in Targets(v)
    PROVE  /\ c \in Blocks /\ Shows(heap, local, v, c)
<1>1. c \in Read({v}) /\ c # None
  BY DEF Targets
<1> QED BY <1>1, ReadShown

\* What a statement reads has an owner.
LEMMA ReadHeld ==
    ASSUME NEW q, Len(q) = 0, K(heap, local, q, collecting, suppressed),
           NEW x, NEW w \in Locals, x # None, Shows(heap, local, w, x)
    PROVE  Held(heap, q, collecting, x)
<1>1. q \in Seq(OpRec)
  BY StepTypes
<1>2. /\ \A b : ~Walked(q, b)
      /\ \A b \in Blocks : Used(heap, b) => heap[b].refs > 0 /\ ~heap[b].dying
      /\ \A b \in Blocks : Safe(heap, collecting, b) <=> Used(heap, b)
      /\ \A v \in Locals : local[v] # None => Safe(heap, collecting, local[v])
      /\ \A b \in Blocks, i \in Slots : heap[b].kids[i] # None => Safe(heap, collecting, heap[b].kids[i])
  BY <1>1, Nothing, Rested
<1>3. Safe(heap, collecting, x)
  <2>1. local[w] # None => local[w] \in Blocks
    BY StepTypes
  <2> QED BY <1>2, <2>1 DEF Shows
<1> QED BY <1>2, <1>3 DEF Held, Safe

\* A store that the program may make does not cut its own target off.
LEMMA NotBack ==
    ASSUME NEW q, Len(q) = 0, K(heap, local, q, collecting, suppressed),
           NEW c \in Blocks, NEW i \in Slots, ~LeadsBack(c, i)
    PROVE  Apart(heap, c, heap[c].kids[i])
<1> PICK old : old = heap[c].kids[i]
  OBVIOUS
<1>1. q \in Seq(OpRec) /\ heap \in [Blocks -> Header] /\ HeadersOK(heap)
      /\ \A b \in Blocks, j \in Slots : heap[b].kids[j] \in Blocks \cup {None}
  BY StepTypes DEF K, Owing, Shape
<1>2. \A b \in Blocks : Used(heap, b) => Live(heap, b)
  BY <1>1, Rested DEF Live
<1> SUFFICES ASSUME old # None PROVE Apart(heap, c, old)
  BY DEF Apart
<1>3. PICK S \in SUBSET Blocks : {old} \subseteq S /\ ClosedUnderKids(heap, S) /\ c \notin S
  BY DEF LeadsBack, ReachableIn
<1> PICK T : T = S \cup {b \in Blocks : b # c /\ heap[b].layout = "scalars"}
  OBVIOUS
<1>4. T \in SUBSET Blocks /\ c \notin T /\ old \in T
  BY <1>3
<1>5. ASSUME NEW b \in T, NEW j \in Slots, heap[b].kids[j] # None, Used(heap, heap[b].kids[j])
      PROVE  heap[b].kids[j] \in T
  <2>1. b \in Blocks /\ heap[b].kids[j] \in Blocks
    BY <1>1, <1>4, <1>5
  <2>2. heap[b].layout # "scalars"
    BY <1>1, <1>5, <2>1 DEF HeadersOK
  <2>3. b \in S
    BY <1>5, <2>2
  <2> QED BY <1>2, <1>3, <1>5, <2>1, <2>3 DEF ClosedUnderKids
<1>6. \A b \in Blocks \ {c} : heap[b].layout = "scalars" => b \in T
  OBVIOUS
<1> QED BY <1>4, <1>5, <1>6 DEF Apart

\* A new block leads nowhere it could not be reached from before.
LEMMA ApartBuilt ==
    ASSUME NEW h \in [Blocks -> Header], NEW c \in Blocks, NEW old, Apart(h, c, old), old # None,
           NEW b \in Blocks, b # c, b # old, ~Used(h, b), \A d \in Blocks, i \in Slots : h[d].kids[i] # b,
           NEW z \in Header, z.layout = "scalars" => \A i \in Slots : z.kids[i] = None
    PROVE  Apart(Built(h, b, z), c, old)
<1> PICK g : g = Built(h, b, z)
  OBVIOUS
<1>1. g[b] = z /\ \A d \in Blocks : d # b => g[d] = h[d]
  BY BuiltIs
<1>2. PICK S \in SUBSET Blocks :
        /\ c \notin S /\ old \in S
        /\ \A d \in S, i \in Slots :
             h[d].kids[i] # None /\ Used(h, h[d].kids[i]) => h[d].kids[i] \in S
        /\ \A d \in Blocks \ {c} : h[d].layout = "scalars" => d \in S
  BY DEF Apart
<1> PICK T : T = IF z.layout = "scalars" THEN S \cup {b} ELSE S \ {b}
  OBVIOUS
<1>3. T \in SUBSET Blocks /\ c \notin T /\ old \in T /\ \A d \in Blocks : d # b => (d \in T <=> d \in S)
  BY <1>2
<1>4. ASSUME NEW d \in T, NEW i \in Slots, g[d].kids[i] # None, Used(g, g[d].kids[i])
      PROVE  g[d].kids[i] \in T
  <2>1. d # b
    BY <1>1, <1>4
  <2>2. d \in S /\ d \in Blocks /\ g[d] = h[d]
    BY <1>1, <1>3, <2>1
  <2>3. h[d].kids[i] \in Blocks /\ h[d].kids[i] # b
    BY <1>4, <2>2 DEF Header
  <2>4. Used(h, h[d].kids[i])
    BY <1>1, <1>4, <2>2, <2>3 DEF Used
  <2> QED BY <1>2, <1>3, <1>4, <2>2, <2>3, <2>4
<1>5. \A d \in Blocks \ {c} : g[d].layout = "scalars" => d \in T
  BY <1>1, <1>2, <1>3
<1> QED BY <1>3, <1>4, <1>5 DEF Apart

-----------------------------------------------------------------------------
(* The calls in progress, innermost first. *)

LEMMA Stacked ==
    /\ \A s, t, u, w \in Seq(OpRec) : ((s \o t) \o u) \o w = s \o (t \o (u \o w))
    /\ \A s, t, u \in Seq(OpRec) : (s \o t) \o u = s \o (t \o u)
    /\ \A s \in Seq(OpRec) : <<>> \o s = s /\ s \o <<>> = s
    /\ <<>> \in Seq(OpRec) /\ \A o \in OpRec : <<o>> \in Seq(OpRec)
    /\ \A s, t \in Seq(OpRec) : s \o t \in Seq(OpRec)
<1>1. \A S : /\ \A s, t, u \in Seq(S) : (s \o t) \o u = s \o (t \o u)
             /\ \A s, t \in Seq(S) : s \o t \in Seq(S)
             /\ \A s \in Seq(S) : <<>> \o s = s /\ s \o <<>> = s
             /\ <<>> \in Seq(S) /\ \A o \in S : <<o>> \in Seq(S)
  BY ConcatProperties, ConcatEmptySeq, ConcatAssociative
<1>2. /\ \A s, t, u \in Seq(OpRec) : (s \o t) \o u = s \o (t \o u)
      /\ \A s, t \in Seq(OpRec) : s \o t \in Seq(OpRec)
      /\ \A s \in Seq(OpRec) : <<>> \o s = s /\ s \o <<>> = s
      /\ <<>> \in Seq(OpRec) /\ \A o \in OpRec : <<o>> \in Seq(OpRec)
  BY <1>1
<1>3. ASSUME NEW s \in Seq(OpRec), NEW t \in Seq(OpRec), NEW u \in Seq(OpRec), NEW w \in Seq(OpRec)
      PROVE  ((s \o t) \o u) \o w = s \o (t \o (u \o w))
  <2>1. s \o t \in Seq(OpRec) /\ u \o w \in Seq(OpRec)
    BY ONLY <1>2, <1>3
  <2>2. ((s \o t) \o u) \o w = (s \o t) \o (u \o w)
    BY ONLY <1>2, <1>3, <2>1
  <2>3. \A y \in Seq(OpRec) : (s \o t) \o y = s \o (t \o y)
    BY ONLY <1>2, <1>3
  <2> QED BY ONLY <2>1, <2>2, <2>3
<1>4. \A s, t, u, w \in Seq(OpRec) : ((s \o t) \o u) \o w = s \o (t \o (u \o w))
  BY ONLY <1>3
<1> QED BY ONLY <1>2, <1>4

\* The inductive invariant of the specification.
IInv == stack \in Seq(OpRec) /\ K(heap, local, Up(stack), collecting, suppressed)

\* s is q, innermost first.
Is(s, q) == s \in Seq(OpRec) /\ q \in Seq(OpRec) /\ Up(s) = q

LEMMA IsPush ==
    ASSUME NEW s, NEW q, Is(s, q), NEW o \in OpRec
    PROVE  Is(<<o>> \o s, Push(q, o))
  BY UpFacts, PushIs DEF Is, Push

LEMMA IsEmpty == Is(<<>>, Up(<<>>)) /\ Len(Up(<<>>)) = 0
  BY UpFacts, Stacked DEF Is

LEMMA TopIs ==
    ASSUME IInv, stack # <<>>
    PROVE  /\ Is(stack, Push(Up(Rest), Top)) /\ Is(Rest, Up(Rest))
           /\ K(heap, local, Push(Up(Rest), Top), collecting, suppressed)
           /\ Top \in OpRec /\ OpOK(Top)
<1>1. /\ stack \in Seq(OpRec) /\ Rest \in Seq(OpRec) /\ Top \in OpRec
      /\ Up(Rest) \in Seq(OpRec) /\ Up(stack) = Push(Up(Rest), Top)
  BY UpFacts DEF IInv, Top, Rest, Push
<1>2. K(heap, local, Push(Up(Rest), Top), collecting, suppressed)
  BY <1>1 DEF IInv
<1>3. /\ \A p \in 1..Len(Push(Up(Rest), Top)) : OpOK(Push(Up(Rest), Top)[p])
      /\ Push(Up(Rest), Top) \in Seq(OpRec)
  BY <1>2, StepTypes, Types
<1>4. OpOK(Top)
  <2>1. /\ Len(Push(Up(Rest), Top)) = Len(Up(Rest)) + 1 /\ Len(Up(Rest)) \in Nat
        /\ Push(Up(Rest), Top)[Len(Up(Rest)) + 1] = Top
    BY <1>1, PushIs
  <2> QED BY <1>3, <2>1
<1> QED BY <1>1, <1>2, <1>3, <1>4 DEF Is

\* A call is what it does and to what.
LEMMA TopForm ==
    ASSUME NEW o \in OpRec, OpOK(o)
    PROVE  /\ o.do = "walk" => o.b \in Blocks /\ o.at \in 1..NumSlots + 1 /\ o = WalkOp(o.b, o.at)
           /\ o.do = "sweep" => o.at \in Nat /\ o = SweepOp(o.at)
           /\ o.do = "bind" => o.at \in Locals /\ o.x \in Blocks \cup {None} /\ o = BindOp(o.at, o.x)
           /\ o.do = "slot" => /\ o.b \in Blocks /\ o.at \in Slots /\ o.x \in Blocks \cup {None}
                               /\ o = SlotOp(o.b, o.at, o.x)
           /\ o.do \in {"decref", "any", "body"} => o.b \in Blocks
  BY DEF OpOK, OpRec, WalkOp, SweepOp, BindOp, SlotOp, Op

-----------------------------------------------------------------------------
(* Releases. *)

LEMMA FreeDeepStep ==
    ASSUME NEW h, NEW b, NEW s, NEW q, Is(s, q),
           Ready(h, local, q, collecting, suppressed, b), FreeDeep(h, b, s)
    PROVE  IInv'
<1>1. /\ b \in Blocks /\ ~h[b].dying /\ Low(h, q) /\ h \in [Blocks -> Header]
      /\ TypesOK(h, local, q, collecting, suppressed)
  BY DEF Ready, Shape, TypesOK, Header
<1> PICK g : g = Doomed(h, b)
  OBVIOUS
<1> PICK d \in BOOLEAN : d <=> h[b].layout = "dtor"
  OBVIOUS
<1>2. K(g, local, Push(q, WalkOp(b, 1)), collecting, suppressed \/ h[b].layout # "mixed")
  BY BeginWalk DEF Is
<1>3. /\ heap' = g /\ local' = local /\ collecting' = collecting
      /\ suppressed' = (suppressed \/ h[b].layout # "mixed")
      /\ stack' = (IF d THEN <<BodyOp(b)>> ELSE <<>>) \o <<WalkOp(b, 1)>> \o s
  BY <1>1 DEF FreeDeep, Doomed
<1>4. WalkOp(b, 1) \in OpRec /\ BodyOp(b) \in OpRec
  BY <1>1, OpsTyped, GraphAssumption
<1>5. Is(<<WalkOp(b, 1)>> \o s, Push(q, WalkOp(b, 1)))
  BY <1>4, IsPush
<1>6. CASE d
  <2>1. stack' = <<BodyOp(b)>> \o (<<WalkOp(b, 1)>> \o s)
    BY <1>3, <1>4, <1>6, Stacked DEF Is
  <2>2. Is(stack', Push(Push(q, WalkOp(b, 1)), BodyOp(b)))
    BY <1>4, <1>5, <2>1, IsPush
  <2>3. Like(g, h) /\ g[b].dying
    BY <1>1, <1>6, DoomedIs
  <2>4. Low(g, q)
    BY <1>1, <2>3, LikeKeeps
  <2>5. K(g, local, Push(Push(q, WalkOp(b, 1)), BodyOp(b)), collecting, suppressed \/ h[b].layout # "mixed")
    BY <1>1, <1>2, <2>3, <2>4, BeginBody DEF Is
  <2> QED BY ONLY <1>3, <2>2, <2>5 DEF Is, IInv
<1>7. CASE ~d
  <2>1. stack' = <<WalkOp(b, 1)>> \o s
    BY <1>3, <1>4, <1>7, Stacked DEF Is
  <2> QED BY ONLY <1>2, <1>3, <1>5, <2>1 DEF Is, IInv
<1> QED BY <1>6, <1>7

LEMMA DecrefStep ==
    ASSUME NEW b \in Blocks, NEW q, Is(Rest, q), Low(heap, q),
           Owing(heap, local, q, collecting, suppressed, b), Decref(b)
    PROVE  IInv'
<1> PICK g : g = Dropped(b)
  OBVIOUS
<1>1. g = Refs(heap, b, heap[b].refs - 1)
  BY DEF Dropped, Refs
<1>2. /\ g \in [Blocks -> Header] /\ g[b].refs \in Nat /\ ~g[b].dying /\ Low(g, q)
      /\ g[b].refs > 0 => K(g, local, q, collecting, suppressed)
      /\ g[b].refs = 0 => Ready(g, local, q, collecting, suppressed, b)
  BY <1>1, Drop DEF Is
<1>3. CASE ~Live(g, b) /\ FreeDeep(g, b, Rest)
  <2>1. Ready(g, local, q, collecting, suppressed, b)
    BY <1>2, <1>3 DEF Live
  <2> QED BY ONLY Is(Rest, q), <1>3, <2>1, FreeDeepStep
<1>4. CASE /\ Live(g, b) /\ Collects(g, b)
           /\ heap' = Marked(g)
           /\ stack' = <<SweepOp(1)>> \o Rest
           /\ collecting' = TRUE
           /\ UNCHANGED <<local, suppressed>>
  <2>1. K(g, local, q, collecting, suppressed) /\ collecting = FALSE
    <3>1. K(g, local, q, collecting, suppressed) /\ collecting \in BOOLEAN
      BY <1>2, <1>4 DEF Live, K, Owing, Shape, TypesOK
    <3> QED BY <1>4, <3>1 DEF Collects
  <2>2. SweepOp(1) \in OpRec
    BY OpsTyped
  <2>3. Is(stack', Push(q, SweepOp(1)))
    BY <1>4, <2>2, IsPush
  <2>4. K(Marked(g), local, Push(q, SweepOp(1)), collecting', suppressed)
    BY <1>2, <1>4, <2>1, Collect DEF Is
  <2> QED BY <1>4, <2>3, <2>4 DEF Is, IInv
<1>5. CASE /\ Live(g, b)
           /\ heap' = g /\ stack' = Rest
           /\ UNCHANGED <<local, collecting, suppressed>>
  <2>1. K(g, local, q, collecting, suppressed)
    BY <1>2, <1>5 DEF Live
  <2> QED BY <1>5, <2>1 DEF Is, IInv
<1> QED BY <1>3, <1>4, <1>5 DEF Decref

LEMMA DecrefTypedKeeps == ASSUME IInv, DecrefTyped PROVE IInv'
<1>1. stack # <<>> /\ Top.do = "decref" /\ Decref(Top.b)
  BY DEF DecrefTyped, Running
<1> PICK q : q = Up(Rest)
  OBVIOUS
<1>2. Is(Rest, q) /\ K(heap, local, Push(q, Top), collecting, suppressed) /\ Top \in OpRec
  BY <1>1, TopIs
<1>3. Hits(heap, collecting, Top, Top.b)
  BY <1>1 DEF Hits
<1>4. Owing(heap, local, q, collecting, suppressed, Top.b) /\ Top.b \in Blocks /\ Low(heap, q)
  <2>1. Top.do \in Plain
    BY <1>1 DEF Plain
  <2>2. q \in Seq(OpRec)
    BY <1>2 DEF Is
  <2> QED BY ONLY <1>2, <1>3, <2>1, <2>2, PopPlain
<1> QED BY <1>1, <1>2, <1>4, DecrefStep

LEMMA DecrefAnyKeeps == ASSUME IInv, DecrefAny PROVE IInv'
<1>1. stack # <<>> /\ Top.do = "any"
  BY DEF DecrefAny, Running
<1> PICK q : q = Up(Rest)
  OBVIOUS
<1>2. Is(Rest, q) /\ K(heap, local, Push(q, Top), collecting, suppressed) /\ Top \in OpRec /\ OpOK(Top)
  BY <1>1, TopIs
<1>3. q \in Seq(OpRec) /\ Top.do \in Plain /\ Top.b \in Blocks
  BY <1>1, <1>2, TopForm DEF Is, Plain
<1>4. CASE ~Ignored(Top.b) /\ Decref(Top.b)
  <2>1. Hits(heap, collecting, Top, Top.b)
    BY <1>1, <1>4 DEF Hits, Ignored
  <2>2. Owing(heap, local, q, collecting, suppressed, Top.b) /\ Low(heap, q)
    BY ONLY <1>2, <1>3, <2>1, PopPlain
  <2> QED BY <1>2, <1>3, <1>4, <2>2, DecrefStep
<1>5. CASE Ignored(Top.b) /\ stack' = Rest /\ UNCHANGED <<heap, local, collecting, suppressed>>
  <2>1. collecting /\ ~heap[Top.b].marked
    <3>1. /\ HeadersOK(heap) /\ \A p \in Doing(Push(q, Top), "any") :
                                   collecting \/ Used(heap, Push(q, Top)[p].b)
      BY <1>2 DEF K, Owing, Shape, OwnersOK
    <3>2. Len(q) + 1 \in Doing(Push(q, Top), "any") /\ Push(q, Top)[Len(q) + 1] = Top
      BY <1>1, <1>2, <1>3, PushIs, PushMeans
    <3>3. ~Free.marked
      BY DEF Free
    <3> QED BY <1>3, <1>5, <3>1, <3>2, <3>3 DEF Ignored, HeadersOK, Used
  <2>2. \A b : ~Hits(heap, collecting, Top, b)
    BY <1>1, <2>1 DEF Hits
  <2>3. K(heap, local, q, collecting, suppressed)
    BY ONLY <1>2, <1>3, <2>2, PopPlain
  <2> QED BY <1>2, <1>5, <2>3 DEF Is, IInv
<1> QED BY <1>4, <1>5 DEF DecrefAny

LEMMA BodyReturnKeeps == ASSUME IInv, BodyReturn PROVE IInv'
<1>1. /\ stack # <<>> /\ Top.do = "body"
      /\ stack' = Rest /\ UNCHANGED <<heap, local, collecting, suppressed>>
  BY DEF BodyReturn, Running
<1> PICK q : q = Up(Rest)
  OBVIOUS
<1>2. Is(Rest, q) /\ K(heap, local, Push(q, Top), collecting, suppressed) /\ Top \in OpRec
  BY <1>1, TopIs
<1>3. q \in Seq(OpRec) /\ Top.do \in Plain /\ \A b : ~Hits(heap, collecting, Top, b)
  BY <1>1, <1>2 DEF Is, Plain, Hits
<1>4. K(heap, local, q, collecting, suppressed)
  BY ONLY <1>2, <1>3, PopPlain
<1> QED BY <1>1, <1>2, <1>4 DEF Is, IInv

LEMMA ReleaseKidKeeps == ASSUME IInv, ReleaseKid PROVE IInv'
<1>1. stack # <<>> /\ Top.do = "walk" /\ Top.at \in Slots
  BY DEF ReleaseKid, Running
<1> PICK q : q = Up(Rest)
  OBVIOUS
<1>2. Is(Rest, q) /\ K(heap, local, Push(q, Top), collecting, suppressed) /\ Top \in OpRec /\ OpOK(Top)
  BY <1>1, TopIs
<1> PICK b, i : b = Top.b /\ i = Top.at
  OBVIOUS
<1>3. b \in Blocks /\ i \in Slots /\ Top = WalkOp(b, i)
  BY <1>1, <1>2, TopForm
<1> PICK kid : kid = heap[b].kids[i]
  OBVIOUS
<1> PICK s : s = Push(q, WalkOp(b, i + 1))
  OBVIOUS
<1>4. /\ Low(heap, s)
      /\ kid = None => K(heap, local, s, collecting, suppressed)
      /\ kid # None => /\ kid \in Blocks
                       /\ Hits(heap, collecting, DecrefAnyOp(kid), kid) =>
                            Owing(heap, local, s, collecting, suppressed, kid)
                       /\ ~Hits(heap, collecting, DecrefAnyOp(kid), kid) =>
                            K(heap, local, s, collecting, suppressed) /\ collecting
  <2>1. K(heap, local, Push(q, WalkOp(b, i)), collecting, suppressed) /\ q \in Seq(OpRec)
    BY <1>2, <1>3 DEF Is
  <2>2. b \in Blocks /\ i \in Slots
    BY <1>3
  <2>3. /\ Low(heap, Push(q, WalkOp(b, i + 1)))
        /\ heap[b].kids[i] = None => K(heap, local, Push(q, WalkOp(b, i + 1)), collecting, suppressed)
        /\ heap[b].kids[i] # None =>
             /\ heap[b].kids[i] \in Blocks
             /\ Hits(heap, collecting, DecrefAnyOp(heap[b].kids[i]), heap[b].kids[i]) =>
                  Owing(heap, local, Push(q, WalkOp(b, i + 1)), collecting, suppressed, heap[b].kids[i])
             /\ ~Hits(heap, collecting, DecrefAnyOp(heap[b].kids[i]), heap[b].kids[i]) =>
                  K(heap, local, Push(q, WalkOp(b, i + 1)), collecting, suppressed) /\ collecting
    BY ONLY <2>1, <2>2, WalkOn
  <2> QED BY <2>3
<1>5. WalkOp(b, i + 1) \in OpRec
  <2>1. i + 1 \in 1..NumSlots + 1
    BY <1>3, GraphAssumption DEF Slots
  <2> QED BY <1>3, <2>1, OpsTyped
<1>6. Is(<<WalkOp(b, i + 1)>> \o Rest, s)
  BY <1>2, <1>5, IsPush
<1>7. /\ stack' = (IF kid = None THEN <<>> ELSE <<DecrefAnyOp(kid)>>) \o <<WalkOp(b, i + 1)>> \o Rest
      /\ UNCHANGED <<heap, local, collecting, suppressed>>
  BY DEF ReleaseKid
<1>8. CASE kid = None
  <2>1. stack' = <<WalkOp(b, i + 1)>> \o Rest
    BY <1>2, <1>5, <1>7, <1>8, Stacked DEF Is
  <2> QED BY <1>4, <1>6, <1>7, <1>8, <2>1 DEF Is, IInv
<1>9. CASE kid # None
  <2> PICK o : o = DecrefAnyOp(kid)
    OBVIOUS
  <2>1. o \in OpRec /\ OpOK(o) /\ o.do = "any" /\ o.b = kid /\ o.do # "decref"
    BY <1>4, <1>9, OpsTyped
  <2>2. stack' = <<o>> \o (<<WalkOp(b, i + 1)>> \o Rest)
    <3>1. stack' = <<o>> \o <<WalkOp(b, i + 1)>> \o Rest
      BY <1>7, <1>9
    <3>2. <<o>> \in Seq(OpRec) /\ <<WalkOp(b, i + 1)>> \in Seq(OpRec) /\ Rest \in Seq(OpRec)
      BY <1>2, <1>5, <2>1 DEF Is
    <3> QED BY ONLY <3>1, <3>2, Stacked
  <2>3. Is(stack', Push(s, o))
    BY <1>6, <2>1, <2>2, IsPush
  <2>4. IF Hits(heap, collecting, o, o.b)
          THEN Owing(heap, local, s, collecting, suppressed, o.b)
          ELSE K(heap, local, s, collecting, suppressed) /\ o.do = "any" /\ collecting
    BY <1>4, <1>9, <2>1
  <2>5. K(heap, local, Push(s, o), collecting, suppressed)
    <3>1. s \in Seq(OpRec)
      BY <1>6 DEF Is
    <3> QED BY ONLY <1>4, <2>1, <2>4, <3>1, PushRelease
  <2> QED BY <1>7, <2>3, <2>5 DEF Is, IInv
<1> QED BY <1>8, <1>9

LEMMA FreeBlockKeeps == ASSUME IInv, FreeBlock PROVE IInv'
<1>1. stack # <<>> /\ Top.do = "walk" /\ Top.at \notin Slots
  BY DEF FreeBlock, Running
<1> PICK q : q = Up(Rest)
  OBVIOUS
<1>2. Is(Rest, q) /\ K(heap, local, Push(q, Top), collecting, suppressed) /\ Top \in OpRec /\ OpOK(Top)
  BY <1>1, TopIs
<1> PICK b : b = Top.b
  OBVIOUS
<1>3. b \in Blocks /\ Top = WalkOp(b, NumSlots + 1)
  <2>1. b \in Blocks /\ Top.at \in 1..NumSlots + 1 /\ Top = WalkOp(b, Top.at)
    BY <1>1, <1>2, TopForm
  <2>2. Top.at = NumSlots + 1
    BY <1>1, <2>1, GraphAssumption DEF Slots
  <2> QED BY <2>1, <2>2
<1>4. K(Freed(heap, b), local, q, collecting, suppressed /\ heap[b].layout = "mixed")
  BY <1>2, <1>3, WalkDone DEF Is
<1>5. /\ heap' = Freed(heap, b) /\ local' = local /\ collecting' = collecting
      /\ suppressed' = (suppressed /\ heap[b].layout = "mixed") /\ stack' = Rest
  BY DEF FreeBlock, Freed
<1> QED BY ONLY <1>2, <1>4, <1>5 DEF Is, IInv

LEMMA SweepNextKeeps == ASSUME IInv, SweepNext PROVE IInv'
<1>1. stack # <<>> /\ Top.do = "sweep"
  BY DEF SweepNext, Running
<1> PICK q : q = Up(Rest)
  OBVIOUS
<1>2. Is(Rest, q) /\ K(heap, local, Push(q, Top), collecting, suppressed) /\ Top \in OpRec /\ OpOK(Top)
  BY <1>1, TopIs
<1> PICK at : at = Top.at
  OBVIOUS
<1>3. at \in Nat /\ Top = SweepOp(at)
  BY <1>1, <1>2, TopForm
<1>4. PICK b \in Victims(at) : /\ \A c \in Victims(at) : b <= c
                               /\ FreeDeep(heap, b, <<SweepOp(b + 1)>> \o Rest)
  BY DEF SweepNext
<1>5. collecting
  <2>1. collecting <=> Doing(Push(q, Top), "sweep") # {}
    BY <1>2 DEF K, Owing, SweepsOK
  <2>2. Len(q) + 1 \in Doing(Push(q, Top), "sweep")
    BY <1>1, <1>2, PushMeans DEF Is
  <2> QED BY <2>1, <2>2
<1>6. \A c \in Blocks : White(heap, collecting, c) /\ c >= at <=> c \in Victims(at)
  BY <1>5 DEF White, Victims, Candidates
<1>7. b \in Blocks /\ White(heap, collecting, b) /\ b >= at
  BY <1>4, <1>6 DEF Victims, Candidates
<1>8. Ready(heap, local, Push(q, SweepOp(b + 1)), collecting, suppressed, b)
  BY <1>2, <1>3, <1>4, <1>6, <1>7, NextVictim DEF Is
<1>9. SweepOp(b + 1) \in OpRec
  BY <1>7, OpsTyped DEF Blocks
<1>10. Is(<<SweepOp(b + 1)>> \o Rest, Push(q, SweepOp(b + 1)))
  BY <1>2, <1>9, IsPush
<1> QED BY <1>4, <1>8, <1>10, FreeDeepStep

LEMMA SweepEndKeeps == ASSUME IInv, SweepEnd PROVE IInv'
<1>1. /\ stack # <<>> /\ Top.do = "sweep" /\ Victims(Top.at) = {}
      /\ stack' = Rest /\ collecting' = FALSE /\ UNCHANGED <<heap, local, suppressed>>
  BY DEF SweepEnd, Running
<1> PICK q : q = Up(Rest)
  OBVIOUS
<1>2. Is(Rest, q) /\ K(heap, local, Push(q, Top), collecting, suppressed) /\ Top \in OpRec /\ OpOK(Top)
  BY <1>1, TopIs
<1> PICK at : at = Top.at
  OBVIOUS
<1>3. at \in Nat /\ Top = SweepOp(at)
  BY <1>1, <1>2, TopForm
<1>4. \A c \in Blocks : White(heap, collecting, c) => c < at
  BY <1>1, <1>3 DEF White, Victims, Candidates, Blocks
<1>5. K(heap, local, q, FALSE, suppressed)
  BY <1>2, <1>3, <1>4, EndSweep DEF Is
<1> QED BY ONLY <1>1, <1>2, <1>5 DEF Is, IInv

-----------------------------------------------------------------------------
(* Stores. *)

LEMMA BindKeeps == ASSUME IInv, Bind PROVE IInv'
<1>1. stack # <<>> /\ Top.do = "bind"
  BY DEF Bind, Running
<1> PICK q : q = Up(Rest)
  OBVIOUS
<1>2. Is(Rest, q) /\ K(heap, local, Push(q, Top), collecting, suppressed) /\ Top \in OpRec /\ OpOK(Top)
  BY <1>1, TopIs
<1> PICK v : v = Top.at
  OBVIOUS
<1> PICK x : x = Top.x
  OBVIOUS
<1>3. v \in Locals /\ x \in Blocks \cup {None} /\ Top = BindOp(v, x)
  BY <1>1, <1>2, TopForm
<1> PICK r : r = Push(q, BindOp(v, x))
  OBVIOUS
<1>4. K(heap, local, r, collecting, suppressed) /\ q \in Seq(OpRec)
  BY <1>2, <1>3 DEF Is
<1>5. AtMostTemporary(q) /\ (x # None => Held(heap, r, collecting, x))
  BY ONLY <1>3, <1>4, r = Push(q, BindOp(v, x)), BindHeld
<1> PICK g : g = Retained(heap, x)
  OBVIOUS
<1>6. Owing(g, local, r, collecting, suppressed, x)
  <2>1. CASE x = None
    BY <1>4, <2>1 DEF Retained, K
  <2>2. CASE x # None
    <3>1. g = Refs(heap, x, heap[x].refs + 1)
      BY <2>2 DEF Retained, Refs
    <3> QED BY ONLY <1>4, <1>5, <2>2, <3>1, Retain
  <2> QED BY <2>1, <2>2
<1>7. K(g, [local EXCEPT ![v] = x], q, collecting, suppressed)
  BY ONLY <1>3, <1>4, <1>5, <1>6, r = Push(q, BindOp(v, x)), EndBind
<1>8. /\ heap' = g /\ local' = [local EXCEPT ![v] = x] /\ stack' = Rest
      /\ collecting' = collecting /\ suppressed' = suppressed
  BY DEF Bind
<1> QED BY ONLY <1>2, <1>7, <1>8 DEF Is, IInv

LEMMA SetSlotKeeps == ASSUME IInv, SetSlot PROVE IInv'
<1>1. stack # <<>> /\ Top.do = "slot"
  BY DEF SetSlot, Running
<1> PICK q : q = Up(Rest)
  OBVIOUS
<1>2. Is(Rest, q) /\ K(heap, local, Push(q, Top), collecting, suppressed) /\ Top \in OpRec /\ OpOK(Top)
  BY <1>1, TopIs
<1> PICK c : c = Top.b
  OBVIOUS
<1> PICK i : i = Top.at
  OBVIOUS
<1> PICK x : x = Top.x
  OBVIOUS
<1>3. c \in Blocks /\ i \in Slots /\ x \in Blocks \cup {None} /\ Top = SlotOp(c, i, x)
  BY <1>1, <1>2, TopForm
<1>4. K(heap, local, Push(q, SlotOp(c, i, x)), collecting, suppressed) /\ q \in Seq(OpRec)
  BY <1>2, <1>3 DEF Is
<1>5. K(Put(heap, c, i, x), local, q, collecting, suppressed)
  BY ONLY <1>3, <1>4, EndStore
<1>6. heap' = Put(heap, c, i, x) /\ stack' = Rest /\ UNCHANGED <<local, collecting, suppressed>>
  BY DEF SetSlot, Put
<1> QED BY ONLY <1>2, <1>5, <1>6 DEF Is, IInv

\* A release of what a store replaces.
LEMMA ReleaseTyped ==
    ASSUME NEW h, NEW l, NEW s, NEW q, Is(s, q), NEW col, NEW sup, NEW y \in Blocks \cup {None},
           Owing(h, l, q, col, sup, y), Low(h, q),
           ~col \/ (y # None => h[y].layout = "scalars")
    PROVE  \E r : Is(Releasing(y) \o s, r) /\ K(h, l, r, col, sup) /\ Releasing(y) \in Seq(OpRec)
<1>1. CASE y = None
  <2>1. Releasing(y) = <<>>
    BY <1>1 DEF Releasing
  <2>2. <<>> \o s = s /\ <<>> \in Seq(OpRec)
    BY Stacked DEF Is
  <2>3. K(h, l, q, col, sup)
    BY <1>1 DEF K
  <2> QED BY ONLY Is(s, q), <2>1, <2>2, <2>3
<1>2. CASE y # None
  <2> PICK o : o = DecrefOp(y)
    OBVIOUS
  <2>1. o \in OpRec /\ OpOK(o) /\ o.do = "decref" /\ o.b = y /\ Hits(h, col, o, o.b)
    BY <1>2, OpsTyped DEF Hits
  <2>2. q \in Seq(OpRec)
    BY DEF Is
  <2>3. K(h, l, Push(q, o), col, sup)
    <3>1. o.do \in {"any", "decref"} /\ (o.do = "decref" => Len(q) = 0 \/ h[o.b].layout = "scalars" \/ ~col)
      BY <1>2, <2>1
    <3>2. IF Hits(h, col, o, o.b) THEN Owing(h, l, q, col, sup, o.b)
          ELSE K(h, l, q, col, sup) /\ o.do = "any" /\ col
      BY <2>1
    <3> QED BY ONLY Low(h, q), <2>1, <2>2, <3>1, <3>2, PushRelease
  <2>4. Releasing(y) = <<o>> /\ <<o>> \in Seq(OpRec)
    BY <1>2, <2>1, Stacked DEF Releasing
  <2> QED BY <2>1, <2>3, <2>4, IsPush
<1> QED BY <1>1, <1>2

LEMMA ReleaseAny ==
    ASSUME NEW h, NEW l, NEW s, NEW q, Is(s, q), NEW col, NEW sup, NEW y \in Blocks, y # None,
           Owing(h, l, q, col, sup, y), Low(h, q), ~col
    PROVE  \E r : Is(<<DecrefAnyOp(y)>> \o s, r) /\ K(h, l, r, col, sup) /\ <<DecrefAnyOp(y)>> \in Seq(OpRec)
<1> PICK o : o = DecrefAnyOp(y)
  OBVIOUS
<1>1. o \in OpRec /\ OpOK(o) /\ o.do = "any" /\ o.b = y /\ Hits(h, col, o, o.b)
  BY OpsTyped DEF Hits
<1>2. q \in Seq(OpRec)
  BY DEF Is
<1>3. K(h, l, Push(q, o), col, sup)
  <2>1. o.do \in {"any", "decref"} /\ (o.do = "decref" => Len(q) = 0 \/ h[o.b].layout = "scalars" \/ ~col)
    BY <1>1
  <2>2. IF Hits(h, col, o, o.b) THEN Owing(h, l, q, col, sup, o.b)
        ELSE K(h, l, q, col, sup) /\ o.do = "any" /\ col
    BY <1>1
  <2> QED BY ONLY Low(h, q), <1>1, <1>2, <2>1, <2>2, PushRelease
<1> QED BY <1>1, <1>3, IsPush, Stacked

\* The release of what slot i of c holds.
OldReleased(h, c, i) ==
  IF h[c].kids[i] # None /\ h[c].layout \in {"array", "hash"}
    THEN <<DecrefAnyOp(h[c].kids[i])>> ELSE Releasing(h[c].kids[i])

\* Over s, the rest of a store of x is to be done, and all is well.
Storable(h, l, s, col, sup, c, i, x) ==
  /\ \E r : Is(OldReleased(h, c, i) \o (<<SlotOp(c, i, x)>> \o s), r) /\ K(h, l, r, col, sup)
  /\ OldReleased(h, c, i) \in Seq(OpRec)

\* The second half of a store to a slot: x has been retained for it.
LEMMA StoreOwing ==
    ASSUME NEW h, NEW l, NEW s, NEW q, Is(s, q), NEW col, NEW sup, NEW x \in Blocks \cup {None},
           Owing(h, l, q, col, sup, x), Low(h, q), NEW c \in Blocks, NEW i \in Slots,
           FromStatement(h, l, q, c, i) \/ FromBody(q, c), col => FromBody(q, c),
           x # None => <<h[c].layout, h[x].layout>> \in Holds
    PROVE  Storable(h, l, s, col, sup, c, i, x)
<1>1. /\ TypesOK(h, l, q, col, sup) /\ HeadersOK(h) /\ WalksOK(h, q, col) /\ q \in Seq(OpRec)
      /\ GuardsHoldScalars => GuardsOK(h, q)
  BY ShapeFacts DEF Owing, Shape
<1> PICK old : old = h[c].kids[i]
  OBVIOUS
<1>2. old \in Blocks \cup {None} /\ None \notin Blocks
  BY <1>1, Types
<1>3. x # None => h[c].layout # "scalars"
  BY GraphAssumption
<1>4. ASSUME GuardsHoldScalars, h[c].layout = "dtor", x # None PROVE h[x].layout = "scalars"
  <2>1. <<"dtor", h[x].layout>> \in Holds /\ h[x].layout \in Layouts
    BY <1>4, GraphAssumption
  <2> QED BY <1>4, <2>1 DEF GuardsHoldScalars
<1> PICK o : o = SlotOp(c, i, x)
  OBVIOUS
<1>5. o \in OpRec
  BY OpsTyped
<1>6. /\ Owing(h, l, Push(q, o), col, sup, old) /\ Low(h, Push(q, o))
  <2>1. GuardsHoldScalars /\ h[c].layout = "dtor" /\ x # None => h[x].layout = "scalars"
    BY <1>4
  <2>2. /\ Owing(h, l, Push(q, SlotOp(c, i, x)), col, sup, h[c].kids[i])
        /\ Low(h, Push(q, SlotOp(c, i, x)))
    BY <1>1, <1>3, <2>1, BeginStore
  <2> QED BY <2>2
<1>7. ASSUME col PROVE h[c].layout = "dtor" /\ (old # None => h[old].layout = "scalars")
  <2>1. GuardsHoldScalars /\ \E p \in Doing(q, "body") : q[p].b = c
    BY <1>7 DEF FromBody
  <2>2. h[c].layout = "dtor"
    BY <1>1, <2>1, BodyIs DEF HeadersOK
  <2>3. Owns(h, q, c, i)
    BY <1>1, MayStoreTo
  <2> QED BY <1>1, <2>1, <2>2, <2>3 DEF GuardsOK
<1>8. Is(<<o>> \o s, Push(q, o)) /\ <<o>> \in Seq(OpRec)
  BY <1>5, IsPush, Stacked
<1>9. CASE old # None /\ h[c].layout \in {"array", "hash"}
  <2>1. ~col
    BY <1>7, <1>9
  <2>2. \E r : /\ Is(<<DecrefAnyOp(old)>> \o (<<o>> \o s), r) /\ K(h, l, r, col, sup)
               /\ <<DecrefAnyOp(old)>> \in Seq(OpRec)
    BY ONLY <1>2, <1>6, <1>8, <1>9, <2>1, ReleaseAny
  <2>3. OldReleased(h, c, i) = <<DecrefAnyOp(old)>>
    BY <1>9 DEF OldReleased
  <2> QED BY <2>2, <2>3 DEF Storable
<1>10. CASE ~(old # None /\ h[c].layout \in {"array", "hash"})
  <2>1. ~col \/ (old # None => h[old].layout = "scalars")
    BY <1>7
  <2>2. \E r : Is(Releasing(old) \o (<<o>> \o s), r) /\ K(h, l, r, col, sup) /\ Releasing(old) \in Seq(OpRec)
    BY ONLY <1>2, <1>6, <1>8, <2>1, ReleaseTyped
  <2>3. OldReleased(h, c, i) = Releasing(old)
    BY <1>10 DEF OldReleased
  <2> QED BY <2>2, <2>3 DEF Storable
<1> QED BY <1>9, <1>10

LEMMA RetainedIs ==
    ASSUME NEW h, NEW x
    PROVE  /\ x = None => Retained(h, x) = h
           /\ x # None => Retained(h, x) = Refs(h, x, h[x].refs + 1)
  BY DEF Retained, Refs

LEMMA StoreStep ==
    ASSUME NEW h, NEW l, NEW s, NEW q, Is(s, q), NEW col, NEW sup, NEW x \in Blocks \cup {None},
           K(h, l, q, col, sup), Low(h, q), NEW c \in Blocks, NEW i \in Slots,
           FromStatement(h, l, q, c, i) \/ FromBody(q, c), col => FromBody(q, c),
           x # None => <<h[c].layout, h[x].layout>> \in Holds /\ Held(h, q, col, x)
    PROVE  Storable(Retained(h, x), l, s, col, sup, c, i, x)
<1> PICK g : g = Retained(h, x)
  OBVIOUS
<1>1. TypesOK(h, l, q, col, sup) /\ h \in [Blocks -> Header]
  BY DEF K, Owing, Shape, TypesOK, Header
<1>2. Like(g, h) /\ Owing(g, l, q, col, sup, x)
  <2>1. CASE x = None
    BY <2>1, RetainedIs DEF Like, K
  <2>2. CASE x # None
    <3>1. g = Refs(h, x, h[x].refs + 1) /\ Held(h, q, col, x) /\ x \in Blocks
      BY <2>2, RetainedIs
    <3>2. h[x].refs + 1 \in Nat
      BY <1>1, <3>1, Types
    <3>3. Like(g, h)
      BY <1>1, <3>1, <3>2, RefsIs
    <3>4. Owing(Refs(h, x, h[x].refs + 1), l, q, col, sup, x)
      BY ONLY K(h, l, q, col, sup), <3>1, Retain
    <3> QED BY <3>1, <3>3, <3>4
  <2> QED BY <2>1, <2>2
<1>3. Low(g, q) /\ (FromStatement(h, l, q, c, i) => FromStatement(g, l, q, c, i))
  <2>1. /\ \A w \in Locals : \A y : Shows(h, l, w, y) <=> Shows(g, l, w, y)
        /\ \A y : Apart(h, c, y) => Apart(g, c, y)
    BY <1>1, <1>2, LikeShows
  <2>2. g[c].kids = h[c].kids
    BY <1>2 DEF Like
  <2>3. Low(g, q)
    BY <1>1, <1>2, LikeKeeps
  <2> QED BY <2>1, <2>2, <2>3 DEF FromStatement
<1>4. x # None => <<g[c].layout, g[x].layout>> \in Holds
  BY <1>2 DEF Like
<1>5. /\ FromStatement(g, l, q, c, i) \/ FromBody(q, c)
      /\ col => FromBody(q, c)
  BY <1>3
<1>6. Storable(g, l, s, col, sup, c, i, x)
  BY ONLY Is(s, q), x \in Blocks \cup {None}, c \in Blocks, i \in Slots, <1>2, <1>3, <1>4, <1>5, StoreOwing
<1> QED BY <1>6

\* The steps of a store are those of the model.
LEMMA StoreSlotKeeps ==
    ASSUME NEW g, NEW l, NEW c \in Blocks, NEW i \in Slots, NEW x \in Blocks \cup {None},
           NEW temporary, Releasing(temporary) \in Seq(OpRec), stack \in Seq(OpRec),
           Storable(g, l, Releasing(temporary) \o stack, collecting, suppressed, c, i, x),
           StoreSlot(c, i, x, g, temporary), local' = l
    PROVE  IInv'
<1> PICK rel : rel = OldReleased(g, c, i)
  OBVIOUS
<1> PICK o : o = SlotOp(c, i, x)
  OBVIOUS
<1> PICK t : t = Releasing(temporary)
  OBVIOUS
<1>1. /\ heap' = g /\ stack' = ((rel \o <<o>>) \o t) \o stack
      /\ collecting' = collecting /\ suppressed' = suppressed
  BY DEF StoreSlot, OldReleased
<1>2. o \in OpRec
  BY OpsTyped
<1>3. rel \in Seq(OpRec) /\ <<o>> \in Seq(OpRec) /\ t \in Seq(OpRec)
  BY <1>2, Stacked DEF Storable
<1>4. ((rel \o <<o>>) \o t) \o stack = rel \o (<<o>> \o (t \o stack))
  <2> HIDE DEF OpRec
  <2>1. stack \in Seq(OpRec)
    OBVIOUS
  <2>2. rel \o <<o>> \in Seq(OpRec) /\ t \o stack \in Seq(OpRec)
    BY ONLY <1>3, <2>1, ConcatProperties
  <2>3. ((rel \o <<o>>) \o t) \o stack = (rel \o <<o>>) \o (t \o stack)
    BY <1>3, <2>1, <2>2, ConcatAssociative
  <2>4. (rel \o <<o>>) \o (t \o stack) = rel \o (<<o>> \o (t \o stack))
    BY <1>3, <2>1, <2>2, ConcatAssociative
  <2> QED BY ONLY <2>3, <2>4
<1>5. PICK r : Is(rel \o (<<o>> \o (t \o stack)), r) /\ K(g, l, r, collecting, suppressed)
  BY DEF Storable
<1> QED BY ONLY <1>1, <1>4, <1>5, local' = l DEF Is, IInv

LEMMA NothingReleased ==
    ASSUME NEW s \in Seq(OpRec)
    PROVE  Releasing(None) \in Seq(OpRec) /\ Releasing(None) \o s = s
<1>1. <<>> \in Seq(OpRec) /\ <<>> \o s = s
  BY Stacked
<1> QED BY <1>1 DEF Releasing

-----------------------------------------------------------------------------
(* Statements. *)

\* The programs spoken of: none that needs an owner to survive what a statement
\* lets go (see README), and no destructor that moves values that count.
Covered ==
  /\ Idioms \subseteq {"dtorwrite"}
  /\ "dtorwrite" \in Idioms => GuardsHoldScalars

LEMMA AtIdle ==
    ASSUME IInv, Idle, NEW q, q = Up(stack)
    PROVE  /\ Is(stack, q) /\ q \in Seq(OpRec) /\ Len(q) = 0 /\ Low(heap, q)
           /\ K(heap, local, q, collecting, suppressed) /\ collecting = FALSE
<1>1. Is(stack, q) /\ q \in Seq(OpRec) /\ Len(q) = 0 /\ K(heap, local, q, collecting, suppressed)
  BY UpFacts, IsEmpty DEF IInv, Idle, Is
<1>2. collecting = FALSE /\ \A do : Doing(q, do) = {}
  <2>1. \A do : Doing(q, do) = {}
    BY ONLY <1>1, Nothing
  <2>2. collecting \in BOOLEAN /\ (collecting <=> Doing(q, "sweep") # {})
    BY <1>1 DEF K, Owing, Shape, TypesOK, SweepsOK
  <2> QED BY <2>1, <2>2
<1> QED BY <1>1, <1>2 DEF Low

LEMMA AtBody ==
    ASSUME IInv, Running("body"), NEW q, q = Up(stack)
    PROVE  /\ Is(stack, q) /\ q \in Seq(OpRec) /\ Low(heap, q)
           /\ K(heap, local, q, collecting, suppressed)
           /\ Top.b \in Blocks /\ heap[Top.b].layout = "dtor" /\ heap[Top.b].dying
           /\ \E p \in Doing(q, "body") : q[p].b = Top.b /\ p = Len(q)
<1>1. stack # <<>> /\ Top.do = "body"
  BY DEF Running
<1> PICK r : r = Up(Rest)
  OBVIOUS
<1>2. /\ Is(stack, Push(r, Top)) /\ r \in Seq(OpRec) /\ Top \in OpRec /\ Top.b \in Blocks
      /\ K(heap, local, Push(r, Top), collecting, suppressed) /\ q = Push(r, Top)
  BY <1>1, TopIs, TopForm DEF Is
<1>3. /\ TypesOK(heap, local, q, collecting, suppressed) /\ WalksOK(heap, q, collecting) /\ HeadersOK(heap)
      /\ TopsOK(heap, q, collecting)
  BY <1>2 DEF K, Owing, Shape
<1>4. /\ Len(q) \in Nat /\ Len(q) \in Doing(q, "body") /\ q[Len(q)] = Top
  <2>1. /\ Len(Push(r, Top)) = Len(r) + 1 /\ Len(r) \in Nat
        /\ Push(r, Top)[Len(r) + 1] = Top
    BY <1>2, PushIs
  <2>2. Len(r) + 1 \in Doing(Push(r, Top), "body")
    BY <1>1, <1>2, PushMeans
  <2> QED BY <1>2, <2>1, <2>2
<1>5. heap[Top.b].dying /\ heap[Top.b].layout = "dtor"
  BY <1>2, <1>3, <1>4, BodyIs DEF HeadersOK
<1>6. Low(heap, q)
  <2>1. Len(q) \notin Doing(q, "any") /\ Len(q) \notin Doing(q, "decref")
    BY <1>1, <1>4 DEF Doing
  <2> QED BY <1>3, <2>1 DEF TopsOK, Low
<1>7. \E p \in Doing(q, "body") : q[p].b = Top.b /\ p = Len(q)
  BY <1>4
<1>8. Is(stack, q) /\ K(heap, local, q, collecting, suppressed) /\ q \in Seq(OpRec)
  BY <1>2 DEF Is
<1> QED BY <1>2, <1>5, <1>6, <1>7, <1>8

LEMMA TargetOpen ==
    ASSUME Covered, IInv, Idle, NEW v \in Locals, NEW c \in Targets(v), NEW i \in Slots, MayChange(c, i)
    PROVE  c \in Blocks /\ FromStatement(heap, local, Up(stack), c, i)
<1> PICK q : q = Up(stack)
  OBVIOUS
<1>1. Len(q) = 0 /\ K(heap, local, q, collecting, suppressed)
  BY AtIdle
<1>2. c \in Blocks /\ Shows(heap, local, v, c)
  BY <1>1, TargetShown
<1>3. ~LeadsBack(c, i)
  BY DEF MayChange, Covered
<1>4. Apart(heap, c, heap[c].kids[i])
  BY <1>1, <1>2, <1>3, NotBack
<1> QED BY <1>1, <1>2, <1>4 DEF FromStatement

LEMMA NewIs ==
    ASSUME NEW k \in AllLayouts
    PROVE  /\ New(k) \in Header /\ New(k).layout = k /\ k # "free" /\ New(k).refs = 1
           /\ ~New(k).dying /\ ~New(k).marked /\ \A i \in Slots : New(k).kids[i] = None
  BY GraphAssumption DEF New, Free, Header, AllLayouts

\* Where a statement has put h, l and s in the place of the heap, the variables
\* and the calls in progress.
LEMMA Done ==
    ASSUME NEW h, NEW l, NEW s, NEW r, Is(s, r), K(h, l, r, collecting, suppressed),
           heap' = h, local' = l, stack' = s, UNCHANGED <<collecting, suppressed>>
    PROVE  IInv'
  BY DEF Is, IInv

LEMMA AssignKeeps == ASSUME Covered, IInv, NEW v \in Locals, Assign(v) PROVE IInv'
<1> PICK q : q = Up(stack)
  OBVIOUS
<1>1. Idle /\ stack = <<>>
  BY DEF Assign, Idle
<1>2. /\ Is(stack, q) /\ q \in Seq(OpRec) /\ Len(q) = 0
      /\ K(heap, local, q, collecting, suppressed) /\ collecting = FALSE
  BY <1>1, AtIdle
<1>3. PICK x \in Read(Locals \ {v}) : StoreLocal(v, x, heap, None)
  BY DEF Assign, Covered
<1>4. /\ x \in Blocks \cup {None}
      /\ x # None => \E w \in Locals \ {v} : Shows(heap, local, w, x)
  BY <1>2, ReadShown
<1>5. local[v] \in Blocks \cup {None}
  BY <1>2, StepTypes
<1> PICK o : o = BindOp(v, x)
  OBVIOUS
<1>6. o \in OpRec
  BY <1>4, OpsTyped
<1>7. Owing(heap, local, Push(q, o), collecting, suppressed, local[v]) /\ Low(heap, Push(q, o))
  BY <1>2, <1>4, BeginBind DEF AtMostTemporary
<1>8. Is(<<o>> \o stack, Push(q, o))
  BY <1>2, <1>6, IsPush
<1>9. PICK r : /\ Is(Releasing(local[v]) \o (<<o>> \o stack), r)
               /\ K(heap, local, r, collecting, suppressed)
               /\ Releasing(local[v]) \in Seq(OpRec)
  BY ONLY <1>2, <1>5, <1>7, <1>8, ReleaseTyped
<1>10. stack' = Releasing(local[v]) \o (<<o>> \o stack)
  <2>1. stack' = (Releasing(local[v]) \o <<o>>) \o <<>>
    BY <1>3 DEF StoreLocal, Releasing
  <2>2. /\ <<o>> \in Seq(OpRec) /\ <<>> \in Seq(OpRec)
        /\ \A s, t, u \in Seq(OpRec) : (s \o t) \o u = s \o (t \o u)
    BY <1>6, Stacked
  <2> QED BY ONLY <1>1, <1>9, <2>1, <2>2
<1> QED BY <1>3, <1>9, <1>10, Done DEF StoreLocal

LEMMA AssignNewKeeps == ASSUME IInv, NEW v \in Locals, AssignNew(v) PROVE IInv'
<1> PICK q : q = Up(stack)
  OBVIOUS
<1>1. Idle /\ stack = <<>>
  BY DEF AssignNew, Idle
<1>2. /\ Is(stack, q) /\ q \in Seq(OpRec) /\ Len(q) = 0 /\ Low(heap, q)
      /\ K(heap, local, q, collecting, suppressed) /\ collecting = FALSE
  BY <1>1, AtIdle
<1>3. PICK b \in Blocks, k \in Layouts \ {"mixed"} :
        Unused(b) /\ StoreLocal(v, b, [heap EXCEPT ![b] = New(k)], b)
  BY DEF AssignNew
<1> PICK g : g = Built(heap, b, New(k))
  OBVIOUS
<1>4. Owing(g, local, q, collecting, suppressed, b)
  <2>1. Owing(heap, local, q, collecting, suppressed, None) /\ ~Used(heap, b)
    BY <1>2, <1>3 DEF K, Unused, Used
  <2>2. k \in AllLayouts
    BY GraphAssumption
  <2>3. /\ New(k) \in Header /\ New(k).layout # "free" /\ New(k).refs = 1
        /\ ~New(k).dying /\ ~New(k).marked
        /\ \A i \in Slots : New(k).kids[i] = IF i = 1 THEN None ELSE None
    BY <2>2, NewIs
  <2>4. Low(heap, q) /\ collecting = FALSE
    BY <1>2
  <2> QED BY ONLY b \in Blocks, g = Built(heap, b, New(k)), <1>2, <2>1, <2>3, <2>4, Make
<1>5. Low(g, q) /\ b # None /\ local[v] \in Blocks \cup {None}
  BY <1>2, StepTypes, Nothing DEF Low
<1>6. Releasing(b) = <<DecrefOp(b)>> /\ DecrefOp(b) \in OpRec /\ Releasing(b) \in Seq(OpRec)
  BY <1>5, OpsTyped, Stacked DEF Releasing
<1>7. PICK q1 : Is(Releasing(b) \o stack, q1) /\ K(g, local, q1, collecting, suppressed)
  BY ONLY <1>2, <1>4, <1>5, b \in Blocks, ReleaseTyped
<1>8. Len(q1) = 1 /\ q1[1] = DecrefOp(b) /\ q1[1].b = b /\ q1[1].do = "decref" /\ q1 \in Seq(OpRec)
  <2>1. Is(Releasing(b) \o stack, Push(q, DecrefOp(b)))
    BY <1>2, <1>6, IsPush
  <2>2. q1 = Push(q, DecrefOp(b)) /\ q1 \in Seq(OpRec)
    BY <1>7, <2>1 DEF Is
  <2>3. /\ Len(Push(q, DecrefOp(b))) = Len(q) + 1
        /\ Push(q, DecrefOp(b))[Len(q) + 1] = DecrefOp(b)
    BY <1>2, <1>6, PushIs
  <2>4. Len(q) + 1 = 1
    BY <1>2
  <2>5. DecrefOp(b).b = b /\ DecrefOp(b).do = "decref"
    BY OpsTyped
  <2> QED BY ONLY <2>2, <2>3, <2>4, <2>5
<1> PICK o : o = BindOp(v, b)
  OBVIOUS
<1>9. o \in OpRec
  BY OpsTyped
<1>10. Owing(g, local, Push(q1, o), collecting, suppressed, local[v]) /\ Low(g, Push(q1, o))
  BY <1>7, <1>8, BeginBind DEF AtMostTemporary
<1> PICK s : s = Releasing(b) \o stack
  OBVIOUS
<1>11. Is(<<o>> \o s, Push(q1, o))
  BY <1>7, <1>9, IsPush
<1>12. PICK r : /\ Is(Releasing(local[v]) \o (<<o>> \o s), r)
                /\ K(g, local, r, collecting, suppressed)
                /\ Releasing(local[v]) \in Seq(OpRec)
  BY ONLY <1>2, <1>5, <1>10, <1>11, ReleaseTyped
<1>13. stack' = Releasing(local[v]) \o (<<o>> \o s)
  <2>1. stack' = (Releasing(local[v]) \o <<o>>) \o Releasing(b)
    BY <1>3 DEF StoreLocal
  <2>2. /\ <<o>> \in Seq(OpRec) /\ Releasing(b) \o <<>> = Releasing(b)
        /\ \A t, u, w \in Seq(OpRec) : (t \o u) \o w = t \o (u \o w)
    BY <1>6, <1>9, Stacked
  <2> QED BY ONLY <1>1, <1>6, <1>12, <2>1, <2>2, s = Releasing(b) \o stack
<1>14. heap' = g /\ UNCHANGED <<local, collecting, suppressed>>
  BY <1>3 DEF StoreLocal, Built
<1> QED BY ONLY <1>12, <1>13, <1>14, Done

LEMMA WriteKeeps ==
    ASSUME Covered, IInv, NEW v \in Locals, NEW i \in Slots, Write(v, i)
    PROVE  IInv'
<1> PICK q : q = Up(stack)
  OBVIOUS
<1>1. Idle
  BY DEF Write
<1>2. /\ Is(stack, q) /\ q \in Seq(OpRec) /\ Len(q) = 0 /\ Low(heap, q)
      /\ K(heap, local, q, collecting, suppressed) /\ collecting = FALSE
  BY <1>1, AtIdle
<1>3. PICK c \in Targets(v), x \in Read(Locals) :
        /\ MayStore(c, x) /\ MayChange(c, i)
        /\ StoreSlot(c, i, x, Retained(heap, x), None)
  BY DEF Write
<1>4. x \in Blocks \cup {None} /\ (x # None => \E w \in Locals : Shows(heap, local, w, x))
  BY <1>2, ReadShown
<1>5. x # None => <<heap[c].layout, heap[x].layout>> \in Holds /\ Held(heap, q, collecting, x)
  <2>1. x # None => Held(heap, q, collecting, x)
    BY <1>2, <1>4, ReadHeld
  <2> QED BY <1>3, <2>1 DEF MayStore, MayHold
<1>6. c \in Blocks /\ FromStatement(heap, local, q, c, i)
  BY <1>1, <1>3, TargetOpen
<1>7. Storable(Retained(heap, x), local, stack, collecting, suppressed, c, i, x)
  BY ONLY <1>2, <1>4, <1>5, <1>6, i \in Slots, StoreStep
<1>8. stack \in Seq(OpRec) /\ local' = local
  BY <1>2 DEF Is, Write
<1> QED BY ONLY <1>3, <1>4, <1>6, <1>7, <1>8, i \in Slots, NothingReleased, StoreSlotKeeps

LEMMA StoreNewKeeps ==
    ASSUME NEW q, Is(stack, q), K(heap, local, q, collecting, suppressed), Low(heap, q),
           NEW c \in Blocks, NEW i \in Slots, StoreNew(c, i), local' = local,
           \/ FromStatement(heap, local, q, c, i) /\ Len(q) = 0 /\ collecting = FALSE
           \/ /\ GuardsHoldScalars /\ heap[c].layout = "dtor"
              /\ \E p \in Doing(q, "body") : q[p].b = c /\ p = Len(q)
    PROVE  IInv'
<1>1. /\ q \in Seq(OpRec) /\ stack \in Seq(OpRec)
      /\ TypesOK(heap, local, q, collecting, suppressed) /\ heap \in [Blocks -> Header]
      /\ Owing(heap, local, q, collecting, suppressed, None)
      /\ \A d \in Blocks, j \in Slots : heap[d].kids[j] \in Blocks \cup {None}
      /\ \A w \in Locals : local[w] \in Blocks \cup {None}
      /\ None \notin Blocks /\ Len(q) \in Nat
  BY StepTypes, Types DEF Is, K
<1>2. PICK b \in Blocks, k \in Layouts \ {"mixed"} :
        /\ MayHold(c, k) /\ Unused(b)
        /\ StoreSlot(c, i, b, Retained([heap EXCEPT ![b] = New(k)], b), b)
  BY DEF StoreNew
<1> PICK z : z = New(k)
  OBVIOUS
<1> PICK g : g = Built(heap, b, z)
  OBVIOUS
<1>3. /\ z \in Header /\ z.layout = k /\ k # "free" /\ z.refs = 1 /\ ~z.dying /\ ~z.marked
      /\ \A j \in Slots : z.kids[j] = None
  <2>1. k \in AllLayouts
    BY GraphAssumption
  <2> QED BY <2>1, NewIs
<1>4. ~Used(heap, b) /\ g[b] = z /\ \A d \in Blocks : d # b => g[d] = heap[d]
  BY <1>1, <1>2, <1>3, BuiltIs DEF Unused, Used
<1>5. FromStatement(heap, local, q, c, i) \/ FromBody(q, c)
  BY DEF FromBody
<1>6. Used(heap, c) /\ c # b
  BY <1>1, <1>4, <1>5, MayStoreTo
<1>7. <<heap[c].layout, k>> \in Holds /\ (GuardsHoldScalars /\ heap[c].layout = "dtor" => k = "scalars")
  BY <1>2 DEF MayHold, GuardsHoldScalars
<1>8. Owing(g, local, q, collecting, suppressed, b)
  <2>1. ~collecting \/ (z.layout = "scalars" /\ GuardsHoldScalars)
    BY <1>3, <1>7
  <2>2. \A j \in Slots : z.kids[j] = IF j = 1 THEN None ELSE None
    BY <1>3
  <2> QED BY <1>1, <1>3, <1>4, <2>1, <2>2, Make
<1>9. Low(g, q)
  <2>1. \A p \in Doing(q, "decref") : q[p].b \in Blocks /\ q[p].b # b
    BY <1>1, <1>4, Types, FreeUnowned DEF OpOK
  <2> QED BY <1>4, <2>1 DEF Low
<1> PICK o : o = DecrefOp(b)
  OBVIOUS
<1> PICK q1 : q1 = Push(q, o)
  OBVIOUS
<1> PICK s : s = Releasing(b) \o stack
  OBVIOUS
<1>10. /\ o \in OpRec /\ OpOK(o) /\ o.do = "decref" /\ o.b = b /\ Hits(g, collecting, o, o.b)
       /\ Releasing(b) = <<o>> /\ Releasing(b) \in Seq(OpRec)
  <2>1. o \in OpRec /\ OpOK(o) /\ o.do = "decref" /\ o.b = b
    BY OpsTyped
  <2>2. Releasing(b) = <<o>> /\ <<o>> \in Seq(OpRec)
    BY <1>1, <2>1, Stacked DEF Releasing
  <2> QED BY <2>1, <2>2 DEF Hits
<1>11. /\ q1 \in Seq(OpRec) /\ Len(q1) = Len(q) + 1 /\ q1[Len(q) + 1] = o
       /\ \A p \in 1..Len(q) : q1[p] = q[p]
       /\ \A do : \A p : p \in Doing(q1, do) <=> p \in Doing(q, do) \/ (p = Len(q) + 1 /\ do = "decref")
  <2>1. \A do : \A p : p \in Doing(q1, do) <=> p \in Doing(q, do) \/ (p = Len(q) + 1 /\ o.do = do)
    BY <1>1, <1>10, PushMeans
  <2>2. \A do : \A p : p \in Doing(q1, do) <=> p \in Doing(q, do) \/ (p = Len(q) + 1 /\ do = "decref")
    BY <1>10, <2>1
  <2>3. /\ q1 \in Seq(OpRec) /\ Len(q1) = Len(q) + 1 /\ q1[Len(q) + 1] = o
        /\ \A p \in 1..Len(q) : q1[p] = q[p]
    <3>1. q \in Seq(OpRec) /\ o \in OpRec
      BY <1>1, <1>10
    <3>2. /\ Push(q, o) \in Seq(OpRec) /\ Len(Push(q, o)) = Len(q) + 1 /\ Push(q, o)[Len(q) + 1] = o
          /\ \A p \in 1..Len(q) : Push(q, o)[p] = q[p]
      BY ONLY <3>1, PushIs
    <3> QED BY ONLY <3>2, q1 = Push(q, o)
  <2> QED BY ONLY <2>2, <2>3
<1>12. Is(s, q1)
  BY <1>10, IsPush
<1>13. K(g, local, q1, collecting, suppressed)
  <2>1. o.do \in {"any", "decref"} /\ (o.do = "decref" => Len(q) = 0 \/ g[o.b].layout = "scalars" \/ ~collecting)
    BY <1>3, <1>4, <1>7, <1>10
  <2>2. IF Hits(g, collecting, o, o.b) THEN Owing(g, local, q, collecting, suppressed, o.b)
        ELSE K(g, local, q, collecting, suppressed) /\ o.do = "any" /\ collecting
    BY <1>8, <1>10
  <2> QED BY <1>1, <1>9, <1>10, <2>1, <2>2, PushRelease
<1>14. Held(g, q1, collecting, b)
  <2>1. Safe(g, collecting, b)
    BY <1>1, <1>8 DEF Owing
  <2>2. Hits(g, collecting, q1[Len(q) + 1], b) /\ Len(q) + 1 \in 1..Len(q1)
    BY <1>1, <1>10, <1>11
  <2>3. Owing(g, local, q1, collecting, suppressed, None)
    BY <1>13 DEF K
  <2> QED BY ONLY <2>1, <2>2, <2>3, HitHeld
<1>15. Low(g, q1)
  <2>1. Doing(q1, "any") = {}
    BY <1>9, <1>11 DEF Low
  <2>2. ASSUME NEW p \in Doing(q1, "decref") PROVE p = 1 \/ g[q1[p].b].layout = "scalars"
    <3>1. CASE p = Len(q) + 1
      BY <1>3, <1>4, <1>7, <1>10, <1>11, <3>1
    <3>2. CASE p \in Doing(q, "decref")
      <4>1. p \in 1..Len(q)
        BY <3>2 DEF Doing
      <4> QED BY <1>9, <1>11, <3>2, <4>1 DEF Low
    <3> QED BY <1>11, <2>2, <3>1, <3>2
  <2> QED BY <2>1, <2>2 DEF Low
<1>16. (FromStatement(g, local, q1, c, i) /\ collecting = FALSE) \/ FromBody(q1, c)
  <2>1. CASE FromStatement(heap, local, q, c, i) /\ Len(q) = 0 /\ collecting = FALSE
    <3>1. Len(q1) = 1 /\ q1[1].do = "decref"
      BY <1>10, <1>11, <2>1
    <3>2. \A d \in Blocks, j \in Slots : heap[d].kids[j] # b
      BY <1>1, <1>4, <2>1, Rested
    <3>3. PICK w \in Locals : Shows(heap, local, w, c)
      BY <2>1 DEF FromStatement
    <3>4. local[w] # b
      <4>1. ~Binding(q, w)
        BY <1>1, <2>1, Nothing
      <4>2. local[w] = b => Binding(q, w)
        BY ONLY <1>1, <1>4, b \in Blocks, w \in Locals, FreeUnowned
      <4> QED BY <4>1, <4>2
    <3>5. Shows(g, local, w, c)
      BY <1>1, <1>4, <3>3, <3>4 DEF Shows
    <3>6. Apart(g, c, g[c].kids[i])
      <4>1. g[c].kids[i] = heap[c].kids[i] /\ Apart(heap, c, heap[c].kids[i]) /\ heap[c].kids[i] # b
        BY <1>4, <1>6, <2>1, <3>2 DEF FromStatement
      <4>2. CASE heap[c].kids[i] = None
        BY <4>1, <4>2 DEF Apart
      <4>3. CASE heap[c].kids[i] # None
        BY <1>1, <1>3, <1>4, <1>6, <3>2, <4>1, <4>3, ApartBuilt
      <4> QED BY <4>2, <4>3
    <3> QED BY <2>1, <3>1, <3>5, <3>6 DEF FromStatement
  <2>2. CASE GuardsHoldScalars /\ \E p \in Doing(q, "body") : q[p].b = c /\ p = Len(q)
    <3>1. PICK p \in Doing(q, "body") : q[p].b = c /\ p = Len(q)
      BY <2>2
    <3>2. p \in 1..Len(q) /\ p \in Doing(q1, "body")
      BY <1>11, <3>1 DEF Doing
    <3>3. q1[p].b = c /\ p = Len(q1) - 1 /\ q1[Len(q1)].do = "decref"
      BY <1>1, <1>10, <1>11, <3>1, <3>2
    <3> QED BY <2>2, <3>2, <3>3 DEF FromBody
  <2> QED BY <2>1, <2>2
<1>17. (collecting => FromBody(q1, c)) /\ (FromStatement(g, local, q1, c, i) \/ FromBody(q1, c))
  BY <1>16
<1>18. Storable(Retained(g, b), local, s, collecting, suppressed, c, i, b)
  <2>1. <<g[c].layout, g[b].layout>> \in Holds
    BY <1>3, <1>4, <1>6, <1>7
  <2> QED BY <1>12, <1>13, <1>14, <1>15, <1>17, <2>1, StoreStep
<1> QED BY <1>1, <1>2, <1>10, <1>18, StoreSlotKeeps DEF Built

LEMMA WriteNewKeeps ==
    ASSUME Covered, IInv, NEW v \in Locals, NEW i \in Slots, WriteNew(v, i)
    PROVE  IInv'
<1> PICK q : q = Up(stack)
  OBVIOUS
<1>1. Idle
  BY DEF WriteNew
<1>2. /\ Is(stack, q) /\ q \in Seq(OpRec) /\ Len(q) = 0 /\ Low(heap, q)
      /\ K(heap, local, q, collecting, suppressed) /\ collecting = FALSE
  BY <1>1, AtIdle
<1>3. PICK c \in Targets(v) : MayChange(c, i) /\ StoreNew(c, i)
  BY DEF WriteNew
<1>4. c \in Blocks /\ FromStatement(heap, local, q, c, i)
  BY <1>1, <1>3, TargetOpen
<1>5. local' = local
  BY DEF WriteNew
<1> QED BY ONLY <1>2, <1>3, <1>4, <1>5, i \in Slots, StoreNewKeeps

\* A destructor that stores anything stores scalars.
LEMMA BodyWriteNewKeeps ==
    ASSUME Covered, IInv, NEW i \in Slots, BodyWriteNew(i)
    PROVE  IInv'
<1> PICK q : q = Up(stack)
  OBVIOUS
<1>1. Running("body") /\ "dtorwrite" \in Idioms
  BY DEF BodyWriteNew
<1> PICK c : c = Top.b
  OBVIOUS
<1>2. /\ Is(stack, q) /\ q \in Seq(OpRec) /\ Low(heap, q)
      /\ K(heap, local, q, collecting, suppressed)
      /\ c \in Blocks /\ heap[c].layout = "dtor"
      /\ \E p \in Doing(q, "body") : q[p].b = c /\ p = Len(q)
  BY <1>1, AtBody
<1>3. GuardsHoldScalars
  BY <1>1 DEF Covered
<1>4. StoreNew(c, i) /\ local' = local
  BY DEF BodyWriteNew
<1> QED BY ONLY <1>2, <1>3, <1>4, i \in Slots, StoreNewKeeps

LEMMA BodyWriteKeeps ==
    ASSUME Covered, IInv, NEW i \in Slots, BodyWrite(i)
    PROVE  IInv'
<1> PICK q : q = Up(stack)
  OBVIOUS
<1>1. Running("body") /\ "dtorwrite" \in Idioms
  BY DEF BodyWrite
<1> PICK c : c = Top.b
  OBVIOUS
<1>2. /\ Is(stack, q) /\ q \in Seq(OpRec) /\ Low(heap, q)
      /\ K(heap, local, q, collecting, suppressed)
      /\ c \in Blocks /\ heap[c].layout = "dtor"
      /\ \E p \in Doing(q, "body") : q[p].b = c /\ p = Len(q)
  BY <1>1, AtBody
<1>3. GuardsHoldScalars /\ FromBody(q, c)
  BY <1>1, <1>2 DEF Covered, FromBody
<1>4. PICK x \in {None} \cup {heap[c].kids[j] : j \in Slots} :
        /\ MayStore(c, x)
        /\ StoreSlot(c, i, x, Retained(heap, x), None)
  BY DEF BodyWrite
<1>5. /\ Owing(heap, local, q, collecting, suppressed, None)
      /\ \A j \in Slots : heap[c].kids[j] \in Blocks \cup {None}
  BY <1>2, StepTypes DEF K
<1>6. x \in Blocks \cup {None}
  BY <1>4, <1>5
<1>7. x # None => <<heap[c].layout, heap[x].layout>> \in Holds /\ Held(heap, q, collecting, x)
  <2>1. SUFFICES ASSUME x # None PROVE Held(heap, q, collecting, x)
    BY <1>4 DEF MayStore, MayHold
  <2>2. PICK j \in Slots : x = heap[c].kids[j]
    BY <1>4, <2>1
  <2>3. Owns(heap, q, c, j)
    BY <1>2, <1>3, <1>5, MayStoreTo
  <2>4. Held(heap, q, collecting, heap[c].kids[j])
    BY <1>2, <1>3, <1>5, <2>1, <2>2, <2>3, SlotHeld
  <2> QED BY <2>2, <2>4
<1>8. Storable(Retained(heap, x), local, stack, collecting, suppressed, c, i, x)
  BY ONLY <1>2, <1>3, <1>6, <1>7, i \in Slots, StoreStep
<1>9. stack \in Seq(OpRec) /\ local' = local
  BY <1>2 DEF Is, BodyWrite
<1> QED BY ONLY <1>2, <1>4, <1>6, <1>8, <1>9, i \in Slots, NothingReleased, StoreSlotKeeps

\* A write to a shared array goes to a copy.
LEMMA WriteSharedKeeps ==
    ASSUME IInv, NEW v \in Locals, NEW i \in Slots, WriteShared(v, i)
    PROVE  IInv'
<1> PICK q : q = Up(stack)
  OBVIOUS
<1> PICK c : c = local[v]
  OBVIOUS
<1>1. Idle /\ c # None /\ Shared(c)
  BY DEF WriteShared
<1>2. /\ Is(stack, q) /\ q \in Seq(OpRec) /\ Len(q) = 0 /\ Low(heap, q)
      /\ K(heap, local, q, collecting, suppressed) /\ collecting = FALSE
  BY <1>1, AtIdle
<1>3. PICK x \in Read(Locals), d \in Blocks :
        /\ MayStore(c, x) /\ Unused(d)
        /\ StoreSlot(d, i, x, Retained(Cloned(c, d), x), None)
        /\ local' = [local EXCEPT ![v] = d]
  BY DEF WriteShared
<1>4. c \in Blocks /\ heap[c].layout \in {"array", "hash"} /\ heap[c].refs > 1 /\ ~Used(heap, d)
  BY <1>1, <1>2, <1>3, StepTypes DEF Shared, Unused, Used
<1>5. x \in Blocks \cup {None} /\ (x # None => \E w \in Locals : Shows(heap, local, w, x))
  BY <1>2, ReadShown
<1>6. x # None => Held(heap, q, collecting, x)
  BY <1>2, <1>5, ReadHeld
<1> PICK g : g = Copied(heap, c, d)
  OBVIOUS
<1> PICK m : m = [local EXCEPT ![v] = d]
  OBVIOUS
<1>7. Cloned(c, d) = g
  BY DEF Cloned, Copied, Kn
<1>8. /\ K(g, m, q, collecting, suppressed)
      /\ g[d].layout = heap[c].layout
      /\ Shows(g, m, v, d) /\ Apart(g, d, g[d].kids[i])
      /\ \A b \in Blocks : Used(heap, b) => Used(g, b) /\ g[b].layout = heap[b].layout
  <2>1. Copies(heap, local, v, c, d)
    BY <1>4 DEF Copies
  <2>3. g = Copied(heap, c, d) /\ m = Rebound(local, v, d) /\ i \in Slots
    BY DEF Rebound
  <2>2. q \in Seq(OpRec) /\ Len(q) = 0 /\ K(heap, local, q, collecting, suppressed)
    BY <1>2
  <2>4. CopyDone(heap, q, collecting, suppressed, v, c, d, g, m)
    BY ONLY <2>1, <2>2, <2>3, Copy
  <2> QED BY <2>3, <2>4 DEF CopyDone
<1>9. Low(g, q) /\ FromStatement(g, m, q, d, i)
  BY <1>2, <1>8, Nothing DEF Low, FromStatement
<1>10. x # None => <<g[d].layout, g[x].layout>> \in Holds /\ Held(g, q, collecting, x)
  <2>1. SUFFICES ASSUME x # None PROVE <<g[d].layout, g[x].layout>> \in Holds /\ Held(g, q, collecting, x)
    OBVIOUS
  <2>2. x \in Blocks /\ Used(heap, x)
    BY <1>5, <1>6, <2>1 DEF Held, Safe
  <2>3. Used(g, x) /\ g[x].layout = heap[x].layout
    BY <1>8, <2>2
  <2>4. /\ \A b : ~Walked(q, b)
        /\ Safe(g, collecting, x) /\ g[x].refs > 0 /\ ~g[x].dying
    BY <1>2, <1>8, <2>2, <2>3, Rested, Nothing
  <2> QED BY <1>3, <1>8, <2>1, <2>3, <2>4 DEF MayStore, MayHold, Held
<1>11. Storable(Retained(g, x), m, stack, collecting, suppressed, d, i, x)
  <2>1. /\ FromStatement(g, m, q, d, i) \/ FromBody(q, d)
        /\ collecting => FromBody(q, d)
    BY <1>2, <1>9
  <2> QED BY ONLY <1>2, <1>5, <1>8, <1>9, <1>10, <2>1, i \in Slots, d \in Blocks, StoreStep
<1>12. stack \in Seq(OpRec) /\ StoreSlot(d, i, x, Retained(g, x), None) /\ local' = m
  BY <1>2, <1>3, <1>7 DEF Is
<1> QED BY ONLY <1>5, <1>11, <1>12, i \in Slots, d \in Blocks, NothingReleased, StoreSlotKeeps

\* A box that holds x.
Box(x) == [New("mixed") EXCEPT !.kids[1] = x]

LEMMA BoxIs ==
    ASSUME NEW x \in Blocks
    PROVE  /\ Box(x) \in Header /\ Box(x).layout = "mixed" /\ Box(x).refs = 1
           /\ ~Box(x).dying /\ ~Box(x).marked
           /\ \A i \in Slots : Box(x).kids[i] = IF i = 1 THEN x ELSE None
<1>1. 1 \in Slots
  BY GraphAssumption DEF Slots
<1> PICK y : y = New("mixed")
  OBVIOUS
<1>2. /\ y \in Header /\ y.layout = "mixed" /\ y.refs = 1 /\ y.dying = FALSE /\ y.marked = FALSE
      /\ \A i \in Slots : y.kids[i] = None
  <2>1. "mixed" \in AllLayouts
    BY DEF AllLayouts
  <2> QED BY <2>1, NewIs
<1>3. Box(x) = [y EXCEPT !.kids[1] = x]
  BY DEF Box
<1> QED BY ONLY <1>1, <1>2, <1>3, x \in Blocks DEF Header

LEMMA WriteBoxedKeeps ==
    ASSUME Covered, IInv, NEW v \in Locals, NEW i \in Slots, WriteBoxed(v, i)
    PROVE  IInv'
<1> PICK q : q = Up(stack)
  OBVIOUS
<1>1. Idle
  BY DEF WriteBoxed
<1>2. /\ Is(stack, q) /\ q \in Seq(OpRec) /\ Len(q) = 0 /\ Low(heap, q)
      /\ K(heap, local, q, collecting, suppressed) /\ collecting = FALSE
  BY <1>1, AtIdle
<1>3. PICK c \in Targets(v), x \in Read(Locals) \ {None}, b \in Blocks :
        /\ MayHold(c, "mixed") /\ MayChange(c, i) /\ Unused(b)
        /\ StoreSlot(c, i, b, [Retained(heap, x) EXCEPT ![b] = [New("mixed") EXCEPT !.kids[1] = x]], None)
  BY DEF WriteBoxed
<1>4. /\ TypesOK(heap, local, q, collecting, suppressed) /\ heap \in [Blocks -> Header]
      /\ \A d \in Blocks, j \in Slots : heap[d].kids[j] \in Blocks \cup {None}
      /\ None \notin Blocks
      /\ \A w \in Locals : local[w] \in Blocks \cup {None}
      /\ \A d \in Blocks : heap[d].refs \in Nat
  BY <1>2, StepTypes, Types
<1>5. x \in Blocks /\ x # None /\ Held(heap, q, collecting, x)
  <2>1. x \in Blocks \cup {None} /\ (x # None => \E w \in Locals : Shows(heap, local, w, x))
    BY <1>2, ReadShown
  <2> QED BY <1>2, <1>3, <2>1, ReadHeld
<1>6. c \in Blocks /\ FromStatement(heap, local, q, c, i)
  BY <1>1, <1>3, TargetOpen
<1>7. ~Used(heap, b) /\ Used(heap, c) /\ c # b
  <2>1. Owing(heap, local, q, collecting, suppressed, None)
    BY <1>2 DEF K
  <2>2. Used(heap, c)
    BY <1>2, <1>6, <2>1, MayStoreTo
  <2> QED BY <1>3, <2>2 DEF Unused, Used
<1>8. \A d \in Blocks, j \in Slots : heap[d].kids[j] # b
  <2>1. \A d \in Blocks, j \in Slots : heap[d].kids[j] # None => Used(heap, heap[d].kids[j])
    BY <1>2, Rested
  <2> QED BY <1>4, <1>7, <2>1
<1>9. \A w \in Locals : local[w] # b
  <2>1. \A w \in Locals : local[w] # None => Safe(heap, collecting, local[w])
    BY <1>2, Rested
  <2> QED BY <1>4, <1>7, <2>1 DEF Safe
<1> PICK h : h = Refs(heap, x, heap[x].refs + 1)
  OBVIOUS
<1>10. Owing(h, local, q, collecting, suppressed, x)
  BY <1>2, <1>5, Retain
<1>11. h \in [Blocks -> Header] /\ Like(h, heap)
  BY <1>4, <1>5, RefsIs
<1> PICK z : z = Box(x)
  OBVIOUS
<1>12. /\ z \in Header /\ z.layout = "mixed" /\ z.refs = 1 /\ ~z.dying /\ ~z.marked
       /\ \A j \in Slots : z.kids[j] = IF j = 1 THEN x ELSE None
  BY <1>5, BoxIs
<1>13. /\ ~Used(h, b) /\ \A d \in Blocks, j \in Slots : h[d].kids[j] = heap[d].kids[j]
       /\ \A d \in Blocks : h[d].layout = heap[d].layout
  BY <1>7, <1>11 DEF Like, Used
<1> PICK g : g = Built(h, b, z)
  OBVIOUS
<1>14. Owing(g, local, q, collecting, suppressed, b)
  <2>1. Low(h, q) /\ Doing(q, "slot") = {}
    BY <1>2, Nothing DEF Low
  <2>2. z.layout # "free" /\ (z.layout \in {"scalars", "dtor"} => x = None)
        /\ (~collecting \/ (z.layout = "scalars" /\ GuardsHoldScalars))
    BY <1>2, <1>12
  <2>3. q \in Seq(OpRec) /\ b \in Blocks
    BY <1>2
  <2> QED BY ONLY <1>10, <1>12, <1>13, <2>1, <2>2, <2>3, g = Built(h, b, z), Make
<1>15. g[b] = z /\ \A d \in Blocks : d # b => g[d] = h[d]
  BY ONLY <1>11, <1>12, b \in Blocks, g = Built(h, b, z), BuiltIs
<1>16. FromStatement(g, local, q, c, i)
  <2>1. PICK w \in Locals : Shows(heap, local, w, c)
    BY <1>6 DEF FromStatement
  <2>2. Shows(g, local, w, c)
    BY <1>4, <1>9, <1>13, <1>15, <2>1 DEF Shows
  <2>3. Apart(g, c, g[c].kids[i])
    <3>1. g[c].kids[i] = heap[c].kids[i] /\ heap[c].kids[i] # b
      BY <1>6, <1>7, <1>8, <1>13, <1>15
    <3>2. Apart(h, c, heap[c].kids[i])
      BY <1>4, <1>6, <1>11, LikeShows DEF FromStatement
    <3>3. CASE heap[c].kids[i] = None
      BY <3>1, <3>3 DEF Apart
    <3>4. CASE heap[c].kids[i] # None
      <4>1. z.layout = "scalars" => \A j \in Slots : z.kids[j] = None
        BY <1>12
      <4>2. \A d \in Blocks, j \in Slots : h[d].kids[j] # b
        BY <1>8, <1>13
      <4>3. Apart(Built(h, b, z), c, heap[c].kids[i])
        BY <1>6, <1>7, <1>11, <1>12, <1>13, <3>1, <3>2, <3>4, <4>1, <4>2, ApartBuilt
      <4> QED BY <3>1, <4>3
    <3> QED BY <3>3, <3>4
  <2> QED BY <1>2, <2>2, <2>3 DEF FromStatement
<1>17. Storable(g, local, stack, collecting, suppressed, c, i, b)
  <2>1. <<g[c].layout, g[b].layout>> \in Holds
    BY <1>3, <1>6, <1>7, <1>12, <1>13, <1>15 DEF MayHold
  <2>2. /\ FromStatement(g, local, q, c, i) \/ FromBody(q, c)
        /\ collecting => FromBody(q, c)
    BY <1>2, <1>16
  <2>3. Low(g, q)
    BY <1>2, Nothing DEF Low
  <2> QED BY ONLY <1>2, <1>6, <1>14, <2>1, <2>2, <2>3, b \in Blocks, i \in Slots, StoreOwing
<1>18. StoreSlot(c, i, b, g, None) /\ local' = local /\ stack \in Seq(OpRec)
  <2>1. Retained(heap, x) = h
    BY <1>5, RetainedIs
  <2> QED BY <1>2, <1>3, <2>1 DEF Built, Box, Is, WriteBoxed
<1> QED BY ONLY <1>6, <1>17, <1>18, b \in Blocks, i \in Slots, NothingReleased, StoreSlotKeeps

-----------------------------------------------------------------------------
(* The invariant. *)

LEMMA InvInit == Init => IInv
<1> SUFFICES ASSUME Init PROVE IInv
  OBVIOUS
<1> PICK q : q = Up(stack)
  OBVIOUS
<1>1. /\ heap = [b \in Blocks |-> Free] /\ local = [v \in Locals |-> None] /\ stack = <<>>
      /\ collecting = FALSE /\ suppressed = FALSE
  BY DEF Init
<1>2. stack \in Seq(OpRec) /\ q \in Seq(OpRec) /\ Len(q) = 0
  BY <1>1, IsEmpty DEF Is
<1>3. /\ Free \in Header /\ Free.layout = "free" /\ Free.refs = 0 /\ ~Free.dying /\ ~Free.marked
      /\ \A i \in Slots : Free.kids[i] = None
  BY DEF Free, Header
<1>4. /\ \A b \in Blocks : heap[b] = Free
      /\ \A v \in Locals : local[v] = None
      /\ heap \in [Blocks -> Header] /\ local \in [Locals -> Blocks \cup {None}]
  BY <1>1, <1>3
<1>5. \A b \in Blocks : ~Used(heap, b) /\ ~White(heap, collecting, b) /\ ~Safe(heap, collecting, b)
  BY <1>1, <1>3, <1>4 DEF Used, White, Safe
<1>6. \A do : Doing(q, do) = {}
  BY <1>2, Nothing
<1>7. TypesOK(heap, local, q, collecting, suppressed)
  <2>1. \A p \in 1..Len(q) : OpOK(q[p])
    BY <1>2
  <2> QED BY <1>1, <1>2, <1>4, <2>1 DEF TypesOK, Header, OpRec
<1>8. HeadersOK(heap)
  BY <1>3, <1>4 DEF HeadersOK
<1>9. OwnersOK(heap, local, q, collecting) /\ CountsOK(heap, local, q, collecting, None)
  BY <1>4, <1>5, <1>6 DEF OwnersOK, CountsOK, Owns
<1>10. /\ WalksOK(heap, q, collecting) /\ BindsOK(heap, local, q) /\ StoresOK(heap, local, q)
       /\ TopsOK(heap, q, collecting) /\ ZeroWalked(heap, q)
  BY <1>5, <1>6 DEF WalksOK, BindsOK, StoresOK, TopsOK, ZeroWalked
<1>11. FlagOK(heap, q, suppressed) /\ SweepsOK(heap, q, collecting)
  BY <1>1, <1>6 DEF FlagOK, SweepsOK
<1>12. GuardsOK(heap, q)
  BY <1>5, <1>6 DEF GuardsOK, Owns
<1>13. K(heap, local, q, collecting, suppressed)
  BY <1>7, <1>8, <1>9, <1>10, <1>11, <1>12 DEF K, Owing, Shape
<1> QED BY <1>2, <1>13 DEF IInv

LEMMA InvNext == Covered /\ IInv /\ [Next]_vars => IInv'
<1> SUFFICES ASSUME Covered, IInv, [Next]_vars PROVE IInv'
  OBVIOUS
<1>1. CASE DecrefTyped
  BY <1>1, DecrefTypedKeeps
<1>2. CASE DecrefAny
  BY <1>2, DecrefAnyKeeps
<1>3. CASE ReleaseKid
  BY <1>3, ReleaseKidKeeps
<1>4. CASE FreeBlock
  BY <1>4, FreeBlockKeeps
<1>5. CASE SweepNext
  BY <1>5, SweepNextKeeps
<1>6. CASE SweepEnd
  BY <1>6, SweepEndKeeps
<1>7. CASE Bind
  BY <1>7, BindKeeps
<1>8. CASE SetSlot
  BY <1>8, SetSlotKeeps
<1>9. CASE BodyReturn
  BY <1>9, BodyReturnKeeps
<1>10. ASSUME NEW v \in Locals, Assign(v) PROVE IInv'
  BY <1>10, AssignKeeps
<1>11. ASSUME NEW v \in Locals, AssignNew(v) PROVE IInv'
  BY <1>11, AssignNewKeeps
<1>12. ASSUME NEW v \in Locals, NEW i \in Slots, Write(v, i) PROVE IInv'
  BY <1>12, WriteKeeps
<1>13. ASSUME NEW v \in Locals, NEW i \in Slots, WriteShared(v, i) PROVE IInv'
  BY <1>13, WriteSharedKeeps
<1>14. ASSUME NEW v \in Locals, NEW i \in Slots, WriteNew(v, i) PROVE IInv'
  BY <1>14, WriteNewKeeps
<1>15. ASSUME NEW v \in Locals, NEW i \in Slots, WriteBoxed(v, i) PROVE IInv'
  BY <1>15, WriteBoxedKeeps
<1>16. ASSUME NEW i \in Slots, BodyWrite(i) PROVE IInv'
  BY <1>16, BodyWriteKeeps
<1>17. ASSUME NEW i \in Slots, BodyWriteNew(i) PROVE IInv'
  BY <1>17, BodyWriteNewKeeps
<1>18. CASE UNCHANGED vars
  BY <1>18 DEF vars, IInv
<1>19. CASE Runtime
  BY <1>1, <1>2, <1>3, <1>4, <1>5, <1>6, <1>7, <1>8, <1>9, <1>19 DEF Runtime
<1>20. CASE Statement
  BY <1>10, <1>11, <1>12, <1>13, <1>14, <1>15, <1>16, <1>17, <1>20 DEF Statement
<1> QED BY <1>18, <1>19, <1>20 DEF Next

\* What every step keeps.
THEOREM Invariance == ASSUME Covered PROVE Spec => []IInv
<1>1. Init => IInv
  BY InvInit
<1>2. IInv /\ [Next]_vars => IInv'
  BY InvNext
<1> QED BY <1>1, <1>2, PTL DEF Spec

-----------------------------------------------------------------------------
(* What the invariant says of the state as the properties see it. *)

\* The call numbered k from the innermost is the one numbered so from the
\* outermost, and conversely.
Turned(k) == Len(stack) + 1 - k

LEMMA Frame ==
    ASSUME IInv, NEW q, q = Up(stack)
    PROVE  /\ q \in Seq(OpRec) /\ Len(q) \in Nat /\ DOMAIN stack = 1..Len(q)
           /\ \A k \in 1..Len(q) : /\ Turned(k) \in 1..Len(q) /\ Turned(Turned(k)) = k
                                   /\ stack[k] = q[Turned(k)] /\ q[k] = stack[Turned(k)]
           /\ K(heap, local, q, collecting, suppressed)
<1>1. stack \in Seq(OpRec) /\ K(heap, local, q, collecting, suppressed)
  BY DEF IInv
<1>2. q \in Seq(OpRec) /\ Len(q) = Len(stack) /\ Len(stack) \in Nat /\ DOMAIN stack = 1..Len(stack)
  BY <1>1, UpFacts
<1>3. \A k \in 1..Len(stack) : q[k] = stack[Turned(k)]
  BY DEF Up, Turned
<1>4. \A k \in 1..Len(stack) : Turned(k) \in 1..Len(stack) /\ Turned(Turned(k)) = k
  <2>1. \A n \in Nat : \A k \in 1..n : n + 1 - k \in 1..n /\ n + 1 - (n + 1 - k) = k
    OBVIOUS
  <2> QED BY <1>2, <2>1 DEF Turned
<1>5. \A k \in 1..Len(stack) : stack[k] = q[Turned(k)]
  BY <1>3, <1>4
<1> QED BY <1>1, <1>2, <1>3, <1>4, <1>5

LEMMA InvTypes == IInv => TypeOK
<1> SUFFICES ASSUME IInv PROVE TypeOK
  OBVIOUS
<1> PICK q : q = Up(stack)
  OBVIOUS
<1>1. /\ q \in Seq(OpRec) /\ DOMAIN stack = 1..Len(q)
      /\ \A k \in 1..Len(q) : Turned(k) \in 1..Len(q) /\ stack[k] = q[Turned(k)]
      /\ K(heap, local, q, collecting, suppressed)
  BY Frame
<1>2. TypesOK(heap, local, q, collecting, suppressed)
  BY <1>1, StepTypes
<1>3. ASSUME NEW k \in DOMAIN stack
      PROVE  /\ stack[k].do \in {"decref", "any", "walk", "body", "sweep", "bind", "slot"}
             /\ stack[k].b \in Blocks \cup {None} /\ stack[k].x \in Blocks \cup {None}
  <2>1. stack[k] \in OpRec
    BY <1>1
  <2> QED BY <2>1 DEF OpRec, Kinds
<1>4. HeaderType = Header
  BY DEF HeaderType, Header
<1> QED BY <1>2, <1>3, <1>4 DEF TypesOK, TypeOK

LEMMA InvAtRest == IInv => AtRest
<1> SUFFICES ASSUME IInv, Idle
             PROVE  ~collecting /\ ~suppressed /\ \A b \in Allocated : heap[b].refs > 0 /\ ~heap[b].dying
  BY DEF AtRest
<1> PICK q : q = Up(stack)
  OBVIOUS
<1>1. q \in Seq(OpRec) /\ Len(q) = 0 /\ K(heap, local, q, collecting, suppressed)
  BY AtIdle
<1>2. /\ TypesOK(heap, local, q, collecting, suppressed) /\ FlagOK(heap, q, suppressed)
      /\ ZeroWalked(heap, q) /\ SweepsOK(heap, q, collecting)
  BY <1>1 DEF K, Owing, Shape
<1>3. /\ \A do : Doing(q, do) = {}
      /\ \A b : ~Walked(q, b)
  BY <1>1, Nothing
<1>4. ~collecting /\ ~suppressed
  BY <1>2, <1>3 DEF SweepsOK, FlagOK
<1>5. \A b \in Allocated : b \in Blocks /\ Used(heap, b)
  BY DEF Allocated, Used
<1>6. \A b \in Blocks : heap[b].refs \in Nat
  BY <1>2, Types
<1>7. \A b \in Allocated : heap[b].refs > 0 /\ ~heap[b].dying
  BY <1>2, <1>3, <1>5, <1>6 DEF ZeroWalked
<1> QED BY <1>4, <1>7

\* The store to a variable has the value it brings.
LEMMA BoundHeld ==
    ASSUME NEW h, NEW l, NEW q, NEW col, NEW sup, K(h, l, q, col, sup),
           NEW p \in Doing(q, "bind"), q[p].x # None
    PROVE  Held(h, q, col, q[p].x)
<1>1. /\ Owing(h, l, q, col, sup, None) /\ BindsOK(h, l, q) /\ OwnersOK(h, l, q, col)
      /\ TypesOK(h, l, q, col, sup)
  BY DEF K, Owing, Shape
<1>2. Outermost(q, p)
  BY <1>1 DEF BindsOK
<1>3. q[p].x \in Blocks /\ p \in 1..Len(q)
  BY <1>1, Types DEF OpOK
<1>4. \A s \in Doing(q, "slot") : ~Outermost(q, s)
  <2> SUFFICES ASSUME NEW s \in Doing(q, "slot"), Outermost(q, s) PROVE FALSE
    OBVIOUS
  <2>1. s = p
    BY <1>2, OneOutermost
  <2> QED BY <2>1 DEF Doing
<1>5. \A w \in Locals : w # q[p].at => ~Binding(q, w)
  <2> SUFFICES ASSUME NEW w \in Locals, w # q[p].at, NEW m \in Doing(q, "bind"), q[m].at = w PROVE FALSE
    BY DEF Binding
  <2>1. m = p
    BY <1>1, <1>2, OneOutermost DEF BindsOK
  <2> QED BY <2>1
<1>6. ASSUME NEW w \in Locals \ {q[p].at}, Shows(h, l, w, q[p].x) PROVE Held(h, q, col, q[p].x)
  BY <1>1, <1>3, <1>4, <1>5, <1>6, ShownHeld
<1>7. ASSUME p = 2, q[1].b = q[p].x PROVE Held(h, q, col, q[p].x)
  <2>1. q[1].do = "decref" /\ 1 \in 1..Len(q)
    <3>1. Len(q) \in Nat
      BY <1>1, Types
    <3> QED BY <1>2, <1>3, <1>7, <3>1 DEF Outermost
  <2>2. Safe(h, col, q[p].x) /\ Hits(h, col, q[1], q[p].x)
    BY <1>1, <1>7, <2>1 DEF OwnersOK, Hits, Doing
  <2> QED BY <1>1, <1>3, <2>1, <2>2, HitHeld
<1> QED BY <1>1, <1>6, <1>7 DEF BindsOK

LEMMA StoredHeld ==
    ASSUME NEW h, NEW l, NEW q, NEW col, NEW sup, K(h, l, q, col, sup),
           NEW p \in Doing(q, "slot"), q[p].x # None
    PROVE  Held(h, q, col, q[p].x)
<1>1. Owing(h, l, q, col, sup, None) /\ OwnersOK(h, l, q, col)
  BY DEF K, Owing, Shape
<1>2. Safe(h, col, q[p].x) /\ Hits(h, col, q[p], q[p].x) /\ p \in 1..Len(q)
  BY <1>1 DEF OwnersOK, Hits, Doing
<1> QED BY <1>1, <1>2, HitHeld

LEMMA InvPending == IInv => PendingValid
<1> SUFFICES ASSUME IInv, NEW k \in DOMAIN stack, NEW op, op = stack[k]
    PROVE  /\ op.do \in {"decref", "walk", "body", "slot"} => op.b \in Allocated
           /\ op.do = "any" => op.b \in Allocated \/ collecting
           /\ op.do \in {"bind", "slot"} /\ op.x # None => Live(heap, op.x)
           /\ op.do = "walk" =>
                \A j \in DOMAIN stack : stack[j].do = "walk" /\ stack[j].b = op.b => j = k
  BY DEF PendingValid
<1> PICK q : q = Up(stack)
  OBVIOUS
<1>1. /\ DOMAIN stack = 1..Len(q) /\ K(heap, local, q, collecting, suppressed)
      /\ \A j \in 1..Len(q) : Turned(j) \in 1..Len(q) /\ stack[j] = q[Turned(j)] /\ Turned(Turned(j)) = j
  BY Frame
<1> PICK p : p = Turned(k)
  OBVIOUS
<1>2. /\ p \in 1..Len(q) /\ op = q[p]
      /\ \A do : op.do = do <=> p \in Doing(q, do)
  BY <1>1 DEF Doing
<1>3. /\ TypesOK(heap, local, q, collecting, suppressed) /\ HeadersOK(heap)
      /\ OwnersOK(heap, local, q, collecting) /\ WalksOK(heap, q, collecting)
      /\ StoresOK(heap, local, q)
  BY <1>1 DEF K, Owing, Shape
<1>4. \A b \in Blocks : Used(heap, b) => b \in Allocated
  BY DEF Used, Allocated
<1>5. OpOK(op) /\ (op.do \in {"decref", "any", "walk", "body", "slot"} => op.b \in Blocks)
  BY <1>2, <1>3, Types DEF OpOK
<1>6. ASSUME op.do = "body" PROVE Used(heap, op.b)
  <2>1. op.b \in Blocks /\ heap[op.b].dying
    BY <1>2, <1>3, <1>6, BodyIs
  <2> QED BY <1>3, <2>1 DEF HeadersOK, Used
<1>7. op.do \in {"decref", "walk", "slot"} => Used(heap, op.b)
  BY <1>2, <1>3 DEF OwnersOK, WalksOK, StoresOK, Safe
<1>8. op.do \in {"decref", "walk", "body", "slot"} => op.b \in Allocated
  BY <1>4, <1>5, <1>6, <1>7
<1>9. op.do = "any" => op.b \in Allocated \/ collecting
  BY <1>2, <1>3, <1>4, <1>5 DEF OwnersOK
<1>10. op.do \in {"bind", "slot"} /\ op.x # None => Live(heap, op.x)
  <2>1. op.do \in {"bind", "slot"} /\ op.x # None => Held(heap, q, collecting, op.x)
    BY <1>1, <1>2, BoundHeld, StoredHeld
  <2> QED BY <2>1 DEF Held, Live
<1>11. ASSUME op.do = "walk", NEW j \in DOMAIN stack, stack[j].do = "walk", stack[j].b = op.b PROVE j = k
  <2>1. Turned(j) \in Doing(q, "walk") /\ q[Turned(j)].b = q[p].b
    BY <1>1, <1>2, <1>11 DEF Doing
  <2>2. Turned(j) = p
    BY <1>2, <1>3, <1>11, <2>1 DEF WalksOK
  <2> QED BY <1>1, <2>2
<1> QED BY <1>8, <1>9, <1>10, <1>11

LEMMA PendingIs ==
    ASSUME IInv, NEW q, q = Up(stack)
    PROVE  /\ \A v \in Locals : Pending("bind", None, v) = {} <=> ~Binding(q, v)
           /\ \A c, i : Pending("slot", c, i) = {} <=> ~Storing(q, c, i)
           /\ \A v \in Locals : \A k \in Pending("bind", None, v) :
                Turned(k) \in Doing(q, "bind") /\ stack[k] = q[Turned(k)]
           /\ \A c, i : \A k \in Pending("slot", c, i) :
                Turned(k) \in Doing(q, "slot") /\ stack[k] = q[Turned(k)]
<1>1. /\ DOMAIN stack = 1..Len(q) /\ K(heap, local, q, collecting, suppressed)
      /\ \A j \in 1..Len(q) : /\ Turned(j) \in 1..Len(q) /\ Turned(Turned(j)) = j
                              /\ stack[j] = q[Turned(j)] /\ q[j] = stack[Turned(j)]
  BY Frame
<1>2. \A p \in Doing(q, "bind") : q[p].b = None
  <2>1. TypesOK(heap, local, q, collecting, suppressed)
    BY <1>1, StepTypes
  <2> QED BY <2>1, Types DEF OpOK
<1>3. ASSUME NEW v \in Locals, NEW k \in Pending("bind", None, v)
      PROVE  Turned(k) \in Doing(q, "bind") /\ stack[k] = q[Turned(k)] /\ Binding(q, v)
  <2>1. k \in 1..Len(q) /\ stack[k].do = "bind" /\ stack[k].at = v
    BY <1>1 DEF Pending
  <2> QED BY <1>1, <2>1 DEF Doing, Binding
<1>4. ASSUME NEW c, NEW i, NEW k \in Pending("slot", c, i)
      PROVE  Turned(k) \in Doing(q, "slot") /\ stack[k] = q[Turned(k)] /\ Storing(q, c, i)
  <2>1. k \in 1..Len(q) /\ stack[k].do = "slot" /\ stack[k].b = c /\ stack[k].at = i
    BY <1>1 DEF Pending
  <2> QED BY <1>1, <2>1 DEF Doing, Storing
<1>5. ASSUME NEW v \in Locals, Binding(q, v) PROVE Pending("bind", None, v) # {}
  <2>1. PICK p \in Doing(q, "bind") : q[p].at = v
    BY <1>5 DEF Binding
  <2>2. p \in 1..Len(q) /\ q[p].do = "bind" /\ q[p].b = None
    BY <1>2 DEF Doing
  <2>3. Turned(p) \in Pending("bind", None, v)
    BY <1>1, <2>1, <2>2 DEF Pending
  <2> QED BY <2>3
<1>6. ASSUME NEW c, NEW i, Storing(q, c, i) PROVE Pending("slot", c, i) # {}
  <2>1. PICK p \in Doing(q, "slot") : q[p].b = c /\ q[p].at = i
    BY <1>6 DEF Storing
  <2>2. Turned(p) \in Pending("slot", c, i)
    BY <1>1, <2>1 DEF Pending, Doing
  <2> QED BY <2>2
<1> QED BY <1>3, <1>4, <1>5, <1>6

LEMMA SeenHeld ==
    ASSUME IInv, NEW q, q = Up(stack)
    PROVE  /\ \A v \in Locals : SeenVar(v) # None => Held(heap, q, collecting, SeenVar(v))
           /\ \A c \in Blocks, i \in Slots : Held(heap, q, collecting, c) /\ SeenSlot(c, i) # None =>
                Held(heap, q, collecting, SeenSlot(c, i))
<1>1. K(heap, local, q, collecting, suppressed) /\ Owing(heap, local, q, collecting, suppressed, None)
  BY Frame DEF K
<1>2. ASSUME NEW v \in Locals, SeenVar(v) # None PROVE Held(heap, q, collecting, SeenVar(v))
  <2>1. CASE Pending("bind", None, v) = {}
    <3>1. SeenVar(v) = local[v] /\ ~Binding(q, v)
      BY <2>1, PendingIs DEF SeenVar
    <3> QED BY <1>1, <1>2, <3>1, VarHeld
  <2>2. CASE Pending("bind", None, v) # {}
    <3>1. PICK k \in Pending("bind", None, v) : SeenVar(v) = stack[k].x
      BY <2>2 DEF SeenVar
    <3>2. Turned(k) \in Doing(q, "bind") /\ SeenVar(v) = q[Turned(k)].x
      BY <3>1, PendingIs
    <3> QED BY <1>1, <1>2, <3>2, BoundHeld
  <2> QED BY <2>1, <2>2
<1>3. ASSUME NEW c \in Blocks, NEW i \in Slots, Held(heap, q, collecting, c), SeenSlot(c, i) # None
      PROVE  Held(heap, q, collecting, SeenSlot(c, i))
  <2>1. CASE Pending("slot", c, i) = {}
    <3>1. SeenSlot(c, i) = heap[c].kids[i] /\ ~Storing(q, c, i)
      BY <2>1, PendingIs DEF SeenSlot
    <3>2. Owns(heap, q, c, i) /\ ~White(heap, collecting, c)
      BY <1>3, <3>1 DEF Held, Safe, Owns, Passed, Walked
    <3> QED BY <1>1, <1>3, <3>1, <3>2, SlotHeld
  <2>2. CASE Pending("slot", c, i) # {}
    <3>1. PICK k \in Pending("slot", c, i) : SeenSlot(c, i) = stack[k].x
      BY <2>2 DEF SeenSlot
    <3>2. Turned(k) \in Doing(q, "slot") /\ SeenSlot(c, i) = q[Turned(k)].x
      BY <3>1, PendingIs
    <3> QED BY <1>1, <1>3, <3>2, StoredHeld
  <2> QED BY <2>1, <2>2
<1> QED BY <1>2, <1>3

LEMMA InvReachable == IInv => ReachableLive
<1> SUFFICES ASSUME IInv PROVE ReachableLive
  OBVIOUS
<1> PICK q : q = Up(stack)
  OBVIOUS
<1> PICK G : G = {b \in Blocks : Held(heap, q, collecting, b)}
  OBVIOUS
<1>1. \A v \in Locals : SeenVar(v) # None => SeenVar(v) \in G
  BY SeenHeld DEF Held, Safe
<1>2. \A c \in G, i \in Slots : SeenSlot(c, i) # None => SeenSlot(c, i) \in G
  BY SeenHeld DEF Held, Safe
<1>3. Store!KeepsUp(G)
  <2>1. Store!Held \subseteq G
    BY <1>1 DEF Store!Held, Store!None, None
  <2>2. \A c \in G, i \in Store!Slots :
          [d \in Blocks |-> [j \in Slots |-> SeenSlot(d, j)]][c][i] # Store!None =>
            [d \in Blocks |-> [j \in Slots |-> SeenSlot(d, j)]][c][i] \in G
    BY <1>2 DEF Store!Slots, Slots, Store!None, None
  <2> QED BY <2>1, <2>2 DEF Store!KeepsUp
<1>4. Store!Reachable \subseteq G
  BY <1>3 DEF Store!Reachable, Store!Blocks, Blocks
<1>5. ASSUME NEW b \in G PROVE b \in Allocated \ BeingFreed /\ heap[b].refs > 0
  <2>1. b \in Blocks /\ Used(heap, b) /\ heap[b].refs > 0 /\ ~Walked(q, b)
    BY DEF Held, Safe
  <2>2. b \notin BeingFreed
    <3> SUFFICES ASSUME NEW k \in DOMAIN stack, stack[k].do = "walk", stack[k].b = b PROVE FALSE
      BY DEF BeingFreed
    <3>1. Turned(k) \in Doing(q, "walk") /\ q[Turned(k)].b = b
      BY Frame DEF Doing
    <3> QED BY <2>1, <3>1 DEF Walked
  <2> QED BY <2>1, <2>2 DEF Allocated, Used
<1> QED BY <1>4, <1>5 DEF ReachableLive

LEMMA InvProperties == GuardsHoldScalars /\ IInv => DestructorSeesProperties
<1> SUFFICES ASSUME GuardsHoldScalars, IInv, Running("body"), NEW i \in Slots,
                    NEW kid, kid = heap[Top.b].kids[i], kid # None
             PROVE  Live(heap, kid)
  BY DEF DestructorSeesProperties
<1> PICK q : q = Up(stack)
  OBVIOUS
<1> PICK c : c = Top.b
  OBVIOUS
<1>1. /\ K(heap, local, q, collecting, suppressed) /\ c \in Blocks
      /\ \E p \in Doing(q, "body") : q[p].b = c /\ p = Len(q)
  BY AtBody
<1>2. Owing(heap, local, q, collecting, suppressed, None) /\ FromBody(q, c)
  BY <1>1 DEF K, FromBody
<1>3. /\ Owns(heap, q, c, i)
      /\ ~White(heap, collecting, c) \/ (heap[c].layout = "dtor" /\ GuardsHoldScalars)
  BY <1>1, <1>2, MayStoreTo
<1>4. Held(heap, q, collecting, kid)
  BY <1>1, <1>2, <1>3, SlotHeld
<1> QED BY <1>4 DEF Held, Live

LEMMA OwningIs ==
    ASSUME IInv, NEW q, q = Up(stack), NEW c \in Blocks, NEW i \in Slots
    PROVE  <<c, i>> \in OwningSlots <=> Owns(heap, q, c, i)
<1>1. /\ DOMAIN stack = 1..Len(q) /\ \A j \in 1..Len(q) : /\ Turned(j) \in 1..Len(q) /\ Turned(Turned(j)) = j
                                                          /\ stack[j] = q[Turned(j)] /\ q[j] = stack[Turned(j)]
      /\ TypesOK(heap, local, q, collecting, suppressed)
  BY Frame, StepTypes
<1>2. c \in Allocated <=> Used(heap, c)
  BY DEF Allocated, Used
<1>3. Pending("slot", c, i) = {} <=> ~Storing(q, c, i)
  BY PendingIs
<1>4. ASSUME Passed(q, c, i)
      PROVE  \E k \in DOMAIN stack : stack[k].do = "walk" /\ stack[k].b = c /\ ~(stack[k].at <= i)
  <2>1. PICK p \in Doing(q, "walk") : q[p].b = c /\ q[p].at > i
    BY <1>4 DEF Passed
  <2>2. Turned(p) \in DOMAIN stack /\ stack[Turned(p)] = q[p] /\ q[p].at \in 1..NumSlots + 1
    BY <1>1, Types DEF Doing, OpOK
  <2>3. q[p].do = "walk" /\ ~(q[p].at <= i)
    BY <2>1, <2>2, GraphAssumption DEF Doing, Slots
  <2> QED BY <2>1, <2>2, <2>3
<1>5. ASSUME NEW k \in DOMAIN stack, stack[k].do = "walk", stack[k].b = c, ~(stack[k].at <= i)
      PROVE  Passed(q, c, i)
  <2>1. Turned(k) \in Doing(q, "walk") /\ stack[k] = q[Turned(k)]
    BY <1>1, <1>5 DEF Doing
  <2>2. q[Turned(k)].at \in 1..NumSlots + 1
    BY <1>1, <2>1, Types DEF OpOK
  <2>3. q[Turned(k)].at > i
    BY <1>5, <2>1, <2>2, GraphAssumption DEF Slots
  <2> QED BY <1>5, <2>1, <2>3 DEF Passed
<1> QED BY <1>2, <1>3, <1>4, <1>5 DEF OwningSlots, Owns

LEMMA OwnersAre ==
    ASSUME IInv, NEW q, q = Up(stack), NEW b \in Allocated, ~collecting \/ heap[b].marked
    PROVE  Owners(b) = Count(heap, local, q, collecting, b)
<1>1. /\ q \in Seq(OpRec) /\ Len(q) \in Nat /\ DOMAIN stack = 1..Len(q)
      /\ \A j \in 1..Len(q) : /\ Turned(j) \in 1..Len(q) /\ Turned(Turned(j)) = j
                              /\ stack[j] = q[Turned(j)] /\ q[j] = stack[Turned(j)]
      /\ TypesOK(heap, local, q, collecting, suppressed)
  BY Frame, StepTypes
<1>2. {v \in Locals : local[v] = b /\ Pending("bind", None, v) = {}} = VarsOf(local, q, b)
  BY PendingIs DEF VarsOf
<1>3. {e \in OwningSlots : heap[e[1]].kids[e[2]] = b} = SlotsOf(heap, q, collecting, b)
  <2>1. \A c \in Blocks, i \in Slots : <<c, i>> \in OwningSlots <=> Owns(heap, q, c, i)
    BY OwningIs
  <2>2. \A c \in Blocks : ~Muted(heap, collecting, c, b)
    BY DEF Muted, White
  <2>3. \A c \in Blocks, i \in Slots :
          <<c, i>> \in OwningSlots /\ heap[c].kids[i] = b <=> Edge(heap, q, collecting, c, i, b)
    BY <2>1, <2>2 DEF Edge
  <2>4. OwningSlots \subseteq Blocks \X Slots
    BY DEF OwningSlots, Allocated
  <2> QED BY <2>3, <2>4 DEF SlotsOf
<1>4. Cardinality({k \in DOMAIN stack : \/ stack[k].do \in {"decref", "any"} /\ stack[k].b = b
                                        \/ stack[k].do = "slot" /\ stack[k].x = b})
        = Cardinality(OpsOf(heap, q, collecting, b))
  <2> DEFINE S == {k \in DOMAIN stack : \/ stack[k].do \in {"decref", "any"} /\ stack[k].b = b
                                        \/ stack[k].do = "slot" /\ stack[k].x = b}
             T == OpsOf(heap, q, collecting, b)
             f == [k \in S |-> Turned(k)]
  <2>1. \A k \in 1..Len(q) : k \in S <=> Turned(k) \in T
    BY <1>1 DEF OpsOf, Hits
  <2>2. S \subseteq 1..Len(q) /\ T \subseteq 1..Len(q)
    BY <1>1 DEF OpsOf
  <2> HIDE DEF S, T
  <2>3. f \in [S -> T]
    BY <2>1, <2>2
  <2>4. \A j, k \in S : f[j] = f[k] => j = k
    BY <1>1, <2>2
  <2>5. \A p \in T : Turned(p) \in S /\ f[Turned(p)] = p
    BY <1>1, <2>1, <2>2
  <2>6. f \in Bijection(S, T)
    BY <2>3, <2>4, <2>5, Fun_IsBij
  <2>7. IsFiniteSet(S)
    <3>1. IsFiniteSet(1..Len(q))
      BY <1>1, FS_Interval
    <3> QED BY <2>2, <3>1, FS_Subset
  <2>8. Cardinality(S) = Cardinality(T)
    BY <2>6, <2>7, FS_Bijection DEF ExistsBijection
  <2> QED BY <2>8 DEF S, T
<1> QED BY <1>2, <1>3, <1>4 DEF Owners, Count

LEMMA InvCounted == IInv => Counted
<1> SUFFICES ASSUME IInv, NEW b \in Allocated, ~(collecting /\ ~heap[b].marked)
    PROVE  heap[b].refs = Owners(b) \/ (heap[b].layout = "scalars" /\ heap[b].refs > Owners(b))
  BY DEF Counted
<1> PICK q : q = Up(stack)
  OBVIOUS
<1>1. q \in Seq(OpRec) /\ CountsOK(heap, local, q, collecting, None) /\ heap \in [Blocks -> Header]
  BY Frame, StepTypes DEF K, Owing
<1>2. b \in Blocks /\ Safe(heap, collecting, b) /\ b # None
  BY DEF Allocated, Safe, Used, White, Blocks, None
<1>3. Owners(b) = Count(heap, local, q, collecting, b) /\ Count(heap, local, q, collecting, b) \in Nat
  BY <1>1, OwnersAre, SomeOwner
<1>4. Due(heap, local, q, collecting, None, b) = Owners(b)
  BY <1>2, <1>3 DEF Due
<1>5. heap[b].refs \in Nat
  BY <1>1, <1>2 DEF Header
<1> QED BY <1>1, <1>2, <1>3, <1>4, <1>5 DEF CountsOK

-----------------------------------------------------------------------------
(* When a sweep begins. *)

\* No sweep of s has still to come up to block 1.
Later(s) == \A k \in 1..Len(s) : s[k].do = "sweep" => s[k].at > 1

LEMMA LaterJoin ==
    ASSUME NEW s \in Seq(OpRec), NEW t \in Seq(OpRec), Later(s), Later(t)
    PROVE  s \o t \in Seq(OpRec) /\ Later(s \o t)
<1>1. /\ s \o t \in Seq(OpRec) /\ Len(s \o t) = Len(s) + Len(t) /\ Len(s) \in Nat /\ Len(t) \in Nat
      /\ \A k \in 1..Len(s) + Len(t) : (s \o t)[k] = IF k <= Len(s) THEN s[k] ELSE t[k - Len(s)]
  <2> HIDE DEF OpRec
  <2> QED BY ConcatProperties
<1>2. ASSUME NEW k \in 1..Len(s) + Len(t), (s \o t)[k].do = "sweep" PROVE (s \o t)[k].at > 1
  <2>1. CASE k <= Len(s)
    BY <1>1, <1>2, <2>1 DEF Later
  <2>2. CASE ~(k <= Len(s))
    <3>1. k - Len(s) \in 1..Len(t)
      BY <1>1, <2>2
    <3>2. (s \o t)[k] = t[k - Len(s)]
      BY <1>1, <2>2
    <3> QED BY <1>2, <3>1, <3>2 DEF Later
  <2> QED BY <2>1, <2>2
<1> QED BY <1>1, <1>2 DEF Later

LEMMA LaterOne ==
    /\ \A o \in OpRec : (o.do = "sweep" => o.at > 1) => <<o>> \in Seq(OpRec) /\ Later(<<o>>)
    /\ <<>> \in Seq(OpRec) /\ Later(<<>>)
<1>1. ASSUME NEW o \in OpRec, o.do = "sweep" => o.at > 1 PROVE <<o>> \in Seq(OpRec) /\ Later(<<o>>)
  <2>1. <<o>> \in Seq(OpRec)
    BY Stacked
  <2>2. Len(<<o>>) = 1 /\ <<o>>[1] = o
    OBVIOUS
  <2> QED BY <1>1, <2>1, <2>2 DEF Later
<1>2. <<>> \in Seq(OpRec) /\ Later(<<>>)
  BY Stacked DEF Later
<1> QED BY <1>1, <1>2

LEMMA LaterRelease ==
    ASSUME NEW x \in Blocks \cup {None}
    PROVE  Releasing(x) \in Seq(OpRec) /\ Later(Releasing(x))
<1>1. CASE x = None
  BY <1>1, LaterOne DEF Releasing
<1>2. CASE x # None
  <2>1. DecrefOp(x) \in OpRec /\ DecrefOp(x).do = "decref"
    BY <1>2, OpsTyped
  <2> QED BY <1>2, <2>1, LaterOne DEF Releasing
<1> QED BY <1>1, <1>2

LEMMA LaterRest ==
    ASSUME IInv, stack # <<>>
    PROVE  Rest \in Seq(OpRec) /\ (Later(stack) => Later(Rest))
<1>1. /\ stack \in Seq(OpRec) /\ Rest \in Seq(OpRec) /\ Len(stack) \in Nat /\ Len(Rest) = Len(stack) - 1
      /\ \A k \in 1..Len(Rest) : Rest[k] = stack[k + 1]
  <2> HIDE DEF OpRec
  <2>1. stack \in Seq(OpRec)
    BY DEF IInv
  <2> QED BY <2>1, HeadTailProperties DEF Rest
<1>2. \A k \in 1..Len(Rest) : k + 1 \in 1..Len(stack)
  BY <1>1
<1> QED BY <1>1, <1>2 DEF Later

\* The marks of h are those of passes 1 to 3.
Exact(h) == \A b \in Blocks : Live(h, b) => (h[b].marked <=> b \in ReachableIn(h, Roots(h)))

LEMMA MarkedExact == ASSUME NEW h \in [Blocks -> Header] PROVE Exact(Marked(h))
<1> PICK g : g = Marked(h)
  OBVIOUS
<1>1. /\ \A b \in Blocks : /\ g[b].layout = h[b].layout /\ g[b].kids = h[b].kids
                           /\ g[b].refs = h[b].refs /\ g[b].dying = h[b].dying
      /\ \A b \in Blocks : Live(h, b) => (g[b].marked <=> b \in ReachableIn(h, Roots(h)))
  BY MarkedIs DEF Like
<1>2. \A b \in Blocks : Live(g, b) <=> Live(h, b)
  BY <1>1 DEF Live
<1>3. Candidates(g) = Candidates(h)
  BY <1>1, <1>2 DEF Candidates
<1>4. \A b \in Blocks : Incoming(g, b) = Incoming(h, b)
  <2> SUFFICES ASSUME NEW b \in Blocks PROVE Incoming(g, b) = Incoming(h, b)
    OBVIOUS
  <2>1. \A e \in Candidates(h) \X Slots : g[e[1]].kids[e[2]] = h[e[1]].kids[e[2]]
    BY <1>1 DEF Candidates
  <2>2. {e \in Candidates(g) \X Slots : g[e[1]].kids[e[2]] = b}
          = {e \in Candidates(h) \X Slots : h[e[1]].kids[e[2]] = b}
    BY <1>3, <2>1
  <2> QED BY <1>1, <2>2 DEF Incoming
<1>5. Roots(g) = Roots(h)
  BY <1>1, <1>3, <1>4 DEF Roots, Candidates
<1>6. \A S \in SUBSET Blocks : ClosedUnderKids(g, S) <=> ClosedUnderKids(h, S)
  <2> SUFFICES ASSUME NEW S \in SUBSET Blocks PROVE ClosedUnderKids(g, S) <=> ClosedUnderKids(h, S)
    OBVIOUS
  <2>1. \A b \in S, i \in Slots :
          /\ g[b].kids[i] = h[b].kids[i]
          /\ h[b].kids[i] # None => (Live(g, h[b].kids[i]) <=> Live(h, h[b].kids[i]))
    BY <1>1, <1>2 DEF Header
  <2> QED BY <2>1 DEF ClosedUnderKids
<1>7. ReachableIn(g, Roots(g)) = ReachableIn(h, Roots(h))
  BY <1>5, <1>6 DEF ReachableIn
<1> QED BY <1>1, <1>2, <1>7 DEF Exact

\* A sweep that has just begun finds the marks as the collector made them.
Sweeping == Later(stack) \/ (Running("sweep") /\ Later(Rest) /\ Exact(heap))

Unboxed(h) == \A b \in Blocks : h[b].layout # "mixed"

LEMMA FreeDeepSweeps ==
    ASSUME NEW h \in [Blocks -> Header], NEW b \in Blocks, NEW s \in Seq(OpRec), Later(s),
           FreeDeep(h, b, s), Unboxed(h)
    PROVE  Sweeping' /\ Unboxed(heap')
<1> PICK d \in BOOLEAN : d <=> h[b].layout = "dtor" /\ ~h[b].dying
  OBVIOUS
<1>1. /\ heap' = [h EXCEPT ![b].dying = @ \/ d]
      /\ stack' = (IF d THEN <<BodyOp(b)>> ELSE <<>>) \o <<WalkOp(b, 1)>> \o s
  BY DEF FreeDeep
<1>2. /\ <<WalkOp(b, 1)>> \in Seq(OpRec) /\ Later(<<WalkOp(b, 1)>>)
      /\ <<BodyOp(b)>> \in Seq(OpRec) /\ Later(<<BodyOp(b)>>)
      /\ <<>> \in Seq(OpRec) /\ Later(<<>>)
  BY OpsTyped, LaterOne, GraphAssumption
<1>3. Later(stack')
  <2> PICK t : t = IF d THEN <<BodyOp(b)>> ELSE <<>>
    OBVIOUS
  <2>1. t \in Seq(OpRec) /\ Later(t)
    BY <1>2
  <2>2. t \o <<WalkOp(b, 1)>> \in Seq(OpRec) /\ Later(t \o <<WalkOp(b, 1)>>)
    BY <1>2, <2>1, LaterJoin
  <2>3. Later((t \o <<WalkOp(b, 1)>>) \o s)
    BY <2>2, LaterJoin
  <2> QED BY <1>1, <2>3
<1>4. \A c \in Blocks : heap'[c].layout = h[c].layout
  BY <1>1 DEF Header
<1> QED BY <1>3, <1>4 DEF Sweeping, Unboxed

LEMMA DecrefSweeps ==
    ASSUME NEW b \in Blocks, heap \in [Blocks -> Header], heap[b].refs > 0,
           Rest \in Seq(OpRec), Later(Rest), Unboxed(heap), Decref(b)
    PROVE  Sweeping' /\ Unboxed(heap')
<1> PICK g : g = Dropped(b)
  OBVIOUS
<1>1. g \in [Blocks -> Header] /\ Like(g, heap)
  <2>1. heap[b].refs - 1 \in Nat
    BY DEF Header
  <2>2. g = Refs(heap, b, heap[b].refs - 1)
    BY DEF Dropped, Refs
  <2> QED BY <2>1, <2>2, RefsIs
<1>2. Unboxed(g)
  BY <1>1 DEF Unboxed, Like
<1>3. CASE FreeDeep(g, b, Rest)
  BY <1>1, <1>2, <1>3, FreeDeepSweeps
<1>4. CASE heap' = Marked(g) /\ stack' = <<SweepOp(1)>> \o Rest
  <2>1. Exact(heap') /\ Unboxed(heap')
    BY <1>1, <1>2, <1>4, MarkedExact, MarkedIs DEF Unboxed, Like
  <2>2. SweepOp(1) \in OpRec /\ SweepOp(1).do = "sweep"
    BY OpsTyped
  <2>3. stack' # <<>> /\ stack'[1] = SweepOp(1) /\ Tail(stack') = Rest
    <3> HIDE DEF OpRec
    <3> QED BY ONLY <1>4, <2>2, Rest \in Seq(OpRec)
  <2> QED BY <2>1, <2>2, <2>3 DEF Sweeping, Running, Top, Rest
<1>5. CASE heap' = g /\ stack' = Rest
  BY <1>2, <1>5 DEF Sweeping
<1> QED BY <1>3, <1>4, <1>5 DEF Decref

LEMMA StoreSweeps ==
    ASSUME NEW g, NEW c \in Blocks, NEW i \in Slots, NEW x \in Blocks \cup {None},
           NEW temporary \in Blocks \cup {None}, g[c].kids[i] \in Blocks \cup {None},
           stack \in Seq(OpRec), Later(stack), StoreSlot(c, i, x, g, temporary)
    PROVE  Later(stack')
<1> PICK old : old = g[c].kids[i]
  OBVIOUS
<1> PICK a : a = IF old # None /\ g[c].layout \in {"array", "hash"} THEN <<DecrefAnyOp(old)>> ELSE Releasing(old)
  OBVIOUS
<1> PICK o : o = SlotOp(c, i, x)
  OBVIOUS
<1>1. stack' = ((a \o <<o>>) \o Releasing(temporary)) \o stack
  BY DEF StoreSlot
<1>2. a \in Seq(OpRec) /\ Later(a)
  <2>1. CASE old # None /\ g[c].layout \in {"array", "hash"}
    <3>1. DecrefAnyOp(old) \in OpRec /\ DecrefAnyOp(old).do = "any"
      BY <2>1, OpsTyped
    <3> QED BY <2>1, <3>1, LaterOne
  <2>2. CASE ~(old # None /\ g[c].layout \in {"array", "hash"})
    BY <2>2, LaterRelease
  <2> QED BY <2>1, <2>2
<1>3. <<o>> \in Seq(OpRec) /\ Later(<<o>>)
  <2>1. o \in OpRec /\ o.do = "slot"
    BY OpsTyped
  <2> QED BY <2>1, LaterOne
<1>4. a \o <<o>> \in Seq(OpRec) /\ Later(a \o <<o>>)
  BY <1>2, <1>3, LaterJoin
<1>5. (a \o <<o>>) \o Releasing(temporary) \in Seq(OpRec) /\ Later((a \o <<o>>) \o Releasing(temporary))
  BY <1>4, LaterRelease, LaterJoin
<1> QED BY <1>1, <1>5, LaterJoin

LEMMA BindSweeps ==
    ASSUME NEW g, NEW v \in Locals, NEW x \in Blocks \cup {None},
           NEW temporary \in Blocks \cup {None}, local[v] \in Blocks \cup {None},
           StoreLocal(v, x, g, temporary)
    PROVE  Later(stack')
<1> PICK o : o = BindOp(v, x)
  OBVIOUS
<1>1. stack' = (Releasing(local[v]) \o <<o>>) \o Releasing(temporary)
  BY DEF StoreLocal
<1>2. <<o>> \in Seq(OpRec) /\ Later(<<o>>)
  <2>1. o \in OpRec /\ o.do = "bind"
    BY OpsTyped
  <2> QED BY <2>1, LaterOne
<1>3. /\ Releasing(local[v]) \o <<o>> \in Seq(OpRec) /\ Later(Releasing(local[v]) \o <<o>>)
  BY <1>2, LaterRelease, LaterJoin
<1> QED BY <1>1, <1>3, LaterRelease, LaterJoin

LEMMA RetainedLayouts ==
    ASSUME NEW h \in [Blocks -> Header], NEW x \in Blocks \cup {None}
    PROVE  Retained(h, x) \in [Blocks -> Header] /\ Like(Retained(h, x), h)
<1>1. CASE x = None
  BY <1>1, RetainedIs DEF Like
<1>2. CASE x # None
  <2>1. h[x].refs + 1 \in Nat
    BY <1>2 DEF Header
  <2> QED BY <1>2, <2>1, RetainedIs, RefsIs
<1> QED BY <1>1, <1>2

\* A step of the runtime.
LEMMA RuntimeSweeps ==
    ASSUME IInv, Sweeping, Unboxed(heap), Runtime
    PROVE  Sweeping' /\ Unboxed(heap')
<1> PICK q : q = Up(stack)
  OBVIOUS
<1>1. /\ q \in Seq(OpRec) /\ K(heap, local, q, collecting, suppressed)
      /\ TypesOK(heap, local, q, collecting, suppressed) /\ heap \in [Blocks -> Header]
      /\ \A b \in Blocks, i \in Slots : heap[b].kids[i] \in Blocks \cup {None}
  BY Frame, StepTypes
<1>2. stack # <<>> => Rest \in Seq(OpRec) /\ Later(Rest)
  BY LaterRest DEF Sweeping
<1>3. stack # <<>> => Top \in OpRec /\ OpOK(Top) /\ Is(Rest, Up(Rest))
                      /\ K(heap, local, Push(Up(Rest), Top), collecting, suppressed)
  BY TopIs
<1>4. ASSUME stack # <<>>, Top.do \in {"decref", "any"}, Hits(heap, collecting, Top, Top.b), Decref(Top.b)
      PROVE  Sweeping' /\ Unboxed(heap')
  <2>1. Owing(heap, local, Up(Rest), collecting, suppressed, Top.b) /\ Top.b \in Blocks
    <3>1. Up(Rest) \in Seq(OpRec) /\ Top.do \in Plain /\ Top.b \in Blocks
      BY <1>3, <1>4, TopForm DEF Is, Plain
    <3>2. K(heap, local, Push(Up(Rest), Top), collecting, suppressed) /\ Top \in OpRec
      BY <1>3, <1>4
    <3> QED BY ONLY <1>4, <3>1, <3>2, PopPlain
  <2>2. Safe(heap, collecting, Top.b)
    <3>1. Top.b # None
      BY <2>1 DEF Blocks, None
    <3> QED BY <2>1, <3>1 DEF Owing
  <2>3. heap[Top.b].refs > 0
    BY <2>1, <2>2, OwnedHeld DEF Held
  <2> QED BY <1>1, <1>2, <1>4, <2>1, <2>3, DecrefSweeps
<1>5. CASE DecrefTyped
  BY <1>4, <1>5 DEF DecrefTyped, Running, Hits
<1>6. CASE DecrefAny
  <2>1. CASE ~Ignored(Top.b) /\ Decref(Top.b)
    BY <1>4, <1>6, <2>1 DEF DecrefAny, Running, Hits, Ignored
  <2>2. CASE stack' = Rest /\ heap' = heap
    BY <1>2, <1>6, <2>2 DEF DecrefAny, Running, Sweeping
  <2> QED BY <1>6, <2>1, <2>2 DEF DecrefAny
<1>7. CASE ReleaseKid
  <2>1. stack # <<>> /\ Top.do = "walk" /\ Top.at \in Slots /\ heap' = heap
    BY <1>7 DEF ReleaseKid, Running
  <2> PICK b : b = Top.b
    OBVIOUS
  <2> PICK i : i = Top.at
    OBVIOUS
  <2>2. b \in Blocks /\ i \in Slots
    BY <1>3, <2>1, TopForm
  <2> PICK kid : kid = heap[b].kids[i]
    OBVIOUS
  <2> PICK a : a = IF kid = None THEN <<>> ELSE <<DecrefAnyOp(kid)>>
    OBVIOUS
  <2>3. stack' = (a \o <<WalkOp(b, i + 1)>>) \o Rest
    BY <1>7 DEF ReleaseKid
  <2>4. a \in Seq(OpRec) /\ Later(a)
    <3>1. kid \in Blocks \cup {None}
      BY <1>1, <2>2
    <3>2. kid # None => DecrefAnyOp(kid) \in OpRec /\ DecrefAnyOp(kid).do = "any"
      BY <3>1, OpsTyped
    <3> QED BY <3>2, LaterOne
  <2>5. <<WalkOp(b, i + 1)>> \in Seq(OpRec) /\ Later(<<WalkOp(b, i + 1)>>)
    <3>1. i + 1 \in 1..NumSlots + 1
      BY <2>2, GraphAssumption DEF Slots
    <3>2. WalkOp(b, i + 1) \in OpRec /\ WalkOp(b, i + 1).do = "walk"
      BY <2>2, <3>1, OpsTyped
    <3> QED BY <3>2, LaterOne
  <2>6. a \o <<WalkOp(b, i + 1)>> \in Seq(OpRec) /\ Later(a \o <<WalkOp(b, i + 1)>>)
    BY <2>4, <2>5, LaterJoin
  <2>7. Later(stack')
    BY <1>2, <2>1, <2>3, <2>6, LaterJoin
  <2> QED BY <2>1, <2>7 DEF Sweeping
<1>8. CASE FreeBlock
  <2>1. stack # <<>> /\ Top.do = "walk" /\ stack' = Rest /\ heap' = Freed(heap, Top.b)
    BY <1>8 DEF FreeBlock, Running, Freed
  <2>2. Top.b \in Blocks
    BY <1>3, <2>1, TopForm
  <2>3. \A c \in Blocks : heap'[c].layout = heap[c].layout \/ heap'[c].layout = "free"
    BY <1>1, <2>1, <2>2, FreedIs
  <2> QED BY <1>2, <2>1, <2>3 DEF Sweeping, Unboxed
<1>9. CASE SweepNext
  <2>1. stack # <<>>
    BY <1>9 DEF SweepNext, Running
  <2>2. PICK b \in Victims(Top.at) : FreeDeep(heap, b, <<SweepOp(b + 1)>> \o Rest)
    BY <1>9 DEF SweepNext
  <2>3. b \in Blocks
    BY DEF Victims, Candidates
  <2>4. <<SweepOp(b + 1)>> \in Seq(OpRec) /\ Later(<<SweepOp(b + 1)>>)
    <3>1. b + 1 \in Nat /\ b + 1 > 1
      BY <2>3 DEF Blocks
    <3>2. SweepOp(b + 1) \in OpRec /\ SweepOp(b + 1).at > 1
      BY <3>1, OpsTyped
    <3> QED BY <3>2, LaterOne
  <2>5. <<SweepOp(b + 1)>> \o Rest \in Seq(OpRec) /\ Later(<<SweepOp(b + 1)>> \o Rest)
    BY <1>2, <2>1, <2>4, LaterJoin
  <2> QED BY <1>1, <2>2, <2>3, <2>5, FreeDeepSweeps
<1>10. CASE SweepEnd
  BY <1>2, <1>10 DEF SweepEnd, Running, Sweeping
<1>11. CASE Bind
  <2>1. stack # <<>> /\ Top.do = "bind" /\ stack' = Rest /\ heap' = Retained(heap, Top.x)
    BY <1>11 DEF Bind, Running
  <2>2. Like(heap', heap)
    BY <1>1, <1>3, <2>1, TopForm, RetainedLayouts
  <2> QED BY <1>2, <2>1, <2>2 DEF Sweeping, Unboxed, Like
<1>12. CASE SetSlot
  <2>1. stack # <<>> /\ Top.do = "slot" /\ stack' = Rest /\ heap' = Put(heap, Top.b, Top.at, Top.x)
    BY <1>12 DEF SetSlot, Running, Put
  <2>2. Top.b \in Blocks /\ Top.at \in Slots /\ Top.x \in Blocks \cup {None}
    BY <1>3, <2>1, TopForm
  <2> PICK g : g = Put(heap, Top.b, Top.at, Top.x)
    OBVIOUS
  <2>3. \A c \in Blocks : g[c].layout = heap[c].layout
    BY <1>1, <2>2, PutIs
  <2> QED BY <1>2, <2>1, <2>3 DEF Sweeping, Unboxed
<1>13. CASE BodyReturn
  BY <1>2, <1>13 DEF BodyReturn, Running, Sweeping
<1> QED BY <1>5, <1>6, <1>7, <1>8, <1>9, <1>10, <1>11, <1>12, <1>13 DEF Runtime

\* Where a new value is made, or a value stored.
LEMMA NewLayouts ==
    ASSUME heap \in [Blocks -> Header], Unboxed(heap), NEW b \in Blocks, NEW k \in Layouts \ {"mixed"}
    PROVE  /\ [heap EXCEPT ![b] = New(k)] \in [Blocks -> Header]
           /\ Unboxed([heap EXCEPT ![b] = New(k)])
           /\ \A d \in Blocks, i \in Slots : [heap EXCEPT ![b] = New(k)][d].kids[i] \in Blocks \cup {None}
<1>1. New(k) \in Header /\ New(k).layout = k /\ k # "mixed"
  BY GraphAssumption, NewIs
<1> PICK g : g = [heap EXCEPT ![b] = New(k)]
  OBVIOUS
<1>2. g \in [Blocks -> Header] /\ g[b] = New(k) /\ \A c \in Blocks : c # b => g[c] = heap[c]
  BY <1>1
<1>3. Unboxed(g)
  BY <1>1, <1>2 DEF Unboxed
<1>4. \A d \in Blocks, i \in Slots : g[d].kids[i] \in Blocks \cup {None}
  BY <1>2 DEF Header
<1> QED BY <1>2, <1>3, <1>4

LEMMA StoreNewSweeps ==
    ASSUME heap \in [Blocks -> Header], Unboxed(heap), stack \in Seq(OpRec), Later(stack),
           NEW c \in Blocks, NEW i \in Slots, StoreNew(c, i)
    PROVE  Later(stack') /\ Unboxed(heap')
<1>1. PICK b \in Blocks, k \in Layouts \ {"mixed"} :
        StoreSlot(c, i, b, Retained([heap EXCEPT ![b] = New(k)], b), b)
  BY DEF StoreNew
<1> PICK h : h = [heap EXCEPT ![b] = New(k)]
  OBVIOUS
<1> PICK g : g = Retained(h, b)
  OBVIOUS
<1>2. h \in [Blocks -> Header] /\ Unboxed(h) /\ \A d \in Blocks, j \in Slots : h[d].kids[j] \in Blocks \cup {None}
  BY NewLayouts
<1>3. Like(g, h)
  BY <1>2, RetainedLayouts
<1>4. Unboxed(g) /\ g[c].kids[i] \in Blocks \cup {None}
  BY <1>2, <1>3 DEF Unboxed, Like
<1>5. Later(stack')
  BY <1>1, <1>4, StoreSweeps
<1> QED BY <1>1, <1>4, <1>5 DEF StoreSlot

LEMMA StatementSweeps ==
    ASSUME IInv, Sweeping, Unboxed(heap), "mixed" \notin Layouts, Statement
    PROVE  Sweeping' /\ Unboxed(heap')
<1> PICK q : q = Up(stack)
  OBVIOUS
<1>1. /\ q \in Seq(OpRec) /\ K(heap, local, q, collecting, suppressed) /\ stack \in Seq(OpRec)
      /\ heap \in [Blocks -> Header] /\ None \notin Blocks
      /\ \A b \in Blocks, i \in Slots : heap[b].kids[i] \in Blocks \cup {None}
      /\ \A v \in Locals : local[v] \in Blocks \cup {None}
  BY Frame, StepTypes DEF IInv
<1>2. Idle \/ Running("body") => Later(stack)
  <2>1. Idle => Later(stack)
    BY LaterOne DEF Idle
  <2> QED BY <2>1 DEF Sweeping, Running
<1>3. \A W \in SUBSET Locals : \A x \in Read(W) : x \in Blocks \cup {None}
  BY <1>1, ReadShown
<1>4. \A v \in Locals : \A c \in Targets(v) : c \in Blocks
  BY <1>1, TargetShown
\* A store of x in a heap laid out as h.
<1>5. ASSUME Later(stack), NEW h \in [Blocks -> Header], Unboxed(h), NEW x \in Blocks \cup {None},
             NEW c \in Blocks, NEW i \in Slots, StoreSlot(c, i, x, Retained(h, x), None)
      PROVE  Later(stack') /\ Unboxed(heap')
  <2> PICK g : g = Retained(h, x)
    OBVIOUS
  <2>1. Like(g, h) /\ g[c].kids[i] \in Blocks \cup {None}
    BY RetainedLayouts DEF Header
  <2>2. StoreSlot(c, i, x, g, None)
    BY <1>5
  <2>3. Later(stack')
    BY <1>1, <1>5, <2>1, <2>2, StoreSweeps
  <2> QED BY <1>5, <2>1, <2>2, <2>3 DEF StoreSlot, Unboxed, Like
<1>6. ASSUME NEW v \in Locals, Assign(v) PROVE Later(stack') /\ Unboxed(heap')
  <2>1. PICK x : x \in Blocks \cup {None} /\ StoreLocal(v, x, heap, None)
    BY <1>3, <1>6 DEF Assign
  <2> QED BY <1>1, <2>1, BindSweeps DEF StoreLocal
<1>7. ASSUME NEW v \in Locals, AssignNew(v) PROVE Later(stack') /\ Unboxed(heap')
  <2>1. PICK b \in Blocks, k \in Layouts \ {"mixed"} : StoreLocal(v, b, [heap EXCEPT ![b] = New(k)], b)
    BY <1>7 DEF AssignNew
  <2>2. Unboxed([heap EXCEPT ![b] = New(k)])
    BY <1>1, NewLayouts
  <2>3. Later(stack')
    BY <1>1, <2>1, BindSweeps
  <2> QED BY <2>1, <2>2, <2>3 DEF StoreLocal
<1>8. ASSUME NEW v \in Locals, NEW i \in Slots, Write(v, i) PROVE Later(stack') /\ Unboxed(heap')
  <2>1. PICK c \in Targets(v), x \in Read(Locals) : StoreSlot(c, i, x, Retained(heap, x), None)
    BY <1>8 DEF Write
  <2>2. c \in Blocks /\ x \in Blocks \cup {None} /\ Later(stack)
    BY <1>2, <1>3, <1>4, <1>8 DEF Write
  <2> QED BY <1>1, <1>5, <2>1, <2>2
<1>9. ASSUME NEW v \in Locals, NEW i \in Slots, WriteShared(v, i) PROVE Later(stack') /\ Unboxed(heap')
  <2> PICK c : c = local[v]
    OBVIOUS
  <2>1. PICK x \in Read(Locals), d \in Blocks : Unused(d) /\ StoreSlot(d, i, x, Retained(Cloned(c, d), x), None)
    BY <1>9 DEF WriteShared
  <2>2. c \in Blocks /\ c # d /\ heap[c].refs > 1 /\ x \in Blocks \cup {None} /\ Later(stack)
    <3>1. c # None /\ Shared(c) /\ Idle
      BY <1>9 DEF WriteShared
    <3> QED BY <1>1, <1>2, <1>3, <2>1, <3>1 DEF Shared, Unused
  <2> PICK h : h = Copied(heap, c, d)
    OBVIOUS
  <2>3. Cloned(c, d) = h
    BY DEF Cloned, Copied, Kn
  <2>4. h \in [Blocks -> Header] /\ Unboxed(h)
    <3>1. /\ h \in [Blocks -> Header] /\ h[d].layout = heap[c].layout
          /\ \A b \in Blocks : b # d => h[b].layout = heap[b].layout
      BY ONLY <1>1, <2>2, d \in Blocks, h = Copied(heap, c, d), CopiedIs
    <3> QED BY <2>2, <3>1 DEF Unboxed
  <2> QED BY <1>5, <2>1, <2>2, <2>3, <2>4
<1>10. ASSUME NEW v \in Locals, NEW i \in Slots, WriteNew(v, i) PROVE Later(stack') /\ Unboxed(heap')
  <2>1. PICK c \in Targets(v) : StoreNew(c, i)
    BY <1>10 DEF WriteNew
  <2>2. c \in Blocks /\ Later(stack)
    BY <1>2, <1>4, <1>10 DEF WriteNew
  <2> QED BY <1>1, <2>1, <2>2, StoreNewSweeps
<1>11. ASSUME NEW v \in Locals, NEW i \in Slots PROVE ~WriteBoxed(v, i)
  <2>1. \A c : ~MayHold(c, "mixed")
    BY GraphAssumption DEF MayHold
  <2> QED BY <2>1 DEF WriteBoxed
<1>12. Running("body") => Top.b \in Blocks
  BY TopIs, TopForm DEF Running
<1>13. ASSUME NEW i \in Slots, BodyWrite(i) PROVE Later(stack') /\ Unboxed(heap')
  <2>1. PICK x \in {None} \cup {heap[Top.b].kids[j] : j \in Slots} :
          StoreSlot(Top.b, i, x, Retained(heap, x), None)
    BY <1>13 DEF BodyWrite
  <2>2. Top.b \in Blocks /\ Later(stack)
    BY <1>2, <1>12, <1>13 DEF BodyWrite
  <2>3. x \in Blocks \cup {None}
    BY <1>1, <2>1, <2>2
  <2> QED BY <1>1, <1>5, <2>1, <2>2, <2>3
<1>14. ASSUME NEW i \in Slots, BodyWriteNew(i) PROVE Later(stack') /\ Unboxed(heap')
  BY <1>1, <1>2, <1>12, <1>14, StoreNewSweeps DEF BodyWriteNew
<1>15. Later(stack') /\ Unboxed(heap')
  BY <1>6, <1>7, <1>8, <1>9, <1>10, <1>11, <1>13, <1>14 DEF Statement
<1> QED BY <1>15 DEF Sweeping

-----------------------------------------------------------------------------
(* What the marks mean. *)

LEMMA RootsHeld ==
    ASSUME IInv, Unboxed(heap), Exact(heap), NEW d \in Roots(heap)
    PROVE  d \in ReachableIn(heap, HeldOutside \ {None}) \/ d \in HeldOutside \ {None}
<1> PICK q : q = Up(stack)
  OBVIOUS
<1>1. /\ q \in Seq(OpRec) /\ DOMAIN stack = 1..Len(q) /\ K(heap, local, q, collecting, suppressed)
      /\ \A k \in 1..Len(q) : Turned(k) \in 1..Len(q) /\ q[k] = stack[Turned(k)]
      /\ TypesOK(heap, local, q, collecting, suppressed) /\ heap \in [Blocks -> Header] /\ None \notin Blocks
  BY Frame, StepTypes
<1>2. HeadersOK(heap) /\ CountsOK(heap, local, q, collecting, None)
  BY <1>1 DEF K, Owing, Shape
<1>3. d \in Blocks /\ d # None /\ Live(heap, d) /\ heap[d].layout # "scalars" /\ heap[d].layout # "mixed"
  BY <1>1 DEF Roots, Candidates, Unboxed
<1>4. CASE heap[d].dying
  BY <1>3, <1>4 DEF HeldOutside
<1>5. CASE ~heap[d].dying
  <2>1. heap[d].refs > Cardinality(EdgesTo(heap, d))
    BY <1>3, <1>5 DEF Roots, Incoming, EdgesTo
  <2>2. Safe(heap, collecting, d)
    <3>1. d \in ReachableIn(heap, Roots(heap))
      <4>1. Roots(heap) \in SUBSET Blocks
        BY DEF Roots, Candidates
      <4> QED BY <1>1, <4>1, Reaches
    <3>2. heap[d].marked
      BY <1>3, <3>1 DEF Exact
    <3>3. Used(heap, d)
      <4>1. Free.refs = 0 /\ ~Free.dying
        BY DEF Free
      <4> QED BY <1>2, <1>3, <4>1 DEF HeadersOK, Live
    <3> QED BY <1>3, <3>2, <3>3 DEF Safe, White
  <2>3. /\ heap[d].refs = Vn(local, q, d) + Sn(heap, q, collecting, d) + On(heap, q, collecting, d)
        /\ Vn(local, q, d) \in Nat /\ Sn(heap, q, collecting, d) \in Nat /\ On(heap, q, collecting, d) \in Nat
    <3>1. heap[d].refs = Due(heap, local, q, collecting, None, d)
      BY <1>2, <1>3, <2>2 DEF CountsOK
    <3>2. /\ Count(heap, local, q, collecting, d)
               = Vn(local, q, d) + Sn(heap, q, collecting, d) + On(heap, q, collecting, d)
          /\ Vn(local, q, d) \in Nat /\ Sn(heap, q, collecting, d) \in Nat /\ On(heap, q, collecting, d) \in Nat
      BY <1>1, Finite
    <3>3. Due(heap, local, q, collecting, None, d) = Count(heap, local, q, collecting, d)
      BY <1>3, <3>2 DEF Due
    <3> QED BY <3>1, <3>2, <3>3
  <2>4. CASE VarsOf(local, q, d) # {}
    <3>1. PICK v \in Locals : local[v] = d /\ ~Binding(q, v)
      BY <2>4 DEF VarsOf
    <3>2. Pending("bind", None, v) = {}
      BY <3>1, PendingIs
    <3> QED BY <1>3, <3>1, <3>2 DEF HeldOutside
  <2>5. CASE OpsOf(heap, q, collecting, d) # {}
    <3>1. PICK p \in 1..Len(q) : Hits(heap, collecting, q[p], d)
      BY <2>5 DEF OpsOf
    <3>2. PICK k \in DOMAIN stack : stack[k] = q[p]
      BY <1>1
    <3>3. \/ stack[k].do \in {"decref", "any"} /\ stack[k].b = d
          \/ stack[k].do = "slot" /\ stack[k].x = d
      BY <3>1, <3>2 DEF Hits
    <3> QED BY <1>3, <3>3 DEF HeldOutside
  <2>6. CASE VarsOf(local, q, d) = {} /\ OpsOf(heap, q, collecting, d) = {}
    <3>1. Vn(local, q, d) = 0 /\ On(heap, q, collecting, d) = 0
      BY <2>6, NoneOf DEF Vn, On
    <3>2. ~(SlotsOf(heap, q, collecting, d) \subseteq EdgesTo(heap, d))
      <4>1. IsFiniteSet(EdgesTo(heap, d))
        <5>1. IsFiniteSet(Blocks) /\ IsFiniteSet(Slots)
          BY GraphAssumption, FS_Interval DEF Blocks, Slots
        <5>2. IsFiniteSet(Blocks \X Slots)
          BY <5>1, FS_Product
        <5>3. EdgesTo(heap, d) \subseteq Blocks \X Slots
          BY DEF EdgesTo, Candidates
        <5> QED BY <5>2, <5>3, FS_Subset
      <4>2. Cardinality(EdgesTo(heap, d)) \in Nat
        BY <4>1, FS_CardinalityType
      <4> SUFFICES ASSUME SlotsOf(heap, q, collecting, d) \subseteq EdgesTo(heap, d) PROVE FALSE
        OBVIOUS
      <4>3. Cardinality(SlotsOf(heap, q, collecting, d)) <= Cardinality(EdgesTo(heap, d))
        BY <4>1, FS_Subset
      <4>4. Sn(heap, q, collecting, d) <= Cardinality(EdgesTo(heap, d))
        BY <4>3 DEF Sn
      <4>5. heap[d].refs = Sn(heap, q, collecting, d)
        BY <2>3, <3>1
      <4> QED BY ONLY <2>1, <2>3, <4>2, <4>4, <4>5
    <3>3. PICK e \in Blocks \X Slots : e \notin EdgesTo(heap, d) /\ Edge(heap, q, collecting, e[1], e[2], d)
      BY <3>2 DEF SlotsOf
    <3> PICK c \in Blocks : c = e[1]
      OBVIOUS
    <3> PICK i \in Slots : i = e[2]
      OBVIOUS
    <3>4. heap[c].kids[i] = d /\ Owns(heap, q, c, i) /\ c \notin Candidates(heap)
      BY <3>3 DEF Edge, EdgesTo
    <3>5. ~Live(heap, c)
      BY <1>2, <1>3, <3>4 DEF Candidates, HeadersOK
    <3>6. <<c, i>> \in OwningSlots
      BY <3>4, OwningIs
    <3>7. d \in {heap[f[1]].kids[f[2]] : f \in {f \in OwningSlots : ~Live(heap, f[1])}}
      <4>1. <<c, i>>[1] = c /\ <<c, i>>[2] = i
        OBVIOUS
      <4> QED BY <3>4, <3>5, <3>6, <4>1
    <3> QED BY <1>3, <3>7 DEF HeldOutside
  <2> QED BY <2>4, <2>5, <2>6
<1> QED BY <1>4, <1>5

LEMMA OutsideMarked ==
    ASSUME IInv, Exact(heap), Running("sweep"), NEW d \in HeldOutside \ {None}
    PROVE  d \in Blocks /\ (d \in ReachableIn(heap, Roots(heap)) \/ heap[d].layout = "scalars")
<1> PICK q : q = Up(stack)
  OBVIOUS
<1>1. /\ q \in Seq(OpRec) /\ Len(q) \in Nat /\ DOMAIN stack = 1..Len(q)
      /\ K(heap, local, q, collecting, suppressed) /\ stack \in Seq(OpRec)
      /\ \A k \in 1..Len(q) : /\ Turned(k) \in 1..Len(q) /\ Turned(Turned(k)) = k
                              /\ stack[k] = q[Turned(k)] /\ q[k] = stack[Turned(k)]
      /\ TypesOK(heap, local, q, collecting, suppressed) /\ heap \in [Blocks -> Header] /\ None \notin Blocks
  BY Frame, StepTypes DEF IInv
<1>2. /\ Owing(heap, local, q, collecting, suppressed, None) /\ OwnersOK(heap, local, q, collecting)
      /\ TopsOK(heap, q, collecting) /\ SweepsOK(heap, q, collecting) /\ HeadersOK(heap)
  BY <1>1 DEF K, Owing, Shape
<1>3. /\ \A b \in Blocks : b \in Roots(heap) => b \in ReachableIn(heap, Roots(heap))
  <2>1. Roots(heap) \in SUBSET Blocks
    BY DEF Roots, Candidates
  <2> QED BY <1>1, <2>1, Reaches
<1>4. stack # <<>> /\ stack[1].do = "sweep" /\ 1 \in DOMAIN stack
  BY <1>1 DEF Running, Top
<1>5. Len(q) \in 1..Len(q) /\ q[Len(q)].do = "sweep"
  <2>1. Turned(1) = Len(q)
    BY <1>1, UpFacts DEF Turned
  <2> QED BY <1>1, <1>4, <2>1
<1>6. collecting /\ Doing(q, "any") = {}
  <2>1. Doing(q, "sweep") # {}
    BY <1>5 DEF Doing
  <2>2. Doing(q, "any") = {}
    BY <1>2, <1>5 DEF TopsOK, Doing
  <2> QED BY <1>2, <2>1, <2>2 DEF SweepsOK
<1>7. ASSUME Held(heap, q, collecting, d)
      PROVE  d \in Blocks /\ (d \in ReachableIn(heap, Roots(heap)) \/ heap[d].layout = "scalars")
  <2>1. d \in Blocks /\ Live(heap, d) /\ ~White(heap, collecting, d)
    BY <1>7 DEF Held, Safe, Live
  <2> QED BY <1>6, <2>1 DEF White, Exact
<1>8. ASSUME NEW v \in Locals, Pending("bind", None, v) = {}, local[v] = d PROVE Held(heap, q, collecting, d)
  <2>1. ~Binding(q, v)
    BY <1>8, PendingIs
  <2> QED BY <1>2, <1>8, <2>1, VarHeld
<1>9. ASSUME NEW k \in DOMAIN stack, stack[k].do \in {"decref", "any"}, stack[k].b = d
      PROVE  Held(heap, q, collecting, d)
  <2>1. PICK p \in 1..Len(q) : q[p] = stack[k]
    BY <1>1
  <2>2. p \in Doing(q, "decref") /\ q[p].b = d
    BY <1>6, <1>9, <2>1 DEF Doing
  <2>3. Safe(heap, collecting, d) /\ Hits(heap, collecting, q[p], d)
    BY <1>2, <2>2 DEF OwnersOK, Hits, Doing
  <2> QED BY <1>2, <2>3, HitHeld
<1>10. ASSUME NEW k \in DOMAIN stack, stack[k].do = "slot", stack[k].x = d PROVE Held(heap, q, collecting, d)
  <2>1. PICK p \in 1..Len(q) : q[p] = stack[k]
    BY <1>1
  <2>2. p \in Doing(q, "slot") /\ q[p].x = d
    BY <1>10, <2>1 DEF Doing
  <2> QED BY <1>1, <2>2, StoredHeld
<1>11. ASSUME d \in Blocks, heap[d].dying PROVE d \in ReachableIn(heap, Roots(heap))
  <2>1. d \in Roots(heap)
    BY <1>2, <1>11 DEF HeadersOK, Roots, Candidates, Live
  <2> QED BY <1>3, <1>11, <2>1
<1>12. ASSUME NEW e \in OwningSlots, ~Live(heap, e[1]), heap[e[1]].kids[e[2]] = d
       PROVE  Held(heap, q, collecting, d)
  <2>1. e \in Blocks \X Slots
    BY DEF OwningSlots, Allocated
  <2> PICK c \in Blocks : c = e[1]
    BY <2>1
  <2> PICK i \in Slots : i = e[2]
    BY <2>1
  <2>2. <<c, i>> \in OwningSlots
    BY <2>1
  <2>3. Owns(heap, q, c, i) /\ ~White(heap, collecting, c) /\ heap[c].kids[i] = d
    BY <1>12, <2>2, OwningIs DEF White
  <2> QED BY <1>2, <2>3, SlotHeld
<1> QED BY <1>7, <1>8, <1>9, <1>10, <1>11, <1>12 DEF HeldOutside

\* The sweep that begins has for its victims what nothing outside the graph
\* leads to.
LEMMA InvExact == IInv /\ Sweeping /\ Unboxed(heap) => CollectorExact
<1> SUFFICES ASSUME IInv, Sweeping, Unboxed(heap), Running("sweep"), Top.at = 1, NEW b \in Candidates(heap)
             PROVE  heap[b].marked <=> b \in ReachableIn(heap, HeldOutside \ {None})
  BY DEF CollectorExact
<1> PICK W : W = HeldOutside \ {None}
  OBVIOUS
<1> PICK R : R = ReachableIn(heap, Roots(heap))
  OBVIOUS
<1>1. heap \in [Blocks -> Header] /\ HeadersOK(heap) /\ stack \in Seq(OpRec) /\ stack # <<>>
  BY Frame, StepTypes DEF IInv, K, Owing, Shape, Running
<1>2. Exact(heap)
  <2>1. ~Later(stack)
    <3>1. 1 \in 1..Len(stack) /\ stack[1].do = "sweep" /\ stack[1].at = 1
      <4>1. Len(stack) \in Nat \ {0}
        <5> HIDE DEF OpRec
        <5> QED BY <1>1
      <4> QED BY <4>1 DEF Running, Top
    <3> QED BY <3>1 DEF Later
  <2> QED BY <2>1 DEF Sweeping
<1>3. /\ Roots(heap) \in SUBSET Blocks /\ Roots(heap) \subseteq R /\ R \subseteq Blocks
      /\ \A c \in R, i \in Slots :
           heap[c].kids[i] # None /\ Live(heap, heap[c].kids[i]) => heap[c].kids[i] \in R
  <2>1. Roots(heap) \in SUBSET Blocks
    BY DEF Roots, Candidates
  <2> QED BY <1>1, <2>1, Reaches
<1>4. \A d \in W : d \in Blocks /\ (d \in R \/ heap[d].layout = "scalars")
  BY <1>2, OutsideMarked
<1>5. W \in SUBSET Blocks
  BY <1>4
<1>6. \A d \in Roots(heap) : d \in ReachableIn(heap, W)
  <2>1. W \subseteq ReachableIn(heap, W)
    BY <1>1, <1>5, Reaches
  <2> QED BY <1>2, <2>1, RootsHeld
<1>7. b \in Blocks /\ Live(heap, b) /\ heap[b].layout # "scalars"
  BY DEF Candidates
<1>8. ASSUME b \in R PROVE b \in ReachableIn(heap, W)
  <2> PICK T : T = ReachableIn(heap, W)
    OBVIOUS
  <2>1. T \in SUBSET Blocks /\ ClosedUnderKids(heap, T)
    BY <1>1, <1>5, Reaches DEF ClosedUnderKids
  <2>2. Roots(heap) \subseteq T
    BY <1>6
  <2> QED BY <1>8, <2>1, <2>2 DEF ReachableIn
<1>9. ASSUME b \in ReachableIn(heap, W) PROVE b \in R
  <2> PICK S \in SUBSET Blocks : S = {c \in Blocks : c \in R \/ heap[c].layout = "scalars"}
    OBVIOUS
  <2>1. W \subseteq S
    BY <1>4
  <2>2. ClosedUnderKids(heap, S)
    <3> SUFFICES ASSUME NEW c \in S, NEW i \in Slots, NEW kid, kid = heap[c].kids[i], kid # None, Live(heap, kid)
                 PROVE  kid \in S
      BY DEF ClosedUnderKids
    <3>1. heap[c].layout # "scalars"
      BY <1>1 DEF HeadersOK
    <3> QED BY <1>3, <3>1
  <2>3. b \in S
    BY <1>9, <2>1, <2>2 DEF ReachableIn
  <2> QED BY <1>7, <2>3
<1>10. heap[b].marked <=> b \in R
  BY <1>2, <1>7 DEF Exact
<1> QED BY <1>8, <1>9, <1>10

-----------------------------------------------------------------------------
(* The theorems. *)

\* No release, store, sweep or destructor leaves a value of another type than
\* its own: above all, no reference count is taken below zero.
THEOREM Typed == ASSUME Covered PROVE Spec => []TypeOK
<1>1. IInv => TypeOK
  BY InvTypes
<1>2. Spec => []IInv
  BY Invariance
<1> QED BY <1>1, <1>2, PTL

\* Whatever is released meanwhile, a count is the number of variables, slots and
\* pending releases that refer to the block, but for blocks left to the sweep
\* and arrays of scalars that such blocks held.
THEOREM CountedAlways == ASSUME Covered PROVE Spec => []Counted
<1>1. IInv => Counted
  BY InvCounted
<1>2. Spec => []IInv
  BY Invariance
<1> QED BY <1>1, <1>2, PTL

\* No block a variable of the program leads to, once the stores under way have
\* happened, is freed, is being freed or has a count of zero.
THEOREM ReachableAlwaysLive == ASSUME Covered PROVE Spec => []ReachableLive
<1>1. IInv => ReachableLive
  BY InvReachable
<1>2. Spec => []IInv
  BY Invariance
<1> QED BY <1>1, <1>2, PTL

\* __rt_incref, the stores and the typed releases meet only blocks in use, and
\* no block is released while it is being released.
THEOREM PendingAlwaysValid == ASSUME Covered PROVE Spec => []PendingValid
<1>1. IInv => PendingValid
  BY InvPending
<1>2. Spec => []IInv
  BY Invariance
<1> QED BY <1>1, <1>2, PTL

\* When a statement has ended, the flags of the collector are down, no count is
\* zero and no destructor has been begun and not finished.
THEOREM AtRestAlways == ASSUME Covered PROVE Spec => []AtRest
<1>1. IInv => AtRest
  BY InvAtRest
<1>2. Spec => []IInv
  BY Invariance
<1> QED BY <1>1, <1>2, PTL

\* In programs whose objects with destructors hold arrays of scalars, no value
\* in a slot of an object is gone when its destructor reads it, be it released
\* by a statement, a deeper release or the sweep.
THEOREM DestructorsSeeProperties ==
  ASSUME Covered, GuardsHoldScalars PROVE Spec => []DestructorSeesProperties
<1>1. IInv => DestructorSeesProperties
  BY InvProperties
<1>2. Spec => []IInv
  BY Invariance
<1> QED BY <1>1, <1>2, PTL

\* Unless values are boxed, what a collection is about to sweep is all that no
\* variable, pending release, running destructor or block on its way out leads
\* to, and nothing else: whatever was being released or stored when it began.
THEOREM CollectorAlwaysExact ==
  ASSUME Covered, "mixed" \notin Layouts PROVE Spec => []CollectorExact
<1>1. Init => Sweeping /\ Unboxed(heap)
  BY LaterOne DEF Init, Sweeping, Unboxed, Free
<1>2. IInv /\ (Sweeping /\ Unboxed(heap)) /\ [Next]_vars => (Sweeping /\ Unboxed(heap))'
  <2>1. CASE Next
    BY <2>1, RuntimeSweeps, StatementSweeps DEF Next
  <2>2. CASE UNCHANGED vars
    BY <2>2 DEF vars, Sweeping, Running, Top, Rest
  <2> QED BY <2>1, <2>2
<1>3. IInv /\ (Sweeping /\ Unboxed(heap)) => CollectorExact
  BY InvExact
<1>4. Spec => []IInv
  BY Invariance
<1> QED BY <1>1, <1>2, <1>3, <1>4, PTL DEF Spec

-----------------------------------------------------------------------------
(* The program's view. *)

\* The second halves of stores among the calls of s.
Stores(s) == {s[k] : k \in {k \in DOMAIN s : s[k].do \in {"bind", "slot"}}}

\* Stores of no call, of one, and of calls put before others.
LEMMA StoresOf ==
    /\ Stores(<<>>) = {}
    /\ \A o \in OpRec : Stores(<<o>>) = IF o.do \in {"bind", "slot"} THEN {o} ELSE {}
    /\ \A s, t \in Seq(OpRec) : s \o t \in Seq(OpRec) /\ Stores(s \o t) = Stores(s) \cup Stores(t)
<1>1. Stores(<<>>) = {}
  BY DEF Stores
<1>2. ASSUME NEW o \in OpRec PROVE Stores(<<o>>) = IF o.do \in {"bind", "slot"} THEN {o} ELSE {}
  <2>1. DOMAIN <<o>> = {1} /\ <<o>>[1] = o
    OBVIOUS
  <2> QED BY <2>1 DEF Stores
<1>3. ASSUME NEW s \in Seq(OpRec), NEW t \in Seq(OpRec)
      PROVE  s \o t \in Seq(OpRec) /\ Stores(s \o t) = Stores(s) \cup Stores(t)
  <2> PICK u : u = s \o t
    OBVIOUS
  <2>1. /\ u \in Seq(OpRec) /\ Len(u) = Len(s) + Len(t) /\ Len(s) \in Nat /\ Len(t) \in Nat
        /\ \A k \in 1..Len(s) + Len(t) : u[k] = IF k <= Len(s) THEN s[k] ELSE t[k - Len(s)]
        /\ DOMAIN u = 1..Len(u) /\ DOMAIN s = 1..Len(s) /\ DOMAIN t = 1..Len(t)
    <3> HIDE DEF OpRec
    <3> QED BY ConcatProperties
  <2>2. ASSUME NEW k \in DOMAIN u, u[k].do \in {"bind", "slot"} PROVE u[k] \in Stores(s) \cup Stores(t)
    <3>1. CASE k <= Len(s)
      <4>1. k \in DOMAIN s /\ u[k] = s[k]
        BY <2>1, <3>1
      <4> QED BY <2>2, <4>1 DEF Stores
    <3>2. CASE ~(k <= Len(s))
      <4>1. k - Len(s) \in DOMAIN t /\ u[k] = t[k - Len(s)]
        BY <2>1, <3>2
      <4> QED BY <2>2, <4>1 DEF Stores
    <3> QED BY <3>1, <3>2
  <2>3. ASSUME NEW k \in DOMAIN s, s[k].do \in {"bind", "slot"} PROVE s[k] \in Stores(u)
    <3>1. k \in DOMAIN u /\ u[k] = s[k]
      BY <2>1
    <3> QED BY <2>3, <3>1 DEF Stores
  <2>4. ASSUME NEW k \in DOMAIN t, t[k].do \in {"bind", "slot"} PROVE t[k] \in Stores(u)
    <3>1. k + Len(s) \in DOMAIN u /\ u[k + Len(s)] = t[k]
      BY <2>1
    <3> QED BY <2>4, <3>1 DEF Stores
  <2>5. ASSUME NEW o \in Stores(u) PROVE o \in Stores(s) \cup Stores(t)
    <3>1. PICK k \in DOMAIN u : u[k].do \in {"bind", "slot"} /\ o = u[k]
      BY <2>5 DEF Stores
    <3> QED BY <2>2, <3>1
  <2>6. ASSUME NEW o \in Stores(s) \cup Stores(t) PROVE o \in Stores(u)
    <3>1. CASE o \in Stores(s)
      <4>1. PICK k \in DOMAIN s : s[k].do \in {"bind", "slot"} /\ o = s[k]
        BY <3>1 DEF Stores
      <4> QED BY <2>3, <4>1
    <3>2. CASE o \in Stores(t)
      <4>1. PICK k \in DOMAIN t : t[k].do \in {"bind", "slot"} /\ o = t[k]
        BY <3>2 DEF Stores
      <4> QED BY <2>4, <4>1
    <3> QED BY <2>6, <3>1, <3>2
  <2> QED BY <2>1, <2>5, <2>6
<1> QED BY <1>1, <1>2, <1>3

LEMMA StoresJoin ==
    ASSUME NEW s \in Seq(OpRec), NEW t \in Seq(OpRec)
    PROVE  s \o t \in Seq(OpRec) /\ Stores(s \o t) = Stores(s) \cup Stores(t)
  BY StoresOf

\* Stores under way are those of the call at the top and of the rest.
LEMMA StoresRest ==
    ASSUME IInv, stack # <<>>
    PROVE  /\ Rest \in Seq(OpRec) /\ Top \in OpRec /\ OpOK(Top)
           /\ Stores(stack) = Stores(Rest) \cup (IF Top.do \in {"bind", "slot"} THEN {Top} ELSE {})
<1>1. Rest \in Seq(OpRec) /\ Top \in OpRec /\ OpOK(Top)
  BY TopIs DEF Is
<1>2. stack = <<Top>> \o Rest /\ <<Top>> \in Seq(OpRec)
  <2> HIDE DEF OpRec
  <2>1. stack \in Seq(OpRec)
    BY DEF IInv
  <2> QED BY <1>1, <2>1, HeadTailProperties DEF Rest, Top
<1>3. Stores(stack) = Stores(<<Top>>) \cup Stores(Rest)
  BY <1>1, <1>2, StoresJoin
<1>4. Stores(<<Top>>) = IF Top.do \in {"bind", "slot"} THEN {Top} ELSE {}
  BY <1>1, StoresOf
<1> QED BY <1>1, <1>3, <1>4

LEMMA OpsDiffer ==
    /\ \A v, w, x, y : BindOp(v, x) = BindOp(w, y) <=> v = w /\ x = y
    /\ \A c, d, i, j, x, y : SlotOp(c, i, x) = SlotOp(d, j, y) <=> c = d /\ i = j /\ x = y
    /\ \A v, x, c, i, y : BindOp(v, x) # SlotOp(c, i, y)
  BY DEF BindOp, SlotOp, Op

\* What the program sees is what the stores under way bring, and where there is
\* none, what is there.
Sees ==
  /\ \A v \in Locals :
       /\ \A x : BindOp(v, x) \in Stores(stack) => SeenVar(v) = x
       /\ (\A x : BindOp(v, x) \notin Stores(stack)) => SeenVar(v) = local[v]
  /\ \A c \in Blocks, i \in Slots :
       /\ \A x : SlotOp(c, i, x) \in Stores(stack) => SeenSlot(c, i) = x
       /\ (\A x : SlotOp(c, i, x) \notin Stores(stack)) => SeenSlot(c, i) = heap[c].kids[i]

LEMMA SeesNow == IInv => Sees
<1> SUFFICES ASSUME IInv PROVE Sees
  OBVIOUS
<1> PICK q : q = Up(stack)
  OBVIOUS
<1>1. /\ DOMAIN stack = 1..Len(q) /\ K(heap, local, q, collecting, suppressed)
      /\ \A j \in 1..Len(q) : Turned(j) \in 1..Len(q) /\ stack[j] = q[Turned(j)] /\ Turned(Turned(j)) = j
  BY Frame
<1>2. /\ TypesOK(heap, local, q, collecting, suppressed) /\ BindsOK(heap, local, q)
      /\ StoresOK(heap, local, q)
  BY <1>1 DEF K, Owing, Shape
<1>3. \A k \in DOMAIN stack : stack[k] \in OpRec /\ OpOK(stack[k])
  BY <1>1, <1>2, Types
<1>4. \A k \in DOMAIN stack : stack[k].do \in {"bind", "slot"} => stack[k] \in Stores(stack)
  BY DEF Stores
<1>5. ASSUME NEW v \in Locals, NEW x, BindOp(v, x) \in Stores(stack) PROVE SeenVar(v) = x
  <2>1. PICK k \in DOMAIN stack : stack[k] = BindOp(v, x)
    BY <1>5 DEF Stores
  <2>2. k \in Pending("bind", None, v) /\ stack[k].x = x
    BY <2>1 DEF Pending, BindOp, Op
  <2>3. PICK m \in Pending("bind", None, v) : SeenVar(v) = stack[m].x
    BY <2>2 DEF SeenVar
  <2>4. /\ Turned(k) \in Doing(q, "bind") /\ stack[k] = q[Turned(k)]
        /\ Turned(m) \in Doing(q, "bind") /\ stack[m] = q[Turned(m)]
    BY <2>2, PendingIs
  <2>5. Turned(k) = Turned(m)
    BY <1>2, <2>4, OneOutermost DEF BindsOK
  <2> QED BY <2>2, <2>3, <2>4, <2>5
<1>6. ASSUME NEW v \in Locals, \A x : BindOp(v, x) \notin Stores(stack) PROVE SeenVar(v) = local[v]
  <2>1. ASSUME NEW k \in Pending("bind", None, v) PROVE FALSE
    <3>1. k \in DOMAIN stack /\ stack[k].do = "bind" /\ stack[k].at = v
      BY DEF Pending
    <3>2. stack[k] = BindOp(v, stack[k].x)
      BY <1>3, <3>1, TopForm
    <3> QED BY <1>4, <1>6, <3>1, <3>2
  <2> QED BY <2>1 DEF SeenVar
<1>7. ASSUME NEW c \in Blocks, NEW i \in Slots, NEW x, SlotOp(c, i, x) \in Stores(stack) PROVE SeenSlot(c, i) = x
  <2>1. PICK k \in DOMAIN stack : stack[k] = SlotOp(c, i, x)
    BY <1>7 DEF Stores
  <2>2. k \in Pending("slot", c, i) /\ stack[k].x = x
    BY <2>1 DEF Pending, SlotOp, Op
  <2>3. PICK m \in Pending("slot", c, i) : SeenSlot(c, i) = stack[m].x
    BY <2>2 DEF SeenSlot
  <2>4. /\ Turned(k) \in Doing(q, "slot") /\ stack[k] = q[Turned(k)]
        /\ Turned(m) \in Doing(q, "slot") /\ stack[m] = q[Turned(m)]
        /\ stack[k].b = c /\ stack[k].at = i /\ stack[m].b = c /\ stack[m].at = i
    BY <2>2, PendingIs DEF Pending
  <2>5. Turned(k) = Turned(m)
    BY <1>2, <2>4 DEF StoresOK
  <2> QED BY <2>2, <2>3, <2>4, <2>5
<1>8. ASSUME NEW c \in Blocks, NEW i \in Slots, \A x : SlotOp(c, i, x) \notin Stores(stack)
      PROVE  SeenSlot(c, i) = heap[c].kids[i]
  <2>1. ASSUME NEW k \in Pending("slot", c, i) PROVE FALSE
    <3>1. k \in DOMAIN stack /\ stack[k].do = "slot" /\ stack[k].b = c /\ stack[k].at = i
      BY DEF Pending
    <3>2. stack[k] = SlotOp(c, i, stack[k].x)
      BY <1>3, <3>1, TopForm
    <3> QED BY <1>4, <1>8, <3>1, <3>2
  <2> QED BY <2>1 DEF SeenSlot
<1> QED BY <1>5, <1>6, <1>7, <1>8 DEF Sees

LEMMA SeesNext == IInv' => Sees'
  BY SeesNow, PTL

\* The state of AbstractStore.
VarView == [v \in Locals |-> SeenVar(v)]
SlotView == [c \in Blocks |-> [i \in Slots |-> SeenSlot(c, i)]]
Objects == {b \in Allocated : heap[b].layout \in {"object", "dtor"}}
View == <<Allocated, Objects, SlotView, VarView>>

\* Blocks in which nothing changes that the program could see.
LEMMA LayoutsView ==
    ASSUME \A b \in Blocks : heap'[b].layout = heap[b].layout
    PROVE  Allocated' = Allocated /\ Objects' = Objects
  BY DEF Allocated, Objects

\* A step that ends stores, or none, in such a heap.
LEMMA ViewKept ==
    ASSUME IInv, IInv', \A b \in Blocks : heap'[b].layout = heap[b].layout,
           Stores(stack') \subseteq Stores(stack),
           \A v \in Locals : (\A x : BindOp(v, x) \notin Stores(stack')) => local'[v] = SeenVar(v),
           \A c \in Blocks, i \in Slots :
             (\A x : SlotOp(c, i, x) \notin Stores(stack')) => heap'[c].kids[i] = SeenSlot(c, i)
    PROVE  UNCHANGED View
<1>1. Sees /\ Sees'
  BY SeesNow, SeesNext
<1>2. ASSUME NEW v \in Locals PROVE SeenVar(v)' = SeenVar(v)
  <2>1. CASE \E x : BindOp(v, x) \in Stores(stack')
    BY <1>1, <2>1 DEF Sees
  <2>2. CASE \A x : BindOp(v, x) \notin Stores(stack')
    BY <1>1, <2>2 DEF Sees
  <2> QED BY <2>1, <2>2
<1>3. ASSUME NEW c \in Blocks, NEW i \in Slots PROVE SeenSlot(c, i)' = SeenSlot(c, i)
  <2>1. CASE \E x : SlotOp(c, i, x) \in Stores(stack')
    BY <1>1, <2>1 DEF Sees
  <2>2. CASE \A x : SlotOp(c, i, x) \notin Stores(stack')
    BY <1>1, <2>2 DEF Sees
  <2> QED BY <2>1, <2>2
<1>4. VarView' = VarView
  BY <1>2 DEF VarView
<1>5. SlotView' = SlotView
  BY <1>3 DEF SlotView
<1> QED BY <1>4, <1>5, LayoutsView DEF View

\* A step that neither ends nor begins a store.
LEMMA StoresKept ==
    ASSUME IInv, IInv', Like(heap', heap), local' = local, Stores(stack') = Stores(stack)
    PROVE  UNCHANGED View
<1>1. Sees
  BY SeesNow
<1>2. \A v \in Locals : (\A x : BindOp(v, x) \notin Stores(stack')) => local'[v] = SeenVar(v)
  BY <1>1 DEF Sees
<1>3. \A c \in Blocks, i \in Slots :
        (\A x : SlotOp(c, i, x) \notin Stores(stack')) => heap'[c].kids[i] = SeenSlot(c, i)
  BY <1>1 DEF Sees, Like
<1>4. \A b \in Blocks : heap'[b].layout = heap[b].layout
  BY DEF Like
<1> QED BY <1>2, <1>3, <1>4, ViewKept

LEMMA ReleaseStores ==
    ASSUME NEW x \in Blocks \cup {None}
    PROVE  Releasing(x) \in Seq(OpRec) /\ Stores(Releasing(x)) = {}
<1>1. CASE x = None
  BY <1>1, StoresOf, Stacked DEF Releasing
<1>2. CASE x # None
  <2>1. DecrefOp(x) \in OpRec /\ DecrefOp(x).do = "decref"
    BY <1>2, OpsTyped
  <2> QED BY <1>2, <2>1, StoresOf, Stacked DEF Releasing
<1> QED BY <1>1, <1>2

\* Entering a deep release begins and ends no store.
LEMMA FreeDeepView ==
    ASSUME NEW h \in [Blocks -> Header], NEW b \in Blocks, NEW s \in Seq(OpRec), FreeDeep(h, b, s)
    PROVE  Like(heap', h) /\ local' = local /\ Stores(stack') = Stores(s)
<1> PICK d \in BOOLEAN : d <=> h[b].layout = "dtor" /\ ~h[b].dying
  OBVIOUS
<1>1. /\ heap' = [h EXCEPT ![b].dying = @ \/ d]
      /\ stack' = (IF d THEN <<BodyOp(b)>> ELSE <<>>) \o <<WalkOp(b, 1)>> \o s
  BY DEF FreeDeep
<1>2. /\ <<WalkOp(b, 1)>> \in Seq(OpRec) /\ Stores(<<WalkOp(b, 1)>>) = {}
      /\ <<BodyOp(b)>> \in Seq(OpRec) /\ Stores(<<BodyOp(b)>>) = {}
      /\ <<>> \in Seq(OpRec) /\ Stores(<<>>) = {}
  <2>1. /\ WalkOp(b, 1) \in OpRec /\ WalkOp(b, 1).do = "walk"
        /\ BodyOp(b) \in OpRec /\ BodyOp(b).do = "body"
    BY OpsTyped, GraphAssumption
  <2> QED BY <2>1, StoresOf, Stacked
<1>3. Stores(stack') = Stores(s)
  <2> PICK t : t = IF d THEN <<BodyOp(b)>> ELSE <<>>
    OBVIOUS
  <2>1. t \in Seq(OpRec) /\ Stores(t) = {}
    BY <1>2
  <2>2. t \o <<WalkOp(b, 1)>> \in Seq(OpRec) /\ Stores(t \o <<WalkOp(b, 1)>>) = {}
    BY <1>2, <2>1, StoresJoin
  <2>3. Stores((t \o <<WalkOp(b, 1)>>) \o s) = Stores(s)
    <3> PICK u : u = t \o <<WalkOp(b, 1)>>
      OBVIOUS
    <3>1. u \in Seq(OpRec) /\ Stores(u) = {}
      BY <2>2
    <3>2. Stores(u \o s) = Stores(u) \cup Stores(s)
      BY <3>1, StoresJoin
    <3> QED BY <3>1, <3>2
  <2> QED BY <1>1, <2>3
<1>4. \A c \in Blocks : heap'[c].layout = h[c].layout /\ heap'[c].kids = h[c].kids
  BY <1>1 DEF Header
<1> QED BY <1>3, <1>4 DEF FreeDeep, Like

\* Nor does giving up a reference, with the passes of a collection.
LEMMA DecrefView ==
    ASSUME NEW b \in Blocks, heap \in [Blocks -> Header], heap[b].refs > 0,
           Rest \in Seq(OpRec), Decref(b)
    PROVE  Like(heap', heap) /\ local' = local /\ Stores(stack') = Stores(Rest)
<1> PICK g : g = Dropped(b)
  OBVIOUS
<1>1. g \in [Blocks -> Header] /\ Like(g, heap)
  <2>1. heap[b].refs - 1 \in Nat
    BY DEF Header
  <2>2. g = Refs(heap, b, heap[b].refs - 1)
    BY DEF Dropped, Refs
  <2> QED BY <2>1, <2>2, RefsIs
<1>2. CASE FreeDeep(g, b, Rest)
  <2>1. Like(heap', g) /\ local' = local /\ Stores(stack') = Stores(Rest)
    BY <1>1, <1>2, FreeDeepView
  <2> QED BY <1>1, <2>1 DEF Like
<1>3. CASE heap' = Marked(g) /\ stack' = <<SweepOp(1)>> \o Rest /\ local' = local
  <2>1. Like(heap', heap)
    <3> PICK m : m = Marked(g)
      OBVIOUS
    <3>1. Like(m, g)
      BY <1>1, MarkedIs
    <3> QED BY <1>1, <1>3, <3>1 DEF Like
  <2>2. <<SweepOp(1)>> \in Seq(OpRec) /\ Stores(<<SweepOp(1)>>) = {}
    <3>1. SweepOp(1) \in OpRec /\ SweepOp(1).do = "sweep"
      BY OpsTyped
    <3> QED BY <3>1, StoresOf, Stacked
  <2>3. Stores(<<SweepOp(1)>> \o Rest) = Stores(<<SweepOp(1)>>) \cup Stores(Rest)
    BY <2>2, StoresJoin
  <2> QED BY <1>3, <2>1, <2>2, <2>3
<1>4. CASE heap' = g /\ stack' = Rest /\ local' = local
  BY <1>1, <1>4
<1> QED BY <1>2, <1>3, <1>4 DEF Decref

\* Steps of the runtime, but for the end of a deep release.
LEMMA RuntimeView ==
    ASSUME IInv, IInv', Runtime, ~FreeBlock
    PROVE  UNCHANGED View
<1> PICK q : q = Up(stack)
  OBVIOUS
<1>1. /\ q \in Seq(OpRec) /\ K(heap, local, q, collecting, suppressed)
      /\ heap \in [Blocks -> Header] /\ local \in [Locals -> Blocks \cup {None}]
      /\ \A b \in Blocks, i \in Slots : heap[b].kids[i] \in Blocks \cup {None}
  BY Frame, StepTypes
<1>2. Like(heap, heap)
  BY DEF Like
<1>3. stack # <<>> =>
        /\ Rest \in Seq(OpRec) /\ Top \in OpRec /\ OpOK(Top)
        /\ Top.do \notin {"bind", "slot"} => Stores(stack) = Stores(Rest)
        /\ Top.do \in {"bind", "slot"} => Stores(stack) = Stores(Rest) \cup {Top}
        /\ Is(Rest, Up(Rest)) /\ K(heap, local, Push(Up(Rest), Top), collecting, suppressed)
  BY StoresRest, TopIs
<1>4. ASSUME stack # <<>>, Top.do \in {"decref", "any"}, Hits(heap, collecting, Top, Top.b), Decref(Top.b)
      PROVE  UNCHANGED View
  <2>1. Owing(heap, local, Up(Rest), collecting, suppressed, Top.b) /\ Top.b \in Blocks
    <3>1. Up(Rest) \in Seq(OpRec) /\ Top.do \in Plain /\ Top.b \in Blocks
      BY <1>3, <1>4, TopForm DEF Is, Plain
    <3>2. K(heap, local, Push(Up(Rest), Top), collecting, suppressed) /\ Top \in OpRec
      BY <1>3, <1>4
    <3> QED BY ONLY <1>4, <3>1, <3>2, PopPlain
  <2>2. Safe(heap, collecting, Top.b)
    <3>1. Top.b # None
      BY <2>1 DEF Blocks, None
    <3> QED BY <2>1, <3>1 DEF Owing
  <2>3. heap[Top.b].refs > 0
    BY <2>1, <2>2, OwnedHeld DEF Held
  <2>4. Like(heap', heap) /\ local' = local /\ Stores(stack') = Stores(Rest)
    BY <1>1, <1>3, <1>4, <2>1, <2>3, DecrefView
  <2>5. Stores(stack') = Stores(stack)
    BY <1>3, <1>4, <2>4
  <2> QED BY <2>4, <2>5, StoresKept
<1>5. CASE DecrefTyped
  BY <1>4, <1>5 DEF DecrefTyped, Running, Hits
<1>6. CASE DecrefAny
  <2>1. CASE ~Ignored(Top.b) /\ Decref(Top.b)
    BY <1>4, <1>6, <2>1 DEF DecrefAny, Running, Hits, Ignored
  <2>2. CASE stack' = Rest /\ heap' = heap /\ local' = local
    <3>1. Stores(stack') = Stores(stack) /\ Like(heap', heap)
      BY <1>2, <1>3, <1>6, <2>2 DEF DecrefAny, Running
    <3> QED BY <2>2, <3>1, StoresKept
  <2> QED BY <1>6, <2>1, <2>2 DEF DecrefAny
<1>7. CASE ReleaseKid
  <2>1. stack # <<>> /\ Top.do = "walk" /\ Top.at \in Slots /\ heap' = heap /\ local' = local
    BY <1>7 DEF ReleaseKid, Running
  <2> PICK b : b = Top.b
    OBVIOUS
  <2> PICK i : i = Top.at
    OBVIOUS
  <2>2. b \in Blocks /\ i \in Slots
    BY <1>3, <2>1, TopForm
  <2> PICK kid : kid = heap[b].kids[i]
    OBVIOUS
  <2> PICK a : a = IF kid = None THEN <<>> ELSE <<DecrefAnyOp(kid)>>
    OBVIOUS
  <2>3. stack' = (a \o <<WalkOp(b, i + 1)>>) \o Rest
    BY <1>7 DEF ReleaseKid
  <2>4. a \in Seq(OpRec) /\ Stores(a) = {}
    <3>1. kid \in Blocks \cup {None}
      BY <1>1, <2>2
    <3>2. kid # None => DecrefAnyOp(kid) \in OpRec /\ DecrefAnyOp(kid).do = "any"
      BY <3>1, OpsTyped
    <3> QED BY <3>2, StoresOf, Stacked
  <2> PICK w : w = <<WalkOp(b, i + 1)>>
    OBVIOUS
  <2>5. w \in Seq(OpRec) /\ Stores(w) = {}
    <3>1. i + 1 \in 1..NumSlots + 1
      BY <2>2, GraphAssumption DEF Slots
    <3>2. WalkOp(b, i + 1) \in OpRec /\ WalkOp(b, i + 1).do = "walk"
      BY <2>2, <3>1, OpsTyped
    <3> QED BY <3>2, StoresOf, Stacked
  <2> PICK u : u = a \o w
    OBVIOUS
  <2>6. u \in Seq(OpRec) /\ Stores(u) = {} /\ stack' = u \o Rest
    <3>1. u \in Seq(OpRec) /\ Stores(u) = Stores(a) \cup Stores(w)
      BY <2>4, <2>5, StoresJoin
    <3> QED BY <2>3, <2>4, <2>5, <3>1
  <2>7. Stores(stack') = Stores(stack)
    <3>1. Stores(u \o Rest) = Stores(u) \cup Stores(Rest)
      <4>1. u \in Seq(OpRec) /\ Rest \in Seq(OpRec)
        BY <1>3, <2>1, <2>6
      <4> QED BY ONLY <4>1, StoresJoin
    <3>2. Stores(stack) = Stores(Rest)
      <4>1. Top.do \notin {"bind", "slot"}
        BY <2>1
      <4> QED BY ONLY <1>3, <2>1, <4>1
    <3> QED BY ONLY <2>6, <3>1, <3>2
  <2> QED BY <1>2, <2>1, <2>7, StoresKept
<1>8. CASE SweepNext
  <2>1. stack # <<>> /\ Top.do = "sweep"
    BY <1>8 DEF SweepNext, Running
  <2>2. PICK b \in Victims(Top.at) : FreeDeep(heap, b, <<SweepOp(b + 1)>> \o Rest)
    BY <1>8 DEF SweepNext
  <2>3. b \in Blocks
    BY DEF Victims, Candidates
  <2>4. <<SweepOp(b + 1)>> \in Seq(OpRec) /\ Stores(<<SweepOp(b + 1)>>) = {}
    <3>1. b + 1 \in Nat
      BY <2>3 DEF Blocks
    <3>2. SweepOp(b + 1) \in OpRec /\ SweepOp(b + 1).do = "sweep"
      BY <3>1, OpsTyped
    <3> QED BY <3>2, StoresOf, Stacked
  <2>5. <<SweepOp(b + 1)>> \o Rest \in Seq(OpRec) /\ Stores(<<SweepOp(b + 1)>> \o Rest) = Stores(stack)
    <3> PICK w : w = <<SweepOp(b + 1)>>
      OBVIOUS
    <3>1. w \in Seq(OpRec) /\ Stores(w) = {}
      BY <2>4
    <3>2. w \o Rest \in Seq(OpRec) /\ Stores(w \o Rest) = Stores(w) \cup Stores(Rest)
      BY <1>3, <2>1, <3>1, StoresJoin
    <3> QED BY <1>3, <2>1, <3>1, <3>2
  <2>6. Like(heap', heap) /\ local' = local /\ Stores(stack') = Stores(stack)
    BY <1>1, <2>2, <2>3, <2>5, FreeDeepView
  <2> QED BY <2>6, StoresKept
<1>9. CASE SweepEnd
  <2>1. Stores(stack') = Stores(stack) /\ heap' = heap /\ local' = local
    BY <1>3, <1>9 DEF SweepEnd, Running
  <2> QED BY <1>2, <2>1, StoresKept
<1>10. CASE BodyReturn
  <2>1. Stores(stack') = Stores(stack) /\ heap' = heap /\ local' = local
    BY <1>3, <1>10 DEF BodyReturn, Running
  <2> QED BY <1>2, <2>1, StoresKept
<1>11. CASE Bind
  <2>1. stack # <<>> /\ Top.do = "bind" /\ stack' = Rest /\ heap' = Retained(heap, Top.x)
    BY <1>11 DEF Bind, Running
  <2> PICK w : w = Top.at
    OBVIOUS
  <2> PICK y : y = Top.x
    OBVIOUS
  <2>2. /\ w \in Locals /\ y \in Blocks \cup {None} /\ Top = BindOp(w, y)
        /\ local' = [local EXCEPT ![w] = y]
    BY <1>3, <1>11, <2>1, TopForm DEF Bind
  <2>3. Like(heap', heap)
    BY <1>1, <2>1, <2>2, RetainedLayouts
  <2>4. Stores(stack) = Stores(stack') \cup {BindOp(w, y)}
    BY <1>3, <2>1, <2>2
  <2>5. Sees
    BY SeesNow
  <2>6. ASSUME NEW v \in Locals, \A x : BindOp(v, x) \notin Stores(stack') PROVE local'[v] = SeenVar(v)
    <3>1. CASE v = w
      BY <1>1, <2>2, <2>4, <2>5, <3>1 DEF Sees
    <3>2. CASE v # w
      <4>1. \A x : BindOp(v, x) \notin Stores(stack)
        BY <2>4, <2>6, <3>2, OpsDiffer
      <4> QED BY <1>1, <2>2, <2>5, <3>2, <4>1 DEF Sees
    <3> QED BY <3>1, <3>2
  <2>7. ASSUME NEW c \in Blocks, NEW i \in Slots, \A x : SlotOp(c, i, x) \notin Stores(stack')
        PROVE  heap'[c].kids[i] = SeenSlot(c, i)
    <3>1. \A x : SlotOp(c, i, x) \notin Stores(stack)
      BY <2>4, <2>7, OpsDiffer
    <3> QED BY <2>3, <2>5, <3>1 DEF Sees, Like
  <2>8. \A b \in Blocks : heap'[b].layout = heap[b].layout
    BY <2>3 DEF Like
  <2> QED BY <2>4, <2>6, <2>7, <2>8, ViewKept
<1>12. CASE SetSlot
  <2>1. stack # <<>> /\ Top.do = "slot" /\ stack' = Rest /\ heap' = Put(heap, Top.b, Top.at, Top.x) /\ local' = local
    BY <1>12 DEF SetSlot, Running, Put
  <2> PICK d : d = Top.b
    OBVIOUS
  <2> PICK j : j = Top.at
    OBVIOUS
  <2> PICK y : y = Top.x
    OBVIOUS
  <2>2. d \in Blocks /\ j \in Slots /\ y \in Blocks \cup {None} /\ Top = SlotOp(d, j, y)
    BY <1>3, <2>1, TopForm
  <2>3. /\ \A c \in Blocks : heap'[c].layout = heap[c].layout
        /\ heap'[d].kids[j] = y
        /\ \A c \in Blocks, i \in Slots : c # d \/ i # j => heap'[c].kids[i] = heap[c].kids[i]
    <3>1. heap' = Put(heap, d, j, y)
      BY <2>1
    <3> QED BY ONLY <3>1, <1>1, <2>2, PutIs
  <2>4. Stores(stack) = Stores(stack') \cup {SlotOp(d, j, y)}
    BY <1>3, <2>1, <2>2
  <2>5. Sees
    BY SeesNow
  <2>6. ASSUME NEW v \in Locals, \A x : BindOp(v, x) \notin Stores(stack') PROVE local'[v] = SeenVar(v)
    <3>1. \A x : BindOp(v, x) \notin Stores(stack)
      BY <2>4, <2>6, OpsDiffer
    <3> QED BY <2>1, <2>5, <3>1 DEF Sees
  <2>7. ASSUME NEW c \in Blocks, NEW i \in Slots, \A x : SlotOp(c, i, x) \notin Stores(stack')
        PROVE  heap'[c].kids[i] = SeenSlot(c, i)
    <3>1. CASE c = d /\ i = j
      BY <2>3, <2>4, <2>5, <3>1 DEF Sees
    <3>2. CASE ~(c = d /\ i = j)
      <4>1. \A x : SlotOp(c, i, x) \notin Stores(stack)
        BY <2>4, <2>7, <3>2, OpsDiffer
      <4> QED BY <2>3, <2>5, <3>2, <4>1 DEF Sees
    <3> QED BY <3>1, <3>2
  <2> QED BY <2>3, <2>4, <2>6, <2>7, ViewKept
<1> QED BY <1>5, <1>6, <1>7, <1>8, <1>9, <1>10, <1>11, <1>12 DEF Runtime

\* A free block holds nothing and nothing is about to be stored in it.
Vacant == \A b \in Blocks : ~Used(heap, b) => \A i \in Slots : SeenSlot(b, i) = None

LEMMA VacantNow == IInv => Vacant
<1> SUFFICES ASSUME IInv, NEW b \in Blocks, ~Used(heap, b), NEW i \in Slots PROVE SeenSlot(b, i) = None
  BY DEF Vacant
<1> PICK q : q = Up(stack)
  OBVIOUS
<1>1. K(heap, local, q, collecting, suppressed) /\ Owing(heap, local, q, collecting, suppressed, None)
  BY Frame DEF K
<1>2. heap[b] = Free /\ \A p \in Doing(q, "slot") : q[p].b # b
  BY <1>1, FreeUnowned
<1>3. Pending("slot", b, i) = {}
  <2>1. ~Storing(q, b, i)
    BY <1>2 DEF Storing
  <2> QED BY <2>1, PendingIs
<1>4. SeenSlot(b, i) = heap[b].kids[i]
  BY <1>3 DEF SeenSlot
<1> QED BY <1>2, <1>4 DEF Free

LEMMA VacantNext == IInv' => Vacant'
  BY VacantNow, PTL

\* The end of a deep release: the program cannot reach the block.
LEMMA FreeBlockForgets ==
    ASSUME IInv, IInv', FreeBlock
    PROVE  Store!Forget
<1>1. stack # <<>> /\ Top.do = "walk" /\ stack' = Rest /\ local' = local
  BY DEF FreeBlock, Running
<1> PICK b : b = Top.b
  OBVIOUS
<1>2. b \in Blocks /\ Stores(stack') = Stores(stack)
  BY <1>1, StoresRest, TopForm
<1>3. Used(heap, b)
  <2> PICK q : q = Up(Rest)
    OBVIOUS
  <2>1. K(heap, local, Push(q, Top), collecting, suppressed) /\ q \in Seq(OpRec) /\ Top \in OpRec
    BY <1>1, TopIs DEF Is
  <2>2. Len(q) + 1 \in Doing(Push(q, Top), "walk") /\ Push(q, Top)[Len(q) + 1] = Top
    BY <1>1, <2>1, PushIs, PushMeans
  <2> QED BY <2>1, <2>2 DEF K, Owing, Shape, WalksOK
<1>4. heap \in [Blocks -> Header]
  BY Frame, StepTypes
<1> PICK g : g = Freed(heap, b)
  OBVIOUS
<1>5. /\ heap' = g /\ g[b] = Free /\ Free.layout = "free"
      /\ \A c \in Blocks : c # b => g[c] = heap[c]
  BY <1>2, <1>4, FreedIs DEF FreeBlock, Freed
<1>6. b \notin Store!Reachable
  <2>1. b \in BeingFreed
    <3>1. 1 \in DOMAIN stack
      <4> HIDE DEF OpRec
      <4> QED BY <1>1 DEF IInv
    <3> QED BY <1>1, <3>1 DEF BeingFreed, Top
  <2> QED BY <2>1, InvReachable DEF ReachableLive
<1>7. Sees /\ Sees' /\ Vacant'
  BY SeesNow, SeesNext, VacantNext
<1>8. ASSUME NEW v \in Locals PROVE SeenVar(v)' = SeenVar(v)
  <2>1. CASE \E x : BindOp(v, x) \in Stores(stack)
    BY <1>2, <1>7, <2>1 DEF Sees
  <2>2. CASE \A x : BindOp(v, x) \notin Stores(stack)
    BY <1>1, <1>2, <1>7, <2>2 DEF Sees
  <2> QED BY <2>1, <2>2
<1>9. ASSUME NEW c \in Blocks, NEW i \in Slots, c # b PROVE SeenSlot(c, i)' = SeenSlot(c, i)
  <2>1. CASE \E x : SlotOp(c, i, x) \in Stores(stack)
    BY <1>2, <1>7, <2>1 DEF Sees
  <2>2. CASE \A x : SlotOp(c, i, x) \notin Stores(stack)
    BY <1>2, <1>5, <1>7, <1>9, <2>2 DEF Sees
  <2> QED BY <2>1, <2>2
<1>10. \A i \in Slots : SeenSlot(b, i)' = None
  <2>1. ~Used(heap', b)
    BY <1>5 DEF Used
  <2> QED BY <1>2, <1>7, <2>1 DEF Vacant
<1>11. VarView' = VarView
  BY <1>8 DEF VarView
<1>12. SlotView' = [SlotView EXCEPT ![b] = [i \in Slots |-> None]]
  BY <1>2, <1>9, <1>10 DEF SlotView
<1>13. b \in Allocated /\ Allocated' = Allocated \ {b} /\ Objects' = Objects \ {b}
  BY <1>2, <1>3, <1>5 DEF Allocated, Objects, Used
<1>14. Store!Empty = [i \in Slots |-> None]
  BY DEF Store!Empty, Store!Slots, Store!None, Slots, None
<1> QED BY <1>6, <1>11, <1>12, <1>13, <1>14 DEF Store!Forget, VarView, SlotView, Objects

-----------------------------------------------------------------------------
(* The program's view of its statements. *)

\* Between statements the program sees what there is.
LEMMA ViewAtRest ==
    ASSUME IInv, Idle
    PROVE  /\ Stores(stack) = {}
           /\ \A v \in Locals : SeenVar(v) = local[v]
           /\ \A c \in Blocks, i \in Slots : SeenSlot(c, i) = heap[c].kids[i]
<1>1. Stores(stack) = {}
  BY StoresOf DEF Idle
<1> QED BY <1>1, SeesNow DEF Sees

\* What a statement has begun to store is what the program sees next.
LEMMA BindSeen ==
    ASSUME IInv', NEW v \in Locals, NEW x, Stores(stack') = {BindOp(v, x)}
    PROVE  /\ \A w \in Locals : SeenVar(w)' = IF w = v THEN x ELSE local'[w]
           /\ \A c \in Blocks, i \in Slots : SeenSlot(c, i)' = heap'[c].kids[i]
<1>1. Sees'
  BY SeesNext
<1>2. ASSUME NEW w \in Locals PROVE SeenVar(w)' = IF w = v THEN x ELSE local'[w]
  <2>1. CASE w = v
    BY <1>1, <2>1 DEF Sees
  <2>2. CASE w # v
    <3>1. \A y : BindOp(w, y) \notin Stores(stack')
      BY <2>2, OpsDiffer
    <3> QED BY <1>1, <2>2, <3>1 DEF Sees
  <2> QED BY <2>1, <2>2
<1>3. ASSUME NEW c \in Blocks, NEW i \in Slots PROVE SeenSlot(c, i)' = heap'[c].kids[i]
  <2>1. \A y : SlotOp(c, i, y) \notin Stores(stack')
    BY OpsDiffer
  <2> QED BY <1>1, <2>1 DEF Sees
<1> QED BY <1>2, <1>3

\* The same of a store in a slot.
LEMMA SlotSeen ==
    ASSUME IInv', NEW c \in Blocks, NEW i \in Slots, NEW x, Stores(stack') = {SlotOp(c, i, x)}
    PROVE  /\ \A w \in Locals : SeenVar(w)' = local'[w]
           /\ SeenSlot(c, i)' = x
           /\ \A d \in Blocks, j \in Slots : d # c \/ j # i => SeenSlot(d, j)' = heap'[d].kids[j]
<1>1. Sees'
  BY SeesNext
<1>2. ASSUME NEW w \in Locals PROVE SeenVar(w)' = local'[w]
  <2>1. \A y : BindOp(w, y) \notin Stores(stack')
    BY OpsDiffer
  <2> QED BY <1>1, <2>1 DEF Sees
<1>3. SeenSlot(c, i)' = x
  BY <1>1 DEF Sees
<1>4. ASSUME NEW d \in Blocks, NEW j \in Slots, d # c \/ j # i PROVE SeenSlot(d, j)' = heap'[d].kids[j]
  <2>1. \A y : SlotOp(d, j, y) \notin Stores(stack')
    BY <1>4, OpsDiffer
  <2> QED BY <1>1, <2>1 DEF Sees
<1> QED BY <1>2, <1>3, <1>4

\* The calls a store to a variable begins, and those to a slot.
LEMMA StoreLocalView ==
    ASSUME IInv, Idle, NEW g, NEW v \in Locals, NEW x \in Blocks \cup {None},
           NEW temporary \in Blocks \cup {None}, StoreLocal(v, x, g, temporary)
    PROVE  Stores(stack') = {BindOp(v, x)} /\ heap' = g /\ local' = local
<1> PICK o : o = BindOp(v, x)
  OBVIOUS
<1>1. stack' = (Releasing(local[v]) \o <<o>>) \o Releasing(temporary) /\ heap' = g /\ local' = local
  BY DEF StoreLocal
<1>2. <<o>> \in Seq(OpRec) /\ Stores(<<o>>) = {o}
  <2>1. o \in OpRec /\ o.do = "bind"
    BY OpsTyped
  <2> QED BY <2>1, StoresOf, Stacked
<1>3. Releasing(local[v]) \in Seq(OpRec) /\ Stores(Releasing(local[v])) = {}
  <2>1. local[v] \in Blocks \cup {None}
    BY Frame, StepTypes
  <2> QED BY <2>1, ReleaseStores
<1>4. Releasing(temporary) \in Seq(OpRec) /\ Stores(Releasing(temporary)) = {}
  BY ReleaseStores
<1>5. Releasing(local[v]) \o <<o>> \in Seq(OpRec) /\ Stores(Releasing(local[v]) \o <<o>>) = {o}
  BY <1>2, <1>3, StoresJoin
<1> QED BY <1>1, <1>4, <1>5, StoresJoin

LEMMA StoreSlotView ==
    ASSUME IInv, Idle, NEW g, NEW c \in Blocks, NEW i \in Slots, NEW x \in Blocks \cup {None},
           NEW temporary \in Blocks \cup {None}, g[c].kids[i] \in Blocks \cup {None},
           StoreSlot(c, i, x, g, temporary)
    PROVE  Stores(stack') = {SlotOp(c, i, x)} /\ heap' = g
<1> PICK old : old = g[c].kids[i]
  OBVIOUS
<1> PICK a : a = IF old # None /\ g[c].layout \in {"array", "hash"} THEN <<DecrefAnyOp(old)>> ELSE Releasing(old)
  OBVIOUS
<1> PICK o : o = SlotOp(c, i, x)
  OBVIOUS
<1>1. stack' = ((a \o <<o>>) \o Releasing(temporary)) \o stack /\ heap' = g
  BY DEF StoreSlot
<1>2. a \in Seq(OpRec) /\ Stores(a) = {}
  <2>1. CASE old # None /\ g[c].layout \in {"array", "hash"}
    <3>1. DecrefAnyOp(old) \in OpRec /\ DecrefAnyOp(old).do = "any"
      BY <2>1, OpsTyped
    <3> QED BY <2>1, <3>1, StoresOf, Stacked
  <2>2. CASE ~(old # None /\ g[c].layout \in {"array", "hash"})
    BY <2>2, ReleaseStores
  <2> QED BY <2>1, <2>2
<1>3. <<o>> \in Seq(OpRec) /\ Stores(<<o>>) = {o}
  <2>1. o \in OpRec /\ o.do = "slot"
    BY OpsTyped
  <2> QED BY <2>1, StoresOf, Stacked
<1>4. a \o <<o>> \in Seq(OpRec) /\ Stores(a \o <<o>>) = {o}
  BY <1>2, <1>3, StoresJoin
<1>5. (a \o <<o>>) \o Releasing(temporary) \in Seq(OpRec) /\ Stores((a \o <<o>>) \o Releasing(temporary)) = {o}
  BY <1>4, ReleaseStores, StoresJoin
<1>6. stack \in Seq(OpRec) /\ Stores(stack) = {}
  BY ViewAtRest DEF IInv
<1> QED BY <1>1, <1>5, <1>6, StoresJoin

\* What the variables hold and what that holds is in every set that keeps up
\* with the program's view.
LEMMA KeptUp ==
    ASSUME IInv, Idle, NEW S, Store!KeepsUp(S)
    PROVE  /\ \A v \in Locals : local[v] # None => local[v] \in S
           /\ \A b \in S \cap Blocks, i \in Slots : heap[b].kids[i] # None => heap[b].kids[i] \in S
<1>1. /\ \A v \in Locals : VarView[v] = local[v]
      /\ \A c \in Blocks, i \in Slots : SlotView[c][i] = heap[c].kids[i]
  BY ViewAtRest DEF VarView, SlotView
<1>2. /\ {VarView[v] : v \in Locals} \ {None} \subseteq S
      /\ \A b \in S, i \in Slots : SlotView[b][i] # None => SlotView[b][i] \in S
  BY DEF Store!KeepsUp, Store!Held, Store!Slots, Store!None, Slots, None, VarView, SlotView
<1> QED BY <1>1, <1>2

\* The names AbstractStore has for what RefCountGC has.
LEMMA SameNames ==
    /\ Store!Blocks = Blocks /\ Store!Slots = Slots /\ Store!None = None
    /\ Store!Readable = Store!Reachable \cup {None} /\ Store!Reachable \subseteq Blocks
    /\ None \notin Blocks
  BY DEF Store!Blocks, Blocks, Store!Slots, Slots, Store!None, None, Store!Readable, Store!Reachable

\* What a statement reads is what the program can reach.
LEMMA ReadReadable ==
    ASSUME IInv, Idle, NEW W \in SUBSET Locals, NEW x \in Read(W)
    PROVE  x \in Store!Readable /\ x \in Blocks \cup {None}
<1>1. x \in Blocks \cup {None}
  BY Frame, ReadShown
<1>2. ASSUME NEW S, Store!KeepsUp(S), x # None PROVE x \in S
  <2>1. CASE \E w \in W : x = local[w]
    BY <1>2, <2>1, KeptUp
  <2>2. CASE \E w \in W, i \in Slots : local[w] # None /\ x = heap[local[w]].kids[i]
    <3>1. PICK w \in W, i \in Slots : local[w] # None /\ x = heap[local[w]].kids[i]
      BY <2>2
    <3>2. local[w] \in S /\ local[w] \in Blocks
      BY <1>2, <3>1, KeptUp, Frame, StepTypes
    <3> QED BY <1>2, <3>1, <3>2, KeptUp
  <2> QED BY <1>2, <2>1, <2>2 DEF Read
<1>3. x # None => x \in Store!Reachable
  BY <1>1, <1>2, SameNames DEF Store!Reachable
<1> QED BY <1>1, <1>3, SameNames

\* An array with one reference has one holder.
LEMMA Sole ==
    ASSUME IInv, Idle, NEW v \in Locals, NEW c, c = local[v], c # None, ~(heap[c].refs > 1),
           heap[c].layout # "scalars"
    PROVE  /\ \A w \in Locals \ {v} : local[w] # c
           /\ \A d \in Blocks, i \in Slots : heap[d].kids[i] # c
<1> PICK q : q = Up(stack)
  OBVIOUS
<1>1. q \in Seq(OpRec) /\ Len(q) = 0 /\ K(heap, local, q, collecting, suppressed) /\ collecting = FALSE
  BY AtIdle
<1>2. /\ c \in Blocks /\ Safe(heap, collecting, c) /\ Used(heap, c)
      /\ \A d \in Blocks, i \in Slots : heap[d].kids[i] # None => Used(heap, d)
      /\ \A w : ~Binding(q, w)
      /\ \A d, i : ~Storing(q, d, i) /\ ~Passed(q, d, i)
  BY <1>1, Rested, Nothing, StepTypes DEF Safe
<1>3. heap[c].refs = Count(heap, local, q, collecting, c) /\ heap[c].refs \in Nat
  <2>1. CountsOK(heap, local, q, collecting, None) /\ heap \in [Blocks -> Header]
    BY <1>1, StepTypes DEF K, Owing
  <2>2. Due(heap, local, q, collecting, None, c) = Count(heap, local, q, collecting, c) + 0
    BY DEF Due
  <2>3. Count(heap, local, q, collecting, c) \in Nat
    BY <1>1, SomeOwner
  <2> QED BY <1>2, <2>1, <2>2, <2>3 DEF CountsOK, Header
<1> PICK V : V = VarsOf(local, q, c)
  OBVIOUS
<1> PICK E : E = SlotsOf(heap, q, collecting, c)
  OBVIOUS
<1>4. /\ IsFiniteSet(V) /\ Cardinality(V) \in Nat /\ IsFiniteSet(E) /\ Cardinality(E) \in Nat
      /\ Cardinality(V) + Cardinality(E) <= heap[c].refs
  <2> PICK o : o = On(heap, q, collecting, c)
    OBVIOUS
  <2>1. /\ IsFiniteSet(V) /\ Vn(local, q, c) \in Nat
        /\ IsFiniteSet(E) /\ Sn(heap, q, collecting, c) \in Nat /\ o \in Nat
        /\ Count(heap, local, q, collecting, c) = Vn(local, q, c) + Sn(heap, q, collecting, c) + o
    <3>1. q \in Seq(OpRec)
      BY <1>1
    <3> QED BY ONLY <3>1, V = VarsOf(local, q, c), E = SlotsOf(heap, q, collecting, c),
                    o = On(heap, q, collecting, c), Finite
  <2>2. Vn(local, q, c) = Cardinality(V) /\ Sn(heap, q, collecting, c) = Cardinality(E)
    BY DEF Vn, Sn
  <2>3. heap[c].refs = Cardinality(V) + Cardinality(E) + o
    BY <1>3, <2>1, <2>2
  <2> QED BY <2>1, <2>2, <2>3
<1>5. v \in V /\ Cardinality(V) > 0
  <2>1. v \in V
    BY <1>2 DEF VarsOf
  <2> QED BY <1>4, <2>1, SetsMove
<1>6. ASSUME NEW w \in Locals \ {v}, local[w] = c PROVE FALSE
  <2>1. w \in V
    BY <1>2, <1>6 DEF VarsOf
  <2> PICK U : U = V \ {v}
    OBVIOUS
  <2>2. IsFiniteSet(U) /\ w \in U /\ v \notin U /\ V \ {v} = U \ {v}
    BY <1>4, <1>6, <2>1, FS_Subset
  <2>3. Cardinality(U) > 0 /\ Cardinality(U) \in Nat
    BY <2>2, SetsMove
  <2>4. Cardinality(V) = Cardinality(U) + 1
    BY <1>4, <1>5, <2>2, SetsMove
  <2> QED BY <1>3, <1>4, <2>3, <2>4
<1>7. ASSUME NEW d \in Blocks, NEW i \in Slots, heap[d].kids[i] = c PROVE FALSE
  <2>1. Edge(heap, q, collecting, d, i, c)
    BY <1>1, <1>2, <1>7 DEF Edge, Owns, Muted, White
  <2>2. <<d, i>> \in E
    BY <2>1 DEF SlotsOf
  <2>3. Cardinality(E) > 0
    BY <1>4, <2>2, SetsMove
  <2> QED BY <1>3, <1>4, <1>5, <2>3
<1> QED BY <1>6, <1>7

\* A statement's target is an object the program can reach, or an array of
\* which $v is the sole holder.
LEMMA TargetWritable ==
    ASSUME IInv, Idle, NEW v \in Locals, NEW i \in Slots, NEW c \in Targets(v), MayChange(c, i),
           heap[c].layout # "scalars"
    PROVE  c \in Store!Writable(v) /\ c \in Blocks
<1>1. c \in Read({v}) /\ c # None
  BY DEF Targets
<1>2. c \in Store!Reachable /\ c \in Blocks
  BY <1>1, ReadReadable, SameNames
<1>3. CASE heap[c].layout \in {"object", "dtor"}
  <2>1. c \in Objects
    BY <1>2, <1>3 DEF Objects, Allocated
  <2> QED BY <1>2, <2>1 DEF Store!Writable, Objects
<1>4. CASE heap[c].layout \notin {"object", "dtor"}
  <2>1. c = local[v] /\ heap[c].layout # "mixed"
    BY <1>4 DEF Targets
  <2>2. heap[c].layout \in {"array", "hash"}
    <3>1. heap[c].layout \in AllLayouts \cup {"free"} /\ Used(heap, c)
      <4> PICK q : q = Up(stack)
        OBVIOUS
      <4>1. q \in Seq(OpRec) /\ Len(q) = 0 /\ K(heap, local, q, collecting, suppressed) /\ collecting = FALSE
        BY AtIdle
      <4> QED BY <1>1, <1>2, <2>1, <4>1, Rested, StepTypes DEF Safe, Header
    <3> QED BY <1>4, <2>1, <3>1 DEF AllLayouts, Used
  <2>3. ~(heap[c].refs > 1)
    BY <2>2 DEF MayChange, Shared
  <2>4. /\ \A w \in Locals \ {v} : local[w] # c
        /\ \A d \in Blocks, j \in Slots : heap[d].kids[j] # c
    BY <1>1, <2>1, <2>2, <2>3, Sole
  <2>5. VarView[v] = c /\ \A w \in Locals \ {v} : VarView[w] # c
    BY <2>1, <2>4, ViewAtRest DEF VarView
  <2>6. \A d \in Store!Reachable, j \in Store!Slots : SlotView[d][j] # c
    BY <2>4, ViewAtRest, SameNames DEF SlotView
  <2>7. Store!SoleHolder(v)
    BY <2>5, <2>6 DEF Store!SoleHolder, VarView, SlotView
  <2>8. c \in {VarView[v]} \ {Store!None}
    BY <1>1, <2>5, SameNames
  <2> QED BY <1>2, <2>7, <2>8 DEF Store!Writable, VarView
<1> QED BY <1>3, <1>4

\* A value comes into being: what Store!Make asks, and a layout for the block.
Makes(b, k) ==
  /\ b \in Blocks /\ ~Used(heap, b) /\ k \in AllLayouts
  /\ heap'[b].layout = k
  /\ \A c \in Blocks : c # b => heap'[c].layout = heap[c].layout

LEMMA MakesIs ==
    ASSUME NEW b, NEW k, Makes(b, k)
    PROVE  Store!Make(b) /\ (k \notin {"object", "dtor"} => Objects' = Objects)
<1>1. b \in Blocks \ Allocated /\ Allocated' = Allocated \cup {b}
  BY DEF Makes, Used, Allocated, AllLayouts
<1>2. /\ k \in {"object", "dtor"} => Objects' = Objects \cup {b}
      /\ k \notin {"object", "dtor"} => Objects' = Objects
  BY <1>1 DEF Makes, Objects, Allocated, Used
<1> QED BY <1>1, <1>2, SameNames DEF Store!Make, Objects

\* Each statement is one of the program of AbstractStore.
LEMMA AssignView ==
    ASSUME Idioms = {}, IInv, IInv', NEW v \in Locals, Assign(v)
    PROVE  Store!SetVar(v)
<1>1. PICK x \in Read(Locals \ {v}) : StoreLocal(v, x, heap, None)
  BY DEF Assign
<1>2. Idle /\ x \in Store!Readable /\ x \in Blocks \cup {None}
  BY ReadReadable DEF Assign
<1>3. Stores(stack') = {BindOp(v, x)} /\ heap' = heap /\ local' = local
  BY <1>1, <1>2, StoreLocalView
<1>4. VarView' = [VarView EXCEPT ![v] = x]
  BY <1>2, <1>3, BindSeen, ViewAtRest DEF VarView
<1>5. SlotView' = SlotView
  BY <1>2, <1>3, BindSeen, ViewAtRest DEF SlotView
<1>6. Allocated' = Allocated /\ Objects' = Objects
  BY <1>3, LayoutsView
<1> QED BY <1>2, <1>4, <1>5, <1>6 DEF Store!SetVar, VarView, SlotView, Objects

\* The heap with a value made.
LEMMA NewHeap ==
    ASSUME IInv, NEW b \in Blocks, Unused(b), NEW k \in Layouts \ {"mixed"},
           NEW g, g = [heap EXCEPT ![b] = New(k)]
    PROVE  /\ g \in [Blocks -> Header] /\ g[b].layout = k /\ k \in AllLayouts /\ ~Used(heap, b)
           /\ \A i \in Slots : g[b].kids[i] = None
           /\ \A c \in Blocks : c # b => g[c] = heap[c]
<1>1. heap \in [Blocks -> Header]
  BY Frame, StepTypes
<1>2. /\ k \in AllLayouts /\ New(k) \in Header /\ New(k).layout = k
      /\ \A i \in Slots : New(k).kids[i] = None
  BY GraphAssumption, NewIs
<1> QED BY <1>1, <1>2 DEF Used, Unused

LEMMA AssignNewView ==
    ASSUME IInv, IInv', NEW v \in Locals, AssignNew(v)
    PROVE  Store!NewVar(v)
<1>1. PICK b \in Blocks, k \in Layouts \ {"mixed"} :
        Unused(b) /\ StoreLocal(v, b, [heap EXCEPT ![b] = New(k)], b)
  BY DEF AssignNew
<1> PICK g : g = [heap EXCEPT ![b] = New(k)]
  OBVIOUS
<1>2. /\ g[b].layout = k /\ k \in AllLayouts /\ ~Used(heap, b)
      /\ \A i \in Slots : g[b].kids[i] = None
      /\ \A c \in Blocks : c # b => g[c] = heap[c]
  BY <1>1, NewHeap
<1>3. Idle
  BY DEF AssignNew
<1>4. Stores(stack') = {BindOp(v, b)} /\ heap' = g /\ local' = local
  BY <1>1, <1>3, StoreLocalView
<1>5. Makes(b, k)
  BY <1>2, <1>4 DEF Makes
<1>6. VarView' = [VarView EXCEPT ![v] = b]
  <2>1. \A w \in Locals : SeenVar(w)' = IF w = v THEN b ELSE local'[w]
    BY ONLY IInv', v \in Locals, <1>4, BindSeen
  <2>2. \A w \in Locals : SeenVar(w) = local[w]
    BY <1>3, ViewAtRest
  <2>3. \A w \in Locals : SeenVar(w)' = IF w = v THEN b ELSE SeenVar(w)
    BY ONLY <1>4, <2>1, <2>2
  <2> QED BY ONLY <2>3 DEF VarView
<1>7. SlotView' = SlotView
  <2>1. \A i \in Slots : SeenSlot(b, i) = None
    BY <1>2, VacantNow DEF Vacant
  <2>2. ASSUME NEW c \in Blocks, NEW i \in Slots PROVE SeenSlot(c, i)' = SeenSlot(c, i)
    <3>1. SeenSlot(c, i)' = g[c].kids[i]
      BY <1>4, BindSeen
    <3>2. CASE c = b
      BY <1>2, <2>1, <3>1, <3>2
    <3>3. CASE c # b
      BY <1>2, <1>3, <3>1, <3>3, ViewAtRest
    <3> QED BY <3>2, <3>3
  <2> QED BY <2>2 DEF SlotView
<1> QED BY <1>5, <1>6, <1>7, MakesIs, SameNames DEF Store!NewVar, VarView, SlotView

\* Where a statement stores, if the program can see the store at all.
LEMMA WriteView ==
    ASSUME IInv, IInv', NEW v \in Locals, NEW i \in Slots, Write(v, i)
    PROVE  UNCHANGED View \/ \E c \in Store!Writable(v) : Store!SetSlot(c, i)
<1>1. PICK c \in Targets(v), x \in Read(Locals) :
        MayStore(c, x) /\ MayChange(c, i) /\ StoreSlot(c, i, x, Retained(heap, x), None)
  BY DEF Write
<1>2. Idle /\ local' = local
  BY DEF Write
<1>3. /\ heap \in [Blocks -> Header] /\ c \in Blocks
      /\ x \in Store!Readable /\ x \in Blocks \cup {None}
      /\ \A b \in Blocks, j \in Slots : heap[b].kids[j] \in Blocks \cup {None}
  BY <1>2, Frame, StepTypes, TargetShown, ReadReadable
<1>4. Like(Retained(heap, x), heap)
  BY <1>3, RetainedLayouts
<1>5. Stores(stack') = {SlotOp(c, i, x)} /\ Like(heap', heap)
  <2> PICK g : g = Retained(heap, x)
    OBVIOUS
  <2>1. g[c].kids[i] \in Blocks \cup {None}
    BY <1>3, <1>4 DEF Like
  <2> QED BY <1>1, <1>2, <1>3, <1>4, <2>1, StoreSlotView
<1>6. /\ \A w \in Locals : SeenVar(w)' = SeenVar(w)
      /\ SeenSlot(c, i)' = x
      /\ \A d \in Blocks, j \in Slots : d # c \/ j # i => SeenSlot(d, j)' = SeenSlot(d, j)
  <2>1. /\ \A w \in Locals : SeenVar(w)' = local'[w]
        /\ SeenSlot(c, i)' = x
        /\ \A d \in Blocks, j \in Slots : d # c \/ j # i => SeenSlot(d, j)' = heap'[d].kids[j]
    BY <1>3, <1>5, SlotSeen
  <2>2. /\ \A w \in Locals : SeenVar(w) = local[w]
        /\ \A d \in Blocks, j \in Slots : SeenSlot(d, j) = heap[d].kids[j]
    BY <1>2, ViewAtRest
  <2>3. \A d \in Blocks : heap'[d].kids = heap[d].kids
    BY <1>5 DEF Like
  <2> QED BY <1>2, <2>1, <2>2, <2>3
<1>7. VarView' = VarView
  BY <1>6 DEF VarView
<1>8. Allocated' = Allocated /\ Objects' = Objects
  BY <1>5, LayoutsView DEF Like
<1>9. CASE heap[c].layout = "scalars"
  <2>1. x = None
    BY <1>1, <1>9, GraphAssumption DEF MayStore, MayHold
  <2>2. SeenSlot(c, i) = None
    <3>1. HeadersOK(heap)
      BY Frame DEF K, Owing, Shape
    <3> QED BY <1>2, <1>3, <1>9, <3>1, ViewAtRest DEF HeadersOK
  <2>3. SlotView' = SlotView
    BY <1>6, <2>1, <2>2 DEF SlotView
  <2> QED BY <1>7, <1>8, <2>3 DEF View
<1>10. CASE heap[c].layout # "scalars"
  <2>1. c \in Store!Writable(v)
    BY <1>1, <1>2, <1>10, TargetWritable
  <2>2. SlotView' = [SlotView EXCEPT ![c][i] = x]
    BY <1>3, <1>6 DEF SlotView
  <2>3. Store!SetSlot(c, i)
    BY <1>3, <1>7, <1>8, <2>2 DEF Store!SetSlot, VarView, SlotView, Objects
  <2> QED BY <2>1, <2>3
<1> QED BY <1>9, <1>10

LEMMA WriteSharedView ==
    ASSUME IInv, IInv', NEW v \in Locals, NEW i \in Slots, WriteShared(v, i)
    PROVE  Store!CopyAndSet(v, i)
<1> PICK c : c = local[v]
  OBVIOUS
<1>1. PICK x \in Read(Locals), d \in Blocks :
        /\ MayStore(c, x) /\ Unused(d)
        /\ StoreSlot(d, i, x, Retained(Cloned(c, d), x), None)
        /\ local' = [local EXCEPT ![v] = d]
  BY DEF WriteShared
<1>2. Idle /\ c # None /\ Shared(c)
  BY DEF WriteShared
<1>3. /\ heap \in [Blocks -> Header] /\ c \in Blocks /\ local \in [Locals -> Blocks \cup {None}]
      /\ x \in Store!Readable /\ x \in Blocks \cup {None}
      /\ \A b \in Blocks, j \in Slots : heap[b].kids[j] \in Blocks \cup {None}
  BY <1>2, Frame, StepTypes, ReadReadable
<1>4. c # d /\ heap[c].refs > 1 /\ heap[c].layout \in {"array", "hash"} /\ ~Used(heap, d)
  BY <1>1, <1>2 DEF Shared, Unused, Used
<1> PICK h : h = Copied(heap, c, d)
  OBVIOUS
<1>5. /\ h \in [Blocks -> Header] /\ h[d].layout = heap[c].layout /\ h[d].kids = heap[c].kids
      /\ \A b \in Blocks : b # d => h[b].layout = heap[b].layout /\ h[b].kids = heap[b].kids
  BY ONLY <1>3, <1>4, d \in Blocks, h = Copied(heap, c, d), CopiedIs
<1>6. Stores(stack') = {SlotOp(d, i, x)} /\ Like(heap', h)
  <2> PICK g : g = Retained(h, x)
    OBVIOUS
  <2>1. Like(g, h)
    BY <1>3, <1>5, RetainedLayouts
  <2>2. StoreSlot(d, i, x, g, None)
    <3>1. Cloned(c, d) = h
      BY DEF Cloned, Copied, Kn
    <3> QED BY <1>1, <3>1
  <2>3. g[d].kids[i] \in Blocks \cup {None}
    BY <1>3, <1>5, <2>1 DEF Like
  <2>4. None \in Blocks \cup {None} /\ x \in Blocks \cup {None}
    BY <1>3
  <2>5. Stores(stack') = {SlotOp(d, i, x)} /\ heap' = g
    BY ONLY IInv, d \in Blocks, i \in Slots, <1>2, <2>2, <2>3, <2>4, StoreSlotView
  <2> QED BY ONLY <2>1, <2>5
<1>7. Makes(d, heap[c].layout)
  BY <1>4, <1>5, <1>6 DEF Makes, Like, AllLayouts
<1>8. VarView' = [VarView EXCEPT ![v] = d]
  BY <1>1, <1>2, <1>3, <1>6, SlotSeen, ViewAtRest DEF VarView
<1>9. /\ SeenSlot(d, i)' = x
      /\ \A j \in Slots : j # i => SeenSlot(d, j)' = SeenSlot(c, j)
      /\ \A b \in Blocks, j \in Slots : b # d => SeenSlot(b, j)' = SeenSlot(b, j)
  <2>1. /\ SeenSlot(d, i)' = x
        /\ \A b \in Blocks, j \in Slots : b # d \/ j # i => SeenSlot(b, j)' = heap'[b].kids[j]
    BY ONLY IInv', d \in Blocks, i \in Slots, <1>6, SlotSeen
  <2>2. \A b \in Blocks, j \in Slots : SeenSlot(b, j) = heap[b].kids[j]
    BY <1>2, ViewAtRest
  <2>3. heap'[d].kids = heap[c].kids /\ \A b \in Blocks : b # d => heap'[b].kids = heap[b].kids
    BY <1>5, <1>6 DEF Like
  <2> QED BY <1>3, <2>1, <2>2, <2>3
<1>10. SlotView' = [SlotView EXCEPT ![d] = [SlotView[c] EXCEPT ![i] = x]]
  <2>1. c \in Blocks /\ d \in Blocks /\ i \in Slots
    BY <1>3
  <2>2. SlotView[c] = [j \in Slots |-> SeenSlot(c, j)]
    BY ONLY <2>1 DEF SlotView
  <2>3. [SlotView[c] EXCEPT ![i] = x] = [j \in Slots |-> SeenSlot(d, j)']
    BY ONLY <1>9, <2>1, <2>2
  <2>4. \A b \in Blocks : b # d => [j \in Slots |-> SeenSlot(b, j)'] = [j \in Slots |-> SeenSlot(b, j)]
    BY ONLY <1>9
  <2>5. SlotView' = [b \in Blocks |-> IF b = d THEN [SlotView[c] EXCEPT ![i] = x]
                                    ELSE [j \in Slots |-> SeenSlot(b, j)]]
    BY ONLY <2>3, <2>4 DEF SlotView
  <2> QED BY ONLY <2>1, <2>5 DEF SlotView
<1>11. VarView[v] = c
  BY <1>2, ViewAtRest DEF VarView
<1>12. c \in Allocated \ Objects
  BY <1>3, <1>4 DEF Allocated, Objects
<1>13. Store!Make(d) /\ Objects' = Objects
  BY <1>4, <1>7, MakesIs
<1>14. SlotView' = [SlotView EXCEPT ![d] = [SlotView[VarView[v]] EXCEPT ![i] = x]]
  BY <1>10, <1>11
<1>15. VarView[v] \in Allocated \ Objects
  BY <1>11, <1>12
<1> QED BY <1>3, <1>8, <1>13, <1>14, <1>15, SameNames DEF Store!CopyAndSet, VarView, SlotView, Objects

\* A value made and stored: of layout k, with y in its first slot and nothing in
\* the others.
LEMMA MadeView ==
    ASSUME IInv, IInv', Idle, local' = local, NEW c \in Blocks, Used(heap, c), NEW i \in Slots,
           NEW b \in Blocks, NEW k, Makes(b, k), NEW y \in Store!Readable,
           Stores(stack') = {SlotOp(c, i, b)},
           \A j \in Slots : heap'[b].kids[j] = IF j = 1 THEN y ELSE None,
           \A d \in Blocks : d # b => heap'[d].kids = heap[d].kids
    PROVE  Store!NewInSlot(c, i)
<1>1. b # c /\ 1 \in Slots
  BY GraphAssumption DEF Makes, Slots
<1>2. /\ \A w \in Locals : SeenVar(w)' = SeenVar(w)
      /\ SeenSlot(c, i)' = b
      /\ \A d \in Blocks, j \in Slots : d # c \/ j # i => SeenSlot(d, j)' = heap'[d].kids[j]
  BY SlotSeen, ViewAtRest
<1>3. \A j \in Slots : SeenSlot(b, j) = None
  BY VacantNow DEF Vacant, Makes
<1>4. \A d \in Blocks, j \in Slots :
        SeenSlot(d, j)' = IF d = c /\ j = i THEN b ELSE IF d = b /\ j = 1 THEN y ELSE SeenSlot(d, j)
  BY <1>1, <1>2, <1>3, ViewAtRest
<1>5. VarView' = VarView
  BY <1>2 DEF VarView
<1>6. SlotView' = [SlotView EXCEPT ![c][i] = b, ![b][1] = y]
  <2> PICK s : s = SlotView
    OBVIOUS
  <2>1. SlotView' = [d \in Blocks |-> [j \in Slots |->
          IF d = c /\ j = i THEN b ELSE IF d = b /\ j = 1 THEN y ELSE SeenSlot(d, j)]]
    BY <1>4 DEF SlotView
  <2>2. s = [d \in Blocks |-> [j \in Slots |-> SeenSlot(d, j)]]
    BY DEF SlotView
  <2>3. [s EXCEPT ![c][i] = b, ![b][1] = y] = [d \in Blocks |-> [j \in Slots |->
          IF d = c /\ j = i THEN b ELSE IF d = b /\ j = 1 THEN y ELSE SeenSlot(d, j)]]
    BY <1>1, <2>2
  <2> QED BY <2>1, <2>3
<1> QED BY <1>5, <1>6, MakesIs, SameNames DEF Store!NewInSlot, VarView, SlotView

LEMMA WriteNewView ==
    ASSUME IInv, IInv', NEW v \in Locals, NEW i \in Slots, WriteNew(v, i)
    PROVE  \E c \in Store!Writable(v) : Store!NewInSlot(c, i)
<1>1. PICK c \in Targets(v) : MayChange(c, i) /\ StoreNew(c, i)
  BY DEF WriteNew
<1>2. Idle /\ local' = local
  BY DEF WriteNew
<1>3. PICK b \in Blocks, k \in Layouts \ {"mixed"} :
        /\ MayHold(c, k) /\ Unused(b)
        /\ StoreSlot(c, i, b, Retained([heap EXCEPT ![b] = New(k)], b), b)
  BY <1>1 DEF StoreNew
<1> PICK h : h = [heap EXCEPT ![b] = New(k)]
  OBVIOUS
<1>4. /\ h \in [Blocks -> Header] /\ h[b].layout = k /\ k \in AllLayouts /\ ~Used(heap, b)
      /\ \A j \in Slots : h[b].kids[j] = None
      /\ \A d \in Blocks : d # b => h[d] = heap[d]
  <2>1. Unused(b) /\ h = [heap EXCEPT ![b] = New(k)]
    BY <1>3
  <2>2. heap \in [Blocks -> Header]
    BY Frame, StepTypes
  <2> PICK z : z = New(k)
    OBVIOUS
  <2>3. k \in AllLayouts /\ z \in Header /\ z.layout = k /\ \A j \in Slots : z.kids[j] = None
    BY GraphAssumption, NewIs
  <2>4. h = [heap EXCEPT ![b] = z]
    BY <2>1
  <2> QED BY <2>1, <2>2, <2>3, <2>4 DEF Used, Unused
<1>5. c \in Blocks /\ heap[c].layout # "scalars" /\ Used(heap, c)
  <2>1. c \in Blocks
    BY Frame, TargetShown
  <2> QED BY <1>3, <2>1, GraphAssumption DEF MayHold, Used, AllLayouts
<1>6. Stores(stack') = {SlotOp(c, i, b)} /\ Like(heap', h)
  <2> PICK g : g = Retained(h, b)
    OBVIOUS
  <2>1. Like(g, h)
    BY <1>4, RetainedLayouts
  <2>2. g[c].kids[i] \in Blocks \cup {None}
    BY <1>4, <1>5, <2>1 DEF Like, Header
  <2>3. StoreSlot(c, i, b, g, b)
    BY <1>3
  <2> QED BY <1>2, <1>5, <2>1, <2>2, <2>3, StoreSlotView
<1>7. Makes(b, k)
  BY <1>4, <1>6 DEF Makes, Like
<1>8. None \in Store!Readable
  BY SameNames
<1>9. /\ \A j \in Slots : heap'[b].kids[j] = None
      /\ \A d \in Blocks : d # b => heap'[d].kids = heap[d].kids
  BY <1>4, <1>6 DEF Like
<1>10. Store!NewInSlot(c, i)
  BY <1>2, <1>5, <1>6, <1>7, <1>8, <1>9, MadeView
<1> QED BY <1>1, <1>2, <1>5, <1>10, TargetWritable

LEMMA WriteBoxedView ==
    ASSUME IInv, IInv', NEW v \in Locals, NEW i \in Slots, WriteBoxed(v, i)
    PROVE  \E c \in Store!Writable(v) : Store!NewInSlot(c, i)
<1>1. PICK c \in Targets(v), x \in Read(Locals) \ {None}, m \in Blocks :
        /\ MayHold(c, "mixed") /\ MayChange(c, i) /\ Unused(m)
        /\ StoreSlot(c, i, m,
             [Retained(heap, x) EXCEPT ![m] = [New("mixed") EXCEPT !.kids[1] = x]], None)
  BY DEF WriteBoxed
<1>2. Idle /\ local' = local
  BY DEF WriteBoxed
<1>3. /\ heap \in [Blocks -> Header] /\ c \in Blocks
      /\ x \in Store!Readable /\ x \in Blocks
  BY <1>2, Frame, StepTypes, TargetShown, ReadReadable
<1>4. heap[c].layout # "scalars" /\ Used(heap, c) /\ ~Used(heap, m)
  BY <1>1, <1>3, GraphAssumption DEF MayHold, Used, Unused, AllLayouts
<1> PICK h : h = Retained(heap, x)
  OBVIOUS
<1>5. h \in [Blocks -> Header] /\ Like(h, heap)
  BY <1>3, RetainedLayouts
<1> PICK g : g = Built(h, m, Box(x))
  OBVIOUS
<1>6. /\ g \in [Blocks -> Header] /\ g[m] = Box(x) /\ Box(x).layout = "mixed"
      /\ \A d \in Blocks : d # m => g[d] = h[d]
      /\ \A j \in Slots : Box(x).kids[j] = IF j = 1 THEN x ELSE None
  <2> PICK z : z = Box(x)
    OBVIOUS
  <2>1. /\ z \in Header /\ z.layout = "mixed"
        /\ \A j \in Slots : z.kids[j] = IF j = 1 THEN x ELSE None
    BY <1>3, BoxIs
  <2>2. /\ g \in [Blocks -> Header] /\ g[m] = z
        /\ \A d \in Blocks : d # m => g[d] = h[d]
    BY <1>5, <2>1, BuiltIs
  <2> QED BY <2>1, <2>2
<1>7. Stores(stack') = {SlotOp(c, i, m)} /\ heap' = g
  <2>1. g[c].kids[i] \in Blocks \cup {None}
    BY <1>3, <1>6 DEF Header
  <2>2. StoreSlot(c, i, m, g, None)
    BY <1>1 DEF Built, Box
  <2> QED BY <1>2, <1>3, <2>1, <2>2, StoreSlotView
<1>8. Makes(m, "mixed")
  BY <1>4, <1>5, <1>6, <1>7 DEF Makes, Like, AllLayouts
<1>9. /\ \A j \in Slots : heap'[m].kids[j] = IF j = 1 THEN x ELSE None
      /\ \A d \in Blocks : d # m => heap'[d].kids = heap[d].kids
  BY <1>5, <1>6, <1>7 DEF Like
<1>10. Store!NewInSlot(c, i)
  BY <1>2, <1>3, <1>4, <1>7, <1>8, <1>9, MadeView
<1> QED BY <1>1, <1>2, <1>4, <1>10, TargetWritable

LEMMA StoreInit == Init => Store!Init
<1> SUFFICES ASSUME Init PROVE Store!Init
  OBVIOUS
<1>1. IInv /\ Idle
  BY InvInit DEF Init, Idle
<1>2. /\ \A b \in Blocks : heap[b] = Free /\ Free.layout = "free"
      /\ \A i \in Slots : Free.kids[i] = None
      /\ \A v \in Locals : local[v] = None
  BY DEF Init, Free
<1>3. Allocated = {} /\ Objects = {}
  BY <1>2 DEF Allocated, Objects
<1>4. VarView = [v \in Locals |-> None] /\ SlotView = [c \in Blocks |-> [i \in Slots |-> None]]
  BY <1>1, <1>2, ViewAtRest DEF VarView, SlotView
<1>5. Store!Empty = [i \in Slots |-> None]
  BY SameNames DEF Store!Empty
<1> QED BY <1>3, <1>4, <1>5, SameNames DEF Store!Init, VarView, SlotView, Objects

LEMMA StoreNext ==
    ASSUME Idioms = {}, IInv, IInv', [Next]_vars
    PROVE  Store!Next \/ UNCHANGED View
<1>1. CASE Runtime
  <2>1. CASE FreeBlock
    BY <2>1, FreeBlockForgets DEF Store!Next
  <2>2. CASE ~FreeBlock
    BY <1>1, <2>2, RuntimeView
  <2> QED BY <2>1, <2>2
<1>2. ASSUME NEW v \in Locals, Assign(v) \/ AssignNew(v) PROVE Store!Next
  BY <1>2, AssignView, AssignNewView DEF Store!Next
<1>3. ASSUME NEW v \in Locals, NEW i \in Slots,
             Write(v, i) \/ WriteShared(v, i) \/ WriteNew(v, i) \/ WriteBoxed(v, i)
      PROVE  Store!Next \/ UNCHANGED View
  <2>1. CASE Write(v, i)
    BY <2>1, WriteView, SameNames DEF Store!Next
  <2>2. CASE WriteShared(v, i)
    BY <2>2, WriteSharedView, SameNames DEF Store!Next
  <2>3. CASE WriteNew(v, i)
    BY <2>3, WriteNewView, SameNames DEF Store!Next
  <2>4. CASE WriteBoxed(v, i)
    BY <2>4, WriteBoxedView, SameNames DEF Store!Next
  <2> QED BY <1>3, <2>1, <2>2, <2>3, <2>4
<1>4. \A i \in Slots : ~BodyWrite(i) /\ ~BodyWriteNew(i)
  BY DEF BodyWrite, BodyWriteNew
<1>5. CASE Statement
  BY <1>2, <1>3, <1>4, <1>5 DEF Statement
<1>6. CASE UNCHANGED vars
  <2>1. \A v \in Locals : SeenVar(v)' = SeenVar(v)
    BY <1>6 DEF vars, SeenVar, Pending
  <2>2. \A c \in Blocks, i \in Slots : SeenSlot(c, i)' = SeenSlot(c, i)
    BY <1>6 DEF vars, SeenSlot, Pending
  <2>3. Allocated' = Allocated /\ Objects' = Objects
    BY <1>6 DEF vars, Allocated, Objects
  <2> QED BY <2>1, <2>2, <2>3 DEF View, VarView, SlotView
<1> QED BY <1>1, <1>5, <1>6 DEF Next

\* What the program sees of variables, properties and elements is AbstractStore:
\* objects are handles, arrays and hashes values, boxed values copies; no release,
\* collection, destructor or copy on write changes or removes a value that the
\* program can reach.
THEOREM StoreImplemented == ASSUME Idioms = {} PROVE Spec => StoreSpec
<1>1. Covered
  BY DEF Covered
<1>2. Init => Store!Init
  BY StoreInit
<1>3. IInv /\ IInv' /\ [Next]_vars => [Store!Next]_Store!vars
  <2> SUFFICES ASSUME IInv, IInv', [Next]_vars PROVE Store!Next \/ UNCHANGED Store!vars
    OBVIOUS
  <2>1. CASE UNCHANGED View
    BY <2>1 DEF View, VarView, SlotView, Objects, Store!vars
  <2> QED BY <2>1, StoreNext
<1>4. Spec => []IInv
  BY <1>1, Invariance
<1> QED BY <1>2, <1>3, <1>4, PTL DEF Spec, StoreSpec, Store!Spec
=============================================================================
