---------------------------- MODULE AbstractStore ----------------------------
(***************************************************************************)
(* What a program sees of its values: variables and slots that hold them   *)
(* until it stores something else.  Objects are shared by those who hold   *)
(* them; an array is not, so what is stored in one through a variable is   *)
(* seen by no other holder.  There are no counts, and a value the program  *)
(* can no longer reach may be forgotten at any time, or never.             *)
(***************************************************************************)
EXTENDS Integers

CONSTANTS MaxBlock, NumSlots, Locals

Blocks == 1..MaxBlock
Slots == 1..NumSlots
None == 0

VARIABLES
  values,  \* the values that exist
  objects, \* those of them that are objects
  slot,    \* what their slots hold
  var      \* what the variables hold

vars == <<values, objects, slot, var>>

Empty == [i \in Slots |-> None]

Init ==
  /\ values = {} /\ objects = {}
  /\ slot = [b \in Blocks |-> Empty]
  /\ var = [v \in Locals |-> None]

Held == {var[v] : v \in Locals} \ {None}

\* S holds what the variables hold and what is in the slots of its values.
KeepsUp(S) ==
  Held \subseteq S /\ \A b \in S, i \in Slots : slot[b][i] # None => slot[b][i] \in S

Reachable == {b \in Blocks : \A S \in SUBSET Blocks : KeepsUp(S) => b \in S}

Readable == Reachable \cup {None}

\* A value comes into being.
Make(b) ==
  /\ b \in Blocks \ values
  /\ values' = values \cup {b}
  /\ objects' \in {objects, objects \cup {b}}

\* $v becomes a value at hand, or one the statement makes.
SetVar(v) ==
  /\ var' \in {[var EXCEPT ![v] = x] : x \in Readable}
  /\ UNCHANGED <<values, objects, slot>>

NewVar(v) ==
  \E b \in Blocks :
    Make(b) /\ var' = [var EXCEPT ![v] = b] /\ UNCHANGED slot

SoleHolder(v) ==
  /\ \A w \in Locals \ {v} : var[w] # var[v]
  /\ \A c \in Reachable, i \in Slots : slot[c][i] # var[v]

\* The slot of an object changes for every holder of the object, that of an
\* array in place only if no one else holds the array.
Writable(v) ==
  (objects \cap Reachable) \cup (IF SoleHolder(v) THEN {var[v]} \ {None} ELSE {})

SetSlot(c, i) ==
  /\ slot' \in {[slot EXCEPT ![c][i] = x] : x \in Readable}
  /\ UNCHANGED <<values, objects, var>>

\* The new value may itself hold one at hand.
NewInSlot(c, i) ==
  \E b \in Blocks, x \in Readable :
    /\ Make(b)
    /\ slot' = [slot EXCEPT ![c][i] = b, ![b][1] = x]
    /\ UNCHANGED var

\* $v gets a copy of the array it holds with one slot changed.
CopyAndSet(v, i) ==
  /\ var[v] \in values \ objects
  /\ \E b \in Blocks, x \in Readable :
       /\ Make(b) /\ UNCHANGED objects
       /\ slot' = [slot EXCEPT ![b] = [slot[var[v]] EXCEPT ![i] = x]]
       /\ var' = [var EXCEPT ![v] = b]

Forget ==
  \E b \in values \ Reachable :
    /\ values' = values \ {b} /\ objects' = objects \ {b}
    /\ slot' = [slot EXCEPT ![b] = Empty]
    /\ UNCHANGED var

Next ==
  \/ \E v \in Locals :
       \/ SetVar(v) \/ NewVar(v)
       \/ \E i \in Slots : CopyAndSet(v, i)
       \/ \E c \in Writable(v), i \in Slots : SetSlot(c, i) \/ NewInSlot(c, i)
  \/ Forget

Spec == Init /\ [][Next]_vars
=============================================================================
