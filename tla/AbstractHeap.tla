---------------------------- MODULE AbstractHeap ----------------------------
(***************************************************************************)
(* What a program may rely on from the heap, whatever the allocator does   *)
(* with freed blocks: a granted payload lies inside the buffer, is as long *)
(* as the request and touches no payload the program already owns; an      *)
(* owned payload stays where and as long as it is until it is released.    *)
(***************************************************************************)
EXTENDS Integers

CONSTANTS HeapMax, Requests

VARIABLES
  owned,   \* the payloads the program owns: [lo |-> first, hi |-> end]
  dead     \* the program has died of exhaustion

Init == owned = {} /\ dead = FALSE

Apart(x, y) == x.hi <= y.lo \/ y.hi <= x.lo

\* A request for n bytes is granted.
Grant(n) ==
  /\ ~dead
  /\ \E x \in owned' :
       /\ owned' = owned \cup {x}
       /\ 0 <= x.lo /\ x.hi = x.lo + n /\ x.hi <= HeapMax
       /\ \A y \in owned : Apart(x, y)
  /\ UNCHANGED dead

Release ==
  /\ ~dead
  /\ \E x \in owned : owned' = owned \ {x}
  /\ UNCHANGED dead

Die == ~dead /\ dead' = TRUE /\ UNCHANGED owned

Next == (\E n \in Requests : Grant(n)) \/ Release \/ Die

Spec == Init /\ [][Next]_<<owned, dead>>
============================================================================
