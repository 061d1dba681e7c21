----------------------------- MODULE OrderedArrays -----------------------------
(***************************************************************************)
(* What PHP's associative arrays promise a program: an array is a value, a *)
(* sequence of key/value pairs with distinct keys in the order of their    *)
(* first insertion, and a foreach loop over it visits the pairs it had     *)
(* when the loop began.                                                    *)
(***************************************************************************)
EXTENDS Integers, Sequences, SequencesExt

CONSTANTS
  Locals,   \* the program's variables
  Names,    \* string keys that do not read as integers
  IntKeys,  \* the others
  Writes,   \* the key/value pairs the program stores under a key
  Pushed,   \* the values it appends
  None

VARIABLES
  array,    \* variable -> its pairs, or None
  left,     \* the pairs the running loop has still to visit, or None
  visited   \* the pair the loop variables hold

vars == <<array, left, visited>>

Init ==
  /\ array = [v \in Locals |-> None]
  /\ left = None
  /\ visited = None

KeysOf(pairs) == {pairs[i][1] : i \in DOMAIN pairs}

\* A new key goes to the end, a known one keeps its place.
Stored(pairs, k, x) ==
  IF k \in KeysOf(pairs)
  THEN [i \in DOMAIN pairs |-> IF pairs[i][1] = k THEN <<k, x>> ELSE pairs[i]]
  ELSE Append(pairs, <<k, x>>)

\* $v[] = x: one more than the largest integer key, 0 when there is none.
NextKey(pairs) ==
  LET ints == KeysOf(pairs) \ Names
  IN  IF ints = {} THEN 0 ELSE Max(ints) + 1

\* What $v may hold after a statement: an empty array, nothing, what another
\* variable holds, or its own pairs with one more stored.
PairsAfter(arrays, v) ==
  {<< >>, None}
  \cup {arrays[w] : w \in Locals}
  \cup (IF arrays[v] = None THEN {}
        ELSE {Stored(arrays[v], write[1], write[2]) : write \in Writes}
             \cup {Stored(arrays[v], k, x) : k \in {NextKey(arrays[v])} \cap IntKeys, x \in Pushed})

ArraysAfter(arrays) ==
  UNION {{[arrays EXCEPT ![v] = pairs] : pairs \in PairsAfter(arrays, v)} : v \in Locals}

\* A statement changes the array of one variable; the others and the loop
\* keep theirs.
Statement == array' \in ArraysAfter(array) /\ UNCHANGED <<left, visited>>

Begin(v) == left = None /\ array[v] # None /\ left' = array[v] /\ UNCHANGED <<array, visited>>

Visit ==
  /\ left \notin {None, << >>}
  /\ visited' = Head(left)
  /\ left' = Tail(left)
  /\ UNCHANGED array

\* The loop ends when there is nothing left, or with a break.
Leave == left # None /\ left' = None /\ visited' = None /\ UNCHANGED array

Next == Statement \/ (\E v \in Locals : Begin(v)) \/ Visit \/ Leave

Spec == Init /\ [][Next]_vars
=============================================================================
