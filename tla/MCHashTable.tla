----------------------------- MODULE MCHashTable -----------------------------
(***************************************************************************)
(* Four keys that meet in every way in a table of four slots and again in  *)
(* one of eight.                                                           *)
(***************************************************************************)
EXTENDS HashTable, TLC

CONSTANTS a, v, w, t1, t2, t3

\* In four slots a, 0 and 1 begin at the last, so that their probes wrap and
\* push 2 away; in eight a and 0 do.
MCHash == (a :> 3) @@ (0 :> 11) @@ (1 :> 7) @@ (2 :> 0)

\* 1 may be stored before 0 is appended, and then 2 is appended.
MCWrites == {<<a, "x">>, <<a, "y">>, <<1, "x">>}

Alike == Permutations({v, w}) \cup Permutations({t1, t2, t3})
=============================================================================
