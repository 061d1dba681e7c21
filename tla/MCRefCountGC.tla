---------------------------- MODULE MCRefCountGC ----------------------------
(* RefCountGC on small heaps; the type graphs of the programs. *)
EXTENDS RefCountGC, TLC

\* Objects with properties of every kind.
Containers == {"object", "array", "hash", "scalars", "mixed"}
ContainersHold ==
  {<<"object", "object">>, <<"object", "array">>, <<"array", "object">>,
   <<"object", "hash">>, <<"hash", "object">>, <<"object", "scalars">>,
   <<"object", "mixed">>, <<"mixed", "object">>}

NodesHold == {<<"object", "object">>}
VarSymmetry == Permutations(Locals)

\* class Node { ?Node $next; ?Guard $guard; }, class Guard { array $log;
\* function __destruct() { ... } }: a guard is in no cycle itself.
Guarded == {"object", "dtor", "scalars"}
GuardedHold == {<<"object", "object">>, <<"object", "dtor">>, <<"dtor", "scalars">>}
=============================================================================
