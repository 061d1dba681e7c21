---------------------------- MODULE MCRuntimeCache ----------------------------
(***************************************************************************)
(* Three runs of the compiler: two need the same runtime text, the third   *)
(* another one.                                                            *)
(***************************************************************************)
EXTENDS RuntimeCache

CONSTANTS c1, c2, c3, exe, dylib

TextOf == [c \in {c1, c2, c3} |-> IF c = c3 THEN dylib ELSE exe]
FileOf == [t \in {exe, dylib} |-> IF t = exe THEN "runtime-exe.o" ELSE "runtime-dylib.o"]
Files  == {"runtime-exe.o", "runtime-dylib.o"}
=============================================================================
