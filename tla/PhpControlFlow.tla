---------------------------- MODULE PhpControlFlow ----------------------------
(***************************************************************************)
(* What docs/php/control-structures.md promises of the same statements: a  *)
(* reference evaluator, against which the lowered program is compared.     *)
(*                                                                         *)
(* A run is a record: i is the variable the conditions read, trace the     *)
(* marks made so far, each with whether a warning raised there would be    *)
(* shown, and out how the last statement ended: "next" when it completed,  *)
(* "return", "break" or "continue" when it jumps, an exception class when  *)
(* it threw.                                                               *)
(***************************************************************************)
EXTENDS Naturals, Sequences, SequencesExt

CONSTANTS Trips, Throwables

Completed(r) == r.out = "next"
Threw(r) == r.out \in Throwables

RECURSIVE Eval(_, _, _, _), EvalBlock(_, _, _, _)

\* The statements of body in turn, until one does not complete.
EvalBlock(helper, quiet, body, run) ==
  IF body = << >> \/ ~Completed(run) THEN run
  ELSE EvalBlock(helper, quiet, Tail(body), Eval(helper, quiet, Head(body), run))

\* The clause that catches e, if any.
CatchFor(catches, e) == SelectInSeq(catches, LAMBDA c : e \in c.types)

\* A finally clause runs however the protected statements ended, and keeps
\* their outcome unless it has one of its own.
Finally(helper, quiet, body, run) ==
  LET ran == EvalBlock(helper, quiet, body, [run EXCEPT !.out = "next"])
  IN  IF Completed(ran) THEN [ran EXCEPT !.out = run.out] ELSE ran

EvalTry(helper, quiet, s, run) ==
  LET tried == EvalBlock(helper, quiet, s.body, run)
      clause == IF Threw(tried) THEN CatchFor(s.catches, tried.out) ELSE 0
      caught == IF clause = 0 THEN tried
                ELSE EvalBlock(helper, quiet, s.catches[clause].body, [tried EXCEPT !.out = "next"])
  IN  Finally(helper, quiet, s.finally, caught)

\* The helper returns to its caller or throws into it.
EvalCall(helper, quiet, run) ==
  LET ran == EvalBlock(helper, quiet, helper, run)
  IN  IF Threw(ran) THEN ran ELSE [ran EXCEPT !.out = "next"]

EvalLoop(helper, quiet, s, run) ==
  LET ran == EvalBlock(helper, quiet, s.body, [run EXCEPT !.i = @ + 1])
  IN  IF run.i >= Trips THEN run
      ELSE CASE ran.out = "break"                -> [ran EXCEPT !.out = "next"]
             [] ran.out \in {"next", "continue"} ->
                  Eval(helper, quiet, s, [ran EXCEPT !.out = "next"])
             [] OTHER                            -> ran

Eval(helper, quiet, s, run) ==
  CASE s.k = "mark"  -> [run EXCEPT !.trace = Append(@, <<s.m, ~quiet>>)]
    [] s.k = "throw" -> [run EXCEPT !.out = s.e]
    [] s.k = "call"  -> EvalCall(helper, quiet \/ s.quiet, run)
    [] s.k = "if"    -> IF run.i = s.at THEN EvalBlock(helper, quiet, s.body, run) ELSE run
    [] s.k = "loop"  -> EvalLoop(helper, quiet, s, run)
    [] s.k = "try"   -> EvalTry(helper, quiet, s, run)
    [] OTHER         -> [run EXCEPT !.out = s.k]

\* The run of a whole program.
Promised(program) ==
  EvalBlock(program.helper, FALSE, program.main, [i |-> 0, trace |-> << >>, out |-> "next"])
=============================================================================
