------------------------------- MODULE PhpScript -------------------------------
(***************************************************************************)
(* What a statement list of PHP means: a reference evaluator for the       *)
(* statements the optimizer of src/src/optimize/ rewrites, written from    *)
(* docs/php/control-structures.md and not from the optimizer.              *)
(*                                                                         *)
(* A script is a sequence of statements.  Its only data are small          *)
(* integers, of which 0 alone is falsy, held by variables that RefAssign   *)
(* can make names of one cell.  Optional parts (the else and finally       *)
(* bodies, the default of a switch, the condition of a for) are sequences  *)
(* of at most one element.                                                 *)
(*                                                                         *)
(* An input fixes what a script cannot know when it is compiled: the       *)
(* values its variables have at the start, what the one function it calls  *)
(* does, and the array it iterates over.                                   *)
(***************************************************************************)
EXTENDS Naturals, Sequences, SequencesExt

CONSTANTS
  Names,     \* the local variables
  MaxSteps   \* how many loop iterations a run may take in all

Lit(v) == [k |-> "lit", v |-> v]
Var(x) == [k |-> "var", x |-> x]
SetExpr(x, v) == [k |-> "set", x |-> x, v |-> v]  \* ($x = v) inside an expression
CallBy(x) == [k |-> "call", x |-> x]              \* f($x), which takes $x by reference

Echo(e) == [k |-> "echo", e |-> e]
Assign(x, e) == [k |-> "assign", x |-> x, e |-> e]
Do(e) == [k |-> "do", e |-> e]
RefAssign(x, y) == [k |-> "ref", x |-> x, y |-> y]
If(e, then, elseifs, else) ==
  [k |-> "if", e |-> e, then |-> then, elseifs |-> elseifs, else |-> else]
Clause(e, body) == [e |-> e, body |-> body]
While(e, body) == [k |-> "while", e |-> e, body |-> body]
DoWhile(body, e) == [k |-> "dowhile", e |-> e, body |-> body]
For(init, test, update, body) ==
  [k |-> "for", init |-> init, test |-> test, update |-> update, body |-> body]
Foreach(x, body) == [k |-> "foreach", x |-> x, body |-> body]
Switch(e, cases, default) == [k |-> "switch", e |-> e, cases |-> cases, default |-> default]
Case(v, body) == [v |-> v, body |-> body]
Try(body, catches, finally) ==
  [k |-> "try", body |-> body, catches |-> catches, finally |-> finally]
Throw == [k |-> "throw"]
Return == [k |-> "return"]
Break(n) == [k |-> "break", n |-> n]
Continue(n) == [k |-> "continue", n |-> n]

-----------------------------------------------------------------------------
\* A run: the cell each name stands for, the cells, what was printed, how the
\* last statement ended, the levels a jump still has to leave, the last value
\* of an expression, and the loop iterations left.
Start(i) ==
  [at |-> [x \in Names |-> x], cells |-> i.vars, printed |-> << >>, out |-> "next",
   levels |-> 0, value |-> 0, steps |-> MaxSteps]

Truthy(v) == v # 0

Value(r, x) == r.cells[r.at[x]]
Store(r, x, v) == [r EXCEPT !.cells[r.at[x]] = v]
Going(r) == r.out = "next"

\* An expression leaves its value in the run, or throws.
EvalExpr(i, e, r) ==
  CASE e.k = "lit"  -> [r EXCEPT !.value = e.v]
    [] e.k = "var"  -> [r EXCEPT !.value = Value(r, e.x)]
    [] e.k = "set"  -> [Store(r, e.x, e.v) EXCEPT !.value = e.v]
    [] e.k = "call" -> IF i.throws THEN [r EXCEPT !.out = "throw"]
                       ELSE [Store(r, e.x, i.returns) EXCEPT !.value = i.returns]

RECURSIVE Exec(_, _, _), ExecBlock(_, _, _), Repeat(_, _, _, _), Each(_, _, _, _), Branch(_, _, _, _),
          Cases(_, _, _, _)

ExecBlock(i, body, r) ==
  IF body = << >> \/ ~Going(r) THEN r ELSE ExecBlock(i, Tail(body), Exec(i, Head(body), r))

\* How a loop or a switch ends when its body ended as r did: a jump of
\* several levels leaves one of them.
Leave(r) ==
  IF r.out \in {"break", "continue"}
  THEN IF r.levels = 1 THEN [r EXCEPT !.out = "next"] ELSE [r EXCEPT !.levels = @ - 1]
  ELSE r

GoesOn(r) == Going(r) \/ (r.out = "continue" /\ r.levels = 1)

\* One iteration of a loop: the condition (absent: true), the body, the
\* update.  first is set when the body of a do-while runs unconditionally.
Repeat(i, s, first, r) ==
  LET tested == IF first \/ s.e = << >> THEN [r EXCEPT !.value = 1] ELSE EvalExpr(i, s.e[1], r)
      ran    == ExecBlock(i, s.body, [tested EXCEPT !.steps = @ - 1])
      again  == ExecBlock(i, s.update, [ran EXCEPT !.out = "next"])
  IN  IF ~Going(tested) \/ ~Truthy(tested.value) THEN tested
      ELSE IF tested.steps = 0 THEN [tested EXCEPT !.out = "stuck"]
      ELSE IF GoesOn(ran) THEN Repeat(i, s, FALSE, again) ELSE Leave(ran)

LoopOf(e, update, body) == [e |-> e, update |-> update, body |-> body]

\* foreach over the values vs.
Each(i, s, vs, r) ==
  IF vs = << >> THEN r
  ELSE LET ran == ExecBlock(i, s.body, Store(r, s.x, Head(vs))) IN
       IF GoesOn(ran) THEN Each(i, s, Tail(vs), [ran EXCEPT !.out = "next"]) ELSE Leave(ran)

\* The first clause whose condition holds, else the else body.
Branch(i, clauses, else, r) ==
  IF clauses = << >> THEN IF else = << >> THEN r ELSE ExecBlock(i, else[1], r)
  ELSE LET tested == EvalExpr(i, Head(clauses).e, r) IN
       IF ~Going(tested) THEN tested
       ELSE IF Truthy(tested.value) THEN ExecBlock(i, Head(clauses).body, tested)
       ELSE Branch(i, Tail(clauses), else, tested)

\* The bodies of the cases, one after the other, from the first that matches;
\* the default comes last.
Cases(i, cases, default, r) ==
  LET reached == SelectInSeq(cases, LAMBDA c : c.v = r.value)
      bodies  == [c \in DOMAIN cases |-> cases[c].body] \o default
      entry   == IF reached = 0 THEN Len(cases) + 1 ELSE reached
  IN  Leave(ExecBlock(i, FlattenSeq(SubSeq(bodies, entry, Len(bodies))), r))

ExecTry(i, s, r) ==
  LET tried  == ExecBlock(i, s.body, r)
      caught == IF tried.out = "throw" /\ s.catches # << >>
                THEN ExecBlock(i, s.catches[1], [tried EXCEPT !.out = "next"]) ELSE tried
      ran    == ExecBlock(i, s.finally[1], [caught EXCEPT !.out = "next"])
  IN  IF s.finally = << >> \/ caught.out = "stuck" THEN caught
      ELSE IF Going(ran) THEN [ran EXCEPT !.out = caught.out, !.levels = caught.levels]
      ELSE ran

Exec(i, s, r) ==
  CASE s.k = "echo"    -> LET v == EvalExpr(i, s.e, r) IN
                          IF Going(v) THEN [v EXCEPT !.printed = Append(@, v.value)] ELSE v
    [] s.k = "assign"  -> LET v == EvalExpr(i, s.e, r) IN
                          IF Going(v) THEN Store(v, s.x, v.value) ELSE v
    [] s.k = "do"      -> EvalExpr(i, s.e, r)
    [] s.k = "ref"     -> [r EXCEPT !.at[s.x] = r.at[s.y]]
    [] s.k = "if"      -> Branch(i, <<Clause(s.e, s.then)>> \o s.elseifs, s.else, r)
    [] s.k = "while"   -> Repeat(i, LoopOf(<<s.e>>, << >>, s.body), FALSE, r)
    [] s.k = "dowhile" -> Repeat(i, LoopOf(<<s.e>>, << >>, s.body), TRUE, r)
    [] s.k = "for"     -> Repeat(i, LoopOf(s.test, s.update, s.body), FALSE, ExecBlock(i, s.init, r))
    [] s.k = "foreach" -> Each(i, s, i.list, r)
    [] s.k = "switch"  -> LET v == EvalExpr(i, s.e, r) IN
                          IF Going(v) THEN Cases(i, s.cases, s.default, v) ELSE v
    [] s.k = "try"     -> ExecTry(i, s, r)
    [] s.k \in {"break", "continue"} -> [r EXCEPT !.out = s.k, !.levels = s.n]
    [] OTHER           -> [r EXCEPT !.out = s.k]

Run(script, i) == ExecBlock(i, script, Start(i))
=============================================================================
