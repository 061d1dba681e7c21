------------------------------ MODULE PhpIncludes ------------------------------
(***************************************************************************)
(* Projects of PHP files that include one another and declare functions,   *)
(* and what a run of one does.  Include and Call behave as                 *)
(* docs/php/namespaces.md:58-117 says PHP does; the last three kinds of    *)
(* statement are what the resolver (module Includes) puts in the place of  *)
(* include statements, and behave as the code emitted for them.            *)
(*                                                                         *)
(* A project is a function from the files that exist to their statements.  *)
(* A condition is a constant, "yes" or "no", or the name of a flag that    *)
(* is known at run time only.  Functions are declared at the top level of  *)
(* a file and all have the same signature.                                 *)
(***************************************************************************)
EXTENDS Naturals, Sequences, SequencesExt

CONSTANT MaxDepth  \* how deep the calls and includes of a run may nest

Echo(v) == [k |-> "echo", v |-> v]
Include(file, once, required) ==
  [k |-> "include", file |-> file, once |-> once, required |-> required]
Function(name, body) == [k |-> "function", name |-> name, body |-> body]
Call(name) == [k |-> "call", name |-> name]
Clause(cond, body) == [cond |-> cond, body |-> body]
If(at, clauses, else) == [k |-> "if", at |-> at, clauses |-> clauses, else |-> else]
While(cond, body) == [k |-> "while", cond |-> cond, body |-> body]
DoWhile(body, cond) == [k |-> "dowhile", cond |-> cond, body |-> body]

\* What the resolver emits: the guard and the mark of a file, and the mark
\* that makes a variant the function its public name calls.
OnceGuard(file, body) == [k |-> "guard", file |-> file, body |-> body]
OnceMark(file) == [k |-> "mark", file |-> file]
VariantMark(name, variant) == [k |-> "variant", name |-> name, variant |-> variant]

\* The functions a file declares.
Functions(body) == {body[j] : j \in {j \in DOMAIN body : body[j].k = "function"}}
FunctionNames(body) == {f.name : f \in Functions(body)}

-----------------------------------------------------------------------------
\* A run: what was printed, the files included so far, the function each
\* callable name stands for, and how it ended.
Start(body, loaded) ==
  [printed |-> << >>, included |-> loaded,
   defined |-> [n \in FunctionNames(body) |-> (CHOOSE f \in Functions(body) : f.name = n).body],
   out |-> "next"]

Going(r) == r.out = "next"
Fatal(r, why) == [r EXCEPT !.out = why]

Define(defined, name, body) ==
  [n \in DOMAIN defined \cup {name} |-> IF n = name THEN body ELSE defined[n]]

\* What a run is given: the files, the flags, the bodies of the variants.
Given(files, flags, variants) == [files |-> files, flags |-> flags, variants |-> variants]

Holds(c, cond) == cond = "yes" \/ (cond # "no" /\ c.flags[cond])

RECURSIVE Exec(_, _, _, _), ExecBlock(_, _, _, _), Load(_, _, _, _)

ExecBlock(c, body, r, depth) ==
  IF body = << >> \/ ~Going(r) THEN r
  ELSE ExecBlock(c, Tail(body), Exec(c, Head(body), r, depth), depth)

\* A file is read: all its functions are declared, then its statements run.
Load(c, file, r, depth) ==
  LET body == c.files[file] IN
  IF depth = 0 THEN Fatal(r, "deep")
  ELSE IF FunctionNames(body) \cap DOMAIN r.defined # {} THEN Fatal(r, "redeclared")
  ELSE LET declared == Start(body, {}).defined IN
       ExecBlock(c, body,
                 [r EXCEPT !.included = @ \cup {file},
                           !.defined = [n \in DOMAIN @ \cup DOMAIN declared |->
                                          IF n \in DOMAIN declared THEN declared[n] ELSE @[n]]],
                 depth - 1)

\* mutant: the guard does not record that the file was entered
GuardedUnmarked(c, s, r, depth) ==
  IF s.file \in r.included THEN r ELSE ExecBlock(c, s.body, r, depth)

\* The flag of the file is tested, and set before the body runs.
Guarded(c, s, r, depth) ==
  IF s.file \in r.included THEN r
  ELSE ExecBlock(c, s.body, [r EXCEPT !.included = @ \cup {s.file}], depth)

Marked(s, r) == [r EXCEPT !.included = @ \cup {s.file}]

\* The pointer behind the public name.
Activated(c, s, r) == [r EXCEPT !.defined = Define(@, s.name, c.variants[s.variant])]

\* A call goes to the body the name stands for; without one it is fatal.
Dispatched(c, s, r, depth) ==
  IF s.name \notin DOMAIN r.defined THEN Fatal(r, "undefined")
  ELSE IF depth = 0 THEN Fatal(r, "deep")
  ELSE ExecBlock(c, r.defined[s.name], r, depth - 1)

Exec(c, s, r, depth) ==
  CASE s.k = "echo" -> [r EXCEPT !.printed = Append(@, s.v)]
    [] s.k = "include" ->
         IF s.file \notin DOMAIN c.files THEN IF s.required THEN Fatal(r, "missing") ELSE r
         ELSE IF s.once /\ s.file \in r.included THEN r
         ELSE Load(c, s.file, r, depth)
    [] s.k = "function" -> r
    [] s.k = "call" -> Dispatched(c, s, r, depth)
    [] s.k = "if" ->
         LET taken == SelectInSeq(s.clauses, LAMBDA clause : Holds(c, clause.cond)) IN
         ExecBlock(c, IF taken = 0 THEN s.else ELSE s.clauses[taken].body, r, depth)
    [] s.k = "while" -> \* a flag that holds lets a loop run twice
         IF Holds(c, s.cond) THEN ExecBlock(c, s.body \o s.body, r, depth) ELSE r
    [] s.k = "dowhile" ->
         ExecBlock(c, IF Holds(c, s.cond) THEN s.body \o s.body ELSE s.body, r, depth)
    [] s.k = "guard" -> Guarded(c, s, r, depth)
    [] s.k = "mark" -> Marked(s, r)
    [] s.k = "variant" -> Activated(c, s, r)

\* A run of the file main of a project: main itself counts as included.
RunProject(files, main, flags) ==
  ExecBlock(Given(files, flags, << >>), files[main], Start(files[main], {main}), MaxDepth)

\* A run of a resolved program.
RunResolved(body, variants, flags) ==
  ExecBlock(Given(<< >>, flags, variants), body, Start(body, {}), MaxDepth)
=============================================================================
