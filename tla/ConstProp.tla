------------------------------- MODULE ConstProp -------------------------------
(***************************************************************************)
(* The constant propagation pass of the optimizer                          *)
(* (src/src/optimize/propagate/): a walk over the syntax tree with the     *)
(* facts known at each statement, which replaces variables by their values *)
(* and hands the facts on.  It runs before dead branches are pruned.       *)
(*                                                                         *)
(* Facts are a function from the variables whose value is known to that    *)
(* value.  Which constructs are written is in PhpScript; arrays, objects,  *)
(* operators and declarations are left out, and so is the variable a catch *)
(* clause binds.                                                           *)
(***************************************************************************)
EXTENDS PhpScript, Functions, FiniteSets

CONSTANTS
  Scripts,  \* the scripts that are compiled
  Inputs    \* what a run may meet

NoFacts == [x \in {} |-> 0]

\* mutant: merging keeps a fact that no path contradicts
MergeUncontradicted(paths) ==
  LET known == UNION {DOMAIN p : p \in paths} IN
  [x \in {y \in known : Cardinality({p[y] : p \in {q \in paths : y \in DOMAIN q}}) = 1} |->
     (CHOOSE p \in paths : x \in DOMAIN p)[x]]

\* merge_constant_env_paths: what all paths agree on; nothing without a path.
Merge(paths) ==
  IF paths = {} THEN NoFacts
  ELSE LET first == CHOOSE p \in paths : TRUE IN
       Restrict(first, {x \in DOMAIN first :
                          \A p \in paths : x \in DOMAIN p /\ p[x] = first[x]})

-----------------------------------------------------------------------------
\* Effects (optimize/effects.rs) and writes (propagate/writes.rs).

SideEffects(e) == e.k \in {"set", "call"}
ExprMayThrow(e) == e.k = "call"

Unknown == "?"

\* The locals an expression writes: a call may write any.
ExprWrites(e) ==
  CASE e.k = "set"  -> {e.x}
    [] e.k = "call" -> {Unknown}
    [] OTHER        -> {}

Known(e) == e.k = "lit"

Blocks(s) ==
  CASE s.k = "if"      -> {s.then} \cup {s.elseifs[j].body : j \in DOMAIN s.elseifs} \cup Range(s.else)
    [] s.k \in {"while", "dowhile", "foreach"} -> {s.body}
    [] s.k = "for"     -> {s.init, s.update, s.body}
    [] s.k = "switch"  -> {s.cases[j].body : j \in DOMAIN s.cases} \cup Range(s.default)
    [] s.k = "try"     -> {s.body} \cup Range(s.catches) \cup Range(s.finally)
    [] OTHER           -> {}

Exprs(s) ==
  CASE s.k \in {"echo", "assign", "do", "while", "dowhile", "switch"} -> {s.e}
    [] s.k = "if"  -> {s.e} \cup {s.elseifs[j].e : j \in DOMAIN s.elseifs}
    [] s.k = "for" -> Range(s.test)
    [] OTHER       -> {}

RECURSIVE BlockWrites(_), BlockMayThrow(_)

StmtWrites(s) ==
  (CASE s.k = "assign" -> {s.x} [] s.k = "ref" -> {s.x, s.y} [] s.k = "foreach" -> {s.x} [] OTHER -> {})
  \cup UNION {ExprWrites(e) : e \in Exprs(s)} \cup UNION {BlockWrites(b) : b \in Blocks(s)}

BlockWrites(body) == UNION {StmtWrites(body[j]) : j \in DOMAIN body}

BlockMayThrow(body) ==
  \E j \in DOMAIN body :
    \/ body[j].k = "throw"
    \/ \E e \in Exprs(body[j]) : ExprMayThrow(e)
    \/ \E b \in Blocks(body[j]) : BlockMayThrow(b)

\* safe_loop_env, safe_foreach_env: what holds in every iteration.
Without(facts, writes) ==
  IF Unknown \in writes THEN NoFacts ELSE Restrict(facts, DOMAIN facts \ writes)

-----------------------------------------------------------------------------
\* Terminal effects (src/src/termination.rs).

RECURSIVE BlockEffect(_)

MergeEffects(effects) ==
  IF effects = {} \/ "falls" \in effects THEN "falls"
  ELSE IF "mixed" \in effects \/ {"breaks", "exits"} \subseteq effects THEN "mixed"
  ELSE CHOOSE e \in effects : TRUE

SwitchEffect(s) ==
  LET Escapes(b) == BlockEffect(b) = "exits"
      \* a case exits if it does, or falls into one that does
      FallsToExit(j) == BlockEffect(s.cases[j].body) \in {"exits", "falls"}
  IN  IF /\ s.default # << >>
         /\ Escapes(s.default[1])
         /\ \A j \in DOMAIN s.cases : FallsToExit(j)
      THEN "exits" ELSE "falls"

TryEffect(s) ==
  LET last == IF s.finally = << >> THEN "falls" ELSE BlockEffect(s.finally[1])
  IN  IF last # "falls" THEN last
      ELSE MergeEffects({BlockEffect(b) : b \in {s.body} \cup Range(s.catches)})

StmtEffect(s) ==
  CASE s.k \in {"return", "throw", "continue"} -> "exits"
    [] s.k = "break"  -> IF s.n = 1 THEN "breaks" ELSE "exits"
    [] s.k = "if"     -> IF s.else = << >> THEN "falls"
                         ELSE MergeEffects({BlockEffect(b) : b \in Blocks(s)})
    [] s.k = "try"    -> TryEffect(s)
    [] s.k = "switch" -> SwitchEffect(s)
    [] OTHER          -> "falls"

BlockEffect(body) ==
  LET stops == SelectInSeq(body, LAMBDA s : StmtEffect(s) # "falls")
  IN  IF stops = 0 THEN "falls" ELSE StmtEffect(body[stops])

Falls(body) == BlockEffect(body) = "falls"

-----------------------------------------------------------------------------
\* The walk.  A walked statement or block comes with the facts after it.

\* A variable with a known value is replaced; the argument of a call, which
\* may be a reference, and the target of an assignment are not.
PropExpr(e, facts) == IF e.k = "var" /\ e.x \in DOMAIN facts THEN Lit(facts[e.x]) ELSE e

AfterExpr(facts, e) == IF SideEffects(e) THEN NoFacts ELSE facts

\* env_after_scalar_assign
AfterAssign(facts, x, e) ==
  LET kept == AfterExpr(facts, e) IN
  IF Known(e) THEN [y \in DOMAIN kept \cup {x} |-> IF y = x THEN e.v ELSE kept[y]]
  ELSE Without(kept, {x})

Walked(stmt, facts) == [stmt |-> stmt, facts |-> facts]

RECURSIVE PropStmt(_, _), PropBlock(_, _), LoopPaths(_, _), EntryPaths(_, _)

WalkedBlock(body, facts) == [body |-> body, facts |-> facts]

\* A block whose first statement has been walked: it ends with the first
\* statement that does not fall through.
BlockFrom(first, rest) ==
  IF StmtEffect(first.stmt) = "falls"
  THEN [PropBlock(rest, first.facts) EXCEPT !.body = <<first.stmt>> \o @]
  ELSE WalkedBlock(<<first.stmt>>, first.facts)

PropBlock(body, facts) ==
  IF body = << >> THEN WalkedBlock(<< >>, facts) ELSE BlockFrom(PropStmt(Head(body), facts), Tail(body))

\* simulate_block_constant_env: the walk again, for its facts.
Simulate(body, facts) == PropBlock(body, facts).facts

\* An optional body, walked from given facts.
PropOptional(bodies, facts) == [j \in DOMAIN bodies |-> PropBlock(bodies[j], facts).body]

PropIf(s, facts) ==
  LET e     == PropExpr(s.e, facts)
      base  == AfterExpr(facts, e)
      then  == PropBlock(s.then, base)
      tests == [j \in DOMAIN s.elseifs |-> PropExpr(s.elseifs[j].e, base)]
      elifs == [j \in DOMAIN s.elseifs |-> PropBlock(s.elseifs[j].body, AfterExpr(base, tests[j]))]
      else  == IF s.else = << >> THEN [body |-> << >>, facts |-> base] ELSE PropBlock(s.else[1], base)
      falling == {b \in {then, else} \cup Range(elifs) : Falls(b.body)}
  IN  Walked([s EXCEPT !.e = e, !.then = then.body,
                       !.elseifs = [j \in DOMAIN @ |-> Clause(tests[j], elifs[j].body)],
                       !.else = [j \in DOMAIN @ |-> else.body]],
             IF ~Known(e) THEN Merge({b.facts : b \in falling})
             ELSE IF Truthy(e.v) THEN then.facts ELSE else.facts)

-----------------------------------------------------------------------------
\* Loops: facts hold in every iteration only if nothing in the loop writes
\* them; a loop whose condition never fails is left by its breaks.

NoPaths == [falls |-> {}, breaks |-> {}, continues |-> {}]
Both(p, q) == [kind \in DOMAIN p |-> p[kind] \cup q[kind]]

PathsOfEach(body, facts) ==
  LET all == {LoopPaths(body, f) : f \in facts} IN
  [kind \in DOMAIN NoPaths |-> UNION {p[kind] : p \in all}]

\* The paths of a branch taken when e holds, and of what comes otherwise.
Chosen(e, taken, others) ==
  IF ~Known(e) THEN Both(taken, others) ELSE IF Truthy(e.v) THEN taken ELSE others

\* simulate_loop_if_constant_paths and its elseif chain.
RECURSIVE IfPaths(_, _, _)

IfPaths(clauses, else, facts) ==
  IF clauses = << >>
  THEN IF else = << >> THEN [NoPaths EXCEPT !.falls = {facts}] ELSE LoopPaths(else[1], facts)
  ELSE LET e == PropExpr(Head(clauses).e, facts) IN
       Chosen(e, LoopPaths(Head(clauses).body, AfterExpr(facts, e)), IfPaths(Tail(clauses), else, facts))

\* The path through a statement that has been walked.
WalkedPaths(after) ==
  CASE StmtEffect(after.stmt) = "falls"  -> [NoPaths EXCEPT !.falls = {after.facts}]
    [] StmtEffect(after.stmt) = "breaks" -> [NoPaths EXCEPT !.breaks = {after.facts}]
    [] OTHER                             -> NoPaths

\* simulate_loop_stmt_constant_paths.  The side effects of the condition of an
\* if hold in all its branches, those of an elseif in its own.
StmtPaths(s, facts) ==
  CASE s.k = "break" /\ s.n = 1    -> [NoPaths EXCEPT !.breaks = {facts}]
    [] s.k = "continue" /\ s.n = 1 -> [NoPaths EXCEPT !.continues = {facts}]
    [] s.k = "if" -> IfPaths(<<Clause(s.e, s.then)>> \o s.elseifs, s.else,
                             AfterExpr(facts, PropExpr(s.e, facts)))
    [] OTHER -> WalkedPaths(PropStmt(s, facts))

\* The paths of a body whose first statement has the paths first.
PathsFrom(first, rest) == Both([first EXCEPT !.falls = {}], PathsOfEach(rest, first.falls))

LoopPaths(body, facts) ==
  IF body = << >> THEN [NoPaths EXCEPT !.falls = {facts}]
  ELSE PathsFrom(StmtPaths(Head(body), facts), Tail(body))

\* The facts after a loop with an unfailing condition.
BrokenOut(body, facts) == Merge(LoopPaths(body, facts).breaks)

PropWhile(s, facts) ==
  LET loop == Without(facts, StmtWrites(s))
      e    == PropExpr(s.e, loop)
      New(body) == Walked(While(e, body),
                          IF ~Known(e) THEN loop
                          ELSE IF Truthy(e.v) THEN BrokenOut(body, loop) ELSE facts)
  IN  New(PropBlock(s.body, loop).body)

PropDoWhile(s, facts) ==
  LET loop  == Without(facts, StmtWrites(s))
      e     == PropExpr(s.e, loop)
      After(paths) == IF ~Known(e) THEN loop
                      ELSE IF Truthy(e.v) THEN Merge(paths.breaks)
                      ELSE Merge(paths.falls \cup paths.breaks \cup paths.continues)
      New(body) == Walked(DoWhile(body, e), After(LoopPaths(body, loop)))
  IN  New(PropBlock(s.body, loop).body)

PropFor(s, facts) ==
  LET init == PropBlock(s.init, facts)
      loop == Without(init.facts, StmtWrites([s EXCEPT !.init = << >>]))
      test == [j \in DOMAIN s.test |-> PropExpr(s.test[j], loop)]
      body == PropBlock(s.body, loop).body
  IN  Walked(For(init.body, test, PropBlock(s.update, loop).body, body),
             IF test = << >> THEN BrokenOut(body, loop)
             ELSE IF Known(test[1]) /\ ~Truthy(test[1].v) THEN init.facts ELSE loop)

PropForeach(s, facts) ==
  LET loop == Without(facts, StmtWrites(s)) IN Walked(Foreach(s.x, PropBlock(s.body, loop).body), loop)

-----------------------------------------------------------------------------
\* The facts that leave a switch entered at the first of bodies: none when
\* it exits, and those of its first break otherwise.
EntryPaths(bodies, facts) ==
  IF bodies = << >> THEN {facts}
  ELSE LET after == Simulate(Head(bodies), facts) IN
       CASE BlockEffect(Head(bodies)) = "falls"  -> EntryPaths(Tail(bodies), after)
         [] BlockEffect(Head(bodies)) = "breaks" -> {after}
         [] OTHER                                -> {}

\* merge_switch_constant_env_paths
AfterSwitch(s, facts) ==
  LET bodies   == [j \in DOMAIN s.cases |-> s.cases[j].body] \o s.default
      From(j)  == EntryPaths(SubSeq(bodies, j, Len(bodies)), facts)
      past     == Len(s.cases) + 1
      matching == SelectInSeq(s.cases, LAMBDA c : c.v = s.e.v)
  IN  IF ~Known(s.e) THEN Merge(UNION {From(j) : j \in 1..past})
      ELSE IF matching # 0 THEN Merge(From(matching)) ELSE IF s.default = << >> THEN facts
      ELSE Merge(From(past))

PropSwitch(s, facts) ==
  LET e    == PropExpr(s.e, facts)
      base == AfterExpr(facts, e)
      new  == [s EXCEPT !.e = e, !.default = PropOptional(@, base),
                        !.cases = [j \in DOMAIN @ |-> Case(@[j].v, PropBlock(@[j].body, base).body)]]
  IN  Walked(new, AfterSwitch(new, base))

\* merge_try_constant_env_paths: the catch bodies start from the facts before
\* the try statement.
AfterTry(s, facts) ==
  LET ends  == (IF Falls(s.body) THEN {s.body} ELSE {})
               \cup (IF BlockMayThrow(s.body) THEN {c \in Range(s.catches) : Falls(c)} ELSE {})
      paths == {Simulate(b, facts) : b \in ends}
  IN  IF s.finally = << >> THEN Merge(paths)
      ELSE IF Falls(s.finally[1]) THEN Merge({Simulate(s.finally[1], p) : p \in paths})
      ELSE NoFacts

\* mutant: the facts before the statement hold in the finally body
PropTryFinally(s, facts) ==
  LET new == Try(PropBlock(s.body, facts).body, PropOptional(s.catches, facts),
                 PropOptional(s.finally, facts))
  IN  Walked(new, AfterTry(new, facts))

PropTry(s, facts) ==
  LET new == Try(PropBlock(s.body, facts).body, PropOptional(s.catches, facts),
                 PropOptional(s.finally, NoFacts))
  IN  Walked(new, AfterTry(new, facts))

PropStmt(s, facts) ==
  LET Simple(e, after) == Walked([s EXCEPT !.e = e], after) IN
  CASE s.k \in {"echo", "do"} -> LET e == PropExpr(s.e, facts) IN Simple(e, AfterExpr(facts, e))
    [] s.k = "assign"         -> LET e == PropExpr(s.e, facts) IN Simple(e, AfterAssign(facts, s.x, e))
    [] s.k \in {"ref", "throw"} -> Walked(s, NoFacts)
    [] s.k = "if"      -> PropIf(s, facts)
    [] s.k = "while"   -> PropWhile(s, facts)
    [] s.k = "dowhile" -> PropDoWhile(s, facts)
    [] s.k = "for"     -> PropFor(s, facts)
    [] s.k = "foreach" -> PropForeach(s, facts)
    [] s.k = "switch"  -> PropSwitch(s, facts)
    [] s.k = "try"     -> PropTry(s, facts)
    [] OTHER           -> Walked(s, facts)

-----------------------------------------------------------------------------
VARIABLES
  source,  \* the script as it was parsed
  script,  \* the script as it is now
  facts,   \* what is known at its end
  passed   \* whether the pass has run

vars == <<source, script, facts, passed>>

Init ==
  /\ source \in Scripts
  /\ script = source
  /\ facts = NoFacts
  /\ passed = FALSE

\* propagate_constants
Propagate ==
  /\ ~passed
  /\ LET walk == PropBlock(source, NoFacts) IN script' = walk.body /\ facts' = walk.facts
  /\ passed' = TRUE
  /\ UNCHANGED source

Next == Propagate

Spec == Init /\ [][Next]_vars

-----------------------------------------------------------------------------
\* What a user sees of a run.
Seen(r) == <<r.out, r.printed>>

\* Whatever a run meets, the rewritten script prints what the script that was
\* written prints, and ends as it ends.
MeaningKept == \A i \in Inputs : Seen(Run(script, i)) = Seen(Run(source, i))

\* A fact the pass hands on after the last statement is true in every run
\* that gets there: it is what the next pass and an enclosing block build on.
FactsTrue ==
  passed => \A i \in Inputs : LET r == Run(source, i) IN
    Going(r) => \A x \in DOMAIN facts : Value(r, x) = facts[x]
=============================================================================
