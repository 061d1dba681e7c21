----------------------------- MODULE TryLowering -----------------------------
(***************************************************************************)
(* How the EIR frontend lowers a function body that uses try, catch,      *)
(* finally, throw, return, break and continue                             *)
(* (src/src/ir_lower/stmt/mod.rs) into basic blocks                       *)
(* (src/src/ir/builder.rs).                                               *)
(*                                                                         *)
(* A statement is a record: mark (any statement with a visible effect),   *)
(* throw, call (of the program's one helper function, under the @         *)
(* operator when quiet), return, break, continue, if, loop and try.       *)
(* Expressions, locals and every other statement are left out.  One       *)
(* integer variable drives the conditions: a loop runs while it is below  *)
(* Trips and increments it, an if compares it with a constant.            *)
(*                                                                         *)
(* The lowering carries a context b: the blocks made so far, the block    *)
(* under construction, the stack of finally bodies that protect the       *)
(* statement being lowered, and the stack of enclosing loops.             *)
(***************************************************************************)
EXTENDS Naturals, Sequences, SequencesExt

Statement(k) == [k |-> k]
Mark(m) == [k |-> "mark", m |-> m]
Throw(e) == [k |-> "throw", e |-> e]
CallHelper == [k |-> "call", quiet |-> FALSE]
CallQuietly == [k |-> "call", quiet |-> TRUE]
If(at, body) == [k |-> "if", at |-> at, body |-> body]
Loop(body) == [k |-> "loop", body |-> body]
Catch(types, body) == [types |-> types, body |-> body]
\* Without a finally clause, finally is the empty sequence.
Try(body, catches, finally) ==
  [k |-> "try", body |-> body, catches |-> catches, finally |-> finally]

-----------------------------------------------------------------------------
\* The builder.

Open == <<"open">>
EmptyBlock == [ops |-> << >>, term |-> Open]

Start == [blocks |-> <<EmptyBlock>>, cur |-> 1, finals |-> << >>, loops |-> << >>]

Terminated(b) == b.blocks[b.cur].term # Open

Emit(b, op) == [b EXCEPT !.blocks[b.cur].ops = Append(@, op)]

Terminate(b, term) == [b EXCEPT !.blocks[b.cur].term = term]

At(b, k) == [b EXCEPT !.cur = k]

\* The next block to be created, and b with n more blocks.
Fresh(b) == Len(b.blocks) + 1
WithBlocks(b, n) == [b EXCEPT !.blocks = @ \o [j \in 1..n |-> EmptyBlock]]

BranchTo(b, k) == IF Terminated(b) THEN b ELSE Terminate(b, <<"br", k>>)

PushFinally(b, body, onThrow, handler) ==
  [b EXCEPT !.finals = Append(@, [body |-> body, onThrow |-> onThrow, handler |-> handler])]

\* pop_finally_frame_if_active: a frame that an exit already consumed is not
\* popped twice.
PopFinally(b, depth) ==
  IF Len(b.finals) > depth THEN [b EXCEPT !.finals = Front(@)] ELSE b

-----------------------------------------------------------------------------
RECURSIVE LowerStmt(_, _), LowerBlock(_, _)

LowerBlock(b, body) ==
  IF body = << >> THEN b ELSE LowerBlock(LowerStmt(b, Head(body)), Tail(body))

KeepsHandler(b, frame) == b   \* mutant

DropsHandler(b, frame) ==
  IF frame.handler = 0 THEN b ELSE Emit(b, <<"pop", frame.handler>>)

\* run_innermost_finally: the frame is consumed, its handler popped, its body
\* inlined.
RunFinally(b) ==
  LET frame == Last(b.finals)
  IN  LowerBlock(DropsHandler([b EXCEPT !.finals = Front(@)], frame), frame.body)

RECURSIVE Leave(_, _)

\* terminate_return, terminate_branch and terminate_throw: the bodies of the
\* active finally frames, innermost first, then the exit itself.
Leave(b, exit) ==
  IF b.finals = << >> \/ (exit[1] = "throw" /\ ~Last(b.finals).onThrow)
  THEN Terminate(b, exit)
  ELSE LET ran == RunFinally(b) IN IF Terminated(ran) THEN ran ELSE Leave(ran, exit)

LowerIf(b, s) ==
  LET merge == Fresh(b)
      split == Terminate(WithBlocks(b, 3), <<"if", s.at, merge + 1, merge + 2>>)
      then == BranchTo(LowerBlock(At(split, merge + 1), s.body), merge)
  IN  At(BranchTo(At(then, merge + 2), merge), merge)

LowerLoop(b, s) ==
  LET header == Fresh(b)
      exit == header + 2
      entered == At(BranchTo(WithBlocks(b, 3), header), header)
      tested == At(Terminate(entered, <<"loop", header + 1, exit>>), header + 1)
      inside == [tested EXCEPT !.loops = Append(@, [brk |-> exit, cont |-> header])]
      body == LowerBlock(inside, s.body)
  IN  At(BranchTo([body EXCEPT !.loops = Front(@)], header), exit)

CatchBodyBare(b, body, finally) == LowerBlock(b, body)   \* mutant

\* The body of a catch clause, protected by the finally clause when there is one.
CatchBody(b, body, finally) ==
  IF finally = << >> THEN LowerBlock(b, body)
  ELSE PopFinally(LowerBlock(PushFinally(b, finally, TRUE, 0), body), Len(b.finals))

\* One catch clause: the match test, the binding, the body, the fall
\* through.
LowerCatch(b, catch, finally, after) ==
  LET body == Fresh(b)
      matched == Terminate(WithBlocks(b, 2), <<"match", catch.types, body, body + 1>>)
      bound == Emit(At(matched, body), <<"bind", 0>>)
      done == CatchBody(bound, catch.body, finally)
      left == IF Terminated(done) THEN done ELSE BranchTo(LowerBlock(done, finally), after)
  IN  At(left, body + 1)

RECURSIVE LowerCatches(_, _, _, _)

LowerCatches(b, catches, finally, after) ==
  IF catches = << >> THEN b
  ELSE LowerCatches(LowerCatch(b, Head(catches), finally, after), Tail(catches), finally, after)

\* The clauses in order; when none matches, the finally clause runs and the
\* exception continues.
LowerDispatch(b, s, handler, after) ==
  LET tried == LowerCatches(b, s.catches, s.finally, after)
      final == LowerBlock(Emit(tried, <<"current", handler>>), s.finally)
  IN  IF Terminated(final) THEN final ELSE Terminate(final, <<"rethrow", handler>>)

DispatchUnpopped(b, handler) == At(b, handler)   \* mutant

\* Where longjmp lands: the handler is popped first.
DispatchEntry(b, handler) == Emit(At(b, handler), <<"pop", handler>>)

\* lower_try_catch and lower_try_catch_finally.
LowerTryCatch(b, s) ==
  LET handler == Fresh(b)
      after == handler + 1
      depth == Len(b.finals)
      pushed == Emit(WithBlocks(b, 2), <<"push", handler>>)
      body == IF s.finally = << >>
              THEN LowerBlock(pushed, s.body)
              ELSE PopFinally(LowerBlock(PushFinally(pushed, s.finally, FALSE, handler), s.body),
                              depth)
      left == IF Terminated(body) THEN body
              ELSE BranchTo(LowerBlock(Emit(body, <<"pop", handler>>), s.finally), after)
  IN  At(LowerDispatch(DispatchEntry(left, handler), s, handler, after), after)

\* lower_try_finally_without_catches: no handler is pushed.
LowerTryFinally(b, s) ==
  LET depth == Len(b.finals)
      body == PopFinally(LowerBlock(PushFinally(b, s.finally, TRUE, 0), s.body), depth)
  IN  IF Terminated(body) THEN body ELSE LowerBlock(body, s.finally)

LowerTry(b, s) == IF s.catches = << >> THEN LowerTryFinally(b, s) ELSE LowerTryCatch(b, s)

LowerCall(b, s) ==
  IF s.quiet THEN Emit(Emit(Emit(b, <<"suppress", 0>>), <<"call", 0>>), <<"restore", 0>>)
             ELSE Emit(b, <<"call", 0>>)

\* lower_stmt: nothing is emitted into a block that already ended.
LowerStmt(b, s) ==
  CASE Terminated(b)     -> b
    [] s.k = "mark"      -> Emit(b, <<"mark", s.m>>)
    [] s.k = "call"      -> LowerCall(b, s)
    [] s.k = "throw"     -> Leave(b, <<"throw", s.e>>)
    [] s.k = "return"    -> Leave(b, <<"return">>)
    [] s.k = "break"     -> Leave(b, <<"br", Last(b.loops).brk>>)
    [] s.k = "continue"  -> Leave(b, <<"br", Last(b.loops).cont>>)
    [] s.k = "if"        -> LowerIf(b, s)
    [] s.k = "loop"      -> LowerLoop(b, s)
    [] s.k = "try"       -> LowerTry(b, s)

\* The blocks of a function; a body that falls through returns.
LowerFunction(body) ==
  LET b == LowerBlock(Start, body)
  IN  (IF Terminated(b) THEN b ELSE Terminate(b, <<"return">>)).blocks
=============================================================================
