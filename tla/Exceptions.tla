------------------------------ MODULE Exceptions ------------------------------
(***************************************************************************)
(* The native program at work: the lowered blocks of a main function and  *)
(* of the helper it calls, the chain of exception handlers the runtime    *)
(* keeps (_exc_handler_top and the record each try block stores in its    *)
(* frame), the thrown object (_exc_value) and the depth of the @ operator *)
(* (_rt_diag_suppression).                                                *)
(*                                                                         *)
(* A handler lives in the frame of the activation that pushed it, in the  *)
(* slot of its dispatch block, so it is named by the two.  A throw unwinds *)
(* to the handler on top with longjmp, whatever became of its frame.      *)
(***************************************************************************)
EXTENDS TryLowering, PhpControlFlow

CONSTANT Programs   \* records with fields main and helper, each a sequence of statements

NoHandler == <<0, 0>>
NoException == "none"

VARIABLES
  program,   \* the program that runs
  code,      \* the blocks of its two functions
  frames,    \* the activations, innermost last
  born,      \* how many activations there have been
  top,       \* _exc_handler_top
  exc,       \* _exc_value
  diag,      \* _rt_diag_suppression
  i,         \* the variable the conditions read
  trace,     \* the marks made so far
  status     \* running, or how the program stopped

vars == <<program, code, frames, born, top, exc, diag, i, trace, status>>

Slot == [next |-> NoHandler, diag |-> 0, held |-> NoException]

Activation(blocks, fn, act) ==
  [fn |-> fn, act |-> act, at |-> 1, pc |-> 1, slots |-> [k \in DOMAIN blocks |-> Slot]]

Init ==
  \E p \in Programs :
    LET main == LowerFunction(p.main)
        helper == LowerFunction(p.helper)
    IN  /\ program = p
        /\ code = [main |-> main, helper |-> helper]
        /\ frames = <<Activation(main, "main", 1)>>
        /\ born = 1
        /\ top = NoHandler
        /\ exc = NoException
        /\ diag = 0
        /\ i = 0
        /\ trace = << >>
        /\ status = "running"

-----------------------------------------------------------------------------
Frame == Last(frames)
Block == code[Frame.fn][Frame.at]

\* The instruction about to run, or the terminator of the block.
Fetch == IF Frame.pc > Len(Block.ops) THEN Block.term ELSE Block.ops[Frame.pc]

Running(kind) == status = "running" /\ Fetch[1] = kind

WithFrame(f) == Append(Front(frames), f)
Stepped == WithFrame([Frame EXCEPT !.pc = @ + 1])
JumpTo(k) == frames' = WithFrame([Frame EXCEPT !.at = k, !.pc = 1])

DoMark ==
  /\ Running("mark")
  /\ trace' = Append(trace, <<Fetch[2], diag = 0>>)
  /\ frames' = Stepped
  /\ UNCHANGED <<program, code, born, top, exc, diag, i, status>>

\* lower_try_push_handler, on the path where setjmp returns zero.
PushHandler ==
  /\ Running("push")
  /\ LET h == Fetch[2]
     IN  /\ frames' = WithFrame([Frame EXCEPT !.pc = @ + 1, !.slots[h].next = top,
                                              !.slots[h].diag = diag])
         /\ top' = <<Frame.act, h>>
  /\ UNCHANGED <<program, code, born, exc, diag, i, trace, status>>

PopHandler ==
  /\ Running("pop")
  /\ top' = Frame.slots[Fetch[2]].next
  /\ diag' = Frame.slots[Fetch[2]].diag
  /\ frames' = Stepped
  /\ UNCHANGED <<program, code, born, exc, i, trace, status>>

\* lower_catch_bind empties the runtime slot.
CatchBind ==
  /\ Running("bind")
  /\ exc' = NoException
  /\ frames' = Stepped
  /\ UNCHANGED <<program, code, born, top, diag, i, trace, status>>

\* lower_catch_current: the exception stays in the runtime slot.
CatchCurrent ==
  /\ Running("current")
  /\ frames' = WithFrame([Frame EXCEPT !.pc = @ + 1, !.slots[Fetch[2]].held = exc])
  /\ UNCHANGED <<program, code, born, top, exc, diag, i, trace, status>>

Suppress ==
  /\ Running("suppress")
  /\ diag' = diag + 1
  /\ frames' = Stepped
  /\ UNCHANGED <<program, code, born, top, exc, i, trace, status>>

Restore ==
  /\ Running("restore")
  /\ diag' = IF diag = 0 THEN 0 ELSE diag - 1
  /\ frames' = Stepped
  /\ UNCHANGED <<program, code, born, top, exc, i, trace, status>>

Call ==
  /\ Running("call")
  /\ frames' = Append(Stepped, Activation(code.helper, "helper", born + 1))
  /\ born' = born + 1
  /\ UNCHANGED <<program, code, top, exc, diag, i, trace, status>>

-----------------------------------------------------------------------------
\* The terminators.

Branch ==
  /\ Running("br")
  /\ JumpTo(Fetch[2])
  /\ UNCHANGED <<program, code, born, top, exc, diag, i, trace, status>>

BranchIf ==
  /\ Running("if")
  /\ JumpTo(IF i = Fetch[2] THEN Fetch[3] ELSE Fetch[4])
  /\ UNCHANGED <<program, code, born, top, exc, diag, i, trace, status>>

BranchLoop ==
  /\ Running("loop")
  /\ JumpTo(IF i < Trips THEN Fetch[2] ELSE Fetch[3])
  /\ i' = IF i < Trips THEN i + 1 ELSE i
  /\ UNCHANGED <<program, code, born, top, exc, diag, trace, status>>

BranchMatch ==
  /\ Running("match")
  /\ JumpTo(IF exc \in Fetch[2] THEN Fetch[3] ELSE Fetch[4])
  /\ UNCHANGED <<program, code, born, top, exc, diag, i, trace, status>>

\* The epilogue drops the frame and touches no handler; main's ends the
\* process.
Return ==
  /\ Running("return")
  /\ frames' = Front(frames)
  /\ status' = IF Len(frames) = 1 THEN "exited" ELSE status
  /\ UNCHANGED <<program, code, born, top, exc, diag, i, trace>>

-----------------------------------------------------------------------------
\* The depth at which an activation is on the stack; 0 when it returned.
Depth(act) == SelectInSeq(frames, LAMBDA f : f.act = act)

Live(h) == Depth(h[1]) # 0

\* __rt_throw_current: the frames above the handler's are abandoned and the
\* program continues at the handler's dispatch block.  A jump into a frame
\* that returned is undefined: nothing after it is modelled.
Unwind ==
  CASE top = NoHandler -> frames' = << >> /\ status' = "uncaught"
    [] top # NoHandler /\ ~Live(top) -> frames' = << >> /\ status' = "wild"
    [] OTHER ->
         LET d == Depth(top[1])
         IN  /\ frames' = Append(SubSeq(frames, 1, d - 1),
                                 [frames[d] EXCEPT !.at = top[2], !.pc = 1])
             /\ UNCHANGED status

Raise(e) ==
  /\ exc' = e
  /\ Unwind
  /\ UNCHANGED <<program, code, born, top, diag, i, trace>>

ThrowNew == Running("throw") /\ Raise(Fetch[2])

Rethrow == Running("rethrow") /\ Raise(Frame.slots[Fetch[2]].held)

Stopped == status # "running" /\ UNCHANGED vars

Next ==
  \/ DoMark \/ PushHandler \/ PopHandler \/ CatchBind \/ CatchCurrent
  \/ Suppress \/ Restore \/ Call
  \/ Branch \/ BranchIf \/ BranchLoop \/ BranchMatch \/ Return
  \/ ThrowNew \/ Rethrow
  \/ Stopped

Spec == Init /\ [][Next]_vars

\* One thread of control, which always has a next instruction.
FairSpec == Spec /\ WF_vars(Next)

-----------------------------------------------------------------------------
Handlers == {NoHandler} \cup ((1..born) \X Nat)

\* Every block of the lowered functions ends in a terminator, as the EIR
\* validator demands, and every activation is at an instruction its function
\* has.
TypeOK ==
  /\ \A fn \in DOMAIN code : \A k \in DOMAIN code[fn] : code[fn][k].term # Open
  /\ \A d \in DOMAIN frames :
       /\ frames[d].act \in 1..born
       /\ frames[d].at \in DOMAIN code[frames[d].fn]
       /\ frames[d].pc \in 1..(Len(code[frames[d].fn][frames[d].at].ops) + 1)
  /\ top \in Handlers
  /\ exc \in Throwables \cup {NoException}
  /\ diag \in 0..born
  /\ i \in 0..Trips
  /\ status \in {"running", "exited", "uncaught", "wild"}

NextOf(h) == frames[Depth(h[1])].slots[h[2]].next

RECURSIVE Chain(_, _)

\* The handlers a sequence of throws reaches from h on; seen are those passed
\* already.
Chain(h, seen) ==
  IF h = NoHandler \/ h \in seen THEN seen
  ELSE IF Live(h) THEN Chain(NextOf(h), seen \cup {h}) ELSE seen \cup {h}

\* Every handler on the chain belongs to an activation that has not returned,
\* and its successor was pushed before it: in an older activation, or by an
\* enclosing try of the same one.  So a throw reaches the nearest active
\* handler, and a chain of rethrows ends.
ChainNests ==
  status = "running" =>
    \A h \in Chain(top, {}) :
      /\ Live(h)
      /\ LET g == NextOf(h) IN g[1] < h[1] \/ (g[1] = h[1] /\ g[2] < h[2])

\* A program that exits has popped every handler it pushed and left every @
\* scope it entered, by whatever path it left them.
ExitsClean == status = "exited" => top = NoHandler /\ diag = 0

\* What the program did so far is what PHP's control structures promise, and
\* it stops the way they say.
PhpBehaviour ==
  LET run == Promised(program)
  IN  /\ IsPrefix(trace, run.trace)
      /\ status # "running" => trace = run.trace
      /\ status = "exited" => ~Threw(run)
      /\ status = "uncaught" => run.out = exc
      /\ status # "wild"

Stops == <>(status # "running")
=============================================================================
