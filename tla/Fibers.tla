-------------------------------- MODULE Fibers --------------------------------
(***************************************************************************)
(* PHP fibers (src/src/codegen/runtime/fibers): cooperative contexts of   *)
(* execution, each on a native stack of its own, that hand control to one *)
(* another through __rt_fiber_switch.                                     *)
(*                                                                         *)
(* One context runs at a time, the main program or a fiber.  A step is    *)
(* what it executes up to its next call of the runtime, or to the next    *)
(* switch.  resume[c] is where context c continues: the program's own     *)
(* code, or the place in a helper at which its stack was switched away.   *)
(*                                                                         *)
(* The record of a try statement lies on the stack of the context that    *)
(* executes it, so a handler is named by the context and the nesting      *)
(* level; level 0 is the handler the entry trampoline installs at the     *)
(* bottom of a fiber's stack.                                             *)
(***************************************************************************)
EXTENDS Naturals

CONSTANTS
  Fibers,       \* the Fiber objects
  Main,         \* the main program; _fiber_current is NULL while it runs
  Values,       \* what start, resume, suspend and return carry
  Null,         \* PHP null, what start and resume return at termination
  Throwables,   \* what a program throws
  FiberError,   \* what the runtime throws when a fiber is misused
  Nothing,      \* an empty slot
  NoHandler,    \* the end of the handler chain
  MaxTries,     \* bound: nested try statements in one context
  MaxQuiet,     \* bound: nested @ operators in one context
  Idioms        \* what programs do: "quietswitch", "freeactive"

ASSUME ContextsAssumption == Main \notin Fibers
ASSUME SlotsAssumption == Nothing \notin Values \cup {Null} \cup Throwables \cup {FiberError}
ASSUME BoundsAssumption == MaxTries \in Nat /\ MaxQuiet \in Nat

Contexts == Fibers \cup {Main}
Handlers == Contexts \X (0..MaxTries)

ASSUME HandlersAssumption == NoHandler \notin Handlers

VARIABLES
  current,   \* _fiber_current
  state,     \* of each Fiber object; "absent" before construction and when freed
  caller,    \* the context that resumed the fiber last
  transfer,  \* transfer_value: the value in transit
  pending,   \* pending_throw: the exception in transit
  top,       \* _exc_handler_top
  saved,     \* own_exc_head of a fiber, _fiber_main_saved_exc of the main program
  record,    \* the handler records: the next one, the saved depth of @
  diag,      \* _rt_diag_suppression
  exc,       \* _exc_value, until a catch clause takes it
  resume,    \* where a context continues
  tries,     \* the try statements a context is inside of
  quiet,     \* the @ operators a context is inside of
  outcome,   \* what the last call gave the running program
  status     \* of the process

vars == <<current, state, caller, transfer, pending, top, saved, record, diag, exc,
          resume, tries, quiet, outcome, status>>

fiberVars == <<state, caller, transfer, pending>>
codeVars == <<tries, quiet>>

User == <<"user">>
Gone == <<"gone">>

Init ==
  /\ current = Main
  /\ state = [f \in Fibers |-> "absent"]
  /\ caller = [f \in Fibers |-> Main]
  /\ transfer = [f \in Fibers |-> Nothing]
  /\ pending = [f \in Fibers |-> Nothing]
  /\ top = NoHandler
  /\ saved = [c \in Contexts |-> NoHandler]
  /\ record = [h \in Handlers |-> [next |-> NoHandler, diag |-> 0, quiet |-> 0]]
  /\ diag = 0
  /\ exc = Nothing
  /\ resume = [c \in Contexts |-> IF c = Main THEN User ELSE Gone]
  /\ tries = [c \in Contexts |-> 0]
  /\ quiet = [c \in Contexts |-> 0]
  /\ outcome = Nothing
  /\ status = "running"

At(place) == status = "running" /\ resume[current] = place
Exists(f) == state[f] # "absent"

-----------------------------------------------------------------------------
SwitchMixed(head, next) ==   \* mutant
  /\ saved' = [saved EXCEPT ![current] = head]
  /\ top' = head
  /\ current' = next

\* __rt_fiber_switch: the head of the running context's handler chain is
\* saved and that of the next one restored; the depth of @ is not.
Switch(head, next) ==
  /\ saved' = [saved EXCEPT ![current] = head]
  /\ top' = saved'[next]
  /\ current' = next

\* __rt_throw_current with the chain at head: control continues at the
\* handler, on the stack the handler is on.  A fiber's bottom handler leads to
\* the trampoline's escape path, any other to the catch clauses of a try
\* statement, which pop its record first.
CaughtKeepsDiag(e, head) ==   \* mutant
  /\ exc' = Nothing
  /\ resume' = [resume EXCEPT ![current] = User]
  /\ top' = record[head].next
  /\ tries' = [tries EXCEPT ![current] = head[2] - 1]
  /\ quiet' = [quiet EXCEPT ![current] = record[head].quiet]
  /\ outcome' = <<"thrown", e>>
  /\ UNCHANGED <<diag, status>>

Caught(e, head) ==
  /\ exc' = Nothing
  /\ resume' = [resume EXCEPT ![current] = User]
  /\ top' = record[head].next
  /\ diag' = record[head].diag
  /\ tries' = [tries EXCEPT ![current] = head[2] - 1]
  /\ quiet' = [quiet EXCEPT ![current] = record[head].quiet]
  /\ outcome' = <<"thrown", e>>
  /\ UNCHANGED status

Escaped(e, head) ==
  /\ exc' = e
  /\ resume' = [resume EXCEPT ![current] = <<"escape">>]
  /\ top' = head
  /\ tries' = [tries EXCEPT ![current] = 0]
  /\ quiet' = [quiet EXCEPT ![current] = 0]
  /\ outcome' = Nothing
  /\ UNCHANGED <<diag, status>>

Died(e, head, how) ==
  /\ exc' = e
  /\ top' = head
  /\ status' = how
  /\ UNCHANGED <<resume, diag, tries, quiet, outcome>>

Raise(e, head) ==
  /\ \/ head = NoHandler /\ Died(e, head, "uncaught")
     \/ head # NoHandler /\ head[1] # current /\ Died(e, head, "wild")
     \/ head # NoHandler /\ head[1] = current /\ head[2] = 0 /\ Escaped(e, head)
     \/ head # NoHandler /\ head[1] = current /\ head[2] # 0 /\ Caught(e, head)
  /\ UNCHANGED <<current, saved, record>>

\* __rt_fiber_throw_state_error.
StateError == Raise(FiberError, top) /\ UNCHANGED fiberVars

-----------------------------------------------------------------------------
\* The program's own code: the helpers it calls.

\* The helpers that switch to another context; the frame of the one called
\* last keeps the place to continue at.
SwitchTo(next, place) ==
  /\ "quietswitch" \in Idioms \/ quiet[current] = 0
  /\ Switch(top, next)
  /\ resume' = [resume EXCEPT ![current] = place]
  /\ outcome' = Nothing
  /\ UNCHANGED <<record, diag, exc, status, codeVars>>

\* __rt_fiber_construct.
Construct(f) ==
  /\ At(User) /\ ~Exists(f)
  /\ state' = [state EXCEPT ![f] = "NotStarted"]
  /\ caller' = [caller EXCEPT ![f] = Main]
  /\ transfer' = [transfer EXCEPT ![f] = Nothing]
  /\ pending' = [pending EXCEPT ![f] = Nothing]
  /\ saved' = [saved EXCEPT ![f] = NoHandler]
  /\ resume' = [resume EXCEPT ![f] = <<"entry">>]
  /\ UNCHANGED <<current, top, record, diag, exc, outcome, status, codeVars>>

\* __rt_fiber_construct when no stack can be mapped.
ConstructFails == At(User) /\ StateError

\* __rt_fiber_start.
Start(f) ==
  /\ At(User) /\ Exists(f)
  /\ IF state[f] = "NotStarted"
     THEN /\ caller' = [caller EXCEPT ![f] = current]
          /\ SwitchTo(f, <<"tail", f>>)
          /\ UNCHANGED <<state, transfer, pending>>
     ELSE StateError

ResumeKeepsCaller(f, v) ==   \* mutant
  /\ At(User) /\ Exists(f)
  /\ IF state[f] = "Suspended"
     THEN /\ transfer' = [transfer EXCEPT ![f] = v]
          /\ SwitchTo(f, <<"tail", f>>)
          /\ UNCHANGED <<state, caller, pending>>
     ELSE StateError

\* __rt_fiber_resume.
Resume(f, v) ==
  /\ At(User) /\ Exists(f)
  /\ IF state[f] = "Suspended"
     THEN /\ transfer' = [transfer EXCEPT ![f] = v]
          /\ caller' = [caller EXCEPT ![f] = current]
          /\ SwitchTo(f, <<"tail", f>>)
          /\ UNCHANGED <<state, pending>>
     ELSE StateError

\* __rt_fiber_throw.
ThrowInto(f, e) ==
  /\ At(User) /\ Exists(f)
  /\ IF state[f] = "Suspended"
     THEN /\ pending' = [pending EXCEPT ![f] = e]
          /\ caller' = [caller EXCEPT ![f] = current]
          /\ SwitchTo(f, <<"tail", f>>)
          /\ UNCHANGED <<state, transfer>>
     ELSE StateError

\* __rt_fiber_suspend.
Suspend(v) ==
  /\ At(User)
  /\ IF current # Main
     THEN /\ transfer' = [transfer EXCEPT ![current] = v]
          /\ state' = [state EXCEPT ![current] = "Suspended"]
          /\ SwitchTo(caller[current], <<"wake">>)
          /\ UNCHANGED <<caller, pending>>
     ELSE StateError

\* __rt_fiber_get_return.
GetReturn(f) ==
  /\ At(User) /\ Exists(f)
  /\ IF state[f] = "Terminated"
     THEN /\ outcome' = <<"value", transfer[f]>>
          /\ UNCHANGED <<current, top, saved, record, diag, exc, resume, status,
                         fiberVars, codeVars>>
     ELSE StateError

\* The last reference to a Fiber object is dropped: __rt_object_free_deep
\* unmaps its stack whatever its state is.
Free(f) ==
  /\ At(User) /\ Exists(f)
  /\ "freeactive" \in Idioms \/ state[f] # "Running"
  /\ state' = [state EXCEPT ![f] = "absent"]
  /\ transfer' = [transfer EXCEPT ![f] = Nothing]
  /\ pending' = [pending EXCEPT ![f] = Nothing]
  /\ resume' = [resume EXCEPT ![f] = Gone]
  /\ tries' = [tries EXCEPT ![f] = 0]
  /\ quiet' = [quiet EXCEPT ![f] = 0]
  /\ UNCHANGED <<current, caller, top, saved, record, diag, exc, outcome, status>>

-----------------------------------------------------------------------------
\* The program's own code: try, throw and @.

\* lower_try_push_handler.
PushTry ==
  /\ At(User) /\ tries[current] < MaxTries
  /\ LET h == <<current, tries[current] + 1>>
     IN  /\ record' = [record EXCEPT
                         ![h] = [next |-> top, diag |-> diag, quiet |-> quiet[current]]]
         /\ top' = h
  /\ tries' = [tries EXCEPT ![current] = @ + 1]
  /\ UNCHANGED <<current, saved, diag, exc, resume, quiet, outcome, status, fiberVars>>

\* The record of the innermost try statement of the running code.
Innermost == record[<<current, tries[current]>>]

\* lower_try_pop_handler, at the end of the protected statements.
PopTry ==
  /\ At(User) /\ tries[current] > 0 /\ quiet[current] = Innermost.quiet
  /\ top' = Innermost.next
  /\ diag' = Innermost.diag
  /\ tries' = [tries EXCEPT ![current] = @ - 1]
  /\ UNCHANGED <<current, saved, record, exc, resume, quiet, outcome, status, fiberVars>>

Throw(e) == At(User) /\ Raise(e, top) /\ UNCHANGED fiberVars

\* __rt_diag_push_suppression and __rt_diag_pop_suppression around the operand
\* of @.
EnterQuiet ==
  /\ At(User) /\ quiet[current] < MaxQuiet
  /\ diag' = diag + 1
  /\ quiet' = [quiet EXCEPT ![current] = @ + 1]
  /\ UNCHANGED <<current, top, saved, record, exc, resume, tries, outcome, status, fiberVars>>

LeaveQuiet ==
  /\ At(User) /\ quiet[current] > 0
  /\ tries[current] > 0 => Innermost.quiet < quiet[current]
  /\ diag' = IF diag = 0 THEN 0 ELSE diag - 1
  /\ quiet' = [quiet EXCEPT ![current] = @ - 1]
  /\ UNCHANGED <<current, top, saved, record, exc, resume, tries, outcome, status, fiberVars>>

-----------------------------------------------------------------------------
\* The runtime's own code, between a switch and the program's.

\* __rt_fiber_entry up to the call of the callable: the bottom handler is
\* pushed on a fresh stack.
Entry ==
  /\ At(<<"entry">>)
  /\ LET h == <<current, 0>>
     IN  /\ record' = [record EXCEPT ![h] = [next |-> top, diag |-> diag, quiet |-> 0]]
         /\ top' = h
  /\ state' = [state EXCEPT ![current] = "Running"]
  /\ resume' = [resume EXCEPT ![current] = User]
  /\ UNCHANGED <<current, caller, transfer, pending, saved, diag, exc, outcome, status, codeVars>>

\* __rt_fiber_entry when the callable returned v.
Finish(v) ==
  /\ At(User) /\ current # Main
  /\ tries[current] = 0 /\ quiet[current] = 0
  /\ transfer' = [transfer EXCEPT ![current] = v]
  /\ state' = [state EXCEPT ![current] = "Terminated"]
  /\ Switch(record[<<current, 0>>].next, caller[current])
  /\ resume' = [resume EXCEPT ![current] = Gone]
  /\ outcome' = Nothing
  /\ UNCHANGED <<caller, pending, record, diag, exc, status, codeVars>>

\* __rt_fiber_entry when an exception reached the bottom handler.
Escape ==
  /\ At(<<"escape">>)
  /\ pending' = [pending EXCEPT ![current] = exc]
  /\ transfer' = [transfer EXCEPT ![current] = Nothing]
  /\ state' = [state EXCEPT ![current] = "Terminated"]
  /\ diag' = record[<<current, 0>>].diag
  /\ Switch(record[<<current, 0>>].next, caller[current])
  /\ resume' = [resume EXCEPT ![current] = Gone]
  /\ UNCHANGED <<caller, record, exc, outcome, status, codeVars>>

\* Control is back in the program's code with a result.
Return(result) ==
  /\ resume' = [resume EXCEPT ![current] = User]
  /\ outcome' = <<"value", result>>
  /\ UNCHANGED <<current, top, saved, record, diag, exc, status, codeVars>>

HandedBackNoNull(f) ==   \* mutant
  /\ At(<<"tail", f>>)
  /\ IF state[f] = "Terminated" /\ pending[f] # Nothing
     THEN /\ pending' = [pending EXCEPT ![f] = Nothing]
          /\ Raise(pending[f], top)
          /\ UNCHANGED transfer
     ELSE /\ Return(transfer[f])
          /\ transfer' = [transfer EXCEPT ![f] = Nothing]
          /\ UNCHANGED pending
  /\ UNCHANGED <<state, caller>>

HandedBackKeepsPending(f) ==   \* mutant
  /\ At(<<"tail", f>>)
  /\ IF state[f] = "Terminated" /\ pending[f] # Nothing
     THEN Raise(pending[f], top) /\ UNCHANGED <<transfer, pending>>
     ELSE IF state[f] = "Terminated"
     THEN Return(Null) /\ UNCHANGED <<transfer, pending>>
     ELSE /\ Return(transfer[f])
          /\ transfer' = [transfer EXCEPT ![f] = Nothing]
          /\ UNCHANGED pending
  /\ UNCHANGED <<state, caller>>

\* The end of __rt_fiber_start, __rt_fiber_resume and __rt_fiber_throw, when f
\* handed control back.
HandedBack(f) ==
  /\ At(<<"tail", f>>)
  /\ IF state[f] = "Terminated" /\ pending[f] # Nothing
     THEN /\ pending' = [pending EXCEPT ![f] = Nothing]
          /\ Raise(pending[f], top)
          /\ UNCHANGED transfer
     ELSE IF state[f] = "Terminated"
     THEN Return(Null) /\ UNCHANGED <<transfer, pending>>
     ELSE /\ Return(transfer[f])
          /\ transfer' = [transfer EXCEPT ![f] = Nothing]
          /\ UNCHANGED pending
  /\ UNCHANGED <<state, caller>>

\* The end of __rt_fiber_suspend, when the fiber was resumed.
Wake ==
  /\ At(<<"wake">>)
  /\ state' = [state EXCEPT ![current] = "Running"]
  /\ IF pending[current] # Nothing
     THEN /\ pending' = [pending EXCEPT ![current] = Nothing]
          /\ Raise(pending[current], top)
          /\ UNCHANGED transfer
     ELSE /\ Return(transfer[current])
          /\ transfer' = [transfer EXCEPT ![current] = Nothing]
          /\ UNCHANGED pending
  /\ UNCHANGED caller

Stopped == status # "running" /\ UNCHANGED vars

Next ==
  \/ \E f \in Fibers :
       \/ Construct(f) \/ Start(f) \/ GetReturn(f) \/ Free(f) \/ HandedBack(f)
       \/ \E v \in Values : Resume(f, v)
       \/ \E e \in Throwables : ThrowInto(f, e)
  \/ \E v \in Values : Suspend(v) \/ Finish(v)
  \/ \E e \in Throwables : Throw(e)
  \/ ConstructFails \/ PushTry \/ PopTry \/ EnterQuiet \/ LeaveQuiet
  \/ Entry \/ Escape \/ Wake
  \/ Stopped

Spec == Init /\ [][Next]_vars

-----------------------------------------------------------------------------
Places == {User, Gone, <<"entry">>, <<"wake">>, <<"escape">>} \cup {<<"tail", f>> : f \in Fibers}

Outcomes ==
  {Nothing} \cup {<<"value", v>> : v \in Values \cup {Null, Nothing}}
            \cup {<<"thrown", e>> : e \in Throwables \cup {FiberError}}

TypeOK ==
  /\ current \in Contexts
  /\ state \in [Fibers -> {"absent", "NotStarted", "Running", "Suspended", "Terminated"}]
  /\ caller \in [Fibers -> Contexts]
  /\ transfer \in [Fibers -> Values \cup {Nothing}]
  /\ pending \in [Fibers -> Throwables \cup {FiberError, Nothing}]
  /\ top \in Handlers \cup {NoHandler}
  /\ saved \in [Contexts -> Handlers \cup {NoHandler}]
  /\ record \in [Handlers -> [next : Handlers \cup {NoHandler}, diag : Nat, quiet : Nat]]
  /\ diag \in Nat
  /\ exc \in Throwables \cup {FiberError, Nothing}
  /\ resume \in [Contexts -> Places]
  /\ tries \in [Contexts -> 0..MaxTries]
  /\ quiet \in [Contexts -> Nat]
  /\ outcome \in Outcomes
  /\ status \in {"running", "uncaught", "wild"}

\* The fibers that were resumed and have not handed control back.
Active == {f \in Fibers : f = current \/ resume[f] \in {<<"tail", g>> : g \in Fibers}}

\* Control finds its way back to the main program: whatever fibers are active,
\* one of them hands control to a context outside of them, and every active
\* fiber hands it to the very context that waits for it.
ReturnsToMain ==
  status = "running" =>
    /\ \A f \in Active : resume[caller[f]] = <<"tail", f>>
    /\ \A S \in SUBSET Active : S # {} => \E f \in S : caller[f] \notin S

\* The handler a throw in context c goes to: that of its innermost try
\* statement, or the one at the bottom of its stack.
OwnHandler(c) ==
  IF tries[c] > 0 \/ (c # Main /\ resume[c] # <<"entry">>) THEN <<c, tries[c]>> ELSE NoHandler

\* An exception never jumps to another stack: the chain the running context
\* throws into is its own, whoever ran before it, and the chains of the others
\* are kept until they run again.
ChainsApart ==
  status = "running" =>
    /\ top = OwnHandler(current)
    /\ \A c \in Contexts \ {current} :
         resume[c] # Gone => saved[c] = OwnHandler(c)

\* The fiber a value or an exception is in transit from or to.
InTransit(f) ==
  \/ current = f /\ resume[f] = <<"wake">>
  \/ resume[current] = <<"tail", f>>

\* What is in transit is received at once: while the program's code runs, a
\* transfer slot holds nothing but what a callable returned, and no exception
\* is parked.
PayloadsInTransit ==
  status = "running" =>
    \A f \in Fibers : ~InTransit(f) =>
      /\ pending[f] = Nothing
      /\ transfer[f] # Nothing => state[f] = "Terminated"

\* A payload never takes the place of one that was not received.
PayloadsKept ==
  [][\A f \in Fibers :
       /\ transfer'[f] # transfer[f] => Nothing \in {transfer[f], transfer'[f]}
       /\ pending'[f] # pending[f] => Nothing \in {pending[f], pending'[f]}]_vars

\* A fiber that control will return to keeps its stack.
StacksMapped == \A f \in Active : Exists(f)

\* @ hides warnings for its operand only: the depth the runtime keeps is that
\* of the code that runs.
QuietOnlyInOperand == status = "running" /\ resume[current] = User => diag = quiet[current]
=============================================================================
