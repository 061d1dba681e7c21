----------------------------- MODULE Generators -----------------------------
(***************************************************************************)
(* Generator objects at run time: the frame a generator function allocates *)
(* (codegen/runtime/generators/frame.rs), the methods a script calls on it *)
(* (codegen/runtime/generators/mod.rs) and the resume function the         *)
(* compiler emits for its body (codegen/functions/generator/emit).         *)
(*                                                                         *)
(* The script runs while `phase' is "rest".  A method that resumes a       *)
(* generator puts it on `stack' and the resume function goes through       *)
(* "dispatch" (jump to the label of the last yield), "body" (the PHP       *)
(* statements: any sequence of them) and, in an outer generator that       *)
(* delegates with `yield from', "returned" (the inner resume function came *)
(* back).  "deliver" is the tail of the method the script called.          *)
(*                                                                         *)
(* A boxed Mixed value is a cell with a reference count; keys are boxed    *)
(* and released together with the values, and stand with them.  A local of *)
(* the body is a Mixed slot; one is enough for every use of a slot.  An    *)
(* integer slot that receives a sent value releases the box at once, as a  *)
(* plain yield does.  A frame has one owner here: a variable of the script *)
(* or the generator that called for it, so that releasing it frees it.     *)
(***************************************************************************)
EXTENDS Integers, Sequences, FiniteSets

CONSTANTS
    Gens,     \* generator frames
    Cells,    \* boxed Mixed values
    None,     \* the null pointer
    Handles,  \* how many generators the script holds at a time, which
              \* bounds the model
    Habits    \* what a script does beyond the protocol of foreach, see Habit

\* "early": next, send or throw before the first rewind or current
\* "abandon": dropping a generator that still holds a local or a delegate
\*          that belongs to someone else
\* "share": using a generator that was passed to another one not yet finished
\* "raise": a body throws before its first yield, or between the start or
\*          the end of a delegation and the yield that follows
ASSUME HabitsAssumption ==
    Habits \subseteq {"early", "abandon", "share", "raise"}

ASSUME HandlesAssumption == Handles \in Nat

ASSUME NoneAssumption == None \notin Gens /\ None \notin Cells

\* The frames fit in memory.
ASSUME GensAssumption == IsFiniteSet(Gens)

VARIABLES
    gens,     \* the frames
    cells,    \* the reference counts of the boxed values, 0 when free
    vars,     \* the generators the script's variables hold
    got,      \* the value the script's variable holds
    stack,    \* the resume functions that run, the innermost one last
    phase,    \* where the innermost one is
    op,       \* the method the script is in, and on which generator
    doomed    \* the frames whose reference is being released

gvars == <<gens, cells, vars, got, stack, phase, op, doomed>>

Phases == {"rest", "dispatch", "body", "returned", "deliver"}
Labels == {"entry", "plain", "assign", "from"}

Frame == [live: BOOLEAN, at: Labels,
          rewound: BOOLEAN, terminated: BOOLEAN,
          last: Cells \cup {None}, ret: Cells \cup {None},
          sent: Cells \cup {None}, local: Cells \cup {None},
          iter: Gens \cup {None}, owned: BOOLEAN, arg: Gens \cup {None}]

\* No frame, or the frame the wrapper has just filled with zeroes.
Blank == [live |-> FALSE, at |-> "entry",
          rewound |-> FALSE, terminated |-> FALSE,
          last |-> None, ret |-> None, sent |-> None, local |-> None,
          iter |-> None, owned |-> FALSE, arg |-> None]

\* The frame a call of a generator function returns, given its parameter.
NewFrame(a) == [Blank EXCEPT !.live = TRUE, !.arg = a]

NoOp == [name |-> "none", gen |-> None]

-----------------------------------------------------------------------------
(***************************************************************************)
(* Reference counts                                                        *)
(***************************************************************************)
Times(x, s) == Cardinality({k \in DOMAIN s : s[k] = x})

\* The references of gains are taken, those of losses released; a null
\* pointer is neither.
Count(gains, losses) ==
    cells' = [c \in Cells |-> cells[c] + Times(c, gains) - Times(c, losses)]

\* A box the heap can hand out; that one is left bounds the model.
Free == {c \in Cells : cells[c] = 0}

\* What an expression of the body evaluates to: a new box, or the cell of
\* the Mixed slot, shared.
Sources(g) == Free \cup {gens[g].local}

Top == stack[Len(stack)]
Below == SubSeq(stack, 1, Len(stack) - 1)

\* The resume function of the innermost generator returns to its caller.
Leave == /\ stack' = Below
         /\ phase' = IF Len(stack) = 1 THEN "deliver" ELSE "returned"

\* The resume function of i is called.
Enter(below, i) == /\ stack' = Append(below, i)
                   /\ phase' = "dispatch"

-----------------------------------------------------------------------------
(***************************************************************************)
(* What the script may do                                                  *)
(***************************************************************************)
Habit(h) == h \in Habits

\* Some generator that has not finished was given g as its parameter.
Lent(g) == \E b \in Gens : gens[b].live /\ ~gens[b].terminated /\ gens[b].arg = g

AtRest == phase = "rest" /\ doomed = <<>>

\* The script calls a method of g.
Asks(g) == AtRest /\ g \in vars /\ (Habit("share") \/ ~Lent(g))

Started(g) == Habit("early") \/ gens[g].rewound

\* Nothing is lost when the frame of g is freed, nor when those of the
\* delegates that no variable holds are.
Quiet(g) ==
    \/ Habit("abandon")
    \/ \A h \in Gens : gens[h].live /\ (h = g \/ h \notin vars) =>
          /\ gens[h].local = None
          /\ gens[h].iter # None => gens[h].owned

\* A generator function is called with parameter a, which stays the caller's.
Create(g, a) ==
    /\ AtRest /\ ~gens[g].live
    /\ a \in vars \cup {None}
    /\ Cardinality(vars) < Handles
    /\ a # None => Habit("share") \/ ~Lent(a)
    /\ gens' = [gens EXCEPT ![g] = NewFrame(a)]
    /\ vars' = vars \cup {g}
    /\ UNCHANGED <<cells, got, stack, phase, op, doomed>>

\* rewind() and the first current() run the body to its first yield.
\* Neither looks at TERMINATED.
Start(g, name) ==
    /\ Asks(g) /\ ~gens[g].rewound
    /\ gens' = [gens EXCEPT ![g].rewound = TRUE]
    /\ op' = [name |-> name, gen |-> g]
    /\ Enter(<<>>, g)
    /\ UNCHANGED <<cells, vars, got, doomed>>

\* A method returns the cell v to the script, which assigns it to its variable.
Give(v) == got' = v /\ Count(<<v>>, <<got>>)

\* current() of a generator that was started, and getReturn().
Read(g, v) ==
    /\ Asks(g)
    /\ \/ gens[g].rewound /\ v = gens[g].last
       \/ v = gens[g].ret
    /\ Give(v)
    /\ UNCHANGED <<gens, vars, stack, phase, op, doomed>>

\* mutant: next() without the test of TERMINATED
CallNextAlways(g) ==
    /\ Asks(g) /\ Started(g)
    /\ op' = [name |-> "next", gen |-> g]
    /\ Enter(<<>>, g)
    /\ UNCHANGED <<gens, cells, vars, got, doomed>>

\* next().
CallNext(g) ==
    /\ Asks(g) /\ Started(g) /\ ~gens[g].terminated
    /\ op' = [name |-> "next", gen |-> g]
    /\ Enter(<<>>, g)
    /\ UNCHANGED <<gens, cells, vars, got, doomed>>

\* send(): the payload c was boxed for this call and now belongs to the frame.
\* A finished generator only returns null.
Send(g, c) ==
    /\ Asks(g) /\ Started(g) /\ c \in Free /\ ~gens[g].terminated
    /\ gens' = [gens EXCEPT ![g].sent = c]
    /\ Count(<<c>>, <<>>)
    /\ op' = [name |-> "send", gen |-> g]
    /\ Enter(<<>>, g)
    /\ UNCHANGED <<vars, got, doomed>>

\* throw(): the generator is finished and the script catches the exception.
Throw(g) ==
    /\ Asks(g) /\ Started(g)
    /\ gens' = [gens EXCEPT ![g].terminated = TRUE]
    /\ UNCHANGED <<cells, vars, got, stack, phase, op, doomed>>

\* The script's variable gives up the generator, or the value.
Drop(g) ==
    /\ Asks(g) /\ Quiet(g)
    /\ vars' = vars \ {g}
    /\ doomed' = <<g>>
    /\ UNCHANGED <<gens, cells, got, stack, phase, op>>

Forget ==
    /\ AtRest /\ got # None
    /\ got' = None
    /\ Count(<<>>, <<got>>)
    /\ UNCHANGED <<gens, vars, stack, phase, op, doomed>>

-----------------------------------------------------------------------------
(***************************************************************************)
(* The resume function                                                     *)
(***************************************************************************)
Runs(p, g) == doomed = <<>> /\ phase = p /\ stack # <<>> /\ g = Top

\* The jump to the label of the yield the body stopped at, and the code there:
\* a plain yield releases what was sent, `$x = yield' moves it to the slot.
DispatchYield(g) ==
    /\ Runs("dispatch", g) /\ gens[g].at # "from"
    /\ phase' = "body"
    /\ LET sent == gens[g].sent IN
         CASE gens[g].at = "entry" -> UNCHANGED <<gens, cells>>
           [] gens[g].at = "plain" ->
                 /\ gens' = [gens EXCEPT ![g].sent = None]
                 /\ Count(<<>>, <<sent>>)
           [] gens[g].at = "assign" ->
                 IF sent = None
                 THEN UNCHANGED <<gens, cells>>
                 ELSE /\ gens' = [gens EXCEPT ![g].sent = None, ![g].local = sent]
                      /\ Count(<<>>, <<gens[g].local>>)
    /\ UNCHANGED <<vars, got, stack, op, doomed>>

\* mutant: the value sent is lent to the delegate, and not cleared
DispatchFromLending(g) ==
    /\ Runs("dispatch", g) /\ gens[g].at = "from" /\ gens[g].iter # None
    /\ LET i == gens[g].iter IN
         /\ gens' = [gens EXCEPT ![i].sent = gens[g].sent]
         /\ Enter(stack, i)
    /\ UNCHANGED <<cells, vars, got, op, doomed>>

\* The label of `yield from': what was sent is handed to the delegate, which
\* is resumed as it is; with nothing sent it is next(), which looks first.
DispatchFrom(g) ==
    /\ Runs("dispatch", g) /\ gens[g].at = "from" /\ gens[g].iter # None
    /\ LET i == gens[g].iter
           sent == gens[g].sent IN
         IF sent # None
         THEN /\ gens' = [gens EXCEPT ![g].sent = None, ![i].sent = sent]
              /\ Enter(stack, i)
         ELSE /\ UNCHANGED gens
              /\ IF gens[i].terminated
                 THEN phase' = "returned" /\ UNCHANGED stack
                 ELSE Enter(stack, i)
    /\ UNCHANGED <<cells, vars, got, op, doomed>>

\* `yield v', or `$x = yield v': the new value is stored, the old one released.
Yield(g, label, v) ==
    /\ Runs("body", g)
    /\ label \in {"plain", "assign"} /\ v \in Sources(g)
    /\ gens' = [gens EXCEPT ![g].last = v, ![g].at = label]
    /\ Count(<<v>>, <<gens[g].last>>)
    /\ Leave
    /\ UNCHANGED <<vars, got, op, doomed>>

\* `$x = <literal>' for a Mixed local.
AssignMixed(g, v) ==
    /\ Runs("body", g) /\ v \in Free
    /\ gens' = [gens EXCEPT ![g].local = v]
    /\ Count(<<v>>, <<gens[g].local>>)
    /\ UNCHANGED <<vars, got, stack, phase, op, doomed>>

\* rewind() of the delegate i, in the frames after the delegation is stored.
RewindInner(g, i, frames) ==
    IF frames[i].rewound
    THEN gens' = frames /\ phase' = "returned" /\ UNCHANGED stack
    ELSE gens' = [frames EXCEPT ![i].rewound = TRUE] /\ Enter(stack, i)

\* `yield from f()': the delegate is new and belongs to the outer frame.
DelegateCall(g, i) ==
    /\ Runs("body", g) /\ ~gens[i].live
    /\ RewindInner(g, i, [gens EXCEPT ![i] = NewFrame(None),
                                      ![g].iter = i, ![g].owned = TRUE])
    /\ UNCHANGED <<cells, vars, got, op, doomed>>

\* `yield from $slot': the delegate is the parameter and stays the caller's.
DelegateSlot(g) ==
    /\ Runs("body", g) /\ gens[g].arg # None /\ gens[gens[g].arg].live
    /\ LET i == gens[g].arg IN
         RewindInner(g, i, [gens EXCEPT ![g].iter = i, ![g].owned = FALSE])
    /\ UNCHANGED <<cells, vars, got, op, doomed>>

\* mutant: the inner generator's value is stored without a reference
ForwardBorrowed(g) ==
    /\ Runs("returned", g)
    /\ LET i == gens[g].iter IN
         /\ ~gens[i].terminated
         /\ gens' = [gens EXCEPT ![g].last = gens[i].last, ![g].at = "from"]
         /\ Count(<<>>, <<gens[g].last>>)
    /\ Leave
    /\ UNCHANGED <<vars, got, op, doomed>>

\* The inner resume function came back and valid() holds: its value becomes
\* the outer one's, a reference each, and the outer generator suspends.
Forward(g) ==
    /\ Runs("returned", g)
    /\ LET i == gens[g].iter IN
         /\ ~gens[i].terminated
         /\ gens' = [gens EXCEPT ![g].last = gens[i].last, ![g].at = "from"]
         /\ Count(<<gens[i].last>>, <<gens[g].last>>)
    /\ Leave
    /\ UNCHANGED <<vars, got, op, doomed>>

\* The terminator: the flag is set and the locals are released.  The label
\* of the last yield stays.
Ended(f) == [f EXCEPT !.terminated = TRUE, !.local = None]

\* `return v', `return' (v is then what return_value already held), the end
\* of the body and a statement the compiler does not translate.
Return(g, v) ==
    /\ Runs("body", g)
    /\ v \in Sources(g) \cup {gens[g].ret}
    /\ gens' = [gens EXCEPT ![g] = [Ended(@) EXCEPT !.ret = v]]
    /\ Count(<<v>>, <<gens[g].ret, gens[g].local>>)
    /\ Leave
    /\ UNCHANGED <<vars, got, op, doomed>>

\* mutant: a delegate that has finished is forgotten, not released
EndDelegationKept(g, result) ==
    /\ Runs("returned", g)
    /\ result = "discard"
    /\ gens[gens[g].iter].terminated
    /\ gens' = [gens EXCEPT ![g].iter = None, ![g].owned = FALSE]
    /\ phase' = "body"
    /\ UNCHANGED <<cells, vars, got, stack, op, doomed>>

\* The delegate has finished: its return value goes where the expression
\* wants it, the delegate is released if it is owned and the body goes on.
EndDelegation(g, result) ==
    /\ Runs("returned", g)
    /\ result \in {"discard", "local", "return"}
    /\ LET f == gens[g]
           i == f.iter
           v == gens[i].ret
           over == [f EXCEPT !.iter = None, !.owned = FALSE] IN
         /\ gens[i].terminated
         /\ doomed' = IF f.owned THEN <<i>> ELSE <<>>
         /\ CASE result = "discard" ->
                   /\ gens' = [gens EXCEPT ![g] = over]
                   /\ phase' = "body"
                   /\ UNCHANGED <<cells, stack>>
             [] result = "local" ->
                   /\ gens' = [gens EXCEPT ![g] = [over EXCEPT !.local = v]]
                   /\ Count(<<v>>, <<f.local>>)
                   /\ phase' = "body"
                   /\ UNCHANGED stack
             [] result = "return" ->
                   /\ gens' = [gens EXCEPT ![g] = [Ended(over) EXCEPT !.ret = v]]
                   /\ Count(<<v>>, <<f.ret, f.local>>)
                   /\ Leave
    /\ UNCHANGED <<vars, got, op>>

\* A function the body calls throws: the exception passes every resume
\* function on the stack, which have no handler, and the script catches it.
\* The frames stay at the label of the yield each was resumed from.
Raise ==
    /\ doomed = <<>> /\ phase = "body"
    /\ \/ Habit("raise")
       \/ \A k \in DOMAIN stack :
             LET f == gens[stack[k]] IN
             f.at # "entry" /\ (f.at = "from" <=> f.iter # None)
    /\ stack' = <<>> /\ phase' = "rest" /\ op' = NoOp
    /\ UNCHANGED <<gens, cells, vars, got, doomed>>

\* The method returns to the script: current() and send() with a value.
Deliver ==
    /\ doomed = <<>> /\ phase = "deliver"
    /\ phase' = "rest" /\ op' = NoOp
    /\ LET f == gens[op.gen] IN
         CASE op.name = "current" -> Give(f.last)
           [] op.name = "send" -> Give(IF f.terminated THEN None ELSE f.last)
           [] OTHER -> UNCHANGED <<cells, got>>
    /\ UNCHANGED <<gens, vars, stack, doomed>>

\* __rt_object_free_deep on a generator frame: its values and its delegate
\* are released, whoever the delegate belongs to; its locals are not.
Release ==
    /\ doomed # <<>>
    /\ LET g == Head(doomed)
           f == gens[g] IN
         /\ f.live
         /\ gens' = [gens EXCEPT ![g] = Blank]
         /\ Count(<<>>, <<f.last, f.ret, f.sent>>)
         /\ doomed' = Tail(doomed) \o (IF f.iter = None THEN <<>> ELSE <<f.iter>>)
    /\ UNCHANGED <<vars, got, stack, phase, op>>

-----------------------------------------------------------------------------
Init ==
    /\ gens = [g \in Gens |-> Blank]
    /\ cells = [c \in Cells |-> 0]
    /\ vars = {}
    /\ got = None
    /\ stack = <<>>
    /\ phase = "rest"
    /\ op = NoOp
    /\ doomed = <<>>

Script(g) ==
    \/ \E a \in Gens \cup {None} : Create(g, a)
    \/ \E name \in {"rewind", "current"} : Start(g, name)
    \/ \E v \in Cells \cup {None} : Read(g, v)
    \/ CallNext(g)
    \/ \E c \in Cells : Send(g, c)
    \/ Throw(g)
    \/ Drop(g)

Resume(g) ==
    \/ DispatchYield(g)
    \/ DispatchFrom(g)
    \/ \E label \in {"plain", "assign"}, v \in Cells \cup {None} : Yield(g, label, v)
    \/ \E v \in Cells : AssignMixed(g, v)
    \/ \E i \in Gens : DelegateCall(g, i)
    \/ DelegateSlot(g)
    \/ Forward(g)
    \/ \E v \in Cells \cup {None} : Return(g, v)
    \/ \E result \in {"discard", "local", "return"} : EndDelegation(g, result)

Next ==
    \/ \E g \in Gens : Script(g) \/ Resume(g)
    \/ Forget
    \/ Raise
    \/ Deliver
    \/ Release

Spec == Init /\ [][Next]_gvars

-----------------------------------------------------------------------------
(***************************************************************************)
(* Properties                                                              *)
(***************************************************************************)
TypeOK ==
    /\ gens \in [Gens -> Frame]
    /\ cells \in [Cells -> Nat]
    /\ vars \subseteq Gens
    /\ got \in Cells \cup {None}
    /\ stack \in Seq(Gens)
    /\ phase \in Phases
    /\ op \in [name: {"none", "rewind", "current", "next", "send"}, gen: Gens \cup {None}]
    /\ doomed \in Seq(Gens)

Fields == {"last", "ret", "sent", "local"}

\* Where the cell c is referred to from.
Holders(c) == {h \in Gens \X Fields : gens[h[1]].live /\ gens[h[1]][h[2]] = c}

\* Every boxed value is counted once for each frame slot and variable that
\* holds it, at every step: yields, sends and delegations neither leak a box
\* nor free one that is still in use.
Counted ==
    \A c \in Cells :
        cells[c] = Cardinality(Holders(c)) + (IF got = c THEN 1 ELSE 0)

\* Every generator frame has exactly one owner: the script's variable, the
\* generator that called for it, or the release under way; so no variable
\* is left with a freed frame and none is lost.
OneOwner ==
    \A g \in Gens :
        Cardinality({h \in Gens : gens[h].live /\ gens[h].iter = g /\ gens[h].owned})
          + Times(g, doomed) + (IF g \in vars THEN 1 ELSE 0)
        = (IF gens[g].live THEN 1 ELSE 0)

\* What current() returns is the value of the innermost generator: while a
\* generator is suspended in `yield from' its delegate has not finished and
\* they show the same value, and no value sent is left over for a later yield.
CurrentIsInnermost ==
    AtRest => \A g \in Gens : gens[g].live =>
        /\ gens[g].sent = None
        /\ gens[g].at = "from" /\ ~gens[g].terminated =>
             /\ gens[g].iter # None /\ gens[gens[g].iter].live
             /\ ~gens[gens[g].iter].terminated
             /\ gens[g].last = gens[gens[g].iter].last

\* A generator that has finished never runs again.
FinishedStaysSo ==
    [][\A g \in Gens : gens[g].terminated =>
          ~(phase' = "dispatch" /\ stack' # <<>> /\ stack'[Len(stack')] = g)]_gvars
=============================================================================
