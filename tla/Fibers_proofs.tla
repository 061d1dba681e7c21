----------------------------- MODULE Fibers_proofs -----------------------------
(***************************************************************************)
(* What the fiber runtime promises, proved of any number of fibers that   *)
(* start, resume, throw into and suspend one another in any order, as     *)
(* long as no running fiber is freed ("freeactive" \notin Idioms).        *)
(*                                                                         *)
(* The invariant says where every context stands.  The fibers that have   *)
(* not handed control back are each waited for by the context that        *)
(* resumed them; every stack holds a chain of handlers of its own; and    *)
(* only the fiber that control comes from or goes to carries a payload.   *)
(***************************************************************************)
EXTENDS FiberCoroutines, FiniteSetTheorems, SequenceTheorems, TLAPS

Tails == {<<"tail", f>> : f \in Fibers}
Started(c) == resume[c] \notin {Gone, <<"entry">>}

\* Where a context continues, and the state its Fiber object shows.
PlacesFit ==
    /\ resume[Main] \in {User} \cup Tails
    /\ \A f \in Fibers :
          /\ resume[f] = Gone <=> state[f] \in {"absent", "Terminated"}
          /\ resume[f] = <<"entry">> <=> state[f] = "NotStarted"
          /\ resume[f] = <<"wake">> <=> state[f] = "Suspended"
    /\ \A c \in Contexts : resume[c] \in {User, <<"escape">>} => c = current
    /\ resume[current] # Gone

\* A helper that goes on after a switch goes on because its fiber stopped.
Handing ==
    \A f \in Fibers :
      resume[current] = <<"tail", f>> => state[f] \in {"Suspended", "Terminated"}

Waits == \A f \in Active : resume[caller[f]] = <<"tail", f>>

NoCycle == \A S \in SUBSET Active : S # {} => \E f \in S : caller[f] \notin S

\* A stack that runs no program code yet, or no more, is inside of no try.
BareStacks == \A c \in Contexts : resume[c] \in {Gone, <<"entry">>, <<"escape">>} => tries[c] = 0

\* The handler below the k-th of context c.
Below(c, k) == IF k > 1 \/ (k = 1 /\ c # Main) THEN <<c, k - 1>> ELSE NoHandler

\* The handlers that are on the stack of c.
Levels(c) == {k \in 0..tries[c] : k > 0 \/ c # Main}

Records ==
    \A c \in Contexts : Started(c) => \A k \in Levels(c) : record[<<c, k>>].next = Below(c, k)

OwnTop == top = OwnHandler(current)

OwnSaved ==
    \A c \in Contexts \ {current} : resume[c] # Gone => saved[c] = OwnHandler(c)

Parked ==
    \A f \in Fibers : ~InTransit(f) =>
      /\ pending[f] = Nothing
      /\ transfer[f] # Nothing => state[f] = "Terminated"

\* A fiber hands over a value or an exception, not both.
OnePayload ==
    \A f \in Fibers :
      /\ resume[current] = <<"tail", f>> /\ state[f] = "Suspended" => pending[f] = Nothing
      /\ current = f /\ resume[f] = <<"wake">> /\ pending[f] # Nothing => transfer[f] = Nothing

Control == PlacesFit /\ Handing /\ Waits /\ NoCycle
Chains == BareStacks /\ Records /\ OwnTop /\ OwnSaved
Payloads == Parked /\ OnePayload
Sound == Control /\ Chains /\ Payloads

IInv == TypeOK /\ status # "wild" /\ (status = "running" => Sound)

\* The depth of @ belongs to the code that runs: between a switch and the
\* program's code it is zero, and so is that of every other context.
QuietAtRest ==
    /\ \A c \in Contexts : c # current \/ resume[c] # User => quiet[c] = 0
    /\ resume[current] = User => diag = quiet[current]
    /\ resume[current] \notin {User, <<"escape">>} => diag = 0

QuietRecords ==
    \A c \in Contexts : Started(c) => \A k \in Levels(c) :
      /\ record[<<c, k>>].diag = record[<<c, k>>].quiet
      /\ k = 0 => record[<<c, k>>].quiet = 0

QuietInv == IInv /\ (status = "running" => QuietAtRest /\ QuietRecords)

-----------------------------------------------------------------------------
(* Places, and the value a throw carries. *)

LEMMA PlacesDiffer ==
    /\ User # Gone /\ User # <<"entry">> /\ User # <<"wake">> /\ User # <<"escape">>
    /\ Gone # <<"entry">> /\ Gone # <<"wake">> /\ Gone # <<"escape">>
    /\ <<"entry">> # <<"wake">> /\ <<"entry">> # <<"escape">> /\ <<"wake">> # <<"escape">>
    /\ \A f : /\ <<"tail", f>> # User /\ <<"tail", f>> # Gone /\ <<"tail", f>> # <<"entry">>
              /\ <<"tail", f>> # <<"wake">> /\ <<"tail", f>> # <<"escape">>
    /\ \A f, g : <<"tail", f>> = <<"tail", g>> => f = g
  BY DEF User, Gone

LEMMA ActiveTails == Active = {f \in Fibers : f = current \/ resume[f] \in Tails}
  BY DEF Active, Tails

Thrown == Throwables \cup {FiberError}

\* Every throw of a running program.
LEMMA RaiseTypes ==
    ASSUME TypeOK, NEW e \in Thrown, Raise(e, top)
    PROVE  /\ current' \in Contexts /\ top' \in Handlers \cup {NoHandler}
           /\ saved' \in [Contexts -> Handlers \cup {NoHandler}]
           /\ record' \in [Handlers -> [next : Handlers \cup {NoHandler}, diag : Nat, quiet : Nat]]
           /\ diag' \in Nat /\ exc' \in Throwables \cup {FiberError, Nothing}
           /\ resume' \in [Contexts -> Places] /\ tries' \in [Contexts -> 0..MaxTries]
           /\ quiet' \in [Contexts -> Nat] /\ outcome' \in Outcomes
           /\ status' \in {"running", "uncaught", "wild"} \cup {status}
  <1>1. UNCHANGED <<current, saved, record>>
    BY DEF Raise
  <1>2. CASE \/ top = NoHandler /\ Died(e, top, "uncaught")
             \/ top # NoHandler /\ top[1] # current /\ Died(e, top, "wild")
    BY <1>1, <1>2 DEF TypeOK, Died, Thrown
  <1>3. CASE top # NoHandler /\ top[1] = current /\ top[2] = 0 /\ Escaped(e, top)
    BY <1>1, <1>3, BoundsAssumption DEF TypeOK, Escaped, Thrown, Places, Outcomes
  <1>4. CASE top # NoHandler /\ top[1] = current /\ top[2] # 0 /\ Caught(e, top)
    <2>0. top # NoHandler /\ top[2] # 0
      BY <1>4
    <2>1. top \in Handlers /\ top[2] \in 0..MaxTries /\ top[2] - 1 \in 0..MaxTries
      <3>1. top \in Handlers
        BY <2>0 DEF TypeOK
      <3>2. top[2] \in 0..MaxTries
        BY <3>1 DEF Handlers
      <3>3. QED
        BY <2>0, <3>1, <3>2, BoundsAssumption
    <2>2. record[top] \in [next : Handlers \cup {NoHandler}, diag : Nat, quiet : Nat]
      BY <2>1 DEF TypeOK
    <2>3. <<"thrown", e>> \in Outcomes
      BY DEF Outcomes, Thrown
    <2>4. QED
      BY <1>1, <1>4, <2>1, <2>2, <2>3 DEF TypeOK, Caught, Places
  <1>5. QED
    BY <1>2, <1>3, <1>4 DEF Raise

LEMMA InitTypes == Init => TypeOK
  BY ContextsAssumption, BoundsAssumption
     DEF Init, TypeOK, Contexts, Places, Outcomes, User, Gone

\* A switch to an existing context.
LEMMA SwitchTypes ==
    ASSUME TypeOK, NEW head \in Handlers \cup {NoHandler}, NEW next \in Contexts, Switch(head, next)
    PROVE  /\ current' \in Contexts /\ top' \in Handlers \cup {NoHandler}
           /\ saved' \in [Contexts -> Handlers \cup {NoHandler}]
  BY DEF Switch, TypeOK

LEMMA SwitchToTypes ==
    ASSUME TypeOK, NEW next \in Contexts, NEW place \in Places, SwitchTo(next, place)
    PROVE  /\ current' \in Contexts /\ top' \in Handlers \cup {NoHandler}
           /\ saved' \in [Contexts -> Handlers \cup {NoHandler}]
           /\ resume' \in [Contexts -> Places] /\ outcome' \in Outcomes
           /\ UNCHANGED <<record, diag, exc, status, tries, quiet>>
  BY SwitchTypes DEF SwitchTo, TypeOK, codeVars, Outcomes

LEMMA ReturnTypes ==
    ASSUME TypeOK, NEW v \in Values \cup {Null, Nothing}, Return(v)
    PROVE  /\ resume' \in [Contexts -> Places] /\ outcome' \in Outcomes
           /\ UNCHANGED <<current, top, saved, record, diag, exc, status, tries, quiet>>
  BY DEF Return, TypeOK, codeVars, Outcomes, Places

\* What misuse of a fiber and a throw statement do.
LEMMA MisuseTypes ==
    ASSUME TypeOK, NEW e \in Thrown, Raise(e, top), UNCHANGED fiberVars
    PROVE  TypeOK'
  BY RaiseTypes DEF TypeOK, fiberVars

\* The main program has no object to keep a payload or a state in; that it
\* never stands where a fiber keeps one is PlacesFit.
LEMMA TypeStep ==
    ASSUME TypeOK, status = "running" => PlacesFit, [Next]_vars
    PROVE  TypeOK'
  <1> Main \in Contexts /\ Fibers \subseteq Contexts /\ current \in Contexts
    BY DEF TypeOK, Contexts
  <1> FiberError \in Thrown /\ Throwables \subseteq Thrown
    BY DEF Thrown
  <1> /\ User \in Places /\ Gone \in Places /\ <<"entry">> \in Places
      /\ <<"wake">> \in Places /\ \A f \in Fibers : <<"tail", f>> \in Places
    BY DEF Places
  <1>1. ASSUME NEW f \in Fibers, Construct(f) PROVE TypeOK'
    BY <1>1 DEF Construct, TypeOK, codeVars
  <1>2. ASSUME NEW f \in Fibers, Start(f) PROVE TypeOK'
    <2>1. CASE StateError
      BY <2>1, MisuseTypes DEF StateError
    <2>2. CASE /\ caller' = [caller EXCEPT ![f] = current]
               /\ SwitchTo(f, <<"tail", f>>) /\ UNCHANGED <<state, transfer, pending>>
      BY <2>2, SwitchToTypes DEF TypeOK
    <2>3. QED
      BY <1>2, <2>1, <2>2 DEF Start
  <1>3. ASSUME NEW f \in Fibers, NEW v \in Values, Resume(f, v) PROVE TypeOK'
    <2>1. CASE StateError
      BY <2>1, MisuseTypes DEF StateError
    <2>2. CASE /\ transfer' = [transfer EXCEPT ![f] = v]
               /\ caller' = [caller EXCEPT ![f] = current]
               /\ SwitchTo(f, <<"tail", f>>) /\ UNCHANGED <<state, pending>>
      BY <2>2, SwitchToTypes DEF TypeOK
    <2>3. QED
      BY <1>3, <2>1, <2>2 DEF Resume
  <1>4. ASSUME NEW f \in Fibers, NEW e \in Throwables, ThrowInto(f, e) PROVE TypeOK'
    <2>1. CASE StateError
      BY <2>1, MisuseTypes DEF StateError
    <2>2. CASE /\ pending' = [pending EXCEPT ![f] = e]
               /\ caller' = [caller EXCEPT ![f] = current]
               /\ SwitchTo(f, <<"tail", f>>) /\ UNCHANGED <<state, transfer>>
      BY <2>2, SwitchToTypes DEF TypeOK
    <2>3. QED
      BY <1>4, <2>1, <2>2 DEF ThrowInto
  <1>5. ASSUME NEW v \in Values, Suspend(v) PROVE TypeOK'
    <2>1. CASE StateError
      BY <2>1, MisuseTypes DEF StateError
    <2>2. CASE /\ current # Main
               /\ transfer' = [transfer EXCEPT ![current] = v]
               /\ state' = [state EXCEPT ![current] = "Suspended"]
               /\ SwitchTo(caller[current], <<"wake">>) /\ UNCHANGED <<caller, pending>>
      <3>1. current \in Fibers /\ caller[current] \in Contexts
        BY <2>2 DEF TypeOK, Contexts
      <3>2. QED
        BY <2>2, <3>1, SwitchToTypes DEF TypeOK
    <2>3. QED
      BY <1>5, <2>1, <2>2 DEF Suspend
  <1>6. ASSUME NEW f \in Fibers, GetReturn(f) PROVE TypeOK'
    <2>1. CASE StateError
      BY <2>1, MisuseTypes DEF StateError
    <2>2. CASE /\ outcome' = <<"value", transfer[f]>>
               /\ UNCHANGED <<current, top, saved, record, diag, exc, resume, status,
                              fiberVars, codeVars>>
      BY <2>2 DEF TypeOK, Outcomes, fiberVars, codeVars
    <2>3. QED
      BY <1>6, <2>1, <2>2 DEF GetReturn
  <1>7. ASSUME NEW f \in Fibers, Free(f) PROVE TypeOK'
    BY <1>7, BoundsAssumption DEF Free, TypeOK
  <1>8. CASE PushTry
    <2>1. tries[current] \in 0..MaxTries /\ tries[current] + 1 \in 0..MaxTries
      BY <1>8, BoundsAssumption DEF PushTry, TypeOK
    <2>2. <<current, tries[current] + 1>> \in Handlers
      BY <2>1 DEF Handlers
    <2>3. QED
      BY <1>8, <2>1, <2>2 DEF PushTry, TypeOK, fiberVars
  <1>9. CASE PopTry
    <2>1. tries[current] \in 0..MaxTries /\ tries[current] - 1 \in 0..MaxTries
      BY <1>9, BoundsAssumption DEF PopTry, TypeOK
    <2>2. Innermost \in [next : Handlers \cup {NoHandler}, diag : Nat, quiet : Nat]
      BY <2>1 DEF TypeOK, Innermost, Handlers
    <2>3. QED
      BY <1>9, <2>1, <2>2 DEF PopTry, TypeOK, fiberVars
  <1>10. ASSUME NEW e \in Throwables, Throw(e) PROVE TypeOK'
    BY <1>10, MisuseTypes DEF Throw
  <1>11. CASE ConstructFails
    BY <1>11, MisuseTypes DEF ConstructFails, StateError
  <1>12. CASE EnterQuiet
    BY <1>12 DEF EnterQuiet, TypeOK, fiberVars
  <1>13. CASE LeaveQuiet
    BY <1>13 DEF LeaveQuiet, TypeOK, fiberVars
  <1>14. CASE Entry
    <2>1. <<current, 0>> \in Handlers
      BY BoundsAssumption DEF Handlers
    <2>2. QED
      BY <1>14, <2>1 DEF Entry, TypeOK, codeVars, Contexts
  <1>15. ASSUME NEW v \in Values, Finish(v) PROVE TypeOK'
    <2>1. /\ <<current, 0>> \in Handlers
          /\ current \in Fibers /\ caller[current] \in Contexts
      BY <1>15, BoundsAssumption DEF Finish, Handlers, TypeOK, Contexts
    <2>2. record[<<current, 0>>].next \in Handlers \cup {NoHandler}
      BY <2>1 DEF TypeOK
    <2>3. QED
      BY <1>15, <2>1, <2>2, SwitchTypes DEF Finish, TypeOK, Outcomes, codeVars
  <1>16. CASE Escape
    <2>1. <<current, 0>> \in Handlers
      BY BoundsAssumption DEF Handlers
    <2>2. /\ record[<<current, 0>>].next \in Handlers \cup {NoHandler}
          /\ record[<<current, 0>>].diag \in Nat
      BY <2>1 DEF TypeOK
    <2>3. /\ Switch(record[<<current, 0>>].next, caller[current])
          /\ current' = caller[current]
      BY <1>16 DEF Escape, Switch
    <2>4. current \in Fibers /\ caller[current] \in Contexts
      BY <1>16, PlacesDiffer DEF Escape, At, PlacesFit, TypeOK, Contexts, Tails
    <2>5. QED
      BY <1>16, <2>2, <2>3, <2>4, SwitchTypes DEF Escape, TypeOK, codeVars
  <1>17. ASSUME NEW f \in Fibers, HandedBack(f) PROVE TypeOK'
    <2>1. CASE /\ pending[f] # Nothing
               /\ pending' = [pending EXCEPT ![f] = Nothing]
               /\ Raise(pending[f], top) /\ UNCHANGED <<transfer, state, caller>>
      <3>1. pending[f] \in Thrown
        BY <2>1 DEF TypeOK, Thrown
      <3>2. QED
        BY <2>1, <3>1, RaiseTypes DEF TypeOK
    <2>2. CASE Return(Null) /\ UNCHANGED <<transfer, pending, state, caller>>
      BY <2>2, ReturnTypes DEF TypeOK
    <2>3. CASE /\ Return(transfer[f])
               /\ transfer' = [transfer EXCEPT ![f] = Nothing]
               /\ UNCHANGED <<pending, state, caller>>
      <3>1. transfer[f] \in Values \cup {Null, Nothing}
        BY DEF TypeOK
      <3>2. QED
        BY <2>3, <3>1, ReturnTypes DEF TypeOK
    <2>4. QED
      BY <1>17, <2>1, <2>2, <2>3 DEF HandedBack
  <1>18. CASE Wake
    <2>1. current \in Fibers
      BY <1>18, PlacesDiffer DEF Wake, At, PlacesFit, TypeOK, Contexts, Tails
    <2>2. CASE /\ pending[current] # Nothing
               /\ pending' = [pending EXCEPT ![current] = Nothing]
               /\ Raise(pending[current], top) /\ UNCHANGED <<transfer, caller>>
      <3>1. pending[current] \in Thrown
        BY <2>1, <2>2 DEF TypeOK, Thrown
      <3>2. QED
        BY <1>18, <2>1, <2>2, <3>1, RaiseTypes DEF TypeOK, Wake
    <2>3. CASE /\ Return(transfer[current])
               /\ transfer' = [transfer EXCEPT ![current] = Nothing]
               /\ UNCHANGED <<pending, caller>>
      <3>1. transfer[current] \in Values \cup {Null, Nothing}
        BY <2>1 DEF TypeOK
      <3>2. QED
        BY <1>18, <2>1, <2>3, <3>1, ReturnTypes DEF TypeOK, Wake
    <2>4. QED
      BY <1>18, <2>2, <2>3 DEF Wake
  <1>19. CASE UNCHANGED vars
    BY <1>19 DEF TypeOK, vars
  <1>20. QED
    BY <1>1, <1>2, <1>3, <1>4, <1>5, <1>6, <1>7, <1>8, <1>9, <1>10, <1>11, <1>12,
       <1>13, <1>14, <1>15, <1>16, <1>17, <1>18, <1>19 DEF Next, Stopped

-----------------------------------------------------------------------------
(* Where contexts stand, and who waits for whom. *)

\* The running context goes on in its own code, or in the escape path of its
\* trampoline.
LEMMA ControlGoesOn ==
    ASSUME TypeOK, Control,
           NEW place \in {User, <<"escape">>}, place = <<"escape">> => current \in Fibers,
           current' = current, resume' = [resume EXCEPT ![current] = place], caller' = caller,
           \/ state' = state /\ resume[current] \in {User} \cup Tails
           \/ current \in Fibers /\ state' = [state EXCEPT ![current] = "Running"]
    PROVE  Control'
  <1>1. current \in Contexts /\ current' \in Contexts /\ resume'[current] = place
    BY DEF TypeOK
  <1>2. \A c \in Contexts : c # current => resume'[c] = resume[c]
    BY DEF TypeOK
  <1>3. \A f \in Fibers : f # current => state'[f] = state[f]
    BY DEF TypeOK
  <1>4. Fibers \subseteq Contexts /\ Main \in Contexts /\ Main \notin Fibers
    BY ContextsAssumption DEF Contexts
  <1>5. PlacesFit'
    <2>1. resume'[Main] \in {User} \cup Tails
      BY <1>1, <1>2, <1>4 DEF Control, PlacesFit
    <2>2. ASSUME NEW f \in Fibers
          PROVE  /\ resume'[f] = Gone <=> state'[f] \in {"absent", "Terminated"}
                 /\ resume'[f] = <<"entry">> <=> state'[f] = "NotStarted"
                 /\ resume'[f] = <<"wake">> <=> state'[f] = "Suspended"
      <3>1. CASE f # current
        BY <1>2, <1>3, <1>4, <3>1 DEF Control, PlacesFit
      <3>2. CASE f = current /\ state' = state /\ resume[current] \in {User} \cup Tails
        <4>1. resume[f] \notin {Gone, <<"entry">>, <<"wake">>}
          BY <3>2, PlacesDiffer DEF Tails
        <4>2. resume'[f] \notin {Gone, <<"entry">>, <<"wake">>}
          BY <1>1, <3>2, PlacesDiffer
        <4>3. QED
          BY <3>2, <4>1, <4>2 DEF Control, PlacesFit
      <3>3. CASE f = current /\ state' = [state EXCEPT ![current] = "Running"]
        <4>1. resume'[f] \notin {Gone, <<"entry">>, <<"wake">>}
          BY <1>1, <3>3, PlacesDiffer
        <4>2. state'[f] = "Running"
          BY <3>3 DEF TypeOK
        <4>3. QED
          BY <4>1, <4>2
      <3>4. QED
        BY <3>1, <3>2, <3>3
    <2>3. \A c \in Contexts : resume'[c] \in {User, <<"escape">>} => c = current'
      BY <1>1, <1>2 DEF Control, PlacesFit
    <2>4. resume'[current'] # Gone
      BY <1>1, PlacesDiffer
    <2>5. QED
      BY <2>1, <2>2, <2>3, <2>4 DEF PlacesFit
  <1>6. Handing'
    BY <1>1, PlacesDiffer DEF Handing
  <1>7. Active' \subseteq Active
    BY <1>1, <1>2, <1>4, PlacesDiffer DEF Active
  <1>8. Waits'
    <2> SUFFICES ASSUME NEW f \in Active' PROVE resume'[caller[f]] = <<"tail", f>>
      BY DEF Waits
    <2>1. f \in Fibers /\ caller[f] \in Contexts /\ resume[caller[f]] = <<"tail", f>>
      BY <1>7 DEF Control, Waits, Active, TypeOK
    <2>2. caller[f] # current
      <3> SUFFICES ASSUME resume[current] = <<"tail", f>> PROVE FALSE
        BY <2>1
      <3>1. state[f] \in {"Suspended", "Terminated"}
        BY <2>1 DEF Control, Handing
      <3>2. resume[f] \in {<<"wake">>, Gone}
        BY <2>1, <3>1 DEF Control, PlacesFit
      <3>3. f \in Active
        BY <1>7
      <3>4. f = current
        BY <3>2, <3>3, PlacesDiffer DEF Active
      <3>5. QED
        BY <3>2, <3>4, PlacesDiffer
    <2>3. QED
      BY <1>2, <2>1, <2>2
  <1>9. NoCycle'
    BY <1>7 DEF Control, NoCycle
  <1>10. QED
    BY <1>5, <1>6, <1>8, <1>9 DEF Control

\* start, resume and throw hand control to a fiber that waits for it.
LEMMA ControlCalls ==
    ASSUME TypeOK, Control, NEW f \in Fibers, resume[current] = User,
           resume[f] \in {<<"entry">>, <<"wake">>},
           current' = f, resume' = [resume EXCEPT ![current] = <<"tail", f>>],
           caller' = [caller EXCEPT ![f] = current], state' = state
    PROVE  Control'
  <1>1. /\ current \in Contexts /\ f \in Contexts /\ f # current
        /\ resume'[current] = <<"tail", f>> /\ caller'[f] = current
    BY PlacesDiffer DEF TypeOK, Contexts
  <1>2. \A c \in Contexts : c # current => resume'[c] = resume[c]
    BY DEF TypeOK
  <1>3. \A g \in Fibers : g # f => caller'[g] = caller[g]
    BY DEF TypeOK
  <1>4. Fibers \subseteq Contexts /\ Main \in Contexts
    BY DEF Contexts
  <1>5. PlacesFit'
    <2>1. resume'[Main] \in {User} \cup Tails
      BY <1>1, <1>2, <1>4 DEF Control, PlacesFit, Tails
    <2>2. ASSUME NEW g \in Fibers
          PROVE  /\ resume'[g] = Gone <=> state'[g] \in {"absent", "Terminated"}
                 /\ resume'[g] = <<"entry">> <=> state'[g] = "NotStarted"
                 /\ resume'[g] = <<"wake">> <=> state'[g] = "Suspended"
      <3>1. CASE g # current
        BY <1>2, <1>4, <3>1 DEF Control, PlacesFit
      <3>2. CASE g = current
        <4>1. state[g] \notin {"absent", "Terminated", "NotStarted", "Suspended"}
          BY <3>2, PlacesDiffer DEF Control, PlacesFit
        <4>2. QED
          BY <1>1, <3>2, <4>1, PlacesDiffer
      <3>3. QED
        BY <3>1, <3>2
    <2>3. \A c \in Contexts : resume'[c] \in {User, <<"escape">>} => c = current'
      BY <1>1, <1>2, PlacesDiffer DEF Control, PlacesFit
    <2>4. resume'[current'] # Gone
      BY <1>1, <1>2, PlacesDiffer
    <2>5. QED
      BY <2>1, <2>2, <2>3, <2>4 DEF PlacesFit
  <1>6. Handing'
    <2>1. resume'[current'] \in {<<"entry">>, <<"wake">>}
      BY <1>1, <1>2
    <2>2. QED
      BY <2>1, PlacesDiffer DEF Handing
  <1>7. f \notin Active /\ Active' \subseteq Active \cup {f}
    BY <1>1, <1>2, <1>4, PlacesDiffer DEF Active
  <1>8. Waits'
    <2> SUFFICES ASSUME NEW g \in Active' PROVE resume'[caller'[g]] = <<"tail", g>>
      BY DEF Waits
    <2>1. CASE g = f
      BY <1>1, <2>1
    <2>2. CASE g # f
      <3>1. g \in Fibers /\ caller[g] \in Contexts /\ resume[caller[g]] = <<"tail", g>>
        BY <1>7, <2>2 DEF Control, Waits, Active, TypeOK
      <3>2. caller[g] # current
        BY <3>1, PlacesDiffer
      <3>3. QED
        BY <1>2, <1>3, <2>2, <3>1, <3>2
    <2>3. QED
      BY <2>1, <2>2
  <1>9. NoCycle'
    <2> SUFFICES ASSUME NEW S \in SUBSET Active', S # {} PROVE \E g \in S : caller'[g] \notin S
      BY DEF NoCycle
    <2>1. CASE S = {f}
      BY <1>1, <2>1
    <2>2. CASE S # {f}
      <3>1. S \ {f} \in SUBSET Active /\ S \ {f} # {}
        BY <1>7, <2>2
      <3>2. PICK g \in S \ {f} : caller[g] \notin S \ {f}
        BY <3>1 DEF Control, NoCycle
      <3>3. resume[caller[g]] = <<"tail", g>> /\ g \in Fibers
        BY <3>1 DEF Control, Waits, Active
      <3>4. caller[g] # f
        BY <3>3, PlacesDiffer
      <3>5. QED
        BY <1>3, <3>2, <3>3, <3>4
    <2>3. QED
      BY <2>1, <2>2
  <1>10. QED
    BY <1>5, <1>6, <1>8, <1>9 DEF Control

\* suspend and the end of a fiber hand control to the context that waits.
LEMMA ControlHandsBack ==
    ASSUME TypeOK, Control, current \in Fibers, resume[current] \in {User, <<"escape">>},
           NEW place, current' = caller[current],
           resume' = [resume EXCEPT ![current] = place], caller' = caller,
           \/ place = <<"wake">> /\ state' = [state EXCEPT ![current] = "Suspended"]
           \/ place = Gone /\ state' = [state EXCEPT ![current] = "Terminated"]
    PROVE  /\ Control'
           /\ current' \in Contexts \ {current} /\ resume'[current'] = <<"tail", current>>
  <1>1. /\ current \in Contexts /\ resume'[current] = place
        /\ caller[current] \in Contexts
        /\ state'[current] = IF place = <<"wake">> THEN "Suspended" ELSE "Terminated"
    BY PlacesDiffer DEF TypeOK
  <1>2. \A c \in Contexts : c # current => resume'[c] = resume[c]
    BY DEF TypeOK
  <1>3. \A f \in Fibers : f # current => state'[f] = state[f]
    BY DEF TypeOK
  <1>4. Fibers \subseteq Contexts /\ Main \in Contexts /\ Main # current
    BY ContextsAssumption DEF Contexts
  <1>5. current \in Active /\ resume[caller[current]] = <<"tail", current>>
    BY DEF Active, Control, Waits
  <1>6. caller[current] # current
    BY <1>5, PlacesDiffer
  <1>7. current' # current /\ current' \in Contexts /\ resume'[current'] = <<"tail", current>>
    BY <1>1, <1>2, <1>5, <1>6
  <1>8. PlacesFit'
    <2>1. resume'[Main] \in {User} \cup Tails
      BY <1>2, <1>4 DEF Control, PlacesFit
    <2>2. ASSUME NEW f \in Fibers
          PROVE  /\ resume'[f] = Gone <=> state'[f] \in {"absent", "Terminated"}
                 /\ resume'[f] = <<"entry">> <=> state'[f] = "NotStarted"
                 /\ resume'[f] = <<"wake">> <=> state'[f] = "Suspended"
      <3>1. CASE f # current
        BY <1>2, <1>3, <1>4, <3>1 DEF Control, PlacesFit
      <3>2. CASE f = current
        BY <1>1, <3>2, PlacesDiffer
      <3>3. QED
        BY <3>1, <3>2
    <2>3. \A c \in Contexts : resume'[c] \in {User, <<"escape">>} => c = current'
      BY <1>1, <1>2, PlacesDiffer DEF Control, PlacesFit
    <2>4. resume'[current'] # Gone
      BY <1>7, PlacesDiffer
    <2>5. QED
      BY <2>1, <2>2, <2>3, <2>4 DEF PlacesFit
  <1>9. Handing'
    <2> SUFFICES ASSUME NEW f \in Fibers, resume'[current'] = <<"tail", f>>
                 PROVE  state'[f] \in {"Suspended", "Terminated"}
      BY DEF Handing
    <2>1. f = current
      BY <1>7, PlacesDiffer
    <2>2. QED
      BY <1>1, <2>1
  <1>10. Active' \subseteq Active \ {current}
    <2> SUFFICES ASSUME NEW f \in Active' PROVE f \in Active \ {current}
      OBVIOUS
    <2>1. f \in Fibers /\ (f = current' \/ resume'[f] \in Tails)
      BY DEF Active, Tails
    <2>2. f # current
      BY <1>1, <1>7, <2>1, PlacesDiffer DEF Tails
    <2>3. resume[f] \in Tails
      BY <1>2, <1>4, <1>7, <2>1, <2>2 DEF Tails
    <2>4. QED
      BY <2>1, <2>2, <2>3, ActiveTails
  <1>11. Waits'
    <2> SUFFICES ASSUME NEW f \in Active' PROVE resume'[caller[f]] = <<"tail", f>>
      BY DEF Waits
    <2>1. f \in Fibers /\ caller[f] \in Contexts /\ resume[caller[f]] = <<"tail", f>>
      BY <1>10 DEF Control, Waits, Active, TypeOK
    <2>2. caller[f] # current
      BY <2>1, PlacesDiffer
    <2>3. QED
      BY <1>2, <2>1, <2>2
  <1>12. NoCycle'
    BY <1>10 DEF Control, NoCycle
  <1>13. QED
    BY <1>7, <1>8, <1>9, <1>11, <1>12 DEF Control

\* A fiber that is not running is constructed or freed.
LEMMA ControlElsewhere ==
    ASSUME TypeOK, Control, resume[current] = User,
           NEW f \in Fibers, state[f] # "Running", NEW place,
           current' = current, resume' = [resume EXCEPT ![f] = place],
           \/ place = <<"entry">> /\ state' = [state EXCEPT ![f] = "NotStarted"]
           \/ place = Gone /\ state' = [state EXCEPT ![f] = "absent"],
           \A g \in Fibers : g # f => caller'[g] = caller[g]
    PROVE  /\ Control' /\ f # current
           /\ resume[f] \in {Gone, <<"entry">>, <<"wake">>}
  <1>1. resume[f] \in {Gone, <<"entry">>, <<"wake">>}
    <2>1. state[f] \in {"absent", "NotStarted", "Suspended", "Terminated"}
      BY DEF TypeOK
    <2>2. QED
      BY <2>1 DEF Control, PlacesFit
  <1>2. f # current /\ f \notin Active
    BY <1>1, PlacesDiffer DEF Active
  <1>3. /\ f \in Contexts /\ current \in Contexts /\ resume'[f] = place
        /\ resume'[current] = User
        /\ state'[f] = IF place = Gone THEN "absent" ELSE "NotStarted"
    BY <1>2, PlacesDiffer DEF TypeOK, Contexts
  <1>4. \A c \in Contexts : c # f => resume'[c] = resume[c]
    BY DEF TypeOK
  <1>5. \A g \in Fibers : g # f => state'[g] = state[g]
    BY DEF TypeOK
  <1>6. Fibers \subseteq Contexts /\ Main \in Contexts /\ Main # f
    BY ContextsAssumption DEF Contexts
  <1>7. PlacesFit'
    <2>1. resume'[Main] \in {User} \cup Tails
      BY <1>4, <1>6 DEF Control, PlacesFit
    <2>2. ASSUME NEW g \in Fibers
          PROVE  /\ resume'[g] = Gone <=> state'[g] \in {"absent", "Terminated"}
                 /\ resume'[g] = <<"entry">> <=> state'[g] = "NotStarted"
                 /\ resume'[g] = <<"wake">> <=> state'[g] = "Suspended"
      <3>1. CASE g # f
        BY <1>4, <1>5, <1>6, <3>1 DEF Control, PlacesFit
      <3>2. CASE g = f
        BY <1>3, <3>2, PlacesDiffer
      <3>3. QED
        BY <3>1, <3>2
    <2>3. \A c \in Contexts : resume'[c] \in {User, <<"escape">>} => c = current'
      BY <1>3, <1>4, PlacesDiffer DEF Control, PlacesFit
    <2>4. resume'[current'] # Gone
      BY <1>3, PlacesDiffer
    <2>5. QED
      BY <2>1, <2>2, <2>3, <2>4 DEF PlacesFit
  <1>8. Handing'
    BY <1>3, PlacesDiffer DEF Handing
  <1>9. Active' \subseteq Active
    <2> SUFFICES ASSUME NEW g \in Active' PROVE g \in Active
      OBVIOUS
    <2>1. g \in Fibers /\ (g = current \/ resume'[g] \in Tails)
      BY DEF Active, Tails
    <2>2. g # f
      BY <1>2, <1>3, <2>1, PlacesDiffer DEF Tails
    <2>3. QED
      BY <1>4, <1>6, <2>1, <2>2, ActiveTails
  <1>10. Waits'
    <2> SUFFICES ASSUME NEW g \in Active' PROVE resume'[caller'[g]] = <<"tail", g>>
      BY DEF Waits
    <2>1. /\ g \in Fibers /\ caller[g] \in Contexts /\ resume[caller[g]] = <<"tail", g>>
          /\ g # f
      BY <1>2, <1>9 DEF Control, Waits, Active, TypeOK
    <2>2. caller[g] # f
      BY <1>1, <2>1, PlacesDiffer
    <2>3. QED
      BY <1>4, <2>1, <2>2
  <1>11. NoCycle'
    <2> SUFFICES ASSUME NEW S \in SUBSET Active', S # {} PROVE \E g \in S : caller'[g] \notin S
      BY DEF NoCycle
    <2>1. PICK g \in S : caller[g] \notin S
      BY <1>9 DEF Control, NoCycle
    <2>2. g \in Fibers /\ g # f
      BY <1>2, <1>9 DEF Active
    <2>3. QED
      BY <2>1, <2>2
  <1>12. QED
    BY <1>1, <1>2, <1>7, <1>8, <1>10, <1>11 DEF Control

-----------------------------------------------------------------------------
(* The handler chains. *)

\* The exception leaves the program's code at the bottom of a fiber's stack.
Escapes ==
    /\ current \in Fibers /\ tries[current] = 0
    /\ top' = top /\ diag' = diag
    /\ resume' = [resume EXCEPT ![current] = <<"escape">>]
    /\ tries' = [tries EXCEPT ![current] = 0]
    /\ quiet' = [quiet EXCEPT ![current] = 0]

\* The innermost try statement of the running context takes the exception.
Catches ==
    /\ tries[current] > 0 /\ resume' = [resume EXCEPT ![current] = User]
    /\ tries' = [tries EXCEPT ![current] = tries[current] - 1]
    /\ top' = record[<<current, tries[current]>>].next
    /\ diag' = record[<<current, tries[current]>>].diag
    /\ quiet' = [quiet EXCEPT ![current] = record[<<current, tries[current]>>].quiet]

\* A throw goes to the running context's own stack.
LEMMA RaiseOutcome ==
    ASSUME TypeOK, OwnTop, Started(current), NEW e, Raise(e, top)
    PROVE  /\ UNCHANGED <<current, saved, record>>
           /\ \/ status' = "uncaught"
              \/ status' = status /\ Escapes
              \/ status' = status /\ Catches
  <1>1. UNCHANGED <<current, saved, record>>
    BY DEF Raise
  <1>2. tries[current] \in Nat /\ current \in Contexts
    BY BoundsAssumption DEF TypeOK
  <1>3. CASE top = NoHandler
    BY <1>1, <1>3 DEF Raise, Died
  <1>4. CASE top # NoHandler
    <2>1. /\ top = <<current, tries[current]>> /\ top[1] = current /\ top[2] = tries[current]
          /\ tries[current] > 0 \/ current # Main
      BY <1>4 DEF OwnTop, OwnHandler
    <2>2. CASE tries[current] = 0
      <3>1. Escaped(e, top)
        BY <1>4, <2>1, <2>2 DEF Raise
      <3>2. current \in Fibers
        BY <1>2, <2>1, <2>2 DEF Contexts
      <3>3. QED
        BY <1>1, <2>2, <3>1, <3>2 DEF Escaped, Escapes
    <2>3. CASE tries[current] # 0
      <3>1. Caught(e, top)
        BY <1>4, <2>1, <2>3 DEF Raise
      <3>2. tries[current] > 0
        BY <1>2, <2>3
      <3>3. QED
        BY <1>1, <2>1, <3>1, <3>2 DEF Caught, Catches
    <2>4. QED
      BY <2>2, <2>3
  <1>5. QED
    BY <1>3, <1>4

LEMMA LevelsNat ==
    ASSUME TypeOK, NEW c \in Contexts
    PROVE  /\ tries[c] \in 0..MaxTries /\ tries[c] \in Nat /\ MaxTries \in Nat
           /\ \A k \in 0..tries[c] : k \in 0..MaxTries /\ <<c, k>> \in Handlers
  BY BoundsAssumption DEF TypeOK, Handlers

\* What the chains look like after the running context caught an exception.
LEMMA ChainsCatch ==
    ASSUME TypeOK, Chains, Started(current), Catches, UNCHANGED <<current, saved, record>>
    PROVE  Chains'
  <1>1. /\ current \in Contexts /\ current' = current
        /\ tries[current] \in Nat /\ tries[current] > 0
        /\ tries'[current] = tries[current] - 1 /\ resume'[current] = User
    BY LevelsNat DEF TypeOK, Catches
  <1>2. \A c \in Contexts : c # current => tries'[c] = tries[c] /\ resume'[c] = resume[c]
    BY DEF TypeOK, Catches
  <1>3. BareStacks'
    BY <1>1, <1>2, PlacesDiffer DEF Chains, BareStacks
  <1>4. Records'
    <2> SUFFICES ASSUME NEW c \in Contexts, resume'[c] \notin {Gone, <<"entry">>},
                        NEW k \in 0..tries'[c], k > 0 \/ c # Main
                 PROVE  record[<<c, k>>].next = Below(c, k)
      BY DEF Records, Started, Levels, Below, Catches
    <2>1. k \in Levels(c) /\ Started(c)
      BY <1>1, <1>2, LevelsNat DEF Levels, Started
    <2>2. QED
      BY <2>1 DEF Chains, Records
  <1>5. OwnTop'
    <2>1. tries[current] \in Levels(current)
      BY <1>1 DEF Catches, Levels
    <2>2. top' = Below(current, tries[current])
      BY <1>1, <2>1 DEF Chains, Records, Catches
    <2>3. resume'[current'] # <<"entry">> /\ tries'[current'] = tries[current] - 1
      BY <1>1, PlacesDiffer
    <2>4. QED
      BY <1>1, <2>2, <2>3 DEF OwnTop, OwnHandler, Below
  <1>6. OwnSaved'
    BY <1>2 DEF Chains, OwnSaved, OwnHandler
  <1>7. QED
    BY <1>3, <1>4, <1>5, <1>6 DEF Chains

LEMMA ChainsEscape ==
    ASSUME TypeOK, Chains, Started(current), Escapes, UNCHANGED <<current, saved, record>>
    PROVE  Chains'
  <1>1. /\ current \in Contexts /\ tries' = tries /\ resume'[current] = <<"escape">>
    BY DEF TypeOK, Escapes, Contexts
  <1>2. \A c \in Contexts : c # current => resume'[c] = resume[c]
    BY DEF TypeOK, Escapes
  <1>3. BareStacks'
    BY <1>1, <1>2, PlacesDiffer DEF Chains, BareStacks, Escapes
  <1>4. Records'
    <2> SUFFICES ASSUME NEW c \in Contexts, resume'[c] \notin {Gone, <<"entry">>}
                 PROVE  Started(c)
      BY <1>1 DEF Chains, Records, Started, Levels, Below, Escapes
    <2>1. QED
      BY <1>1, <1>2 DEF Started
  <1>5. OwnTop'
    BY <1>1, PlacesDiffer, ContextsAssumption DEF Chains, OwnTop, OwnHandler, Escapes, Started
  <1>6. OwnSaved'
    BY <1>1, <1>2 DEF Chains, OwnSaved, OwnHandler
  <1>7. QED
    BY <1>3, <1>4, <1>5, <1>6 DEF Chains

\* Control comes back to the running context's own code.
LEMMA ChainsReturn ==
    ASSUME TypeOK, Chains, Started(current), resume' = [resume EXCEPT ![current] = User],
           UNCHANGED <<current, top, saved, record, tries>>
    PROVE  Chains'
  <1>1. current \in Contexts /\ resume'[current] = User
    BY DEF TypeOK
  <1>2. \A c \in Contexts : c # current => resume'[c] = resume[c]
    BY DEF TypeOK
  <1>3. BareStacks'
    BY <1>1, <1>2, PlacesDiffer DEF Chains, BareStacks
  <1>4. Records'
    <2> SUFFICES ASSUME NEW c \in Contexts, resume'[c] \notin {Gone, <<"entry">>}
                 PROVE  Started(c)
      BY DEF Chains, Records, Started, Levels, Below
    <2>1. QED
      BY <1>1, <1>2 DEF Started
  <1>5. OwnTop'
    BY <1>1, PlacesDiffer DEF Chains, OwnTop, OwnHandler, Started
  <1>6. OwnSaved'
    BY <1>1, <1>2 DEF Chains, OwnSaved, OwnHandler
  <1>7. QED
    BY <1>3, <1>4, <1>5, <1>6 DEF Chains

\* Control goes to another stack.  The one left is kept as it is, or is done.
LEMMA ChainsSwitch ==
    ASSUME TypeOK, Chains, Started(current), UNCHANGED <<record, tries>>,
           NEW next \in Contexts \ {current}, resume[next] # Gone,
           NEW head, Switch(head, next), NEW place,
           resume' = [resume EXCEPT ![current] = place],
           \/ head = top /\ place \in {<<"wake">>} \cup Tails
           \/ tries[current] = 0 /\ place = Gone
    PROVE  Chains'
  <1>1. current \in Contexts /\ resume'[current] = place
    BY DEF TypeOK
  <1>2. \A c \in Contexts : c # current => resume'[c] = resume[c] /\ saved'[c] = saved[c]
    BY DEF TypeOK, Switch
  <1>3. current' = next /\ top' = saved'[next] /\ saved'[current] = head
    BY <1>1 DEF Switch, TypeOK
  <1>4. place \notin {<<"entry">>, <<"escape">>} /\ (place = Gone => tries[current] = 0)
    BY PlacesDiffer DEF Tails
  <1>5. BareStacks'
    BY <1>1, <1>2, <1>4 DEF Chains, BareStacks
  <1>6. Records'
    <2> SUFFICES ASSUME NEW c \in Contexts, resume'[c] \notin {Gone, <<"entry">>}
                 PROVE  Started(c)
      BY DEF Chains, Records, Started, Levels, Below
    <2>1. QED
      BY <1>1, <1>2 DEF Started
  <1>7. OwnTop'
    <2>1. saved[next] = OwnHandler(next) /\ resume'[next] = resume[next]
      BY <1>2 DEF Chains, OwnSaved
    <2>2. QED
      BY <1>2, <1>3, <2>1 DEF OwnTop, OwnHandler
  <1>8. OwnSaved'
    <2> SUFFICES ASSUME NEW c \in Contexts, c # next, resume'[c] # Gone
                 PROVE  saved'[c] = OwnHandler(c)'
      BY <1>3 DEF OwnSaved
    <2>1. CASE c # current
      BY <1>2, <2>1 DEF Chains, OwnSaved, OwnHandler
    <2>2. CASE c = current
      <3>1. head = top /\ place # <<"entry">>
        BY <1>1, <1>4, <2>2
      <3>2. QED
        BY <1>1, <1>3, <2>2, <3>1 DEF Chains, OwnTop, OwnHandler, Started
    <2>3. QED
      BY <2>1, <2>2
  <1>9. QED
    BY <1>5, <1>6, <1>7, <1>8 DEF Chains

\* Another fiber's stack is made, or given up.
LEMMA ChainsElsewhere ==
    ASSUME TypeOK, Chains, NEW f \in Fibers, f # current, UNCHANGED <<current, top, record>>,
           NEW place, resume' = [resume EXCEPT ![f] = place],
           \/ /\ resume[f] = Gone /\ place = <<"entry">>
              /\ saved' = [saved EXCEPT ![f] = NoHandler] /\ tries' = tries
           \/ /\ place = Gone /\ saved' = saved /\ tries' = [tries EXCEPT ![f] = 0]
    PROVE  Chains'
  <1>1. /\ f \in Contexts /\ current \in Contexts /\ resume'[f] = place /\ tries'[f] = 0
        /\ place \in {Gone, <<"entry">>}
    BY DEF TypeOK, Contexts, Chains, BareStacks
  <1>2. \A c \in Contexts : c # f => resume'[c] = resume[c] /\ tries'[c] = tries[c]
                                     /\ saved'[c] = saved[c]
    BY DEF TypeOK
  <1>3. BareStacks'
    BY <1>1, <1>2 DEF Chains, BareStacks
  <1>4. Records'
    <2> SUFFICES ASSUME NEW c \in Contexts, resume'[c] \notin {Gone, <<"entry">>}
                 PROVE  Started(c) /\ tries'[c] = tries[c]
      BY DEF Chains, Records, Started, Levels, Below
    <2>1. QED
      BY <1>1, <1>2 DEF Started
  <1>5. OwnTop'
    BY <1>1, <1>2 DEF Chains, OwnTop, OwnHandler
  <1>6. OwnSaved'
    <2> SUFFICES ASSUME NEW c \in Contexts \ {current}, resume'[c] # Gone
                 PROVE  saved'[c] = OwnHandler(c)'
      BY DEF OwnSaved
    <2>1. CASE c # f
      BY <1>2, <2>1 DEF Chains, OwnSaved, OwnHandler
    <2>2. CASE c = f
      <3>1. place = <<"entry">> /\ saved'[f] = NoHandler
        BY <1>1, <2>2, PlacesDiffer DEF TypeOK
      <3>2. QED
        BY <1>1, <2>2, <3>1 DEF OwnHandler
    <2>3. QED
      BY <2>1, <2>2
  <1>7. QED
    BY <1>3, <1>4, <1>5, <1>6 DEF Chains

\* The entry trampoline pushes its handler on a fresh stack.
LEMMA ChainsEntry ==
    ASSUME TypeOK, Control, Chains, Entry
    PROVE  Chains'
  <1>1. /\ current \in Contexts /\ resume[current] = <<"entry">> /\ resume'[current] = User
        /\ tries' = tries /\ tries[current] = 0 /\ current' = current /\ saved' = saved
        /\ current # Main /\ top = NoHandler /\ <<current, 0>> \in Handlers
    <2>1. /\ current \in Contexts /\ resume[current] = <<"entry">> /\ resume'[current] = User
          /\ tries' = tries /\ current' = current /\ saved' = saved
      BY DEF Entry, At, codeVars, TypeOK
    <2>2. tries[current] = 0
      BY <2>1 DEF Chains, BareStacks
    <2>3. current # Main
      BY <2>1, PlacesDiffer DEF Control, PlacesFit, Tails
    <2>4. top = NoHandler
      BY <2>1, <2>2 DEF Chains, OwnTop, OwnHandler
    <2>5. <<current, 0>> \in Handlers
      BY <2>1, <2>2, LevelsNat
    <2>6. QED
      BY <2>1, <2>2, <2>3, <2>4, <2>5
  <1>2. \A c \in Contexts : c # current => resume'[c] = resume[c]
    BY DEF TypeOK, Entry
  <1>3. /\ top' = <<current, 0>> /\ record'[<<current, 0>>].next = NoHandler
        /\ \A h \in Handlers : h # <<current, 0>> => record'[h] = record[h]
    BY <1>1 DEF Entry, TypeOK
  <1>4. BareStacks'
    BY <1>1, <1>2, PlacesDiffer DEF Chains, BareStacks
  <1>5. Records'
    <2> SUFFICES ASSUME NEW c \in Contexts, resume'[c] \notin {Gone, <<"entry">>},
                        NEW k \in 0..tries[c], k > 0 \/ c # Main
                 PROVE  record'[<<c, k>>].next = Below(c, k)
      BY <1>1 DEF Records, Started, Levels, Below
    <2>1. CASE c # current
      <3>1. Started(c) /\ k \in Levels(c)
        BY <1>2, <2>1 DEF Started, Levels
      <3>2. <<c, k>> \in Handlers /\ <<c, k>> # <<current, 0>>
        BY <2>1, LevelsNat
      <3>3. QED
        BY <1>3, <3>1, <3>2 DEF Chains, Records
    <2>2. CASE c = current
      BY <1>1, <1>3, <2>2 DEF Below
    <2>3. QED
      BY <2>1, <2>2
  <1>6. OwnTop'
    BY <1>1, <1>3, PlacesDiffer DEF OwnTop, OwnHandler
  <1>7. OwnSaved'
    BY <1>1, <1>2 DEF Chains, OwnSaved, OwnHandler
  <1>8. QED
    BY <1>4, <1>5, <1>6, <1>7 DEF Chains

LEMMA ChainsPush ==
    ASSUME TypeOK, Chains, PushTry
    PROVE  Chains'
  <1> DEFINE n == tries[current] + 1
  <1>1. /\ current \in Contexts /\ resume[current] = User /\ resume' = resume
        /\ current' = current /\ saved' = saved /\ Started(current)
        /\ tries[current] \in Nat /\ n \in 1..MaxTries /\ <<current, n>> \in Handlers
    BY LevelsNat, PlacesDiffer DEF PushTry, At, TypeOK, Started, Handlers
  <1>2. tries'[current] = n /\ \A c \in Contexts : c # current => tries'[c] = tries[c]
    BY DEF TypeOK, PushTry
  <1>3. /\ top' = <<current, n>> /\ record'[<<current, n>>].next = top
        /\ \A h \in Handlers : h # <<current, n>> => record'[h] = record[h]
    BY <1>1 DEF PushTry, TypeOK
  <1>4. BareStacks'
    BY <1>1, <1>2, PlacesDiffer DEF Chains, BareStacks
  <1>5. Records'
    <2> SUFFICES ASSUME NEW c \in Contexts, Started(c),
                        NEW k \in 0..tries'[c], k > 0 \/ c # Main
                 PROVE  record'[<<c, k>>].next = Below(c, k)
      BY <1>1 DEF Records, Started, Levels, Below
    <2>1. CASE c # current \/ k # n
      <3>1. k \in 0..tries[c]
        BY <1>1, <1>2, <2>1
      <3>2. <<c, k>> \in Handlers /\ <<c, k>> # <<current, n>> /\ k \in Levels(c)
        BY <2>1, <3>1, LevelsNat DEF Levels
      <3>3. QED
        BY <1>3, <3>2 DEF Chains, Records
    <2>2. CASE c = current /\ k = n
      BY <1>1, <1>3, <2>2 DEF Below, Chains, OwnTop, OwnHandler, Started
    <2>3. QED
      BY <2>1, <2>2
  <1>6. OwnTop'
    BY <1>1, <1>2, <1>3 DEF OwnTop, OwnHandler
  <1>7. OwnSaved'
    BY <1>1, <1>2 DEF Chains, OwnSaved, OwnHandler
  <1>8. QED
    BY <1>4, <1>5, <1>6, <1>7 DEF Chains

LEMMA ChainsPop ==
    ASSUME TypeOK, Chains, PopTry
    PROVE  Chains'
  <1>1. /\ current \in Contexts /\ resume[current] = User /\ resume' = resume /\ Started(current)
        /\ current' = current /\ saved' = saved /\ record' = record
        /\ tries[current] \in Nat /\ tries[current] > 0 /\ tries'[current] = tries[current] - 1
    BY LevelsNat, PlacesDiffer DEF PopTry, At, TypeOK, Started
  <1>2. \A c \in Contexts : c # current => tries'[c] = tries[c]
    BY DEF TypeOK, PopTry
  <1>3. BareStacks'
    BY <1>1, <1>2, PlacesDiffer DEF Chains, BareStacks
  <1>4. Records'
    <2> SUFFICES ASSUME NEW c \in Contexts, Started(c),
                        NEW k \in 0..tries'[c], k > 0 \/ c # Main
                 PROVE  record[<<c, k>>].next = Below(c, k)
      BY <1>1 DEF Records, Started, Levels, Below
    <2>1. k \in Levels(c)
      BY <1>1, <1>2, LevelsNat DEF Levels
    <2>2. QED
      BY <2>1 DEF Chains, Records
  <1>5. OwnTop'
    <2>1. tries[current] \in Levels(current)
      BY <1>1 DEF Levels
    <2>2. top' = Below(current, tries[current])
      BY <1>1, <2>1 DEF Chains, Records, PopTry, Innermost
    <2>3. resume'[current'] # <<"entry">> /\ tries'[current'] = tries[current] - 1
      BY <1>1, PlacesDiffer
    <2>4. QED
      BY <1>1, <2>2, <2>3 DEF OwnTop, OwnHandler, Below
  <1>6. OwnSaved'
    BY <1>1, <1>2 DEF Chains, OwnSaved, OwnHandler
  <1>7. QED
    BY <1>3, <1>4, <1>5, <1>6 DEF Chains

-----------------------------------------------------------------------------
(* What is in transit. *)

LEMMA NoTransit ==
    ASSUME resume[current] \in {User, <<"entry">>, <<"escape">>}, NEW f \in Fibers
    PROVE  ~InTransit(f)
  BY PlacesDiffer DEF InTransit

\* Nothing is handed over: the program's code runs on, or an escape begins.
LEMMA PayloadsStay ==
    ASSUME Payloads, resume[current] \in {User, <<"entry">>, <<"escape">>},
           resume'[current'] \in {User, <<"entry">>, <<"escape">>},
           \A f \in Fibers :
              \/ pending'[f] = pending[f] /\ transfer'[f] = transfer[f]
                 /\ (state'[f] = state[f] \/ state[f] # "Terminated")
              \/ pending'[f] = Nothing /\ transfer'[f] = Nothing
    PROVE  Payloads'
  <1>1. \A f \in Fibers : /\ resume'[current'] # <<"tail", f>>
                          /\ current' = f => resume'[f] # <<"wake">>
    BY PlacesDiffer
  <1>2. Parked'
    BY NoTransit DEF Payloads, Parked
  <1>3. OnePayload'
    BY <1>1 DEF OnePayload
  <1>4. QED
    BY <1>2, <1>3 DEF Payloads

\* resume and throw give a suspended fiber one payload and go there.
LEMMA PayloadsIn ==
    ASSUME TypeOK, Payloads, resume[current] = User, NEW f \in Fibers, state[f] = "Suspended",
           current' = f, resume'[f] = <<"wake">>, state' = state,
           \/ pending' = pending /\ \E v : transfer' = [transfer EXCEPT ![f] = v]
           \/ transfer' = transfer /\ \E e : pending' = [pending EXCEPT ![f] = e]
    PROVE  Payloads'
  <1>1. pending[f] = Nothing /\ transfer[f] = Nothing
    BY NoTransit DEF Payloads, Parked
  <1>2. \A g \in Fibers : g # f => pending'[g] = pending[g] /\ transfer'[g] = transfer[g]
    BY DEF TypeOK
  <1>3. Parked'
    <2> SUFFICES ASSUME NEW g \in Fibers, g # f
                 PROVE  pending'[g] = Nothing /\ (transfer'[g] # Nothing => state[g] = "Terminated")
      BY DEF Parked, InTransit
    <2>1. QED
      BY <1>2, NoTransit DEF Payloads, Parked
  <1>4. OnePayload'
    <2>1. pending'[f] = Nothing \/ transfer'[f] = Nothing
      BY <1>1
    <2>2. QED
      BY <2>1, PlacesDiffer DEF OnePayload
  <1>5. QED
    BY <1>3, <1>4 DEF Payloads

\* A fiber stops and leaves a value or an exception for the context that waits.
LEMMA PayloadsOut ==
    ASSUME TypeOK, Payloads, resume[current] \in {User, <<"escape">>},
           current \in Fibers, resume'[current'] = <<"tail", current>>,
           \/ /\ \E v : transfer' = [transfer EXCEPT ![current] = v]
              /\ pending' = pending
              /\ \E how : state' = [state EXCEPT ![current] = how]
           \/ /\ transfer' = [transfer EXCEPT ![current] = Nothing]
              /\ pending' = [pending EXCEPT ![current] = exc]
              /\ state' = [state EXCEPT ![current] = "Terminated"]
    PROVE  Payloads'
  <1>1. pending[current] = Nothing
    BY NoTransit DEF Payloads, Parked
  <1>2. \A g \in Fibers : g # current => /\ pending'[g] = pending[g] /\ transfer'[g] = transfer[g]
                                         /\ state'[g] = state[g]
    BY DEF TypeOK
  <1>3. \A g \in Fibers : resume'[current'] = <<"tail", g>> => g = current
    BY PlacesDiffer
  <1>4. Parked'
    <2> SUFFICES ASSUME NEW g \in Fibers, g # current
                 PROVE  pending'[g] = Nothing /\ (transfer'[g] # Nothing => state'[g] = "Terminated")
      BY DEF Parked, InTransit
    <2>1. QED
      BY <1>2, NoTransit DEF Payloads, Parked
  <1>5. OnePayload'
    <2>1. state'[current] = "Suspended" => pending'[current] = Nothing
      BY <1>1 DEF TypeOK
    <2>2. \A g \in Fibers : ~(current' = g /\ resume'[g] = <<"wake">>)
      BY PlacesDiffer
    <2>3. QED
      BY <1>3, <2>1, <2>2 DEF OnePayload
  <1>6. QED
    BY <1>4, <1>5 DEF Payloads

\* The payload of f is received; nothing else was on its way.
LEMMA PayloadsReceived ==
    ASSUME Payloads, NEW f \in Fibers,
           \A g \in Fibers : g # f => ~InTransit(g) /\ pending'[g] = pending[g]
                                      /\ transfer'[g] = transfer[g] /\ state'[g] = state[g],
           resume'[current'] \in {User, <<"entry">>, <<"escape">>},
           pending'[f] = Nothing /\ (transfer'[f] # Nothing => state'[f] = "Terminated")
    PROVE  Payloads'
  <1>1. Parked'
    BY DEF Payloads, Parked
  <1>2. OnePayload'
    BY PlacesDiffer DEF OnePayload
  <1>3. QED
    BY <1>1, <1>2 DEF Payloads

\* The end of start, resume and throw.
LEMMA PayloadsHandedBack ==
    ASSUME TypeOK, Sound, NEW f \in Fibers, HandedBack(f),
           resume'[current'] \in {User, <<"escape">>}
    PROVE  Payloads'
  <1>1. resume[current] = <<"tail", f>> /\ state[f] \in {"Suspended", "Terminated"}
    BY DEF HandedBack, At, Sound, Control, Handing
  <1>2. state' = state
    BY DEF HandedBack
  <1>3. \A g \in Fibers : g # f => ~InTransit(g)
    BY <1>1, PlacesDiffer DEF InTransit
  <1>4. \A g \in Fibers : g # f => pending'[g] = pending[g] /\ transfer'[g] = transfer[g]
    BY DEF HandedBack, TypeOK
  <1>5. pending'[f] = Nothing /\ (transfer'[f] # Nothing => state'[f] = "Terminated")
    <2>1. CASE state[f] = "Terminated"
      BY <1>2, <2>1 DEF HandedBack, TypeOK
    <2>2. CASE state[f] = "Suspended"
      <3>1. pending[f] = Nothing
        BY <1>1, <2>2 DEF Sound, Payloads, OnePayload
      <3>2. QED
        BY <2>2, <3>1 DEF HandedBack, TypeOK
    <2>3. QED
      BY <1>1, <2>1, <2>2
  <1>6. QED
    BY <1>2, <1>3, <1>4, <1>5, PayloadsReceived DEF Sound

\* The end of suspend.
LEMMA PayloadsWake ==
    ASSUME TypeOK, Sound, Wake, current \in Fibers,
           resume'[current'] \in {User, <<"escape">>}
    PROVE  Payloads'
  <1>1. resume[current] = <<"wake">>
    BY DEF Wake, At
  <1>2. \A g \in Fibers : g # current => ~InTransit(g)
    BY <1>1, PlacesDiffer DEF InTransit
  <1>3. \A g \in Fibers : g # current =>
           pending'[g] = pending[g] /\ transfer'[g] = transfer[g] /\ state'[g] = state[g]
    BY DEF Wake, TypeOK
  <1>4. pending'[current] = Nothing /\ transfer'[current] = Nothing
    <2>1. CASE pending[current] # Nothing
      <3>1. transfer[current] = Nothing
        BY <1>1, <2>1 DEF Sound, Payloads, OnePayload
      <3>2. QED
        BY <2>1, <3>1 DEF Wake, TypeOK
    <2>2. CASE pending[current] = Nothing
      BY <2>2 DEF Wake, TypeOK
    <2>3. QED
      BY <2>1, <2>2
  <1>5. QED
    BY <1>2, <1>3, <1>4, PayloadsReceived DEF Sound

-----------------------------------------------------------------------------
(* The steps. *)

\* A throw of the running context, or an exception it is handed.
LEMMA RaiseSound ==
    ASSUME TypeOK, Sound, status = "running", NEW e, Raise(e, top), caller' = caller,
           Started(current), \/ state' = state /\ resume[current] \in {User} \cup Tails
                             \/ current \in Fibers /\ state' = [state EXCEPT ![current] = "Running"]
    PROVE  /\ status' # "wild"
           /\ status' = "running" => /\ Control' /\ Chains' /\ current' = current
                                     /\ resume'[current'] \in {User, <<"escape">>}
  <1>1. /\ UNCHANGED <<current, saved, record>>
        /\ \/ status' = "uncaught"
           \/ status' = "running" /\ Escapes
           \/ status' = "running" /\ Catches
    BY RaiseOutcome DEF Sound, Chains
  <1>2. current \in Contexts
    BY DEF TypeOK
  <1>3. CASE status' = "uncaught"
    BY <1>3
  <1>4. CASE status' = "running" /\ Escapes
    <2>1. Chains'
      BY <1>1, <1>4, ChainsEscape DEF Sound
    <2>2. Control'
      BY <1>1, <1>4, ControlGoesOn DEF Sound, Escapes
    <2>3. resume'[current'] = <<"escape">>
      BY <1>1, <1>2, <1>4 DEF Escapes, TypeOK
    <2>4. QED
      BY <1>1, <1>4, <2>1, <2>2, <2>3
  <1>5. CASE status' = "running" /\ Catches
    <2>1. Chains'
      BY <1>1, <1>5, ChainsCatch DEF Sound
    <2>2. Control'
      BY <1>1, <1>5, ControlGoesOn, PlacesDiffer DEF Sound, Catches
    <2>3. resume'[current'] = User
      BY <1>1, <1>2, <1>5 DEF Catches, TypeOK
    <2>4. QED
      BY <1>1, <1>5, <2>1, <2>2, <2>3
  <1>6. QED
    BY <1>1, <1>3, <1>4, <1>5

\* A helper that returns to the program.
LEMMA ReturnSound ==
    ASSUME TypeOK, Sound, status = "running", NEW v, Return(v), caller' = caller,
           Started(current), \/ state' = state /\ resume[current] \in {User} \cup Tails
                             \/ current \in Fibers /\ state' = [state EXCEPT ![current] = "Running"]
    PROVE  /\ status' = "running" /\ Control' /\ Chains' /\ current' = current
           /\ resume'[current'] \in {User, <<"escape">>}
  <1>1. /\ UNCHANGED <<current, top, saved, record, status, tries>>
        /\ resume' = [resume EXCEPT ![current] = User] /\ current \in Contexts
    BY DEF Return, codeVars, TypeOK
  <1>2. Chains'
    BY <1>1, ChainsReturn DEF Sound
  <1>3. Control'
    BY <1>1, ControlGoesOn, PlacesDiffer DEF Sound
  <1>4. resume'[current'] = User
    BY <1>1 DEF TypeOK
  <1>5. QED
    BY <1>1, <1>2, <1>3, <1>4

\* The program's own throw, and what the runtime throws when it is misused.
LEMMA ThrowSound ==
    ASSUME TypeOK, Sound, At(User), NEW e, Raise(e, top), UNCHANGED fiberVars
    PROVE  status' # "wild" /\ (status' = "running" => Sound')
  <1>1. /\ status = "running" /\ resume[current] = User /\ Started(current)
        /\ UNCHANGED <<state, caller, transfer, pending>>
    BY PlacesDiffer DEF At, Started, fiberVars
  <1>2. status' # "wild" /\ (status' = "running" =>
          Control' /\ Chains' /\ current' = current /\ resume'[current'] \in {User, <<"escape">>})
    BY <1>1, RaiseSound
  <1>3. ASSUME status' = "running" PROVE Payloads'
    BY <1>1, <1>2, <1>3, PayloadsStay DEF Sound
  <1>4. QED
    BY <1>2, <1>3 DEF Sound

\* start, resume and throw go to fiber f.
LEMMA CallSound ==
    ASSUME TypeOK, Sound, At(User), NEW f \in Fibers, SwitchTo(f, <<"tail", f>>),
           caller' = [caller EXCEPT ![f] = current], state' = state,
           \/ /\ state[f] = "NotStarted" /\ pending' = pending /\ transfer' = transfer
           \/ /\ state[f] = "Suspended"
              /\ \/ pending' = pending /\ \E v : transfer' = [transfer EXCEPT ![f] = v]
                 \/ transfer' = transfer /\ \E e : pending' = [pending EXCEPT ![f] = e]
    PROVE  status' # "wild" /\ (status' = "running" => Sound')
  <1>1. /\ resume[current] = User /\ Started(current) /\ f \in Contexts /\ status' = "running"
        /\ Switch(top, f) /\ resume' = [resume EXCEPT ![current] = <<"tail", f>>]
        /\ UNCHANGED <<record, tries>> /\ current' = f /\ current \in Contexts
    BY PlacesDiffer DEF At, Started, Contexts, SwitchTo, codeVars, Switch, TypeOK
  <1>2. /\ resume[f] \in {<<"entry">>, <<"wake">>}
        /\ state[f] = "NotStarted" <=> resume[f] = <<"entry">>
        /\ state[f] = "Suspended" <=> resume[f] = <<"wake">>
    BY DEF Sound, Control, PlacesFit
  <1>3. f # current /\ resume[f] # Gone /\ resume'[f] = resume[f]
    BY <1>1, <1>2, PlacesDiffer DEF TypeOK
  <1>4. Control'
    BY <1>1, <1>2, ControlCalls DEF Sound
  <1>5. Chains'
    <2>1. <<"tail", f>> \in {<<"wake">>} \cup Tails /\ f \in Contexts \ {current}
      BY <1>1, <1>3 DEF Tails
    <2>2. QED
      BY <1>1, <1>3, <2>1, ChainsSwitch DEF Sound
  <1>6. Payloads'
    <2>1. CASE state[f] = "NotStarted"
      BY <1>1, <1>2, <1>3, <2>1, PayloadsStay DEF Sound
    <2>2. CASE state[f] = "Suspended"
      BY <1>1, <1>2, <1>3, <2>2, PayloadsIn DEF Sound
    <2>3. QED
      BY <2>1, <2>2
  <1>7. QED
    BY <1>1, <1>4, <1>5, <1>6 DEF Sound

\* suspend, and both ends of a fiber, go to the context that waits for it.
LEMMA BackSound ==
    ASSUME TypeOK, Sound, status = "running", current \in Fibers,
           resume[current] \in {User, <<"escape">>}, NEW head, Switch(head, caller[current]),
           NEW place, resume' = [resume EXCEPT ![current] = place],
           UNCHANGED <<caller, record, status, tries>>,
           \/ place = <<"wake">> /\ state' = [state EXCEPT ![current] = "Suspended"] /\ head = top
           \/ /\ place = Gone /\ state' = [state EXCEPT ![current] = "Terminated"]
              /\ tries[current] = 0,
           \/ pending' = pending /\ \E v : transfer' = [transfer EXCEPT ![current] = v]
           \/ /\ transfer' = [transfer EXCEPT ![current] = Nothing]
              /\ pending' = [pending EXCEPT ![current] = exc] /\ place = Gone
    PROVE  status' # "wild" /\ (status' = "running" => Sound')
  <1>1. Started(current) /\ current' = caller[current] /\ current \in Contexts
    BY PlacesDiffer DEF Started, Switch, TypeOK
  <1>2. /\ Control' /\ current' \in Contexts \ {current}
        /\ resume'[current'] = <<"tail", current>>
    BY <1>1, ControlHandsBack DEF Sound
  <1>3. resume[current'] # Gone
    BY <1>1, <1>2, PlacesDiffer DEF TypeOK
  <1>4. Chains'
    BY <1>1, <1>2, <1>3, ChainsSwitch DEF Sound
  <1>5. Payloads'
    <2>1. CASE pending' = pending /\ \E v : transfer' = [transfer EXCEPT ![current] = v]
      BY <1>2, <2>1, PayloadsOut DEF Sound
    <2>2. CASE /\ transfer' = [transfer EXCEPT ![current] = Nothing]
               /\ pending' = [pending EXCEPT ![current] = exc] /\ place = Gone
      BY <1>2, <2>2, PayloadsOut, PlacesDiffer DEF Sound
    <2>3. QED
      BY <2>1, <2>2
  <1>6. QED
    BY <1>2, <1>4, <1>5 DEF Sound

\* Another fiber is made or freed.
LEMMA ElsewhereSound ==
    ASSUME TypeOK, Sound, At(User), NEW f \in Fibers, NEW place,
           UNCHANGED <<current, top, record, status>>,
           resume' = [resume EXCEPT ![f] = place],
           transfer' = [transfer EXCEPT ![f] = Nothing], pending' = [pending EXCEPT ![f] = Nothing],
           \/ /\ state[f] = "absent" /\ place = <<"entry">>
              /\ state' = [state EXCEPT ![f] = "NotStarted"]
              /\ caller' = [caller EXCEPT ![f] = Main]
              /\ saved' = [saved EXCEPT ![f] = NoHandler] /\ tries' = tries
           \/ /\ state[f] # "Running" /\ place = Gone
              /\ state' = [state EXCEPT ![f] = "absent"] /\ caller' = caller
              /\ saved' = saved /\ tries' = [tries EXCEPT ![f] = 0]
    PROVE  status' # "wild" /\ (status' = "running" => Sound')
  <1>1. status = "running" /\ resume[current] = User /\ state[f] # "Running"
    BY DEF At
  <1>2. \A g \in Fibers : g # f => caller'[g] = caller[g]
    BY DEF TypeOK
  <1>3. Control' /\ f # current
    BY <1>1, <1>2, ControlElsewhere DEF Sound
  <1>4. Chains'
    <2>1. state[f] = "absent" => resume[f] = Gone
      BY DEF Sound, Control, PlacesFit
    <2>2. QED
      BY <1>3, <2>1, ChainsElsewhere DEF Sound
  <1>5. Payloads'
    <2>1. resume'[current'] = User
      BY <1>1, <1>3 DEF TypeOK
    <2>2. ASSUME NEW g \in Fibers
          PROVE  \/ pending'[g] = pending[g] /\ transfer'[g] = transfer[g] /\ state'[g] = state[g]
                 \/ pending'[g] = Nothing /\ transfer'[g] = Nothing
      BY DEF TypeOK
    <2>3. QED
      BY <1>1, <2>1, <2>2, PayloadsStay DEF Sound
  <1>6. QED
    BY <1>1, <1>3, <1>4, <1>5 DEF Sound

\* The program's code goes on, and no fiber is involved.
LEMMA CodeSound ==
    ASSUME Sound, At(User), Chains', UNCHANGED <<current, resume, status, fiberVars>>
    PROVE  status' # "wild" /\ (status' = "running" => Sound')
  <1>1. /\ UNCHANGED <<state, caller, transfer, pending>>
        /\ status' = "running" /\ resume'[current'] = User /\ resume[current] = User
    BY DEF fiberVars, At
  <1>2. Control'
    BY <1>1 DEF Sound, Control, PlacesFit, Handing, Waits, NoCycle, Active
  <1>3. Payloads'
    BY <1>1, PayloadsStay DEF Sound
  <1>4. QED
    BY <1>1, <1>2, <1>3 DEF Sound

LEMMA ChainsSame ==
    ASSUME Chains, UNCHANGED <<current, resume, top, saved, record, tries>>
    PROVE  Chains'
  BY DEF Chains, BareStacks, Records, Started, Levels, Below, OwnTop, OwnSaved, OwnHandler

\* The first call of the program's code on a new stack.
LEMMA EntrySound ==
    ASSUME TypeOK, Sound, Entry
    PROVE  status' # "wild" /\ (status' = "running" => Sound')
  <1>1. /\ resume[current] = <<"entry">> /\ resume' = [resume EXCEPT ![current] = User]
        /\ state' = [state EXCEPT ![current] = "Running"] /\ status' = "running"
        /\ UNCHANGED <<current, caller, transfer, pending>> /\ current \in Contexts
    BY DEF Entry, At, TypeOK
  <1>2. current \in Fibers /\ state[current] = "NotStarted"
    BY <1>1, PlacesDiffer DEF Sound, Control, PlacesFit, Tails, Contexts
  <1>3. Control'
    BY <1>1, <1>2, ControlGoesOn, PlacesDiffer DEF Sound
  <1>4. Chains'
    BY ChainsEntry DEF Sound
  <1>5. Payloads'
    <2>1. resume'[current'] = User
      BY <1>1 DEF TypeOK
    <2>2. ASSUME NEW f \in Fibers PROVE state'[f] = state[f] \/ state[f] # "Terminated"
      BY <1>1, <1>2 DEF TypeOK
    <2>3. QED
      BY <1>1, <2>1, <2>2, PayloadsStay DEF Sound
  <1>6. QED
    BY <1>1, <1>3, <1>4, <1>5 DEF Sound

LEMMA HandedBackSound ==
    ASSUME TypeOK, Sound, NEW f \in Fibers, HandedBack(f)
    PROVE  status' # "wild" /\ (status' = "running" => Sound')
  <1>1. /\ status = "running" /\ resume[current] = <<"tail", f>> /\ state' = state
        /\ caller' = caller /\ resume[current] \in {User} \cup Tails /\ Started(current)
    BY PlacesDiffer DEF HandedBack, At, Started, Tails
  <1>2. \/ Raise(pending[f], top) \/ Return(Null) \/ Return(transfer[f])
    BY DEF HandedBack
  <1>3. /\ status' # "wild"
        /\ status' = "running" => /\ Control' /\ Chains' /\ current' = current
                                  /\ resume'[current'] \in {User, <<"escape">>}
    <2>1. CASE Raise(pending[f], top)
      BY <1>1, <2>1, RaiseSound
    <2>2. CASE Return(Null)
      BY <1>1, <2>2, ReturnSound
    <2>3. CASE Return(transfer[f])
      BY <1>1, <2>3, ReturnSound
    <2>4. QED
      BY <1>2, <2>1, <2>2, <2>3
  <1>4. QED
    BY <1>3, PayloadsHandedBack DEF Sound

LEMMA WakeSound ==
    ASSUME TypeOK, Sound, Wake
    PROVE  status' # "wild" /\ (status' = "running" => Sound')
  <1>1. /\ status = "running" /\ resume[current] = <<"wake">> /\ caller' = caller
        /\ state' = [state EXCEPT ![current] = "Running"] /\ Started(current)
    BY PlacesDiffer DEF Wake, At, Started
  <1>2. current \in Fibers
    BY <1>1, PlacesDiffer DEF Sound, Control, PlacesFit, TypeOK, Contexts, Tails
  <1>3. Raise(pending[current], top) \/ Return(transfer[current])
    BY DEF Wake
  <1>4. /\ status' # "wild"
        /\ status' = "running" => /\ Control' /\ Chains' /\ current' = current
                                  /\ resume'[current'] \in {User, <<"escape">>}
    <2>1. CASE Raise(pending[current], top)
      BY <1>1, <1>2, <2>1, RaiseSound
    <2>2. CASE Return(transfer[current])
      BY <1>1, <1>2, <2>2, ReturnSound
    <2>3. QED
      BY <1>3, <2>1, <2>2
  <1>5. QED
    BY <1>2, <1>4, PayloadsWake DEF Sound

LEMMA SoundStep ==
    ASSUME "freeactive" \notin Idioms, TypeOK, Sound, status = "running", Next
    PROVE  status' # "wild" /\ (status' = "running" => Sound')
  <1> DEFINE Goal == status' # "wild" /\ (status' = "running" => Sound')
  <1> SUFFICES Goal
    OBVIOUS
  <1> HIDE DEF Goal
  <1>0. ASSUME At(User), StateError PROVE Goal
    BY <1>0, ThrowSound DEF StateError, Goal
  <1>1. ASSUME NEW f \in Fibers, Construct(f) PROVE Goal
    BY <1>1, ElsewhereSound DEF Construct, Exists, codeVars, Goal
  <1>2. ASSUME NEW f \in Fibers, Start(f) PROVE Goal
    <2>1. CASE StateError
      BY <1>0, <1>2, <2>1 DEF Start
    <2>2. CASE ~StateError
      <3>1. /\ At(User) /\ state[f] = "NotStarted" /\ SwitchTo(f, <<"tail", f>>)
            /\ caller' = [caller EXCEPT ![f] = current] /\ UNCHANGED <<state, transfer, pending>>
        BY <1>2, <2>2 DEF Start
      <3>2. QED
        BY <3>1, CallSound DEF Goal
    <2>3. QED
      BY <2>1, <2>2
  <1>3. ASSUME NEW f \in Fibers, NEW v \in Values, Resume(f, v) PROVE Goal
    <2>1. CASE StateError
      BY <1>0, <1>3, <2>1 DEF Resume
    <2>2. CASE ~StateError
      <3>1. /\ At(User) /\ state[f] = "Suspended" /\ SwitchTo(f, <<"tail", f>>)
            /\ transfer' = [transfer EXCEPT ![f] = v]
            /\ caller' = [caller EXCEPT ![f] = current] /\ UNCHANGED <<state, pending>>
        BY <1>3, <2>2 DEF Resume
      <3>2. QED
        BY <3>1, CallSound DEF Goal
    <2>3. QED
      BY <2>1, <2>2
  <1>4. ASSUME NEW f \in Fibers, NEW e \in Throwables, ThrowInto(f, e) PROVE Goal
    <2>1. CASE StateError
      BY <1>0, <1>4, <2>1 DEF ThrowInto
    <2>2. CASE ~StateError
      <3>1. /\ At(User) /\ state[f] = "Suspended" /\ SwitchTo(f, <<"tail", f>>)
            /\ pending' = [pending EXCEPT ![f] = e]
            /\ caller' = [caller EXCEPT ![f] = current] /\ UNCHANGED <<state, transfer>>
        BY <1>4, <2>2 DEF ThrowInto
      <3>2. QED
        BY <3>1, CallSound DEF Goal
    <2>3. QED
      BY <2>1, <2>2
  <1>5. ASSUME NEW v \in Values, Suspend(v) PROVE Goal
    <2>1. CASE StateError
      BY <1>0, <1>5, <2>1 DEF Suspend
    <2>2. CASE ~StateError
      <3>1. /\ At(User) /\ current \in Fibers /\ SwitchTo(caller[current], <<"wake">>)
            /\ transfer' = [transfer EXCEPT ![current] = v]
            /\ state' = [state EXCEPT ![current] = "Suspended"] /\ UNCHANGED <<caller, pending>>
        BY <1>5, <2>2 DEF Suspend, TypeOK, Contexts
      <3>2. /\ Switch(top, caller[current]) /\ resume' = [resume EXCEPT ![current] = <<"wake">>]
            /\ UNCHANGED <<record, status, tries>> /\ resume[current] = User
        BY <3>1 DEF SwitchTo, codeVars, At
      <3>3. QED
        BY <3>1, <3>2, BackSound DEF Goal
    <2>3. QED
      BY <2>1, <2>2
  <1>6. ASSUME NEW f \in Fibers, GetReturn(f) PROVE Goal
    <2>1. CASE StateError
      BY <1>0, <1>6, <2>1 DEF GetReturn
    <2>2. CASE ~StateError
      <3>1. /\ At(User)
            /\ UNCHANGED <<current, top, saved, record, resume, status, fiberVars, codeVars>>
        BY <1>6, <2>2 DEF GetReturn
      <3>2. Chains'
        BY <3>1, ChainsSame DEF Sound, codeVars
      <3>3. QED
        BY <3>1, <3>2, CodeSound DEF Goal
    <2>3. QED
      BY <2>1, <2>2
  <1>7. ASSUME NEW f \in Fibers, Free(f) PROVE Goal
    BY <1>7, ElsewhereSound DEF Free, Goal
  <1>8. CASE PushTry
    BY <1>8, ChainsPush, CodeSound DEF PushTry, Sound, Goal
  <1>9. CASE PopTry
    BY <1>9, ChainsPop, CodeSound DEF PopTry, Sound, Goal
  <1>10. ASSUME NEW e \in Throwables, Throw(e) PROVE Goal
    BY <1>10, ThrowSound DEF Throw, Goal
  <1>11. CASE ConstructFails
    BY <1>0, <1>11 DEF ConstructFails
  <1>12. CASE EnterQuiet
    BY <1>12, ChainsSame, CodeSound DEF EnterQuiet, Sound, Goal
  <1>13. CASE LeaveQuiet
    BY <1>13, ChainsSame, CodeSound DEF LeaveQuiet, Sound, Goal
  <1>14. CASE Entry
    BY <1>14, EntrySound DEF Goal
  <1>15. ASSUME NEW v \in Values, Finish(v) PROVE Goal
    <2>1. /\ resume[current] = User /\ current \in Fibers /\ tries[current] = 0
          /\ Switch(record[<<current, 0>>].next, caller[current])
          /\ resume' = [resume EXCEPT ![current] = Gone]
          /\ transfer' = [transfer EXCEPT ![current] = v]
          /\ state' = [state EXCEPT ![current] = "Terminated"]
          /\ UNCHANGED <<caller, record, status, tries, pending>>
      BY <1>15 DEF Finish, At, TypeOK, Contexts, codeVars
    <2>2. QED
      BY <2>1, BackSound DEF Goal
  <1>16. CASE Escape
    <2>1. /\ resume[current] = <<"escape">>
          /\ Switch(record[<<current, 0>>].next, caller[current])
          /\ resume' = [resume EXCEPT ![current] = Gone]
          /\ transfer' = [transfer EXCEPT ![current] = Nothing]
          /\ pending' = [pending EXCEPT ![current] = exc]
          /\ state' = [state EXCEPT ![current] = "Terminated"]
          /\ UNCHANGED <<caller, record, status, tries>>
      BY <1>16 DEF Escape, At, codeVars
    <2>2. current \in Fibers
      BY <2>1, PlacesDiffer DEF Sound, Control, PlacesFit, TypeOK, Contexts, Tails
    <2>3. tries[current] = 0
      BY <2>1, <2>2 DEF Sound, Chains, BareStacks, TypeOK
    <2>4. QED
      BY <2>1, <2>2, <2>3, BackSound DEF Goal
  <1>17. ASSUME NEW f \in Fibers, HandedBack(f) PROVE Goal
    BY <1>17, HandedBackSound DEF Goal
  <1>18. CASE Wake
    BY <1>18, WakeSound DEF Goal
  <1>19. CASE Stopped
    BY <1>19 DEF Stopped
  <1>20. QED
    BY <1>1, <1>2, <1>3, <1>4, <1>5, <1>6, <1>7, <1>8, <1>9, <1>10, <1>11, <1>12,
       <1>13, <1>14, <1>15, <1>16, <1>17, <1>18, <1>19 DEF Next

-----------------------------------------------------------------------------

LEMMA InitInv == Init => IInv
  <1> SUFFICES ASSUME Init PROVE TypeOK /\ status # "wild" /\ Sound
    BY DEF IInv
  <1>1. TypeOK
    BY InitTypes
  <1>2. /\ current = Main /\ resume[Main] = User /\ \A f \in Fibers : resume[f] = Gone
        /\ \A c \in Contexts : tries[c] = 0 /\ (c # Main => resume[c] = Gone)
        /\ \A f \in Fibers : state[f] = "absent" /\ pending[f] = Nothing /\ transfer[f] = Nothing
        /\ Main \in Contexts /\ Main \notin Fibers /\ top = NoHandler
    BY ContextsAssumption DEF Init, Contexts
  <1>3. Active = {}
    BY <1>2, PlacesDiffer DEF Active
  <1>4. PlacesFit
    BY <1>2, PlacesDiffer DEF PlacesFit
  <1>5. Handing /\ Waits /\ NoCycle
    BY <1>2, <1>3, PlacesDiffer DEF Handing, Waits, NoCycle
  <1>6. Chains
    BY <1>2, PlacesDiffer
       DEF Chains, BareStacks, Records, Started, Levels, OwnTop, OwnSaved, OwnHandler
  <1>7. Payloads
    BY <1>2, PlacesDiffer DEF Payloads, Parked, OnePayload
  <1>8. QED
    BY <1>1, <1>4, <1>5, <1>6, <1>7 DEF Sound, Control, Init

LEMMA InvStep ==
    ASSUME "freeactive" \notin Idioms, IInv, [Next]_vars
    PROVE  IInv'
  <1>1. TypeOK'
    BY TypeStep DEF IInv, Sound, Control
  <1>2. CASE UNCHANGED vars
    BY <1>2 DEF vars, IInv, TypeOK, Sound, Control, PlacesFit, Handing, Waits, NoCycle, Active,
                Chains, BareStacks, Records, Started, Levels, Below, OwnTop, OwnSaved, OwnHandler,
                Payloads, Parked, OnePayload, InTransit
  <1>3. CASE Next /\ status = "running"
    BY <1>1, <1>3, SoundStep DEF IInv
  <1>4. CASE Next /\ status # "running"
    <2>1. UNCHANGED vars
      BY <1>4 DEF Next, Stopped, At, Construct, Start, Resume, ThrowInto, Suspend, GetReturn, Free,
                  PushTry, PopTry, Throw, ConstructFails, EnterQuiet, LeaveQuiet, Entry, Finish,
                  Escape, HandedBack, Wake
    <2>2. QED
      BY <1>2, <2>1
  <1>5. QED
    BY <1>2, <1>3, <1>4

\* Every variable keeps its type, and no throw jumps to a stack that is not
\* the running one (status "wild").
THEOREM FibersTyped ==
    ASSUME "freeactive" \notin Idioms
    PROVE  Spec => [](TypeOK /\ status # "wild")
  <1>1. Init => IInv
    BY InitInv
  <1>2. IInv /\ [Next]_vars => IInv'
    BY InvStep
  <1>3. IInv => TypeOK /\ status # "wild"
    BY DEF IInv
  <1>4. QED
    BY <1>1, <1>2, <1>3, PTL DEF Spec

\* Control finds its way back to the main program, whatever fibers resume
\* whatever fibers.
THEOREM ReturnsToMainAlways ==
    ASSUME "freeactive" \notin Idioms
    PROVE  Spec => []ReturnsToMain
  <1>1. Init => IInv
    BY InitInv
  <1>2. IInv /\ [Next]_vars => IInv'
    BY InvStep
  <1>3. IInv => ReturnsToMain
    BY DEF IInv, Sound, Control, Waits, NoCycle, ReturnsToMain
  <1>4. QED
    BY <1>1, <1>2, <1>3, PTL DEF Spec

\* The handler chains of all stacks stay apart: a throw never jumps to the
\* stack of another context.
THEOREM ChainsApartAlways ==
    ASSUME "freeactive" \notin Idioms
    PROVE  Spec => []ChainsApart
  <1>1. Init => IInv
    BY InitInv
  <1>2. IInv /\ [Next]_vars => IInv'
    BY InvStep
  <1>3. IInv => ChainsApart
    BY DEF IInv, Sound, Chains, OwnTop, OwnSaved, ChainsApart
  <1>4. QED
    BY <1>1, <1>2, <1>3, PTL DEF Spec

\* While the program's code runs no value and no exception is parked in a
\* Fiber object, except for what a callable returned.
THEOREM PayloadsInTransitAlways ==
    ASSUME "freeactive" \notin Idioms
    PROVE  Spec => []PayloadsInTransit
  <1>1. Init => IInv
    BY InitInv
  <1>2. IInv /\ [Next]_vars => IInv'
    BY InvStep
  <1>3. IInv => PayloadsInTransit
    BY DEF IInv, Sound, Payloads, Parked, PayloadsInTransit
  <1>4. QED
    BY <1>1, <1>2, <1>3, PTL DEF Spec

\* No stack is unmapped that control has to return to.
THEOREM StacksMappedAlways ==
    ASSUME "freeactive" \notin Idioms
    PROVE  Spec => [](status = "running" => StacksMapped)
  <1>1. Init => IInv
    BY InitInv
  <1>2. IInv /\ [Next]_vars => IInv'
    BY InvStep
  <1>3. IInv => (status = "running" => StacksMapped)
    <2> SUFFICES ASSUME Sound, NEW f \in Active PROVE Exists(f)
      BY DEF IInv, StacksMapped
    <2>1. f \in Fibers /\ resume[f] # Gone
      BY PlacesDiffer DEF Active, Sound, Control, PlacesFit
    <2>2. QED
      BY <2>1 DEF Sound, Control, PlacesFit, Exists
  <1>4. QED
    BY <1>1, <1>2, <1>3, PTL DEF Spec

\* A payload is never overwritten by another one.
THEOREM PayloadsKeptAlways ==
    ASSUME "freeactive" \notin Idioms
    PROVE  Spec => PayloadsKept
  <1> DEFINE Kept == \A f \in Fibers :
         /\ transfer'[f] # transfer[f] => Nothing \in {transfer[f], transfer'[f]}
         /\ pending'[f] # pending[f] => Nothing \in {pending[f], pending'[f]}
  <1>1. Init => IInv
    BY InitInv
  <1>2. IInv /\ [Next]_vars => IInv'
    BY InvStep
  <1>3. ASSUME IInv, [Next]_vars PROVE [Kept]_vars
    <2> HIDE DEF Kept
    <2>1. CASE UNCHANGED vars
      BY <2>1
    <2>2. CASE fiberVars' = fiberVars
      BY <2>2 DEF Kept, fiberVars
    <2>3. CASE Next /\ fiberVars' # fiberVars
      <3>1. TypeOK /\ Nothing \notin Throwables \cup {FiberError}
        BY <1>3, SlotsAssumption DEF IInv
      <3>2. status = "running" => Sound
        BY <1>3 DEF IInv
      <3>3. \A f \in Fibers : At(User) /\ state[f] # "Terminated" => transfer[f] = Nothing
        BY <3>2, NoTransit DEF At, Sound, Payloads, Parked
      <3>4. \A f \in Fibers : At(User) \/ At(<<"escape">>) => pending[f] = Nothing
        BY <3>2, NoTransit DEF At, Sound, Payloads, Parked
      <3>5. \A f \in Fibers : At(User) /\ f = current => state[f] # "Terminated"
        BY <3>2, PlacesDiffer DEF At, Sound, Control, PlacesFit
      <3>6. ASSUME NEW f \in Fibers, Construct(f) \/ Free(f) PROVE Kept
        BY <3>1, <3>6 DEF Kept, TypeOK, Construct, Free
      <3>7. ASSUME NEW f \in Fibers, \/ Start(f) \/ GetReturn(f)
                                     \/ \E v \in Values : Resume(f, v)
                                     \/ \E e \in Throwables : ThrowInto(f, e)
            PROVE  Kept
        BY <2>3, <3>1, <3>3, <3>4, <3>7
           DEF Kept, TypeOK, Start, GetReturn, Resume, ThrowInto, StateError, fiberVars
      <3>8. ASSUME NEW v \in Values, Suspend(v) \/ Finish(v) PROVE Kept
        BY <2>3, <3>1, <3>3, <3>5, <3>8
           DEF Kept, TypeOK, Suspend, Finish, StateError, fiberVars, Contexts
      <3>9. CASE Escape
        BY <3>1, <3>4, <3>9 DEF Kept, TypeOK, Escape
      <3>10. ASSUME NEW f \in Fibers, HandedBack(f) PROVE Kept
        BY <3>1, <3>10 DEF Kept, TypeOK, HandedBack
      <3>11. CASE Wake
        BY <3>1, <3>11 DEF Kept, TypeOK, Wake
      <3>12. CASE Entry
        BY <3>12 DEF Kept, Entry
      <3>13. CASE PushTry \/ PopTry \/ EnterQuiet \/ LeaveQuiet \/ ConstructFails
                  \/ \E e \in Throwables : Throw(e)
        BY <2>3, <3>13 DEF PushTry, PopTry, EnterQuiet, LeaveQuiet, ConstructFails, StateError, Throw
      <3>14. CASE Stopped
        BY <2>3, <3>14 DEF Stopped, vars, fiberVars
      <3>15. QED
        BY <2>3, <3>6, <3>7, <3>8, <3>9, <3>10, <3>11, <3>12, <3>13, <3>14 DEF Next
    <2>4. QED
      BY <1>3, <2>1, <2>2, <2>3
  <1>4. QED
    BY <1>1, <1>2, <1>3, PTL DEF Spec, PayloadsKept

-----------------------------------------------------------------------------
(* The depth of @. *)

QuietSound == QuietAtRest /\ QuietRecords

\* No handler is pushed.
LEMMA QuietRecordsKept ==
    ASSUME TypeOK, QuietRecords, record' = record,
           \A c \in Contexts : Started(c)' => Started(c) /\ tries'[c] \in 0..tries[c]
    PROVE  QuietRecords'
  <1> SUFFICES ASSUME NEW c \in Contexts, Started(c)', NEW k \in 0..tries'[c], k > 0 \/ c # Main
               PROVE  /\ record[<<c, k>>].diag = record[<<c, k>>].quiet
                      /\ k = 0 => record[<<c, k>>].quiet = 0
    BY DEF QuietRecords, Levels
  <1>1. Started(c) /\ k \in Levels(c)
    BY LevelsNat DEF Levels
  <1>2. QED
    BY <1>1 DEF QuietRecords

LEMMA QuietRaise ==
    ASSUME TypeOK, Sound, QuietSound, Started(current), NEW e, Raise(e, top), status' = "running"
    PROVE  QuietSound'
  <1>1. current \in Contexts /\ UNCHANGED <<current, record>> /\ (Escapes \/ Catches)
    BY RaiseOutcome DEF TypeOK, Sound, Chains
  <1>2. \A c \in Contexts : c # current => /\ resume'[c] = resume[c] /\ tries'[c] = tries[c]
                                           /\ quiet'[c] = quiet[c]
    BY <1>1 DEF TypeOK, Escapes, Catches
  <1>3. tries[current] \in Nat /\ tries'[current] \in 0..tries[current]
    BY <1>1, LevelsNat DEF Escapes, Catches, TypeOK
  <1>4. QuietRecords'
    <2>1. \A c \in Contexts : Started(c)' => Started(c) /\ tries'[c] \in 0..tries[c]
      BY <1>1, <1>2, <1>3, LevelsNat DEF Started
    <2>2. QED
      BY <1>1, <2>1, QuietRecordsKept DEF QuietSound
  <1>5. CASE Escapes
    <2>1. resume'[current] = <<"escape">> /\ quiet'[current] = 0
      BY <1>1, <1>5 DEF Escapes, TypeOK
    <2>2. QED
      BY <1>1, <1>2, <1>4, <2>1, PlacesDiffer DEF QuietSound, QuietAtRest
  <1>6. CASE Catches
    <2>1. tries[current] \in Levels(current)
      BY <1>3, <1>6 DEF Levels, Catches
    <2>2. resume'[current] = User /\ diag' = quiet'[current]
      BY <1>1, <1>6, <2>1 DEF Catches, TypeOK, QuietSound, QuietRecords
    <2>3. QED
      BY <1>1, <1>2, <1>4, <2>2 DEF QuietSound, QuietAtRest
  <1>7. QED
    BY <1>1, <1>5, <1>6

LEMMA QuietReturn ==
    ASSUME TypeOK, QuietSound, Started(current), resume[current] \notin {User, <<"escape">>},
           NEW v, Return(v)
    PROVE  QuietSound'
  <1>1. /\ current \in Contexts /\ resume'[current] = User
        /\ UNCHANGED <<current, record, diag, tries, quiet>>
    BY DEF Return, codeVars, TypeOK
  <1>2. \A c \in Contexts : c # current => resume'[c] = resume[c]
    BY DEF Return, TypeOK
  <1>3. QuietRecords'
    <2>1. \A c \in Contexts : Started(c)' => Started(c) /\ tries'[c] \in 0..tries[c]
      BY <1>1, <1>2, LevelsNat DEF Started
    <2>2. QED
      BY <1>1, <2>1, QuietRecordsKept DEF QuietSound
  <1>4. QuietAtRest'
    BY <1>1, <1>2 DEF QuietSound, QuietAtRest
  <1>5. QED
    BY <1>3, <1>4 DEF QuietSound

\* The running context goes to another one, which is not in its own code yet.
LEMMA QuietSwitch ==
    ASSUME TypeOK, QuietSound, Started(current), NEW place,
           resume' = [resume EXCEPT ![current] = place], place # User,
           quiet[current] = 0, diag' = 0, UNCHANGED <<record, tries, quiet>>,
           current' # current, current' \in Contexts, resume'[current'] # User
    PROVE  QuietSound'
  <1>1. current \in Contexts /\ resume'[current] = place
    BY DEF TypeOK
  <1>2. \A c \in Contexts : c # current => resume'[c] = resume[c]
    BY DEF TypeOK
  <1>3. QuietRecords'
    <2>1. \A c \in Contexts : Started(c)' => Started(c) /\ tries'[c] \in 0..tries[c]
      BY <1>1, <1>2, LevelsNat DEF Started
    <2>2. QED
      BY <2>1, QuietRecordsKept DEF QuietSound
  <1>4. QuietAtRest'
    BY <1>1, <1>2 DEF QuietSound, QuietAtRest
  <1>5. QED
    BY <1>3, <1>4 DEF QuietSound

LEMMA QuietStep ==
    ASSUME {"freeactive", "quietswitch"} \cap Idioms = {}, TypeOK, Sound, QuietSound,
           status = "running", Next, status' = "running"
    PROVE  QuietSound'
  <1>1. Sound' /\ TypeOK'
    BY SoundStep, TypeStep DEF Sound, Control
  <1>2. current \in Contexts
    BY DEF TypeOK
  <1>3. ASSUME resume[current] = User
        PROVE  Started(current) /\ diag = quiet[current]
    BY <1>3, PlacesDiffer DEF Started, QuietSound, QuietAtRest
  <1>4. ASSUME At(User), NEW e, Raise(e, top) PROVE QuietSound'
    BY <1>3, <1>4, QuietRaise DEF At
  <1>5. ASSUME At(User), NEW next \in Contexts, NEW place, SwitchTo(next, place),
               place # User, next # current, resume[next] # User
        PROVE  QuietSound'
    <2>1. /\ quiet[current] = 0 /\ resume' = [resume EXCEPT ![current] = place]
          /\ UNCHANGED <<record, tries, quiet, diag>> /\ current' = next
      BY <1>5 DEF SwitchTo, Switch, codeVars
    <2>2. Started(current) /\ diag' = 0 /\ resume'[next] = resume[next]
      BY <1>3, <1>5, <2>1 DEF At, TypeOK
    <2>3. QED
      BY <1>5, <2>1, <2>2, QuietSwitch
  <1>6. ASSUME At(User), UNCHANGED <<current, resume, record, tries, quiet, diag>>
        PROVE  QuietSound'
    BY <1>6 DEF QuietSound, QuietAtRest, QuietRecords, Started, Levels
  <1>7. ASSUME NEW f \in Fibers, resume[current] = User
        PROVE  f \in Contexts /\ (resume[f] \in {<<"entry">>, <<"wake">>} => f # current /\ resume[f] # User)
    BY <1>7, PlacesDiffer DEF Contexts
  <1>8. \A f \in Fibers : state[f] \in {"NotStarted", "Suspended"} => resume[f] \in {<<"entry">>, <<"wake">>}
    BY DEF Sound, Control, PlacesFit
  <1>9. \A f \in Fibers : <<"tail", f>> # User
    BY PlacesDiffer
  <1>10. ASSUME NEW f \in Fibers, \/ Start(f) \/ \E v \in Values : Resume(f, v)
                                 \/ \E e \in Throwables : ThrowInto(f, e)
         PROVE  QuietSound'
    <2>1. /\ At(User)
          /\ \/ StateError
             \/ state[f] \in {"NotStarted", "Suspended"} /\ SwitchTo(f, <<"tail", f>>)
      BY <1>10 DEF Start, Resume, ThrowInto
    <2>2. CASE StateError
      BY <1>4, <2>1, <2>2 DEF StateError
    <2>3. CASE state[f] \in {"NotStarted", "Suspended"} /\ SwitchTo(f, <<"tail", f>>)
      BY <1>5, <1>7, <1>8, <1>9, <2>1, <2>3 DEF At
    <2>4. QED
      BY <2>1, <2>2, <2>3
  <1>11. ASSUME current \in Fibers, resume[current] \in {User, <<"escape">>}
         PROVE  /\ caller[current] \in Contexts \ {current}
                /\ resume[caller[current]] = <<"tail", current>>
    <2>1. resume[caller[current]] = <<"tail", current>> /\ caller[current] \in Contexts
      BY <1>11 DEF Sound, Control, Waits, Active, TypeOK
    <2>2. QED
      BY <1>11, <2>1, PlacesDiffer
  <1>12. ASSUME NEW v \in Values, Suspend(v) PROVE QuietSound'
    <2>1. CASE StateError
      BY <1>4, <1>12, <2>1 DEF StateError, Suspend
    <2>2. CASE ~StateError
      <3>1. /\ At(User) /\ resume[current] = User /\ current \in Fibers
            /\ SwitchTo(caller[current], <<"wake">>)
        BY <1>2, <1>12, <2>2 DEF Suspend, At, Contexts
      <3>2. QED
        BY <1>5, <1>9, <1>11, <3>1, PlacesDiffer
    <2>3. QED
      BY <2>1, <2>2
  <1>13. ASSUME NEW v \in Values, Finish(v) PROVE QuietSound'
    <2>1. /\ resume[current] = User /\ current \in Fibers /\ quiet[current] = 0
          /\ current' = caller[current] /\ resume' = [resume EXCEPT ![current] = Gone]
          /\ UNCHANGED <<record, tries, quiet, diag>>
      BY <1>2, <1>13 DEF Finish, At, Switch, codeVars, Contexts
    <2>2. /\ current' \in Contexts /\ current' # current
          /\ resume'[current'] = <<"tail", current>>
      BY <1>11, <2>1 DEF TypeOK
    <2>3. QED
      BY <1>3, <1>9, <2>1, <2>2, QuietSwitch, PlacesDiffer
  <1>14. CASE Escape
    <2>1. /\ resume[current] = <<"escape">>
          /\ current' = caller[current] /\ resume' = [resume EXCEPT ![current] = Gone]
          /\ UNCHANGED <<record, tries, quiet>> /\ diag' = record[<<current, 0>>].diag
      BY <1>14 DEF Escape, At, Switch, codeVars
    <2>2. current \in Fibers /\ current # Main
      BY <1>2, <2>1, PlacesDiffer DEF Sound, Control, PlacesFit, Contexts, Tails
    <2>3. Started(current) /\ 0 \in Levels(current)
      BY <1>2, <2>1, <2>2, PlacesDiffer, LevelsNat DEF Started, Levels
    <2>4. diag' = 0 /\ quiet[current] = 0
      BY <1>2, <2>1, <2>3, PlacesDiffer DEF QuietSound, QuietRecords, QuietAtRest
    <2>5. /\ current' \in Contexts /\ current' # current
          /\ resume'[current'] = <<"tail", current>>
      BY <1>11, <2>1, <2>2 DEF TypeOK
    <2>6. QED
      BY <1>9, <2>1, <2>2, <2>3, <2>4, <2>5, QuietSwitch, PlacesDiffer
  <1>15. ASSUME NEW f \in Fibers, Construct(f) \/ Free(f) PROVE QuietSound'
    <2>1. /\ At(User) /\ f # current /\ f \in Contexts
          /\ UNCHANGED <<current, record, diag>>
          /\ resume' = [resume EXCEPT ![f] = Gone] \/ resume' = [resume EXCEPT ![f] = <<"entry">>]
          /\ tries' \in {tries, [tries EXCEPT ![f] = 0]} /\ quiet' \in {quiet, [quiet EXCEPT ![f] = 0]}
      <3>1. state[f] # "Running"
        BY <1>15 DEF Construct, Free, Exists
      <3>2. f # current
        BY <1>7, <1>15, <3>1, PlacesDiffer
           DEF Construct, Free, At, TypeOK, Sound, Control, PlacesFit
      <3>3. QED
        BY <1>7, <1>15, <3>2 DEF Construct, Free, codeVars, At
    <2>2. \A c \in Contexts : c # f => /\ resume'[c] = resume[c] /\ tries'[c] = tries[c]
                                       /\ quiet'[c] = quiet[c]
      BY <2>1 DEF TypeOK
    <2>3. quiet[f] = 0 /\ quiet'[f] = 0 /\ resume'[f] \in {Gone, <<"entry">>}
      BY <2>1 DEF TypeOK, QuietSound, QuietAtRest
    <2>4. QuietRecords'
      <3>1. \A c \in Contexts : Started(c)' => Started(c) /\ tries'[c] \in 0..tries[c]
        BY <2>1, <2>2, <2>3, LevelsNat DEF Started
      <3>2. QED
        BY <2>1, <3>1, QuietRecordsKept DEF QuietSound
    <2>5. QuietAtRest'
      BY <1>2, <2>1, <2>2, <2>3 DEF QuietSound, QuietAtRest
    <2>6. QED
      BY <2>4, <2>5 DEF QuietSound
  <1>16. CASE PushTry
    <2> DEFINE n == tries[current] + 1
    <2>1. /\ resume[current] = User /\ UNCHANGED <<current, resume, quiet, diag>>
          /\ tries[current] \in Nat /\ n \in 1..MaxTries /\ <<current, n>> \in Handlers
      BY <1>2, <1>16, LevelsNat DEF PushTry, At, Handlers
    <2>2. /\ record'[<<current, n>>].diag = diag /\ record'[<<current, n>>].quiet = quiet[current]
          /\ \A h \in Handlers : h # <<current, n>> => record'[h] = record[h]
      BY <1>16, <2>1 DEF PushTry, TypeOK
    <2>3. tries'[current] = n /\ \A c \in Contexts : c # current => tries'[c] = tries[c]
      BY <1>2, <1>16 DEF TypeOK, PushTry
    <2>4. QuietRecords'
      <3> SUFFICES ASSUME NEW c \in Contexts, Started(c), NEW k \in 0..tries'[c], k > 0 \/ c # Main
                   PROVE  /\ record'[<<c, k>>].diag = record'[<<c, k>>].quiet
                          /\ k = 0 => record'[<<c, k>>].quiet = 0
        BY <2>1 DEF QuietRecords, Started, Levels
      <3>1. CASE c # current \/ k # n
        <4>1. k \in 0..tries[c]
          BY <2>1, <2>3, <3>1
        <4>2. <<c, k>> \in Handlers /\ <<c, k>> # <<current, n>> /\ k \in Levels(c)
          BY <3>1, <4>1, LevelsNat DEF Levels
        <4>3. QED
          BY <2>2, <4>2 DEF QuietSound, QuietRecords
      <3>2. CASE c = current /\ k = n
        BY <1>3, <2>1, <2>2, <3>2
      <3>3. QED
        BY <3>1, <3>2
    <2>5. QED
      BY <2>1, <2>4 DEF QuietSound, QuietAtRest
  <1>17. CASE PopTry
    <2>1. /\ resume[current] = User /\ Started(current) /\ UNCHANGED <<current, resume, quiet, record>>
          /\ tries[current] \in Nat /\ tries[current] > 0 /\ tries'[current] = tries[current] - 1
          /\ diag' = record[<<current, tries[current]>>].diag
          /\ quiet[current] = record[<<current, tries[current]>>].quiet
      BY <1>2, <1>3, <1>17, LevelsNat DEF PopTry, At, Innermost, TypeOK
    <2>2. \A c \in Contexts : c # current => tries'[c] = tries[c]
      BY <1>17 DEF TypeOK, PopTry
    <2>3. tries[current] \in Levels(current)
      BY <2>1 DEF Levels
    <2>4. diag' = quiet[current]
      BY <1>2, <2>1, <2>3 DEF QuietSound, QuietRecords
    <2>5. QuietRecords'
      <3>1. \A c \in Contexts : Started(c)' => Started(c) /\ tries'[c] \in 0..tries[c]
        BY <2>1, <2>2, LevelsNat DEF Started
      <3>2. QED
        BY <2>1, <3>1, QuietRecordsKept DEF QuietSound
    <2>6. QED
      BY <2>1, <2>4, <2>5 DEF QuietSound, QuietAtRest
  <1>18. CASE EnterQuiet \/ LeaveQuiet
    <2>1. /\ resume[current] = User /\ UNCHANGED <<current, resume, record, tries>>
      BY <1>18 DEF EnterQuiet, LeaveQuiet, At
    <2>2. /\ diag' = quiet'[current] /\ \A c \in Contexts : c # current => quiet'[c] = quiet[c]
      BY <1>2, <1>3, <1>18, <2>1 DEF EnterQuiet, LeaveQuiet, TypeOK
    <2>3. QuietRecords'
      BY <2>1 DEF QuietSound, QuietRecords, Started, Levels
    <2>4. QuietAtRest'
      BY <2>1, <2>2 DEF QuietSound, QuietAtRest
    <2>5. QED
      BY <2>3, <2>4 DEF QuietSound
  <1>19. CASE Entry
    <2>1. /\ resume[current] = <<"entry">> /\ resume' = [resume EXCEPT ![current] = User]
          /\ UNCHANGED <<current, tries, quiet, diag>> /\ <<current, 0>> \in Handlers
          /\ record'[<<current, 0>>].diag = diag /\ record'[<<current, 0>>].quiet = 0
          /\ \A h \in Handlers : h # <<current, 0>> => record'[h] = record[h]
      BY <1>2, <1>19, LevelsNat DEF Entry, At, codeVars, TypeOK
    <2>2. diag = 0 /\ quiet[current] = 0 /\ tries[current] = 0
      BY <1>2, <2>1, PlacesDiffer DEF QuietSound, QuietAtRest, Sound, Chains, BareStacks
    <2>3. resume'[current] = User /\ \A c \in Contexts : c # current => resume'[c] = resume[c]
      BY <1>2, <2>1 DEF TypeOK
    <2>4. QuietRecords'
      <3> SUFFICES ASSUME NEW c \in Contexts, resume'[c] \notin {Gone, <<"entry">>},
                          NEW k \in 0..tries[c], k > 0 \/ c # Main
                   PROVE  /\ record'[<<c, k>>].diag = record'[<<c, k>>].quiet
                          /\ k = 0 => record'[<<c, k>>].quiet = 0
        BY <2>1 DEF QuietRecords, Started, Levels
      <3>1. CASE c # current
        <4>1. <<c, k>> \in Handlers /\ <<c, k>> # <<current, 0>> /\ k \in Levels(c) /\ Started(c)
          BY <2>3, <3>1, LevelsNat DEF Levels, Started
        <4>2. QED
          BY <2>1, <4>1 DEF QuietSound, QuietRecords
      <3>2. CASE c = current
        BY <2>1, <2>2, <3>2
      <3>3. QED
        BY <3>1, <3>2
    <2>5. QuietAtRest'
      BY <2>1, <2>2, <2>3 DEF QuietSound, QuietAtRest
    <2>6. QED
      BY <2>4, <2>5 DEF QuietSound
  <1>20. ASSUME NEW f \in Fibers, HandedBack(f) PROVE QuietSound'
    <2>1. /\ resume[current] = <<"tail", f>>
          /\ \/ Raise(pending[f], top) \/ Return(Null) \/ Return(transfer[f])
      BY <1>20 DEF HandedBack, At
    <2>2. Started(current) /\ resume[current] \notin {User, <<"escape">>}
      BY <2>1, PlacesDiffer DEF Started
    <2>3. QED
      BY <2>1, <2>2, QuietRaise, QuietReturn
  <1>21. CASE Wake
    <2>1. /\ resume[current] = <<"wake">>
          /\ Raise(pending[current], top) \/ Return(transfer[current])
      BY <1>21 DEF Wake, At
    <2>2. Started(current) /\ resume[current] \notin {User, <<"escape">>}
      BY <2>1, PlacesDiffer DEF Started
    <2>3. QED
      BY <2>1, <2>2, QuietRaise, QuietReturn
  <1>22. ASSUME NEW f \in Fibers, GetReturn(f) PROVE QuietSound'
    <2>1. CASE StateError
      BY <1>4, <1>22, <2>1 DEF StateError, GetReturn
    <2>2. CASE ~StateError
      BY <1>6, <1>22, <2>2 DEF GetReturn, codeVars
    <2>3. QED
      BY <2>1, <2>2
  <1>23. ASSUME NEW e \in Throwables, Throw(e) PROVE QuietSound'
    BY <1>4, <1>23 DEF Throw
  <1>24. CASE ConstructFails
    BY <1>4, <1>24 DEF ConstructFails, StateError
  <1>25. CASE Stopped
    BY <1>25 DEF Stopped
  <1>26. QED
    BY <1>10, <1>12, <1>13, <1>14, <1>15, <1>16, <1>17, <1>18, <1>19, <1>20, <1>21,
       <1>22, <1>23, <1>24, <1>25 DEF Next

\* @ hides warnings for its operand only, as long as no program switches to
\* another stack inside of one.
THEOREM QuietOnlyInOperandAlways ==
    ASSUME {"freeactive", "quietswitch"} \cap Idioms = {}
    PROVE  Spec => []QuietOnlyInOperand
  <1>1. Init => QuietInv
    <2> SUFFICES ASSUME Init PROVE QuietAtRest /\ QuietRecords
      BY InitInv DEF QuietInv
    <2>1. /\ current = Main /\ resume[Main] = User /\ diag = 0 /\ Main \in Contexts
          /\ \A c \in Contexts : quiet[c] = 0 /\ tries[c] = 0 /\ (c # Main => resume[c] = Gone)
      BY DEF Init, Contexts
    <2>2. QED
      BY <2>1 DEF QuietAtRest, QuietRecords, Started, Levels
  <1>2. ASSUME QuietInv, [Next]_vars PROVE QuietInv'
    <2>1. IInv'
      BY <1>2, InvStep DEF QuietInv
    <2>2. CASE UNCHANGED vars
      BY <1>2, <2>1, <2>2
         DEF vars, QuietInv, QuietAtRest, QuietRecords, Started, Levels
    <2>3. CASE Next /\ status = "running" /\ status' = "running"
      BY <1>2, <2>1, <2>3, QuietStep DEF QuietInv, IInv, QuietSound
    <2>4. CASE Next /\ status # "running"
      <3>1. UNCHANGED vars
        BY <2>4 DEF Next, Stopped, At, Construct, Start, Resume, ThrowInto, Suspend, GetReturn, Free,
                    PushTry, PopTry, Throw, ConstructFails, EnterQuiet, LeaveQuiet, Entry, Finish,
                    Escape, HandedBack, Wake
      <3>2. QED
        BY <2>2, <3>1
    <2>5. QED
      BY <1>2, <2>1, <2>2, <2>3, <2>4 DEF QuietInv
  <1>3. QuietInv => QuietOnlyInOperand
    BY DEF QuietInv, QuietAtRest, QuietOnlyInOperand
  <1>4. QED
    BY <1>1, <1>2, <1>3, PTL DEF Spec

-----------------------------------------------------------------------------
(* The stack of contexts, and what the program sees. *)

\* c lists the contexts in S from the main program on, each once and each
\* waiting for the next.
Lists(res, S, c) ==
    /\ c \in Seq(S) /\ Len(c) > 0 /\ c[1] = Main
    /\ \A i \in 2..Len(c) : res[c[i - 1]] = <<"tail", c[i]>>
    /\ \A i, j \in 1..Len(c) : c[i] = c[j] => i = j
    /\ \A x \in S : \E i \in 1..Len(c) : c[i] = x

\* c is the stack of contexts.
Piled(c) == Lists(resume, Stacked, c) /\ c[Len(c)] = current

\* The program learns an outcome when its own code runs, and what escapes a
\* fiber is an exception.
Aside ==
    /\ resume[current] # User => outcome = Nothing
    /\ resume[current] = <<"escape">> => exc \in Thrown

CoInv == IInv /\ (status = "running" => Aside /\ \E c : Piled(c))

\* A set of naturals with a member has a least one.
LEMMA LeastIndex ==
    ASSUME NEW S, S \subseteq Nat, S # {}
    PROVE  \E i \in S : \A j \in S : i <= j
  <1> DEFINE R == {p \in Nat \X Nat : p[1] < p[2]}
  <1>1. IsWellFoundedOn(R, Nat)
    BY NatLessThanWellFounded DEF OpToRel
  <1>2. PICK i \in S : \A j \in S : <<j, i>> \notin R
    <2> HIDE DEF R
    <2>1. QED
      BY <1>1, WFMin
  <1>3. ASSUME NEW j \in S PROVE i <= j
    <2>1. <<j, i>> \in Nat \X Nat
      OBVIOUS
    <2>2. ~(j < i)
      BY <1>2, <2>1
    <2>3. QED
      BY <2>2
  <1>4. QED
    BY <1>3

\* Two lists of the same contexts that follow the same links are one.
LEMMA OneStack ==
    ASSUME NEW res, NEW S, NEW c, Lists(res, S, c)
    PROVE  /\ c \in [1..Cardinality(S) -> S] /\ Cardinality(S) = Len(c)
           /\ \A d \in [1..Cardinality(S) -> S] :
                d[1] = Main /\ (\A i \in 2..Cardinality(S) : res[d[i - 1]] = <<"tail", d[i]>>) => d = c
  <1>0. /\ c \in Seq(S) /\ Len(c) > 0 /\ c[1] = Main
        /\ \A i \in 2..Len(c) : res[c[i - 1]] = <<"tail", c[i]>>
        /\ \A i, j \in 1..Len(c) : c[i] = c[j] => i = j
        /\ \A x \in S : \E i \in 1..Len(c) : c[i] = x
    BY DEF Lists
  <1>1. Len(c) \in Nat /\ c \in [1..Len(c) -> S]
    BY <1>0, LenProperties
  <1>2. Cardinality(S) = Len(c)
    <2>1. c \in Bijection(1..Len(c), S)
      BY <1>0, <1>1 DEF Bijection, Injection, Surjection, IsInjective
    <2>2. ExistsBijection(1..Len(c), S)
      BY <2>1 DEF ExistsBijection
    <2>3. QED
      BY <1>1, <2>2, FS_CountingElements
  <1> DEFINE n == Len(c)
             Fits(d) == d[1] = Main /\ \A i \in 2..n : res[d[i - 1]] = <<"tail", d[i]>>
  <1>3. ASSUME NEW d \in [1..n -> S], Fits(d) PROVE d = c
    <2> DEFINE D == {i \in 1..n : d[i] # c[i]}
    <2>1. D = {}
      <3> SUFFICES ASSUME D # {} PROVE FALSE
        OBVIOUS
      <3>1. PICK i \in D : \A j \in D : i <= j
        <4>1. D \subseteq Nat
          BY <1>1
        <4> HIDE DEF D
        <4>2. QED
          BY <4>1, LeastIndex
      <3>2. i # 1
        BY <1>0, <1>3, <3>1
      <3>3. i \in 2..n /\ i - 1 \in 1..n /\ i - 1 < i
        BY <1>1, <3>1, <3>2
      <3>4. d[i - 1] = c[i - 1]
        BY <1>1, <3>1, <3>3
      <3>5. <<"tail", d[i]>> = <<"tail", c[i]>>
        BY <1>0, <1>3, <3>3, <3>4
      <3>6. QED
        BY <3>1, <3>5, PlacesDiffer
    <2>2. QED
      BY <1>1, <1>3, <2>1
  <1>4. QED
    BY <1>1, <1>2, <1>3

LEMMA ResumedIs == \A c : Piled(c) => Resumed = c
  <1> SUFFICES ASSUME NEW c, Piled(c) PROVE Resumed = c
    OBVIOUS
  <1>1. Lists(resume, Stacked, c)
    BY DEF Piled
  <1>2. /\ c \in [1..Cardinality(Stacked) -> Stacked] /\ Cardinality(Stacked) = Len(c)
        /\ \A d \in [1..Cardinality(Stacked) -> Stacked] :
             d[1] = Main /\ (\A i \in 2..Cardinality(Stacked) : resume[d[i - 1]] = <<"tail", d[i]>>)
               => d = c
    BY <1>1, OneStack, ZenonT(60)
  <1>3. c[1] = Main /\ \A i \in 2..Len(c) : resume[c[i - 1]] = <<"tail", c[i]>>
    BY <1>1 DEF Lists
  <1>4. QED
    BY <1>2, <1>3, Zenon DEF Resumed

LEMMA ResumedIsNext == (\A c : Piled(c) => Resumed = c)'
  BY ResumedIs, PTL

LEMMA PiledParts ==
    ASSUME NEW c, Piled(c)
    PROVE  /\ c \in Seq(Stacked) /\ Len(c) \in Nat /\ Len(c) > 0 /\ DOMAIN c = 1..Len(c)
           /\ c[1] = Main /\ c[Len(c)] = current
           /\ \A i \in 1..Len(c) : c[i] \in Stacked /\ c[i] \in Contexts
           /\ \A i \in 2..Len(c) : /\ c[i] \in Fibers /\ c[i - 1] # current
                                   /\ resume[c[i - 1]] = <<"tail", c[i]>> /\ resume[c[i - 1]] \in Tails
           /\ \A i, j \in 1..Len(c) : c[i] = c[j] => i = j
           /\ \A x \in Stacked : \E i \in 1..Len(c) : c[i] = x
           /\ c \in Seq(Contexts)
  <1>1. /\ c \in Seq(Stacked) /\ Len(c) > 0 /\ c[1] = Main /\ c[Len(c)] = current
        /\ \A i \in 2..Len(c) : resume[c[i - 1]] = <<"tail", c[i]>>
        /\ \A i, j \in 1..Len(c) : c[i] = c[j] => i = j
        /\ \A x \in Stacked : \E i \in 1..Len(c) : c[i] = x
    BY DEF Piled, Lists
  <1>2. Len(c) \in Nat /\ DOMAIN c = 1..Len(c)
    BY <1>1, LenProperties
  <1>3. Stacked \subseteq Contexts
    BY DEF Stacked, Active, Contexts
  <1>4. \A i \in 1..Len(c) : c[i] \in Stacked /\ c[i] \in Contexts
    BY <1>1, <1>3, ElementOfSeq
  <1>5. ASSUME NEW i \in 2..Len(c)
        PROVE  /\ c[i] \in Fibers /\ c[i - 1] # current
               /\ resume[c[i - 1]] = <<"tail", c[i]>> /\ resume[c[i - 1]] \in Tails
    <2>1. i \in 1..Len(c) /\ i - 1 \in 1..Len(c) /\ i # 1 /\ i - 1 # Len(c)
          /\ 1 \in 1..Len(c) /\ Len(c) \in 1..Len(c)
      BY <1>2
    <2>2. c[i] # Main /\ c[i - 1] # current
      BY <1>1, <2>1
    <2>3. c[i] \in Fibers
      BY <1>4, <2>1, <2>2 DEF Contexts
    <2>4. QED
      BY <1>1, <2>2, <2>3 DEF Tails
  <1>6. c \in Seq(Contexts)
    BY <1>1, <1>3, SeqMonotonic
  <1>7. QED
    BY <1>1, <1>2, <1>4, <1>5, <1>6

\* A fiber is on the stack if it runs or waits for another one.
LEMMA OnStack ==
    ASSUME NEW f \in Fibers
    PROVE  f \in Stacked <=> f = current \/ resume[f] \in Tails
  BY ContextsAssumption DEF Stacked, Active, Tails

LEMMA StackSame ==
    ASSUME TypeOK, NEW c, Piled(c), current' = current,
           \A x \in Contexts \ {current} :
             resume'[x] = resume[x] \/ (resume[x] \notin Tails /\ resume'[x] \notin Tails)
    PROVE  Piled(c)'
  <1>1. Stacked' = Stacked
    BY DEF Stacked, Active, Tails, Contexts
  <1>2. ASSUME NEW i \in 2..Len(c) PROVE resume'[c[i - 1]] = <<"tail", c[i]>>
    <2>1. /\ c[i - 1] # current /\ resume[c[i - 1]] = <<"tail", c[i]>> /\ resume[c[i - 1]] \in Tails
          /\ Len(c) \in Nat /\ \A j \in 1..Len(c) : c[j] \in Contexts
      BY PiledParts
    <2>2. i - 1 \in 1..Len(c)
      BY <2>1
    <2>3. c[i - 1] \in Contexts \ {current}
      BY <2>1, <2>2
    <2> DEFINE x == c[i - 1]
    <2> HIDE DEF x
    <2>4. x \in Contexts \ {current} /\ resume[x] = <<"tail", c[i]>> /\ resume[x] \in Tails
      BY <2>1, <2>3 DEF x
    <2>5. resume'[x] = resume[x]
      BY <2>4
    <2>6. QED
      BY <2>4, <2>5 DEF x
  <1>3. Lists(resume', Stacked, c)
    BY <1>2 DEF Piled, Lists
  <1>4. QED
    BY <1>1, <1>3 DEF Piled

LEMMA StackPush ==
    ASSUME TypeOK, NEW c, Piled(c), NEW f \in Fibers, f # current, resume[f] \notin Tails,
           current' = f, resume' = [resume EXCEPT ![current] = <<"tail", f>>]
    PROVE  Piled(Append(c, f))'
  <1> DEFINE d == Append(c, f)
             n == Len(c)
  <1>0. current \in Contexts /\ f \in Contexts
    BY DEF TypeOK, Contexts
  <1>1. resume'[current] = <<"tail", f>> /\ \A x \in Contexts \ {current} : resume'[x] = resume[x]
    BY DEF TypeOK
  <1>2. \A x \in Stacked' : x \in Stacked \/ x = f
    BY <1>0, <1>1 DEF Stacked, Active, Contexts
  <1>3. \A x \in Stacked : x \in Stacked'
    BY <1>0, <1>1 DEF Stacked, Active, Contexts
  <1>4. f \in Stacked' /\ f \notin Stacked
    BY OnStack DEF Stacked, Active
  <1>5. n \in Nat /\ n > 0 /\ c \in Seq(Stacked')
    BY <1>3, PiledParts, SeqMonotonic
  <1>6. /\ d \in Seq(Stacked') /\ Len(d) = n + 1 /\ d[n + 1] = f
        /\ \A i \in 1..n : d[i] = c[i]
    BY <1>4, <1>5, AppendProperties
  <1>7. ASSUME NEW i \in 2..(n + 1) PROVE resume'[d[i - 1]] = <<"tail", d[i]>>
    <2>1. CASE i = n + 1
      <3>1. d[i - 1] = c[n] /\ d[i] = f
        BY <1>5, <1>6, <2>1
      <3>2. QED
        BY <1>1, <3>1, PiledParts
    <2>2. CASE i # n + 1
      <3>1. i \in 2..n /\ i - 1 \in 1..n /\ i \in 1..n
        BY <1>5, <1>7, <2>2
      <3>2. d[i - 1] = c[i - 1] /\ d[i] = c[i]
        BY <1>6, <3>1
      <3>3. c[i - 1] \in Contexts /\ c[i - 1] # current /\ resume[c[i - 1]] = <<"tail", c[i]>>
        BY <3>1, PiledParts
      <3>4. QED
        BY <1>1, <3>2, <3>3
    <2>3. QED
      BY <2>1, <2>2
  <1>8. \A i \in 1..n : c[i] # f
    BY <1>4, PiledParts
  <1>9. ASSUME NEW i \in 1..(n + 1), NEW j \in 1..(n + 1), d[i] = d[j] PROVE i = j
    <2>1. (i \in 1..n \/ i = n + 1) /\ (j \in 1..n \/ j = n + 1)
      BY <1>5, <1>9
    <2>2. QED
      <3>1. \A k, l \in 1..n : c[k] = c[l] => k = l
        BY PiledParts
      <3>2. QED
        BY ONLY <1>6, <1>8, <1>9, <2>1, <3>1
  <1>10. ASSUME NEW x \in Stacked' PROVE \E i \in 1..(n + 1) : d[i] = x
    <2>1. CASE x = f
      BY <1>5, <1>6, <2>1
    <2>2. CASE x \in Stacked
      <3>1. PICK i \in 1..n : c[i] = x
        BY <2>2, PiledParts
      <3>2. i \in 1..(n + 1)
        BY <1>5, <3>1
      <3>3. QED
        BY <1>6, <3>1, <3>2
    <2>3. QED
      BY <1>2, <2>1, <2>2
  <1>11. d[1] = Main /\ 1 \in 1..n
    BY <1>5, <1>6, PiledParts
  <1> HIDE DEF d, n
  <1>12. Lists(resume', Stacked', d)
    <2> DEFINE m == n + 1
    <2>1. Len(d) = m /\ m > 0
      BY <1>5, <1>6
    <2>2. \A i \in 2..m : resume'[d[i - 1]] = <<"tail", d[i]>>
      BY <1>7
    <2>3. \A i, j \in 1..m : d[i] = d[j] => i = j
      BY <1>9
    <2>4. \A x \in Stacked' : \E i \in 1..m : d[i] = x
      BY <1>10
    <2> HIDE DEF m
    <2>5. QED
      BY <1>6, <1>11, <2>1, <2>2, <2>3, <2>4 DEF Lists
  <1>13. QED
    BY <1>5, <1>6, <1>12 DEF Piled, d

\* Control comes back to the context below the one that runs.
LEMMA StackPop ==
    ASSUME TypeOK, Waits, NEW c, Piled(c), current \in Fibers, resume[current] \notin Tails,
           current' = caller[current],
           NEW place, place \notin Tails, resume' = [resume EXCEPT ![current] = place]
    PROVE  Piled(Front(c))' /\ current' = c[Len(c) - 1] /\ Len(c) > 1
  <1> DEFINE n == Len(c)
             d == Front(c)
  <1>0. current \in Contexts /\ caller[current] \in Contexts
    BY DEF TypeOK, Contexts
  <1>p. /\ n \in Nat /\ n > 0 /\ c[1] = Main /\ c[n] = current
        /\ \A i \in 1..n : c[i] \in Stacked /\ c[i] \in Contexts
        /\ \A i \in 2..n : c[i - 1] # current /\ resume[c[i - 1]] = <<"tail", c[i]>>
        /\ \A i, j \in 1..n : c[i] = c[j] => i = j
        /\ \A x \in Stacked : \E i \in 1..n : c[i] = x
    BY PiledParts
  <1>q. Len(c) = n
    OBVIOUS
  <1> HIDE DEF n
  <1>1. n \in Nat /\ n > 1 /\ n - 1 \in 1..n /\ n \in 1..n
    BY <1>p, ContextsAssumption
  <1>2. resume[caller[current]] = <<"tail", current>>
    BY DEF Waits, Active
  <1>3. caller[current] # current /\ caller[current] \in Stacked
    BY <1>0, <1>2 DEF Tails, Stacked, Active, Contexts
  <1>4. caller[current] = c[n - 1]
    <2>1. PICK i \in 1..n : c[i] = caller[current]
      BY <1>3, <1>p
    <2>2. i # n
      BY <1>3, <2>1, <1>p
    <2>3. i + 1 \in 2..n /\ i + 1 \in 1..n /\ (i + 1) - 1 = i
      BY <1>1, <2>1, <2>2
    <2>4. resume[c[i]] = <<"tail", c[i + 1]>>
      <3>1. resume[c[(i + 1) - 1]] = <<"tail", c[i + 1]>>
        BY <2>3, <1>p
      <3>2. QED
        BY <2>3, <3>1
    <2>5. <<"tail", c[i + 1]>> = <<"tail", current>>
      BY <1>2, <2>1, <2>4
    <2>6. c[i + 1] = c[n]
      BY <2>5, PlacesDiffer, <1>p
    <2>7. i + 1 = n
      BY <1>1, <2>3, <2>6, <1>p
    <2>8. QED
      BY <2>1, <2>7
  <1>5. resume'[current] = place /\ \A x \in Contexts \ {current} : resume'[x] = resume[x]
    BY DEF TypeOK
  <1>6. Stacked' = Stacked \ {current}
    <2>1. ASSUME NEW x \in Stacked' PROVE x \in Stacked \ {current}
      BY <1>0, <1>3, <1>5, ContextsAssumption DEF Stacked, Active, Tails, Contexts
    <2>2. ASSUME NEW x \in Stacked \ {current} PROVE x \in Stacked'
      BY <1>0, <1>5 DEF Stacked, Active, Contexts
    <2>3. QED
      BY <2>1, <2>2
  <1>7. \A i \in 1..(n - 1) : c[i] \in Stacked' /\ c[i] # current /\ i \in 1..n
    <2> SUFFICES ASSUME NEW i \in 1..(n - 1) PROVE c[i] \in Stacked' /\ c[i] # current /\ i \in 1..n
      OBVIOUS
    <2>1. i \in 1..n /\ i # n
      BY <1>1
    <2>2. QED
      BY <1>1, <1>6, <2>1, <1>p
  <1>8. /\ d \in Seq(Stacked') /\ Len(d) = n - 1
        /\ \A i \in 1..(n - 1) : d[i] = c[i]
    <2>1. d = SubSeq(c, 1, n - 1)
      BY <1>q DEF Front
    <2>2. 1 \in Int /\ n - 1 \in Int /\ 1 <= n - 1 /\ (n - 1) - 1 + 1 = n - 1
      BY <1>1
    <2>3. \A i \in 1..(n - 1) : c[i] \in Stacked'
      BY <1>7
    <2> DEFINE m == n - 1
    <2> HIDE DEF m
    <2>4. /\ SubSeq(c, 1, m) \in Seq(Stacked')
          /\ Len(SubSeq(c, 1, m)) = IF 1 <= m THEN m - 1 + 1 ELSE 0
          /\ \A i \in 1..(m - 1 + 1) : SubSeq(c, 1, m)[i] = c[1 + i - 1]
      BY <2>2, <2>3, SubSeqProperties DEF m
    <2>5. m - 1 + 1 = m /\ \A i \in 1..m : 1 + i - 1 = i
      BY <2>2 DEF m
    <2>6. QED
      BY <2>1, <2>2, <2>4, <2>5 DEF m
  <1>9. ASSUME NEW i \in 2..(n - 1) PROVE resume'[d[i - 1]] = <<"tail", d[i]>>
    <2>1. i \in 2..n /\ i \in 1..(n - 1) /\ i - 1 \in 1..(n - 1) /\ i - 1 \in 1..n
      BY <1>1
    <2>2. d[i - 1] = c[i - 1] /\ d[i] = c[i]
      BY <1>8, <2>1
    <2>3. c[i - 1] \in Contexts /\ c[i - 1] # current /\ resume[c[i - 1]] = <<"tail", c[i]>>
      BY <2>1, <1>p
    <2>4. QED
      BY <1>5, <2>2, <2>3
  <1>10. \A i, j \in 1..(n - 1) : d[i] = d[j] => i = j
    BY <1>1, <1>7, <1>8, <1>p
  <1>11. ASSUME NEW x \in Stacked' PROVE \E i \in 1..(n - 1) : d[i] = x
    <2>1. PICK i \in 1..n : c[i] = x
      BY <1>6, <1>p
    <2>2. i # n
      BY <1>6, <2>1, <1>p
    <2>3. i \in 1..(n - 1)
      BY <1>1, <2>1, <2>2
    <2>4. QED
      BY <1>8, <2>1, <2>3
  <1>12. d[1] = Main /\ d[n - 1] = current'
    <2>1. 1 \in 1..(n - 1) /\ n - 1 \in 1..(n - 1)
      BY <1>1
    <2>2. QED
      BY <1>4, <1>8, <2>1, <1>p
  <1>13. Lists(resume', Stacked', d)
    <2> DEFINE m == n - 1
    <2>1. Len(d) = m /\ m > 0
      BY <1>1, <1>8
    <2>2. \A i \in 2..m : resume'[d[i - 1]] = <<"tail", d[i]>>
      BY <1>9
    <2>3. \A i, j \in 1..m : d[i] = d[j] => i = j
      BY <1>10
    <2>4. \A x \in Stacked' : \E i \in 1..m : d[i] = x
      BY <1>11
    <2> HIDE DEF m, d
    <2>5. QED
      BY <1>8, <1>12, <2>1, <2>2, <2>3, <2>4 DEF Lists
  <1> HIDE DEF d
  <1>14. QED
    BY <1>1, <1>4, <1>8, <1>12, <1>13, <1>q DEF Piled, d

-----------------------------------------------------------------------------
(* What the program sees of a state. *)

\* The phase a fiber that does not run is in.
Look == [absent |-> "absent", NotStarted |-> "fresh", Running |-> "active",
         Suspended |-> "suspended", Terminated |-> "done"]

PhaseOf(f) ==
  IF f = current THEN IF Escaping THEN "done" ELSE "active" ELSE Look[state[f]]

LEMMA StackRange ==
    ASSUME NEW c, Piled(c)
    PROVE  Range(c) = Stacked /\ Range(Front(c)) = Stacked \ {current} /\ current \in Stacked
  <1> DEFINE n == Len(c)
  <1>p. /\ c \in Seq(Stacked) /\ n \in Nat /\ n > 0 /\ DOMAIN c = 1..n /\ c[n] = current
        /\ \A i \in 1..n : c[i] \in Stacked
        /\ \A i, j \in 1..n : c[i] = c[j] => i = j
        /\ \A x \in Stacked : \E i \in 1..n : c[i] = x
    BY PiledParts
  <1>q. Front(c) = SubSeq(c, 1, n - 1)
    BY DEF Front
  <1> HIDE DEF n
  <1>1. Range(c) = Stacked
    BY <1>p DEF Range
  <1>2. DOMAIN Front(c) = 1..(n - 1) /\ \A i \in 1..(n - 1) : Front(c)[i] = c[i]
    <2> DEFINE m == n - 1
    <2>1. 1 \in Int /\ m \in Int /\ \A i \in 1..m : c[i] \in Stacked
      BY <1>p
    <2>0. m >= 0
      BY <1>p
    <2> HIDE DEF m
    <2>2. /\ SubSeq(c, 1, m) \in Seq(Stacked)
          /\ Len(SubSeq(c, 1, m)) = IF 1 <= m THEN m - 1 + 1 ELSE 0
          /\ \A i \in 1..(m - 1 + 1) : SubSeq(c, 1, m)[i] = c[1 + i - 1]
      BY <2>1, SubSeqProperties
    <2>3. m - 1 + 1 = m /\ (\A i \in 1..m : 1 + i - 1 = i) /\ (~(1 <= m) => m = 0)
      BY <2>0, <2>1
    <2>4. Len(SubSeq(c, 1, m)) = m
      BY <2>2, <2>3
    <2>5. DOMAIN SubSeq(c, 1, m) = 1..m
      BY <2>2, <2>4, LenProperties
    <2>6. QED
      BY <1>q, <2>2, <2>3, <2>5 DEF m
  <1>3. ASSUME NEW x \in Stacked \ {current} PROVE \E i \in 1..(n - 1) : c[i] = x
    <2>1. PICK i \in 1..n : c[i] = x
      BY <1>p
    <2>2. i # n
      BY <1>p, <2>1
    <2>3. i \in 1..(n - 1)
      BY <1>p, <2>1, <2>2
    <2>4. QED
      BY <2>1, <2>3
  <1>4. ASSUME NEW i \in 1..(n - 1) PROVE c[i] \in Stacked \ {current}
    <2>1. i \in 1..n /\ n \in 1..n /\ i # n
      BY <1>p
    <2>2. QED
      BY <1>p, <2>1
  <1>5. Range(Front(c)) = Stacked \ {current}
    BY <1>2, <1>3, <1>4 DEF Range
  <1>6. current \in Stacked
    <2>1. n \in 1..n
      BY <1>p
    <2>2. QED
      BY <1>p, <2>1
  <1>7. QED
    BY <1>1, <1>5, <1>6

LEMMA Seen ==
    \A c : TypeOK /\ PlacesFit /\ Piled(c) =>
      /\ ActiveNow = IF Escaping THEN Front(c) ELSE c
      /\ Phases = [f \in Fibers |-> PhaseOf(f)]
      /\ Last(c) = current
  <1> SUFFICES ASSUME TypeOK, PlacesFit, NEW c, Piled(c)
               PROVE  /\ ActiveNow = IF Escaping THEN Front(c) ELSE c
                      /\ Phases = [f \in Fibers |-> PhaseOf(f)]
                      /\ Last(c) = current
    OBVIOUS
  <1>1. ActiveNow = IF Escaping THEN Front(c) ELSE c
    BY ResumedIs DEF ActiveNow
  <1>2. Range(ActiveNow) = IF Escaping THEN Stacked \ {current} ELSE Stacked
    BY <1>1, StackRange
  <1>3. ASSUME NEW f \in Fibers PROVE Phase(f) = PhaseOf(f)
    <2>1. CASE f = current
      BY <1>2, <2>1, StackRange DEF Phase, PhaseOf
    <2>2. CASE f # current
      <3>1. f \in Range(ActiveNow) <=> resume[f] \in Tails
        BY <1>2, <2>2, OnStack
      <3>2. resume[f] \in Tails <=> state[f] = "Running"
        <4>1. resume[f] \in Tails => state[f] \notin {"absent", "Terminated", "NotStarted", "Suspended"}
          BY PlacesDiffer DEF PlacesFit, Tails
        <4>2. state[f] = "Running" => resume[f] \notin {Gone, <<"entry">>, <<"wake">>, User, <<"escape">>}
          BY <2>2 DEF PlacesFit, Contexts
        <4>3. resume[f] \in Places
          BY DEF TypeOK, Contexts
        <4>4. state[f] \in {"absent", "NotStarted", "Running", "Suspended", "Terminated"}
          BY DEF TypeOK
        <4>5. QED
          BY <4>1, <4>2, <4>3, <4>4 DEF Places, Tails
      <3>3. state[f] \in {"absent", "NotStarted", "Running", "Suspended", "Terminated"}
        BY DEF TypeOK
      <3>4. QED
        BY <2>2, <3>1, <3>2, <3>3 DEF Phase, PhaseOf, Look
    <2>3. QED
      BY <2>1, <2>2
  <1>4. Phases = [f \in Fibers |-> PhaseOf(f)]
    BY <1>3 DEF Phases
  <1>5. Last(c) = current
    BY PiledParts DEF Last
  <1>6. QED
    BY <1>1, <1>4, <1>5

LEMMA SeenNext ==
    (\A c : TypeOK /\ PlacesFit /\ Piled(c) =>
      /\ ActiveNow = IF Escaping THEN Front(c) ELSE c
      /\ Phases = [f \in Fibers |-> PhaseOf(f)]
      /\ Last(c) = current)'
  BY Seen, PTL

LEMMA Flying ==
    /\ status # "running" \/ resume[current] = User => Flight = Nothing
    /\ status = "running" =>
         /\ resume[current] = <<"entry">> => Flight = <<"begin">>
         /\ resume[current] = <<"escape">> => Flight = <<"thrown", exc>>
         /\ resume[current] = <<"wake">> => Flight = Payload(current)
         /\ \A f : resume[current] = <<"tail", f>> => Flight = Payload(f)
  <1>1. ASSUME status = "running", NEW f, resume[current] = <<"tail", f>> PROVE Flight = Payload(f)
    <2>1. resume[current][2] = f
      BY <1>1
    <2>2. /\ resume[current] # User /\ resume[current] # <<"entry">> /\ ~Escaping
          /\ resume[current] # <<"wake">>
      BY <1>1, PlacesDiffer DEF Escaping
    <2>3. QED
      BY <1>1, <2>1, <2>2 DEF Flight
  <1>2. QED
    BY <1>1, PlacesDiffer DEF Flight, Escaping

LEMMA FlyingNext ==
    (/\ status # "running" \/ resume[current] = User => Flight = Nothing
     /\ status = "running" =>
          /\ resume[current] = <<"entry">> => Flight = <<"begin">>
          /\ resume[current] = <<"escape">> => Flight = <<"thrown", exc>>
          /\ resume[current] = <<"wake">> => Flight = Payload(current)
          /\ \A f : resume[current] = <<"tail", f>> => Flight = Payload(f))'
  BY Flying, PTL

\* The depths that the try statements of a context go back to.
LEMMA NestedIs ==
    ASSUME TypeOK, NEW c \in Contexts
    PROVE  LET s == Nested[c]
               t == tries[c]
           IN  /\ t \in Nat /\ s \in Seq(Nat) /\ Len(s) = t /\ s = [n \in 1..t |-> record[<<c, n>>].quiet]
               /\ s = << >> <=> t = 0
               /\ t > 0 => Last(s) = record[<<c, t>>].quiet
               /\ t > 0 => Front(s) = [n \in 1..(t - 1) |-> record[<<c, n>>].quiet]
  <1> DEFINE t == tries[c]
             s == [n \in 1..t |-> record[<<c, n>>].quiet]
  <1>1. t \in Nat /\ \A n \in 1..t : record[<<c, n>>].quiet \in Nat
    <2>1. t \in 0..MaxTries /\ t \in Nat
      BY LevelsNat
    <2>2. ASSUME NEW n \in 1..t PROVE record[<<c, n>>].quiet \in Nat
      <3>1. <<c, n>> \in Handlers
        BY <2>1, BoundsAssumption DEF Handlers
      <3>2. record[<<c, n>>] \in [next : Handlers \cup {NoHandler}, diag : Nat, quiet : Nat]
        BY <3>1 DEF TypeOK
      <3>3. QED
        BY <3>2
    <2>3. QED
      BY <2>1, <2>2
  <1>2. Nested[c] = s
    BY DEF Nested
  <1> HIDE DEF t
  <1>3. s \in [1..t -> Nat]
    BY <1>1
  <1>4. s \in Seq(Nat) /\ DOMAIN s = 1..t
    BY <1>1, <1>3, SeqDef
  <1>5. Len(s) = t
    BY <1>1, <1>4, LenProperties
  <1>6. s = << >> <=> t = 0
    <2>1. s = << >> => Len(s) = 0
      BY <1>4, EmptySeq
    <2>2. Len(s) = 0 => s = << >>
      BY <1>4, EmptySeq
    <2>3. QED
      BY <1>5, <2>1, <2>2
  <1>7. t > 0 => Last(s) = record[<<c, t>>].quiet
    BY <1>1, <1>5 DEF Last
  <1>8. ASSUME t > 0 PROVE Front(s) = [n \in 1..(t - 1) |-> record[<<c, n>>].quiet]
    <2> DEFINE m == t - 1
    <2>1. m \in Nat /\ 1 \in Int /\ m \in Int /\ \A i \in 1..m : i \in 1..t
      BY <1>1, <1>8
    <2>2. Front(s) = SubSeq(s, 1, m)
      BY <1>5 DEF Front
    <2>3. \A i \in 1..m : s[i] \in Nat
      BY <1>3, <2>1
    <2>4. \A i \in 1..m : s[i] = record[<<c, i>>].quiet
      BY <2>1
    <2> HIDE DEF m, s
    <2>5. /\ SubSeq(s, 1, m) \in Seq(Nat)
          /\ Len(SubSeq(s, 1, m)) = IF 1 <= m THEN m - 1 + 1 ELSE 0
          /\ \A i \in 1..(m - 1 + 1) : SubSeq(s, 1, m)[i] = s[1 + i - 1]
      BY <2>1, <2>3, SubSeqProperties
    <2>6. m - 1 + 1 = m /\ (\A i \in 1..m : 1 + i - 1 = i) /\ (~(1 <= m) => m = 0)
      BY <2>1
    <2>7. Len(SubSeq(s, 1, m)) = m
      BY <2>5, <2>6
    <2>8. SubSeq(s, 1, m) \in [1..m -> Nat]
      BY <2>5, <2>7, LenProperties
    <2>9. SubSeq(s, 1, m) = [i \in 1..m |-> SubSeq(s, 1, m)[i]]
      BY <2>8
    <2>10. QED
      BY <2>2, <2>4, <2>5, <2>6, <2>9 DEF m
  <1>9. QED
    BY <1>1, <1>2, <1>4, <1>5, <1>6, <1>7, <1>8 DEF t

-----------------------------------------------------------------------------
(* How a step changes what the program sees. *)

\* The running context runs on, or has ended by an exception.
LEMMA SeenStay ==
    ASSUME TypeOK, PlacesFit, TypeOK', PlacesFit', NEW c, Piled(c), Piled(c)', ~Escaping,
           current' = current, \A f \in Fibers \ {current} : state'[f] = state[f]
    PROVE  /\ ActiveNow' = IF Escaping' THEN Front(ActiveNow) ELSE ActiveNow
           /\ Phases' = IF Escaping' THEN [Phases EXCEPT ![current] = "done"] ELSE Phases
           /\ Last(ActiveNow) = current
  <1>1. /\ ActiveNow = c /\ Last(c) = current /\ Phases = [f \in Fibers |-> PhaseOf(f)]
        /\ ActiveNow' = (IF Escaping' THEN Front(c) ELSE c)
        /\ Phases' = [f \in Fibers |-> PhaseOf(f)']
    BY Seen, SeenNext
  <1>2. ASSUME NEW f \in Fibers
        PROVE  PhaseOf(f)' = IF f = current /\ Escaping' THEN "done" ELSE PhaseOf(f)
    BY DEF PhaseOf
  <1>3. Phases' = IF Escaping' THEN [Phases EXCEPT ![current] = "done"] ELSE Phases
    BY <1>1, <1>2
  <1>4. QED
    BY <1>1, <1>3

\* A fiber is resumed.
LEMMA SeenEnter ==
    ASSUME TypeOK, PlacesFit, TypeOK', PlacesFit', NEW c, Piled(c), NEW f \in Fibers,
           Piled(Append(c, f))', resume[current] = User, current' = f, f # current,
           resume'[f] # <<"escape">>, state' = state
    PROVE  /\ ActiveNow' = Append(ActiveNow, f)
           /\ Phases' = [Phases EXCEPT ![f] = "active"]
           /\ Last(ActiveNow) = current
  <1>0. ~Escaping /\ ~Escaping'
    BY PlacesDiffer DEF Escaping
  <1>1. /\ ActiveNow = c /\ Last(c) = current /\ Phases = [g \in Fibers |-> PhaseOf(g)]
        /\ ActiveNow' = Append(c, f) /\ Phases' = [g \in Fibers |-> PhaseOf(g)']
    BY <1>0, Seen, SeenNext
  <1>2. current \in Fibers => state[current] = "Running"
    BY PlacesDiffer DEF PlacesFit, TypeOK
  <1>3. ASSUME NEW g \in Fibers
        PROVE  PhaseOf(g)' = IF g = f THEN "active" ELSE PhaseOf(g)
    BY <1>0, <1>2 DEF PhaseOf, Look
  <1>4. QED
    BY <1>1, <1>3

\* The running fiber hands control back.
LEMMA SeenLeave ==
    ASSUME TypeOK, PlacesFit, TypeOK', PlacesFit', NEW c, Piled(c), Piled(Front(c))',
           current \in Fibers, current' # current, resume[current'] \in Tails, ~Escaping',
           NEW to \in {"Suspended", "Terminated"}, state' = [state EXCEPT ![current] = to]
    PROVE  /\ ActiveNow' = IF Escaping THEN ActiveNow ELSE Front(ActiveNow)
           /\ Phases' = [Phases EXCEPT ![current] = Look[to]]
           /\ ~Escaping => Last(ActiveNow) = current
           /\ Escaping => Phases[current] = "done"
  <1>1. /\ ActiveNow = (IF Escaping THEN Front(c) ELSE c) /\ Last(c) = current
        /\ Phases = [g \in Fibers |-> PhaseOf(g)]
        /\ ActiveNow' = Front(c) /\ Phases' = [g \in Fibers |-> PhaseOf(g)']
    BY Seen, SeenNext
  <1>2. current' \in Fibers => state[current'] = "Running"
    BY PlacesDiffer DEF PlacesFit, TypeOK, Tails
  <1>3. ASSUME NEW g \in Fibers
        PROVE  PhaseOf(g)' = IF g = current THEN Look[to] ELSE PhaseOf(g)
    <2>1. state'[g] = IF g = current THEN to ELSE state[g]
      BY DEF TypeOK
    <2>2. QED
      BY <1>2, <2>1 DEF PhaseOf, Look
  <1>4. QED
    BY <1>1, <1>3 DEF PhaseOf

\* Another fiber is made or freed.
LEMMA SeenElsewhere ==
    ASSUME TypeOK, PlacesFit, TypeOK', PlacesFit', NEW c, Piled(c), Piled(c)', ~Escaping, ~Escaping',
           current' = current, NEW f \in Fibers, f # current,
           NEW to \in {"absent", "NotStarted"}, state' = [state EXCEPT ![f] = to]
    PROVE  /\ ActiveNow' = ActiveNow
           /\ Phases' = [Phases EXCEPT ![f] = Look[to]]
           /\ Last(ActiveNow) = current
  <1>1. /\ ActiveNow = c /\ Last(c) = current /\ Phases = [g \in Fibers |-> PhaseOf(g)]
        /\ ActiveNow' = c /\ Phases' = [g \in Fibers |-> PhaseOf(g)']
    BY Seen, SeenNext
  <1>2. ASSUME NEW g \in Fibers
        PROVE  PhaseOf(g)' = IF g = f THEN Look[to] ELSE PhaseOf(g)
    <2>1. state'[g] = IF g = f THEN to ELSE state[g]
      BY DEF TypeOK
    <2>2. QED
      BY <2>1 DEF PhaseOf
  <1>3. QED
    BY <1>1, <1>2

\* Where nothing moves, nothing is seen to move.
LEMMA SeenSame ==
    ASSUME UNCHANGED <<current, resume, state>>
    PROVE  UNCHANGED <<ActiveNow, Phases>>
  <1>1. Resumed' = Resumed /\ Escaping' = Escaping
    BY Zenon DEF Resumed, Stacked, Active, Escaping
  <1>2. ActiveNow' = ActiveNow
    BY <1>1, Zenon DEF ActiveNow
  <1>3. Phases' = Phases
    BY <1>2, Zenon DEF Phases, Phase
  <1>4. QED
    BY <1>2, <1>3

LEMMA SameOperators ==
    \A s : Promise!Front(s) = Front(s) /\ Promise!Last(s) = Last(s)
  BY DEF Promise!Front, Promise!Last, Front, Last

\* An exception in the running context is one in the coroutine on top.
LEMMA SeenRaise ==
    ASSUME TypeOK, TypeOK', Sound, status = "running", NEW c, Piled(c), NEW e \in Thrown,
           Raise(e, top), Started(current), ~Escaping,
           \/ state' = state
           \/ current \in Fibers /\ state' = [state EXCEPT ![current] = "Running"],
           status' = "running" => Sound', Returned' = Returned
    PROVE  /\ Promise!RaiseHere(e)
           /\ status' = "running" => Aside' /\ Piled(c)'
  <1>1. current' = current /\ saved' = saved /\ record' = record /\ current \in Contexts
    BY DEF Raise, TypeOK
  <1>2. /\ ActiveNow = c /\ Last(ActiveNow) = current /\ Promise!Top = current
    BY Seen, SameOperators DEF Sound, Control, Promise!Top
  <1>3. /\ tries[current] \in Nat /\ (Nested[current] = << >> <=> tries[current] = 0)
        /\ tries[current] > 0 => /\ Last(Nested[current]) = record[<<current, tries[current]>>].quiet
                                 /\ Front(Nested[current]) = [n \in 1..(tries[current] - 1) |->
                                                                record[<<current, n>>].quiet]
    BY <1>1, NestedIs
  <1>4. ASSUME resume' = [resume EXCEPT ![current] = User] \/ resume' = [resume EXCEPT ![current] = <<"escape">>],
               status' = "running"
        PROVE  /\ Piled(c)'
               /\ ActiveNow' = IF Escaping' THEN Front(ActiveNow) ELSE ActiveNow
               /\ Phases' = IF Escaping' THEN [Phases EXCEPT ![current] = "done"] ELSE Phases
    <2>1. Piled(c)'
      <3>1. \A x \in Contexts \ {current} : resume'[x] = resume[x]
        <4>1. resume \in [Contexts -> Places]
          BY DEF TypeOK
        <4>2. QED
          BY <1>4, <4>1
      <3>2. \A x \in Contexts \ {current} :
              resume'[x] = resume[x] \/ (resume[x] \notin Tails /\ resume'[x] \notin Tails)
        BY <3>1, Zenon
      <3>3. QED
        BY <1>1, <3>2, StackSame, Zenon
    <2>2. \A f \in Fibers \ {current} : state'[f] = state[f]
      BY DEF TypeOK
    <2>3. QED
      BY <1>1, <1>4, <2>1, <2>2, SeenStay DEF Sound, Control
  <1>5. CASE top = NoHandler
    <2>1. Died(e, top, "uncaught")
      BY <1>5 DEF Raise
    <2>2. tries[current] = 0 /\ current = Main
      <3>1. <<current, tries[current]>> \in Handlers
        BY <1>1, LevelsNat DEF Handlers
      <3>2. NoHandler = OwnHandler(current)
        BY <1>5 DEF Sound, Chains, OwnTop
      <3>3. ~(tries[current] > 0) /\ ~(current # Main /\ resume[current] # <<"entry">>)
        BY <3>1, <3>2, HandlersAssumption DEF OwnHandler
      <3>4. resume[current] # <<"entry">>
        BY DEF Started
      <3>5. current = Main
        BY <3>3, <3>4
      <3>6. QED
        BY <1>3, <3>3, <3>5
    <2>3. state' = state
      BY <2>2, ContextsAssumption
    <2>4. UNCHANGED <<ActiveNow, Phases>>
      BY <1>1, <2>1, <2>3, SeenSame DEF Died
    <2>5. Flight' = Nothing
      BY <2>1, FlyingNext DEF Died
    <2>6. Nested' = Nested
      BY <1>1, <2>1 DEF Died, Nested
    <2>7. QED
      BY <1>2, <1>3, <2>1, <2>2, <2>4, <2>5, <2>6 DEF Died, Promise!RaiseHere
  <1>6. CASE top # NoHandler
    <2>0. /\ top = <<current, tries[current]>> /\ top[1] = current /\ top[2] = tries[current]
          /\ tries[current] > 0 \/ current # Main
      BY <1>6 DEF Sound, Chains, OwnTop, OwnHandler
    <2>1. CASE tries[current] = 0
      <3>1. Escaped(e, top)
        BY <1>6, <2>0, <2>1 DEF Raise
      <3>2. /\ resume' = [resume EXCEPT ![current] = <<"escape">>] /\ status' = "running"
            /\ resume'[current'] = <<"escape">> /\ exc' = e /\ outcome' = Nothing
            /\ quiet' = [quiet EXCEPT ![current] = 0] /\ tries' = [tries EXCEPT ![current] = 0]
        BY <1>1, <3>1 DEF Escaped, TypeOK
      <3>3. /\ Piled(c)' /\ Escaping' /\ ActiveNow' = Front(ActiveNow)
            /\ Phases' = [Phases EXCEPT ![current] = "done"]
        BY <1>4, <3>2 DEF Escaping
      <3>4. Flight' = <<"thrown", e>>
        BY <3>2, FlyingNext
      <3>5. Nested' = Nested
        <4>1. tries' = tries
          BY <2>1, <3>2 DEF TypeOK
        <4>2. QED
          BY <1>1, <4>1 DEF Nested
      <3>6. Aside'
        BY <3>2 DEF Aside
      <3>7. Promise!RaiseHere(e)
        BY <1>2, <1>3, <2>0, <2>1, <3>2, <3>3, <3>4, <3>5, SameOperators DEF Promise!RaiseHere
      <3>8. QED
        BY <3>3, <3>6, <3>7
    <2>2. CASE tries[current] # 0
      <3>1. Caught(e, top)
        BY <1>6, <2>0, <2>2 DEF Raise
      <3>2. /\ resume' = [resume EXCEPT ![current] = User] /\ status' = "running"
            /\ resume'[current'] = User /\ outcome' = <<"thrown", e>>
            /\ quiet' = [quiet EXCEPT ![current] = record[<<current, tries[current]>>].quiet]
            /\ tries' = [tries EXCEPT ![current] = tries[current] - 1]
        BY <1>1, <2>0, <3>1 DEF Caught, TypeOK
      <3>3. /\ Piled(c)' /\ ~Escaping' /\ ActiveNow' = ActiveNow /\ Phases' = Phases
        BY <1>4, <3>2, PlacesDiffer DEF Escaping
      <3>4. Flight' = Nothing
        BY <3>2, FlyingNext
      <3>5. tries[current] > 0
        BY <1>3, <2>2
      <3>6. Nested' = [Nested EXCEPT ![current] = Front(Nested[current])]
        <4>1. Nested' = [x \in Contexts |-> [n \in 1..tries'[x] |-> record[<<x, n>>].quiet]]
          BY <1>1 DEF Nested
        <4>2. \A x \in Contexts : tries'[x] = IF x = current THEN tries[current] - 1 ELSE tries[x]
          BY <3>2 DEF TypeOK
        <4>3. ASSUME NEW x \in Contexts
              PROVE  Nested'[x] = IF x = current THEN Front(Nested[current]) ELSE Nested[x]
          <5>1. Nested'[x] = [n \in 1..tries'[x] |-> record[<<x, n>>].quiet]
            BY <4>1
          <5>2. CASE x = current
            BY <1>3, <3>5, <4>2, <5>1, <5>2
          <5>3. CASE x # current
            BY <4>2, <5>1, <5>3 DEF Nested
          <5>4. QED
            BY <5>2, <5>3
        <4>4. DOMAIN Nested' = Contexts /\ Nested' = [x \in Contexts |-> Nested'[x]]
          BY <4>1
        <4>5. Nested = [x \in Contexts |-> Nested[x]]
          BY DEF Nested
        <4>6. QED
          BY <4>3, <4>4, <4>5
      <3>7. Aside'
        BY <3>2, PlacesDiffer DEF Aside
      <3>8. Promise!RaiseHere(e)
        <4>1. Nested[Promise!Top] # << >>
          BY <1>2, <1>3, <2>2
        <4>2. Nested' = [Nested EXCEPT ![Promise!Top] = Promise!Front(Nested[Promise!Top])]
          BY <1>2, <3>6, SameOperators
        <4>3. quiet' = [quiet EXCEPT ![Promise!Top] = Promise!Last(Nested[Promise!Top])]
          BY <1>2, <1>3, <3>2, <3>5, SameOperators
        <4>4. status' = status
          BY <3>2
        <4>5. QED
          BY <3>2, <3>3, <3>4, <4>1, <4>2, <4>3, <4>4 DEF Promise!RaiseHere
      <3>9. QED
        BY <3>3, <3>7, <3>8
    <2>3. QED
      BY <2>1, <2>2
  <1>7. QED
    BY <1>5, <1>6

-----------------------------------------------------------------------------
(* Every step is one of coroutines, or unseen. *)

Ready(c) == TypeOK /\ Sound /\ Aside /\ status = "running" /\ Piled(c)

\* What earlier lemmas say of the next state.
StaysSound == TypeOK' /\ (status' = "running" => Sound')

Lands == status' = "running" => Aside' /\ \E d : Piled(d)'

\* The program's own code runs.
LEMMA ReadyCode ==
    ASSUME NEW c, Ready(c), At(User)
    PROVE  /\ ~Escaping /\ Started(current) /\ Promise!Runs /\ Promise!Top = current
           /\ ActiveNow = c /\ current \in Contexts /\ Flight = Nothing /\ Last(ActiveNow) = current
           /\ \A f \in Fibers :
                /\ Phases[f] = Look[state[f]]
                /\ state[f] \in {"absent", "NotStarted", "Running", "Suspended", "Terminated"}
                /\ Phases[f] = "absent" <=> state[f] = "absent"
                /\ Phases[f] = "fresh" <=> state[f] = "NotStarted"
                /\ Phases[f] = "active" <=> state[f] = "Running"
                /\ Phases[f] = "suspended" <=> state[f] = "Suspended"
                /\ Phases[f] = "done" <=> state[f] = "Terminated"
  <1>1. TypeOK /\ Sound /\ status = "running" /\ Piled(c) /\ resume[current] = User
    BY DEF Ready, At
  <1>2. ~Escaping /\ Started(current) /\ current \in Contexts /\ Flight = Nothing
    BY <1>1, Flying, PlacesDiffer DEF Escaping, Started, TypeOK
  <1>3. ActiveNow = c /\ Last(c) = current /\ Phases = [f \in Fibers |-> PhaseOf(f)]
    BY <1>1, <1>2, Seen DEF Sound, Control
  <1>4. Promise!Runs /\ Promise!Top = current
    BY <1>1, <1>2, <1>3, SameOperators DEF Promise!Runs, Promise!Top
  <1>5. ASSUME NEW f \in Fibers
        PROVE  /\ state[f] \in {"absent", "NotStarted", "Running", "Suspended", "Terminated"}
               /\ Phases[f] = Look[state[f]]
    <2>1. state[f] \in {"absent", "NotStarted", "Running", "Suspended", "Terminated"}
      BY <1>1 DEF TypeOK
    <2>2. f = current => state[f] = "Running"
      BY <1>1, <2>1, PlacesDiffer DEF Sound, Control, PlacesFit
    <2>3. QED
      BY <1>2, <1>3, <2>1, <2>2 DEF PhaseOf, Look
  <1>6. ASSUME NEW f \in Fibers
        PROVE  /\ Phases[f] = "absent" <=> state[f] = "absent"
               /\ Phases[f] = "fresh" <=> state[f] = "NotStarted"
               /\ Phases[f] = "active" <=> state[f] = "Running"
               /\ Phases[f] = "suspended" <=> state[f] = "Suspended"
               /\ Phases[f] = "done" <=> state[f] = "Terminated"
    BY <1>5 DEF Look
  <1>7. QED
    BY <1>2, <1>3, <1>4, <1>5, <1>6

\* The program throws, or the runtime refuses what it asks for.
LEMMA CodeThrows ==
    ASSUME NEW c, Ready(c), StaysSound, At(User), NEW e \in Thrown, Raise(e, top), UNCHANGED fiberVars
    PROVE  Promise!RaiseHere(e) /\ Lands
  <1>1. ~Escaping /\ Started(current)
    BY ReadyCode
  <1>2. state' = state /\ Returned' = Returned
    BY DEF fiberVars, Returned
  <1>3. QED
    BY <1>1, <1>2, SeenRaise DEF Ready, StaysSound, Lands

LEMMA Refusal ==
    ASSUME NEW c, Ready(c), StaysSound, At(User), StateError
    PROVE  Promise!Refused /\ Lands
  <1>1. FiberError \in Thrown
    BY DEF Thrown
  <1>2. QED
    BY <1>1, CodeThrows DEF StateError, Promise!Refused

\* start, resume and throw.
LEMMA CallSeen ==
    ASSUME NEW c, Ready(c), StaysSound, At(User), NEW f \in Fibers, SwitchTo(f, <<"tail", f>>),
           state' = state, Returned' = Returned, resume[f] \in {<<"entry">>, <<"wake">>},
           NEW what, Flight' = what
    PROVE  Promise!Enters(f, what) /\ Lands
  <1>1. /\ current' = f /\ resume' = [resume EXCEPT ![current] = <<"tail", f>>]
        /\ outcome' = Nothing /\ UNCHANGED <<record, exc, status, tries, quiet>>
        /\ status' = "running" /\ resume[current] = User
    BY DEF SwitchTo, Switch, codeVars, Ready, At
  <1>2. /\ f # current /\ resume[f] \notin Tails /\ f \in Contexts
        /\ resume'[f] = resume[f] /\ resume[f] # <<"escape">> /\ resume[f] # User
    BY <1>1, PlacesDiffer DEF Ready, TypeOK, Tails, Contexts
  <1>3. Piled(Append(c, f))'
    BY <1>1, <1>2, StackPush DEF Ready
  <1>4. /\ ActiveNow' = Append(ActiveNow, f) /\ Phases' = [Phases EXCEPT ![f] = "active"]
    BY <1>1, <1>2, <1>3, SeenEnter DEF Ready, StaysSound, Sound, Control
  <1>5. Nested' = Nested
    BY <1>1 DEF Nested
  <1>6. Aside'
    BY <1>1, <1>2 DEF Aside
  <1>7. \E d : Piled(d)'
    BY <1>3
  <1>8. QED
    BY <1>1, <1>4, <1>5, <1>6, <1>7 DEF Promise!Enters, Lands

\* suspend, and both ends of a fiber.
LEMMA BackSeen ==
    ASSUME NEW c, Ready(c), StaysSound, current \in Fibers, resume[current] \in {User, <<"escape">>},
           NEW head, Switch(head, caller[current]),
           NEW place \in {<<"wake">>, Gone}, resume' = [resume EXCEPT ![current] = place],
           NEW to \in {"Suspended", "Terminated"}, state' = [state EXCEPT ![current] = to],
           record' = record, tries' = tries, status' = status, outcome' = Nothing
    PROVE  /\ ActiveNow' = IF Escaping THEN ActiveNow ELSE Front(ActiveNow)
           /\ Phases' = [Phases EXCEPT ![current] = Look[to]]
           /\ Escaping => Phases[current] = "done"
           /\ Nested' = Nested
           /\ Flight' = IF pending'[current] # Nothing THEN <<"thrown", pending'[current]>>
                        ELSE <<"value", IF to = "Terminated" THEN Null ELSE transfer'[current]>>
           /\ Lands
  <1>1. /\ current' = caller[current] /\ current \in Contexts /\ caller[current] \in Contexts
        /\ TypeOK /\ Waits /\ PlacesFit /\ Piled(c) /\ status' = "running"
        /\ TypeOK' /\ PlacesFit'
    BY DEF Ready, StaysSound, Sound, Control, Switch, TypeOK
  <1>2. resume[current] \notin Tails /\ place \notin Tails
    BY PlacesDiffer DEF Tails
  <1>3. Piled(Front(c))'
    BY <1>1, <1>2, StackPop
  <1>4. resume[caller[current]] = <<"tail", current>> /\ caller[current] # current
    BY <1>2, <1>1 DEF Waits, Active, Tails
  <1>5. /\ current' # current /\ resume[current'] \in Tails
        /\ resume'[current'] = <<"tail", current>>
    BY <1>1, <1>4 DEF Tails, TypeOK
  <1>6. ~Escaping' /\ resume'[current'] # <<"escape">>
    BY <1>5, PlacesDiffer DEF Escaping
  <1>7. /\ ActiveNow' = (IF Escaping THEN ActiveNow ELSE Front(ActiveNow))
        /\ Phases' = [Phases EXCEPT ![current] = Look[to]]
        /\ Escaping => Phases[current] = "done"
    BY <1>1, <1>3, <1>5, <1>6, SeenLeave
  <1>8. Nested' = Nested
    BY DEF Nested
  <1>9. Flight' = IF pending'[current] # Nothing THEN <<"thrown", pending'[current]>>
                  ELSE <<"value", IF to = "Terminated" THEN Null ELSE transfer'[current]>>
    <2>1. PICK f \in Fibers : f = current
      OBVIOUS
    <2>2. Flight' = Payload(f)'
      BY <1>1, <1>5, <2>1, FlyingNext
    <2>3. state'[f] = to
      BY <1>1, <2>1 DEF TypeOK
    <2>4. QED
      BY <1>5, <2>1, <2>2, <2>3 DEF Payload
  <1>10. Lands
    BY <1>3, <1>6 DEF Lands, Aside
  <1>11. QED
    BY <1>7, <1>8, <1>9, <1>10

\* A helper returns to the program what was in flight.
LEMMA ReturnSeen ==
    ASSUME NEW c, Ready(c), StaysSound, Started(current), ~Escaping, NEW v, Return(v),
           Flight = <<"value", v>>, Flight # Nothing, Returned' = Returned,
           \/ state' = state
           \/ current \in Fibers /\ state' = [state EXCEPT ![current] = "Running"]
    PROVE  Promise!Receive /\ Lands
  <1>1. /\ current' = current /\ resume' = [resume EXCEPT ![current] = User]
        /\ outcome' = <<"value", v>> /\ status = "running" /\ status' = "running"
        /\ record' = record /\ tries' = tries /\ quiet' = quiet
        /\ current \in Contexts /\ resume'[current] = User /\ TypeOK /\ TypeOK'
        /\ PlacesFit /\ PlacesFit' /\ Piled(c)
    BY DEF Return, codeVars, Ready, StaysSound, TypeOK, Sound, Control
  <1>2. \A x \in Contexts \ {current} : resume'[x] = resume[x]
    BY <1>1 DEF TypeOK
  <1>3. Piled(c)'
    BY <1>1, <1>2, StackSame
  <1>4. \A f \in Fibers \ {current} : state'[f] = state[f]
    BY <1>1 DEF TypeOK
  <1>5. ~Escaping'
    BY <1>1, PlacesDiffer DEF Escaping
  <1>6. ActiveNow' = ActiveNow /\ Phases' = Phases
    BY <1>1, <1>3, <1>4, <1>5, SeenStay
  <1>7. Flight' = Nothing /\ Nested' = Nested
    BY <1>1, FlyingNext DEF Nested
  <1>8. Lands
    BY <1>1, <1>3, PlacesDiffer DEF Lands, Aside
  <1>9. Flight[1] = "value" /\ Flight[1] # "thrown" /\ outcome' = Flight
    BY <1>1
  <1>10. Promise!Receive
    BY <1>1, <1>6, <1>7, <1>9 DEF Promise!Receive
  <1>11. QED
    BY <1>8, <1>10

LEMMA NestedIsNext ==
    (TypeOK => \A c \in Contexts :
       /\ tries[c] \in Nat /\ Nested[c] \in Seq(Nat) /\ Len(Nested[c]) = tries[c]
       /\ Nested[c] = << >> <=> tries[c] = 0)'
  <1>1. TypeOK => \A c \in Contexts :
          /\ tries[c] \in Nat /\ Nested[c] \in Seq(Nat) /\ Len(Nested[c]) = tries[c]
          /\ Nested[c] = << >> <=> tries[c] = 0
    BY NestedIs
  <1>2. QED
    BY <1>1, PTL

LEMMA ConstructSeen ==
    ASSUME NEW c, Ready(c), StaysSound, NEW f \in Fibers, Construct(f)
    PROVE  Promise!CConstruct(f) /\ Lands
  <1>1. /\ At(User) /\ state[f] = "absent" /\ state' = [state EXCEPT ![f] = "NotStarted"]
        /\ transfer' = [transfer EXCEPT ![f] = Nothing] /\ resume' = [resume EXCEPT ![f] = <<"entry">>]
        /\ UNCHANGED <<current, record, outcome, status, tries, quiet>>
        /\ status' = "running" /\ TypeOK /\ PlacesFit /\ TypeOK' /\ PlacesFit' /\ Piled(c)
    BY DEF Construct, Exists, codeVars, Ready, StaysSound, At, Sound, Control
  <1>2. resume[current] = User /\ resume[f] = Gone
    BY <1>1 DEF At, PlacesFit
  <1>3. f # current /\ resume'[current] = User
    BY <1>1, <1>2, PlacesDiffer DEF TypeOK
  <1>4. Piled(c)'
    <2>1. \A x \in Contexts \ {current} :
            resume'[x] = resume[x] \/ (resume[x] \notin Tails /\ resume'[x] \notin Tails)
      BY <1>1, <1>2, PlacesDiffer DEF TypeOK, Tails
    <2>2. QED
      BY <1>1, <2>1, StackSame
  <1>5. ~Escaping'
    BY <1>1, <1>3, PlacesDiffer DEF Escaping
  <1>6. ActiveNow' = ActiveNow /\ Phases' = [Phases EXCEPT ![f] = "fresh"]
    BY <1>1, <1>3, <1>4, <1>5, ReadyCode, SeenElsewhere DEF Look
  <1>7. Flight' = Nothing /\ Nested' = Nested
    BY <1>1, <1>3, FlyingNext DEF Nested
  <1>8. Returned' = Returned
    BY <1>1 DEF Returned, TypeOK
  <1>9. Lands
    BY <1>1, <1>3, <1>4, PlacesDiffer DEF Lands, Aside
  <1>10. Promise!Runs /\ Phases[f] = "absent" /\ Flight = Nothing
    BY <1>1, ReadyCode
  <1>11. QED
    BY <1>1, <1>6, <1>7, <1>8, <1>9, <1>10 DEF Promise!CConstruct

LEMMA StartSeen ==
    ASSUME NEW c, Ready(c), StaysSound, NEW f \in Fibers, Start(f)
    PROVE  Promise!CStart(f) /\ Lands
  <1>1. /\ At(User) /\ state[f] # "absent" /\ TypeOK /\ PlacesFit /\ status = "running"
    BY DEF Start, Exists, Ready, Sound, Control
  <1>2. Promise!Runs /\ Phases[f] # "absent" /\ (Phases[f] = "fresh" <=> state[f] = "NotStarted")
    BY <1>1, ReadyCode
  <1>3. CASE state[f] = "NotStarted"
    <2>1. SwitchTo(f, <<"tail", f>>) /\ UNCHANGED <<state, transfer, pending>>
      BY <1>3 DEF Start
    <2>2. resume[f] = <<"entry">>
      BY <1>1, <1>3 DEF PlacesFit
    <2>3. current' = f /\ status' = "running" /\ resume'[current'] = <<"entry">>
      BY <1>1, <2>1, <2>2, PlacesDiffer DEF SwitchTo, Switch, TypeOK, Contexts, At
    <2>4. Flight' = <<"begin">>
      BY <2>3, FlyingNext
    <2>5. Returned' = Returned
      BY <2>1 DEF Returned
    <2>6. Promise!Enters(f, <<"begin">>) /\ Lands
      BY <1>1, <2>1, <2>2, <2>4, <2>5, CallSeen
    <2>7. QED
      BY <1>2, <1>3, <2>6 DEF Promise!CStart
  <1>4. CASE state[f] # "NotStarted"
    <2>1. Promise!Refused /\ Lands
      BY <1>1, <1>4, Refusal DEF Start
    <2>2. QED
      BY <1>2, <1>4, <2>1 DEF Promise!CStart
  <1>5. QED
    BY <1>3, <1>4

\* What a suspended fiber is resumed with is on its way to it.
LEMMA ResumeFlight ==
    ASSUME NEW c, Ready(c), At(User), NEW f \in Fibers, state[f] = "Suspended",
           SwitchTo(f, <<"tail", f>>), state' = state,
           \A g \in Fibers \ {f} : transfer'[g] = transfer[g]
    PROVE  /\ resume[f] = <<"wake">> /\ pending[f] = Nothing /\ Returned' = Returned
           /\ Flight' = IF pending'[f] # Nothing THEN <<"thrown", pending'[f]>>
                        ELSE <<"value", transfer'[f]>>
  <1>1. TypeOK /\ PlacesFit /\ Parked /\ resume[current] = User /\ status = "running"
    BY DEF Ready, Sound, Control, Payloads, At
  <1>2. resume[f] = <<"wake">>
    BY <1>1 DEF PlacesFit
  <1>3. pending[f] = Nothing
    BY <1>1, NoTransit DEF Parked
  <1>4. Returned' = Returned
    BY DEF Returned
  <1>5. current' = f /\ status' = "running" /\ resume'[current'] = <<"wake">>
    BY <1>1, <1>2, PlacesDiffer DEF SwitchTo, Switch, TypeOK, Contexts
  <1>6. Flight' = Payload(current)'
    BY <1>5, FlyingNext
  <1>7. Flight' = IF pending'[f] # Nothing THEN <<"thrown", pending'[f]>>
                  ELSE <<"value", transfer'[f]>>
    BY <1>5, <1>6 DEF Payload
  <1>8. QED
    BY <1>2, <1>3, <1>4, <1>7

LEMMA ResumeSeen ==
    ASSUME NEW c, Ready(c), StaysSound, NEW f \in Fibers, NEW v \in Values, Resume(f, v)
    PROVE  Promise!CResume(f, <<"value", v>>) /\ Lands
  <1>1. At(User) /\ state[f] # "absent" /\ TypeOK
    BY DEF Resume, Exists, Ready
  <1>2. Promise!Runs /\ Phases[f] # "absent" /\ (Phases[f] = "suspended" <=> state[f] = "Suspended")
    BY <1>1, ReadyCode
  <1>3. CASE state[f] = "Suspended"
    <2>1. /\ SwitchTo(f, <<"tail", f>>) /\ state' = state /\ pending' = pending
          /\ transfer' = [transfer EXCEPT ![f] = v]
      BY <1>3 DEF Resume
    <2>2. transfer'[f] = v /\ \A g \in Fibers \ {f} : transfer'[g] = transfer[g]
      BY <1>1, <2>1 DEF TypeOK
    <2>3. resume[f] = <<"wake">> /\ Returned' = Returned /\ Flight' = <<"value", v>>
      BY <1>1, <1>3, <2>1, <2>2, ResumeFlight
    <2>4. Promise!Enters(f, <<"value", v>>) /\ Lands
      BY <1>1, <2>1, <2>3, CallSeen
    <2>5. QED
      BY <1>2, <1>3, <2>4 DEF Promise!CResume
  <1>4. CASE state[f] # "Suspended"
    <2>1. Promise!Refused /\ Lands
      BY <1>1, <1>4, Refusal DEF Resume
    <2>2. QED
      BY <1>2, <1>4, <2>1 DEF Promise!CResume
  <1>5. QED
    BY <1>3, <1>4

LEMMA ThrowIntoSeen ==
    ASSUME NEW c, Ready(c), StaysSound, NEW f \in Fibers, NEW e \in Throwables, ThrowInto(f, e)
    PROVE  Promise!CResume(f, <<"thrown", e>>) /\ Lands
  <1>1. At(User) /\ state[f] # "absent" /\ TypeOK
    BY DEF ThrowInto, Exists, Ready
  <1>2. Promise!Runs /\ Phases[f] # "absent" /\ (Phases[f] = "suspended" <=> state[f] = "Suspended")
    BY <1>1, ReadyCode
  <1>3. CASE state[f] = "Suspended"
    <2>1. /\ SwitchTo(f, <<"tail", f>>) /\ state' = state /\ transfer' = transfer
          /\ pending' = [pending EXCEPT ![f] = e]
      BY <1>3 DEF ThrowInto
    <2>2. pending'[f] = e /\ e # Nothing
      BY <1>1, <2>1, SlotsAssumption DEF TypeOK
    <2>3. resume[f] = <<"wake">> /\ Returned' = Returned /\ Flight' = <<"thrown", e>>
      BY <1>1, <1>3, <2>1, <2>2, ResumeFlight
    <2>4. Promise!Enters(f, <<"thrown", e>>) /\ Lands
      BY <1>1, <2>1, <2>3, CallSeen
    <2>5. QED
      BY <1>2, <1>3, <2>4 DEF Promise!CResume
  <1>4. CASE state[f] # "Suspended"
    <2>1. Promise!Refused /\ Lands
      BY <1>1, <1>4, Refusal DEF ThrowInto
    <2>2. QED
      BY <1>2, <1>4, <2>1 DEF Promise!CResume
  <1>5. QED
    BY <1>3, <1>4

LEMMA SuspendSeen ==
    ASSUME NEW c, Ready(c), StaysSound, NEW v \in Values, Suspend(v)
    PROVE  Promise!CSuspend(v) /\ Lands
  <1>1. At(User) /\ TypeOK /\ PlacesFit /\ Parked /\ resume[current] = User
    BY DEF Suspend, Ready, At, Sound, Control, Payloads
  <1>2. Promise!Runs /\ Promise!Top = current /\ ~Escaping /\ current \in Contexts
    BY <1>1, ReadyCode
  <1>3. CASE current # Main
    <2>1. /\ transfer' = [transfer EXCEPT ![current] = v]
          /\ state' = [state EXCEPT ![current] = "Suspended"] /\ pending' = pending
          /\ SwitchTo(caller[current], <<"wake">>)
      BY <1>3 DEF Suspend
    <2>2. /\ Switch(top, caller[current]) /\ resume' = [resume EXCEPT ![current] = <<"wake">>]
          /\ record' = record /\ tries' = tries /\ quiet' = quiet /\ status' = status
          /\ outcome' = Nothing
      BY <2>1 DEF SwitchTo, codeVars
    <2>3. current \in Fibers
      BY <1>2, <1>3 DEF Contexts
    <2>4. pending'[current] = Nothing /\ transfer'[current] = v
      BY <1>1, <2>1, <2>3, NoTransit DEF Parked, TypeOK
    <2>5. /\ ActiveNow' = Front(ActiveNow)
          /\ Phases' = [Phases EXCEPT ![current] = "suspended"]
          /\ Nested' = Nested /\ Flight' = <<"value", v>> /\ Lands
      BY <1>1, <1>2, <2>1, <2>2, <2>3, <2>4, BackSeen DEF Look
    <2>6. Returned' = Returned
      <3>1. state[current] # "Terminated"
        BY <1>1, <2>3, PlacesDiffer DEF PlacesFit
      <3>2. QED
        BY <1>1, <2>1, <2>3, <3>1 DEF Returned, TypeOK
    <2>7. QED
      BY <1>2, <1>3, <2>2, <2>5, <2>6, SameOperators DEF Promise!CSuspend, Promise!Leaves
  <1>4. CASE current = Main
    <2>1. Promise!Refused /\ Lands
      BY <1>1, <1>4, Refusal DEF Suspend
    <2>2. QED
      BY <1>2, <1>4, <2>1 DEF Promise!CSuspend
  <1>5. QED
    BY <1>3, <1>4

LEMMA FinishSeen ==
    ASSUME NEW c, Ready(c), StaysSound, NEW v \in Values, Finish(v)
    PROVE  Promise!CFinish(v) /\ Lands
  <1>1. /\ At(User) /\ TypeOK /\ PlacesFit /\ Parked /\ resume[current] = User
        /\ current # Main /\ tries[current] = 0 /\ quiet[current] = 0
        /\ transfer' = [transfer EXCEPT ![current] = v]
        /\ state' = [state EXCEPT ![current] = "Terminated"]
        /\ Switch(record[<<current, 0>>].next, caller[current])
        /\ resume' = [resume EXCEPT ![current] = Gone] /\ outcome' = Nothing
        /\ pending' = pending /\ record' = record /\ status' = status /\ tries' = tries /\ quiet' = quiet
    BY DEF Finish, Ready, At, Sound, Control, Payloads, codeVars
  <1>2. Promise!Runs /\ Promise!Top = current /\ ~Escaping /\ current \in Contexts
    BY <1>1, ReadyCode
  <1>3. current \in Fibers
    BY <1>1, <1>2 DEF Contexts
  <1>4. pending'[current] = Nothing
    BY <1>1, <1>3, NoTransit DEF Parked
  <1>5. /\ ActiveNow' = Front(ActiveNow)
        /\ Phases' = [Phases EXCEPT ![current] = "done"]
        /\ Nested' = Nested /\ Flight' = <<"value", Null>> /\ Lands
    BY <1>1, <1>2, <1>3, <1>4, BackSeen DEF Look
  <1>6. Returned' = [Returned EXCEPT ![current] = v]
    BY <1>1, <1>3 DEF Returned, TypeOK
  <1>7. Nested[current] = << >>
    BY <1>1, <1>2, NestedIs
  <1>8. QED
    BY <1>1, <1>2, <1>5, <1>6, <1>7, SameOperators DEF Promise!CFinish, Promise!Leaves

LEMMA GetReturnSeen ==
    ASSUME NEW c, Ready(c), StaysSound, NEW f \in Fibers, GetReturn(f)
    PROVE  Promise!CGetReturn(f) /\ Lands
  <1>1. At(User) /\ state[f] # "absent" /\ Piled(c)
    BY DEF GetReturn, Exists, Ready
  <1>2. Promise!Runs /\ Phases[f] # "absent" /\ (Phases[f] = "done" <=> state[f] = "Terminated")
    BY <1>1, ReadyCode
  <1>3. CASE state[f] = "Terminated"
    <2>1. /\ outcome' = <<"value", transfer[f]>>
          /\ UNCHANGED <<current, record, exc, resume, status, tries, quiet, state, transfer, pending>>
      BY <1>3 DEF GetReturn, fiberVars, codeVars
    <2>2. UNCHANGED <<ActiveNow, Phases>>
      BY <2>1, SeenSame
    <2>3. Nested' = Nested /\ Returned' = Returned /\ Returned[f] = transfer[f]
      BY <1>3, <2>1 DEF Nested, Returned
    <2>4. resume'[current'] = User /\ Flight' = Nothing /\ Flight = Nothing
      BY <1>1, <2>1, FlyingNext, ReadyCode DEF At
    <2>5. Piled(c)'
      BY <1>1, <2>1, StackSame DEF Ready
    <2>6. Lands
      BY <2>4, <2>5, PlacesDiffer DEF Lands, Aside
    <2>7. QED
      BY <1>2, <1>3, <2>1, <2>2, <2>3, <2>4, <2>6 DEF Promise!CGetReturn
  <1>4. CASE state[f] # "Terminated"
    <2>1. Promise!Refused /\ Lands
      BY <1>1, <1>4, Refusal DEF GetReturn
    <2>2. QED
      BY <1>2, <1>4, <2>1 DEF Promise!CGetReturn
  <1>5. QED
    BY <1>3, <1>4

LEMMA FreeSeen ==
    ASSUME "freeactive" \notin Idioms, NEW c, Ready(c), StaysSound, NEW f \in Fibers, Free(f)
    PROVE  Promise!CFree(f) /\ Lands
  <1>1. /\ At(User) /\ state[f] # "absent" /\ state[f] # "Running"
        /\ state' = [state EXCEPT ![f] = "absent"]
        /\ transfer' = [transfer EXCEPT ![f] = Nothing] /\ resume' = [resume EXCEPT ![f] = Gone]
        /\ tries' = [tries EXCEPT ![f] = 0] /\ quiet' = [quiet EXCEPT ![f] = 0]
        /\ UNCHANGED <<current, record, outcome, status>>
        /\ status' = "running" /\ TypeOK /\ PlacesFit /\ TypeOK' /\ PlacesFit' /\ Piled(c)
    BY DEF Free, Exists, Ready, StaysSound, At, Sound, Control
  <1>2. resume[current] = User
    BY <1>1 DEF At
  <1>3. f # current /\ resume[f] \notin Tails
    BY <1>1, <1>2, PlacesDiffer DEF PlacesFit, TypeOK, Tails
  <1>4. resume'[current] = User
    BY <1>1, <1>2, <1>3 DEF TypeOK
  <1>5. Piled(c)'
    <2>1. \A x \in Contexts \ {current} :
            resume'[x] = resume[x] \/ (resume[x] \notin Tails /\ resume'[x] \notin Tails)
      BY <1>1, <1>3, PlacesDiffer DEF TypeOK, Tails
    <2>2. QED
      BY <1>1, <2>1, StackSame
  <1>6. ~Escaping'
    BY <1>1, <1>4, PlacesDiffer DEF Escaping
  <1>7. ActiveNow' = ActiveNow /\ Phases' = [Phases EXCEPT ![f] = "absent"]
    BY <1>1, <1>3, <1>5, <1>6, ReadyCode, SeenElsewhere DEF Look
  <1>8. Flight' = Nothing
    BY <1>1, <1>4, FlyingNext
  <1>9. Returned' = [Returned EXCEPT ![f] = Nothing]
    BY <1>1 DEF Returned, TypeOK
  <1>10. Nested' = [Nested EXCEPT ![f] = << >>]
    <2>1. ASSUME NEW x \in Contexts PROVE Nested'[x] = IF x = f THEN << >> ELSE Nested[x]
      <3>1. Nested'[x] = [n \in 1..tries'[x] |-> record[<<x, n>>].quiet]
        BY <1>1 DEF Nested
      <3>2. tries'[x] = IF x = f THEN 0 ELSE tries[x]
        BY <1>1 DEF TypeOK
      <3>3. x = f => Nested'[x] = << >>
        BY <1>1, <3>2, NestedIsNext
      <3>4. QED
        BY <3>1, <3>2, <3>3 DEF Nested
    <2>2. DOMAIN Nested' = Contexts /\ Nested' = [x \in Contexts |-> Nested'[x]]
      BY DEF Nested
    <2>3. DOMAIN Nested = Contexts /\ Nested = [x \in Contexts |-> Nested[x]]
      BY DEF Nested
    <2>4. QED
      BY <2>1, <2>2, <2>3
  <1>11. Lands
    BY <1>1, <1>4, <1>5, PlacesDiffer DEF Lands, Aside
  <1>12. Promise!Runs /\ Phases[f] \notin {"absent", "active"} /\ Flight = Nothing
    BY <1>1, ReadyCode
  <1>13. QED
    BY <1>1, <1>7, <1>8, <1>9, <1>10, <1>11, <1>12 DEF Promise!CFree

\* The program's own code goes on.
LEMMA CodeSeen ==
    ASSUME NEW c, Ready(c), At(User), UNCHANGED <<current, resume, status, fiberVars>>
    PROVE  /\ Promise!Runs /\ Promise!Top = current /\ current \in Contexts /\ TypeOK
           /\ UNCHANGED <<ActiveNow, Phases, Returned, Flight>>
           /\ Lands
  <1>1. /\ Promise!Runs /\ Promise!Top = current /\ current \in Contexts /\ TypeOK /\ Flight = Nothing
        /\ Piled(c) /\ resume'[current'] = User /\ status' = "running"
    BY ReadyCode DEF Ready, At
  <1>2. UNCHANGED <<current, resume, state, transfer>>
    BY DEF fiberVars
  <1>3. UNCHANGED <<ActiveNow, Phases>> /\ Returned' = Returned /\ Flight' = Nothing
    BY <1>1, <1>2, SeenSame, FlyingNext DEF Returned
  <1>4. Piled(c)'
    BY <1>1, <1>2, StackSame
  <1>5. Lands
    BY <1>1, <1>4, PlacesDiffer DEF Lands, Aside
  <1>6. QED
    BY <1>1, <1>3, <1>5

LEMMA PushTrySeen ==
    ASSUME NEW c, Ready(c), PushTry
    PROVE  Promise!COpenTry /\ Lands
  <1> DEFINE t == tries[current]
             h == <<current, t + 1>>
             s == Nested[current]
  <1>1. /\ At(User) /\ t < MaxTries
        /\ record' = [record EXCEPT ![h] = [next |-> top, diag |-> diag, quiet |-> quiet[current]]]
        /\ tries' = [tries EXCEPT ![current] = t + 1]
        /\ UNCHANGED <<current, resume, status, fiberVars>>
        /\ UNCHANGED <<quiet, outcome>>
    BY DEF PushTry
  <1>2. /\ Promise!Runs /\ Promise!Top = current /\ current \in Contexts /\ TypeOK
        /\ UNCHANGED <<ActiveNow, Phases, Returned, Flight>> /\ status' = status
        /\ Lands
    BY <1>1, CodeSeen
  <1>3. /\ t \in Nat /\ s \in Seq(Nat) /\ Len(s) = t
        /\ s = [n \in 1..t |-> record[<<current, n>>].quiet]
    BY <1>2, NestedIs
  <1>4. quiet[current] \in Nat
    BY <1>2 DEF TypeOK
  <1>5. h \in Handlers /\ \A x : \A n : <<x, n>> = h => x = current /\ n = t + 1
    BY <1>1, <1>2, <1>3, BoundsAssumption DEF Handlers
  <1>6. \A x \in Contexts : \A n \in 1..tries[x] :
          /\ <<x, n>> \in Handlers
          /\ <<x, n>> # h
    <2> SUFFICES ASSUME NEW x \in Contexts, NEW n \in 1..tries[x]
                 PROVE  <<x, n>> \in Handlers /\ <<x, n>> # h
      OBVIOUS
    <2>1. tries[x] \in Nat /\ <<x, n>> \in Handlers
      BY <1>2, LevelsNat
    <2>2. x = current => n # t + 1
      BY <1>3, <2>1
    <2>3. QED
      BY <1>5, <2>1, <2>2
  <1>7. record'[h].quiet = quiet[current] /\ \A x \in Contexts : \A n \in 1..tries[x] :
          record'[<<x, n>>] = record[<<x, n>>]
    <2>1. record \in [Handlers -> [next : Handlers \cup {NoHandler}, diag : Nat, quiet : Nat]]
      BY <1>2 DEF TypeOK
    <2> HIDE DEF h
    <2>2. QED
      BY <1>1, <1>5, <1>6, <2>1
  <1>8. Nested'[current] = Append(s, quiet[current])
    <2>1. Nested'[current] = [n \in 1..(t + 1) |-> record'[<<current, n>>].quiet]
      BY <1>1, <1>2 DEF Nested, TypeOK
    <2>2. /\ Append(s, quiet[current]) \in Seq(Nat) /\ Len(Append(s, quiet[current])) = t + 1
          /\ \A i \in 1..t : Append(s, quiet[current])[i] = s[i]
          /\ Append(s, quiet[current])[t + 1] = quiet[current]
      BY <1>3, <1>4, AppendProperties
    <2> DEFINE a == Append(s, quiet[current])
    <2>3. DOMAIN a = 1..(t + 1) /\ a = [n \in 1..(t + 1) |-> a[n]]
      BY <2>2, LenProperties
    <2>4. ASSUME NEW n \in 1..(t + 1) PROVE a[n] = record'[<<current, n>>].quiet
      <3>1. CASE n = t + 1
        BY <1>7, <2>2, <3>1
      <3>2. CASE n # t + 1
        <4>1. n \in 1..t
          BY <1>3, <3>2
        <4>2. QED
          BY <1>2, <1>3, <1>7, <2>2, <4>1
      <3>3. QED
        BY <3>1, <3>2
    <2> HIDE DEF a
    <2>5. QED
      BY <2>1, <2>3, <2>4 DEF a
  <1>9. \A x \in Contexts \ {current} : Nested'[x] = Nested[x]
    <2> SUFFICES ASSUME NEW x \in Contexts \ {current} PROVE Nested'[x] = Nested[x]
      OBVIOUS
    <2>1. tries'[x] = tries[x]
      BY <1>1, <1>2 DEF TypeOK
    <2>2. QED
      BY <1>7, <2>1 DEF Nested
  <1>10. Nested' = [Nested EXCEPT ![current] = Append(s, quiet[current])]
    <2>1. /\ DOMAIN Nested = Contexts /\ Nested = [x \in Contexts |-> Nested[x]]
          /\ DOMAIN Nested' = Contexts /\ Nested' = [x \in Contexts |-> Nested'[x]]
      BY DEF Nested
    <2> HIDE DEF s
    <2>2. QED
      BY <1>2, <1>8, <1>9, <2>1
  <1>11. Len(Nested[Promise!Top]) < MaxTries
    BY <1>1, <1>2, <1>3
  <1>12. Nested' = [Nested EXCEPT ![Promise!Top] = Append(Nested[Promise!Top], quiet[Promise!Top])]
    BY <1>2, <1>10
  <1>13. QED
    BY <1>1, <1>2, <1>11, <1>12 DEF Promise!COpenTry

LEMMA PopTrySeen ==
    ASSUME NEW c, Ready(c), PopTry
    PROVE  Promise!CCloseTry /\ Lands
  <1> DEFINE t == tries[current]
  <1>1. /\ At(User) /\ t > 0 /\ quiet[current] = record[<<current, t>>].quiet
        /\ tries' = [tries EXCEPT ![current] = t - 1]
        /\ UNCHANGED <<current, resume, status, fiberVars>>
        /\ UNCHANGED <<record, quiet, outcome>>
    BY DEF PopTry, Innermost
  <1>2. /\ Promise!Runs /\ Promise!Top = current /\ current \in Contexts /\ TypeOK
        /\ UNCHANGED <<ActiveNow, Phases, Returned, Flight>> /\ status' = status
        /\ Lands
    BY <1>1, CodeSeen
  <1>3. /\ Nested[current] # << >> /\ Last(Nested[current]) = quiet[current]
        /\ Front(Nested[current]) = [n \in 1..(t - 1) |-> record[<<current, n>>].quiet]
    <2>1. /\ t \in Nat /\ (Nested[current] = << >> <=> t = 0)
          /\ t > 0 => /\ Last(Nested[current]) = record[<<current, t>>].quiet
                      /\ Front(Nested[current]) = [n \in 1..(t - 1) |-> record[<<current, n>>].quiet]
      BY <1>2, NestedIs
    <2> HIDE DEF t
    <2>2. QED
      BY <1>1, <2>1
  <1>4. ASSUME NEW x \in Contexts
        PROVE  Nested'[x] = IF x = current THEN Front(Nested[current]) ELSE Nested[x]
    <2>1. Nested'[x] = [n \in 1..tries'[x] |-> record[<<x, n>>].quiet]
      BY <1>1 DEF Nested
    <2>2. tries'[x] = IF x = current THEN t - 1 ELSE tries[x]
      BY <1>1, <1>2 DEF TypeOK
    <2>3. CASE x = current
      BY <1>3, <2>1, <2>2, <2>3
    <2>4. CASE x # current
      BY <2>1, <2>2, <2>4 DEF Nested
    <2>5. QED
      BY <2>3, <2>4
  <1>5. Nested' = [Nested EXCEPT ![current] = Front(Nested[current])]
    <2>1. /\ DOMAIN Nested = Contexts /\ Nested = [x \in Contexts |-> Nested[x]]
          /\ DOMAIN Nested' = Contexts /\ Nested' = [x \in Contexts |-> Nested'[x]]
      BY DEF Nested
    <2>2. QED
      BY <1>4, <2>1
  <1>6. /\ Nested[Promise!Top] # << >> /\ quiet[Promise!Top] = Promise!Last(Nested[Promise!Top])
        /\ Nested' = [Nested EXCEPT ![Promise!Top] = Promise!Front(Nested[Promise!Top])]
    BY <1>2, <1>3, <1>5, SameOperators
  <1>7. QED
    BY <1>1, <1>2, <1>6 DEF Promise!CCloseTry

LEMMA EnterQuietSeen ==
    ASSUME NEW c, Ready(c), EnterQuiet
    PROVE  Promise!CQuiet("enter") /\ Lands
  <1>1. /\ At(User) /\ quiet[current] < MaxQuiet /\ quiet' = [quiet EXCEPT ![current] = quiet[current] + 1]
        /\ UNCHANGED <<current, resume, status, fiberVars>>
        /\ UNCHANGED <<record, tries, outcome>>
    BY DEF EnterQuiet
  <1>2. /\ Promise!Runs /\ Promise!Top = current
        /\ UNCHANGED <<ActiveNow, Phases, Returned, Flight>> /\ status' = status
        /\ Lands
    BY <1>1, CodeSeen
  <1>3. Nested' = Nested
    BY <1>1 DEF Nested
  <1>4. QED
    BY <1>1, <1>2, <1>3 DEF Promise!CQuiet

LEMMA LeaveQuietSeen ==
    ASSUME NEW c, Ready(c), LeaveQuiet
    PROVE  Promise!CQuiet("leave") /\ Lands
  <1>1. /\ At(User) /\ quiet[current] > 0 /\ quiet' = [quiet EXCEPT ![current] = quiet[current] - 1]
        /\ tries[current] > 0 => record[<<current, tries[current]>>].quiet < quiet[current]
        /\ UNCHANGED <<current, resume, status, fiberVars>>
        /\ UNCHANGED <<record, tries, outcome>>
    BY DEF LeaveQuiet, Innermost
  <1>2. /\ Promise!Runs /\ Promise!Top = current /\ current \in Contexts /\ TypeOK
        /\ UNCHANGED <<ActiveNow, Phases, Returned, Flight>> /\ status' = status
        /\ Lands
    BY <1>1, CodeSeen
  <1>3. Nested' = Nested
    BY <1>1 DEF Nested
  <1>4. Nested[current] # << >> => Last(Nested[current]) < quiet[current]
    <2>1. /\ tries[current] \in Nat /\ (Nested[current] = << >> <=> tries[current] = 0)
          /\ tries[current] > 0 => Last(Nested[current]) = record[<<current, tries[current]>>].quiet
      BY <1>2, NestedIs
    <2>2. QED
      BY <1>1, <2>1
  <1>5. Nested[Promise!Top] # << >> => Promise!Last(Nested[Promise!Top]) < quiet[Promise!Top]
    BY <1>2, <1>4, SameOperators
  <1>6. QED
    BY <1>1, <1>2, <1>3, <1>5 DEF Promise!CQuiet

\* A fiber begins: its coroutine receives that it was started.
LEMMA EntrySeen ==
    ASSUME NEW c, Ready(c), StaysSound, Entry
    PROVE  Promise!Receive /\ Lands
  <1>1. /\ resume[current] = <<"entry">> /\ status = "running" /\ status' = "running"
        /\ record' = [record EXCEPT ![<<current, 0>>] = [next |-> top, diag |-> diag, quiet |-> 0]]
        /\ state' = [state EXCEPT ![current] = "Running"]
        /\ resume' = [resume EXCEPT ![current] = User]
        /\ UNCHANGED <<current, transfer, outcome, tries, quiet>>
        /\ TypeOK /\ TypeOK' /\ PlacesFit /\ PlacesFit' /\ Piled(c) /\ Aside
    BY DEF Entry, At, codeVars, Ready, StaysSound, Sound, Control
  <1>2. current \in Contexts /\ resume'[current'] = User /\ outcome = Nothing
    BY <1>1, PlacesDiffer DEF TypeOK, Aside
  <1>3. ~Escaping /\ ~Escaping'
    BY <1>1, <1>2, PlacesDiffer DEF Escaping
  <1>4. \A x \in Contexts \ {current} : resume'[x] = resume[x]
    BY <1>1 DEF TypeOK
  <1>5. Piled(c)'
    BY <1>1, <1>4, StackSame
  <1>6. \A f \in Fibers \ {current} : state'[f] = state[f]
    BY <1>1 DEF TypeOK
  <1>7. ActiveNow' = ActiveNow /\ Phases' = Phases
    BY <1>1, <1>3, <1>5, <1>6, SeenStay
  <1>8. Flight = <<"begin">> /\ Flight' = Nothing
    BY <1>1, <1>2, Flying, FlyingNext
  <1>9. Flight # Nothing /\ Flight[1] # "thrown" /\ Flight[1] # "value"
    BY <1>8, ReceivedAssumption
  <1>10. Nested' = Nested
    <2>1. ASSUME NEW x \in Contexts, NEW n \in 1..tries[x] PROVE record'[<<x, n>>] = record[<<x, n>>]
      <3>1. tries[x] \in Nat /\ <<x, n>> \in Handlers /\ n # 0
        BY <1>1, LevelsNat
      <3>2. <<x, n>> # <<current, 0>>
        BY <3>1
      <3>3. QED
        BY <1>1, <3>1, <3>2 DEF TypeOK
    <2>2. \A x \in Contexts : [n \in 1..tries[x] |-> record'[<<x, n>>].quiet]
                            = [n \in 1..tries[x] |-> record[<<x, n>>].quiet]
      BY <2>1
    <2>3. QED
      BY <1>1, <2>2 DEF Nested
  <1>11. Returned' = Returned
    <2>1. current \in Fibers => state[current] = "NotStarted"
      BY <1>1 DEF PlacesFit
    <2>2. QED
      BY <1>1, <2>1 DEF Returned, TypeOK
  <1>12. Lands
    BY <1>2, <1>5, PlacesDiffer DEF Lands, Aside
  <1>13. QED
    BY <1>1, <1>2, <1>7, <1>8, <1>9, <1>10, <1>11, <1>12 DEF Promise!Receive

\* The end of a fiber by an exception was seen when it was thrown.
LEMMA EscapeSeen ==
    ASSUME NEW c, Ready(c), StaysSound, Escape
    PROVE  UNCHANGED Promise!cvars /\ Lands
  <1>1. /\ resume[current] = <<"escape">> /\ status = "running" /\ status' = status
        /\ pending' = [pending EXCEPT ![current] = exc] /\ transfer' = [transfer EXCEPT ![current] = Nothing]
        /\ state' = [state EXCEPT ![current] = "Terminated"]
        /\ Switch(record[<<current, 0>>].next, caller[current])
        /\ resume' = [resume EXCEPT ![current] = Gone]
        /\ UNCHANGED <<record, outcome, tries, quiet>>
        /\ TypeOK /\ PlacesFit /\ Aside
    BY DEF Escape, At, codeVars, Ready, Sound, Control
  <1>2. current \in Fibers /\ Escaping /\ outcome = Nothing /\ exc \in Thrown
    <2>1. current # Main
      BY <1>1, PlacesDiffer DEF PlacesFit, Tails
    <2>2. current \in Fibers
      BY <1>1, <2>1 DEF TypeOK, Contexts
    <2>3. Escaping /\ outcome = Nothing /\ exc \in Thrown
      BY <1>1, PlacesDiffer DEF Escaping, Aside
    <2>4. QED
      BY <2>2, <2>3
  <1>3. exc # Nothing
    BY <1>2, SlotsAssumption DEF Thrown
  <1>4. pending'[current] = exc
    BY <1>1, <1>2 DEF TypeOK
  <1>5. /\ ActiveNow' = ActiveNow /\ Phases' = [Phases EXCEPT ![current] = "done"]
        /\ Phases[current] = "done" /\ Nested' = Nested /\ Flight' = <<"thrown", exc>> /\ Lands
    BY <1>1, <1>2, <1>3, <1>4, BackSeen DEF Look
  <1>6. Phases' = Phases
    BY <1>5 DEF Phases
  <1>7. Flight = <<"thrown", exc>>
    BY <1>1, Flying
  <1>8. Returned' = Returned
    <2>1. state[current] # "Terminated"
      BY <1>1, <1>2, PlacesDiffer DEF PlacesFit
    <2>2. QED
      BY <1>1, <1>2, <2>1 DEF Returned, TypeOK
  <1>9. QED
    BY <1>1, <1>5, <1>6, <1>7, <1>8 DEF Promise!cvars


\* What a fiber hands back reaches the context that resumed it.
LEMMA HandedBackSeen ==
    ASSUME NEW c, Ready(c), StaysSound, NEW f \in Fibers, HandedBack(f)
    PROVE  Promise!Receive /\ Lands
  <1>1. /\ resume[current] = <<"tail", f>> /\ status = "running" /\ state' = state
        /\ TypeOK /\ TypeOK' /\ Sound /\ Piled(c)
        /\ state[f] \in {"Suspended", "Terminated"}
    BY DEF HandedBack, At, Ready, StaysSound, Sound, Control, Handing
  <1>2. /\ f # current /\ current \in Contexts /\ Started(current) /\ ~Escaping
        /\ transfer[f] \in Values \cup {Nothing} /\ pending[f] \in Thrown \cup {Nothing}
    BY <1>1, PlacesDiffer DEF Sound, Control, PlacesFit, TypeOK, Started, Escaping, Thrown
  <1>3. Flight = IF pending[f] # Nothing THEN <<"thrown", pending[f]>>
                 ELSE <<"value", IF state[f] = "Terminated" THEN Null ELSE transfer[f]>>
    BY <1>1, <1>2, Flying DEF Payload
  <1>4. CASE state[f] = "Terminated" /\ pending[f] # Nothing
    <2>1. Raise(pending[f], top) /\ transfer' = transfer
      BY <1>4 DEF HandedBack
    <2>2. PICK e \in Thrown : e = pending[f]
      BY <1>2, <1>4
    <2>3. Returned' = Returned
      BY <1>1, <2>1 DEF Returned
    <2>4. Promise!RaiseHere(e) /\ Lands
      BY <1>1, <1>2, <2>1, <2>2, <2>3, SeenRaise DEF StaysSound, Lands
    <2>5. Flight[1] = "thrown" /\ Flight[2] = e /\ Flight # Nothing
      BY <1>3, <1>4, <2>2, ReceivedAssumption DEF Thrown
    <2>6. QED
      BY <1>1, <2>4, <2>5 DEF Promise!Receive
  <1>5. CASE ~(state[f] = "Terminated" /\ pending[f] # Nothing)
    <2>1. pending[f] = Nothing
      BY <1>1, <1>5 DEF Sound, Payloads, OnePayload
    <2> DEFINE v == IF state[f] = "Terminated" THEN Null ELSE transfer[f]
    <2>2. Return(v)
      BY <1>5 DEF HandedBack
    <2>3. Flight = <<"value", v>> /\ v \in Values \cup {Null, Nothing}
      BY <1>2, <1>3, <2>1
    <2>4. Flight # Nothing
      BY <2>3, ReceivedAssumption
    <2>5. Returned' = Returned
      <3>1. state[f] = "Terminated" => transfer' = transfer
        BY <1>5 DEF HandedBack
      <3>2. state[f] # "Terminated" => transfer' = [transfer EXCEPT ![f] = Nothing]
        BY <1>5 DEF HandedBack
      <3>3. QED
        BY <1>1, <3>1, <3>2 DEF Returned, TypeOK
    <2> HIDE DEF v
    <2>6. QED
      BY <1>1, <1>2, <2>2, <2>3, <2>4, <2>5, ReturnSeen
  <1>6. QED
    BY <1>4, <1>5

\* What a fiber is resumed with reaches it.
LEMMA WakeSeen ==
    ASSUME NEW c, Ready(c), StaysSound, Wake
    PROVE  Promise!Receive /\ Lands
  <1>1. /\ resume[current] = <<"wake">> /\ status = "running"
        /\ state' = [state EXCEPT ![current] = "Running"]
        /\ TypeOK /\ TypeOK' /\ Sound /\ Piled(c)
    BY DEF Wake, At, Ready, StaysSound
  <1>2. current \in Contexts /\ current \in Fibers
    BY <1>1, PlacesDiffer DEF Sound, Control, PlacesFit, TypeOK, Contexts, Tails
  <1>3. /\ state[current] = "Suspended" /\ Started(current) /\ ~Escaping
        /\ transfer[current] \in Values \cup {Nothing} /\ pending[current] \in Thrown \cup {Nothing}
    BY <1>1, <1>2, PlacesDiffer DEF Sound, Control, PlacesFit, TypeOK, Started, Escaping, Thrown
  <1>4. Flight = IF pending[current] # Nothing THEN <<"thrown", pending[current]>>
                 ELSE <<"value", transfer[current]>>
    BY <1>1, Flying DEF Payload
  <1>5. \A f \in Fibers \ {current} : transfer'[f] = transfer[f]
    BY <1>1 DEF Wake, TypeOK
  <1>6. Returned' = Returned
    <2>1. ASSUME NEW f \in Fibers
          PROVE  (IF state'[f] = "Terminated" THEN transfer'[f] ELSE Nothing)
               = (IF state[f] = "Terminated" THEN transfer[f] ELSE Nothing)
      BY <1>1, <1>3, <1>5 DEF TypeOK
    <2>2. QED
      BY <2>1 DEF Returned
  <1>7. CASE pending[current] # Nothing
    <2>1. Raise(pending[current], top)
      BY <1>7 DEF Wake
    <2>2. PICK e \in Thrown : e = pending[current]
      BY <1>3, <1>7
    <2>3. Promise!RaiseHere(e) /\ Lands
      BY <1>1, <1>2, <1>3, <1>6, <2>1, <2>2, SeenRaise DEF StaysSound, Lands
    <2>4. Flight[1] = "thrown" /\ Flight[2] = e /\ Flight # Nothing
      BY <1>4, <1>7, <2>2, ReceivedAssumption DEF Thrown
    <2>5. QED
      BY <1>1, <2>3, <2>4 DEF Promise!Receive
  <1>8. CASE pending[current] = Nothing
    <2>1. PICK v \in Values \cup {Nothing} : v = transfer[current]
      BY <1>3
    <2>2. Return(v)
      BY <1>8, <2>1 DEF Wake
    <2>3. Flight = <<"value", v>> /\ Flight # Nothing
      BY <1>4, <1>8, <2>1, ReceivedAssumption
    <2>4. QED
      BY <1>1, <1>2, <1>3, <1>6, <2>2, <2>3, ReturnSeen
  <1>9. QED
    BY <1>7, <1>8

\* Every step of a running program is one of the coroutines, or the unseen
\* end of a fiber that an exception has left.
LEMMA CoStep ==
    ASSUME "freeactive" \notin Idioms, NEW c, Ready(c), StaysSound, Next
    PROVE  (Promise!CNext \/ UNCHANGED Promise!cvars) /\ Lands
  <1>1. ASSUME NEW f \in Fibers,
               \/ Construct(f) \/ Start(f) \/ GetReturn(f) \/ Free(f) \/ HandedBack(f)
               \/ \E v \in Values : Resume(f, v)
               \/ \E e \in Throwables : ThrowInto(f, e)
        PROVE  Promise!CNext /\ Lands
    <2>1. CASE Construct(f)
      BY <2>1, ConstructSeen DEF Promise!CNext
    <2>2. CASE Start(f)
      BY <2>2, StartSeen DEF Promise!CNext
    <2>3. CASE GetReturn(f)
      BY <2>3, GetReturnSeen DEF Promise!CNext
    <2>4. CASE Free(f)
      BY <2>4, FreeSeen DEF Promise!CNext
    <2>5. CASE HandedBack(f)
      BY <2>5, HandedBackSeen DEF Promise!CNext
    <2>6. CASE \E v \in Values : Resume(f, v)
      BY <2>6, ResumeSeen DEF Promise!CNext
    <2>7. CASE \E e \in Throwables : ThrowInto(f, e)
      BY <2>7, ThrowIntoSeen DEF Promise!CNext
    <2>8. QED
      BY <1>1, <2>1, <2>2, <2>3, <2>4, <2>5, <2>6, <2>7
  <1>2. ASSUME NEW v \in Values, Suspend(v) \/ Finish(v)
        PROVE  Promise!CNext /\ Lands
    BY <1>2, SuspendSeen, FinishSeen DEF Promise!CNext
  <1>3. ASSUME ConstructFails \/ \E e \in Throwables : Throw(e)
        PROVE  Promise!CNext /\ Lands
    <2>1. PICK e \in Thrown : At(User) /\ Raise(e, top) /\ UNCHANGED fiberVars
      BY <1>3 DEF ConstructFails, StateError, Throw, Thrown
    <2>2. Promise!Runs /\ Promise!RaiseHere(e) /\ Lands
      BY <2>1, CodeThrows, ReadyCode
    <2>3. QED
      BY <2>2 DEF Promise!CNext, Thrown
  <1>4. ASSUME PushTry \/ PopTry \/ EnterQuiet \/ LeaveQuiet
        PROVE  Promise!CNext /\ Lands
    BY <1>4, PushTrySeen, PopTrySeen, EnterQuietSeen, LeaveQuietSeen DEF Promise!CNext
  <1>5. ASSUME Entry \/ Wake
        PROVE  Promise!CNext /\ Lands
    BY <1>5, EntrySeen, WakeSeen DEF Promise!CNext
  <1>6. ASSUME Escape
        PROVE  UNCHANGED Promise!cvars /\ Lands
    BY <1>6, EscapeSeen
  <1>7. ~Stopped
    BY DEF Stopped, Ready
  <1> HIDE DEF Ready
  <1>8. QED
    BY <1>1, <1>2, <1>3, <1>4, <1>5, <1>6, <1>7 DEF Next

-----------------------------------------------------------------------------
\* One context is stacked at first, the main program.
LEMMA CoInit == Init => CoInv /\ Promise!CInit
  <1> SUFFICES ASSUME Init PROVE CoInv /\ Promise!CInit
    OBVIOUS
  <1>1. IInv
    BY InitInv
  <1>2. /\ current = Main /\ resume[current] = User /\ outcome = Nothing /\ status = "running"
        /\ Main \in Contexts /\ TypeOK /\ PlacesFit
        /\ resume = [x \in Contexts |-> IF x = Main THEN User ELSE Gone]
        /\ tries = [x \in Contexts |-> 0] /\ quiet = [x \in Contexts |-> 0]
        /\ state = [f \in Fibers |-> "absent"]
    BY <1>1 DEF Init, Contexts, IInv, Sound, Control
  <1>3. Stacked = {Main}
    <2>1. ASSUME NEW f \in Fibers PROVE f \notin Active
      <3>1. f # current /\ resume[f] = Gone
        BY <1>2, ContextsAssumption DEF Contexts
      <3>2. QED
        BY <3>1, PlacesDiffer DEF Active
    <2>2. Active = {}
      BY <2>1 DEF Active
    <2>3. QED
      BY <2>2 DEF Stacked
  <1>4. Piled(<<Main>>)
    <2>1. <<Main>> \in Seq({Main}) /\ Len(<<Main>>) = 1 /\ <<Main>>[1] = Main
      OBVIOUS
    <2>2. QED
      BY <1>2, <1>3, <2>1 DEF Piled, Lists
  <1>5. Aside /\ ~Escaping /\ Flight = Nothing
    BY <1>2, Flying, PlacesDiffer DEF Aside, Escaping
  <1>6. ActiveNow = <<Main>> /\ Phases = [f \in Fibers |-> PhaseOf(f)]
    BY <1>2, <1>4, <1>5, Seen
  <1>7. Phases = [f \in Fibers |-> "absent"]
    BY <1>2, <1>5, <1>6, ContextsAssumption DEF PhaseOf, Look
  <1>8. Nested = [x \in Contexts |-> << >>]
    <2>1. \A x \in Contexts : Nested[x] = << >>
      BY <1>2, NestedIs
    <2>2. Nested = [x \in Contexts |-> Nested[x]]
      BY DEF Nested
    <2>3. QED
      BY <2>1, <2>2
  <1>9. Returned = [f \in Fibers |-> Nothing]
    BY <1>2 DEF Returned
  <1>10. Promise!CInit
    BY <1>2, <1>5, <1>6, <1>7, <1>8, <1>9 DEF Promise!CInit, Contexts
  <1>11. QED
    BY <1>1, <1>4, <1>5, <1>10 DEF CoInv

LEMMA CoInvStep ==
    ASSUME "freeactive" \notin Idioms, CoInv, [Next]_vars
    PROVE  CoInv' /\ [Promise!CNext]_(Promise!cvars)
  <1>1. IInv /\ IInv'
    BY InvStep DEF CoInv
  <1>2. ASSUME UNCHANGED vars PROVE CoInv' /\ UNCHANGED Promise!cvars
    <2>1. /\ UNCHANGED <<current, resume, state, record, tries, quiet, outcome, status>>
          /\ UNCHANGED <<transfer, pending, exc>>
      BY <1>2 DEF vars
    <2>2. UNCHANGED <<ActiveNow, Phases>>
      BY <2>1, SeenSame
    <2>3. Nested' = Nested /\ Returned' = Returned
      BY <2>1 DEF Nested, Returned
    <2>4. Flight' = Flight
      BY <2>1 DEF Flight, Escaping, Payload
    <2>5. CoInv'
      <3>1. Aside => Aside'
        BY <2>1 DEF Aside
      <3>2. \A c : Piled(c) => Piled(c)'
        BY <2>1 DEF Piled, Lists, Stacked, Active
      <3>3. QED
        BY <1>1, <2>1, <3>1, <3>2 DEF CoInv
    <2>6. QED
      BY <2>1, <2>2, <2>3, <2>4, <2>5 DEF Promise!cvars
  <1>3. CASE Next /\ status # "running"
    <2>1. UNCHANGED vars
      BY <1>3 DEF Next, Stopped, At, Construct, Start, Resume, ThrowInto, Suspend, GetReturn, Free,
                  PushTry, PopTry, Throw, ConstructFails, EnterQuiet, LeaveQuiet, Entry, Finish,
                  Escape, HandedBack, Wake
    <2>2. QED
      BY <1>2, <2>1
  <1>4. CASE Next /\ status = "running"
    <2>1. PICK c : Ready(c)
      BY <1>1, <1>4 DEF CoInv, Ready, IInv
    <2>2. StaysSound
      BY <1>1 DEF StaysSound, IInv
    <2>3. (Promise!CNext \/ UNCHANGED Promise!cvars) /\ Lands
      BY <1>4, <2>1, <2>2, CoStep
    <2>4. CoInv'
      BY <1>1, <2>3 DEF CoInv, Lands
    <2>5. QED
      BY <2>3, <2>4
  <1>5. QED
    BY <1>2, <1>3, <1>4

\* What docs/php/fibers.md promises of start, resume, throw, suspend and
\* getReturn: fibers are coroutines, each of which runs when it is resumed
\* until it suspends or ends, and receives what it is resumed with.
THEOREM CoroutinesImplemented ==
    ASSUME "freeactive" \notin Idioms
    PROVE  Spec => CoroutineSpec
  <1>1. Init => CoInv /\ Promise!CInit
    BY CoInit
  <1>2. CoInv /\ [Next]_vars => CoInv' /\ [Promise!CNext]_(Promise!cvars)
    BY CoInvStep
  <1>3. QED
    BY <1>1, <1>2, PTL DEF Spec, CoroutineSpec, Promise!CSpec
=============================================================================
