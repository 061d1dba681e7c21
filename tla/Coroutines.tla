------------------------------ MODULE Coroutines ------------------------------
(***************************************************************************)
(* What docs/php/fibers.md promises: coroutines that resume one another.  *)
(* active is the stack of the coroutines that have been resumed and have  *)
(* not handed control back, the main program at the bottom and the one    *)
(* that runs on top.  Each coroutine has its own open try statements and  *)
(* its own open @ operators.                                              *)
(*                                                                         *)
(* flight is what the coroutine on top is about to receive, a value or an *)
(* exception: nothing is lost, kept for later or received twice.          *)
(***************************************************************************)
EXTENDS Naturals, Sequences, SequencesExt

CONSTANTS Fibers, Main, Values, Null, Throwables, FiberError, Nothing, MaxTries, MaxQuiet

VARIABLES active, phase, flight, handlers, scopes, returned, outcome, status

cvars == <<active, phase, flight, handlers, scopes, returned, outcome, status>>

Top == Last(active)
Runs == status = "running" /\ flight = Nothing

CInit ==
  /\ active = <<Main>>
  /\ phase = [f \in Fibers |-> "absent"]
  /\ flight = Nothing
  /\ handlers = [c \in Fibers \cup {Main} |-> << >>]
  /\ scopes = [c \in Fibers \cup {Main} |-> 0]
  /\ returned = [f \in Fibers |-> Nothing]
  /\ outcome = Nothing
  /\ status = "running"

\* An exception in the coroutine on top: its innermost try statement catches
\* it, or the coroutine ends and its resumer is about to receive it, or the
\* program ends.
RaiseHere(e) ==
  IF handlers[Top] # << >>
  THEN /\ handlers' = [handlers EXCEPT ![Top] = Front(@)]
       /\ scopes' = [scopes EXCEPT ![Top] = Last(handlers[Top])]
       /\ outcome' = <<"thrown", e>>
       /\ flight' = Nothing
       /\ UNCHANGED <<active, phase, returned, status>>
  ELSE IF Top = Main
  THEN /\ status' = "uncaught"
       /\ flight' = Nothing
       /\ UNCHANGED <<active, phase, handlers, scopes, returned, outcome>>
  ELSE /\ active' = Front(active)
       /\ phase' = [phase EXCEPT ![Top] = "done"]
       /\ scopes' = [scopes EXCEPT ![Top] = 0]
       /\ flight' = <<"thrown", e>>
       /\ outcome' = Nothing
       /\ UNCHANGED <<handlers, returned, status>>

Refused == RaiseHere(FiberError)

\* f is resumed and receives what.
Enters(f, what) ==
  /\ active' = Append(active, f)
  /\ phase' = [phase EXCEPT ![f] = "active"]
  /\ flight' = what
  /\ outcome' = Nothing
  /\ UNCHANGED <<handlers, scopes, returned, status>>

\* The coroutine on top hands control back, and its resumer receives what.
Leaves(to, what) ==
  /\ active' = Front(active)
  /\ phase' = [phase EXCEPT ![Top] = to]
  /\ flight' = what
  /\ outcome' = Nothing
  /\ UNCHANGED <<handlers, scopes, status>>

CConstruct(f) ==
  /\ Runs /\ phase[f] = "absent"
  /\ phase' = [phase EXCEPT ![f] = "fresh"]
  /\ UNCHANGED <<active, flight, handlers, scopes, returned, outcome, status>>

CStart(f) ==
  Runs /\ phase[f] # "absent" /\ IF phase[f] = "fresh" THEN Enters(f, <<"begin">>) ELSE Refused

CResume(f, what) ==
  Runs /\ phase[f] # "absent" /\ IF phase[f] = "suspended" THEN Enters(f, what) ELSE Refused

CSuspend(v) ==
  Runs /\ IF Top # Main
          THEN Leaves("suspended", <<"value", v>>) /\ UNCHANGED returned
          ELSE Refused

CFinish(v) ==
  /\ Runs /\ Top # Main /\ handlers[Top] = << >> /\ scopes[Top] = 0
  /\ Leaves("done", <<"value", Null>>)
  /\ returned' = [returned EXCEPT ![Top] = v]

CGetReturn(f) ==
  /\ Runs /\ phase[f] # "absent"
  /\ IF phase[f] = "done"
     THEN outcome' = <<"value", returned[f]>>
          /\ UNCHANGED <<active, phase, flight, handlers, scopes, returned, status>>
     ELSE Refused

CFree(f) ==
  /\ Runs /\ phase[f] \notin {"absent", "active"}
  /\ phase' = [phase EXCEPT ![f] = "absent"]
  /\ handlers' = [handlers EXCEPT ![f] = << >>]
  /\ scopes' = [scopes EXCEPT ![f] = 0]
  /\ returned' = [returned EXCEPT ![f] = Nothing]
  /\ UNCHANGED <<active, flight, outcome, status>>

\* The coroutine on top receives what is in flight.
Receive ==
  /\ status = "running" /\ flight # Nothing
  /\ CASE flight[1] = "thrown" -> RaiseHere(flight[2])
       [] OTHER -> /\ outcome' = IF flight[1] = "value" THEN flight ELSE Nothing
                   /\ flight' = Nothing
                   /\ UNCHANGED <<active, phase, handlers, scopes, returned, status>>

COpenTry ==
  /\ Runs /\ Len(handlers[Top]) < MaxTries
  /\ handlers' = [handlers EXCEPT ![Top] = Append(@, scopes[Top])]
  /\ UNCHANGED <<active, phase, flight, scopes, returned, outcome, status>>

CCloseTry ==
  /\ Runs /\ handlers[Top] # << >> /\ scopes[Top] = Last(handlers[Top])
  /\ handlers' = [handlers EXCEPT ![Top] = Front(@)]
  /\ UNCHANGED <<active, phase, flight, scopes, returned, outcome, status>>

CQuiet(change) ==
  /\ Runs
  /\ change = "enter" => scopes[Top] < MaxQuiet
  /\ change = "leave" => scopes[Top] > 0 /\ (handlers[Top] # << >> => Last(handlers[Top]) < scopes[Top])
  /\ scopes' = [scopes EXCEPT ![Top] = IF change = "enter" THEN @ + 1 ELSE @ - 1]
  /\ UNCHANGED <<active, phase, flight, handlers, returned, outcome, status>>

CNext ==
  \/ \E f \in Fibers :
       \/ CConstruct(f) \/ CStart(f) \/ CGetReturn(f) \/ CFree(f)
       \/ \E v \in Values : CResume(f, <<"value", v>>)
       \/ \E e \in Throwables : CResume(f, <<"thrown", e>>)
  \/ \E v \in Values : CSuspend(v) \/ CFinish(v)
  \/ \E e \in Throwables \cup {FiberError} : Runs /\ RaiseHere(e)
  \/ Receive \/ COpenTry \/ CCloseTry \/ CQuiet("enter") \/ CQuiet("leave")

CSpec == CInit /\ [][CNext]_cvars
=============================================================================
