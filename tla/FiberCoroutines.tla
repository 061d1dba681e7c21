---------------------------- MODULE FiberCoroutines ----------------------------
(***************************************************************************)
(* The coroutines of module Coroutines, as the fiber runtime represents   *)
(* them: which contexts are stacked on one another, what each fiber looks *)
(* like to the program, and what the running one is about to receive.     *)
(***************************************************************************)
EXTENDS Fibers, Sequences, SequencesExt, FiniteSets

\* What a coroutine receives is not the absence of it.
ASSUME ReceivedAssumption ==
  Nothing \notin {<<"begin">>} \cup {<<"value", v>> : v \in Values \cup {Null, Nothing}}
                              \cup {<<"thrown", e>> : e \in Throwables \cup {FiberError}}

\* The contexts that control is in or will come back to.
Stacked == Active \cup {Main}

\* Stacked, from the main program to the context that runs, each waiting for
\* the next.
Resumed ==
  CHOOSE c \in [1..Cardinality(Stacked) -> Stacked] :
    /\ c[1] = Main
    /\ \A i \in 2..Cardinality(Stacked) : resume[c[i - 1]] = <<"tail", c[i]>>

Escaping == resume[current] = <<"escape">>

\* An exception that reached the bottom of a fiber has ended it.
ActiveNow == IF Escaping THEN Front(Resumed) ELSE Resumed

Phase(f) ==
  IF f \in Range(ActiveNow) THEN "active"
  ELSE IF f = current THEN "done"
  ELSE CASE state[f] = "NotStarted" -> "fresh"
         [] state[f] = "Suspended"  -> "suspended"
         [] state[f] = "Terminated" -> "done"
         [] OTHER                   -> "absent"

Phases == [f \in Fibers |-> Phase(f)]

Payload(f) ==
  IF pending[f] # Nothing THEN <<"thrown", pending[f]>>
  ELSE <<"value", IF f # current /\ state[f] = "Terminated" THEN Null ELSE transfer[f]>>

Flight ==
  IF status # "running" \/ resume[current] = User THEN Nothing
  ELSE CASE resume[current] = <<"entry">> -> <<"begin">>
         [] Escaping                      -> <<"thrown", exc>>
         [] resume[current] = <<"wake">>  -> Payload(current)
         [] OTHER                         -> Payload(resume[current][2])

\* The depth of @ that each open try statement of a context goes back to.
Nested == [c \in Contexts |-> [n \in 1..tries[c] |-> record[<<c, n>>].quiet]]

Returned == [f \in Fibers |-> IF state[f] = "Terminated" THEN transfer[f] ELSE Nothing]

Promise == INSTANCE Coroutines WITH
  active <- ActiveNow,
  phase <- Phases,
  flight <- Flight,
  handlers <- Nested,
  scopes <- quiet,
  returned <- Returned,
  outcome <- outcome,
  status <- status

\* Fibers behave as coroutines: what start, resume, throw, suspend and
\* getReturn give the program is what Coroutines says.
CoroutineSpec == Promise!CSpec
=============================================================================
