----------------------------- MODULE MCExceptions -----------------------------
(***************************************************************************)
(* The programs the runs of Exceptions start from.                        *)
(***************************************************************************)
EXTENDS Exceptions

\* A and B are exception classes; neither extends the other.
Jumps == {Statement("return"), Statement("break"), Statement("continue")}

\* The statements a protected body is made of, inside a loop.
Simple == {Mark("t"), Throw("A"), CallHelper, CallQuietly} \cup Jumps
       \cup {If(1, <<s>>) : s \in {Throw("A"), Statement("break"), Statement("continue")}}

Bodies == {<<s>> : s \in Simple} \cup {<<s, t>> : s \in Simple, t \in Simple}

CatchA(body) == <<Catch({"A"}, body)>>
Clauses == {<< >>, CatchA(<<Mark("c")>>), CatchA(<<Throw("B")>>),
            <<Catch({"B"}, <<Mark("d")>>), Catch({"A"}, <<Mark("c"), Statement("continue")>>)>>}
Finals == {<< >>, <<Mark("f")>>, <<Throw("B")>>, <<Statement("return")>>}

Single == {t \in {Try(b, c, f) : b \in Bodies, c \in Clauses, f \in Finals} :
             t.catches # << >> \/ t.finally # << >>}

Inner == {t \in {Try(b, c, f) : b \in {<<s>> : s \in Simple}, c \in Clauses, f \in Finals} :
            t.catches # << >> \/ t.finally # << >>}
Outer == {<<CatchA(<<Mark("o")>>), << >> >>, << << >>, <<Mark("g")>> >>,
          <<<<Catch({"A", "B"}, <<Mark("o")>>)>>, <<Mark("g")>> >>}
Nested == {Try(<<t, Mark("n")>>, o[1], o[2]) : t \in Inner, o \in Outer}

Helpers == {<<Mark("h")>>, <<Mark("h"), Throw("A")>>,
            <<Try(<<Throw("B")>>, CatchA(<< >>), <<Mark("h")>>)>>,
            <<Try(<<Throw("A")>>, CatchA(<<Statement("return")>>), <<Mark("h")>>), Mark("t")>>}

\* The try statement in a loop, then a normal exit or an exception that
\* nothing catches.
Endings == {Mark("a"), Throw("B")}
ProgramsWith(tries) ==
  {[main |-> <<Loop(<<t, Mark("l")>>), e>>, helper |-> h] : t \in tries, e \in Endings, h \in Helpers}

-----------------------------------------------------------------------------
RECURSIVE Number(_, _)

\* How many statements of the kinds a body holds, nested ones included.
Number(body, kinds) ==
  IF body = << >> THEN 0
  ELSE LET s == Head(body) IN
       (IF s.k \in kinds THEN 1 ELSE 0) + Number(Tail(body), kinds)
       + CASE s.k \in {"if", "loop"} -> Number(s.body, kinds)
           [] s.k = "try" -> Number(s.body, kinds) + Number(s.finally, kinds)
                             + Number([c \in DOMAIN s.catches |-> Try(s.catches[c].body, << >>, << >>)],
                                      kinds \ {"try"})
           [] OTHER -> 0

Jump == {"return", "break", "continue"}

\* A body whose only way out, besides its end, is one jump or one throw of
\* its own: the lowering inlines the finally clause there and at the end.
OneExit(body) ==
  /\ Number(body, {"call", "try", "loop"}) = 0
  /\ Number(body, Jump \cup {"throw"}) <= 1

\* The try statements whose lowering the runs below rely on: no jump leaves a
\* body whose handler nothing pops, and every finally clause is reached by
\* the exits the lowering inlines it at.
Routed(s) ==
  /\ s.finally = << >> => Number(s.body, Jump) = 0
  /\ s.finally # << >> =>
       IF s.catches = << >> THEN OneExit(s.body)
       ELSE /\ Number(s.body, Jump) <= 1 /\ Number(s.body, {"loop"}) = 0
            /\ \A j \in DOMAIN s.catches : OneExit(s.catches[j].body)
            /\ \A j \in DOMAIN s.body : s.body[j].k = "try" => Number(s.body[j].finally, Jump) = 0

RoutedTries ==
  {t \in Single : Routed(t)} \cup {t \in Nested : Routed(t) /\ Routed(t.body[1])}

RoutedPrograms == ProgramsWith(RoutedTries)

-----------------------------------------------------------------------------
\* A loop body that continues from inside try and catch.
JumpPrograms == ProgramsWith({Try(<<If(1, <<Statement("continue")>>), CallHelper>>,
                                  CatchA(<<Mark("c")>>), << >>)})

\* A callee that throws into a body protected by finally alone.
CalleePrograms == ProgramsWith({Try(<<CallHelper>>, << >>, <<Mark("f")>>)})
=============================================================================
