------------------------------ MODULE MCConstProp ------------------------------
(***************************************************************************)
(* The scripts the runs of ConstProp compile: a statement with bodies, in  *)
(* it another one, between an assignment and an echo of the same variable. *)
(***************************************************************************)
EXTENDS ConstProp

X == Var("x")
P == Var("p")
One == Assign("x", Lit(1))

Simple == {One, RefAssign("x", "p"), Assign("x", P), Echo(X), Do(CallBy("x")), Do(SetExpr("x", 2))}
Jumps == {Throw, Return, Break(1), Break(2), Continue(1)}

\* Bodies: a simple statement, a jump, or one and then the other.
Short == {<<s>> : s \in Simple \cup Jumps}
Bodies == Short \cup {<<One, j>> : j \in Jumps}
Elses == {<< >>, << <<Echo(X)>> >>, << <<One, Return>> >>}

Ifs(bodies) ==
  {If(e, b, << >>, else) : e \in {P, X, CallBy("x")}, b \in bodies, else \in Elses}
  \cup {If(e, b, <<Clause(f, <<One, j>>)>>, else) :
          e \in {P, X}, f \in {P, CallBy("x")}, b \in {<<Echo(X)>>, <<Assign("x", P)>>},
          j \in {Echo(X), Return}, else \in Elses}
Loops(bodies) ==
  {While(e, b) : e \in {Lit(0), Lit(1), P, X, CallBy("x"), SetExpr("x", 0)}, b \in bodies}
  \cup {DoWhile(b, e) : e \in {Lit(0), Lit(1), P}, b \in bodies}
  \cup {For(<<Assign("x", Lit(3))>>, e, u, b) :
          e \in {<< >>, <<X>>}, u \in {<< >>, <<Assign("x", Lit(0))>>}, b \in bodies}
  \cup {Foreach(v, b) : v \in {"x", "q"}, b \in bodies}
Switches(bodies) ==
  {Switch(e, <<Case(0, b), Case(1, c)>>, d) :
     e \in {X, P}, b \in bodies, c \in {<<One>>, <<Break(1)>>}, d \in {<< >>, << <<Echo(X)>> >>}}
Tries(bodies) ==
  {t \in {Try(b, c, f) : b \in bodies, c \in {<< >>, << <<Echo(X)>> >>, << <<One>> >>},
                         f \in {<< >>, << <<Echo(X)>> >>, << <<Return>> >>}} :
     t.catches # << >> \/ t.finally # << >>}

Compounds(bodies) == Ifs(bodies) \cup Loops(bodies) \cup Switches(bodies) \cup Tries(bodies)
Inner == Compounds({<<s>> : s \in {One, Do(CallBy("x")), Throw, Break(1), Break(2), Continue(1)}}
                   \cup {<<One, Break(1)>>})
After == {<< >>, <<Echo(X)>>, <<Assign("x", Lit(2)), Break(1)>>}

\* No jump goes further than the loops and switches around it.
RECURSIVE Fits(_, _)
Fits(body, depth) ==
  \A j \in DOMAIN body :
    /\ body[j].k \in {"break", "continue"} => body[j].n <= depth
    /\ \A b \in Blocks(body[j]) :
         Fits(b, IF body[j].k \in {"while", "dowhile", "for", "foreach", "switch"} THEN depth + 1 ELSE depth)

Nested(c) == <<Assign("x", Lit(0)), c, Echo(X)>>
All == {s \in {Nested(c) : c \in Compounds(Bodies \cup {<<c>> \o a : c \in Inner, a \in After})} : Fits(s, 0)}

-----------------------------------------------------------------------------
Loop == {"while", "dowhile", "for", "foreach"}

\* Whether s holds a jump that leaves depth of the loops and switches around
\* it.
RECURSIVE Leaves(_, _)
Leaves(s, depth) ==
  \/ s.k \in {"break", "continue"} /\ s.n >= depth
  \/ \E b \in Blocks(s) : \E j \in DOMAIN b :
       Leaves(b[j], IF s.k \in Loop \cup {"switch"} THEN depth + 1 ELSE depth)

\* Whether the jumps that leave the loop around body stand in it directly or
\* under if statements.
RECURSIVE Direct(_)
Direct(body) ==
  \A j \in DOMAIN body :
    IF body[j].k = "if" THEN \A b \in Blocks(body[j]) : Direct(b)
    ELSE body[j].k \in {"break", "continue"} \/ ~Leaves(body[j], 1)

\* What the runs below ask of a statement.  A case that can fall into the
\* next one writes nothing, and breaks only at its end.
Separate(s) ==
  LET bodies == [c \in DOMAIN s.cases |-> s.cases[c].body] \o s.default IN
  \A c \in DOMAIN bodies :
    /\ c = Len(bodies) \/ ~Falls(bodies[c]) \/ BlockWrites(bodies[c]) = {}
    /\ \A j \in DOMAIN bodies[c] : bodies[c][j] = Break(1) \/ ~Leaves(bodies[c][j], 1)

\* A protected body writes nothing before it throws.
Protected(s) == s.catches = << >> \/ BlockWrites(s.body) = {} \/ ~BlockMayThrow(s.body)

\* The conditions of an if with elseif clauses are not known, and do nothing.
Chained(s) == s.elseifs = << >> \/ (s.e = P /\ \A c \in DOMAIN s.elseifs : ~SideEffects(s.elseifs[c].e))

\* A loop that no condition ends is left directly.
LeftDirectly(s) == Direct(s.body) \/ \E e \in Exprs(s) : e \in {P, CallBy("x"), SetExpr("x", 0)}

RECURSIVE Guarded(_)
Guarded(body) ==
  \A j \in DOMAIN body : LET s == body[j] IN
    /\ s.k = "switch" => Separate(s)
    /\ s.k = "try" => Protected(s)
    /\ s.k = "if" => Chained(s)
    /\ s.k \in {"while", "dowhile", "for"} => LeftDirectly(s)
    /\ \A b \in Blocks(s) : Guarded(b)

GuardedScripts == {s \in All : Guarded(s)}

\* Scripts that meet what Separate excludes: a case that writes and falls into
\* the next.
FallingScripts ==
  {Nested(c) : c \in {d \in Switches({<<One>>, <<Assign("x", P)>>, <<Do(CallBy("x"))>>}) : ~Separate(d)}}

MCInputs == {[vars |-> [x \in Names |-> IF x = "p" THEN p ELSE 2], throws |-> t, returns |-> 2,
              list |-> IF t THEN << >> ELSE <<p>>] : p \in {0, 1}, t \in BOOLEAN}
=============================================================================
