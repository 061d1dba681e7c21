------------------------------ MODULE MCIncludes ------------------------------
(***************************************************************************)
(* The projects the runs of Includes compile: a main file and two files    *)
(* that declare functions and include one another; a third does not exist. *)
(***************************************************************************)
EXTENDS Includes

Once(file) == Include(file, TRUE, TRUE)
Plain(file) == Include(file, FALSE, TRUE)
Present == {Once("a"), Plain("a"), Once("b"), Plain("b")}
Leaves == Present \cup {Include("c", FALSE, FALSE)}

IfFlag(at, cond, then, else) == If(at, <<Clause(cond, then)>>, else)

\* A statement around include statements; at is its place in the file.
Around(at, leaves) ==
  {IfFlag(at, c, <<l>>, << >>) : c \in {"p", "q"}, l \in leaves}
  \cup {IfFlag(at, "p", <<l>>, <<m>>) : l, m \in leaves}
  \cup {If(at, <<Clause("no", <<l>>), Clause("p", <<m>>)>>, << >>) : l, m \in leaves}
  \cup {If(at, <<Clause("p", <<l>>), Clause("yes", <<m>>)>>, <<l>>) : l, m \in leaves}
  \cup {While(c, <<l>>) : c \in {"p", "no"}, l \in leaves}
  \cup {DoWhile(<<l>>, c) : c \in {"p", "no"}, l \in leaves}

\* The main file: two statements, or one and a call of a function of its own
\* that includes, and a call of what they may have loaded.
Own(l) == Function("h", <<l>>)
Mains ==
  {<<s, t, Call("f")>> : s \in Leaves \cup Around(1, Present), t \in Leaves \cup Around(2, {Plain("a"), Once("b")})}
  \cup {<<s, Call("h"), Call("f"), Own(l)>> : s \in Leaves \cup Around(1, Present), l \in Present}
  \cup {<<Own(l), Call("h"), s, Call("g")>> : s \in Leaves \cup Around(1, Present), l \in Present}

\* Files a and b.
FilesA ==
  {<<Function("f", <<Echo(1)>>), Echo(2)>>, <<Echo(2), Once("b")>>,
   <<Function("f", <<Echo(1)>>), Plain("b"), Call("f")>>,
   <<Function("f", <<Once("b")>>), IfFlag(1, "q", <<Once("b")>>, << >>), Echo(2)>>}
FilesB ==
  {<<Function("g", <<Echo(3)>>), Echo(4)>>, <<Function("f", <<Echo(3)>>), Once("a"), Echo(4)>>,
   <<Function("g", <<Once("a")>>), Echo(4)>>}

All == {[x \in {"main", "a", "b"} |-> CASE x = "main" -> m [] x = "a" -> a [] x = "b" -> b] :
          m \in Mains, a \in FilesA, b \in FilesB}

-----------------------------------------------------------------------------
\* The files the statements of body name, those of functions included.
RECURSIVE Named(_)
Named(body) ==
  UNION {LET s == body[j] IN
         CASE s.k = "include" -> {s.file}
           [] s.k \in {"while", "dowhile", "function"} -> Named(s.body)
           [] s.k = "if" -> Named(s.else) \cup UNION {Named(s.clauses[c].body) : c \in DOMAIN s.clauses}
           [] OTHER -> {} : j \in DOMAIN body}

\* The files a run that starts with these files can come to.
RECURSIVE Reached(_, _)
Reached(files, from) ==
  LET more == from \cup UNION {Named(files[x]) \cap DOMAIN files : x \in from} IN
  IF more = from THEN from ELSE Reached(files, more)

\* No function includes a file that leads back to the one that declares it.
ChainFree(files) ==
  \A x \in DOMAIN files : \A f \in Functions(files[x]) :
    x \notin Reached(files, Named(f.body) \cap DOMAIN files)

GuardedProjects == {files \in All : ChainFree(files)}

Flags == [{"p", "q"} -> BOOLEAN]
=============================================================================
