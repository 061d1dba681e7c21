------------------------------- MODULE Includes -------------------------------
(***************************************************************************)
(* Include resolution (src/src/resolver): every include statement of a     *)
(* project is replaced, when it is compiled, by the statements of the file *)
(* it names, guarded or marked for include_once.  Functions that included  *)
(* files declare are found first, by a walk that follows the include       *)
(* statements (discovery), and become hidden variants behind their public  *)
(* name; the place where a file was included says which variant is active. *)
(*                                                                         *)
(* Paths are taken as folded to a file, and namespaces, classes, constants *)
(* and includes inside expressions are left out.                           *)
(***************************************************************************)
EXTENDS PhpIncludes, FiniteSets, FiniteSetsExt, Functions

CONSTANTS
  Main,      \* the file that is compiled
  Projects,  \* the projects it is compiled in
  Inputs     \* the values of the flags

VARIABLES
  project,   \* the files
  program,   \* the resolved program
  passed     \* whether the resolver has run

vars == <<project, program, passed>>

-----------------------------------------------------------------------------
(***************************************************************************)
(* Expansion (engine.rs, engine_includes.rs, declarations.rs).  The result *)
(* is a body and the errors met; an error stops the compiler, so their     *)
(* order is of no interest.                                                *)
(***************************************************************************)
Expansion(body, errors) == [body |-> body, errors |-> errors]

Bodies(expansions) == [j \in DOMAIN expansions |-> expansions[j].body]
Errors(expansions) == UNION {expansions[j].errors : j \in DOMAIN expansions}

\* strip_discoverable_declarations: the declarations of an included file give
\* way to the marks of their variants.
Strip(body, file, registry) ==
  LET mark(f) == IF <<file, f.name>> \in DOMAIN registry
                 THEN <<VariantMark(f.name, registry[<<file, f.name>>])>> ELSE << >>
  IN  FlattenSeq([j \in DOMAIN body |->
                    IF body[j].k = "function" THEN mark(body[j]) ELSE <<body[j]>>])

RECURSIVE ResolveStmt(_, _, _, _), ResolveStmts(_, _, _, _)

\* resolve_include_stmt
ResolveInclude(files, s, chain, registry) ==
  IF s.file \notin DOMAIN files THEN Expansion(<< >>, IF s.required THEN {"missing"} ELSE {})
  ELSE IF s.file \in Range(chain) THEN Expansion(<< >>, IF s.once THEN {} ELSE {"circular"})
  ELSE LET inner == ResolveStmts(files, files[s.file], Append(chain, s.file), registry)
           executable == Strip(inner.body, s.file, registry)
       IN  Expansion(IF s.once THEN <<OnceGuard(s.file, executable)>>
                     ELSE <<OnceMark(s.file)>> \o executable,
                     inner.errors)

ResolveIf(files, s, chain, registry) ==
  LET clauses == [j \in DOMAIN s.clauses |-> ResolveStmts(files, s.clauses[j].body, chain, registry)]
      else == ResolveStmts(files, s.else, chain, registry)
  IN  Expansion(<<[s EXCEPT !.clauses = [j \in DOMAIN @ |-> [@[j] EXCEPT !.body = clauses[j].body]],
                            !.else = else.body]>>,
                Errors(clauses) \cup else.errors)

ResolveStmt(files, s, chain, registry) ==
  CASE s.k = "include" -> ResolveInclude(files, s, chain, registry)
    [] s.k = "if" -> ResolveIf(files, s, chain, registry)
    [] s.k \in {"while", "dowhile", "function"} ->
         LET inner == ResolveStmts(files, s.body, chain, registry) IN
         Expansion(<<[s EXCEPT !.body = inner.body]>>, inner.errors)
    [] OTHER -> Expansion(<<s>>, {})

ResolveStmts(files, body, chain, registry) ==
  LET each == [j \in DOMAIN body |-> ResolveStmt(files, body[j], chain, registry)] IN
  Expansion(FlattenSeq(Bodies(each)), Errors(each))

-----------------------------------------------------------------------------
(***************************************************************************)
(* Discovery (discovery/).  An entry is a file with functions found behind *)
(* an include statement, with the include chain that led there, whether    *)
(* it can be included again, and the branch of the if statement that it    *)
(* is exclusive to.  A walk carries the entries found, the paths loaded    *)
(* and the errors.                                                         *)
(***************************************************************************)
None == << >>
NoVariants == [key \in {} |-> None]

Entry(file, chain, repeatable) ==
  [file |-> file, chain |-> chain, repeatable |-> repeatable, group |-> None, branch |-> 0]

Walk0 == [out |-> << >>, loaded |-> {}, errors |-> {}]

\* DiscoveryOutput::push
Push(out, files, file, chain, repeatable) ==
  IF \/ Functions(files[file]) = {}
     \/ ~repeatable /\ \E e \in Range(out) : e.file = file
  THEN out ELSE Append(out, Entry(file, chain, repeatable))

\* DiscoveryOutput::extend_once_guarded
OnceGuarded(out) == [j \in DOMAIN out |-> [out[j] EXCEPT !.repeatable = FALSE]]

\* mutant: a loop body counts once
LoopBodyOnce(out) == out

\* DiscoveryOutput::extend_loop_body: what the body can include again is there twice.
LoopBody(out) == out \o SelectSeq(out, LAMBDA e : e.repeatable)

\* merge_alternatives: of each file one entry, as often as the branch that
\* has it most often.
MergeAlternatives(outs, group) ==
  LET tagged == [b \in DOMAIN outs |->
                   [j \in DOMAIN outs[b] |->
                      IF outs[b][j].group = None
                      THEN [outs[b][j] EXCEPT !.group = group, !.branch = b] ELSE outs[b][j]]]
      all == FlattenSeq(tagged)
      firsts == SelectSeq([j \in DOMAIN all |-> j],
                          LAMBDA j : \A l \in 1 .. j - 1 : all[l].file # all[j].file)
      copies(file) == Max({Cardinality({j \in DOMAIN tagged[b] : tagged[b][j].file = file}) :
                             b \in DOMAIN tagged})
      merged(j) == [all[j] EXCEPT !.repeatable =
                      \E e \in Range(all) : e.file = all[j].file /\ e.repeatable]
  IN  FlattenSeq([j \in DOMAIN firsts |->
                    [n \in 1 .. copies(all[firsts[j]].file) |-> merged(firsts[j])]])

\* The bodies of an if statement one of which runs: the clauses that can be
\* reached, and the else body unless a clause is known to be taken.
Alternatives(s) ==
  LET possible == SelectSeq(s.clauses, LAMBDA clause : clause.cond # "no")
      certain == SelectInSeq(possible, LAMBDA clause : clause.cond = "yes")
      reached == IF certain = 0 THEN possible ELSE SubSeq(possible, 1, certain)
      bodies == [j \in DOMAIN reached |-> reached[j].body]
  IN  IF certain = 0 THEN Append(bodies, s.else) ELSE bodies

RECURSIVE DiscoverStmt(_, _, _, _), DiscoverStmts(_, _, _, _)

\* discover_isolated_output
IsolatedOutput(files, body, chain, walk) ==
  DiscoverStmts(files, body, chain, [walk EXCEPT !.out = << >>])

\* discover_isolated
Isolated(files, body, chain, walk) ==
  LET inner == IsolatedOutput(files, body, chain, walk) IN
  [inner EXCEPT !.out = walk.out \o @]

\* discover_include
DiscoverInclude(files, s, chain, walk) ==
  IF s.file \notin DOMAIN files
  THEN IF s.required THEN [walk EXCEPT !.errors = @ \cup {"missing"}] ELSE walk
  ELSE IF s.once /\ s.file \in walk.loaded THEN walk
  ELSE IF s.file \in Range(chain)
  THEN IF s.once THEN walk ELSE [walk EXCEPT !.errors = @ \cup {"circular"}]
  ELSE LET below == Append(chain, s.file)
           inner == IsolatedOutput(files, files[s.file], below, walk)
           expanded == ResolveStmts(files, files[s.file], below, NoVariants)
           nested == IF s.once THEN OnceGuarded(inner.out) ELSE inner.out
       IN  [out |-> Push(walk.out \o nested, files, s.file, below, ~s.once),
            loaded |-> inner.loaded \cup {s.file},
            errors |-> inner.errors \cup expanded.errors]

\* exclusive_group_id
GroupId(chain, s) == <<IF chain = << >> THEN "" ELSE Last(chain), s.at>>

\* discover_branch_output, merge_branch_discoveries
DiscoverBranches(files, s, chain, walk) ==
  LET bodies == Alternatives(s)
      walks == [b \in DOMAIN bodies |-> IsolatedOutput(files, bodies[b], chain, walk)]
  IN  [out |-> walk.out \o MergeAlternatives([b \in DOMAIN walks |-> walks[b].out], GroupId(chain, s)),
       loaded |-> {file \in UNION {walks[b].loaded : b \in DOMAIN walks} :
                     \A b \in DOMAIN walks : file \in walks[b].loaded},
       errors |-> UNION {walks[b].errors : b \in DOMAIN walks}]

DiscoverStmt(files, s, chain, walk) ==
  CASE s.k = "include" -> DiscoverInclude(files, s, chain, walk)
    [] s.k = "if" ->
         IF s.clauses[1].cond = "yes" THEN Isolated(files, s.clauses[1].body, chain, walk)
         ELSE DiscoverBranches(files, s, chain, walk)
    [] s.k \in {"while", "dowhile"} ->
         LET inner == IsolatedOutput(files, s.body, chain, walk) IN
         IF s.cond = "no"
         THEN IF s.k = "while" THEN walk ELSE [inner EXCEPT !.out = walk.out \o @]
         ELSE [inner EXCEPT !.out = walk.out \o LoopBody(@)]
    [] s.k = "function" -> Isolated(files, s.body, chain, walk)
    [] OTHER -> walk

DiscoverStmts(files, body, chain, walk) ==
  IF body = << >> THEN walk
  ELSE DiscoverStmts(files, Tail(body), chain, DiscoverStmt(files, Head(body), chain, walk))

-----------------------------------------------------------------------------
(***************************************************************************)
(* Variants (function_variants.rs).                                        *)
(***************************************************************************)
\* The entries that declare a function of this name.
Occurrences(files, entries, name) ==
  {j \in DOMAIN entries : name \in FunctionNames(files[entries[j].file])}

\* is_supported_include_loaded_function_group: there is only one, or each is
\* in a branch of its own of one if statement.
Supported(files, entries, name) ==
  LET occurrences == Occurrences(files, entries, name) IN
  \/ Cardinality(occurrences) = 1
  \/ \A j, l \in occurrences :
       /\ entries[j].group # None /\ entries[j].group = entries[l].group
       /\ j # l => entries[j].branch # entries[l].branch

Discovered(files, entries) == UNION {FunctionNames(files[e.file]) : e \in Range(entries)}

Variant(e, name) == <<e.file, name, e.group, e.branch>>

\* rewrite_include_loaded_function_variants
Registry(files, entries) ==
  LET names == {n \in Discovered(files, entries) : Supported(files, entries, n)}
      keys == UNION {{<<e.file, n>> : n \in names \cap FunctionNames(files[e.file])} :
                       e \in Range(entries)}
  IN  [key \in keys |-> Variant(entries[Max({j \in DOMAIN entries : entries[j].file = key[1]})], key[2])]

-----------------------------------------------------------------------------
\* collect_function_decls: the names the whole program declares more than once, as a
\* function of main and a variant group or as functions outside of any group.
Duplicates(files, entries) ==
  {n \in Discovered(files, entries) : n \in FunctionNames(files[Main]) \/ ~Supported(files, entries, n)}

\* resolve, into_include_discovery with rebuild_declarations, and the test for
\* duplicates of the type checker.
Resolved(files) ==
  LET walk == DiscoverStmts(files, files[Main], << >>, Walk0)
      entries == walk.out
      registry == Registry(files, entries)
      rebuilt == [j \in DOMAIN entries |->
                    ResolveStmts(files, files[entries[j].file], entries[j].chain, registry)]
      bodies == UNION {{<<Variant(entries[j], f.name), f.body>> : f \in Functions(rebuilt[j].body)} :
                         j \in DOMAIN entries}
      main == ResolveStmts(files, files[Main], << >>, registry)
  IN  [body |-> main.body,
       variants |-> [v \in {b[1] : b \in bodies} |-> (CHOOSE b \in bodies : b[1] = v)[2]],
       errors |-> walk.errors \cup Errors(rebuilt) \cup main.errors
                    \cup (IF Duplicates(files, entries) = {} THEN {} ELSE {"duplicate"})]

Unresolved == [body |-> << >>, variants |-> NoVariants, errors |-> {}]

Init ==
  /\ project \in Projects
  /\ program = Unresolved
  /\ passed = FALSE

Resolve ==
  /\ ~passed
  /\ program' = Resolved(project)
  /\ passed' = TRUE
  /\ UNCHANGED project

Next == Resolve

Spec == Init /\ [][Next]_vars

-----------------------------------------------------------------------------
Accepted == passed /\ program.errors = {}

Source(flags) == RunProject(project, Main, flags)
Target(flags) == RunResolved(program.body, program.variants, flags)
Seen(r) == <<r.out, r.printed>>

\* What the compiler accepts runs as PHP runs the files: whatever branches and
\* loops are taken, each file's statements run as often and in the order PHP
\* runs them, and a call reaches the function PHP would call, or fails.
RunsAsPhp ==
  Accepted => \A flags \in Inputs :
    Source(flags).out \notin {"deep", "redeclared"} => Seen(Target(flags)) = Seen(Source(flags))

\* No include statement of body, at any depth, is a plain include or require.
RECURSIVE IncludesOnce(_)
IncludesOnce(body) ==
  \A j \in DOMAIN body : LET s == body[j] IN
    /\ s.k = "include" => s.once
    /\ s.k \in {"while", "dowhile", "function"} => IncludesOnce(s.body)
    /\ s.k = "if" => IncludesOnce(s.else) /\ \A c \in DOMAIN s.clauses : IncludesOnce(s.clauses[c].body)

\* Different files declare different functions, and functions load files by
\* include_once and require_once only.
DeclaredApart ==
  /\ \A one, other \in DOMAIN project :
       one # other => FunctionNames(project[one]) \cap FunctionNames(project[other]) = {}
  /\ \A file \in DOMAIN project : \A f \in Functions(project[file]) : IncludesOnce(f.body)

\* A project in which some run reads a file that declares functions twice, by
\* two includes in a row or by a loop, is a compile error: PHP would stop that
\* run (docs/php/namespaces.md:91-96).  RunsAsPhp says nothing of such runs.
RedeclarationRejected ==
  Accepted /\ DeclaredApart => \A flags \in Inputs : Source(flags).out # "redeclared"
=============================================================================
