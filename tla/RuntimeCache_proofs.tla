-------------------------- MODULE RuntimeCache_proofs --------------------------
(***************************************************************************)
(* Proofs about the runtime object cache, for any number of compiler runs, *)
(* texts and deletions from outside.                                       *)
(***************************************************************************)
EXTENDS RuntimeCache, TLAPS

\* The conditions on one run and its files, by the place the run is at.

\* What a temporary text holds, and is when the assembler may read it.
AsmIs(c) ==
  /\ tempAsm[c] \in {Absent, Partial, Text[c]}
  /\ pc[c] \in {"spawn", "assembling"} => tempAsm[c] # Partial

\* What a temporary object holds, and is when it may be renamed.
ObjIs(c) ==
  /\ tempObj[c] \in {Absent, Partial, Text[c]}
  /\ pc[c] = "assembled" /\ c \notin rejected => tempObj[c] # Partial
  /\ pc[c] = "store" => tempObj[c] # Partial
  /\ pc[c] \in {"start", "look", "write", "writing", "spawn", "assembling"}
       => c \notin rejected

\* Every cached file is a whole text, under that text's name.
CacheWhole == \A n \in Names : cached[n] # Absent => cached[n] \in Texts /\ NameOf[cached[n]] = n

ImageIs(c) == pc[c] = "linked" => image[c] = Text[c]

Whole == CacheWhole /\ \A c \in Compilers : AsmIs(c) /\ ObjIs(c) /\ ImageIs(c)

WholeInv == TypeOK /\ Whole

-----------------------------------------------------------------------------
\* Every variable keeps its type.
LEMMA TypeInit == Init => TypeOK
  BY CacheAssumption DEF Init, TypeOK, Contents, Places

LEMMA TypeNext == TypeOK /\ [Next]_vars => TypeOK'
<1> USE CacheAssumption DEF TypeOK, Contents, Places, Ended, Operations, Goto, Fault, Name
<1> SUFFICES ASSUME TypeOK, [Next]_vars PROVE TypeOK'
  OBVIOUS
<1>1. CASE Evict
  BY <1>1 DEF Evict
<1>2. ASSUME NEW c \in Compilers, Step(c) PROVE TypeOK'
  <2>1. CASE MakeDir(c) BY <2>1 DEF MakeDir
  <2>2. CASE Look(c) BY <2>2 DEF Look
  <2>3. CASE OpenAsm(c)
    <3>1. pc' \in [Compilers -> Places] /\ tempAsm' \in [Compilers -> Contents]
      BY <2>3 DEF OpenAsm
    <3>2. failures' \subseteq Compilers \X Operations
      BY <2>3 DEF OpenAsm
    <3> QED BY <2>3, <3>1, <3>2 DEF OpenAsm
  <2>4. CASE FillAsm(c) BY <2>4 DEF FillAsm
  <2>5. CASE Spawn(c)
    <3>1. pc' \in [Compilers -> Places] /\ tempObj' \in [Compilers -> Contents]
      BY <2>5 DEF Spawn
    <3>2. failures' \subseteq Compilers \X Operations
      BY <2>5 DEF Spawn
    <3> QED BY <2>5, <3>1, <3>2 DEF Spawn
  <2>6. CASE Assemble(c) BY <2>6 DEF Assemble
  <2>7. CASE RemoveAsm(c)
    <3>1. pc' \in [Compilers -> Places] /\ tempAsm' \in [Compilers -> Contents]
      BY <2>7 DEF RemoveAsm
    <3>2. failures' \subseteq Compilers \X Operations
      BY <2>7 DEF RemoveAsm
    <3> QED BY <2>7, <3>1, <3>2 DEF RemoveAsm
  <2>8. CASE Store(c) BY <2>8 DEF Store
  <2>9. CASE LookAgain(c) BY <2>9 DEF LookAgain
  <2>10. CASE RemoveObj(c)
    <3>1. pc' \in [Compilers -> Places] /\ tempObj' \in [Compilers -> Contents]
      BY <2>10 DEF RemoveObj
    <3>2. failures' \subseteq Compilers \X Operations
      BY <2>10 DEF RemoveObj
    <3> QED BY <2>10, <3>1, <3>2 DEF RemoveObj
  <2>11. CASE Link(c) BY <2>11 DEF Link
  <2> QED BY <1>2, <2>1, <2>2, <2>3, <2>4, <2>5, <2>6, <2>7, <2>8, <2>9, <2>10, <2>11 DEF Step
<1>3. ASSUME NEW c \in Compilers, Crash(c) PROVE TypeOK'
  BY <1>3 DEF Crash
<1>4. CASE UNCHANGED vars
  BY <1>4 DEF vars
<1> QED BY <1>1, <1>2, <1>3, <1>4 DEF Next

-----------------------------------------------------------------------------
\* The files hold what their places say.
LEMMA WholeNext == WholeInv /\ [Next]_vars => Whole'
<1> USE CacheAssumption DEF WholeInv, Whole, CacheWhole, AsmIs, ObjIs, ImageIs, TypeOK, Contents, Places, Ended, Goto, Fault, Name
<1> SUFFICES ASSUME WholeInv, [Next]_vars PROVE Whole'
  OBVIOUS
<1>1. CASE Evict
  BY <1>1 DEF Evict
<1>2. ASSUME NEW c \in Compilers, Step(c) PROVE Whole'
  <2>1. CASE MakeDir(c) BY <2>1 DEF MakeDir
  <2>2. CASE Look(c) BY <2>2 DEF Look
  <2>3. CASE OpenAsm(c) BY <2>3 DEF OpenAsm
  <2>4. CASE FillAsm(c) BY <2>4 DEF FillAsm
  <2>5. CASE Spawn(c) BY <2>5 DEF Spawn
  <2>6. CASE Assemble(c) BY <2>6 DEF Assemble
  <2>7. CASE RemoveAsm(c) BY <2>7 DEF RemoveAsm
  <2>8. CASE Store(c) BY <2>8 DEF Store
  <2>9. CASE LookAgain(c) BY <2>9 DEF LookAgain
  <2>10. CASE RemoveObj(c) BY <2>10 DEF RemoveObj
  <2>11. CASE Link(c) BY <2>11 DEF Link
  <2> QED BY <1>2, <2>1, <2>2, <2>3, <2>4, <2>5, <2>6, <2>7, <2>8, <2>9, <2>10, <2>11 DEF Step
<1>3. ASSUME NEW c \in Compilers, Crash(c) PROVE Whole'
  BY <1>3 DEF Crash
<1>4. CASE UNCHANGED vars
  BY <1>4 DEF vars
<1> QED BY <1>1, <1>2, <1>3, <1>4 DEF Next

LEMMA WholeAlways == Spec => []WholeInv
<1>1. Init => WholeInv
  BY TypeInit, CacheAssumption DEF Init, WholeInv, Whole, CacheWhole, AsmIs, ObjIs, ImageIs
<1>2. WholeInv /\ [Next]_vars => WholeInv'
  BY TypeNext, WholeNext DEF WholeInv
<1> QED BY <1>1, <1>2, PTL DEF Spec

\* A linked program holds the whole runtime object of its compiler's text: a
\* hit is never on an object another run is still writing or gave up.
THEOREM LinkedWholeAlways == Spec => []LinkedWhole
<1>1. WholeInv => LinkedWhole
  BY DEF WholeInv, Whole, ImageIs, LinkedWhole
<1> QED BY <1>1, WholeAlways, PTL

-----------------------------------------------------------------------------
\* What a run that has failed, or is about to, has met.
Met(c) ==
  \/ \E op \in Operations : <<c, op>> \in failures
  \/ c \in rejected \/ evictions > 0

\* A run on its way to the linker finds its object, unless files were deleted.
CauseIs(c) ==
  /\ pc[c] \in {"unstored", "lost", "refused", "failed"} => Met(c)
  /\ pc[c] \in {"lost", "link"} => cached[Name(c)] # Absent \/ evictions > 0

Causes == \A c \in Compilers : CauseIs(c)

CauseInv == WholeInv /\ Causes

\* What a run met stays met.
LEMMA MetStays ==
  ASSUME TypeOK, [Next]_vars, NEW d \in Compilers
  PROVE  Met(d) => Met(d)'
<1> USE DEF TypeOK, Met, Goto, Fault
<1>1. CASE Evict
  BY <1>1, CacheAssumption DEF Evict
<1>2. ASSUME NEW c \in Compilers, Step(c) PROVE Met(d) => Met(d)'
  <2>1. failures \subseteq failures' /\ rejected \subseteq rejected' /\ evictions' = evictions
    BY <1>2 DEF Step, MakeDir, Look, OpenAsm, FillAsm, Spawn, Assemble, RemoveAsm,
                Store, LookAgain, RemoveObj, Link
  <2> QED BY <2>1
<1>3. ASSUME NEW c \in Compilers, Crash(c) PROVE Met(d) => Met(d)'
  BY <1>3 DEF Crash
<1>4. CASE UNCHANGED vars
  BY <1>4 DEF vars
<1> QED BY <1>1, <1>2, <1>3, <1>4 DEF Next

\* A step of run c that deletes no object disturbs what holds of no other run.
LEMMA CausesElse ==
  ASSUME CauseInv, [Next]_vars, NEW c \in Compilers, CauseIs(c)', evictions' = evictions,
         \A d \in Compilers \ {c} : pc'[d] = pc[d],
         \A n \in Names : cached[n] # Absent => cached'[n] # Absent
  PROVE  Causes'
<1>1. TypeOK
  BY DEF CauseInv, WholeInv
<1> SUFFICES ASSUME NEW d \in Compilers \ {c} PROVE CauseIs(d)'
  BY DEF Causes
<1>2. CauseIs(d) /\ (Met(d) => Met(d)')
  BY <1>1, MetStays DEF CauseInv, Causes
<1>3. Name(d) \in Names
  BY CacheAssumption DEF Name
<1> QED BY <1>2, <1>3 DEF CauseIs, Name

LEMMA CausesNext == CauseInv /\ [Next]_vars => Causes'
<1> SUFFICES ASSUME CauseInv, [Next]_vars PROVE Causes'
  OBVIOUS
<1>0. TypeOK /\ Causes /\ \A c \in Compilers : CauseIs(c) /\ ObjIs(c) /\ Name(c) \in Names
  BY CacheAssumption DEF CauseInv, WholeInv, Whole, Causes, Name
<1>1. CASE Evict
  <2>1. evictions' = evictions + 1 /\ pc' = pc /\ evictions' > 0
    BY <1>0, <1>1, CacheAssumption DEF Evict, TypeOK
  <2> QED BY <2>1 DEF Causes, CauseIs, Met
<1>2. ASSUME NEW c \in Compilers, Step(c) PROVE Causes'
  <2> DEFINE Onward == evictions' = evictions /\ \A d \in Compilers \ {c} : pc'[d] = pc[d]
  <2>0. Onward
    BY <1>0, <1>2 DEF Step, TypeOK, Goto, Fault, MakeDir, Look, OpenAsm, FillAsm, Spawn, Assemble,
                      RemoveAsm, Store, LookAgain, RemoveObj, Link
  <2>1. CASE cached' = cached /\ CauseIs(c)'
    BY <2>0, <2>1, CausesElse
  <2>2. CASE MakeDir(c) \/ OpenAsm(c) \/ FillAsm(c) \/ Spawn(c)
    <3>1. cached' = cached
      BY <2>2 DEF MakeDir, OpenAsm, FillAsm, Spawn
    <3>2. \/ pc'[c] \in {"look", "writing", "spawn", "assembling"}
          \/ pc'[c] = "failed" /\ \E op \in Operations : <<c, op>> \in failures'
      BY <1>0, <2>2 DEF MakeDir, OpenAsm, FillAsm, Spawn, TypeOK, Goto, Fault, Operations
    <3>3. CauseIs(c)'
      BY <3>2 DEF CauseIs, Met
    <3> QED BY <2>1, <3>1, <3>3
  <2>3. CASE Look(c)
    <3>1. cached' = cached /\ pc'[c] = IF cached[Name(c)] = Absent THEN "write" ELSE "link"
      BY <1>0, <2>3 DEF Look, Goto, TypeOK
    <3>2. CauseIs(c)'
      BY <3>1 DEF CauseIs, Name
    <3> QED BY <2>1, <3>1, <3>2
  <2>4. CASE Assemble(c)
    <3>1. cached' = cached /\ pc'[c] = "assembled"
      BY <1>0, <2>4 DEF Assemble, Goto, TypeOK
    <3>2. CauseIs(c)'
      BY <3>1 DEF CauseIs
    <3> QED BY <2>1, <3>1, <3>2
  <2>5. CASE RemoveAsm(c)
    <3>1. /\ cached' = cached /\ rejected' = rejected
          /\ pc'[c] = IF c \in rejected THEN "refused" ELSE "store"
      BY <1>0, <2>5 DEF RemoveAsm, Goto, Fault, TypeOK
    <3>2. CauseIs(c)'
      BY <3>1 DEF CauseIs, Met
    <3> QED BY <2>1, <3>1, <3>2
  <2>6. CASE Store(c)
    <3>1. CASE /\ tempObj[c] # Absent /\ cached' = [cached EXCEPT ![Name(c)] = tempObj[c]]
               /\ pc' = [pc EXCEPT ![c] = "link"]
      <4>1. \A n \in Names : cached'[n] = IF n = Name(c) THEN tempObj[c] ELSE cached[n]
        BY <1>0, <3>1 DEF TypeOK
      <4>2. pc'[c] = "link" /\ cached'[Name(c)] # Absent
        BY <1>0, <3>1, <4>1 DEF TypeOK
      <4>3. CauseIs(c)'
        BY <4>2 DEF CauseIs, Name
      <4> QED BY <2>0, <3>1, <4>1, <4>3, CausesElse
    <3>2. CASE Fault(c, "other", "unstored") /\ cached' = cached
      <4>1. pc'[c] = "unstored" /\ <<c, "other">> \in failures'
        BY <1>0, <3>2 DEF Fault, Goto, TypeOK
      <4>2. CauseIs(c)'
        BY <4>1 DEF CauseIs, Met, Operations
      <4> QED BY <2>1, <3>2, <4>2
    <3> QED BY <2>6, <3>1, <3>2 DEF Store, Goto
  <2>7. CASE LookAgain(c)
    <3>1. /\ cached' = cached /\ pc[c] = "unstored"
          /\ pc'[c] = IF cached[Name(c)] = Absent THEN "refused" ELSE "lost"
      BY <1>0, <2>7 DEF LookAgain, Goto, TypeOK
    <3>2. Met(c)'
      BY <1>0, <3>1, MetStays DEF CauseIs
    <3>3. CauseIs(c)'
      BY <3>1, <3>2 DEF CauseIs, Name
    <3> QED BY <2>1, <3>1, <3>3
  <2>8. CASE RemoveObj(c)
    <3>1. /\ cached' = cached /\ pc[c] \in {"lost", "refused"}
          /\ pc'[c] = IF pc[c] = "lost" THEN "link" ELSE "failed"
      BY <1>0, <2>8 DEF RemoveObj, Goto, Fault, TypeOK
    <3>2. Met(c)'
      BY <1>0, <3>1, MetStays DEF CauseIs
    <3>3. pc[c] = "lost" => cached[Name(c)] # Absent \/ evictions > 0
      BY <1>0 DEF CauseIs
    <3>4. CauseIs(c)'
      BY <2>0, <3>1, <3>2, <3>3 DEF CauseIs, Name
    <3> QED BY <2>1, <3>1, <3>4
  <2>9. CASE Link(c)
    <3>1. cached' = cached /\ pc[c] = "link"
      BY <2>9 DEF Link
    <3>2. \/ pc'[c] = "linked"
          \/ pc'[c] = "failed" /\ cached[Name(c)] = Absent
          \/ pc'[c] = "failed" /\ <<c, "other">> \in failures'
      BY <1>0, <2>9 DEF Link, Goto, Fault, TypeOK
    <3>3. cached[Name(c)] # Absent \/ evictions > 0
      BY <1>0, <3>1 DEF CauseIs
    <3>4. CauseIs(c)'
      BY <2>0, <3>2, <3>3 DEF CauseIs, Met, Operations
    <3> QED BY <2>1, <3>1, <3>4
  <2> QED BY <1>2, <2>2, <2>3, <2>4, <2>5, <2>6, <2>7, <2>8, <2>9 DEF Step
<1>3. ASSUME NEW c \in Compilers, Crash(c) PROVE Causes'
  <2>1. pc'[c] = "crashed" /\ UNCHANGED <<cached, evictions>> /\ \A d \in Compilers \ {c} : pc'[d] = pc[d]
    BY <1>0, <1>3 DEF Crash, Goto, TypeOK
  <2>2. CauseIs(c)'
    BY <2>1 DEF CauseIs
  <2> QED BY <2>1, <2>2, CausesElse
<1>4. CASE UNCHANGED vars
  BY <1>0, <1>4 DEF vars, Causes, CauseIs, Met, Name
<1> QED BY <1>1, <1>2, <1>3, <1>4 DEF Next

\* No run fails for what another run did: two that build the same object at
\* once, in any order, both get one.
THEOREM FailsForCauseAlways == Spec => []FailsForCause
<1>1. Init => CauseInv
  BY TypeInit, CacheAssumption
  DEF Init, CauseInv, WholeInv, Whole, CacheWhole, AsmIs, ObjIs, ImageIs, Causes, CauseIs
<1>2. CauseInv /\ [Next]_vars => CauseInv'
  BY TypeNext, WholeNext, CausesNext DEF CauseInv, WholeInv
<1>3. CauseInv => FailsForCause
  BY DEF CauseInv, Causes, CauseIs, Met, FailsForCause
<1> QED BY <1>1, <1>2, <1>3, PTL DEF Spec

-----------------------------------------------------------------------------
\* The run met no failure that makes it leave a file.
Tidy(c) == \A op \in {"write", "spawn", "remove"} : <<c, op>> \notin failures

\* The temporary files a run has, by its place.
FilesAre(c) ==
  Tidy(c) =>
    /\ pc[c] \in {"start", "look", "write", "store", "unstored", "lost", "refused", "link",
                  "linked", "failed"} => tempAsm[c] = Absent
    /\ pc[c] \in {"start", "look", "write", "writing", "spawn", "link", "linked", "failed"}
         => tempObj[c] = Absent

Tidied == \A c \in Compilers : FilesAre(c)

TidyInv == TypeOK /\ Tidied

LEMMA TidiedNext == TidyInv /\ [Next]_vars => Tidied'
<1> USE CacheAssumption DEF TidyInv, Tidied, FilesAre, Tidy, TypeOK, Contents, Places, Ended, Operations, Goto, Fault, Name
<1> SUFFICES ASSUME TidyInv, [Next]_vars PROVE Tidied'
  OBVIOUS
<1>1. CASE Evict
  BY <1>1 DEF Evict
<1>2. ASSUME NEW c \in Compilers, Step(c) PROVE Tidied'
  <2>1. CASE MakeDir(c) BY <2>1 DEF MakeDir
  <2>2. CASE Look(c) BY <2>2 DEF Look
  <2>3. CASE OpenAsm(c) BY <2>3 DEF OpenAsm
  <2>4. CASE FillAsm(c) BY <2>4 DEF FillAsm
  <2>5. CASE Spawn(c) BY <2>5 DEF Spawn
  <2>6. CASE Assemble(c) BY <2>6 DEF Assemble
  <2>7. CASE RemoveAsm(c) BY <2>7 DEF RemoveAsm
  <2>8. CASE Store(c) BY <2>8 DEF Store
  <2>9. CASE LookAgain(c) BY <2>9 DEF LookAgain
  <2>10. CASE RemoveObj(c) BY <2>10 DEF RemoveObj
  <2>11. CASE Link(c) BY <2>11 DEF Link
  <2> QED BY <1>2, <2>1, <2>2, <2>3, <2>4, <2>5, <2>6, <2>7, <2>8, <2>9, <2>10, <2>11 DEF Step
<1>3. ASSUME NEW c \in Compilers, Crash(c) PROVE Tidied'
  BY <1>3 DEF Crash
<1>4. CASE UNCHANGED vars
  BY <1>4 DEF vars
<1> QED BY <1>1, <1>2, <1>3, <1>4 DEF Next

\* A run that ended and could write, start the assembler and remove its files
\* leaves none in the cache directory but the object it stored.
THEOREM LeavesNothingAlways == Spec => []LeavesNothing
<1>1. Init => TidyInv
  BY TypeInit DEF Init, TidyInv, Tidied, FilesAre
<1>2. TidyInv /\ [Next]_vars => TidyInv'
  BY TypeNext, TidiedNext DEF TidyInv
<1>3. TidyInv => LeavesNothing
  BY DEF TidyInv, Tidied, FilesAre, Tidy, LeavesNothing
<1> QED BY <1>1, <1>2, <1>3, PTL DEF Spec

-----------------------------------------------------------------------------
\* The most steps a run at a place still takes.
Distance ==
  [p \in Places |->
     CASE p = "start"      -> 11
       [] p = "look"       -> 10
       [] p = "write"      -> 9
       [] p = "writing"    -> 8
       [] p = "spawn"      -> 7
       [] p = "assembling" -> 6
       [] p = "assembled"  -> 5
       [] p = "store"      -> 4
       [] p = "unstored"   -> 3
       [] p = "lost"       -> 2
       [] p = "refused"    -> 2
       [] p = "link"       -> 1
       [] OTHER            -> 0]

Closer(c) == Distance[pc'[c]] < Distance[pc[c]]

\* Every step of a run brings it nearer to its end, and no other takes it back.
GetsOn == \A c \in Compilers : (Step(c) => Closer(c)) /\ (pc'[c] # pc[c] => Closer(c))

LEMMA StepCloser ==
  ASSUME TypeOK, NEW c \in Compilers, Step(c)
  PROVE  Closer(c) /\ \A d \in Compilers \ {c} : pc'[d] = pc[d]
<1> USE DEF TypeOK, Places, Ended, Goto, Fault, Closer, Distance
<1>1. CASE MakeDir(c) BY <1>1 DEF MakeDir
<1>2. CASE Look(c) BY <1>2 DEF Look
<1>3. CASE OpenAsm(c) BY <1>3 DEF OpenAsm
<1>4. CASE FillAsm(c) BY <1>4 DEF FillAsm
<1>5. CASE Spawn(c) BY <1>5 DEF Spawn
<1>6. CASE Assemble(c) BY <1>6 DEF Assemble
<1>7. CASE RemoveAsm(c) BY <1>7 DEF RemoveAsm
<1>8. CASE Store(c) BY <1>8 DEF Store
<1>9. CASE LookAgain(c) BY <1>9 DEF LookAgain
<1>10. CASE RemoveObj(c) BY <1>10 DEF RemoveObj
<1>11. CASE Link(c) BY <1>11 DEF Link
<1> QED BY <1>1, <1>2, <1>3, <1>4, <1>5, <1>6, <1>7, <1>8, <1>9, <1>10, <1>11 DEF Step

\* A run that lost the race for its object, or could not store it, looks once
\* more and goes on to its end: no run polls, retries or is sent back by
\* another, so that each ends after at most eleven steps of its own.
THEOREM RunsGetOnAlways == Spec => [][GetsOn]_vars
<1>1. ASSUME TypeOK, [Next]_vars PROVE [GetsOn]_vars
  <2>1. CASE UNCHANGED vars
    BY <2>1
  <2>2. CASE Evict
    <3>1. pc' = pc
      BY <2>2 DEF Evict
    <3>2. ASSUME NEW c \in Compilers PROVE ~Step(c)
      <4>1. Step(c) => Closer(c)
        BY <1>1, <3>2, StepCloser
      <4>2. Distance[pc[c]] \in Nat
        BY <1>1 DEF TypeOK, Distance, Places, Ended
      <4> QED BY <3>1, <4>1, <4>2 DEF Closer
    <3> QED BY <3>1, <3>2 DEF GetsOn
  <2>3. ASSUME NEW c \in Compilers, Crash(c) PROVE GetsOn
    <3>1. Closer(c) /\ \A d \in Compilers \ {c} : pc'[d] = pc[d]
      BY <1>1, <2>3 DEF Crash, Goto, TypeOK, Places, Ended, Closer, Distance
    <3>2. ASSUME NEW d \in Compilers, Step(d) PROVE Closer(d)
      BY <1>1, <3>2, StepCloser
    <3> QED BY <3>1, <3>2 DEF GetsOn
  <2>4. ASSUME NEW c \in Compilers, Step(c) PROVE GetsOn
    <3>1. Closer(c) /\ \A d \in Compilers \ {c} : pc'[d] = pc[d]
      BY <1>1, <2>4, StepCloser
    <3>2. ASSUME NEW d \in Compilers, Step(d) PROVE Closer(d)
      BY <1>1, <3>2, StepCloser
    <3> QED BY <3>1, <3>2 DEF GetsOn
  <2> QED BY <1>1, <2>1, <2>2, <2>3, <2>4 DEF Next
<1>2. Init => TypeOK
  BY TypeInit
<1>3. TypeOK /\ [Next]_vars => TypeOK'
  BY TypeNext
<1> QED BY <1>1, <1>2, <1>3, PTL DEF Spec
=============================================================================
