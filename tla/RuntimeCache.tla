----------------------------- MODULE RuntimeCache -----------------------------
(***************************************************************************)
(* The cache of assembled runtime objects that every run of the compiler   *)
(* shares (runtime_cache.rs, called by pipeline.rs).                       *)
(*                                                                         *)
(* A compiler run looks its object up by a name made of the hash of the    *)
(* runtime text; when the file is missing it writes the text and lets the  *)
(* assembler build the object under names of its own, and renames the      *)
(* object into place.  Runs interleave, stop anywhere leaving the files    *)
(* they had, and see file operations fail; files of the cache directory    *)
(* may be deleted from outside.  A run started after a crash is another    *)
(* member of Compilers.                                                    *)
(***************************************************************************)
EXTENDS Naturals

CONSTANTS
  Compilers,      \* runs of the compiler
  Texts,          \* the runtime assembly texts the generator produces
  Names,          \* file names of the cache
  Text,           \* the text each run needs (features, heap size, target, pic)
  NameOf,         \* the cache file name of a text
  Absent,         \* no such file
  Partial,        \* a file that is being written, or whose writer stopped
  MaxEvictions    \* how often files are deleted from outside

\* The 64-bit hash in the name is assumed to tell the texts apart.
ASSUME CacheAssumption ==
  /\ Text \in [Compilers -> Texts]
  /\ NameOf \in [Texts -> Names]
  /\ \A s, t \in Texts : NameOf[s] = NameOf[t] => s = t
  /\ Absent \notin Texts /\ Partial \notin Texts /\ Absent # Partial
  /\ MaxEvictions \in Nat

VARIABLES
  pc,             \* pc[c]: where run c is
  cached,         \* cached[n]: the file called n
  tempAsm,        \* tempAsm[c]: the temporary .s of run c
  tempObj,        \* tempObj[c]: its temporary .o
  image,          \* image[c]: the runtime object in the program c linked
  failures,       \* <<c, op>>: operation op failed for run c
  rejected,       \* runs whose assembler reported failure
  evictions       \* deletions from outside so far

vars == <<pc, cached, tempAsm, tempObj, image, failures, rejected, evictions>>

Contents == Texts \cup {Absent, Partial}

Ended == {"linked", "failed", "crashed"}

Places == {"start", "look", "write", "writing", "spawn", "assembling", "assembled",
           "store", "unstored", "lost", "refused", "link"} \cup Ended

Operations == {"other", "write", "spawn", "remove"}

TypeOK ==
  /\ pc \in [Compilers -> Places]
  /\ cached \in [Names -> Contents]
  /\ tempAsm \in [Compilers -> Contents]
  /\ tempObj \in [Compilers -> Contents]
  /\ image \in [Compilers -> Contents]
  /\ failures \subseteq Compilers \X Operations
  /\ rejected \subseteq Compilers
  /\ evictions \in 0 .. MaxEvictions

Name(c) == NameOf[Text[c]]

Init ==
  /\ pc = [c \in Compilers |-> "start"]
  /\ cached = [n \in Names |-> Absent]
  /\ tempAsm = [c \in Compilers |-> Absent]
  /\ tempObj = [c \in Compilers |-> Absent]
  /\ image = [c \in Compilers |-> Absent]
  /\ failures = {}
  /\ rejected = {}
  /\ evictions = 0

Goto(c, place) == pc' = [pc EXCEPT ![c] = place]

\* Operation op failed for c; the code goes on at place.
Fault(c, op, place) == Goto(c, place) /\ failures' = failures \cup {<<c, op>>}

\* create_dir_all, then the text is generated and hashed.
MakeDir(c) ==
  /\ pc[c] = "start"
  /\ \/ Goto(c, "look") /\ UNCHANGED failures
     \/ Fault(c, "other", "failed")
  /\ UNCHANGED <<cached, tempAsm, tempObj, image, rejected, evictions>>

\* cache_path.exists(): a hit is linked as it stands.
Look(c) ==
  /\ pc[c] = "look"
  /\ Goto(c, IF cached[Name(c)] = Absent THEN "write" ELSE "link")
  /\ UNCHANGED <<cached, tempAsm, tempObj, image, failures, rejected, evictions>>

\* fs::write creates the file and then fills it.
OpenAsm(c) ==
  /\ pc[c] = "write"
  /\ \/ /\ tempAsm' = [tempAsm EXCEPT ![c] = Partial]
        /\ Goto(c, "writing") /\ UNCHANGED failures
     \/ Fault(c, "other", "failed") /\ UNCHANGED tempAsm
  /\ UNCHANGED <<cached, tempObj, image, rejected, evictions>>

\* A write that fails leaves what it wrote.
FillAsm(c) ==
  /\ pc[c] = "writing"
  /\ \/ /\ tempAsm' = [tempAsm EXCEPT ![c] = IF @ = Absent THEN Absent ELSE Text[c]]
        /\ Goto(c, "spawn") /\ UNCHANGED failures
     \/ Fault(c, "write", "failed") /\ UNCHANGED tempAsm
  /\ UNCHANGED <<cached, tempObj, image, rejected, evictions>>

\* Command::status: the assembler starts, or cannot be started.
Spawn(c) ==
  /\ pc[c] = "spawn"
  /\ \/ /\ tempObj' = [tempObj EXCEPT ![c] = IF tempAsm[c] = Absent THEN @ ELSE Partial]
        /\ Goto(c, "assembling") /\ UNCHANGED failures
     \/ Fault(c, "spawn", "failed") /\ UNCHANGED tempObj
  /\ UNCHANGED <<cached, tempAsm, image, rejected, evictions>>

\* The assembler ends: with the object of the text it read, or reporting
\* failure and leaving any part of the object.  It fails without its input.
Assemble(c) ==
  /\ pc[c] = "assembling"
  /\ \/ /\ tempAsm[c] # Absent
        /\ tempObj' = [tempObj EXCEPT ![c] = IF @ = Absent THEN Absent ELSE tempAsm[c]]
        /\ UNCHANGED rejected
     \/ /\ \E left \in {Absent, tempObj[c]} : tempObj' = [tempObj EXCEPT ![c] = left]
        /\ rejected' = rejected \cup {c}
  /\ Goto(c, "assembled")
  /\ UNCHANGED <<cached, tempAsm, image, failures, evictions>>

\* mutant: the assembler's status is not tested
RemoveAsmUntested(c) ==
  /\ pc[c] = "assembled"
  /\ tempAsm' = [tempAsm EXCEPT ![c] = Absent]
  /\ Goto(c, "store")
  /\ UNCHANGED <<cached, tempObj, image, failures, rejected, evictions>>

\* mutant: a refused text returns the error at once
RemoveAsmReturns(c) ==
  /\ pc[c] = "assembled"
  /\ tempAsm' = [tempAsm EXCEPT ![c] = Absent]
  /\ Goto(c, IF c \in rejected THEN "failed" ELSE "store")
  /\ UNCHANGED <<cached, tempObj, image, failures, rejected, evictions>>

\* The temporary text is removed, an error of that ignored; then the status
\* of the assembler is tested.
RemoveAsm(c) ==
  /\ pc[c] = "assembled"
  /\ LET next == IF c \in rejected THEN "refused" ELSE "store"
     IN \/ /\ tempAsm' = [tempAsm EXCEPT ![c] = Absent]
           /\ Goto(c, next) /\ UNCHANGED failures
        \/ Fault(c, "remove", next) /\ UNCHANGED tempAsm
  /\ UNCHANGED <<cached, tempObj, image, rejected, evictions>>

\* fs::rename(temp_obj, cache_path): one step, over whatever has that name.
Store(c) ==
  /\ pc[c] = "store"
  /\ \/ /\ tempObj[c] # Absent
        /\ cached' = [cached EXCEPT ![Name(c)] = tempObj[c]]
        /\ tempObj' = [tempObj EXCEPT ![c] = Absent]
        /\ Goto(c, "link") /\ UNCHANGED failures
     \/ Fault(c, "other", "unstored") /\ UNCHANGED <<cached, tempObj>>
  /\ UNCHANGED <<tempAsm, image, rejected, evictions>>

\* mutant: waits for the object of the run that was faster
LookAgainWaits(c) ==
  /\ pc[c] = "unstored"
  /\ cached[Name(c)] # Absent
  /\ Goto(c, "lost")
  /\ UNCHANGED <<cached, tempAsm, tempObj, image, failures, rejected, evictions>>

\* After a failed rename: did another run store the object meanwhile?
LookAgain(c) ==
  /\ pc[c] = "unstored"
  /\ Goto(c, IF cached[Name(c)] = Absent THEN "refused" ELSE "lost")
  /\ UNCHANGED <<cached, tempAsm, tempObj, image, failures, rejected, evictions>>

\* mutant: the cached object is removed with the temporary one
RemoveObjBoth(c) ==
  /\ pc[c] \in {"lost", "refused"}
  /\ Goto(c, IF pc[c] = "lost" THEN "link" ELSE "failed")
  /\ tempObj' = [tempObj EXCEPT ![c] = Absent]
  /\ cached' = [cached EXCEPT ![Name(c)] = Absent]
  /\ UNCHANGED <<tempAsm, image, failures, rejected, evictions>>

\* The temporary object is removed, an error of that ignored: on to the link
\* with the other run's object, or to the error return.
RemoveObj(c) ==
  /\ pc[c] \in {"lost", "refused"}
  /\ LET next == IF pc[c] = "lost" THEN "link" ELSE "failed"
     IN \/ /\ tempObj' = [tempObj EXCEPT ![c] = Absent]
           /\ Goto(c, next) /\ UNCHANGED failures
        \/ Fault(c, "remove", next) /\ UNCHANGED tempObj
  /\ UNCHANGED <<cached, tempAsm, image, rejected, evictions>>

\* The linker reads the prepared object, if it is still there; its failure
\* ends the run.
Link(c) ==
  /\ pc[c] = "link"
  /\ \/ /\ cached[Name(c)] # Absent
        /\ image' = [image EXCEPT ![c] = cached[Name(c)]]
        /\ Goto(c, "linked") /\ UNCHANGED failures
     \/ /\ cached[Name(c)] = Absent
        /\ Goto(c, "failed") /\ UNCHANGED <<image, failures>>
     \/ Fault(c, "other", "failed") /\ UNCHANGED image
  /\ UNCHANGED <<cached, tempAsm, tempObj, rejected, evictions>>

\* A run stops where it is; its files stay as they are.
Crash(c) ==
  /\ pc[c] \notin Ended
  /\ Goto(c, "crashed")
  /\ UNCHANGED <<cached, tempAsm, tempObj, image, failures, rejected, evictions>>

\* Someone clears a file out of the cache directory.
Evict ==
  /\ evictions < MaxEvictions
  /\ evictions' = evictions + 1
  /\ \/ \E n \in Names : cached' = [cached EXCEPT ![n] = Absent]
                         /\ UNCHANGED <<tempAsm, tempObj>>
     \/ \E c \in Compilers : tempAsm' = [tempAsm EXCEPT ![c] = Absent]
                             /\ UNCHANGED <<cached, tempObj>>
     \/ \E c \in Compilers : tempObj' = [tempObj EXCEPT ![c] = Absent]
                             /\ UNCHANGED <<cached, tempAsm>>
  /\ UNCHANGED <<pc, image, failures, rejected>>

Step(c) ==
  \/ MakeDir(c) \/ Look(c) \/ OpenAsm(c) \/ FillAsm(c) \/ Spawn(c) \/ Assemble(c)
  \/ RemoveAsm(c) \/ Store(c) \/ LookAgain(c) \/ RemoveObj(c) \/ Link(c)

Next == Evict \/ \E c \in Compilers : Step(c) \/ Crash(c)

\* A run goes on while its process does; nothing makes it crash and nobody has
\* to clear the cache.
Spec == Init /\ [][Next]_vars /\ \A c \in Compilers : WF_vars(Step(c))

-----------------------------------------------------------------------------
\* A program holds the whole runtime object of the text its compiler generated,
\* whatever other runs wrote, left half written or deleted.
LinkedWhole == \A c \in Compilers : pc[c] = "linked" => image[c] = Text[c]

\* Other runs never make a run fail: one that fails had an operation fail, its
\* text refused by the assembler, or files deleted under it.
FailsForCause ==
  \A c \in Compilers :
    pc[c] = "failed" =>
      \/ \E op \in Operations : <<c, op>> \in failures
      \/ c \in rejected \/ evictions > 0

\* A run that ended, well or badly, has removed its temporary files, also when
\* its text was refused or it could not store the object: only a failed write
\* of the text, start of the assembler or removal leaves one, or a crash.
LeavesNothing ==
  \A c \in Compilers :
    /\ pc[c] \in {"linked", "failed"}
    /\ \A op \in {"write", "spawn", "remove"} : <<c, op>> \notin failures
    => tempAsm[c] = Absent /\ tempObj[c] = Absent

\* Every run comes to its end, whatever the other runs do.
RunsEnd == \A c \in Compilers : <>(pc[c] \in Ended)
=============================================================================
