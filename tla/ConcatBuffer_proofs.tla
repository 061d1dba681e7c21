------------------------- MODULE ConcatBuffer_proofs -------------------------
(***************************************************************************)
(* The slices of the scratch buffer stay intact, for every buffer size,    *)
(* number of frames and order of statements, calls, finally bodies,        *)
(* returns and throws, in programs without the idioms of ConcatBuffer.     *)
(*                                                                         *)
(* SlicesIntact is not inductive: a write must be known to lie above every *)
(* live slice.  FramesApart says where the slices of each frame end: below *)
(* the base of every frame above, and below the cursor for the running one *)
(* unless that has just caught an exception, in which case it holds none.  *)
(* NothingDue says that a return value that waits for finally bodies is    *)
(* not a slice: those of the operators are copied to the heap.             *)
(***************************************************************************)
EXTENDS ConcatBuffer, TLAPS

End(s) == s.at + s.len

TypeOK ==
    /\ cursor \in Nat
    /\ buf \in [Cells -> Texts]
    /\ frames \in Seq(Frames)
    /\ Top >= 1

BasesRise ==
    /\ \A j, k \in 1 .. Top : j < k => frames[j].base <= frames[k].base
    /\ ~Running.caught => Running.base <= cursor

FramesApart ==
    /\ \A j, k \in 1 .. Top : j < k => \A s \in frames[j].live : End(s) <= frames[k].base
    /\ \A s \in Running.live : End(s) <= cursor
    /\ \A k \in 1 .. Top : \A s \in frames[k].live : End(s) <= Size

CaughtOnTop ==
    /\ \A k \in 1 .. Top - 1 : ~frames[k].caught
    /\ Running.caught => Running.live = {}

NothingDue == \A k \in 1 .. Top : frames[k].due = {}

Intact == \A k \in 1 .. Top : \A s \in frames[k].live : \A c \in Bytes(s) : buf[c] = s.text

IInv == TypeOK /\ BasesRise /\ FramesApart /\ CaughtOnTop /\ NothingDue /\ Intact

-----------------------------------------------------------------------------
\* One frame of the stack is replaced.
LEMMA Replaced ==
    ASSUME NEW fs \in Seq(Frames), NEW n \in 1 .. Len(fs), NEW f \in Frames,
           NEW gs, gs = [fs EXCEPT ![n] = f]
    PROVE  /\ gs \in Seq(Frames)
           /\ Len(gs) = Len(fs)
           /\ gs[n] = f
           /\ \A k \in 1 .. Len(fs) : k # n => gs[k] = fs[k]
  OBVIOUS

\* The frames above the n-th are dropped.
LEMMA Shortened ==
    ASSUME NEW fs \in Seq(Frames), NEW n \in 1 .. Len(fs), NEW gs, gs = SubSeq(fs, 1, n)
    PROVE  /\ gs \in Seq(Frames)
           /\ Len(gs) = n
           /\ \A k \in 1 .. n : gs[k] = fs[k]
  OBVIOUS

\* A slice written at or above the cursor touches no byte below it.
LEMMA WrittenAbove ==
    ASSUME TypeOK, NEW s \in Slices, cursor <= s.at, End(s) <= Size
    PROVE  /\ Written(s) \in [Cells -> Texts]
           /\ \A c \in Bytes(s) : Written(s)[c] = s.text
           /\ \A c \in Cells : c < cursor => Written(s)[c] = buf[c]
  BY SizeAssumption DEF TypeOK, Slices, End, Written, Bytes, Cells

\* The running frame gains a slice that ends at the new cursor and drops some:
\* what Concat and Itoa have in common.
LEMMA ProduceKeeps ==
    ASSUME IInv, NEW s \in Slices, NEW used, cursor <= s.at, End(s) <= Size,
           ~Running.caught,
           buf' = Written(s), frames' = Holding(used, s), cursor' = End(s)
    PROVE  IInv'
<1>1. /\ cursor \in Nat /\ frames \in Seq(Frames) /\ Top \in Nat /\ Top >= 1
      /\ buf \in [Cells -> Texts]
  BY DEF IInv, TypeOK, Top
<1>2. s.at \in Nat /\ s.len \in Nat /\ End(s) \in Nat /\ cursor <= End(s)
  BY <1>1 DEF Slices, End
<1>4. /\ \A k \in 1 .. Top : frames[k] \in Frames
      /\ Running \in Frames
  BY <1>1 DEF Running, Top
<1>5. [Running EXCEPT !.live = (@ \ used) \cup {s}] \in Frames
  BY <1>4 DEF Frames
<1>6. frames' = [frames EXCEPT ![Top] = [Running EXCEPT !.live = (@ \ used) \cup {s}]]
  BY DEF Holding, Running
<1>3. /\ Top' = Top
      /\ frames' \in Seq(Frames)
      /\ \A k \in 1 .. Top : k # Top => frames'[k] = frames[k]
      /\ frames'[Top] = [Running EXCEPT !.live = (@ \ used) \cup {s}]
  <2> DEFINE f == [Running EXCEPT !.live = (@ \ used) \cup {s}]
  <2>1. f \in Frames /\ frames' = [frames EXCEPT ![Top] = f] /\ Top \in 1 .. Len(frames)
    BY <1>1, <1>5, <1>6 DEF Top
  <2> HIDE DEF f
  <2>2. /\ frames' \in Seq(Frames) /\ Len(frames') = Len(frames) /\ frames'[Top] = f
        /\ \A k \in 1 .. Len(frames) : k # Top => frames'[k] = frames[k]
    BY <1>1, <2>1, Replaced
  <2> QED BY <2>2 DEF Top, f
<1>7. /\ Running'.live = (Running.live \ used) \cup {s}
      /\ Running'.base = Running.base
      /\ Running'.caught = Running.caught
      /\ Running' = frames'[Top]
      /\ \A k \in 1 .. Top : frames'[k].base = frames[k].base /\ frames'[k].due = frames[k].due
  BY <1>1, <1>3, <1>4 DEF Running, Frames
<1>8. TypeOK'
  BY <1>1, <1>2, <1>3, WrittenAbove DEF IInv, TypeOK
<1>9. BasesRise'
  <2>1. Running.base \in Nat /\ Running.base <= cursor
    BY <1>4 DEF IInv, BasesRise, Frames
  <2> QED BY <1>1, <1>2, <1>3, <1>7, <2>1 DEF IInv, BasesRise
<1>10. \A k \in 1 .. Top : \A t \in frames'[k].live : t = s \/ t \in frames[k].live
  BY <1>3, <1>7 DEF Running
<1>11. \A k \in 1 .. Top : \A t \in frames[k].live : t \in Slices /\ End(t) <= cursor /\ End(t) <= Size
  <2> SUFFICES ASSUME NEW k \in 1 .. Top, NEW t \in frames[k].live
               PROVE  t \in Slices /\ End(t) <= cursor /\ End(t) <= Size
    OBVIOUS
  <2>1. t \in Slices /\ End(t) \in Nat
    BY <1>4 DEF Frames, Slices, End
  <2>2. Running.base \in Nat /\ Running.base <= cursor
    BY <1>4 DEF IInv, BasesRise, Frames
  <2>3. CASE k = Top
    BY <2>1, <2>3 DEF IInv, FramesApart, Running
  <2>4. CASE k # Top
    <3>1. k < Top /\ Top \in 1 .. Top
      BY <1>1, <2>4
    <3>2. End(t) <= Running.base
      BY <3>1 DEF IInv, FramesApart, Running
    <3> QED BY <1>1, <2>1, <2>2, <3>2 DEF IInv, FramesApart
  <2> QED BY <2>3, <2>4
<1>12. FramesApart'
  <2>1. \A j, k \in 1 .. Top : j < k => \A t \in frames'[j].live : End(t) <= frames'[k].base
    <3>1. \A j, k \in 1 .. Top : j < k => frames'[j].live = frames[j].live
      BY <1>1, <1>3
    <3> QED BY <1>7, <3>1 DEF IInv, FramesApart
  <2>2. \A t \in Running'.live : End(t) <= cursor'
    BY <1>1, <1>2, <1>7, <1>11 DEF Slices, End, Running
  <2>3. \A k \in 1 .. Top : \A t \in frames'[k].live : End(t) <= Size
    BY <1>10, <1>11
  <2> QED BY <1>3, <2>1, <2>2, <2>3 DEF FramesApart, End
<1>13. CaughtOnTop'
  <2>1. \A k \in 1 .. Top - 1 : k \in 1 .. Top /\ frames'[k] = frames[k]
    BY <1>1, <1>3
  <2> QED BY <1>3, <1>7, <2>1 DEF IInv, CaughtOnTop
<1>14. Intact'
  <2> SUFFICES ASSUME NEW k \in 1 .. Top, NEW t \in frames'[k].live, NEW c \in Bytes(t)
               PROVE  buf'[c] = t.text
    BY <1>3 DEF Intact, Bytes
  <2>1. CASE t = s
    BY <2>1, WrittenAbove DEF IInv
  <2>2. CASE t \in frames[k].live
    <3>1. t \in Slices /\ End(t) <= cursor /\ End(t) <= Size
      BY <1>11, <2>2
    <3>2. c \in Cells /\ c < cursor
      BY <1>1, <3>1, SizeAssumption DEF Slices, End, Bytes, Cells
    <3>3. buf[c] = t.text
      BY <2>2 DEF IInv, Intact
    <3> QED BY <3>2, <3>3, WrittenAbove DEF IInv
  <2> QED BY <1>10, <2>1, <2>2
<1>15. NothingDue'
  BY <1>3, <1>7 DEF IInv, NothingDue
<1> QED BY <1>8, <1>9, <1>12, <1>13, <1>14, <1>15 DEF IInv

-----------------------------------------------------------------------------
LEMMA InitInv == Init => IInv
<1> SUFFICES ASSUME Init PROVE IInv
  OBVIOUS
<1>1. /\ Len(frames) = 1 /\ cursor = 0
      /\ frames[1] = [base |-> 0, live |-> {}, due |-> {}, guarded |-> FALSE, caught |-> FALSE]
      /\ frames \in Seq(Frames)
  BY DEF Init, Frames
<1>2. buf \in [Cells -> Texts]
  BY DEF Init
<1> QED BY <1>1, <1>2 DEF IInv, TypeOK, BasesRise, FramesApart, CaughtOnTop, NothingDue, Intact,
                          Top, Running

\* Every step keeps the invariant in a program that follows a catch with a
\* statement, resets the cursor only between operands, and returns no slice out of a
\* try statement with a finally clause.
LEMMA NextInv == ASSUME Idioms = {}, IInv, [Next]_vars PROVE IInv'
<1>1. /\ cursor \in Nat /\ frames \in Seq(Frames) /\ Top \in Nat /\ Top >= 1
      /\ buf \in [Cells -> Texts]
      /\ Top \in 1 .. Top
  BY DEF IInv, TypeOK, Top
<1>2. /\ \A k \in 1 .. Top : frames[k] \in Frames
      /\ Running \in Frames
  BY <1>1 DEF Running, Top
<1>3. \A k \in 1 .. Top : \A s \in frames[k].live : s \in Slices /\ End(s) \in Nat
  BY <1>2 DEF Frames, Slices, End
<1>4. Evaluating => ~Running.caught
  BY DEF Evaluating
<1>14. Running.due = {}
  BY <1>1 DEF IInv, NothingDue, Running
<1>5. ASSUME NEW guard \in BOOLEAN, NEW due \in {{}, Running.due}, Statement(guard, due) PROVE IInv'
  <2>1. /\ Top' = Top /\ cursor' = Running.base /\ buf' = buf
        /\ \A k \in 1 .. Top : k # Top => frames'[k] = frames[k]
        /\ frames'[Top] = [base |-> Running.base, live |-> {}, due |-> {},
                            guarded |-> guard, caught |-> FALSE]
        /\ frames' \in Seq(Frames)
    <3> DEFINE f == [base |-> Running.base, live |-> {}, due |-> {}, guarded |-> guard, caught |-> FALSE]
    <3>1. f \in Frames
      BY <1>2 DEF Frames
    <3>2. frames' = [frames EXCEPT ![Top] = f] /\ cursor' = Running.base /\ buf' = buf
      BY <1>5, <1>14 DEF Statement
    <3> HIDE DEF f
    <3>3. /\ frames' \in Seq(Frames) /\ Len(frames') = Len(frames) /\ frames'[Top] = f
          /\ \A k \in 1 .. Len(frames) : k # Top => frames'[k] = frames[k]
      BY <1>1, <3>1, <3>2, Replaced DEF Top
    <3> QED BY <3>2, <3>3 DEF Top, f
  <2>6. /\ \A k \in 1 .. Top : frames'[k].base = frames[k].base /\ frames'[k].live \subseteq frames[k].live
        /\ Running' = frames'[Top] /\ Running'.live = {} /\ Running'.base = Running.base
    <3>1. Running = frames[Top] /\ Running' = frames'[Top]
      BY <2>1 DEF Running
    <3>2. frames'[Top].live = {} /\ frames'[Top].base = Running.base
      BY <2>1
    <3> QED BY <2>1, <3>1, <3>2
  <2>2. /\ TypeOK' /\ CaughtOnTop'
    <3>1. Running.base \in Nat
      BY <1>2 DEF Frames
    <3>2. TypeOK'
      BY <1>1, <2>1, <3>1 DEF IInv, TypeOK
    <3>3. \A k \in 1 .. Top - 1 : ~frames[k].caught /\ k \in 1 .. Top /\ k # Top
      BY <1>1 DEF IInv, CaughtOnTop
    <3>4. \A k \in 1 .. Top' - 1 : ~frames'[k].caught
      BY ONLY <2>1, <3>3
    <3>5. Running'.live = {}
      BY <2>6
    <3> QED BY <3>2, <3>4, <3>5 DEF CaughtOnTop
  <2>3. BasesRise'
    BY <1>1, <1>2, <2>1, <2>6 DEF IInv, BasesRise, Frames
  <2>4. FramesApart'
    BY <2>1, <2>6 DEF IInv, FramesApart, End
  <2>5. Intact'
    BY <2>1, <2>6 DEF IInv, Intact, Bytes
  <2>7. NothingDue'
    BY <2>1 DEF IInv, NothingDue
  <2> QED BY <2>2, <2>3, <2>4, <2>5, <2>7 DEF IInv
<1>6. ASSUME Prelude PROVE IInv'
  <2>1. /\ Running.live = {} /\ ~Running.caught /\ frames' = frames /\ buf' = buf
        /\ cursor' = Running.base /\ Running.base \in Nat
    BY <1>2, <1>4, <1>6 DEF Prelude, Frames
  <2> QED BY <1>1, <1>2, <2>1
          DEF IInv, TypeOK, BasesRise, FramesApart, CaughtOnTop, NothingDue, Intact,
              Top, Running, Bytes, End
<1>7. ASSUME NEW used, NEW len \in 0 .. MaxLen, NEW text \in Texts, Concat(used, len, text)
      PROVE  IInv'
  <2> DEFINE s == [at |-> cursor, len |-> len, text |-> text]
  <2>1. s \in Slices /\ End(s) = cursor + len /\ cursor <= s.at
    BY <1>1, SizeAssumption DEF Slices, End
  <2>2. ~Running.caught /\ cursor + len <= Size /\ buf' = Written(s) /\ frames' = Holding(used, s)
        /\ cursor' = cursor + len
    BY <1>4, <1>7 DEF Concat
  <2> HIDE DEF s
  <2> QED BY <2>1, <2>2, ProduceKeeps
<1>8. ASSUME NEW len \in 1 .. MaxLen, NEW text \in Texts, Itoa(len, text) PROVE IInv'
  <2> DEFINE s == [at |-> cursor + Digits - len, len |-> len, text |-> text]
  <2>1. s \in Slices /\ End(s) = cursor + Digits /\ cursor <= s.at
    BY <1>1, <1>8, SizeAssumption DEF Slices, End, Itoa
  <2>2. ~Running.caught /\ cursor + Digits <= Size /\ buf' = Written(s) /\ frames' = Holding({}, s)
        /\ cursor' = cursor + Digits
    BY <1>4, <1>8 DEF Itoa
  <2> HIDE DEF s
  <2> QED BY <2>1, <2>2, ProduceKeeps
<1>9. ASSUME NEW s \in Running.live, Consume(s) PROVE IInv'
  <2>1. /\ Top' = Top /\ cursor' = cursor /\ buf' = buf
        /\ \A k \in 1 .. Top : k # Top => frames'[k] = frames[k]
        /\ frames'[Top] = [Running EXCEPT !.live = @ \ {s}]
        /\ frames' \in Seq(Frames)
    <3>1. [Running EXCEPT !.live = @ \ {s}] \in Frames
      BY <1>2 DEF Frames
    <3>2. frames' = [frames EXCEPT ![Top] = [Running EXCEPT !.live = @ \ {s}]]
      BY <1>9 DEF Consume, Running
    <3> DEFINE f == [Running EXCEPT !.live = @ \ {s}]
    <3>3. f \in Frames /\ frames' = [frames EXCEPT ![Top] = f] /\ Top \in 1 .. Len(frames)
      BY <1>1, <3>1, <3>2 DEF Top
    <3>4. cursor' = cursor /\ buf' = buf
      BY <1>9 DEF Consume
    <3> HIDE DEF f
    <3>5. /\ frames' \in Seq(Frames) /\ Len(frames') = Len(frames) /\ frames'[Top] = f
          /\ \A k \in 1 .. Len(frames) : k # Top => frames'[k] = frames[k]
      BY <1>1, <3>3, Replaced
    <3> QED BY <3>4, <3>5 DEF Top, f
  <2>2. \A k \in 1 .. Top : /\ frames'[k].live \subseteq frames[k].live
                            /\ frames'[k].base = frames[k].base
                            /\ frames'[k].due = frames[k].due
                            /\ frames'[k].caught = frames[k].caught
    BY <1>2, <2>1 DEF Running, Frames
  <2>5. Running' = frames'[Top] /\ Running = frames[Top]
    BY <2>1 DEF Running
  <2>3. TypeOK' /\ BasesRise' /\ CaughtOnTop'
    <3>1. TypeOK' /\ CaughtOnTop'
      <4>1. TypeOK'
        BY <2>1 DEF IInv, TypeOK
      <4>2. \A k \in 1 .. Top - 1 : k \in 1 .. Top /\ frames'[k].caught = frames[k].caught
        BY <1>1, <2>2
      <4>3. Running'.caught = Running.caught /\ Running'.live \subseteq Running.live
        BY <1>1, <2>2, <2>5
      <4> QED BY <2>1, <4>1, <4>2, <4>3 DEF IInv, CaughtOnTop
    <3>2. BasesRise'
      BY <1>1, <2>1, <2>2, <2>5 DEF IInv, BasesRise
    <3> QED BY <3>1, <3>2
  <2>4. FramesApart' /\ Intact'
    BY <1>1, <2>1, <2>2 DEF IInv, FramesApart, Intact, Running, Bytes, End
  <2>6. NothingDue'
    BY <2>1, <2>2 DEF IInv, NothingDue
  <2> QED BY <2>3, <2>4, <2>6 DEF IInv
<1>10. ASSUME Call PROVE IInv'
  <2> DEFINE f == [base |-> cursor, live |-> {}, due |-> {}, guarded |-> FALSE, caught |-> FALSE]
  <2>1. f \in Frames /\ f.base = cursor /\ f.live = {} /\ f.due = {} /\ f.caught = FALSE
    BY <1>1 DEF Frames
  <2>2. frames' = Append(frames, f) /\ cursor' = cursor /\ buf' = buf /\ ~Running.caught
    BY <1>4, <1>10 DEF Call
  <2> HIDE DEF f
  <2>3. /\ Top' = Top + 1
        /\ \A k \in 1 .. Top : frames'[k] = frames[k]
        /\ frames'[Top + 1] = f /\ Running' = f
        /\ frames' \in Seq(Frames)
    BY <1>1, <2>1, <2>2 DEF Top, Running
  <2>4. Running.base \in Nat /\ Running.base <= cursor
    BY <1>2, <2>2 DEF IInv, BasesRise, Frames
  <2>5. \A k \in 1 .. Top : frames[k].base \in Nat /\ frames[k].base <= cursor
    BY <1>1, <1>2, <2>4 DEF IInv, BasesRise, Running, Frames
  <2>6. \A k \in 1 .. Top : \A s \in frames[k].live : End(s) <= cursor
    <3> SUFFICES ASSUME NEW k \in 1 .. Top, NEW s \in frames[k].live PROVE End(s) <= cursor
      OBVIOUS
    <3>1. CASE k = Top
      BY <3>1 DEF IInv, FramesApart, Running
    <3>2. CASE k # Top
      <4>1. End(s) <= Running.base
        BY <1>1, <3>2 DEF IInv, FramesApart, Running
      <4> QED BY <1>1, <1>3, <2>4, <4>1
    <3> QED BY <3>1, <3>2
  <2>11. /\ 1 .. Top' = 1 .. Top + 1
         /\ \A k \in 1 .. Top + 1 : k \in 1 .. Top \/ k = Top + 1
         /\ Top + 1 \notin 1 .. Top /\ Top + 1 \in Nat
         /\ 1 .. Top' - 1 = 1 .. Top
    BY <1>1, <2>3
  <2>12. \A k \in 1 .. Top : /\ frames'[k].base = frames[k].base
                              /\ frames'[k].live = frames[k].live
                              /\ frames'[k].caught = frames[k].caught
    BY <2>3
  <2>13. frames'[Top + 1].base = cursor /\ frames'[Top + 1].live = {} /\ Running'.caught = FALSE
         /\ Running'.live = {} /\ Running'.base = cursor
    BY <2>1, <2>3
  <2>14. TypeOK'
    BY <1>1, <2>2, <2>3, <2>11 DEF IInv, TypeOK
  <2>7. BasesRise'
    <3>1. \A j, k \in 1 .. Top + 1 : j < k => frames'[j].base <= frames'[k].base
      <4> SUFFICES ASSUME NEW j \in 1 .. Top + 1, NEW k \in 1 .. Top + 1, j < k
                   PROVE  frames'[j].base <= frames'[k].base
        OBVIOUS
      <4>1. j \in 1 .. Top
        BY <1>1, <2>11
      <4>2. CASE k \in 1 .. Top
        BY <2>12, <4>1, <4>2 DEF IInv, BasesRise
      <4>3. CASE k = Top + 1
        BY <2>5, <2>12, <2>13, <4>1, <4>3
      <4> QED BY <2>11, <4>2, <4>3
    <3>2. Running'.base <= cursor'
      BY <1>1, <2>2, <2>13
    <3> QED BY <2>11, <3>1, <3>2 DEF BasesRise
  <2>8. CaughtOnTop'
    <3>1. \A k \in 1 .. Top : ~frames[k].caught
      BY <1>1, <2>2 DEF IInv, CaughtOnTop, Running
    <3> QED BY <2>11, <2>12, <2>13, <3>1 DEF CaughtOnTop
  <2>9. FramesApart'
    <3>1. \A j, k \in 1 .. Top + 1 : j < k => \A s \in frames'[j].live : End(s) <= frames'[k].base
      <4> SUFFICES ASSUME NEW j \in 1 .. Top + 1, NEW k \in 1 .. Top + 1, j < k,
                          NEW s \in frames'[j].live
                   PROVE  End(s) <= frames'[k].base
        OBVIOUS
      <4>1. j \in 1 .. Top
        BY <1>1, <2>11
      <4>2. CASE k \in 1 .. Top
        BY <2>12, <4>1, <4>2 DEF IInv, FramesApart
      <4>3. CASE k = Top + 1
        BY <2>6, <2>12, <2>13, <4>1, <4>3
      <4> QED BY <2>11, <4>2, <4>3
    <3>2. \A k \in 1 .. Top + 1 : \A s \in frames'[k].live : End(s) <= Size
      BY <2>11, <2>12, <2>13 DEF IInv, FramesApart
    <3> QED BY <2>11, <2>13, <3>1, <3>2 DEF FramesApart, End
  <2>10. Intact'
    BY <2>2, <2>11, <2>12, <2>13 DEF IInv, Intact, Bytes
  <2>15. NothingDue'
    BY <2>1, <2>3, <2>11 DEF IInv, NothingDue
  <2> QED BY <2>7, <2>8, <2>9, <2>10, <2>14, <2>15 DEF IInv
<1>11. ASSUME NEW result \in {{}, Running.due} \cup {{s} : s \in Running.live}, Return(result)
       PROVE  IInv'
  <2>1. /\ Top > 1 /\ ~Running.caught /\ cursor' = cursor /\ buf' = buf
        /\ result \subseteq Running.live
        /\ Top - 1 \in 1 .. Top /\ Top - 1 < Top
    <3>1. result \subseteq Running.live
      BY <1>14
    <3>2. Top > 1 /\ ~Running.caught /\ cursor' = cursor /\ buf' = buf
      BY <1>4, <1>11 DEF Return
    <3> QED BY <1>1, <3>1, <3>2
  <2>2. /\ Top' = Top - 1
        /\ \A k \in 1 .. Top - 1 : k # Top - 1 => frames'[k] = frames[k]
        /\ frames'[Top - 1] = [frames[Top - 1] EXCEPT !.live = @ \cup result]
        /\ frames' \in Seq(Frames)
    <3> DEFINE fs == SubSeq(frames, 1, Top - 1)
               f == [frames[Top - 1] EXCEPT !.live = @ \cup result]
    <3>1. f \in Frames
      BY <1>2, <2>1 DEF Frames
    <3>2. /\ fs \in Seq(Frames) /\ Len(fs) = Top - 1
          /\ \A k \in 1 .. Top - 1 : fs[k] = frames[k]
      BY <1>1, <2>1, Shortened DEF Top
    <3>3. frames' = [fs EXCEPT ![Top - 1] = f]
      <4>1. frames' = [fs EXCEPT ![Top - 1] = [fs[Top - 1] EXCEPT !.live = @ \cup result]]
        BY <1>11 DEF Return
      <4>2. fs[Top - 1] = frames[Top - 1]
        BY <1>1, <2>1, <3>2
      <4> QED BY <4>1, <4>2
    <3> HIDE DEF fs, f
    <3>4. /\ frames' \in Seq(Frames) /\ Len(frames') = Len(fs) /\ frames'[Top - 1] = f
          /\ \A k \in 1 .. Len(fs) : k # Top - 1 => frames'[k] = fs[k]
      BY <2>1, <3>1, <3>2, <3>3, Replaced
    <3> QED BY <3>2, <3>4 DEF Top, f
  <2>3. /\ Running' = frames'[Top - 1]
        /\ \A k \in 1 .. Top - 1 : /\ frames'[k].base = frames[k].base
                                   /\ frames'[k].due = frames[k].due
                                   /\ frames'[k].caught = frames[k].caught
        /\ Running'.live = frames[Top - 1].live \cup result
        /\ \A k \in 1 .. Top - 1 : k # Top - 1 => frames'[k].live = frames[k].live
    BY <1>1, <1>2, <2>1, <2>2 DEF Running, Frames
  <2>4. /\ Running.base \in Nat /\ Running.base <= cursor
        /\ frames[Top - 1].base \in Nat /\ frames[Top - 1].base <= Running.base
    BY <1>1, <1>2, <2>1 DEF IInv, BasesRise, Running, Frames
  <2>5. \A s \in result : End(s) <= cursor /\ End(s) <= Size /\ \A c \in Bytes(s) : buf[c] = s.text
    BY <1>1, <2>1 DEF IInv, FramesApart, Intact, Running
  <2>6. \A s \in frames[Top - 1].live : End(s) <= cursor
    <3> SUFFICES ASSUME NEW s \in frames[Top - 1].live PROVE End(s) <= cursor
      OBVIOUS
    <3>1. End(s) <= Running.base
      BY <1>1, <2>1 DEF IInv, FramesApart, Running
    <3> QED BY <1>1, <1>3, <2>1, <2>4, <3>1
  <2>7. TypeOK'
    BY <1>1, <2>1, <2>2 DEF IInv, TypeOK
  <2>8. BasesRise'
    <3>1. \A j, k \in 1 .. Top - 1 : j < k => frames'[j].base <= frames'[k].base
      BY <1>1, <2>1, <2>3 DEF IInv, BasesRise
    <3>2. Running'.base <= cursor'
      BY <1>1, <2>1, <2>2, <2>3, <2>4
    <3> QED BY <2>2, <3>1, <3>2 DEF BasesRise
  <2>9. CaughtOnTop'
    <3>1. \A k \in 1 .. Top - 1 : ~frames'[k].caught
      BY <1>1, <2>1, <2>3 DEF IInv, CaughtOnTop
    <3> QED BY <1>1, <2>1, <2>2, <2>3, <3>1 DEF CaughtOnTop
  <2>10. FramesApart'
    <3>1. \A j, k \in 1 .. Top - 1 : j < k => \A s \in frames'[j].live : End(s) <= frames'[k].base
      BY <1>1, <2>1, <2>3 DEF IInv, FramesApart
    <3>2. \A s \in Running'.live : End(s) <= cursor'
      BY <2>1, <2>3, <2>5, <2>6
    <3>3. \A k \in 1 .. Top - 1 : \A s \in frames'[k].live : End(s) <= Size
      BY <1>1, <2>1, <2>3, <2>5 DEF IInv, FramesApart
    <3> QED BY <2>2, <3>1, <3>2, <3>3 DEF FramesApart, End
  <2>11. Intact'
    <3>1. \A k \in 1 .. Top - 1 : \A s \in frames'[k].live : \A c \in Bytes(s) : buf[c] = s.text
      BY <1>1, <2>1, <2>3, <2>5 DEF IInv, Intact
    <3> QED BY <2>1, <2>2, <3>1 DEF Intact, Bytes
  <2>12. NothingDue'
    BY <1>1, <2>1, <2>2, <2>3 DEF IInv, NothingDue
  <2> QED BY <2>7, <2>8, <2>9, <2>10, <2>11, <2>12 DEF IInv
<1>12. ASSUME NEW n \in 1 .. Top, Throw(n) PROVE IInv'
  <2>1. /\ cursor' = 0 /\ buf' = buf /\ Top' = n /\ n \in Nat /\ n >= 1
        /\ \A k \in 1 .. n : k \in 1 .. Top
        /\ \A k \in 1 .. n : k # n => frames'[k] = frames[k]
        /\ frames'[n] = [frames[n] EXCEPT !.live = {}, !.guarded = FALSE, !.caught = TRUE]
        /\ frames' \in Seq(Frames)
    <3> DEFINE fs == SubSeq(frames, 1, n)
               f == [frames[n] EXCEPT !.live = {}, !.guarded = FALSE, !.caught = TRUE]
    <3>1. f \in Frames
      BY <1>2 DEF Frames
    <3>2. /\ fs \in Seq(Frames) /\ Len(fs) = n /\ n \in 1 .. n
          /\ \A k \in 1 .. n : fs[k] = frames[k]
      BY <1>1, Shortened DEF Top
    <3>3. frames' = [fs EXCEPT ![n] = f]
      BY <1>12, <3>2 DEF Throw
    <3> HIDE DEF fs, f
    <3>4. /\ frames' \in Seq(Frames) /\ Len(frames') = Len(fs) /\ frames'[n] = f
          /\ \A k \in 1 .. Len(fs) : k # n => frames'[k] = fs[k]
      BY <3>1, <3>2, <3>3, Replaced
    <3>5. cursor' = 0 /\ buf' = buf
      BY <1>12 DEF Throw
    <3> QED BY <1>1, <3>2, <3>4, <3>5 DEF Top, f
  <2>2. /\ Running' = frames'[n] /\ Running'.live = {} /\ Running'.caught = TRUE
        /\ \A k \in 1 .. n : frames'[k].base = frames[k].base /\ frames'[k].due = frames[k].due
        /\ \A k \in 1 .. n : frames'[k].live \subseteq frames[k].live
        /\ \A k \in 1 .. n - 1 : k \in 1 .. Top - 1 /\ frames'[k].caught = frames[k].caught
    <3>1. Running' = frames'[n]
      BY <2>1 DEF Running
    <3>2. frames[n] \in Frames
      BY <1>2
    <3>3. /\ frames'[n].live = {} /\ frames'[n].caught = TRUE
          /\ frames'[n].base = frames[n].base /\ frames'[n].due = frames[n].due
      BY <2>1, <3>2 DEF Frames
    <3>4. \A k \in 1 .. n - 1 : k \in 1 .. Top - 1 /\ k \in 1 .. n /\ k # n
      BY <1>1, <2>1
    <3> QED BY <2>1, <3>1, <3>3, <3>4
  <2>3. TypeOK' /\ BasesRise' /\ CaughtOnTop'
    BY <1>1, <2>1, <2>2 DEF IInv, TypeOK, BasesRise, CaughtOnTop
  <2>4. FramesApart'
    BY <1>1, <2>1, <2>2 DEF IInv, FramesApart, End
  <2>5. Intact'
    BY <1>1, <2>1, <2>2 DEF IInv, Intact, Bytes
  <2>6. NothingDue'
    BY <2>1, <2>2 DEF IInv, NothingDue
  <2> QED BY <2>3, <2>4, <2>5, <2>6 DEF IInv
<1>15. ASSUME NEW result \in {{}} \cup {{s} : s \in Running.live}, RunFinally(result) PROVE IInv'
  <2>1. /\ Top' = Top /\ cursor' = cursor /\ buf' = buf
        /\ \A k \in 1 .. Top : k # Top => frames'[k] = frames[k]
        /\ frames'[Top] = [Running EXCEPT !.live = {}, !.due = {}]
        /\ frames' \in Seq(Frames)
    <3> DEFINE f == [Running EXCEPT !.live = {}, !.due = {}]
    <3>1. f \in Frames /\ Top \in 1 .. Len(frames)
      BY <1>1, <1>2 DEF Frames, Top
    <3>2. result = {} /\ cursor' = cursor /\ buf' = buf
      BY <1>15 DEF RunFinally
    <3>3. frames' = [frames EXCEPT ![Top] = f]
      BY <1>1, <1>15, <3>2 DEF RunFinally, Running, Top
    <3> HIDE DEF f
    <3>4. /\ frames' \in Seq(Frames) /\ Len(frames') = Len(frames) /\ frames'[Top] = f
          /\ \A k \in 1 .. Len(frames) : k # Top => frames'[k] = frames[k]
      BY <1>1, <3>1, <3>3, Replaced
    <3> QED BY <3>2, <3>4 DEF Top, f
  <2>2. \A k \in 1 .. Top : /\ frames'[k].live \subseteq frames[k].live
                            /\ frames'[k].base = frames[k].base
                            /\ frames'[k].due \subseteq frames[k].due
                            /\ frames'[k].caught = frames[k].caught
    BY <1>2, <2>1 DEF Running, Frames
  <2>3. Running' = frames'[Top] /\ Running = frames[Top]
    BY <2>1 DEF Running
  <2>4. TypeOK' /\ NothingDue'
    BY <2>1, <2>2 DEF IInv, TypeOK, NothingDue
  <2>5. BasesRise'
    BY <1>1, <2>1, <2>2, <2>3 DEF IInv, BasesRise
  <2>6. CaughtOnTop'
    <3>1. \A k \in 1 .. Top - 1 : k \in 1 .. Top /\ frames'[k].caught = frames[k].caught
      BY <1>1, <2>2
    <3>2. Running'.caught = Running.caught /\ Running'.live \subseteq Running.live
      BY <1>1, <2>2, <2>3
    <3> QED BY <2>1, <3>1, <3>2 DEF IInv, CaughtOnTop
  <2>7. FramesApart' /\ Intact'
    BY <1>1, <2>1, <2>2 DEF IInv, FramesApart, Intact, Running, Bytes, End
  <2> QED BY <2>4, <2>5, <2>6, <2>7 DEF IInv
<1>13. ASSUME UNCHANGED vars PROVE IInv'
  BY <1>13 DEF vars, IInv, TypeOK, BasesRise, FramesApart, CaughtOnTop, NothingDue, Intact,
               Top, Running, Bytes, End
<1> QED BY <1>5, <1>6, <1>7, <1>8, <1>9, <1>10, <1>11, <1>12, <1>13, <1>15 DEF Next

-----------------------------------------------------------------------------
\* No operand, argument or return value that a frame still needs is ever overwritten
\* in the scratch buffer, whatever its size, the depth of the calls, the finally bodies
\* and the throws, in a program without the idioms: every catch is followed by a
\* statement, no operand is live across an assignment with statements of its own, and
\* what is returned out of a try with a finally clause has been copied to the heap.
THEOREM SlicesIntactAlways == ASSUME Idioms = {} PROVE Spec => []SlicesIntact
<1>1. IInv => SlicesIntact
  BY DEF IInv, Intact, NothingDue, SlicesIntact, Held
<1>2. Init => IInv
  BY InitInv
<1>3. IInv /\ [Next]_vars => IInv'
  BY NextInv
<1> QED BY <1>1, <1>2, <1>3, PTL DEF Spec

\* The slices of a frame lie below where every frame it called may write, a return
\* value that waits for finally bodies is none of them, and only a frame that has just
\* caught an exception may find the cursor below its base.
THEOREM FramesApartAlways ==
    ASSUME Idioms = {} PROVE Spec => [](BasesRise /\ FramesApart /\ NothingDue)
<1>1. Init => IInv
  BY InitInv
<1>2. IInv /\ [Next]_vars => IInv'
  BY NextInv
<1> QED BY <1>1, <1>2, PTL DEF Spec, IInv

=============================================================================
