----------------------- MODULE GeneratorCounts_proofs -----------------------
(***************************************************************************)
(* Who owns the frames and the boxed values of generators, proved of any   *)
(* number of them for a script that keeps to the protocol of foreach and   *)
(* send (Habits = {}).                                                     *)
(*                                                                         *)
(* The counts follow from how each step changes the slots of one frame, or *)
(* of two, except where a frame is freed: that releases what it shows,     *)
(* returned and was sent but not its local, so a frame must have given its *)
(* local up before anything may free it.  This and the claims of           *)
(* Generators_proofs are the invariant.                                    *)
(***************************************************************************)
EXTENDS Generators_proofs, FiniteSetTheorems

Bit(p) == IF p THEN 1 ELSE 0
Is(x, c) == Bit(x = c)

\* How often a frame, and a heap of frames, refers to the cell c.
In(f, c) == Is(f.last, c) + Is(f.ret, c) + Is(f.sent, c) + Is(f.local, c)
Slots(fs, c) == {h \in Gens \X Fields : fs[h[1]][h[2]] = c}
Held(fs, c) == Cardinality(Slots(fs, c))

Balanced == \A c \in Cells : cells[c] = Held(gens, c) + Is(got, c)

\* A method that gives a value to the script knows its generator.
OpFits == op.name # "none" => op.gen \in Gens

\* A finished generator keeps a local only where throw() finished it, and the
\* script then still holds it; a frame being freed has none, nor have the
\* delegates that are freed after it.
LocalsGone ==
    /\ \A g \in Gens : gens[g].terminated /\ g \notin vars => gens[g].local = None
    /\ \A d \in Gens : doomed = <<d>> =>
          /\ gens[d].local = None
          /\ gens[d].iter # None =>
                \A h \in Gens : gens[h].live /\ h \notin vars => gens[h].local = None

\* No frame is lost.
Owned(g) ==
    \/ g \in vars \/ doomed = <<g>>
    \/ \E h \in Gens : gens[h].live /\ gens[h].owned /\ gens[h].iter = g

AllOwned == \A g \in Gens : gens[g].live => Owned(g)

CInv == TypeOK /\ OpFits /\ Balanced /\ LocalsGone /\ AllOwned

-----------------------------------------------------------------------------
(* Counting. *)

LEMMA TakeOut ==
    ASSUME NEW T, IsFiniteSet(T), NEW x
    PROVE  /\ IsFiniteSet(T \ {x}) /\ Cardinality(T) \in Nat /\ Cardinality(T \ {x}) \in Nat
           /\ Cardinality(T) = Cardinality(T \ {x}) + Bit(x \in T)
<1>1. IsFiniteSet(T \ {x})
      /\ Cardinality(T \ {x}) = IF x \in T THEN Cardinality(T) - 1 ELSE Cardinality(T)
  BY FS_RemoveElement
<1>2. Cardinality(T) \in Nat /\ Cardinality(T \ {x}) \in Nat
  BY <1>1, FS_CardinalityType
<1> QED BY <1>1, <1>2 DEF Bit

LEMMA AtMostFour ==
    ASSUME NEW T, NEW a, NEW b, NEW c, NEW d, T \subseteq {a, b, c, d},
           a # b, a # c, a # d, b # c, b # d, c # d
    PROVE  /\ IsFiniteSet(T)
           /\ Cardinality(T) = Bit(a \in T) + Bit(b \in T) + Bit(c \in T) + Bit(d \in T)
<1> DEFINE A == T \ {a}
           B == A \ {b}
           C == B \ {c}
           D == C \ {d}
<1>1. IsFiniteSet(T)
  <2>1. IsFiniteSet({a}) /\ {a, b} = {a} \cup {b} /\ {a, b, c} = {a, b} \cup {c}
        /\ {a, b, c, d} = {a, b, c} \cup {d}
    BY FS_Singleton
  <2>2. IsFiniteSet({a, b})
    BY <2>1, FS_AddElement
  <2>3. IsFiniteSet({a, b, c})
    BY <2>1, <2>2, FS_AddElement
  <2>4. IsFiniteSet({a, b, c, d})
    BY <2>1, <2>3, FS_AddElement
  <2> QED BY <2>4, FS_Subset
<1>2. /\ IsFiniteSet(A) /\ Cardinality(A) \in Nat /\ Cardinality(T) = Cardinality(A) + Bit(a \in T)
  BY <1>1, TakeOut
<1>3. /\ IsFiniteSet(B) /\ Cardinality(B) \in Nat /\ Cardinality(A) = Cardinality(B) + Bit(b \in A)
  BY <1>2, TakeOut
<1>4. /\ IsFiniteSet(C) /\ Cardinality(C) \in Nat /\ Cardinality(B) = Cardinality(C) + Bit(c \in B)
  BY <1>3, TakeOut
<1>5. /\ Cardinality(D) \in Nat /\ Cardinality(C) = Cardinality(D) + Bit(d \in C)
  BY <1>4, TakeOut
<1>6. D = {} /\ (b \in A <=> b \in T) /\ (c \in B <=> c \in T) /\ (d \in C <=> d \in T)
  OBVIOUS
<1> HIDE DEF A, B, C, D
<1>7. Cardinality(D) = 0
  BY <1>6, FS_EmptySet
<1> QED BY <1>1, <1>2, <1>3, <1>4, <1>5, <1>6, <1>7 DEF Bit

\* The four slots of one frame that refer to c.
OfFrame(g, f, c) == {h \in {g} \X Fields : f[h[2]] = c}

LEMMA FrameSlots ==
    ASSUME NEW g \in Gens, NEW f \in Frame, NEW c
    PROVE  IsFiniteSet(OfFrame(g, f, c)) /\ Cardinality(OfFrame(g, f, c)) = In(f, c)
<1> DEFINE T == OfFrame(g, f, c)
<1>1. T \subseteq {<<g, "last">>, <<g, "ret">>, <<g, "sent">>, <<g, "local">>}
  BY DEF OfFrame, Fields
<1>2. /\ <<g, "last">> \in T <=> f.last = c
      /\ <<g, "ret">> \in T <=> f.ret = c
      /\ <<g, "sent">> \in T <=> f.sent = c
      /\ <<g, "local">> \in T <=> f.local = c
  BY DEF OfFrame, Fields
<1>3. /\ IsFiniteSet(T)
      /\ Cardinality(T) = Bit(<<g, "last">> \in T) + Bit(<<g, "ret">> \in T)
                          + Bit(<<g, "sent">> \in T) + Bit(<<g, "local">> \in T)
  <2> HIDE DEF T
  <2>1. /\ <<g, "last">> # <<g, "ret">> /\ <<g, "last">> # <<g, "sent">>
        /\ <<g, "last">> # <<g, "local">> /\ <<g, "ret">> # <<g, "sent">>
        /\ <<g, "ret">> # <<g, "local">> /\ <<g, "sent">> # <<g, "local">>
    OBVIOUS
  <2> QED BY ONLY <1>1, <2>1, AtMostFour DEF Bit
<1> QED BY <1>2, <1>3 DEF Bit, Is, In

Moved(fs, g, f) == [fs EXCEPT ![g] = f]

\* Replacing one frame moves a count by what the two frames differ in.
LEMMA HeldMoves ==
    ASSUME NEW fs \in [Gens -> Frame], NEW g \in Gens, NEW f \in Frame, NEW c
    PROVE  /\ Held(fs, c) \in Nat /\ Held(Moved(fs, g, f), c) \in Nat
           /\ Held(Moved(fs, g, f), c) + In(fs[g], c) = Held(fs, c) + In(f, c)
<1> PICK gs : gs = [fs EXCEPT ![g] = f]
  OBVIOUS
<1> DEFINE Rest == {h \in Gens \X Fields : h[1] # g /\ fs[h[1]][h[2]] = c}
<1>1. gs \in [Gens -> Frame] /\ gs[g] = f /\ \A h \in Gens : h # g => gs[h] = fs[h]
  BY OneFrame
<1>2. /\ Slots(fs, c) = Rest \cup OfFrame(g, fs[g], c)
      /\ Rest \cap OfFrame(g, fs[g], c) = {}
  BY DEF Slots, OfFrame
<1>3. /\ Slots(gs, c) = Rest \cup OfFrame(g, f, c)
      /\ Rest \cap OfFrame(g, f, c) = {}
  BY <1>1 DEF Slots, OfFrame
<1>4. IsFiniteSet(Rest) /\ Cardinality(Rest) \in Nat
  <2>1. IsFiniteSet(Fields)
    <3>1. Fields \subseteq {"last", "ret", "sent", "local"}
      BY DEF Fields
    <3> QED BY <3>1, AtMostFour
  <2>2. IsFiniteSet(Gens \X Fields)
    BY <2>1, GensAssumption, FS_Product
  <2> QED BY <2>2, FS_Subset, FS_CardinalityType
<1> HIDE DEF Rest
<1>5. ASSUME NEW e \in Frame, Rest \cap OfFrame(g, e, c) = {}
      PROVE  /\ Cardinality(Rest \cup OfFrame(g, e, c)) = Cardinality(Rest) + In(e, c)
             /\ In(e, c) \in Nat
  <2>1. IsFiniteSet(OfFrame(g, e, c)) /\ Cardinality(OfFrame(g, e, c)) = In(e, c)
    BY FrameSlots
  <2>2. In(e, c) \in Nat /\ Cardinality({}) = 0
    BY FS_EmptySet DEF In, Is, Bit
  <2>3. Cardinality(Rest \cup OfFrame(g, e, c))
        = Cardinality(Rest) + Cardinality(OfFrame(g, e, c)) - Cardinality({})
    BY <1>4, <1>5, <2>1, FS_Union
  <2> QED BY <1>4, <2>1, <2>2, <2>3
<1>6. fs[g] \in Frame
  OBVIOUS
<1>7. Held(fs, c) = Cardinality(Rest) + In(fs[g], c) /\ In(fs[g], c) \in Nat
  BY <1>2, <1>5, <1>6 DEF Held
<1>8. Held(gs, c) = Cardinality(Rest) + In(f, c) /\ In(f, c) \in Nat
  BY <1>3, <1>5 DEF Held
<1>9. gs = Moved(fs, g, f)
  BY DEF Moved
<1>10. Held(gs, c) = Held(Moved(fs, g, f), c)
  BY ONLY <1>9
<1> QED BY <1>4, <1>7, <1>8, <1>10

\* The multiplicities Count works with.
LEMMA TimesFacts ==
    ASSUME NEW c
    PROVE  /\ Times(c, <<>>) = 0
           /\ \A x : Times(c, <<x>>) = Is(x, c)
           /\ \A x, y : Times(c, <<x, y>>) = Is(x, c) + Is(y, c)
           /\ \A x, y, z : Times(c, <<x, y, z>>) = Is(x, c) + Is(y, c) + Is(z, c)
<1>1. ASSUME NEW s, DOMAIN s \subseteq 1..3
      PROVE  Times(c, s) = Bit(1 \in DOMAIN s /\ s[1] = c) + Bit(2 \in DOMAIN s /\ s[2] = c)
                           + Bit(3 \in DOMAIN s /\ s[3] = c)
  <2> DEFINE T == {k \in DOMAIN s : s[k] = c}
  <2>1. /\ T \subseteq {1, 2, 3, 4} /\ 4 \notin T
        /\ 1 \in T <=> 1 \in DOMAIN s /\ s[1] = c
        /\ 2 \in T <=> 2 \in DOMAIN s /\ s[2] = c
        /\ 3 \in T <=> 3 \in DOMAIN s /\ s[3] = c
    BY <1>1
  <2> HIDE DEF T
  <2>2. Cardinality(T) = Bit(1 \in T) + Bit(2 \in T) + Bit(3 \in T) + Bit(4 \in T)
    <3>1. PICK i, j, k, l : i = 1 /\ j = 2 /\ k = 3 /\ l = 4
      OBVIOUS
    <3>2. /\ T \subseteq {i, j, k, l}
          /\ i # j /\ i # k /\ i # l /\ j # k /\ j # l /\ k # l
      BY <2>1, <3>1
    <3>3. Cardinality(T) = Bit(i \in T) + Bit(j \in T) + Bit(k \in T) + Bit(l \in T)
      BY ONLY <3>2, AtMostFour DEF Bit
    <3> QED BY ONLY <3>1, <3>3 DEF Bit
  <2>3. Times(c, s) = Cardinality(T)
    BY DEF Times, T
  <2> QED BY <2>1, <2>2, <2>3 DEF Bit
<1>2. Times(c, <<>>) = 0
  BY <1>1 DEF Bit, Is
<1>3. ASSUME NEW x PROVE Times(c, <<x>>) = Is(x, c)
  BY <1>1 DEF Bit, Is
<1>4. ASSUME NEW x, NEW y PROVE Times(c, <<x, y>>) = Is(x, c) + Is(y, c)
  BY <1>1 DEF Bit, Is
<1>5. ASSUME NEW x, NEW y, NEW z
      PROVE  Times(c, <<x, y, z>>) = Is(x, c) + Is(y, c) + Is(z, c)
  BY <1>1 DEF Bit, Is
<1> QED BY <1>2, <1>3, <1>4, <1>5

LEMMA HeldNat ==
    ASSUME NEW fs \in [Gens -> Frame], NEW c
    PROVE  Held(fs, c) \in Nat
<1>1. IsFiniteSet(Gens \X Fields)
  <2>1. IsFiniteSet(Fields)
    <3>1. Fields \subseteq {"last", "ret", "sent", "local"}
      BY DEF Fields
    <3> QED BY <3>1, AtMostFour
  <2> QED BY <2>1, GensAssumption, FS_Product
<1>2. Slots(fs, c) \in SUBSET (Gens \X Fields)
  BY DEF Slots
<1> QED BY <1>1, <1>2, FS_Subset, FS_CardinalityType DEF Held

-----------------------------------------------------------------------------
(* The steps. *)

Settled(c) == cells'[c] = Held(gens', c) + Is(got', c)

\* What is left to show of a step once its counts are settled.
LEMMA StepKeeps ==
    ASSUME IInv', CInv, \A c \in Cells : Settled(c),
           cells' = [c \in Cells |-> cells'[c]],
           got' \in Cells \cup {None}, phase' \in Phases, doomed' \in Seq(Gens),
           \/ op' = op
           \/ op' = NoOp
           \/ \E name \in {"rewind", "current", "next", "send"}, h \in Gens :
                 op' = [name |-> name, gen |-> h],
           LocalsGone', AllOwned'
    PROVE  CInv'
<1>1. Typed' /\ gens' \in [Gens -> Frame]
  BY DEF IInv, Typed
<1>2. \A c \in Cells : cells'[c] \in Nat
  BY <1>1, HeldNat DEF Settled, Is, Bit
<1>3. Balanced'
  BY DEF Balanced, Settled
<1>4. /\ op' \in [name: {"none", "rewind", "current", "next", "send"}, gen: Gens \cup {None}]
      /\ OpFits'
  BY DEF CInv, TypeOK, OpFits, NoOp
<1>5. cells' \in [Cells -> Nat]
  BY <1>2
<1> QED BY <1>1, <1>3, <1>4, <1>5 DEF CInv, TypeOK, Typed

\* The counts are unchanged with the frames' slots.
LEMMA SameSlots ==
    ASSUME CInv, gens \in [Gens -> Frame], gens' \in [Gens -> Frame], UNCHANGED <<cells, got>>,
           \A g \in Gens : /\ gens'[g].last = gens[g].last /\ gens'[g].ret = gens[g].ret
                           /\ gens'[g].sent = gens[g].sent /\ gens'[g].local = gens[g].local
    PROVE  /\ \A c \in Cells : Settled(c)
           /\ cells' = [c \in Cells |-> cells'[c]]
           /\ got' \in Cells \cup {None}
<1>1. ASSUME NEW c \in Cells PROVE Slots(gens', c) = Slots(gens, c)
  <2>1. \A g \in Gens : \A k \in Fields : gens'[g][k] = gens[g][k]
    BY DEF Fields
  <2> QED BY <2>1 DEF Slots
<1>2. \A c \in Cells : Settled(c)
  BY <1>1 DEF Settled, Held, CInv, Balanced
<1> QED BY <1>2 DEF CInv, TypeOK

\* Nothing is freed: the owners stay and what is new has one.
LEMMA OwnersKept ==
    ASSUME LocalsGone, AllOwned, doomed = <<>>, doomed' = <<>>, vars \subseteq vars',
           \A h \in Gens :
               /\ gens[h].live /\ gens[h].owned
                      => gens'[h].live /\ gens'[h].owned /\ gens'[h].iter = gens[h].iter
               /\ gens'[h].live => gens[h].live \/ Owned(h)'
               /\ gens'[h].terminated /\ h \notin vars' => gens'[h].local = None
    PROVE  LocalsGone' /\ AllOwned'
<1>1. \A d \in Gens : doomed # <<d>> /\ doomed' # <<d>>
  OBVIOUS
<1>2. LocalsGone'
  BY <1>1 DEF LocalsGone
<1>3. ASSUME NEW h \in Gens, gens[h].live PROVE Owned(h)'
  <2>1. Owned(h)
    BY <1>3 DEF AllOwned
  <2>2. CASE h \in vars
    BY <2>2 DEF Owned
  <2>3. CASE \E k \in Gens : gens[k].live /\ gens[k].owned /\ gens[k].iter = h
    BY <2>3 DEF Owned
  <2> QED BY <1>1, <2>1, <2>2, <2>3 DEF Owned
<1> QED BY <1>2, <1>3 DEF AllOwned

\* The usual case: one frame that is in use changes, and stays in use.
LEMMA OwnersOneFrame ==
    ASSUME IInv, LocalsGone, AllOwned, doomed = <<>>, UNCHANGED <<vars, doomed>>,
           NEW g \in Gens, NEW f \in Frame, gens' = [gens EXCEPT ![g] = f],
           gens[g].live, f.live,
           gens[g].owned => f.owned /\ f.iter = gens[g].iter,
           f.terminated /\ g \notin vars => f.local = None
    PROVE  LocalsGone' /\ AllOwned'
<1>1. gens'[g] = f /\ \A h \in Gens : h # g => gens'[h] = gens[h]
  BY OneFrame, Basics
<1> QED BY <1>1, OwnersKept DEF LocalsGone

LEMMA CreateCounts ==
    ASSUME IInv, IInv', CInv, NEW g \in Gens, NEW a \in Gens \cup {None}, Create(g, a)
    PROVE  CInv'
<1>1. /\ phase = "rest" /\ doomed = <<>> /\ ~gens[g].live
      /\ vars' = vars \cup {g} /\ gens' = [gens EXCEPT ![g] = NewFrame(a)]
      /\ UNCHANGED <<cells, got, stack, phase, op, doomed>>
  BY DEF Create, AtRest
<1>2. NewFrame(a) \in Frame /\ gens \in [Gens -> Frame] /\ gens[g] = Blank
  BY <1>1 DEF NewFrame, Blank, Frame, Labels, IInv, Typed, FramesSound
<1>3. /\ gens' \in [Gens -> Frame]
      /\ gens'[g] = NewFrame(a)
      /\ \A h \in Gens : h # g => gens'[h] = gens[h]
  BY <1>1, <1>2, OneFrame
<1>4. /\ \A c \in Cells : Settled(c)
      /\ cells' = [c \in Cells |-> cells'[c]]
      /\ got' \in Cells \cup {None}
  BY <1>1, <1>2, <1>3, SameSlots DEF NewFrame, Blank
<1>5. LocalsGone' /\ AllOwned'
  <2>1. ~gens'[g].terminated /\ Owned(g)'
    BY <1>1, <1>3 DEF NewFrame, Blank, Owned
  <2> QED BY <1>1, <1>3, <2>1, OwnersKept DEF CInv, LocalsGone
<1> QED BY <1>1, <1>4, <1>5, StepKeeps DEF CInv, TypeOK

LEMMA ReadCounts ==
    ASSUME IInv, IInv', CInv, UNCHANGED <<gens, vars, doomed, stack>>, doomed = <<>>,
           NEW v \in Cells \cup {None}, Give(v), phase' \in Phases, op' \in {op, NoOp}
    PROVE  CInv'
<1>1. got' = v /\ cells' = [c \in Cells |-> cells[c] + Times(c, <<v>>) - Times(c, <<got>>)]
  BY DEF Give, Count
<1>2. ASSUME NEW c \in Cells PROVE Settled(c)
  <2>1. cells'[c] = cells[c] + Is(v, c) - Is(got, c)
    BY <1>1, TimesFacts
  <2>2. cells[c] = Held(gens, c) + Is(got, c) /\ Held(gens, c) \in Nat
    BY HeldNat, Basics DEF CInv, Balanced
  <2> QED BY <1>1, <2>1, <2>2 DEF Settled, Is, Bit
<1>3. LocalsGone' /\ AllOwned'
  BY OwnersKept DEF CInv, LocalsGone
<1> QED BY <1>1, <1>2, <1>3, StepKeeps DEF CInv, TypeOK

LEMMA Tallies ==
    /\ \A x, c : Is(x, c) \in Nat
    /\ \A f, c : In(f, c) \in Nat
  BY DEF In, Is, Bit

\* One frame changes: its slots and the script's variable account for it.
LEMMA FrameSettles ==
    ASSUME IInv, CInv, NEW g \in Gens, NEW f \in Frame, gens' = [gens EXCEPT ![g] = f],
           NEW c \in Cells, cells'[c] \in Int,
           cells'[c] + In(gens[g], c) + Is(got, c) = cells[c] + In(f, c) + Is(got', c)
    PROVE  Settled(c)
<1>1. /\ Held(gens, c) \in Nat /\ Held(gens', c) \in Nat
      /\ Held(gens', c) + In(gens[g], c) = Held(gens, c) + In(f, c)
  <2>1. gens \in [Gens -> Frame] /\ gens' = Moved(gens, g, f)
    BY Basics DEF Moved
  <2>2. Held(gens', c) = Held(Moved(gens, g, f), c)
    BY ONLY <2>1
  <2> QED BY ONLY <2>1, <2>2, HeldMoves, g \in Gens, f \in Frame
<1>2. cells[c] = Held(gens, c) + Is(got, c) /\ cells[c] \in Nat
  BY DEF CInv, Balanced, TypeOK
<1>3. In(gens[g], c) \in Nat /\ In(f, c) \in Nat /\ Is(got, c) \in Nat /\ Is(got', c) \in Nat
  BY Tallies
<1> QED BY <1>1, <1>2, <1>3 DEF Settled

\* What Count does to one count.
LEMMA Counting ==
    ASSUME CInv, NEW gains, NEW losses, Count(gains, losses)
    PROVE  /\ \A c \in Cells : cells'[c] = cells[c] + Times(c, gains) - Times(c, losses)
           /\ \A c \in Cells : cells[c] \in Nat
           /\ cells' = [c \in Cells |-> cells'[c]]
           /\ \A c \in Cells : Is(None, c) = 0
  BY NoneAssumption DEF Count, CInv, TypeOK, Is, Bit

LEMMA Exchange ==
    ASSUME CInv, NEW x, NEW y, Count(<<x>>, <<y>>), NEW c \in Cells
    PROVE  cells'[c] = cells[c] + Is(x, c) - Is(y, c) /\ cells[c] \in Nat
<1>1. Times(c, <<x>>) = Is(x, c)
  BY TimesFacts
<1>2. Times(c, <<y>>) = Is(y, c)
  BY TimesFacts
<1>3. cells'[c] = cells[c] + Times(c, <<x>>) - Times(c, <<y>>) /\ cells[c] \in Nat
  BY Counting
<1> QED BY <1>1, <1>2, <1>3

LEMMA ExchangeTwo ==
    ASSUME CInv, NEW x, NEW y, NEW z, Count(<<x>>, <<y, z>>), NEW c \in Cells
    PROVE  /\ cells'[c] = cells[c] + Is(x, c) - (Is(y, c) + Is(z, c))
           /\ cells[c] \in Nat /\ Is(None, c) = 0
<1>1. Times(c, <<x>>) = Is(x, c)
  BY TimesFacts
<1>2. Times(c, <<y, z>>) = Is(y, c) + Is(z, c)
  BY TimesFacts
<1>3. /\ cells'[c] = cells[c] + Times(c, <<x>>) - Times(c, <<y, z>>)
      /\ cells[c] \in Nat /\ Is(None, c) = 0
  BY Counting
<1> QED BY <1>1, <1>2, <1>3

\* rewind, current, next and send.
LEMMA EnterCounts ==
    ASSUME IInv, IInv', CInv, NEW g \in Gens,
           \/ \E name \in {"rewind", "current"} : Start(g, name)
           \/ CallNext(g)
           \/ \E c \in Cells : Send(g, c)
    PROVE  CInv'
<1>1. /\ phase = "rest" /\ doomed = <<>> /\ g \in vars /\ phase' = "dispatch"
      /\ UNCHANGED <<vars, got, doomed>>
      /\ \E name \in {"rewind", "current", "next", "send"} : op' = [name |-> name, gen |-> g]
  BY DEF Start, CallNext, Send, Asks, AtRest, Enter
<1>2. gens[g] \in Frame /\ gens[g].live /\ gens[g].sent = None
  BY <1>1, Basics, Resting
<1>3. CASE \E name \in {"rewind", "current"} : Start(g, name)
  <2> DEFINE f == [gens[g] EXCEPT !.rewound = TRUE]
  <2>1. gens' = [gens EXCEPT ![g] = f] /\ UNCHANGED cells
    BY <1>3 DEF Start
  <2>2. /\ f \in Frame /\ f.live /\ f.owned = gens[g].owned /\ f.iter = gens[g].iter
        /\ f.last = gens[g].last /\ f.ret = gens[g].ret
        /\ f.sent = gens[g].sent /\ f.local = gens[g].local
    BY <1>2 DEF Frame
  <2> HIDE DEF f
  <2>3. gens' \in [Gens -> Frame] /\ gens'[g] = f /\ \A h \in Gens : h # g => gens'[h] = gens[h]
    BY <2>1, <2>2, OneFrame, Basics
  <2>4. /\ \A c \in Cells : Settled(c)
        /\ cells' = [c \in Cells |-> cells'[c]] /\ got' \in Cells \cup {None}
    BY <1>1, <2>1, <2>2, <2>3, SameSlots, Basics
  <2>5. LocalsGone' /\ AllOwned'
    BY <1>1, <1>2, <2>1, <2>2, OwnersOneFrame DEF CInv
  <2> QED BY <1>1, <2>4, <2>5, StepKeeps DEF CInv, TypeOK, Phases
<1>4. CASE CallNext(g)
  <2>1. UNCHANGED <<gens, cells>>
    BY <1>4 DEF CallNext
  <2>2. /\ \A c \in Cells : Settled(c)
        /\ cells' = [c \in Cells |-> cells'[c]] /\ got' \in Cells \cup {None}
    BY <1>1, <2>1, SameSlots, Basics
  <2>3. LocalsGone' /\ AllOwned'
    BY <1>1, <2>1, OwnersKept DEF CInv, LocalsGone
  <2> QED BY <1>1, <2>2, <2>3, StepKeeps DEF CInv, TypeOK, Phases
<1>5. CASE \E c \in Cells : Send(g, c)
  <2> PICK b \in Cells : Send(g, b)
    BY <1>5
  <2> DEFINE f == [gens[g] EXCEPT !.sent = b]
  <2>1. gens' = [gens EXCEPT ![g] = f] /\ Count(<<b>>, <<>>)
    BY DEF Send
  <2>2. /\ f \in Frame /\ f.live /\ f.owned = gens[g].owned /\ f.iter = gens[g].iter
        /\ f.last = gens[g].last /\ f.ret = gens[g].ret /\ f.sent = b /\ f.local = gens[g].local
    BY <1>2 DEF Frame
  <2> HIDE DEF f
  <2>3. ASSUME NEW c \in Cells PROVE Settled(c)
    <3>1. cells'[c] = cells[c] + Is(b, c) /\ cells[c] \in Nat /\ Is(None, c) = 0
      BY <2>1, Counting, TimesFacts DEF Is, Bit
    <3>2. In(f, c) = In(gens[g], c) + Is(b, c)
      BY <1>2, <2>2, <3>1 DEF In, Is, Bit
    <3>3. /\ cells'[c] \in Int
          /\ cells'[c] + In(gens[g], c) + Is(got, c) = cells[c] + In(f, c) + Is(got', c)
      BY <1>1, <3>1, <3>2, Tallies
    <3> QED BY <2>1, <2>2, <3>3, FrameSettles
  <2>4. LocalsGone' /\ AllOwned'
    BY <1>1, <1>2, <2>1, <2>2, OwnersOneFrame DEF CInv
  <2>5. cells' = [c \in Cells |-> cells'[c]]
    BY <2>1, Counting
  <2> QED BY <1>1, <2>3, <2>4, <2>5, StepKeeps DEF CInv, TypeOK, Phases
<1> QED BY <1>3, <1>4, <1>5

LEMMA ThrowCounts ==
    ASSUME IInv, IInv', CInv, NEW g \in Gens, Throw(g)
    PROVE  CInv'
<1>1. /\ doomed = <<>> /\ g \in vars /\ UNCHANGED <<cells, vars, got, stack, phase, op, doomed>>
  BY DEF Throw, Asks, AtRest
<1>2. gens[g] \in Frame /\ gens[g].live
  BY <1>1, Basics
<1> DEFINE f == [gens[g] EXCEPT !.terminated = TRUE]
<1>3. gens' = [gens EXCEPT ![g] = f]
  BY DEF Throw
<1>4. /\ f \in Frame /\ f.live /\ f.owned = gens[g].owned /\ f.iter = gens[g].iter
      /\ f.last = gens[g].last /\ f.ret = gens[g].ret
      /\ f.sent = gens[g].sent /\ f.local = gens[g].local
  BY <1>2 DEF Frame
<1> HIDE DEF f
<1>5. gens' \in [Gens -> Frame] /\ gens'[g] = f /\ \A h \in Gens : h # g => gens'[h] = gens[h]
  BY <1>3, <1>4, OneFrame, Basics
<1>6. /\ \A c \in Cells : Settled(c)
      /\ cells' = [c \in Cells |-> cells'[c]] /\ got' \in Cells \cup {None}
  BY <1>1, <1>4, <1>5, SameSlots, Basics
<1>7. LocalsGone' /\ AllOwned'
  BY <1>1, <1>2, <1>3, <1>4, OwnersOneFrame DEF CInv
<1> QED BY <1>1, <1>6, <1>7, StepKeeps DEF CInv, TypeOK

\* What the script gives up has no local, nor has a delegate it will free.
LEMMA DropCounts ==
    ASSUME Habits = {}, IInv, IInv', CInv, NEW g \in Gens, Drop(g)
    PROVE  CInv'
<1>1. /\ doomed = <<>> /\ doomed' = <<g>> /\ vars' = vars \ {g}
      /\ UNCHANGED <<gens, cells, got, stack, phase, op>>
      /\ \A h \in Gens : gens[h].live /\ (h = g \/ h \notin vars) => gens[h].local = None
  BY DEF Drop, Asks, AtRest, Quiet, Habit
<1>2. /\ \A c \in Cells : Settled(c)
      /\ cells' = [c \in Cells |-> cells'[c]] /\ got' \in Cells \cup {None}
  BY <1>1, SameSlots, Basics
<1>3. gens[g].live
  BY Basics DEF Drop, Asks
<1>4. LocalsGone'
  BY <1>1, <1>3 DEF CInv, LocalsGone
<1>5. AllOwned'
  <2>1. \A d \in Gens : doomed # <<d>>
    BY <1>1
  <2> QED BY <1>1, <2>1 DEF CInv, AllOwned, Owned
<1>6. doomed' \in Seq(Gens)
  BY <1>1
<1> QED BY <1>1, <1>2, <1>4, <1>5, <1>6, StepKeeps DEF CInv, TypeOK

\* A step of the resume function of g: its frame changes and the counts follow.
LEMMA BodyCounts ==
    ASSUME IInv, IInv', CInv, NEW g \in Gens, NEW f \in Frame, gens' = [gens EXCEPT ![g] = f],
           doomed = <<>>, UNCHANGED <<vars, got, op, doomed>>, phase' \in Phases,
           gens[g].live, f.live, f.terminated => f.local = None,
           gens[g].owned => f.owned /\ f.iter = gens[g].iter,
           cells' = [c \in Cells |-> cells'[c]],
           \A c \in Cells : /\ cells'[c] \in Int
                            /\ cells'[c] + In(gens[g], c) = cells[c] + In(f, c)
    PROVE  CInv'
<1>1. ASSUME NEW c \in Cells PROVE Settled(c)
  <2>1. /\ cells'[c] \in Int /\ cells'[c] + In(gens[g], c) = cells[c] + In(f, c)
    OBVIOUS
  <2>2. cells[c] \in Nat /\ got' = got
    BY DEF CInv, TypeOK
  <2>3. cells'[c] + In(gens[g], c) + Is(got, c) = cells[c] + In(f, c) + Is(got', c)
    BY ONLY <2>1, <2>2, Tallies
  <2> QED BY <2>1, <2>3, FrameSettles
<1>2. LocalsGone' /\ AllOwned'
  BY OwnersOneFrame DEF CInv
<1> QED BY <1>1, <1>2, StepKeeps DEF CInv, TypeOK

LEMMA Running ==
    ASSUME IInv, NEW g \in Gens, NEW p, p \in {"dispatch", "body", "returned"}, Runs(p, g)
    PROVE  /\ doomed = <<>> /\ phase = p /\ stack # <<>> /\ g = Top /\ InStack(g)
           /\ gens[g] \in Frame /\ gens[g].live /\ ~gens[g].terminated /\ Active(g)
           /\ phase # "dispatch" => \A h \in Gens : gens[h].sent = None
  BY Innermost, Basics DEF Runs

LEMMA LeavePhase == Leave => phase' \in Phases
  BY DEF Leave, Phases

LEMMA DispatchYieldCounts ==
    ASSUME IInv, IInv', CInv, NEW g \in Gens, DispatchYield(g)
    PROVE  CInv'
<1>1. /\ doomed = <<>> /\ gens[g] \in Frame /\ gens[g].live /\ ~gens[g].terminated
      /\ gens[g].at \in {"entry", "plain", "assign"}
      /\ phase' = "body" /\ UNCHANGED <<vars, got, op, doomed>>
  <2>1. Runs("dispatch", g) /\ gens[g].at # "from" /\ phase' = "body"
        /\ UNCHANGED <<vars, got, op, doomed>>
    BY DEF DispatchYield
  <2> QED BY <2>1, Running DEF Frame, Labels
<1>2. \A c \in Cells : cells[c] \in Nat /\ In(gens[g], c) \in Nat
  BY Tallies DEF CInv, TypeOK
<1>3. CASE UNCHANGED <<gens, cells>>
  <2>1. gens' = [gens EXCEPT ![g] = gens[g]]
    BY <1>3, Basics
  <2>2. cells' = [c \in Cells |-> cells'[c]]
    BY <1>3 DEF CInv, TypeOK
  <2>3. \A c \in Cells : cells'[c] \in Int /\ cells'[c] + In(gens[g], c) = cells[c] + In(gens[g], c)
    BY <1>2, <1>3
  <2> QED BY <1>1, <2>1, <2>2, <2>3, BodyCounts DEF Phases
<1>4. CASE gens[g].at = "plain"
  <2> DEFINE f == [gens[g] EXCEPT !.sent = None]
  <2>1. gens' = [gens EXCEPT ![g] = f] /\ Count(<<>>, <<gens[g].sent>>)
    BY <1>4 DEF DispatchYield
  <2>2. /\ f \in Frame /\ f.live /\ ~f.terminated /\ f.owned = gens[g].owned /\ f.iter = gens[g].iter
        /\ f.last = gens[g].last /\ f.ret = gens[g].ret /\ f.sent = None /\ f.local = gens[g].local
    BY <1>1 DEF Frame
  <2> HIDE DEF f
  <2>3. ASSUME NEW c \in Cells
        PROVE  /\ cells'[c] \in Int
               /\ cells'[c] + In(gens[g], c) = cells[c] + In(f, c)
    <3>1. cells'[c] = cells[c] - Is(gens[g].sent, c) /\ cells[c] \in Nat /\ Is(None, c) = 0
      BY <2>1, Counting, TimesFacts DEF Is, Bit
    <3> QED BY <2>2, <3>1 DEF In, Is, Bit
  <2>4. cells' = [c \in Cells |-> cells'[c]]
    BY <2>1, Counting
  <2> QED BY <1>1, <2>1, <2>2, <2>3, <2>4, BodyCounts DEF Phases
<1>5. CASE gens[g].at = "assign" /\ gens[g].sent # None
  <2> DEFINE f == [gens[g] EXCEPT !.sent = None, !.local = gens[g].sent]
  <2>1. gens' = [gens EXCEPT ![g] = f] /\ Count(<<>>, <<gens[g].local>>)
    <3>1. /\ gens' = [gens EXCEPT ![g].sent = None, ![g].local = gens[g].sent]
          /\ Count(<<>>, <<gens[g].local>>)
      BY <1>5 DEF DispatchYield
    <3>2. gens \in [Gens -> Frame]
      BY Basics
    <3> QED BY <3>1, <3>2
  <2>2. /\ f \in Frame /\ f.live /\ ~f.terminated /\ f.owned = gens[g].owned /\ f.iter = gens[g].iter
        /\ f.last = gens[g].last /\ f.ret = gens[g].ret /\ f.sent = None /\ f.local = gens[g].sent
    BY <1>1 DEF Frame
  <2> HIDE DEF f
  <2>3. ASSUME NEW c \in Cells
        PROVE  /\ cells'[c] \in Int
               /\ cells'[c] + In(gens[g], c) = cells[c] + In(f, c)
    <3>1. cells'[c] = cells[c] - Is(gens[g].local, c) /\ cells[c] \in Nat /\ Is(None, c) = 0
      BY <2>1, Counting, TimesFacts DEF Is, Bit
    <3> QED BY <2>2, <3>1 DEF In, Is, Bit
  <2>4. cells' = [c \in Cells |-> cells'[c]]
    BY <2>1, Counting
  <2> QED BY <1>1, <2>1, <2>2, <2>3, <2>4, BodyCounts DEF Phases
<1>6. gens[g].at = "entry" \/ (gens[g].at = "assign" /\ gens[g].sent = None)
      => UNCHANGED <<gens, cells>>
  BY DEF DispatchYield
<1> QED BY <1>1, <1>3, <1>4, <1>5, <1>6

LEMMA YieldCounts ==
    ASSUME IInv, IInv', CInv, NEW g \in Gens, NEW label, NEW v \in Cells \cup {None}, Yield(g, label, v)
    PROVE  CInv'
<1>1. /\ doomed = <<>> /\ gens[g] \in Frame /\ gens[g].live /\ ~gens[g].terminated
      /\ label \in {"plain", "assign"}
      /\ UNCHANGED <<vars, got, op, doomed>> /\ phase' \in Phases
  BY Running, LeavePhase DEF Yield
<1> DEFINE f == [gens[g] EXCEPT !.last = v, !.at = label]
<1>2. gens' = [gens EXCEPT ![g] = f] /\ Count(<<v>>, <<gens[g].last>>)
  <2>1. gens' = [gens EXCEPT ![g].last = v, ![g].at = label] /\ Count(<<v>>, <<gens[g].last>>)
    BY DEF Yield
  <2>2. gens \in [Gens -> Frame]
    BY Basics
  <2> QED BY <2>1, <2>2
<1>3. /\ f \in Frame /\ f.live /\ ~f.terminated /\ f.owned = gens[g].owned /\ f.iter = gens[g].iter
      /\ f.last = v /\ f.ret = gens[g].ret /\ f.sent = gens[g].sent /\ f.local = gens[g].local
  BY <1>1 DEF Frame, Labels
<1> HIDE DEF f
<1>4. ASSUME NEW c \in Cells
      PROVE  /\ cells'[c] \in Int
             /\ cells'[c] + In(gens[g], c) = cells[c] + In(f, c)
  <2>1. cells'[c] = cells[c] + Is(v, c) - Is(gens[g].last, c) /\ cells[c] \in Nat
    BY <1>2, Exchange
  <2> QED BY <1>3, <2>1 DEF In, Is, Bit
<1>5. cells' = [c \in Cells |-> cells'[c]]
  BY <1>2, Counting
<1> QED BY <1>1, <1>2, <1>3, <1>4, <1>5, BodyCounts

LEMMA AssignCounts ==
    ASSUME IInv, IInv', CInv, NEW g \in Gens, NEW v \in Cells, AssignMixed(g, v)
    PROVE  CInv'
<1>1. /\ doomed = <<>> /\ gens[g] \in Frame /\ gens[g].live /\ ~gens[g].terminated
      /\ UNCHANGED <<vars, got, phase, op, doomed>> /\ phase' \in Phases
  BY Running DEF AssignMixed, CInv, TypeOK
<1> DEFINE f == [gens[g] EXCEPT !.local = v]
<1>2. gens' = [gens EXCEPT ![g] = f] /\ Count(<<v>>, <<gens[g].local>>)
  BY DEF AssignMixed
<1>3. /\ f \in Frame /\ f.live /\ ~f.terminated /\ f.owned = gens[g].owned /\ f.iter = gens[g].iter
      /\ f.last = gens[g].last /\ f.ret = gens[g].ret /\ f.sent = gens[g].sent /\ f.local = v
  BY <1>1 DEF Frame
<1> HIDE DEF f
<1>4. ASSUME NEW c \in Cells
      PROVE  /\ cells'[c] \in Int
             /\ cells'[c] + In(gens[g], c) = cells[c] + In(f, c)
  <2>1. cells'[c] = cells[c] + Is(v, c) - Is(gens[g].local, c) /\ cells[c] \in Nat
    BY <1>2, Exchange
  <2> QED BY <1>3, <2>1 DEF In, Is, Bit
<1>5. cells' = [c \in Cells |-> cells'[c]]
  BY <1>2, Counting
<1> QED BY <1>1, <1>2, <1>3, <1>4, <1>5, BodyCounts

LEMMA ForwardCounts ==
    ASSUME IInv, IInv', CInv, NEW g \in Gens, Forward(g)
    PROVE  CInv'
<1>1. /\ doomed = <<>> /\ gens[g] \in Frame /\ gens[g].live /\ ~gens[g].terminated
      /\ UNCHANGED <<vars, got, op, doomed>> /\ phase' \in Phases
      /\ gens[g].iter # None
  <2>1. Runs("returned", g) /\ UNCHANGED <<vars, got, op, doomed>> /\ Leave
    BY DEF Forward
  <2> QED BY <2>1, Running, LeavePhase DEF IInv, StackFollows
<1> PICK v : v = gens[gens[g].iter].last
  OBVIOUS
<1>2. v \in Cells \cup {None}
  BY <1>1, Basics DEF Frame
<1> DEFINE f == [gens[g] EXCEPT !.last = v, !.at = "from"]
<1>3. gens' = [gens EXCEPT ![g] = f] /\ Count(<<v>>, <<gens[g].last>>)
  <2>1. gens' = [gens EXCEPT ![g].last = v, ![g].at = "from"] /\ Count(<<v>>, <<gens[g].last>>)
    BY DEF Forward
  <2>2. gens \in [Gens -> Frame]
    BY Basics
  <2> QED BY <2>1, <2>2
<1>4. /\ f \in Frame /\ f.live /\ ~f.terminated /\ f.owned = gens[g].owned /\ f.iter = gens[g].iter
      /\ f.last = v /\ f.ret = gens[g].ret /\ f.sent = gens[g].sent /\ f.local = gens[g].local
  BY <1>1, <1>2 DEF Frame, Labels
<1> HIDE DEF f
<1>5. ASSUME NEW c \in Cells
      PROVE  /\ cells'[c] \in Int
             /\ cells'[c] + In(gens[g], c) = cells[c] + In(f, c)
  <2>1. cells'[c] = cells[c] + Is(v, c) - Is(gens[g].last, c) /\ cells[c] \in Nat
    BY <1>3, Exchange
  <2> QED BY <1>4, <2>1 DEF In, Is, Bit
<1>6. cells' = [c \in Cells |-> cells'[c]]
  BY <1>3, Counting
<1> QED BY <1>1, <1>3, <1>4, <1>5, <1>6, BodyCounts

LEMMA ReturnCounts ==
    ASSUME IInv, IInv', CInv, NEW g \in Gens, NEW v \in Cells \cup {None}, Return(g, v)
    PROVE  CInv'
<1>1. /\ doomed = <<>> /\ gens[g] \in Frame /\ gens[g].live /\ ~gens[g].terminated
      /\ UNCHANGED <<vars, got, op, doomed>> /\ phase' \in Phases
  BY Running, LeavePhase DEF Return
<1> DEFINE f == [Ended(gens[g]) EXCEPT !.ret = v]
<1>2. gens' = [gens EXCEPT ![g] = f] /\ Count(<<v>>, <<gens[g].ret, gens[g].local>>)
  BY DEF Return
<1>3. /\ f \in Frame /\ f.live /\ f.owned = gens[g].owned /\ f.iter = gens[g].iter
      /\ f.last = gens[g].last /\ f.ret = v /\ f.sent = gens[g].sent /\ f.local = None
  BY <1>1 DEF Frame, Ended
<1> HIDE DEF f
<1>4. ASSUME NEW c \in Cells
      PROVE  /\ cells'[c] \in Int
             /\ cells'[c] + In(gens[g], c) = cells[c] + In(f, c)
  <2>1. /\ cells'[c] = cells[c] + Is(v, c) - (Is(gens[g].ret, c) + Is(gens[g].local, c))
        /\ cells[c] \in Nat /\ Is(None, c) = 0
    BY <1>2, ExchangeTwo
  <2> QED BY <1>3, <2>1 DEF In, Is, Bit
<1>5. cells' = [c \in Cells |-> cells'[c]]
  BY <1>2, Counting
<1> QED BY <1>1, <1>2, <1>3, <1>4, <1>5, BodyCounts

BothReplaced(g, f, i, e) == gens' = [gens EXCEPT ![g] = f, ![i] = e]

\* A delegate is resumed: two frames change.
LEMMA TwoSettle ==
    ASSUME IInv, CInv, NEW g \in Gens, NEW i \in Gens, g # i, NEW f \in Frame, NEW e \in Frame,
           BothReplaced(g, f, i, e), UNCHANGED <<cells, got>>,
           NEW c \in Cells, In(f, c) + In(e, c) = In(gens[g], c) + In(gens[i], c)
    PROVE  Settled(c)
<1> PICK m : m = Moved(gens, g, f)
  OBVIOUS
<1>1. gens \in [Gens -> Frame] /\ m \in [Gens -> Frame] /\ m[i] = gens[i]
  BY Basics DEF Moved
<1>2. /\ Held(gens, c) \in Nat /\ Held(m, c) \in Nat
      /\ Held(m, c) + In(gens[g], c) = Held(gens, c) + In(f, c)
  <2>1. Held(m, c) = Held(Moved(gens, g, f), c)
    BY Zenon
  <2> QED BY ONLY <1>1, <2>1, HeldMoves, g \in Gens, f \in Frame
<1>3. gens' = Moved(m, i, e)
  BY <1>1 DEF Moved, BothReplaced
<1>4. /\ Held(gens', c) \in Nat
      /\ Held(gens', c) + In(gens[i], c) = Held(m, c) + In(e, c)
  <2>1. Held(gens', c) = Held(Moved(m, i, e), c)
    BY ONLY <1>3
  <2> QED BY ONLY <1>1, <2>1, HeldMoves, i \in Gens, e \in Frame
<1>5. cells'[c] = Held(gens, c) + Is(got', c)
  BY DEF CInv, Balanced
<1>6. /\ In(gens[g], c) \in Nat /\ In(gens[i], c) \in Nat
      /\ In(f, c) \in Nat /\ In(e, c) \in Nat
  BY Tallies
<1>7. Held(gens', c) = Held(gens, c)
  BY <1>2, <1>4, <1>6
<1> QED BY <1>5, <1>7 DEF Settled

LEMMA DispatchFromCounts ==
    ASSUME IInv, IInv', CInv, NEW g \in Gens, DispatchFrom(g)
    PROVE  CInv'
<1> DEFINE i == gens[g].iter
           sent == gens[g].sent
<1>1. /\ doomed = <<>> /\ phase = "dispatch" /\ stack # <<>> /\ g = Top /\ i # None
      /\ UNCHANGED <<cells, vars, got, op, doomed>>
  BY DEF DispatchFrom, Runs
<1>2. /\ gens[g] \in Frame /\ InStack(g) /\ Active(g) /\ gens[g].live /\ ~gens[g].terminated
      /\ i \in Gens /\ gens[i] \in Frame /\ Claims(g)
  BY <1>1, Innermost, Basics
<1>3. Suspended(g)
  BY <1>1, <1>2 DEF Suspended
<1>4. Active(i) /\ ~InStack(i) /\ g # i /\ gens[i].live /\ ~gens[i].terminated
      /\ gens[i].sent = None
  BY <1>1, <1>2, <1>3, DelegateOffStack DEF IInv, SuspendedShow, Mirrors, Active, SentAtTop
<1>5. phase' = "dispatch"
  BY <1>4 DEF DispatchFrom, Enter
<1>6. CASE sent = None
  <2>1. gens' = gens
    BY <1>6 DEF DispatchFrom
  <2>2. /\ \A c \in Cells : Settled(c)
        /\ cells' = [c \in Cells |-> cells'[c]] /\ got' \in Cells \cup {None}
    BY <1>1, <2>1, SameSlots, Basics
  <2>3. LocalsGone' /\ AllOwned'
    BY <1>1, <2>1, OwnersKept DEF CInv, LocalsGone
  <2> QED BY <1>1, <1>5, <2>2, <2>3, StepKeeps DEF CInv, TypeOK, Phases
<1>7. CASE sent # None
  <2> DEFINE f == [gens[g] EXCEPT !.sent = None]
             e == [gens[i] EXCEPT !.sent = sent]
  <2>1. gens' = [gens EXCEPT ![g] = f, ![i] = e]
    BY <1>7, <1>2, <1>4, Basics DEF DispatchFrom
  <2>2. /\ f \in Frame /\ f.live /\ ~f.terminated /\ f.owned = gens[g].owned /\ f.iter = gens[g].iter
        /\ f.last = gens[g].last /\ f.ret = gens[g].ret /\ f.sent = None /\ f.local = gens[g].local
    BY <1>2 DEF Frame
  <2>3. /\ e \in Frame /\ e.live /\ ~e.terminated /\ e.owned = gens[i].owned /\ e.iter = gens[i].iter
        /\ e.last = gens[i].last /\ e.ret = gens[i].ret /\ e.sent = sent /\ e.local = gens[i].local
    BY <1>2, <1>4 DEF Frame
  <2> HIDE DEF f, e
  <2>4. ASSUME NEW c \in Cells PROVE Settled(c)
    <3>1. In(f, c) + In(e, c) = In(gens[g], c) + In(gens[i], c)
      BY <1>4, <2>2, <2>3 DEF In, Is, Bit
    <3>2. UNCHANGED <<cells, got>> /\ BothReplaced(g, f, i, e)
      BY <1>1, <2>1 DEF BothReplaced
    <3> HIDE DEF i
    <3> QED BY <1>2, <1>4, <2>2, <2>3, <3>1, <3>2, TwoSettle
  <2>5. cells' = [c \in Cells |-> cells'[c]] /\ got' \in Cells \cup {None}
    BY <1>1 DEF CInv, TypeOK
  <2>6. TwoReplaced(g, f, i, e)
    BY <1>2, <1>4, <2>1, <2>2, <2>3, TwoFrames, Basics
  <2>7. LocalsGone' /\ AllOwned'
    BY <1>1, <1>2, <1>4, <2>2, <2>3, <2>6, OwnersKept DEF CInv, LocalsGone, TwoReplaced
  <2> QED BY <1>1, <1>5, <2>4, <2>5, <2>7, StepKeeps DEF CInv, TypeOK, Phases
<1> QED BY <1>6, <1>7

Calls(f, i) == [f EXCEPT !.iter = i, !.owned = TRUE]
Called(fs, g, i, n) == [fs EXCEPT ![i] = n, ![g].iter = i, ![g].owned = TRUE]

LEMMA CalledFrames ==
    ASSUME NEW fs \in [Gens -> Frame], NEW g \in Gens, NEW i \in Gens, g # i, NEW n \in Frame
    PROVE  /\ Called(fs, g, i, n) \in [Gens -> Frame]
           /\ Called(fs, g, i, n)[g] = Calls(fs[g], i)
           /\ Called(fs, g, i, n)[i] = n
           /\ \A h \in Gens : h # g /\ h # i => Called(fs, g, i, n)[h] = fs[h]
<1> PICK gs : gs = [fs EXCEPT ![i] = n, ![g].iter = i, ![g].owned = TRUE]
  OBVIOUS
<1> PICK a : a = [fs EXCEPT ![i] = n]
  OBVIOUS
<1>1. a \in [Gens -> Frame] /\ a[g] = fs[g] /\ a[i] = n
      /\ \A h \in Gens : h # i => a[h] = fs[h]
  OBVIOUS
<1> PICK f1 : f1 = [fs[g] EXCEPT !.iter = i]
  OBVIOUS
<1> PICK f2 : f2 = [f1 EXCEPT !.owned = TRUE]
  OBVIOUS
<1>2. f1 \in Frame /\ f2 \in Frame
  <2>1. fs[g] \in Frame
    OBVIOUS
  <2>2. f1 \in Frame
    BY <2>1 DEF Frame
  <2> QED BY <2>2 DEF Frame
<1> PICK b : b = [a EXCEPT ![g] = f1]
  OBVIOUS
<1>3. b \in [Gens -> Frame] /\ b[g] = f1 /\ b[i] = n
      /\ \A h \in Gens : h # g => b[h] = a[h]
  BY <1>1, <1>2
<1>4. gs = [b EXCEPT ![g] = f2]
  <2>1. b = [a EXCEPT ![g].iter = i]
    BY <1>1
  <2>2. gs = [[a EXCEPT ![g].iter = i] EXCEPT ![g].owned = TRUE]
    OBVIOUS
  <2>3. gs = [b EXCEPT ![g].owned = TRUE]
    BY ONLY <2>1, <2>2
  <2> QED BY <1>3, <2>3
<1>5. gs \in [Gens -> Frame] /\ gs[g] = f2 /\ \A h \in Gens : h # g => gs[h] = b[h]
  BY <1>2, <1>3, <1>4
<1> PICK f : f = Calls(fs[g], i)
  OBVIOUS
<1>6. f2 = f
  BY DEF Calls
<1>7. gs = Called(fs, g, i, n)
  BY DEF Called
<1>8. /\ gs \in [Gens -> Frame] /\ gs[g] = f /\ gs[i] = n
      /\ \A h \in Gens : h # g /\ h # i => gs[h] = fs[h]
  BY ONLY <1>1, <1>3, <1>5, <1>6, g # i
<1> QED BY <1>7, <1>8

LEMMA DelegateCallCounts ==
    ASSUME IInv, IInv', CInv, NEW g \in Gens, NEW i \in Gens, DelegateCall(g, i)
    PROVE  CInv'
<1>1. /\ doomed = <<>> /\ phase = "body" /\ stack # <<>> /\ g = Top
      /\ ~gens[i].live /\ UNCHANGED <<cells, vars, got, op, doomed>>
  BY DEF DelegateCall, Runs
<1>2. /\ gens[g] \in Frame /\ gens[g].live /\ ~gens[g].terminated /\ g # i
      /\ gens[g].iter = None /\ ~gens[g].owned
  BY <1>1, Innermost, Basics DEF IInv, StackFollows, FramesSound
<1> DEFINE f == Calls(gens[g], i)
           e == [NewFrame(None) EXCEPT !.rewound = TRUE]
           frames == Called(gens, g, i, NewFrame(None))
<1>3. /\ f \in Frame /\ f.live /\ ~f.terminated /\ f.owned /\ f.iter = i
      /\ f.last = gens[g].last /\ f.ret = gens[g].ret
      /\ f.sent = gens[g].sent /\ f.local = gens[g].local
  BY <1>2 DEF Frame, Calls
<1>4. /\ e \in Frame /\ ~e.terminated /\ e.live
      /\ e.last = None /\ e.ret = None /\ e.sent = None /\ e.local = None
      /\ NewFrame(None) \in Frame /\ ~NewFrame(None).rewound
  BY DEF NewFrame, Blank, Frame, Labels
<1>5. /\ frames \in [Gens -> Frame] /\ frames[g] = f /\ frames[i] = NewFrame(None)
      /\ \A h \in Gens : h # g /\ h # i => frames[h] = gens[h]
  <2>1. gens \in [Gens -> Frame] /\ g # i /\ NewFrame(None) \in Frame
    BY <1>2, <1>4, Basics
  <2> QED BY <2>1, CalledFrames
<1>6. /\ gens' = [frames EXCEPT ![i].rewound = TRUE] /\ phase' = "dispatch"
  <2>1. RewindInner(g, i, frames)
    BY DEF DelegateCall, Called
  <2> QED BY <1>4, <1>5, <2>1 DEF RewindInner, Enter
<1>7. e = [frames[i] EXCEPT !.rewound = TRUE]
  BY <1>5
<1> HIDE DEF f, e, frames
<1>8. TwoReplaced(g, f, i, e)
  <2>1. gens' = [frames EXCEPT ![i] = e]
    BY <1>5, <1>6, <1>7
  <2> QED BY <1>2, <1>4, <1>5, <2>1, OneFrame DEF TwoReplaced
<1>9. /\ \A c \in Cells : Settled(c)
      /\ cells' = [c \in Cells |-> cells'[c]] /\ got' \in Cells \cup {None}
  <2>1. gens[i].last = None /\ gens[i].ret = None /\ gens[i].sent = None /\ gens[i].local = None
    BY <1>1 DEF IInv, FramesSound, Blank
  <2> QED BY <1>1, <1>3, <1>4, <1>8, <2>1, SameSlots, Basics DEF TwoReplaced
<1>10. LocalsGone' /\ AllOwned'
  <2>1. Owned(i)'
    BY <1>3, <1>8 DEF Owned, TwoReplaced
  <2> QED BY <1>1, <1>2, <1>3, <1>4, <1>8, <2>1, OwnersKept DEF CInv, LocalsGone, TwoReplaced
<1> QED BY <1>1, <1>6, <1>9, <1>10, StepKeeps DEF CInv, TypeOK, Phases

LEMMA DelegateSlotCounts ==
    ASSUME IInv, IInv', CInv, NEW g \in Gens, DelegateSlot(g)
    PROVE  CInv'
<1> DEFINE i == gens[g].arg
<1>1. /\ doomed = <<>> /\ phase = "body" /\ stack # <<>> /\ g = Top
      /\ i # None /\ gens[i].live /\ UNCHANGED <<cells, vars, got, op, doomed>>
  BY DEF DelegateSlot, Runs
<1>2. /\ gens[g] \in Frame /\ gens[g].live /\ ~gens[g].terminated
      /\ gens[g].iter = None /\ ~gens[g].owned /\ i \in Gens /\ gens[i] \in Frame
  BY <1>1, Innermost, Basics DEF Frame, IInv, StackFollows, FramesSound
<1> DEFINE f == [gens[g] EXCEPT !.iter = i, !.owned = FALSE]
           frames == [gens EXCEPT ![g].iter = i, ![g].owned = FALSE]
<1>3. /\ f \in Frame /\ ~f.owned
      /\ f.live = gens[g].live /\ f.terminated = gens[g].terminated
      /\ f.last = gens[g].last /\ f.ret = gens[g].ret
      /\ f.sent = gens[g].sent /\ f.local = gens[g].local
  <2>1. gens[g] \in Frame /\ i \in Gens
    BY <1>2
  <2> HIDE DEF i
  <2>2. f \in Frame
    BY ONLY <2>1 DEF Frame
  <2> QED BY ONLY <2>1, <2>2 DEF Frame
<1>4. frames = [gens EXCEPT ![g] = f] /\ frames \in [Gens -> Frame]
  BY <1>2, <1>3, Basics
<1>5. RewindInner(g, i, frames)
  BY DEF DelegateSlot
<1>6. /\ frames[g] = f /\ \A h \in Gens : h # g => frames[h] = gens[h]
  BY <1>3, <1>4, OneFrame, Basics
<1> HIDE DEF f, frames
<1>7. /\ phase' \in {"returned", "dispatch"}
      /\ gens' = frames \/ gens' = [frames EXCEPT ![i].rewound = TRUE]
  BY <1>5 DEF RewindInner, Enter
<1>8. /\ gens' \in [Gens -> Frame]
      /\ \A h \in Gens :
           /\ gens'[h].live = gens[h].live /\ gens'[h].terminated = gens[h].terminated
           /\ gens'[h].last = gens[h].last /\ gens'[h].ret = gens[h].ret
           /\ gens'[h].sent = gens[h].sent /\ gens'[h].local = gens[h].local
           /\ h # g => gens'[h].owned = gens[h].owned /\ gens'[h].iter = gens[h].iter
  <2>1. \A h \in Gens :
             /\ frames[h].live = gens[h].live /\ frames[h].terminated = gens[h].terminated
             /\ frames[h].last = gens[h].last /\ frames[h].ret = gens[h].ret
             /\ frames[h].sent = gens[h].sent /\ frames[h].local = gens[h].local
             /\ h # g => frames[h].owned = gens[h].owned /\ frames[h].iter = gens[h].iter
    <3> TAKE h \in Gens
    <3>1. CASE h = g
      BY <1>2, <1>3, <1>6, <3>1
    <3>2. CASE h # g
      BY <1>6, <3>2
    <3> QED BY <3>1, <3>2
  <2>2. CASE gens' = frames
    BY <1>4, <2>1, <2>2
  <2>3. CASE gens' = [frames EXCEPT ![i].rewound = TRUE]
    <3> PICK e : e = [frames[i] EXCEPT !.rewound = TRUE]
      OBVIOUS
    <3>1. frames[i] \in Frame
      BY <1>2, <1>4
    <3>2. /\ e \in Frame /\ e.live = frames[i].live /\ e.terminated = frames[i].terminated
          /\ e.last = frames[i].last /\ e.ret = frames[i].ret /\ e.sent = frames[i].sent
          /\ e.local = frames[i].local /\ e.owned = frames[i].owned /\ e.iter = frames[i].iter
      BY <3>1 DEF Frame
    <3>3. gens' = [frames EXCEPT ![i] = e]
      BY <2>3
    <3>4. /\ gens' \in [Gens -> Frame] /\ gens'[i] = e
          /\ \A h \in Gens : h # i => gens'[h] = frames[h]
      <4>1. frames \in [Gens -> Frame] /\ i \in Gens /\ e \in Frame
        BY <1>2, <1>4, <3>2
      <4> QED BY ONLY <3>3, <4>1, OneFrame
    <3>5. \A h \in Gens :
             /\ gens'[h].live = frames[h].live /\ gens'[h].terminated = frames[h].terminated
             /\ gens'[h].last = frames[h].last /\ gens'[h].ret = frames[h].ret
             /\ gens'[h].sent = frames[h].sent /\ gens'[h].local = frames[h].local
             /\ gens'[h].owned = frames[h].owned /\ gens'[h].iter = frames[h].iter
      BY <3>2, <3>4
    <3> QED BY <2>1, <3>4, <3>5
  <2> QED BY <1>7, <2>2, <2>3
<1>9. /\ \A c \in Cells : Settled(c)
      /\ cells' = [c \in Cells |-> cells'[c]] /\ got' \in Cells \cup {None}
  BY <1>1, <1>8, SameSlots, Basics
<1>10. LocalsGone' /\ AllOwned'
  BY <1>1, <1>2, <1>8, OwnersKept DEF CInv, LocalsGone
<1> QED BY <1>1, <1>7, <1>9, <1>10, StepKeeps DEF CInv, TypeOK, Phases

\* The delegate that is released had finished by itself, or the script would
\* hold it: it has neither a local nor a delegate.
LEMMA EndOwners ==
    ASSUME IInv, CInv, NEW g \in Gens, NEW f \in Frame, NEW i, i = gens[g].iter, i # None,
           Active(g), doomed = <<>>, gens[i].terminated, gens' = [gens EXCEPT ![g] = f],
           vars' = vars, doomed' = IF gens[g].owned THEN <<i>> ELSE <<>>,
           f.live, f.terminated => f.local = None
    PROVE  LocalsGone' /\ AllOwned' /\ doomed' \in Seq(Gens)
<1>1. gens'[g] = f /\ \A h \in Gens : h # g => gens'[h] = gens[h]
  BY OneFrame, Basics
<1>2. i \in Gens /\ i # g /\ gens[g].live
  BY Basics DEF Active
<1>3. gens[g].owned => /\ i \notin vars /\ gens[i].iter = None /\ gens[i].local = None
  <2>1. Claims(g) /\ doomed # <<i>>
    BY <1>2, Basics
  <2> QED BY <1>2, <2>1 DEF IInv, ClaimsSound, FramesSound, CInv, LocalsGone
<1>4. LocalsGone'
  <2>1. \A h \in Gens : gens'[h].terminated /\ h \notin vars => gens'[h].local = None
    BY <1>1 DEF CInv, LocalsGone
  <2>2. \A d \in Gens : doomed' = <<d>> => d = i /\ gens[g].owned
    OBVIOUS
  <2> QED BY <1>1, <1>2, <1>3, <2>1, <2>2 DEF LocalsGone
<1>5. AllOwned'
  <2> SUFFICES ASSUME NEW h \in Gens, gens'[h].live PROVE Owned(h)'
    BY DEF AllOwned
  <2>1. gens[h].live /\ doomed # <<h>>
    BY <1>1, <1>2
  <2>2. Owned(h)
    BY <2>1 DEF CInv, AllOwned
  <2>3. CASE h \in vars
    BY <2>3 DEF Owned
  <2>4. CASE gens[g].owned /\ h = i
    BY <2>4 DEF Owned
  <2>5. CASE \E k \in Gens : k # g /\ gens[k].live /\ gens[k].owned /\ gens[k].iter = h
    BY <1>1, <2>5 DEF Owned
  <2> QED BY <2>1, <2>2, <2>3, <2>4, <2>5 DEF Owned
<1> QED BY <1>2, <1>4, <1>5

LEMMA EndDelegationCounts ==
    ASSUME IInv, IInv', CInv, NEW g \in Gens, NEW result \in {"discard", "local", "return"},
           EndDelegation(g, result)
    PROVE  CInv'
<1> DEFINE i == gens[g].iter
           v == gens[i].ret
           over == [gens[g] EXCEPT !.iter = None, !.owned = FALSE]
<1>1. /\ doomed = <<>> /\ phase = "returned" /\ stack # <<>> /\ g = Top
      /\ gens[i].terminated /\ UNCHANGED <<vars, got, op>>
      /\ doomed' = IF gens[g].owned THEN <<i>> ELSE <<>>
  BY DEF EndDelegation, Runs
<1>2. /\ gens[g] \in Frame /\ gens[g].live /\ ~gens[g].terminated
      /\ Active(g) /\ i # None /\ i \in Gens /\ gens[i] \in Frame
  BY <1>1, Innermost, Basics DEF IInv, StackFollows
<1>3. /\ over \in Frame /\ over.live /\ ~over.terminated
      /\ over.last = gens[g].last /\ over.ret = gens[g].ret
      /\ over.sent = gens[g].sent /\ over.local = gens[g].local
      /\ v \in Cells \cup {None}
  BY <1>2 DEF Frame
<1>4. got' \in Cells \cup {None}
  BY <1>1 DEF CInv, TypeOK
<1>5. CASE result = "discard"
  <2>1. gens' = [gens EXCEPT ![g] = over] /\ phase' = "body" /\ UNCHANGED cells
    BY <1>5 DEF EndDelegation
  <2> HIDE DEF over
  <2>2. gens' \in [Gens -> Frame] /\ gens'[g] = over /\ \A h \in Gens : h # g => gens'[h] = gens[h]
    BY <1>3, <2>1, OneFrame, Basics
  <2>3. /\ \A c \in Cells : Settled(c)
        /\ cells' = [c \in Cells |-> cells'[c]]
    BY <1>1, <1>3, <2>1, <2>2, SameSlots, Basics
  <2> HIDE DEF i
  <2>4. LocalsGone' /\ AllOwned' /\ doomed' \in Seq(Gens)
    BY <1>1, <1>2, <1>3, <2>1, EndOwners DEF i
  <2> QED BY <1>1, <1>4, <2>1, <2>3, <2>4, StepKeeps DEF Phases
<1>6. CASE result = "local"
  <2> DEFINE f == [over EXCEPT !.local = v]
  <2>1. gens' = [gens EXCEPT ![g] = f] /\ phase' = "body" /\ Count(<<v>>, <<gens[g].local>>)
    BY <1>6 DEF EndDelegation
  <2>2. /\ f \in Frame /\ f.live /\ ~f.terminated
        /\ f.last = gens[g].last /\ f.ret = gens[g].ret /\ f.sent = gens[g].sent /\ f.local = v
    BY <1>3 DEF Frame
  <2> HIDE DEF f, over, v
  <2>3. ASSUME NEW c \in Cells PROVE Settled(c)
    <3>1. cells'[c] = cells[c] + Is(v, c) - Is(gens[g].local, c) /\ cells[c] \in Nat
      BY <2>1, Exchange
    <3>2. In(f, c) + Is(gens[g].local, c) = In(gens[g], c) + Is(v, c)
      BY <2>2 DEF In, Is, Bit
    <3>3. /\ cells'[c] \in Int
          /\ cells'[c] + In(gens[g], c) + Is(got, c) = cells[c] + In(f, c) + Is(got', c)
      <4>1. /\ Is(v, c) \in Nat /\ Is(gens[g].local, c) \in Nat /\ Is(got, c) \in Nat
            /\ In(gens[g], c) \in Nat /\ In(f, c) \in Nat
        BY ONLY Tallies
      <4>2. Is(got', c) = Is(got, c)
        BY <1>1
      <4> QED BY ONLY <3>1, <3>2, <4>1, <4>2
    <3> QED BY <2>1, <2>2, <3>3, FrameSettles
  <2>4. cells' = [c \in Cells |-> cells'[c]]
    BY <2>1, Counting
  <2> HIDE DEF i
  <2>5. LocalsGone' /\ AllOwned' /\ doomed' \in Seq(Gens)
    BY <1>1, <1>2, <2>1, <2>2, EndOwners DEF i
  <2> QED BY <1>1, <1>4, <2>1, <2>3, <2>4, <2>5, StepKeeps DEF Phases
<1>7. CASE result = "return"
  <2> DEFINE f == [Ended(over) EXCEPT !.ret = v]
  <2>1. gens' = [gens EXCEPT ![g] = f] /\ Leave /\ Count(<<v>>, <<gens[g].ret, gens[g].local>>)
    BY <1>7 DEF EndDelegation
  <2>2. /\ f \in Frame /\ f.live
        /\ f.last = gens[g].last /\ f.ret = v /\ f.sent = gens[g].sent /\ f.local = None
    BY <1>3 DEF Frame, Ended
  <2> HIDE DEF f, over, v
  <2>3. ASSUME NEW c \in Cells PROVE Settled(c)
    <3>1. /\ cells'[c] = cells[c] + Is(v, c) - (Is(gens[g].ret, c) + Is(gens[g].local, c))
          /\ cells[c] \in Nat /\ Is(None, c) = 0
      BY <2>1, ExchangeTwo
    <3>2. cells'[c] \in Int /\ cells'[c] + In(gens[g], c) = cells[c] + In(f, c)
      BY <2>2, <3>1 DEF In, Is, Bit
    <3>3. /\ cells'[c] \in Int
          /\ cells'[c] + In(gens[g], c) + Is(got, c) = cells[c] + In(f, c) + Is(got', c)
      BY <1>1, <3>1, <3>2, Tallies
    <3> QED BY <2>1, <2>2, <3>3, FrameSettles
  <2>4. cells' = [c \in Cells |-> cells'[c]]
    BY <2>1, Counting
  <2> HIDE DEF i
  <2>5. LocalsGone' /\ AllOwned' /\ doomed' \in Seq(Gens)
    BY <1>1, <1>2, <2>1, <2>2, EndOwners DEF i
  <2> QED BY <1>1, <1>4, <2>1, <2>3, <2>4, <2>5, LeavePhase, StepKeeps
<1> QED BY <1>5, <1>6, <1>7

LEMMA RaiseCounts ==
    ASSUME IInv, IInv', CInv, Raise
    PROVE  CInv'
<1>1. /\ doomed = <<>> /\ phase' = "rest" /\ op' = NoOp
      /\ UNCHANGED <<gens, cells, vars, got, doomed>>
  BY DEF Raise
<1>2. /\ \A c \in Cells : Settled(c)
      /\ cells' = [c \in Cells |-> cells'[c]] /\ got' \in Cells \cup {None}
  BY <1>1, SameSlots, Basics
<1>3. LocalsGone' /\ AllOwned'
  BY <1>1, OwnersKept DEF CInv, LocalsGone
<1> QED BY <1>1, <1>2, <1>3, StepKeeps DEF CInv, TypeOK, Phases

\* The method's value is the generator's, or null.
LEMMA DeliverCounts ==
    ASSUME IInv, IInv', CInv, Deliver
    PROVE  CInv'
<1>1. /\ doomed = <<>> /\ phase' = "rest" /\ op' = NoOp /\ UNCHANGED <<gens, vars, stack, doomed>>
  BY DEF Deliver
<1>2. \A h \in Gens : gens[h].last \in Cells \cup {None}
  BY Basics DEF Frame
<1>3. CASE op.name = "current"
  <2>1. op.gen \in Gens /\ Give(gens[op.gen].last)
    BY <1>3 DEF Deliver, CInv, OpFits
  <2> QED BY <1>1, <1>2, <2>1, ReadCounts DEF Phases
<1>4. CASE op.name = "send"
  <2> DEFINE v == IF gens[op.gen].terminated THEN None ELSE gens[op.gen].last
  <2>1. op.gen \in Gens /\ Give(v)
    BY <1>4 DEF Deliver, CInv, OpFits
  <2>2. v \in Cells \cup {None}
    BY <1>2, <2>1
  <2> HIDE DEF v
  <2> QED BY <1>1, <2>1, <2>2, ReadCounts DEF Phases
<1>5. CASE op.name \notin {"current", "send"}
  <2>1. UNCHANGED <<cells, got>>
    BY <1>5 DEF Deliver
  <2>2. /\ \A c \in Cells : Settled(c)
        /\ cells' = [c \in Cells |-> cells'[c]] /\ got' \in Cells \cup {None}
    BY <1>1, <2>1, SameSlots, Basics
  <2>3. LocalsGone' /\ AllOwned'
    BY <1>1, OwnersKept DEF CInv, LocalsGone
  <2> QED BY <1>1, <2>2, <2>3, StepKeeps DEF CInv, TypeOK, Phases
<1> QED BY <1>3, <1>4, <1>5

LEMMA ForgetCounts ==
    ASSUME IInv, IInv', CInv, Forget
    PROVE  CInv'
<1>1. /\ doomed = <<>> /\ got' = None /\ Count(<<>>, <<got>>)
      /\ UNCHANGED <<gens, vars, stack, phase, op, doomed>>
  BY DEF Forget, AtRest
<1>2. ASSUME NEW c \in Cells PROVE Settled(c)
  <2>1. Times(c, <<>>) = 0 /\ Times(c, <<got>>) = Is(got, c)
    BY TimesFacts
  <2>2. cells'[c] = cells[c] + Times(c, <<>>) - Times(c, <<got>>) /\ cells[c] \in Nat /\ Is(None, c) = 0
    BY <1>1, Counting
  <2>3. cells[c] = Held(gens, c) + Is(got, c) /\ Held(gens, c) \in Nat
    BY HeldNat, Basics DEF CInv, Balanced
  <2>4. cells'[c] = Held(gens, c)
    BY <2>1, <2>2, <2>3, Tallies
  <2> QED BY <1>1, <2>2, <2>3, <2>4 DEF Settled
<1>3. LocalsGone' /\ AllOwned'
  BY <1>1, OwnersKept DEF CInv, LocalsGone
<1>4. cells' = [c \in Cells |-> cells'[c]]
  BY <1>1, Counting
<1> QED BY <1>1, <1>2, <1>3, <1>4, StepKeeps DEF CInv, TypeOK

LEMMA ReleaseCounts ==
    ASSUME IInv, IInv', CInv, Release
    PROVE  CInv'
<1>1. PICK d \in Gens : doomed = <<d>> /\ Alone(d)
  BY DEF Release, IInv, DoomedAlone
<1> PICK i : i = gens[d].iter
  OBVIOUS
<1>2. /\ gens' = [gens EXCEPT ![d] = Blank]
      /\ doomed' = IF i = None THEN <<>> ELSE <<i>>
      /\ Count(<<>>, <<gens[d].last, gens[d].ret, gens[d].sent>>)
      /\ UNCHANGED <<vars, got, stack, phase, op>>
  BY <1>1 DEF Release
<1>3. /\ Blank \in Frame /\ ~Blank.live /\ ~Blank.terminated
      /\ Blank.last = None /\ Blank.ret = None /\ Blank.sent = None /\ Blank.local = None
  BY DEF Blank, Frame, Labels
<1>4. gens'[d] = Blank /\ \A h \in Gens : h # d => gens'[h] = gens[h]
  BY <1>2, <1>3, OneFrame, Basics
<1>5. /\ gens[d].local = None
      /\ i # None => \A h \in Gens : gens[h].live /\ h \notin vars => gens[h].local = None
  BY <1>1 DEF CInv, LocalsGone
<1>6. i # None => i \in Gens /\ i # d /\ gens[i].live /\ i \notin vars
  <2> SUFFICES ASSUME i # None PROVE i \in Gens /\ i # d /\ gens[i].live /\ i \notin vars
    OBVIOUS
  <2>1. gens[d].owned /\ Claims(d)
    BY <1>1 DEF Claims, Alone
  <2> QED BY <1>1, <2>1, Basics DEF IInv, ClaimsSound, Alone
<1>7. ASSUME NEW c \in Cells PROVE Settled(c)
  <2>1. /\ Times(c, <<>>) = 0
        /\ Times(c, <<gens[d].last, gens[d].ret, gens[d].sent>>)
           = Is(gens[d].last, c) + Is(gens[d].ret, c) + Is(gens[d].sent, c)
    BY TimesFacts
  <2>2. /\ cells'[c] = cells[c] + Times(c, <<>>)
                       - Times(c, <<gens[d].last, gens[d].ret, gens[d].sent>>)
        /\ cells[c] \in Nat /\ Is(None, c) = 0
    BY <1>2, Counting
  <2>3. cells'[c] = cells[c] - (Is(gens[d].last, c) + Is(gens[d].ret, c) + Is(gens[d].sent, c))
    BY <2>1, <2>2, Tallies
  <2>4. /\ cells'[c] \in Int /\ cells'[c] + In(gens[d], c) = cells[c] + In(Blank, c)
    BY <1>3, <1>5, <2>2, <2>3 DEF In, Is, Bit
  <2>5. cells'[c] + In(gens[d], c) + Is(got, c) = cells[c] + In(Blank, c) + Is(got', c)
    BY <1>2, <2>2, <2>4, Tallies
  <2> QED BY <1>2, <1>3, <2>4, <2>5, FrameSettles
<1>8. LocalsGone'
  <2>1. \A h \in Gens : gens'[h].terminated /\ h \notin vars' => gens'[h].local = None
    BY <1>2, <1>3, <1>4 DEF CInv, LocalsGone
  <2>2. \A h \in Gens : i # None /\ gens'[h].live /\ h \notin vars' => gens'[h].local = None
    BY <1>2, <1>3, <1>4, <1>5
  <2>3. \A e \in Gens : doomed' = <<e>> => i # None /\ e = i
    BY <1>2
  <2>4. i # None => gens'[i].live /\ i \notin vars'
    BY <1>2, <1>4, <1>6
  <2> QED BY <1>6, <2>1, <2>2, <2>3, <2>4 DEF LocalsGone
<1>9. AllOwned'
  <2> SUFFICES ASSUME NEW h \in Gens, gens'[h].live PROVE Owned(h)'
    BY DEF AllOwned
  <2>1. h # d /\ gens[h].live /\ doomed # <<h>> /\ h # None
    BY <1>1, <1>3, <1>4, NoneAssumption
  <2>2. Owned(h)
    BY <2>1 DEF CInv, AllOwned
  <2>3. CASE h \in vars
    BY <1>2, <2>3 DEF Owned
  <2>4. CASE h = i
    BY <1>2, <2>1, <2>4 DEF Owned
  <2>5. CASE \E k \in Gens : k # d /\ gens[k].live /\ gens[k].owned /\ gens[k].iter = h
    BY <1>4, <2>5 DEF Owned
  <2> QED BY <2>1, <2>2, <2>3, <2>4, <2>5 DEF Owned
<1>10. cells' = [c \in Cells |-> cells'[c]]
  BY <1>2, Counting
<1>11. doomed' \in Seq(Gens) /\ got' \in Cells \cup {None} /\ phase' \in Phases /\ op' = op
  BY <1>2, <1>6 DEF CInv, TypeOK
<1> QED BY <1>7, <1>8, <1>9, <1>10, <1>11, StepKeeps

LEMMA InitCounts == Init => CInv
<1> SUFFICES ASSUME Init PROVE CInv
  OBVIOUS
<1>1. /\ \A g \in Gens : gens[g] = Blank
      /\ gens \in [Gens -> Frame] /\ stack = <<>> /\ vars = {} /\ got = None /\ op = NoOp
      /\ phase = "rest" /\ doomed = <<>> /\ cells = [c \in Cells |-> 0]
  BY DEF Init, Blank, Frame, Labels
<1>2. ~Blank.live /\ ~Blank.terminated
      /\ Blank.last = None /\ Blank.ret = None /\ Blank.sent = None /\ Blank.local = None
  BY DEF Blank
<1>3. ASSUME NEW c \in Cells PROVE cells[c] = Held(gens, c) + Is(got, c)
  <2>1. Slots(gens, c) = {}
    BY <1>1, <1>2, NoneAssumption DEF Slots, Fields
  <2>2. Held(gens, c) = 0
    BY <2>1, FS_EmptySet DEF Held
  <2> QED BY <1>1, <2>2, NoneAssumption DEF Is, Bit
<1>4. TypeOK /\ OpFits
  BY <1>1 DEF TypeOK, OpFits, NoOp, Phases
<1>5. LocalsGone /\ AllOwned
  BY <1>1, <1>2 DEF LocalsGone, AllOwned
<1> QED BY <1>3, <1>4, <1>5 DEF CInv, Balanced

LEMMA ScriptCounts ==
    ASSUME Habits = {}, IInv, IInv', CInv, NEW g \in Gens, Script(g)
    PROVE  CInv'
<1>1. CASE \E a \in Gens \cup {None} : Create(g, a)
  BY <1>1, CreateCounts
<1>2. CASE (\E name \in {"rewind", "current"} : Start(g, name)) \/ CallNext(g)
           \/ (\E c \in Cells : Send(g, c))
  BY <1>2, EnterCounts
<1>3. CASE \E v \in Cells \cup {None} : Read(g, v)
  <2>1. PICK v \in Cells \cup {None} : Give(v)
    BY <1>3 DEF Read
  <2>2. UNCHANGED <<gens, vars, stack, phase, op, doomed>> /\ doomed = <<>>
    BY <1>3 DEF Read, Asks, AtRest
  <2>3. phase' \in Phases /\ op' \in {op, NoOp}
    BY <2>2 DEF CInv, TypeOK
  <2> QED BY <2>1, <2>2, <2>3, ReadCounts
<1>4. CASE Throw(g)
  BY <1>4, ThrowCounts
<1>5. CASE Drop(g)
  BY <1>5, DropCounts
<1> QED BY <1>1, <1>2, <1>3, <1>4, <1>5 DEF Script

LEMMA ResumeCounts ==
    ASSUME IInv, IInv', CInv, NEW g \in Gens, Resume(g)
    PROVE  CInv'
<1>1. CASE \E label \in {"plain", "assign"}, v \in Cells \cup {None} : Yield(g, label, v)
  BY <1>1, YieldCounts
<1>2. CASE \E v \in Cells \cup {None} : Return(g, v)
  BY <1>2, ReturnCounts
<1> QED BY <1>1, <1>2, DispatchYieldCounts, DispatchFromCounts, AssignCounts, DelegateCallCounts,
     DelegateSlotCounts, ForwardCounts, EndDelegationCounts DEF Resume

LEMMA NextCounts ==
    ASSUME Habits = {}, IInv, CInv, [Next]_gvars
    PROVE  CInv'
<1>0. IInv'
  BY NextInv
<1>1. CASE \E g \in Gens : Script(g) \/ Resume(g)
  BY <1>0, <1>1, ScriptCounts, ResumeCounts
<1>2. CASE Forget
  BY <1>0, <1>2, ForgetCounts
<1>3. CASE Deliver
  BY <1>0, <1>3, DeliverCounts
<1>4. CASE Raise
  BY <1>0, <1>4, RaiseCounts
<1>5. CASE Release
  BY <1>0, <1>5, ReleaseCounts
<1>6. CASE UNCHANGED gvars
  BY <1>6 DEF gvars, CInv, TypeOK, OpFits, Balanced, LocalsGone, AllOwned, Owned
<1> QED BY <1>1, <1>2, <1>3, <1>4, <1>5, <1>6 DEF Next

LEMMA CountsHold == ASSUME Habits = {} PROVE Spec => [](IInv /\ CInv)
<1>1. IInv /\ CInv /\ [Next]_gvars => IInv' /\ CInv'
  BY NextInv, NextCounts
<1> QED BY <1>1, InitInv, InitCounts, PTL DEF Spec

-----------------------------------------------------------------------------
\* The variables keep their types.
THEOREM GeneratorsTyped == ASSUME Habits = {} PROVE Spec => []TypeOK
<1>1. CInv => TypeOK
  BY DEF CInv
<1> QED BY <1>1, CountsHold, PTL

\* Every boxed value is counted once for each frame slot and variable that
\* holds it, however many generators yield, send and delegate it to one
\* another: none leaks and none is freed in use.
THEOREM CountedAlways == ASSUME Habits = {} PROVE Spec => []Counted
<1>1. IInv /\ CInv => Counted
  <2> SUFFICES ASSUME IInv, CInv, NEW c \in Cells
               PROVE  cells[c] = Cardinality(Holders(c)) + (IF got = c THEN 1 ELSE 0)
    BY DEF Counted
  <2>1. Holders(c) = Slots(gens, c)
    <3>1. \A g \in Gens : \A k \in Fields : ~gens[g].live => gens[g][k] # c
      BY NoneAssumption DEF IInv, FramesSound, Blank, Fields
    <3> QED BY <3>1 DEF Holders, Slots
  <2> QED BY <2>1 DEF CInv, Balanced, Held, Is, Bit
<1> QED BY <1>1, CountsHold, PTL

\* Every generator frame has exactly one owner: the script's variable, the
\* generator that called for it, or the release under way.
THEOREM OneOwnerAlways == ASSUME Habits = {} PROVE Spec => []OneOwner
<1>1. IInv /\ CInv => OneOwner
  <2> SUFFICES ASSUME IInv, CInv, NEW g \in Gens
               PROVE  Cardinality({h \in Gens : gens[h].live /\ gens[h].iter = g /\ gens[h].owned})
                        + Times(g, doomed) + (IF g \in vars THEN 1 ELSE 0)
                      = (IF gens[g].live THEN 1 ELSE 0)
    BY DEF OneOwner
  <2> DEFINE O == {h \in Gens : gens[h].live /\ gens[h].iter = g /\ gens[h].owned}
  <2>1. \A h \in O : Claims(h) /\ gens[h].iter = g
    BY NoneAssumption DEF Claims
  <2>2. O = {} \/ \E h \in Gens : O = {h}
    BY <2>1 DEF IInv, ClaimsUnique
  <2>3. Cardinality(O) = IF O = {} THEN 0 ELSE 1
    <3> HIDE DEF O
    <3> QED BY <2>2, FS_EmptySet, FS_Singleton
  <2>4. O # {} => gens[g].live /\ g \notin vars /\ doomed # <<g>>
    <3>1. ASSUME NEW h \in O PROVE gens[g].live /\ g \notin vars
      BY <2>1 DEF IInv, ClaimsSound
    <3>2. ASSUME NEW h \in O, doomed = <<g>> PROVE FALSE
      BY <2>1, <3>2 DEF IInv, DoomedAlone, Alone
    <3> QED BY <3>1, <3>2
  <2>5. g \in vars => gens[g].live /\ doomed # <<g>>
    <3>1. g \in vars => gens[g].live
      BY Basics
    <3>2. doomed = <<g>> => Alone(g)
      BY DEF IInv, DoomedAlone
    <3> QED BY <3>1, <3>2 DEF Alone
  <2>6. doomed = <<g>> => gens[g].live
    BY DEF IInv, DoomedAlone, Alone
  <2>7. gens[g].live => g \in vars \/ doomed = <<g>> \/ O # {}
    BY DEF CInv, AllOwned, Owned
  <2>8. Times(g, doomed) = IF doomed = <<g>> THEN 1 ELSE 0
    <3>1. doomed = <<>> \/ \E d \in Gens : doomed = <<d>>
      BY DEF IInv, DoomedAlone
    <3>2. CASE doomed = <<>>
      BY <3>2, TimesFacts
    <3>3. CASE \E d \in Gens : doomed = <<d>>
      <4> PICK d \in Gens : doomed = <<d>>
        BY <3>3
      <4>1. Times(g, doomed) = Is(d, g)
        BY TimesFacts
      <4> QED BY <4>1 DEF Is, Bit
    <3> QED BY <3>1, <3>2, <3>3
  <2> HIDE DEF O
  <2>9. Cardinality(O) + Times(g, doomed) + (IF g \in vars THEN 1 ELSE 0)
        = (IF gens[g].live THEN 1 ELSE 0)
    BY <2>3, <2>4, <2>5, <2>6, <2>7, <2>8
  <2> QED BY <2>9 DEF O
<1> QED BY <1>1, CountsHold, PTL
=============================================================================
