-------------------------- MODULE Generators_proofs --------------------------
(***************************************************************************)
(* What current() shows, and that a finished generator stays so, proved of *)
(* any number of generators and boxes, for a script that keeps to the      *)
(* protocol of foreach and send (Habits = {}).                             *)
(*                                                                         *)
(* The invariant says who may resume whom.  A generator is claimed by the  *)
(* one that delegates to it; claims are unique, the generator the script   *)
(* called is not claimed, and the stack of resume functions follows the    *)
(* claims.  So while a generator is suspended nobody but the one that      *)
(* claims it can move it, and the value its claimant copied stays current. *)
(***************************************************************************)
EXTENDS Generators, SequenceTheorems, TLAPS

Active(g) == gens[g].live /\ ~gens[g].terminated
InStack(g) == \E k \in 1..Len(stack) : stack[k] = g
Suspended(g) == Active(g) /\ (InStack(g) => phase = "dispatch" /\ g = Top)
Claims(g) == /\ gens[g].live /\ gens[g].iter # None
             /\ gens[g].owned \/ ~gens[g].terminated

Typed ==
    /\ gens \in [Gens -> Frame]
    /\ vars \subseteq Gens
    /\ stack \in Seq(Gens)

\* A frame that is not there is blank; one that finished had been started, and
\* still delegates only if the script's own throw() finished it.
FramesSound ==
    \A g \in Gens :
        /\ ~gens[g].live => gens[g] = Blank
        /\ gens[g].terminated => gens[g].rewound
        /\ ~gens[g].rewound => gens[g].at = "entry"
        /\ gens[g].at = "entry" => gens[g].sent = None
        /\ Active(g) /\ ~InStack(g) /\ gens[g].rewound => gens[g].at # "entry"
        /\ gens[g].owned => gens[g].iter # None
        /\ gens[g].terminated /\ gens[g].iter # None => g \in vars \/ doomed = <<g>>

PhaseFits ==
    /\ stack = <<>> <=> phase \in {"rest", "deliver"}
    /\ doomed # <<>> => phase # "dispatch"

\* The resume functions on the stack are of different generators, each the
\* delegate of the one below; the lowest is the script's own.
StackFollows ==
    /\ \A k \in 1..Len(stack) : Active(stack[k]) /\ gens[stack[k]].rewound
    /\ \A k \in 1..(Len(stack) - 1) : gens[stack[k]].iter = stack[k + 1]
    /\ \A k, l \in 1..Len(stack) : stack[k] = stack[l] => k = l
    /\ stack # <<>> => stack[1] \in vars /\ ~Lent(stack[1])
    /\ phase = "body" => gens[Top].iter = None
    /\ phase = "returned" => gens[Top].iter # None

\* Who holds whom.
VarsLive == \A g \in vars : gens[g].live

ArgsApart ==
    /\ \A g \in Gens : Active(g) /\ gens[g].arg # None => gens[g].arg \in vars
    /\ \A g, h \in Gens : Active(g) /\ Active(h) /\ gens[g].arg # None
                          /\ gens[g].arg = gens[h].arg => g = h

ClaimsSound ==
    \A g \in Gens : Claims(g) =>
          /\ gens[gens[g].iter].live
          /\ gens[g].owned => gens[g].iter \notin vars
          /\ ~gens[g].owned => gens[g].iter = gens[g].arg

DelegatesStarted ==
    \A g \in Gens : Active(g) /\ gens[g].iter # None => gens[gens[g].iter].rewound

ClaimsUnique ==
    \A g, h \in Gens : Claims(g) /\ Claims(h) /\ gens[g].iter = gens[h].iter => g = h

\* A suspended generator that delegates shows what its delegate shows.
Mirrors(g, i) == Active(i) /\ gens[g].last = gens[i].last

SuspendedShow ==
    \A g \in Gens : Suspended(g) =>
          /\ gens[g].iter # None <=> gens[g].at = "from"
          /\ gens[g].iter # None => Mirrors(g, gens[g].iter)

StackShows ==
    \A k \in 1..(Len(stack) - 1) :
          gens[stack[k]].at = "from" /\ gens[stack[k + 1]].at # "entry"
          => Mirrors(stack[k], stack[k + 1])

\* Only the generator about to be resumed holds a value sent.
SentAtTop ==
    \A g \in Gens : gens[g].sent # None => phase = "dispatch" /\ InStack(g) /\ g = Top

\* The frame being released is nobody's, and what it still holds is its own.
Alone(d) ==
    /\ gens[d].live /\ d \notin vars /\ ~InStack(d)
    /\ \A h \in Gens : Claims(h) => gens[h].iter # d
    /\ gens[d].iter # None =>
          \A h \in Gens : gens[h].live /\ h \notin vars /\ gens[h].iter # None
                          => gens[h].owned

DoomedAlone ==
    doomed # <<>> => \E d \in Gens : doomed = <<d>> /\ Alone(d)

IInv == /\ Typed /\ FramesSound /\ PhaseFits /\ StackFollows
        /\ VarsLive /\ ArgsApart /\ ClaimsSound /\ ClaimsUnique /\ DelegatesStarted
        /\ SuspendedShow /\ StackShows /\ SentAtTop /\ DoomedAlone

\* A frame that is marked finished is so until it is released.
Stays == \A g \in Gens : gens[g].terminated => gens'[g].terminated \/ ~gens'[g].live

-----------------------------------------------------------------------------
\* One frame is replaced.
LEMMA OneFrame ==
    ASSUME NEW fs \in [Gens -> Frame], NEW g \in Gens, NEW f \in Frame,
           NEW gs, gs = [fs EXCEPT ![g] = f]
    PROVE  /\ gs \in [Gens -> Frame]
           /\ gs[g] = f
           /\ \A h \in Gens : h # g => gs[h] = fs[h]
  OBVIOUS

\* The resume function of i is called, or the innermost one returns.
LEMMA Pushed ==
    ASSUME NEW s \in Seq(Gens), NEW i \in Gens, NEW t, t = Append(s, i)
    PROVE  /\ t \in Seq(Gens) /\ Len(t) = Len(s) + 1 /\ Len(s) \in Nat
           /\ t[Len(s) + 1] = i
           /\ \A k \in 1..Len(s) : t[k] = s[k]
  OBVIOUS

LEMMA Popped ==
    ASSUME NEW s \in Seq(Gens), NEW n \in 0..Len(s), NEW t, t = SubSeq(s, 1, n)
    PROVE  t \in Seq(Gens) /\ Len(t) = n /\ \A k \in 1..n : t[k] = s[k]
  OBVIOUS

LEMMA LastOf ==
    ASSUME NEW s \in Seq(Gens), s # <<>>
    PROVE  Len(s) \in 1..Len(s) /\ Len(s) - 1 \in 0..Len(s) /\ Len(s) \in Nat /\ s[Len(s)] \in Gens
  OBVIOUS

\* The script's own generator, when it is lent to none, is claimed by none.
LEMMA Unclaimed ==
    ASSUME IInv, NEW g \in vars, ~Lent(g), NEW h \in Gens, Claims(h)
    PROVE  gens[h].iter # g
  BY DEF IInv, ClaimsSound, Claims, Active, Lent, Typed

\* What is on the stack is claimed by the one below it only.
LEMMA OnlyBelow ==
    ASSUME IInv, NEW k \in 1..Len(stack), NEW h \in Gens, Claims(h), gens[h].iter = stack[k]
    PROVE  k # 1 /\ k - 1 \in 1..Len(stack) /\ h = stack[k - 1]
<1>1. stack \in Seq(Gens) /\ Len(stack) \in Nat /\ stack # <<>>
  BY DEF IInv, Typed
<1>2. k # 1
  BY <1>1, Unclaimed DEF IInv, StackFollows
<1>3. k - 1 \in 1..(Len(stack) - 1) /\ k - 1 \in 1..Len(stack) /\ (k - 1) + 1 = k
  BY <1>1, <1>2
<1>4. gens[stack[k - 1]].iter = stack[k] /\ Active(stack[k - 1]) /\ stack[k - 1] \in Gens
  BY <1>1, <1>3 DEF IInv, StackFollows
<1>5. stack[k] \in Gens /\ stack[k] # None
  BY <1>1, NoneAssumption
<1>6. Claims(stack[k - 1])
  BY <1>4, <1>5 DEF Claims, Active
<1> QED BY <1>2, <1>3, <1>4, <1>6 DEF IInv, ClaimsUnique

\* The delegate of a suspended generator is not on the stack.
LEMMA DelegateOffStack ==
    ASSUME IInv, NEW h \in Gens, Suspended(h), gens[h].iter # None
    PROVE  ~InStack(gens[h].iter)
<1>1. Claims(h)
  BY DEF Claims, Suspended, Active
<1> SUFFICES ASSUME NEW k \in 1..Len(stack), stack[k] = gens[h].iter PROVE FALSE
  BY DEF InStack
<1>2. k - 1 \in 1..Len(stack) /\ h = stack[k - 1]
  BY <1>1, OnlyBelow
<1>3. h = stack[Len(stack)]
  BY <1>2 DEF Suspended, InStack, Top
<1>4. Len(stack) \in Nat /\ Len(stack) \in 1..Len(stack)
  BY <1>2 DEF IInv, Typed
<1>5. k - 1 = Len(stack)
  BY <1>2, <1>3, <1>4 DEF IInv, StackFollows
<1> QED BY <1>4, <1>5

\* What the invariant says in every state of its frames, for the proofs of steps.
LEMMA Basics ==
    ASSUME IInv
    PROVE  /\ gens \in [Gens -> Frame] /\ vars \subseteq Gens /\ stack \in Seq(Gens)
           /\ Len(stack) \in Nat
           /\ \A h \in Gens : gens[h].iter # None => gens[h].iter \in Gens
           /\ \A h \in vars : h \in Gens /\ gens[h].live
           /\ \A h \in Gens : ~gens[h].live => /\ gens[h].iter = None /\ ~gens[h].terminated
                                               /\ gens[h].sent = None
           /\ \A h \in Gens : Claims(h) => gens[h].iter \in Gens /\ gens[gens[h].iter].live
           /\ \A h \in Gens : Active(h) /\ gens[h].iter # None => Claims(h)
  BY DEF IInv, Typed, Frame, VarsLive, FramesSound, Blank, ClaimsSound, Claims, Active

\* Between two statements nothing runs.
LEMMA Resting ==
    ASSUME IInv, phase \in {"rest", "deliver"}
    PROVE  /\ stack = <<>> /\ Len(stack) = 0
           /\ \A g \in Gens : ~InStack(g) /\ gens[g].sent = None
  BY DEF IInv, PhaseFits, SentAtTop, InStack

\* The methods that only read.
LEMMA IdleKeeps ==
    ASSUME IInv, UNCHANGED <<gens, vars, stack, doomed>>,
           phase' = phase \/ (phase = "deliver" /\ phase' = "rest")
    PROVE  IInv' /\ Stays
<1>1. /\ \A g \in Gens : (Active(g)' <=> Active(g)) /\ (Claims(g)' <=> Claims(g))
                         /\ (InStack(g)' <=> InStack(g))
      /\ \A g \in Gens : Suspended(g)' => Suspended(g)
  BY Resting DEF Active, Claims, InStack, Suspended, Top
<1> QED BY <1>1, Resting DEF IInv, Typed, FramesSound, PhaseFits, StackFollows, VarsLive, ArgsApart,
     ClaimsSound, ClaimsUnique, DelegatesStarted, SuspendedShow, StackShows, Mirrors, Active, InStack,
     SentAtTop, DoomedAlone, Alone, Stays, Claims, Lent, Top

LEMMA CreateKeeps ==
    ASSUME Habits = {}, IInv, NEW g \in Gens, NEW a \in Gens \cup {None}, Create(g, a)
    PROVE  IInv' /\ Stays
<1>1. /\ phase = "rest" /\ doomed = <<>> /\ ~gens[g].live /\ a \in vars \cup {None}
      /\ a # None => ~Lent(a)
      /\ vars' = vars \cup {g}
      /\ UNCHANGED <<stack, phase, doomed>>
  BY DEF Create, AtRest, Habit
<1>2. NewFrame(a) \in Frame /\ gens \in [Gens -> Frame]
  BY DEF NewFrame, Blank, Frame, Labels, IInv, Typed
<1>3. /\ gens' \in [Gens -> Frame]
      /\ gens'[g] = NewFrame(a)
      /\ \A h \in Gens : h # g => gens'[h] = gens[h]
  BY <1>2, OneFrame DEF Create
<1>4. /\ gens'[g].live /\ ~gens'[g].terminated /\ gens'[g].arg = a /\ gens'[g].iter = None
      /\ gens'[g].at = "entry" /\ ~gens'[g].rewound /\ gens'[g].sent = None /\ ~gens'[g].owned
  BY <1>3 DEF NewFrame, Blank
<1>5. /\ stack = <<>> /\ Len(stack) = 0
      /\ \A h \in Gens : ~InStack(h) /\ gens[h].sent = None
  BY <1>1, Resting
<1>6. ~gens[g].terminated /\ \A h \in Gens : Claims(h) => gens[h].iter # g
  BY <1>1, Basics
<1> HIDE DEF NewFrame
<1>7. Typed' /\ PhaseFits' /\ StackFollows'
  BY <1>1, <1>3, <1>5 DEF IInv, Typed, PhaseFits, StackFollows
<1>8. FramesSound'
  BY <1>1, <1>3, <1>4, <1>5 DEF IInv, FramesSound, Active, InStack
<1>9. /\ \A h \in Gens : Active(h)' /\ h # g => Active(h)
      /\ \A h \in Gens : Claims(h)' => Claims(h) /\ h # g
  BY <1>3, <1>4 DEF Active, Claims
<1>10. \A h \in vars : h \in Gens /\ gens[h].live /\ h # g
  BY <1>1, Basics
<1>11. VarsLive'
  BY <1>1, <1>3, <1>4, <1>10 DEF VarsLive
<1>12. ArgsApart'
  <2>1. \A h \in Gens : Active(h)' /\ h # g /\ a # None => gens'[h].arg # a
    BY <1>1, <1>3, <1>9 DEF Lent, Active
  <2> QED BY <1>1, <1>3, <1>4, <1>9, <2>1 DEF IInv, ArgsApart
<1>13. ClaimsSound' /\ DelegatesStarted'
  BY <1>1, <1>3, <1>4, <1>6, <1>9, Basics DEF IInv, ClaimsSound, DelegatesStarted
<1>14. ClaimsUnique'
  BY <1>3, <1>9 DEF IInv, ClaimsUnique
<1>15. SuspendedShow' /\ StackShows'
  <2>1. \A h \in Gens : Suspended(h)' /\ h # g => Suspended(h) /\ gens[h].iter # g
    BY <1>1, <1>3, <1>5, <1>6, NoneAssumption DEF Suspended, Active, InStack, Claims
  <2>2. \A h \in Gens : Suspended(h)' /\ h # g /\ gens[h].iter # None => Mirrors(h, gens[h].iter)'
    BY <1>3, <2>1, Basics DEF IInv, SuspendedShow, Mirrors, Active
  <2> QED BY <1>1, <1>3, <1>4, <1>5, <2>1, <2>2 DEF IInv, SuspendedShow, StackShows
<1>16. SentAtTop' /\ DoomedAlone'
  BY <1>1, <1>3, <1>4, <1>5 DEF IInv, SentAtTop, DoomedAlone
<1>17. Stays
  BY <1>3, <1>6 DEF Stays
<1> QED BY <1>7, <1>8, <1>11, <1>12, <1>13, <1>14, <1>15, <1>16, <1>17 DEF IInv

LEMMA ThrowKeeps ==
    ASSUME Habits = {}, IInv, NEW g \in Gens, Throw(g)
    PROVE  IInv' /\ Stays
<1>1. /\ phase = "rest" /\ doomed = <<>> /\ g \in vars /\ ~Lent(g) /\ gens[g].rewound
      /\ UNCHANGED <<vars, stack, phase, doomed>>
  BY DEF Throw, Asks, Started, AtRest, Habit
<1> DEFINE f == [gens[g] EXCEPT !.terminated = TRUE]
<1>2. gens \in [Gens -> Frame] /\ f \in Frame /\ gens' = [gens EXCEPT ![g] = f]
  <2>1. gens \in [Gens -> Frame]
    BY Basics
  <2>2. f \in Frame
    BY ONLY <2>1, g \in Gens DEF Frame
  <2> QED BY <2>1, <2>2 DEF Throw
<1>3. /\ f.terminated
      /\ f.live = gens[g].live /\ f.at = gens[g].at /\ f.rewound = gens[g].rewound
      /\ f.sent = gens[g].sent /\ f.iter = gens[g].iter /\ f.owned = gens[g].owned
      /\ f.arg = gens[g].arg /\ f.last = gens[g].last
  BY <1>2 DEF Frame
<1> HIDE DEF f
<1>4. /\ gens' \in [Gens -> Frame]
      /\ gens'[g] = f
      /\ \A h \in Gens : h # g => gens'[h] = gens[h]
  BY <1>2, OneFrame
<1>5. /\ stack = <<>> /\ Len(stack) = 0
      /\ \A h \in Gens : ~InStack(h) /\ gens[h].sent = None
  BY <1>1, Resting
<1>6. gens[g].live /\ \A h \in Gens : Claims(h) => gens[h].iter # g
  BY <1>1, Unclaimed, Basics
<1>7. \A h \in Gens :
          /\ gens'[h].live = gens[h].live /\ gens'[h].at = gens[h].at
          /\ gens'[h].rewound = gens[h].rewound /\ gens'[h].sent = gens[h].sent
          /\ gens'[h].iter = gens[h].iter /\ gens'[h].owned = gens[h].owned
          /\ gens'[h].arg = gens[h].arg /\ gens'[h].last = gens[h].last
          /\ gens'[h].terminated <=> gens[h].terminated \/ h = g
  BY <1>3, <1>4
<1>8. /\ \A h \in Gens : Active(h)' => Active(h) /\ h # g
      /\ \A h \in Gens : Claims(h)' => Claims(h)
  BY <1>7 DEF Active, Claims
<1>9. Typed' /\ PhaseFits' /\ StackFollows'
  BY <1>1, <1>4, <1>5 DEF IInv, Typed, PhaseFits, StackFollows
<1>10. FramesSound'
  BY <1>1, <1>4, <1>5, <1>6, <1>7, <1>8 DEF IInv, FramesSound
<1>11. VarsLive' /\ ArgsApart'
  BY <1>1, <1>7, <1>8, Basics DEF IInv, VarsLive, ArgsApart
<1>12. ClaimsSound' /\ ClaimsUnique' /\ DelegatesStarted'
  BY <1>1, <1>7, <1>8, Basics DEF IInv, ClaimsSound, ClaimsUnique, DelegatesStarted
<1>13. SuspendedShow' /\ StackShows'
  <2>1. \A h \in Gens : Suspended(h)' => Suspended(h) /\ h # g
    BY <1>1, <1>5, <1>8 DEF Suspended, InStack
  <2>2. \A h \in Gens : Suspended(h) /\ gens[h].iter # None => gens[h].iter # g
    BY <1>6 DEF Claims, Suspended, Active
  <2>3. \A h \in Gens : Suspended(h) /\ gens[h].iter # None => Mirrors(h, gens[h].iter)'
    BY <1>7, <2>2, Basics DEF IInv, SuspendedShow, Mirrors, Active
  <2> QED BY <1>1, <1>5, <1>7, <2>1, <2>2, <2>3 DEF IInv, SuspendedShow, StackShows
<1>14. SentAtTop' /\ DoomedAlone'
  BY <1>1, <1>5, <1>7 DEF IInv, SentAtTop, DoomedAlone
<1>15. Stays
  BY <1>7 DEF Stays
<1> QED BY <1>9, <1>10, <1>11, <1>12, <1>13, <1>14, <1>15 DEF IInv

LEMMA DropKeeps ==
    ASSUME Habits = {}, IInv, NEW g \in Gens, Drop(g)
    PROVE  IInv' /\ Stays
<1>1. /\ phase = "rest" /\ doomed = <<>> /\ g \in vars /\ ~Lent(g)
      /\ vars' = vars \ {g} /\ doomed' = <<g>>
      /\ UNCHANGED <<gens, stack, phase>>
      /\ \A h \in Gens : gens[h].live /\ (h = g \/ h \notin vars) /\ gens[h].iter # None
                         => gens[h].owned
  BY DEF Drop, Asks, AtRest, Habit, Quiet
<1>2. /\ stack = <<>> /\ Len(stack) = 0
      /\ \A h \in Gens : ~InStack(h) /\ gens[h].sent = None
  BY <1>1, Resting
<1>3. gens[g].live /\ \A h \in Gens : Claims(h) => gens[h].iter # g
  BY <1>1, Unclaimed, Basics
<1>4. \A h \in Gens : (Active(h)' <=> Active(h)) /\ (Claims(h)' <=> Claims(h))
                      /\ ~InStack(h)' /\ (Suspended(h)' => Suspended(h))
  BY <1>1, <1>2 DEF Active, Claims, InStack, Suspended
<1>5. Typed' /\ PhaseFits' /\ StackFollows'
  BY <1>1, <1>2 DEF IInv, Typed, PhaseFits, StackFollows
<1>6. FramesSound'
  BY <1>1, <1>2, <1>4 DEF IInv, FramesSound
<1>7. VarsLive'
  BY <1>1, Basics DEF VarsLive
<1>8. ArgsApart'
  <2>1. \A h \in Gens : Active(h) => gens[h].arg # g
    BY <1>1 DEF Lent, Active
  <2> QED BY <1>1, <1>4, <2>1 DEF IInv, ArgsApart
<1>9. ClaimsSound' /\ ClaimsUnique' /\ DelegatesStarted'
  BY <1>1, <1>4 DEF IInv, ClaimsSound, ClaimsUnique, DelegatesStarted
<1>10. SuspendedShow' /\ StackShows' /\ SentAtTop'
  BY <1>1, <1>2, <1>4 DEF IInv, SuspendedShow, StackShows, SentAtTop, Mirrors, Active
<1>11. DoomedAlone'
  <2>1. Alone(g)'
    BY <1>1, <1>3, <1>4 DEF Alone
  <2> QED BY <1>1, <2>1 DEF DoomedAlone
<1>12. Stays
  BY <1>1 DEF Stays
<1> QED BY <1>5, <1>6, <1>7, <1>8, <1>9, <1>10, <1>11, <1>12 DEF IInv

\* rewind, current, next and send put the generator on the empty stack.
LEMMA EnteredKeeps ==
    ASSUME IInv, NEW g \in Gens, NEW f \in Frame,
           phase = "rest", doomed = <<>>, g \in vars, ~Lent(g), Active(g),
           f.live, ~f.terminated, f.rewound, f.sent # None => gens[g].rewound,
           f.at = gens[g].at, f.last = gens[g].last, f.iter = gens[g].iter,
           f.owned = gens[g].owned, f.arg = gens[g].arg,
           gens' = [gens EXCEPT ![g] = f],
           stack' = Append(<<>>, g), phase' = "dispatch", UNCHANGED <<vars, doomed>>
    PROVE  IInv' /\ Stays
<1>1. /\ gens' \in [Gens -> Frame]
      /\ gens'[g] = f
      /\ \A h \in Gens : h # g => gens'[h] = gens[h]
  BY OneFrame, Basics
<1>2. /\ stack = <<>> /\ Len(stack) = 0
      /\ \A h \in Gens : ~InStack(h) /\ gens[h].sent = None
  BY Resting
<1>3. /\ stack' \in Seq(Gens) /\ Len(stack') = 1 /\ stack'[1] = g /\ stack' # <<>>
      /\ Top' = g /\ \A h \in Gens : InStack(h)' <=> h = g
  BY DEF Top, InStack
<1>4. gens[g].live /\ ~gens[g].terminated /\ \A h \in Gens : Claims(h) => gens[h].iter # g
  BY Unclaimed DEF Active
<1>5. \A h \in Gens :
          /\ gens'[h].live = gens[h].live /\ gens'[h].at = gens[h].at
          /\ gens'[h].terminated = gens[h].terminated
          /\ gens[h].rewound => gens'[h].rewound
          /\ h # g => gens'[h].sent = None /\ gens'[h].rewound = gens[h].rewound
          /\ gens'[h].iter = gens[h].iter /\ gens'[h].owned = gens[h].owned
          /\ gens'[h].arg = gens[h].arg /\ gens'[h].last = gens[h].last
  BY <1>1, <1>2, <1>4, Basics DEF Frame
<1>6. \A h \in Gens : (Active(h)' <=> Active(h)) /\ (Claims(h)' <=> Claims(h))
                      /\ (Suspended(h)' => Suspended(h))
  BY <1>2, <1>5 DEF Active, Claims, Suspended
<1>7. Typed' /\ PhaseFits' /\ DoomedAlone'
  BY <1>1, <1>3 DEF IInv, Typed, PhaseFits, DoomedAlone
<1>8. FramesSound'
  <2>1. gens'[g].at = "entry" => gens'[g].sent = None
    BY <1>1, <1>2 DEF IInv, FramesSound
  <2> QED BY <1>1, <1>2, <1>3, <1>4, <1>5, <1>6, <2>1 DEF IInv, FramesSound
<1>9. StackFollows'
  <2>1. ~Lent(g)'
    BY <1>5 DEF Lent
  <2> QED BY <1>1, <1>3, <1>6, <2>1 DEF StackFollows
<1>10. VarsLive' /\ ArgsApart'
  BY <1>5, <1>6, Basics DEF IInv, VarsLive, ArgsApart
<1>11. ClaimsSound' /\ ClaimsUnique' /\ DelegatesStarted'
  BY <1>5, <1>6, Basics DEF IInv, ClaimsSound, ClaimsUnique, DelegatesStarted
<1>12. SuspendedShow' /\ StackShows'
  <2>1. \A h \in Gens : Suspended(h) /\ gens[h].iter # None => Mirrors(h, gens[h].iter)'
    BY <1>5, Basics DEF IInv, SuspendedShow, Mirrors, Active
  <2> QED BY <1>3, <1>5, <1>6, <2>1 DEF IInv, SuspendedShow, StackShows
<1>13. SentAtTop'
  BY <1>3, <1>5 DEF SentAtTop
<1>14. Stays
  BY <1>5 DEF Stays
<1> QED BY <1>7, <1>8, <1>9, <1>10, <1>11, <1>12, <1>13, <1>14 DEF IInv

LEMMA ScriptEnterKeeps ==
    ASSUME Habits = {}, IInv, NEW g \in Gens,
           \/ \E name \in {"rewind", "current"} : Start(g, name)
           \/ CallNext(g)
           \/ \E c \in Cells : Send(g, c)
    PROVE  IInv' /\ Stays
<1>1. /\ phase = "rest" /\ doomed = <<>> /\ g \in vars /\ ~Lent(g)
      /\ stack' = Append(<<>>, g) /\ phase' = "dispatch" /\ UNCHANGED <<vars, doomed>>
  BY DEF Start, CallNext, Send, Asks, AtRest, Habit, Enter
<1>2. gens[g] \in Frame /\ gens[g].live /\ (gens[g].terminated => gens[g].rewound)
      /\ gens[g].sent = None
  BY <1>1, Basics, Resting DEF IInv, FramesSound
<1>3. CASE \E name \in {"rewind", "current"} : Start(g, name)
  <2> DEFINE f == [gens[g] EXCEPT !.rewound = TRUE]
  <2>1. ~gens[g].rewound /\ gens' = [gens EXCEPT ![g] = f]
    BY <1>3 DEF Start
  <2>2. /\ f \in Frame /\ f.live /\ ~f.terminated /\ f.rewound /\ f.sent = None
        /\ f.at = gens[g].at /\ f.last = gens[g].last /\ f.iter = gens[g].iter
        /\ f.owned = gens[g].owned /\ f.arg = gens[g].arg
    BY <1>2, <2>1 DEF Frame
  <2>3. Active(g)
    BY <1>2, <2>1 DEF Active
  <2> HIDE DEF f
  <2> QED BY <1>1, <2>1, <2>2, <2>3, EnteredKeeps
<1>4. CASE CallNext(g)
  <2>1. gens[g].rewound /\ ~gens[g].terminated /\ gens' = gens
    BY <1>4 DEF CallNext, Started, Habit
  <2>2. gens' = [gens EXCEPT ![g] = gens[g]]
    BY <2>1, Basics
  <2> QED BY <1>1, <1>2, <2>1, <2>2, EnteredKeeps DEF Active
<1>5. CASE \E c \in Cells : Send(g, c)
  <2> PICK c \in Cells : Send(g, c)
    BY <1>5
  <2> DEFINE f == [gens[g] EXCEPT !.sent = c]
  <2>1. gens[g].rewound /\ ~gens[g].terminated /\ gens' = [gens EXCEPT ![g] = f]
    BY DEF Send, Started, Habit
  <2>2. /\ f \in Frame /\ f.live /\ ~f.terminated /\ f.rewound
        /\ f.at = gens[g].at /\ f.last = gens[g].last /\ f.iter = gens[g].iter
        /\ f.owned = gens[g].owned /\ f.arg = gens[g].arg
    BY <1>2, <2>1 DEF Frame
  <2>3. Active(g)
    BY <1>2, <2>1 DEF Active
  <2> HIDE DEF f
  <2> QED BY <1>1, <2>1, <2>2, <2>3, EnteredKeeps
<1> QED BY <1>3, <1>4, <1>5

\* The innermost generator, its frame on top of the stack.
LEMMA Innermost ==
    ASSUME IInv, stack # <<>>, NEW g, g = Top
    PROVE  /\ g \in Gens /\ Len(stack) \in 1..Len(stack) /\ Len(stack) >= 1 /\ stack[Len(stack)] = g
           /\ InStack(g) /\ Active(g) /\ gens[g].live /\ ~gens[g].terminated /\ gens[g].rewound
           /\ phase # "dispatch" => \A h \in Gens : gens[h].sent = None
<1>1. Len(stack) \in 1..Len(stack) /\ Len(stack) >= 1
  BY LastOf, Basics
<1>2. g = stack[Len(stack)] /\ g \in Gens
  BY <1>1, Basics, LastOf DEF Top
<1>3. InStack(g) /\ Active(g) /\ gens[g].rewound
  BY <1>1, <1>2 DEF IInv, StackFollows, InStack
<1> QED BY <1>1, <1>2, <1>3 DEF IInv, SentAtTop, Active

\* A parameter in use is claimed by the generator that has it, or not at all.
LEMMA LentOnce ==
    ASSUME IInv, NEW g \in Gens, Active(g), gens[g].arg # None,
           NEW h \in Gens, Claims(h), gens[h].iter = gens[g].arg
    PROVE  h = g
<1>1. gens[g].arg \in vars
  BY DEF IInv, ArgsApart
<1>2. ~gens[h].owned /\ gens[h].iter = gens[h].arg /\ Active(h)
  BY <1>1 DEF IInv, ClaimsSound, Claims, Active
<1> QED BY <1>2 DEF IInv, ArgsApart

\* A step of the innermost generator that stays in its resume function: it
\* has no delegate afterwards, or one that waits at its first yield.
LEMMA TopKeeps ==
    ASSUME IInv, NEW g \in Gens, NEW f \in Frame, stack # <<>>, g = Top, doomed = <<>>,
           gens' = [gens EXCEPT ![g] = f], UNCHANGED <<vars, stack>>, DoomedAlone',
           f.live, ~f.terminated, f.sent = None,
           f.rewound = gens[g].rewound, f.at = gens[g].at, f.last = gens[g].last,
           f.arg = gens[g].arg, ~f.owned,
           \/ f.iter = None /\ phase' = "body"
           \/ /\ f.iter # None /\ f.iter = f.arg /\ gens[f.iter].rewound /\ phase' = "returned"
    PROVE  IInv' /\ Stays
<1>1. /\ gens' \in [Gens -> Frame]
      /\ gens'[g] = f
      /\ \A h \in Gens : h # g => gens'[h] = gens[h]
  BY OneFrame, Basics
<1>2. /\ Len(stack) \in 1..Len(stack) /\ stack[Len(stack)] = g
      /\ InStack(g) /\ Active(g) /\ gens[g].live /\ ~gens[g].terminated /\ gens[g].rewound
      /\ phase # "dispatch" => \A h \in Gens : gens[h].sent = None
  BY Innermost
<1>3. \A h \in Gens :
          /\ gens'[h].live = gens[h].live /\ gens'[h].at = gens[h].at
          /\ gens'[h].terminated <=> gens[h].terminated
          /\ gens'[h].rewound = gens[h].rewound
          /\ gens'[h].arg = gens[h].arg /\ gens'[h].last = gens[h].last
          /\ h # g => /\ gens'[h].iter = gens[h].iter /\ gens'[h].owned = gens[h].owned
                      /\ gens'[h].sent = gens[h].sent
  BY <1>1, <1>2
<1>4. \A h \in Gens : /\ Active(h)' <=> Active(h)
                      /\ h # g => (Claims(h)' <=> Claims(h))
                      /\ InStack(h)' <=> InStack(h)
                      /\ Suspended(h)' => Suspended(h) /\ h # g
  BY <1>2, <1>3 DEF Active, Claims, Suspended, InStack
<1>5. Typed' /\ VarsLive' /\ ArgsApart' /\ Stays
  BY <1>1, <1>3, <1>4, Basics DEF IInv, Typed, VarsLive, ArgsApart, Stays
<1>6. FramesSound' /\ PhaseFits'
  BY <1>1, <1>2, <1>3, <1>4 DEF IInv, FramesSound, PhaseFits
<1>7. StackFollows'
  <2>1. Lent(stack[1])' => Lent(stack[1])
    BY <1>3 DEF Lent
  <2>2. \A k \in 1..(Len(stack) - 1) : k \in 1..Len(stack) /\ stack[k] # g /\ stack[k] \in Gens
    BY <1>2, Basics DEF IInv, StackFollows
  <2>3. gens'[g].iter = f.iter /\ Top' = g
    BY <1>1 DEF Top
  <2>4. \A k \in 1..(Len(stack) - 1) : gens'[stack[k]].iter = stack[k + 1]
    BY <1>3, <2>2 DEF IInv, StackFollows
  <2>5. \A k \in 1..Len(stack) : Active(stack[k])' /\ gens'[stack[k]].rewound
    BY <1>3, <1>4, Basics DEF IInv, StackFollows
  <2> QED BY <2>1, <2>3, <2>4, <2>5 DEF IInv, StackFollows
<1>8. f.iter # None => /\ gens[f.iter].live /\ f.iter \in vars /\ f.iter \in Gens
                       /\ \A h \in Gens : h # g /\ Claims(h) => gens[h].iter # f.iter
  BY <1>2, Basics, LentOnce DEF IInv, ArgsApart
<1>9. ClaimsSound' /\ ClaimsUnique' /\ DelegatesStarted'
  BY <1>1, <1>3, <1>4, <1>8, Basics DEF IInv, ClaimsSound, ClaimsUnique, DelegatesStarted, Claims
<1>10. SuspendedShow'
  BY <1>3, <1>4, Basics DEF IInv, SuspendedShow, Mirrors
<1>11. StackShows'
  <2>1. \A k \in 1..(Len(stack) - 1) : stack[k] \in Gens /\ stack[k + 1] \in Gens
    BY Basics
  <2> QED BY <1>3, <1>4, <2>1 DEF IInv, StackShows, Mirrors
<1>12. SentAtTop'
  BY <1>1, <1>2, <1>3 DEF IInv, SentAtTop
<1> QED BY <1>5, <1>6, <1>7, <1>9, <1>10, <1>11, <1>12 DEF IInv


\* The resume function of the innermost generator returns: at a yield, with
\* what its delegate shows if it has one, or finished.
LEMMA LeaveKeeps ==
    ASSUME IInv, NEW g \in Gens, NEW f \in Frame, stack # <<>>, g = Top, doomed = <<>>,
           phase \in {"body", "returned"},
           gens' = [gens EXCEPT ![g] = f], Leave, vars' = vars, DoomedAlone',
           f.live, f.rewound, f.sent = None, f.arg = gens[g].arg,
           \/ /\ ~f.terminated /\ f.at # "entry"
              /\ f.iter = gens[g].iter /\ f.owned = gens[g].owned
              /\ f.iter # None <=> f.at = "from"
              /\ f.iter # None => ~gens[f.iter].terminated /\ f.last = gens[f.iter].last
           \/ f.terminated /\ f.iter = None /\ ~f.owned
    PROVE  IInv' /\ Stays
<1>1. /\ gens' \in [Gens -> Frame]
      /\ gens'[g] = f
      /\ \A h \in Gens : h # g => gens'[h] = gens[h]
  BY OneFrame, Basics
<1>2. /\ Len(stack) \in 1..Len(stack) /\ Len(stack) >= 1 /\ stack[Len(stack)] = g
      /\ InStack(g) /\ Active(g) /\ gens[g].live /\ ~gens[g].terminated /\ gens[g].rewound
      /\ \A h \in Gens : gens[h].sent = None
  BY Innermost
<1> DEFINE n == Len(stack) - 1
<1>3. /\ n \in Nat /\ n \in 0..Len(stack) /\ Len(stack) = n + 1 /\ stack \in Seq(Gens)
      /\ stack[n + 1] = g
  BY <1>2, LastOf, Basics
<1>4. /\ stack' \in Seq(Gens) /\ Len(stack') = n /\ \A k \in 1..n : stack'[k] = stack[k]
      /\ phase' = IF n = 0 THEN "deliver" ELSE "returned"
  BY <1>3, Popped DEF Leave, Below
<1> HIDE DEF n
<1>5. \A k \in 1..n : k \in 1..Len(stack) /\ stack[k] \in Gens /\ stack[k] # g
  BY <1>2, <1>3 DEF IInv, StackFollows
<1>6. \A h \in Gens : InStack(h)' <=> InStack(h) /\ h # g
  BY <1>3, <1>4, <1>5 DEF InStack
<1>7. \A h \in Gens : gens'[h].live = gens[h].live /\ gens'[h].arg = gens[h].arg
                      /\ (gens'[h].rewound <=> gens[h].rewound)
                      /\ (gens[h].terminated => gens'[h].terminated /\ h # g)
  BY <1>1, <1>2
<1>8. \A h \in Gens : /\ Active(h)' => Active(h)
                      /\ h # g => (Active(h)' <=> Active(h)) /\ (Claims(h)' <=> Claims(h))
                      /\ Claims(h)' => /\ Claims(h) /\ gens'[h].iter = gens[h].iter
                                       /\ gens'[h].owned = gens[h].owned
  BY <1>1, <1>2 DEF Active, Claims
<1>9. Typed' /\ VarsLive' /\ ArgsApart' /\ Stays
  BY <1>1, <1>4, <1>7, <1>8, Basics DEF IInv, Typed, VarsLive, ArgsApart, Stays
<1>10. FramesSound'
  <2>1. gens[g].owned => gens[g].iter # None
    BY DEF IInv, FramesSound
  <2>2. /\ f.terminated => f.iter = None /\ ~f.owned
        /\ ~f.terminated => f.at # "entry" /\ f.iter = gens[g].iter /\ f.owned = gens[g].owned
    OBVIOUS
  <2>3. \A h \in Gens : doomed # <<h>>
    OBVIOUS
  <2>4. ASSUME NEW h \in Gens, h # g
        PROVE  /\ ~gens'[h].live => gens'[h] = Blank
               /\ gens'[h].terminated => gens'[h].rewound
               /\ ~gens'[h].rewound => gens'[h].at = "entry"
               /\ gens'[h].at = "entry" => gens'[h].sent = None
               /\ Active(h)' /\ ~InStack(h)' /\ gens'[h].rewound => gens'[h].at # "entry"
               /\ gens'[h].owned => gens'[h].iter # None
               /\ gens'[h].terminated /\ gens'[h].iter # None => h \in vars
    BY <1>1, <1>6, <1>8, <2>3, <2>4 DEF IInv, FramesSound
  <2> QED BY <1>1, <2>1, <2>2, <2>4 DEF FramesSound, Active
<1>11. PhaseFits'
  BY <1>3, <1>4, EmptySeq DEF PhaseFits
<1>12. StackFollows'
  <2>1. \A h \in Gens : Lent(h)' => Lent(h)
    BY <1>7 DEF Lent
  <2>2. \A k \in 1..n : Active(stack[k])' /\ gens'[stack'[k]].rewound
    BY <1>1, <1>4, <1>5, <1>8 DEF IInv, StackFollows
  <2>3. \A k \in 1..(n - 1) : k \in 1..n /\ k + 1 \in 1..n /\ k \in 1..(Len(stack) - 1)
    BY <1>3
  <2>4. \A k \in 1..(n - 1) : gens'[stack'[k]].iter = stack'[k + 1]
    BY <1>1, <1>4, <1>5, <2>3 DEF IInv, StackFollows
  <2>5. \A k, l \in 1..n : stack'[k] = stack'[l] => k = l
    BY <1>4, <1>5 DEF IInv, StackFollows
  <2>6. n # 0 => n \in 1..n /\ 1 \in 1..n /\ n \in 1..(Len(stack) - 1)
    BY <1>3
  <2>7. n # 0 => gens'[Top'].iter # None
    <3>1. n # 0 => gens[stack[n]].iter = g /\ Top' = stack[n]
      BY <1>3, <1>4, <2>6 DEF IInv, StackFollows, Top
    <3> QED BY <1>1, <1>5, <2>6, <3>1, NoneAssumption
  <2>8. stack' # <<>> => stack'[1] \in vars' /\ ~Lent(stack[1])'
    BY <1>3, <1>4, <1>5, <2>1, <2>6 DEF IInv, StackFollows
  <2> QED BY <1>4, <2>2, <2>4, <2>5, <2>7, <2>8 DEF StackFollows
<1>13. ClaimsSound' /\ ClaimsUnique' /\ DelegatesStarted'
  <2>1. \A h \in Gens : Active(h)' /\ gens'[h].iter # None => Active(h) /\ gens'[h].iter = gens[h].iter
    BY <1>1, <1>8 DEF Active
  <2> QED BY <1>7, <1>8, <2>1, Basics DEF IInv, ClaimsSound, ClaimsUnique, DelegatesStarted
<1>14. SuspendedShow'
  <2>1. \A h \in Gens : Suspended(h)' => ~InStack(h)' /\ Active(h)'
    BY <1>4 DEF Suspended
  <2>2. ASSUME NEW h \in Gens, Suspended(h)', h # g
        PROVE  /\ gens'[h].iter # None <=> gens'[h].at = "from"
               /\ gens'[h].iter # None => Mirrors(h, gens[h].iter)'
    <3>1. Suspended(h)
      BY <1>6, <1>8, <2>1, <2>2 DEF Suspended
    <3>2. gens[h].iter # None => gens[h].iter # g /\ gens[h].iter \in Gens /\ Mirrors(h, gens[h].iter)
      BY <1>2, <3>1, DelegateOffStack, Basics DEF IInv, SuspendedShow
    <3> QED BY <1>1, <1>8, <2>2, <3>1, <3>2 DEF IInv, SuspendedShow, Mirrors
  <2>3. ASSUME Suspended(g)'
        PROVE  /\ gens'[g].iter # None <=> gens'[g].at = "from"
               /\ gens'[g].iter # None => Mirrors(g, gens[g].iter)'
    <3>1. ~f.terminated
      BY <1>1, <2>1, <2>3 DEF Active
    <3>2. f.iter # None => f.iter \in Gens /\ gens[f.iter].live
      BY <1>2, <3>1, Basics
    <3> QED BY <1>1, <1>2, <3>1, <3>2 DEF Mirrors, Active
  <2> QED BY <2>2, <2>3 DEF SuspendedShow
<1>15. StackShows'
  <2>1. \A k \in 1..(n - 1) : k \in 1..n /\ k + 1 \in 1..n /\ k \in 1..(Len(stack) - 1)
    BY <1>3
  <2> QED BY <1>1, <1>4, <1>5, <1>8, <2>1 DEF IInv, StackShows, Mirrors
<1>16. SentAtTop'
  BY <1>1, <1>2 DEF SentAtTop
<1> QED BY <1>9, <1>10, <1>11, <1>12, <1>13, <1>14, <1>15, <1>16 DEF IInv

\* Two frames are replaced.
TwoReplaced(g, f, i, e) ==
    /\ gens' \in [Gens -> Frame]
    /\ gens'[g] = f /\ gens'[i] = e
    /\ \A h \in Gens : h # g /\ h # i => gens'[h] = gens[h]

LEMMA TwoFrames ==
    ASSUME gens \in [Gens -> Frame], NEW g \in Gens, NEW i \in Gens, g # i,
           NEW f \in Frame, NEW e \in Frame, gens' = [gens EXCEPT ![g] = f, ![i] = e]
    PROVE  TwoReplaced(g, f, i, e)
  BY DEF TwoReplaced

\* The innermost generator resumes its delegate, which nobody else claims.
LEMMA EnterKeeps ==
    ASSUME IInv, NEW g \in Gens, NEW i \in Gens, NEW f \in Frame, NEW e \in Frame,
           stack # <<>>, g = Top, g # i, doomed = <<>>,
           TwoReplaced(g, f, i, e),
           stack' = Append(stack, i), phase' = "dispatch", UNCHANGED <<vars, doomed>>,
           ~InStack(i), \A h \in Gens : Claims(h) /\ h # g => gens[h].iter # i,
           f.live, ~f.terminated, f.rewound, f.sent = None, f.at = gens[g].at,
           f.last = gens[g].last, f.arg = gens[g].arg, f.iter = i,
           IF f.owned THEN i \notin vars ELSE i = f.arg,
           e.live, ~e.terminated, e.rewound,
           e.at = "entry" => e.sent = None,
           e.at = "entry" \/ f.last = e.last,
           \/ /\ Active(i) /\ e.iter = gens[i].iter /\ e.owned = gens[i].owned
              /\ e.at = gens[i].at /\ e.last = gens[i].last /\ e.arg = gens[i].arg
           \/ ~gens[i].live /\ e.iter = None /\ ~e.owned /\ e.at = "entry" /\ e.arg = None
    PROVE  IInv' /\ Stays
<1>1. /\ gens' \in [Gens -> Frame]
      /\ gens'[g] = f /\ gens'[i] = e
      /\ \A h \in Gens : h # g /\ h # i => gens'[h] = gens[h]
  BY DEF TwoReplaced
<1>2. /\ Len(stack) \in 1..Len(stack) /\ Len(stack) >= 1 /\ stack[Len(stack)] = g
      /\ InStack(g) /\ Active(g) /\ gens[g].live /\ ~gens[g].terminated /\ gens[g].rewound
  BY Innermost
<1> DEFINE n == Len(stack)
<1>3. /\ n \in Nat /\ n \in 1..n /\ n >= 1 /\ stack \in Seq(Gens) /\ stack[n] = g
  BY <1>2, Basics
<1>4. /\ stack' \in Seq(Gens) /\ Len(stack') = n + 1 /\ stack'[n + 1] = i
      /\ \A k \in 1..n : stack'[k] = stack[k]
  BY <1>3, Pushed
<1> HIDE DEF n
<1>5. \A k \in 1..n : stack[k] \in Gens /\ stack[k] # i /\ (stack[k] = g => k = n)
  BY <1>3 DEF IInv, StackFollows, InStack, n
<1>6. \A h \in Gens : InStack(h)' <=> InStack(h) \/ h = i
  BY <1>3, <1>4 DEF InStack, n
<1>7. Top' = i /\ stack' # <<>>
  BY <1>3, <1>4 DEF Top
<1>8. \A h \in Gens : /\ gens[h].live => gens'[h].live
                      /\ gens[h].rewound => gens'[h].rewound
                      /\ gens[h].terminated => gens'[h].terminated /\ h # g /\ h # i
                      /\ h # i => (gens'[h].live <=> gens[h].live) /\ gens'[h].at = gens[h].at
                                  /\ gens'[h].last = gens[h].last /\ gens'[h].arg = gens[h].arg
                                  /\ (gens'[h].terminated <=> gens[h].terminated)
                      /\ Active(h)' /\ gens'[h].arg # None => Active(h) /\ gens'[h].arg = gens[h].arg
                      /\ h # i => (Active(h)' <=> Active(h))
                      /\ h # g /\ h # i => (Claims(h)' <=> Claims(h))
  <2>1. ~gens[i].terminated
    BY Basics DEF Active
  <2>2. ASSUME NEW h \in Gens, h # g, h # i
        PROVE  gens'[h] = gens[h] /\ (Active(h)' <=> Active(h)) /\ (Claims(h)' <=> Claims(h))
    BY <1>1, <2>2 DEF Active, Claims
  <2>3. Active(g)' /\ gens'[g].arg = gens[g].arg /\ gens'[g].last = gens[g].last
        /\ gens'[g].at = gens[g].at /\ gens'[g].live /\ ~gens'[g].terminated /\ gens'[g].rewound
    BY <1>1 DEF Active
  <2>4. /\ gens'[i].live /\ gens'[i].rewound
        /\ Active(i)' /\ gens'[i].arg # None => Active(i) /\ gens'[i].arg = gens[i].arg
    BY <1>1
  <2>5. ASSUME NEW h \in Gens, h = g \/ h = i
        PROVE  gens[h].terminated => h # g /\ h # i
    BY <1>2, <2>1, <2>5
  <2> QED BY <1>2, <2>1, <2>2, <2>3, <2>4, <2>5
<1>9. Claims(i)' => Claims(i) /\ e.iter = gens[i].iter /\ e.owned = gens[i].owned /\ e.arg = gens[i].arg
  BY <1>1 DEF Claims, Active
<1>10. Typed' /\ VarsLive' /\ Stays
  BY <1>1, <1>4, <1>8, Basics DEF IInv, Typed, VarsLive, Stays
<1>11. ArgsApart'
  <2>1. \A h \in Gens : Active(h)' /\ gens'[h].arg # None => Active(h) /\ gens'[h].arg = gens[h].arg
    BY <1>8
  <2>2. ArgsApart
    BY DEF IInv
  <2>3. \A a \in Gens : Active(a)' /\ gens'[a].arg # None => gens'[a].arg \in vars'
    <3>1. vars' = vars
      OBVIOUS
    <3> QED BY ONLY <2>1, <2>2, <3>1 DEF ArgsApart
  <2>4. \A a, b \in Gens : Active(a)' /\ Active(b)' /\ gens'[a].arg # None
                           /\ gens'[a].arg = gens'[b].arg => a = b
    BY ONLY <2>1, <2>2 DEF ArgsApart
  <2> QED BY <2>3, <2>4 DEF ArgsApart
<1>12. FramesSound'
  <2>1. ASSUME NEW h \in Gens, h # g, h # i
        PROVE  /\ ~gens'[h].live => gens'[h] = Blank
               /\ gens'[h].terminated => gens'[h].rewound
               /\ ~gens'[h].rewound => gens'[h].at = "entry"
               /\ gens'[h].at = "entry" => gens'[h].sent = None
               /\ Active(h)' /\ ~InStack(h)' /\ gens'[h].rewound => gens'[h].at # "entry"
               /\ gens'[h].owned => gens'[h].iter # None
               /\ gens'[h].terminated /\ gens'[h].iter # None => h \in vars \/ doomed = <<h>>
    BY <1>1, <1>6, <1>8, <2>1 DEF IInv, FramesSound
  <2>2. e.owned => e.iter # None
    <3>1. FramesSound
      BY DEF IInv
    <3>2. gens[i].owned => gens[i].iter # None
      BY <3>1 DEF FramesSound
    <3> QED BY <3>2
  <2>3. i # None
    BY NoneAssumption
  <2> QED BY <1>1, <1>2, <1>6, <2>1, <2>2, <2>3 DEF FramesSound
<1>13. PhaseFits' /\ DoomedAlone'
  BY <1>7 DEF PhaseFits, DoomedAlone
<1>14. StackFollows'
  <2>1. \A h \in Gens : Lent(h)' => Lent(h)
    <3>1. ASSUME NEW h \in Gens, NEW b \in Gens, gens'[b].live, ~gens'[b].terminated, gens'[b].arg = h
          PROVE  Active(b) /\ gens[b].arg = h
      <4>1. h # None
        BY NoneAssumption
      <4> QED BY <1>8, <3>1, <4>1 DEF Active
    <3> QED BY <3>1 DEF Lent, Active
  <2>2. \A k \in 1..(n + 1) : k \in 1..n \/ k = n + 1
    BY <1>3
  <2>3. \A k \in 1..n : Active(stack[k])' /\ gens'[stack[k]].rewound
    <3>1. ASSUME NEW k \in 1..n
          PROVE  Active(stack[k])' /\ gens'[stack[k]].rewound
      <4>1. stack[k] \in Gens /\ stack[k] # i /\ stack'[k] = stack[k]
        BY <1>4, <1>5
      <4>2. Active(stack[k]) /\ gens[stack[k]].rewound
        BY DEF IInv, StackFollows, n
      <4> QED BY <1>8, <4>1, <4>2 DEF Active
    <3> QED BY <3>1
  <2>4. Active(i)'
    BY <1>1 DEF Active
  <2>5. \A k \in 1..(n + 1) : gens'[stack'[k]].live /\ ~gens'[stack'[k]].terminated
                              /\ gens'[stack'[k]].rewound
    BY <1>1, <1>4, <2>2, <2>3, <2>4 DEF Active
  <2>6. \A k \in 1..n : k = n \/ (k \in 1..(Len(stack) - 1) /\ k + 1 \in 1..n)
    BY <1>3 DEF n
  <2>7. \A k \in 1..n : k # n => gens'[stack'[k]].iter = stack'[k + 1]
    BY <1>1, <1>4, <1>5, <2>6 DEF IInv, StackFollows
  <2>8. \A k \in 1..((n + 1) - 1) : k \in 1..n
    BY <1>3
  <2>9. \A k \in 1..((n + 1) - 1) : gens'[stack'[k]].iter = stack'[k + 1]
    BY <1>1, <1>3, <1>4, <2>7, <2>8
  <2>10. \A k, l \in 1..(n + 1) : stack'[k] = stack'[l] => k = l
    BY <1>4, <1>5, <2>2 DEF IInv, StackFollows, n
  <2>11. stack'[1] \in vars' /\ ~Lent(stack[1])' /\ stack'[1] = stack[1]
    BY <1>3, <1>4, <1>5, <2>1 DEF IInv, StackFollows
  <2> QED BY <1>4, <2>5, <2>9, <2>10, <2>11 DEF StackFollows, Active, Lent
<1>15. ClaimsSound'
  <2>1. gens'[g].iter = i /\ gens'[i].live
    BY <1>1
  <2> QED BY <1>1, <1>8, <1>9, <2>1, Basics DEF IInv, ClaimsSound
<1>16. ClaimsUnique' /\ DelegatesStarted'
  <2>1. \A h \in Gens : h # g /\ Claims(h)' => Claims(h) /\ gens'[h].iter = gens[h].iter /\ gens[h].iter # i
    BY <1>1, <1>8, <1>9
  <2>2. ClaimsUnique'
    BY <1>1, <2>1 DEF IInv, ClaimsUnique
  <2>3. \A h \in Gens : h # g /\ Active(h)' /\ gens'[h].iter # None
                        => Active(h) /\ gens'[h].iter = gens[h].iter
    BY <1>1, <1>8
  <2>4. DelegatesStarted'
    BY <1>1, <1>8, <2>3, Basics DEF IInv, DelegatesStarted
  <2> QED BY <2>2, <2>4
<1>17. SuspendedShow'
  <2>1. \A h \in Gens : Suspended(h)' => Active(h)' /\ (h = i \/ ~InStack(h)')
    BY <1>7 DEF Suspended
  <2>2. ASSUME NEW h \in Gens, Suspended(h)', h # i
        PROVE  /\ gens'[h].iter # None <=> gens'[h].at = "from"
               /\ gens'[h].iter # None => Mirrors(h, gens[h].iter)' /\ gens'[h].iter = gens[h].iter
    <3>1. Suspended(h) /\ h # g /\ gens'[h] = gens[h]
      BY <1>1, <1>2, <1>6, <1>8, <2>1, <2>2 DEF Suspended
    <3>2. gens[h].iter # None => /\ gens[h].iter # g /\ gens[h].iter # i /\ gens[h].iter \in Gens
                                 /\ Mirrors(h, gens[h].iter)
      BY <1>2, <3>1, DelegateOffStack, Basics DEF IInv, SuspendedShow, Suspended
    <3> QED BY <1>1, <1>8, <2>2, <3>1, <3>2 DEF IInv, SuspendedShow, Mirrors
  <2>3. /\ e.iter # None <=> e.at = "from"
        /\ e.iter # None => Mirrors(i, e.iter)'
    <3>1. CASE ~gens[i].live /\ e.iter = None /\ ~e.owned /\ e.at = "entry" /\ e.arg = None
      BY <3>1
    <3>2. CASE Active(i) /\ e.iter = gens[i].iter /\ e.at = gens[i].at /\ e.last = gens[i].last
      <4>1. Suspended(i)
        BY <3>2 DEF Suspended
      <4>2. /\ gens[i].iter # None <=> gens[i].at = "from"
            /\ gens[i].iter # None => /\ gens[i].iter # g /\ gens[i].iter \in Gens
                                      /\ Mirrors(i, gens[i].iter)
        BY <1>2, <4>1, DelegateOffStack, Basics DEF IInv, SuspendedShow
      <4>3. e.iter # None => Mirrors(i, e.iter)'
        <5>1. CASE e.iter = i
          BY <1>1, <5>1 DEF Mirrors, Active
        <5>2. CASE e.iter # i
          BY <1>1, <1>8, <3>2, <4>2, <5>2 DEF Mirrors
        <5> QED BY <5>1, <5>2
      <4> QED BY <3>2, <4>2, <4>3
    <3> QED BY <3>1, <3>2
  <2> QED BY <1>1, <2>2, <2>3 DEF SuspendedShow, Mirrors, Active
<1>18. StackShows'
  <2>1. \A k \in 1..((n + 1) - 1) : k \in 1..n /\ (k = n \/ (k \in 1..(Len(stack) - 1) /\ k + 1 \in 1..n))
    BY <1>3 DEF n
  <2>2. f.at = "from" /\ e.at # "entry" => f.last = e.last /\ Active(i)'
    BY <1>1 DEF Active
  <2> QED BY <1>1, <1>3, <1>4, <1>5, <1>8, <2>1, <2>2 DEF IInv, StackShows, Mirrors, Active
<1>19. SentAtTop'
  BY <1>1, <1>6, <1>7 DEF IInv, SentAtTop
<1> QED BY <1>10, <1>11, <1>12, <1>13, <1>14, <1>15, <1>16, <1>17, <1>18, <1>19 DEF IInv

LEMMA DispatchYieldKeeps ==
    ASSUME IInv, NEW g \in Gens, DispatchYield(g)
    PROVE  IInv' /\ Stays
<1>1. /\ doomed = <<>> /\ phase = "dispatch" /\ stack # <<>> /\ g = Top /\ gens[g].at # "from"
      /\ phase' = "body" /\ UNCHANGED <<vars, stack, doomed>>
  BY DEF DispatchYield, Runs
<1>2. gens[g] \in Frame /\ InStack(g) /\ Active(g) /\ gens[g].live /\ ~gens[g].terminated
  BY <1>1, Innermost, Basics
<1>3. gens[g].iter = None /\ ~gens[g].owned
  BY <1>1, <1>2 DEF IInv, SuspendedShow, Suspended, FramesSound
<1>4. DoomedAlone'
  BY <1>1 DEF DoomedAlone
<1>5. ASSUME NEW f \in Frame, gens' = [gens EXCEPT ![g] = f], f.sent = None,
             \A field \in {"live", "terminated", "rewound", "at", "last", "arg", "iter", "owned"} :
                   f[field] = gens[g][field]
      PROVE  IInv' /\ Stays
  BY <1>1, <1>2, <1>3, <1>4, <1>5, TopKeeps DEF Frame
<1>6. CASE gens[g].at = "entry"
  <2>1. gens' = [gens EXCEPT ![g] = gens[g]]
    BY <1>6, Basics DEF DispatchYield
  <2>2. gens[g].sent = None
    BY <1>6 DEF IInv, FramesSound
  <2> QED BY <1>2, <1>5, <2>1, <2>2
<1>7. CASE gens[g].at = "plain" \/ (gens[g].at = "assign" /\ gens[g].sent = None)
  <2> DEFINE f == [gens[g] EXCEPT !.sent = None]
  <2>1. /\ f \in Frame /\ f.sent = None
        /\ \A field \in {"live", "terminated", "rewound", "at", "last", "arg", "iter", "owned"} :
                 f[field] = gens[g][field]
    BY <1>2 DEF Frame
  <2>2. gens' = [gens EXCEPT ![g] = f]
    <3>1. CASE gens[g].at = "plain"
      BY <3>1, Basics DEF DispatchYield
    <3>2. CASE gens[g].at = "assign" /\ gens[g].sent = None
      <4>1. gens' = gens
        BY <3>2 DEF DispatchYield
      <4>2. f = gens[g]
        BY <1>2, <3>2 DEF Frame
      <4> QED BY <4>1, <4>2, Basics
    <3> QED BY <1>7, <3>1, <3>2
  <2> HIDE DEF f
  <2> QED BY <1>5, <2>1, <2>2
<1>8. CASE gens[g].at = "assign" /\ gens[g].sent # None
  <2> DEFINE f == [gens[g] EXCEPT !.sent = None, !.local = gens[g].sent]
  <2>1. /\ f \in Frame /\ f.sent = None
        /\ \A field \in {"live", "terminated", "rewound", "at", "last", "arg", "iter", "owned"} :
                 f[field] = gens[g][field]
    BY <1>2 DEF Frame
  <2>2. gens' = [gens EXCEPT ![g] = f]
    BY <1>8, Basics DEF DispatchYield
  <2> HIDE DEF f
  <2> QED BY <1>5, <2>1, <2>2
<1>9. gens[g].at \in {"entry", "plain", "assign"}
  BY <1>1, <1>2 DEF Frame, Labels
<1> QED BY <1>6, <1>7, <1>8, <1>9

LEMMA AssignKeeps ==
    ASSUME IInv, NEW g \in Gens, NEW v \in Cells, AssignMixed(g, v)
    PROVE  IInv' /\ Stays
<1>1. /\ doomed = <<>> /\ phase = "body" /\ stack # <<>> /\ g = Top
      /\ phase' = "body" /\ UNCHANGED <<vars, stack, doomed>>
  BY DEF AssignMixed, Runs
<1>2. /\ gens[g] \in Frame /\ gens[g].live /\ ~gens[g].terminated /\ gens[g].sent = None
      /\ gens[g].iter = None /\ ~gens[g].owned
  BY <1>1, Innermost, Basics DEF IInv, StackFollows, FramesSound
<1>3. DoomedAlone'
  BY <1>1 DEF DoomedAlone
<1> DEFINE f == [gens[g] EXCEPT !.local = v]
<1>4. /\ f \in Frame /\ gens' = [gens EXCEPT ![g] = f]
      /\ f.live /\ ~f.terminated /\ f.sent = None /\ f.iter = None /\ ~f.owned
      /\ f.rewound = gens[g].rewound /\ f.at = gens[g].at /\ f.last = gens[g].last
      /\ f.arg = gens[g].arg
  BY <1>2, Basics DEF AssignMixed, Frame
<1> HIDE DEF f
<1> QED BY <1>1, <1>3, <1>4, TopKeeps

LEMMA YieldKeeps ==
    ASSUME IInv, NEW g \in Gens, NEW label \in {"plain", "assign"}, NEW v \in Cells \cup {None},
           Yield(g, label, v)
    PROVE  IInv' /\ Stays
<1>1. /\ doomed = <<>> /\ phase = "body" /\ stack # <<>> /\ g = Top
      /\ Leave /\ UNCHANGED <<vars, doomed>>
  BY DEF Yield, Runs
<1>2. /\ gens[g] \in Frame /\ gens[g].live /\ ~gens[g].terminated /\ gens[g].sent = None
      /\ gens[g].iter = None /\ gens[g].rewound
  BY <1>1, Innermost, Basics DEF IInv, StackFollows
<1>3. DoomedAlone'
  BY <1>1 DEF DoomedAlone
<1> DEFINE f == [gens[g] EXCEPT !.last = v, !.at = label]
<1>4. /\ f \in Frame /\ gens' = [gens EXCEPT ![g] = f]
      /\ f.live /\ ~f.terminated /\ f.sent = None /\ f.iter = None /\ f.owned = gens[g].owned
      /\ f.rewound /\ f.at = label /\ f.arg = gens[g].arg
  BY <1>2, Basics DEF Yield, Frame, Labels
<1> HIDE DEF f
<1> QED BY <1>1, <1>2, <1>3, <1>4, LeaveKeeps

LEMMA ForwardKeeps ==
    ASSUME IInv, NEW g \in Gens, Forward(g)
    PROVE  IInv' /\ Stays
<1>1. /\ doomed = <<>> /\ phase = "returned" /\ stack # <<>> /\ g = Top
      /\ Leave /\ UNCHANGED <<vars, doomed>>
  BY DEF Forward, Runs
<1> DEFINE i == gens[g].iter
<1>2. /\ gens[g] \in Frame /\ gens[g].live /\ ~gens[g].terminated /\ gens[g].sent = None
      /\ i # None /\ i \in Gens /\ gens[i] \in Frame /\ gens[g].rewound
  BY <1>1, Innermost, Basics DEF IInv, StackFollows
<1>3. DoomedAlone'
  BY <1>1 DEF DoomedAlone
<1> DEFINE f == [gens[g] EXCEPT !.last = gens[i].last, !.at = "from"]
<1>4. /\ f \in Frame /\ gens' = [gens EXCEPT ![g] = f] /\ ~gens[i].terminated
      /\ f.live /\ ~f.terminated /\ f.sent = None /\ f.iter = i /\ f.owned = gens[g].owned
      /\ f.rewound /\ f.at = "from" /\ f.arg = gens[g].arg /\ f.last = gens[i].last
  <2>1. gens \in [Gens -> Frame] /\ ~gens[i].terminated
        /\ gens' = [gens EXCEPT ![g].last = gens[i].last, ![g].at = "from"]
    BY Basics DEF Forward
  <2>2. gens[i].last \in Cells \cup {None} /\ "from" \in Labels
    BY <1>2 DEF Frame, Labels
  <2>3. f \in Frame
    <3>1. gens[g] \in Frame
      BY <1>2
    <3> QED BY ONLY <2>2, <3>1 DEF Frame
  <2>4. /\ f.live /\ ~f.terminated /\ f.sent = None /\ f.iter = i /\ f.owned = gens[g].owned
        /\ f.rewound /\ f.at = "from" /\ f.arg = gens[g].arg /\ f.last = gens[i].last
    BY <1>2 DEF Frame
  <2>5. gens' = [gens EXCEPT ![g] = f]
    BY <1>2, <2>1 DEF Frame
  <2> QED BY <2>1, <2>3, <2>4, <2>5
<1> HIDE DEF f
<1> QED BY <1>1, <1>2, <1>3, <1>4, LeaveKeeps

LEMMA ReturnKeeps ==
    ASSUME IInv, NEW g \in Gens, NEW v \in Cells \cup {None}, Return(g, v)
    PROVE  IInv' /\ Stays
<1>1. /\ doomed = <<>> /\ phase = "body" /\ stack # <<>> /\ g = Top
      /\ Leave /\ UNCHANGED <<vars, doomed>>
  BY DEF Return, Runs
<1>2. /\ gens[g] \in Frame /\ gens[g].live /\ gens[g].sent = None
      /\ gens[g].iter = None /\ ~gens[g].owned /\ gens[g].rewound
  BY <1>1, Innermost, Basics DEF IInv, StackFollows, FramesSound
<1>3. DoomedAlone'
  BY <1>1 DEF DoomedAlone
<1> DEFINE f == [Ended(gens[g]) EXCEPT !.ret = v]
<1>4. /\ f \in Frame /\ gens' = [gens EXCEPT ![g] = f]
      /\ f.live /\ f.terminated /\ f.sent = None /\ f.iter = None /\ ~f.owned
      /\ f.rewound /\ f.arg = gens[g].arg
  BY <1>2, Basics DEF Return, Ended, Frame
<1> HIDE DEF f
<1> QED BY <1>1, <1>2, <1>3, <1>4, LeaveKeeps

LEMMA DispatchFromKeeps ==
    ASSUME IInv, NEW g \in Gens, DispatchFrom(g)
    PROVE  IInv' /\ Stays
<1> DEFINE i == gens[g].iter
           sent == gens[g].sent
<1>1. /\ doomed = <<>> /\ phase = "dispatch" /\ stack # <<>> /\ g = Top
      /\ gens[g].at = "from" /\ i # None /\ UNCHANGED <<vars, doomed>>
  BY DEF DispatchFrom, Runs
<1>2. /\ gens[g] \in Frame /\ InStack(g) /\ Active(g) /\ gens[g].live /\ ~gens[g].terminated
      /\ gens[g].rewound /\ i \in Gens /\ gens[i] \in Frame /\ Claims(g)
  BY <1>1, Innermost, Basics
<1>3. Suspended(g)
  BY <1>1, <1>2 DEF Suspended
<1>4. Active(i) /\ gens[g].last = gens[i].last /\ ~InStack(i) /\ g # i
  BY <1>1, <1>2, <1>3, DelegateOffStack DEF IInv, SuspendedShow, Mirrors
<1>5. /\ gens[i].live /\ ~gens[i].terminated /\ gens[i].rewound
      /\ gens[i].at = "entry" => gens[i].sent = None
      /\ gens[i].rewound => gens[i].at # "entry"
  BY <1>1, <1>2, <1>4 DEF IInv, DelegatesStarted, Active, FramesSound
<1>6. \A h \in Gens : Claims(h) /\ h # g => gens[h].iter # i
  BY <1>2 DEF IInv, ClaimsUnique
<1>7. IF gens[g].owned THEN i \notin vars ELSE i = gens[g].arg
  BY <1>2 DEF IInv, ClaimsSound
<1>8. stack' = Append(stack, i) /\ phase' = "dispatch"
  BY <1>5 DEF DispatchFrom, Enter
<1> DEFINE f == [gens[g] EXCEPT !.sent = None]
           e == [gens[i] EXCEPT !.sent = sent]
<1>9. /\ f \in Frame /\ f.sent = None /\ f.live /\ ~f.terminated /\ f.rewound
      /\ f.at = gens[g].at /\ f.last = gens[g].last /\ f.arg = gens[g].arg /\ f.iter = i
      /\ f.owned = gens[g].owned
  BY <1>2 DEF Frame
<1>10. /\ e \in Frame /\ e.live /\ ~e.terminated /\ e.rewound
       /\ e.iter = gens[i].iter /\ e.owned = gens[i].owned
       /\ e.at = gens[i].at /\ e.last = gens[i].last /\ e.arg = gens[i].arg
  BY <1>2, <1>5 DEF Frame
<1>11. gens' = [gens EXCEPT ![g] = f, ![i] = e]
  <2>1. CASE sent # None
    BY <2>1, <1>2, <1>4, Basics DEF DispatchFrom
  <2>2. CASE sent = None
    <3>1. gens' = gens
      BY <2>2 DEF DispatchFrom
    <3>2. gens[i].sent = None
      BY <1>1, <1>2, <1>4 DEF IInv, SentAtTop
    <3>3. f = gens[g] /\ e = gens[i]
      BY <1>2, <2>2, <3>2 DEF Frame
    <3> HIDE DEF f, e
    <3> QED BY <1>2, <3>1, <3>3, Basics
  <2> QED BY <2>1, <2>2
<1> HIDE DEF f, e
<1>12. TwoReplaced(g, f, i, e)
  BY <1>2, <1>4, <1>9, <1>10, <1>11, TwoFrames, Basics
<1> QED BY <1>1, <1>2, <1>4, <1>5, <1>6, <1>7, <1>8, <1>9, <1>10, <1>12, EnterKeeps

LEMMA DelegateCallKeeps ==
    ASSUME IInv, NEW g \in Gens, NEW i \in Gens, DelegateCall(g, i)
    PROVE  IInv' /\ Stays
<1>1. /\ doomed = <<>> /\ phase = "body" /\ stack # <<>> /\ g = Top
      /\ ~gens[i].live /\ UNCHANGED <<vars, doomed>>
  BY DEF DelegateCall, Runs
<1>2. /\ gens[g] \in Frame /\ gens[g].live /\ ~gens[g].terminated /\ gens[g].rewound
      /\ gens[g].sent = None
  BY <1>1, Innermost, Basics
<1>3. g # i /\ i \notin vars /\ ~InStack(i) /\ \A h \in Gens : Claims(h) => gens[h].iter # i
  BY <1>1, <1>2, Basics DEF IInv, StackFollows, Active, InStack
<1> DEFINE f == [gens[g] EXCEPT !.iter = i, !.owned = TRUE]
           e == [NewFrame(None) EXCEPT !.rewound = TRUE]
           frames == [gens EXCEPT ![i] = NewFrame(None), ![g].iter = i, ![g].owned = TRUE]
<1>4. /\ f \in Frame /\ f.sent = None /\ f.live /\ ~f.terminated /\ f.rewound
      /\ f.at = gens[g].at /\ f.last = gens[g].last /\ f.arg = gens[g].arg /\ f.iter = i
      /\ f.owned
  BY <1>2 DEF Frame
<1>5. /\ e \in Frame /\ e.live /\ ~e.terminated /\ e.rewound /\ e.sent = None
      /\ e.iter = None /\ ~e.owned /\ e.at = "entry" /\ e.arg = None
      /\ NewFrame(None) \in Frame /\ ~NewFrame(None).rewound
  BY DEF NewFrame, Blank, Frame, Labels
<1>6. frames = [gens EXCEPT ![g] = f, ![i] = NewFrame(None)] /\ frames[i] = NewFrame(None)
  BY <1>2, <1>3, Basics
<1>7. /\ gens' = [frames EXCEPT ![i].rewound = TRUE]
      /\ stack' = Append(stack, i) /\ phase' = "dispatch"
  <2>1. RewindInner(g, i, frames)
    BY DEF DelegateCall
  <2> QED BY <1>5, <1>6, <2>1 DEF RewindInner, Enter
<1>8. gens' = [gens EXCEPT ![g] = f, ![i] = e]
  BY <1>3, <1>6, <1>7, Basics
<1> HIDE DEF f, e
<1>9. TwoReplaced(g, f, i, e)
  BY <1>3, <1>4, <1>5, <1>8, TwoFrames, Basics
<1> QED BY <1>1, <1>2, <1>3, <1>4, <1>5, <1>7, <1>9, EnterKeeps

LEMMA DelegateSlotKeeps ==
    ASSUME IInv, NEW g \in Gens, DelegateSlot(g)
    PROVE  IInv' /\ Stays
<1> DEFINE i == gens[g].arg
<1>1. /\ doomed = <<>> /\ phase = "body" /\ stack # <<>> /\ g = Top
      /\ i # None /\ gens[i].live /\ UNCHANGED <<vars, doomed>>
  BY DEF DelegateSlot, Runs
<1>2. /\ gens[g] \in Frame /\ gens[g].live /\ ~gens[g].terminated /\ gens[g].rewound
      /\ gens[g].sent = None /\ i \in Gens /\ gens[i] \in Frame /\ Active(g) /\ gens[g].iter = None
  BY <1>1, Innermost, Basics DEF Frame, IInv, StackFollows
<1> DEFINE f == [gens[g] EXCEPT !.iter = i, !.owned = FALSE]
           frames == [gens EXCEPT ![g].iter = i, ![g].owned = FALSE]
<1>3. /\ f \in Frame /\ f.sent = None /\ f.live /\ ~f.terminated /\ f.rewound
      /\ f.at = gens[g].at /\ f.last = gens[g].last /\ f.arg = gens[g].arg /\ f.iter = i
      /\ ~f.owned
  BY <1>2 DEF Frame
<1>4. frames = [gens EXCEPT ![g] = f]
  BY <1>2, Basics
<1>5. RewindInner(g, i, frames)
  BY DEF DelegateSlot
<1>6. CASE gens[i].rewound
  <2>1. frames[i].rewound
    BY <1>2, <1>3, <1>4, <1>6, OneFrame, Basics
  <2>2. gens' = [gens EXCEPT ![g] = f] /\ phase' = "returned" /\ UNCHANGED stack
    BY <1>4, <1>5, <2>1 DEF RewindInner
  <2>3. DoomedAlone'
    BY <1>1 DEF DoomedAlone
  <2> HIDE DEF f, frames
  <2> QED BY <1>1, <1>2, <1>3, <1>6, <2>2, <2>3, TopKeeps
<1>7. CASE ~gens[i].rewound
  <2>1. g # i /\ ~InStack(i) /\ ~gens[i].terminated /\ gens[i].at = "entry" /\ gens[i].sent = None
    BY <1>2, <1>7 DEF IInv, FramesSound, StackFollows, InStack
  <2>2. \A h \in Gens : Claims(h) /\ h # g => gens[h].iter # i
    BY <1>1, <1>2, LentOnce
  <2> DEFINE e == [gens[i] EXCEPT !.rewound = TRUE]
  <2>3. /\ e \in Frame /\ e.live /\ ~e.terminated /\ e.rewound /\ e.sent = None
        /\ e.iter = gens[i].iter /\ e.owned = gens[i].owned
        /\ e.at = gens[i].at /\ e.last = gens[i].last /\ e.arg = gens[i].arg
    BY <1>1, <1>2, <2>1 DEF Frame
  <2>4. frames[i] = gens[i]
    BY <1>2, <1>3, <1>4, <2>1, OneFrame, Basics
  <2>5. /\ gens' = [frames EXCEPT ![i].rewound = TRUE]
        /\ stack' = Append(stack, i) /\ phase' = "dispatch"
    BY <1>5, <1>7, <2>4 DEF RewindInner, Enter
  <2>6. gens' = [gens EXCEPT ![g] = f, ![i] = e]
    BY <1>4, <2>1, <2>4, <2>5, Basics
  <2>7. Active(i)
    BY <1>1, <2>1 DEF Active
  <2> HIDE DEF f, e, frames
  <2>8. TwoReplaced(g, f, i, e)
    BY <1>2, <1>3, <2>1, <2>3, <2>6, TwoFrames, Basics
  <2> QED BY <1>1, <1>2, <1>3, <2>1, <2>2, <2>3, <2>5, <2>7, <2>8, EnterKeeps
<1> QED BY <1>6, <1>7

\* A delegate that has finished and is let go is nobody's.
LEMMA EndLeavesAlone ==
    ASSUME IInv, NEW g \in Gens, NEW f \in Frame, NEW i, i = gens[g].iter, i # None,
           Active(g), doomed = <<>>, gens[i].terminated, f.iter = None,
           gens' = [gens EXCEPT ![g] = f], vars' = vars,
           \A h \in Gens : InStack(h)' => InStack(h),
           doomed' = IF gens[g].owned THEN <<i>> ELSE <<>>
    PROVE  DoomedAlone'
<1> SUFFICES ASSUME gens[g].owned PROVE i \in Gens /\ Alone(i)'
  BY DEF DoomedAlone
<1>1. /\ gens' \in [Gens -> Frame]
      /\ gens'[g] = f
      /\ \A h \in Gens : h # g => gens'[h] = gens[h]
  BY OneFrame, Basics
<1>2. Claims(g) /\ i \in Gens /\ gens[i].live /\ i \notin vars /\ i # g
  BY Basics DEF Claims, Active, IInv, ClaimsSound
<1>3. ~InStack(i)'
  BY <1>2 DEF IInv, StackFollows, InStack, Active
<1>4. \A h \in Gens : Claims(h)' => gens'[h].iter # i
  BY <1>1, <1>2 DEF Claims, IInv, ClaimsUnique
<1>5. gens[i].iter = None
  <2>1. doomed # <<i>>
    OBVIOUS
  <2> QED BY <1>2, <2>1 DEF IInv, FramesSound
<1> QED BY <1>1, <1>2, <1>3, <1>4, <1>5 DEF Alone

LEMMA EndDelegationKeeps ==
    ASSUME IInv, NEW g \in Gens, NEW result \in {"discard", "local", "return"},
           EndDelegation(g, result)
    PROVE  IInv' /\ Stays
<1> DEFINE i == gens[g].iter
           v == gens[i].ret
           over == [gens[g] EXCEPT !.iter = None, !.owned = FALSE]
<1>1. /\ doomed = <<>> /\ phase = "returned" /\ stack # <<>> /\ g = Top
      /\ gens[i].terminated /\ vars' = vars
      /\ doomed' = IF gens[g].owned THEN <<i>> ELSE <<>>
  BY DEF EndDelegation, Runs
<1>2. /\ gens[g] \in Frame /\ gens[g].live /\ ~gens[g].terminated /\ gens[g].rewound
      /\ gens[g].sent = None /\ Active(g) /\ i # None /\ i \in Gens /\ gens[i] \in Frame
  BY <1>1, Innermost, Basics DEF IInv, StackFollows
<1>3. /\ over \in Frame /\ over.live /\ ~over.terminated /\ over.rewound /\ over.sent = None
      /\ over.iter = None /\ ~over.owned
      /\ over.rewound = gens[g].rewound /\ over.at = gens[g].at /\ over.last = gens[g].last
      /\ over.arg = gens[g].arg /\ v \in Cells \cup {None}
  <2>0. gens[g] \in Frame
    BY <1>2
  <2>1. over \in Frame
    BY ONLY <2>0 DEF Frame
  <2>2. /\ over.live /\ ~over.terminated /\ over.rewound /\ over.sent = None
        /\ over.iter = None /\ ~over.owned
    BY <1>2 DEF Frame
  <2>3. /\ over.rewound = gens[g].rewound /\ over.at = gens[g].at /\ over.last = gens[g].last
        /\ over.arg = gens[g].arg
    BY <1>2 DEF Frame
  <2>4. v \in Cells \cup {None}
    BY <1>2 DEF Frame
  <2> QED BY <2>1, <2>2, <2>3, <2>4
<1>4. CASE result = "discard"
  <2>1. gens' = [gens EXCEPT ![g] = over] /\ phase' = "body" /\ UNCHANGED stack
    BY <1>4 DEF EndDelegation
  <2> HIDE DEF over
  <2>2. DoomedAlone'
    <3>1. \A h \in Gens : InStack(h)' => InStack(h)
      BY <2>1 DEF InStack
    <3> QED BY <1>1, <1>2, <1>3, <2>1, <3>1, EndLeavesAlone
  <2> HIDE DEF i
  <2> QED BY <1>1, <1>3, <2>1, <2>2, TopKeeps
<1>5. CASE result = "local"
  <2> DEFINE f == [over EXCEPT !.local = v]
  <2>1. gens' = [gens EXCEPT ![g] = f] /\ phase' = "body" /\ UNCHANGED stack
    BY <1>5 DEF EndDelegation
  <2>2. /\ f \in Frame /\ f.live /\ ~f.terminated /\ f.rewound /\ f.sent = None
        /\ f.iter = None /\ ~f.owned
        /\ f.rewound = gens[g].rewound /\ f.at = gens[g].at /\ f.last = gens[g].last
        /\ f.arg = gens[g].arg
    BY <1>3 DEF Frame
  <2> HIDE DEF f, over
  <2>3. DoomedAlone'
    <3>1. \A h \in Gens : InStack(h)' => InStack(h)
      BY <2>1 DEF InStack
    <3> QED BY <1>1, <1>2, <2>1, <2>2, <3>1, EndLeavesAlone
  <2> HIDE DEF i
  <2> QED BY <1>1, <2>1, <2>2, <2>3, TopKeeps
<1>6. CASE result = "return"
  <2> DEFINE f == [Ended(over) EXCEPT !.ret = v]
  <2>1. gens' = [gens EXCEPT ![g] = f] /\ Leave
    BY <1>6 DEF EndDelegation
  <2>2. /\ f \in Frame /\ f.live /\ f.terminated /\ f.rewound /\ f.sent = None
        /\ f.iter = None /\ ~f.owned /\ f.arg = gens[g].arg
    BY <1>3 DEF Frame, Ended
  <2> HIDE DEF f, over
  <2>3. DoomedAlone'
    <3>1. /\ Len(stack) - 1 \in 0..Len(stack) /\ Len(stack) \in Nat
          /\ stack' = SubSeq(stack, 1, Len(stack) - 1)
      BY <1>1, <2>1, LastOf, Basics DEF Leave, Below
    <3>2. Len(stack') = Len(stack) - 1 /\ \A k \in 1..(Len(stack) - 1) : stack'[k] = stack[k]
      <4>1. stack \in Seq(Gens)
        BY Basics
      <4> QED BY ONLY <3>1, <4>1, Popped
    <3>3. \A k \in 1..(Len(stack) - 1) : k \in 1..Len(stack)
      BY <3>1
    <3>4. \A h \in Gens : InStack(h)' => InStack(h)
      BY <3>2, <3>3 DEF InStack
    <3> QED BY <1>1, <1>2, <2>1, <2>2, <3>4, EndLeavesAlone
  <2> HIDE DEF i
  <2> QED BY <1>1, <2>1, <2>2, <2>3, LeaveKeeps
<1> QED BY <1>4, <1>5, <1>6

\* An exception leaves every frame at the yield it was resumed from.
LEMMA RaiseKeeps ==
    ASSUME Habits = {}, IInv, Raise
    PROVE  IInv' /\ Stays
<1>1. /\ doomed = <<>> /\ phase = "body" /\ stack' = <<>> /\ phase' = "rest"
      /\ UNCHANGED <<gens, vars, doomed>>
      /\ \A k \in 1..Len(stack) : /\ gens[stack[k]].at # "entry"
                                  /\ gens[stack[k]].at = "from" <=> gens[stack[k]].iter # None
  <2>1. DOMAIN stack = 1..Len(stack)
    BY Basics
  <2> QED BY <2>1 DEF Raise, Habit
<1>2. stack # <<>> /\ \A h \in Gens : gens[h].sent = None
  <2>1. stack # <<>>
    BY <1>1 DEF IInv, PhaseFits
  <2> QED BY <1>1, <2>1, Innermost
<1>3. Len(stack') = 0 /\ \A h \in Gens : ~InStack(h)'
  BY <1>1 DEF InStack
<1>4. \A h \in Gens : (Active(h)' <=> Active(h)) /\ (Claims(h)' <=> Claims(h))
  BY <1>1 DEF Active, Claims
<1>5. Typed' /\ PhaseFits' /\ VarsLive' /\ ArgsApart' /\ Stays
  BY <1>1, <1>4 DEF IInv, Typed, PhaseFits, VarsLive, ArgsApart, Stays
<1>6. FramesSound'
  <2>1. \A h \in Gens : Active(h) /\ gens[h].rewound => gens[h].at # "entry"
    BY <1>1 DEF IInv, FramesSound, InStack
  <2> QED BY <1>1, <1>4, <2>1 DEF IInv, FramesSound
<1>7. StackFollows' /\ StackShows' /\ SentAtTop' /\ DoomedAlone'
  BY <1>1, <1>2, <1>3 DEF StackFollows, StackShows, SentAtTop, DoomedAlone
<1>8. ClaimsSound' /\ ClaimsUnique' /\ DelegatesStarted'
  BY <1>1, <1>4 DEF IInv, ClaimsSound, ClaimsUnique, DelegatesStarted
<1>9. SuspendedShow'
  <2>1. ASSUME NEW h \in Gens, Active(h)
        PROVE  /\ gens[h].iter # None <=> gens[h].at = "from"
               /\ gens[h].iter # None => Mirrors(h, gens[h].iter)
    <3>1. CASE ~InStack(h)
      BY <2>1, <3>1 DEF IInv, SuspendedShow, Suspended
    <3>2. CASE InStack(h)
      <4> PICK k \in 1..Len(stack) : stack[k] = h
        BY <3>2 DEF InStack
      <4>1. gens[h].at # "entry" /\ (gens[h].at = "from" <=> gens[h].iter # None)
        BY <1>1
      <4>2. CASE k = Len(stack)
        <5>1. h = Top
          BY <4>2 DEF Top
        <5>2. gens[h].iter = None
          BY <1>1, <5>1 DEF IInv, StackFollows
        <5> QED BY <4>1, <5>2
      <4>3. CASE k # Len(stack)
        <5>1. k \in 1..(Len(stack) - 1) /\ k + 1 \in 1..Len(stack)
          BY <4>3, Basics
        <5>2. gens[h].iter = stack[k + 1] /\ stack[k + 1] \in Gens /\ gens[stack[k + 1]].at # "entry"
          BY <1>1, <5>1, Basics DEF IInv, StackFollows
        <5>3. gens[h].at = "from"
          BY <4>1, <5>2, NoneAssumption
        <5>4. Mirrors(h, stack[k + 1])
          BY <5>1, <5>2, <5>3 DEF IInv, StackShows
        <5> QED BY <4>1, <5>2, <5>4
      <4> QED BY <4>2, <4>3
    <3> QED BY <3>1, <3>2
  <2>2. \A h \in Gens : Suspended(h)' => Active(h)
    BY <1>4 DEF Suspended
  <2> QED BY <1>1, <2>1, <2>2 DEF SuspendedShow, Mirrors, Active
<1> QED BY <1>5, <1>6, <1>7, <1>8, <1>9 DEF IInv

\* A frame is released: the delegate it still claims is released after it.
LEMMA ReleaseKeeps ==
    ASSUME IInv, Release
    PROVE  IInv' /\ Stays
<1>1. PICK d \in Gens : doomed = <<d>> /\ Alone(d)
  BY DEF Release, IInv, DoomedAlone
<1> PICK i : i = gens[d].iter
  OBVIOUS
<1>2. /\ gens' = [gens EXCEPT ![d] = Blank]
      /\ doomed' = IF i = None THEN <<>> ELSE <<i>>
      /\ UNCHANGED <<vars, stack, phase>>
  BY <1>1 DEF Release
<1>3. Blank \in Frame /\ ~Blank.live /\ ~Blank.terminated /\ ~Blank.owned /\ Blank.iter = None
      /\ Blank.at = "entry" /\ Blank.sent = None /\ ~Blank.rewound
  BY DEF Blank, Frame, Labels
<1>4. /\ gens' \in [Gens -> Frame]
      /\ gens'[d] = Blank
      /\ \A h \in Gens : h # d => gens'[h] = gens[h]
  BY <1>2, <1>3, OneFrame, Basics
<1>5. /\ gens[d].live /\ d \notin vars /\ ~InStack(d)
      /\ \A h \in Gens : Claims(h) => gens[h].iter # d
      /\ i # None => \A h \in Gens : gens[h].live /\ h \notin vars /\ gens[h].iter # None
                                     => gens[h].owned
  BY <1>1 DEF Alone
<1>6. /\ \A h \in Gens : InStack(h)' <=> InStack(h)
      /\ \A h \in Gens : Active(h)' => Active(h) /\ h # d
      /\ \A h \in Gens : Claims(h)' => Claims(h) /\ h # d
      /\ \A h \in Gens : Suspended(h)' => Suspended(h) /\ h # d
      /\ \A h \in Gens : h # d => (Active(h)' <=> Active(h))
  BY <1>2, <1>3, <1>4 DEF Active, Claims, InStack, Suspended, Top
<1>7. doomed # <<>> /\ phase # "dispatch"
  BY <1>1 DEF IInv, PhaseFits
<1>8. \A k \in 1..Len(stack) : stack[k] \in Gens /\ stack[k] # d /\ gens'[stack[k]] = gens[stack[k]]
  BY <1>4, <1>5, Basics DEF InStack
<1>9. Typed' /\ PhaseFits' /\ VarsLive' /\ Stays
  BY <1>2, <1>3, <1>4, <1>5, <1>7, Basics DEF IInv, Typed, PhaseFits, VarsLive, Stays
<1>10. FramesSound'
  <2>1. ASSUME NEW h \in Gens, h # d
        PROVE  /\ ~gens'[h].live => gens'[h] = Blank
               /\ gens'[h].terminated => gens'[h].rewound
               /\ ~gens'[h].rewound => gens'[h].at = "entry"
               /\ gens'[h].at = "entry" => gens'[h].sent = None
               /\ Active(h)' /\ ~InStack(h)' /\ gens'[h].rewound => gens'[h].at # "entry"
               /\ gens'[h].owned => gens'[h].iter # None
               /\ gens'[h].terminated /\ gens'[h].iter # None => h \in vars
    <3>1. doomed # <<h>>
      BY <1>1, <2>1
    <3> QED BY <1>4, <1>6, <2>1, <3>1 DEF IInv, FramesSound
  <2> QED BY <1>2, <1>3, <1>4, <2>1 DEF FramesSound, Active
<1>11. StackFollows'
  <2>1. \A h \in Gens : Lent(h)' => Lent(h)
    BY <1>3, <1>4 DEF Lent
  <2>2. stack # <<>> => Len(stack) \in 1..Len(stack) /\ 1 \in 1..Len(stack)
    BY LastOf, Basics
  <2>3. phase \in {"body", "returned"} => gens'[Top] = gens[Top]
    BY <1>8, <2>2 DEF Top, IInv, PhaseFits
  <2>4. \A k \in 1..(Len(stack) - 1) : k \in 1..Len(stack)
    BY Basics
  <2>5. \A k \in 1..Len(stack) : gens'[stack[k]].live /\ ~gens'[stack[k]].terminated
                                 /\ gens'[stack[k]].rewound
    BY <1>8 DEF IInv, StackFollows, Active
  <2>6. \A k \in 1..(Len(stack) - 1) : gens'[stack[k]].iter = stack[k + 1]
    BY <1>8, <2>4 DEF IInv, StackFollows
  <2>7. stack # <<>> => stack[1] \in vars /\ ~Lent(stack[1])'
    BY <1>2, <1>8, <2>1, <2>2 DEF IInv, StackFollows
  <2>8. /\ phase = "body" => gens'[Top].iter = None
        /\ phase = "returned" => gens'[Top].iter # None
        /\ \A k, l \in 1..Len(stack) : stack[k] = stack[l] => k = l
    BY <2>3 DEF IInv, StackFollows
  <2> QED BY <1>2, <2>5, <2>6, <2>7, <2>8 DEF StackFollows, Active, Top
<1>12. ArgsApart'
  BY <1>2, <1>4, <1>6 DEF IInv, ArgsApart
<1>13. ClaimsSound' /\ ClaimsUnique' /\ DelegatesStarted'
  <2>1. \A h \in Gens : Claims(h)' => /\ Claims(h) /\ gens'[h] = gens[h] /\ gens[h].iter # d
                                      /\ gens[h].iter \in Gens
    BY <1>4, <1>5, <1>6, Basics
  <2>2. \A h \in Gens : Active(h)' /\ gens'[h].iter # None
            => /\ Active(h) /\ gens'[h] = gens[h] /\ gens[h].iter # d /\ gens[h].iter \in Gens
    BY <1>4, <1>5, <1>6, Basics
  <2> QED BY <1>2, <1>4, <2>1, <2>2 DEF IInv, ClaimsSound, ClaimsUnique, DelegatesStarted
<1>14. SuspendedShow'
  <2>1. \A h \in Gens : Suspended(h)' => Suspended(h) /\ gens'[h] = gens[h]
    BY <1>4, <1>6
  <2>2. \A h \in Gens : Suspended(h) /\ gens[h].iter # None =>
            gens[h].iter # d /\ gens[h].iter \in Gens /\ Mirrors(h, gens[h].iter)
    BY <1>5, Basics DEF Suspended, IInv, SuspendedShow
  <2>3. \A h \in Gens : Suspended(h)' /\ gens[h].iter # None => Mirrors(h, gens[h].iter)'
    BY <1>4, <1>6, <2>1, <2>2 DEF Mirrors
  <2> QED BY <2>1, <2>3 DEF IInv, SuspendedShow
<1>15. StackShows' /\ SentAtTop'
  <2>1. \A k \in 1..(Len(stack) - 1) : k \in 1..Len(stack) /\ k + 1 \in 1..Len(stack)
    BY Basics
  <2>2. StackShows'
    BY <1>2, <1>6, <1>8, <2>1 DEF IInv, StackShows, Mirrors
  <2>3. SentAtTop'
    BY <1>2, <1>3, <1>4, <1>7 DEF IInv, SentAtTop
  <2> QED BY <2>2, <2>3
<1>16. DoomedAlone'
  <2>1. ASSUME i # None
        PROVE  i \in Gens /\ Alone(i)'
    <3>1. gens[d].owned /\ Claims(d)
      BY <1>5, <2>1 DEF Claims
    <3>2. i \in Gens /\ gens[i].live /\ i \notin vars /\ i # d
      BY <1>5, <3>1, Basics DEF IInv, ClaimsSound
    <3>3. ~InStack(i)
      BY <1>5, <3>1, OnlyBelow DEF InStack
    <3>4. \A h \in Gens : Claims(h)' => gens'[h].iter # i
      BY <1>4, <1>6, <3>1 DEF IInv, ClaimsUnique
    <3>5. \A h \in Gens : gens'[h].live /\ h \notin vars /\ gens'[h].iter # None => gens'[h].owned
      BY <1>3, <1>4, <1>5, <2>1
    <3> QED BY <1>2, <1>4, <1>6, <3>2, <3>3, <3>4, <3>5 DEF Alone
  <2> QED BY <1>2, <2>1 DEF DoomedAlone
<1> QED BY <1>9, <1>10, <1>11, <1>12, <1>13, <1>14, <1>15, <1>16 DEF IInv

LEMMA InitInv == Init => IInv
<1> SUFFICES ASSUME Init PROVE IInv
  OBVIOUS
<1>1. Blank \in Frame /\ ~Blank.live /\ ~Blank.terminated /\ ~Blank.owned /\ Blank.iter = None
      /\ Blank.at = "entry" /\ Blank.sent = None /\ ~Blank.rewound
  BY DEF Blank, Frame, Labels
<1>2. /\ \A g \in Gens : gens[g] = Blank
      /\ gens \in [Gens -> Frame] /\ stack = <<>> /\ Len(stack) = 0 /\ stack \in Seq(Gens)
      /\ vars = {} /\ phase = "rest" /\ doomed = <<>>
  BY <1>1 DEF Init
<1>3. \A g \in Gens : ~Active(g) /\ ~Claims(g) /\ ~InStack(g) /\ ~Suspended(g)
  BY <1>1, <1>2 DEF Active, Claims, InStack, Suspended
<1> QED BY <1>1, <1>2, <1>3 DEF IInv, Typed, FramesSound, PhaseFits, StackFollows, VarsLive,
     ArgsApart, ClaimsSound, ClaimsUnique, DelegatesStarted, SuspendedShow, StackShows, SentAtTop,
     DoomedAlone

LEMMA ScriptKeeps ==
    ASSUME Habits = {}, IInv, NEW g \in Gens, Script(g)
    PROVE  IInv' /\ Stays
<1>1. CASE \E a \in Gens \cup {None} : Create(g, a)
  BY <1>1, CreateKeeps
<1>2. CASE (\E name \in {"rewind", "current"} : Start(g, name)) \/ CallNext(g)
           \/ (\E c \in Cells : Send(g, c))
  BY <1>2, ScriptEnterKeeps
<1>3. CASE \E v \in Cells \cup {None} : Read(g, v)
  BY <1>3, IdleKeeps DEF Read
<1>4. CASE Throw(g)
  BY <1>4, ThrowKeeps
<1>5. CASE Drop(g)
  BY <1>5, DropKeeps
<1> QED BY <1>1, <1>2, <1>3, <1>4, <1>5 DEF Script

LEMMA ResumeKeeps ==
    ASSUME IInv, NEW g \in Gens, Resume(g)
    PROVE  IInv' /\ Stays
  BY DispatchYieldKeeps, DispatchFromKeeps, YieldKeeps, AssignKeeps, DelegateCallKeeps,
     DelegateSlotKeeps, ForwardKeeps, ReturnKeeps, EndDelegationKeeps DEF Resume

LEMMA NextInv ==
    ASSUME Habits = {}, IInv, [Next]_gvars
    PROVE  IInv' /\ Stays
<1>1. CASE \E g \in Gens : Script(g) \/ Resume(g)
  BY <1>1, ScriptKeeps, ResumeKeeps
<1>2. CASE Forget \/ Deliver \/ UNCHANGED gvars
  BY <1>2, IdleKeeps DEF Forget, Deliver, gvars
<1>3. CASE Raise
  BY <1>3, RaiseKeeps
<1>4. CASE Release
  BY <1>4, ReleaseKeeps
<1> QED BY <1>1, <1>2, <1>3, <1>4 DEF Next

\* The invariant holds of every script that keeps to the protocol.
THEOREM InvariantHolds == ASSUME Habits = {} PROVE Spec => []IInv
<1>1. IInv /\ [Next]_gvars => IInv'
  BY NextInv
<1> QED BY <1>1, InitInv, PTL DEF Spec

\* current() shows the value of the innermost generator: whenever the script
\* runs, a generator suspended in `yield from' shows what its delegate shows
\* and nothing sent is left over, however many generators delegate to one
\* another and whatever was sent, thrown, raised or dropped before.
THEOREM CurrentIsInnermostAlways == ASSUME Habits = {} PROVE Spec => []CurrentIsInnermost
<1>1. IInv => CurrentIsInnermost
  <2> SUFFICES ASSUME IInv, AtRest, NEW g \in Gens, gens[g].live
               PROVE  /\ gens[g].sent = None
                      /\ gens[g].at = "from" /\ ~gens[g].terminated =>
                           /\ gens[g].iter # None /\ gens[gens[g].iter].live
                           /\ ~gens[gens[g].iter].terminated
                           /\ gens[g].last = gens[gens[g].iter].last
    BY DEF CurrentIsInnermost
  <2>1. gens[g].sent = None /\ ~InStack(g)
    BY Resting DEF AtRest
  <2>2. ~gens[g].terminated => Suspended(g)
    BY <2>1 DEF Suspended, Active
  <2> QED BY <2>1, <2>2 DEF IInv, SuspendedShow, Mirrors, Active
<1> QED BY <1>1, InvariantHolds, PTL

\* A generator that has returned, been thrown out of or run to its end is
\* never resumed again, neither by a method of the script nor by a generator
\* that delegates to it.
THEOREM FinishedStaysSoAlways == ASSUME Habits = {} PROVE Spec => FinishedStaysSo
<1>1. ASSUME IInv, [Next]_gvars
      PROVE  \A g \in Gens : gens[g].terminated =>
                ~(phase' = "dispatch" /\ stack' # <<>> /\ stack'[Len(stack')] = g)
  <2>1. IInv' /\ Stays
    BY <1>1, NextInv
  <2>2. stack' # <<>> => Active(stack[Len(stack)])'
    <3>1. stack' \in Seq(Gens)
      BY <2>1 DEF IInv, Typed
    <3>2. stack' # <<>> => Len(stack') \in 1..Len(stack')
      BY ONLY <3>1, LastOf
    <3> QED BY <2>1, <3>2 DEF IInv, StackFollows
  <2> QED BY <2>1, <2>2 DEF Stays, Active
<1>2. IInv /\ [Next]_gvars =>
        [\A g \in Gens : gens[g].terminated =>
            ~(phase' = "dispatch" /\ stack' # <<>> /\ stack'[Len(stack')] = g)]_gvars
  BY <1>1
<1> QED BY <1>2, InvariantHolds, PTL DEF Spec, FinishedStaysSo
=============================================================================
