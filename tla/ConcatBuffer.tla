---------------------------- MODULE ConcatBuffer ----------------------------
(***************************************************************************)
(* The scratch buffer of string expressions, _concat_buf, and its write    *)
(* cursor _concat_off.  Every string operation writes its result at the    *)
(* cursor, advances it, and hands out the bytes it wrote as a borrowed     *)
(* slice: nothing is freed, the buffer is reused when a statement sets the *)
(* cursor back.  A frame sets it back to the value the cursor had when the *)
(* frame was entered, so that the slices its callers hold, arguments among *)
(* them, lie below everything it writes.  A throw sets the cursor to zero  *)
(* and leaves it to the first statement of the catch body to raise it.     *)
(*                                                                         *)
(* A slice is live from the operation that makes it until an operation     *)
(* uses it, the statement that made it ends, or its frame goes.  The value *)
(* of a return outlives its statement: it is due until the return is       *)
(* performed, after the statements of the finally bodies around it.        *)
(***************************************************************************)
EXTENDS Naturals, Sequences

CONSTANTS
    Texts,     \* names for the strings held in the buffer
    Size,      \* bytes of _concat_buf that the instance uses (65536 in the code)
    Digits,    \* bytes the conversion of an integer reserves (21 in the code)
    MaxLen,    \* bound on the length of one string
    MaxDepth,  \* bound on the number of frames
    Idioms     \* what programs do besides the plain order of statements:
               \*   "straightOn": a frame that has caught an exception goes on
               \*       without a statement (an empty catch body followed by
               \*       the end of the function or by a loop condition)
               \*   "prelude": an operand that is an assignment expression with
               \*       statements of its own (or a store to a property or an
               \*       element) follows a live operand
               \*   "finallyReturn": a string that a library function or a call
               \*       left in the buffer is returned out of a try statement
               \*       that has a finally clause

ASSUME TextsAssumption == Texts # {}
ASSUME SizeAssumption == Size \in Nat /\ Digits \in Nat /\ MaxLen \in Nat /\ MaxDepth \in Nat

Cells == 0 .. Size - 1
Slices == [at : Nat, len : Nat, text : Texts]

\* One activation of a PHP function.  base: the cursor at entry, kept at
\* concat_base_offset of the frame; live: the slices its running statement still
\* needs; due: the slice it returns once its finally bodies have run; guarded: a
\* handler of this frame is registered; caught: control came here by longjmp and no
\* statement has begun since.
Frames == [base : Nat, live : SUBSET Slices, due : SUBSET Slices,
           guarded : BOOLEAN, caught : BOOLEAN]

VARIABLES
    cursor,    \* _concat_off
    buf,       \* _concat_buf: the text each byte belongs to
    frames     \* the frames of the native stack, main first

vars == <<cursor, buf, frames>>

Top == Len(frames)
Running == frames[Top]

\* The bytes a slice points at.
Bytes(s) == s.at .. s.at + s.len - 1
Held == UNION {frames[k].live \cup frames[k].due : k \in 1 .. Top}

\* A frame is at the point where it evaluates operands: a caught exception has
\* been followed by a statement, or the program is one that does without.
Evaluating == Running.caught => "straightOn" \in Idioms

Init ==
    /\ cursor = 0
    /\ buf \in {[c \in Cells |-> t] : t \in Texts}
    /\ frames = <<[base |-> 0, live |-> {}, due |-> {}, guarded |-> FALSE, caught |-> FALSE]>>

\* mutant: a statement starts at the beginning of the buffer, as in main
StatementAtStart(guard, due) ==
    /\ cursor' = 0
    /\ frames' = [frames EXCEPT ![Top] = [base |-> Running.base, live |-> {}, due |-> due,
                                          guarded |-> guard, caught |-> FALSE]]
    /\ UNCHANGED buf

\* lower_statement_concat_reset, reset_concat_to_frame_base: a statement begins.
\* What the one before it wrote is dead, but for a return value that is due: it is
\* kept by the statements of the finally body, and given up by a break, a continue or
\* a throw out of that body.  The statement may be the first of a try body, or the
\* first after it.
Statement(guard, due) ==
    /\ cursor' = Running.base
    /\ frames' = [frames EXCEPT ![Top] = [base |-> Running.base, live |-> {}, due |-> due,
                                          guarded |-> guard, caught |-> FALSE]]
    /\ UNCHANGED buf

\* The statements an assignment expression carries, and the store to a property or an
\* element that it ends in, run where the expression is an operand, and reset the
\* cursor like any other.  persist_concat_lhs_if_rhs_can_reset has copied the left
\* operand of a concatenation to the heap before; the other operands of calls have
\* not been copied.
Prelude ==
    /\ Evaluating
    /\ "prelude" \in Idioms \/ Running.live = {}
    /\ cursor' = Running.base
    /\ UNCHANGED <<buf, frames>>

\* The running frame stops needing the slices of used, and holds s instead.
Holding(used, s) == [frames EXCEPT ![Top].live = (@ \ used) \cup {s}]

\* The bytes of s now belong to its text.
Written(s) == [c \in Cells |-> IF c \in Bytes(s) THEN s.text ELSE buf[c]]

\* __rt_concat, and the helpers that copy a string and change it on the way: the
\* result starts at the cursor, which moves past it.  Operands are read from the
\* buffer, the heap or the data section.
Concat(used, len, text) ==
    /\ Evaluating
    /\ cursor + len <= Size
    /\ LET s == [at |-> cursor, len |-> len, text |-> text] IN
       /\ buf' = Written(s)
       /\ frames' = Holding(used, s)
    /\ cursor' = cursor + len

\* __rt_itoa: the digits end at the last of the bytes reserved for them.
Itoa(len, text) ==
    /\ Evaluating
    /\ len <= Digits
    /\ cursor + Digits <= Size
    /\ LET s == [at |-> cursor + Digits - len, len |-> len, text |-> text] IN
       /\ buf' = Written(s)
       /\ frames' = Holding({}, s)
    /\ cursor' = cursor + Digits

\* An operation uses a slice for the last time: it is compared, printed, stored
\* (a store copies it to the heap), or copied to the heap because what follows may
\* reset the cursor.
Consume(s) ==
    /\ s \in Running.live
    /\ frames' = [frames EXCEPT ![Top].live = @ \ {s}]
    /\ UNCHANGED <<cursor, buf>>

\* capture_concat_base: a call.  The slices among the arguments stay where they are;
\* the caller holds them until the call is over.
Call ==
    /\ Evaluating
    /\ Top < MaxDepth
    /\ frames' = Append(frames, [base |-> cursor, live |-> {}, due |-> {},
                                 guarded |-> FALSE, caught |-> FALSE])
    /\ UNCHANGED <<cursor, buf>>

\* A return statement has evaluated its value, and finally bodies are to run before
\* Terminator::Return.  The value is nothing, a number or a string of the heap:
\* persist_scratch_return_string copies a concatenation, a conversion or an
\* interpolation, but leaves a string of a library function or of a call as the slice
\* it is.  A return in a finally body replaces the value of the one before.
RunFinally(result) ==
    /\ Evaluating
    /\ Top > 1
    /\ "finallyReturn" \in Idioms \/ result = {}
    /\ frames' = [frames EXCEPT ![Top].live = {}, ![Top].due = result]
    /\ UNCHANGED <<cursor, buf>>

\* The function returns, with the same values, where no finally body is left to run:
\* with that of a return statement of its own, or with the value that was due.  The
\* cursor stays where the callee left it.
Return(result) ==
    /\ Evaluating
    /\ Top > 1
    /\ frames' = [SubSeq(frames, 1, Top - 1) EXCEPT ![Top - 1].live = @ \cup result]
    /\ UNCHANGED <<cursor, buf>>

\* __rt_throw_current: the frames above the nearest handler go, and so does what the
\* handler's own frame was evaluating; the cursor is set to zero.  A return value of
\* that frame stays due if the handler is inside the finally body, and is given up by
\* the next statement if it is not.  A catch that does not match throws again from
\* here.
Throw(k) ==
    /\ frames[k].guarded
    /\ \A j \in k + 1 .. Top : ~frames[j].guarded
    /\ cursor' = 0
    /\ frames' = [SubSeq(frames, 1, k) EXCEPT ![k].live = {}, ![k].guarded = FALSE, ![k].caught = TRUE]
    /\ UNCHANGED buf

Next ==
    \/ \E guard \in BOOLEAN, due \in {{}, Running.due} : Statement(guard, due)
    \/ Prelude
    \/ \E used \in SUBSET Running.live, len \in 0 .. MaxLen, text \in Texts :
          text \notin {s.text : s \in Held} /\ Concat(used, len, text)
    \/ \E len \in 1 .. MaxLen, text \in Texts :
          text \notin {s.text : s \in Held} /\ Itoa(len, text)
    \/ \E s \in Running.live : Consume(s)
    \/ Call
    \/ \E result \in {{}} \cup {{s} : s \in Running.live} : RunFinally(result)
    \/ \E result \in {{}, Running.due} \cup {{s} : s \in Running.live} : Return(result)
    \/ \E k \in 1 .. Top : Throw(k)

Spec == Init /\ [][Next]_vars

-----------------------------------------------------------------------------
\* Every slice that a frame of the stack still needs holds the bytes its operation
\* wrote: no statement, callee, handler, finally body or returned frame, in any order,
\* has written over an operand, an argument or a return value that is read afterwards.
SlicesIntact == \A s \in Held : \A c \in Bytes(s) : buf[c] = s.text

=============================================================================
