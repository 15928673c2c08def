------------------------------- MODULE JSPCall --------------------------------
(***************************************************************************)
(* Calls between the two languages, and the exceptions that cross them.    *)
(*                                                                         *)
(* An exception is in one of two places: pending in the JSContext, while   *)
(* JavaScript unwinds, or in $@, while Perl does.  Where a call returns to *)
(* the other language it is moved: PJS_report_exception from the context   *)
(* to $@ (or it finds $@ already set, and believes that), the code after   *)
(* call_sv from $@ to the context (or it finds a false $@, and believes    *)
(* that all went well).  $JSP::Context::CURRENT names the context that     *)
(* called Perl; it is saved and restored with the calls.                   *)
(***************************************************************************)
EXTENDS Integers, Sequences, SequencesExt

CONSTANTS
  Contexts,   \* the JS contexts
  Errors,     \* exceptions: what die and throw are given
  Falsy,      \* those that are false for Perl: 0, "", undef, overloaded objects
  NoError,    \* $@ is empty, nothing is pending
  Nobody,     \* CURRENT outside of every call
  Cancelled,  \* what unwinds a script without an exception (see flight)
  MaxDepth    \* bound on the stack

ASSUME FalsyAssumption == Falsy \subseteq Errors
ASSUME FreshAssumption ==
  /\ NoError \notin Errors /\ Cancelled \notin Errors /\ Cancelled # NoError
  /\ Nobody \notin Contexts
ASSUME DepthAssumption == MaxDepth \in Nat

VARIABLES
  stale,      \* the program: does it enter JavaScript with an old error in $@,
  falsy,      \* and does it throw what Perl takes for no error?
  stack,      \* frames of Perl and of JavaScript in turns; the first one is Perl
  unwinds,    \* does the innermost frame unwind?
  err,        \* $@
  pending,    \* the pending exception of each context
  raise,      \* RaiseExceptions of each context
  current,    \* $JSP::Context::CURRENT
  told        \* history: the last exception that Perl found in $@

program == <<stale, falsy>>
vars == <<program, stack, unwinds, err, pending, raise, current, told>>

-----------------------------------------------------------------------------
\* A frame of JavaScript has its context; one of Perl has the value of CURRENT
\* that its call saved.
Frame == [lang: {"perl", "js"}, cx: Contexts \union {Nobody}]
Thrown == Errors \union {NoError}

TypeOK ==
  /\ stale \in BOOLEAN /\ falsy \in BOOLEAN
  /\ stack \in Seq(Frame) /\ Len(stack) \in 1 .. (MaxDepth + 1)
  /\ stack[1].lang = "perl"
  /\ \A i \in 2 .. Len(stack) : stack[i].lang # stack[i - 1].lang
  /\ \A i \in 1 .. Len(stack) : stack[i].lang = "js" => stack[i].cx \in Contexts
  /\ unwinds \in BOOLEAN
  /\ err \in Thrown /\ told \in Thrown
  /\ pending \in [Contexts -> Thrown]
  /\ raise \in [Contexts -> BOOLEAN]
  /\ current \in Contexts \union {Nobody}

Perl(saved) == [lang |-> "perl", cx |-> saved]
JS(c)       == [lang |-> "js", cx |-> c]

Top      == Last(stack)
InPerl   == Top.lang = "perl" /\ ~unwinds
InJS     == Top.lang = "js" /\ ~unwinds
Dying    == Top.lang = "perl" /\ unwinds
Throwing == Top.lang = "js" /\ unwinds

\* SvTRUE($@)
True(e) == e \in Errors \ Falsy

\* The innermost frame is left for the one below it, which unwinds or goes on.
Leave(b) == stack' = Front(stack) /\ unwinds' = b

\* A frame is entered.
Enter(f) == Len(stack) <= MaxDepth /\ stack' = Append(stack, f) /\ unwinds' = FALSE

\* The innermost frame starts to unwind, or what it unwinds of is caught.
Unwind(b) == unwinds' = b /\ UNCHANGED stack

-----------------------------------------------------------------------------
Init ==
  /\ stale \in BOOLEAN /\ falsy \in BOOLEAN
  /\ stack = <<Perl(Nobody)>> /\ unwinds = FALSE /\ current = Nobody
  /\ err = NoError /\ told = NoError
  /\ pending = [c \in Contexts |-> NoError]
  /\ raise = [c \in Contexts |-> TRUE]

\* $cx->{RaiseExceptions} = 0, or 1; also what compile does with local.
SetRaise(c) ==
  /\ InPerl
  /\ raise' = [raise EXCEPT ![c] = ~raise[c]]
  /\ UNCHANGED <<program, stack, unwinds, err, pending, current, told>>

\* An eval {} of the program that ends well.
EvalBlock ==
  /\ InPerl /\ err # NoError
  /\ err' = NoError
  /\ UNCHANGED <<program, stack, unwinds, pending, raise, current, told>>

\* jsc_eval empties $@ first.
Eval(c) ==
  /\ InPerl
  /\ Enter(JS(c))
  /\ err' = NoError
  /\ UNCHANGED <<program, pending, raise, current, told>>

\* jsc_call, the execution of a script and the access to properties do not.
Call(c) ==
  /\ InPerl /\ (stale \/ ~True(err))
  /\ Enter(JS(c))
  /\ UNCHANGED <<program, err, pending, raise, current, told>>

Die(e) ==
  /\ InPerl /\ (falsy \/ e \notin Falsy)
  /\ Unwind(TRUE) /\ err' = e
  /\ UNCHANGED <<program, pending, raise, current, told>>

\* An eval {} of the program traps the error.
Trap ==
  /\ Dying
  /\ Unwind(FALSE) /\ told' = err
  /\ UNCHANGED <<program, err, pending, raise, current>>

-----------------------------------------------------------------------------
Throw(e) ==
  /\ InJS /\ (falsy \/ e \notin Falsy)
  /\ Unwind(TRUE) /\ pending' = [pending EXCEPT ![Top.cx] = e]
  /\ UNCHANGED <<program, err, raise, current, told>>

\* Something returns JS_FALSE and sets no exception: the operation callback,
\* a conversion that fails.
Cancel ==
  /\ InJS
  /\ Unwind(TRUE)
  /\ UNCHANGED <<program, err, pending, raise, current, told>>

Catch ==
  /\ Throwing /\ pending[Top.cx] # NoError
  /\ Unwind(FALSE) /\ pending' = [pending EXCEPT ![Top.cx] = NoError]
  /\ UNCHANGED <<program, err, raise, current, told>>

\* The script or the function is over: its value goes to Perl.
Finish ==
  /\ InJS
  /\ Leave(FALSE)
  /\ UNCHANGED <<program, err, pending, raise, current, told>>

\* Fault: the exception is not cleared.
ReportKeeps ==
  /\ Throwing /\ ~True(err) /\ pending[Top.cx] # NoError
  /\ err' = pending[Top.cx]
  /\ Leave(raise[Top.cx])
  /\ told' = IF raise[Top.cx] THEN told ELSE err'
  /\ UNCHANGED <<program, pending, raise, current>>

\* PJS_report_exception: no error in $@, so the pending exception goes there.
Report ==
  /\ Throwing /\ ~True(err) /\ pending[Top.cx] # NoError
  /\ err' = pending[Top.cx]
  /\ pending' = [pending EXCEPT ![Top.cx] = NoError]
  /\ Leave(raise[Top.cx])
  /\ told' = IF raise[Top.cx] THEN told ELSE err'
  /\ UNCHANGED <<program, raise, current>>

\* There is an error in $@: that one is reported, and nothing is cleared.
ReportOld ==
  /\ Throwing /\ True(err)
  /\ Leave(raise[Top.cx])
  /\ told' = IF raise[Top.cx] THEN told ELSE err
  /\ UNCHANGED <<program, err, pending, raise, current>>

\* Fault: the answer of JS_GetPendingException is not looked at.
ReportUnset ==
  /\ Throwing /\ ~True(err) /\ pending[Top.cx] = NoError
  /\ err' = Cancelled /\ Leave(FALSE)
  /\ UNCHANGED <<program, pending, raise, current, told>>

\* There is none at all.
ReportNone ==
  /\ Throwing /\ ~True(err) /\ pending[Top.cx] = NoError
  /\ Leave(FALSE)
  /\ UNCHANGED <<program, err, pending, raise, current, told>>

-----------------------------------------------------------------------------
\* PJS_Call_sv_with_jsvals_rsv and PJS_CallPerlMethod: CURRENT is saved and
\* set, and the eval of call_sv empties $@.
CallPerl ==
  /\ InJS
  /\ Enter(Perl(current))
  /\ current' = Top.cx /\ err' = NoError
  /\ UNCHANGED <<program, pending, raise, told>>

\* call_sv returns and its eval has emptied $@; LEAVE restores CURRENT.
PerlReturns ==
  /\ InPerl /\ Len(stack) > 1
  /\ Leave(FALSE)
  /\ current' = Top.cx /\ err' = NoError
  /\ UNCHANGED <<program, pending, raise, told>>

\* Fault: an early return on the way of an error skips LEAVE.
ThrowErrorEntered ==
  /\ Dying /\ Len(stack) > 1 /\ True(err)
  /\ Leave(TRUE)
  /\ pending' = [pending EXCEPT ![stack[Len(stack) - 1].cx] = err]
  /\ err' = NoError
  /\ UNCHANGED <<program, raise, current, told>>

\* Fault: $@ is not emptied when its error becomes the pending exception.
ThrowErrorTwice ==
  /\ Dying /\ Len(stack) > 1 /\ True(err)
  /\ Leave(TRUE)
  /\ pending' = [pending EXCEPT ![stack[Len(stack) - 1].cx] = err]
  /\ current' = Top.cx
  /\ UNCHANGED <<program, err, raise, told>>

\* Fault: $@ is emptied before its error becomes the pending exception.
ThrowErrorEmptied ==
  /\ Dying /\ Len(stack) > 1 /\ True(err)
  /\ Leave(TRUE)
  /\ err' = NoError /\ current' = Top.cx
  /\ UNCHANGED <<program, pending, raise, told>>

\* The function has died: its error becomes the exception of the script.
ThrowError ==
  /\ Dying /\ Len(stack) > 1 /\ True(err)
  /\ Leave(TRUE)
  /\ pending' = [pending EXCEPT ![stack[Len(stack) - 1].cx] = err]
  /\ err' = NoError
  /\ current' = Top.cx
  /\ UNCHANGED <<program, raise, told>>

\* It has died of an error that is false: the script takes it for a return.
LoseError ==
  /\ Dying /\ Len(stack) > 1 /\ ~True(err)
  /\ Leave(FALSE)
  /\ current' = Top.cx
  /\ UNCHANGED <<program, err, pending, raise, told>>

-----------------------------------------------------------------------------
Next ==
  \/ \E c \in Contexts : SetRaise(c) \/ Eval(c) \/ Call(c)
  \/ \E e \in Errors : Die(e) \/ Throw(e)
  \/ EvalBlock \/ Trap \/ Cancel \/ Catch \/ Finish
  \/ Report \/ ReportOld \/ ReportNone
  \/ CallPerl \/ PerlReturns \/ ThrowError \/ LoseError

Spec == Init /\ [][Next]_vars

-----------------------------------------------------------------------------
(* An exception is pending in a context only while a frame of that context *)
(* unwinds, so that no later script, property access or cancellation finds *)
(* the exception of an earlier one (PJS_report_exception, the code after   *)
(* call_sv).  It needs a program that empties $@.                          *)
NothingPending ==
  ~stale => \A c \in Contexts : pending[c] # NoError => Throwing /\ Top.cx = c

(* JSP::Context->current, in a Perl function that JavaScript called, is    *)
(* the context that called it, however calls of other contexts nested and  *)
(* failed before (save_scalar(PJS_Context_SV) in PJS_Call.c).              *)
CurrentRight ==
  Top.lang = "perl" =>
    current = IF Len(stack) = 1 THEN Nobody ELSE stack[Len(stack) - 1].cx

\* What unwinds the frames, wherever it is.
flight ==
  IF ~unwinds THEN NoError
  ELSE IF Top.lang = "perl" THEN err
  ELSE IF pending[Top.cx] = NoError THEN Cancelled ELSE pending[Top.cx]

Flow == INSTANCE JSPExceptionFlow
          WITH Nothing <- NoError, langs <- [i \in DOMAIN stack |-> stack[i].lang]

\* A program that empties $@, and throws only what Perl takes for an error.
Sound == ~stale /\ ~falsy

(* The two places where an exception can be are one exception: the frames, *)
(* the pending exceptions and $@ implement the flow of lib/JSP.pm, where   *)
(* an exception passes unchanged through both languages until it is        *)
(* caught, trapped or told, in a sound program.                            *)
ExceptionFlow ==
  Flow!Init /\ [][Sound => [Flow!Next]_(Flow!vars)]_vars

(* An exception that leaves a frame is never silent, even when $@ was not  *)
(* empty before: Perl dies of something if RaiseExceptions is set, and     *)
(* JavaScript throws what Perl died of, unless Perl takes it for false.    *)
NeverSilent ==
  [][Len(stack') < Len(stack) =>
       /\ Throwing /\ pending[Top.cx] # NoError /\ raise[Top.cx] => Dying'
       /\ Dying /\ True(err) => Throwing' /\ pending'[Top'.cx] = err]_vars

(* lib/JSP/Context.pm, jsc_call: if an uncaught exception is thrown "it    *)
(* returns undef and sets $@".  What Perl finds there is that exception.   *)
(* Does not hold when the program left an older error in $@ (stale).       *)
ToldTheTruth ==
  [][Len(stack') < Len(stack) /\ Throwing /\ pending[Top.cx] # NoError
       => err' = pending[Top.cx]]_vars
===============================================================================
