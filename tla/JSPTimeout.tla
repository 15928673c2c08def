------------------------------ MODULE JSPTimeout ------------------------------
(***************************************************************************)
(* JSP::Context::Timeout, the implementation over alarm and the operation  *)
(* callback: eval_wto and call_wto run a script that is interrupted when   *)
(* its time is over.                                                       *)
(*                                                                         *)
(* Four pieces of state have to agree: the one alarm timer of the process, *)
(* the disposition of SIGALRM, the operation callback of the JS context,   *)
(* and the Perl handler that the callback runs (pcx->branch_handler).  The *)
(* signal handler runs at once, whatever the process is doing; it only     *)
(* sets the flag of JS_TriggerOperationCallback, and the engine looks at   *)
(* that at the next branch of whatever script it runs then.  Scripts call  *)
(* Perl and Perl runs scripts, so that all of this nests; one context.     *)
(***************************************************************************)
EXTENDS Integers, Sequences, SequencesExt

CONSTANTS
  Programs,   \* what the program around the scripts may do, see Program
  MaxRuns,    \* bound on the calls of eval_wto
  MaxDepth    \* bound on the stack

\* A callback returns false, a positive number, -1, another negative number or
\* a string like "yes", or dies.
AnyAnswer == {"false", "positive", "minus one", "negative", "string", "die"}

\* reenter says where and how Perl runs scripts again while one is running,
\* catching whether scripts and Perl functions ever catch an exception, clearing
\* whether clear_timeout is ever called, answers what callbacks do.
Program == [reenter: SUBSET ({"cb", "perl"} \X {"plain", "wto"}),
            catching: BOOLEAN, clearing: BOOLEAN, answers: SUBSET AnyAnswer]

ASSUME ProgramsAssumption == Programs \subseteq Program
ASSUME BoundsAssumption   == MaxRuns \in Nat /\ MaxDepth \in Nat

VARIABLES
  program,  \* one of Programs
  stack,    \* what runs: scripts, Perl functions and callbacks, innermost last
  to,       \* $TO{$id}: "none", "dies" (no callback), "calls", or "empty"
  os,       \* the process: its alarm timer, the action for SIGALRM, is it killed?
  cx,       \* the JS context: its operation callback, the handler, the flag
  runs      \* the calls of eval_wto so far

vars == <<program, stack, to, os, cx, runs>>

-----------------------------------------------------------------------------
(* kind "wto" or "plain": a run of a script; "perl": a Perl function that  *)
(* it called; "cb": the callback of set_timeout.  A "wto" frame has its    *)
(* number, the saved disposition, its phase, and the verdict on it:        *)
(* "watched", "cancelled", or "free" to run on without a timer.            *)
Runs  == 0 .. MaxRuns
Frame == [kind: {"wto", "plain", "perl", "cb"}, id: Runs, old: Runs,
          phase: {"run", "ended", "quiet"},
          verdict: {"watched", "cancelled", "free"}]

\* alarm, flag: 0, or the eval_wto the timer was set for.  action: 0 is the
\* default, which kills; else the eval_wto whose signal handler is installed.
TypeOK ==
  /\ program \in Programs
  /\ Len(stack) <= MaxDepth /\ \A i \in DOMAIN stack : stack[i] \in Frame
  /\ to \in {"none", "dies", "calls", "empty"}
  /\ os \in [alarm: Runs, action: Runs, killed: BOOLEAN]
  /\ cx \in [opcb: BOOLEAN, handler: BOOLEAN, flag: Runs]
  /\ runs \in Runs

Plain(k) == [kind |-> k, id |-> 0, old |-> 0, phase |-> "run", verdict |-> "free"]

\* The main program is a Perl function below the whole stack.
Top     == IF stack = <<>> THEN Plain("perl") ELSE Last(stack)
Script  == Top.kind \in {"wto", "plain"} /\ Top.phase = "run" /\ ~os.killed
Perl    == Top.kind \in {"perl", "cb"} /\ ~os.killed
Room    == Len(stack) < MaxDepth

\* The innermost eval_wto of a stack: its index, 0 if there is none.
Wto(st) == SelectLastInSeq(st, LAMBDA f : f.kind = "wto")

\* May Perl run a script in this way here?
MayRun(how) == Perl /\ Room /\ (stack = <<>> \/ <<Top.kind, how>> \in program.reenter)

Phase(p) == stack' = [stack EXCEPT ![Len(stack)].phase = p]

-----------------------------------------------------------------------------
Init ==
  /\ program \in Programs
  /\ stack = <<>> /\ to = "none" /\ runs = 0
  /\ os = [alarm |-> 0, action |-> 0, killed |-> FALSE]
  /\ cx = [opcb |-> FALSE, handler |-> FALSE, flag |-> 0]

SetTimeout(v) == Perl /\ to' = v /\ UNCHANGED <<program, stack, os, cx, runs>>

ClearTimeout ==
  program.clearing /\ Perl /\ to' = "none" /\ UNCHANGED <<program, stack, os, cx, runs>>

\* eval, call, and their _wto forms when no timeout is set.
Eval ==
  /\ MayRun("plain") \/ (MayRun("wto") /\ to = "none")
  /\ stack' = Append(stack, Plain("plain"))
  /\ UNCHANGED <<program, to, os, cx, runs>>

\* eval_wto with a timeout: install the handler, the signal, the timer.  An
\* autovivified entry has no time, and alarm(undef) stops the timer.
EvalWto ==
  /\ MayRun("wto") /\ to # "none" /\ runs < MaxRuns
  /\ runs' = runs + 1
  /\ stack' = Append(stack, [kind |-> "wto", id |-> runs', old |-> os.action, phase |-> "run",
                             verdict |-> IF to = "empty" THEN "free" ELSE "watched"])
  /\ cx' = [cx EXCEPT !.opcb = TRUE, !.handler = TRUE]
  /\ os' = [os EXCEPT !.action = runs', !.alarm = IF to = "empty" THEN 0 ELSE runs']
  /\ UNCHANGED <<program, to>>

CallPerl ==
  /\ Script /\ Room
  /\ stack' = Append(stack, Plain("perl"))
  /\ UNCHANGED <<program, to, os, cx, runs>>

PerlReturns ==
  /\ Perl /\ stack # <<>> /\ Top.kind = "perl"
  /\ stack' = Front(stack)
  /\ UNCHANGED <<program, to, os, cx, runs>>

\* The script of the innermost run comes to its end by itself.
Ends ==
  /\ Script
  /\ IF Top.kind = "plain" THEN stack' = Front(stack) ELSE Phase("ended")
  /\ UNCHANGED <<program, to, os, cx, runs>>

\* Fault: the timer is not stopped before the action for SIGALRM is restored.
QuietTicking ==
  Top.phase = "ended" /\ ~os.killed /\ Phase("quiet") /\ UNCHANGED <<program, to, os, cx, runs>>

\* alarm(0), and then the disposition and the callback.
Quiet ==
  /\ Top.phase = "ended" /\ ~os.killed
  /\ Phase("quiet")
  /\ os' = [os EXCEPT !.alarm = 0]
  /\ UNCHANGED <<program, to, cx, runs>>

\* Fault: jsc_set_opcb(undef) is forgotten.
LeaveArmed ==
  /\ Top.phase = "quiet" /\ ~os.killed
  /\ stack' = Front(stack)
  /\ os' = [os EXCEPT !.action = Top.old]
  /\ UNCHANGED <<program, to, cx, runs>>

Leave ==
  /\ Top.phase = "quiet" /\ ~os.killed
  /\ stack' = Front(stack)
  /\ os' = [os EXCEPT !.action = Top.old]
  /\ cx' = [cx EXCEPT !.opcb = FALSE, !.handler = FALSE]
  /\ UNCHANGED <<program, to, runs>>

\* SIGALRM: JS_TriggerOperationCallback, at once.
Alarm ==
  /\ os.alarm # 0 /\ ~os.killed
  /\ os' = [os EXCEPT !.alarm = 0, !.killed = os.action = 0]
  /\ cx' = [cx EXCEPT !.flag = IF os.action = 0 THEN cx.flag ELSE os.alarm]
  /\ UNCHANGED <<program, stack, to, runs>>

-----------------------------------------------------------------------------
(* The operation callback.                                                 *)

\* What the timeout means for the innermost eval_wto.
Judged(st, v) == [st EXCEPT ![Wto(st)].verdict = v]

\* Fault: an exception ends the script that was interrupted, and no more.
UnwoundOne(st) ==
  IF Last(st).kind = "plain" THEN Front(st)
  ELSE [st EXCEPT ![Len(st)].phase = "ended"]

\* An exception nobody catches leaves every script and function above the
\* innermost eval_wto, whose own eval {} stops it.
Unwound(st) == [SubSeq(st, 1, Wto(st)) EXCEPT ![Wto(st)].phase = "ended"]

\* A script catches it, or a Perl function that was called from one.
Caught(st) == {SubSeq(st, 1, i) : i \in Wto(st) .. Len(st)}

Thrown(st) == {Unwound(st)} \cup (IF program.catching THEN Caught(st) ELSE {})

\* Execution is cancelled without an exception: the run that was interrupted
\* ends, and answers undef to the Perl that started it.
Stopped(st) ==
  IF Last(st).kind = "plain" THEN Front(st)
  ELSE [st EXCEPT ![Len(st)].phase = "ended"]

\* The flag is set and there is nobody to call.
Ignored ==
  /\ Script /\ cx.flag # 0 /\ ~(cx.opcb /\ cx.handler)
  /\ cx' = [cx EXCEPT !.flag = 0]
  /\ UNCHANGED <<program, stack, to, os, runs>>

Interrupted == Script /\ cx.flag # 0 /\ cx.opcb /\ cx.handler

\* _handler without a callback: die, and the script sees an exception.  The
\* test of $TO{$id}{cb} makes an entry where clear_timeout left none.
Dies ==
  /\ Interrupted /\ to # "calls"
  /\ cx' = [cx EXCEPT !.flag = 0]
  /\ stack' \in Thrown(Judged(stack, "cancelled"))
  /\ to' = IF to = "none" THEN "empty" ELSE to
  /\ UNCHANGED <<program, os, runs>>

\* _handler with a callback, during which there is no operation callback.
Calls ==
  /\ Interrupted /\ to = "calls" /\ Room
  /\ cx' = [cx EXCEPT !.flag = 0, !.opcb = FALSE]
  /\ stack' = Append(stack, Plain("cb"))
  /\ UNCHANGED <<program, to, os, runs>>

\* Fault: every answer that is not 0 goes to alarm, a negative one too.
AnsweredUnchecked(a, st) ==
  /\ stack' = Judged(st, "watched")
  /\ os' = [os EXCEPT !.alarm = IF a = "negative" THEN -1 ELSE st[Wto(st)].id]
  /\ UNCHANGED to

\* What _handler does with the answer a, the callback's frame gone: st.  As a
\* number a string is 0, and that is what _handler returns.
Answered(a, st) ==
  \/ /\ a = "false"  /\ stack' = Stopped(Judged(st, "cancelled")) /\ UNCHANGED <<os, to>>
  \/ /\ a = "string" /\ stack' = Stopped(Judged(st, "free")) /\ UNCHANGED <<os, to>>
  \/ /\ a = "negative" /\ stack' = Judged(st, "free") /\ UNCHANGED <<os, to>>
  \/ /\ a = "die" /\ stack' \in Thrown(Judged(st, "cancelled")) /\ UNCHANGED <<os, to>>
  \/ /\ a = "positive" \/ (a = "minus one" /\ to \in {"dies", "calls"})
     /\ stack' = Judged(st, "watched")
     /\ os' = [os EXCEPT !.alarm = st[Wto(st)].id]
     /\ UNCHANGED to
  \/ /\ a = "minus one" /\ to \in {"none", "empty"}    \* alarm(undef)
     /\ stack' = Judged(st, "free")
     /\ os' = [os EXCEPT !.alarm = 0]
     /\ to' = "empty"

\* Fault: the operation callback stays out once the callback was called.
ReturnsOff(a) ==
  /\ Perl /\ Top.kind = "cb"
  /\ Answered(a, Front(stack))
  /\ UNCHANGED <<program, cx, runs>>

\* The callback is over, and the operation callback is put back.
Returns(a) ==
  /\ Perl /\ Top.kind = "cb"
  /\ Answered(a, Front(stack))
  /\ cx' = [cx EXCEPT !.opcb = TRUE]
  /\ UNCHANGED <<program, runs>>

-----------------------------------------------------------------------------
Next ==
  \/ \E v \in {"dies", "calls"} : SetTimeout(v)
  \/ ClearTimeout \/ Eval \/ EvalWto \/ CallPerl \/ PerlReturns
  \/ Ends \/ Quiet \/ Leave \/ Alarm
  \/ Ignored \/ Dies \/ Calls
  \/ \E a \in program.answers : Returns(a)

Spec == Init /\ [][Next]_vars

-----------------------------------------------------------------------------
(* Safety.                                                                 *)

\* Programs that set no timeout within the run of another ...
Nests == \E r \in program.reenter : r[2] = "wto"

\* ... and whose timeouts cannot be held up: nothing catches the exception, and
\* no callback stops just the script that was interrupted.
Yields == ~program.catching /\ program.answers \cap {"false", "string"} = {}

\* A script that runs under a timeout will be interrupted: its timer is set or
\* has fired, and the engine finds the handler when it looks, whatever the
\* callback did ("The timeout timer will be set to that value", Timeout.pm:252,
\* "In your callback you can freely re-enter JavaScript", 265).
Guarded ==
  ~Nests /\ Script /\ Top.kind = "wto" /\ Top.verdict = "watched" =>
    (os.alarm = Top.id \/ cx.flag # 0) /\ cx.opcb /\ cx.handler

\* A timer runs only while there is a handler for its signal: SIGALRM never
\* meets the default disposition, which ends the process (Timeout.pm:38-41).
\* And when no eval_wto is left, nothing of it is: no timer, no signal handler,
\* no operation callback that would touch other scripts (41-43).
Tidy ==
  /\ ~os.killed /\ (os.alarm # 0 => os.action # 0)
  /\ Wto(stack) = 0 => os.alarm = 0 /\ os.action = 0 /\ ~cx.opcb /\ ~cx.handler

\* When a timeout cancels a script, that script does not go on: "JSP will always
\* cancel the execution of the script" (Timeout.pm:236), "If you return a FALSE
\* value, the script execution will be canceled" (241).  Does not hold: the script
\* may catch what is thrown, and a false answer stops the script that was
\* interrupted, which need not be the one that has the timeout.
Cancelled == Script /\ Top.kind = "wto" => Top.verdict # "cancelled"

\* A script is interrupted when its own time is over.  Does not hold: an alarm
\* that fires while Perl runs, in a function that the script called or in eval_wto
\* before its alarm(0) (Timeout.pm:37-38), leaves its flag in the engine, and the
\* next eval_wto is interrupted for it.
InTime == Interrupted => cx.flag = stack[Wto(stack)].id

\* A callback that returns something true lets the script go on: "If you return
\* a TRUE value from the callback the execution of the script will be resumed"
\* (Timeout.pm:244).  Does not hold of a string that is no number.
Resumed ==
  [][Top.kind = "cb" /\ Len(stack') < Len(stack) =>
       stack'[Wto(stack')].verdict = "cancelled" \/ Script']_vars

-----------------------------------------------------------------------------
(* Liveness.  Time passes and Perl code returns; the engine looks at the   *)
(* flag at every branch of every script, so that a script that reaches     *)
(* branches again and again, with calls to Perl in between, is interrupted *)
(* (SF); a script by itself need never end.                                *)
Fairness ==
  /\ WF_vars(Alarm) /\ WF_vars(Quiet) /\ WF_vars(Leave) /\ WF_vars(PerlReturns)
  /\ WF_vars(\E a \in program.answers : Returns(a))
  /\ SF_vars(Ignored) /\ SF_vars(Dies) /\ SF_vars(Calls)

FairSpec == Spec /\ Fairness

\* Is eval_wto number n under way, its script not let go by a callback, and no
\* callback running?
Running(n) ==
  /\ \E i \in DOMAIN stack : stack[i].kind = "wto" /\ stack[i].id = n /\ stack[i].verdict # "free"
  /\ \A i \in DOMAIN stack : stack[i].kind # "cb"

\* A script that never ends is stopped all the same: where no callback is set,
\* every eval_wto comes back to its caller, also when the script that runs is
\* one that a Perl function of the script started (Timeout.pm:236).
Stops ==
  \A n \in 1 .. MaxRuns :
    ~Nests /\ Yields /\ Running(n) /\ to = "dies" ~> ~Running(n) \/ to # "dies"

=============================================================================
