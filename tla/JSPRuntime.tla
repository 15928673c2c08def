----------------------------- MODULE JSPRuntime -----------------------------
(***************************************************************************)
(* Runtimes, their contexts and their interrupt handlers: who keeps whom,  *)
(* in what order they go, and what a handler does to the scripts.          *)
(*                                                                         *)
(* A context holds a reference to its runtime (pcx->rrt).  A runtime has   *)
(* one JSP::TrapHandler, which is asked before every instruction of every  *)
(* script of its contexts, also of the scripts that a handler runs.  The   *)
(* closure in it may hold runtimes and contexts, its own ones too, and is  *)
(* never freed with the runtime.  %Contexts names the contexts by their    *)
(* address, which may be that of an earlier one, and does not hold them.   *)
(***************************************************************************)
EXTENDS Integers, Sequences, SequencesExt, FiniteSets

CONSTANTS
  Runtimes,
  Contexts,
  Addresses,  \* where the structures of the contexts can be
  Handlers,   \* closures to handle interrupts with
  Holds,      \* the runtimes and contexts that a closure has caught
  Answers,    \* what a closure may answer; to die is FALSE
  MaxDepth,   \* bound on the frames, with room for a handler above any script
  None

ASSUME NoneAssumption ==
  None \notin Runtimes \cup Contexts \cup Handlers /\ Runtimes \cap Contexts = {}
ASSUME HandlersAssumption ==
  /\ Holds \in [Handlers -> SUBSET (Runtimes \cup Contexts)]
  /\ Answers \in [Handlers -> (SUBSET BOOLEAN) \ {{}}]
ASSUME DepthAssumption == MaxDepth \in Nat

VARIABLES
  rts,       \* the runtimes that exist
  of,        \* the runtime of a context that exists
  at,        \* its address; the last one when it is gone
  born,      \* the runtimes and contexts created so far: each is created once
  mine,      \* what the variables of the program refer to
  named,     \* %Contexts
  handler,   \* runtime->trap_handler, which stays when the runtime goes
  hook,      \* the runtimes that have an interrupt set
  stack      \* scripts and handlers; a script may be in an instruction

vars == <<rts, of, at, born, mine, named, handler, hook, stack>>

Frame ==
  [kind: {"script"}, is: Contexts, in: BOOLEAN] \cup [kind: {"handler"}, is: Handlers]

Top == Last(stack)

TypeOK ==
  /\ rts \subseteq Runtimes /\ hook \subseteq Runtimes
  /\ mine \subseteq born /\ born \subseteq Runtimes \cup Contexts
  /\ of \in [Contexts -> Runtimes \cup {None}] /\ at \in [Contexts -> Addresses \cup {None}]
  /\ named \in [Addresses -> Contexts \cup {None}]
  /\ handler \in [Runtimes -> Handlers \cup {None}]
  /\ stack \in Seq(Frame) /\ Len(stack) <= MaxDepth
  \* A handler is asked about an instruction that has not begun; under
  \* everything else there is one that has.
  /\ \A i \in 1 .. Len(stack) : stack[i].kind = "handler" =>
       i > 1 /\ stack[i - 1].kind = "script" /\ ~stack[i - 1].in
  /\ \A i \in 1 .. Len(stack) - 1 : stack[i].kind = "script" =>
       stack[i].in \/ stack[i + 1].kind = "handler"

-----------------------------------------------------------------------------
\* The contexts of the scripts, or the closures, in a stack.
In(s, kind) == {s[i].is : i \in {j \in DOMAIN s : s[j].kind = kind}}

\* The contexts that run a script, which the arguments of jsc_eval hold.
Running(s) == In(s, "script")

\* What the closures hold that a runtime has, or had when it went, and those
\* that are being called.
Caught(h, s) ==
  UNION {Holds[k] : k \in ({h[r] : r \in Runtimes} \ {None}) \cup In(s, "handler")}

\* Fault: %Contexts holds the contexts.
HeldByNames(m, h, s) == m \cup Running(s) \cup Caught(h, s) \cup {named[a] : a \in Addresses}

\* What is referred to otherwise than by a context.
Held(m, h, s) == m \cup Running(s) \cup Caught(h, s)

\* Fault: a context does not hold its runtime.
KeptLoosely(o, held) == {r \in Runtimes : r \in held}

\* The runtimes that stay when the contexts are those in o.
Kept(o, held) == {r \in Runtimes : r \in held \/ \E c \in Contexts : o[c] = r}

\* Fault: a name stays when its context goes.
UnnamedNot(o, n) == n

\* A reference that does not hold becomes undef.
Unnamed(o, n) == [a \in Addresses |-> IF n[a] # None /\ o[n[a]] = None THEN None ELSE n[a]]

\* References have gone: the contexts without any go (PJS_DestroyContext), and
\* give theirs back, and so do runtimes (jsr_DESTROY), with what the engine had.
Settled(m, h, s, k) ==
  LET held == Held(m, h, s)
      o == [c \in Contexts |-> IF c \in held THEN of[c] ELSE None]
  IN  /\ of' = o
      /\ rts' = rts \cap Kept(o, held)
      /\ hook' = k \cap Kept(o, held)
      /\ named' = Unnamed(o, named)
      /\ mine' = m /\ handler' = h /\ stack' = s
      /\ UNCHANGED <<at, born>>

\* A script is about to get its next instruction.
Fetching == stack # <<>> /\ Top.kind = "script" /\ ~Top.in

\* Perl runs: the program, a handler, or a function that a script calls.
InPerl == ~Fetching

\* What it can get at, with jsc_rta for the runtime of a context.
Reach ==
  LET held == mine \cup Running(stack) \cup UNION {Holds[h] : h \in In(stack, "handler")}
  IN  held \cup {of[c] : c \in held \cap Contexts}

-----------------------------------------------------------------------------
Init ==
  /\ rts = {} /\ born = {} /\ mine = {} /\ hook = {} /\ stack = <<>>
  /\ of = [c \in Contexts |-> None] /\ at = [c \in Contexts |-> None]
  /\ named = [a \in Addresses |-> None] /\ handler = [r \in Runtimes |-> None]

CreateRuntime(r) ==
  /\ InPerl /\ r \notin born
  /\ rts' = rts \cup {r} /\ born' = born \cup {r} /\ mine' = mine \cup {r}
  /\ UNCHANGED <<of, at, named, handler, hook, stack>>

\* JSP::Context->new: the name is that of the new context, whatever it was.
Named(c, a) == [named EXCEPT ![a] = c]

CreateContext(c, r, a) ==
  /\ InPerl /\ r \in Reach /\ c \notin born
  /\ \A d \in Contexts : of[d] # None => at[d] # a
  /\ of' = [of EXCEPT ![c] = r] /\ at' = [at EXCEPT ![c] = a]
  /\ named' = Named(c, a)
  /\ born' = born \cup {c} /\ mine' = mine \cup {c}
  /\ UNCHANGED <<rts, handler, hook, stack>>

\* A variable of the program goes out of scope, or is set again.
Drop(x) == InPerl /\ x \in mine /\ Settled(mine \ {x}, handler, stack, hook)

Keep(x) ==
  /\ InPerl /\ x \in Reach
  /\ mine' = mine \cup {x}
  /\ UNCHANGED <<rts, of, at, born, named, handler, hook, stack>>

\* set_interrupt_handler with a closure: add_interrupt_handler.  The one that is
\* replaced is freed, also while it runs.
SetHandler(r, h) ==
  /\ InPerl /\ r \in Reach /\ Holds[h] \subseteq Reach
  /\ Settled(mine, [handler EXCEPT ![r] = h], stack, hook \cup {r})

\* Fault: the interrupt stays set.
RemoveHandlerHooked(r) ==
  /\ InPerl /\ r \in Reach /\ handler[r] # None
  /\ Settled(mine, [handler EXCEPT ![r] = None], stack, hook)

\* set_interrupt_handler with nothing: remove_interrupt_handler.
RemoveHandler(r) ==
  /\ InPerl /\ r \in Reach /\ handler[r] # None
  /\ Settled(mine, [handler EXCEPT ![r] = None], stack, hook \ {r})

-----------------------------------------------------------------------------
\* jsc_eval and jsc_call
Run(c) ==
  /\ InPerl /\ c \in Reach /\ Len(stack) + 1 < MaxDepth
  /\ stack' = Append(stack, [kind |-> "script", is |-> c, in |-> FALSE])
  /\ UNCHANGED <<rts, of, at, born, mine, named, handler, hook>>

Entered(s) == [s EXCEPT ![Len(s)].in = TRUE]

\* The next instruction, which nobody is asked about.
Fetch ==
  /\ Fetching /\ of[Top.is] \notin hook
  /\ stack' = Entered(stack)
  /\ UNCHANGED <<rts, of, at, born, mine, named, handler, hook>>

\* Fault: the instruction has begun.
InterruptLate ==
  /\ Fetching /\ of[Top.is] \in hook
  /\ stack' = Append(Entered(stack), [kind |-> "handler", is |-> handler[of[Top.is]]])
  /\ UNCHANGED <<rts, of, at, born, mine, named, handler, hook>>

\* PJS_trap_handler calls the closure.
Interrupt ==
  /\ Fetching /\ of[Top.is] \in hook
  /\ stack' = Append(stack, [kind |-> "handler", is |-> handler[of[Top.is]]])
  /\ UNCHANGED <<rts, of, at, born, mine, named, handler, hook>>

\* Fault: a closure that dies, or says no, is not heard.
AnsweredDeaf(s, yes) == Entered(Front(s))

\* The instruction begins, or the script ends (JSTRAP_ERROR), without an
\* exception: its caller goes on.
Answered(s, yes) == IF yes THEN Entered(Front(s)) ELSE Front(Front(s))

Answer ==
  /\ stack # <<>> /\ Top.kind = "handler"
  /\ \E yes \in Answers[Top.is] : Settled(mine, handler, Answered(stack, yes), hook)

\* The instruction is done, and was the last one or not.
Continue ==
  /\ stack # <<>> /\ Top.kind = "script" /\ Top.in
  /\ stack' = [stack EXCEPT ![Len(stack)].in = FALSE]
  /\ UNCHANGED <<rts, of, at, born, mine, named, handler, hook>>

Finish ==
  /\ stack # <<>> /\ Top.kind = "script" /\ Top.in
  /\ Settled(mine, handler, Front(stack), hook)

Engine == Fetch \/ Interrupt \/ Answer \/ Continue

Next ==
  \/ \E r \in Runtimes : CreateRuntime(r) \/ RemoveHandler(r)
  \/ \E r \in Runtimes, h \in Handlers : SetHandler(r, h)
  \/ \E c \in Contexts, r \in Runtimes, a \in Addresses : CreateContext(c, r, a)
  \/ \E x \in Runtimes \cup Contexts : Drop(x) \/ Keep(x)
  \/ \E c \in Contexts : Run(c)
  \/ Engine \/ Finish

Spec == Init /\ [][Next]_vars

\* The engine goes on, and what Perl does within an instruction, or within a
\* handler, comes to an end.
FairSpec == Spec /\ \A d \in 1 .. MaxDepth : SF_vars(Len(stack) = d /\ (Engine \/ Finish))

-----------------------------------------------------------------------------
\* What the program can get at exists, in whatever order it lets go of
\* runtimes and contexts, within handlers too (pcx->rrt), and an interrupt of
\* the engine finds the runtime and its handler (TrapHandler.xs:30-32).
Outlived ==
  /\ \A r \in Reach \cap Runtimes : r \in rts
  /\ None \notin Reach
  /\ \A r \in hook : r \in rts /\ handler[r] # None

\* The names in %Contexts are those of the contexts that exist, and lead to
\* them, though the addresses are used again (Context.pm:32-40).
FindsIt ==
  /\ \A c \in Contexts : of[c] # None => named[at[c]] = c
  /\ \A a \in Addresses : named[a] # None => of[named[a]] # None /\ at[named[a]] = a

\* What nobody can get at, and no closure holds, is gone: runtimes, contexts
\* and the names keep nothing among themselves.
Reclaimed ==
  LET held == Reach \cup Caught(handler, stack)
      needed == held \cup {of[c] : c \in held \cap Contexts}
  IN  /\ rts \subseteq needed
      /\ {c \in Contexts : of[c] # None} \subseteq needed

\* Where the handlers never agree no script goes on for ever, whatever the
\* handlers run themselves (18-interrupt-handler.t:42-50).
Refusing == \A r \in rts : r \in hook /\ Answers[handler[r]] = {FALSE}
Stops == <>[]Refusing => []<>(stack = <<>>)

=============================================================================
