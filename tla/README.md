# JSP in TLA+

JSP joins a Perl interpreter and a SpiderMonkey engine: values of either language
live in the other, code of either calls the other, exceptions cross both ways. Each
side has its own idea of when a thing is dead (reference counts, a garbage
collector), of what an error is (`$@`, a pending exception) and of what a name means
(symbol tables, resolve hooks). The C, XS and Perl code of this repository is the
glue, and these modules say what the glue has to get right.

1. [The system](#the-system)
2. [The modules](#the-modules)
3. [The runs](#the-runs)
4. [What is proved](#what-is-proved)
5. [Findings and known divergences](#findings-and-known-divergences)
6. [Not modelled](#not-modelled)
7. [Plan](#plan)

## The system

Everything runs in one thread. What makes the code hard is not parallelism but
re-entrance (Perl calls JavaScript calls Perl ...), collections in the middle of an
operation, destructors of either side that run inside operations of the other,
several contexts in a runtime, a signal, and state kept in two places.

| Component | State | Operations | Interacts through | Hard behaviour | Correct when |
|---|---|---|---|---|---|
| **Reflection of JS objects** (`PJS_Reflection.c`, `Object.xs`, `Boxed.pm`, `Function.pm`) | per object a `__PASSPORT__`, a box and its count, an entry in `pvisitors`; wrappers, ties and coderefs in Perl | `PJS_ReflectJS2Perl`, `rop_tie`, `rop_free_root`, `DESTROY`, `passport_finalize`, `CODE_REF` | every call that returns a value; `JS_GC` | one count owned by passport and Perl in turns; collection against `DESTROY`; the end of a context | what Perl holds exists and is rooted; what nobody holds is collected; no box is freed twice |
| **Perl visitors** (`PJS_Context.c`, `PJS_Reflection.c`, `PJS_PerlSub.c`, `Visitor.pm`) | `jsvisitors`, shells' private slots, magic on the referents | `PJS_CreateJSVis`, `PJS_unrootJSVis`, `PJS_IsPerlVisitor`, `PJS_DestroyContext`, `jsvisitor` | arguments, properties, package variables, constructors | records keyed by addresses that are used again; a collection between two conversions | one shell for each thing and context; the three records agree; a reference is owned once |
| **Timeouts** (`Timeout.pm`, `Timeout.xs`) | `%TO`, the timer and the action of SIGALRM, the operation callback and its handler | `set_timeout`, `clear_timeout`, `eval_wto`, `call_wto`, `jsc_trigger_opcb`, `PJS_operation_callback` | the signal; callbacks in Perl | the alarm at any moment; nesting; callbacks that run scripts, die or answer strangely | watched scripts are interrupted, no timer or signal action stays behind, a script that never ends is stopped |
| **Calls and exceptions** (`PJS_Call.c`, `PJS_Exceptions.c`, `JS.xs`) | `$@`, a pending exception for each context, `RaiseExceptions`, `$JSP::Context::CURRENT` | `jsc_eval`, `jsc_call`, `PJS_CallPerlMethod`, `PJS_Call_sv_with_jsvals`, `PJS_report_exception` | the stacks of both languages | errors left over in `$@`; false errors; several contexts | an exception is in one place, reaches the next handler, and none is forgotten |
| **Perl data** (`PJS_PerlArray.c`, `PJS_PerlHash.c`) | the container; the wrapper's own properties; the iterator of a hash | hooks get, set, delete, resolve, enumerate; `push`, `pop`, `shift`, `unshift`, `length` | Perl code that changes the data meanwhile | stale slots; nested loops over the one iterator; failures half way | loops are complete; a failure loses nothing |
| **Perl classes** (`PerlClass.xs`, `PerlClass.pm`) | `%ClassStore`, method and property lists, tinyids, constructors in each context | `create_class`, `bind_class`, hooks of members, `free_class` | `JS_InitClass`, all contexts | lookups by name and by number at every access; replacement and release | an object runs its own class's member; a class lives as long as it is used |
| **Packages** (`PJS_PerlPackage.c`, `Stash.pm`, `Object.pm`) | a Stash for each package and context with its own properties; Perl's symbols; `$_allow_js_export` | hooks add, get, set, resolve; `add_properties`, `allow_from_js`, `__bind_to_stash` | Perl's symbol table, shared by all contexts | hooks that run also for what they define themselves; answers that are kept | nothing changes in Perl against the veto, nor by looking; scripts replace no sub |
| **Controller** (`Controller.pm`, `PJS_GetPackageObject`, `PJS_PerlSub.c`) | the list `__PERL__` of each context, `%tinc` and `$__im_a_class` of the process, constructors and prototypes | `add`, `install` in its modes, `set_constructor`, `secure`, tweaks | the file system, packages, the shells of subs | state of the process in a list of one context; a refusal after a shell was made; one shell for a sub that several packages have | a name builds and calls what it was bound to; prototypes form no ring; a package has its tweaks |
| **Runtimes and contexts** (`Context.pm`, `Runtime.pm`, `JS.xs`, `PJS_Context.c`) | `%Contexts`, the references of contexts to runtimes | creation, destruction, `find` | all of the above | addresses that are used again; closures that hold what they are installed in | what can be got at exists, what cannot does not, an address finds its context |
| **Trap handlers** (`TrapHandler.xs`) | the handler of each runtime, the engine's interrupt | set, replace, remove, fire | scripts, and the scripts that handlers run | replacement while it runs | an interrupt finds its handler; a refusal ends the script |
| Ties, scalars, scripts, opcodes, stock runtime, errors, build | little or none | one engine or Perl call each | | | |

`PROJECT.json` lists every component with its sources and status, and under
"hazards" each place where something can go wrong that a test hardly reaches.

## The modules

| Module | Models | State and actions |
|---|---|---|
| `JSPReflect` | the life of a JS object that Perl holds | one record for each object: heap cell, who reaches it, `pvisitors`, passport, box and count, Perl's references of each kind. An action for each XS function or `DESTROY`; a `JS_GC` that ends an operation is part of it and may spare objects (conservative scanning) |
| `JSPReflectProofs` | | theorems about it |
| `JSPVisitors`, `MCVisitors` | Perl things in JavaScript | shells, `jsvisitors`, magic, the newborn object that GC spares, a `jsc_call` converting its arguments one by one, a script that runs `new PerlArray()` and the like (`Make`, `MakeFails`). The magic on a thing is kept for each context, by the name of the shell that put it there. Addresses are the identities, so they are used again. `program` says which of the risky uses of the engine occur together; "contexts" is the one in which a second context is made while the first one lives, so that a finalizer may run for the wrong one (`Finalized`, `Dropped`) |
| `JSPVisitorsProofs` | | theorems about it |
| `JSPRoundTrip` | the promise of `lib/JSP.pm:234-238` | abstract specification; `JSPVisitors` implements it with the mapping `Face` |
| `JSPTimeout`, `MCTimeout` | `eval_wto` and its callback | the stack of scripts, Perl functions and callbacks; the timer, the signal's action, the operation callback and handler; `Alarm` at any moment. `program` says where scripts run again, whether exceptions are caught, what callbacks answer |
| `JSPTimeoutProofs` | | theorems about it |
| `JSPCall` | calls and exceptions | frames of both languages in turns, `$@`, pending exceptions, CURRENT. A frame that unwinds is `unwinds`; `told` is what Perl last found in `$@`; `stale` and `falsy` say whether the program enters JavaScript with an old error, and throws what is false |
| `JSPExceptionFlow` | the promise of "EXCEPTION HANDLING" in `lib/JSP.pm` | abstract specification: one exception in flight, or none; `JSPCall` implements it |
| `JSPCallProofs` | | theorems about it |
| `JSPRuntime`, `MCRuntime` | runtimes, contexts, trap handlers | which exist, `of` (the reference of a context to its runtime), `at` and `%Contexts`, the program's variables, `trap_handler`, the engine's hook, and the stack of scripts and handlers. Whatever lets a reference go (`Drop`, `SetHandler`, `RemoveHandler`, `Answer`, `Finish`) ends with `Settled`: the destructors that follow, in the order of the references |
| `JSPRuntimeProofs` | | theorems about it |
| `JSPContexts` | | what the next two share: the contexts, and which are left |
| `JSPController`, `MCController` | packages in the list of a context | the list, prototypes and "prototype" properties of constructors, what names are bound to and were meant for, `%tinc` and tweaks, symbol tables that are gone. `install` is `Added` (`PJS_GetPackageObject`), then the binding of its mode (`InstallConstructor`, `InstallClass`, `InstallIndirect`), then `Checked` (`_chktweaks`: `Checking` of a package once `Supers` has done what it inherits from, one after the other, as `Inherited` says), any of which may end it. Its specification is `CtlSpec`, its types `CtlTypeOK`: the proofs extend it together with `JSPStash` |
| `JSPStash`, `MCStash` | a package in several contexts | Perl's variables and subs, the own properties of each Stash, the veto. `Adds` is the add hook with `__bind_to_stash`, run for whatever becomes an own property; `LookupAdds` is its run for what `perlpackage_resolve` itself defines. A sub made for a function of a script is `Closure` of it, and comes back as a sub of Perl. `who` tells lookups, other uses by scripts, declarations, `add_properties` and Perl apart |
| `JSPPackageProofs` | | theorems about both |
| `JSPPerlData` | PerlArray and PerlHash | `kind` is one or the other; data of Perl, own properties and slots of the wrapper, loops within loops, the iterator of a hash |
| `JSPPerlDataProofs` | | theorems about it |
| `JSPPerlClass`, `MCPerlClass` | classes written in Perl | the class structures, `%ClassStore`, what the program holds, constructors in contexts, objects; `said` records the callback an access meant and the one it got; `Due` is the one the code has, of two methods with one name the static one |
| `JSPPerlClassProofs` | | theorems about it |

Definitions have the names of the source where TLA+ allows it, and `PROJECT.json`
"map" gives the lines of each. A definition that a comment calls a fault is a wrong
form of the one below it; a property is listed with the fault that breaks it under
"mutants". Definitions mapped as external stand for Perl and SpiderMonkey as the
code uses them: call stacks, reference counts, garbage, own properties and slots,
the engine's order of hooks (resolve before add before set).

Abstractions that matter:

* the JS heap is "who reaches this object" (`JSPReflect`) or "stored or not"
  (`JSPVisitors`); a collection takes any set of garbage, but the one that ends a
  context's runtime takes all of it;
* values are compared, never computed with; a conversion matters only where it may
  fail (`Bad`) or yields something else (`"string"` in `JSPTimeout`, keys of hashes
  and negative indexes in `JSPPerlData`);
* in `JSPPerlData` the order of a hash is any order, and a new key may land before
  or behind the iterator;
* `JSPStash` has `&` for all of `&`, `@` and `%`; that a declared function cannot be
  deleted is left out, so the model may delete more than the engine;
* `JSPController` has one shell for a sub for all the time that something refers to
  it, and no methods but those of the prototypes; `Can` is Perl's depth first search;
* in `JSPRuntime` what a script does to Perl objects is what Perl does when the
  script is within an instruction; a closure holds the variables it captured;
* no failure of memory allocation, except the one `JSPVisitors` names.

## The runs

| Run | Question | Bounds, and why they are enough |
|---|---|---|
| `reflect_tied` | do counts, roots and passports agree, and is garbage reclaimed? | an object and a function, two contexts, two references of each kind, AutoTie switched at will. The objects do not refer to one another in the model, and two references are what tells the last one from the others |
| `reflect_dangling` | does a wrapper outlive its box? (violated) | the same with one context |
| `visitors` | do the three records agree, is the round trip kept, does JavaScript keep anything of Perl at the end? | five programs. One passes references and asks for handles: two things, three shells, two arguments, that is, one thing under two names, one address used again (that of the context too), a collection between two conversions. With two shells: one has constructors that return old objects, one reads a package variable that refers to one thing and then to another, one has conversions and constructors that fail, and it passes `\undef`. The last has two contexts at a time and three shells of one thing, so that finalizers run for the wrong one. Of these four only `TypeOK` and `NoLeak` say anything (see the divergences), and they are proved for every program |
| `timeout` | are runaway scripts stopped, is anything left armed? | eight programs: timeouts within timeouts or not, exceptions caught or not, callbacks that answer anything or nothing that stops just the innermost script; `clear_timeout` in all of them. Three `eval_wto`, five frames: a timeout in the callback of a timeout in a function |
| `call_flow` | does an exception pass unchanged, and what is kept when `$@` is not empty or errors are false? | two contexts, two errors of which one is false, six frames above the main program; all four kinds of program |
| `perl_data` | are loops complete, failures harmless? | arrays of three elements and indexes from -1, keys with and without digits, two loops within one another, batches of two values of which any may fail |
| `class_names` | does a member's name or number lead to that member? | three classes, two names, two contexts, as many tinyids as properties (four for the 256 of the code), the same names on both sides, of properties, of methods, and of a method and a property. A third class is what it takes to replace a class that already replaced one |
| `class_shared` | do contexts disturb one another? (violated) | two classes of one name, two contexts |
| `stash_vars` | are the veto and Perl's subs respected, by the hooks' runs within hooks too? | two contexts, a variable; or a sub with and without its sigil, with an inherited one, two subs of Perl and a function of each context. Variables and subs are not used together: no hook reads both |
| `controller` | do names build and call what they were bound to? | one context, a class, an heir that inherits its constructor and a package without one, two subs, one name that is bound again and again, in every mode. The second package is what it takes to share a constructor |
| `controller_tweaks` | does a package come with its tweaks? (violated) | two contexts, the class and its heir |
| `runtime_traps` | does what is used exist, does what is not used go, does a refusal stop every script? | two runtimes, two contexts, two addresses, a closure that holds a context and may agree and one that refuses, four frames: a handler that runs a script that is interrupted itself. Everything is created once, in any order |

`CHECK_DEADLOCK FALSE` stands where the system may really stop: all contexts
destroyed, the process killed by its signal, or the bound on runs reached.

What the properties say that is not obvious:

* `CountCovers` and `PassportSound`: the count of a box is shared by a passport and
  Perl; between them they decide that the drop which reaches zero is Perl's last.
* `UnrootedAtRelease`: a root is given up in the step in which Perl lets go and in no
  other, neither before nor later, whichever of wrapper, tie or coderef went; and where
  AutoTie does not pin the object it is given up then.
* `MagicExact`, `IdentityKept`: three records written at different times by
  different functions agree in every state between operations.
* `Guarded`: stated of scripts and not of steps, over every way to call and return.
  `Tidy` holds although each `eval_wto` restores only the action it found.
* `NeverSilent`: an exception that leaves a frame goes on in the one below it,
  whichever of `$@` and the context had an older one.
* `BoundRight`: what a sub builds and whose methods it calls hang on two properties of
  its one shell, which installations of other packages, failures and collections in
  between may set; it is said of a sub that one package of the context has.
* `Outlived`, `FindsIt`, `Reclaimed`: existence in both directions, though contexts
  hold runtimes, closures hold anything, names hold nothing, and a handler may drop
  or replace what it runs in.
* `Stops` of `JSPRuntime`: a handler that refuses ends the script it was asked about
  without an exception, so the Perl that called the script goes on; still every script
  ends, those of other handlers too.
* `ExceptionFlow`: refinement; while an exception is moved between `$@` and a
  context it is never in both, in neither, or changed.
* `LoopsComplete`: a loop that had the iterator to itself sees every key that was
  there all the time and none twice, although earlier loops were abandoned, other
  keys deleted and `each` used before.
* `NothingLost`: `unshift` makes room before it converts; when a conversion fails the
  old elements are still side by side.
* `Dispatch`: names lead to lists and numbers to members through structures that two
  kinds of members share; where they do not tell methods apart it says which one runs.
* `Vetoed`: the hook that makes subs runs for every property that appears, those that
  a lookup has just found in Perl included; these it must leave alone.
* `NeverReplaced`: nothing in the add hook says so; it follows from the order in
  which the engine calls resolve and add, over all lookups, deletions and contexts.

### Fairness

* `JSPReflect`: `WF` of a collection that takes an object, since `jsc_eval`,
  `jsc_call` and `rop_free_root` end with `JS_GC`: a program that goes on collects
  again and again, and the scanner does not spare an object for ever. `WF` of
  `DestroyContext`, since Perl destroys a context as soon as nothing refers to it.
* `JSPTimeout`: `WF` of `Alarm` (time passes), of `Quiet`, `Leave`, `PerlReturns` and
  of the callback's return (Perl code goes on and comes back). `SF` of what the
  engine does about its flag: it looks at every branch of every script, so a script
  that comes back to JavaScript again and again is interrupted although calls to
  Perl disable that in between. No fairness makes a script end.
* `JSPRuntime`: for each depth of the stack, `SF` of the engine's next step or the end
  of the script: the engine goes on with its script whenever it may, and what Perl does
  within an instruction or a handler comes to an end, although it may start other
  scripts, above that depth, again and again. Whether a handler refuses is not fair.
* The others state safety only.

## What is proved

`tlapm` checks every theorem below for all values of the constants.

**JSPReflect** (`JSPReflectProofs`): `TypeOK`, `HeldUsable`, `CountCovers`,
`PassportSound`, and the action property `UnrootedAtRelease`, from the module's
assumptions and `Sharing = FALSE`: Perl hands no object of one context to another one.
(`HeldUsable` and `CountCovers` are false otherwise, and TLC shows how.)
`HeldUsable` is not inductive: that a drop which reaches zero is the last one needs the
count to cover all of Perl's references, and that a collection frees no box under Perl
needs an object outside `pvisitors` to have exactly the passport's own count. The
inductive invariant is

    IInv == TypeOK /\ \A x \in Objects : Sound(obj[x], Live, Started)

where `Sound` speaks of one object, so that the proof has one lemma for each thing
that can happen to an object (a box is made, given, dropped, finalized) and each
action is a use of these. `Invariance` is `Spec => []IInv`. `UnrootedAtRelease`
needs more. An object that exists never changes its context (`HomeKept`), so that
after the step `HeldUsable` speaks of the same root as before. A root that is left
when Perl holds nothing, as AutoTie leaves it, stays (`PinnedKept`). And where AutoTie
stays out the count of a rooted object is exactly the references of Perl (`Exactly`, a
second invariant with its own lemma for each action), so the last drop does reach zero.

**JSPCall** (`JSPCallProofs`): `CallTypes` and `CurrentIsRight` with no assumption on
the program: frames alternate and each frame of Perl has saved the CURRENT of the one
that called it (`CurrentInv`), whatever throws, dies or is false. `NothingLeft`: if
Perl never enters JavaScript with an old error, no exception stays pending
(`FlowInv`). `FlowImplemented`: if moreover no error is false, `JSPCall` implements
`JSPExceptionFlow`. The mapping forgets contexts, `$@` and pending exceptions and
keeps the languages of the frames and the one exception in flight; `StepKinds` says
that every step leaves the stack, adds a frame or takes one, and each is mapped to
one step of the abstract specification or to a stutter.

`ExceptionsAreHeard` is `NeverSilent`, from `CallTypes`.

**JSPTimeout** (`JSPTimeoutProofs`): `TypeOK`, `Tidy`, `Guarded`, for every program, any number of runs and any depth. The inductive invariant follows the
stack: an `eval_wto` has saved the action of the one below it (`Linked`), so that the
action for SIGALRM is always that of the innermost; timer, callback and handler need
an `eval_wto` on the stack (`Signals`); a callback is called from a script (`Held`);
only the frame at the top is over (`Phased`). Where timeouts do not nest there is one
`eval_wto`, at the bottom, and at most one callback (`Lone`), and this is why `Guarded`
holds there. `Same` relates two stacks with the same `eval_wto` calls; all actions
but `EvalWto` and `Leave` are between such stacks, and `SameFacts` carries the chain
over; `Judgement` sums up what an answer or an exception leaves of a stack.

**JSPRuntime** (`JSPRuntimeProofs`): `TypeOK`, `Outlived`, `FindsIt`, `Reclaimed`, for
any runtimes, contexts, addresses, closures and depth. The inductive invariant says
that what is held exists and the other way round (`Sound`), that nothing exists that
was not created (`Born`), that a hooked runtime exists and has a handler (`Hooked`),
and that frames refer to what they may (`Stack`, `Referred`). One lemma, `Settles`,
does every action that lets go of something: the references that remain are fewer,
so what is referred to is still there when the destructors have run.

**JSPVisitors** (`JSPVisitorsProofs`): for every program, `TypeOK` and `NoLeak`; for
those that only pass references, one context at a time (`Tame`), `IdentityKept`,
`MagicExact`, `HandleHonest`, and `RoundTripIntegrity`: `JSPVisitors` implements
`JSPRoundTrip`. The inductive invariant is

    IInv == General /\ (Tame => Orderly)

`General` is what no risky use can break: a private slot owns at most one reference
until its shell is finalized, and no shell outlives the last context. `Orderly` is
the agreement of the three records, read from each of them: a shell has its entry
and its reference (`ShellAgrees`), an entry has its shell (`EntryAgrees`), and the
magic on a thing that anything refers to is the one piece that the entry stands for
(`Marks`). Of a thing that nothing refers to nothing is said: Perl has freed it, and
its magic with it. Both are stated of a world (shells, hashes, magic) and not of
variables, for one operation makes several of them in turn (a collection, a call that
converts its arguments): each operator on worlds has a lemma, and the actions are
uses of these. For the refinement the face of a thing is its entry (`Face`, which
chooses among shells, is unique by `Orderly`), a collection is a `Leave`, a conversion
a `Show` or an `Enter`.

**JSPStash** (`JSPPackageProofs`): `TypeOK`, `Vetoed`, `NeverReplaced`, for any
contexts, variables, subs and programs. What the two action properties rest on is that
whatever reaches the add hook as an assignment was looked up first, that the lookup
has defined the property if Perl has the sub, and that what a lookup defines comes
from Perl, so that the hook, which runs for it too, leaves it (`LookupAddsNothing`).

**JSPController** (`JSPPackageProofs`): `CtlTypeOK`, `BoundRight`, `ChainEnds`, and that
lists only grow, a secured one not at all (`ListsAreKept`), for any packages (finitely
many, none of them a sub), subs, names and contexts, any tweaks files, and any
inheritance that does not go round in a ring, which Perl refuses. `BoundRight` is not
inductive: that a name stays right when another package is installed, an installation
dies halfway or a shell is collected hangs on what no name shows. The invariant is

    CtlInv == CtlTypeOK /\ (\A c \in Contexts \ again : Lasting(c)) /\ Tells

`Tells` is said of all names: a sub is a sub, a Stash that a name stands for is that
of a class. `Lasting` is said of a context where no Proxy got a second constructor: a
constructor that one Proxy has alone serves it and leads to its Stash (`Serving`); a
name has the constructor its package has (`Named`); a Stash is a prototype only once
its Proxy has a constructor (`Taken`); among any Stashes there is one whose prototype
is not one of them (`NoRing`). `perlsub_as_constructor` keeps the last because of the
one before: the Stash it puts under the sub is one that nothing leads to yet, so it
closes no ring. `ConstructedOK` says so, and what happens after a second constructor
(`again`) is where the code breaks it.

`_chktweaks` calls itself for what a package inherits from, inside a loop that
passes on what the last call left behind. That there is such a function, and that it
only adds to the list and never to a secured one (`CheckedExists`, `CheckedGrows`), is
proved along the inheritance: of the packages for which it is not settled there would
be one whose parents all are. `Least`, the least number of a set, does the same for
loops (`Stays`, `Iterates`). That a chain without a ring ends within as many steps
as there are packages is the pigeonhole principle (`NoRingNoWalk`).

**JSPPerlData** (`JSPPerlDataProofs`): `TypeOK`, `LoopsComplete`, `NothingLost`, for arrays of any length, any keys, and loops of any depth.
`LoopsComplete` speaks of a loop that is over; the invariant (`Sound`) says of those
that run: a loop over an array has seen the indexes below its counter, and the
elements are side by side; of the loops over a hash only the innermost can still have
the iterator to itself, and then what it has not seen is left in the iterator, and
what it has seen is not. So a loop that was started on the same hash takes the
iterator away from those around it for good, whether it ends or is abandoned. One
lemma (`Becomes`) carries this over every change of the data.

**JSPPerlClass** (`JSPPerlClassProofs`): `TypeOK` and `Dispatch`, for any number of
classes, names, contexts, members and tinyids, as long as a class has no more
properties than there are tinyids (`ClassAssumption`; `create_class` does not check
it). A class that was made stays `Orderly`: the list of methods has the functions of
both sides, the static ones first, the list of handlers the properties of both sides
under different numbers, for the static ones are counted on from those of instances
and none comes round to 0. A name in the store, or of a constructor, is that of the
class it has. The hooks take the first entry that fits: of handlers it is the only
one, of methods one of the name, static if there is such. That nothing is freed which
the store or the program has goes with it: a class that answers for itself is in the
store.

Every safety invariant and action property that a passing run checks is a theorem.
Only model-checked is liveness (`Reclaimed` of `JSPReflect`, both `Stops`), which the
provers cannot do. Where the code recurs or loops the proofs do not use an induction
over the data, whose library theorems take an operator as a parameter and cannot be
instantiated here, but least counterexamples: the least number of a set (`Least`), the
package of a set that inherits from none of them (`ISAAssumption`).

`JSPPerlClass` takes the order of a Perl hash from `SetToSeq`, one order for each set;
the proofs use of it only that it lists each element once.

## Findings and known divergences

Three runs are expected to fail, and show a disagreement between the code and what the
code or its documentation says:

* `reflect_dangling` (`PJS_Reflection.c:27`): when a context is destroyed
  `passport_finalize` frees a count of the box that was handed to Perl; wrappers that
  Perl still has refer to a freed box.
* `class_shared` (`PerlClass.xs:573-586`): `%ClassStore` is one hash for the process;
  binding a class under a name that another context uses redirects the members of
  that context's objects and frees their class (`ObjectsLive` fails too).
* `controller_tweaks` (`Controller.pm:65`): `%tinc` is one hash for the process; the
  second context that installs a package gets it without its tweaks, whatever
  `Tweaks.pod:19-20` says.

More of them are known. Those with a definition are in the module with the words
"does not hold", and can be seen by naming the definition in a configuration; where a
constant has to be changed it is given.

| Where | What happens | What it contradicts | To see it |
|---|---|---|---|
| `PJS_Reflection.c:437` | the first tied variable AutoTie makes takes a count too many; the object stays rooted until its context ends | `PJS_Reflection.c:402-404` | `NothingPinned` in `reflect_dangling` |
| `Function.pm:16` | a cached coderef calls a raw jsval that may have been collected | `Function.pm:135-136` | `CodeRefCallable`, `reflect_dangling` |
| `PJS_Call.c:170` | arguments converted first may be collected while later ones are converted | `Visitor.pm:54-55` | `ArgsVisit`, `visitors` |
| `Controller.pm:165` | `VALID` is true of a handle whose shell was replaced by another of the same thing | `Visitor.pm:42` | converse of `HandleHonest` |
| `PJS_Context.c:317` | a finalizer works on the context that collects, not on the shell's own: a stale entry remains | `lib/JSP.pm:236-238` | `IdentityKept` and `MagicExact` with a `Tame` that allows "contexts" |
| `PJS_PerlSub.c:74`, `PJS_PerlPackage.c:171` | constructors that return old objects, and references read from package variables, get a second shell or one that changes what it shows | `lib/JSP.pm:236-238` | `IdentityKept` without `Tame` |
| `Timeout.xs:60` | an `eval_wto` in a callback ends with `jsc_set_opcb(undef)` and takes the outer handler away | `Timeout.pm:265` | `Guarded` without `~Nests` |
| `Timeout.pm:22` | a true string that is no number stops the script | `Timeout.pm:244` | `Resumed`, `timeout` |
| `Timeout.pm:17-19`, `Timeout.xs:31` | a script that catches what the timeout throws goes on; a false answer stops the script that was interrupted, which may be another | `Timeout.pm:236` | `Cancelled`, `timeout` |
| `Timeout.pm:37` | an alarm that fires while Perl runs leaves its flag, and interrupts the next `eval_wto` before its time | | `InTime`, `timeout` |
| `PJS_Exceptions.c:9` | `jsc_call` does not empty `$@`; an old error hides the new one, which stays pending | `Context.pm:600-601` | `ToldTheTruth`, `call_flow` |
| `PJS_Call.c:117` | an error that is false (`die` of an overloaded object) is taken for a return | `lib/JSP.pm:284-286` | `LoseError` |
| `PerlClass.xs:243` | instance and static methods are in one list: of two with one name the static one answers | | `OwnSide`, `class_names` |
| `PJS_PerlArray.c:12` | reading a hole or a new element throws "Failed to retrieve element" | `PerlArray.pod`: "new elements will be undefined" | `Fetched` |
| `PJS_PerlArray.c`, `PJS_PerlHash.c` | a key that looks like a number never reaches a hash; a slot that was read before is still answered after Perl deleted the key; deleted and popped indexes stay "in" the object | `PerlHash.pod` | `Found`, `Delete`, `Resolved` |
| `PJS_PerlHash.c:99` | two loops over one hash within one another may go on for ever | `PerlHash.pod:16-18` | drop `alone` in `LoopsComplete` |
| `PJS_PerlArray.c:235-289` | `shift` and `pop` do not free the element; a loop that is left early does not free its counter | | not modelled: memory only |
| `PJS_PerlPackage.c:38` | assigning a function to a name a Stash knows changes nothing in Perl | | `NeverReplaced` says so |
| `PJS_PerlPackage.c:265` | a method resolved once is kept when Perl defines it anew | its own TODO | `Resolved` |
| `PJS_PerlPackage.c:352` | a Stash that a secured list refuses is unrooted twice, and takes with it a count of the symbol table that was never taken: the package is gone for the process | its comment "Let GC do its work" | `gone` in `JSPController` |
| `Controller.pm:66` | a parent class that is listed already gives its tweaks to no child, a grandparent never does; a tweaks wrapper whose context is gone makes the installation die | | `Lent`, `Checked` |
| `PJS_PerlSub.c:143` | a constructor that two packages find (an inherited `new`) has one shell: `new Parent()` builds the child that was installed last | `Controller.pm:437-447` | `BoundRight` without `Alone` |
| `PJS_PerlSub.c:145` | a second constructor for one Proxy, or the same one twice, can make the prototypes a ring, and a lookup endless | | `ChainEnds` without `again` |
| `Controller.pm:91` | mode undef binds the constructor all the same if the package can `new` | `Controller.pm:457-461` | `InstallConstructor` |
| `Controller.pm:93` | a name that is taken makes `install` die when the constructor is already set | | `BoundTo` |
| `PJS_Context.c:140` | a context that cannot be set up croaks "PJS_Assert: Without runtime" instead, and its `JSContext` is not destroyed | | not modelled |
| `Context.pm:240` | `toggle_options` sets the bits it should flip | its name | not modelled |
| `Context.pm`, `TrapHandler.xs` | `eval_file` borrows the caller's context variable; `add_interrupt_handler` with a plain reference keeps the caller's variable; the closure of a runtime's handler is never freed with the runtime | | the last: `Caught` |
| `PJS_PerlHash.c:215` | a script's constructor that fails leaves a shell whose slot refers to undef; its finalizer takes the entry of `\undef` out of `jsvisitors` | `lib/JSP.pm:236-238` | `IdentityKept` without `Tame` |
| `PJS_PerlScalar.c` | `new PerlScalar(x)` never gives back a count of its reference | | not modelled |
| `Object.xs:145` | the iterator of an object stays in `pvisitors` when the loop is left early, or the object is asked whether it is empty | | not modelled |

## Not modelled

* The flags and options of a context, but for RaiseExceptions and AutoTie; a context
  that cannot be set up; destructors that run while a context is being destroyed;
  `undef $cx` of a variable that a closure captured.
* The branch handler (`alarm_bh`): compiled only against SpiderMonkey before 1.8.1.
* Plain conversions of numbers, strings, regular expressions and XML; `$JSP::This`;
  the Perl stack within a call.
* Tied access (`Object.pm`, `Array.pm`), the iterators of objects, `PerlScalar`: one
  call of the engine each.
* Scripts and bytecode, the stock runtime, `bin/jsp`, error accessors, the build: no
  state of their own, or input and output.
* Global destruction, out of memory, and anything about more than one interpreter.

## Plan

1. A composition of `JSPReflect` and `JSPVisitors` for cycles through both languages,
   and of `JSPController` with `JSPStash` through the packages that are listed.
2. Wrappers of dead objects passed back to JavaScript.
3. Iterators in `JSPReflect`: a loop that is abandoned.
4. Theorems about a composition of `JSPController` and `JSPStash`, whose proofs share
   a module already.

There is one run for each question above; a new module brings its own run or takes
the place of one whose question a theorem has answered.
