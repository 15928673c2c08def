----------------------------- MODULE JSPVisitors -----------------------------
(***************************************************************************)
(* Perl things visiting JavaScript: the shells of PJS_CreateJSVis.         *)
(*                                                                         *)
(* A reference that Perl passes to JavaScript is wrapped in a shell, a JS  *)
(* object whose private slot owns a Perl reference to the thing.  Three    *)
(* records say that a thing visits a context: the shell's private slot,    *)
(* the context's jsvisitors hash (keyed by the ADDRESS of the thing), and  *)
(* a piece of magic on the thing that names the context by the ADDRESS of  *)
(* its structure.  The finalizer of the shell, PJS_unrootJSVis, undoes all *)
(* three; it runs inside JS_GC, for the context that is collecting.        *)
(*                                                                         *)
(* Addresses are reused: a freed thing, shell or context leaves its place  *)
(* to a new one, so that a record left behind is taken for a good one.     *)
(* Some uses of the engine put it at risk: a program has some of them.     *)
(***************************************************************************)
EXTENDS Integers, Sequences, FiniteSets

CONSTANTS
  Things,      \* addresses of Perl referents
  Shells,      \* addresses of JS objects
  Contexts,    \* addresses of contexts of one runtime
  None,        \* no shell, no call, no visitor handle
  MaxMagic,    \* bound on the pieces of magic of one context on one thing
  Programs     \* what programs do, see Program

\* Constructors return an object that exists already, scripts read references
\* out of package variables, SpiderMonkey runs out of memory in NewPerlSub or a
\* script has new PerlSub compile bad code, a context is made while there is
\* another, the program asks for a JSP::Visitor.
Uses == {"singletons", "variables", "failures", "contexts", "handles"}

\* The uses of the engine that occur together, the thing that \undef refers to,
\* if the program ever does, and, as bounds for them, the places for things,
\* contexts and shells and the number of arguments of one call.
Program == [uses: SUBSET Uses, undef: Things \cup {None}, things: SUBSET Things,
            contexts: SUBSET Contexts, shells: SUBSET Shells, args: Nat]

ASSUME ProgramsAssumption == Programs \subseteq Program
ASSUME ShellsAssumption == IsFiniteSet(Shells)
ASSUME ThingsAssumption == Things # {} /\ IsFiniteSet(Things)
ASSUME NoneAssumption == None \notin Shells \cup Contexts \cup Things
ASSUME BoundsAssumption == MaxMagic \in Nat

VARIABLES
  program,   \* one of Programs
  live,      \* the contexts that exist
  shell,     \* per shell: its record
  visitors,  \* per context, its jsvisitors: a shell or None for each thing
  magic,     \* per thing and context: the shells its magic names, newest first
  newborn,   \* per context: the last object it allocated, which GC spares
  kept,      \* the things that Perl variables refer to
  var,       \* the thing that one package variable refers to, or None
  call,      \* None, or the jsc_call that is converting its arguments
  result,    \* *rval of the last conversion of a reference
  handle     \* None, or the JSP::Visitor the program holds

vars == <<program, live, shell, visitors, magic, newborn, kept, var, call, result, handle>>

-----------------------------------------------------------------------------
\* home is the context of the shell, None once that is gone; own counts the
\* references to the thing that the private slot still owns; alias says that the
\* slot holds the package variable itself, not a copy.
ShellRec == [heap: {"free", "used"}, home: Contexts \cup {None}, of: Things, own: {-1, 0, 1},
             stored: BOOLEAN, alias: BOOLEAN]

Call == [cx: Contexts, todo: Seq(Things), args: Seq(Things \X Shells)]

TypeOK ==
  /\ program \in Programs
  /\ live \subseteq Contexts
  /\ shell \in [Shells -> ShellRec]
  /\ visitors \in [Contexts -> [Things -> Shells \cup {None}]]
  /\ magic \in [Things -> [Contexts -> Seq(Shells)]]
  /\ newborn \in [Contexts -> Shells \cup {None}]
  /\ kept \subseteq Things /\ var \in Things \cup {None}
  /\ call = None \/ call \in Call
  /\ result = None \/ result \in [cx: Contexts, thing: Things, face: Shells]
  /\ handle = None \/ handle \in [cx: Contexts, thing: Things, face: Shells]

Used(s) == shell[s].heap = "used"

\* SvRV of the private slot.
OfRec(r) == IF r.alias THEN var ELSE r.of

\* Perl frees a thing when neither the program nor a shell refers to it.
Alive(t) == \/ t \in kept \/ t = var
            \/ \E s \in Shells : shell[s].own > 0 /\ OfRec(shell[s]) = t

\* What changes together when shells come and go.
Land == [shell |-> shell, visitors |-> visitors, magic |-> magic]
Becomes(w) == shell' = w.shell /\ visitors' = w.visitors /\ magic' = w.magic

-----------------------------------------------------------------------------
(* Faults: mistaken forms of definitions below, for comparison.           *)

\* A thing that visits already is not recognised.
ExistingForgets(c, t) == {}

-----------------------------------------------------------------------------
(* PJS_unmagic, PJS_CreateJSVis and PJS_unrootJSVis.                       *)

\* PJS_unmagic for each shell of G: it removes the first piece that the context
\* has on the thing, if there is one.
Popped(m, G) == SubSeq(m, 1 + Cardinality(G), Len(m))

\* A new shell s of context c for thing t.
Created(w, c, t, s, al) ==
  [shell    |-> [w.shell EXCEPT ![s] = [heap |-> "used", home |-> c, of |-> t,
                                        own |-> 1, stored |-> FALSE, alias |-> al]],
   visitors |-> [w.visitors EXCEPT ![c][t] = s],
   magic    |-> [w.magic EXCEPT ![t][c] = <<s>> \o @]]

\* PJS_unrootJSVis for the shells of S, in any order, with the context private
\* of the collecting cx, c; None once the __PERL__ object of that context was
\* finalized itself.  The slots are not cleared.
Dropped(w, S, c) ==
  LET of(t)    == {s \in S : OfRec(w.shell[s]) = t}
      unrooted == [s \in Shells |-> IF s \in S THEN [w.shell[s] EXCEPT !.own = @ - 1] ELSE w.shell[s]]
  IN  IF c = None THEN [w EXCEPT !.shell = unrooted]
      ELSE [shell    |-> unrooted,
            visitors |-> [w.visitors EXCEPT ![c] = [t \in Things |-> IF of(t) = {} THEN @[t] ELSE None]],
            magic    |-> [t \in Things |-> [w.magic[t] EXCEPT ![c] = Popped(@, of(t))]]]

\* What is gone of the shells of S when they are finalized.
Dead(w, S) ==
  [w EXCEPT !.shell = [s \in Shells |-> IF s \in S THEN [@[s] EXCEPT !.heap = "free", !.home = None,
                                                                     !.stored = FALSE]
                                        ELSE @[s]]]

\* Faults: the finalizer forgets the entry in jsvisitors; it does nothing once
\* the __PERL__ object is gone; it takes the magic of its context off all things.
FinalizedKeepsEntry(w, S, c) == [Dropped(Dead(w, S), S, c) EXCEPT !.visitors = w.visitors]
FinalizedOnlyLive(w, S, c) == IF c = None THEN Dead(w, S) ELSE Dropped(Dead(w, S), S, c)
FinalizedBaresAll(w, S, c) ==
  LET after == Dropped(Dead(w, S), S, c)
  IN  IF c = None \/ S = {} THEN after
      ELSE [after EXCEPT !.magic = [t \in Things |-> [@[t] EXCEPT ![c] = <<>>]]]

\* The finalizer of each shell of S.
Finalized(w, S, c) == Dropped(Dead(w, S), S, c)

\* What a collection may take.  The arguments converted so far are in a
\* malloc'ed array, which is no root.  A collection may always spare more.
Garbage(w, L) ==
  {s \in Shells : /\ w.shell[s].heap = "used"
                  /\ ~(w.shell[s].stored /\ w.shell[s].home \in L)
                  /\ s \notin {newborn[c] : c \in L}}

-----------------------------------------------------------------------------
(* PJS_ReflectPerl2JS of a reference.                                      *)

\* PJS_IsPerlVisitor: the shell that the hash has for the address.
Existing(c, t) == {s \in Shells : visitors[c][t] = s}

\* Where a new shell of t in c may go, within the bounds of the model.
Vacant(c, t) == {s \in program.shells : ~Used(s) /\ Len(magic[t][c]) < MaxMagic}

\* A fault: a shell that exists takes one more reference.
ReflectCounts(c, t, s, al) ==
  /\ \/ s \in Existing(c, t) /\ Becomes([Land EXCEPT !.shell[s].own = @ + 1])
        /\ UNCHANGED newborn
     \/ /\ Existing(c, t) = {} /\ s \in Vacant(c, t)
        /\ Becomes(Created(Land, c, t, s, al))
        /\ newborn' = [newborn EXCEPT ![c] = s]
  /\ result' = [cx |-> c, thing |-> t, face |-> s]

\* Conversion of a reference to t for a script of c, with outcome s.
Reflect(c, t, s, al) ==
  /\ \/ s \in Existing(c, t) /\ Becomes(Land) /\ UNCHANGED newborn
     \/ /\ Existing(c, t) = {} /\ s \in Vacant(c, t)
        /\ Becomes(Created(Land, c, t, s, al))
        /\ newborn' = [newborn EXCEPT ![c] = s]
  /\ result' = [cx |-> c, thing |-> t, face |-> s]

-----------------------------------------------------------------------------
Init ==
  /\ program \in Programs
  /\ live = {}
  /\ shell = [s \in Shells |-> [heap |-> "free", home |-> None, own |-> 0,
                                of |-> CHOOSE t \in Things : TRUE,
                                stored |-> FALSE, alias |-> FALSE]]
  /\ visitors = [c \in Contexts |-> [t \in Things |-> None]]
  /\ magic = [t \in Things |-> [c \in Contexts |-> <<>>]]
  /\ newborn = [c \in Contexts |-> None]
  /\ kept = {program.undef} \ {None} /\ var = None
  /\ call = None /\ result = None /\ handle = None

\* PJS_CreateContext: perhaps at an old address, with a new jsvisitors hash.
NewContext(c) ==
  /\ c \in program.contexts \ live /\ (live # {} => "contexts" \in program.uses)
  /\ live' = live \cup {c}
  /\ UNCHANGED <<program, shell, visitors, magic, newborn, kept, var, call, result, handle>>

\* The program makes a thing, perhaps where a freed one was (and its magic).
NewThing(t) ==
  /\ t \in program.things /\ ~Alive(t)
  /\ kept' = kept \cup {t} /\ magic' = [magic EXCEPT ![t] = [c \in Contexts |-> <<>>]]
  /\ handle' = IF handle # None /\ handle.thing = t THEN None ELSE handle
  /\ UNCHANGED <<program, live, shell, visitors, newborn, var, call, result>>

\* The program lets go of a thing: at once, or with the arguments of a call.
DropThing(t) ==
  /\ t \in kept /\ call = None /\ t # program.undef
  /\ kept' = kept \ {t}
  /\ UNCHANGED <<program, live, shell, visitors, magic, newborn, var, call, result, handle>>

\* $Pkg::v = $ref
AssignVar(t) ==
  /\ "variables" \in program.uses /\ t \in kept /\ call = None
  /\ var' = t
  /\ UNCHANGED <<program, live, shell, visitors, magic, newborn, kept, call, result, handle>>

\* jsc_call with the arguments todo.
StartCall(c, todo) ==
  /\ c \in live /\ call = None
  /\ call' = [cx |-> c, todo |-> todo, args |-> <<>>]
  /\ UNCHANGED <<program, live, shell, visitors, magic, newborn, kept, var, result, handle>>

\* The loop of PJS_Call_js_function converts the next argument.
Convert(s) ==
  /\ call # None /\ call.todo # <<>>
  /\ LET t == Head(call.todo)
     IN  /\ Reflect(call.cx, t, s, FALSE)
         /\ call' = [call EXCEPT !.todo = Tail(@), !.args = Append(@, <<t, s>>)]
  /\ UNCHANGED <<program, live, kept, var, handle>>

\* PJS_NewPerlSub when the property "name" cannot be defined: the new shell is
\* unrooted and left to GC; the call dies with its argument list.
ConvertFails(s) ==
  /\ "failures" \in program.uses /\ call # None /\ call.todo # <<>>
  /\ LET c == call.cx
         t == Head(call.todo)
     IN  /\ Existing(c, t) = {} /\ s \in Vacant(c, t)
         /\ Becomes(Dropped(Created(Land, c, t, s, FALSE), {s}, c))
         /\ newborn' = [newborn EXCEPT ![c] = s]
  /\ call' = None
  /\ UNCHANGED <<program, live, kept, var, result, handle>>

\* JS_CallFunctionValue: the function may store some of the arguments that
\* still exist; jsc_call then collects.
Invoke(K) ==
  /\ call # None /\ call.todo = <<>>
  /\ K \subseteq {s \in Shells : Used(s) /\ \E i \in DOMAIN call.args : call.args[i][2] = s}
  /\ LET w == [Land EXCEPT !.shell =
                 [s \in Shells |-> IF s \in K THEN [@[s] EXCEPT !.stored = TRUE] ELSE @[s]]]
     IN  \E S \in SUBSET Garbage(w, live) : Becomes(Finalized(w, S, call.cx))
  /\ call' = None
  /\ UNCHANGED <<program, live, newborn, kept, var, result, handle>>

\* $obj->{p} = $ref: rop_set_prop converts and stores, and bind_value with it.
Bind(c, t, s) ==
  /\ c \in live /\ call = None /\ t \in kept
  /\ \/ /\ s \in Existing(c, t)
        /\ shell' = [shell EXCEPT ![s].stored = TRUE]
        /\ UNCHANGED <<visitors, magic, newborn>>
     \/ /\ Existing(c, t) = {} /\ s \in Vacant(c, t)
        /\ LET w == Created(Land, c, t, s, FALSE)
           IN  Becomes([w EXCEPT !.shell[s].stored = TRUE])
        /\ newborn' = [newborn EXCEPT ![c] = s]
  /\ result' = [cx |-> c, thing |-> t, face |-> s]
  /\ UNCHANGED <<program, live, kept, var, call, handle>>

\* A script reads $Pkg::v: perlpackage_get converts the variable itself.
ReadVar(c, s) ==
  /\ "variables" \in program.uses /\ c \in live /\ call = None /\ var # None
  /\ Reflect(c, var, s, TRUE)
  /\ UNCHANGED <<program, live, kept, var, call, handle>>

\* new Foo() calls a Perl constructor, whose answer gets a shell of its own
\* whether it visits already or not.
Construct(c, t, s) ==
  /\ "singletons" \in program.uses /\ c \in live /\ call = None /\ t \in kept /\ s \in Vacant(c, t)
  /\ Becomes(Created(Land, c, t, s, FALSE))
  /\ newborn' = [newborn EXCEPT ![c] = s]
  /\ result' = [cx |-> c, thing |-> t, face |-> s]
  /\ UNCHANGED <<program, live, kept, var, call, handle>>

\* new PerlArray(...), PerlHash(...) or PerlSub(code) in a script: a new thing
\* that nobody but its shell holds, perhaps where a freed one was.
Make(c, t, s) ==
  /\ c \in live /\ call = None /\ t \in program.things /\ ~Alive(t)
  /\ s \in program.shells /\ ~Used(s)
  /\ Becomes(Created([Land EXCEPT !.magic[t] = [d \in Contexts |-> <<>>]], c, t, s, FALSE))
  /\ newborn' = [newborn EXCEPT ![c] = s]
  /\ result' = [cx |-> c, thing |-> t, face |-> s]
  /\ handle' = IF handle # None /\ handle.thing = t THEN None ELSE handle
  /\ UNCHANGED <<program, live, kept, var, call>>

\* ... that fails: the object has a reference to undef in its slot, for the
\* finalizer, and is in no record.
MakeFails(c, s) ==
  /\ "failures" \in program.uses /\ c \in live /\ call = None
  /\ program.undef # None /\ s \in program.shells /\ ~Used(s)
  /\ shell' = [shell EXCEPT ![s] = [heap |-> "used", home |-> c, of |-> program.undef,
                                    own |-> 1, stored |-> FALSE, alias |-> FALSE]]
  /\ newborn' = [newborn EXCEPT ![c] = s]
  /\ UNCHANGED <<program, live, visitors, magic, kept, var, call, result, handle>>

\* A script gives a shell it has back to Perl: PJS_ReflectJS2Perl answers the
\* reference in the private slot.
GiveBack(s) ==
  /\ call = None /\ Used(s) /\ shell[s].home \in live /\ shell[s].own > 0
  /\ kept' = kept \cup {OfRec(shell[s])}
  /\ UNCHANGED <<program, live, shell, visitors, magic, newborn, var, call, result, handle>>

\* A script of c drops what it stored, and jsc_eval collects.
Forget(c, s) ==
  /\ c \in live /\ call = None /\ Used(s) /\ shell[s].stored /\ shell[s].home = c
  /\ LET w == [Land EXCEPT !.shell[s].stored = FALSE]
     IN  \E S \in SUBSET Garbage(w, live) : Becomes(Finalized(w, S, c))
  /\ UNCHANGED <<program, live, newborn, kept, var, call, result, handle>>

\* A collection that a conversion or an allocation of context c starts.
GC(c, S) ==
  /\ c \in live /\ (call # None => c = call.cx)
  /\ Becomes(Finalized(Land, S, c))
  /\ UNCHANGED <<program, live, newborn, kept, var, call, result, handle>>

\* What destruction of context c leaves, when L are the others, and A and B the
\* shells that are finalized before and after the __PERL__ object of c.  The
\* last context of the runtime leaves no object behind.
Destroyed(w, c, L, A, B) ==
  LET after == Finalized(Finalized(w, A, c), B, None)
  IN  /\ A \cup B \subseteq Garbage(w, L) /\ A \cap B = {}
      /\ L = {} => A \cup B = Garbage(w, L)
      /\ shell' = [s \in Shells |-> IF after.shell[s].home = c
                                    THEN [after.shell[s] EXCEPT !.home = None] ELSE after.shell[s]]
      /\ visitors' = [after.visitors EXCEPT ![c] = [t \in Things |-> None]]
      /\ magic' = after.magic

\* A fault: destruction leaves the magic to the finalizers.
BareForgotten(c) == Land

\* The magic is taken off every thing that jsvisitors names.
Bare(c) ==
  LET named(t) == {u \in Things : \E s \in Existing(c, u) : OfRec(shell[s]) = t}
  IN  [Land EXCEPT !.magic = [t \in Things |-> [magic[t] EXCEPT ![c] = Popped(@, named(t))]]]

\* PJS_DestroyContext: take off the magic, clear the scope, collect, free the
\* hash.
DestroyContext(c, A, B) ==
  /\ c \in live /\ call = None
  /\ live' = live \ {c}
  /\ Destroyed(Bare(c), c, live \ {c}, A, B)
  /\ newborn' = [newborn EXCEPT ![c] = None]
  /\ handle' = IF handle # None /\ handle.cx = c THEN None ELSE handle
  /\ UNCHANGED <<program, kept, var, call, result>>

\* $ctx->jsvisitor($ref): a handle on the shell that the magic names.  It holds
\* the context and the thing weakly, and the shell not at all.
TakeHandle(c, t) ==
  /\ "handles" \in program.uses /\ c \in live /\ call = None /\ t \in kept
  /\ magic[t][c] # <<>>
  /\ handle' = [cx |-> c, thing |-> t, face |-> Head(magic[t][c])]
  /\ UNCHANGED <<program, live, shell, visitors, magic, newborn, kept, var, call, result>>

Next ==
  \/ \E c \in Contexts :
       \/ NewContext(c)
       \/ \E n \in 0 .. program.args : \E todo \in [1 .. n -> kept] : StartCall(c, todo)
       \/ \E S \in SUBSET Garbage(Land, live) : GC(c, S)
       \/ \E A, B \in SUBSET Shells : DestroyContext(c, A, B)
  \/ \E t \in Things : NewThing(t) \/ DropThing(t) \/ AssignVar(t)
  \/ \E s \in Shells : Convert(s) \/ ConvertFails(s) \/ GiveBack(s)
  \/ \E c \in Contexts, s \in Shells : ReadVar(c, s) \/ Forget(c, s) \/ MakeFails(c, s)
  \/ \E c \in Contexts, t \in Things, s \in Shells : Bind(c, t, s) \/ Construct(c, t, s) \/ Make(c, t, s)
  \/ \E c \in Contexts, t \in Things : TakeHandle(c, t)
  \/ \E K \in SUBSET Shells : Invoke(K)

Spec == Init /\ [][Next]_vars

-----------------------------------------------------------------------------
(* Safety.                                                                 *)

\* A program that only passes references.
Tame == program.uses \subseteq {"handles"}

\* In one context a visiting thing has one shell, and jsvisitors names it:
\* PJS_IsPerlVisitor finds it wherever the thing comes from, and never finds
\* anything else (PJS_Context.c:329-345, PJS_Reflection.c:133-138).
IdentityKept ==
  Tame =>
  \A c \in live :
    /\ \A t \in Things : LET s == visitors[c][t] IN
         s # None => Used(s) /\ shell[s].home = c /\ OfRec(shell[s]) = t
    /\ \A s \in Shells :
         Used(s) /\ shell[s].home = c => visitors[c][OfRec(shell[s])] = s

\* The magic on a thing names the shells it has and nothing else, above all no
\* context that is gone (PJS_Context.c:203-216); and a shell owns its reference
\* until its finalizer frees it, once (295-296, 323).
MagicExact ==
  Tame =>
    /\ \A t \in Things, c \in Contexts : Alive(t) =>
         {magic[t][c][i] : i \in DOMAIN magic[t][c]} =
           {s \in Shells : c \in live /\ Used(s) /\ shell[s].home = c /\ OfRec(shell[s]) = t}
    /\ \A s \in Shells : shell[s].own = IF Used(s) THEN 1 ELSE 0

\* When the last context is gone JavaScript holds no Perl thing
\* (t/30-refcount.t:34, PJS_Context.c:217-223).
NoLeak == live = {} => \A s \in Shells : ~Used(s) /\ shell[s].own <= 0

\* "perl values that you pass as arguments for JavaScript functions calls are
\* visitors only for the duration of the call" (Visitor.pm:54-55): the ones
\* converted first are still there when the function is called.  It does not
\* hold: nothing roots them while the later ones are converted.
ArgsVisit ==
  call # None => \A i \in DOMAIN call.args :
    LET t == call.args[i][1]
        s == call.args[i][2]
    IN  Used(s) /\ OfRec(shell[s]) = t

\* VALID looks for magic of the context on the thing (Controller.pm:165).
VALID == handle # None /\ magic[handle.thing][handle.cx] # <<>>

\* A handle whose shell still shows the thing answers TRUE (Visitor.pm:42).
\* The converse does not hold: when the shell is gone and the thing visits
\* again, VALID finds the magic of the new shell.
HandleHonest ==
  Tame /\ handle # None /\ Used(handle.face) /\ OfRec(shell[handle.face]) = handle.thing => VALID

-----------------------------------------------------------------------------
(* The abstract specification: every conversion answers the thing's face.  *)

Face == [c \in Contexts |-> [t \in Things |->
          IF c \in live /\ \E s \in Shells :
               Used(s) /\ shell[s].home = c /\ OfRec(shell[s]) = t
          THEN CHOOSE s \in Shells : Used(s) /\ shell[s].home = c /\ OfRec(shell[s]) = t
          ELSE None]]

RoundTrip == INSTANCE JSPRoundTrip WITH Faces <- Shells, face <- Face

\* The engine implements it where the program is tame (JSP.pm:236-238).
RoundTripIntegrity ==
  RoundTrip!Init /\ [][Tame => [RoundTrip!Next]_(RoundTrip!vars)]_vars

=============================================================================
