------------------------------ MODULE JSPReflect ------------------------------
(***************************************************************************)
(* How a JavaScript object lives while Perl holds it.                      *)
(*                                                                         *)
(* When a JS object is reflected to Perl (PJS_ReflectJS2Perl) it gets a    *)
(* hidden __PASSPORT__ object, whose private slot owns a Perl "box" (the   *)
(* referent of a JSP::Boxed).  The box is reference counted by Perl, the   *)
(* object is garbage collected by SpiderMonkey, and two things tie the     *)
(* lifetimes together: the object is listed in the pvisitors object of the *)
(* context, a GC root, while Perl holds it; and ONE count of the box is    *)
(* handed back and forth between the passport and Perl.                    *)
(*                                                                         *)
(* Perl holds a box through untied wrappers (references to it), through a  *)
(* tied HASH or ARRAY (its tie magic owns one reference to the box), and   *)
(* indirectly through the coderef that a JSP::Function caches in its box.  *)
(*                                                                         *)
(* Everything runs in one thread, so a handler is one step.  The object    *)
(* graph inside JavaScript is abstracted to "which contexts' globals reach *)
(* this object".  Global destruction (PL_dirty) is not modelled.           *)
(***************************************************************************)
EXTENDS Naturals

CONSTANTS
  Objects,       \* JS objects (memory cells: one is reused after it is freed)
  Functions,     \* those of them that are JS functions: never auto-tied
  Contexts,      \* the contexts of one runtime
  AutoTieValues, \* the values the program ever gives the AutoTie flag
  Sharing,       \* does the program hand an object to a foreign context?
  MaxRefs,       \* bound on the Perl references of each kind to one object
  MaxCount       \* bound on the count of a box

ASSUME FunctionsAssumption == Functions \subseteq Objects
ASSUME ContextsAssumption  == Contexts # {}
ASSUME AutoTieAssumption   == AutoTieValues \subseteq BOOLEAN /\ AutoTieValues # {}
ASSUME SharingAssumption   == Sharing \in BOOLEAN
ASSUME BoundsAssumption    == MaxRefs \in Nat /\ MaxCount \in Nat

VARIABLES
  obj,     \* per object: the JS object, its passport and box, Perl's references
  status,  \* per context: "new" | "live" | "dead"
  held,    \* the contexts that the program itself still references
  autotie  \* per context: its AutoTie flag

vars == <<obj, status, held, autotie>>

-----------------------------------------------------------------------------
(* The record of one object.                                               *)
(*   heap    "used" while it exists in the JS heap, else "free"           *)
(*   jsref   contexts whose global object reaches it                       *)
(*   pvis    contexts whose pvisitors root it                              *)
(*   box     "none": no passport yet; "boxed": box with its raw object;    *)
(*           "final": passport_finalize cleared it; "freed": count was 0   *)
(*   home    the (weak) context stored in the box at slot 1                *)
(*   rc      count of the box                                              *)
(*   wrap    untied Perl references to the box                             *)
(*   tied    Perl references to the tied variable (0: there is none)       *)
(*   cached  slot 7 of the box caches the coderef                          *)
(*   code    Perl keeps that coderef somewhere else                        *)

BoxState == {"none", "boxed", "final", "freed"}

Cell == [heap: {"free", "used"}, jsref: SUBSET Contexts, pvis: SUBSET Contexts,
         box: BoxState, home: Contexts, rc: Nat, wrap: Nat, tied: Nat,
         cached: BOOLEAN, code: BOOLEAN]

TypeOK ==
  /\ obj \in [Objects -> Cell]
  /\ status \in [Contexts -> {"new", "live", "dead"}]
  /\ held \in SUBSET Contexts
  /\ autotie \in [Contexts -> BOOLEAN]

Live == {c \in Contexts : status[c] = "live"}

PerlHolds(b) == b.wrap > 0 \/ b.tied > 0

\* The references that count in the box: every wrapper, and one tie magic
\* however many references the tied variable itself has.
Holders(b) == b.wrap + (IF b.tied > 0 THEN 1 ELSE 0)

\* A cell no JS object and no Perl reference uses: malloc may hand it out.
Unused(b) == /\ b.heap = "free" /\ b.box \in {"none", "freed"}
             /\ ~PerlHolds(b) /\ ~b.code

\* A new JS object allocated by a script of context c.
NewCell(c) == [heap |-> "used", jsref |-> {}, pvis |-> {}, box |-> "none",
               home |-> c, rc |-> 0, wrap |-> 0, tied |-> 0,
               cached |-> FALSE, code |-> FALSE]

-----------------------------------------------------------------------------
(* Faults: what FreeRoot, Discard, Unref and Boxed below would be with a   *)
(* mistake in the code.  The specification does not use them; each one     *)
(* shows that a property can tell the code from its broken form.           *)

\* free_root does not give the count back, and the box dies with its object.
FreeRootKeepsCount(b) ==
  [b EXCEPT !.cached = FALSE, !.rc = 0, !.box = "freed", !.pvis = @ \ {b.home}]

\* free_root gives the count back and leaves the object to the collections.
FreeRootPinned(b) == [b EXCEPT !.cached = FALSE, !.rc = 1]

\* A box that is already freed is decremented once more.
DiscardTwice(b) == [b EXCEPT !.cached = FALSE, !.rc = @ - 1, !.box = "freed"]

\* The last count but one is taken for the last.
UnrefEarly(b, live) ==
  IF b.rc > 2 THEN [b EXCEPT !.rc = @ - 1]
  ELSE IF b.box = "boxed" /\ b.home \in live
       THEN [b EXCEPT !.cached = FALSE, !.rc = 1, !.pvis = @ \ {b.home}]
       ELSE [b EXCEPT !.cached = FALSE, !.rc = 0, !.box = "freed"]

\* An object that reenters Perl is not rooted again.
BoxedUnrooted(b, c) ==
  IF c \in b.pvis THEN [b EXCEPT !.rc = @ + 1]
  ELSE IF b.box # "none" THEN b
  ELSE [b EXCEPT !.box = "boxed", !.home = c, !.rc = 1, !.pvis = @ \cup {c}]

\* A second wrapper of a cached object takes no count of its own.
BoxedUncounted(b, c) ==
  IF c \in b.pvis THEN b
  ELSE IF b.box # "none" THEN [b EXCEPT !.pvis = @ \cup {c}]
  ELSE [b EXCEPT !.box = "boxed", !.home = c, !.rc = 1, !.pvis = @ \cup {c}]

\* An object that reenters Perl takes a count, and the passport keeps its own.
BoxedTwice(b, c) ==
  IF c \in b.pvis THEN [b EXCEPT !.rc = @ + 1]
  ELSE IF b.box # "none" THEN [b EXCEPT !.rc = @ + 1, !.pvis = @ \cup {c}]
  ELSE [b EXCEPT !.box = "boxed", !.home = c, !.rc = 1, !.pvis = @ \cup {c}]

-----------------------------------------------------------------------------
(* The box: DESTROY, free_root, and the finalizer of the passport.         *)

\* Boxed::DESTROY of a box whose content and context are there: free_root
\* drops the cached coderef, gives the count back to the passport, unroots.
FreeRoot(b) == [b EXCEPT !.cached = FALSE, !.rc = 1, !.pvis = @ \ {b.home}]

\* Boxed::DESTROY otherwise: empty the box, and let it be freed.
Discard(b) == [b EXCEPT !.cached = FALSE, !.rc = 0, !.box = "freed"]

\* sv_free(box), with DESTROY when it was the last count.  A box that is
\* already freed only draws a warning from perl.
Unref(b, live) ==
  IF b.rc > 1 THEN [b EXCEPT !.rc = @ - 1]
  ELSE IF b.box = "boxed" /\ b.home \in live THEN FreeRoot(b)
  ELSE Discard(b)

\* Did that sv_free reach free_root, which ends with a JS_GC?
FreesRoot(b, live) == b.rc <= 1 /\ b.box = "boxed" /\ b.home \in live

\* passport_finalize, as the object is finalized: clear the content first,
\* so that a DESTROY it causes does not call free_root, then sv_free(box).
Finalized(b) ==
  LET dead == [b EXCEPT !.heap = "free"]
  IN  IF b.box = "boxed" THEN Unref([dead EXCEPT !.box = "final"], {}) ELSE dead

\* What a collection may finalize: it is exact about roots, but may keep an
\* object for another cycle (newborn roots, conservative stack scanning).
Garbage(o, live) == {x \in Objects : /\ o[x].heap = "used"
                                     /\ o[x].jsref \cap live = {}
                                     /\ o[x].pvis \cap live = {}}

Swept(o, S) == [x \in Objects |-> IF x \in S THEN Finalized(o[x]) ELSE o[x]]

\* JS_GC over the objects o leaves some o' with part of the garbage gone.
CollectFrom(o, live) == \E S \in SUBSET Garbage(o, live) : obj' = Swept(o, S)

-----------------------------------------------------------------------------
(* PJS_ReflectJS2Perl for an object value.                                 *)

\* Find or make the box, and root the object in the context's pvisitors.
Boxed(b, c) ==
  IF c \in b.pvis THEN [b EXCEPT !.rc = @ + 1]           \* cached: one more
  ELSE IF b.box # "none" THEN [b EXCEPT !.pvis = @ \cup {c}] \* reenters: no inc
  ELSE [b EXCEPT !.box = "boxed", !.home = c, !.rc = 1,
                 !.pvis = @ \cup {c}]                     \* first time

\* The count is "owned by the wrapper" at this point.  A tied variable that
\* exists is copied and the count dropped; a new one takes a count of its own.
Tied(b, live) ==
  IF b.tied > 0 THEN Unref([b EXCEPT !.tied = @ + 1], live)
  ELSE [b EXCEPT !.rc = @ + 1, !.tied = 1]

Wrapped(b) == [b EXCEPT !.wrap = @ + 1]

\* full: the caller accepts a tied variable in place of the wrapper.
Reflected(x, b, c, full) ==
  IF full /\ autotie[c] /\ x \notin Functions
  THEN Tied(Boxed(b, c), Live)
  ELSE Wrapped(Boxed(b, c))

\* The bounds of the model on what one reflection may add.
HasRoom(b) == b.wrap < MaxRefs /\ b.tied < MaxRefs /\ b.rc + 2 <= MaxCount

-----------------------------------------------------------------------------
Init ==
  /\ obj = [x \in Objects |->
              [NewCell(CHOOSE c \in Contexts : TRUE) EXCEPT !.heap = "free"]]
  /\ status = [c \in Contexts |-> "new"]
  /\ held = {}
  /\ autotie = [c \in Contexts |-> TRUE]

\* The program dropped a context and no coderef closes over it: its DESTROY
\* is due, and runs before anything else does.
Doomed == {c \in Live \ held :
             \A x \in Objects : ~(obj[x].home = c /\ (obj[x].cached \/ obj[x].code))}

Running(c) == c \in Live /\ Doomed = {}

\* JSP::Context::new, then the program's own choice of AutoTie.
NewContext(c) ==
  /\ Doomed = {} /\ status[c] = "new"
  /\ status' = [status EXCEPT ![c] = "live"]
  /\ held' = held \cup {c}
  /\ \E v \in AutoTieValues : autotie' = [autotie EXCEPT ![c] = v]
  /\ UNCHANGED obj

SetAutoTie(c, v) ==
  /\ Running(c) /\ c \in held
  /\ autotie' = [autotie EXCEPT ![c] = v]
  /\ UNCHANGED <<obj, status, held>>

\* A script of c evaluates to object x, new or one it can reach, and leaves
\* it reachable or not; the result is reflected, and jsc_eval ends in JS_GC.
Eval(x, c, keep) ==
  /\ Running(c)
  /\ \E b \in {obj[x], NewCell(c)} :
       /\ IF b = obj[x] THEN b.heap = "used" /\ c \in b.jsref ELSE Unused(obj[x])
       /\ HasRoom(b)
       /\ LET left == [b EXCEPT !.jsref = IF keep THEN @ \cup {c} ELSE @ \ {c}]
          IN  CollectFrom([obj EXCEPT ![x] = Reflected(x, left, c, TRUE)], Live)
  /\ UNCHANGED <<status, held, autotie>>

\* A script of c overwrites the references its globals had to x.
EvalForget(x, c) ==
  /\ Running(c) /\ obj[x].heap = "used" /\ c \in obj[x].jsref
  /\ CollectFrom([obj EXCEPT ![x].jsref = @ \ {c}], Live)
  /\ UNCHANGED <<status, held, autotie>>

\* A reflection of x that asks for the bare wrapper and does not collect:
\* new_object, get_global, and the "this" of a Perl function JS calls.
ReflectUntied(x, c) ==
  /\ Running(c)
  /\ \E b \in {obj[x], NewCell(c)} :
       /\ IF b = obj[x] THEN b.heap = "used" /\ c \in b.jsref ELSE Unused(obj[x])
       /\ HasRoom(b)
       /\ obj' = [obj EXCEPT ![x] = Reflected(x, b, c, FALSE)]
  /\ UNCHANGED <<status, held, autotie>>

\* Perl gives x back to a script of c, as an argument or a stored property.
Pass(x, c) ==
  /\ Running(c) /\ PerlHolds(obj[x]) /\ obj[x].box = "boxed"
  /\ Sharing \/ c = obj[x].home
  /\ obj' = [obj EXCEPT ![x].jsref = @ \cup {c}]
  /\ UNCHANGED <<status, held, autotie>>

\* %$w on an untied wrapper: the overload ties a variable, or finds it again.
HashRef(x) ==
  /\ Running(obj[x].home) /\ obj[x].wrap > 0 /\ obj[x].box = "boxed"
  /\ HasRoom(obj[x])
  /\ LET b == obj[x]
         h == IF b.tied > 0 THEN [b EXCEPT !.tied = @ + 1]
              ELSE [b EXCEPT !.rc = @ + 1, !.tied = 1]
     IN  obj' = [obj EXCEPT ![x] = h]
  /\ UNCHANGED <<status, held, autotie>>

\* tied %$h: perl returns a copy of the reference the tie magic holds.
TiedOperator(x) ==
  /\ Doomed = {} /\ obj[x].tied > 0 /\ HasRoom(obj[x])
  /\ obj' = [obj EXCEPT ![x].wrap = @ + 1, ![x].rc = @ + 1]
  /\ UNCHANGED <<status, held, autotie>>

\* Perl copies a wrapper it has.
CopyWrapper(x) ==
  /\ Doomed = {} /\ obj[x].wrap > 0 /\ obj[x].box # "freed" /\ HasRoom(obj[x])
  /\ obj' = [obj EXCEPT ![x].wrap = @ + 1, ![x].rc = @ + 1]
  /\ UNCHANGED <<status, held, autotie>>

\* Perl lets go of one count of the box of x, b being its record without the
\* reference: free_root, when that is reached, collects.
Release(x, b) ==
  LET after == [obj EXCEPT ![x] = Unref(b, Live)]
  IN  IF FreesRoot(b, Live) THEN CollectFrom(after, Live) ELSE obj' = after

\* An untied wrapper goes out of scope.
DropWrapper(x) ==
  /\ Doomed = {} /\ obj[x].wrap > 0
  /\ Release(x, [obj[x] EXCEPT !.wrap = @ - 1])
  /\ UNCHANGED <<status, held, autotie>>

\* A reference to the tied variable goes: the last one frees the variable,
\* its magic, and the count of the box the magic owned.
DropTied(x) ==
  /\ Doomed = {} /\ obj[x].tied > 0
  /\ LET b == [obj[x] EXCEPT !.tied = @ - 1]
     IN  IF b.tied > 0 THEN obj' = [obj EXCEPT ![x] = b] ELSE Release(x, b)
  /\ UNCHANGED <<status, held, autotie>>

\* &$f on a wrapped function: make and cache the closure; Perl may keep it.
\* The closure holds the context strongly and the raw jsval, not the box.
CodeRef(x, keep) ==
  /\ Running(obj[x].home) /\ x \in Functions
  /\ obj[x].wrap > 0 /\ obj[x].box = "boxed"
  /\ obj' = [obj EXCEPT ![x].cached = TRUE, ![x].code = @ \/ keep]
  /\ UNCHANGED <<status, held, autotie>>

DropCode(x) ==
  /\ Doomed = {} /\ obj[x].code
  /\ obj' = [obj EXCEPT ![x].code = FALSE]
  /\ UNCHANGED <<status, held, autotie>>

\* A collection a script or a conversion causes (svconv reaches a multiple of
\* 2000, or the JS allocator runs out).
GC(S) ==
  /\ Doomed = {} /\ Live # {} /\ S # {}
  /\ obj' = Swept(obj, S)
  /\ UNCHANGED <<status, held, autotie>>

\* The program drops its last reference to the context.
DropContext(c) ==
  /\ Running(c) /\ c \in held
  /\ held' = held \ {c}
  /\ UNCHANGED <<obj, status, autotie>>

\* PJS_DestroyContext: clear the global scope, and with it pvisitors, collect,
\* destroy.  Perl clears the weak references to the context after this.
DestroyContext(c) ==
  /\ c \in Doomed
  /\ CollectFrom([x \in Objects |-> [obj[x] EXCEPT !.jsref = @ \ {c},
                                                   !.pvis = @ \ {c}]],
                 Live \ {c})
  /\ status' = [status EXCEPT ![c] = "dead"]
  /\ UNCHANGED <<held, autotie>>

Next ==
  \/ \E c \in Contexts :
       \/ NewContext(c)
       \/ \E v \in AutoTieValues : SetAutoTie(c, v)
       \/ DropContext(c)
       \/ DestroyContext(c)
  \/ \E x \in Objects, c \in Contexts :
       \/ \E keep \in BOOLEAN : Eval(x, c, keep)
       \/ EvalForget(x, c)
       \/ ReflectUntied(x, c)
       \/ Pass(x, c)
  \/ \E x \in Objects :
       \/ HashRef(x)
       \/ TiedOperator(x)
       \/ CopyWrapper(x)
       \/ DropWrapper(x)
       \/ DropTied(x)
       \/ \E keep \in BOOLEAN : CodeRef(x, keep)
       \/ DropCode(x)
  \/ \E S \in SUBSET Garbage(obj, Live) : GC(S)

Spec == Init /\ [][Next]_vars

-----------------------------------------------------------------------------
(* Safety.                                                                 *)

\* While its context lives, an object that Perl holds exists, is rooted in
\* pvisitors, and its box still has its raw object: no sequence of drops,
\* collections and reflections leaves Perl with a wrapper of a dead object
\* (PJS_Reflection.c:402-407, Boxed.pm:31-39).
HeldUsable ==
  \A x \in Objects : LET b == obj[x] IN
    PerlHolds(b) /\ b.home \in Live =>
      b.heap = "used" /\ b.box = "boxed" /\ b.home \in b.pvis

\* The count of the box covers every reference Perl has to it, so that the
\* next drop is the last one only if it is (PJS_Reflection.c:342, 407).
CountCovers ==
  \A x \in Objects : LET b == obj[x] IN
    b.home \in Live => b.rc >= Holders(b)

\* A passport of a live context never points to a freed box: GetPassport and
\* the finalizer dereference it without a check (PJS_Reflection.c:17, 252).
PassportSound ==
  \A x \in Objects : LET b == obj[x] IN
    b.heap = "used" /\ b.home \in Live /\ b.box # "none" => b.box = "boxed" /\ b.rc > 0

\* An object is in pvisitors only as long as Perl holds it: "will be unrooted
\* by jsc_free_root at Boxed DESTROY time" (PJS_Reflection.c:402-404).  Does not
\* hold: the first tied variable that AutoTie makes pins the object.
NothingPinned ==
  \A x \in Objects : obj[x].pvis # {} => PerlHolds(obj[x])

\* AutoTie never makes a tied variable of this object.
NeverTies(x) == x \in Functions \/ TRUE \notin AutoTieValues

\* What passport_finalize frees, Perl no longer refers to: ownership of the
\* count was "transferred to perl land" (PJS_Reflection.c:342-344).
NoDangling ==
  \A x \in Objects : PerlHolds(obj[x]) => obj[x].box # "freed"

\* A coderef made from a JSP::Function calls the underlying function, so that
\* function exists as long as Perl has the coderef (Function.pm:135-136).  It
\* does not hold: the closure has the raw jsval, and no count of the box.
CodeRefCallable ==
  \A x \in Objects : obj[x].code => obj[x].heap = "used"

-----------------------------------------------------------------------------
(* Action properties.                                                      *)

\* In this step Perl lets its last reference to x go.
LetGo(x) == PerlHolds(obj[x]) /\ ~PerlHolds(obj'[x])

\* An object leaves the pvisitors of a context in the very step in which Perl lets
\* its last reference go, or the context is destroyed: not before, because another
\* wrapper, tied variable or coderef of it went, and not later, in a collection or
\* in whatever else happens to it; and unless AutoTie may have pinned it, it does
\* leave them then (rop_free_root, Object.xs:220, called from Boxed.pm:31-39).
UnrootedAtRelease ==
  [][\A x \in Objects : \A c \in obj[x].pvis :
       /\ c \notin obj'[x].pvis => LetGo(x) \/ status'[c] = "dead"
       /\ NeverTies(x) /\ LetGo(x) => c \notin obj'[x].pvis]_vars

-----------------------------------------------------------------------------
(* Liveness.  jsc_eval, jsc_call and free_root all end with a JS_GC, so an  *)
(* object is not spared by every collection for ever.                      *)

Collects(x) == \E S \in SUBSET Garbage(obj, Live) : x \in S /\ GC(S)

FairSpec ==
  /\ Spec
  /\ \A x \in Objects : WF_vars(Collects(x))
  /\ \A c \in Contexts : WF_vars(DestroyContext(c))

Released(b) == b.heap = "used" /\ b.jsref = {} /\ ~PerlHolds(b)

\* An object that JavaScript does not reach and Perl does not hold is reclaimed,
\* unless AutoTie pins it or no context is left to collect in.
Reclaimed ==
  \A x \in Objects : NeverTies(x) =>
    (Released(obj[x]) ~> obj[x].heap = "free" \/ Live = {})

=============================================================================
