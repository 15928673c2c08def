--------------------------- MODULE JSPPerlClass ---------------------------
(***************************************************************************)
(* JavaScript classes written in Perl (PerlClass.xs, JSP::PerlClass).  The *)
(* engine's class, its constructor and the objects built with it know only *)
(* the NAME of the class: every getter, setter, method and constructor     *)
(* looks the class up in %ClassStore again, and then the member by its     *)
(* tinyid or its name.  A class bound under a name that is taken, in any   *)
(* context, replaces the other in the store, and frees it if the program   *)
(* has let go of it.                                                       *)
(***************************************************************************)
EXTENDS Integers, Sequences, SequencesExt, FiniteSets

CONSTANTS
  Classes,      \* identities of PJS_Class structures
  Names,        \* names of classes in JavaScript
  Members,      \* names of methods and properties
  Definitions,  \* what the program passes to JSP::PerlClass->new
  Contexts, Objects,
  Width,        \* the number of different tinyids, 2^8 in the code
  None, Error

VARIABLES
  class,   \* the PJS_Class structures, None for those not made yet
  store,   \* %ClassStore: the class under each name
  held,    \* the classes the program has a JSP::PerlClass of
  bound,   \* in each context, the class whose constructor has the name
  obj,     \* the objects of these classes in JavaScript
  said     \* the last access of a script and what it called, or None

vars == <<class, store, held, bound, obj, said>>

Definition == [fs: SUBSET Members, static_fs: SUBSET Members,
               ps: SUBSET Members, static_ps: SUBSET Members, bare: BOOLEAN]

\* What Perl is asked to call: a member of a class, an instance's or the
\* class's own, or its constructor.
Callback == [class: Classes, side: {"instance", "static", "new"}, member: Members \cup {None}]
Callee(k, side, m) == [class |-> k, side |-> side, member |-> m]

ClassRec == [name: Names, bare: BOOLEAN, freed: BOOLEAN,
             fs: SUBSET Members, static_fs: SUBSET Members, methods: Seq(Callback),
             ps: Seq(Members \X (0 .. Width - 1)), static_ps: Seq(Members \X (0 .. Width - 1)),
             properties: Seq([id: 0 .. Width - 1, calls: Callback])]

\* A class has no more properties than there are tinyids.
ASSUME ClassAssumption ==
  /\ Width \in Nat \ {0} /\ IsFiniteSet(Members)
  /\ Definitions \subseteq Definition
  /\ \A d \in Definitions : Cardinality(d.ps) + Cardinality(d.static_ps) <= Width

ObjectRec == [cx: Contexts, class: Classes]

ASSUME NoneAssumption == None \notin Classes \cup ClassRec \cup ObjectRec

TypeOK ==
  /\ class \in [Classes -> ClassRec \cup {None}]
  /\ store \in [Names -> Classes \cup {None}]
  /\ held \subseteq {k \in Classes : class[k] # None}
  /\ bound \in [Contexts -> [Names -> Classes \cup {None}]]
  /\ obj \in [Objects -> ObjectRec \cup {None}]
  /\ said = None \/ said \in [meant: Callback, got: Callback \cup {Error}, current: BOOLEAN]

-----------------------------------------------------------------------------
(* create_class                                                            *)

\* The functions of S, in the order the Perl hash gives them, go to the head
\* of the list.
AddFunctions(methods, k, side, S) ==
  Reverse([i \in 1 .. Cardinality(S) |-> Callee(k, side, SetToSeq(S)[i])]) \o methods

\* A fault: the counter is stepped first, and is not an int8.
SpecFromOne(next, S) == [i \in 1 .. Cardinality(S) |-> <<SetToSeq(S)[i], next + i>>]

\* next_property_id is an int8 that instance and static properties share.
SpecOf(next, S) == [i \in 1 .. Cardinality(S) |-> <<SetToSeq(S)[i], (next + i - 1) % Width>>]

\* A fault: the class's own properties are counted from 0 again.
NumberedAnew(d) == <<SpecOf(0, d.ps), SpecOf(0, d.static_ps)>>

Numbered(d) == <<SpecOf(0, d.ps), SpecOf(Cardinality(d.ps), d.static_ps)>>

\* The handlers of the properties of a spec, the newest first.
Handlers(k, side, spec) ==
  Reverse([i \in DOMAIN spec |-> [id |-> spec[i][2], calls |-> Callee(k, side, spec[i][1])]])

Created(k, n, d) ==
  LET spec == Numbered(d)
  IN  [name |-> n, bare |-> d.bare, freed |-> FALSE, fs |-> d.fs, static_fs |-> d.static_fs,
       methods |-> AddFunctions(AddFunctions(<<>>, k, "instance", d.fs), k, "static", d.static_fs),
       ps |-> spec[1], static_ps |-> spec[2],
       properties |-> Handlers(k, "static", spec[2]) \o Handlers(k, "instance", spec[1])]

\* A fault: the store alone does not keep a class.
FreedStored(cs, st, H) ==
  [k \in Classes |-> IF cs[k] = None \/ k \in H THEN cs[k] ELSE [cs[k] EXCEPT !.freed = TRUE]]

\* DESTROY of the JSP::PerlClass: the store st and the program H are what
\* keeps a class.
Freed(cs, st, H) ==
  [k \in Classes |-> IF cs[k] = None \/ k \in H \/ \E n \in Names : st[n] = k THEN cs[k]
                     ELSE [cs[k] EXCEPT !.freed = TRUE]]

Init ==
  /\ class = [k \in Classes |-> None] /\ store = [n \in Names |-> None]
  /\ held = {} /\ said = None
  /\ bound = [c \in Contexts |-> [n \in Names |-> None]]
  /\ obj = [o \in Objects |-> None]

\* JSP::PerlClass->new: store_class puts it over what has the name.
Create(k, n, d) ==
  /\ class[k] = None
  /\ store' = [store EXCEPT ![n] = k] /\ held' = held \cup {k}
  /\ class' = Freed([class EXCEPT ![k] = Created(k, n, d)], store', held')
  /\ said' = None /\ UNCHANGED <<bound, obj>>

\* The program lets go of its JSP::PerlClass, as bind_class does at its end.
Release(k) ==
  /\ k \in held /\ held' = held \ {k}
  /\ class' = Freed(class, store, held')
  /\ said' = None /\ UNCHANGED <<store, bound, obj>>

\* bind: JS_InitClass defines the constructor and the prototype.
Bind(k, c) ==
  /\ k \in held /\ bound' = [bound EXCEPT ![c][class[k].name] = k]
  /\ said' = None /\ UNCHANGED <<class, store, held, obj>>

-----------------------------------------------------------------------------
(* The hooks.  The engine has found the member on the prototype, or on the  *)
(* constructor, of class k.                                                *)

\* get_class_by_name and get_method_by_name
MethodOf(n, m) ==
  LET ms == class[store[n]].methods
      i  == SelectInSeq(ms, LAMBDA f : f.member = m)
  IN  IF i = 0 THEN Error ELSE ms[i]

\* get_class_by_name and get_property_by_id
PropertyOf(n, id) ==
  LET ps == class[store[n]].properties
      i  == SelectInSeq(ps, LAMBDA p : p.id = id)
  IN  IF i = 0 THEN Error ELSE ps[i].calls

\* What the hooks of class k call, when the class found is answer: a class that
\* was freed has no name any more, or still has it.
Says(k, meant, answer) ==
  /\ \E got \in {answer} \cup (IF class[k].freed THEN {Error} ELSE {}) :
       said' = [meant |-> meant, got |-> got, current |-> store[class[k].name] = k]
  /\ UNCHANGED <<class, store, held, bound>>

\* What class k has on the prototype ("instance") or the constructor.
Functions(k, side) == IF side = "instance" THEN class[k].fs ELSE class[k].static_fs
Properties(k, side) == IF side = "instance" THEN class[k].ps ELSE class[k].static_ps

\* A script uses member m of class k: invoke_perl_object_method,
\* invoke_perl_property_getter and _setter.  JS_InitClass defines the methods
\* last, over properties of the same names.
Use(k, side, m) ==
  /\ \/ m \in Functions(k, side)
        /\ Says(k, Callee(k, side, m), MethodOf(class[k].name, m))
     \/ \E i \in DOMAIN Properties(k, side) :
          /\ Properties(k, side)[i][1] = m /\ m \notin Functions(k, side)
          /\ Says(k, Callee(k, side, m), PropertyOf(class[k].name, Properties(k, side)[i][2]))
  /\ UNCHANGED obj

\* o.m, o.m = v, o.m()
UseInstance(o, m) == obj[o] # None /\ Use(obj[o].class, "instance", m)

\* Foo.m, Foo.m = v, Foo.m() in context c
UseStatic(c, n, m) == bound[c][n] # None /\ Use(bound[c][n], "static", m)

\* new Foo(): construct_perl_object.  The object is of the class that is bound,
\* the constructor and the flags are those of the class in the store.
New(c, n, o) ==
  /\ obj[o] = None /\ bound[c][n] # None
  /\ LET k    == bound[c][n]
         pcls == store[n]
         ok   == ~class[pcls].bare
     IN  /\ said' = [meant |-> Callee(k, "new", None), current |-> pcls = k,
                     got |-> IF ok THEN Callee(pcls, "new", None) ELSE Error]
         /\ obj' = IF ok THEN [obj EXCEPT ![o] = [cx |-> c, class |-> k]] ELSE obj
  /\ UNCHANGED <<class, store, held, bound>>

\* A Perl object of the package enters: PJS_NewPerlObject takes the class of
\* the prototype that bind left in the stash.
Enter(c, n, o) ==
  /\ obj[o] = None /\ bound[c][n] # None
  /\ obj' = [obj EXCEPT ![o] = [cx |-> c, class |-> bound[c][n]]]
  /\ said' = None /\ UNCHANGED <<class, store, held, bound>>

\* A collection.
Collect(o) ==
  /\ obj[o] # None /\ obj' = [obj EXCEPT ![o] = None]
  /\ said' = None /\ UNCHANGED <<class, store, held, bound>>

\* A context, its constructors and its objects go; the classes stay.
DestroyContext(c) ==
  /\ bound' = [bound EXCEPT ![c] = [n \in Names |-> None]]
  /\ obj' = [o \in Objects |-> IF obj[o] # None /\ obj[o].cx = c THEN None ELSE obj[o]]
  /\ said' = None /\ UNCHANGED <<class, store, held>>

Next ==
  \/ \E k \in Classes :
       \/ \E n \in Names, d \in Definitions : Create(k, n, d)
       \/ \E c \in Contexts : Bind(k, c)
       \/ Release(k)
  \/ \E o \in Objects : Collect(o) \/ \E m \in Members : UseInstance(o, m)
  \/ \E c \in Contexts, n \in Names :
       \/ \E m \in Members : UseStatic(c, n, m)
       \/ \E o \in Objects : New(c, n, o) \/ Enter(c, n, o)
  \/ \E c \in Contexts : DestroyContext(c)

Spec == Init /\ [][Next]_vars

-----------------------------------------------------------------------------
(* Properties.                                                             *)

\* What a class does that runs the members a script means: its constructor, if
\* that is meant, unless it has JS_CLASS_NO_INSTANCE.
Meant(f) == IF f.side = "new" /\ class[f.class].bare THEN Error ELSE f

\* What the code has a class do: instance and static methods are in one list, the
\* static ones first, so that of two with one name the static one runs.
Due(f) ==
  IF f.side = "instance" /\ f.member \in class[f.class].fs \cap class[f.class].static_fs
  THEN [f EXCEPT !.side = "static"]
  ELSE Meant(f)

\* A class that is in the store under its name runs its own members and no
\* other's, whatever was defined, bound, replaced and freed before: tinyids tell
\* all properties apart, and methods are told apart by their names, but for an
\* instance method with the name of a static one, which loses to it.  And no
\* class that the store or the program has is freed.
Dispatch ==
  /\ said # None /\ said.current => said.got = Due(said.meant)
  /\ \A k \in Classes :
       class[k] # None /\ (k \in held \/ \E n \in Names : store[n] = k) => ~class[k].freed

\* Such a class always runs the member the script means.  Does not hold: an
\* instance method may have the name of a static one (PerlClass.xs:243).
OwnSide == said # None /\ said.current => said.got = Meant(said.meant)

\* An object, and a constructor of a context, always run the members of their
\* own class.  Does not hold: another context may bind a class of that name.
OwnClass == said # None => said.got = Due(said.meant)

\* The class of an object exists as long as the object.  Does not hold either.
ObjectsLive == \A o \in Objects : obj[o] # None => ~class[obj[o].class].freed
=============================================================================
