---------------------------- MODULE JSPController ----------------------------
(***************************************************************************)
(* JSP::Controller: how packages get into the list of a context, and how   *)
(* names of JavaScript come to stand for them.                             *)
(*                                                                         *)
(* A package that JavaScript knows has a Stash and a Proxy, whose          *)
(* prototype the Stash is.  As a constructor a name stands for a Perl sub, *)
(* with the Stash for its prototype and the Proxy in its property          *)
(* "prototype"; the Stash then takes the prototype that the sub had.  The  *)
(* shell of a sub is one in a context, whatever packages find the sub in   *)
(* their method table.                                                     *)
(* What the program says about a class, and the tweaks it has loaded, are  *)
(* kept for the whole process.                                             *)
(***************************************************************************)
EXTENDS JSPContexts, Integers, Sequences, FiniteSets

CONSTANTS
  Packages,
  Names,         \* properties of the global object, to bind packages to
  Constructors,  \* Perl subs that are constructors
  ISA,           \* the packages that a package inherits from, in a sequence
  New,           \* the sub "new" that a package has itself, or None
  Tweaked        \* the packages that have a tweaks file

ASSUME PackagesAssumption == IsFiniteSet(Packages) /\ Packages \cap Constructors = {}
ASSUME NoneAssumption == None \notin Contexts \cup Packages \cup Constructors
ASSUME NewAssumption == New \in [Packages -> Constructors \cup {None}]

\* Perl dies of an inheritance that goes round in a ring.
ASSUME ISAAssumption ==
  /\ DOMAIN ISA = Packages /\ \A p \in Packages : ISA[p] \in Seq(Packages)
  /\ \A S \in SUBSET Packages : S # {} =>
       \E p \in S : \A i \in DOMAIN ISA[p] : ISA[p][i] \notin S

VARIABLES
  list,      \* per context: the packages in __PERL__
  sealed,    \* the contexts whose list is secured
  proto,     \* per context: the Stash that is the prototype of a Stash or a sub
  serves,    \* per context: the package whose Proxy is a sub's "prototype"
  con,       \* per context: the constructor of a Proxy
  again,     \* history: the contexts where a Proxy got a second constructor
  bound,     \* per context: what the names stand for, and what they should
  classes,   \* the packages with a true $__im_a_class
  tinc,      \* %tinc: the context that evaluated a tweaks file, or there is none
  tweaks,    \* per context: pairs of a package and one whose tweaks its objects see
  gone       \* the packages that have lost their symbol table

ctlVars == <<live, list, sealed, proto, serves, con, again, bound, classes, tinc, tweaks, gone>>

Kinds == {"sub", "stash", "proxy"}
Binding == [kind: Kinds, is: Packages \cup Constructors, meant: Packages]

CtlTypeOK ==
  /\ live \subseteq Contexts /\ sealed \subseteq Contexts /\ again \subseteq Contexts
  /\ list \in [Contexts -> SUBSET Packages]
  /\ proto \in [Contexts -> [Packages \cup Constructors -> Packages \cup {None}]]
  /\ serves \in [Contexts -> [Constructors -> Packages \cup {None}]]
  /\ con \in [Contexts -> [Packages -> Constructors \cup {None}]]
  /\ bound \in [Contexts -> [Names -> Binding \cup {None}]]
  /\ classes \subseteq Packages /\ gone \subseteq Packages
  /\ tinc \in [Packages -> Contexts \cup {"unknown", "none"}]
  /\ tweaks \in [Contexts -> SUBSET (Packages \X Packages)]
  \* What is not in the list is not set up either.
  /\ \A c \in Contexts : \A p \in Packages \ list[c] :
       con[c][p] = None /\ proto[c][p] = None /\ \A q \in Packages : <<p, q>> \notin tweaks[c]

-----------------------------------------------------------------------------
\* $package->can("new"), depth first.
Can[p \in Packages] ==
  IF New[p] # None THEN New[p]
  ELSE LET found == SelectSeq([i \in DOMAIN ISA[p] |-> Can[ISA[p][i]]], LAMBDA k : k # None)
       IN  IF found = <<>> THEN None ELSE Head(found)

\* The packages whose symbol tables a package needs.
Above[p \in Packages] == {p} \cup UNION {Above[ISA[p][i]] : i \in DOMAIN ISA[p]}

Usable(p) == Above[p] \cap gone = {}

\* What the installation in one context changes besides the bindings; dead says
\* that it has died.
Land(c) == [list |-> list[c], tinc |-> tinc, tweaks |-> tweaks[c], gone |-> gone, dead |-> FALSE]
LandSet ==
  [list: SUBSET Packages, tinc: [Packages -> Contexts \cup {"unknown", "none"}],
   tweaks: SUBSET (Packages \X Packages), gone: SUBSET Packages, dead: BOOLEAN]

Becomes(c, w) ==
  /\ list' = [list EXCEPT ![c] = w.list] /\ tweaks' = [tweaks EXCEPT ![c] = w.tweaks]
  /\ tinc' = w.tinc /\ gone' = w.gone

\* PJS_GetPackageObject: the package is there, or a Stash is made for it.  A
\* secured list does not take that; the Stash is unrooted, and once more by its
\* finalizer, which frees the symbol table.
Added(c, w, p) ==
  IF p \in w.list THEN w
  ELSE IF c \in sealed THEN [w EXCEPT !.gone = @ \cup {p}]
  ELSE [w EXCEPT !.list = @ \cup {p}]

\* Fault: what a tweaks file returns goes into a Stash that was refused.
EvaluatedAnyway(c, w, p) ==
  IF p \in Tweaked THEN [w EXCEPT !.tinc[p] = c, !.tweaks = @ \cup {<<p, p>>}]
  ELSE [w EXCEPT !.tinc[p] = "none"]

\* _addtweaks: the file is evaluated, and what it returns put into the Stash.
Evaluated(c, w, p) ==
  IF p \in Tweaked
  THEN [w EXCEPT !.tinc[p] = c, !.tweaks = IF p \in w.list THEN @ \cup {<<p, p>>} ELSE @]
  ELSE [w EXCEPT !.tinc[p] = "none"]

\* The tweaks of s, which some context evaluated, go into the Proxy of p.  They
\* are an object of that context.
Lent(w, p, s) ==
  IF w.tinc[s] = "none" THEN w
  ELSE IF w.tinc[s] \notin live THEN [w EXCEPT !.dead = TRUE]
  ELSE [w EXCEPT !.tweaks = IF p \in w.list THEN @ \cup {<<p, s>>} ELSE @]

\* What c has after a super of p, s, that is not listed, was added and checked,
\* as f says.
Inherited(f, c, p, s, w) ==
  IF w.dead \/ s \in w.list THEN w
  ELSE LET v == f[<<s, Added(c, w, s)>>] IN IF v.dead THEN v ELSE Lent(v, p, s)

\* ... after all its supers, in turn.
Supers(f, c, p, w) ==
  LET after[i \in 0 .. Len(ISA[p])] ==
        IF i = 0 THEN w ELSE Inherited(f, c, p, ISA[p][i], after[i - 1])
  IN  after[Len(ISA[p])]

\* _chktweaks: the supers, and then the package itself.
Checking(f, c, p, w) ==
  LET supers == Supers(f, c, p, w)
  IN  IF w.tinc[p] # "unknown" THEN w
      ELSE IF supers.dead THEN supers ELSE Evaluated(c, supers, p)

Checked(c, p, w) ==
  LET check[x \in Packages \X LandSet] == Checking(check, c, x[1], x[2])
  IN  check[<<p, w>>]

-----------------------------------------------------------------------------
CtlInit ==
  /\ live = Contexts /\ sealed = {} /\ again = {} /\ classes = {} /\ gone = {}
  /\ list = [c \in Contexts |-> {}] /\ tweaks = [c \in Contexts |-> {}]
  /\ proto = [c \in Contexts |-> [x \in Packages \cup Constructors |-> None]]
  /\ serves = [c \in Contexts |-> [k \in Constructors |-> None]]
  /\ con = [c \in Contexts |-> [p \in Packages |-> None]]
  /\ bound = [c \in Contexts |-> [n \in Names |-> None]]
  /\ tinc = [p \in Packages |-> "unknown"]

\* $ctl->add, or an object of the package enters JavaScript.
AddPackage(c, p) ==
  /\ c \in live /\ Usable(p)
  /\ Becomes(c, Added(c, Land(c), p))
  /\ UNCHANGED <<live, sealed, proto, serves, con, again, bound, classes>>

Secure(c) ==
  /\ c \in live /\ sealed' = sealed \cup {c}
  /\ UNCHANGED <<live, list, proto, serves, con, again, bound, classes, tinc, tweaks, gone>>

\* Fault: the prototypes are set in the other order.
ConstructedLate(c, p, k) ==
  /\ LET first == [proto[c] EXCEPT ![k] = p]
     IN  proto' = [proto EXCEPT ![c] = [first EXCEPT ![p] = first[k]]]
  /\ serves' = [serves EXCEPT ![c][k] = p]
  /\ con' = [con EXCEPT ![c][p] = k]
  /\ again' = IF con[c][p] = None THEN again ELSE again \cup {c}

\* perlsub_as_constructor, for the assignment Proxy.constructor = k.
Constructed(c, p, k) ==
  /\ proto' = [proto EXCEPT ![c] = [@ EXCEPT ![p] = proto[c][k], ![k] = p]]
  /\ serves' = [serves EXCEPT ![c][k] = p]
  /\ con' = [con EXCEPT ![c][p] = k]
  /\ again' = IF con[c][p] = None THEN again ELSE again \cup {c}

\* $stash->set_constructor
SetConstructor(c, p, k) ==
  /\ c \in live /\ Usable(p) /\ p \in list[c]
  /\ Constructed(c, p, k)
  /\ UNCHANGED <<live, list, sealed, bound, classes, tinc, tweaks, gone>>

\* bind_value, and then _chktweaks.  A name that is taken stays as it is, and
\* the installation dies.
BoundTo(c, n, w, b) ==
  IF bound[c][n] # None THEN UNCHANGED bound /\ Becomes(c, w)
  ELSE /\ bound' = [bound EXCEPT ![c][n] = b]
       /\ Becomes(c, Checked(c, b.meant, w))

\* install of a package that goes into the list.  One that is refused does what
\* AddPackage does, and dies.
Installing(c, p) ==
  c \in live /\ Usable(p) /\ p \in Added(c, Land(c), p).list

\* ... in a mode that names a sub, or the default one where there is a "new".
InstallConstructor(c, n, p, k) ==
  /\ Installing(c, p)
  /\ Constructed(c, p, k)
  /\ BoundTo(c, n, Added(c, Land(c), p), [kind |-> "sub", is |-> k, meant |-> p])
  /\ UNCHANGED <<live, sealed, classes>>

\* Fault: the package does not become a class.
InstallClassUnmarked(c, n, p) ==
  /\ Installing(c, p) /\ Can[p] = None
  /\ BoundTo(c, n, Added(c, Land(c), p), [kind |-> "stash", is |-> p, meant |-> p])
  /\ UNCHANGED <<live, sealed, proto, serves, con, again, classes>>

\* ... the default mode, and undef, where there is no "new": class_bind.
InstallClass(c, n, p) ==
  /\ Installing(c, p) /\ Can[p] = None
  /\ classes' = classes \cup {p}
  /\ BoundTo(c, n, Added(c, Land(c), p), [kind |-> "stash", is |-> p, meant |-> p])
  /\ UNCHANGED <<live, sealed, proto, serves, con, again>>

\* ... mode -1: package_bind.
InstallIndirect(c, n, p) ==
  /\ Installing(c, p)
  /\ BoundTo(c, n, Added(c, Land(c), p), [kind |-> "proxy", is |-> p, meant |-> p])
  /\ UNCHANGED <<live, sealed, proto, serves, con, again, classes>>

\* A name is unbound, and a sub that nothing refers to loses its shell.
Unbind(c, n) ==
  /\ c \in live /\ bound[c][n] # None
  /\ bound' = [bound EXCEPT ![c][n] = None]
  /\ UNCHANGED <<live, list, sealed, proto, serves, con, again, classes, tinc, tweaks, gone>>

Collect(c, k) ==
  /\ c \in live /\ serves[c][k] # None
  /\ \A p \in Packages : con[c][p] # k
  /\ \A n \in Names : bound[c][n] # None => bound[c][n].is # k
  /\ proto' = [proto EXCEPT ![c][k] = None] /\ serves' = [serves EXCEPT ![c][k] = None]
  /\ UNCHANGED <<live, list, sealed, con, again, bound, classes, tinc, tweaks, gone>>

DropContext(c) ==
  /\ c \in live /\ live' = live \ {c}
  /\ UNCHANGED <<list, sealed, proto, serves, con, again, bound, classes, tinc, tweaks, gone>>

CtlNext ==
  \E c \in Contexts :
    \/ Secure(c) \/ DropContext(c)
    \/ \E p \in Packages : AddPackage(c, p)
    \/ \E p \in Packages, k \in Constructors : SetConstructor(c, p, k)
    \/ \E n \in Names, p \in Packages :
         \/ \E k \in Constructors : InstallConstructor(c, n, p, k)
         \/ InstallClass(c, n, p) \/ InstallIndirect(c, n, p)
    \/ \E n \in Names : Unbind(c, n)
    \/ \E k \in Constructors : Collect(c, k)

CtlSpec == CtlInit /\ [][CtlNext]_ctlVars

-----------------------------------------------------------------------------
(* What a name does.                                                       *)

\* perlsub_construct: the package whose constructor "new name()" calls.
Builds(c, n) == serves[c][bound[c][n].is]

\* perlsub_call: the package that "name.method()" passes as the class, None in
\* a plain call of a function.
Class(c, n) ==
  LET b == bound[c][n]
  IN  IF b.kind = "sub" THEN proto[c][b.is]
      ELSE IF b.kind = "stash" /\ b.is \in classes THEN b.is
      ELSE None

\* The package that a sub constructs objects of is the only one that has it.
Alone(c, p) == c \notin again /\ \A q \in Packages : con[c][q] = con[c][p] => q = p

\* A constructor makes objects of the package it was installed with, and calls
\* its methods as those of that class (Controller.pm:437-455), a class calls
\* its methods as its own (459-469), and indirectly they are plain functions
\* (492-493), whatever else was installed, has failed, or was collected.  It
\* does not hold of a constructor that several packages have.
BoundRight ==
  \A c \in live, n \in Names : bound[c][n] # None =>
    LET b == bound[c][n]
    IN  /\ b.kind = "sub" /\ Alone(c, b.meant) =>
             Builds(c, n) = b.meant /\ Class(c, n) = b.meant
        /\ b.kind = "stash" => Class(c, n) = b.meant
        /\ b.kind = "proxy" => Class(c, n) = None

\* The Stash that a lookup gets to from x after i steps.
Walk(c, x, i) ==
  LET at[j \in 0 .. i] == IF j = 0 THEN x
                          ELSE IF at[j - 1] = None THEN None ELSE proto[c][at[j - 1]]
  IN  at[i]

\* A lookup of a method that is nowhere comes to an end: the prototypes that
\* perlsub_as_constructor strings together never form a ring, whatever subs
\* packages share (PJS_PerlSub.c:143-146).  It does not hold when a Proxy gets
\* a second constructor, or the same one again.
ChainEnds ==
  \A c \in live \ again, x \in Packages \cup Constructors :
    Walk(c, x, Cardinality(Packages) + 1) = None

\* "When you use install to bind a perl module into JavaScript land, a Tweaks
\* file will be searched, and evaluated if found" (Tweaks.pod:19-20): the
\* objects of a package that a name was bound to see its tweaks.
Tweaks ==
  \A c \in live, n \in Names : bound[c][n] # None /\ bound[c][n].meant \in Tweaked =>
    <<bound[c][n].meant, bound[c][n].meant>> \in tweaks[c]

=============================================================================
