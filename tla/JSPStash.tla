----------------------------- MODULE JSPStash -----------------------------
(***************************************************************************)
(* A Perl package and the Stash objects that show it to the scripts of     *)
(* several contexts (PJS_PerlPackage.c, JSP::Controller, JSP::Stash).      *)
(* A Stash has own properties: the engine asks Perl when it does not know  *)
(* one, and keeps the answer.  A property `$x` goes to Perl's variable     *)
(* every time it is read or written; a new property with a function of a   *)
(* script becomes a Perl sub; both only while $_allow_js_export is true.   *)
(***************************************************************************)
EXTENDS JSPContexts, Integers, FiniteSets

CONSTANTS
  Scalars,    \* names of variables: properties with the sigil $
  Subs,       \* names of subroutines: plain properties, or with the sigil &
  Values,     \* what a variable may hold, next to undef
  PerlSubs,   \* subroutines written in Perl
  Functions,  \* functions written in JavaScript, in each context
  Programs,   \* bound: sets of properties that are in use together
  Undefined   \* undef and undefined; None is that there is no such symbol

VARIABLES
  used,     \* the properties in use
  scalar,   \* the package's variables
  sub,      \* the package's subs
  super,    \* the subs of the package it inherits from
  allow,    \* $_allow_js_export
  own,      \* the own properties of the Stash in each context
  shown,    \* the contexts that have a Stash of it
  who       \* who made the last step

vars == <<used, live, scalar, sub, super, allow, own, shown, who>>

\* The functions of scripts, and the Perl sub that calls one.
Script == [cx: Contexts, function: Functions]
Closure(g) == [calls |-> g]

\* The sigils @ and % are treated as & is.
Sigils == {"", "&"}
Props == Scalars \cup (Subs \X Sigils)

ASSUME StashAssumption ==
  /\ Programs \subseteq SUBSET Props
  /\ Undefined \notin Values /\ None \notin Values \cup PerlSubs \cup {Undefined}
  /\ Scalars \cap Subs = {} /\ PerlSubs \cap Script = {}

\* The subs of Perl: some were made for a function of a script, to call it.
Codes == PerlSubs \cup {Closure(g) : g \in Script}
Data == Values \cup {Undefined}

\* The own properties of a Stash: a value for each property it knows.
Known == UNION {[P -> Data \cup Codes \cup Script] : P \in SUBSET Props}

TypeOK ==
  /\ live \subseteq Contexts /\ shown \subseteq live
  /\ scalar \in [Scalars -> Data \cup {None}]
  /\ sub \in [Subs -> Codes \cup {None}] /\ super \in [Subs -> PerlSubs \cup {None}]
  /\ own \in [Contexts -> Known] /\ \A c \in Contexts \ shown : own[c] = << >>
  /\ allow \in BOOLEAN
  /\ used \in Programs
  /\ who \in {"lookup", "script", "declaration", "properties", "perl"}

-----------------------------------------------------------------------------
(* The hooks.                                                              *)

Put(f, k, v) == [x \in DOMAIN f \cup {k} |-> IF x = k THEN v ELSE f[x]]
Without(f, k) == [x \in DOMAIN f \ {k} |-> f[x]]

\* A fault: only what is inherited is looked for.
FoundInherited(p) == super[p[1]]

\* perlpackage_resolve: get_cv for a name with a sigil, gv_fetchmeth for others.
Found(p) ==
  IF p[2] = "" /\ sub[p[1]] = None THEN super[p[1]] ELSE sub[p[1]]

\* A fault: a property is defined whatever was found.
ResolvedAll(o, p, declaring) ==
  IF p \in DOMAIN o THEN o ELSE Put(o, p, IF p \in Scalars THEN Undefined ELSE Found(p))

\* The own properties o after a lookup of p: a variable is only made known.
Resolved(o, p, declaring) ==
  IF p \in DOMAIN o THEN o
  ELSE IF p \in Scalars
  THEN IF scalar[p] # None \/ declaring THEN Put(o, p, Undefined) ELSE o
  ELSE IF Found(p) # None THEN Put(o, p, Found(p)) ELSE o

\* perlpackage_get over the slot of p.
Fetched(o, p) ==
  IF p \in Scalars /\ scalar[p] # None THEN scalar[p]
  ELSE IF p \in DOMAIN o THEN o[p] ELSE Undefined

\* A fault: functions go to Perl whatever __export__ says.
ExportsAlways(may, v) == v \in Script

\* Whether the value of a new property becomes a sub: a PerlSub turns into its
\* Perl sub again, no JSP::Object, and plain data is none either.
Exports(may, v) == may /\ v \in Script

\* A fault: subs that come from Perl are bound as well.
AddsAnything(p, v, may) ==
  IF may /\ p \notin Scalars /\ v # Undefined
  THEN [sub EXCEPT ![p[1]] = IF v \in Script THEN Closure(v) ELSE v]
  ELSE sub

\* perlpackage_add, with __bind_to_stash: Perl's subs after p has become an own
\* property with the value v, while __export__ is may.
Adds(p, v, may) ==
  IF p \notin Scalars /\ Exports(may, v) THEN [sub EXCEPT ![p[1]] = Closure(v)] ELSE sub

\* The hook runs for what a lookup of p adds to the own properties o.
LookupAdds(o, p, may) ==
  IF p \in DOMAIN o \/ p \in Scalars \/ Found(p) = None THEN sub ELSE Adds(p, Found(p), may)

\* Assignment in context c while __export__ is may: the engine looks p up, adds
\* it if it is not there, and calls the setter.
Assigned(c, p, v, may) ==
  LET o == Resolved(own[c], p, FALSE)
  IN  /\ IF p \in Scalars
         THEN /\ scalar' = IF may THEN [scalar EXCEPT ![p] = v] ELSE scalar
              /\ UNCHANGED sub
         ELSE /\ sub' = IF p \in DOMAIN o THEN LookupAdds(own[c], p, may) ELSE Adds(p, v, may)
              /\ UNCHANGED scalar
      /\ own' = [own EXCEPT ![c] = Put(o, p, v)]
      /\ UNCHANGED <<used, live, super, allow, shown>>

\* What may be assigned to p in context c.
Assignable(c, p) ==
  IF p \in Scalars THEN Data ELSE PerlSubs \cup [cx: {c}, function: Functions]

-----------------------------------------------------------------------------
Init ==
  /\ live = Contexts /\ shown = {}
  /\ scalar \in [Scalars -> Values \cup {None}]
  /\ sub \in [Subs -> PerlSubs \cup {None}] /\ super \in [Subs -> PerlSubs \cup {None}]
  /\ allow = FALSE /\ who = "perl" /\ used \in Programs
  /\ own = [c \in Contexts |-> << >>]

\* pkg.p in a script
Get(c, p) ==
  /\ c \in shown /\ who' = "lookup"
  /\ LET o == Resolved(own[c], p, FALSE)
     IN  own' = [own EXCEPT ![c] = IF p \in DOMAIN o THEN Put(o, p, Fetched(o, p)) ELSE o]
  /\ sub' = LookupAdds(own[c], p, allow)
  /\ UNCHANGED <<used, live, scalar, super, allow, shown>>

\* pkg.p = v, or $stash->{p} = v
Set(c, p, v) == c \in shown /\ who' = "script" /\ Assigned(c, p, v, allow)

\* $stash->add_properties(p => v), with $_allow_js_export local.
AddProperties(c, p, v) == c \in shown /\ who' = "properties" /\ Assigned(c, p, v, FALSE)

\* var p, in a script that was evaluated in the Stash
Declare(c, p) ==
  /\ c \in shown /\ who' = "lookup"
  /\ LET o == Resolved(own[c], p, TRUE)
     IN  own' = [own EXCEPT ![c] = IF p \in DOMAIN o THEN o ELSE Put(o, p, Undefined)]
  /\ sub' = LookupAdds(own[c], p, allow)
  /\ UNCHANGED <<used, live, scalar, super, allow, shown>>

\* function n() {...} there: the engine defines the property, old or new, and
\* so calls the hook.
DeclareFunction(c, n, g) ==
  LET p == <<n, "">>
      v == [cx |-> c, function |-> g]
  IN  /\ c \in shown /\ who' = "declaration"
      /\ sub' = Adds(p, v, allow)
      /\ own' = [own EXCEPT ![c] = Put(own[c], p, v)]
      /\ UNCHANGED <<used, live, scalar, super, allow, shown>>

\* delete pkg.p, or delete $stash->{p}; there is no hook.
Delete(c, p) ==
  /\ c \in shown /\ who' = "script" /\ own' = [own EXCEPT ![c] = Without(own[c], p)]
  /\ UNCHANGED <<used, live, scalar, sub, super, allow, shown>>

-----------------------------------------------------------------------------
(* Perl.                                                                   *)

ByPerl == who' = "perl"

\* PJS_GetPackageObject: $ctl->add, $ctl->install, or an object of the package
\* enters.
Add(c) ==
  /\ c \in live /\ shown' = shown \cup {c}
  /\ ByPerl /\ UNCHANGED <<used, live, scalar, sub, super, allow, own>>

\* A context goes; the subs that its scripts defined stay.
DestroyContext(c) ==
  /\ c \in live /\ live' = live \ {c} /\ shown' = shown \ {c}
  /\ own' = [own EXCEPT ![c] = << >>]
  /\ ByPerl /\ UNCHANGED <<used, scalar, sub, super, allow>>

\* $stash->allow_from_js
AllowFromJS ==
  /\ allow' = ~allow
  /\ ByPerl /\ UNCHANGED <<used, live, scalar, sub, super, own, shown>>

\* $x = v
PerlAssign(x, v) ==
  /\ scalar' = [scalar EXCEPT ![x] = v]
  /\ ByPerl /\ UNCHANGED <<used, live, sub, super, allow, own, shown>>

\* *n = sub {...}, undef *n, here or in the package above
PerlDefine(n, s) ==
  /\ \/ sub' = [sub EXCEPT ![n] = s] /\ UNCHANGED super
     \/ super' = [super EXCEPT ![n] = s] /\ UNCHANGED sub
  /\ ByPerl /\ UNCHANGED <<used, live, scalar, allow, own, shown>>

Next ==
  \/ \E c \in Contexts :
       \/ \E p \in used : \/ Get(c, p) \/ Declare(c, p) \/ Delete(c, p)
                          \/ \E v \in Assignable(c, p) : Set(c, p, v) \/ AddProperties(c, p, v)
       \/ \E n \in Subs, g \in Functions : <<n, "">> \in used /\ DeclareFunction(c, n, g)
       \/ Add(c) \/ DestroyContext(c)
  \/ AllowFromJS
  \/ \E x \in used \cap Scalars, v \in Data : PerlAssign(x, v)
  \/ \E n \in {p[1] : p \in used \ Scalars}, s \in PerlSubs \cup {None} : PerlDefine(n, s)

Spec == Init /\ [][Next]_vars

-----------------------------------------------------------------------------
(* Properties.                                                             *)

\* Whatever JavaScript does to a Stash changes nothing in Perl while changes
\* are not allowed; looking names up and add_properties never do, allowed or
\* not, though the engine calls the add hook for every property that appears,
\* those that the lookup itself defines included (perlpackage_add,
\* perlpackage_set, perlpackage_resolve).
Vetoed ==
  [][(who' \in {"script", "declaration"} /\ ~allow) \/ who' \in {"lookup", "properties"}
       => UNCHANGED <<scalar, sub>>]_vars

\* Scripts that look up, delete and assign names, in whatever order and
\* context, give Perl new subs and never replace one it has, written in Perl
\* or in another context; only a function declaration does
\* (perlpackage_resolve runs before perlpackage_add).
NeverReplaced ==
  [][who' \in {"lookup", "script"} => \A n \in Subs : sub[n] # None => sub'[n] = sub[n]]_vars
=============================================================================
