-------------------------- MODULE JSPPackageProofs --------------------------
(***************************************************************************)
(* Proofs about Perl packages in JavaScript: about JSPStash, types, and    *)
(* what scripts cannot do to a package; about JSPController, types, what   *)
(* the names that packages are bound to stand for, and that the chains of  *)
(* prototypes come to an end.                                              *)
(***************************************************************************)
EXTENDS JSPStash, JSPController, FiniteSetTheorems, SequenceTheorems,
        WellFoundedInduction, TLAPS

-----------------------------------------------------------------------------
(* Own properties.                                                         *)

\* What the slot of an own property may hold.
Slots == Data \cup Codes \cup Script

LEMMA KnownFacts ==
  ASSUME NEW o
  PROVE  o \in Known <=> /\ DOMAIN o \in SUBSET Props
                         /\ o \in [DOMAIN o -> Slots]
<1>1. ASSUME o \in Known PROVE DOMAIN o \in SUBSET Props /\ o \in [DOMAIN o -> Slots]
  <2>1. PICK P \in SUBSET Props : o \in [P -> Slots]
    BY <1>1 DEF Known, Slots
  <2>. QED BY <2>1
<1>2. ASSUME DOMAIN o \in SUBSET Props, o \in [DOMAIN o -> Slots] PROVE o \in Known
  BY <1>2 DEF Known, Slots
<1>. QED BY <1>1, <1>2

LEMMA NoneKnown == << >> \in Known
<1>1. << >> \in [{} -> Slots]
  OBVIOUS
<1>. QED BY <1>1 DEF Known, Slots

LEMMA PutKnown ==
  ASSUME NEW o \in Known, NEW p \in Props, NEW v \in Slots
  PROVE  Put(o, p, v) \in Known /\ p \in DOMAIN Put(o, p, v) /\ Put(o, p, v)[p] = v
<1>1. DOMAIN o \in SUBSET Props /\ o \in [DOMAIN o -> Slots]
  BY KnownFacts
<1>2. Put(o, p, v) \in [DOMAIN o \cup {p} -> Slots]
  BY <1>1 DEF Put
<1>. QED BY <1>1, <1>2 DEF Known, Slots, Put

LEMMA WithoutKnown ==
  ASSUME NEW o \in Known, NEW p
  PROVE  Without(o, p) \in Known
<1>1. DOMAIN o \in SUBSET Props /\ o \in [DOMAIN o -> Slots]
  BY KnownFacts
<1>2. Without(o, p) \in [DOMAIN o \ {p} -> Slots]
  BY <1>1 DEF Without
<1>. QED BY <1>1, <1>2 DEF Known, Slots

\* What a lookup finds in Perl is a sub.
LEMMA FoundFacts ==
  ASSUME TypeOK, NEW p \in Props, p \notin Scalars
  PROVE  /\ p[1] \in Subs /\ Found(p) \in Codes \cup {None}
         /\ Found(p) = None => sub[p[1]] = None
<1>1. p \in Subs \X Sigils
  BY DEF Props
<1>2. p[1] \in Subs
  BY <1>1
<1>3. super[p[1]] \in Codes \cup {None} /\ sub[p[1]] \in Codes \cup {None}
  BY <1>2 DEF TypeOK, Codes
<1>. QED BY <1>2, <1>3 DEF Found

\* After a lookup the Stash has the property if Perl has a sub of the name.
LEMMA ResolvedFacts ==
  ASSUME TypeOK, NEW o \in Known, NEW p \in Props, NEW b \in BOOLEAN
  PROVE  /\ Resolved(o, p, b) \in Known
         /\ p \notin Scalars /\ p \notin DOMAIN Resolved(o, p, b) => p[1] \in Subs /\ sub[p[1]] = None
<1>1. CASE p \in DOMAIN o
  BY <1>1 DEF Resolved
<1>2. CASE p \notin DOMAIN o /\ p \in Scalars
  <2>1. Put(o, p, Undefined) \in Known
    BY PutKnown DEF Data, Slots
  <2>. QED BY <1>2, <2>1 DEF Resolved
<1>3. CASE p \notin DOMAIN o /\ p \notin Scalars
  <2>1. p[1] \in Subs /\ Found(p) \in Codes \cup {None} /\ (Found(p) = None => sub[p[1]] = None)
    BY <1>3, FoundFacts
  <2>2. CASE Found(p) # None
    <3>1. Put(o, p, Found(p)) \in Known /\ p \in DOMAIN Put(o, p, Found(p))
      BY <2>1, <2>2, PutKnown DEF Slots
    <3>. QED BY <1>3, <2>2, <3>1 DEF Resolved
  <2>3. CASE Found(p) = None
    BY <1>3, <2>1, <2>3 DEF Resolved
  <2>. QED BY <2>2, <2>3
<1>. QED BY <1>1, <1>2, <1>3

LEMMA FetchedFacts ==
  ASSUME TypeOK, NEW o \in Known, NEW p \in Props
  PROVE  Fetched(o, p) \in Slots
<1>1. \A q \in DOMAIN o : o[q] \in Slots
  BY KnownFacts
<1>2. p \in Scalars /\ scalar[p] # None => scalar[p] \in Data
  BY DEF TypeOK
<1>. QED BY <1>1, <1>2 DEF Fetched, Data, Slots

-----------------------------------------------------------------------------
(* The add hook.                                                           *)

\* What came from Perl is not taken for a function of a script.
LEMMA NoScript == ASSUME NEW v \in Codes PROVE v \notin Script
<1>1. ASSUME NEW g \in Script PROVE Closure(g) \notin Script
  <2>1. DOMAIN Closure(g) = {"calls"} /\ \A h \in Script : DOMAIN h = {"cx", "function"}
    BY DEF Closure, Script
  <2>. QED BY <2>1
<1>. QED BY <1>1, StashAssumption DEF Codes

\* A new property gives Perl a sub only if changes are allowed, and no other
\* name than its own.
LEMMA AddsFacts ==
  ASSUME TypeOK, NEW p \in Props, NEW v, NEW may \in BOOLEAN
  PROVE  /\ Adds(p, v, may) \in [Subs -> Codes \cup {None}]
         /\ ~may \/ v \notin Script => Adds(p, v, may) = sub
         /\ p \notin Scalars /\ sub[p[1]] = None =>
              \A n \in Subs : sub[n] # None => Adds(p, v, may)[n] = sub[n]
<1>1. sub \in [Subs -> Codes \cup {None}]
  BY DEF TypeOK
<1>2. CASE p \notin Scalars /\ Exports(may, v)
  <2>1. may /\ v \in Script /\ Closure(v) \in Codes
    BY <1>2 DEF Exports, Codes
  <2>2. Adds(p, v, may) = [sub EXCEPT ![p[1]] = Closure(v)]
    BY <1>2 DEF Adds
  <2>. QED BY <1>1, <2>1, <2>2
<1>3. CASE ~(p \notin Scalars /\ Exports(may, v))
  <2>1. Adds(p, v, may) = sub
    BY <1>3 DEF Adds
  <2>. QED BY <1>1, <2>1
<1>. QED BY <1>2, <1>3

\* What a lookup defines came from Perl, and the hook lets it be.
LEMMA LookupAddsNothing ==
  ASSUME TypeOK, NEW o, NEW p \in Props, NEW may \in BOOLEAN
  PROVE  LookupAdds(o, p, may) = sub
<1>1. CASE p \in DOMAIN o \/ p \in Scalars \/ Found(p) = None
  BY <1>1 DEF LookupAdds
<1>2. CASE ~(p \in DOMAIN o \/ p \in Scalars \/ Found(p) = None)
  <2>1. Found(p) \notin Script
    BY <1>2, FoundFacts, NoScript
  <2>2. Adds(p, Found(p), may) = sub
    BY <2>1, AddsFacts
  <2>. QED BY <1>2, <2>2 DEF LookupAdds
<1>. QED BY <1>1, <1>2

-----------------------------------------------------------------------------
(* Assignment.                                                             *)

\* Everything but the Stash of c and the tables of Perl is as before.
LEMMA AssignedFacts ==
  ASSUME TypeOK, NEW c \in Contexts, c \in shown, NEW p \in Props, NEW v \in Assignable(c, p),
         NEW may \in BOOLEAN, Assigned(c, p, v, may)
  PROVE  /\ scalar' \in [Scalars -> Data \cup {None}] /\ sub' \in [Subs -> Codes \cup {None}]
         /\ own' = [own EXCEPT ![c] = own'[c]] /\ own'[c] \in Known
         /\ ~may => UNCHANGED <<scalar, sub>>
         /\ \A n \in Subs : sub[n] # None => sub'[n] = sub[n]
         /\ UNCHANGED <<used, live, super, allow, shown>>
<1> DEFINE o == Resolved(own[c], p, FALSE)
<1>1. own \in [Contexts -> Known] /\ own[c] \in Known
  BY DEF TypeOK
<1>2. o \in Known /\ (p \notin Scalars /\ p \notin DOMAIN o => p[1] \in Subs /\ sub[p[1]] = None)
  BY <1>1, ResolvedFacts
<1>3. v \in Slots /\ (p \in Scalars => v \in Data)
  BY DEF Assignable, Codes, Script, Slots
<1> HIDE DEF o
<1>4. own' = [own EXCEPT ![c] = Put(o, p, v)] /\ Put(o, p, v) \in Known
  BY <1>2, <1>3, PutKnown DEF Assigned, o
<1>5. own' = [own EXCEPT ![c] = own'[c]] /\ own'[c] \in Known
  BY <1>1, <1>4
<1>6. UNCHANGED <<used, live, super, allow, shown>>
  BY DEF Assigned
<1>7. CASE p \in Scalars
  <2>1. scalar' = (IF may THEN [scalar EXCEPT ![p] = v] ELSE scalar) /\ sub' = sub
    BY <1>7 DEF Assigned
  <2>. QED BY <1>3, <1>5, <1>6, <1>7, <2>1 DEF TypeOK
<1>8. CASE p \notin Scalars
  <2>1. /\ scalar' = scalar
        /\ sub' = IF p \in DOMAIN o THEN LookupAdds(own[c], p, may) ELSE Adds(p, v, may)
    BY <1>8 DEF Assigned, o
  <2>2. CASE p \notin DOMAIN o
    <3>1. p[1] \in Subs /\ sub[p[1]] = None
      BY <1>2, <1>8, <2>2
    <3>2. /\ sub' \in [Subs -> Codes \cup {None}] /\ (~may => sub' = sub)
          /\ \A n \in Subs : sub[n] # None => sub'[n] = sub[n]
      BY <1>8, <2>1, <2>2, <3>1, AddsFacts
    <3>. QED BY <1>5, <1>6, <2>1, <3>2 DEF TypeOK
  <2>3. CASE p \in DOMAIN o
    <3>1. sub' = sub
      BY <2>1, <2>3, LookupAddsNothing
    <3>. QED BY <1>5, <1>6, <2>1, <3>1 DEF TypeOK
  <2>. QED BY <2>2, <2>3
<1>. QED BY <1>7, <1>8

-----------------------------------------------------------------------------
(* What each kind of step may do.                                          *)

LEMMA UsedFacts == ASSUME TypeOK, NEW p \in used PROVE p \in Props
BY StashAssumption DEF TypeOK

\* A step that gives the Stash of a shown context other properties.
LEMMA OwnTypes ==
  ASSUME TypeOK, NEW c \in shown, NEW o \in Known, own' = [own EXCEPT ![c] = o],
         scalar' \in [Scalars -> Data \cup {None}], sub' \in [Subs -> Codes \cup {None}],
         UNCHANGED <<used, live, super, allow, shown>>,
         who' \in {"lookup", "script", "declaration", "properties", "perl"}
  PROVE  TypeOK'
<1>1. own \in [Contexts -> Known] /\ c \in Contexts
  BY DEF TypeOK
<1>2. own' \in [Contexts -> Known] /\ \A d \in Contexts : d # c => own'[d] = own[d]
  BY <1>1
<1>. QED BY <1>2 DEF TypeOK

LEMMA InitTypes == Init => TypeOK
<1> SUFFICES ASSUME Init PROVE TypeOK
  OBVIOUS
<1>1. own \in [Contexts -> Known] /\ \A c \in Contexts : own[c] = << >>
  BY NoneKnown DEF Init
<1>. QED BY <1>1 DEF Init, TypeOK, Data, Codes

\* What a step of each operation does: a lemma for all the properties.
Step ==
  /\ TypeOK'
  /\ (who' \in {"script", "declaration"} /\ ~allow) \/ who' \in {"lookup", "properties"}
       => UNCHANGED <<scalar, sub>>
  /\ who' \in {"lookup", "script"} => \A n \in Subs : sub[n] # None => sub'[n] = sub[n]

LEMMA GetStep == ASSUME TypeOK, NEW c \in Contexts, NEW p \in used, Get(c, p) PROVE Step
<1> DEFINE o == Resolved(own[c], p, FALSE)
           q == IF p \in DOMAIN o THEN Put(o, p, Fetched(o, p)) ELSE o
<1>1. TypeOK /\ p \in Props /\ own[c] \in Known /\ c \in shown /\ allow \in BOOLEAN
  BY UsedFacts DEF TypeOK, Get
<1>2. o \in Known
  BY <1>1, ResolvedFacts
<1>3. sub' = sub
  BY <1>1, LookupAddsNothing DEF Get
<1>4. /\ own' = [own EXCEPT ![c] = q] /\ who' = "lookup"
      /\ UNCHANGED <<used, live, scalar, super, allow, shown>>
  BY DEF Get
<1> HIDE DEF o
<1>5. q \in Known
  BY <1>1, <1>2, FetchedFacts, PutKnown
<1> HIDE DEF q
<1>6. TypeOK'
  <2>1. scalar' \in [Scalars -> Data \cup {None}] /\ sub' \in [Subs -> Codes \cup {None}]
    BY <1>1, <1>3, <1>4 DEF TypeOK
  <2>. QED BY <1>1, <1>4, <1>5, <2>1, OwnTypes
<1>. QED BY <1>3, <1>4, <1>6 DEF Step

LEMMA AssignStep ==
  ASSUME TypeOK, NEW c \in Contexts, NEW p \in used, NEW v \in Assignable(c, p),
         Set(c, p, v) \/ AddProperties(c, p, v)
  PROVE  Step
<1>1. TypeOK /\ p \in Props /\ c \in shown /\ allow \in BOOLEAN
  BY UsedFacts DEF TypeOK, Set, AddProperties
<1>2. CASE Set(c, p, v)
  <2>1. Assigned(c, p, v, allow) /\ who' = "script"
    BY <1>2 DEF Set
  <2>2. /\ scalar' \in [Scalars -> Data \cup {None}] /\ sub' \in [Subs -> Codes \cup {None}]
        /\ own' = [own EXCEPT ![c] = own'[c]] /\ own'[c] \in Known
        /\ ~allow => UNCHANGED <<scalar, sub>>
        /\ \A n \in Subs : sub[n] # None => sub'[n] = sub[n]
        /\ UNCHANGED <<used, live, super, allow, shown>>
    BY <1>1, <2>1, AssignedFacts
  <2>3. TypeOK'
    BY <1>1, <2>1, <2>2, OwnTypes
  <2>. QED BY <2>1, <2>2, <2>3 DEF Step
<1>3. CASE AddProperties(c, p, v)
  <2>1. Assigned(c, p, v, FALSE) /\ who' = "properties"
    BY <1>3 DEF AddProperties
  <2>2. /\ scalar' \in [Scalars -> Data \cup {None}] /\ sub' \in [Subs -> Codes \cup {None}]
        /\ own' = [own EXCEPT ![c] = own'[c]] /\ own'[c] \in Known
        /\ UNCHANGED <<scalar, sub>>
        /\ UNCHANGED <<used, live, super, allow, shown>>
    BY <1>1, <2>1, AssignedFacts
  <2>3. TypeOK'
    BY <1>1, <2>1, <2>2, OwnTypes
  <2>. QED BY <2>1, <2>2, <2>3 DEF Step
<1>. QED BY <1>2, <1>3

LEMMA DeclareStep == ASSUME TypeOK, NEW c \in Contexts, NEW p \in used, Declare(c, p) PROVE Step
<1> DEFINE o == Resolved(own[c], p, TRUE)
           q == IF p \in DOMAIN o THEN o ELSE Put(o, p, Undefined)
<1>1. TypeOK /\ p \in Props /\ own[c] \in Known /\ c \in shown /\ allow \in BOOLEAN
  BY UsedFacts DEF TypeOK, Declare
<1>2. o \in Known
  BY <1>1, ResolvedFacts
<1>3. sub' = sub
  BY <1>1, LookupAddsNothing DEF Declare
<1>4. /\ own' = [own EXCEPT ![c] = q] /\ who' = "lookup"
      /\ UNCHANGED <<used, live, scalar, super, allow, shown>>
  BY DEF Declare
<1> HIDE DEF o
<1>5. q \in Known
  BY <1>1, <1>2, PutKnown DEF Data, Slots
<1> HIDE DEF q
<1>6. TypeOK'
  <2>1. scalar' \in [Scalars -> Data \cup {None}] /\ sub' \in [Subs -> Codes \cup {None}]
    BY <1>1, <1>3, <1>4 DEF TypeOK
  <2>. QED BY <1>1, <1>4, <1>5, <2>1, OwnTypes
<1>. QED BY <1>3, <1>4, <1>6 DEF Step

LEMMA DeclareFunctionStep ==
  ASSUME TypeOK, NEW c \in Contexts, NEW n \in Subs, NEW g \in Functions, DeclareFunction(c, n, g)
  PROVE  Step
<1> DEFINE p == <<n, "">>
           v == [cx |-> c, function |-> g]
<1>1. TypeOK /\ p \in Props /\ own[c] \in Known /\ c \in shown /\ v \in Slots /\ allow \in BOOLEAN
  BY DEF TypeOK, DeclareFunction, Props, Sigils, Slots, Script
<1>2. /\ own' = [own EXCEPT ![c] = Put(own[c], p, v)] /\ who' = "declaration"
      /\ sub' = Adds(p, v, allow)
      /\ UNCHANGED <<used, live, scalar, super, allow, shown>>
  BY DEF DeclareFunction
<1>3. sub' \in [Subs -> Codes \cup {None}] /\ (~allow => sub' = sub)
  BY <1>1, <1>2, AddsFacts
<1> HIDE DEF p, v
<1>4. Put(own[c], p, v) \in Known
  BY <1>1, PutKnown
<1>5. TypeOK'
  <2>1. scalar' \in [Scalars -> Data \cup {None}] /\ sub' \in [Subs -> Codes \cup {None}]
    BY <1>1, <1>2, <1>3 DEF TypeOK
  <2>. QED BY <1>1, <1>2, <1>4, <2>1, OwnTypes
<1>. QED BY <1>2, <1>3, <1>5 DEF Step

LEMMA DeleteStep == ASSUME TypeOK, NEW c \in Contexts, NEW p \in used, Delete(c, p) PROVE Step
<1>1. TypeOK /\ own[c] \in Known /\ c \in shown
  BY DEF TypeOK, Delete
<1>2. Without(own[c], p) \in Known
  BY <1>1, WithoutKnown
<1>3. /\ own' = [own EXCEPT ![c] = Without(own[c], p)] /\ who' = "script"
      /\ UNCHANGED <<used, live, scalar, sub, super, allow, shown>>
  BY DEF Delete
<1>4. TypeOK'
  <2>1. scalar' \in [Scalars -> Data \cup {None}] /\ sub' \in [Subs -> Codes \cup {None}]
    BY <1>1, <1>3 DEF TypeOK
  <2>. QED BY <1>1, <1>2, <1>3, <2>1, OwnTypes
<1>. QED BY <1>3, <1>4 DEF Step

LEMMA PerlStep ==
  ASSUME TypeOK,
         \/ \E c \in Contexts : Add(c) \/ DestroyContext(c)
         \/ AllowFromJS
         \/ \E x \in used \cap Scalars, v \in Data : PerlAssign(x, v)
         \/ \E n \in {p[1] : p \in used \ Scalars}, s \in PerlSubs \cup {None} : PerlDefine(n, s)
  PROVE  Step
<1>1. TypeOK /\ own \in [Contexts -> Known]
  BY DEF TypeOK
<1>2. ASSUME NEW c \in Contexts, Add(c) PROVE TypeOK'
  BY <1>1, <1>2 DEF Add, ByPerl, TypeOK
<1>3. ASSUME NEW c \in Contexts, DestroyContext(c) PROVE TypeOK'
  <2>1. /\ own' \in [Contexts -> Known] /\ own'[c] = << >>
        /\ \A d \in Contexts : d # c => own'[d] = own[d]
    BY <1>1, <1>3, NoneKnown DEF DestroyContext
  <2>. QED BY <1>1, <1>3, <2>1 DEF DestroyContext, ByPerl, TypeOK
<1>4. ASSUME AllowFromJS PROVE TypeOK'
  BY <1>1, <1>4 DEF AllowFromJS, ByPerl, TypeOK
<1>5. ASSUME NEW x \in used \cap Scalars, NEW v \in Data, PerlAssign(x, v) PROVE TypeOK'
  BY <1>1, <1>5 DEF PerlAssign, ByPerl, TypeOK
<1>6. ASSUME NEW n \in {p[1] : p \in used \ Scalars}, NEW s \in PerlSubs \cup {None}, PerlDefine(n, s)
      PROVE  TypeOK'
  <2>1. PICK p \in used \ Scalars : n = p[1]
    OBVIOUS
  <2>2. n \in Subs
    BY <1>1, <2>1, UsedFacts, FoundFacts
  <2>. QED BY <1>1, <1>6, <2>2 DEF PerlDefine, ByPerl, TypeOK, Codes
<1>7. TypeOK'
  BY <1>2, <1>3, <1>4, <1>5, <1>6
<1>8. who' = "perl"
  BY DEF Add, DestroyContext, AllowFromJS, PerlAssign, PerlDefine, ByPerl
<1>. QED BY <1>7, <1>8 DEF Step

LEMMA NextStep == TypeOK /\ [Next]_vars => TypeOK' /\ [Step]_vars
<1> SUFFICES ASSUME TypeOK, [Next]_vars PROVE TypeOK' /\ [Step]_vars
  OBVIOUS
<1>1. CASE UNCHANGED vars
  <2>1. TypeOK'
    BY <1>1 DEF TypeOK, vars
  <2>. QED BY <1>1, <2>1
<1>2. CASE Next
  <2>1. Step
    BY <1>2, GetStep, AssignStep, DeclareStep, DeclareFunctionStep, DeleteStep, PerlStep DEF Next
  <2>. QED BY <2>1 DEF Step
<1>. QED BY <1>1, <1>2

-----------------------------------------------------------------------------
(* Every variable has its type: a Stash has as own properties values of    *)
(* Perl, subs and functions, and none in a context that does not show it;  *)
(* Perl's tables never get the answer "there is none" of a hook.           *)
THEOREM StashTypes == Spec => []TypeOK
BY InitTypes, NextStep, PTL DEF Spec

(* While changes from JavaScript are not allowed nothing a script does, and*)
(* nothing that add_properties does or a lookup defines, allowed or not,   *)
(* changes a variable or a sub of Perl (PJS_PerlPackage.c:38-140 and       *)
(* 177-277, Controller.pm:137-145).                                        *)
THEOREM ChangesAreVetoed == Spec => Vetoed
<1>1. [Step]_vars => [(who' \in {"script", "declaration"} /\ ~allow) \/ who' \in {"lookup", "properties"}
                        => UNCHANGED <<scalar, sub>>]_vars
  BY DEF Step
<1>. QED BY <1>1, InitTypes, NextStep, PTL DEF Spec, Vetoed

(* Lookups and assignments of scripts never replace a sub of Perl, for an  *)
(* assignment looks the name up before it adds it, in any context and after*)
(* any deletion, and what the lookup defines is bound nowhere              *)
(* (PJS_PerlPackage.c:177-277).                                            *)
THEOREM SubsAreNotReplaced == Spec => NeverReplaced
<1>1. [Step]_vars => [who' \in {"lookup", "script"} =>
                        \A n \in Subs : sub[n] # None => sub'[n] = sub[n]]_vars
  BY DEF Step
<1>. QED BY <1>1, InitTypes, NextStep, PTL DEF Spec, NeverReplaced

-----------------------------------------------------------------------------
(* Numbers and steps.                                                      *)

\* A set of natural numbers that is not empty has a least one.
LEMMA Least ==
  ASSUME NEW I, I \subseteq Nat, I # {}
  PROVE  \E i \in I : \A j \in I : i <= j
<1>1. IsWellFoundedOn(OpToRel(<, Nat), Nat)
  BY NatLessThanWellFounded
<1>2. PICK i \in I : \A j \in I : ~ (<<j, i>> \in OpToRel(<, Nat))
  BY <1>1, WFMin
<1>3. \A j \in I : ~ (j < i)
  BY <1>2 DEF OpToRel
<1>4. QED
  BY <1>3

\* What holds in the beginning and is kept by each step holds throughout.
LEMMA Stays ==
  ASSUME NEW T, NEW n \in Nat, NEW a, a[0] \in T,
         \A i \in 1 .. n : a[i - 1] \in T => a[i] \in T
  PROVE  \A i \in 0 .. n : a[i] \in T
<1> DEFINE I == {i \in 0 .. n : a[i] \notin T}
<1>1. SUFFICES ASSUME I # {} PROVE FALSE
  OBVIOUS
<1>2. PICK i \in I : \A j \in I : i <= j
  <2>1. I \subseteq Nat
    OBVIOUS
  <2> HIDE DEF I
  <2>. QED BY <1>1, <2>1, Least
<1>3. i \in 1 .. n
  BY <1>2
<1>4. i - 1 \in 0 .. n /\ i - 1 \notin I
  BY <1>2, <1>3
<1>. QED BY <1>2, <1>3, <1>4

\* a has the values that the steps h lead through from x; there is such an a.
Led(a, x, n, h) == a[0] = x /\ \A i \in 1 .. n : a[i] = h[i][a[i - 1]]

LEMMA Iterates ==
  ASSUME NEW T, NEW x \in T, NEW n \in Nat, NEW h \in [1 .. n -> [T -> T]]
  PROVE  \E a \in [0 .. n -> T] : Led(a, x, n, h)
<1> SUFFICES \E a \in [0 .. n -> T] : a[0] = x /\ \A i \in 1 .. n : a[i] = h[i][a[i - 1]]
  BY DEF Led
<1> DEFINE Leads(m, a) == a[0] = x /\ \A i \in 1 .. m : a[i] = h[i][a[i - 1]]
           Way(m) == \E a \in [0 .. m -> T] : Leads(m, a)
           M == {m \in 0 .. n : Way(m)}
<1>1. 0 \in M
  <2> DEFINE b == [i \in 0 .. 0 |-> x]
  <2>1. b \in [0 .. 0 -> T] /\ Leads(0, b)
    OBVIOUS
  <2>2. Way(0)
    <3> HIDE DEF b, Leads
    <3>. QED BY <2>1
  <2> HIDE DEF Way
  <2>. QED BY <2>2
<1>2. ASSUME NEW m \in 1 .. n, m - 1 \in M PROVE m \in M
  <2>1. PICK a \in [0 .. m - 1 -> T] : Leads(m - 1, a)
    BY <1>2
  <2> DEFINE b == [i \in 0 .. m |-> IF i = m THEN h[m][a[m - 1]] ELSE a[i]]
  <2>2. b \in [0 .. m -> T]
    <3>1. a[m - 1] \in T /\ h[m] \in [T -> T]
      OBVIOUS
    <3>2. \A i \in 0 .. m : i # m => i \in 0 .. m - 1
      OBVIOUS
    <3>. QED BY <3>1, <3>2
  <2>3. b[0] = x
    BY <2>1
  <2>4. \A i \in 1 .. m : b[i] = h[i][b[i - 1]]
    <3>1. b[m] = h[m][b[m - 1]]
      OBVIOUS
    <3>2. \A i \in 1 .. m : i # m => i \in 1 .. m - 1 /\ b[i] = a[i] /\ b[i - 1] = a[i - 1]
      OBVIOUS
    <3>. QED BY <2>1, <3>1, <3>2
  <2>5. Way(m)
    <3>1. Leads(m, b)
      BY <2>3, <2>4
    <3> HIDE DEF b, Leads
    <3>. QED BY <2>2, <3>1
  <2> HIDE DEF Way
  <2>. QED BY <2>5
<1> HIDE DEF Way
<1>3. n \in M
  <2> DEFINE a == [i \in 0 .. n |-> i]
  <2> HIDE DEF M
  <2>1. \A i \in 0 .. n : a[i] \in M
    <3>1. a[0] \in M /\ \A i \in 1 .. n : a[i - 1] \in M => a[i] \in M
      BY <1>1, <1>2
    <3> HIDE DEF a
    <3>. QED BY <3>1, Stays
  <2>. QED BY <2>1
<1>. QED BY <1>3 DEF Way

LEMMA ISAFacts ==
  ASSUME NEW p \in Packages
  PROVE  /\ Len(ISA[p]) \in Nat /\ DOMAIN ISA[p] = 1 .. Len(ISA[p])
         /\ \A i \in DOMAIN ISA[p] : ISA[p][i] \in Packages
<1>1. ISA[p] \in Seq(Packages)
  BY ISAAssumption
<1>. QED BY <1>1, ElementOfSeq

\* What f says of the supers of p leads from one land to another.
Lands(f, c, p) ==
  \A i \in DOMAIN ISA[p], u \in LandSet : Inherited(f, c, p, ISA[p][i], u) \in LandSet

\* Supers goes through the supers one after the other.
LEMMA SupersDef ==
  ASSUME NEW c \in Contexts, NEW p \in Packages, NEW w \in LandSet, NEW f, Lands(f, c, p)
  PROVE  \E a \in [0 .. Len(ISA[p]) -> LandSet] :
           /\ a[0] = w
           /\ \A i \in 1 .. Len(ISA[p]) : a[i] = Inherited(f, c, p, ISA[p][i], a[i - 1])
           /\ Supers(f, c, p, w) = a[Len(ISA[p])]
<1> DEFINE n == Len(ISA[p])
           D(a) == [i \in 0 .. n |-> IF i = 0 THEN w ELSE Inherited(f, c, p, ISA[p][i], a[i - 1])]
           a == CHOOSE a : a = D(a)
           h == [i \in 1 .. n |-> [u \in LandSet |-> Inherited(f, c, p, ISA[p][i], u)]]
<1>1. n \in Nat /\ DOMAIN ISA[p] = 1 .. n
  BY ISAAssumption
<1>2. h \in [1 .. n -> [LandSet -> LandSet]]
  BY <1>1 DEF Lands
<1>3. PICK b \in [0 .. n -> LandSet] : b[0] = w /\ \A i \in 1 .. n : b[i] = h[i][b[i - 1]]
  <2> HIDE DEF h, n
  <2>1. \E b \in [0 .. n -> LandSet] : Led(b, w, n, h)
    BY <1>1, <1>2, Iterates
  <2>. QED BY <2>1 DEF Led
<1>4. b = D(b)
  <2>1. \A i \in 1 .. n : i - 1 \in 0 .. n /\ b[i - 1] \in LandSet
    BY <1>1
  <2>2. \A i \in 1 .. n : b[i] = Inherited(f, c, p, ISA[p][i], b[i - 1])
    <3> HIDE DEF n
    <3>1. \A i \in 1 .. n, u \in LandSet : h[i][u] = Inherited(f, c, p, ISA[p][i], u)
      OBVIOUS
    <3> HIDE DEF h
    <3>. QED BY <1>3, <2>1, <3>1
  <2>3. \A i \in 0 .. n : b[i] = D(b)[i]
    <3> HIDE DEF n
    <3>. QED BY <1>1, <1>3, <2>2
  <2>. QED BY <2>3
<1>5. a = D(a)
  <2> HIDE DEF D
  <2>. QED BY <1>4
<1>6. Supers(f, c, p, w) = a[n]
  BY DEF Supers
<1> HIDE DEF a
<1>7. a[0] = w /\ \A i \in 1 .. n : a[i] = Inherited(f, c, p, ISA[p][i], a[i - 1])
  <2>1. n \in Nat
    BY <1>1
  <2>2. 0 \in 0 .. n /\ \A i \in 1 .. n : i \in 0 .. n /\ i # 0
    BY <2>1
  <2> HIDE DEF n
  <2>. QED BY <1>5, <2>2
<1>8. \A i \in 0 .. n : a[i] \in LandSet
  <2>1. \A i \in 1 .. n : a[i - 1] \in LandSet => a[i] \in LandSet
    BY <1>1, <1>7 DEF Lands
  <2> HIDE DEF n
  <2>. QED BY <1>1, <1>7, <2>1, Stays
<1>9. a \in [0 .. n -> LandSet]
  BY <1>5, <1>8
<1>. QED BY <1>6, <1>7, <1>9

-----------------------------------------------------------------------------
(* What the installation of a package changes.                             *)

\* What happens to what context c has, from w to v: nothing leaves the list, a
\* secured list stays as it is, and only what is listed gets tweaks.
Grows(c, w, v) ==
  /\ v \in LandSet /\ w.list \subseteq v.list
  /\ c \in sealed => v.list = w.list
  /\ \A p, q \in Packages : <<p, q>> \in v.tweaks => <<p, q>> \in w.tweaks \/ p \in v.list

LEMMA LandFacts ==
  ASSUME NEW w \in LandSet
  PROVE  /\ w.list \subseteq Packages /\ w.gone \subseteq Packages
         /\ w.tweaks \subseteq Packages \X Packages /\ w.dead \in BOOLEAN
         /\ w.tinc \in [Packages -> Contexts \cup {"unknown", "none"}]
         /\ \A c : Grows(c, w, w)
BY DEF LandSet, Grows

LEMMA GrowsOn ==
  ASSUME NEW c, NEW u, NEW v, NEW w, Grows(c, u, v), Grows(c, v, w)
  PROVE  Grows(c, u, w)
BY DEF Grows

\* PJS_GetPackageObject does no more than that, nor do the parts of _chktweaks.
LEMMA AddedGrows ==
  ASSUME NEW c, NEW w \in LandSet, NEW p \in Packages
  PROVE  Grows(c, w, Added(c, w, p))
<1>1. CASE Added(c, w, p) = w
  BY <1>1, LandFacts
<1>2. CASE c \in sealed /\ Added(c, w, p) = [w EXCEPT !.gone = @ \cup {p}]
  BY <1>2 DEF LandSet, Grows
<1>3. CASE c \notin sealed /\ Added(c, w, p) = [w EXCEPT !.list = @ \cup {p}]
  BY <1>3 DEF LandSet, Grows
<1>. QED BY <1>1, <1>2, <1>3 DEF Added

LEMMA LentGrows ==
  ASSUME NEW c, NEW w \in LandSet, NEW p \in Packages, NEW s \in Packages
  PROVE  Grows(c, w, Lent(w, p, s))
<1>1. CASE Lent(w, p, s) = w
  BY <1>1, LandFacts
<1>2. CASE Lent(w, p, s) = [w EXCEPT !.dead = TRUE]
  BY <1>2 DEF LandSet, Grows
<1>3. CASE p \in w.list /\ Lent(w, p, s) = [w EXCEPT !.tweaks = @ \cup {<<p, s>>}]
  BY <1>3 DEF LandSet, Grows
<1>4. [w EXCEPT !.tweaks = @] = w
  BY DEF LandSet
<1>. QED BY <1>1, <1>2, <1>3, <1>4 DEF Lent

LEMMA EvaluatedGrows ==
  ASSUME NEW c \in Contexts, NEW w \in LandSet, NEW p \in Packages
  PROVE  Grows(c, w, Evaluated(c, w, p))
<1> DEFINE e == Evaluated(c, w, p)
           t == [w.tinc EXCEPT ![p] = IF p \in Tweaked THEN c ELSE "none"]
           k == IF p \in Tweaked /\ p \in w.list THEN w.tweaks \cup {<<p, p>>} ELSE w.tweaks
<1>1. e = [w EXCEPT !.tinc = t, !.tweaks = k]
  BY DEF Evaluated, LandSet
<1>2. t \in [Packages -> Contexts \cup {"unknown", "none"}]
  BY LandFacts
<1>3. k \subseteq Packages \X Packages
  BY LandFacts
<1>4. \A q, r \in Packages : <<q, r>> \in k => <<q, r>> \in w.tweaks \/ q \in w.list
  OBVIOUS
<1>5. Grows(c, w, e)
  <2> HIDE DEF t, k, e
  <2>. QED BY <1>1, <1>2, <1>3, <1>4 DEF LandSet, Grows
<1>. QED BY <1>5

LEMMA InheritedGrows ==
  ASSUME NEW c, NEW p \in Packages, NEW s \in Packages, NEW w \in LandSet, NEW f,
         \A u \in LandSet : Grows(c, u, f[<<s, u>>])
  PROVE  Grows(c, w, Inherited(f, c, p, s, w))
<1> DEFINE a == Added(c, w, s)
           v == f[<<s, a>>]
<1>1. Grows(c, w, a) /\ a \in LandSet
  <2>1. Grows(c, w, a)
    BY AddedGrows
  <2>. QED BY <2>1 DEF Grows
<1>2. Grows(c, a, v) /\ v \in LandSet
  BY <1>1 DEF Grows
<1>3. Grows(c, w, v)
  BY <1>1, <1>2, GrowsOn
<1>4. Grows(c, v, Lent(v, p, s))
  BY <1>2, LentGrows
<1>5. Grows(c, w, Lent(v, p, s))
  BY <1>3, <1>4, GrowsOn
<1>6. Grows(c, w, w)
  BY LandFacts
<1>. QED BY <1>3, <1>5, <1>6 DEF Inherited

\* _chktweaks does not, if what it calls for the supers does not.
LEMMA CheckingGrows ==
  ASSUME NEW c \in Contexts, NEW p \in Packages, NEW w \in LandSet, NEW f,
         \A i \in DOMAIN ISA[p], u \in LandSet : Grows(c, u, f[<<ISA[p][i], u>>])
  PROVE  Grows(c, w, Checking(f, c, p, w))
<1>1. /\ Len(ISA[p]) \in Nat /\ DOMAIN ISA[p] = 1 .. Len(ISA[p])
      /\ \A i \in DOMAIN ISA[p] : ISA[p][i] \in Packages
  BY ISAFacts
<1>2. \A i \in DOMAIN ISA[p], u \in LandSet : Grows(c, u, Inherited(f, c, p, ISA[p][i], u))
  BY <1>1, InheritedGrows
<1>3. \A i \in DOMAIN ISA[p], u \in LandSet : Inherited(f, c, p, ISA[p][i], u) \in LandSet
  BY <1>2 DEF Grows
<1>4. PICK a \in [0 .. Len(ISA[p]) -> LandSet] :
           /\ a[0] = w
           /\ \A i \in 1 .. Len(ISA[p]) : a[i] = Inherited(f, c, p, ISA[p][i], a[i - 1])
           /\ Supers(f, c, p, w) = a[Len(ISA[p])]
  <2>1. Lands(f, c, p)
    BY <1>3 DEF Lands
  <2>. QED BY <2>1, SupersDef
<1> DEFINE T == {u \in LandSet : Grows(c, w, u)}
<1>5. a[0] \in T
  BY <1>4, LandFacts
<1>6. ASSUME NEW i \in 1 .. Len(ISA[p]), a[i - 1] \in T PROVE a[i] \in T
  <2>1. Grows(c, w, a[i - 1]) /\ a[i - 1] \in LandSet
    BY <1>6
  <2>2. Grows(c, a[i - 1], a[i])
    BY <1>1, <1>2, <1>4, <2>1
  <2>. QED BY <2>1, <2>2, GrowsOn DEF Grows
<1>7. a[Len(ISA[p])] \in T
  <2> HIDE DEF T
  <2>1. \A i \in 0 .. Len(ISA[p]) : a[i] \in T
    BY <1>1, <1>5, <1>6, Stays
  <2>2. Len(ISA[p]) \in 0 .. Len(ISA[p])
    BY <1>1
  <2>. QED BY <2>1, <2>2
<1>8. Grows(c, w, Supers(f, c, p, w)) /\ Supers(f, c, p, w) \in LandSet
  BY <1>4, <1>7
<1>9. Grows(c, w, Evaluated(c, Supers(f, c, p, w), p))
  BY <1>8, EvaluatedGrows, GrowsOn
<1>10. Grows(c, w, w)
  BY LandFacts
<1>. QED BY <1>8, <1>9, <1>10 DEF Checking

\* f and g say the same of the supers of p.
Agree(f, g, p) ==
  \A i \in DOMAIN ISA[p], u \in LandSet : g[<<ISA[p][i], u>>] = f[<<ISA[p][i], u>>]

\* What is checked depends on what is said of the supers only.
LEMMA CheckingAgrees ==
  ASSUME NEW c \in Contexts, NEW p \in Packages, NEW w \in LandSet, NEW f, NEW g,
         Lands(f, c, p), Agree(f, g, p)
  PROVE  Checking(f, c, p, w) = Checking(g, c, p, w)
<1> DEFINE n == Len(ISA[p])
<1>1. /\ n \in Nat /\ DOMAIN ISA[p] = 1 .. n
      /\ \A i \in 1 .. n : ISA[p][i] \in Packages
  BY ISAFacts
<1>2. \A i \in 1 .. n, u \in LandSet :
        Inherited(g, c, p, ISA[p][i], u) = Inherited(f, c, p, ISA[p][i], u)
  <2> SUFFICES ASSUME NEW i \in 1 .. n, NEW u \in LandSet
               PROVE  Inherited(g, c, p, ISA[p][i], u) = Inherited(f, c, p, ISA[p][i], u)
    OBVIOUS
  <2>1. Added(c, u, ISA[p][i]) \in LandSet
    BY <1>1, AddedGrows DEF Grows
  <2>. QED BY <1>1, <2>1 DEF Inherited, Agree
<1>3. Lands(g, c, p)
  BY <1>1, <1>2 DEF Lands
<1>4. PICK a \in [0 .. n -> LandSet] :
           /\ a[0] = w
           /\ \A i \in 1 .. n : a[i] = Inherited(f, c, p, ISA[p][i], a[i - 1])
           /\ Supers(f, c, p, w) = a[n]
  BY SupersDef
<1>5. PICK b \in [0 .. n -> LandSet] :
           /\ b[0] = w
           /\ \A i \in 1 .. n : b[i] = Inherited(g, c, p, ISA[p][i], b[i - 1])
           /\ Supers(g, c, p, w) = b[n]
  BY <1>3, SupersDef
<1> HIDE DEF n
<1>6. \A i \in 0 .. n : a[i] = b[i]
  <2> DEFINE same == {i \in 0 .. n : a[i] = b[i]}
             e == [i \in 0 .. n |-> i]
  <2>1. 0 \in 0 .. n /\ \A i \in 1 .. n : i \in 0 .. n /\ i - 1 \in 0 .. n
    BY <1>1
  <2>2. e[0] \in same
    BY <2>1, <1>4, <1>5
  <2>3. ASSUME NEW i \in 1 .. n, e[i - 1] \in same PROVE e[i] \in same
    <3>1. a[i - 1] = b[i - 1] /\ a[i - 1] \in LandSet
      BY <2>1, <2>3
    <3>2. a[i] = b[i]
      BY <1>2, <1>4, <1>5, <3>1
    <3>. QED BY <2>1, <3>2
  <2>4. \A i \in 0 .. n : e[i] \in same
    <3> HIDE DEF e, same
    <3>. QED BY <1>1, <2>2, <2>3, Stays
  <2>. QED BY <2>4
<1>7. n \in 0 .. n
  BY <1>1
<1>8. Supers(f, c, p, w) = Supers(g, c, p, w)
  BY <1>4, <1>5, <1>6, <1>7
<1>. QED BY <1>8 DEF Checking

\* The packages do not inherit in a ring, and so it is settled what is said of
\* each of them.
LEMMA CheckedExists ==
  ASSUME NEW c \in Contexts
  PROVE  \E f : f = [x \in Packages \X LandSet |-> Checking(f, c, x[1], x[2])]
<1> DEFINE F == [Packages \X LandSet -> LandSet]
           Fits(f, p) == \A u \in LandSet : /\ f[<<p, u>>] = Checking(f, c, p, u)
                                            /\ Grows(c, u, f[<<p, u>>])
           Closed(P) == \A p \in P : \A i \in DOMAIN ISA[p] : ISA[p][i] \in P
           Done(P) == Closed(P) /\ \E f \in F : \A p \in P : Fits(f, p)
           Left == {Cardinality(Packages \ P) : P \in {Q \in SUBSET Packages : Done(Q)}}
<1>1. Done({})
  <2> DEFINE f == [x \in Packages \X LandSet |-> x[2]]
  <2>1. f \in F
    OBVIOUS
  <2> HIDE DEF f, F, Fits
  <2>. QED BY <2>1
<1>2. ASSUME NEW P \in SUBSET Packages, Done(P), P # Packages
      PROVE  \E p \in Packages \ P : Done(P \cup {p})
  <2>1. PICK f \in F : \A p \in P : Fits(f, p)
    BY <1>2
  <2>2. PICK p \in Packages \ P : \A i \in DOMAIN ISA[p] : ISA[p][i] \notin Packages \ P
    BY <1>2, ISAAssumption
  <2>3. Closed(P \cup {p})
    BY <1>2, <2>2, ISAFacts
  <2> DEFINE g == [x \in Packages \X LandSet |->
                     IF x[1] = p THEN Checking(f, c, p, x[2]) ELSE f[x]]
  <2>4. /\ \A u \in LandSet : g[<<p, u>>] = Checking(f, c, p, u)
        /\ \A q \in P, u \in LandSet : g[<<q, u>>] = f[<<q, u>>]
        /\ \A q \in Packages, u \in LandSet : q # p => g[<<q, u>>] = f[<<q, u>>]
    OBVIOUS
  <2>5. ASSUME NEW q \in P \cup {p}, NEW u \in LandSet
        PROVE  /\ Grows(c, u, Checking(f, c, q, u))
               /\ Checking(g, c, q, u) = Checking(f, c, q, u)
    <3>1. \A i \in DOMAIN ISA[q] : ISA[q][i] \in P
      BY <1>2, <2>2, ISAFacts
    <3>2. \A i \in DOMAIN ISA[q], v \in LandSet : Grows(c, v, f[<<ISA[q][i], v>>])
      BY <2>1, <3>1
    <3>3. \A i \in DOMAIN ISA[q], v \in LandSet :
            Grows(c, v, Inherited(f, c, q, ISA[q][i], v))
      BY <3>1, <3>2, InheritedGrows
    <3>4. Lands(f, c, q)
      BY <3>3 DEF Lands, Grows
    <3>5. Agree(f, g, q) /\ q \in Packages
      BY <2>4, <3>1 DEF Agree
    <3>6. Grows(c, u, Checking(f, c, q, u))
      BY <3>2, CheckingGrows
    <3> HIDE DEF g
    <3>7. Checking(f, c, q, u) = Checking(g, c, q, u)
      BY <3>4, <3>5, CheckingAgrees
    <3>. QED BY <3>6, <3>7
  <2>6. g \in F
    <3>1. \A u \in LandSet : Checking(f, c, p, u) \in LandSet
      BY <2>5 DEF Grows
    <3>. QED BY <3>1
  <2> HIDE DEF g
  <2>7. ASSUME NEW q \in P \cup {p} PROVE Fits(g, q)
    <3> SUFFICES ASSUME NEW u \in LandSet
                 PROVE  g[<<q, u>>] = Checking(g, c, q, u) /\ Grows(c, u, g[<<q, u>>])
      OBVIOUS
    <3>1. g[<<q, u>>] = Checking(f, c, q, u)
      BY <2>1, <2>4
    <3>. QED BY <2>5, <3>1
  <2> HIDE DEF F, Fits, Closed
  <2>8. Done(P \cup {p})
    BY <2>3, <2>6, <2>7
  <2>. QED BY <2>8
<1>3. Done(Packages)
  <2> HIDE DEF Done
  <2>1. \A P \in SUBSET Packages : IsFiniteSet(Packages \ P) /\ Cardinality(Packages \ P) \in Nat
    BY PackagesAssumption, FS_Subset, FS_CardinalityType
  <2>2. Left \subseteq Nat /\ Left # {}
    BY <1>1, <2>1
  <2>3. PICK m \in Left : \A k \in Left : m <= k
    <3> HIDE DEF Left
    <3>. QED BY <2>2, Least
  <2>4. PICK P \in SUBSET Packages : Done(P) /\ m = Cardinality(Packages \ P)
    OBVIOUS
  <2>5. SUFFICES ASSUME P # Packages PROVE FALSE
    BY <2>4
  <2>6. PICK p \in Packages \ P : Done(P \cup {p})
    BY <1>2, <2>4, <2>5
  <2> DEFINE R == Packages \ P
  <2>7. Packages \ (P \cup {p}) = R \ {p} /\ P \cup {p} \in SUBSET Packages /\ p \in R
    OBVIOUS
  <2>8. Cardinality(R \ {p}) \in Left
    BY <2>6, <2>7
  <2>9. Cardinality(R \ {p}) = Cardinality(R) - 1 /\ Cardinality(R) \in Nat
    BY <2>1, <2>7, FS_RemoveElement
  <2>10. m = Cardinality(R)
    BY <2>4
  <2> HIDE DEF R, Left
  <2>. QED BY <2>3, <2>8, <2>9, <2>10
<1>4. PICK f \in F : \A p \in Packages : Fits(f, p)
  BY <1>3
<1>5. \A x \in Packages \X LandSet : f[x] = Checking(f, c, x[1], x[2])
  BY <1>4
<1>6. f = [x \in Packages \X LandSet |-> Checking(f, c, x[1], x[2])]
  BY <1>5
<1>. QED BY <1>6

\* _chktweaks, the recursion and all.
LEMMA CheckedGrows ==
  ASSUME NEW c \in Contexts, NEW p \in Packages, NEW w \in LandSet
  PROVE  Grows(c, w, Checked(c, p, w))
<1> DEFINE D(f) == [x \in Packages \X LandSet |-> Checking(f, c, x[1], x[2])]
           check == CHOOSE f : f = D(f)
<1>1. check = D(check)
  <2>1. \E f : f = D(f)
    BY CheckedExists
  <2> HIDE DEF D
  <2>. QED BY <2>1
<1>2. Checked(c, p, w) = check[<<p, w>>]
  BY DEF Checked
<1> HIDE DEF check
<1>3. \A q \in Packages, u \in LandSet : check[<<q, u>>] = Checking(check, c, q, u)
  BY <1>1
<1> DEFINE Wrong == {q \in Packages : \E u \in LandSet : ~ Grows(c, u, check[<<q, u>>])}
<1>4. SUFFICES ASSUME Wrong # {} PROVE FALSE
  BY <1>2
<1>5. PICK q \in Wrong : \A i \in DOMAIN ISA[q] : ISA[q][i] \notin Wrong
  <2>1. Wrong \in SUBSET Packages
    OBVIOUS
  <2> HIDE DEF Wrong
  <2>. QED BY <1>4, <2>1, ISAAssumption
<1>6. \A i \in DOMAIN ISA[q], u \in LandSet : Grows(c, u, check[<<ISA[q][i], u>>])
  BY <1>5, ISAFacts
<1>7. \A u \in LandSet : Grows(c, u, check[<<q, u>>])
  BY <1>3, <1>6, CheckingGrows
<1>. QED BY <1>5, <1>7

-----------------------------------------------------------------------------
(* The inductive invariant.                                                *)

\* The sub that only one Proxy has for its constructor serves that Proxy.
Serving(c) ==
  \A p \in Packages :
    con[c][p] # None /\ (\A q \in Packages : con[c][q] = con[c][p] => q = p) =>
      serves[c][con[c][p]] = p /\ proto[c][con[c][p]] = p

\* A Stash is a prototype only if its Proxy has got a constructor.
Taken(c) ==
  \A x \in Packages \cup Constructors : proto[c][x] # None => con[c][proto[c][x]] # None

\* Among any Stashes there is one whose prototype is not one of them.
NoRing(c) ==
  \A S \in SUBSET Packages : S # {} => \E p \in S : proto[c][p] \notin S

\* A name that builds objects is that of the constructor of what it was meant for.
Named(c) ==
  \A n \in Names : bound[c][n] # None /\ bound[c][n].kind = "sub" =>
    con[c][bound[c][n].meant] = bound[c][n].is

Lasting(c) == Serving(c) /\ Taken(c) /\ NoRing(c) /\ Named(c)

\* A name is a sub, or that of a package itself, and then of a class or indirect.
Telling(b) ==
  /\ b.kind = "sub" => b.is \in Constructors
  /\ b.kind = "stash" => b.is = b.meant /\ b.is \in classes

Tells == \A c \in Contexts, n \in Names : bound[c][n] # None => Telling(bound[c][n])

CtlInv == CtlTypeOK /\ (\A c \in Contexts \ again : Lasting(c)) /\ Tells

LEMMA CtlInitInv == CtlInit => CtlInv
<1> SUFFICES ASSUME CtlInit PROVE CtlInv
  OBVIOUS
<1>1. CtlTypeOK
  BY DEF CtlInit, CtlTypeOK
<1>2. ASSUME NEW c \in Contexts PROVE Lasting(c)
  BY NoneAssumption DEF CtlInit, Lasting, Serving, Taken, NoRing, Named
<1>3. \A c \in Contexts, n \in Names : bound[c][n] = None
  BY DEF CtlInit
<1>. QED BY <1>1, <1>2, <1>3 DEF CtlInv, Tells

LEMMA LandTyped ==
  ASSUME CtlTypeOK, NEW c \in Contexts
  PROVE  Land(c) \in LandSet /\ Land(c).list = list[c] /\ Land(c).tweaks = tweaks[c]
BY DEF CtlTypeOK, Land, LandSet

\* What is installed in context c, and the list of other contexts is not touched.
Landed(c, w) ==
  /\ list' \in [Contexts -> SUBSET Packages] /\ tweaks' \in [Contexts -> SUBSET (Packages \X Packages)]
  /\ tinc' \in [Packages -> Contexts \cup {"unknown", "none"}] /\ gone' \subseteq Packages
  /\ \A d \in Contexts : list[d] \subseteq list'[d] /\ (d \in sealed => list'[d] = list[d])
  /\ \A d \in Contexts, p, q \in Packages : p \notin list'[d] => <<p, q>> \notin tweaks'[d]
  /\ w.list \subseteq list'[c]

LEMMA BecomesOK ==
  ASSUME CtlTypeOK, NEW c \in Contexts, NEW w, Grows(c, Land(c), w), Becomes(c, w)
  PROVE  Landed(c, w)
<1>1. /\ w.list \subseteq Packages /\ w.gone \subseteq Packages
      /\ w.tweaks \subseteq Packages \X Packages
      /\ w.tinc \in [Packages -> Contexts \cup {"unknown", "none"}]
  BY LandFacts DEF Grows
<1>2. /\ list' = [list EXCEPT ![c] = w.list] /\ tweaks' = [tweaks EXCEPT ![c] = w.tweaks]
      /\ tinc' = w.tinc /\ gone' = w.gone
  BY DEF Becomes
<1>3. /\ list \in [Contexts -> SUBSET Packages]
      /\ tweaks \in [Contexts -> SUBSET (Packages \X Packages)]
      /\ \A d \in Contexts, p, q \in Packages : p \notin list[d] => <<p, q>> \notin tweaks[d]
  BY DEF CtlTypeOK
<1>4. /\ list[c] \subseteq w.list /\ (c \in sealed => w.list = list[c])
      /\ \A p, q \in Packages : <<p, q>> \in w.tweaks => <<p, q>> \in tweaks[c] \/ p \in w.list
  BY LandTyped DEF Grows
<1>5. /\ list' \in [Contexts -> SUBSET Packages]
      /\ tweaks' \in [Contexts -> SUBSET (Packages \X Packages)]
  BY <1>1, <1>2, <1>3
<1>6. /\ list'[c] = w.list /\ tweaks'[c] = w.tweaks
      /\ \A d \in Contexts \ {c} : list'[d] = list[d] /\ tweaks'[d] = tweaks[d]
  BY <1>2, <1>3
<1>7. \A d \in Contexts, p, q \in Packages : p \notin list'[d] => <<p, q>> \notin tweaks'[d]
  BY <1>3, <1>4, <1>6
<1>. QED BY <1>1, <1>2, <1>4, <1>5, <1>6, <1>7 DEF Landed

LEMMA BoundToOK ==
  ASSUME CtlTypeOK, NEW c \in Contexts, NEW n \in Names, NEW w, Grows(c, Land(c), w),
         NEW b \in Binding, BoundTo(c, n, w, b)
  PROVE  /\ Landed(c, w)
         /\ bound' \in [Contexts -> [Names -> Binding \cup {None}]]
         /\ bound' = bound \/ bound' = [bound EXCEPT ![c][n] = b]
<1>1. CASE bound[c][n] # None
  <2>1. bound' = bound /\ Becomes(c, w)
    BY <1>1 DEF BoundTo
  <2>. QED BY <2>1, BecomesOK DEF CtlTypeOK
<1>2. CASE bound[c][n] = None
  <2> DEFINE v == Checked(c, b.meant, w)
  <2>1. bound' = [bound EXCEPT ![c][n] = b] /\ Becomes(c, v)
    BY <1>2 DEF BoundTo
  <2>2. w \in LandSet /\ b.meant \in Packages
    BY DEF Grows, Binding
  <2>3. Grows(c, w, v)
    BY <2>2, CheckedGrows
  <2>4. Grows(c, Land(c), v) /\ w.list \subseteq v.list
    BY <2>3, GrowsOn DEF Grows
  <2>5. Landed(c, v)
    BY <2>1, <2>4, BecomesOK
  <2>6. Landed(c, w)
    BY <2>4, <2>5 DEF Landed
  <2>7. bound' \in [Contexts -> [Names -> Binding \cup {None}]]
    BY <2>1 DEF CtlTypeOK
  <2>. QED BY <2>1, <2>6, <2>7
<1>. QED BY <1>1, <1>2

\* perlsub_as_constructor: the types, and that nothing is forgotten.
LEMMA ConstructedOK ==
  ASSUME CtlInv, NEW c \in Contexts, NEW p \in Packages, NEW k \in Constructors,
         Constructed(c, p, k)
  PROVE  /\ proto' \in [Contexts -> [Packages \cup Constructors -> Packages \cup {None}]]
         /\ serves' \in [Contexts -> [Constructors -> Packages \cup {None}]]
         /\ con' \in [Contexts -> [Packages -> Constructors \cup {None}]]
         /\ again \subseteq again' /\ again' \subseteq Contexts
         /\ con'[c][p] = k
         /\ \A d \in Contexts : d # c =>
              proto'[d] = proto[d] /\ serves'[d] = serves[d] /\ con'[d] = con[d]
         /\ \A q \in Packages : q # p =>
              proto'[c][q] = proto[c][q] /\ con'[c][q] = con[c][q]
         /\ c \notin again' =>
              /\ con[c][p] = None
              /\ Serving(c)' /\ Taken(c)' /\ NoRing(c)'
<1>1. /\ proto \in [Contexts -> [Packages \cup Constructors -> Packages \cup {None}]]
      /\ serves \in [Contexts -> [Constructors -> Packages \cup {None}]]
      /\ con \in [Contexts -> [Packages -> Constructors \cup {None}]]
      /\ again \subseteq Contexts
  BY DEF CtlInv, CtlTypeOK
<1>2. k \notin Packages /\ p \notin Constructors /\ k # None /\ p # None
  BY PackagesAssumption, NoneAssumption
<1> DEFINE P == [proto[c] EXCEPT ![p] = proto[c][k], ![k] = p]
<1>3. /\ P \in [Packages \cup Constructors -> Packages \cup {None}]
      /\ P[p] = proto[c][k] /\ P[k] = p
      /\ \A x \in Packages \cup Constructors : x # p /\ x # k => P[x] = proto[c][x]
  BY <1>1, <1>2
<1>4. /\ proto' = [proto EXCEPT ![c] = P] /\ serves' = [serves EXCEPT ![c][k] = p]
      /\ con' = [con EXCEPT ![c][p] = k]
      /\ again' = IF con[c][p] = None THEN again ELSE again \cup {c}
  BY DEF Constructed
<1> HIDE DEF P
<1>5. /\ proto' \in [Contexts -> [Packages \cup Constructors -> Packages \cup {None}]]
      /\ serves' \in [Contexts -> [Constructors -> Packages \cup {None}]]
      /\ con' \in [Contexts -> [Packages -> Constructors \cup {None}]]
  BY <1>1, <1>3, <1>4
<1>6. again \subseteq again' /\ again' \subseteq Contexts
  BY <1>1, <1>4
<1>7. /\ \A d \in Contexts : d # c =>
           proto'[d] = proto[d] /\ serves'[d] = serves[d] /\ con'[d] = con[d]
      /\ proto'[c] = P
      /\ con'[c][p] = k /\ \A q \in Packages : q # p => con'[c][q] = con[c][q]
      /\ serves'[c][k] = p /\ \A j \in Constructors : j # k => serves'[c][j] = serves[c][j]
  BY <1>1, <1>4
<1>8. \A q \in Packages : q # p => proto'[c][q] = proto[c][q]
  BY <1>2, <1>3, <1>7
<1>9. ASSUME c \notin again'
      PROVE  con[c][p] = None /\ Serving(c)' /\ Taken(c)' /\ NoRing(c)'
  <2>1. con[c][p] = None /\ c \notin again
    BY <1>4, <1>9
  <2>2. Serving(c) /\ Taken(c) /\ NoRing(c)
    BY <2>1 DEF CtlInv, Lasting
  <2>3. \A x \in Packages \cup Constructors : proto[c][x] # p
    BY <1>2, <2>1, <2>2 DEF Taken
  <2>4. Serving(c)'
    <3> SUFFICES ASSUME NEW q \in Packages, con'[c][q] # None,
                        \A r \in Packages : con'[c][r] = con'[c][q] => r = q
                 PROVE  serves'[c][con'[c][q]] = q /\ proto'[c][con'[c][q]] = q
      BY DEF Serving
    <3>1. CASE q = p
      BY <1>3, <1>7, <3>1
    <3>2. CASE q # p
      <4> DEFINE j == con[c][q]
      <4>1. con'[c][q] = j /\ j # k /\ j \in Constructors
        BY <1>1, <1>7, <3>2
      <4>2. \A r \in Packages : con[c][r] = j => r = q
        BY <1>2, <1>7, <2>1, <3>2, <4>1
      <4>3. serves[c][j] = q /\ proto[c][j] = q
        BY <2>2, <4>1, <4>2, NoneAssumption DEF Serving
      <4>. QED BY <1>2, <1>3, <1>7, <4>1, <4>3
    <3>. QED BY <3>1, <3>2
  <2>5. Taken(c)'
    <3> SUFFICES ASSUME NEW x \in Packages \cup Constructors, proto'[c][x] # None
                 PROVE  con'[c][proto'[c][x]] # None
      BY DEF Taken
    <3>1. CASE x = k
      BY <1>2, <1>3, <1>7, <3>1, NoneAssumption
    <3>2. CASE x # k
      <4>1. PICK y \in Packages \cup Constructors : proto'[c][x] = proto[c][y]
        BY <1>3, <1>7, <3>2
      <4>2. proto[c][y] \in Packages /\ proto[c][y] # p /\ con[c][proto[c][y]] # None
        BY <1>1, <2>2, <2>3, <4>1 DEF Taken
      <4>. QED BY <1>7, <4>1, <4>2
    <3>. QED BY <3>1, <3>2
  <2>6. NoRing(c)'
    <3> SUFFICES ASSUME NEW S \in SUBSET Packages, S # {}
                 PROVE  \E q \in S : proto'[c][q] \notin S
      BY DEF NoRing
    <3>1. CASE S = {p}
      BY <1>3, <1>7, <2>3, <3>1
    <3>2. CASE S # {p}
      <4>1. PICK q \in S \ {p} : proto[c][q] \notin S \ {p}
        BY <2>2, <3>2 DEF NoRing
      <4>2. proto[c][q] \notin S
        BY <2>3, <4>1
      <4>. QED BY <1>8, <4>1, <4>2
    <3>. QED BY <3>1, <3>2
  <2>. QED BY <2>1, <2>4, <2>5, <2>6
<1>. QED BY <1>5, <1>6, <1>7, <1>8, <1>9

\* A context none of whose constructors, prototypes and names is touched.
LEMMA LastsOn ==
  ASSUME NEW d \in Contexts, Lasting(d),
         proto'[d] = proto[d], serves'[d] = serves[d], con'[d] = con[d], bound'[d] = bound[d]
  PROVE  Lasting(d)'
BY DEF Lasting, Serving, Taken, NoRing, Named

\* Old names tell what they told, new ones have been looked at.
LEMMA TellsOn ==
  ASSUME Tells, classes \subseteq classes',
         \A d \in Contexts, m \in Names :
           bound'[d][m] = bound[d][m] \/ bound'[d][m] = None \/ Telling(bound'[d][m])
  PROVE  Tells'
BY DEF Tells, Telling

\* The constructors and prototypes of packages that are not listed.
Blank(c) == \A p \in Packages \ list[c] : con[c][p] = None /\ proto[c][p] = None

\* perlsub_as_constructor does not touch what is bound; a Proxy that gets its
\* first constructor is meant by no name that builds.
LEMMA NamedOn ==
  ASSUME CtlInv, NEW c \in Contexts, NEW p \in Packages, NEW k \in Constructors,
         Constructed(c, p, k), c \notin again'
  PROVE  \A n \in Names : bound[c][n] # None /\ bound[c][n].kind = "sub" =>
           con'[c][bound[c][n].meant] = bound[c][n].is
<1> SUFFICES ASSUME NEW n \in Names, bound[c][n] # None, bound[c][n].kind = "sub"
             PROVE  con'[c][bound[c][n].meant] = bound[c][n].is
  OBVIOUS
<1>1. c \in Contexts \ again /\ con[c][p] = None
  BY ConstructedOK
<1>2. con[c][bound[c][n].meant] = bound[c][n].is
  BY <1>1 DEF CtlInv, Lasting, Named
<1>3. bound[c][n] \in Binding
  BY DEF CtlInv, CtlTypeOK
<1>4. bound[c][n].meant \in Packages /\ bound[c][n].is \in Constructors
  BY <1>3 DEF CtlInv, Tells, Telling, Binding
<1>5. bound[c][n].meant # p
  BY <1>1, <1>2, <1>4, NoneAssumption
<1>. QED BY <1>2, <1>4, <1>5, ConstructedOK

\* The types of what is installed, and the rest.
LEMMA Typed ==
  ASSUME CtlTypeOK, NEW c, NEW w, Landed(c, w),
         live' \subseteq Contexts, sealed' \subseteq Contexts, again' \subseteq Contexts,
         proto' \in [Contexts -> [Packages \cup Constructors -> Packages \cup {None}]],
         serves' \in [Contexts -> [Constructors -> Packages \cup {None}]],
         con' \in [Contexts -> [Packages -> Constructors \cup {None}]],
         bound' \in [Contexts -> [Names -> Binding \cup {None}]],
         classes' \subseteq Packages,
         \A d \in Contexts : Blank(d)'
  PROVE  CtlTypeOK'
<1>1. \A d \in Contexts : \A p \in Packages \ list'[d] :
        con'[d][p] = None /\ proto'[d][p] = None /\ \A q \in Packages : <<p, q>> \notin tweaks'[d]
  BY DEF Landed, Blank
<1>. QED BY <1>1 DEF CtlTypeOK, Landed

LEMMA NothingLanded ==
  ASSUME CtlTypeOK, NEW c \in Contexts, UNCHANGED <<list, tinc, tweaks, gone>>
  PROVE  Landed(c, Land(c))
BY DEF CtlTypeOK, Landed, Land

LEMMA BlankOn ==
  ASSUME CtlTypeOK, NEW d \in Contexts, list[d] \subseteq list'[d],
         \A p \in Packages :
           p \in list'[d] \/ (con'[d][p] = con[d][p] /\ proto'[d][p] = proto[d][p])
  PROVE  Blank(d)'
BY DEF CtlTypeOK, Blank

LEMMA BlankConstructed ==
  ASSUME CtlInv, NEW c \in Contexts, NEW p \in Packages, NEW k \in Constructors,
         Constructed(c, p, k), p \in list'[c], \A d \in Contexts : list[d] \subseteq list'[d]
  PROVE  \A d \in Contexts : Blank(d)'
<1> SUFFICES ASSUME NEW d \in Contexts PROVE Blank(d)'
  OBVIOUS
<1>1. \A q \in Packages :
        q \in list'[d] \/ (con'[d][q] = con[d][q] /\ proto'[d][q] = proto[d][q])
  <2>1. CASE d # c
    BY <2>1, ConstructedOK
  <2>2. CASE d = c
    BY <2>2, ConstructedOK
  <2>. QED BY <2>1, <2>2
<1>. QED BY <1>1, BlankOn DEF CtlInv

LEMMA AddPackageOK ==
  ASSUME CtlInv, NEW c \in Contexts, NEW p \in Packages, AddPackage(c, p)
  PROVE  CtlInv'
<1>1. Landed(c, Added(c, Land(c), p))
  BY LandTyped, AddedGrows, BecomesOK DEF CtlInv, AddPackage
<1>2. UNCHANGED <<live, sealed, proto, serves, con, again, bound, classes>>
  BY DEF AddPackage
<1>3. CtlTypeOK'
  BY <1>1, <1>2 DEF CtlInv, CtlTypeOK, Landed
<1>. QED BY <1>2, <1>3, LastsOn, TellsOn DEF CtlInv

LEMMA SetConstructorOK ==
  ASSUME CtlInv, NEW c \in Contexts, NEW p \in Packages, NEW k \in Constructors,
         SetConstructor(c, p, k)
  PROVE  CtlInv'
<1>1. /\ p \in list[c] /\ Constructed(c, p, k)
      /\ UNCHANGED <<live, list, sealed, bound, classes, tinc, tweaks, gone>>
  BY DEF SetConstructor
<1>2. CtlTypeOK'
  <2>1. Landed(c, Land(c))
    BY <1>1, NothingLanded DEF CtlInv
  <2>2. \A d \in Contexts : Blank(d)'
    BY <1>1, BlankConstructed
  <2>3. /\ live' \subseteq Contexts /\ sealed' \subseteq Contexts /\ classes' \subseteq Packages
        /\ bound' \in [Contexts -> [Names -> Binding \cup {None}]]
    BY <1>1 DEF CtlInv, CtlTypeOK
  <2>. QED BY <1>1, <2>1, <2>2, <2>3, ConstructedOK, Typed DEF CtlInv
<1>3. ASSUME NEW d \in Contexts \ again' PROVE Lasting(d)'
  <2>1. d \in Contexts \ again
    BY <1>1, ConstructedOK
  <2>2. CASE d # c
    BY <1>1, <2>1, <2>2, ConstructedOK, LastsOn DEF CtlInv
  <2>3. CASE d = c
    BY <1>1, <1>3, <2>3, ConstructedOK, NamedOn DEF Lasting, Named
  <2>. QED BY <2>2, <2>3
<1>. QED BY <1>1, <1>2, <1>3, TellsOn DEF CtlInv

\* bind_value: only the name that is bound changes.
LEMMA BoundOnce ==
  ASSUME CtlInv, NEW c \in Contexts, NEW n \in Names, NEW w, Grows(c, Land(c), w),
         NEW b \in Binding, BoundTo(c, n, w, b)
  PROVE  \A d \in Contexts : /\ \A m \in Names : bound'[d][m] = bound[d][m] \/ bound'[d][m] = b
                             /\ d # c => bound'[d] = bound[d]
<1>1. bound \in [Contexts -> [Names -> Binding \cup {None}]]
  BY DEF CtlInv, CtlTypeOK
<1>2. bound' = bound \/ bound' = [bound EXCEPT ![c][n] = b]
  BY BoundToOK DEF CtlInv
<1>. QED BY <1>1, <1>2

LEMMA InstallConstructorOK ==
  ASSUME CtlInv, NEW c \in Contexts, NEW n \in Names, NEW p \in Packages,
         NEW k \in Constructors, InstallConstructor(c, n, p, k)
  PROVE  CtlInv'
<1> DEFINE w == Added(c, Land(c), p)
           b == [kind |-> "sub", is |-> k, meant |-> p]
<1>1. /\ p \in w.list /\ Constructed(c, p, k) /\ BoundTo(c, n, w, b)
      /\ UNCHANGED <<live, sealed, classes>>
  BY DEF InstallConstructor, Installing
<1>2. b \in Binding /\ b.kind = "sub" /\ b.is = k /\ b.meant = p /\ Telling(b)
  BY DEF Binding, Kinds, Telling
<1>3. Grows(c, Land(c), w)
  BY LandTyped, AddedGrows DEF CtlInv
<1> HIDE DEF w, b
<1>4. Landed(c, w) /\ bound' \in [Contexts -> [Names -> Binding \cup {None}]]
  BY <1>1, <1>2, <1>3, BoundToOK DEF CtlInv
<1>5. \A d \in Contexts : /\ \A m \in Names : bound'[d][m] = bound[d][m] \/ bound'[d][m] = b
                          /\ d # c => bound'[d] = bound[d]
  BY <1>1, <1>2, <1>3, BoundOnce
<1>6. CtlTypeOK'
  <2>1. p \in list'[c] /\ \A d \in Contexts : list[d] \subseteq list'[d]
    BY <1>1, <1>4 DEF Landed
  <2>2. \A d \in Contexts : Blank(d)'
    BY <1>1, <2>1, BlankConstructed
  <2>3. live' \subseteq Contexts /\ sealed' \subseteq Contexts /\ classes' \subseteq Packages
    BY <1>1 DEF CtlInv, CtlTypeOK
  <2>. QED BY <1>1, <1>4, <2>2, <2>3, ConstructedOK, Typed DEF CtlInv
<1>7. ASSUME NEW d \in Contexts \ again' PROVE Lasting(d)'
  <2>1. d \in Contexts \ again
    BY <1>1, ConstructedOK
  <2>2. CASE d # c
    BY <1>1, <1>5, <2>1, <2>2, ConstructedOK, LastsOn DEF CtlInv
  <2>3. CASE d = c
    <3>1. Serving(c)' /\ Taken(c)' /\ NoRing(c)' /\ con'[c][p] = k
      BY <1>1, <1>7, <2>3, ConstructedOK
    <3>2. Named(c)'
      BY <1>1, <1>2, <1>5, <1>7, <2>3, <3>1, NamedOn DEF Named
    <3>. QED BY <2>3, <3>1, <3>2 DEF Lasting
  <2>. QED BY <2>2, <2>3
<1>8. Tells'
  BY <1>1, <1>2, <1>5, TellsOn DEF CtlInv
<1>. QED BY <1>6, <1>7, <1>8 DEF CtlInv

\* ... of a package, not of a constructor.
LEMMA InstallPackageOK ==
  ASSUME CtlInv, NEW c \in Contexts, NEW n \in Names, NEW p \in Packages,
         NEW kind \in {"stash", "proxy"},
         BoundTo(c, n, Added(c, Land(c), p), [kind |-> kind, is |-> p, meant |-> p]),
         UNCHANGED <<live, sealed, proto, serves, con, again>>,
         classes \subseteq classes', classes' \subseteq Packages,
         kind = "stash" => p \in classes'
  PROVE  CtlInv'
<1> DEFINE w == Added(c, Land(c), p)
           b == [kind |-> kind, is |-> p, meant |-> p]
<1>1. BoundTo(c, n, w, b)
  OBVIOUS
<1>2. b \in Binding /\ b.kind = kind /\ b.is = p /\ b.meant = p
  BY DEF Binding, Kinds
<1>3. Grows(c, Land(c), w)
  BY LandTyped, AddedGrows DEF CtlInv
<1> HIDE DEF w, b
<1>4. Landed(c, w) /\ bound' \in [Contexts -> [Names -> Binding \cup {None}]]
  BY <1>1, <1>2, <1>3, BoundToOK DEF CtlInv
<1>5. \A d \in Contexts : /\ \A m \in Names : bound'[d][m] = bound[d][m] \/ bound'[d][m] = b
                          /\ d # c => bound'[d] = bound[d]
  BY <1>1, <1>2, <1>3, BoundOnce
<1>6. CtlTypeOK'
  <2>1. \A d \in Contexts : Blank(d)'
    BY <1>4, BlankOn DEF CtlInv, Landed
  <2>. QED BY <1>4, <2>1, Typed DEF CtlInv, CtlTypeOK
<1>7. ASSUME NEW d \in Contexts \ again' PROVE Lasting(d)'
  <2>1. Serving(d) /\ Taken(d) /\ NoRing(d) /\ Named(d)
    BY <1>7 DEF CtlInv, Lasting
  <2>2. Serving(d)' /\ Taken(d)' /\ NoRing(d)'
    BY <2>1 DEF Serving, Taken, NoRing
  <2>3. Named(d)'
    BY <1>2, <1>5, <2>1 DEF Named
  <2>. QED BY <2>2, <2>3 DEF Lasting
<1>8. Tells'
  BY <1>2, <1>5 DEF CtlInv, Tells, Telling
<1>. QED BY <1>6, <1>7, <1>8 DEF CtlInv

LEMMA UnbindOK ==
  ASSUME CtlInv, NEW c \in Contexts, NEW n \in Names, Unbind(c, n)
  PROVE  CtlInv'
<1>1. /\ bound' = [bound EXCEPT ![c][n] = None]
      /\ UNCHANGED <<live, list, sealed, proto, serves, con, again, classes, tinc, tweaks, gone>>
  BY DEF Unbind
<1>2. CtlTypeOK'
  BY <1>1 DEF CtlInv, CtlTypeOK
<1>3. \A d \in Contexts, m \in Names : bound'[d][m] = bound[d][m] \/ bound'[d][m] = None
  BY <1>1 DEF CtlInv, CtlTypeOK
<1>4. ASSUME NEW d \in Contexts \ again' PROVE Lasting(d)'
  BY <1>1, <1>3, <1>4 DEF CtlInv, Lasting, Serving, Taken, NoRing, Named
<1>5. Tells'
  BY <1>1, <1>3, TellsOn DEF CtlInv
<1>. QED BY <1>2, <1>4, <1>5 DEF CtlInv

LEMMA CollectOK ==
  ASSUME CtlInv, NEW c \in Contexts, NEW k \in Constructors, Collect(c, k)
  PROVE  CtlInv'
<1>1. /\ \A p \in Packages : con[c][p] # k
      /\ proto' = [proto EXCEPT ![c][k] = None] /\ serves' = [serves EXCEPT ![c][k] = None]
      /\ UNCHANGED <<live, list, sealed, con, again, bound, classes, tinc, tweaks, gone>>
  BY DEF Collect
<1>2. k \notin Packages
  BY PackagesAssumption
<1>3. /\ proto' \in [Contexts -> [Packages \cup Constructors -> Packages \cup {None}]]
      /\ serves' \in [Contexts -> [Constructors -> Packages \cup {None}]]
  BY <1>1 DEF CtlInv, CtlTypeOK
<1>4. \A d \in Contexts :
        /\ \A x \in Packages \cup Constructors : proto'[d][x] # proto[d][x] =>
                d = c /\ x = k /\ proto'[d][x] = None
        /\ \A j \in Constructors : serves'[d][j] # serves[d][j] => d = c /\ j = k
  BY <1>1 DEF CtlInv, CtlTypeOK
<1>5. CtlTypeOK'
  <2>1. Landed(c, Land(c))
    BY <1>1, NothingLanded DEF CtlInv
  <2>2. \A d \in Contexts : Blank(d)'
    BY <1>1, <1>2, <1>4, BlankOn DEF CtlInv
  <2>. QED BY <1>1, <1>3, <2>1, <2>2, Typed DEF CtlInv, CtlTypeOK
<1>6. ASSUME NEW d \in Contexts \ again' PROVE Lasting(d)'
  <2>1. Serving(d) /\ Taken(d) /\ NoRing(d) /\ Named(d)
    BY <1>1, <1>6 DEF CtlInv, Lasting
  <2>2. \A p \in Packages : con[d][p] \in Constructors \cup {None}
    BY DEF CtlInv, CtlTypeOK
  <2>3. Serving(d)'
    BY <1>1, <1>4, <2>1, <2>2 DEF Serving
  <2>4. Taken(d)'
    BY <1>1, <1>4, <2>1 DEF Taken
  <2>5. NoRing(d)'
    BY <1>2, <1>4, <2>1 DEF NoRing
  <2>6. Named(d)'
    BY <1>1, <2>1 DEF Named
  <2>. QED BY <2>3, <2>4, <2>5, <2>6 DEF Lasting
<1>. QED BY <1>1, <1>5, <1>6, TellsOn DEF CtlInv

LEMMA CtlNextStep == CtlInv /\ [CtlNext]_ctlVars => CtlInv'
<1> SUFFICES ASSUME CtlInv, [CtlNext]_ctlVars PROVE CtlInv'
  OBVIOUS
<1>1. ASSUME NEW c \in Contexts, Secure(c) \/ DropContext(c) PROVE CtlInv'
  <2>1. UNCHANGED <<list, proto, serves, con, again, bound, classes, tinc, tweaks, gone>>
    BY <1>1 DEF Secure, DropContext
  <2>2. CtlTypeOK'
    BY <1>1, <2>1 DEF CtlInv, CtlTypeOK, Secure, DropContext
  <2>. QED BY <2>1, <2>2, LastsOn, TellsOn DEF CtlInv
<1>2. ASSUME NEW c \in Contexts, NEW p \in Packages, AddPackage(c, p) PROVE CtlInv'
  BY <1>2, AddPackageOK
<1>3. ASSUME NEW c \in Contexts, NEW p \in Packages, NEW k \in Constructors,
             SetConstructor(c, p, k)
      PROVE  CtlInv'
  BY <1>3, SetConstructorOK
<1>4. ASSUME NEW c \in Contexts, NEW n \in Names, NEW p \in Packages, NEW k \in Constructors,
             InstallConstructor(c, n, p, k)
      PROVE  CtlInv'
  BY <1>4, InstallConstructorOK
<1>5. ASSUME NEW c \in Contexts, NEW n \in Names, NEW p \in Packages, InstallClass(c, n, p)
      PROVE  CtlInv'
  <2>1. classes \subseteq classes' /\ classes' \subseteq Packages /\ p \in classes'
    BY <1>5 DEF InstallClass, CtlInv, CtlTypeOK
  <2>. QED BY <1>5, <2>1, InstallPackageOK DEF InstallClass
<1>6. ASSUME NEW c \in Contexts, NEW n \in Names, NEW p \in Packages, InstallIndirect(c, n, p)
      PROVE  CtlInv'
  <2>1. classes \subseteq classes' /\ classes' \subseteq Packages
    BY <1>6 DEF InstallIndirect, CtlInv, CtlTypeOK
  <2>. QED BY <1>6, <2>1, InstallPackageOK DEF InstallIndirect
<1>7. ASSUME NEW c \in Contexts, NEW n \in Names, Unbind(c, n) PROVE CtlInv'
  BY <1>7, UnbindOK
<1>8. ASSUME NEW c \in Contexts, NEW k \in Constructors, Collect(c, k) PROVE CtlInv'
  BY <1>8, CollectOK
<1>9. CASE UNCHANGED ctlVars
  <2>1. CtlTypeOK'
    BY <1>9 DEF CtlInv, CtlTypeOK, ctlVars
  <2>. QED BY <1>9, <2>1, LastsOn, TellsOn DEF CtlInv, ctlVars
<1>. QED BY <1>1, <1>2, <1>3, <1>4, <1>5, <1>6, <1>7, <1>8, <1>9 DEF CtlNext

-----------------------------------------------------------------------------
(* Chains of prototypes.                                                   *)

\* a goes up the prototypes from x.
Chain(a, c, x, n) ==
  /\ a[0] = x
  /\ \A i \in 1 .. n : a[i] = IF a[i - 1] = None THEN None ELSE proto[c][a[i - 1]]
  /\ Walk(c, x, n) = a[n]

LEMMA WalkDef ==
  ASSUME CtlTypeOK, NEW c \in Contexts, NEW x \in Packages \cup Constructors, NEW n \in Nat
  PROVE  \E a \in [0 .. n -> Packages \cup Constructors \cup {None}] : Chain(a, c, x, n)
<1> DEFINE T == Packages \cup Constructors \cup {None}
           Up(y) == IF y = None THEN None ELSE proto[c][y]
           D(a) == [i \in 0 .. n |-> IF i = 0 THEN x ELSE Up(a[i - 1])]
           a == CHOOSE a : a = D(a)
           h == [i \in 1 .. n |-> [y \in T |-> Up(y)]]
<1>1. \A y \in T : Up(y) \in T
  BY DEF CtlTypeOK
<1>2. x \in T /\ h \in [1 .. n -> [T -> T]]
  BY <1>1
<1>3. \A i \in 1 .. n, y \in T : h[i][y] = Up(y)
  OBVIOUS
<1> HIDE DEF T, Up, h
<1>4. PICK b \in [0 .. n -> T] : b[0] = x /\ \A i \in 1 .. n : b[i] = h[i][b[i - 1]]
  <2>1. \E b \in [0 .. n -> T] : Led(b, x, n, h)
    BY <1>2, Iterates
  <2>. QED BY <2>1 DEF Led
<1>5. b = D(b)
  <2>1. \A i \in 0 .. n : b[i] = D(b)[i]
    BY <1>3, <1>4
  <2>. QED BY <2>1
<1>6. a = D(a)
  <2> HIDE DEF D
  <2>. QED BY <1>5
<1>7. Walk(c, x, n) = a[n]
  BY DEF Walk, Up
<1> HIDE DEF a
<1>8. a[0] = x /\ \A i \in 1 .. n : a[i] = Up(a[i - 1])
  BY <1>6
<1>9. \A i \in 0 .. n : a[i] \in T
  BY <1>1, <1>2, <1>8, Stays
<1>10. a \in [0 .. n -> T]
  BY <1>6, <1>9
<1>. QED BY <1>7, <1>8, <1>10 DEF T, Up, Chain

\* A chain longer than there are packages would come by one of them twice.
LEMMA NoRingNoWalk ==
  ASSUME CtlTypeOK, NEW c \in Contexts, NoRing(c), NEW x \in Packages \cup Constructors
  PROVE  Walk(c, x, Cardinality(Packages) + 1) = None
<1> DEFINE n == Cardinality(Packages) + 1
<1>1. Cardinality(Packages) \in Nat
  BY PackagesAssumption, FS_CardinalityType
<1>2. n \in Nat /\ n = Cardinality(Packages) + 1
  BY <1>1
<1> HIDE DEF n
<1>3. PICK a \in [0 .. n -> Packages \cup Constructors \cup {None}] :
           /\ a[0] = x
           /\ \A i \in 1 .. n : a[i] = IF a[i - 1] = None THEN None ELSE proto[c][a[i - 1]]
           /\ Walk(c, x, n) = a[n]
  <2>1. \E a \in [0 .. n -> Packages \cup Constructors \cup {None}] : Chain(a, c, x, n)
    BY <1>2, WalkDef
  <2>. QED BY <2>1 DEF Chain
<1>4. SUFFICES ASSUME a[n] # None PROVE FALSE
  BY <1>3 DEF n
<1>5. \A i \in 0 .. n : a[i] # None
  <2> DEFINE ends == {m \in 0 .. n : \A i \in 0 .. m : a[i] = None => a[m] = None}
             e == [i \in 0 .. n |-> i]
  <2>1. \A i \in 0 .. n : e[i] \in ends
    <3>1. e[0] \in ends
      BY <1>2
    <3>2. ASSUME NEW m \in 1 .. n, e[m - 1] \in ends PROVE e[m] \in ends
      <4>1. m - 1 \in 0 .. n /\ m \in 0 .. n /\ m - 1 \in ends
        BY <1>2, <3>2
      <4>2. a[m - 1] = None => a[m] = None
        BY <1>3
      <4>3. \A i \in 0 .. m : i = m \/ i \in 0 .. m - 1
        BY <1>2
      <4>. QED BY <4>1, <4>2, <4>3
    <3> HIDE DEF e, ends
    <3>. QED BY <1>2, <3>1, <3>2, Stays
  <2>2. n \in ends
    BY <1>2, <2>1
  <2>. QED BY <1>4, <2>2
<1>6. \A i \in 1 .. n : a[i] \in Packages /\ i - 1 \in 0 .. n /\ a[i] = proto[c][a[i - 1]]
  <2> SUFFICES ASSUME NEW i \in 1 .. n
               PROVE  a[i] \in Packages /\ i - 1 \in 0 .. n /\ a[i] = proto[c][a[i - 1]]
    OBVIOUS
  <2>1. i - 1 \in 0 .. n /\ i \in 0 .. n
    BY <1>2
  <2>2. a[i] = proto[c][a[i - 1]] /\ a[i] # None /\ a[i - 1] \in Packages \cup Constructors
    BY <1>3, <1>5, <2>1
  <2>. QED BY <2>1, <2>2 DEF CtlTypeOK
<1>7. PICK i, j \in 1 .. n : i < j /\ a[i] = a[j]
  <2> DEFINE f == [i \in 1 .. n |-> a[i]]
  <2>1. f \in [1 .. n -> Packages]
    BY <1>6
  <2>2. IsFiniteSet(1 .. n) /\ Cardinality(1 .. n) = n
    BY <1>2, FS_Interval
  <2>3. Cardinality(Packages) < Cardinality(1 .. n)
    BY <1>1, <1>2, <2>2
  <2>4. PICK u, v \in 1 .. n : u # v /\ f[u] = f[v]
    <3>1. \A A, B : IsFiniteSet(A) /\ IsFiniteSet(B) /\ Cardinality(B) < Cardinality(A) =>
            \A g \in [A -> B] : \E u, v \in A : u # v /\ g[u] = g[v]
      BY FS_PigeonHole
    <3>3. \A A : IsFiniteSet(A) /\ Cardinality(Packages) < Cardinality(A) =>
            \A g \in [A -> Packages] : \E u, v \in A : u # v /\ g[u] = g[v]
      BY <3>1, PackagesAssumption
    <3>2. \A g \in [1 .. n -> Packages] : \E u, v \in 1 .. n : u # v /\ g[u] = g[v]
      BY <2>2, <2>3, <3>3
    <3> HIDE DEF f
    <3>. QED BY <2>1, <3>2
  <2>5. a[u] = a[v] /\ (u < v \/ v < u)
    BY <1>2, <2>4
  <2>. QED BY <2>5
<1> DEFINE S == {a[m] : m \in i .. j - 1}
<1>8. S \in SUBSET Packages /\ S # {}
  <2>1. \A m \in i .. j - 1 : m \in 1 .. n
    BY <1>2
  <2>2. i \in i .. j - 1
    BY <1>2, <1>7
  <2>. QED BY <1>6, <2>1, <2>2
<1>9. PICK q \in S : proto[c][q] \notin S
  <2> HIDE DEF S
  <2>. QED BY <1>8 DEF NoRing
<1>10. PICK m \in i .. j - 1 : q = a[m]
  BY <1>9
<1>11. m + 1 \in 1 .. n /\ a[m + 1] = proto[c][a[m]]
  <2>1. m + 1 \in 1 .. n /\ (m + 1) - 1 = m
    BY <1>2, <1>7, <1>10
  <2>. QED BY <1>6, <2>1
<1>12. CASE m + 1 = j
  <2>1. i \in i .. j - 1
    BY <1>2, <1>7
  <2>. QED BY <1>7, <1>9, <1>10, <1>11, <1>12, <2>1
<1>13. CASE m + 1 # j
  <2>1. m + 1 \in i .. j - 1
    BY <1>2, <1>7, <1>10, <1>13
  <2>. QED BY <1>9, <1>10, <1>11, <2>1
<1>. QED BY <1>12, <1>13

-----------------------------------------------------------------------------
(* Theorems about JSPController.                                           *)

\* What a step does to the lists.
ListsKept ==
  \A c \in Contexts : list[c] \subseteq list'[c] /\ (c \in sealed => list'[c] = list[c])

\* Every step keeps them.
LEMMA ListsStep == CtlInv /\ [CtlNext]_ctlVars => ListsKept
<1> SUFFICES ASSUME CtlInv, [CtlNext]_ctlVars PROVE ListsKept
  OBVIOUS
<1>1. ASSUME NEW c \in Contexts, NEW p \in Packages, AddPackage(c, p) PROVE ListsKept
  <2>1. Landed(c, Added(c, Land(c), p))
    BY <1>1, LandTyped, AddedGrows, BecomesOK DEF CtlInv, AddPackage
  <2>. QED BY <2>1 DEF Landed, ListsKept
<1>2. ASSUME NEW c \in Contexts, NEW n \in Names, NEW p \in Packages,
             NEW b \in Binding, BoundTo(c, n, Added(c, Land(c), p), b)
      PROVE  ListsKept
  <2>1. Grows(c, Land(c), Added(c, Land(c), p))
    BY LandTyped, AddedGrows DEF CtlInv
  <2>2. Landed(c, Added(c, Land(c), p))
    BY <1>2, <2>1, BoundToOK DEF CtlInv
  <2>. QED BY <2>2 DEF Landed, ListsKept
<1>3. ASSUME NEW c \in Contexts, NEW n \in Names, NEW p \in Packages,
             \/ \E k \in Constructors : InstallConstructor(c, n, p, k)
             \/ InstallClass(c, n, p) \/ InstallIndirect(c, n, p)
      PROVE  ListsKept
  <2>1. PICK b \in Binding : BoundTo(c, n, Added(c, Land(c), p), b)
    <3>1. CASE \E k \in Constructors : InstallConstructor(c, n, p, k)
      <4>1. PICK k \in Constructors :
              BoundTo(c, n, Added(c, Land(c), p), [kind |-> "sub", is |-> k, meant |-> p])
        BY <3>1 DEF InstallConstructor
      <4>2. [kind |-> "sub", is |-> k, meant |-> p] \in Binding
        BY DEF Binding, Kinds
      <4>. QED BY <4>1, <4>2
    <3>2. CASE InstallClass(c, n, p)
      <4>1. [kind |-> "stash", is |-> p, meant |-> p] \in Binding
        BY DEF Binding, Kinds
      <4>. QED BY <3>2, <4>1 DEF InstallClass
    <3>3. CASE InstallIndirect(c, n, p)
      <4>1. [kind |-> "proxy", is |-> p, meant |-> p] \in Binding
        BY DEF Binding, Kinds
      <4>. QED BY <3>3, <4>1 DEF InstallIndirect
    <3>. QED BY <1>3, <3>1, <3>2, <3>3
  <2>. QED BY <1>2, <2>1
<1>4. CASE UNCHANGED list
  BY <1>4 DEF ListsKept
<1>. QED BY <1>1, <1>3, <1>4 DEF CtlNext, ctlVars, Secure, DropContext, SetConstructor, Unbind, Collect

(* Prototypes, constructors, names and tweaks stay of their kinds, and what is  *)
(* not in the list of a context has no constructor, prototype or tweaks there,  *)
(* whatever _chktweaks does up the inheritance (Controller.pm:62-105, 147-157,  *)
(* PJS_PerlSub.c:133-146).                                                      *)
THEOREM CtlTypes == CtlSpec => []CtlTypeOK
<1>1. CtlInv => CtlTypeOK
  BY DEF CtlInv
<1>. QED BY <1>1, CtlInitInv, CtlNextStep, PTL DEF CtlSpec

(* Whatever is installed in whatever order, has failed to be, is unbound or     *)
(* collected: a name that a constructor was bound to makes objects of the       *)
(* package it was bound for and calls its methods as those of that class, and   *)
(* static classes and indirect packages do as they were bound (BoundRight;      *)
(* Controller.pm:437-493, PJS_PerlSub.c:143-146).                               *)
THEOREM NamesAreRight == CtlSpec => []BoundRight
<1>1. CtlInv => BoundRight
  <2> SUFFICES ASSUME CtlInv, NEW c \in live, NEW n \in Names, bound[c][n] # None
               PROVE  LET b == bound[c][n]
                      IN  /\ b.kind = "sub" /\ Alone(c, b.meant) =>
                               Builds(c, n) = b.meant /\ Class(c, n) = b.meant
                          /\ b.kind = "stash" => Class(c, n) = b.meant
                          /\ b.kind = "proxy" => Class(c, n) = None
    BY DEF BoundRight
  <2> DEFINE b == bound[c][n]
  <2>1. c \in Contexts /\ b \in Binding /\ Telling(b)
    BY DEF CtlInv, CtlTypeOK, Tells
  <2>2. ASSUME b.kind = "sub", Alone(c, b.meant)
        PROVE  Builds(c, n) = b.meant /\ Class(c, n) = b.meant
    <3>1. Serving(c) /\ Named(c)
      BY <2>1, <2>2 DEF CtlInv, Lasting, Alone
    <3>2. con[c][b.meant] = b.is /\ b.is \in Constructors /\ b.meant \in Packages
      BY <2>1, <2>2, <3>1 DEF Named, Telling, Binding
    <3>3. serves[c][b.is] = b.meant /\ proto[c][b.is] = b.meant
      BY <2>2, <3>1, <3>2, NoneAssumption DEF Serving, Alone
    <3>. QED BY <2>2, <3>3 DEF Builds, Class
  <2>3. b.kind = "stash" => Class(c, n) = b.meant
    BY <2>1 DEF Telling, Class
  <2>4. b.kind = "proxy" => Class(c, n) = None
    BY DEF Class
  <2>. QED BY <2>2, <2>3, <2>4
<1>. QED BY <1>1, CtlInitInv, CtlNextStep, PTL DEF CtlSpec

(* Whatever subs the packages share, a lookup along the prototypes that         *)
(* perlsub_as_constructor strings together comes to its end (ChainEnds;         *)
(* PJS_PerlSub.c:143-146).                                                      *)
THEOREM ChainsEnd == CtlSpec => []ChainEnds
<1>1. CtlInv => ChainEnds
  <2> SUFFICES ASSUME CtlInv, NEW c \in live \ again, NEW x \in Packages \cup Constructors
               PROVE  Walk(c, x, Cardinality(Packages) + 1) = None
    BY DEF ChainEnds
  <2>1. c \in Contexts /\ NoRing(c)
    BY DEF CtlInv, CtlTypeOK, Lasting
  <2>. QED BY <2>1, NoRingNoWalk DEF CtlInv
<1>. QED BY <1>1, CtlInitInv, CtlNextStep, PTL DEF CtlSpec

(* A package that is in the list of a context stays in it, and a secured list   *)
(* takes no other, whatever an installation inherits and whatever it dies of:   *)
(* "Prevent further modifications to the controller's list" (the POD of         *)
(* secure, Controller.pm:543-547).                                              *)
THEOREM ListsAreKept == CtlSpec => [][ListsKept]_ctlVars
<1>. QED BY CtlInitInv, CtlNextStep, ListsStep, PTL DEF CtlSpec

=============================================================================
