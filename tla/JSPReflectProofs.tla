--------------------------- MODULE JSPReflectProofs ---------------------------
(***************************************************************************)
(* Theorems about JSPReflect, for every set of objects and contexts, every *)
(* bound and every use of AutoTie, when Perl does not hand an object of    *)
(* one context to another (Sharing = FALSE; with Sharing HeldUsable and    *)
(* CountCovers are false, and TLC shows how).                              *)
(*                                                                         *)
(* HeldUsable alone is not inductive: that a drop which reaches count 0 is *)
(* Perl's last needs the count to cover Perl's references, and that a      *)
(* collection frees no box under Perl needs an unrooted box to have the    *)
(* passport's single count.  Sound says both, for one object.              *)
(***************************************************************************)
EXTENDS JSPReflect, TLAPS

\* What holds of one object b when the contexts in live are live, and those in
\* st were once.
Sound(b, live, st) ==
  /\ b.jsref \subseteq {b.home} \cap live
  /\ b.pvis \subseteq {b.home} \cap live
  /\ b.heap = "free" => b.jsref = {} /\ b.pvis = {}
  /\ b.box = "boxed" => b.heap = "used"
  /\ b.box = "none" => b.pvis = {} /\ ~PerlHolds(b)
  /\ b.box # "none" => b.home \in st
  /\ b.home \in live =>
       /\ b.box = "boxed" /\ b.pvis # {} => b.rc >= Holders(b) /\ b.rc > 0
       /\ b.box = "boxed" /\ b.pvis = {} => b.rc = 1 /\ ~PerlHolds(b)
       /\ b.box \in {"final", "freed"} => b.heap = "free" /\ ~PerlHolds(b)

Started == {c \in Contexts : status[c] # "new"}

\* The inductive invariant.
IInv == TypeOK /\ \A x \in Objects : Sound(obj[x], Live, Started)

-----------------------------------------------------------------------------
\* The types of the fields, for steps that look at single fields.
LEMMA CellFields ==
  ASSUME NEW b \in Cell
  PROVE  /\ b.heap \in {"free", "used"} /\ b.cached \in BOOLEAN /\ b.code \in BOOLEAN
         /\ b.jsref \in SUBSET Contexts /\ b.pvis \in SUBSET Contexts
         /\ b.box \in BoxState /\ b.home \in Contexts
         /\ b.rc \in Nat /\ b.wrap \in Nat /\ b.tied \in Nat
BY DEF Cell

\* A record whose fields that matter to Sound are known is sound.
LEMMA SameSound ==
  ASSUME NEW live, NEW st, NEW a, NEW b, Sound(a, live, st),
         b.heap = a.heap, b.jsref = a.jsref, b.pvis = a.pvis,
         b.box = a.box, b.home = a.home, b.rc = a.rc,
         b.wrap = a.wrap, b.tied = a.tied
  PROVE  Sound(b, live, st)
BY DEF Sound, PerlHolds, Holders

\* A new cell is sound.
LEMMA NewCellSound ==
  ASSUME NEW live \in SUBSET Contexts, NEW st, NEW c \in live \cap st
  PROVE  NewCell(c) \in Cell /\ Sound(NewCell(c), live, st)
BY DEF NewCell, Cell, BoxState, Sound, PerlHolds, Holders

\* Perl's references and the count they make, as numbers.
LEMMA HoldersFacts ==
  ASSUME NEW b \in Cell
  PROVE  Holders(b) \in Nat /\ (Holders(b) = 0 <=> ~PerlHolds(b))
BY CellFields DEF Holders, PerlHolds

\* What the two halves of Boxed::DESTROY leave in the record.
LEMMA FreeRootFields ==
  ASSUME NEW b \in Cell
  PROVE  LET r == FreeRoot(b) IN
         /\ r \in Cell /\ r.heap = b.heap /\ r.jsref = b.jsref
         /\ r.pvis = b.pvis \ {b.home}
         /\ r.box = b.box /\ r.home = b.home /\ r.rc = 1
         /\ r.wrap = b.wrap /\ r.tied = b.tied
BY DEF FreeRoot, Cell

LEMMA DiscardFields ==
  ASSUME NEW b \in Cell
  PROVE  LET r == Discard(b) IN
         /\ r \in Cell /\ r.heap = b.heap /\ r.jsref = b.jsref
         /\ r.pvis = b.pvis
         /\ r.box = "freed" /\ r.home = b.home /\ r.rc = 0
         /\ r.wrap = b.wrap /\ r.tied = b.tied
BY DEF Discard, Cell, BoxState

\* sv_free of the box after one of Perl's references to it went.
LEMMA UnrefSound ==
  ASSUME NEW live \in SUBSET Contexts, NEW st, NEW a \in Cell, NEW b \in Cell,
         Sound(a, live, st), PerlHolds(a), Holders(b) = Holders(a) - 1,
         b.heap = a.heap, b.jsref = a.jsref, b.pvis = a.pvis,
         b.box = a.box, b.home = a.home, b.rc = a.rc
  PROVE  Unref(b, live) \in Cell /\ Sound(Unref(b, live), live, st)
<1> DEFINE r == Unref(b, live)
<1>1. Holders(a) \in Nat /\ Holders(b) \in Nat /\ (Holders(b) = 0 <=> ~PerlHolds(b))
  BY HoldersFacts
<1>2. b.rc \in Nat /\ b.pvis \in SUBSET Contexts /\ b.jsref \in SUBSET Contexts
  BY CellFields
<1>3. CASE b.rc > 1
  <2>1. r = [b EXCEPT !.rc = @ - 1] /\ b.rc - 1 \in Nat
    BY <1>2, <1>3 DEF Unref
  <2>2. /\ r \in Cell /\ r.heap = b.heap /\ r.jsref = b.jsref /\ r.pvis = b.pvis
        /\ r.box = b.box /\ r.home = b.home /\ r.rc = b.rc - 1
        /\ r.wrap = b.wrap /\ r.tied = b.tied
    BY <2>1 DEF Cell
  <2>3. Holders(r) = Holders(b) /\ (PerlHolds(r) <=> PerlHolds(b))
    BY <2>2 DEF Holders, PerlHolds
  <2> HIDE DEF r
  <2>4. Sound(r, live, st)
    BY <1>1, <1>2, <1>3, <2>2, <2>3 DEF Sound
  <2>5. QED
    BY <2>2, <2>4 DEF r
<1>4. CASE ~(b.rc > 1) /\ b.box = "boxed" /\ b.home \in live
  <2>1. r = FreeRoot(b)
    BY <1>4 DEF Unref
  <2>2. ~PerlHolds(b)
    BY <1>1, <1>2, <1>4 DEF Sound
  <2>3. b.pvis \ {b.home} = {} /\ b.heap = "used"
    BY <1>4 DEF Sound
  <2>4. /\ r \in Cell /\ r.heap = b.heap /\ r.jsref = b.jsref /\ r.pvis = {}
        /\ r.box = b.box /\ r.home = b.home /\ r.rc = 1
        /\ r.wrap = b.wrap /\ r.tied = b.tied
    <3>1. FreeRoot(b).pvis = b.pvis \ {b.home}
      BY FreeRootFields
    <3>2. r.pvis = {}
      BY <2>1, <2>3, <3>1
    <3>3. QED
      BY <2>1, <3>2, FreeRootFields
  <2>5. ~PerlHolds(r)
    BY <2>2, <2>4 DEF PerlHolds
  <2> HIDE DEF r
  <2>6. Sound(r, live, st)
    BY <1>4, <2>3, <2>4, <2>5 DEF Sound
  <2>7. QED
    BY <2>4, <2>6 DEF r
<1>5. CASE ~(b.rc > 1) /\ ~(b.box = "boxed" /\ b.home \in live)
  <2>1. r = Discard(b)
    BY <1>5 DEF Unref
  <2>2. /\ r \in Cell /\ r.heap = b.heap /\ r.jsref = b.jsref /\ r.pvis = b.pvis
        /\ r.box = "freed" /\ r.home = b.home
        /\ r.wrap = b.wrap /\ r.tied = b.tied
    BY <2>1, DiscardFields
  <2>3. a.home \notin live
    BY <1>5 DEF Sound, BoxState, Cell
  <2> HIDE DEF r
  <2>4. Sound(r, live, st)
    BY <2>2, <2>3 DEF Sound
  <2>5. QED
    BY <2>2, <2>4 DEF r
<1>6. QED
  BY <1>3, <1>4, <1>5

\* The finalizer of an object that nothing live reaches or roots.
LEMMA FinalizedSound ==
  ASSUME NEW live \in SUBSET Contexts, NEW st, NEW b \in Cell, Sound(b, live, st),
         b.jsref \cap live = {}, b.pvis \cap live = {}
  PROVE  Finalized(b) \in Cell /\ Sound(Finalized(b), live, st)
<1> DEFINE r == Finalized(b)
<1>1. b.jsref = {} /\ b.pvis = {}
  BY DEF Sound
<1>2. b.rc \in Nat /\ b.box \in BoxState
  BY CellFields
<1>3. /\ r \in Cell /\ r.heap = "free" /\ r.jsref = {} /\ r.pvis = {}
      /\ r.home = b.home /\ r.wrap = b.wrap /\ r.tied = b.tied
      /\ r.box \in BoxState \ {"boxed"}
      /\ r.box = "none" <=> b.box = "none"
  <2>1. CASE b.box = "boxed" /\ b.rc > 1
    <3>1. r = [b EXCEPT !.heap = "free", !.box = "final", !.rc = @ - 1]
              /\ b.rc - 1 \in Nat
      BY <1>2, <2>1 DEF Unref, Finalized, Cell
    <3>2. QED
      BY <1>1, <2>1, <3>1 DEF Cell, BoxState
  <2>2. CASE b.box = "boxed" /\ ~(b.rc > 1)
    <3> DEFINE d == [b EXCEPT !.heap = "free", !.box = "final"]
    <3>1. /\ d \in Cell /\ d.heap = "free" /\ d.jsref = b.jsref /\ d.pvis = b.pvis
          /\ d.box = "final" /\ d.home = b.home /\ d.rc = b.rc
          /\ d.wrap = b.wrap /\ d.tied = b.tied
      BY DEF Cell, BoxState
    <3>2. r = Unref(d, {})
      BY <2>2 DEF Finalized, Cell
    <3> HIDE DEF d
    <3>3. r = Discard(d)
      BY <2>2, <3>1, <3>2 DEF Unref
    <3>4. QED
      BY <1>1, <2>2, <3>1, <3>3, DiscardFields DEF BoxState
  <2>3. CASE b.box # "boxed"
    <3>1. r = [b EXCEPT !.heap = "free"]
      BY <2>3 DEF Finalized
    <3>2. QED
      BY <1>1, <1>2, <2>3, <3>1 DEF Cell
  <2>4. QED
    BY <2>1, <2>2, <2>3
<1>4. PerlHolds(r) <=> PerlHolds(b)
  BY <1>3 DEF PerlHolds
<1> HIDE DEF r
<1>5. b.home \in live => ~PerlHolds(b)
  BY <1>1, <1>2 DEF Sound, BoxState
<1>6. b.box = "none" => ~PerlHolds(b)
  BY DEF Sound
<1>7. Sound(r, live, st)
  BY <1>3, <1>4, <1>5, <1>6 DEF Sound
<1>8. QED
  BY <1>3, <1>7 DEF r

\* A collection keeps every object sound.
LEMMA CollectSound ==
  ASSUME NEW live \in SUBSET Contexts, NEW st, NEW o \in [Objects -> Cell],
         \A x \in Objects : Sound(o[x], live, st), CollectFrom(o, live)
  PROVE  obj' \in [Objects -> Cell] /\ \A x \in Objects : Sound(obj'[x], live, st)
<1>1. PICK S \in SUBSET Garbage(o, live) : obj' = Swept(o, S)
  BY DEF CollectFrom
<1>2. ASSUME NEW x \in Objects
      PROVE  obj'[x] \in Cell /\ Sound(obj'[x], live, st)
  <2>1. CASE x \in S
    <3>1. o[x].jsref \cap live = {} /\ o[x].pvis \cap live = {}
      BY <1>1, <2>1 DEF Garbage
    <3>2. QED
      BY <1>1, <2>1, <3>1, FinalizedSound DEF Swept
  <2>2. CASE x \notin S
    BY <1>1, <2>2 DEF Swept
  <2>3. QED
    BY <2>1, <2>2
<1>3. QED
  BY <1>1, <1>2 DEF Swept

-----------------------------------------------------------------------------
\* The first half of a reflection: the object is rooted, and the box has one
\* count more than Perl has references, for the reference about to be made.
LEMMA BoxedFields ==
  ASSUME NEW live \in SUBSET Contexts, NEW st, NEW c \in live \cap st, NEW a \in Cell,
         Sound(a, live, st), a.heap = "used", a.home = c
  PROVE  LET r == Boxed(a, c) IN
         /\ r \in Cell /\ r.heap = "used" /\ r.jsref = a.jsref /\ r.pvis = {c}
         /\ r.box = "boxed" /\ r.home = c
         /\ r.wrap = a.wrap /\ r.tied = a.tied
         /\ r.rc \in Nat /\ r.rc >= Holders(a) + 1
<1> DEFINE r == Boxed(a, c)
<1>1. /\ a.rc \in Nat /\ a.box \in BoxState /\ a.home \in Contexts
      /\ Holders(a) \in Nat /\ (Holders(a) = 0 <=> ~PerlHolds(a))
  BY CellFields, HoldersFacts
<1>2. a.box \notin {"final", "freed"}
  BY DEF Sound
<1>3. CASE c \in a.pvis
  <2>1. a.box = "boxed" /\ a.pvis = {c} /\ a.rc >= Holders(a)
    BY <1>1, <1>2, <1>3 DEF Sound, BoxState
  <2>2. r = [a EXCEPT !.rc = @ + 1] /\ a.rc + 1 \in Nat
    BY <1>1, <1>3 DEF Boxed
  <2>3. QED
    BY <1>1, <2>1, <2>2 DEF Cell
<1>4. CASE c \notin a.pvis /\ a.box # "none"
  <2>1. a.box = "boxed" /\ a.pvis = {} /\ a.rc = 1 /\ Holders(a) = 0
    BY <1>1, <1>2, <1>4 DEF Sound, BoxState
  <2>2. r = [a EXCEPT !.pvis = {c}]
    BY <1>4, <2>1 DEF Boxed
  <2>3. QED
    BY <1>1, <2>1, <2>2 DEF Cell
<1>5. CASE c \notin a.pvis /\ a.box = "none"
  <2>1. a.pvis = {} /\ Holders(a) = 0
    BY <1>1, <1>5 DEF Sound
  <2>2. r = [a EXCEPT !.box = "boxed", !.home = c, !.rc = 1, !.pvis = {c}]
    BY <1>5, <2>1 DEF Boxed
  <2>3. r \in Cell
    <3>1. {c} \in SUBSET Contexts /\ c \in Contexts /\ "boxed" \in BoxState /\ 1 \in Nat
      BY DEF BoxState
    <3>2. QED
      BY <2>2, <3>1 DEF Cell
  <2>4. /\ r.heap = a.heap /\ r.jsref = a.jsref /\ r.pvis = {c} /\ r.box = "boxed"
        /\ r.home = c /\ r.rc = 1 /\ r.wrap = a.wrap /\ r.tied = a.tied
    BY <2>2 DEF Cell
  <2> HIDE DEF r
  <2>5. QED
    BY <1>1, <2>1, <2>3, <2>4 DEF r
<1>6. QED
  BY <1>3, <1>4, <1>5

\* An object in pvisitors whose count covers Perl's references is sound.
LEMMA RootedSound ==
  ASSUME NEW live, NEW st, NEW r, r.heap = "used", r.jsref \subseteq {r.home},
         r.home \in live \cap st,
         r.pvis = {r.home}, r.box = "boxed", r.rc >= Holders(r), r.rc > 0
  PROVE  Sound(r, live, st)
BY DEF Sound

\* The second half, untied or tied.
LEMMA GivenSound ==
  ASSUME NEW live \in SUBSET Contexts, NEW st, NEW c \in live \cap st, NEW b \in Cell,
         b.heap = "used", b.jsref \subseteq {c}, b.pvis = {c}, b.box = "boxed",
         b.home = c, b.rc >= Holders(b) + 1
  PROVE  /\ Wrapped(b) \in Cell /\ Sound(Wrapped(b), live, st)
         /\ Tied(b, live) \in Cell /\ Sound(Tied(b, live), live, st)
<1>1. /\ b.rc \in Nat /\ b.wrap \in Nat /\ b.tied \in Nat /\ Holders(b) \in Nat
      /\ (b.tied > 0 => Holders(b) > 0)
  BY CellFields, HoldersFacts DEF PerlHolds
<1>2. Wrapped(b) \in Cell /\ Sound(Wrapped(b), live, st)
  <2> DEFINE r == Wrapped(b)
  <2>1. r = [b EXCEPT !.wrap = @ + 1] /\ b.wrap + 1 \in Nat
    BY <1>1 DEF Wrapped
  <2>2. /\ r \in Cell /\ r.heap = b.heap /\ r.jsref = b.jsref
        /\ r.pvis = b.pvis /\ r.box = b.box /\ r.home = b.home
        /\ r.rc = b.rc /\ r.wrap = b.wrap + 1 /\ r.tied = b.tied
    BY <2>1 DEF Cell
  <2> HIDE DEF r
  <2>3. r.rc >= Holders(r) /\ r.rc > 0
    BY <1>1, <2>2 DEF Holders
  <2>4. Sound(r, live, st)
    BY <2>2, <2>3, RootedSound
  <2>5. QED
    BY <2>2, <2>4 DEF r
<1>3. ASSUME b.tied > 0
      PROVE  Tied(b, live) \in Cell /\ Sound(Tied(b, live), live, st)
  <2> DEFINE d == [b EXCEPT !.tied = @ + 1]
             r == Tied(b, live)
  <2>1. b.tied + 1 \in Nat
    BY <1>1
  <2>2. /\ d \in Cell /\ d.heap = b.heap /\ d.jsref = b.jsref
        /\ d.pvis = b.pvis /\ d.box = b.box /\ d.home = b.home
        /\ d.rc = b.rc /\ d.wrap = b.wrap /\ d.tied = b.tied + 1
    BY <2>1 DEF Cell
  <2>3. r = Unref(d, live)
    BY <1>3 DEF Tied
  <2> HIDE DEF d
  <2>4. d.rc > 1 /\ d.rc - 1 \in Nat
    BY <1>1, <1>3, <2>2
  <2>5. r = [d EXCEPT !.rc = @ - 1]
    BY <2>3, <2>4 DEF Unref
  <2>6. /\ r \in Cell /\ r.heap = b.heap /\ r.jsref = b.jsref
        /\ r.pvis = b.pvis /\ r.box = b.box /\ r.home = b.home
        /\ r.rc = b.rc - 1 /\ r.wrap = b.wrap /\ r.tied = b.tied + 1
    BY <2>2, <2>4, <2>5 DEF Cell
  <2> HIDE DEF r
  <2>7. r.rc >= Holders(r) /\ r.rc > 0
    BY <1>1, <1>3, <2>6 DEF Holders
  <2>8. Sound(r, live, st)
    BY <2>6, <2>7, RootedSound
  <2>9. QED
    BY <2>6, <2>8 DEF r
<1>4. ASSUME ~(b.tied > 0)
      PROVE  Tied(b, live) \in Cell /\ Sound(Tied(b, live), live, st)
  <2> DEFINE r == Tied(b, live)
  <2>1. r = [b EXCEPT !.rc = @ + 1, !.tied = 1] /\ b.rc + 1 \in Nat
    BY <1>1, <1>4 DEF Tied
  <2>2. r \in Cell
    <3> DEFINE d == [b EXCEPT !.rc = @ + 1]
    <3>1. d \in Cell
      BY <2>1 DEF Cell
    <3>2. r = [d EXCEPT !.tied = 1]
      BY <2>1 DEF Cell
    <3> HIDE DEF d, r
    <3>3. QED
      BY <3>1, <3>2 DEF Cell
  <2>3. /\ r.heap = b.heap /\ r.jsref = b.jsref
        /\ r.pvis = b.pvis /\ r.box = b.box /\ r.home = b.home
        /\ r.rc = b.rc + 1 /\ r.wrap = b.wrap /\ r.tied = 1
    BY <2>1 DEF Cell
  <2> HIDE DEF r
  <2>4. r.rc >= Holders(r) /\ r.rc > 0
    BY <1>1, <1>4, <2>3 DEF Holders
  <2>5. Sound(r, live, st)
    BY <2>3, <2>4, RootedSound
  <2>6. QED
    BY <2>2, <2>5 DEF r
<1>5. QED
  BY <1>2, <1>3, <1>4

\* PJS_ReflectJS2Perl, whatever the caller asks for, keeps the object sound.
LEMMA ReflectedSound ==
  ASSUME TypeOK, NEW x \in Objects, NEW c \in Live, NEW a \in Cell,
         NEW full \in BOOLEAN, Sound(a, Live, Started), a.heap = "used", a.home = c
  PROVE  Reflected(x, a, c, full) \in Cell /\ Sound(Reflected(x, a, c, full), Live, Started)
<1>1. Live \in SUBSET Contexts /\ c \in Live \cap Started
  BY DEF Live, Started
<1> DEFINE b == Boxed(a, c)
<1>2. /\ b \in Cell /\ b.heap = "used" /\ b.jsref = a.jsref /\ b.pvis = {c}
      /\ b.box = "boxed" /\ b.home = c /\ b.wrap = a.wrap /\ b.tied = a.tied
      /\ b.rc >= Holders(a) + 1
  BY <1>1, BoxedFields
<1>3. b.jsref \subseteq {c}
  BY <1>2 DEF Sound
<1> HIDE DEF b
<1>4. Holders(b) = Holders(a)
  BY <1>2 DEF Holders
<1>5. /\ Wrapped(b) \in Cell /\ Sound(Wrapped(b), Live, Started)
      /\ Tied(b, Live) \in Cell /\ Sound(Tied(b, Live), Live, Started)
  BY <1>1, <1>2, <1>3, <1>4, GivenSound
<1>6. QED
  BY <1>5 DEF Reflected, b

-----------------------------------------------------------------------------
(* The steps.                                                              *)

\* A step that changes the record of one object only.
LEMMA SetSound ==
  ASSUME IInv, NEW x \in Objects, NEW r \in Cell, Sound(r, Live, Started),
         obj' = [obj EXCEPT ![x] = r]
  PROVE  obj' \in [Objects -> Cell] /\ \A y \in Objects : Sound(obj'[y], Live, Started)
<1>1. \A y \in Objects : obj'[y] = IF y = x THEN r ELSE obj[y]
  BY DEF IInv, TypeOK
<1>2. QED
  BY <1>1 DEF IInv, TypeOK

\* A step that changes one record and then collects.
LEMMA SetCollectSound ==
  ASSUME IInv, NEW x \in Objects, NEW r \in Cell, Sound(r, Live, Started),
         CollectFrom([obj EXCEPT ![x] = r], Live)
  PROVE  obj' \in [Objects -> Cell] /\ \A y \in Objects : Sound(obj'[y], Live, Started)
<1> DEFINE o == [obj EXCEPT ![x] = r]
<1>1. o \in [Objects -> Cell] /\ \A y \in Objects : o[y] = IF y = x THEN r ELSE obj[y]
  BY DEF IInv, TypeOK
<1>2. Live \in SUBSET Contexts
  BY DEF Live
<1>3. CollectFrom(o, Live)
  OBVIOUS
<1> HIDE DEF o
<1>4. \A y \in Objects : Sound(o[y], Live, Started)
  BY <1>1 DEF IInv
<1>5. QED
  BY <1>1, <1>2, <1>3, <1>4, CollectSound

\* What is left to say once the objects are known to be sound.
LEMMA KeepIInv ==
  ASSUME IInv, status' = status, held' \in SUBSET Contexts,
         autotie' \in [Contexts -> BOOLEAN],
         obj' \in [Objects -> Cell] /\ \A y \in Objects : Sound(obj'[y], Live, Started)
  PROVE  IInv'
<1>1. Live' = Live /\ Started' = Started
  BY DEF Live, Started
<1>2. QED
  BY <1>1 DEF IInv, TypeOK

\* The object a script of c hands over.
LEMMA GivenArgument ==
  ASSUME IInv, NEW x \in Objects, NEW c \in Live, NEW b \in {obj[x], NewCell(c)},
         b = obj[x] => b.heap = "used" /\ c \in b.jsref
  PROVE  b \in Cell /\ Sound(b, Live, Started) /\ b.heap = "used" /\ b.home = c
<1>1. c \in Live \cap Started /\ Live \in SUBSET Contexts
  BY DEF Live, Started
<1>2. CASE b = obj[x]
  BY <1>2 DEF IInv, TypeOK, Sound
<1>3. CASE b = NewCell(c)
  <2>1. b.heap = "used" /\ b.home = c
    BY <1>3 DEF NewCell
  <2>2. QED
    BY <1>1, <1>3, <2>1, NewCellSound
<1>4. QED
  BY <1>2, <1>3

\* The script may change which of its globals reach the object.
LEMMA ReachedSound ==
  ASSUME NEW c \in Live, NEW b \in Cell, Sound(b, Live, Started), b.heap = "used",
         b.home = c, NEW R \in SUBSET {c}
  PROVE  LET a == [b EXCEPT !.jsref = R] IN
         a \in Cell /\ Sound(a, Live, Started) /\ a.heap = "used" /\ a.home = c
<1>1. R \in SUBSET Contexts
  BY DEF Live
<1> DEFINE a == [b EXCEPT !.jsref = R]
<1>2. /\ a \in Cell /\ a.heap = b.heap /\ a.jsref = R /\ a.pvis = b.pvis
      /\ a.box = b.box /\ a.home = b.home /\ a.rc = b.rc /\ a.wrap = b.wrap
      /\ a.tied = b.tied
  BY <1>1 DEF Cell
<1> HIDE DEF a
<1>3. Holders(a) = Holders(b) /\ (PerlHolds(a) <=> PerlHolds(b))
  BY <1>2 DEF Holders, PerlHolds
<1>4. Sound(a, Live, Started)
  BY <1>2, <1>3 DEF Sound
<1>5. QED
  BY <1>2, <1>4 DEF a

LEMMA EvalStep ==
  ASSUME IInv, NEW x \in Objects, NEW c \in Contexts, NEW keep \in BOOLEAN,
         Eval(x, c, keep)
  PROVE  IInv'
<1>1. PICK b \in {obj[x], NewCell(c)} :
        /\ IF b = obj[x] THEN b.heap = "used" /\ c \in b.jsref ELSE Unused(obj[x])
        /\ LET left == [b EXCEPT !.jsref = IF keep THEN @ \cup {c} ELSE @ \ {c}]
           IN  CollectFrom([obj EXCEPT ![x] = Reflected(x, left, c, TRUE)], Live)
  BY DEF Eval
<1>2. c \in Live
  BY DEF Eval, Running
<1> DEFINE R == IF keep THEN b.jsref \cup {c} ELSE b.jsref \ {c}
           left == [b EXCEPT !.jsref = R]
<1>3. b.jsref \subseteq {c}
  <2>1. NewCell(c).jsref = {}
    BY DEF NewCell
  <2>2. obj[x].heap = "used" /\ c \in obj[x].jsref => obj[x].jsref \subseteq {c}
    BY DEF IInv, Sound
  <2>3. QED
    BY <1>1, <2>1, <2>2
<1>4. R \in SUBSET {c}
  BY <1>3
<1>5. left \in Cell /\ Sound(left, Live, Started) /\ left.heap = "used" /\ left.home = c
  <2> HIDE DEF R
  <2>1. b \in Cell /\ Sound(b, Live, Started) /\ b.heap = "used" /\ b.home = c
    BY <1>1, <1>2, GivenArgument
  <2>2. QED
    BY <1>2, <1>4, <2>1, ReachedSound
<1>6. CollectFrom([obj EXCEPT ![x] = Reflected(x, left, c, TRUE)], Live)
  BY <1>1
<1> HIDE DEF left
<1>7. TypeOK
  BY DEF IInv
<1>8. /\ Reflected(x, left, c, TRUE) \in Cell
      /\ Sound(Reflected(x, left, c, TRUE), Live, Started)
  BY <1>2, <1>5, <1>7, ReflectedSound
<1>9. obj' \in [Objects -> Cell] /\ \A y \in Objects : Sound(obj'[y], Live, Started)
  BY <1>6, <1>8, SetCollectSound
<1>10. QED
  BY <1>7, <1>9, KeepIInv DEF Eval, TypeOK

LEMMA ReflectUntiedStep ==
  ASSUME IInv, NEW x \in Objects, NEW c \in Contexts, ReflectUntied(x, c)
  PROVE  IInv'
<1>1. PICK b \in {obj[x], NewCell(c)} :
        /\ IF b = obj[x] THEN b.heap = "used" /\ c \in b.jsref ELSE Unused(obj[x])
        /\ obj' = [obj EXCEPT ![x] = Reflected(x, b, c, FALSE)]
  BY DEF ReflectUntied
<1>2. c \in Live /\ TypeOK
  BY DEF ReflectUntied, Running, IInv
<1>3. b \in Cell /\ Sound(b, Live, Started) /\ b.heap = "used" /\ b.home = c
  BY <1>1, <1>2, GivenArgument
<1>4. /\ Reflected(x, b, c, FALSE) \in Cell
      /\ Sound(Reflected(x, b, c, FALSE), Live, Started)
  BY <1>2, <1>3, ReflectedSound
<1>5. obj' \in [Objects -> Cell] /\ \A y \in Objects : Sound(obj'[y], Live, Started)
  BY <1>1, <1>4, SetSound
<1>6. QED
  BY <1>2, <1>5, KeepIInv DEF ReflectUntied, TypeOK

LEMMA EvalForgetStep ==
  ASSUME IInv, NEW x \in Objects, NEW c \in Contexts, EvalForget(x, c)
  PROVE  IInv'
<1> DEFINE b == obj[x]
           r == [b EXCEPT !.jsref = @ \ {c}]
<1>1. b \in Cell /\ Sound(b, Live, Started) /\ TypeOK
  BY DEF IInv, TypeOK
<1>2. CollectFrom([obj EXCEPT ![x] = r], Live)
  BY DEF EvalForget
<1> HIDE DEF b
<1>3. /\ r \in Cell /\ r.heap = b.heap /\ r.jsref = b.jsref \ {c}
      /\ r.pvis = b.pvis /\ r.box = b.box /\ r.home = b.home
      /\ r.rc = b.rc /\ r.wrap = b.wrap /\ r.tied = b.tied
  BY <1>1 DEF Cell
<1> HIDE DEF r
<1>4. Holders(r) = Holders(b) /\ (PerlHolds(r) <=> PerlHolds(b))
  BY <1>3 DEF Holders, PerlHolds
<1>5. Sound(r, Live, Started)
  BY <1>1, <1>3, <1>4 DEF Sound
<1>6. obj' \in [Objects -> Cell] /\ \A y \in Objects : Sound(obj'[y], Live, Started)
  BY <1>2, <1>3, <1>5, SetCollectSound
<1>7. QED
  BY <1>1, <1>6, KeepIInv DEF EvalForget, TypeOK

LEMMA PassStep ==
  ASSUME IInv, Sharing = FALSE, NEW x \in Objects, NEW c \in Contexts, Pass(x, c)
  PROVE  IInv'
<1> DEFINE b == obj[x]
           r == [b EXCEPT !.jsref = @ \cup {c}]
<1>1. b \in Cell /\ Sound(b, Live, Started) /\ TypeOK
  BY DEF IInv, TypeOK
<1>2. obj' = [obj EXCEPT ![x] = r] /\ c = b.home /\ c \in Live /\ b.heap = "used"
  BY <1>1 DEF Pass, Running, Sound
<1> HIDE DEF b
<1>3. b.jsref \cup {c} \in SUBSET Contexts
  BY <1>1, CellFields
<1>4. /\ r \in Cell /\ r.heap = b.heap /\ r.jsref = b.jsref \cup {c}
      /\ r.pvis = b.pvis /\ r.box = b.box /\ r.home = b.home
      /\ r.rc = b.rc /\ r.wrap = b.wrap /\ r.tied = b.tied
  BY <1>1, <1>3 DEF Cell
<1> HIDE DEF r
<1>5. Holders(r) = Holders(b) /\ (PerlHolds(r) <=> PerlHolds(b))
  BY <1>4 DEF Holders, PerlHolds
<1>6. Sound(r, Live, Started)
  BY <1>1, <1>2, <1>4, <1>5 DEF Sound
<1>7. obj' \in [Objects -> Cell] /\ \A y \in Objects : Sound(obj'[y], Live, Started)
  BY <1>2, <1>4, <1>6, SetSound
<1>8. QED
  BY <1>1, <1>7, KeepIInv DEF Pass, TypeOK

\* An object that Perl holds gets one more reference, counted or covered.
LEMMA MoreSound ==
  ASSUME NEW live, NEW st, NEW b \in Cell, NEW r \in Cell, Sound(b, live, st),
         PerlHolds(b), PerlHolds(r),
         r.heap = b.heap, r.jsref = b.jsref, r.pvis = b.pvis, r.box = b.box,
         r.home = b.home, r.rc >= b.rc, r.rc - b.rc >= Holders(r) - Holders(b)
  PROVE  Sound(r, live, st)
<1>1. /\ b.rc \in Nat /\ r.rc \in Nat /\ Holders(b) \in Nat /\ Holders(r) \in Nat
  BY CellFields, HoldersFacts
<1>2. QED
  BY <1>1 DEF Sound

LEMMA HashRefStep ==
  ASSUME IInv, NEW x \in Objects, HashRef(x)
  PROVE  IInv'
<1> DEFINE b == obj[x]
           r == IF b.tied > 0 THEN [b EXCEPT !.tied = @ + 1]
                ELSE [b EXCEPT !.rc = @ + 1, !.tied = 1]
<1>1. b \in Cell /\ Sound(b, Live, Started) /\ TypeOK /\ PerlHolds(b)
  BY DEF IInv, TypeOK, HashRef, PerlHolds
<1>2. obj' = [obj EXCEPT ![x] = r]
  BY DEF HashRef
<1> HIDE DEF b
<1>3. b.rc \in Nat /\ b.wrap \in Nat /\ b.tied \in Nat
      /\ b.rc + 1 \in Nat /\ b.tied + 1 \in Nat
  BY <1>1, CellFields
<1>4. /\ r \in Cell /\ r.heap = b.heap /\ r.jsref = b.jsref
      /\ r.pvis = b.pvis /\ r.box = b.box /\ r.home = b.home /\ r.wrap = b.wrap
      /\ (b.tied > 0 => r.rc = b.rc /\ r.tied = b.tied + 1)
      /\ (~(b.tied > 0) => r.rc = b.rc + 1 /\ r.tied = 1)
  <2>1. CASE b.tied > 0
    <3>1. r = [b EXCEPT !.tied = @ + 1]
      BY <2>1
    <3> HIDE DEF r
    <3>2. QED
      BY <1>1, <1>3, <2>1, <3>1 DEF Cell
  <2>2. CASE ~(b.tied > 0)
    <3> DEFINE d == [b EXCEPT !.rc = @ + 1]
    <3>1. d \in Cell
      BY <1>1, <1>3 DEF Cell
    <3>2. r = [d EXCEPT !.tied = 1]
      BY <1>1, <2>2 DEF Cell
    <3>3. /\ r.heap = b.heap /\ r.jsref = b.jsref
          /\ r.pvis = b.pvis /\ r.box = b.box /\ r.home = b.home
          /\ r.wrap = b.wrap /\ r.rc = b.rc + 1 /\ r.tied = 1
      BY <1>1, <2>2 DEF Cell
    <3> HIDE DEF d, r
    <3>4. r \in Cell
      BY <3>1, <3>2 DEF Cell
    <3>5. QED
      BY <2>2, <3>3, <3>4
  <2>3. QED
    BY <2>1, <2>2
<1> HIDE DEF r
<1>5. PerlHolds(r) /\ r.rc >= b.rc /\ r.rc - b.rc >= Holders(r) - Holders(b)
  BY <1>3, <1>4 DEF Holders, PerlHolds
<1>6. Sound(r, Live, Started)
  BY <1>1, <1>4, <1>5, MoreSound
<1>7. obj' \in [Objects -> Cell] /\ \A y \in Objects : Sound(obj'[y], Live, Started)
  BY <1>2, <1>4, <1>6, SetSound
<1>8. QED
  BY <1>1, <1>7, KeepIInv DEF HashRef, TypeOK

\* Perl's own copies of a reference: tied and the assignment of a wrapper.
LEMMA CopyStep ==
  ASSUME IInv, NEW x \in Objects, TiedOperator(x) \/ CopyWrapper(x)
  PROVE  IInv'
<1> DEFINE b == obj[x]
           r == [b EXCEPT !.wrap = @ + 1, !.rc = @ + 1]
<1>1. b \in Cell /\ Sound(b, Live, Started) /\ TypeOK /\ PerlHolds(b)
  BY DEF IInv, TypeOK, TiedOperator, CopyWrapper, PerlHolds
<1>2. obj' = [obj EXCEPT ![x] = r]
  BY <1>1 DEF TiedOperator, CopyWrapper, TypeOK
<1> HIDE DEF b
<1>3. b.rc \in Nat /\ b.wrap \in Nat /\ b.tied \in Nat
      /\ b.rc + 1 \in Nat /\ b.wrap + 1 \in Nat
  BY <1>1, CellFields
<1>4. /\ r \in Cell /\ r.heap = b.heap /\ r.jsref = b.jsref
      /\ r.pvis = b.pvis /\ r.box = b.box /\ r.home = b.home
      /\ r.wrap = b.wrap + 1 /\ r.tied = b.tied /\ r.rc = b.rc + 1
  BY <1>1, <1>3 DEF Cell
<1> HIDE DEF r
<1>5. PerlHolds(r) /\ r.rc >= b.rc /\ r.rc - b.rc >= Holders(r) - Holders(b)
  BY <1>3, <1>4 DEF Holders, PerlHolds
<1>6. Sound(r, Live, Started)
  BY <1>1, <1>4, <1>5, MoreSound
<1>7. obj' \in [Objects -> Cell] /\ \A y \in Objects : Sound(obj'[y], Live, Started)
  BY <1>2, <1>4, <1>6, SetSound
<1>8. QED
  BY <1>1, <1>7, KeepIInv DEF TiedOperator, CopyWrapper, TypeOK

\* Perl lets one count go.
LEMMA ReleaseSound ==
  ASSUME IInv, NEW x \in Objects, NEW b \in Cell, PerlHolds(obj[x]),
         Holders(b) = Holders(obj[x]) - 1,
         b.heap = obj[x].heap, b.jsref = obj[x].jsref, b.pvis = obj[x].pvis,
         b.box = obj[x].box, b.home = obj[x].home, b.rc = obj[x].rc,
         Release(x, b)
  PROVE  obj' \in [Objects -> Cell] /\ \A y \in Objects : Sound(obj'[y], Live, Started)
<1>1. obj[x] \in Cell /\ Sound(obj[x], Live, Started) /\ Live \in SUBSET Contexts
  BY DEF IInv, TypeOK, Live
<1>2. Unref(b, Live) \in Cell /\ Sound(Unref(b, Live), Live, Started)
  BY <1>1, UnrefSound
<1>3. CASE FreesRoot(b, Live)
  <2>1. CollectFrom([obj EXCEPT ![x] = Unref(b, Live)], Live)
    BY <1>3 DEF Release
  <2>2. QED
    BY <1>2, <2>1, SetCollectSound
<1>4. CASE ~FreesRoot(b, Live)
  <2>1. obj' = [obj EXCEPT ![x] = Unref(b, Live)]
    BY <1>4 DEF Release
  <2>2. QED
    BY <1>2, <2>1, SetSound
<1>5. QED
  BY <1>3, <1>4

LEMMA DropWrapperStep ==
  ASSUME IInv, NEW x \in Objects, DropWrapper(x)
  PROVE  IInv'
<1> DEFINE a == obj[x]
           b == [a EXCEPT !.wrap = @ - 1]
<1>1. a \in Cell /\ TypeOK /\ PerlHolds(a) /\ a.wrap > 0 /\ Release(x, b)
  BY DEF IInv, TypeOK, DropWrapper, PerlHolds
<1> HIDE DEF a
<1>2. a.wrap \in Nat /\ a.tied \in Nat /\ a.wrap - 1 \in Nat
  BY <1>1, CellFields
<1>3. /\ b \in Cell /\ b.heap = a.heap /\ b.jsref = a.jsref
      /\ b.pvis = a.pvis /\ b.box = a.box /\ b.home = a.home
      /\ b.wrap = a.wrap - 1 /\ b.tied = a.tied /\ b.rc = a.rc
  BY <1>1, <1>2 DEF Cell
<1> HIDE DEF b
<1>4. Holders(b) = Holders(a) - 1
  BY <1>2, <1>3 DEF Holders
<1>5. obj' \in [Objects -> Cell] /\ \A y \in Objects : Sound(obj'[y], Live, Started)
  BY <1>1, <1>3, <1>4, ReleaseSound DEF a
<1>6. QED
  BY <1>1, <1>5, KeepIInv DEF DropWrapper, TypeOK

LEMMA DropTiedStep ==
  ASSUME IInv, NEW x \in Objects, DropTied(x)
  PROVE  IInv'
<1> DEFINE a == obj[x]
           b == [a EXCEPT !.tied = @ - 1]
<1>1. /\ a \in Cell /\ Sound(a, Live, Started) /\ TypeOK /\ PerlHolds(a) /\ a.tied > 0
      /\ IF b.tied > 0 THEN obj' = [obj EXCEPT ![x] = b] ELSE Release(x, b)
  BY DEF IInv, TypeOK, DropTied, PerlHolds
<1> HIDE DEF a
<1>2. a.wrap \in Nat /\ a.tied \in Nat /\ a.tied - 1 \in Nat /\ a.rc \in Nat
  BY <1>1, CellFields
<1>3. /\ b \in Cell /\ b.heap = a.heap /\ b.jsref = a.jsref
      /\ b.pvis = a.pvis /\ b.box = a.box /\ b.home = a.home
      /\ b.wrap = a.wrap /\ b.tied = a.tied - 1 /\ b.rc = a.rc
  BY <1>1, <1>2 DEF Cell
<1> HIDE DEF b
<1>4. obj' \in [Objects -> Cell] /\ \A y \in Objects : Sound(obj'[y], Live, Started)
  <2>1. CASE b.tied > 0
    <3>1. PerlHolds(b) /\ b.rc >= a.rc /\ b.rc - a.rc >= Holders(b) - Holders(a)
      BY <1>1, <1>2, <1>3, <2>1 DEF Holders, PerlHolds
    <3>2. Sound(b, Live, Started)
      BY <1>1, <1>3, <3>1, MoreSound
    <3>3. QED
      BY <1>1, <1>3, <2>1, <3>2, SetSound
  <2>2. CASE ~(b.tied > 0)
    <3>1. Holders(b) = Holders(a) - 1
      BY <1>1, <1>2, <1>3, <2>2 DEF Holders
    <3>2. QED
      BY <1>1, <1>3, <2>2, <3>1, ReleaseSound DEF a
  <2>3. QED
    BY <2>1, <2>2
<1>5. QED
  BY <1>1, <1>4, KeepIInv DEF DropTied, TypeOK

\* The coderef is neither counted nor rooted: nothing Sound speaks of changes.
LEMMA CodeStep ==
  ASSUME IInv, NEW x \in Objects,
         (\E keep \in BOOLEAN : CodeRef(x, keep)) \/ DropCode(x)
  PROVE  IInv'
<1> DEFINE b == obj[x]
<1>1. b \in Cell /\ Sound(b, Live, Started) /\ TypeOK
  BY DEF IInv, TypeOK
<1>2. PICK k \in BOOLEAN, d \in BOOLEAN :
        obj' = [obj EXCEPT ![x] = [b EXCEPT !.cached = k, !.code = d]]
  <2>1. CASE \E keep \in BOOLEAN : CodeRef(x, keep)
    <3>1. PICK keep \in BOOLEAN : CodeRef(x, keep)
      BY <2>1
    <3>2. obj' = [obj EXCEPT ![x] = [b EXCEPT !.cached = TRUE, !.code = b.code \/ keep]]
      BY <3>1 DEF CodeRef
    <3>3. TRUE \in BOOLEAN /\ (b.code \/ keep) \in BOOLEAN
      OBVIOUS
    <3> HIDE DEF b
    <3>4. QED
      BY <3>2, <3>3
  <2>2. CASE DropCode(x)
    <3>1. obj' = [obj EXCEPT ![x] = [b EXCEPT !.code = FALSE]]
      BY <2>2 DEF DropCode
    <3>2. [b EXCEPT !.code = FALSE] = [b EXCEPT !.cached = b.cached, !.code = FALSE]
      BY <1>1 DEF Cell
    <3>3. b.cached \in BOOLEAN /\ FALSE \in BOOLEAN
      BY <1>1, CellFields
    <3> HIDE DEF b
    <3>4. QED
      BY <3>1, <3>2, <3>3
  <2>3. QED
    BY <2>1, <2>2
<1> HIDE DEF b
<1> DEFINE r == [b EXCEPT !.cached = k, !.code = d]
<1>3. /\ r \in Cell /\ r.heap = b.heap /\ r.jsref = b.jsref
      /\ r.pvis = b.pvis /\ r.box = b.box /\ r.home = b.home
      /\ r.rc = b.rc /\ r.wrap = b.wrap /\ r.tied = b.tied
  BY <1>1 DEF Cell
<1>4. obj' = [obj EXCEPT ![x] = r]
  BY <1>2
<1> HIDE DEF r
<1>5. Sound(r, Live, Started)
  BY <1>1, <1>3, SameSound
<1>6. obj' \in [Objects -> Cell] /\ \A y \in Objects : Sound(obj'[y], Live, Started)
  BY <1>3, <1>4, <1>5, SetSound
<1>7. QED
  BY <1>1, <1>6, KeepIInv DEF CodeRef, DropCode, TypeOK

\* PJS_DestroyContext: nothing of the context's own is reached or rooted.
LEMMA DestroyStep ==
  ASSUME IInv, NEW c \in Contexts, DestroyContext(c)
  PROVE  IInv'
<1> DEFINE live == Live \ {c}
           o == [x \in Objects |-> [obj[x] EXCEPT !.jsref = @ \ {c}, !.pvis = @ \ {c}]]
<1>1. TypeOK /\ live \in SUBSET Contexts /\ CollectFrom(o, live)
  BY DEF IInv, Live, DestroyContext
<1>2. ASSUME NEW x \in Objects
      PROVE  o[x] \in Cell /\ Sound(o[x], live, Started)
  <2> DEFINE b == obj[x]
             r == [b EXCEPT !.jsref = @ \ {c}, !.pvis = @ \ {c}]
  <2>1. b \in Cell /\ Sound(b, Live, Started) /\ o[x] = r
    BY DEF IInv, TypeOK
  <2> HIDE DEF b, o
  <2>2. /\ r.heap = b.heap /\ r.jsref = b.jsref \ {c}
        /\ r.pvis = b.pvis \ {c} /\ r.box = b.box /\ r.home = b.home
        /\ r.rc = b.rc /\ r.wrap = b.wrap /\ r.tied = b.tied
    BY <2>1 DEF Cell
  <2>3. r \in Cell
    <3>1. b.jsref \ {c} \in SUBSET Contexts /\ b.pvis \ {c} \in SUBSET Contexts
      BY <2>1, CellFields
    <3>2. QED
      BY <2>1, <3>1 DEF Cell
  <2> HIDE DEF r
  <2>4. Holders(r) = Holders(b) /\ (PerlHolds(r) <=> PerlHolds(b))
    BY <2>2 DEF Holders, PerlHolds
  <2>5. b.home = c \/ (c \notin b.jsref /\ c \notin b.pvis)
    BY <2>1 DEF Sound
  <2>6. Sound(r, live, Started)
    BY <2>1, <2>2, <2>4, <2>5 DEF Sound
  <2>7. QED
    BY <2>1, <2>3, <2>6
<1>3. o \in [Objects -> Cell]
  BY <1>2
<1> HIDE DEF o
<1>4. obj' \in [Objects -> Cell] /\ \A y \in Objects : Sound(obj'[y], live, Started)
  <2> HIDE DEF live
  <2>1. QED
    BY <1>1, <1>2, <1>3, CollectSound
<1>5. Live' = live /\ Started' = Started
  BY <1>1 DEF DestroyContext, Doomed, Live, Started, TypeOK
<1>6. /\ status' \in [Contexts -> {"new", "live", "dead"}]
      /\ held' = held /\ autotie' = autotie
  BY <1>1 DEF DestroyContext, TypeOK
<1>7. QED
  BY <1>1, <1>4, <1>5, <1>6 DEF IInv, TypeOK

LEMMA NewContextStep ==
  ASSUME IInv, NEW c \in Contexts, NewContext(c)
  PROVE  IInv'
<1>1. TypeOK /\ status[c] = "new" /\ status' = [status EXCEPT ![c] = "live"] /\ obj' = obj
  BY DEF IInv, NewContext
<1>2. Live' = Live \cup {c} /\ Started' = Started \cup {c} /\ c \notin Started
  BY <1>1 DEF Live, Started, TypeOK
<1>3. ASSUME NEW x \in Objects
      PROVE  Sound(obj'[x], Live', Started')
  <2>1. Sound(obj[x], Live, Started) /\ obj'[x] = obj[x]
    BY <1>1 DEF IInv
  <2>2. QED
    BY <1>2, <2>1 DEF Sound
<1>4. TypeOK'
  <2>1. PICK v \in AutoTieValues : autotie' = [autotie EXCEPT ![c] = v]
    BY DEF NewContext
  <2>2. autotie' \in [Contexts -> BOOLEAN]
    BY <1>1, <2>1, AutoTieAssumption DEF TypeOK
  <2>3. held' \in SUBSET Contexts
    BY <1>1 DEF NewContext, TypeOK
  <2>4. QED
    BY <1>1, <2>2, <2>3 DEF TypeOK
<1>5. QED
  BY <1>3, <1>4 DEF IInv

LEMMA InitIInv == Init => IInv
<1> SUFFICES ASSUME Init PROVE IInv
  OBVIOUS
<1> DEFINE c0 == CHOOSE c \in Contexts : TRUE
           r == [NewCell(c0) EXCEPT !.heap = "free"]
<1>1. c0 \in Contexts
  BY ContextsAssumption
<1>2. obj = [x \in Objects |-> r] /\ Live = {}
  BY DEF Init, Live
<1> HIDE DEF c0
<1>3. /\ r \in Cell /\ r.heap = "free" /\ r.jsref = {} /\ r.pvis = {}
      /\ r.box = "none" /\ r.home = c0 /\ r.wrap = 0 /\ r.tied = 0
  BY <1>1 DEF NewCell, Cell, BoxState
<1> HIDE DEF r
<1>4. Sound(r, Live, Started)
  BY <1>2, <1>3 DEF Sound, PerlHolds
<1>5. TypeOK
  BY <1>2, <1>3 DEF Init, TypeOK
<1>6. QED
  BY <1>2, <1>4, <1>5 DEF IInv

\* Every step keeps the invariant.
LEMMA NextIInv ==
  ASSUME Sharing = FALSE, IInv, [Next]_vars
  PROVE  IInv'
<1>1. CASE UNCHANGED vars
  BY <1>1 DEF vars, IInv, TypeOK, Live, Started
<1>2. ASSUME NEW c \in Contexts, NewContext(c) PROVE IInv'
  BY <1>2, NewContextStep
<1>3. ASSUME NEW c \in Contexts, NEW v \in AutoTieValues, SetAutoTie(c, v) PROVE IInv'
  <2>1. autotie' \in [Contexts -> BOOLEAN]
    BY <1>3, AutoTieAssumption DEF SetAutoTie, IInv, TypeOK
  <2>2. QED
    BY <1>3, <2>1, KeepIInv DEF SetAutoTie, IInv, TypeOK
<1>4. ASSUME NEW c \in Contexts, DropContext(c) PROVE IInv'
  BY <1>4, KeepIInv DEF DropContext, IInv, TypeOK
<1>5. ASSUME NEW c \in Contexts, DestroyContext(c) PROVE IInv'
  BY <1>5, DestroyStep
<1>6. ASSUME NEW S \in SUBSET Garbage(obj, Live), GC(S) PROVE IInv'
  <2>1. obj \in [Objects -> Cell] /\ Live \in SUBSET Contexts
    BY DEF IInv, TypeOK, Live
  <2>2. CollectFrom(obj, Live)
    BY <1>6 DEF GC, CollectFrom
  <2>3. obj' \in [Objects -> Cell] /\ \A y \in Objects : Sound(obj'[y], Live, Started)
    BY <2>1, <2>2, CollectSound DEF IInv
  <2>4. QED
    BY <1>6, <2>3, KeepIInv DEF GC, IInv, TypeOK
<1>7. ASSUME NEW x \in Objects, NEW c \in Contexts,
             \/ \E keep \in BOOLEAN : Eval(x, c, keep)
             \/ EvalForget(x, c) \/ ReflectUntied(x, c) \/ Pass(x, c)
      PROVE  IInv'
  BY <1>7, EvalStep, EvalForgetStep, ReflectUntiedStep, PassStep
<1>8. ASSUME NEW x \in Objects,
             \/ HashRef(x) \/ TiedOperator(x) \/ CopyWrapper(x)
             \/ DropWrapper(x) \/ DropTied(x)
             \/ \E keep \in BOOLEAN : CodeRef(x, keep)
             \/ DropCode(x)
      PROVE  IInv'
  BY <1>8, HashRefStep, CopyStep, DropWrapperStep, DropTiedStep, CodeStep
<1>9. QED
  BY <1>1, <1>2, <1>3, <1>4, <1>5, <1>6, <1>7, <1>8 DEF Next

\* What the invariant says to a user of a wrapper.
LEMMA SafeFromIInv ==
  ASSUME IInv
  PROVE  TypeOK /\ HeldUsable /\ CountCovers /\ PassportSound
<1>1. ASSUME NEW x \in Objects, obj[x].home \in Live
      PROVE  LET b == obj[x] IN
             /\ PerlHolds(b) => b.heap = "used" /\ b.box = "boxed" /\ b.home \in b.pvis
             /\ b.rc >= Holders(b)
             /\ b.heap = "used" /\ b.box # "none" => b.box = "boxed" /\ b.rc > 0
  <2> DEFINE b == obj[x]
  <2>1. b \in Cell /\ Sound(b, Live, Started) /\ b.home \in Live
    BY <1>1 DEF IInv, TypeOK
  <2> HIDE DEF b
  <2>2. /\ b.box \in BoxState /\ b.rc \in Nat /\ Holders(b) \in Nat
        /\ (Holders(b) = 0 <=> ~PerlHolds(b))
    BY <2>1, CellFields, HoldersFacts
  <2>3. /\ PerlHolds(b) => b.heap = "used" /\ b.box = "boxed" /\ b.home \in b.pvis
        /\ b.heap = "used" /\ b.box # "none" => b.box = "boxed" /\ b.rc > 0
    BY <2>1, <2>2 DEF Sound, BoxState
  <2>4. b.rc >= Holders(b)
    BY <2>1, <2>2 DEF Sound, BoxState
  <2>5. QED
    BY <2>3, <2>4 DEF b
<1>2. QED
  BY <1>1 DEF IInv, HeldUsable, CountCovers, PassportSound

-----------------------------------------------------------------------------
(* An object and its context.                                             *)

\* No step gives an object that exists another context: neither the box ...
LEMMA UnrefHome ==
  ASSUME NEW b \in Cell, NEW live
  PROVE  Unref(b, live) \in Cell /\ Unref(b, live).home = b.home
<1>1. CASE b.rc > 1
  <2>1. b.rc - 1 \in Nat
    BY <1>1, CellFields
  <2>2. QED
    BY <1>1, <2>1 DEF Unref, Cell
<1>2. CASE ~(b.rc > 1)
  BY <1>2, FreeRootFields, DiscardFields DEF Unref
<1>3. QED
  BY <1>1, <1>2

\* ... nor the finalizer and the collection ...
LEMMA FinalizedHome ==
  ASSUME NEW b \in Cell
  PROVE  Finalized(b).home = b.home
<1> DEFINE d == [b EXCEPT !.heap = "free"]
           e == [d EXCEPT !.box = "final"]
<1>1. d \in Cell /\ e \in Cell /\ d.home = b.home /\ e.home = b.home
  BY DEF Cell, BoxState
<1>2. Finalized(b) = IF b.box = "boxed" THEN Unref(e, {}) ELSE d
  BY DEF Finalized
<1> HIDE DEF d, e
<1>3. QED
  BY <1>1, <1>2, UnrefHome

LEMMA CollectHome ==
  ASSUME NEW live, NEW o \in [Objects -> Cell], CollectFrom(o, live),
         NEW x \in Objects
  PROVE  obj'[x].home = o[x].home
<1>1. PICK S \in SUBSET Garbage(o, live) : obj' = Swept(o, S)
  BY DEF CollectFrom
<1>2. obj'[x] = IF x \in S THEN Finalized(o[x]) ELSE o[x]
  BY <1>1 DEF Swept
<1>3. QED
  BY <1>2, FinalizedHome

\* ... nor a reflection does.
LEMMA ReflectedHome ==
  ASSUME TypeOK, NEW x \in Objects, NEW c \in Live, NEW a \in Cell,
         NEW full \in BOOLEAN, Sound(a, Live, Started), a.heap = "used", a.home = c
  PROVE  Reflected(x, a, c, full).home = c
<1>1. Live \in SUBSET Contexts /\ c \in Live \cap Started
  BY DEF Live, Started
<1> DEFINE b == Boxed(a, c)
<1>2. b \in Cell /\ b.home = c
  BY <1>1, BoxedFields
<1> HIDE DEF b
<1>3. b.tied \in Nat /\ b.rc \in Nat
  BY <1>2, CellFields
<1>4. Wrapped(b).home = c
  BY <1>2 DEF Wrapped, Cell
<1>5. Tied(b, Live).home = c
  <2> DEFINE t == [b EXCEPT !.tied = @ + 1]
  <2>1. t \in Cell /\ t.home = c
    BY <1>2, <1>3 DEF Cell
  <2>2. Unref(t, Live).home = c
    BY <2>1, UnrefHome
  <2>3. CASE b.tied > 0
    BY <2>2, <2>3 DEF Tied
  <2>4. CASE ~(b.tied > 0)
    BY <1>2, <2>4 DEF Tied, Cell
  <2>5. QED
    BY <2>3, <2>4
<1>6. QED
  BY <1>4, <1>5 DEF Reflected, b

\* A step that changes one record, and then may collect.
LEMMA OneHome ==
  ASSUME TypeOK, NEW x \in Objects, NEW r \in Cell,
         \/ obj' = [obj EXCEPT ![x] = r]
         \/ CollectFrom([obj EXCEPT ![x] = r], Live),
         obj[x].heap = "used" => r.home = obj[x].home
  PROVE  \A y \in Objects : obj[y].heap = "used" => obj'[y].home = obj[y].home
<1> DEFINE o == [obj EXCEPT ![x] = r]
<1>1. o \in [Objects -> Cell] /\ \A y \in Objects : o[y] = IF y = x THEN r ELSE obj[y]
  BY DEF TypeOK
<1>2. obj' = o \/ CollectFrom(o, Live)
  OBVIOUS
<1> HIDE DEF o
<1>3. \A y \in Objects : obj'[y].home = o[y].home
  BY <1>1, <1>2, CollectHome
<1>4. QED
  BY <1>1, <1>3

LEMMA EvalHome ==
  ASSUME IInv, NEW x \in Objects, NEW c \in Contexts, NEW keep \in BOOLEAN,
         Eval(x, c, keep)
  PROVE  \A y \in Objects : obj[y].heap = "used" => obj'[y].home = obj[y].home
<1>1. PICK b \in {obj[x], NewCell(c)} :
        /\ IF b = obj[x] THEN b.heap = "used" /\ c \in b.jsref ELSE Unused(obj[x])
        /\ LET left == [b EXCEPT !.jsref = IF keep THEN @ \cup {c} ELSE @ \ {c}]
           IN  CollectFrom([obj EXCEPT ![x] = Reflected(x, left, c, TRUE)], Live)
  BY DEF Eval
<1>2. c \in Live /\ TypeOK
  BY DEF Eval, Running, IInv
<1> DEFINE R == IF keep THEN b.jsref \cup {c} ELSE b.jsref \ {c}
           left == [b EXCEPT !.jsref = R]
<1>3. b \in Cell /\ Sound(b, Live, Started) /\ b.heap = "used" /\ b.home = c
  BY <1>1, <1>2, GivenArgument
<1>4. R \in SUBSET {c}
  BY <1>3 DEF Sound
<1>5. left \in Cell /\ Sound(left, Live, Started) /\ left.heap = "used" /\ left.home = c
  <2> HIDE DEF R
  <2>1. QED
    BY <1>2, <1>3, <1>4, ReachedSound
<1>6. CollectFrom([obj EXCEPT ![x] = Reflected(x, left, c, TRUE)], Live)
  BY <1>1
<1> HIDE DEF left
<1>7. Reflected(x, left, c, TRUE) \in Cell /\ Reflected(x, left, c, TRUE).home = c
  BY <1>2, <1>5, ReflectedSound, ReflectedHome
<1>8. obj[x].heap = "used" => obj[x].home = c
  BY <1>1, <1>3 DEF Unused
<1>9. QED
  BY <1>2, <1>6, <1>7, <1>8, OneHome

LEMMA ReflectUntiedHome ==
  ASSUME IInv, NEW x \in Objects, NEW c \in Contexts, ReflectUntied(x, c)
  PROVE  \A y \in Objects : obj[y].heap = "used" => obj'[y].home = obj[y].home
<1>1. PICK b \in {obj[x], NewCell(c)} :
        /\ IF b = obj[x] THEN b.heap = "used" /\ c \in b.jsref ELSE Unused(obj[x])
        /\ obj' = [obj EXCEPT ![x] = Reflected(x, b, c, FALSE)]
  BY DEF ReflectUntied
<1>2. c \in Live /\ TypeOK
  BY DEF ReflectUntied, Running, IInv
<1>3. b \in Cell /\ Sound(b, Live, Started) /\ b.heap = "used" /\ b.home = c
  BY <1>1, <1>2, GivenArgument
<1>4. Reflected(x, b, c, FALSE) \in Cell /\ Reflected(x, b, c, FALSE).home = c
  BY <1>2, <1>3, ReflectedSound, ReflectedHome
<1>5. obj[x].heap = "used" => obj[x].home = c
  BY <1>1, <1>3 DEF Unused
<1>6. QED
  BY <1>1, <1>2, <1>4, <1>5, OneHome

\* Scripts and Perl only change who refers to the object.
LEMMA ReachHome ==
  ASSUME TypeOK, NEW x \in Objects, NEW c \in Contexts, EvalForget(x, c) \/ Pass(x, c)
  PROVE  \A y \in Objects : obj[y].heap = "used" => obj'[y].home = obj[y].home
<1> DEFINE b == obj[x]
           r(R) == [b EXCEPT !.jsref = R]
<1>1. b \in Cell /\ b.jsref \in SUBSET Contexts
  BY CellFields DEF TypeOK
<1>2. \/ obj' = [obj EXCEPT ![x] = r(b.jsref \cup {c})]
      \/ CollectFrom([obj EXCEPT ![x] = r(b.jsref \ {c})], Live)
  BY DEF EvalForget, Pass
<1>3. \A R \in SUBSET Contexts : r(R) \in Cell /\ r(R).home = b.home
  BY <1>1 DEF Cell
<1>4. b.jsref \cup {c} \in SUBSET Contexts /\ b.jsref \ {c} \in SUBSET Contexts
  BY <1>1
<1> HIDE DEF r
<1>5. QED
  BY <1>2, <1>3, <1>4, OneHome

\* Perl takes another reference, or a coderef.
LEMMA TakeHome ==
  ASSUME TypeOK, NEW x \in Objects,
         \/ HashRef(x) \/ TiedOperator(x) \/ CopyWrapper(x)
         \/ \E keep \in BOOLEAN : CodeRef(x, keep)
         \/ DropCode(x)
  PROVE  \A y \in Objects : obj[y].heap = "used" => obj'[y].home = obj[y].home
<1> DEFINE b == obj[x]
<1>1. b \in Cell /\ b.rc + 1 \in Nat /\ b.wrap + 1 \in Nat /\ b.tied + 1 \in Nat
  BY CellFields DEF TypeOK
<1>2. PICK r : obj' = [obj EXCEPT ![x] = r] /\ r \in Cell /\ r.home = b.home
  <2>1. CASE HashRef(x)
    <3> DEFINE r == IF b.tied > 0 THEN [b EXCEPT !.tied = @ + 1]
                    ELSE [b EXCEPT !.rc = @ + 1, !.tied = 1]
    <3>1. obj' = [obj EXCEPT ![x] = r]
      BY <2>1 DEF HashRef
    <3>2. r \in Cell /\ r.home = b.home
      BY <1>1 DEF Cell
    <3>3. QED
      BY <3>1, <3>2
  <2>2. CASE TiedOperator(x) \/ CopyWrapper(x)
    <3> DEFINE r == [b EXCEPT !.wrap = @ + 1, !.rc = @ + 1]
    <3>1. obj' = [obj EXCEPT ![x] = r]
      BY <2>2 DEF TiedOperator, CopyWrapper, TypeOK
    <3>2. r \in Cell /\ r.home = b.home
      BY <1>1 DEF Cell
    <3>3. QED
      BY <3>1, <3>2
  <2>3. CASE \E keep \in BOOLEAN : CodeRef(x, keep)
    <3>1. PICK keep \in BOOLEAN : CodeRef(x, keep)
      BY <2>3
    <3> DEFINE r == [b EXCEPT !.cached = TRUE, !.code = @ \/ keep]
    <3>2. obj' = [obj EXCEPT ![x] = r]
      BY <3>1 DEF CodeRef, TypeOK
    <3>3. b.code \in BOOLEAN
      BY <1>1, CellFields
    <3>4. r \in Cell /\ r.home = b.home
      BY <1>1, <3>3 DEF Cell
    <3>5. QED
      BY <3>2, <3>4
  <2>4. CASE DropCode(x)
    <3> DEFINE r == [b EXCEPT !.code = FALSE]
    <3>1. obj' = [obj EXCEPT ![x] = r]
      BY <2>4 DEF DropCode
    <3>2. r \in Cell /\ r.home = b.home
      BY <1>1 DEF Cell
    <3>3. QED
      BY <3>1, <3>2
  <2>5. QED
    BY <2>1, <2>2, <2>3, <2>4
<1>3. QED
  BY <1>2, OneHome

\* Perl lets a reference go.
LEMMA DropHome ==
  ASSUME TypeOK, NEW x \in Objects, DropWrapper(x) \/ DropTied(x)
  PROVE  \A y \in Objects : obj[y].heap = "used" => obj'[y].home = obj[y].home
<1> DEFINE b == obj[x]
           w == [b EXCEPT !.wrap = @ - 1]
           t == [b EXCEPT !.tied = @ - 1]
<1>1. b \in Cell /\ b.wrap \in Nat /\ b.tied \in Nat /\ b.rc \in Nat
  BY CellFields DEF TypeOK
<1>2. /\ DropWrapper(x) => Release(x, w)
      /\ DropTied(x) => Release(x, t) \/ obj' = [obj EXCEPT ![x] = t]
  BY DEF DropWrapper, DropTied
<1>3. /\ DropWrapper(x) => w \in Cell /\ w.home = b.home
      /\ DropTied(x) => t \in Cell /\ t.home = b.home
  BY <1>1 DEF DropWrapper, DropTied, Cell
<1> HIDE DEF w, t
<1>4. PICK r \in Cell : /\ r.home = b.home
                        /\ Release(x, r) \/ obj' = [obj EXCEPT ![x] = r]
  BY <1>2, <1>3
<1>5. CASE obj' = [obj EXCEPT ![x] = r]
  BY <1>4, <1>5, OneHome
<1>6. CASE Release(x, r)
  <2>1. \/ obj' = [obj EXCEPT ![x] = Unref(r, Live)]
        \/ CollectFrom([obj EXCEPT ![x] = Unref(r, Live)], Live)
    BY <1>6 DEF Release
  <2>2. Unref(r, Live) \in Cell /\ Unref(r, Live).home = b.home
    BY <1>4, UnrefHome
  <2>3. QED
    BY <2>1, <2>2, OneHome
<1>7. QED
  BY <1>4, <1>5, <1>6

LEMMA DestroyHome ==
  ASSUME TypeOK, NEW c \in Contexts, DestroyContext(c)
  PROVE  \A y \in Objects : obj'[y].home = obj[y].home
<1> DEFINE r(y) == [obj[y] EXCEPT !.jsref = @ \ {c}, !.pvis = @ \ {c}]
           o == [y \in Objects |-> r(y)]
<1>1. ASSUME NEW y \in Objects PROVE r(y) \in Cell /\ r(y).home = obj[y].home
  <2>1. obj[y] \in Cell
    BY DEF TypeOK
  <2>2. obj[y].jsref \ {c} \in SUBSET Contexts /\ obj[y].pvis \ {c} \in SUBSET Contexts
    BY <2>1, CellFields
  <2>3. QED
    BY <2>1, <2>2 DEF Cell
<1>2. CollectFrom(o, Live \ {c})
  BY DEF DestroyContext
<1>3. o \in [Objects -> Cell] /\ \A y \in Objects : o[y].home = obj[y].home
  <2> HIDE DEF r
  <2>1. QED
    BY <1>1
<1> HIDE DEF o
<1>4. QED
  BY <1>2, <1>3, CollectHome

\* A context that was live stays so until it is destroyed.
LEMMA LiveStays ==
  ASSUME TypeOK, [Next]_vars, NEW c \in Live
  PROVE  status'[c] = "dead" \/ c \in Live'
<1>1. c \in Contexts /\ status[c] = "live"
  BY DEF Live
<1>2. \/ status' = status
      \/ \E d \in Contexts : NewContext(d) \/ DestroyContext(d)
  BY DEF Next, vars, SetAutoTie, DropContext, Eval, EvalForget, ReflectUntied, Pass,
         HashRef, TiedOperator, CopyWrapper, DropWrapper, DropTied, CodeRef, DropCode, GC
<1>3. CASE status' = status
  BY <1>1, <1>3 DEF Live
<1>4. ASSUME NEW d \in Contexts, NewContext(d) PROVE c \in Live'
  BY <1>1, <1>4 DEF NewContext, TypeOK, Live
<1>5. ASSUME NEW d \in Contexts, DestroyContext(d)
      PROVE  status'[c] = "dead" \/ c \in Live'
  BY <1>1, <1>5 DEF DestroyContext, TypeOK, Live
<1>6. QED
  BY <1>2, <1>3, <1>4, <1>5

\* An object belongs to one context as long as it exists.
LEMMA HomeKept ==
  ASSUME IInv, [Next]_vars, NEW x \in Objects, obj[x].heap = "used"
  PROVE  obj'[x].home = obj[x].home
<1>1. TypeOK
  BY DEF IInv
<1>2. CASE obj' = obj
  BY <1>2
<1>3. ASSUME NEW c \in Contexts, DestroyContext(c) PROVE obj'[x].home = obj[x].home
  BY <1>1, <1>3, DestroyHome
<1>4. ASSUME NEW S \in SUBSET Garbage(obj, Live), GC(S)
      PROVE  obj'[x].home = obj[x].home
  <2>1. obj \in [Objects -> Cell] /\ CollectFrom(obj, Live)
    BY <1>1, <1>4 DEF TypeOK, GC, CollectFrom
  <2>2. QED
    BY <2>1, CollectHome
<1>5. ASSUME NEW y \in Objects, NEW c \in Contexts,
             \/ \E keep \in BOOLEAN : Eval(y, c, keep)
             \/ EvalForget(y, c) \/ ReflectUntied(y, c) \/ Pass(y, c)
      PROVE  obj'[x].home = obj[x].home
  BY <1>1, <1>5, EvalHome, ReflectUntiedHome, ReachHome
<1>6. ASSUME NEW y \in Objects,
             \/ HashRef(y) \/ TiedOperator(y) \/ CopyWrapper(y)
             \/ DropWrapper(y) \/ DropTied(y)
             \/ \E keep \in BOOLEAN : CodeRef(y, keep)
             \/ DropCode(y)
      PROVE  obj'[x].home = obj[x].home
  BY <1>1, <1>6, TakeHome, DropHome
<1>7. QED
  BY <1>2, <1>3, <1>4, <1>5, <1>6 DEF Next, vars, NewContext, SetAutoTie, DropContext

-----------------------------------------------------------------------------
(* Roots and references.                                                   *)

\* What a collection does to one object: nothing, if a live context roots it; a
\* finalized object no longer exists, and Perl's references to it stay.
LEMMA CollectOne ==
  ASSUME NEW live, NEW o \in [Objects -> Cell], CollectFrom(o, live), NEW x \in Objects
  PROVE  /\ obj'[x] = o[x] \/ obj'[x].heap = "free"
         /\ o[x].pvis \cap live # {} => obj'[x] = o[x]
         /\ PerlHolds(o[x]) => PerlHolds(obj'[x])
<1>1. PICK S \in SUBSET Garbage(o, live) : obj' = Swept(o, S)
  BY DEF CollectFrom
<1>2. obj'[x] = IF x \in S THEN Finalized(o[x]) ELSE o[x]
  BY <1>1 DEF Swept
<1>3. x \in S => o[x].pvis \cap live = {}
  BY <1>1 DEF Garbage
<1> DEFINE b == o[x]
           d == [b EXCEPT !.heap = "free"]
           e == [d EXCEPT !.box = "final"]
<1>4. b \in Cell /\ b.rc \in Nat
  BY CellFields
<1>5. /\ d \in Cell /\ e \in Cell /\ d.heap = "free" /\ e.heap = "free"
      /\ d.wrap = b.wrap /\ d.tied = b.tied /\ e.wrap = b.wrap /\ e.tied = b.tied
      /\ e.rc = b.rc
  BY <1>4 DEF Cell, BoxState
<1>6. Finalized(b) = IF b.box = "boxed" THEN Unref(e, {}) ELSE d
  BY DEF Finalized
<1> HIDE DEF b, d, e
<1>7. /\ Unref(e, {}).heap = "free" /\ Unref(e, {}).wrap = b.wrap
      /\ Unref(e, {}).tied = b.tied
  <2>1. CASE e.rc > 1
    <3>1. Unref(e, {}) = [e EXCEPT !.rc = @ - 1] /\ e.rc - 1 \in Nat
      BY <1>4, <1>5, <2>1 DEF Unref
    <3>2. QED
      BY <1>5, <3>1 DEF Cell
  <2>2. CASE ~(e.rc > 1)
    BY <1>5, <2>2, DiscardFields DEF Unref
  <2>3. QED
    BY <2>1, <2>2
<1>8. /\ Finalized(b).heap = "free"
      /\ Finalized(b).wrap = b.wrap /\ Finalized(b).tied = b.tied
  BY <1>5, <1>6, <1>7
<1>9. PerlHolds(b) => PerlHolds(Finalized(b))
  BY <1>8 DEF PerlHolds
<1>10. QED
  BY <1>2, <1>3, <1>8, <1>9 DEF b

\* A reflection gives Perl a reference; if AutoTie leaves the object alone it is
\* counted exactly once.
Exact(x, b) == NeverTies(x) /\ b.pvis # {} => b.rc = Holders(b)

LEMMA ReflectedHeld ==
  ASSUME TypeOK, NEW x \in Objects, NEW c \in Live, NEW a \in Cell,
         NEW full \in BOOLEAN, Sound(a, Live, Started), a.heap = "used", a.home = c,
         Exact(x, a), autotie[c] \in AutoTieValues
  PROVE  /\ PerlHolds(Reflected(x, a, c, full))
         /\ Exact(x, Reflected(x, a, c, full))
<1>1. Live \in SUBSET Contexts /\ c \in Live \cap Started
  BY DEF Live, Started
<1> DEFINE b == Boxed(a, c)
<1>2. /\ b \in Cell /\ b.heap = "used" /\ b.pvis = {c} /\ b.box = "boxed" /\ b.home = c
      /\ b.wrap = a.wrap /\ b.tied = a.tied /\ b.rc >= Holders(a) + 1
  BY <1>1, BoxedFields
<1>3. /\ a.rc \in Nat /\ a.wrap \in Nat /\ a.tied \in Nat /\ Holders(a) \in Nat
      /\ (Holders(a) = 0 <=> ~PerlHolds(a)) /\ a.box \in BoxState
  BY CellFields, HoldersFacts
<1>4. NeverTies(x) => b.rc = Holders(a) + 1
  <2> SUFFICES ASSUME NeverTies(x) PROVE b.rc = Holders(a) + 1
    OBVIOUS
  <2>1. CASE c \in a.pvis
    <3>1. b.rc = a.rc + 1
      BY <2>1 DEF Boxed, Cell
    <3>2. QED
      BY <2>1, <3>1 DEF Exact
  <2>2. CASE c \notin a.pvis /\ a.box # "none"
    <3>1. b.rc = a.rc
      BY <2>2 DEF Boxed, Cell
    <3>2. a.rc = 1 /\ ~PerlHolds(a)
      BY <1>3, <2>2 DEF Sound, BoxState
    <3>3. QED
      BY <1>3, <3>1, <3>2
  <2>3. CASE c \notin a.pvis /\ a.box = "none"
    <3>1. b.rc = 1
      BY <2>3 DEF Boxed, Cell
    <3>2. ~PerlHolds(a)
      BY <2>3 DEF Sound
    <3>3. QED
      BY <1>3, <3>1, <3>2
  <2>4. QED
    BY <2>1, <2>2, <2>3
<1> HIDE DEF b
<1>5. b.rc \in Nat /\ b.wrap \in Nat /\ b.tied \in Nat
  BY <1>2, CellFields
<1>6. /\ Wrapped(b).wrap = b.wrap + 1 /\ Wrapped(b).tied = b.tied
      /\ Wrapped(b).rc = b.rc
  BY <1>2, <1>5 DEF Wrapped, Cell
<1>7. PerlHolds(Wrapped(b)) /\ (NeverTies(x) => Wrapped(b).rc = Holders(Wrapped(b)))
  BY <1>2, <1>3, <1>4, <1>5, <1>6 DEF PerlHolds, Holders
<1>8. PerlHolds(Tied(b, Live))
  <2>1. CASE b.tied > 0
    <3> DEFINE t == [b EXCEPT !.tied = @ + 1]
    <3>1. t \in Cell /\ t.tied = b.tied + 1 /\ t.rc = b.rc /\ t.rc > 1
      BY <1>2, <1>3, <1>5, <2>1 DEF Cell, PerlHolds
    <3>2. Tied(b, Live) = Unref(t, Live)
      BY <2>1 DEF Tied
    <3> HIDE DEF t
    <3>3. Unref(t, Live).tied = t.tied
      BY <3>1 DEF Unref, Cell
    <3>4. QED
      BY <1>5, <3>1, <3>2, <3>3 DEF PerlHolds
  <2>2. CASE ~(b.tied > 0)
    <3>1. Tied(b, Live).tied = 1
      BY <1>2, <2>2 DEF Tied, Cell
    <3>2. QED
      BY <3>1 DEF PerlHolds
  <2>3. QED
    BY <2>1, <2>2
<1>9. NeverTies(x) => Reflected(x, a, c, full) = Wrapped(b)
  BY DEF NeverTies, Reflected, b
<1>10. QED
  BY <1>7, <1>8, <1>9 DEF Exact, Reflected, b

\* The contexts' flags are values that the program gives them.
Chosen == \A c \in Live : autotie[c] \in AutoTieValues

Exactly == \A x \in Objects : Exact(x, obj[x])

\* A step that changes one record, and then may collect.
LEMMA OneExact ==
  ASSUME TypeOK, IInv', Exactly, NEW x \in Objects, NEW r \in Cell, Exact(x, r),
         \/ obj' = [obj EXCEPT ![x] = r]
         \/ CollectFrom([obj EXCEPT ![x] = r], Live)
  PROVE  Exactly'
<1> DEFINE o == [obj EXCEPT ![x] = r]
<1>1. o \in [Objects -> Cell] /\ \A y \in Objects : o[y] = IF y = x THEN r ELSE obj[y]
  BY DEF TypeOK
<1>2. obj' = o \/ CollectFrom(o, Live)
  OBVIOUS
<1>3. ASSUME NEW y \in Objects PROVE Exact(y, o[y])
  <2>1. Exact(y, obj[y])
    BY DEF Exactly
  <2> HIDE DEF o
  <2>2. QED
    BY <1>1, <2>1
<1> HIDE DEF o
<1>4. ASSUME NEW y \in Objects PROVE Exact(y, obj'[y])
  <2>1. obj'[y] = o[y] \/ obj'[y].heap = "free"
    BY <1>1, <1>2, CollectOne
  <2>2. obj'[y].heap = "free" => obj'[y].pvis = {}
    BY DEF IInv, Sound
  <2>3. CASE obj'[y] = o[y]
    BY <1>3, <2>3
  <2>4. CASE obj'[y].pvis = {}
    BY <2>4 DEF Exact
  <2>5. QED
    BY <2>1, <2>2, <2>3, <2>4
<1>5. QED
  BY <1>4 DEF Exactly

\* The same count for the same references.
LEMMA SameExact ==
  ASSUME NEW x, NEW a, NEW b, Exact(x, a), b.pvis # {} => a.pvis # {},
         b.rc = a.rc, b.wrap = a.wrap, b.tied = a.tied
  PROVE  Exact(x, b)
BY DEF Exact, Holders

\* A script's result is reflected: the record that makes.
LEMMA GivesRecord ==
  ASSUME IInv, Exactly, Chosen, NEW x \in Objects, NEW c \in Contexts,
         (\E keep \in BOOLEAN : Eval(x, c, keep)) \/ ReflectUntied(x, c)
  PROVE  \E r \in Cell :
           /\ PerlHolds(r) /\ Exact(x, r)
           /\ \/ obj' = [obj EXCEPT ![x] = r]
              \/ CollectFrom([obj EXCEPT ![x] = r], Live)
<1>1. c \in Live /\ TypeOK
  BY DEF Eval, ReflectUntied, Running, IInv
<1>2. PICK a \in Cell, full \in BOOLEAN :
        /\ Sound(a, Live, Started) /\ a.heap = "used" /\ a.home = c
        /\ Exact(x, a)
        /\ \/ obj' = [obj EXCEPT ![x] = Reflected(x, a, c, full)]
           \/ CollectFrom([obj EXCEPT ![x] = Reflected(x, a, c, full)], Live)
  <2>1. Exact(x, NewCell(c)) /\ Exact(x, obj[x])
    BY DEF NewCell, Exact, Exactly
  <2>2. ASSUME NEW keep \in BOOLEAN, Eval(x, c, keep)
        PROVE  \E a \in Cell :
                 /\ Sound(a, Live, Started) /\ a.heap = "used" /\ a.home = c
                 /\ Exact(x, a)
                 /\ CollectFrom([obj EXCEPT ![x] = Reflected(x, a, c, TRUE)], Live)
    <3>1. PICK b \in {obj[x], NewCell(c)} :
            /\ IF b = obj[x] THEN b.heap = "used" /\ c \in b.jsref ELSE Unused(obj[x])
            /\ LET left == [b EXCEPT !.jsref = IF keep THEN @ \cup {c} ELSE @ \ {c}]
               IN  CollectFrom([obj EXCEPT ![x] = Reflected(x, left, c, TRUE)], Live)
      BY <2>2 DEF Eval
    <3> DEFINE R == IF keep THEN b.jsref \cup {c} ELSE b.jsref \ {c}
               left == [b EXCEPT !.jsref = R]
    <3>2. b \in Cell /\ Sound(b, Live, Started) /\ b.heap = "used" /\ b.home = c
      BY <1>1, <3>1, GivenArgument
    <3>3. R \in SUBSET {c}
      BY <3>2 DEF Sound
    <3>4. Exact(x, b)
      BY <2>1, <3>1
    <3>5. CollectFrom([obj EXCEPT ![x] = Reflected(x, left, c, TRUE)], Live)
      BY <3>1
    <3> HIDE DEF R
    <3>6. left \in Cell /\ Sound(left, Live, Started) /\ left.heap = "used" /\ left.home = c
      BY <1>1, <3>2, <3>3, ReachedSound
    <3>7. left.pvis = b.pvis /\ left.rc = b.rc /\ left.wrap = b.wrap /\ left.tied = b.tied
      BY <3>2 DEF Cell
    <3> HIDE DEF left
    <3>8. Exact(x, left)
      BY <3>4, <3>7, SameExact
    <3>9. QED
      BY <3>5, <3>6, <3>8
  <2>3. ASSUME ReflectUntied(x, c)
        PROVE  \E a \in Cell :
                 /\ Sound(a, Live, Started) /\ a.heap = "used" /\ a.home = c
                 /\ Exact(x, a)
                 /\ obj' = [obj EXCEPT ![x] = Reflected(x, a, c, FALSE)]
    <3>1. PICK b \in {obj[x], NewCell(c)} :
            /\ IF b = obj[x] THEN b.heap = "used" /\ c \in b.jsref ELSE Unused(obj[x])
            /\ obj' = [obj EXCEPT ![x] = Reflected(x, b, c, FALSE)]
      BY <2>3 DEF ReflectUntied
    <3>2. b \in Cell /\ Sound(b, Live, Started) /\ b.heap = "used" /\ b.home = c
      BY <1>1, <3>1, GivenArgument
    <3>3. QED
      BY <2>1, <3>1, <3>2
  <2>4. QED
    BY <2>2, <2>3
<1>3. autotie[c] \in AutoTieValues
  BY <1>1 DEF Chosen
<1> DEFINE r == Reflected(x, a, c, full)
<1>4. r \in Cell /\ PerlHolds(r) /\ Exact(x, r)
  BY <1>1, <1>2, <1>3, ReflectedSound, ReflectedHeld
<1>5. obj' = [obj EXCEPT ![x] = r] \/ CollectFrom([obj EXCEPT ![x] = r], Live)
  BY <1>2
<1> HIDE DEF r
<1>6. QED
  BY <1>4, <1>5

LEMMA GivesExact ==
  ASSUME IInv, IInv', Exactly, Chosen, NEW x \in Objects, NEW c \in Contexts,
         (\E keep \in BOOLEAN : Eval(x, c, keep)) \/ ReflectUntied(x, c)
  PROVE  Exactly' /\ PerlHolds(obj'[x])
<1>1. PICK r \in Cell : /\ PerlHolds(r) /\ Exact(x, r)
                        /\ \/ obj' = [obj EXCEPT ![x] = r]
                           \/ CollectFrom([obj EXCEPT ![x] = r], Live)
  BY GivesRecord
<1>2. TypeOK
  BY DEF IInv
<1>3. Exactly'
  BY <1>1, <1>2, OneExact
<1>4. PerlHolds(obj'[x])
  <2> DEFINE o == [obj EXCEPT ![x] = r]
  <2>1. o \in [Objects -> Cell] /\ o[x] = r
    BY <1>2 DEF TypeOK
  <2>2. obj' = o \/ CollectFrom(o, Live)
    BY <1>1
  <2> HIDE DEF o
  <2>3. QED
    BY <1>1, <2>1, <2>2, CollectOne
<1>5. QED
  BY <1>3, <1>4

\* Scripts change who refers to the object, Perl makes or drops coderefs.
LEMMA ReachRecord ==
  ASSUME IInv, NEW x \in Objects,
         \/ \E c \in Contexts : EvalForget(x, c) \/ Pass(x, c)
         \/ \E keep \in BOOLEAN : CodeRef(x, keep)
         \/ DropCode(x)
  PROVE  \E r \in Cell :
           /\ r.pvis = obj[x].pvis /\ r.rc = obj[x].rc
           /\ r.wrap = obj[x].wrap /\ r.tied = obj[x].tied
           /\ \/ obj' = [obj EXCEPT ![x] = r]
              \/ CollectFrom([obj EXCEPT ![x] = r], Live)
<1> DEFINE b == obj[x]
<1>1. b \in Cell /\ TypeOK
  BY DEF IInv, TypeOK
<1>2. b.jsref \in SUBSET Contexts /\ b.cached \in BOOLEAN /\ b.code \in BOOLEAN
  BY <1>1, CellFields
<1>3. PICK r \in Cell :
        /\ r.pvis = b.pvis /\ r.rc = b.rc /\ r.wrap = b.wrap /\ r.tied = b.tied
        /\ obj' = [obj EXCEPT ![x] = r] \/ CollectFrom([obj EXCEPT ![x] = r], Live)
  <2>1. ASSUME NEW c \in Contexts, EvalForget(x, c) \/ Pass(x, c)
        PROVE  \E R \in SUBSET Contexts :
                 \/ obj' = [obj EXCEPT ![x] = [b EXCEPT !.jsref = R]]
                 \/ CollectFrom([obj EXCEPT ![x] = [b EXCEPT !.jsref = R]], Live)
    <3>1. \/ obj' = [obj EXCEPT ![x] = [b EXCEPT !.jsref = b.jsref \cup {c}]]
          \/ CollectFrom([obj EXCEPT ![x] = [b EXCEPT !.jsref = b.jsref \ {c}]], Live)
      BY <2>1 DEF EvalForget, Pass
    <3>2. b.jsref \cup {c} \in SUBSET Contexts /\ b.jsref \ {c} \in SUBSET Contexts
      BY <1>2
    <3> HIDE DEF b
    <3>3. QED
      BY <3>1, <3>2
  <2>2. ASSUME NEW keep \in BOOLEAN, CodeRef(x, keep)
        PROVE  \E k, d \in BOOLEAN :
                 obj' = [obj EXCEPT ![x] = [b EXCEPT !.cached = k, !.code = d]]
    <3>1. obj' = [obj EXCEPT ![x] = [b EXCEPT !.cached = TRUE, !.code = b.code \/ keep]]
      BY <2>2 DEF CodeRef
    <3>2. (b.code \/ keep) \in BOOLEAN
      BY <1>2
    <3> HIDE DEF b
    <3>3. QED
      BY <3>1, <3>2
  <2>3. ASSUME DropCode(x)
        PROVE  \E k, d \in BOOLEAN :
                 obj' = [obj EXCEPT ![x] = [b EXCEPT !.cached = k, !.code = d]]
    <3>1. obj' = [obj EXCEPT ![x] = [b EXCEPT !.code = FALSE]]
      BY <2>3 DEF DropCode
    <3>2. [b EXCEPT !.code = FALSE] = [b EXCEPT !.cached = b.cached, !.code = FALSE]
      BY <1>1 DEF Cell
    <3> HIDE DEF b
    <3>3. QED
      BY <1>2, <3>1, <3>2
  <2> HIDE DEF b
  <2>4. ASSUME NEW R \in SUBSET Contexts
        PROVE  LET r == [b EXCEPT !.jsref = R] IN
               r \in Cell /\ r.pvis = b.pvis /\ r.rc = b.rc /\ r.wrap = b.wrap /\ r.tied = b.tied
    BY <1>1 DEF Cell
  <2>5. ASSUME NEW k \in BOOLEAN, NEW d \in BOOLEAN
        PROVE  LET r == [b EXCEPT !.cached = k, !.code = d] IN
               r \in Cell /\ r.pvis = b.pvis /\ r.rc = b.rc /\ r.wrap = b.wrap /\ r.tied = b.tied
    BY <1>1 DEF Cell
  <2>6. CASE \E c \in Contexts : EvalForget(x, c) \/ Pass(x, c)
    BY <2>1, <2>4, <2>6
  <2>7. CASE \E keep \in BOOLEAN : CodeRef(x, keep)
    BY <2>2, <2>5, <2>7
  <2>8. CASE DropCode(x)
    BY <2>3, <2>5, <2>8
  <2>9. QED
    BY <2>6, <2>7, <2>8
<1>4. QED
  BY <1>3

LEMMA ReachExact ==
  ASSUME IInv, IInv', Exactly, NEW x \in Objects,
         \/ \E c \in Contexts : EvalForget(x, c) \/ Pass(x, c)
         \/ \E keep \in BOOLEAN : CodeRef(x, keep)
         \/ DropCode(x)
  PROVE  Exactly'
<1>1. PICK r \in Cell :
        /\ r.pvis = obj[x].pvis /\ r.rc = obj[x].rc
        /\ r.wrap = obj[x].wrap /\ r.tied = obj[x].tied
        /\ \/ obj' = [obj EXCEPT ![x] = r]
           \/ CollectFrom([obj EXCEPT ![x] = r], Live)
  BY ReachRecord
<1>2. TypeOK /\ Exact(x, obj[x])
  BY DEF IInv, Exactly
<1>3. Exact(x, r)
  BY <1>1, <1>2, SameExact
<1>4. QED
  BY <1>1, <1>2, <1>3, OneExact

\* Perl takes another reference, and it is counted.
LEMMA TakeExact ==
  ASSUME IInv, IInv', Exactly, NEW x \in Objects,
         HashRef(x) \/ TiedOperator(x) \/ CopyWrapper(x)
  PROVE  Exactly'
<1> DEFINE b == obj[x]
<1>1. b \in Cell /\ TypeOK /\ Exact(x, b)
  BY DEF IInv, TypeOK, Exactly
<1>2. PICK r : obj' = [obj EXCEPT ![x] = r] /\
        \/ b.tied > 0 /\ r = [b EXCEPT !.tied = @ + 1]
        \/ ~(b.tied > 0) /\ r = [b EXCEPT !.rc = @ + 1, !.tied = 1]
        \/ r = [b EXCEPT !.wrap = @ + 1, !.rc = @ + 1]
  <2>1. CASE HashRef(x)
    BY <2>1 DEF HashRef
  <2>2. CASE TiedOperator(x) \/ CopyWrapper(x)
    <3>1. obj' = [obj EXCEPT ![x] = [b EXCEPT !.wrap = @ + 1, !.rc = @ + 1]]
      BY <1>1, <2>2 DEF TiedOperator, CopyWrapper, TypeOK
    <3> HIDE DEF b
    <3>2. QED
      BY <3>1
  <2>3. QED
    BY <2>1, <2>2
<1> HIDE DEF b
<1>3. /\ b.rc \in Nat /\ b.wrap \in Nat /\ b.tied \in Nat
      /\ b.rc + 1 \in Nat /\ b.wrap + 1 \in Nat /\ b.tied + 1 \in Nat
  BY <1>1, CellFields
<1>4. r \in Cell /\ r.pvis = b.pvis /\ r.rc - b.rc = Holders(r) - Holders(b)
  <2>1. CASE b.tied > 0 /\ r = [b EXCEPT !.tied = @ + 1]
    <3>1. /\ r \in Cell /\ r.pvis = b.pvis /\ r.rc = b.rc /\ r.wrap = b.wrap
          /\ r.tied = b.tied + 1
      BY <1>1, <1>3, <2>1 DEF Cell
    <3>2. QED
      BY <1>3, <2>1, <3>1 DEF Holders
  <2>2. CASE ~(b.tied > 0) /\ r = [b EXCEPT !.rc = @ + 1, !.tied = 1]
    <3> DEFINE d == [b EXCEPT !.rc = @ + 1]
    <3>1. d \in Cell /\ d.pvis = b.pvis /\ d.rc = b.rc + 1 /\ d.wrap = b.wrap
      BY <1>1, <1>3 DEF Cell
    <3>2. r = [d EXCEPT !.tied = 1]
      BY <1>1, <2>2 DEF Cell
    <3> HIDE DEF d
    <3>3. /\ r \in Cell /\ r.pvis = b.pvis /\ r.rc = b.rc + 1 /\ r.wrap = b.wrap
          /\ r.tied = 1
      BY <3>1, <3>2 DEF Cell
    <3>4. QED
      BY <1>3, <2>2, <3>3 DEF Holders
  <2>3. CASE r = [b EXCEPT !.wrap = @ + 1, !.rc = @ + 1]
    <3>1. /\ r \in Cell /\ r.pvis = b.pvis /\ r.rc = b.rc + 1 /\ r.wrap = b.wrap + 1
          /\ r.tied = b.tied
      BY <1>1, <1>3, <2>3 DEF Cell
    <3>2. QED
      BY <1>3, <3>1 DEF Holders
  <2>4. QED
    BY <1>2, <2>1, <2>2, <2>3
<1>5. Exact(x, r)
  <2>1. r.rc \in Nat /\ Holders(r) \in Nat /\ Holders(b) \in Nat
    BY <1>1, <1>4, CellFields, HoldersFacts
  <2>2. QED
    BY <1>1, <1>3, <1>4, <2>1 DEF Exact
<1>6. QED
  BY <1>1, <1>2, <1>4, <1>5, OneExact

\* Perl lets one count go, and with the last one the root.
LEMMA UnrefExact ==
  ASSUME NEW live \in SUBSET Contexts, NEW st, NEW x, NEW a \in Cell, NEW b \in Cell,
         Sound(a, live, st), Exact(x, a), Holders(b) = Holders(a) - 1,
         b.pvis = a.pvis, b.box = a.box, b.home = a.home, b.rc = a.rc
  PROVE  Unref(b, live) \in Cell /\ Exact(x, Unref(b, live))
<1>1. b.rc \in Nat /\ Holders(a) \in Nat /\ a.box \in BoxState
  BY CellFields, HoldersFacts
<1>2. CASE b.rc > 1
  <2>1. Unref(b, live) = [b EXCEPT !.rc = @ - 1] /\ b.rc - 1 \in Nat
    BY <1>1, <1>2 DEF Unref
  <2> DEFINE r == [b EXCEPT !.rc = @ - 1]
  <2>2. /\ r \in Cell /\ r.pvis = b.pvis /\ r.rc = b.rc - 1 /\ r.wrap = b.wrap
        /\ r.tied = b.tied
    BY <2>1 DEF Cell
  <2> HIDE DEF r
  <2>3. Holders(r) = Holders(b)
    BY <2>2 DEF Holders
  <2>4. Exact(x, r)
    BY <1>1, <2>2, <2>3 DEF Exact
  <2>5. QED
    BY <2>1, <2>2, <2>4 DEF r
<1>3. CASE ~(b.rc > 1) /\ b.box = "boxed" /\ b.home \in live
  <2>1. Unref(b, live) = FreeRoot(b)
    BY <1>3 DEF Unref
  <2>2. FreeRoot(b).pvis = {} /\ FreeRoot(b) \in Cell
    <3>1. b.pvis \ {b.home} = {}
      BY DEF Sound
    <3>2. QED
      BY <3>1, FreeRootFields
  <2>3. QED
    BY <2>1, <2>2 DEF Exact
<1>4. CASE ~(b.rc > 1) /\ ~(b.box = "boxed" /\ b.home \in live)
  <2>1. Unref(b, live) = Discard(b)
    BY <1>4 DEF Unref
  <2>2. b.pvis = {}
    BY <1>1, <1>4 DEF Sound, BoxState
  <2>3. QED
    BY <2>1, <2>2, DiscardFields DEF Exact
<1>5. QED
  BY <1>2, <1>3, <1>4

\* A reference of Perl's goes: the record that leaves.
LEMMA DropRecord ==
  ASSUME IInv, Exactly, NEW x \in Objects, DropWrapper(x) \/ DropTied(x)
  PROVE  \E r \in Cell :
           /\ Exact(x, r)
           /\ \/ obj' = [obj EXCEPT ![x] = r]
              \/ CollectFrom([obj EXCEPT ![x] = r], Live)
<1> DEFINE a == obj[x]
           w == [a EXCEPT !.wrap = @ - 1]
           t == [a EXCEPT !.tied = @ - 1]
<1>1. /\ a \in Cell /\ TypeOK /\ Exact(x, a) /\ Sound(a, Live, Started)
      /\ Live \in SUBSET Contexts
  BY DEF IInv, TypeOK, Exactly, Live
<1>2. /\ DropWrapper(x) => a.wrap > 0 /\ Release(x, w)
      /\ DropTied(x) => a.tied > 0 /\ (IF t.tied > 0 THEN obj' = [obj EXCEPT ![x] = t] ELSE Release(x, t))
  BY DEF DropWrapper, DropTied
<1> HIDE DEF a
<1>3. a.wrap \in Nat /\ a.tied \in Nat /\ a.rc \in Nat
  BY <1>1, CellFields
<1>4. a.wrap > 0 =>
        /\ w \in Cell /\ w.pvis = a.pvis /\ w.box = a.box /\ w.home = a.home
        /\ w.wrap = a.wrap - 1 /\ w.tied = a.tied /\ w.rc = a.rc
  BY <1>1, <1>3 DEF Cell
<1>5. a.tied > 0 =>
        /\ t \in Cell /\ t.pvis = a.pvis /\ t.box = a.box /\ t.home = a.home
        /\ t.wrap = a.wrap /\ t.tied = a.tied - 1 /\ t.rc = a.rc
  BY <1>1, <1>3 DEF Cell
<1> HIDE DEF w, t
<1>6. ASSUME NEW b \in Cell, Holders(b) = Holders(a) - 1, b.pvis = a.pvis,
             b.box = a.box, b.home = a.home, b.rc = a.rc, Release(x, b)
      PROVE  \E r \in Cell :
               /\ Exact(x, r)
               /\ \/ obj' = [obj EXCEPT ![x] = r]
                  \/ CollectFrom([obj EXCEPT ![x] = r], Live)
  <2>1. Unref(b, Live) \in Cell /\ Exact(x, Unref(b, Live))
    BY <1>1, <1>6, UnrefExact
  <2>2. \/ obj' = [obj EXCEPT ![x] = Unref(b, Live)]
        \/ CollectFrom([obj EXCEPT ![x] = Unref(b, Live)], Live)
    BY <1>6 DEF Release
  <2>3. QED
    BY <2>1, <2>2
<1>7. CASE DropWrapper(x)
  <2>1. Holders(w) = Holders(a) - 1
    BY <1>2, <1>3, <1>4, <1>7 DEF Holders
  <2>2. QED
    BY <1>2, <1>4, <1>6, <1>7, <2>1
<1>8. CASE DropTied(x) /\ t.tied > 0
  <2>1. Holders(t) = Holders(a)
    BY <1>2, <1>3, <1>5, <1>8 DEF Holders
  <2>2. Exact(x, t)
    BY <1>1, <1>2, <1>5, <1>8, <2>1 DEF Exact
  <2>3. QED
    BY <1>2, <1>5, <1>8, <2>2
<1>9. CASE DropTied(x) /\ ~(t.tied > 0)
  <2>1. Holders(t) = Holders(a) - 1
    BY <1>2, <1>3, <1>5, <1>9 DEF Holders
  <2>2. QED
    BY <1>2, <1>5, <1>6, <1>9, <2>1
<1>10. QED
  BY <1>7, <1>8, <1>9

LEMMA DropExact ==
  ASSUME IInv, IInv', Exactly, NEW x \in Objects, DropWrapper(x) \/ DropTied(x)
  PROVE  Exactly'
<1>1. TypeOK
  BY DEF IInv
<1>2. QED
  BY <1>1, DropRecord, OneExact

LEMMA DestroyExact ==
  ASSUME IInv, IInv', Exactly, NEW d \in Contexts, DestroyContext(d)
  PROVE  /\ Exactly'
         /\ \A x \in Objects : \A c \in obj[x].pvis : c # d => c \in obj'[x].pvis
<1> DEFINE r(y) == [obj[y] EXCEPT !.jsref = @ \ {d}, !.pvis = @ \ {d}]
           o == [y \in Objects |-> r(y)]
<1>1. TypeOK
  BY DEF IInv
<1>2. ASSUME NEW y \in Objects
      PROVE  /\ r(y) \in Cell /\ r(y).pvis = obj[y].pvis \ {d} /\ r(y).rc = obj[y].rc
             /\ r(y).wrap = obj[y].wrap /\ r(y).tied = obj[y].tied
  <2> DEFINE b == obj[y]
  <2>1. b \in Cell
    BY <1>1 DEF TypeOK
  <2>2. b.jsref \ {d} \in SUBSET Contexts /\ b.pvis \ {d} \in SUBSET Contexts
    BY <2>1, CellFields
  <2>3. r(y) = [b EXCEPT !.jsref = b.jsref \ {d}, !.pvis = b.pvis \ {d}]
    OBVIOUS
  <2> HIDE DEF b, r
  <2>4. /\ r(y) \in Cell /\ r(y).pvis = b.pvis \ {d} /\ r(y).rc = b.rc
        /\ r(y).wrap = b.wrap /\ r(y).tied = b.tied
    BY <2>1, <2>2, <2>3 DEF Cell
  <2>5. QED
    BY <2>4 DEF b
<1>3. CollectFrom(o, Live \ {d})
  BY DEF DestroyContext
<1> HIDE DEF r
<1>4. o \in [Objects -> Cell] /\ \A y \in Objects : o[y] = r(y)
  BY <1>2
<1> HIDE DEF o
<1>5. ASSUME NEW y \in Objects PROVE Exact(y, obj'[y])
  <2>1. Exact(y, o[y])
    <3>1. Exact(y, obj[y])
      BY DEF Exactly
    <3>2. QED
      BY <1>2, <1>4, <3>1, SameExact
  <2>2. obj'[y] = o[y] \/ obj'[y].heap = "free"
    BY <1>3, <1>4, CollectOne
  <2>3. obj'[y].heap = "free" => obj'[y].pvis = {}
    BY DEF IInv, Sound
  <2>4. CASE obj'[y] = o[y]
    BY <2>1, <2>4
  <2>5. CASE obj'[y].pvis = {}
    BY <2>5 DEF Exact
  <2>6. QED
    BY <2>2, <2>3, <2>4, <2>5
<1>6. ASSUME NEW x \in Objects, NEW c \in obj[x].pvis, c # d
      PROVE  c \in obj'[x].pvis
  <2>1. c \in Live
    BY DEF IInv, Sound
  <2>2. c \in o[x].pvis \cap (Live \ {d})
    BY <1>2, <1>4, <1>6, <2>1
  <2>3. obj'[x] = o[x]
    BY <1>3, <1>4, <2>2, CollectOne
  <2>4. QED
    BY <2>2, <2>3
<1>7. QED
  BY <1>5, <1>6 DEF Exactly

\* A collection that nothing precedes.
LEMMA GCExact ==
  ASSUME IInv, IInv', Exactly, NEW S \in SUBSET Garbage(obj, Live), GC(S)
  PROVE  Exactly' /\ CollectFrom(obj, Live)
<1>1. obj \in [Objects -> Cell] /\ CollectFrom(obj, Live)
  BY DEF IInv, TypeOK, GC, CollectFrom
<1>2. ASSUME NEW y \in Objects PROVE Exact(y, obj'[y])
  <2>1. obj'[y] = obj[y] \/ obj'[y].heap = "free"
    BY <1>1, CollectOne
  <2>2. obj'[y].heap = "free" => obj'[y].pvis = {}
    BY DEF IInv, Sound
  <2>3. Exact(y, obj[y])
    BY DEF Exactly
  <2>4. CASE obj'[y] = obj[y]
    BY <2>3, <2>4
  <2>5. CASE obj'[y].pvis = {}
    BY <2>5 DEF Exact
  <2>6. QED
    BY <2>1, <2>2, <2>4, <2>5
<1>3. QED
  BY <1>1, <1>2 DEF Exactly

LEMMA NextExact ==
  ASSUME IInv, IInv', Exactly, Chosen, [Next]_vars
  PROVE  Exactly'
<1>1. CASE obj' = obj
  BY <1>1 DEF Exactly, Exact, Holders
<1>2. ASSUME NEW c \in Contexts, DestroyContext(c) PROVE Exactly'
  BY <1>2, DestroyExact
<1>3. ASSUME NEW S \in SUBSET Garbage(obj, Live), GC(S) PROVE Exactly'
  BY <1>3, GCExact
<1>4. ASSUME NEW x \in Objects, NEW c \in Contexts,
             (\E keep \in BOOLEAN : Eval(x, c, keep)) \/ ReflectUntied(x, c)
      PROVE  Exactly'
  BY <1>4, GivesExact
<1>5. ASSUME NEW x \in Objects,
             \/ \E c \in Contexts : EvalForget(x, c) \/ Pass(x, c)
             \/ \E keep \in BOOLEAN : CodeRef(x, keep)
             \/ DropCode(x)
      PROVE  Exactly'
  BY <1>5, ReachExact
<1>6. ASSUME NEW x \in Objects, HashRef(x) \/ TiedOperator(x) \/ CopyWrapper(x)
      PROVE  Exactly'
  BY <1>6, TakeExact
<1>7. ASSUME NEW x \in Objects, DropWrapper(x) \/ DropTied(x) PROVE Exactly'
  BY <1>7, DropExact
<1>8. QED
  BY <1>1, <1>2, <1>3, <1>4, <1>5, <1>6, <1>7
  DEF Next, vars, NewContext, SetAutoTie, DropContext

LEMMA NextChosen ==
  ASSUME TypeOK, Chosen, [Next]_vars
  PROVE  Chosen'
<1>1. \/ status' = status /\ autotie' = autotie
      \/ \E c \in Contexts : \/ NewContext(c)
                             \/ \E v \in AutoTieValues : SetAutoTie(c, v)
                             \/ DestroyContext(c)
  BY DEF Next, vars, DropContext, Eval, EvalForget, ReflectUntied, Pass,
         HashRef, TiedOperator, CopyWrapper, DropWrapper, DropTied, CodeRef, DropCode, GC
<1>2. CASE status' = status /\ autotie' = autotie
  BY <1>2 DEF Chosen, Live
<1>3. ASSUME NEW c \in Contexts, NewContext(c) PROVE Chosen'
  <2>1. PICK v \in AutoTieValues : autotie' = [autotie EXCEPT ![c] = v]
    BY <1>3 DEF NewContext
  <2>2. Live' \subseteq Live \cup {c}
    BY <1>3 DEF NewContext, TypeOK, Live
  <2>3. QED
    BY <2>1, <2>2 DEF Chosen, TypeOK, Live
<1>4. ASSUME NEW c \in Contexts, NEW v \in AutoTieValues, SetAutoTie(c, v) PROVE Chosen'
  BY <1>4 DEF SetAutoTie, Chosen, TypeOK, Live
<1>5. ASSUME NEW c \in Contexts, DestroyContext(c) PROVE Chosen'
  BY <1>5 DEF DestroyContext, Chosen, TypeOK, Live
<1>6. QED
  BY <1>1, <1>2, <1>3, <1>4, <1>5

\* A step that changes one record, and then may collect, leaves the roots of the
\* other objects.
LEMMA OthersKept ==
  ASSUME TypeOK, NEW x \in Objects, NEW r \in Cell,
         \/ obj' = [obj EXCEPT ![x] = r]
         \/ CollectFrom([obj EXCEPT ![x] = r], Live),
         NEW y \in Objects, NEW c \in Live, c \in obj[y].pvis,
         y # x \/ c \in r.pvis
  PROVE  c \in obj'[y].pvis
<1> DEFINE o == [obj EXCEPT ![x] = r]
<1>1. o \in [Objects -> Cell] /\ o[y] = IF y = x THEN r ELSE obj[y]
  BY DEF TypeOK
<1>2. obj' = o \/ CollectFrom(o, Live)
  OBVIOUS
<1> HIDE DEF o
<1>3. c \in o[y].pvis
  BY <1>1
<1>4. obj'[y] = o[y]
  BY <1>1, <1>2, <1>3, CollectOne
<1>5. QED
  BY <1>3, <1>4

\* What AutoTie pinned stays pinned, until Perl has it again or its context ends.
LEMMA PinnedKept ==
  ASSUME IInv, IInv', Exactly, Chosen, [Next]_vars, NEW y \in Objects, NEW c \in Contexts,
         c \in obj[y].pvis, ~PerlHolds(obj[y])
  PROVE  c \in obj'[y].pvis \/ PerlHolds(obj'[y]) \/ status'[c] = "dead"
<1>1. TypeOK /\ c \in Live
  BY DEF IInv, Sound
<1>2. CASE obj' = obj
  BY <1>2
<1>3. ASSUME NEW d \in Contexts, DestroyContext(d)
      PROVE  c \in obj'[y].pvis \/ status'[c] = "dead"
  <2>1. c # d => c \in obj'[y].pvis
    BY <1>3, DestroyExact
  <2>2. c = d => status'[c] = "dead"
    BY <1>1, <1>3 DEF DestroyContext, TypeOK
  <2>3. QED
    BY <2>1, <2>2
<1>4. ASSUME NEW S \in SUBSET Garbage(obj, Live), GC(S) PROVE c \in obj'[y].pvis
  <2>1. CollectFrom(obj, Live) /\ obj \in [Objects -> Cell]
    BY <1>1, <1>4, GCExact DEF TypeOK
  <2>2. obj'[y] = obj[y]
    BY <1>1, <2>1, CollectOne
  <2>3. QED
    BY <2>2
<1>5. ASSUME NEW x \in Objects, NEW d \in Contexts,
             (\E keep \in BOOLEAN : Eval(x, d, keep)) \/ ReflectUntied(x, d)
      PROVE  c \in obj'[y].pvis \/ PerlHolds(obj'[y])
  <2>1. CASE x = y
    BY <1>5, <2>1, GivesExact
  <2>2. CASE x # y
    <3>1. PICK r \in Cell : \/ obj' = [obj EXCEPT ![x] = r]
                            \/ CollectFrom([obj EXCEPT ![x] = r], Live)
      BY <1>5, GivesRecord
    <3>2. QED
      BY <1>1, <2>2, <3>1, OthersKept
  <2>3. QED
    BY <2>1, <2>2
<1>6. ASSUME NEW x \in Objects,
             \/ \E d \in Contexts : EvalForget(x, d) \/ Pass(x, d)
             \/ \E keep \in BOOLEAN : CodeRef(x, keep)
             \/ DropCode(x)
      PROVE  c \in obj'[y].pvis
  <2>1. PICK r \in Cell : /\ r.pvis = obj[x].pvis
                          /\ \/ obj' = [obj EXCEPT ![x] = r]
                             \/ CollectFrom([obj EXCEPT ![x] = r], Live)
    BY <1>6, ReachRecord
  <2>2. QED
    BY <1>1, <2>1, OthersKept
<1>7. ASSUME NEW x \in Objects, HashRef(x) \/ TiedOperator(x) \/ CopyWrapper(x)
      PROVE  c \in obj'[y].pvis
  <2>1. PerlHolds(obj[x])
    BY <1>7 DEF HashRef, TiedOperator, CopyWrapper, PerlHolds
  <2>2. obj'[y] = obj[y]
    BY <1>1, <1>7, <2>1 DEF HashRef, TiedOperator, CopyWrapper, TypeOK
  <2>3. QED
    BY <2>2
<1>8. ASSUME NEW x \in Objects, DropWrapper(x) \/ DropTied(x)
      PROVE  c \in obj'[y].pvis
  <2>1. x # y
    BY <1>8 DEF DropWrapper, DropTied, PerlHolds
  <2>2. PICK r \in Cell : \/ obj' = [obj EXCEPT ![x] = r]
                          \/ CollectFrom([obj EXCEPT ![x] = r], Live)
    BY <1>8, DropRecord
  <2>3. QED
    BY <1>1, <2>1, <2>2, OthersKept
<1>9. QED
  BY <1>2, <1>3, <1>4, <1>5, <1>6, <1>7, <1>8
  DEF Next, vars, NewContext, SetAutoTie, DropContext

-----------------------------------------------------------------------------
(* The theorems.                                                           *)

\* Objects, passports and boxes are always as Sound says.
THEOREM Invariance ==
  ASSUME Sharing = FALSE
  PROVE  Spec => []IInv
<1>1. IInv /\ [Next]_vars => IInv'
  BY NextIInv
<1>2. QED
  BY <1>1, InitIInv, PTL DEF Spec

\* Every variable keeps its type.
THEOREM TypeCorrect ==
  ASSUME Sharing = FALSE
  PROVE  Spec => []TypeOK
<1>1. IInv => TypeOK
  BY DEF IInv
<1>2. QED
  BY <1>1, Invariance, PTL

\* A wrapper or tied variable that Perl has is one of an existing object,
\* as long as its context lives.
THEOREM HeldIsUsable ==
  ASSUME Sharing = FALSE
  PROVE  Spec => []HeldUsable
<1>1. IInv => HeldUsable
  BY SafeFromIInv
<1>2. QED
  BY <1>1, Invariance, PTL

\* The count of a box is never less than the references Perl has to it.
THEOREM CountIsEnough ==
  ASSUME Sharing = FALSE
  PROVE  Spec => []CountCovers
<1>1. IInv => CountCovers
  BY SafeFromIInv
<1>2. QED
  BY <1>1, Invariance, PTL

\* A passport never refers to a freed box.
THEOREM PassportsAreSound ==
  ASSUME Sharing = FALSE
  PROVE  Spec => []PassportSound
<1>1. IInv => PassportSound
  BY SafeFromIInv
<1>2. QED
  BY <1>1, Invariance, PTL

\* With what they rest on, where AutoTie stays out.
LEMMA SpecExact ==
  ASSUME Sharing = FALSE
  PROVE  Spec => [](IInv /\ Exactly /\ Chosen)
<1>1. Init => Exactly /\ Chosen
  <2> DEFINE N == NewCell(CHOOSE c \in Contexts : TRUE)
             r == [N EXCEPT !.heap = "free"]
  <2>1. r.pvis = {}
    BY DEF NewCell
  <2> HIDE DEF r
  <2>2. Init => obj = [x \in Objects |-> r]
    BY DEF Init, r
  <2>3. Init => \A x \in Objects : obj[x].pvis = {}
    BY <2>1, <2>2
  <2>4. QED
    BY <2>3 DEF Init, Exactly, Exact, Chosen, Live
<1>2. IInv /\ IInv' /\ Exactly /\ Chosen /\ [Next]_vars => Exactly' /\ Chosen'
  BY NextExact, NextChosen DEF IInv
<1>3. QED
  BY <1>1, <1>2, Invariance, PTL DEF Spec

\* A root is given up in the step in which Perl lets go of the object, or the
\* context is destroyed, and never otherwise; where AutoTie stays out, it is then.
THEOREM RootsAreKept ==
  ASSUME Sharing = FALSE
  PROVE  Spec => UnrootedAtRelease
<1>1. IInv' => HeldUsable'
  <2>1. IInv => HeldUsable
    BY SafeFromIInv
  <2>2. QED
    BY <2>1, PTL
<1>2. ASSUME IInv, IInv', Exactly, Exactly', Chosen, [Next]_vars,
             NEW x \in Objects, NEW c \in obj[x].pvis
      PROVE  /\ c \notin obj'[x].pvis => LetGo(x) \/ status'[c] = "dead"
             /\ NeverTies(x) /\ LetGo(x) => c \notin obj'[x].pvis
  <2>1. c \in Live /\ obj[x].home = c /\ obj[x].heap = "used" /\ TypeOK
    <3>1. obj[x] \in Cell /\ Sound(obj[x], Live, Started) /\ TypeOK
      BY <1>2 DEF IInv, TypeOK
    <3>2. obj[x].heap \in {"free", "used"}
      BY <3>1, CellFields
    <3>3. QED
      BY <3>1, <3>2 DEF Sound
  <2>2. obj'[x].home = c
    BY <1>2, <2>1, HomeKept
  <2>3. status'[c] = "dead" \/ c \in Live'
    BY <1>2, <2>1, LiveStays
  <2>4. c \notin obj'[x].pvis => ~PerlHolds(obj'[x]) \/ status'[c] = "dead"
    BY <1>1, <1>2, <2>2, <2>3 DEF HeldUsable
  <2>5. ~PerlHolds(obj[x]) =>
          c \in obj'[x].pvis \/ PerlHolds(obj'[x]) \/ status'[c] = "dead"
    BY <1>2, <2>1, PinnedKept DEF Live
  <2>6. c \notin obj'[x].pvis => LetGo(x) \/ status'[c] = "dead"
    BY <2>4, <2>5 DEF LetGo
  <2>7. ASSUME NeverTies(x), ~PerlHolds(obj'[x]) PROVE obj'[x].pvis = {}
    <3> DEFINE b == obj'[x]
    <3>1. Sound(b, Live', Started') /\ b \in Cell
      BY <1>2 DEF IInv, TypeOK
    <3>2. Exact(x, b)
      BY <1>2 DEF Exactly
    <3> HIDE DEF b
    <3>3. ~PerlHolds(b) => Holders(b) = 0
      BY <3>1, HoldersFacts
    <3>4. b.box \in BoxState
      BY <3>1, CellFields
    <3>5. b.pvis # {} => b.rc > 0
      BY <3>1, <3>4 DEF Sound, BoxState
    <3>6. QED
      BY <2>7, <3>2, <3>3, <3>5 DEF Exact, b
  <2>8. QED
    BY <2>6, <2>7 DEF LetGo
<1>3. IInv /\ IInv' /\ Exactly /\ Exactly' /\ Chosen /\ [Next]_vars =>
        [\A x \in Objects : \A c \in obj[x].pvis :
           /\ c \notin obj'[x].pvis => LetGo(x) \/ status'[c] = "dead"
           /\ NeverTies(x) /\ LetGo(x) => c \notin obj'[x].pvis]_vars
  BY <1>2
<1>4. QED
  BY <1>3, SpecExact, PTL DEF Spec, UnrootedAtRelease

=============================================================================
