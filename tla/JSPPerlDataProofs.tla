-------------------------- MODULE JSPPerlDataProofs --------------------------
(***************************************************************************)
(* Theorems about JSPPerlData, for all names, digits and values, arrays of *)
(* any length and loops of any depth.                                      *)
(*                                                                         *)
(* What makes loops complete is that an array loop has seen the indexes    *)
(* below its counter, and that of the loops over a hash only the innermost *)
(* can be alone with the iterator, which then has what the loop has not    *)
(* seen.                                                                   *)
(***************************************************************************)
EXTENDS JSPPerlData, FiniteSetTheorems, SequenceTheorems, TLAPS

-----------------------------------------------------------------------------
(* The inductive invariant.                                                *)

\* What may be in a container, and where.
Items == Scalars \cup (IF Array THEN {Hole} ELSE {})

DataOK(f) ==
  /\ f \in [DOMAIN f -> Items]
  /\ Array => \E n \in 0 .. MaxLen : DOMAIN f = 0 .. n - 1
  /\ Hash => DOMAIN f \subseteq Keys

OwnOK(o) == DOMAIN o \subseteq Keys /\ o \in [DOMAIN o -> Scalars \cup {Undefined}]

Iterator == [on: BOOLEAN, left: SUBSET Keys]

\* A loop that is alone, when the keys are D; top says that it is the innermost.
Sound(loop, D, it, top) ==
  loop.alone =>
    /\ ~loop.again /\ loop.stay \subseteq D
    /\ Array => loop.seen = 0 .. loop.at - 1
    /\ Hash => /\ top /\ it.on
               /\ loop.seen \cap it.left = {}
               /\ loop.stay \subseteq loop.seen \cup it.left

LoopsOK(L, D, it) ==
  /\ L \in Seq(Loop) /\ it \in Iterator
  /\ \A i \in 1 .. Len(L) : Sound(L[i], D, it, i = Len(L))

DataInv == kind \in Kinds /\ DataOK(data)
LoopsInv == LoopsOK(loops, DOMAIN data, iter)
DoneInv == done \in Loop /\ LoopsComplete
ReplyInv == reply \in [key: Keys \cup {Undefined}, value: Scalars \cup {Undefined, Thrown}]

IInv == DataInv /\ OwnOK(own) /\ LoopsInv /\ DoneInv /\ ReplyInv

-----------------------------------------------------------------------------
(* Constants and the initial state.                                        *)

LEMMA Constants ==
  /\ Kinds \subseteq {"ARRAY", "HASH"} /\ MaxLen \in Nat /\ MaxLoops \in Nat
  /\ Digits \subseteq Nat
  /\ {Undefined, Hole, Bad, Thrown} \cap (Values \cup Names \cup Int) = {}
BY DataAssumption

\* The marks are different from each other.
LEMMA Distinct == Undefined # Hole /\ Undefined # Thrown /\ Hole # Thrown
<1>1. ASSUME NEW a, NEW b, NEW c PROVE Cardinality({a, b, c}) < 4
  <2>1. IsFiniteSet({}) /\ Cardinality({}) = 0
    BY FS_EmptySet
  <2>2. /\ IsFiniteSet({} \cup {a}) /\ Cardinality({} \cup {a}) = 1
    BY <2>1, FS_AddElement
  <2>3. /\ IsFiniteSet(({} \cup {a}) \cup {b})
        /\ Cardinality(({} \cup {a}) \cup {b}) \in {1, 2}
    BY <2>2, FS_AddElement
  <2>4. Cardinality((({} \cup {a}) \cup {b}) \cup {c}) \in {1, 2, 3}
    BY <2>3, FS_AddElement
  <2>5. (({} \cup {a}) \cup {b}) \cup {c} = {a, b, c}
    OBVIOUS
  <2>. QED BY <2>4, <2>5
<1>2. Cardinality({Undefined, Hole, Bad, Thrown}) = 4
  BY DataAssumption
<1>3. ASSUME Undefined = Hole PROVE FALSE
  <2>1. {Undefined, Hole, Bad, Thrown} = {Undefined, Bad, Thrown}
    BY <1>3, Zenon
  <2>2. Cardinality({Undefined, Hole, Bad, Thrown}) < 4
    BY <1>1, <2>1
  <2>. QED BY <1>2, <2>2
<1>4. ASSUME Undefined = Thrown PROVE FALSE
  <2>1. {Undefined, Hole, Bad, Thrown} = {Undefined, Hole, Bad}
    BY <1>4, Zenon
  <2>2. Cardinality({Undefined, Hole, Bad, Thrown}) < 4
    BY <1>1, <2>1
  <2>. QED BY <1>2, <2>2
<1>5. ASSUME Hole = Thrown PROVE FALSE
  <2>1. {Undefined, Hole, Bad, Thrown} = {Undefined, Hole, Bad}
    BY <1>5, Zenon
  <2>2. Cardinality({Undefined, Hole, Bad, Thrown}) < 4
    BY <1>1, <2>1
  <2>. QED BY <1>2, <2>2
<1>. QED BY <1>3, <1>4, <1>5

LEMMA Size ==
  ASSUME NEW n \in Nat
  PROVE  Cardinality(0 .. n - 1) = n
BY FS_Interval

\* The elements of an array are side by side, and Len0 of them.
LEMMA ArrayFacts ==
  ASSUME DataInv, Array
  PROVE  Len0 \in 0 .. MaxLen /\ DOMAIN data = 0 .. Len0 - 1
<1>1. PICK n \in 0 .. MaxLen : DOMAIN data = 0 .. n - 1
  BY DEF DataInv, DataOK
<1>2. Len0 = n
  BY <1>1, Size, Constants DEF Len0
<1>. QED BY <1>1, <1>2

\* The other way round, for the data that an operation makes.
LEMMA Sized ==
  ASSUME Array, NEW n \in 0 .. MaxLen, NEW f \in [0 .. n - 1 -> Items]
  PROVE  DataOK(f)
<1>1. DOMAIN f = 0 .. n - 1
  OBVIOUS
<1>. QED BY <1>1 DEF DataOK, Array, Hash

LEMMA KeyFacts ==
  /\ Array => Keys = -1 .. MaxLen - 1
  /\ Hash => Keys = Names \cup Digits
BY DEF Keys, Numbers, Array, Hash

LEMMA GivenOK ==
  ASSUME kind \in Kinds, NEW f \in Given
  PROVE  DataOK(f)
<1>1. CASE Array
  <2>1. PICK vs \in BoundedSeq(Values, MaxLen) : f = [x \in 0 .. Len(vs) - 1 |-> vs[x + 1]]
    BY <1>1 DEF Given
  <2>2. PICK n \in 0 .. MaxLen : vs \in [1 .. n -> Values]
    BY <2>1 DEF BoundedSeq, SeqOf
  <2>3. Len(vs) = n
    BY <2>2, Constants
  <2>4. f \in [0 .. n - 1 -> Items]
    BY <1>1, <2>1, <2>2, <2>3, Constants DEF Items, Scalars
  <2>. QED BY <1>1, <2>4, Sized
<1>2. CASE ~Array
  <2>1. PICK K \in SUBSET Keys : f \in [K -> Scalars]
    BY <1>2 DEF Given
  <2>. QED BY <1>2, <2>1 DEF DataOK, Items, Array, Hash
<1>. QED BY <1>1, <1>2

-----------------------------------------------------------------------------
(* Loops.                                                                  *)

LEMMA NoLoopFacts ==
  /\ NoLoop \in Loop /\ NoLoop.alone = FALSE
  /\ \A D, it, top : Sound(NoLoop, D, it, top)
BY Constants DEF NoLoop, Loop, Sound

\* kind never changes, so what depends on it alone does not either.
LEMMA SameKind ==
  ASSUME kind' = kind
  PROVE  /\ Array' = Array /\ Hash' = Hash /\ Keys' = Keys /\ Scalars' = Scalars
         /\ Items' = Items /\ Loop' = Loop /\ Iterator' = Iterator
         /\ \A f : DataOK(f)' <=> DataOK(f)
BY DEF Array, Hash, Keys, Numbers, Scalars, Items, Loop, Iterator, DataOK

LEMMA DisturbedFacts ==
  ASSUME NEW L \in Seq(Loop), NEW f, NEW lone \in BOOLEAN
  PROVE  /\ Disturbed(L, f, lone) \in Seq(Loop)
         /\ Len(Disturbed(L, f, lone)) = Len(L)
         /\ \A i \in 1 .. Len(L) :
              Disturbed(L, f, lone)[i] =
                IF L[i].alone /\ (lone \/ Array) THEN [L[i] EXCEPT !.stay = @ \cap DOMAIN f]
                ELSE NoLoop
<1>. DEFINE D == Disturbed(L, f, lone)
<1>1. D = [i \in 1 .. Len(L) |->
             IF L[i].alone /\ (lone \/ Array) THEN [L[i] EXCEPT !.stay = @ \cap DOMAIN f]
             ELSE NoLoop]
  BY DEF Disturbed
<1>2. \A i \in 1 .. Len(L) : L[i] \in Loop
  OBVIOUS
<1>3. \A i \in 1 .. Len(L) : [L[i] EXCEPT !.stay = @ \cap DOMAIN f] \in Loop
  BY <1>2 DEF Loop
<1>4. D \in [1 .. Len(L) -> Loop]
  BY <1>1, <1>3, NoLoopFacts
<1>5. Len(L) \in Nat
  OBVIOUS
<1>6. D \in Seq(Loop) /\ Len(D) = Len(L)
  BY <1>4, <1>5
<1>. QED BY <1>1, <1>6

\* The loops after a change of the data.
LEMMA Becomes ==
  ASSUME DataInv, LoopsInv, NEW f, DataOK(f), DataBecomes(f)
  PROVE  LoopsOK(loops', DOMAIN f, iter')
<1>. DEFINE news == DOMAIN f \ DOMAIN data
<1>1. loops \in Seq(Loop) /\ iter \in Iterator
  BY DEF LoopsInv, LoopsOK
<1>2. loops' = Disturbed(loops, f, news = {})
  BY DEF DataBecomes
<1>3. /\ loops' \in Seq(Loop) /\ Len(loops') = Len(loops)
      /\ \A i \in 1 .. Len(loops) :
           loops'[i] = IF loops[i].alone /\ (news = {} \/ Array)
                       THEN [loops[i] EXCEPT !.stay = @ \cap DOMAIN f] ELSE NoLoop
  <2>1. PICK lone \in BOOLEAN : lone = (news = {})
    OBVIOUS
  <2>2. loops' = Disturbed(loops, f, lone)
    BY <1>2, <2>1
  <2>3. /\ loops' \in Seq(Loop) /\ Len(loops') = Len(loops)
        /\ \A i \in 1 .. Len(loops) :
             loops'[i] = IF loops[i].alone /\ (lone \/ Array)
                         THEN [loops[i] EXCEPT !.stay = @ \cap DOMAIN f] ELSE NoLoop
    BY <1>1, <2>2, DisturbedFacts
  <2>. QED BY <2>1, <2>3
<1>4. ASSUME Array PROVE LoopsOK(loops', DOMAIN f, iter')
  <2>1. iter' = iter
    BY <1>4 DEF DataBecomes
  <2>2. \A i \in 1 .. Len(loops) : Sound(loops'[i], DOMAIN f, iter', i = Len(loops'))
    <3>. SUFFICES ASSUME NEW i \in 1 .. Len(loops), loops[i].alone
                  PROVE  Sound(loops'[i], DOMAIN f, iter', i = Len(loops'))
      BY <1>3, NoLoopFacts DEF Sound
    <3>1. loops[i] \in Loop /\ Sound(loops[i], DOMAIN data, iter, i = Len(loops))
      BY <1>1 DEF LoopsInv, LoopsOK
    <3>2. loops'[i] = [loops[i] EXCEPT !.stay = @ \cap DOMAIN f]
      BY <1>3, <1>4
    <3>. QED BY <1>4, <3>1, <3>2 DEF Sound, Loop, Array, Hash
  <2>. QED BY <1>1, <1>3, <2>1, <2>2 DEF LoopsOK
<1>5. ASSUME Hash, news = {} PROVE LoopsOK(loops', DOMAIN f, iter')
  <2>1. iter' = [iter EXCEPT !.left = @ \cap DOMAIN f]
    BY <1>5 DEF DataBecomes, Hash, Array
  <2>2. iter' \in Iterator
    BY <1>1, <2>1 DEF Iterator
  <2>3. \A i \in 1 .. Len(loops) : Sound(loops'[i], DOMAIN f, iter', i = Len(loops'))
    <3>. SUFFICES ASSUME NEW i \in 1 .. Len(loops), loops[i].alone
                  PROVE  Sound(loops'[i], DOMAIN f, iter', i = Len(loops'))
      BY <1>3, NoLoopFacts DEF Sound
    <3>1. loops[i] \in Loop /\ Sound(loops[i], DOMAIN data, iter, i = Len(loops))
      BY <1>1 DEF LoopsInv, LoopsOK
    <3>2. loops'[i] = [loops[i] EXCEPT !.stay = @ \cap DOMAIN f]
      BY <1>3, <1>5
    <3>. QED BY <1>1, <1>3, <1>5, <2>1, <3>1, <3>2 DEF Sound, Loop, Iterator, Array, Hash
  <2>. QED BY <1>3, <2>2, <2>3 DEF LoopsOK
<1>6. ASSUME Hash, news # {} PROVE LoopsOK(loops', DOMAIN f, iter')
  <2>1. PICK R \in SUBSET DOMAIN f : iter' = [iter EXCEPT !.left = R]
    BY <1>6 DEF DataBecomes, Hash, Array
  <2>2. iter' \in Iterator
    BY <1>1, <1>6, <2>1 DEF Iterator, DataOK
  <2>3. \A i \in 1 .. Len(loops) : loops'[i] = NoLoop
    BY <1>3, <1>6 DEF Hash, Array
  <2>. QED BY <1>3, <2>2, <2>3, NoLoopFacts DEF LoopsOK
<1>7. Array \/ Hash
  BY Constants DEF DataInv, Array, Hash
<1>. QED BY <1>4, <1>5, <1>6, <1>7

-----------------------------------------------------------------------------
(* What the operations make of the data.                                   *)

LEMMA StoredOK ==
  ASSUME DataInv, Array, NEW i \in 0 .. MaxLen - 1, NEW v \in Items
  PROVE  DataOK(Stored(data, i, v))
<1>. DEFINE n == IF i < Len0 THEN Len0 ELSE i + 1
<1>1. Len0 \in 0 .. MaxLen /\ DOMAIN data = 0 .. Len0 - 1
  BY ArrayFacts
<1>2. n \in 0 .. MaxLen
  BY <1>1, Constants
<1>3. \A x \in DOMAIN data : data[x] \in Items
  BY DEF DataInv, DataOK
<1>4. Stored(data, i, v) =
        [x \in 0 .. n - 1 |-> IF x = i THEN v ELSE IF x < Len0 THEN data[x] ELSE Hole]
  BY DEF Stored, Len0
<1>5. Stored(data, i, v) \in [0 .. n - 1 -> Items]
  BY <1>1, <1>3, <1>4, Constants DEF Items
<1>. QED BY <1>2, <1>5, Sized

LEMMA FilledOK ==
  ASSUME DataInv, Array, NEW n \in 0 .. MaxLen
  PROVE  DataOK(Filled(data, n))
<1>1. Filled(data, n) \in [0 .. n - 1 -> Items]
  BY DEF Filled, DataInv, DataOK, Items
<1>. QED BY <1>1, Sized

LEMMA PutOK ==
  ASSUME DataInv, Hash, NEW k \in Keys, NEW v \in Scalars
  PROVE  DataOK(Put(data, k, v))
<1>1. DOMAIN Put(data, k, v) = DOMAIN data \cup {k}
  BY DEF Put
<1>2. Put(data, k, v) \in [DOMAIN data \cup {k} -> Items]
  BY DEF Put, DataInv, DataOK, Items
<1>. QED BY <1>1, <1>2 DEF DataOK, DataInv, Array, Hash

LEMMA WithoutOK ==
  ASSUME DataInv, NEW k, Array => k = Len0 - 1
  PROVE  DataOK(Without(data, k))
<1>1. Without(data, k) \in [DOMAIN data \ {k} -> Items]
  BY DEF Without, DataInv, DataOK
<1>2. CASE Array
  <2>. DEFINE n == IF Len0 = 0 THEN 0 ELSE Len0 - 1
  <2>1. Len0 \in 0 .. MaxLen /\ DOMAIN data = 0 .. Len0 - 1
    BY <1>2, ArrayFacts
  <2>2. n \in 0 .. MaxLen /\ DOMAIN data \ {k} = 0 .. n - 1
    BY <1>2, <2>1, Constants
  <2>. QED BY <1>1, <1>2, <2>2, Sized
<1>3. CASE ~Array
  <2>1. DOMAIN Without(data, k) = DOMAIN data \ {k}
    BY DEF Without
  <2>. QED BY <1>1, <1>3, <2>1 DEF DataOK, DataInv
<1>. QED BY <1>2, <1>3

LEMMA PutOwn ==
  ASSUME NEW o, OwnOK(o), NEW k \in Keys, NEW v \in Scalars \cup {Undefined}
  PROVE  OwnOK(Put(o, k, v)) /\ k \in DOMAIN Put(o, k, v) /\ Put(o, k, v)[k] = v
<1>1. Put(o, k, v) \in [DOMAIN o \cup {k} -> Scalars \cup {Undefined}]
  BY DEF Put, OwnOK
<1>. QED BY <1>1 DEF OwnOK, Put

LEMMA WithoutOwn ==
  ASSUME NEW o, OwnOK(o), NEW k
  PROVE  OwnOK(Without(o, k))
<1>1. Without(o, k) \in [DOMAIN o \ {k} -> Scalars \cup {Undefined}]
  BY DEF Without, OwnOK
<1>. QED BY <1>1 DEF OwnOK

LEMMA ResolvedOwn ==
  ASSUME NEW o, OwnOK(o), NEW k \in Keys
  PROVE  OwnOK(Resolved(o, k))
BY PutOwn DEF Resolved

-----------------------------------------------------------------------------
(* Steps.                                                                  *)

\* An operation that changes data, own properties or nothing, and reads nothing.
Change ==
  /\ kind' = kind /\ done' = NoLoop /\ OwnOK(own')
  /\ reply' \in {Nothing, [key |-> Undefined, value |-> Thrown]}
  /\ \/ UNCHANGED <<data, loops, iter>>
     \/ DataOK(data') /\ DataBecomes(data')

\* What NothingLost says of a step.
Spares ==
  reply'.value = Thrown =>
    \E off \in 0 .. MaxLen :
      \A i \in DOMAIN data :
        LET j == IF Array THEN i + off ELSE i
        IN  j \in DOMAIN data' /\ data'[j] = data[i]

LEMMA ChangeInv ==
  ASSUME IInv, Change
  PROVE  IInv'
<1>. USE DEF IInv
<1>1. kind' = kind
  BY DEF Change
<1>2. DataInv'
  <2>1. DataOK(data')
    BY DEF Change, DataInv
  <2>2. DataOK(data)'
    BY <1>1, <2>1 DEF DataOK, Array, Hash, Items, Scalars, Keys, Numbers
  <2>. QED BY <1>1, <2>2 DEF DataInv
<1>3. LoopsInv'
  <2>1. LoopsOK(loops', DOMAIN data', iter')
    <3>1. CASE UNCHANGED <<data, loops, iter>>
      BY <3>1 DEF LoopsInv
    <3>2. CASE DataOK(data') /\ DataBecomes(data')
      BY <3>2, Becomes
    <3>. QED BY <3>1, <3>2 DEF Change
  <2>. QED BY <1>1, <2>1 DEF LoopsInv, LoopsOK, Sound, Loop, Iterator, Keys, Numbers, Array, Hash
<1>4. OwnOK(own)'
  BY <1>1 DEF Change, OwnOK, Keys, Numbers, Array, Scalars
<1>5. DoneInv'
  <2>1. done' \in Loop /\ done'.alone = FALSE
    BY NoLoopFacts DEF Change
  <2>2. Loop' = Loop
    BY <1>1, SameKind
  <2>. QED BY <2>1, <2>2 DEF DoneInv, LoopsComplete
<1>6. ReplyInv'
  <2>1. reply' \in [key: Keys \cup {Undefined}, value: Scalars \cup {Undefined, Thrown}]
    BY DEF Change, Nothing
  <2>. QED BY <1>1, <2>1 DEF ReplyInv, Keys, Numbers, Array, Scalars
<1>. QED BY <1>2, <1>3, <1>4, <1>5, <1>6

LEMMA DataChange ==
  ASSUME NEW f, DataOK(f), DataBecomes(f)
  PROVE  data' = f /\ DataOK(data') /\ DataBecomes(data')
<1>1. data' = f
  BY DEF DataBecomes
<1>. QED BY <1>1

\* What does not throw, or does not touch the data, spares them.
LEMMA QuietSpares ==
  ASSUME IInv, reply'.value # Thrown \/ data' = data
  PROVE  Spares
<1>1. CASE reply'.value # Thrown
  BY <1>1 DEF Spares
<1>2. CASE data' = data
  <2>1. CASE Array
    <3>1. DOMAIN data = 0 .. Len0 - 1 /\ Len0 \in Nat /\ 0 \in 0 .. MaxLen
      BY <2>1, ArrayFacts, Constants DEF IInv
    <3>2. \A i \in DOMAIN data : i + 0 = i
      BY <3>1
    <3>. QED BY <1>2, <2>1, <3>1, <3>2 DEF Spares
  <2>2. CASE ~Array
    BY <1>2, <2>2, Constants DEF Spares
  <2>. QED BY <2>1, <2>2
<1>. QED BY <1>1, <1>2

LEMMA DoneFacts ==
  ASSUME Done
  PROVE  reply' = Nothing /\ reply'.value # Thrown
BY Distinct DEF Done, Nothing

LEMMA SetStep ==
  ASSUME IInv, NEW k \in Keys, NEW v \in Scalars \cup {Bad}, Set(k, v)
  PROVE  Change /\ Spares
<1>. DEFINE o == Put(own, k, IF k \in DOMAIN own THEN own[k] ELSE Undefined)
            hooked == Array \/ k \in Names
<1>1. kind' = kind /\ done' = NoLoop
  BY DEF Set
<1>2. OwnOK(own) /\ DataInv
  BY DEF IInv
<1>3. OwnOK(o)
  BY <1>2, PutOwn DEF OwnOK
<1>4. CASE hooked /\ v = Bad
  <2>1. own' = o /\ Throws /\ UNCHANGED <<data, loops, iter>>
    BY <1>4 DEF Set
  <2>. QED BY <1>1, <1>3, <2>1, QuietSpares DEF Change, Throws, Told
<1>5. CASE ~(hooked /\ v = Bad)
  <2>1. v # Bad /\ own' = Put(o, k, Kept(v)) /\ Done
    BY <1>5 DEF Set
  <2>2. Kept(v) \in Scalars \cup {Undefined} /\ v \in Scalars
    BY <2>1 DEF Kept
  <2>3. OwnOK(own')
    BY <1>3, <2>1, <2>2, PutOwn
  <2>4. UNCHANGED <<data, loops, iter>> \/ (DataOK(data') /\ DataBecomes(data'))
    <3>1. CASE Array /\ At(k) >= 0
      <4>1. DataBecomes(Stored(data, At(k), v))
        BY <1>5, <3>1 DEF Set
      <4>2. At(k) \in 0 .. MaxLen - 1
        BY <1>2, <3>1, ArrayFacts, KeyFacts, Constants DEF At
      <4>3. DataOK(Stored(data, At(k), v))
        BY <1>2, <2>2, <3>1, <4>2, StoredOK DEF Items
      <4>. QED BY <4>1, <4>3, DataChange
    <3>2. CASE Hash /\ hooked
      <4>1. ~Array
        BY <3>2 DEF Array, Hash
      <4>2. DataBecomes(Put(data, k, v))
        BY <1>5, <3>2, <4>1 DEF Set
      <4>3. DataOK(Put(data, k, v))
        BY <1>2, <2>2, <3>2, PutOK
      <4>. QED BY <4>2, <4>3, DataChange
    <3>3. CASE ~(Array /\ At(k) >= 0) /\ ~(Hash /\ hooked)
      <4>1. UNCHANGED <<data, loops, iter>>
        BY <1>5, <3>3 DEF Set
      <4>. QED BY <4>1
    <3>. QED BY <3>1, <3>2, <3>3
  <2>. QED BY <1>1, <2>1, <2>3, <2>4, DoneFacts, QuietSpares DEF Change
<1>. QED BY <1>4, <1>5

LEMMA DeleteStep ==
  ASSUME IInv, NEW k \in Keys, Delete(k)
  PROVE  Change /\ Spares
<1>1. OwnOK(own') /\ Done /\ done' = NoLoop /\ kind' = kind
  BY WithoutOwn DEF IInv, Delete
<1>2. UNCHANGED <<data, loops, iter>> \/ (DataOK(data') /\ DataBecomes(data'))
  <2>1. CASE Hash /\ k \in Names /\ k \in DOMAIN data
    <3>1. DataBecomes(Without(data, k)) /\ ~Array
      BY <2>1 DEF Delete, Array, Hash
    <3>2. DataOK(Without(data, k))
      BY <3>1, WithoutOK DEF IInv
    <3>. QED BY <3>1, <3>2, DataChange
  <2>2. CASE ~(Hash /\ k \in Names /\ k \in DOMAIN data)
    <3>1. UNCHANGED <<data, loops, iter>>
      BY <2>2 DEF Delete
    <3>. QED BY <3>1
  <2>. QED BY <2>1, <2>2
<1>. QED BY <1>1, <1>2, DoneFacts, QuietSpares DEF Change

LEMMA HasStep ==
  ASSUME IInv, NEW k \in Keys, Has(k)
  PROVE  Change /\ Spares
<1>1. OwnOK(own') /\ Done /\ done' = NoLoop /\ UNCHANGED <<kind, data, loops, iter>>
  BY ResolvedOwn DEF IInv, Has
<1>. QED BY <1>1, DoneFacts, QuietSpares DEF Change

\* A new array, of the n elements f.
LEMMA ArrayStep ==
  ASSUME IInv, Array, NEW n \in 0 .. MaxLen, NEW f \in [0 .. n - 1 -> Items], DataBecomes(f),
         UNCHANGED <<kind, own>>, done' = NoLoop, Throws \/ Done
  PROVE  Change
<1>1. DataOK(data') /\ DataBecomes(data')
  BY Sized, DataChange
<1>. QED BY <1>1, DoneFacts DEF Change, Throws, Told, IInv

LEMMA Elements ==
  ASSUME IInv, Array
  PROVE  /\ Len0 \in 0 .. MaxLen /\ DOMAIN data = 0 .. Len0 - 1
         /\ \A i \in 0 .. Len0 - 1 : data[i] \in Items
<1>1. Len0 \in 0 .. MaxLen /\ DOMAIN data = 0 .. Len0 - 1
  BY ArrayFacts DEF IInv
<1>. QED BY <1>1 DEF IInv, DataInv, DataOK

LEMMA ShiftStep ==
  ASSUME IInv, Shift \/ Pop
  PROVE  Change /\ Spares
<1>. DEFINE n == IF Len0 = 0 THEN 0 ELSE Len0 - 1
<1>1. Array /\ Done /\ done' = NoLoop /\ UNCHANGED <<kind, own>>
  BY DEF Shift, Pop
<1>2. n \in 0 .. MaxLen /\ 0 .. n - 1 = 0 .. Len0 - 2
  BY <1>1, Elements, Constants
<1>3. PICK f : DataBecomes(f) /\ f \in [0 .. n - 1 -> Items]
  <2>1. CASE Shift
    <3>1. DataBecomes([x \in 0 .. Len0 - 2 |-> data[x + 1]])
      BY <2>1 DEF Shift
    <3>2. [x \in 0 .. Len0 - 2 |-> data[x + 1]] \in [0 .. n - 1 -> Items]
      BY <1>1, <1>2, Elements, Constants
    <3>. QED BY <3>1, <3>2
  <2>2. CASE Pop
    <3>1. DataBecomes([x \in 0 .. Len0 - 2 |-> data[x]])
      BY <2>2 DEF Pop
    <3>2. [x \in 0 .. Len0 - 2 |-> data[x]] \in [0 .. n - 1 -> Items]
      BY <1>1, <1>2, Elements, Constants
    <3>. QED BY <3>1, <3>2
  <2>. QED BY <2>1, <2>2
<1>. QED BY <1>1, <1>2, <1>3, ArrayStep, DoneFacts, QuietSpares

LEMMA SetLengthStep ==
  ASSUME IInv, NEW n \in -1 .. MaxLen, SetLength(n)
  PROVE  Change /\ Spares
<1>1. Array /\ done' = NoLoop /\ UNCHANGED <<kind, own>>
  BY DEF SetLength
<1>2. CASE n < 0
  <2>1. Throws /\ UNCHANGED <<data, loops, iter>>
    BY <1>2 DEF SetLength
  <2>. QED BY <1>1, <2>1, QuietSpares DEF Change, Throws, Told, IInv
<1>3. CASE ~(n < 0)
  <2>1. DataBecomes(Filled(data, n)) /\ Done /\ n \in 0 .. MaxLen
    BY <1>3, Constants DEF SetLength
  <2>2. Filled(data, n) \in [0 .. n - 1 -> Items]
    BY <1>1, <2>1, Elements DEF Filled, Items
  <2>. QED BY <1>1, <2>1, <2>2, ArrayStep, DoneFacts, QuietSpares
<1>. QED BY <1>2, <1>3

\* The arguments that were converted are elements.
LEMMA Arguments ==
  ASSUME NEW vs \in BoundedSeq(Values \cup {Bad}, 2), NEW good \in 0 .. Len(vs), Converts(vs, good)
  PROVE  /\ Len(vs) \in Nat
         /\ \A i \in 1 .. good : vs[i] \in Items
<1>1. PICK m \in 0 .. 2 : vs \in [1 .. m -> Values \cup {Bad}]
  BY DEF BoundedSeq, SeqOf
<1>2. Len(vs) = m
  BY <1>1
<1>3. \A i \in 1 .. good : vs[i] \in Values
  BY <1>1, <1>2 DEF Converts
<1>. QED BY <1>2, <1>3 DEF Items, Scalars

\* Every element is off places further up.
LEMMA MovedSpares ==
  ASSUME IInv, Array, NEW off \in 0 .. MaxLen,
         \A i \in 0 .. Len0 - 1 : i + off \in DOMAIN data' /\ data'[i + off] = data[i]
  PROVE  Spares
BY Elements DEF Spares

LEMMA PushStep ==
  ASSUME IInv, NEW vs \in BoundedSeq(Values \cup {Bad}, 2), Push(vs)
  PROVE  Change /\ Spares
<1>. DEFINE f(good) == [x \in 0 .. Len0 + good - 1 |->
                          IF x < Len0 THEN data[x] ELSE vs[x - Len0 + 1]]
<1>1. PICK good \in 0 .. Len(vs) :
         /\ Array /\ Len0 + Len(vs) <= MaxLen /\ Converts(vs, good)
         /\ DataBecomes(f(good))
         /\ (IF good < Len(vs) THEN Throws ELSE Done)
         /\ done' = NoLoop /\ UNCHANGED <<kind, own>>
  BY DEF Push
<1>2. /\ Len0 \in 0 .. MaxLen /\ DOMAIN data = 0 .. Len0 - 1
      /\ \A i \in 0 .. Len0 - 1 : data[i] \in Items
  BY <1>1, Elements
<1>3. Len(vs) \in Nat /\ \A i \in 1 .. good : vs[i] \in Items
  BY <1>1, Arguments
<1>4. Len0 + good \in 0 .. MaxLen
  BY <1>1, <1>2, <1>3, Constants
<1>5. f(good) \in [0 .. (Len0 + good) - 1 -> Items]
  <2>1. ASSUME NEW x \in 0 .. Len0 + good - 1
        PROVE  (IF x < Len0 THEN data[x] ELSE vs[x - Len0 + 1]) \in Items
    <3>1. CASE x < Len0
      BY <1>2, <3>1
    <3>2. CASE ~(x < Len0)
      <4>1. x - Len0 + 1 \in 1 .. good
        BY <1>2, <1>3, <3>2
      <4>. QED BY <1>3, <3>2, <4>1
    <3>. QED BY <3>1, <3>2
  <2>2. f(good) \in [0 .. Len0 + good - 1 -> Items]
    BY <2>1, Zenon
  <2>3. 0 .. Len0 + good - 1 = 0 .. (Len0 + good) - 1
    BY <1>2
  <2>. QED BY <2>2, <2>3, Zenon
<1>6. Throws \/ Done
  BY <1>1
<1>7. data' = f(good)
  BY <1>1 DEF DataBecomes
<1>8. \A i \in 0 .. Len0 - 1 : i + 0 \in DOMAIN data' /\ data'[i + 0] = data[i]
  BY <1>2, <1>3, <1>7
<1>9. Change
  BY <1>1, <1>4, <1>5, <1>6, ArrayStep
<1>10. Spares
  <2>1. Array /\ 0 \in 0 .. MaxLen
    BY <1>1, Constants
  <2> HIDE DEF f
  <2>2. QED
    BY <2>1, <1>8, MovedSpares
<1>. QED BY <1>9, <1>10

LEMMA UnshiftStep ==
  ASSUME IInv, NEW vs \in BoundedSeq(Values \cup {Bad}, 2), Unshift(vs)
  PROVE  Change /\ Spares
<1>. DEFINE room == Moved(data, Len(vs))
            f(good) == [x \in DOMAIN room |-> IF x < good THEN vs[x + 1] ELSE room[x]]
<1>1. PICK good \in 0 .. Len(vs) :
         /\ Array /\ Len0 + Len(vs) <= MaxLen /\ Converts(vs, good)
         /\ DataBecomes(f(good))
         /\ (IF good < Len(vs) THEN Throws ELSE Done)
         /\ done' = NoLoop /\ UNCHANGED <<kind, own>>
  BY DEF Unshift
<1>2. /\ Len0 \in 0 .. MaxLen /\ DOMAIN data = 0 .. Len0 - 1
      /\ \A i \in 0 .. Len0 - 1 : data[i] \in Items
  BY <1>1, Elements
<1>3. Len(vs) \in Nat /\ \A i \in 1 .. good : vs[i] \in Items
  BY <1>1, Arguments
<1>4. Len0 + Len(vs) \in 0 .. MaxLen /\ Len(vs) \in 0 .. MaxLen
  BY <1>1, <1>2, <1>3, Constants
<1>5. room = [x \in 0 .. (Len0 + Len(vs)) - 1 |-> IF x < Len(vs) THEN Hole ELSE data[x - Len(vs)]]
  <2>1. 0 .. Len0 + Len(vs) - 1 = 0 .. (Len0 + Len(vs)) - 1
    BY <1>2, <1>3
  <2>. QED BY <2>1, Zenon DEF Moved, Len0
<1>6. f(good) = [x \in 0 .. (Len0 + Len(vs)) - 1 |->
                   IF x < good THEN vs[x + 1]
                   ELSE IF x < Len(vs) THEN Hole ELSE data[x - Len(vs)]]
  BY <1>5
<1>7. f(good) \in [0 .. (Len0 + Len(vs)) - 1 -> Items]
  <2>1. ASSUME NEW x \in 0 .. (Len0 + Len(vs)) - 1
        PROVE  (IF x < good THEN vs[x + 1]
                ELSE IF x < Len(vs) THEN Hole ELSE data[x - Len(vs)]) \in Items
    <3>1. CASE x < good
      <4>1. x + 1 \in 1 .. good
        BY <1>3, <3>1
      <4>. QED BY <1>3, <3>1, <4>1
    <3>2. CASE ~(x < good) /\ x < Len(vs)
      BY <1>1, <3>2 DEF Items
    <3>3. CASE ~(x < good) /\ ~(x < Len(vs))
      <4>1. x - Len(vs) \in 0 .. Len0 - 1
        BY <1>2, <1>3, <3>3
      <4>. QED BY <1>2, <3>3, <4>1
    <3>. QED BY <3>1, <3>2, <3>3
  <2>. QED BY <1>6, <2>1, Zenon
<1>8. Throws \/ Done
  BY <1>1
<1>9. data' = f(good)
  BY <1>1 DEF DataBecomes
<1>10. \A i \in 0 .. Len0 - 1 : i + Len(vs) \in DOMAIN data' /\ data'[i + Len(vs)] = data[i]
  <2>. SUFFICES ASSUME NEW i \in 0 .. Len0 - 1
                PROVE  i + Len(vs) \in DOMAIN data' /\ data'[i + Len(vs)] = data[i]
    OBVIOUS
  <2>. DEFINE x == i + Len(vs)
  <2>1. x \in 0 .. (Len0 + Len(vs)) - 1 /\ ~(x < good) /\ ~(x < Len(vs)) /\ x - Len(vs) = i
    BY <1>2, <1>3
  <2>2. DOMAIN data' = 0 .. (Len0 + Len(vs)) - 1
    BY <1>6, <1>9, Zenon
  <2>3. data'[x] = data[x - Len(vs)]
    BY <1>6, <1>9, <2>1
  <2>. QED BY <2>1, <2>2, <2>3
<1>11. Change
  BY <1>1, <1>4, <1>7, <1>8, ArrayStep
<1>12. Spares
  <2>1. Array /\ Len(vs) \in 0 .. MaxLen
    BY <1>1, <1>4
  <2>2. QED
    BY <2>1, <1>10, MovedSpares
<1>. QED BY <1>11, <1>12

LEMMA PerlStoreStep ==
  ASSUME IInv, NEW k \in Keys, NEW v \in Scalars, PerlStore(k, v)
  PROVE  Change /\ Spares
<1>1. Done /\ done' = NoLoop /\ UNCHANGED <<kind, own>>
  BY DEF PerlStore, Silent
<1>2. DataOK(data') /\ DataBecomes(data')
  <2>1. CASE Array
    <3>1. k \in 0 .. MaxLen - 1 /\ DataBecomes(Stored(data, k, v))
      BY <2>1 DEF PerlStore, Array, Hash
    <3>2. DataOK(Stored(data, k, v))
      BY <2>1, <3>1, StoredOK DEF IInv, Items
    <3>. QED BY <3>1, <3>2, DataChange
  <2>2. CASE ~Array
    <3>1. Hash /\ DataBecomes(Put(data, k, v))
      BY <2>2 DEF PerlStore
    <3>2. DataOK(Put(data, k, v))
      BY <3>1, PutOK DEF IInv
    <3>. QED BY <3>1, <3>2, DataChange
  <2>. QED BY <2>1, <2>2
<1>. QED BY <1>1, <1>2, DoneFacts, QuietSpares DEF Change, IInv

LEMMA PerlDeleteStep ==
  ASSUME IInv, NEW k \in Keys, PerlDelete(k)
  PROVE  Change /\ Spares
<1>1. Done /\ done' = NoLoop /\ UNCHANGED <<kind, own>>
  BY DEF PerlDelete, Silent
<1>2. DataBecomes(Without(data, k)) /\ (Array => k = Len0 - 1)
  BY DEF PerlDelete, Array, Hash
<1>3. DataOK(Without(data, k))
  BY <1>2, WithoutOK DEF IInv
<1>4. DataOK(data') /\ DataBecomes(data')
  BY <1>2, <1>3, DataChange
<1>. QED BY <1>1, <1>4, DoneFacts, QuietSpares DEF Change, IInv

-----------------------------------------------------------------------------
(* Reading.                                                                *)

LEMMA FetchedFacts ==
  ASSUME IInv, NEW k \in Keys, NEW o, OwnOK(o)
  PROVE  Fetched(k, o) \in Scalars \cup {Undefined, Thrown}
<1>1. CASE Found(k)
  <2>1. At(k) \in DOMAIN data /\ (Array => data[At(k)] # Hole)
    BY <1>1 DEF Found, At, Array, Hash
  <2>2. data[At(k)] \in Items
    BY <2>1 DEF IInv, DataInv, DataOK
  <2>. QED BY <1>1, <2>1, <2>2 DEF Fetched, Items
<1>2. CASE ~Found(k)
  BY <1>2 DEF Fetched, OwnOK
<1>. QED BY <1>1, <1>2

\* Perl's data and the loops are as they were.
LEMMA Unmoved ==
  ASSUME IInv, UNCHANGED <<kind, data, loops, iter>>
  PROVE  DataInv' /\ LoopsInv'
<1>1. DataInv'
  BY DEF IInv, DataInv, DataOK, Items, Scalars, Keys, Numbers, Array, Hash
<1>2. LoopsInv'
  BY DEF IInv, LoopsInv, LoopsOK, Sound, Loop, Iterator, Keys, Numbers, Array, Hash
<1>. QED BY <1>1, <1>2

LEMMA GetStep ==
  ASSUME IInv, NEW k \in Keys, Get(k)
  PROVE  IInv' /\ Spares
<1>. DEFINE o == Resolved(own, k)
            v == Fetched(k, o)
<1>1. /\ own' = IF k \in DOMAIN o /\ v # Thrown THEN Put(o, k, Kept(v)) ELSE o
      /\ reply' = [key |-> k, value |-> v] /\ done' = NoLoop
      /\ UNCHANGED <<kind, data, loops, iter>>
  BY DEF Get, Told
<1>2. OwnOK(o)
  BY ResolvedOwn DEF IInv
<1>3. v \in Scalars \cup {Undefined, Thrown}
  BY <1>2, FetchedFacts
<1>4. OwnOK(own')
  <2>1. CASE k \in DOMAIN o /\ v # Thrown
    <3>1. Kept(v) \in Scalars \cup {Undefined}
      BY <1>3, <2>1 DEF Kept
    <3>. QED BY <1>1, <1>2, <2>1, <3>1, PutOwn
  <2>2. CASE ~(k \in DOMAIN o /\ v # Thrown)
    BY <1>1, <1>2, <2>2
  <2>. QED BY <2>1, <2>2
<1>. HIDE DEF o, v
<1>5. OwnOK(own)'
  BY <1>1, <1>4 DEF OwnOK, Keys, Numbers, Array, Scalars
<1>6. ReplyInv'
  <2>1. reply' \in [key: Keys \cup {Undefined}, value: Scalars \cup {Undefined, Thrown}]
    BY <1>1, <1>3
  <2>. QED BY <1>1, <2>1 DEF ReplyInv, Keys, Numbers, Array, Scalars
<1>7. DoneInv'
  BY <1>1, NoLoopFacts, SameKind DEF DoneInv, LoopsComplete
<1>8. DataInv' /\ LoopsInv'
  BY <1>1, Unmoved
<1>9. Spares
  BY <1>1, QuietSpares
<1>. QED BY <1>5, <1>6, <1>7, <1>8, <1>9 DEF IInv

-----------------------------------------------------------------------------
(* Steps of loops.                                                         *)

LEMMA LoopStep ==
  ASSUME IInv, UNCHANGED <<kind, data, own>>, reply' \in {reply, Nothing},
         LoopsOK(loops', DOMAIN data, iter'),
         done' \in Loop, done'.alone => done'.stay \subseteq done'.seen /\ ~done'.again
  PROVE  IInv' /\ Spares
<1>1. DataInv'
  BY DEF IInv, DataInv, DataOK, Items, Scalars, Keys, Numbers, Array, Hash
<1>2. LoopsInv'
  BY DEF LoopsInv, LoopsOK, Sound, Loop, Iterator, Keys, Numbers, Array, Hash
<1>3. OwnOK(own)'
  BY DEF IInv, OwnOK, Keys, Numbers, Array, Scalars
<1>4. DoneInv'
  BY SameKind DEF DoneInv, LoopsComplete
<1>5. ReplyInv'
  BY DEF IInv, ReplyInv, Nothing, Keys, Numbers, Array, Scalars
<1>6. Spares
  BY QuietSpares
<1>. QED BY <1>1, <1>2, <1>3, <1>4, <1>5, <1>6 DEF IInv

LEMMA FrontFacts ==
  ASSUME NEW S, NEW s \in Seq(S), Len(s) > 0
  PROVE  /\ Front(s) \in Seq(S) /\ Len(Front(s)) = Len(s) - 1
         /\ \A i \in 1 .. Len(s) - 1 : Front(s)[i] = s[i]
<1>1. Len(s) \in Nat /\ Len(s) >= 1
  BY LenProperties
<1>2. Front(s) = SubSeq(s, 1, Len(s) - 1)
  BY DEF Front
<1>3. \A i \in 1 .. Len(s) - 1 : s[i] \in S
  BY <1>1, ElementOfSeq
<1>4. /\ SubSeq(s, 1, Len(s) - 1) \in Seq(S)
      /\ Len(SubSeq(s, 1, Len(s) - 1)) = IF 1 <= Len(s) - 1 THEN Len(s) - 1 - 1 + 1 ELSE 0
      /\ \A i \in 1 .. Len(s) - 1 - 1 + 1 : SubSeq(s, 1, Len(s) - 1)[i] = s[1 + i - 1]
  BY <1>1, <1>3, SubSeqProperties
<1>5. Len(SubSeq(s, 1, Len(s) - 1)) = Len(s) - 1
  <2>1. CASE 1 <= Len(s) - 1
    <3>1. Len(s) - 1 - 1 + 1 = Len(s) - 1
      BY <1>1
    <3>. QED BY <1>4, <2>1, <3>1
  <2>2. CASE ~(1 <= Len(s) - 1)
    <3>1. Len(s) = 1
      <4>1. \A n \in Nat : n >= 1 /\ ~(1 <= n - 1) => n = 1
        OBVIOUS
      <4>. QED BY <1>1, <2>2, <4>1
    <3>. QED BY <1>4, <2>2, <3>1
  <2>. QED BY <2>1, <2>2
<1>6. ASSUME NEW i \in 1 .. Len(s) - 1
      PROVE  SubSeq(s, 1, Len(s) - 1)[i] = s[i]
  <2>1. i \in 1 .. Len(s) - 1 - 1 + 1 /\ 1 + i - 1 = i
    BY <1>1
  <2>. QED BY <1>4, <2>1
<1>. QED BY <1>2, <1>4, <1>5, <1>6

\* The loop on top goes; those of a hash that remain are not alone.
LEMMA FrontOK ==
  ASSUME NEW L, NEW D, NEW it, LoopsOK(L, D, it), L # <<>>, NEW it2 \in Iterator
  PROVE  /\ Last(L) \in Loop /\ Sound(Last(L), D, it, TRUE)
         /\ LoopsOK(Front(L), D, it2)
         /\ Hash => \A i \in 1 .. Len(Front(L)) : ~Front(L)[i].alone
<1>1. L \in Seq(Loop) /\ Len(L) \in Nat \ {0}
  BY DEF LoopsOK
<1>2. /\ Front(L) \in Seq(Loop) /\ Len(Front(L)) = Len(L) - 1
      /\ \A i \in 1 .. Len(L) - 1 : Front(L)[i] = L[i]
  BY <1>1, FrontFacts
<1>3. \A i \in 1 .. Len(L) : L[i] \in Loop /\ Sound(L[i], D, it, i = Len(L))
  BY <1>1 DEF LoopsOK
<1>4. Last(L) \in Loop /\ Sound(Last(L), D, it, TRUE)
  <2>1. Len(L) \in 1 .. Len(L)
    BY <1>1
  <2>. QED BY <1>3, <2>1 DEF Last, Sound
<1>5. ASSUME Hash PROVE \A i \in 1 .. Len(L) - 1 : ~L[i].alone
  <2>. SUFFICES ASSUME NEW i \in 1 .. Len(L) - 1 PROVE ~L[i].alone
    OBVIOUS
  <2>1. i \in 1 .. Len(L) /\ i # Len(L)
    BY <1>1
  <2>. QED BY <1>3, <1>5, <2>1 DEF Sound
<1>6. \A i \in 1 .. Len(L) - 1 : Sound(L[i], D, it2, i = Len(L) - 1)
  <2>. SUFFICES ASSUME NEW i \in 1 .. Len(L) - 1 PROVE Sound(L[i], D, it2, i = Len(L) - 1)
    OBVIOUS
  <2>1. Sound(L[i], D, it, i = Len(L))
    BY <1>1, <1>3
  <2>. QED BY <1>5, <2>1 DEF Sound
<1>7. LoopsOK(Front(L), D, it2)
  <2>1. \A i \in 1 .. Len(Front(L)) : Sound(Front(L)[i], D, it2, i = Len(Front(L)))
    BY <1>2, <1>6
  <2>. QED BY <1>2, <2>1 DEF LoopsOK
<1>. QED BY <1>2, <1>4, <1>5, <1>7

\* A loop comes on top of others that are not alone with the iterator.
LEMMA AppendOK ==
  ASSUME NEW L, NEW D, NEW it, LoopsOK(L, D, it),
         Hash => \A i \in 1 .. Len(L) : ~L[i].alone,
         NEW it2 \in Iterator, NEW loop \in Loop, Sound(loop, D, it2, TRUE)
  PROVE  LoopsOK(Append(L, loop), D, it2)
<1>1. L \in Seq(Loop) /\ Len(L) \in Nat
  BY DEF LoopsOK
<1>2. /\ Append(L, loop) \in Seq(Loop) /\ Len(Append(L, loop)) = Len(L) + 1
      /\ \A i \in 1 .. Len(L) : Append(L, loop)[i] = L[i]
      /\ Append(L, loop)[Len(L) + 1] = loop
  BY <1>1
<1>3. \A i \in 1 .. Len(L) + 1 : Sound(Append(L, loop)[i], D, it2, i = Len(L) + 1)
  <2>. SUFFICES ASSUME NEW i \in 1 .. Len(L) + 1
                PROVE  Sound(Append(L, loop)[i], D, it2, i = Len(L) + 1)
    OBVIOUS
  <2>1. CASE i = Len(L) + 1
    BY <1>2, <2>1 DEF Sound
  <2>2. CASE i # Len(L) + 1
    <3>1. i \in 1 .. Len(L) /\ Append(L, loop)[i] = L[i]
      BY <1>1, <1>2, <2>2
    <3>2. Sound(L[i], D, it, i = Len(L)) /\ (Hash => ~L[i].alone)
      BY <3>1 DEF LoopsOK
    <3>. QED BY <3>1, <3>2 DEF Sound
  <2>. QED BY <2>1, <2>2
<1>. QED BY <1>2, <1>3 DEF LoopsOK

\* When someone else uses the iterator no loop over a hash is alone any more.
LEMMA Shaken ==
  ASSUME IInv, NEW it2 \in Iterator
  PROVE  /\ LoopsOK(Disturbed(loops, data, FALSE), DOMAIN data, it2)
         /\ Hash => \A i \in 1 .. Len(Disturbed(loops, data, FALSE)) :
                      ~Disturbed(loops, data, FALSE)[i].alone
<1>. DEFINE L == Disturbed(loops, data, FALSE)
<1>1. loops \in Seq(Loop) /\ \A i \in 1 .. Len(loops) : Sound(loops[i], DOMAIN data, iter, i = Len(loops))
  BY DEF IInv, LoopsInv, LoopsOK
<1>2. /\ L \in Seq(Loop) /\ Len(L) = Len(loops)
      /\ \A i \in 1 .. Len(loops) :
           L[i] = IF loops[i].alone /\ (FALSE \/ Array)
                  THEN [loops[i] EXCEPT !.stay = @ \cap DOMAIN data] ELSE NoLoop
  BY <1>1, DisturbedFacts
<1>. HIDE DEF L
<1>3. \A i \in 1 .. Len(L) : Hash => ~L[i].alone
  BY <1>2, NoLoopFacts DEF Array, Hash
<1>4. \A i \in 1 .. Len(L) : Sound(L[i], DOMAIN data, it2, i = Len(L))
  <2>. SUFFICES ASSUME NEW i \in 1 .. Len(L), L[i].alone
                PROVE  Sound(L[i], DOMAIN data, it2, i = Len(L))
    BY DEF Sound
  <2>1. CASE Hash
    BY <1>3, <2>1
  <2>2. CASE ~Hash
    <3>1. i \in 1 .. Len(loops)
      BY <1>2
    <3>2. loops[i] \in Loop /\ Sound(loops[i], DOMAIN data, iter, i = Len(loops))
      BY <1>1, <3>1
    <3>3. CASE loops[i].alone /\ Array
      <4>1. L[i] = [loops[i] EXCEPT !.stay = @ \cap DOMAIN data]
        BY <1>2, <3>1, <3>3
      <4>. QED BY <2>2, <3>2, <3>3, <4>1 DEF Sound, Loop
    <3>4. CASE ~(loops[i].alone /\ Array)
      <4>1. L[i] = NoLoop
        BY <1>2, <3>1, <3>4
      <4>. QED BY <4>1, NoLoopFacts
    <3>. QED BY <3>3, <3>4
  <2>. QED BY <2>1, <2>2
<1>5. LoopsOK(L, DOMAIN data, it2)
  BY <1>2, <1>4 DEF LoopsOK
<1>. QED BY <1>3, <1>5 DEF L

LEMMA KeysOfData ==
  ASSUME IInv
  PROVE  DOMAIN data \subseteq Keys
<1>1. CASE Array
  <2>1. DOMAIN data = 0 .. Len0 - 1 /\ Len0 \in 0 .. MaxLen
    BY <1>1, Elements
  <2>. QED BY <1>1, <2>1, KeyFacts, Constants
<1>2. CASE ~Array
  BY <1>2, Constants DEF IInv, DataInv, DataOK, Array, Hash
<1>. QED BY <1>1, <1>2

LEMMA PerlEachStep ==
  ASSUME IInv, PerlEach
  PROVE  IInv' /\ Spares
<1>. DEFINE left == IF iter.on THEN iter.left ELSE DOMAIN data
<1>1. iter \in Iterator
  BY DEF IInv, LoopsInv, LoopsOK
<1>2. left \in SUBSET Keys
  BY <1>1, KeysOfData DEF Iterator
<1>3. iter' \in Iterator
  <2>1. \/ iter' = [on |-> FALSE, left |-> {}]
        \/ \E k \in left : iter' = [on |-> TRUE, left |-> left \ {k}]
    BY DEF PerlEach
  <2>. HIDE DEF left
  <2>2. ASSUME NEW k PROVE [on |-> TRUE, left |-> left \ {k}] \in Iterator
    BY <1>2 DEF Iterator
  <2>3. [on |-> FALSE, left |-> {}] \in Iterator
    BY DEF Iterator
  <2>. QED BY <2>1, <2>2, <2>3
<1>4. LoopsOK(loops', DOMAIN data, iter')
  <2>1. loops' = Disturbed(loops, data, FALSE)
    BY DEF PerlEach
  <2>2. LoopsOK(Disturbed(loops, data, FALSE), DOMAIN data, iter')
    BY <1>3, Shaken
  <2>. QED BY <2>1, <2>2
<1>5. UNCHANGED <<kind, data, own>> /\ reply' = Nothing /\ done' = NoLoop
  BY DEF PerlEach, Silent, Done
<1>. QED BY <1>4, <1>5, NoLoopFacts, LoopStep

LEMMA AbandonStep ==
  ASSUME IInv, Abandon
  PROVE  IInv' /\ Spares
<1>1. /\ loops # <<>> /\ loops' = Front(loops)
      /\ done' = NoLoop /\ UNCHANGED <<kind, data, own, iter, reply>>
  BY DEF Abandon
<1>2. LoopsOK(loops, DOMAIN data, iter) /\ iter \in Iterator
  BY DEF IInv, LoopsInv, LoopsOK
<1>3. LoopsOK(loops', DOMAIN data, iter')
  BY <1>1, <1>2, FrontOK
<1>. QED BY <1>1, <1>3, NoLoopFacts, LoopStep

LEMMA StartLoopStep ==
  ASSUME IInv, StartLoop
  PROVE  IInv' /\ Spares
<1>. DEFINE loop == [NoLoop EXCEPT !.stay = DOMAIN data, !.alone = TRUE]
<1>1. /\ loops' = Append(Disturbed(loops, data, FALSE), loop)
      /\ iter' = (IF Array THEN iter ELSE Started(iter, data))
      /\ done' = NoLoop /\ UNCHANGED <<kind, data, own, reply>>
  BY DEF StartLoop
<1>2. iter \in Iterator
  BY DEF IInv, LoopsInv, LoopsOK
<1>3. iter' \in Iterator
  BY <1>1, <1>2, KeysOfData DEF Started, Iterator
<1>4. NoLoop.at = 0 /\ NoLoop.seen = {} /\ NoLoop.again = FALSE
  BY DEF NoLoop
<1>5. /\ loop \in Loop /\ loop.at = 0 /\ loop.seen = {} /\ loop.again = FALSE
      /\ loop.stay = DOMAIN data
  <2>1. DOMAIN data \in SUBSET Keys
    BY KeysOfData
  <2>. QED BY <1>4, <2>1, NoLoopFacts DEF Loop
<1>. HIDE DEF loop
<1>6. Sound(loop, DOMAIN data, iter', TRUE)
  BY <1>1, <1>5 DEF Sound, Started, Array, Hash
<1>7. LoopsOK(loops', DOMAIN data, iter')
  <2>. DEFINE L == Disturbed(loops, data, FALSE)
  <2>1. LoopsOK(L, DOMAIN data, iter') /\ (Hash => \A i \in 1 .. Len(L) : ~L[i].alone)
    BY <1>3, Shaken
  <2>. HIDE DEF L
  <2>2. LoopsOK(Append(L, loop), DOMAIN data, iter')
    BY <1>3, <1>5, <1>6, <2>1, AppendOK
  <2>. QED BY <1>1, <2>2 DEF L
<1>. QED BY <1>1, <1>7, NoLoopFacts, LoopStep

LEMMA StepStep ==
  ASSUME IInv, Step
  PROVE  IInv' /\ Spares
<1>. DEFINE loop == Last(loops)
            left == IF iter.on THEN iter.left ELSE DOMAIN data
            after(k) == IF ~loop.alone THEN loop
                        ELSE [loop EXCEPT !.at = IF Array THEN @ + 1 ELSE @, !.seen = @ \cup {k},
                                          !.again = @ \/ k \in loop.seen]
<1>1. loops # <<>> /\ UNCHANGED <<kind, data, own, reply>>
  BY DEF Step
<1>2. \/ /\ Array /\ More(loop) /\ UNCHANGED iter
         /\ loops' = Append(Front(loops), after(loop.at)) /\ done' = NoLoop
      \/ Array /\ ~More(loop) /\ loops' = Front(loops) /\ done' = loop /\ UNCHANGED iter
      \/ \E k \in left :
           /\ Hash /\ loops' = Append(Front(loops), after(k)) /\ done' = NoLoop
           /\ iter' = [on |-> TRUE, left |-> left \ {k}]
      \/ /\ Hash /\ left = {} /\ loops' = Front(loops) /\ done' = loop
         /\ iter' = [on |-> FALSE, left |-> {}]
  BY DEF Step
<1>3. LoopsOK(loops, DOMAIN data, iter) /\ iter \in Iterator
  BY DEF IInv, LoopsInv, LoopsOK
<1>4. loop \in Loop /\ Sound(loop, DOMAIN data, iter, TRUE)
  BY <1>1, <1>3, FrontOK
<1>5. \A it2 \in Iterator : LoopsOK(Front(loops), DOMAIN data, it2)
  BY <1>1, <1>3, FrontOK
<1>6. Hash => \A i \in 1 .. Len(Front(loops)) : ~Front(loops)[i].alone
  BY <1>1, <1>3, FrontOK
<1>7. left \in SUBSET Keys
  BY <1>3, KeysOfData DEF Iterator
\* The loop goes on with k.
<1>8. ASSUME NEW k \in Keys, loop.alone => k \notin loop.seen,
             Array => loop.at < Len0
      PROVE  /\ after(k) \in Loop /\ after(k).alone = loop.alone
             /\ loop.alone => /\ ~after(k).again /\ after(k).stay = loop.stay
                              /\ after(k).seen = loop.seen \cup {k}
                              /\ after(k).at = IF Array THEN loop.at + 1 ELSE loop.at
  <2>1. CASE loop.alone
    <3>1. (loop.again \/ k \in loop.seen) = FALSE
      BY <1>4, <1>8, <2>1 DEF Sound
    <3>2. (IF Array THEN loop.at + 1 ELSE loop.at) \in 0 .. MaxLen
      BY <1>4, <1>8, Elements, Constants DEF Loop
    <3>3. after(k) = [loop EXCEPT !.at = IF Array THEN loop.at + 1 ELSE loop.at,
                                  !.seen = loop.seen \cup {k}, !.again = FALSE]
      BY <2>1, <3>1
    <3>. DEFINE n == IF Array THEN loop.at + 1 ELSE loop.at
                K == loop.seen \cup {k}
    <3>4. n \in 0 .. MaxLen /\ K \in SUBSET Keys
      BY <1>4, <1>8, <3>2 DEF Loop
    <3>5. after(k) = [loop EXCEPT !.at = n, !.seen = K, !.again = FALSE]
      BY <3>3
    <3>. HIDE DEF after, loop, n, K
    <3>6. after(k) \in Loop
      BY <1>4, <3>4, <3>5 DEF Loop
    <3>7. /\ after(k).alone = loop.alone /\ after(k).again = FALSE /\ after(k).stay = loop.stay
          /\ after(k).seen = K /\ after(k).at = n
      BY <1>4, <3>5 DEF Loop
    <3>. QED BY <3>6, <3>7 DEF K, n
  <2>2. CASE ~loop.alone
    BY <1>4, <2>2
  <2>. QED BY <2>1, <2>2
<1>. HIDE DEF after, loop, left
<1>9. CASE /\ Array /\ More(loop) /\ UNCHANGED iter
           /\ loops' = Append(Front(loops), after(loop.at)) /\ done' = NoLoop
  <2>1. loop.at < Len0 /\ Len0 \in 0 .. MaxLen /\ loop.at \in 0 .. MaxLen
    BY <1>4, <1>9, Elements DEF More, Loop
  <2>2. loop.at \in Keys
    BY <1>9, <2>1, KeyFacts, Constants
  <2>3. loop.alone => loop.seen = 0 .. loop.at - 1 /\ ~loop.again /\ loop.stay \subseteq DOMAIN data
    BY <1>4, <1>9 DEF Sound
  <2>4. loop.alone => loop.at \notin loop.seen /\ loop.seen \cup {loop.at} = 0 .. (loop.at + 1) - 1
    BY <2>1, <2>3
  <2>5. /\ after(loop.at) \in Loop /\ after(loop.at).alone = loop.alone
        /\ loop.alone => /\ ~after(loop.at).again /\ after(loop.at).stay = loop.stay
                         /\ after(loop.at).seen = loop.seen \cup {loop.at}
                         /\ after(loop.at).at = loop.at + 1
    BY <1>8, <1>9, <2>1, <2>2, <2>4
  <2>6. Sound(after(loop.at), DOMAIN data, iter', TRUE)
    BY <1>9, <2>3, <2>4, <2>5 DEF Sound, Array, Hash
  <2>7. LoopsOK(loops', DOMAIN data, iter')
    BY <1>3, <1>5, <1>6, <1>9, <2>5, <2>6, AppendOK
  <2>. QED BY <1>1, <1>9, <2>7, NoLoopFacts, LoopStep
<1>10. CASE Array /\ ~More(loop) /\ loops' = Front(loops) /\ done' = loop /\ UNCHANGED iter
  <2>1. Len0 \in Nat /\ loop.at \in Nat /\ loop.at >= Len0 /\ DOMAIN data = 0 .. Len0 - 1
    BY <1>4, <1>10, Elements, Constants DEF More, Loop
  <2>2. loop.alone => loop.stay \subseteq loop.seen /\ ~loop.again
    <3>1. 0 .. Len0 - 1 \subseteq 0 .. loop.at - 1
      BY <2>1
    <3>. QED BY <1>4, <1>10, <2>1, <3>1 DEF Sound
  <2>3. LoopsOK(loops', DOMAIN data, iter')
    BY <1>3, <1>5, <1>10
  <2>. QED BY <1>1, <1>4, <1>10, <2>2, <2>3, LoopStep
<1>11. ASSUME NEW k \in left, Hash, loops' = Append(Front(loops), after(k)), done' = NoLoop,
              iter' = [on |-> TRUE, left |-> left \ {k}]
       PROVE  IInv' /\ Spares
  <2>1. iter' \in Iterator /\ k \in Keys
    BY <1>7, <1>11 DEF Iterator
  <2>2. loop.alone => /\ left = iter.left /\ loop.seen \cap left = {}
                      /\ loop.stay \subseteq loop.seen \cup left /\ loop.stay \subseteq DOMAIN data
    BY <1>4, <1>11 DEF Sound, left
  <2>3. /\ after(k) \in Loop /\ after(k).alone = loop.alone
        /\ loop.alone => /\ ~after(k).again /\ after(k).stay = loop.stay
                         /\ after(k).seen = loop.seen \cup {k}
    BY <1>8, <1>11, <2>1, <2>2 DEF Array, Hash
  <2>4. Sound(after(k), DOMAIN data, iter', TRUE)
    BY <1>11, <2>2, <2>3 DEF Sound, Array, Hash
  <2>5. LoopsOK(loops', DOMAIN data, iter')
    BY <1>3, <1>5, <1>6, <1>11, <2>1, <2>3, <2>4, AppendOK
  <2>. QED BY <1>1, <1>11, <2>5, NoLoopFacts, LoopStep
<1>12. CASE /\ Hash /\ left = {} /\ loops' = Front(loops) /\ done' = loop
            /\ iter' = [on |-> FALSE, left |-> {}]
  <2>1. iter' \in Iterator
    BY <1>12 DEF Iterator
  <2>2. loop.alone => loop.stay \subseteq loop.seen /\ ~loop.again
    BY <1>4, <1>12 DEF Sound, left
  <2>3. LoopsOK(loops', DOMAIN data, iter')
    BY <1>5, <1>12, <2>1
  <2>. QED BY <1>1, <1>4, <1>12, <2>2, <2>3, LoopStep
<1>. QED BY <1>2, <1>9, <1>10, <1>11, <1>12

-----------------------------------------------------------------------------
LEMMA InitInv == Init => IInv
<1>. SUFFICES ASSUME Init PROVE IInv
  OBVIOUS
<1>1. DataInv
  BY GivenOK DEF Init, DataInv
<1>2. OwnOK(own)
  BY DEF Init, OwnOK
<1>3. LoopsInv
  BY DEF Init, LoopsInv, LoopsOK, Iterator
<1>4. DoneInv
  BY NoLoopFacts DEF Init, DoneInv, LoopsComplete
<1>5. ReplyInv
  BY DEF Init, ReplyInv, Nothing
<1>. QED BY <1>1, <1>2, <1>3, <1>4, <1>5 DEF IInv

LEMMA NextStep ==
  ASSUME IInv, Next
  PROVE  IInv' /\ Spares
<1>1. ASSUME Change /\ Spares PROVE IInv' /\ Spares
  BY <1>1, ChangeInv
<1>2. ASSUME NEW k \in Keys, Get(k) \/ Delete(k) \/ Has(k) \/ PerlDelete(k)
      PROVE  IInv' /\ Spares
  BY <1>1, <1>2, GetStep, DeleteStep, HasStep, PerlDeleteStep
<1>3. ASSUME NEW k \in Keys, NEW v \in Scalars \cup {Bad}, Set(k, v)
      PROVE  IInv' /\ Spares
  BY <1>1, <1>3, SetStep
<1>4. ASSUME NEW k \in Keys, NEW v \in Scalars, PerlStore(k, v)
      PROVE  IInv' /\ Spares
  BY <1>1, <1>4, PerlStoreStep
<1>5. ASSUME NEW vs \in BoundedSeq(Values \cup {Bad}, 2), Push(vs) \/ Unshift(vs)
      PROVE  IInv' /\ Spares
  BY <1>1, <1>5, PushStep, UnshiftStep
<1>6. ASSUME NEW n \in -1 .. MaxLen, SetLength(n)
      PROVE  IInv' /\ Spares
  BY <1>1, <1>6, SetLengthStep
<1>7. ASSUME Shift \/ Pop
      PROVE  IInv' /\ Spares
  BY <1>1, <1>7, ShiftStep
<1>8. ASSUME StartLoop \/ Step \/ Abandon \/ PerlEach
      PROVE  IInv' /\ Spares
  BY <1>8, StartLoopStep, StepStep, AbandonStep, PerlEachStep
<1>. QED BY <1>2, <1>3, <1>4, <1>5, <1>6, <1>7, <1>8 DEF Next

LEMMA StutterStep ==
  ASSUME IInv, UNCHANGED vars
  PROVE  IInv'
<1>1. UNCHANGED <<kind, data, own>> /\ reply' = reply /\ loops' = loops /\ iter' = iter /\ done' = done
  BY DEF vars
<1>. QED BY <1>1, LoopStep DEF IInv, LoopsInv, DoneInv, LoopsComplete

LEMMA IInvHolds == Spec => []IInv
<1>1. IInv /\ [Next]_vars => IInv'
  BY NextStep, StutterStep
<1>. QED BY <1>1, InitInv, PTL DEF Spec

(* Whatever Perl and the scripts do, the elements of an array are side by  *)
(* side and no more than the model allows, no hole shows where a value is  *)
(* expected, and loops and replies are of their types.                     *)
THEOREM DataTypes == Spec => []TypeOK
<1>1. IInv => TypeOK
  <2>. SUFFICES ASSUME IInv PROVE TypeOK
    OBVIOUS
  <2>1. Array => DOMAIN data = 0 .. Len0 - 1 /\ Len0 <= MaxLen
    BY Elements, Constants
  <2>2. Hash => DOMAIN data \subseteq Keys
    BY KeysOfData
  <2>3. kind \in Kinds /\ data \in [DOMAIN data -> Scalars \cup (IF Array THEN {Hole} ELSE {})]
    BY DEF IInv, DataInv, DataOK, Items
  <2>4. DOMAIN own \subseteq Keys /\ own \in [DOMAIN own -> Scalars \cup {Undefined}]
    BY DEF IInv, OwnOK
  <2>5. loops \in Seq(Loop) /\ done \in Loop /\ iter \in [on: BOOLEAN, left: SUBSET Keys]
    BY DEF IInv, LoopsInv, LoopsOK, DoneInv, Iterator
  <2>6. reply \in [key: Keys \cup {Undefined}, value: Scalars \cup {Undefined, Thrown}]
    BY DEF IInv, ReplyInv
  <2>. QED BY <2>1, <2>2, <2>3, <2>4, <2>5, <2>6 DEF TypeOK
<1>. QED BY <1>1, IInvHolds, PTL

(* A loop that had the iterator to itself has seen every key that was there*)
(* all the time, and none twice, however many loops were started, left and *)
(* finished around it (perlarray_enumerate, perlhash_enumerate).           *)
THEOREM LoopsAreComplete == Spec => []LoopsComplete
<1>1. IInv => LoopsComplete
  BY DEF IInv, DoneInv
<1>. QED BY <1>1, IInvHolds, PTL

(* An operation that throws loses no element, however many it has already  *)
(* moved or appended (perlarray_push, perlarray_unshift).                  *)
THEOREM NothingIsLost == Spec => NothingLost
<1>1. IInv /\ [Next]_vars => [Spares]_vars
  BY NextStep
<1>2. [Spares]_vars =>
       [reply'.value = Thrown =>
          \E off \in 0 .. MaxLen :
            \A i \in DOMAIN data :
              LET j == IF Array THEN i + off ELSE i
              IN  j \in DOMAIN data' /\ data'[j] = data[i]]_vars
  BY DEF Spares
<1>. QED BY <1>1, <1>2, IInvHolds, PTL DEF Spec, NothingLost

=============================================================================
