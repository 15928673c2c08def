---------------------------- MODULE JSPPerlData ----------------------------
(***************************************************************************)
(* A Perl array or a Perl hash and the object that shows it to JavaScript  *)
(* (PJS_PerlArray.c, PJS_PerlHash.c).  The engine keeps properties of its  *)
(* own on that object, each with a slot, and calls the hooks of the class: *)
(* resolve when it does not know a property, get and set around the slot,  *)
(* enumerate for a for..in.  Perl changes the data at any time between two *)
(* operations of a script, and the body of a loop may start another loop.  *)
(***************************************************************************)
EXTENDS Integers, Sequences, SequencesExt, FiniteSets

CONSTANTS
  Kinds,       \* which of "ARRAY" and "HASH" to look at
  Names,       \* property names that are not numbers
  Digits,      \* numbers to look at as keys of a hash: all are treated alike
  Values,      \* what an element may hold, next to undef
  Undefined,   \* undef, and JavaScript's undefined
  Hole,        \* an element of an array that was never given a value
  Bad,         \* a JavaScript value that cannot be converted
  Thrown,      \* the answer of an operation that threw
  MaxLen,      \* bound: elements of an array
  MaxLoops     \* bound: loops inside one another

VARIABLES
  kind,    \* "ARRAY" or "HASH"
  data,    \* the Perl side: a function from indexes, or keys, to values
  own,     \* the own properties of the wrapper, and their slots
  loops,   \* the loops of the script over it, the innermost last
  iter,    \* the iterator that is part of a Perl hash
  done,    \* the loop that has just ended, or none
  reply    \* what the last operation read, or that it threw

vars == <<kind, data, own, loops, iter, done, reply>>

ASSUME DataAssumption ==
  /\ Kinds \subseteq {"ARRAY", "HASH"} /\ Kinds # {}
  /\ MaxLen \in Nat /\ MaxLoops \in Nat
  /\ Digits \subseteq Nat
  /\ Cardinality({Undefined, Hole, Bad, Thrown}) = 4
  /\ {Undefined, Hole, Bad, Thrown} \cap (Values \cup Names \cup Int) = {}

Array == kind = "ARRAY"
Hash == kind = "HASH"

\* Property names that the engine makes integer ids of, and all of interest:
\* the hooks of an array do nothing for a name.
Numbers == IF Array THEN -1 .. MaxLen - 1 ELSE Digits
Keys == IF Array THEN Numbers ELSE Names \cup Digits

\* What is stored: to an array undef is a value like any other.
Scalars == Values \cup (IF Array THEN {} ELSE {Undefined})
Len0 == Cardinality(DOMAIN data)

\* Where the counter of a for..in over an array stands; and, to judge the loop
\* by: whether it had the iterator of the hash to itself, and, if so, the keys
\* it saw, whether it saw one again, and the keys that were there all the time.
Loop == [at: 0 .. MaxLen, seen: SUBSET Keys, again: BOOLEAN,
         stay: SUBSET Keys, alone: BOOLEAN]
NoLoop == [at |-> 0, seen |-> {}, again |-> FALSE, stay |-> {}, alone |-> FALSE]

TypeOK ==
  /\ kind \in Kinds
  /\ Array => DOMAIN data = 0 .. Len0 - 1 /\ Len0 <= MaxLen
  /\ Hash => DOMAIN data \subseteq Keys
  /\ data \in [DOMAIN data -> Scalars \cup (IF Array THEN {Hole} ELSE {})]
  /\ DOMAIN own \subseteq Keys /\ own \in [DOMAIN own -> Scalars \cup {Undefined}]
  /\ loops \in Seq(Loop) /\ done \in Loop
  /\ iter \in [on: BOOLEAN, left: SUBSET Keys]
  /\ reply \in [key: Keys \cup {Undefined}, value: Scalars \cup {Undefined, Thrown}]

\* What a script learns: the value of k, an exception, or nothing of interest.
Nothing == [key |-> Undefined, value |-> Undefined]
Told(k, v) == reply' = [key |-> k, value |-> v]
Throws == Told(Undefined, Thrown)
Done == reply' = Nothing

\* What the engine keeps in a slot after the hook.  The slots of an array are
\* not of interest: its getter overwrites them or throws.
Kept(v) == IF Array THEN Undefined ELSE v
Put(f, k, v) == [x \in DOMAIN f \cup {k} |-> IF x = k THEN v ELSE f[x]]
Without(f, k) == [x \in DOMAIN f \ {k} |-> f[x]]

-----------------------------------------------------------------------------
(* Perl's containers.                                                      *)

\* av_fetch and av_store count a negative index from the end.
At(k) == IF Array /\ k < 0 THEN Len0 + k ELSE k

\* Whether av_fetch, or hv_fetch_ent with a key that came as a string, finds
\* something: the hooks of a hash do nothing for an integer id.
Found(k) ==
  \/ Array /\ k \in Keys /\ At(k) \in DOMAIN data /\ data[At(k)] # Hole
  \/ Hash /\ k \in Names /\ k \in DOMAIN data

-----------------------------------------------------------------------------
(* Faults: mistaken forms of definitions below, for comparison.           *)

\* enumerate starts a hash wherever its iterator happens to stand.
StartedAnywhere(it, f) == it

\* unshift writes over the elements it should have moved.
MovedNot(f, n) == f

\* av_fill takes the last index, not the length.
FilledTo(f, n) == [x \in 0 .. n |-> IF x \in DOMAIN f THEN f[x] ELSE Hole]

-----------------------------------------------------------------------------
\* av_store beyond the end leaves holes below.
Stored(f, i, v) ==
  LET n == Cardinality(DOMAIN f)
  IN  [x \in 0 .. (IF i < n THEN n ELSE i + 1) - 1 |->
         IF x = i THEN v ELSE IF x < n THEN f[x] ELSE Hole]

\* av_fill
Filled(f, n) == [x \in 0 .. n - 1 |-> IF x \in DOMAIN f THEN f[x] ELSE Hole]

\* av_unshift: n holes below the elements.
Moved(f, n) ==
  [x \in 0 .. Cardinality(DOMAIN f) + n - 1 |-> IF x < n THEN Hole ELSE f[x - n]]

\* The loops, when the keys are now the domain of f; lone says that whoever
\* did it left the iterator of a hash alone.
Disturbed(L, f, lone) ==
  [i \in DOMAIN L |-> IF L[i].alone /\ (lone \/ Array) THEN [L[i] EXCEPT !.stay = @ \cap DOMAIN f]
                      ELSE NoLoop]

\* hv_delete does not upset the iterator, a new key may: where it lands among
\* the buckets, and whether they are split, is not known.
DataBecomes(f) ==
  LET news == DOMAIN f \ DOMAIN data
  IN  /\ data' = f
      /\ loops' = Disturbed(loops, f, news = {})
      /\ IF Array THEN UNCHANGED iter
         ELSE IF news = {} THEN iter' = [iter EXCEPT !.left = @ \cap DOMAIN f]
         ELSE \E R \in SUBSET DOMAIN f : iter' = [iter EXCEPT !.left = R]

-----------------------------------------------------------------------------
(* The hooks.                                                              *)

\* perlarray_resolve, perlhash_resolve: the engine asks for what is not own.
Resolved(o, k) == IF k \notin DOMAIN o /\ Found(k) THEN Put(o, k, Undefined) ELSE o

\* perlarray_get, perlhash_get over the slot of k in o.  An array complains
\* about an index without element, a hash leaves the slot as it is.
Fetched(k, o) ==
  IF Found(k) THEN data[At(k)]
  ELSE IF Array THEN Thrown
  ELSE IF k \in DOMAIN o THEN o[k] ELSE Undefined

\* JSENUMERATE_INIT: hv_iterinit
Started(it, f) == [on |-> TRUE, left |-> DOMAIN f]

\* An array has more to enumerate.
More(loop) == loop.at < Len0

\* A container comes from Perl, or from new PerlArray(v, w), new PerlHash(k, v):
\* there every key is made a string, so that 0 is a key of the hash.
Given ==
  IF Array THEN {[x \in 0 .. Len(vs) - 1 |-> vs[x + 1]] : vs \in BoundedSeq(Values, MaxLen)}
  ELSE UNION {[K -> Scalars] : K \in SUBSET Keys}

-----------------------------------------------------------------------------
Init ==
  /\ kind \in Kinds
  /\ data \in Given
  /\ own = << >> /\ loops = <<>>
  /\ iter = [on |-> FALSE, left |-> {}]
  /\ done = NoLoop
  /\ reply = Nothing

\* obj[k]
Get(k) ==
  LET o == Resolved(own, k)
      v == Fetched(k, o)
  IN  /\ own' = IF k \in DOMAIN o /\ v # Thrown THEN Put(o, k, Kept(v)) ELSE o
      /\ Told(k, v)
      /\ done' = NoLoop
      /\ UNCHANGED <<kind, data, loops, iter>>

\* obj[k] = v: the engine adds the property before it calls the setter.
Set(k, v) ==
  LET o == Put(own, k, IF k \in DOMAIN own THEN own[k] ELSE Undefined)
      hooked == Array \/ k \in Names
  IN  /\ IF hooked /\ v = Bad
         THEN own' = o /\ Throws /\ UNCHANGED <<data, loops, iter>>
         ELSE /\ v # Bad /\ own' = Put(o, k, Kept(v)) /\ Done
              /\ IF Array /\ At(k) >= 0 THEN DataBecomes(Stored(data, At(k), v))
                 ELSE IF Hash /\ hooked THEN DataBecomes(Put(data, k, v))
                 ELSE UNCHANGED <<data, loops, iter>>
      /\ done' = NoLoop /\ UNCHANGED kind

\* delete obj[k]: only a hash has a hook for it.
Delete(k) ==
  /\ own' = Without(own, k)
  /\ IF Hash /\ k \in Names /\ k \in DOMAIN data THEN DataBecomes(Without(data, k))
     ELSE UNCHANGED <<data, loops, iter>>
  /\ Done /\ done' = NoLoop /\ UNCHANGED kind

\* k in obj
Has(k) ==
  /\ own' = Resolved(own, k)
  /\ Done /\ done' = NoLoop
  /\ UNCHANGED <<kind, data, loops, iter>>

\* Of the arguments vs the first good ones can be converted, the next one not.
Converts(vs, good) ==
  /\ \A i \in 1 .. good : vs[i] # Bad
  /\ good < Len(vs) => vs[good + 1] = Bad

\* push(v, w) converts and appends one by one, up to the one that fails.
Push(vs) ==
  LET n == Len0
  IN  \E good \in 0 .. Len(vs) :
      /\ Array /\ n + Len(vs) <= MaxLen /\ Converts(vs, good)
      /\ DataBecomes([x \in 0 .. n + good - 1 |-> IF x < n THEN data[x] ELSE vs[x - n + 1]])
      /\ (IF good < Len(vs) THEN Throws ELSE Done)
      /\ done' = NoLoop /\ UNCHANGED <<kind, own>>

\* unshift(v, w) makes room for all of them first.
Unshift(vs) ==
  LET room == Moved(data, Len(vs))
  IN  \E good \in 0 .. Len(vs) :
      /\ Array /\ Len0 + Len(vs) <= MaxLen /\ Converts(vs, good)
      /\ DataBecomes([x \in DOMAIN room |-> IF x < good THEN vs[x + 1] ELSE room[x]])
      /\ (IF good < Len(vs) THEN Throws ELSE Done)
      /\ done' = NoLoop /\ UNCHANGED <<kind, own>>

\* shift() and pop(); what they answer is of no interest here.
Shift ==
  /\ Array
  /\ DataBecomes([x \in 0 .. Len0 - 2 |-> data[x + 1]])
  /\ Done /\ done' = NoLoop /\ UNCHANGED <<kind, own>>

Pop ==
  /\ Array
  /\ DataBecomes([x \in 0 .. Len0 - 2 |-> data[x]])
  /\ Done /\ done' = NoLoop /\ UNCHANGED <<kind, own>>

\* obj.length = n
SetLength(n) ==
  /\ Array
  /\ IF n < 0 THEN Throws /\ UNCHANGED <<data, loops, iter>>
     ELSE DataBecomes(Filled(data, n)) /\ Done
  /\ done' = NoLoop /\ UNCHANGED <<kind, own>>

\* A for..in over obj, perhaps in the body of another.
StartLoop ==
  /\ Len(loops) < MaxLoops
  /\ loops' = Append(Disturbed(loops, data, FALSE),
                [NoLoop EXCEPT !.stay = DOMAIN data, !.alone = TRUE])
  /\ iter' = IF Array THEN iter ELSE Started(iter, data)
  /\ done' = NoLoop /\ UNCHANGED <<kind, data, own, reply>>

\* JSENUMERATE_NEXT for the innermost loop.  An iterator of a hash that came
\* to its end begins anew.
Step ==
  LET loop == Last(loops)
      left == IF iter.on THEN iter.left ELSE DOMAIN data
      given(k) == Append(Front(loops),
                    IF ~loop.alone THEN loop
                    ELSE [loop EXCEPT !.at = IF Array THEN @ + 1 ELSE @, !.seen = @ \cup {k},
                                      !.again = @ \/ k \in loop.seen])
      over == loops' = Front(loops) /\ done' = loop
  IN  /\ loops # <<>>
      /\ \/ /\ Array /\ More(loop)
            /\ loops' = given(loop.at) /\ done' = NoLoop /\ UNCHANGED iter
         \/ Array /\ ~More(loop) /\ over /\ UNCHANGED iter
         \/ \E k \in left :
              /\ Hash /\ loops' = given(k) /\ done' = NoLoop
              /\ iter' = [on |-> TRUE, left |-> left \ {k}]
         \/ Hash /\ left = {} /\ over /\ iter' = [on |-> FALSE, left |-> {}]
      /\ UNCHANGED <<kind, data, own, reply>>

\* break, or an exception in the body: JSENUMERATE_DESTROY does nothing.
Abandon ==
  /\ loops # <<>> /\ loops' = Front(loops)
  /\ done' = NoLoop /\ UNCHANGED <<kind, data, own, iter, reply>>

-----------------------------------------------------------------------------
(* Perl.                                                                   *)

Silent == /\ Done
          /\ done' = NoLoop /\ UNCHANGED <<kind, own>>

\* $ref->[k] = v, $ref->{k} = v
PerlStore(k, v) ==
  /\ \/ Array /\ k \in 0 .. MaxLen - 1 /\ DataBecomes(Stored(data, k, v))
     \/ Hash /\ DataBecomes(Put(data, k, v))
  /\ Silent

\* delete $ref->{k}, pop @$ref
PerlDelete(k) ==
  /\ \/ Array /\ k = Len0 - 1
     \/ Hash /\ k \in DOMAIN data
  /\ DataBecomes(Without(data, k))
  /\ Silent

\* each %$ref: one step of the same iterator
PerlEach ==
  /\ Hash
  /\ LET left == IF iter.on THEN iter.left ELSE DOMAIN data
     IN  \/ left = {} /\ iter' = [on |-> FALSE, left |-> {}]
         \/ \E k \in left : iter' = [on |-> TRUE, left |-> left \ {k}]
  /\ loops' = Disturbed(loops, data, FALSE)
  /\ Silent /\ UNCHANGED data

Next ==
  \/ \E k \in Keys : Get(k) \/ Delete(k) \/ Has(k) \/ PerlDelete(k)
  \/ \E k \in Keys, v \in Scalars \cup {Bad} : Set(k, v)
  \/ \E k \in Keys, v \in Scalars : PerlStore(k, v)
  \/ \E vs \in BoundedSeq(Values \cup {Bad}, 2) : Push(vs) \/ Unshift(vs)
  \/ Shift \/ Pop
  \/ \E n \in -1 .. MaxLen : SetLength(n)
  \/ StartLoop \/ Step \/ Abandon
  \/ PerlEach

Spec == Init /\ [][Next]_vars

-----------------------------------------------------------------------------
(* Properties.                                                             *)

\* A loop that ends has seen every key that was there all the time, and none
\* twice, whatever came and went, and whoever used the iterator before it; a
\* loop over a hash only if nothing else used the iterator meanwhile and no
\* key was added (perlarray_enumerate, perlhash_enumerate).
LoopsComplete ==
  done.alone => done.stay \subseteq done.seen /\ ~done.again

\* An operation that throws loses nothing: the elements are all there, side by
\* side, perhaps further up (perlarray_push, perlarray_unshift).
NothingLost ==
  [][reply'.value = Thrown =>
       \E off \in 0 .. MaxLen :
         \A i \in DOMAIN data :
            LET j == IF Array THEN i + off ELSE i
            IN  j \in DOMAIN data' /\ data'[j] = data[i]]_vars
=============================================================================
