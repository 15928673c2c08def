------------------------- MODULE JSPPerlClassProofs -------------------------
(***************************************************************************)
(* Theorems about JSPPerlClass, for any number of classes, names, contexts *)
(* and tinyids.  A class that create_class made has its handlers under     *)
(* different numbers and its static methods before those of instances      *)
(* (Orderly); what the store and the constructors have was made under that *)
(* name; so a hook that finds its own class finds the member that is due.  *)
(***************************************************************************)
EXTENDS JSPPerlClass, FiniteSetTheorems, WellFoundedInduction, TLAPS

-----------------------------------------------------------------------------
(* Sequences: the least index, reversing, joining, listing a set.          *)

\* A set of positions that is not empty has a least one.
LEMMA Least ==
  ASSUME NEW I, I \subseteq Nat, I # {}
  PROVE  \E i \in I : \A j \in I : i <= j
<1>1. IsWellFoundedOn(OpToRel(<, Nat), Nat)
  BY NatLessThanWellFounded
<1>2. PICK i \in I : \A j \in I : ~ (<<j, i>> \in OpToRel(<, Nat))
  BY <1>1, WFMin
<1>3. \A j \in I : ~ (j < i)
  BY <1>2 DEF OpToRel
<1>4. QED
  BY <1>3

\* SetToSeq lists a finite set, each element once.
LEMMA Lists ==
  ASSUME NEW S, IsFiniteSet(S)
  PROVE  /\ Cardinality(S) \in Nat
         /\ SetToSeq(S) \in [1 .. Cardinality(S) -> S]
         /\ \A i, j \in 1 .. Cardinality(S) : SetToSeq(S)[i] = SetToSeq(S)[j] => i = j
         /\ \A x \in S : \E i \in 1 .. Cardinality(S) : SetToSeq(S)[i] = x
<1> DEFINE D == 1 .. Cardinality(S)
<1>1. Cardinality(S) \in Nat /\ ExistsBijection(D, S)
  BY FS_CardinalityType
<1>2. PICK f : f \in Bijection(D, S)
  BY <1>1 DEF ExistsBijection
<1>3. f \in [D -> S] /\ IsInjective(f)
  BY <1>2 DEF Bijection, Injection
<1>4. SetToSeq(S) \in [D -> S] /\ IsInjective(SetToSeq(S))
  BY <1>3 DEF SetToSeq
<1>5. SetToSeq(S) \in Injection(D, S)
  BY <1>4 DEF Injection
<1>6. IsFiniteSet(D) /\ Cardinality(D) = Cardinality(S)
  BY <1>1, FS_Bijection, FS_Interval
<1>7. SetToSeq(S) \in Surjection(D, S)
  BY <1>5, <1>6, FS_Injection
<1>8. QED
  BY <1>1, <1>4, <1>7 DEF IsInjective, Surjection

\* What a sequence has in it.
Elements(s) == {s[i] : i \in 1 .. Len(s)}

LEMMA Sequence ==
  ASSUME NEW T, NEW n \in Nat, NEW f \in [1 .. n -> T]
  PROVE  f \in Seq(T) /\ Len(f) = n /\ DOMAIN f = 1 .. n
OBVIOUS

LEMMA Reversed ==
  ASSUME NEW T, NEW s \in Seq(T)
  PROVE  Reverse(s) \in Seq(T) /\ Elements(Reverse(s)) = Elements(s)
<1>1. Reverse(s) \in Seq(T) /\ Len(Reverse(s)) = Len(s)
  BY DEF Reverse
<1>2. \A i \in 1 .. Len(s) : Reverse(s)[i] = s[(Len(s) - i) + 1] /\ (Len(s) - i) + 1 \in 1 .. Len(s)
  BY DEF Reverse
<1>3. \A i \in 1 .. Len(s) : \E j \in 1 .. Len(s) : Reverse(s)[j] = s[i]
  <2>1. TAKE i \in 1 .. Len(s)
  <2>2. (Len(s) - i) + 1 \in 1 .. Len(s) /\ (Len(s) - ((Len(s) - i) + 1)) + 1 = i
    OBVIOUS
  <2>3. QED
    BY <2>2, <1>2
<1>4. Elements(Reverse(s)) \subseteq Elements(s)
  BY <1>1, <1>2 DEF Elements
<1>5. Elements(s) \subseteq Elements(Reverse(s))
  BY <1>1, <1>3 DEF Elements
<1>6. QED
  BY <1>1, <1>4, <1>5

LEMMA Joined ==
  ASSUME NEW T, NEW s \in Seq(T), NEW t \in Seq(T)
  PROVE  s \o t \in Seq(T) /\ Elements(s \o t) = Elements(s) \cup Elements(t)
<1>1. s \o t \in Seq(T) /\ Len(s \o t) = Len(s) + Len(t)
  OBVIOUS
<1>2. \A i \in 1 .. Len(s \o t) :
        (s \o t)[i] = IF i <= Len(s) THEN s[i] ELSE t[i - Len(s)]
  OBVIOUS
<1>3. Elements(s \o t) \subseteq Elements(s) \cup Elements(t)
  <2>1. SUFFICES ASSUME NEW i \in 1 .. Len(s) + Len(t)
                 PROVE  (s \o t)[i] \in Elements(s) \cup Elements(t)
    BY <1>1 DEF Elements
  <2>2. CASE i <= Len(s)
    BY <2>2, <1>1, <1>2 DEF Elements
  <2>3. CASE i > Len(s)
    <3>1. i - Len(s) \in 1 .. Len(t)
      BY <2>3
    <3>2. QED
      BY <3>1, <2>3, <1>1, <1>2 DEF Elements
  <2>4. QED
    BY <2>2, <2>3
<1>4. Elements(s) \subseteq Elements(s \o t)
  BY <1>1, <1>2 DEF Elements
<1>5. Elements(t) \subseteq Elements(s \o t)
  <2>1. SUFFICES ASSUME NEW i \in 1 .. Len(t)
                 PROVE  t[i] \in Elements(s \o t)
    BY DEF Elements
  <2>2. /\ Len(s) + i \in 1 .. Len(s) + Len(t)
        /\ ~ (Len(s) + i <= Len(s)) /\ (Len(s) + i) - Len(s) = i
    OBVIOUS
  <2>3. (s \o t)[Len(s) + i] = t[i]
    BY <2>2, <1>1, <1>2
  <2>4. QED
    BY <2>2, <2>3, <1>1 DEF Elements
<1>6. QED
  BY <1>1, <1>3, <1>4, <1>5

\* Methods and properties are found at the first place that fits.
LEMMA MinIn ==
  ASSUME NEW I, I \subseteq Nat, I # {}
  PROVE  Min(I) \in I
BY Least DEF Min

-----------------------------------------------------------------------------
(* What create_class makes.                                                *)

\* The functions of one side.
Callees(k, side, S) == {Callee(k, side, x) : x \in S}

LEMMA AddsFunctions ==
  ASSUME NEW k \in Classes, NEW side \in {"instance", "static"},
         NEW S, S \subseteq Members, NEW ms \in Seq(Callback)
  PROVE  \E s \in Seq(Callback) :
           AddFunctions(ms, k, side, S) = s \o ms /\ Elements(s) = Callees(k, side, S)
<1> DEFINE cs == [i \in 1 .. Cardinality(S) |-> Callee(k, side, SetToSeq(S)[i])]
<1>1. IsFiniteSet(S)
  BY FS_Subset, ClassAssumption
<1>2. /\ Cardinality(S) \in Nat
      /\ SetToSeq(S) \in [1 .. Cardinality(S) -> S]
      /\ \A x \in S : \E i \in 1 .. Cardinality(S) : SetToSeq(S)[i] = x
  BY <1>1, Lists
<1>3. cs \in Seq(Callback) /\ Len(cs) = Cardinality(S)
  <2>1. \A x \in Members : Callee(k, side, x) \in Callback
    BY DEF Callee, Callback
  <2>2. \A i \in 1 .. Cardinality(S) : SetToSeq(S)[i] \in Members
    BY <1>2
  <2>3. cs \in [1 .. Cardinality(S) -> Callback]
    BY <2>1, <2>2
  <2>4. QED
    BY <2>3, <1>2
<1>4. Elements(cs) = Callees(k, side, S)
  <2>1. Elements(cs) \subseteq Callees(k, side, S)
    BY <1>2, <1>3 DEF Elements, Callees
  <2>2. Callees(k, side, S) \subseteq Elements(cs)
    BY <1>2, <1>3 DEF Elements, Callees
  <2>3. QED
    BY <2>1, <2>2
<1>5. Reverse(cs) \in Seq(Callback) /\ Elements(Reverse(cs)) = Callees(k, side, S)
  BY <1>3, <1>4, Reversed
<1>6. AddFunctions(ms, k, side, S) = Reverse(cs) \o ms
  BY DEF AddFunctions
<1> HIDE DEF cs
<1>7. QED
  BY <1>5, <1>6

\* A spec numbers each of its properties once, from next on.
LEMMA Specs ==
  ASSUME NEW S, S \subseteq Members, NEW next \in Nat,
         next + Cardinality(S) <= Width
  PROVE  /\ SpecOf(next, S) \in Seq(Members \X (0 .. Width - 1))
         /\ Len(SpecOf(next, S)) = Cardinality(S)
         /\ \A i \in 1 .. Cardinality(S) : /\ SpecOf(next, S)[i][1] \in S
                                           /\ SpecOf(next, S)[i][2] = next + (i - 1)
<1>1. /\ Cardinality(S) \in Nat
      /\ SetToSeq(S) \in [1 .. Cardinality(S) -> S]
  BY FS_Subset, ClassAssumption, Lists
<1>2. Width \in Nat \ {0}
  BY ClassAssumption
<1>3. \A i \in 1 .. Cardinality(S) :
        /\ next + i - 1 \in 0 .. Width - 1
        /\ next + i - 1 = next + (i - 1)
  BY <1>1, <1>2
<1>4. \A a \in 0 .. Width - 1 : a % Width = a
  BY <1>2
<1>5. \A i \in 1 .. Cardinality(S) : SpecOf(next, S)[i] = <<SetToSeq(S)[i], next + (i - 1)>>
  BY <1>3, <1>4 DEF SpecOf
<1>6. SpecOf(next, S) \in [1 .. Cardinality(S) -> Members \X (0 .. Width - 1)]
  BY <1>1, <1>3, <1>4 DEF SpecOf
<1>7. SpecOf(next, S) \in Seq(Members \X (0 .. Width - 1)) /\ Len(SpecOf(next, S)) = Cardinality(S)
  BY <1>1, <1>6, Sequence
<1>8. \A i \in 1 .. Cardinality(S) : /\ SpecOf(next, S)[i][1] \in S
                                     /\ SpecOf(next, S)[i][2] = next + (i - 1)
  BY <1>1, <1>5
<1>9. QED
  BY <1>7, <1>8

Handler(k, side, entry) == [id |-> entry[2], calls |-> Callee(k, side, entry[1])]

LEMMA Handles ==
  ASSUME NEW k \in Classes, NEW side \in {"instance", "static"},
         NEW spec \in Seq(Members \X (0 .. Width - 1))
  PROVE  /\ Handlers(k, side, spec) \in Seq([id: 0 .. Width - 1, calls: Callback])
         /\ Elements(Handlers(k, side, spec)) = {Handler(k, side, spec[i]) : i \in 1 .. Len(spec)}
<1> DEFINE hs == [i \in DOMAIN spec |-> [id |-> spec[i][2], calls |-> Callee(k, side, spec[i][1])]]
           H == [id: 0 .. Width - 1, calls: Callback]
<1>1. \A i \in 1 .. Len(spec) : spec[i][1] \in Members /\ spec[i][2] \in 0 .. Width - 1
  OBVIOUS
<1>2. \A i \in 1 .. Len(spec) : hs[i] \in H /\ hs[i] = Handler(k, side, spec[i])
  BY <1>1 DEF Callback, Callee, Handler
<1>3. hs \in Seq(H) /\ Len(hs) = Len(spec)
  <2>1. DOMAIN spec = 1 .. Len(spec) /\ Len(spec) \in Nat
    OBVIOUS
  <2>2. \A i \in 1 .. Len(spec) : hs[i] \in H
    BY <1>2
  <2>3. hs = [i \in 1 .. Len(spec) |-> hs[i]]
    BY <2>1
  <2> HIDE DEF hs, H
  <2>4. hs \in [1 .. Len(spec) -> H]
    BY <2>2, <2>3
  <2>5. QED
    BY <2>1, <2>4, Sequence
<1>4. Elements(hs) = {Handler(k, side, spec[i]) : i \in 1 .. Len(spec)}
  BY <1>2, <1>3 DEF Elements
<1>5. Handlers(k, side, spec) = Reverse(hs)
  BY DEF Handlers
<1> HIDE DEF hs, H
<1>6. Handlers(k, side, spec) \in Seq(H) /\ Elements(Handlers(k, side, spec)) = Elements(hs)
  BY <1>3, <1>5, Reversed
<1>7. QED
  BY <1>4, <1>6 DEF H

\* The methods of both sides in one list, the static ones first.
Listed(k, ms, F, S) ==
  \E s, t \in Seq(Callback) :
    ms = s \o t /\ Elements(s) = Callees(k, "static", S) /\ Elements(t) = Callees(k, "instance", F)

\* What the hooks rely on: the one list of methods has those of both sides, the
\* static ones first; the one list of handlers has those of both sides, under
\* different numbers.
Orderly(k, r) ==
  /\ r \in ClassRec
  /\ Listed(k, r.methods, r.fs, r.static_fs)
  /\ Elements(r.properties) =
       {Handler(k, "instance", r.ps[i]) : i \in 1 .. Len(r.ps)}
       \cup {Handler(k, "static", r.static_ps[i]) : i \in 1 .. Len(r.static_ps)}
  /\ \A i, j \in 1 .. Len(r.ps) : r.ps[i][2] = r.ps[j][2] => i = j
  /\ \A i, j \in 1 .. Len(r.static_ps) : r.static_ps[i][2] = r.static_ps[j][2] => i = j
  /\ \A i \in 1 .. Len(r.ps), j \in 1 .. Len(r.static_ps) : r.ps[i][2] # r.static_ps[j][2]

\* create_class: the tinyids of static properties begin where those of instances
\* end, and there are enough of them.
LEMMA Creates ==
  ASSUME NEW k \in Classes, NEW n \in Names, NEW d \in Definitions
  PROVE  /\ Orderly(k, Created(k, n, d))
         /\ Created(k, n, d).name = n
         /\ ~ Created(k, n, d).freed
<1> DEFINE r == Created(k, n, d)
           instance == SpecOf(0, d.ps)
           static == SpecOf(Cardinality(d.ps), d.static_ps)
           ofInstances == AddFunctions(<<>>, k, "instance", d.fs)
           P == Members \X (0 .. Width - 1)
           H == [id: 0 .. Width - 1, calls: Callback]
<1>1. /\ d \in Definition
      /\ d.fs \subseteq Members /\ d.static_fs \subseteq Members
      /\ d.ps \subseteq Members /\ d.static_ps \subseteq Members /\ d.bare \in BOOLEAN
      /\ Cardinality(d.ps) + Cardinality(d.static_ps) <= Width
  BY ClassAssumption DEF Definition
<1>2. Cardinality(d.ps) \in Nat /\ Cardinality(d.static_ps) \in Nat /\ Width \in Nat
  BY <1>1, FS_Subset, FS_CardinalityType, ClassAssumption
<1>3. /\ r.name = n /\ r.freed = FALSE /\ r.bare = d.bare
      /\ r.fs = d.fs /\ r.static_fs = d.static_fs
      /\ r.methods = AddFunctions(ofInstances, k, "static", d.static_fs)
      /\ r.ps = instance /\ r.static_ps = static
      /\ r.properties = Handlers(k, "static", static) \o Handlers(k, "instance", instance)
  BY DEF Created, Numbered
<1>4. /\ r.methods \in Seq(Callback)
      /\ Listed(k, r.methods, d.fs, d.static_fs)
  <2> DEFINE none == <<>>
  <2>1. none \in Seq(Callback) /\ Elements(none) = {}
    BY DEF Elements
  <2> HIDE DEF none
  <2>2. \E t \in Seq(Callback) :
          ofInstances = t \o none /\ Elements(t) = Callees(k, "instance", d.fs)
    BY <1>1, <2>1, AddsFunctions DEF none
  <2>3. ofInstances \in Seq(Callback) /\ Elements(ofInstances) = Callees(k, "instance", d.fs)
    <3>1. PICK t \in Seq(Callback) :
            ofInstances = t \o none /\ Elements(t) = Callees(k, "instance", d.fs)
      BY <2>2
    <3> HIDE DEF ofInstances
    <3>2. none \in Seq(Callback)
      BY <2>1
    <3>3. t \o none \in Seq(Callback) /\ Elements(t \o none) = Elements(t) \cup Elements(none)
      BY <3>2, Joined
    <3>. QED BY <2>1, <3>1, <3>3
  <2> HIDE DEF ofInstances
  <2>4. PICK s \in Seq(Callback) :
          /\ AddFunctions(ofInstances, k, "static", d.static_fs) = s \o ofInstances
          /\ Elements(s) = Callees(k, "static", d.static_fs)
    BY <1>1, <2>3, AddsFunctions
  <2>5. r.methods = s \o ofInstances
    BY <1>3, <2>4
  <2> HIDE DEF r
  <2>6. s \o ofInstances \in Seq(Callback)
    BY <2>3, <2>4, Joined
  <2>7. Listed(k, r.methods, d.fs, d.static_fs)
    BY <2>3, <2>4, <2>5 DEF Listed
  <2>. QED BY <2>5, <2>6, <2>7
<1>5. /\ instance \in Seq(P) /\ Len(instance) = Cardinality(d.ps)
      /\ \A i \in 1 .. Cardinality(d.ps) : instance[i][2] = 0 + (i - 1)
  <2>1. 0 + Cardinality(d.ps) <= Width
    BY <1>1, <1>2
  <2>2. QED
    BY <2>1, <1>1, Specs
<1>6. /\ static \in Seq(P) /\ Len(static) = Cardinality(d.static_ps)
      /\ \A i \in 1 .. Cardinality(d.static_ps) : static[i][2] = Cardinality(d.ps) + (i - 1)
  BY <1>1, <1>2, Specs
<1> HIDE DEF instance, static, r
<1>7. /\ r.properties \in Seq(H)
      /\ Elements(r.properties) =
           {Handler(k, "instance", instance[i]) : i \in 1 .. Len(instance)}
           \cup {Handler(k, "static", static[i]) : i \in 1 .. Len(static)}
  <2>1. /\ Handlers(k, "instance", instance) \in Seq(H)
        /\ Elements(Handlers(k, "instance", instance)) =
             {Handler(k, "instance", instance[i]) : i \in 1 .. Len(instance)}
    BY <1>5, Handles
  <2>2. /\ Handlers(k, "static", static) \in Seq(H)
        /\ Elements(Handlers(k, "static", static)) =
             {Handler(k, "static", static[i]) : i \in 1 .. Len(static)}
    BY <1>6, Handles
  <2> HIDE DEF H
  <2>3. /\ Handlers(k, "static", static) \o Handlers(k, "instance", instance) \in Seq(H)
        /\ Elements(Handlers(k, "static", static) \o Handlers(k, "instance", instance)) =
             Elements(Handlers(k, "static", static)) \cup Elements(Handlers(k, "instance", instance))
    BY <2>1, <2>2, Joined
  <2>4. QED
    BY <2>1, <2>2, <2>3, <1>3
<1>8. r \in ClassRec
  <2>1. r = [name |-> n, bare |-> d.bare, freed |-> FALSE, fs |-> d.fs, static_fs |-> d.static_fs,
             methods |-> r.methods, ps |-> r.ps, static_ps |-> r.static_ps,
             properties |-> r.properties]
    BY DEF r, Created
  <2>2. QED
    BY <2>1, <1>1, <1>3, <1>4, <1>5, <1>6, <1>7 DEF ClassRec
<1>9. /\ \A i, j \in 1 .. Len(instance) : instance[i][2] = instance[j][2] => i = j
      /\ \A i, j \in 1 .. Len(static) : static[i][2] = static[j][2] => i = j
      /\ \A i \in 1 .. Len(instance), j \in 1 .. Len(static) : instance[i][2] # static[j][2]
  <2>1. \A i, j \in 1 .. Len(instance) : instance[i][2] = instance[j][2] => i = j
    BY <1>2, <1>5
  <2>2. \A i, j \in 1 .. Len(static) : static[i][2] = static[j][2] => i = j
    BY <1>2, <1>6
  <2>3. \A i \in 1 .. Len(instance), j \in 1 .. Len(static) : instance[i][2] # static[j][2]
    BY <1>2, <1>5, <1>6
  <2>4. QED
    BY <2>1, <2>2, <2>3
<1>10. Orderly(k, r)
  <2>1. Listed(k, r.methods, r.fs, r.static_fs)
    BY <1>3, <1>4
  <2>2. r.ps = instance /\ r.static_ps = static
    BY <1>3
  <2>3. QED
    BY <2>1, <2>2, <1>7, <1>8, <1>9 DEF Orderly
<1>11. QED
  BY <1>3, <1>10 DEF r

-----------------------------------------------------------------------------
(* The hooks.                                                              *)

\* Whatever class is in the store, a hook calls one of the members it knows.
LEMMA Answers ==
  ASSUME NEW n, class[store[n]] \in ClassRec, NEW m, NEW id
  PROVE  /\ MethodOf(n, m) \in Callback \cup {Error}
         /\ PropertyOf(n, id) \in Callback \cup {Error}
<1> DEFINE r == class[store[n]]
           I == {i \in 1 .. Len(r.methods) : r.methods[i].member = m}
           J == {i \in 1 .. Len(r.properties) : r.properties[i].id = id}
<1>1. r.methods \in Seq(Callback)
  BY DEF ClassRec
<1>2. r.properties \in Seq([id: 0 .. Width - 1, calls: Callback])
  BY DEF ClassRec
<1>3. MethodOf(n, m) = IF I # {} THEN (IF Min(I) = 0 THEN Error ELSE r.methods[Min(I)]) ELSE Error
  BY DEF MethodOf, SelectInSeq
<1>4. PropertyOf(n, id) =
        IF J # {} THEN (IF Min(J) = 0 THEN Error ELSE r.properties[Min(J)].calls) ELSE Error
  BY DEF PropertyOf, SelectInSeq
<1>5. I \subseteq Nat /\ J \subseteq Nat
  OBVIOUS
<1>6. I # {} => Min(I) \in 1 .. Len(r.methods)
  BY <1>5, MinIn
<1>7. J # {} => Min(J) \in 1 .. Len(r.properties)
  BY <1>5, MinIn
<1> HIDE DEF r, I, J
<1>8. I # {} => r.methods[Min(I)] \in Callback
  BY <1>1, <1>6
<1>9. J # {} => r.properties[Min(J)].calls \in Callback
  <2> DEFINE H == [id: 0 .. Width - 1, calls: Callback]
  <2>1. r.properties \in Seq(H)
    BY <1>2
  <2>2. \A h \in H : h.calls \in Callback
    OBVIOUS
  <2> HIDE DEF H
  <2>3. J # {} => r.properties[Min(J)] \in H
    BY <2>1, <1>7
  <2>4. QED
    BY <2>2, <2>3
<1>10. QED
  BY <1>3, <1>4, <1>8, <1>9

\* get_method_by_name: the name leads to the class's own method, on the static
\* side if there is one, for the static methods are at the head of the list.
LEMMA FindsMethod ==
  ASSUME NEW k \in Classes, NEW n, store[n] = k, Orderly(k, class[k]),
         NEW side \in {"instance", "static"}, NEW m \in Functions(k, side)
  PROVE  MethodOf(n, m) = Callee(k, IF m \in class[k].static_fs THEN "static" ELSE side, m)
<1> DEFINE r == class[k]
           I == {i \in 1 .. Len(r.methods) : r.methods[i].member = m}
<1>1. PICK s \in Seq(Callback), t \in Seq(Callback) :
        /\ r.methods = s \o t
        /\ Elements(s) = Callees(k, "static", r.static_fs)
        /\ Elements(t) = Callees(k, "instance", r.fs)
  BY DEF Orderly, Listed
<1>2. MethodOf(n, m) = IF I # {} THEN (IF Min(I) = 0 THEN Error ELSE r.methods[Min(I)]) ELSE Error
  BY DEF MethodOf, SelectInSeq
<1>3. m \in (IF side = "instance" THEN r.fs ELSE r.static_fs)
  BY DEF Functions
<1> HIDE DEF r
<1>4. /\ r.methods \in Seq(Callback) /\ Len(r.methods) = Len(s) + Len(t)
      /\ \A i \in 1 .. Len(s) : r.methods[i] = s[i]
      /\ Elements(r.methods) = Elements(s) \cup Elements(t)
  BY <1>1, Joined
<1>5. PICK i \in 1 .. Len(r.methods) :
        /\ r.methods[i].member = m
        /\ m \in r.static_fs => i <= Len(s)
  <2>1. CASE m \in r.static_fs
    <3>1. Callee(k, "static", m) \in Elements(s)
      BY <1>1, <2>1 DEF Callees
    <3>2. PICK i \in 1 .. Len(s) : s[i] = Callee(k, "static", m)
      BY <3>1 DEF Elements
    <3>3. i \in 1 .. Len(r.methods) /\ i <= Len(s) /\ r.methods[i] = Callee(k, "static", m)
      BY <1>1, <1>4, <3>2
    <3>. QED BY <3>3 DEF Callee
  <2>2. CASE m \notin r.static_fs
    <3>1. Callee(k, side, m) \in Elements(r.methods)
      BY <1>1, <1>3, <1>4, <2>2 DEF Callees
    <3>2. PICK i \in 1 .. Len(r.methods) : r.methods[i] = Callee(k, side, m)
      BY <3>1 DEF Elements
    <3>. QED BY <2>2, <3>2 DEF Callee
  <2>. QED BY <2>1, <2>2
<1>6. I # {} /\ I \subseteq Nat
  BY <1>5
<1>7. Min(I) \in I /\ Min(I) <= i
  <2>1. Min(I) \in I
    BY <1>6, MinIn
  <2>2. \A j \in I : Min(I) <= j
    BY <1>6, Least DEF Min
  <2>. QED BY <1>5, <2>1, <2>2
<1> DEFINE f == r.methods[Min(I)]
<1>8. /\ Min(I) \in 1 .. Len(r.methods) /\ Min(I) # 0 /\ f.member = m
      /\ f \in Elements(r.methods)
  <2>1. Min(I) \in 1 .. Len(r.methods) /\ f.member = m
    BY <1>7
  <2> HIDE DEF I
  <2>. QED BY <2>1 DEF Elements
<1>9. f = Callee(k, IF m \in r.static_fs THEN "static" ELSE side, m)
  <2> HIDE DEF I
  <2>1. CASE m \in r.static_fs
    <3>1. Min(I) \in 1 .. Len(s) /\ f = s[Min(I)]
      BY <1>1, <1>4, <1>5, <1>7, <1>8, <2>1
    <3>2. f \in Callees(k, "static", r.static_fs)
      BY <1>1, <3>1 DEF Elements
    <3>3. PICK x \in r.static_fs : f = Callee(k, "static", x)
      BY <3>2 DEF Callees
    <3>4. x = m
      BY <1>8, <3>3 DEF Callee
    <3>. QED BY <2>1, <3>3, <3>4
  <2>2. CASE m \notin r.static_fs
    <3>1. f \notin Callees(k, "static", r.static_fs)
      BY <1>8, <2>2 DEF Callees, Callee
    <3>2. PICK x \in r.fs : f = Callee(k, "instance", x)
      BY <1>1, <1>4, <1>8, <3>1 DEF Callees
    <3>3. x = m /\ side = "instance"
      BY <1>3, <1>8, <2>2, <3>2 DEF Callee
    <3>. QED BY <2>2, <3>2, <3>3
  <2>. QED BY <2>1, <2>2
<1>. QED BY <1>2, <1>6, <1>8, <1>9 DEF r

\* get_property_by_id: the tinyid leads to the class's own property, on its side.
LEMMA FindsProperty ==
  ASSUME NEW k \in Classes, NEW n, store[n] = k, Orderly(k, class[k]),
         NEW side \in {"instance", "static"}, NEW i \in DOMAIN Properties(k, side)
  PROVE  PropertyOf(n, Properties(k, side)[i][2]) = Callee(k, side, Properties(k, side)[i][1])
<1> DEFINE r == class[k]
           spec == Properties(k, side)
           id == spec[i][2]
           J == {j \in 1 .. Len(r.properties) : r.properties[j].id = id}
<1>1. /\ r.ps \in Seq(Members \X (0 .. Width - 1))
      /\ r.static_ps \in Seq(Members \X (0 .. Width - 1))
      /\ Elements(r.properties) =
           {Handler(k, "instance", r.ps[j]) : j \in 1 .. Len(r.ps)}
           \cup {Handler(k, "static", r.static_ps[j]) : j \in 1 .. Len(r.static_ps)}
      /\ \A a, b \in 1 .. Len(r.ps) : r.ps[a][2] = r.ps[b][2] => a = b
      /\ \A a, b \in 1 .. Len(r.static_ps) : r.static_ps[a][2] = r.static_ps[b][2] => a = b
      /\ \A a \in 1 .. Len(r.ps), b \in 1 .. Len(r.static_ps) : r.ps[a][2] # r.static_ps[b][2]
  BY DEF Orderly, ClassRec
<1>2. PropertyOf(n, id) =
        IF J # {} THEN (IF Min(J) = 0 THEN Error ELSE r.properties[Min(J)].calls) ELSE Error
  BY DEF PropertyOf, SelectInSeq
<1>3. spec = IF side = "instance" THEN r.ps ELSE r.static_ps
  BY DEF Properties
<1> HIDE DEF r, spec
<1>4. i \in 1 .. Len(spec)
  <2>1. i \in DOMAIN spec
    BY DEF spec
  <2>2. QED
    BY <2>1, <1>1, <1>3
<1>5. Handler(k, side, spec[i]) \in Elements(r.properties)
  BY <1>1, <1>3, <1>4
<1>6. PICK j \in 1 .. Len(r.properties) : r.properties[j] = Handler(k, side, spec[i])
  BY <1>5 DEF Elements
<1>7. J # {}
  BY <1>6 DEF Handler
<1>8. Min(J) \in J
  <2>1. J \subseteq Nat
    OBVIOUS
  <2>2. QED
    BY <2>1, <1>7, MinIn
<1>9. /\ r.properties[Min(J)] \in Elements(r.properties)
      /\ r.properties[Min(J)].id = id
      /\ Min(J) # 0
  <2>1. Min(J) \in 1 .. Len(r.properties) /\ r.properties[Min(J)].id = id
    BY <1>8
  <2> HIDE DEF J
  <2>2. QED
    BY <2>1 DEF Elements
<1> DEFINE h == r.properties[Min(J)]
<1>10. h.calls = Callee(k, side, spec[i][1])
  <2> HIDE DEF J
  <2>1. CASE h \in {Handler(k, "instance", r.ps[a]) : a \in 1 .. Len(r.ps)}
    <3>1. PICK a \in 1 .. Len(r.ps) : h = Handler(k, "instance", r.ps[a])
      BY <2>1
    <3>2. r.ps[a][2] = spec[i][2]
      BY <3>1, <1>9 DEF Handler
    <3>3. side = "instance" /\ a = i
      BY <3>2, <1>1, <1>3, <1>4
    <3>4. QED
      BY <3>1, <3>3, <1>3 DEF Handler
  <2>2. CASE h \in {Handler(k, "static", r.static_ps[a]) : a \in 1 .. Len(r.static_ps)}
    <3>1. PICK a \in 1 .. Len(r.static_ps) : h = Handler(k, "static", r.static_ps[a])
      BY <2>2
    <3>2. r.static_ps[a][2] = spec[i][2]
      BY <3>1, <1>9 DEF Handler
    <3>3. side = "static" /\ a = i
      BY <3>2, <1>1, <1>3, <1>4
    <3>4. QED
      BY <3>1, <3>3, <1>3 DEF Handler
  <2>3. QED
    BY <2>1, <2>2, <1>1, <1>9
<1>11. QED
  BY <1>2, <1>7, <1>9, <1>10 DEF spec

-----------------------------------------------------------------------------
(* The inductive invariant.                                                *)

\* A class that was made is in order, and its name is taken, by it or by the
\* one that replaced it.
Made == \A k \in Classes : class[k] # None => Orderly(k, class[k]) /\ store[class[k].name] # None

\* The store and the constructors have classes that were made, under their names.
Stored == \A n \in Names : store[n] # None => class[store[n]] # None /\ class[store[n]].name = n
Constructors ==
  \A c \in Contexts, n \in Names :
    bound[c][n] # None => class[bound[c][n]] # None /\ class[bound[c][n]].name = n

Instances == \A o \in Objects : obj[o] # None => class[obj[o].class] # None

\* The two parts of Dispatch.
Spoken == said # None /\ said.current => said.got = Due(said.meant)
Kept(k) == k \in held \/ \E n \in Names : store[n] = k
Alive == \A k \in Classes : class[k] # None /\ Kept(k) => ~class[k].freed

IInv == TypeOK /\ Made /\ Stored /\ Constructors /\ Instances /\ Spoken /\ Alive

LEMMA Implied == IInv => Dispatch
BY DEF IInv, Dispatch, Spoken, Alive, Kept

LEMMA Starts == Init => IInv
<1>1. SUFFICES ASSUME Init PROVE IInv
  OBVIOUS
<1>2. TypeOK
  BY <1>1 DEF Init, TypeOK
<1>3. Made /\ Stored /\ Constructors /\ Instances /\ Spoken /\ Alive
  BY <1>1 DEF Init, Made, Stored, Constructors, Instances, Spoken, Alive
<1>4. QED
  BY <1>2, <1>3 DEF IInv

\* What a class is does not change when it is freed; and what the store or the
\* program has is not freed.
LEMMA Frees ==
  ASSUME NEW cs \in [Classes -> ClassRec \cup {None}], NEW st, NEW H
  PROVE  /\ Freed(cs, st, H) \in [Classes -> ClassRec \cup {None}]
         /\ \A k \in Classes :
              /\ cs[k] = None => Freed(cs, st, H)[k] = None
              /\ cs[k] # None => /\ Freed(cs, st, H)[k] # None
                                 /\ Freed(cs, st, H)[k].name = cs[k].name
              /\ cs[k] # None /\ Orderly(k, cs[k]) => Orderly(k, Freed(cs, st, H)[k])
              /\ k \in H \/ (\E n \in Names : st[n] = k) => Freed(cs, st, H)[k] = cs[k]
<1> DEFINE kept(k) == k \in H \/ \E n \in Names : st[n] = k
           freed(k) == [cs[k] EXCEPT !.freed = TRUE]
<1>1. Freed(cs, st, H) = [k \in Classes |-> IF cs[k] = None \/ kept(k) THEN cs[k] ELSE freed(k)]
  BY DEF Freed
<1>2. ASSUME NEW k \in Classes, cs[k] # None
      PROVE  /\ freed(k) \in ClassRec /\ freed(k).name = cs[k].name
             /\ Orderly(k, cs[k]) => Orderly(k, freed(k))
  <2>1. cs[k] \in ClassRec
    BY <1>2
  <2>2. /\ freed(k) \in ClassRec
        /\ freed(k).name = cs[k].name /\ freed(k).methods = cs[k].methods
        /\ freed(k).fs = cs[k].fs /\ freed(k).static_fs = cs[k].static_fs
        /\ freed(k).ps = cs[k].ps /\ freed(k).static_ps = cs[k].static_ps
        /\ freed(k).properties = cs[k].properties
    BY <2>1 DEF ClassRec
  <2> HIDE DEF freed
  <2>3. QED
    BY <2>2 DEF Orderly
<1>3. None \notin ClassRec
  BY NoneAssumption
<1> HIDE DEF kept, freed
<1>4. \A k \in Classes : Freed(cs, st, H)[k] = IF cs[k] = None \/ kept(k) THEN cs[k] ELSE freed(k)
  BY <1>1
<1>5. Freed(cs, st, H) \in [Classes -> ClassRec \cup {None}]
  BY <1>1, <1>2
<1>6. QED
  BY <1>2, <1>3, <1>4, <1>5 DEF kept

-----------------------------------------------------------------------------
(* Every action keeps the invariant.                                       *)

LEMMA CreateKeeps ==
  ASSUME IInv, NEW k \in Classes, NEW n \in Names, NEW d \in Definitions, Create(k, n, d)
  PROVE  IInv'
<1> DEFINE made == [class EXCEPT ![k] = Created(k, n, d)]
<1>1. TypeOK /\ Made /\ Stored /\ Constructors /\ Instances
  BY DEF IInv
<1>2. /\ class[k] = None
      /\ store' = [store EXCEPT ![n] = k] /\ held' = held \cup {k}
      /\ class' = Freed(made, store', held')
      /\ said' = None /\ bound' = bound /\ obj' = obj
  BY DEF Create
<1>3. /\ Orderly(k, Created(k, n, d)) /\ Created(k, n, d).name = n
      /\ ~ Created(k, n, d).freed
      /\ Created(k, n, d) \in ClassRec
  <2>1. /\ Orderly(k, Created(k, n, d)) /\ Created(k, n, d).name = n
        /\ ~ Created(k, n, d).freed
    BY Creates
  <2> HIDE DEF Created
  <2>2. Created(k, n, d) \in ClassRec
    BY <2>1 DEF Orderly
  <2>3. QED
    BY <2>1, <2>2
<1>4. None \notin Classes /\ None \notin ClassRec
  BY NoneAssumption
<1>5. /\ class \in [Classes -> ClassRec \cup {None}]
      /\ store \in [Names -> Classes \cup {None}]
      /\ held \subseteq {j \in Classes : class[j] # None}
      /\ bound \in [Contexts -> [Names -> Classes \cup {None}]]
      /\ obj \in [Objects -> ObjectRec \cup {None}]
  BY <1>1 DEF TypeOK
<1>6. made \in [Classes -> ClassRec \cup {None}]
  BY <1>3, <1>5
<1>7. /\ made[k] = Created(k, n, d) /\ made[k] # None
      /\ \A j \in Classes : j # k => made[j] = class[j]
      /\ \A j \in Classes : class[j] # None => made[j] = class[j]
  BY <1>2, <1>3, <1>4, <1>5
<1> HIDE DEF made
<1>8. /\ class' \in [Classes -> ClassRec \cup {None}]
      /\ \A j \in Classes :
           /\ made[j] = None => class'[j] = None
           /\ made[j] # None => class'[j] # None /\ class'[j].name = made[j].name
           /\ made[j] # None /\ Orderly(j, made[j]) => Orderly(j, class'[j])
           /\ Kept(j)' => class'[j] = made[j]
  <2> DEFINE F == Freed(made, store', held')
  <2>1. /\ F \in [Classes -> ClassRec \cup {None}]
        /\ \A j \in Classes :
             /\ made[j] = None => F[j] = None
             /\ made[j] # None => F[j] # None /\ F[j].name = made[j].name
             /\ made[j] # None /\ Orderly(j, made[j]) => Orderly(j, F[j])
             /\ j \in held' \/ (\E x \in Names : store'[x] = j) => F[j] = made[j]
    BY <1>6, Frees
  <2>2. class' = F
    BY <1>2
  <2> HIDE DEF F
  <2>3. QED
    BY <2>1, <2>2 DEF Kept
<1>9. \A j \in Classes : class[j] # None => class'[j] # None /\ class'[j].name = class[j].name
  BY <1>7, <1>8
<1>10. class'[k] # None /\ class'[k].name = n
  BY <1>3, <1>7, <1>8
<1>11. \A j \in Names : store'[j] = IF j = n THEN k ELSE store[j]
  BY <1>2, <1>5
<1>12. TypeOK'
  <2>1. store' \in [Names -> Classes \cup {None}]
    BY <1>2, <1>5
  <2>2. held' \subseteq {j \in Classes : class'[j] # None}
    BY <1>2, <1>5, <1>9, <1>10
  <2>3. QED
    BY <2>1, <2>2, <1>2, <1>5, <1>8 DEF TypeOK
<1>13. Made'
  <2>1. SUFFICES ASSUME NEW j \in Classes, class'[j] # None
                 PROVE  Orderly(j, class'[j]) /\ store'[class'[j].name] # None
    BY DEF Made
  <2>2. CASE j = k
    BY <2>2, <1>3, <1>4, <1>7, <1>8, <1>10, <1>11
  <2>3. CASE j # k
    <3>1. class[j] # None /\ made[j] = class[j]
      BY <2>1, <2>3, <1>7, <1>8
    <3>2. Orderly(j, class[j]) /\ store[class[j].name] # None /\ class[j].name \in Names
      BY <3>1, <1>1, <1>5 DEF Made, ClassRec
    <3>3. QED
      BY <3>1, <3>2, <1>4, <1>8, <1>9, <1>11
  <2>4. QED
    BY <2>2, <2>3
<1>14. Stored'
  <2>1. SUFFICES ASSUME NEW j \in Names, store'[j] # None
                 PROVE  class'[store'[j]] # None /\ class'[store'[j]].name = j
    BY DEF Stored
  <2>2. CASE j = n
    BY <2>2, <1>10, <1>11
  <2>3. CASE j # n
    BY <2>1, <2>3, <1>1, <1>5, <1>9, <1>11 DEF Stored
  <2>4. QED
    BY <2>2, <2>3
<1>15. Constructors'
  <2>1. SUFFICES ASSUME NEW c \in Contexts, NEW x \in Names, bound'[c][x] # None
                 PROVE  class'[bound'[c][x]] # None /\ class'[bound'[c][x]].name = x
    BY DEF Constructors
  <2>2. bound'[c][x] = bound[c][x] /\ bound[c][x] \in Classes
    BY <2>1, <1>2, <1>5
  <2>3. QED
    BY <2>1, <2>2, <1>1, <1>9 DEF Constructors
<1>16. Instances'
  BY <1>1, <1>2, <1>5, <1>9 DEF Instances, ObjectRec
<1>17. Alive'
  <2>1. SUFFICES ASSUME NEW j \in Classes, class'[j] # None, Kept(j)'
                 PROVE  ~ class'[j].freed
    BY DEF Alive
  <2>2. class'[j] = made[j]
    BY <2>1, <1>8
  <2>3. CASE j = k
    BY <2>2, <2>3, <1>3, <1>7
  <2>4. CASE j # k
    <3>1. Kept(j)
      BY <2>1, <2>4, <1>2, <1>11 DEF Kept
    <3>2. QED
      BY <3>1, <2>1, <2>2, <2>4, <1>7 DEF IInv, Alive
  <2>5. QED
    BY <2>3, <2>4
<1>18. Spoken'
  BY <1>2 DEF Spoken
<1>19. QED
  BY <1>12, <1>13, <1>14, <1>15, <1>16, <1>17, <1>18 DEF IInv

LEMMA ReleaseKeeps ==
  ASSUME IInv, NEW k \in Classes, Release(k)
  PROVE  IInv'
<1>1. TypeOK /\ Made /\ Stored /\ Constructors /\ Instances
  BY DEF IInv
<1>2. /\ held' = held \ {k} /\ class' = Freed(class, store, held')
      /\ said' = None /\ store' = store /\ bound' = bound /\ obj' = obj
  BY DEF Release
<1>3. /\ class \in [Classes -> ClassRec \cup {None}]
      /\ store \in [Names -> Classes \cup {None}]
      /\ held \subseteq {j \in Classes : class[j] # None}
      /\ bound \in [Contexts -> [Names -> Classes \cup {None}]]
      /\ obj \in [Objects -> ObjectRec \cup {None}]
  BY <1>1 DEF TypeOK
<1>4. /\ class' \in [Classes -> ClassRec \cup {None}]
      /\ \A j \in Classes :
           /\ class[j] = None => class'[j] = None
           /\ class[j] # None => class'[j] # None /\ class'[j].name = class[j].name
           /\ class[j] # None /\ Orderly(j, class[j]) => Orderly(j, class'[j])
           /\ Kept(j)' => class'[j] = class[j]
  <2> DEFINE F == Freed(class, store', held')
  <2>1. /\ F \in [Classes -> ClassRec \cup {None}]
        /\ \A j \in Classes :
             /\ class[j] = None => F[j] = None
             /\ class[j] # None => F[j] # None /\ F[j].name = class[j].name
             /\ class[j] # None /\ Orderly(j, class[j]) => Orderly(j, F[j])
             /\ j \in held' \/ (\E x \in Names : store'[x] = j) => F[j] = class[j]
    BY <1>3, Frees
  <2>2. class' = F
    BY <1>2
  <2> HIDE DEF F
  <2>3. QED
    BY <2>1, <2>2 DEF Kept
<1>5. TypeOK'
  <2>1. held' \subseteq {j \in Classes : class'[j] # None}
    BY <1>2, <1>3, <1>4
  <2>2. QED
    BY <2>1, <1>2, <1>3, <1>4 DEF TypeOK
<1>6. Made'
  BY <1>1, <1>2, <1>3, <1>4 DEF Made
<1>7. Stored' /\ Constructors' /\ Instances'
  <2>1. Stored'
    BY <1>1, <1>2, <1>3, <1>4 DEF Stored
  <2>2. ASSUME NEW c \in Contexts, NEW x \in Names, bound'[c][x] # None
        PROVE  class'[bound'[c][x]] # None /\ class'[bound'[c][x]].name = x
    <3>1. bound'[c][x] = bound[c][x] /\ bound[c][x] \in Classes
      BY <2>2, <1>2, <1>3
    <3>2. QED
      BY <2>2, <3>1, <1>1, <1>4 DEF Constructors
  <2>3. Constructors'
    BY <2>2 DEF Constructors
  <2>4. Instances'
    BY <1>1, <1>2, <1>3, <1>4 DEF Instances, ObjectRec
  <2>5. QED
    BY <2>1, <2>3, <2>4
<1>8. Alive'
  <2>1. SUFFICES ASSUME NEW j \in Classes, class'[j] # None, Kept(j)'
                 PROVE  ~ class'[j].freed
    BY DEF Alive
  <2>2. Kept(j) /\ class'[j] = class[j]
    BY <2>1, <1>2, <1>4 DEF Kept
  <2>3. QED
    BY <2>1, <2>2 DEF IInv, Alive
<1>9. Spoken'
  BY <1>2 DEF Spoken
<1>10. QED
  BY <1>5, <1>6, <1>7, <1>8, <1>9 DEF IInv

\* The others neither make nor free a class.
SaidRec == [meant: Callback, got: Callback \cup {Error}, current: BOOLEAN]

LEMMA Elsewhere ==
  ASSUME IInv, class' = class, store' = store, held' = held,
         bound' \in [Contexts -> [Names -> Classes \cup {None}]], Constructors',
         obj' \in [Objects -> ObjectRec \cup {None}], Instances',
         said' = None \/ said' \in SaidRec, Spoken'
  PROVE  IInv'
<1>1. TypeOK /\ Made /\ Stored /\ Alive
  BY DEF IInv
<1>2. TypeOK'
  BY <1>1 DEF TypeOK, SaidRec
<1>3. Made' /\ Stored' /\ Alive'
  BY <1>1 DEF Made, Stored, Alive, Kept
<1>4. QED
  BY <1>2, <1>3 DEF IInv

\* Whatever a constructor is bound to was made under that name.
LEMMA Bound ==
  ASSUME IInv, NEW c \in Contexts, NEW n \in Names, bound[c][n] # None
  PROVE  /\ bound[c][n] \in Classes /\ class[bound[c][n]] # None
         /\ class[bound[c][n]].name = n
         /\ store[n] \in Classes /\ class[store[n]] # None
<1>1. TypeOK /\ Made /\ Stored /\ Constructors
  BY DEF IInv
<1>2. bound[c][n] \in Classes
  BY <1>1 DEF TypeOK
<1>3. class[bound[c][n]] # None /\ class[bound[c][n]].name = n
  BY <1>1 DEF Constructors
<1>4. store[n] # None
  BY <1>1, <1>2, <1>3 DEF Made
<1>5. QED
  BY <1>1, <1>2, <1>3, <1>4 DEF TypeOK, Stored

LEMMA BindKeeps ==
  ASSUME IInv, NEW k \in Classes, NEW c \in Contexts, Bind(k, c)
  PROVE  IInv'
<1>1. TypeOK /\ Constructors /\ Instances
  BY DEF IInv
<1>2. /\ k \in held /\ bound' = [bound EXCEPT ![c][class[k].name] = k]
      /\ said' = None /\ class' = class /\ store' = store /\ held' = held /\ obj' = obj
  BY DEF Bind
<1>3. /\ bound \in [Contexts -> [Names -> Classes \cup {None}]]
      /\ obj \in [Objects -> ObjectRec \cup {None}]
      /\ class[k] # None /\ class[k] \in ClassRec
  BY <1>1, <1>2 DEF TypeOK
<1>4. class[k].name \in Names
  BY <1>3 DEF ClassRec
<1>5. bound' \in [Contexts -> [Names -> Classes \cup {None}]]
  BY <1>2, <1>3, <1>4
<1>6. \A x \in Contexts, n \in Names :
        bound'[x][n] = IF x = c /\ n = class[k].name THEN k ELSE bound[x][n]
  BY <1>2, <1>3, <1>4
<1>7. Constructors'
  BY <1>1, <1>2, <1>3, <1>6 DEF Constructors
<1>8. Instances' /\ Spoken'
  BY <1>1, <1>2 DEF Instances, Spoken
<1>9. QED
  BY <1>2, <1>3, <1>5, <1>7, <1>8, Elsewhere

\* A hook of a class that was made asks for a member, and gets an answer that is
\* right if the class is the one in the store.
LEMMA SaysKeeps ==
  ASSUME IInv, NEW k \in Classes, class[k] # None,
         NEW meant \in Callback, meant.side # "new",
         NEW answer \in Callback \cup {Error},
         store[class[k].name] = k => answer = Due(meant),
         Says(k, meant, answer), obj' = obj
  PROVE  IInv'
<1>1. TypeOK /\ Constructors /\ Instances /\ Alive /\ Made
  BY DEF IInv
<1>2. PICK got \in {answer} \cup (IF class[k].freed THEN {Error} ELSE {}) :
        said' = [meant |-> meant, got |-> got, current |-> store[class[k].name] = k]
  BY DEF Says
<1>3. class' = class /\ store' = store /\ held' = held /\ bound' = bound
  BY DEF Says
<1>4. said' \in SaidRec
  BY <1>2 DEF SaidRec
<1>5. Spoken'
  <2>1. SUFFICES ASSUME said'.current PROVE said'.got = Due(said.meant)'
    BY DEF Spoken
  <2>2. store[class[k].name] = k
    BY <2>1, <1>2
  <2>3. class[k].name \in Names
    BY <1>1 DEF TypeOK, ClassRec
  <2>4. ~ class[k].freed
    BY <2>2, <2>3, <1>1 DEF Alive, Kept
  <2>5. said'.got = Due(meant)
    BY <2>2, <2>4, <1>2
  <2>6. said'.meant = meant
    BY <1>2
  <2>7. QED
    BY <2>5, <2>6, <1>3 DEF Due, Meant
<1>6. Constructors' /\ Instances'
  BY <1>1, <1>3 DEF Constructors, Instances
<1>7. QED
  BY <1>1, <1>3, <1>4, <1>5, <1>6, Elsewhere DEF TypeOK

LEMMA UseKeeps ==
  ASSUME IInv, NEW k \in Classes, class[k] # None,
         NEW side \in {"instance", "static"}, NEW m \in Members, Use(k, side, m)
  PROVE  IInv'
<1> DEFINE n == class[k].name
<1>1. TypeOK /\ Made /\ Stored
  BY DEF IInv
<1>2. Orderly(k, class[k]) /\ store[n] # None /\ n \in Names
  BY <1>1 DEF Made, TypeOK, ClassRec
<1>3. class[store[n]] \in ClassRec
  BY <1>1, <1>2 DEF Stored, TypeOK
<1>4. obj' = obj
  BY DEF Use
<1>5. Callee(k, side, m) \in Callback /\ Callee(k, side, m).side # "new"
  BY DEF Callee, Callback
<1>6. ASSUME m \in Functions(k, side), Says(k, Callee(k, side, m), MethodOf(n, m))
      PROVE  IInv'
  <2>1. MethodOf(n, m) \in Callback \cup {Error}
    BY <1>3, Answers
  <2>2. store[n] = k => MethodOf(n, m) = Due(Callee(k, side, m))
    <3>1. store[n] = k => MethodOf(n, m) = Callee(k, IF m \in class[k].static_fs THEN "static" ELSE side, m)
      BY <1>2, <1>6, FindsMethod
    <3>2. side = "instance" => m \in class[k].fs
      BY <1>6 DEF Functions
    <3>3. Due(Callee(k, side, m)) = Callee(k, IF m \in class[k].static_fs THEN "static" ELSE side, m)
      BY <3>2 DEF Due, Meant, Callee
    <3>. QED BY <3>1, <3>3
  <2>3. QED
    BY <1>4, <1>5, <1>6, <2>1, <2>2, SaysKeeps
<1>7. ASSUME NEW i \in DOMAIN Properties(k, side), Properties(k, side)[i][1] = m,
             m \notin Functions(k, side),
             Says(k, Callee(k, side, m), PropertyOf(n, Properties(k, side)[i][2]))
      PROVE  IInv'
  <2> DEFINE id == Properties(k, side)[i][2]
  <2>1. PropertyOf(n, id) \in Callback \cup {Error}
    BY <1>3, Answers
  <2>2. store[n] = k => PropertyOf(n, id) = Due(Callee(k, side, m))
    <3>1. store[n] = k => PropertyOf(n, id) = Callee(k, side, m)
      BY <1>2, <1>7, FindsProperty
    <3>2. Due(Callee(k, side, m)) = Callee(k, side, m)
      BY <1>7 DEF Due, Meant, Callee, Functions
    <3>. QED BY <3>1, <3>2
  <2> HIDE DEF id
  <2>3. Says(k, Callee(k, side, m), PropertyOf(n, id))
    BY <1>7 DEF id
  <2>4. QED
    BY <1>4, <1>5, <2>1, <2>2, <2>3, SaysKeeps
<1>8. QED
  BY <1>6, <1>7 DEF Use

LEMMA NewKeeps ==
  ASSUME IInv, NEW c \in Contexts, NEW n \in Names, NEW o \in Objects, New(c, n, o)
  PROVE  IInv'
<1> DEFINE k == bound[c][n]
           pcls == store[n]
           ok == ~ class[pcls].bare
<1>1. TypeOK /\ Constructors /\ Instances
  BY DEF IInv
<1>2. /\ obj[o] = None /\ bound[c][n] # None
      /\ said' = [meant |-> Callee(k, "new", None), current |-> pcls = k,
                  got |-> IF ok THEN Callee(pcls, "new", None) ELSE Error]
      /\ obj' = IF ok THEN [obj EXCEPT ![o] = [cx |-> c, class |-> k]] ELSE obj
      /\ class' = class /\ store' = store /\ held' = held /\ bound' = bound
  BY DEF New
<1>3. k \in Classes /\ class[k] # None /\ pcls \in Classes
  BY <1>2, Bound
<1> HIDE DEF k, pcls, ok
<1>4. [cx |-> c, class |-> k] \in ObjectRec
  BY <1>3 DEF ObjectRec
<1>5. obj' \in [Objects -> ObjectRec \cup {None}]
  BY <1>1, <1>2, <1>4 DEF TypeOK
<1>6. Instances'
  <2>1. SUFFICES ASSUME NEW x \in Objects, obj'[x] # None PROVE class[obj'[x].class] # None
    BY <1>2 DEF Instances
  <2>2. CASE obj'[x] = obj[x]
    BY <2>1, <2>2, <1>1 DEF Instances
  <2>3. CASE obj'[x] # obj[x]
    <3>1. obj'[x] = [cx |-> c, class |-> k]
      BY <2>3, <1>1, <1>2 DEF TypeOK
    <3>2. QED
      BY <3>1, <1>3
  <2>4. QED
    BY <2>2, <2>3
<1>7. said' \in SaidRec
  <2>1. Callee(k, "new", None) \in Callback /\ Callee(pcls, "new", None) \in Callback
    BY <1>3 DEF Callee, Callback
  <2> HIDE DEF Callback
  <2>2. QED
    BY <2>1, <1>2 DEF SaidRec
<1>8. Spoken'
  <2>1. SUFFICES ASSUME said'.current PROVE said'.got = Due(said.meant)'
    BY DEF Spoken
  <2>2. pcls = k
    BY <2>1, <1>2
  <2>3. /\ said'.meant = Callee(k, "new", None)
        /\ said'.got = IF ok THEN Callee(k, "new", None) ELSE Error
    BY <2>2, <1>2
  <2>4. ok = ~ class[k].bare
    BY <2>2 DEF ok
  <2>5. Due(said.meant)' = IF ok THEN said'.meant ELSE Error
    BY <2>3, <2>4, <1>2 DEF Due, Meant, Callee
  <2>6. QED
    BY <2>3, <2>5
<1>9. Constructors'
  BY <1>1, <1>2 DEF Constructors
<1>10. QED
  BY <1>1, <1>2, <1>5, <1>6, <1>7, <1>8, <1>9, Elsewhere DEF TypeOK

\* What changes objects only, and asks nothing.
LEMMA ObjectsKeep ==
  ASSUME IInv, class' = class, store' = store, held' = held, said' = None,
         bound' \in [Contexts -> [Names -> Classes \cup {None}]],
         \A c \in Contexts, n \in Names : bound'[c][n] \in {bound[c][n], None},
         obj' \in [Objects -> ObjectRec \cup {None}],
         \A o \in Objects : \/ obj'[o] \in {obj[o], None}
                            \/ obj'[o].class \in Classes /\ class[obj'[o].class] # None
  PROVE  IInv'
<1>1. Constructors /\ Instances
  BY DEF IInv
<1>2. Constructors'
  BY <1>1 DEF Constructors
<1>3. Instances'
  BY <1>1 DEF Instances
<1>4. Spoken'
  BY DEF Spoken
<1>5. QED
  BY <1>2, <1>3, <1>4, Elsewhere

LEMMA EnterKeeps ==
  ASSUME IInv, NEW c \in Contexts, NEW n \in Names, NEW o \in Objects, Enter(c, n, o)
  PROVE  IInv'
<1>1. TypeOK
  BY DEF IInv
<1>2. /\ bound[c][n] # None /\ obj' = [obj EXCEPT ![o] = [cx |-> c, class |-> bound[c][n]]]
      /\ said' = None /\ class' = class /\ store' = store /\ held' = held /\ bound' = bound
  BY DEF Enter
<1>3. bound[c][n] \in Classes /\ class[bound[c][n]] # None
  BY <1>2, Bound
<1>4. [cx |-> c, class |-> bound[c][n]] \in ObjectRec
  BY <1>3 DEF ObjectRec
<1>5. obj' \in [Objects -> ObjectRec \cup {None}]
  BY <1>1, <1>2, <1>4 DEF TypeOK
<1>6. \A x \in Objects : \/ obj'[x] \in {obj[x], None}
                         \/ obj'[x].class \in Classes /\ class[obj'[x].class] # None
  BY <1>1, <1>2, <1>3 DEF TypeOK
<1>7. QED
  BY <1>1, <1>2, <1>5, <1>6, ObjectsKeep DEF TypeOK

LEMMA CollectKeeps ==
  ASSUME IInv, NEW o \in Objects, Collect(o)
  PROVE  IInv'
<1>1. TypeOK
  BY DEF IInv
<1>2. /\ obj' = [obj EXCEPT ![o] = None]
      /\ said' = None /\ class' = class /\ store' = store /\ held' = held /\ bound' = bound
  BY DEF Collect
<1>3. obj' \in [Objects -> ObjectRec \cup {None}]
  BY <1>1, <1>2 DEF TypeOK
<1>4. \A x \in Objects : obj'[x] \in {obj[x], None}
  BY <1>1, <1>2 DEF TypeOK
<1>5. QED
  BY <1>1, <1>2, <1>3, <1>4, ObjectsKeep DEF TypeOK

LEMMA DestroyContextKeeps ==
  ASSUME IInv, NEW c \in Contexts, DestroyContext(c)
  PROVE  IInv'
<1>1. TypeOK
  BY DEF IInv
<1>2. /\ bound' = [bound EXCEPT ![c] = [n \in Names |-> None]]
      /\ obj' = [o \in Objects |-> IF obj[o] # None /\ obj[o].cx = c THEN None ELSE obj[o]]
      /\ said' = None /\ class' = class /\ store' = store /\ held' = held
  BY DEF DestroyContext
<1>3. obj' \in [Objects -> ObjectRec \cup {None}]
  BY <1>1, <1>2 DEF TypeOK
<1>4. \A x \in Objects : obj'[x] \in {obj[x], None}
  BY <1>2
<1>5. bound' \in [Contexts -> [Names -> Classes \cup {None}]]
  BY <1>1, <1>2 DEF TypeOK
<1>6. \A x \in Contexts, n \in Names : bound'[x][n] \in {bound[x][n], None}
  BY <1>1, <1>2 DEF TypeOK
<1>7. QED
  BY <1>2, <1>3, <1>4, <1>5, <1>6, ObjectsKeep

LEMMA Steps == IInv /\ [Next]_vars => IInv'
<1>1. SUFFICES ASSUME IInv, [Next]_vars PROVE IInv'
  OBVIOUS
<1>2. TypeOK /\ Instances
  BY <1>1 DEF IInv
<1>3. ASSUME NEW k \in Classes, NEW n \in Names, NEW d \in Definitions, Create(k, n, d)
      PROVE  IInv'
  BY <1>1, <1>3, CreateKeeps
<1>4. ASSUME NEW k \in Classes, NEW c \in Contexts, Bind(k, c)
      PROVE  IInv'
  BY <1>1, <1>4, BindKeeps
<1>5. ASSUME NEW k \in Classes, Release(k)
      PROVE  IInv'
  BY <1>1, <1>5, ReleaseKeeps
<1>6. ASSUME NEW o \in Objects, Collect(o)
      PROVE  IInv'
  BY <1>1, <1>6, CollectKeeps
<1>7. ASSUME NEW o \in Objects, NEW m \in Members, UseInstance(o, m)
      PROVE  IInv'
  <2>1. obj[o] # None /\ Use(obj[o].class, "instance", m)
    BY <1>7 DEF UseInstance
  <2>2. obj[o].class \in Classes /\ class[obj[o].class] # None
    BY <2>1, <1>2 DEF TypeOK, Instances, ObjectRec
  <2>3. QED
    BY <1>1, <2>1, <2>2, UseKeeps
<1>8. ASSUME NEW c \in Contexts, NEW n \in Names, NEW m \in Members, UseStatic(c, n, m)
      PROVE  IInv'
  <2>1. bound[c][n] # None /\ Use(bound[c][n], "static", m)
    BY <1>8 DEF UseStatic
  <2>2. bound[c][n] \in Classes /\ class[bound[c][n]] # None
    BY <1>1, <2>1, Bound
  <2>3. QED
    BY <1>1, <2>1, <2>2, UseKeeps
<1>9. ASSUME NEW c \in Contexts, NEW n \in Names, NEW o \in Objects, New(c, n, o)
      PROVE  IInv'
  BY <1>1, <1>9, NewKeeps
<1>10. ASSUME NEW c \in Contexts, NEW n \in Names, NEW o \in Objects, Enter(c, n, o)
       PROVE  IInv'
  BY <1>1, <1>10, EnterKeeps
<1>11. ASSUME NEW c \in Contexts, DestroyContext(c)
       PROVE  IInv'
  BY <1>1, <1>11, DestroyContextKeeps
<1>12. ASSUME UNCHANGED vars
       PROVE  IInv'
  <2>1. /\ class' = class /\ store' = store /\ held' = held
        /\ bound' = bound /\ obj' = obj /\ said' = said
    BY <1>12 DEF vars
  <2>2. Constructors' /\ Instances' /\ Spoken'
    BY <1>1, <2>1 DEF IInv, Constructors, Instances, Spoken, Due, Meant
  <2>3. QED
    BY <1>1, <1>2, <2>1, <2>2, Elsewhere DEF TypeOK, SaidRec
<1>13. QED
  BY <1>1, <1>3, <1>4, <1>5, <1>6, <1>7, <1>8, <1>9, <1>10, <1>11, <1>12 DEF Next

-----------------------------------------------------------------------------
(* The theorems.                                                           *)

LEMMA ClassInvariance == Spec => []IInv
<1>1. Init => IInv
  BY Starts
<1>2. IInv /\ [Next]_vars => IInv'
  BY Steps
<1>3. QED
  BY <1>1, <1>2, PTL DEF Spec

\* Type correctness of the classes, for any number of them, of names, contexts
\* and tinyids: the store and the constructors have classes under their own names,
\* and each tinyid is a number there is.
THEOREM ClassTypes == Spec => []TypeOK
<1>1. IInv => TypeOK
  BY DEF IInv
<1>2. QED
  BY <1>1, ClassInvariance, PTL

\* A class that is in the store under its name runs its own members, whatever
\* was defined, replaced, released and bound before, as long as its properties are
\* no more than there are tinyids; and neither the store nor the program has a
\* class that was freed.
THEOREM Dispatches == Spec => []Dispatch
<1>1. IInv => Dispatch
  BY Implied
<1>2. QED
  BY <1>1, ClassInvariance, PTL

=============================================================================
