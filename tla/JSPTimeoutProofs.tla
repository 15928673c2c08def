-------------------------- MODULE JSPTimeoutProofs ---------------------------
EXTENDS JSPTimeout, SequenceTheorems, WellFoundedInduction, TLAPS

(***************************************************************************)
(* The proofs follow the stack.  A wto frame remembers the action that the *)
(* wto frame below it has installed, so that the chain of the old actions  *)
(* is what the end of each eval_wto restores.  Below(s, i, k): k is the    *)
(* index of the innermost wto frame under i, or 0.                         *)
(***************************************************************************)
Below(s, i, k) ==
  /\ k \in 0 .. i - 1
  /\ k # 0 => s[k].kind = "wto"
  /\ \A j \in k + 1 .. i - 1 : s[j].kind # "wto"

IdAt(s, k) == IF k = 0 THEN 0 ELSE s[k].id

Some(s, kind) == \E i \in 1 .. Len(s) : s[i].kind = kind

\* Only the frame at the top can be over, and only a wto frame is so for long.
Phased(s) == \A i \in 1 .. Len(s) : s[i].phase # "run" => i = Len(s) /\ s[i].kind = "wto"

\* The chain of the wto frames.
Linked(s) ==
  \A i \in 1 .. Len(s) : s[i].kind = "wto" =>
    s[i].id # 0 /\ \A k \in 0 .. i - 1 : Below(s, i, k) => s[i].old = IdAt(s, k)

\* A callback is called from a script, within an eval_wto.
Held(s) ==
  \A i \in 1 .. Len(s) : s[i].kind = "cb" =>
    /\ i > 1 /\ s[i - 1].kind \in {"plain", "wto"}
    /\ \E j \in 1 .. i - 1 : s[j].kind = "wto"

Shape(s) == s \in Seq(Frame) /\ Len(s) <= MaxDepth /\ Linked(s) /\ Held(s) /\ Phased(s)

Typed ==
  /\ program \in Programs
  /\ to \in {"none", "dies", "calls", "empty"}
  /\ os \in [alarm: Runs, action: Runs, killed: BOOLEAN]
  /\ cx \in [opcb: BOOLEAN, handler: BOOLEAN, flag: Runs]
  /\ runs \in Runs

\* The timer, the action and the callback belong to the wto frames.
Signals ==
  /\ \A k \in 0 .. Len(stack) : Below(stack, Len(stack) + 1, k) => os.action = IdAt(stack, k)
  /\ os.alarm # 0 => Some(stack, "wto")
  /\ cx.opcb \/ cx.handler => Some(stack, "wto")
  /\ \A i \in 1 .. Len(stack) : stack[i].phase = "quiet" => os.alarm = 0
  /\ ~os.killed

\* Without nesting there is one wto frame, at the bottom, and one callback.
Lone ==
  ~Nests =>
    /\ \A i \in 1 .. Len(stack) : stack[i].kind = "wto" => i = 1 /\ cx.handler
    /\ \A i \in 1 .. Len(stack) : stack[i].kind = "cb" => ~cx.opcb
    /\ \A i, j \in 1 .. Len(stack) : stack[i].kind = "cb" /\ stack[j].kind = "cb" => i = j
    /\ \A i \in 1 .. Len(stack) : stack[i].kind = "wto" /\ ~Some(stack, "cb") =>
         /\ cx.opcb
         /\ stack[i].phase = "run" /\ stack[i].verdict = "watched" =>
              os.alarm = stack[i].id \/ cx.flag # 0

IInv == Typed /\ Shape(stack) /\ Signals /\ Lone

-----------------------------------------------------------------------------
\* A set of indexes that is not empty has a greatest one.
LEMMA MaxFacts ==
  ASSUME NEW n \in Nat, NEW I \in SUBSET (1 .. n), I # {}
  PROVE  Max(I) \in I /\ \A j \in I : Max(I) >= j
<1> DEFINE T == {n - i : i \in I}
<1>1. T \subseteq Nat /\ T # {}
  <2>1. \A i \in 1 .. n : n - i \in Nat
    OBVIOUS
  <2>. QED BY <2>1
<1>2. PICK t \in T : \A u \in T : ~(<<u, t>> \in OpToRel(<, Nat))
  BY <1>1, NatLessThanWellFounded, WFMin, Zenon
<1>3. PICK m \in I : t = n - m
  OBVIOUS
<1>4. ASSUME NEW j \in I PROVE m >= j
  <2>1. n - j \in T /\ n - j \in Nat /\ n - m \in Nat
    BY <1>1, <1>3
  <2>2. ~(n - j < n - m)
    BY <1>2, <1>3, <2>1 DEF OpToRel
  <2>3. j \in 1 .. n /\ m \in 1 .. n
    OBVIOUS
  <2>. QED BY <2>2, <2>3
<1>. QED BY <1>4 DEF Max

\* Wto finds the innermost wto frame.
LEMMA WtoFacts ==
  ASSUME NEW s \in Seq(Frame)
  PROVE  /\ Wto(s) \in 0 .. Len(s) /\ Below(s, Len(s) + 1, Wto(s))
         /\ Wto(s) # 0 <=> Some(s, "wto")
<1> DEFINE I == {i \in 1 .. Len(s) : s[i].kind = "wto"}
<1>1. Wto(s) = IF I # {} THEN Max(I) ELSE 0
  BY DEF Wto, SelectLastInSeq
<1>2. Len(s) \in Nat /\ Len(s) + 1 - 1 = Len(s)
  BY LenProperties
<1>3. CASE I = {}
  BY <1>1, <1>2, <1>3 DEF Below, Some
<1>4. CASE I # {}
  <2>1. Max(I) \in I /\ \A j \in I : Max(I) >= j
    BY <1>2, <1>4, MaxFacts
  <2>2. Wto(s) \in 1 .. Len(s) /\ s[Wto(s)].kind = "wto"
    BY <1>1, <1>4, <2>1
  <2>3. ASSUME NEW j \in Wto(s) + 1 .. Len(s) PROVE s[j].kind # "wto"
    <3>1. j \in 1 .. Len(s) /\ ~(Wto(s) >= j)
      BY <1>2, <2>2
    <3>. QED BY <1>1, <1>4, <2>1, <3>1
  <2>. QED BY <1>2, <2>2, <2>3 DEF Below, Some
<1>. QED BY <1>3, <1>4

\* And there is only one.
LEMMA BelowUnique ==
  ASSUME NEW s \in Seq(Frame), NEW n \in Nat, NEW k, NEW l, Below(s, n + 1, k), Below(s, n + 1, l)
  PROVE  k = l
<1>1. k \in 0 .. n /\ l \in 0 .. n /\ n + 1 - 1 = n
  BY DEF Below
<1>2. ~(k < l)
  <2>1. SUFFICES ASSUME k < l PROVE FALSE
    OBVIOUS
  <2>2. l \in k + 1 .. n /\ l # 0
    BY <1>1, <2>1
  <2>. QED BY <1>1, <2>2 DEF Below
<1>3. ~(l < k)
  <2>1. SUFFICES ASSUME l < k PROVE FALSE
    OBVIOUS
  <2>2. k \in l + 1 .. n /\ k # 0
    BY <1>1, <2>1
  <2>. QED BY <1>1, <2>2 DEF Below
<1>. QED BY <1>1, <1>2, <1>3

-----------------------------------------------------------------------------
(***************************************************************************)
(* Two stacks with the same eval_wto calls: t has lost some of the other   *)
(* frames at the top of s, or has others there.                            *)
(***************************************************************************)
Same(s, t) ==
  /\ \A i \in 1 .. Len(t) : i <= Len(s) =>
       t[i].kind = s[i].kind /\ t[i].id = s[i].id /\ t[i].old = s[i].old
  /\ \A i \in 1 .. Len(t) : i > Len(s) => t[i].kind # "wto"
  /\ \A i \in 1 .. Len(s) : i > Len(t) => s[i].kind # "wto"

LEMMA SameFacts ==
  ASSUME NEW s \in Seq(Frame), NEW t \in Seq(Frame), Same(s, t)
  PROVE  /\ Linked(s) => Linked(t)
         /\ \A k \in 0 .. Len(t) : Below(t, Len(t) + 1, k) =>
              k \in 0 .. Len(s) /\ Below(s, Len(s) + 1, k) /\ IdAt(t, k) = IdAt(s, k)
         /\ Some(s, "wto") <=> Some(t, "wto")
         /\ Len(t) <= Len(s) /\ Held(s) => Held(t)
<1> DEFINE m == Len(s)
           n == Len(t)
<1>1. m \in Nat /\ n \in Nat /\ m + 1 - 1 = m /\ n + 1 - 1 = n
  BY LenProperties
<1>2. ASSUME NEW i \in 1 .. n, t[i].kind = "wto" PROVE i \in 1 .. m /\ s[i].kind = "wto"
  BY <1>1, <1>2 DEF Same
<1>3. ASSUME NEW i \in 1 .. m, s[i].kind = "wto" PROVE i \in 1 .. n /\ t[i].kind = "wto"
  BY <1>1, <1>3 DEF Same
<1>4. ASSUME Linked(s) PROVE Linked(t)
  <2>1. SUFFICES ASSUME NEW i \in 1 .. n, t[i].kind = "wto"
                 PROVE  t[i].id # 0 /\ \A k \in 0 .. i - 1 : Below(t, i, k) => t[i].old = IdAt(t, k)
    BY DEF Linked
  <2>2. i \in 1 .. m /\ s[i].kind = "wto" /\ t[i].id = s[i].id /\ t[i].old = s[i].old
    BY <1>1, <1>2, <2>1 DEF Same
  <2>3. \A j \in 1 .. i : j \in 1 .. n /\ j \in 1 .. m
    BY <1>1, <2>2
  <2>4. \A j \in 1 .. i : t[j].kind = s[j].kind /\ t[j].id = s[j].id
    BY <1>1, <2>3 DEF Same
  <2>5. ASSUME NEW k \in 0 .. i - 1, Below(t, i, k) PROVE t[i].old = IdAt(t, k)
    <3>1. (k # 0 => k \in 1 .. i) /\ \A j \in k + 1 .. i - 1 : j \in 1 .. i
      OBVIOUS
    <3>2. Below(s, i, k) /\ IdAt(t, k) = IdAt(s, k)
      BY <2>4, <2>5, <3>1 DEF Below, IdAt
    <3>. QED BY <1>4, <2>2, <3>2 DEF Linked
  <2>. QED BY <1>4, <2>2, <2>5 DEF Linked
<1>5. ASSUME NEW k \in 0 .. n, Below(t, n + 1, k)
      PROVE  k \in 0 .. m /\ Below(s, m + 1, k) /\ IdAt(t, k) = IdAt(s, k)
  <2>1. k # 0 => k \in 1 .. n /\ t[k].kind = "wto"
    BY <1>1, <1>5 DEF Below
  <2>2. k # 0 => k \in 1 .. m /\ s[k].kind = "wto" /\ t[k].id = s[k].id
    BY <1>1, <1>2, <2>1 DEF Same
  <2>3. k \in 0 .. m
    BY <1>1, <2>2
  <2>4. ASSUME NEW j \in k + 1 .. m, s[j].kind = "wto" PROVE FALSE
    <3>1. j \in 1 .. m
      BY <1>1, <2>3
    <3>2. j \in 1 .. n /\ t[j].kind = "wto"
      BY <1>3, <2>4, <3>1
    <3>3. j \in k + 1 .. n
      BY <1>1, <2>3, <3>2
    <3>. QED BY <1>1, <1>5, <3>2, <3>3 DEF Below
  <2>. QED BY <1>1, <2>2, <2>3, <2>4 DEF Below, IdAt
<1>6. Some(s, "wto") <=> Some(t, "wto")
  BY <1>2, <1>3 DEF Some
<1>7. ASSUME n <= m, Held(s) PROVE Held(t)
  <2>1. SUFFICES ASSUME NEW i \in 1 .. n, t[i].kind = "cb"
                 PROVE  /\ i > 1 /\ t[i - 1].kind \in {"plain", "wto"}
                        /\ \E j \in 1 .. i - 1 : t[j].kind = "wto"
    BY DEF Held
  <2>2. \A j \in 1 .. i : j \in 1 .. m /\ t[j].kind = s[j].kind
    BY <1>1, <1>7 DEF Same
  <2>3. i \in 1 .. m /\ s[i].kind = "cb"
    BY <2>1, <2>2
  <2>4. i > 1 /\ s[i - 1].kind \in {"plain", "wto"} /\ \E j \in 1 .. i - 1 : s[j].kind = "wto"
    BY <1>7, <2>3 DEF Held
  <2>5. i - 1 \in 1 .. i /\ \A j \in 1 .. i - 1 : j \in 1 .. i
    BY <2>4
  <2>. QED BY <2>2, <2>4, <2>5
<1>. QED BY <1>4, <1>5, <1>6, <1>7

-----------------------------------------------------------------------------
(* What the operators on stacks do.                                        *)
Calm(s) == \A i \in 1 .. Len(s) : s[i].phase = "run"

LEMMA CutFacts ==
  ASSUME NEW s \in Seq(Frame), NEW n \in 0 .. Len(s)
  PROVE  /\ SubSeq(s, 1, n) \in Seq(Frame) /\ Len(SubSeq(s, 1, n)) = n
         /\ \A i \in 1 .. n : SubSeq(s, 1, n)[i] = s[i]
<1>1. Len(s) \in Nat
  BY LenProperties
<1>2. \A i \in 1 .. n : i \in 1 .. Len(s)
  BY <1>1
<1>3. \A i \in 1 .. n : s[i] \in Frame
  BY <1>2, ElementOfSeq
<1>4. n - 1 + 1 = n /\ \A i \in 1 .. n : 1 + i - 1 = i
  BY <1>1
<1>. QED BY <1>1, <1>3, <1>4, SubSeqProperties

LEMMA FrontFacts ==
  ASSUME NEW s \in Seq(Frame), s # <<>>
  PROVE  /\ Len(s) \in Nat /\ Len(s) > 0
         /\ Front(s) \in Seq(Frame) /\ Len(Front(s)) = Len(s) - 1
         /\ \A i \in 1 .. Len(s) - 1 : Front(s)[i] = s[i]
<1>1. Len(s) \in Nat /\ Len(s) > 0
  BY EmptySeq
<1>2. Len(s) - 1 \in 0 .. Len(s)
  BY <1>1
<1>. QED BY <1>1, <1>2, CutFacts DEF Front

WithPhase(s, i, p) == [s EXCEPT ![i].phase = p]

LEMMA PhaseFacts ==
  ASSUME NEW s \in Seq(Frame), NEW i \in 1 .. Len(s), NEW p \in {"run", "ended", "quiet"}
  PROVE  LET t == WithPhase(s, i, p)
         IN  /\ t \in Seq(Frame) /\ Len(t) = Len(s)
             /\ \A j \in 1 .. Len(s) :
                  /\ t[j].kind = s[j].kind /\ t[j].id = s[j].id /\ t[j].old = s[j].old
                  /\ t[j].verdict = s[j].verdict
                  /\ t[j].phase = IF j = i THEN p ELSE s[j].phase
<1> DEFINE e == [s[i] EXCEPT !.phase = p]
<1>1. s[i] \in Frame
  BY ElementOfSeq
<1>2. e \in Frame /\ e.kind = s[i].kind /\ e.id = s[i].id /\ e.old = s[i].old
      /\ e.verdict = s[i].verdict /\ e.phase = p
  BY <1>1 DEF Frame
<1> HIDE DEF e
<1>3. /\ [s EXCEPT ![i] = e] \in Seq(Frame) /\ Len([s EXCEPT ![i] = e]) = Len(s)
      /\ \A j \in 1 .. Len(s) : [s EXCEPT ![i] = e][j] = IF j = i THEN e ELSE s[j]
  BY <1>2, ExceptSeq
<1>4. WithPhase(s, i, p) = [s EXCEPT ![i] = e]
  BY DEF e, WithPhase
<1>. QED BY <1>2, <1>3, <1>4

WithVerdict(s, i, v) == [s EXCEPT ![i].verdict = v]

LEMMA VerdictFacts ==
  ASSUME NEW s \in Seq(Frame), NEW i \in 1 .. Len(s), NEW v \in {"watched", "cancelled", "free"}
  PROVE  LET t == WithVerdict(s, i, v)
         IN  /\ t \in Seq(Frame) /\ Len(t) = Len(s)
             /\ \A j \in 1 .. Len(s) :
                  /\ t[j].kind = s[j].kind /\ t[j].id = s[j].id /\ t[j].old = s[j].old
                  /\ t[j].phase = s[j].phase
                  /\ t[j].verdict = IF j = i THEN v ELSE s[j].verdict
<1> DEFINE e == [s[i] EXCEPT !.verdict = v]
<1>1. s[i] \in Frame
  BY ElementOfSeq
<1>2. e \in Frame /\ e.kind = s[i].kind /\ e.id = s[i].id /\ e.old = s[i].old
      /\ e.phase = s[i].phase /\ e.verdict = v
  BY <1>1 DEF Frame
<1> HIDE DEF e
<1>3. /\ [s EXCEPT ![i] = e] \in Seq(Frame) /\ Len([s EXCEPT ![i] = e]) = Len(s)
      /\ \A j \in 1 .. Len(s) : [s EXCEPT ![i] = e][j] = IF j = i THEN e ELSE s[j]
  BY <1>2, ExceptSeq
<1>4. WithVerdict(s, i, v) = [s EXCEPT ![i] = e]
  BY DEF e, WithVerdict
<1>. QED BY <1>2, <1>3, <1>4

LEMMA JudgedFacts ==
  ASSUME NEW s \in Seq(Frame), Some(s, "wto"), NEW v \in {"watched", "cancelled", "free"}
  PROVE  LET t == Judged(s, v)
         IN  /\ t \in Seq(Frame) /\ Len(t) = Len(s) /\ Same(s, t) /\ Wto(t) = Wto(s)
             /\ \A j \in 1 .. Len(s) :
                  /\ t[j].kind = s[j].kind /\ t[j].id = s[j].id /\ t[j].old = s[j].old
                  /\ t[j].phase = s[j].phase
                  /\ t[j].verdict = IF j = Wto(s) THEN v ELSE s[j].verdict
<1> DEFINE t == Judged(s, v)
<1>1. Wto(s) \in 1 .. Len(s) /\ Len(s) \in Nat
  BY WtoFacts, LenProperties
<1>2. /\ t \in Seq(Frame) /\ Len(t) = Len(s)
      /\ \A j \in 1 .. Len(s) :
           /\ t[j].kind = s[j].kind /\ t[j].id = s[j].id /\ t[j].old = s[j].old
           /\ t[j].phase = s[j].phase
           /\ t[j].verdict = IF j = Wto(s) THEN v ELSE s[j].verdict
  <2>1. t = WithVerdict(s, Wto(s), v)
    BY DEF Judged, WithVerdict
  <2> HIDE DEF t
  <2>2. PICK w : w = Wto(s)
    OBVIOUS
  <2>3. w \in 1 .. Len(s) /\ t = WithVerdict(s, w, v)
    BY <1>1, <2>1, <2>2
  <2>4. /\ t \in Seq(Frame) /\ Len(t) = Len(s)
        /\ \A j \in 1 .. Len(s) :
             /\ t[j].kind = s[j].kind /\ t[j].id = s[j].id /\ t[j].old = s[j].old
             /\ t[j].phase = s[j].phase
             /\ t[j].verdict = IF j = w THEN v ELSE s[j].verdict
    BY <2>3, VerdictFacts
  <2>. QED BY <2>2, <2>4
<1> HIDE DEF t
<1>3. Same(s, t)
  BY <1>1, <1>2 DEF Same
<1>4. Wto(t) \in 0 .. Len(t) /\ Below(t, Len(t) + 1, Wto(t)) /\ Below(s, Len(s) + 1, Wto(s))
  BY <1>2, WtoFacts
<1>5. Below(s, Len(s) + 1, Wto(t))
  BY <1>2, <1>3, <1>4, SameFacts
<1>6. Wto(t) = Wto(s)
  BY <1>1, <1>4, <1>5, BelowUnique
<1>. QED BY <1>2, <1>3, <1>6 DEF t

\* A stack is cut at or above its innermost wto frame.
LEMMA CutSame ==
  ASSUME NEW s \in Seq(Frame), NEW n \in Wto(s) .. Len(s)
  PROVE  n \in 0 .. Len(s) /\ Same(s, SubSeq(s, 1, n))
<1>1. Wto(s) \in 0 .. Len(s) /\ Len(s) \in Nat /\ Below(s, Len(s) + 1, Wto(s))
  BY WtoFacts, LenProperties
<1>2. n \in 0 .. Len(s)
  BY <1>1
<1>3. /\ Len(SubSeq(s, 1, n)) = n
      /\ \A i \in 1 .. n : SubSeq(s, 1, n)[i] = s[i]
  BY <1>2, CutFacts
<1>4. ASSUME NEW i \in 1 .. Len(s), i > n PROVE s[i].kind # "wto"
  <2>1. i \in Wto(s) + 1 .. Len(s) + 1 - 1
    BY <1>1, <1>4
  <2>. QED BY <1>1, <2>1 DEF Below
<1>. QED BY <1>1, <1>2, <1>3, <1>4 DEF Same

\* What an exception does to a stack.
LEMMA ThrownFacts ==
  ASSUME NEW s \in Seq(Frame), Calm(s), Some(s, "wto"), NEW t \in Thrown(s)
  PROVE  /\ t \in Seq(Frame) /\ Len(t) <= Len(s) /\ Same(s, t) /\ Phased(t)
         /\ \A j \in 1 .. Len(t) : t[j].verdict = s[j].verdict /\ t[j].phase # "quiet"
<1> DEFINE w == Wto(s)
<1>1. w \in 1 .. Len(s) /\ Len(s) \in Nat /\ s[w].kind = "wto"
  BY WtoFacts, LenProperties DEF Below
<1>2. CASE t = Unwound(s)
  <2> DEFINE u == SubSeq(s, 1, w)
  <2>1. w \in Wto(s) .. Len(s) /\ w \in 0 .. Len(s)
    BY <1>1
  <2>2. /\ u \in Seq(Frame) /\ Len(u) = w /\ \A i \in 1 .. w : u[i] = s[i]
    BY <2>1, CutFacts
  <2>3. Same(s, u)
    BY <2>1, CutSame
  <2>4. t = WithPhase(u, w, "ended") /\ w \in 1 .. Len(u)
    BY <1>1, <1>2, <2>2 DEF Unwound, WithPhase
  <2> HIDE DEF u, w
  <2>5. /\ t \in Seq(Frame) /\ Len(t) = w
        /\ \A j \in 1 .. w :
             /\ t[j].kind = u[j].kind /\ t[j].id = u[j].id /\ t[j].old = u[j].old
             /\ t[j].verdict = u[j].verdict
             /\ t[j].phase = IF j = w THEN "ended" ELSE u[j].phase
    BY <2>2, <2>4, PhaseFacts
  <2>6. \A j \in 1 .. w : j \in 1 .. Len(s)
    BY <1>1
  <2>7. Same(s, t)
    BY <1>1, <2>2, <2>3, <2>5 DEF Same
  <2>8. Phased(t)
    <3>1. \A j \in 1 .. w : u[j].phase = "run"
      BY <2>2, <2>6 DEF Calm
    <3>2. t[w].kind = "wto"
      BY <1>1, <2>2, <2>4, <2>5
    <3>3. \A j \in 1 .. w : t[j].phase # "run" => j = w
      BY <2>5, <3>1
    <3>. QED BY <2>5, <3>2, <3>3 DEF Phased
  <2>9. \A j \in 1 .. Len(t) : t[j].verdict = s[j].verdict /\ t[j].phase # "quiet"
    BY <2>2, <2>5, <2>6 DEF Calm
  <2>10. t[w].phase = "ended" /\ Len(t) <= Len(s)
    BY <1>1, <2>5
  <2>. QED BY <2>5, <2>7, <2>8, <2>9, <2>10 DEF w
<1>3. CASE program.catching /\ t \in Caught(s)
  <2>1. PICK n \in w .. Len(s) : t = SubSeq(s, 1, n)
    BY <1>3 DEF Caught
  <2>2. n \in 0 .. Len(s) /\ Same(s, t)
    BY <2>1, CutSame
  <2>3. t \in Seq(Frame) /\ Len(t) = n /\ \A i \in 1 .. n : t[i] = s[i]
    BY <2>1, <2>2, CutFacts
  <2>4. \A i \in 1 .. n : i \in 1 .. Len(s)
    BY <1>1, <2>2
  <2>5. \A i \in 1 .. n : t[i].phase = "run" /\ t[i].verdict = s[i].verdict
    BY <2>3, <2>4 DEF Calm
  <2>. QED BY <1>1, <1>3, <2>2, <2>3, <2>5 DEF Phased
<1>4. t = Unwound(s) \/ (program.catching /\ t \in Caught(s))
  BY DEF Thrown
<1>. QED BY <1>2, <1>3, <1>4

\* What a callback does that returns 0.
LEMMA StoppedFacts ==
  ASSUME NEW s \in Seq(Frame), Calm(s), s # <<>>, s[Len(s)].kind \in {"plain", "wto"}
  PROVE  LET t == Stopped(s)
         IN  /\ t \in Seq(Frame) /\ Len(t) <= Len(s) /\ Same(s, t) /\ Phased(t)
             /\ \A j \in 1 .. Len(t) : t[j].verdict = s[j].verdict /\ t[j].phase # "quiet"
<1> DEFINE t == Stopped(s)
           n == Len(s)
<1>1. n \in Nat /\ n > 0
  BY FrontFacts
<1>2. CASE s[n].kind = "plain"
  <2>1. t = Front(s)
    BY <1>2 DEF Stopped, Last
  <2> HIDE DEF t
  <2>2. t \in Seq(Frame) /\ Len(t) = n - 1 /\ \A i \in 1 .. n - 1 : t[i] = s[i]
    BY <2>1, FrontFacts
  <2>3. \A i \in 1 .. n - 1 : i \in 1 .. n
    BY <1>1
  <2>4. \A i \in 1 .. n : i > n - 1 => i = n
    BY <1>1
  <2>5. Same(s, t)
    BY <1>1, <1>2, <2>2, <2>3, <2>4 DEF Same
  <2>6. Phased(t) /\ \A j \in 1 .. Len(t) : t[j].verdict = s[j].verdict /\ t[j].phase # "quiet"
    BY <2>2, <2>3 DEF Phased, Calm
  <2>. QED BY <1>1, <2>2, <2>5, <2>6 DEF t
<1>3. CASE s[n].kind = "wto"
  <2>1. t = WithPhase(s, n, "ended")
    BY <1>3 DEF Stopped, Last, WithPhase
  <2> HIDE DEF t
  <2>2. n \in 1 .. n
    BY <1>1
  <2>3. /\ t \in Seq(Frame) /\ Len(t) = n
        /\ \A j \in 1 .. n :
             /\ t[j].kind = s[j].kind /\ t[j].id = s[j].id /\ t[j].old = s[j].old
             /\ t[j].verdict = s[j].verdict
             /\ t[j].phase = IF j = n THEN "ended" ELSE s[j].phase
    BY <2>1, <2>2, PhaseFacts
  <2>4. Same(s, t)
    BY <1>1, <2>3 DEF Same
  <2>5. Phased(t) /\ \A j \in 1 .. Len(t) : t[j].verdict = s[j].verdict /\ t[j].phase # "quiet"
    BY <1>3, <2>3 DEF Phased, Calm
  <2>. QED BY <1>1, <2>3, <2>4, <2>5 DEF t
<1>. QED BY <1>2, <1>3

\* A frame that is no wto frame goes on the top.
LEMMA PushFacts ==
  ASSUME NEW s \in Seq(Frame), Len(s) < MaxDepth, Calm(s), Held(s), NEW k \in {"plain", "perl", "cb"},
         k = "cb" => Some(s, "wto") /\ s # <<>> /\ s[Len(s)].kind \in {"plain", "wto"}
  PROVE  LET t == Append(s, Plain(k))
         IN  /\ t \in Seq(Frame) /\ Len(t) = Len(s) + 1 /\ Len(t) <= MaxDepth
             /\ \A i \in 1 .. Len(s) : t[i] = s[i]
             /\ t[Len(s) + 1] = Plain(k)
             /\ Same(s, t) /\ Held(t) /\ Phased(t) /\ Calm(t)
<1> DEFINE t == Append(s, Plain(k))
           n == Len(s)
<1>1. n \in Nat /\ MaxDepth \in Nat
  BY LenProperties, BoundsAssumption
<1>2. Plain(k) \in Frame /\ Plain(k).kind = k /\ Plain(k).phase = "run"
  BY BoundsAssumption DEF Plain, Frame, Runs
<1>3. /\ t \in Seq(Frame) /\ Len(t) = n + 1
      /\ \A i \in 1 .. n : t[i] = s[i]
      /\ t[n + 1] = Plain(k)
  BY <1>2, AppendProperties
<1> HIDE DEF t
<1>4. \A i \in 1 .. n + 1 : i \in 1 .. n \/ i = n + 1
  BY <1>1
<1>5. Same(s, t)
  BY <1>1, <1>2, <1>3, <1>4 DEF Same
<1>6. Calm(t) /\ Phased(t)
  BY <1>2, <1>3, <1>4 DEF Calm, Phased
<1>7. Held(t)
  <2>1. SUFFICES ASSUME NEW i \in 1 .. n + 1, t[i].kind = "cb"
                 PROVE  /\ i > 1 /\ t[i - 1].kind \in {"plain", "wto"}
                        /\ \E j \in 1 .. i - 1 : t[j].kind = "wto"
    BY <1>3 DEF Held
  <2>2. CASE i \in 1 .. n
    <3>1. i > 1 /\ s[i - 1].kind \in {"plain", "wto"} /\ \E j \in 1 .. i - 1 : s[j].kind = "wto"
      BY <1>3, <2>1, <2>2 DEF Held
    <3>2. i - 1 \in 1 .. n /\ \A j \in 1 .. i - 1 : j \in 1 .. n
      BY <1>1, <2>2, <3>1
    <3>. QED BY <1>3, <3>1, <3>2
  <2>3. CASE i = n + 1
    <3>1. Some(s, "wto") /\ s # <<>> /\ s[n].kind \in {"plain", "wto"}
      BY <1>2, <1>3, <2>1, <2>3
    <3>2. n > 0 /\ i - 1 = n /\ n \in 1 .. n /\ i > 1
      BY <1>1, <2>3, <3>1, FrontFacts
    <3>3. PICK j \in 1 .. n : s[j].kind = "wto"
      BY <3>1 DEF Some
    <3>4. j \in 1 .. i - 1 /\ t[j].kind = "wto" /\ t[i - 1].kind \in {"plain", "wto"}
      BY <1>3, <3>1, <3>2, <3>3
    <3>. QED BY <3>2, <3>4
  <2>. QED BY <1>4, <2>2, <2>3
<1>8. Len(t) <= MaxDepth
  BY <1>1, <1>3
<1>. QED BY <1>3, <1>5, <1>6, <1>7, <1>8 DEF t

-----------------------------------------------------------------------------
(* What the guards say of the stack.                                       *)
LEMMA TopFacts ==
  ASSUME Shape(stack)
  PROVE  /\ Len(stack) \in Nat
         /\ stack # <<>> => Top = stack[Len(stack)] /\ Len(stack) \in 1 .. Len(stack)
         /\ Script => Calm(stack) /\ stack # <<>> /\ Top.kind \in {"wto", "plain"}
         /\ Perl => Calm(stack)
         /\ Top.phase # "run" => stack # <<>> /\ Top.kind = "wto"
<1>1. stack \in Seq(Frame) /\ Phased(stack) /\ Len(stack) \in Nat
  BY LenProperties DEF Shape
<1>2. stack # <<>> => Top = stack[Len(stack)] /\ Len(stack) \in 1 .. Len(stack)
  BY <1>1, FrontFacts DEF Top, Last
<1>3. stack = <<>> => Calm(stack) /\ Top.kind = "perl" /\ Top.phase = "run"
  <2>1. SUFFICES ASSUME stack = <<>> PROVE Calm(stack) /\ Top.kind = "perl" /\ Top.phase = "run"
    OBVIOUS
  <2>2. Len(stack) = 0 /\ \A i \in 1 .. 0 : FALSE
    BY <1>1, <2>1, EmptySeq
  <2>. QED BY <2>1, <2>2 DEF Calm, Top, Plain
<1>4. stack # <<>> /\ (Top.phase = "run" \/ Top.kind # "wto") => Calm(stack)
  BY <1>1, <1>2 DEF Phased, Calm
<1>5. Script => Calm(stack) /\ stack # <<>> /\ Top.kind \in {"wto", "plain"}
  BY <1>3, <1>4 DEF Script
<1>6. Perl => Calm(stack)
  BY <1>3, <1>4 DEF Perl
<1>7. Top.phase # "run" => stack # <<>> /\ Top.kind = "wto"
  BY <1>1, <1>2, <1>3 DEF Phased
<1>. QED BY <1>1, <1>2, <1>5, <1>6, <1>7

\* The action for the signal is that of the innermost eval_wto.
LEMMA ActionFacts ==
  ASSUME IInv
  PROVE  os.action = IdAt(stack, Wto(stack))
<1>1. stack \in Seq(Frame)
  BY DEF IInv, Shape
<1>. QED BY <1>1, WtoFacts DEF IInv, Signals

\* A step that keeps the eval_wto calls as they are.
LEMMA Kept ==
  ASSUME IInv, stack' \in Seq(Frame), Same(stack, stack'), Len(stack') <= MaxDepth,
         Held(stack'), Phased(stack'),
         os'.action = os.action, os'.killed = FALSE,
         os'.alarm # 0 => Some(stack, "wto"),
         cx'.opcb \/ cx'.handler => Some(stack, "wto"),
         \A i \in 1 .. Len(stack') : stack'[i].phase = "quiet" => os'.alarm = 0
  PROVE  Shape(stack)' /\ Signals'
<1>1. stack \in Seq(Frame) /\ Linked(stack)
  BY DEF IInv, Shape
<1>2. /\ Linked(stack')
      /\ \A k \in 0 .. Len(stack') : Below(stack', Len(stack') + 1, k) =>
           k \in 0 .. Len(stack) /\ Below(stack, Len(stack) + 1, k) /\ IdAt(stack', k) = IdAt(stack, k)
      /\ Some(stack, "wto") <=> Some(stack', "wto")
  BY <1>1, SameFacts
<1>3. Shape(stack)'
  BY <1>2 DEF Shape
<1>4. \A k \in 0 .. Len(stack') : Below(stack', Len(stack') + 1, k) => os'.action = IdAt(stack', k)
  BY <1>2 DEF IInv, Signals
<1>5. Signals'
  BY <1>2, <1>4 DEF Signals
<1>. QED BY <1>3, <1>5

\* Without nesting, the one eval_wto stays the one at the bottom.
LEMMA LoneWto ==
  ASSUME IInv, ~Nests, stack' \in Seq(Frame), Same(stack, stack'),
         NEW i \in 1 .. Len(stack'), stack'[i].kind = "wto"
  PROVE  i = 1 /\ cx.handler /\ i \in 1 .. Len(stack) /\ stack[i].kind = "wto" /\ stack'[i].id = stack[i].id
<1>1. stack \in Seq(Frame)
  BY DEF IInv, Shape
<1>2. Len(stack) \in Nat /\ Len(stack') \in Nat
  BY <1>1, LenProperties
<1>3. i \in 1 .. Len(stack) /\ stack[i].kind = "wto" /\ stack'[i].id = stack[i].id
  BY <1>2 DEF Same
<1>. QED BY <1>3 DEF IInv, Lone

LEMMA Trimmed ==
  ASSUME IInv, program' = program, stack' \in Seq(Frame), Same(stack, stack'), Len(stack') <= Len(stack),
         cx'.handler = cx.handler,
         ~Nests /\ Some(stack', "cb") /\ cx'.opcb => cx.opcb,
         \A i \in 1 .. Len(stack') :
           ~Nests /\ stack'[i].kind = "wto" /\ ~Some(stack', "cb") =>
             /\ cx'.opcb
             /\ stack'[i].phase = "run" /\ stack'[i].verdict = "watched" =>
                  os'.alarm = stack'[i].id \/ cx'.flag # 0
  PROVE  Lone'
<1>1. SUFFICES ASSUME ~Nests
               PROVE  /\ \A i \in 1 .. Len(stack') : stack'[i].kind = "wto" => i = 1 /\ cx'.handler
                      /\ \A i \in 1 .. Len(stack') : stack'[i].kind = "cb" => ~cx'.opcb
                      /\ \A i, j \in 1 .. Len(stack') :
                           stack'[i].kind = "cb" /\ stack'[j].kind = "cb" => i = j
  BY DEF Lone, Nests
<1>2. Len(stack) \in Nat /\ Len(stack') \in Nat
  BY LenProperties DEF IInv, Shape
<1>3. \A i \in 1 .. Len(stack') : i \in 1 .. Len(stack) /\ stack'[i].kind = stack[i].kind
  BY <1>2 DEF Same
<1>4. \A i \in 1 .. Len(stack') : stack'[i].kind = "cb" => ~cx.opcb /\ Some(stack', "cb")
  BY <1>1, <1>3 DEF IInv, Lone, Some
<1>5. \A i, j \in 1 .. Len(stack') : stack'[i].kind = "cb" /\ stack'[j].kind = "cb" => i = j
  BY <1>1, <1>3 DEF IInv, Lone
<1>6. \A i \in 1 .. Len(stack') : stack'[i].kind = "wto" => i = 1 /\ cx'.handler
  BY <1>1, LoneWto
<1>. QED BY <1>1, <1>4, <1>5, <1>6

-----------------------------------------------------------------------------
(* The verdict v on the innermost eval_wto of s leaves t.                  *)
Judgement(s, t, v) ==
  /\ t \in Seq(Frame) /\ Len(t) <= Len(s) /\ Same(s, t) /\ Phased(t)
  /\ \A j \in 1 .. Len(t) :
       /\ t[j].phase # "quiet"
       /\ t[j].verdict = IF j = Wto(s) THEN v ELSE s[j].verdict

LEMMA JudgedOnly ==
  ASSUME NEW s \in Seq(Frame), Calm(s), Some(s, "wto"), NEW v \in {"watched", "free"}
  PROVE  Judgement(s, Judged(s, v), v)
<1> DEFINE t == Judged(s, v)
<1>1. /\ t \in Seq(Frame) /\ Len(t) = Len(s) /\ Same(s, t)
      /\ \A j \in 1 .. Len(s) :
           /\ t[j].phase = s[j].phase
           /\ t[j].verdict = IF j = Wto(s) THEN v ELSE s[j].verdict
  BY JudgedFacts
<1> HIDE DEF t
<1>2. Phased(t) /\ \A j \in 1 .. Len(t) : t[j].phase # "quiet"
  BY <1>1 DEF Phased, Calm
<1>3. Len(t) <= Len(s)
  BY <1>1, LenProperties
<1>. QED BY <1>1, <1>2, <1>3 DEF Judgement, t

LEMMA JudgedThen ==
  ASSUME NEW s \in Seq(Frame), Calm(s), Some(s, "wto"), NEW v \in {"watched", "cancelled", "free"},
         NEW t,
         \/ t \in Thrown(Judged(s, v))
         \/ t = Stopped(Judged(s, v)) /\ s # <<>> /\ s[Len(s)].kind \in {"plain", "wto"}
  PROVE  Judgement(s, t, v)
<1> DEFINE u == Judged(s, v)
<1>1. /\ u \in Seq(Frame) /\ Len(u) = Len(s) /\ Same(s, u) /\ Wto(u) = Wto(s)
      /\ \A j \in 1 .. Len(s) :
           /\ u[j].kind = s[j].kind /\ u[j].id = s[j].id /\ u[j].old = s[j].old
           /\ u[j].phase = s[j].phase
           /\ u[j].verdict = IF j = Wto(s) THEN v ELSE s[j].verdict
  BY JudgedFacts
<1>2. t \in Thrown(u) \/ (t = Stopped(u) /\ s # <<>> /\ s[Len(s)].kind \in {"plain", "wto"})
  OBVIOUS
<1> HIDE DEF u
<1>3. Calm(u) /\ Some(u, "wto") /\ Len(s) \in Nat
  BY <1>1, LenProperties DEF Calm, Some
<1>4. /\ t \in Seq(Frame) /\ Len(t) <= Len(u) /\ Same(u, t) /\ Phased(t)
      /\ \A j \in 1 .. Len(t) : t[j].verdict = u[j].verdict /\ t[j].phase # "quiet"
  <2>1. CASE t \in Thrown(u)
    BY <1>1, <1>3, <2>1, ThrownFacts
  <2>2. CASE t = Stopped(u) /\ s # <<>> /\ s[Len(s)].kind \in {"plain", "wto"}
    <3>1. Len(s) > 0
      BY <2>2, FrontFacts
    <3>2. Len(s) \in 1 .. Len(s)
      BY <1>3, <3>1
    <3>3. u # <<>> /\ u[Len(u)].kind \in {"plain", "wto"}
      BY <1>1, <2>2, <3>1, <3>2, EmptySeq
    <3>. QED BY <1>1, <1>3, <2>2, <3>3, StoppedFacts
  <2>. QED BY <1>2, <2>1, <2>2
<1>5. Len(t) \in Nat /\ \A j \in 1 .. Len(t) : j \in 1 .. Len(s)
  BY <1>1, <1>3, <1>4, LenProperties
<1>6. Same(s, t)
  BY <1>1, <1>3, <1>4, <1>5 DEF Same
<1>. QED BY <1>1, <1>4, <1>5, <1>6 DEF Judgement

-----------------------------------------------------------------------------
(* Steps that leave the stack alone.                                       *)
LEMMA StackKept ==
  ASSUME Shape(stack), stack' = stack
  PROVE  Shape(stack)' /\ stack' \in Seq(Frame) /\ Same(stack, stack') /\ Len(stack') <= Len(stack)
         /\ Held(stack') /\ Phased(stack') /\ Len(stack') <= MaxDepth
<1>1. Len(stack) \in Nat
  BY LenProperties DEF Shape
<1>2. Same(stack, stack)
  BY <1>1 DEF Same
<1>. QED BY <1>1, <1>2 DEF Shape

LEMMA TimeoutOK ==
  ASSUME IInv, to' \in {"none", "dies", "calls"}, UNCHANGED <<program, stack, os, cx, runs>>
  PROVE  IInv'
<1>1. Typed'
  BY DEF IInv, Typed
<1>2. Shape(stack)' /\ Signals'
  BY StackKept DEF IInv, Signals
<1>3. Lone'
  BY DEF IInv, Lone, Nests
<1>. QED BY <1>1, <1>2, <1>3 DEF IInv

LEMMA AlarmOK ==
  ASSUME IInv, Alarm
  PROVE  IInv'
<1>1. stack \in Seq(Frame) /\ Some(stack, "wto") /\ Shape(stack) /\ Linked(stack)
  BY DEF IInv, Alarm, Signals, Shape
<1>2. Wto(stack) \in 1 .. Len(stack) /\ Len(stack) \in Nat /\ stack[Wto(stack)].kind = "wto"
  BY <1>1, WtoFacts, LenProperties DEF Below
<1>3. os.action # 0
  BY <1>1, <1>2, ActionFacts DEF IdAt, Linked
<1>4. os' = [os EXCEPT !.alarm = 0, !.killed = FALSE] /\ cx' = [cx EXCEPT !.flag = os.alarm]
      /\ UNCHANGED <<program, stack, to, runs>> /\ os.alarm # 0
  BY <1>3 DEF Alarm
<1>5. Typed' /\ os'.alarm = 0 /\ os'.action = os.action /\ os'.killed = FALSE
      /\ cx'.opcb = cx.opcb /\ cx'.handler = cx.handler /\ cx'.flag # 0
  <2>1. 0 \in Runs
    BY BoundsAssumption DEF Runs
  <2>2. /\ os \in [alarm: Runs, action: Runs, killed: BOOLEAN]
        /\ cx \in [opcb: BOOLEAN, handler: BOOLEAN, flag: Runs]
    BY DEF IInv, Typed
  <2>3. os' \in [alarm: Runs, action: Runs, killed: BOOLEAN]
    BY <1>4, <2>1, <2>2
  <2>4. cx' \in [opcb: BOOLEAN, handler: BOOLEAN, flag: Runs]
    BY <1>4, <2>2
  <2>5. os'.alarm = 0 /\ os'.action = os.action /\ os'.killed = FALSE
    BY <1>4, <2>2
  <2>6. cx'.opcb = cx.opcb /\ cx'.handler = cx.handler
    BY <1>4, <2>2
  <2>7. cx'.flag # 0
    BY <1>4, <2>2
  <2>8. Typed'
    BY <1>4, <2>3, <2>4 DEF IInv, Typed
  <2>. QED BY <2>5, <2>6, <2>7, <2>8
<1>6. Shape(stack)' /\ Signals'
  BY <1>1, <1>4, <1>5, StackKept, Kept DEF IInv, Signals
<1>7. Lone'
  BY <1>4, <1>5 DEF IInv, Lone, Nests
<1>. QED BY <1>5, <1>6, <1>7 DEF IInv

LEMMA IgnoredOK ==
  ASSUME IInv, Ignored
  PROVE  IInv'
<1>1. ~(cx.opcb /\ cx.handler) /\ cx' = [cx EXCEPT !.flag = 0] /\ UNCHANGED <<program, stack, to, os, runs>>
  BY DEF Ignored
<1>2. Typed' /\ cx'.opcb = cx.opcb /\ cx'.handler = cx.handler
  BY <1>1, BoundsAssumption DEF IInv, Typed, Runs
<1>3. Shape(stack)' /\ Signals'
  BY <1>1, <1>2, StackKept DEF IInv, Signals
<1>4. ~Nests => \A i \in 1 .. Len(stack) : stack[i].kind = "wto" => Some(stack, "cb")
  BY <1>1 DEF IInv, Lone
<1>5. Lone'
  BY <1>1, <1>2, <1>4 DEF IInv, Lone, Nests
<1>. QED BY <1>2, <1>3, <1>5 DEF IInv

-----------------------------------------------------------------------------
(* Steps that put a frame on the stack.                                    *)

\* What does not touch the process: Eval, CallPerl, Calls.
LEMMA PushOK ==
  ASSUME IInv, Calm(stack), Room, NEW k \in {"plain", "perl", "cb"},
         k = "cb" => /\ Some(stack, "wto") /\ stack # <<>>
                     /\ stack[Len(stack)].kind \in {"plain", "wto"} /\ cx.opcb,
         stack' = Append(stack, Plain(k)), UNCHANGED <<program, to, os, runs>>,
         cx' = IF k = "cb" THEN [cx EXCEPT !.flag = 0, !.opcb = FALSE] ELSE cx
  PROVE  IInv'
<1> DEFINE n == Len(stack)
<1>1. stack \in Seq(Frame) /\ Held(stack) /\ n \in Nat /\ n < MaxDepth
  BY LenProperties DEF IInv, Shape, Room
<1>2. /\ stack' \in Seq(Frame) /\ Len(stack') = n + 1 /\ Len(stack') <= MaxDepth
      /\ \A i \in 1 .. n : stack'[i] = stack[i]
      /\ stack'[n + 1] = Plain(k)
      /\ Same(stack, stack') /\ Held(stack') /\ Phased(stack') /\ Calm(stack')
  BY <1>1, PushFacts
<1>3. \A i \in 1 .. n + 1 : i \in 1 .. n \/ i = n + 1
  BY <1>1
<1>4. /\ k # "cb" => cx' = cx
      /\ k = "cb" => cx'.opcb = FALSE
      /\ cx'.handler = cx.handler /\ (cx'.opcb => cx.opcb)
      /\ Typed'
  <2>1. 0 \in Runs /\ cx \in [opcb: BOOLEAN, handler: BOOLEAN, flag: Runs]
    BY BoundsAssumption DEF IInv, Typed, Runs
  <2>2. CASE k = "cb"
    <3>1. cx' = [cx EXCEPT !.flag = 0, !.opcb = FALSE]
      BY <2>2
    <3>2. cx' \in [opcb: BOOLEAN, handler: BOOLEAN, flag: Runs]
      BY <2>1, <3>1
    <3>3. cx'.opcb = FALSE
      BY <2>1, <3>1
    <3>4. cx'.handler = cx.handler
      BY <2>1, <3>1
    <3>. QED BY <2>2, <3>2, <3>3, <3>4 DEF IInv, Typed
  <2>3. CASE k # "cb"
    BY <2>3 DEF IInv, Typed
  <2>. QED BY <2>2, <2>3
<1>5. Shape(stack)' /\ Signals'
  <2>1. \A i \in 1 .. Len(stack') : stack'[i].phase # "quiet"
    BY <1>2 DEF Calm
  <2>2. /\ os'.action = os.action /\ os'.killed = FALSE /\ (os'.alarm # 0 => Some(stack, "wto"))
        /\ (cx'.opcb \/ cx'.handler => Some(stack, "wto"))
    BY <1>4 DEF IInv, Signals
  <2>. QED BY <1>2, <2>1, <2>2, Kept
<1>6. Lone'
  <2>1. SUFFICES ASSUME ~Nests
        PROVE  /\ \A i \in 1 .. n + 1 : stack'[i].kind = "wto" => i = 1 /\ cx'.handler
               /\ \A i \in 1 .. n + 1 : stack'[i].kind = "cb" => ~cx'.opcb
               /\ \A i, j \in 1 .. n + 1 : stack'[i].kind = "cb" /\ stack'[j].kind = "cb" => i = j
               /\ \A i \in 1 .. n + 1 : stack'[i].kind = "wto" /\ ~Some(stack', "cb") =>
                    /\ cx'.opcb
                    /\ stack'[i].phase = "run" /\ stack'[i].verdict = "watched" =>
                         os'.alarm = stack'[i].id \/ cx'.flag # 0
    BY <1>2 DEF Lone, Nests
  <2>2. Plain(k).kind = k
    BY DEF Plain
  <2>3. \A i \in 1 .. n + 1 : stack'[i].kind = "wto" => i = 1 /\ cx'.handler
    BY <1>2, <1>4, <2>1, LoneWto
  <2>4. \A i \in 1 .. n : stack[i].kind = "cb" => ~cx.opcb /\ k # "cb"
    BY <2>1 DEF IInv, Lone
  <2>5. \A i \in 1 .. n + 1 : stack'[i].kind = "cb" => ~cx'.opcb
    BY <1>2, <1>3, <1>4, <2>2, <2>4
  <2>6. \A i, j \in 1 .. n + 1 : stack'[i].kind = "cb" /\ stack'[j].kind = "cb" => i = j
    <3>1. \A i, j \in 1 .. n : stack[i].kind = "cb" /\ stack[j].kind = "cb" => i = j
      BY <2>1 DEF IInv, Lone
    <3>. QED BY <1>2, <1>3, <2>2, <2>4, <3>1
  <2>7. ASSUME NEW i \in 1 .. n + 1, stack'[i].kind = "wto", ~Some(stack', "cb")
        PROVE  /\ cx'.opcb
               /\ stack'[i].phase = "run" /\ stack'[i].verdict = "watched" =>
                    os'.alarm = stack'[i].id \/ cx'.flag # 0
    <3>1. k # "cb" /\ i \in 1 .. n
      BY <1>1, <1>2, <1>3, <2>2, <2>7 DEF Some
    <3>2. ~Some(stack, "cb")
      <4>1. \A j \in 1 .. n : j \in 1 .. n + 1
        BY <1>1
      <4>. QED BY <1>2, <2>7, <4>1 DEF Some
    <3>3. stack[i].kind = "wto" /\ stack'[i] = stack[i] /\ cx' = cx /\ os' = os
      BY <1>2, <1>4, <2>7, <3>1
    <3>. QED BY <2>1, <3>1, <3>2, <3>3 DEF IInv, Lone
  <2>. QED BY <2>1, <2>3, <2>5, <2>6, <2>7
<1>. QED BY <1>4, <1>5, <1>6 DEF IInv

LEMMA EvalOK ==
  ASSUME IInv, Eval
  PROVE  IInv'
<1>1. Perl /\ Room /\ stack' = Append(stack, Plain("plain")) /\ UNCHANGED <<program, to, os, cx, runs>>
  BY DEF Eval, MayRun
<1>2. Calm(stack)
  BY <1>1, TopFacts DEF IInv
<1>. QED BY <1>1, <1>2, PushOK

LEMMA CallPerlOK ==
  ASSUME IInv, CallPerl
  PROVE  IInv'
<1>1. Script /\ Room /\ stack' = Append(stack, Plain("perl")) /\ UNCHANGED <<program, to, os, cx, runs>>
  BY DEF CallPerl
<1>2. Calm(stack)
  BY <1>1, TopFacts DEF IInv
<1>. QED BY <1>1, <1>2, PushOK

LEMMA CallsOK ==
  ASSUME IInv, Calls
  PROVE  IInv'
<1>1. /\ Script /\ Room /\ cx.opcb /\ cx.handler
      /\ stack' = Append(stack, Plain("cb")) /\ UNCHANGED <<program, to, os, runs>>
      /\ cx' = [cx EXCEPT !.flag = 0, !.opcb = FALSE]
  BY DEF Calls, Interrupted
<1>2. Calm(stack) /\ stack # <<>> /\ stack[Len(stack)].kind \in {"plain", "wto"}
  BY <1>1, TopFacts DEF IInv
<1>3. Some(stack, "wto")
  BY <1>1 DEF IInv, Signals
<1>. QED BY <1>1, <1>2, <1>3, PushOK

\* eval_wto takes the action over, and remembers it.
LEMMA EvalWtoOK ==
  ASSUME IInv, EvalWto
  PROVE  IInv'
<1> DEFINE n == Len(stack)
           f == [kind |-> "wto", id |-> runs', old |-> os.action, phase |-> "run",
                 verdict |-> IF to = "empty" THEN "free" ELSE "watched"]
<1>1. /\ MayRun("wto") /\ to # "none" /\ runs < MaxRuns /\ runs' = runs + 1
      /\ stack' = Append(stack, f)
      /\ cx' = [cx EXCEPT !.opcb = TRUE, !.handler = TRUE]
      /\ os' = [os EXCEPT !.action = runs', !.alarm = IF to = "empty" THEN 0 ELSE runs']
      /\ UNCHANGED <<program, to>>
  BY DEF EvalWto
<1>2. Shape(stack) /\ stack \in Seq(Frame) /\ n \in Nat /\ n < MaxDepth /\ Calm(stack) /\ MaxDepth \in Nat
  BY <1>1, TopFacts, LenProperties, BoundsAssumption DEF IInv, Shape, MayRun, Room
<1>3. runs' \in Runs /\ runs' # 0 /\ 0 \in Runs
  BY <1>1, BoundsAssumption DEF IInv, Typed, Runs
<1>4. /\ os \in [alarm: Runs, action: Runs, killed: BOOLEAN]
      /\ cx \in [opcb: BOOLEAN, handler: BOOLEAN, flag: Runs]
  BY DEF IInv, Typed
<1>5. os.action \in Runs
  BY <1>4
<1>6. f \in Frame
  BY <1>3, <1>5 DEF Frame
<1>7. f.kind = "wto" /\ f.id = runs' /\ f.old = os.action /\ f.phase = "run"
      /\ f.verdict = IF to = "empty" THEN "free" ELSE "watched"
  OBVIOUS
<1> HIDE DEF f
<1>8. /\ stack' \in Seq(Frame) /\ Len(stack') = n + 1
      /\ \A i \in 1 .. n : stack'[i] = stack[i]
      /\ stack'[n + 1] = f
  BY <1>1, <1>2, <1>6, AppendProperties
<1>9. \A i \in 1 .. n + 1 : i \in 1 .. n \/ i = n + 1
  BY <1>2
<1>10. cx'.opcb = TRUE
  BY <1>1, <1>4
<1>11. cx'.handler = TRUE
  BY <1>1, <1>4
<1>12. cx' \in [opcb: BOOLEAN, handler: BOOLEAN, flag: Runs]
  BY <1>1, <1>4
<1>13. os' \in [alarm: Runs, action: Runs, killed: BOOLEAN]
  BY <1>1, <1>3, <1>4
<1>14. os'.action = runs' /\ os'.alarm = (IF to = "empty" THEN 0 ELSE runs')
  BY <1>1, <1>4
<1>15. os'.killed = os.killed
  BY <1>1, <1>4
<1>16. Typed'
  BY <1>1, <1>3, <1>12, <1>13 DEF IInv, Typed
<1>17. Calm(stack') /\ Phased(stack')
  BY <1>2, <1>7, <1>8, <1>9 DEF Calm, Phased
<1>18. Linked(stack')
  <2>1. SUFFICES ASSUME NEW i \in 1 .. n + 1, stack'[i].kind = "wto"
                 PROVE  /\ stack'[i].id # 0
                        /\ \A k \in 0 .. i - 1 : Below(stack', i, k) => stack'[i].old = IdAt(stack', k)
    BY <1>8 DEF Linked
  <2>2. ASSUME NEW k \in 0 .. i - 1, Below(stack', i, k)
        PROVE  Below(stack, i, k) /\ IdAt(stack', k) = IdAt(stack, k) /\ k \in 0 .. n
    <3>1. (k # 0 => k \in 1 .. n) /\ k \in 0 .. n /\ \A j \in k + 1 .. i - 1 : j \in 1 .. n
      BY <1>2, <1>9
    <3>. QED BY <1>8, <2>2, <3>1 DEF Below, IdAt
  <2>3. CASE i \in 1 .. n
    BY <1>2, <1>8, <2>1, <2>2, <2>3 DEF Linked, Shape
  <2>4. CASE i = n + 1
    <3>1. \A k \in 0 .. n : Below(stack, n + 1, k) => os.action = IdAt(stack, k)
      BY DEF IInv, Signals
    <3>. QED BY <1>3, <1>7, <1>8, <2>2, <2>4, <3>1
  <2>. QED BY <1>9, <2>3, <2>4
<1>19. Held(stack')
  <2>1. SUFFICES ASSUME NEW i \in 1 .. n + 1, stack'[i].kind = "cb"
                 PROVE  /\ i > 1 /\ stack'[i - 1].kind \in {"plain", "wto"}
                        /\ \E j \in 1 .. i - 1 : stack'[j].kind = "wto"
    BY <1>8 DEF Held
  <2>2. i \in 1 .. n /\ stack[i].kind = "cb"
    BY <1>7, <1>8, <1>9, <2>1
  <2>3. i > 1 /\ stack[i - 1].kind \in {"plain", "wto"} /\ \E j \in 1 .. i - 1 : stack[j].kind = "wto"
    BY <1>2, <2>2 DEF Held, Shape
  <2>4. i - 1 \in 1 .. n /\ \A j \in 1 .. i - 1 : j \in 1 .. n
    BY <1>2, <2>2, <2>3
  <2>. QED BY <1>8, <2>3, <2>4
<1>20. n + 1 <= MaxDepth
  BY <1>2
<1>21. Shape(stack)'
  BY <1>8, <1>17, <1>18, <1>19, <1>20 DEF Shape
<1>22. Some(stack', "wto")
  <2>1. n + 1 \in 1 .. n + 1
    BY <1>2
  <2>. QED BY <1>7, <1>8, <2>1 DEF Some
<1>23. Signals'
  <2>1. ASSUME NEW k \in 0 .. n + 1, Below(stack', n + 1 + 1, k) PROVE os'.action = IdAt(stack', k)
    <3>1. ~(k < n + 1)
      <4>1. SUFFICES ASSUME k < n + 1 PROVE FALSE
        OBVIOUS
      <4>2. n + 1 \in k + 1 .. n + 1 + 1 - 1
        BY <1>2, <4>1
      <4>. QED BY <1>7, <1>8, <2>1, <4>2 DEF Below
    <3>2. k = n + 1 /\ k # 0
      BY <1>2, <3>1
    <3>. QED BY <1>7, <1>8, <1>14, <3>2 DEF IdAt
  <2>2. ~os'.killed
    BY <1>15 DEF IInv, Signals
  <2>3. \A i \in 1 .. n + 1 : stack'[i].phase # "quiet"
    BY <1>8, <1>17 DEF Calm
  <2>. QED BY <1>8, <1>22, <2>1, <2>2, <2>3 DEF Signals
<1>24. Lone'
  <2>1. SUFFICES ASSUME ~Nests PROVE Lone'
    BY <1>1 DEF Lone, Nests
  <2>2. stack = <<>>
    BY <1>1, <2>1 DEF MayRun, Nests
  <2>3. n = 0
    BY <1>2, <2>2, EmptySeq
  <2>4. \A i \in 1 .. Len(stack') : i = 1 /\ stack'[i] = f
    BY <1>8, <2>3
  <2>5. f.verdict = "watched" => os'.alarm = f.id
    BY <1>7, <1>14
  <2>. QED BY <1>7, <1>10, <1>11, <2>4, <2>5 DEF Lone
<1>. QED BY <1>16, <1>21, <1>23, <1>24 DEF IInv

-----------------------------------------------------------------------------
(* Steps at the end of a run.                                              *)

\* What a frame that is no wto frame leaves.
LEMMA FrontSame ==
  ASSUME NEW s \in Seq(Frame), s # <<>>, s[Len(s)].kind # "wto", Calm(s)
  PROVE  /\ Front(s) \in Seq(Frame) /\ Len(Front(s)) = Len(s) - 1
         /\ \A i \in 1 .. Len(s) - 1 : i \in 1 .. Len(s) /\ Front(s)[i] = s[i]
         /\ Same(s, Front(s)) /\ Calm(Front(s)) /\ Phased(Front(s))
<1> DEFINE n == Len(s)
           t == Front(s)
<1>1. n \in Nat /\ t \in Seq(Frame) /\ Len(t) = n - 1 /\ \A i \in 1 .. n - 1 : t[i] = s[i]
  BY FrontFacts
<1> HIDE DEF t
<1>2. /\ \A i \in 1 .. n - 1 : i \in 1 .. n
      /\ \A i \in 1 .. n : i > n - 1 => i = n
  BY <1>1
<1>3. Same(s, t)
  BY <1>1, <1>2 DEF Same
<1>4. Calm(t) /\ Phased(t)
  BY <1>1, <1>2 DEF Calm, Phased
<1>. QED BY <1>1, <1>2, <1>3, <1>4 DEF t

\* The top frame goes, and nothing else changes: PerlReturns, Ends.
LEMMA PopOK ==
  ASSUME IInv, Calm(stack), stack # <<>>, Top.kind \in {"plain", "perl"}, stack' = Front(stack),
         UNCHANGED <<program, to, os, cx, runs>>
  PROVE  IInv'
<1> DEFINE n == Len(stack)
<1>1. stack \in Seq(Frame) /\ n \in Nat /\ n > 0 /\ Shape(stack) /\ Top = stack[n]
  BY FrontFacts, TopFacts DEF IInv, Shape
<1>2. /\ stack' \in Seq(Frame) /\ Len(stack') = n - 1
      /\ \A i \in 1 .. n - 1 : i \in 1 .. n /\ stack'[i] = stack[i]
      /\ Same(stack, stack') /\ Calm(stack') /\ Phased(stack')
  BY <1>1, FrontSame
<1>3. Len(stack') <= n /\ Len(stack') <= MaxDepth /\ Held(stack')
  BY <1>1, <1>2, SameFacts, BoundsAssumption DEF Shape
<1>4. Shape(stack)' /\ Signals'
  <2>1. \A i \in 1 .. Len(stack') : stack'[i].phase # "quiet"
    BY <1>2 DEF Calm
  <2>2. /\ os'.action = os.action /\ os'.killed = FALSE /\ (os'.alarm # 0 => Some(stack, "wto"))
        /\ (cx'.opcb \/ cx'.handler => Some(stack, "wto"))
    BY DEF IInv, Signals
  <2>. QED BY <1>2, <1>3, <2>1, <2>2, Kept
<1>5. Lone'
  <2>1. Some(stack, "cb") => Some(stack', "cb")
    BY <1>1, <1>2 DEF Some
  <2>2. ASSUME NEW i \in 1 .. Len(stack'), ~Nests, stack'[i].kind = "wto", ~Some(stack', "cb")
        PROVE  /\ cx'.opcb
               /\ stack'[i].phase = "run" /\ stack'[i].verdict = "watched" =>
                    os'.alarm = stack'[i].id \/ cx'.flag # 0
    BY <1>2, <2>1, <2>2 DEF IInv, Lone
  <2>. QED BY <1>2, <1>3, <2>2, Trimmed
<1>7. Typed'
  BY DEF IInv, Typed
<1>. QED BY <1>4, <1>5, <1>7 DEF IInv

LEMMA PerlReturnsOK ==
  ASSUME IInv, PerlReturns
  PROVE  IInv'
BY PopOK, TopFacts DEF PerlReturns, IInv

LEMMA TopPhase ==
  ASSUME NEW s \in Seq(Frame), NEW n \in 1 .. Len(s), NEW p \in {"ended", "quiet"},
         NEW t, t = WithPhase(s, n, p)
  PROVE  /\ t \in Seq(Frame) /\ Len(t) = Len(s)
         /\ \A j \in 1 .. Len(s) :
              /\ t[j].kind = s[j].kind /\ t[j].id = s[j].id /\ t[j].old = s[j].old
              /\ t[j].verdict = s[j].verdict
              /\ t[j].phase = IF j = n THEN p ELSE s[j].phase
<1>1. p \in {"run", "ended", "quiet"}
  OBVIOUS
<1>. QED BY <1>1, PhaseFacts

\* The top frame goes to another phase, and the timer may stop: Ends, Quiet.
LEMMA PhaseOK ==
  ASSUME IInv, stack # <<>>, Top.kind = "wto", NEW p \in {"ended", "quiet"}, Phase(p), Typed',
         program' = program, cx' = cx, os'.action = os.action, os'.killed = FALSE,
         os'.alarm = IF p = "quiet" THEN 0 ELSE os.alarm
  PROVE  IInv'
<1> DEFINE n == Len(stack)
<1>1. stack \in Seq(Frame) /\ n \in 1 .. n /\ n \in Nat /\ Shape(stack) /\ stack[n].kind = "wto"
  BY TopFacts DEF IInv, Shape
<1>2. stack' = WithPhase(stack, n, p)
  BY DEF Phase, WithPhase
<1>3. /\ stack' \in Seq(Frame) /\ Len(stack') = n
      /\ \A j \in 1 .. n :
           /\ stack'[j].kind = stack[j].kind /\ stack'[j].id = stack[j].id /\ stack'[j].old = stack[j].old
           /\ stack'[j].verdict = stack[j].verdict
           /\ stack'[j].phase = IF j = n THEN p ELSE stack[j].phase
  BY <1>1, <1>2, TopPhase
<1>4. Same(stack, stack')
  BY <1>1, <1>3 DEF Same
<1>5. Phased(stack') /\ Len(stack') <= n /\ Len(stack') <= MaxDepth
  BY <1>1, <1>3 DEF Phased, Shape
<1>6. Held(stack')
  BY <1>1, <1>3, <1>4, <1>5, SameFacts DEF Shape
<1>7. Shape(stack)' /\ Signals'
  <2>1. ASSUME NEW i \in 1 .. n, stack'[i].phase = "quiet" PROVE os'.alarm = 0
    <3>1. CASE p = "quiet"
      BY <3>1
    <3>2. CASE p # "quiet"
      <4>1. stack[i].phase = "quiet"
        BY <1>3, <2>1, <3>2
      <4>. QED BY <3>2, <4>1 DEF IInv, Signals
    <3>. QED BY <3>1, <3>2
  <2>2. /\ (os'.alarm # 0 => Some(stack, "wto"))
        /\ (cx'.opcb \/ cx'.handler => Some(stack, "wto"))
    BY DEF IInv, Signals
  <2>. QED BY <1>3, <1>4, <1>5, <1>6, <2>1, <2>2, Kept
<1>8. Lone'
  <2>1. Some(stack, "cb") => Some(stack', "cb")
    BY <1>3 DEF Some
  <2>2. ASSUME NEW i \in 1 .. Len(stack'), ~Nests, stack'[i].kind = "wto", ~Some(stack', "cb")
        PROVE  /\ cx'.opcb
               /\ stack'[i].phase = "run" /\ stack'[i].verdict = "watched" =>
                    os'.alarm = stack'[i].id \/ cx'.flag # 0
    <3>1. stack[i].kind = "wto" /\ ~Some(stack, "cb") /\ i \in 1 .. n
      BY <1>3, <2>1, <2>2
    <3>2. i = 1 /\ 1 = n
      <4>1. \A j \in 1 .. n : stack[j].kind = "wto" => j = 1
        BY <2>2 DEF IInv, Lone
      <4>. QED BY <1>1, <3>1, <4>1
    <3>3. stack'[i].phase # "run"
      BY <1>3, <3>1, <3>2
    <3>. QED BY <2>2, <3>1, <3>3 DEF IInv, Lone
  <2>. QED BY <1>3, <1>4, <1>5, <2>2, Trimmed
<1>. QED BY <1>7, <1>8 DEF IInv

LEMMA EndsOK ==
  ASSUME IInv, Ends
  PROVE  IInv'
<1>1. /\ Script /\ UNCHANGED <<program, to, os, cx, runs>>
      /\ IF Top.kind = "plain" THEN stack' = Front(stack) ELSE Phase("ended")
  BY DEF Ends
<1>2. Calm(stack) /\ stack # <<>> /\ Top.kind \in {"wto", "plain"}
  BY <1>1, TopFacts DEF IInv
<1>3. CASE Top.kind = "plain"
  BY <1>1, <1>2, <1>3, PopOK
<1>4. CASE Top.kind = "wto"
  <2>1. Typed' /\ os.killed = FALSE
    BY <1>1 DEF IInv, Typed, Signals
  <2>. QED BY <1>1, <1>2, <1>4, <2>1, PhaseOK
<1>. QED BY <1>2, <1>3, <1>4

LEMMA QuietOK ==
  ASSUME IInv, Quiet
  PROVE  IInv'
<1>1. /\ Top.phase = "ended" /\ Phase("quiet") /\ UNCHANGED <<program, to, cx, runs>>
      /\ os' = [os EXCEPT !.alarm = 0]
  BY DEF Quiet
<1>2. stack # <<>> /\ Top.kind = "wto"
  BY <1>1, TopFacts DEF IInv
<1>3. os \in [alarm: Runs, action: Runs, killed: BOOLEAN] /\ 0 \in Runs
  BY BoundsAssumption DEF IInv, Typed, Runs
<1>4. os' \in [alarm: Runs, action: Runs, killed: BOOLEAN]
  BY <1>1, <1>3
<1>5. os'.alarm = 0 /\ os'.action = os.action
  BY <1>1, <1>3
<1>6. os'.killed = os.killed
  BY <1>1, <1>3
<1>7. Typed' /\ os'.killed = FALSE
  BY <1>1, <1>4, <1>6 DEF IInv, Typed, Signals
<1>. QED BY <1>1, <1>2, <1>5, <1>7, PhaseOK

\* The end of eval_wto gives the action back.
LEMMA LeaveOK ==
  ASSUME IInv, Leave
  PROVE  IInv'
<1> DEFINE n == Len(stack)
<1>1. /\ Top.phase = "quiet" /\ stack' = Front(stack) /\ os' = [os EXCEPT !.action = Top.old]
      /\ cx' = [cx EXCEPT !.opcb = FALSE, !.handler = FALSE] /\ UNCHANGED <<program, to, runs>>
  BY DEF Leave
<1>2. stack # <<>> /\ Top.kind = "wto" /\ Top = stack[n]
  BY <1>1, TopFacts DEF IInv
<1>3. /\ Shape(stack) /\ stack \in Seq(Frame) /\ n \in Nat /\ n > 0 /\ n \in 1 .. n
      /\ stack' \in Seq(Frame) /\ Len(stack') = n - 1
      /\ \A i \in 1 .. n - 1 : stack'[i] = stack[i]
  BY <1>1, <1>2, FrontFacts, TopFacts DEF IInv, Shape
<1>4. \A i \in 1 .. n - 1 : i \in 1 .. n /\ i # n
  BY <1>3
<1>5. stack[n] \in Frame
  BY <1>3, ElementOfSeq
<1>6. stack[n].old \in Runs
  BY <1>5 DEF Frame
<1>7. /\ os \in [alarm: Runs, action: Runs, killed: BOOLEAN]
      /\ cx \in [opcb: BOOLEAN, handler: BOOLEAN, flag: Runs]
  BY DEF IInv, Typed
<1>8. os'.action = stack[n].old /\ os'.alarm = os.alarm
  BY <1>1, <1>2, <1>7
<1>9. os'.killed = os.killed
  BY <1>1, <1>7
<1>10. cx'.opcb = FALSE
  BY <1>1, <1>7
<1>11. cx'.handler = FALSE
  BY <1>1, <1>7
<1>12. os' \in [alarm: Runs, action: Runs, killed: BOOLEAN]
  BY <1>1, <1>2, <1>6, <1>7
<1>13. cx' \in [opcb: BOOLEAN, handler: BOOLEAN, flag: Runs]
  BY <1>1, <1>7
<1>14. Typed'
  BY <1>1, <1>12, <1>13 DEF IInv, Typed
<1>15. os.alarm = 0
  BY <1>1, <1>2, <1>3 DEF IInv, Signals
<1>16. Calm(stack') /\ Phased(stack')
  BY <1>3, <1>4 DEF Calm, Phased, Shape
<1>17. ASSUME NEW i \in 1 .. n, NEW k \in 0 .. i - 1, Below(stack', i, k)
       PROVE  Below(stack, i, k) /\ IdAt(stack', k) = IdAt(stack, k)
  <2>1. (k # 0 => k \in 1 .. n - 1) /\ \A j \in k + 1 .. i - 1 : j \in 1 .. n - 1
    BY <1>3
  <2>. QED BY <1>3, <1>17, <2>1 DEF Below, IdAt
<1>18. Linked(stack')
  <2>1. \A i \in 1 .. n - 1 : stack[i].kind = "wto" =>
          stack[i].id # 0 /\ \A k \in 0 .. i - 1 : Below(stack, i, k) => stack[i].old = IdAt(stack, k)
    BY <1>3, <1>4 DEF Shape, Linked
  <2>. QED BY <1>3, <1>4, <1>17, <2>1 DEF Linked
<1>19. Held(stack')
  <2>1. SUFFICES ASSUME NEW i \in 1 .. n - 1, stack'[i].kind = "cb"
                 PROVE  /\ i > 1 /\ stack'[i - 1].kind \in {"plain", "wto"}
                        /\ \E j \in 1 .. i - 1 : stack'[j].kind = "wto"
    BY <1>3 DEF Held
  <2>2. i > 1 /\ stack[i - 1].kind \in {"plain", "wto"} /\ \E j \in 1 .. i - 1 : stack[j].kind = "wto"
    BY <1>3, <1>4, <2>1 DEF Held, Shape
  <2>3. i - 1 \in 1 .. n - 1 /\ \A j \in 1 .. i - 1 : j \in 1 .. n - 1
    BY <1>3, <2>2
  <2>. QED BY <1>3, <2>2, <2>3
<1>20. Len(stack') <= MaxDepth
  BY <1>3, BoundsAssumption DEF Shape
<1>21. Shape(stack)'
  BY <1>3, <1>16, <1>18, <1>19, <1>20 DEF Shape
<1>22. Signals'
  <2>1. ASSUME NEW k \in 0 .. n - 1, Below(stack', n - 1 + 1, k) PROVE os'.action = IdAt(stack', k)
    <3>1. n - 1 + 1 = n
      BY <1>3
    <3>2. Below(stack, n, k) /\ IdAt(stack', k) = IdAt(stack, k)
      BY <1>3, <1>17, <2>1, <3>1
    <3>. QED BY <1>2, <1>3, <1>8, <3>2 DEF Shape, Linked
  <2>2. ~os'.killed
    BY <1>9 DEF IInv, Signals
  <2>. QED BY <1>3, <1>8, <1>10, <1>11, <1>15, <2>1, <2>2 DEF Signals
<1>23. Lone'
  <2>1. SUFFICES ASSUME ~Nests PROVE Lone'
    BY <1>1 DEF Lone, Nests
  <2>2. n = 1
    BY <1>2, <1>3, <2>1 DEF IInv, Lone
  <2>3. \A i \in 1 .. Len(stack') : FALSE
    BY <1>3, <2>2
  <2>. QED BY <2>3 DEF Lone
<1>. QED BY <1>14, <1>21, <1>22, <1>23 DEF IInv

-----------------------------------------------------------------------------
(* What the timeout does to the run.                                       *)

\* A verdict was given on the innermost eval_wto of s, which is the stack or
\* what the callback left of it.
LEMMA VerdictOK ==
  ASSUME IInv, Typed', program' = program, NEW s \in Seq(Frame), Calm(s), Some(s, "wto"),
         Same(stack, s), Len(s) <= Len(stack),
         \A i \in 1 .. Len(s) : s[i] = stack[i],
         NEW v, Judgement(s, stack', v),
         ~Nests => ~Some(s, "cb"),
         os'.action = os.action, os'.killed = FALSE, cx'.handler = cx.handler, cx'.opcb,
         v = "watched" => os'.alarm = s[Wto(s)].id
  PROVE  IInv'
<1>1. /\ stack \in Seq(Frame) /\ Shape(stack) /\ Len(stack) \in Nat /\ Len(s) \in Nat
      /\ MaxDepth \in Nat
  BY LenProperties, BoundsAssumption DEF IInv, Shape
<1>2. /\ stack' \in Seq(Frame) /\ Len(stack') <= Len(s) /\ Same(s, stack') /\ Phased(stack')
      /\ \A j \in 1 .. Len(stack') :
           /\ stack'[j].phase # "quiet"
           /\ stack'[j].verdict = IF j = Wto(s) THEN v ELSE s[j].verdict
  BY DEF Judgement
<1>3. Len(stack') \in Nat /\ \A i \in 1 .. Len(stack') : i \in 1 .. Len(s) /\ i \in 1 .. Len(stack)
  BY <1>1, <1>2, LenProperties
<1>4. Same(stack, stack')
  BY <1>1, <1>2, <1>3 DEF Same
<1>5. Len(stack') <= Len(stack) /\ Len(stack') <= MaxDepth
  BY <1>1, <1>2, <1>3 DEF Shape
<1>6. Held(stack')
  BY <1>1, <1>2, <1>4, <1>5, SameFacts DEF Shape
<1>7. Some(stack, "wto")
  BY <1>1, SameFacts
<1>8. Shape(stack)' /\ Signals'
  BY <1>2, <1>4, <1>5, <1>6, <1>7, Kept
<1>9. Lone'
  <2>1. ~Nests => ~Some(stack', "cb")
    BY <1>1, <1>2, <1>3 DEF Same, Some
  <2>2. ASSUME NEW i \in 1 .. Len(stack'), ~Nests, stack'[i].kind = "wto",
               stack'[i].phase = "run", stack'[i].verdict = "watched"
        PROVE  os'.alarm = stack'[i].id
    <3>1. i = 1 /\ i \in 1 .. Len(stack) /\ stack[i].kind = "wto" /\ stack'[i].id = stack[i].id
      BY <1>2, <1>4, <2>2, LoneWto
    <3>2. Wto(s) \in 1 .. Len(s) /\ s[Wto(s)].kind = "wto"
      BY WtoFacts DEF Below
    <3>3. Wto(s) \in 1 .. Len(stack) /\ stack[Wto(s)].kind = "wto"
      BY <1>1, <3>2
    <3>4. Wto(s) = i
      BY <2>2, <3>1, <3>3 DEF IInv, Lone
    <3>5. v = "watched" /\ s[i] = stack[i]
      BY <1>2, <2>2, <3>2, <3>4
    <3>. QED BY <3>1, <3>4, <3>5
  <2>. QED BY <1>2, <1>4, <1>5, <2>1, <2>2, Trimmed
<1>. QED BY <1>8, <1>9 DEF IInv

LEMMA DiesOK ==
  ASSUME IInv, Dies
  PROVE  IInv'
<1>1. /\ Script /\ cx.opcb /\ cx.handler
      /\ cx' = [cx EXCEPT !.flag = 0]
      /\ stack' \in Thrown(Judged(stack, "cancelled"))
      /\ to' = (IF to = "none" THEN "empty" ELSE to)
      /\ UNCHANGED <<program, os, runs>>
  BY DEF Dies, Interrupted
<1>2. stack \in Seq(Frame) /\ Shape(stack) /\ Calm(stack) /\ Len(stack) \in Nat
  BY <1>1, TopFacts DEF IInv, Shape
<1>3. Some(stack, "wto")
  BY <1>1 DEF IInv, Signals
<1>4. Judgement(stack, stack', "cancelled")
  BY <1>1, <1>2, <1>3, JudgedThen
<1>5. cx \in [opcb: BOOLEAN, handler: BOOLEAN, flag: Runs] /\ 0 \in Runs
  BY BoundsAssumption DEF IInv, Typed, Runs
<1>6. cx' \in [opcb: BOOLEAN, handler: BOOLEAN, flag: Runs]
  BY <1>1, <1>5
<1>7. cx'.opcb = cx.opcb /\ cx'.handler = cx.handler
  BY <1>1, <1>5
<1>8. Typed'
  <2>1. to' \in {"none", "dies", "calls", "empty"}
    BY <1>1 DEF IInv, Typed
  <2>. QED BY <1>1, <1>6, <2>1 DEF IInv, Typed
<1>9. ~Nests => ~Some(stack, "cb")
  BY <1>1 DEF IInv, Lone, Some
<1>10. os'.killed = FALSE
  BY <1>1 DEF IInv, Signals
<1>11. Same(stack, stack)
  BY <1>2 DEF Same
<1>12. cx'.opcb /\ cx'.handler = cx.handler /\ os'.action = os.action
  BY <1>1, <1>7
<1>13. Len(stack) <= Len(stack) /\ \A i \in 1 .. Len(stack) : stack[i] = stack[i]
  BY <1>2
<1>14. PICK v : v = "cancelled"
  OBVIOUS
<1>15. Judgement(stack, stack', v) /\ (v = "watched" => os'.alarm = stack[Wto(stack)].id)
  BY <1>4, <1>14
<1>16. program' = program
  BY <1>1
<1>. QED BY <1>2, <1>3, <1>8, <1>9, <1>10, <1>11, <1>12, <1>13, <1>15, <1>16, VerdictOK

\* What the answer of a callback comes to.
LEMMA AnsweredFacts ==
  ASSUME IInv, NEW a \in program.answers, NEW s \in Seq(Frame), Calm(s), Some(s, "wto"),
         s # <<>>, s[Len(s)].kind \in {"plain", "wto"}, s[Wto(s)].id \in Runs,
         Answered(a, s)
  PROVE  /\ \E v \in {"watched", "cancelled", "free"} :
              Judgement(s, stack', v) /\ (v = "watched" => os'.alarm = s[Wto(s)].id)
         /\ os' \in [alarm: Runs, action: Runs, killed: BOOLEAN]
         /\ os'.action = os.action /\ os'.killed = FALSE
         /\ to' \in {"none", "dies", "calls", "empty"}
<1>1. /\ os \in [alarm: Runs, action: Runs, killed: BOOLEAN] /\ 0 \in Runs
      /\ to \in {"none", "dies", "calls", "empty"}
  BY BoundsAssumption DEF IInv, Typed, Runs
<1>2. os.killed = FALSE
  <2>1. ~os.killed /\ os.killed \in BOOLEAN
    BY <1>1 DEF IInv, Signals
  <2>. QED BY <2>1
<1>3. CASE os' = os /\ to' = to
           /\ \/ a = "false" /\ stack' = Stopped(Judged(s, "cancelled"))
              \/ a = "die" /\ stack' \in Thrown(Judged(s, "cancelled"))
  <2>1. Judgement(s, stack', "cancelled")
    BY <1>3, JudgedThen
  <2>. QED BY <1>1, <1>2, <1>3, <2>1
<1>4. CASE os' = os /\ to' = to /\ a = "string" /\ stack' = Stopped(Judged(s, "free"))
  <2>1. Judgement(s, stack', "free")
    BY <1>4, JudgedThen
  <2>. QED BY <1>1, <1>2, <1>4, <2>1
<1>5. CASE os' = os /\ to' = to /\ stack' = Judged(s, "free")
  <2>1. Judgement(s, stack', "free")
    BY <1>5, JudgedOnly
  <2>. QED BY <1>1, <1>2, <1>5, <2>1
<1>6. CASE stack' = Judged(s, "watched") /\ os' = [os EXCEPT !.alarm = s[Wto(s)].id] /\ to' = to
  <2>1. Judgement(s, stack', "watched")
    BY <1>6, JudgedOnly
  <2>2. os' \in [alarm: Runs, action: Runs, killed: BOOLEAN] /\ os'.alarm = s[Wto(s)].id
        /\ os'.action = os.action
    BY <1>1, <1>6
  <2>3. os'.killed = os.killed
    BY <1>1, <1>6
  <2>. QED BY <1>1, <1>2, <1>6, <2>1, <2>2, <2>3
<1>7. CASE stack' = Judged(s, "free") /\ os' = [os EXCEPT !.alarm = 0] /\ to' = "empty"
  <2>1. Judgement(s, stack', "free")
    BY <1>7, JudgedOnly
  <2>2. os' \in [alarm: Runs, action: Runs, killed: BOOLEAN] /\ os'.action = os.action
    BY <1>1, <1>7
  <2>3. os'.killed = os.killed
    BY <1>1, <1>7
  <2>. QED BY <1>2, <1>7, <2>1, <2>2, <2>3
<1>. QED BY <1>3, <1>4, <1>5, <1>6, <1>7 DEF Answered

LEMMA ReturnsOK ==
  ASSUME IInv, NEW a \in program.answers, Returns(a)
  PROVE  IInv'
<1> DEFINE n == Len(stack)
           s == Front(stack)
<1>1. /\ Perl /\ Top.kind = "cb" /\ Answered(a, s) /\ cx' = [cx EXCEPT !.opcb = TRUE]
      /\ UNCHANGED <<program, runs>>
  BY DEF Returns
<1>2. stack # <<>>
  BY <1>1 DEF Top, Plain
<1>3. /\ stack \in Seq(Frame) /\ Shape(stack) /\ Calm(stack) /\ n \in 1 .. n /\ n \in Nat
      /\ stack[n].kind = "cb"
  BY <1>1, <1>2, TopFacts DEF IInv, Shape
<1>4. /\ s \in Seq(Frame) /\ Len(s) = n - 1
      /\ \A i \in 1 .. n - 1 : i \in 1 .. n /\ s[i] = stack[i]
      /\ Same(stack, s) /\ Calm(s)
  BY <1>2, <1>3, FrontSame
<1> HIDE DEF s
<1>5. n > 1 /\ stack[n - 1].kind \in {"plain", "wto"} /\ \E j \in 1 .. n - 1 : stack[j].kind = "wto"
  BY <1>3 DEF Shape, Held
<1>6. s # <<>> /\ s[Len(s)].kind \in {"plain", "wto"} /\ Some(s, "wto")
  <2>1. n - 1 \in 1 .. n - 1
    BY <1>3, <1>5
  <2>2. s # <<>>
    BY <1>4, <1>5, EmptySeq
  <2>3. s[Len(s)].kind \in {"plain", "wto"}
    BY <1>4, <1>5, <2>1
  <2>. QED BY <1>4, <1>5, <2>2, <2>3 DEF Some
<1>7. Wto(s) \in 1 .. Len(s)
  BY <1>4, <1>6, WtoFacts
<1>8. s[Wto(s)] \in Frame
  BY <1>4, <1>7, ElementOfSeq
<1>9. s[Wto(s)].id \in Runs
  BY <1>8 DEF Frame
<1>10. /\ \E v \in {"watched", "cancelled", "free"} :
            Judgement(s, stack', v) /\ (v = "watched" => os'.alarm = s[Wto(s)].id)
       /\ os' \in [alarm: Runs, action: Runs, killed: BOOLEAN]
       /\ os'.action = os.action /\ os'.killed = FALSE
       /\ to' \in {"none", "dies", "calls", "empty"}
  BY <1>1, <1>4, <1>6, <1>9, AnsweredFacts
<1>11. PICK v \in {"watched", "cancelled", "free"} :
         Judgement(s, stack', v) /\ (v = "watched" => os'.alarm = s[Wto(s)].id)
  BY <1>10
<1>12. cx \in [opcb: BOOLEAN, handler: BOOLEAN, flag: Runs]
  BY DEF IInv, Typed
<1>13. cx' \in [opcb: BOOLEAN, handler: BOOLEAN, flag: Runs]
  BY <1>1, <1>12
<1>14. cx'.opcb = TRUE
  BY <1>1, <1>12
<1>15. cx'.handler = cx.handler
  BY <1>1, <1>12
<1>16. Typed'
  BY <1>1, <1>10, <1>13 DEF IInv, Typed
<1>17. ~Nests => ~Some(s, "cb")
  <2>1. SUFFICES ASSUME ~Nests, NEW i \in 1 .. n - 1, s[i].kind = "cb" PROVE FALSE
    BY <1>4 DEF Some
  <2>2. stack[i].kind = "cb" /\ i \in 1 .. n
    BY <1>4, <2>1
  <2>3. i = n
    BY <1>3, <2>1, <2>2 DEF IInv, Lone
  <2>. QED BY <1>3, <2>3
<1>18. Len(s) <= n
  BY <1>3, <1>4
<1>. QED BY <1>1, <1>4, <1>6, <1>10, <1>11, <1>14, <1>15, <1>16, <1>17, <1>18, VerdictOK

-----------------------------------------------------------------------------
LEMMA InitOK == Init => IInv
<1>1. SUFFICES ASSUME Init PROVE IInv
  OBVIOUS
<1>2. stack = <<>> /\ program \in Programs
      /\ to = "none" /\ runs = 0
      /\ os = [alarm |-> 0, action |-> 0, killed |-> FALSE]
      /\ cx = [opcb |-> FALSE, handler |-> FALSE, flag |-> 0]
  BY <1>1 DEF Init
<1>3. stack \in Seq(Frame) /\ Len(stack) = 0
  BY <1>2, EmptySeq
<1>4. \A i \in 1 .. Len(stack) : FALSE
  BY <1>3
<1>5. Typed
  BY <1>2, BoundsAssumption DEF Typed, Runs
<1>6. Shape(stack)
  BY <1>3, <1>4, BoundsAssumption DEF Shape, Linked, Held, Phased
<1>7. Signals
  <2>1. \A k \in 0 .. Len(stack) : k = 0
    BY <1>3
  <2>2. ~cx.opcb /\ ~cx.handler
    BY <1>2
  <2>3. ~os.killed
    BY <1>2
  <2>4. os.alarm = 0 /\ os.action = 0
    BY <1>2
  <2>. QED BY <1>4, <2>1, <2>2, <2>3, <2>4 DEF Signals, IdAt
<1>. QED BY <1>4, <1>5, <1>6, <1>7 DEF IInv, Lone

LEMMA NextOK == IInv /\ [Next]_vars => IInv'
<1>1. SUFFICES ASSUME IInv, [Next]_vars PROVE IInv'
  OBVIOUS
<1>2. ASSUME NEW v \in {"dies", "calls"}, SetTimeout(v) PROVE IInv'
  BY <1>1, <1>2, TimeoutOK DEF SetTimeout
<1>3. CASE ClearTimeout
  BY <1>1, <1>3, TimeoutOK DEF ClearTimeout
<1>4. CASE UNCHANGED vars
  <2>1. UNCHANGED <<program, stack, to, os, cx, runs>>
    BY <1>4 DEF vars
  <2>2. Typed'
    BY <1>1, <2>1 DEF IInv, Typed
  <2>3. Shape(stack)' /\ Signals'
    BY <1>1, <2>1, StackKept DEF IInv, Signals
  <2>4. Lone'
    BY <1>1, <2>1 DEF IInv, Lone, Nests
  <2>. QED BY <2>2, <2>3, <2>4 DEF IInv
<1>5. ASSUME NEW a \in program.answers, Returns(a) PROVE IInv'
  BY <1>1, <1>5, ReturnsOK
<1>. QED BY <1>1, <1>2, <1>3, <1>4, <1>5, EvalOK, EvalWtoOK, CallPerlOK, PerlReturnsOK, EndsOK,
           QuietOK, LeaveOK, AlarmOK, IgnoredOK, DiesOK, CallsOK DEF Next

\* The chain of saved actions, the place of the frames, who the timer and the
\* callbacks belong to, and what a verdict leaves: what every step keeps, for
\* every program, every number of runs and every depth of the stack.
THEOREM TimeoutInvariance == Spec => []IInv
BY InitOK, NextOK, PTL DEF Spec

\* The state of timeouts (Timeout.pm, the operation callback of PJS_Context.c)
\* stays in its type.
THEOREM TimeoutTypes == Spec => []TypeOK
<1>1. ASSUME IInv PROVE TypeOK
  <2>1. stack \in Seq(Frame) /\ Len(stack) <= MaxDepth /\ DOMAIN stack = 1 .. Len(stack)
    BY <1>1, LenProperties DEF IInv, Shape
  <2>2. \A i \in DOMAIN stack : stack[i] \in Frame
    BY <2>1, ElementOfSeq
  <2>. QED BY <1>1, <2>1, <2>2 DEF IInv, Typed, TypeOK
<1>. QED BY <1>1, TimeoutInvariance, PTL

\* SIGALRM never meets the default action, and after the last eval_wto no timer,
\* signal handler or operation callback is left (Timeout.pm:38-43).
THEOREM Tidies == Spec => []Tidy
<1>1. ASSUME IInv PROVE Tidy
  <2>1. /\ stack \in Seq(Frame) /\ Linked(stack) /\ ~os.killed /\ os.action = IdAt(stack, Wto(stack))
        /\ (os.alarm # 0 => Some(stack, "wto")) /\ (cx.opcb \/ cx.handler => Some(stack, "wto"))
    BY <1>1, ActionFacts DEF IInv, Shape, Signals
  <2>2. /\ Wto(stack) \in 0 .. Len(stack) /\ (Wto(stack) # 0 <=> Some(stack, "wto"))
        /\ (Wto(stack) # 0 => stack[Wto(stack)].kind = "wto") /\ Len(stack) \in Nat
    BY <2>1, WtoFacts, LenProperties DEF Below
  <2>3. os.alarm # 0 => os.action # 0
    <3>1. Wto(stack) # 0 => stack[Wto(stack)].id # 0
      BY <2>1, <2>2 DEF Linked
    <3>. QED BY <2>1, <2>2, <3>1 DEF IdAt
  <2>4. Wto(stack) = 0 => os.alarm = 0 /\ os.action = 0
    BY <2>1, <2>2 DEF IdAt
  <2>5. Wto(stack) = 0 => ~cx.opcb /\ ~cx.handler
    BY <2>1, <2>2
  <2>. QED BY <2>1, <2>3, <2>4, <2>5 DEF Tidy
<1>. QED BY <1>1, TimeoutInvariance, PTL

\* A script that runs under a timeout has its timer set or its flag up, and the
\* engine finds the handler, whatever the callback did (Timeout.pm:252, 265).
THEOREM Guards == Spec => []Guarded
<1>1. ASSUME IInv PROVE Guarded
  <2>1. SUFFICES ASSUME ~Nests, Script, Top.kind = "wto", Top.verdict = "watched"
                 PROVE  (os.alarm = Top.id \/ cx.flag # 0) /\ cx.opcb /\ cx.handler
    BY DEF Guarded
  <2>2. stack # <<>> /\ Top = stack[Len(stack)] /\ Len(stack) \in 1 .. Len(stack) /\ Calm(stack)
    BY <1>1, <2>1, TopFacts DEF IInv
  <2>3. Len(stack) = 1 /\ cx.handler
    BY <1>1, <2>1, <2>2 DEF IInv, Lone
  <2>4. ~Some(stack, "cb")
    <3>1. \A i \in 1 .. Len(stack) : i = Len(stack)
      BY <2>3
    <3>. QED BY <2>1, <2>2, <3>1 DEF Some
  <2>5. stack[Len(stack)].phase = "run"
    BY <2>2 DEF Calm
  <2>. QED BY <1>1, <2>1, <2>2, <2>3, <2>4, <2>5 DEF IInv, Lone
<1>. QED BY <1>1, TimeoutInvariance, PTL

=============================================================================
