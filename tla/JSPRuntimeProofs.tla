-------------------------- MODULE JSPRuntimeProofs ---------------------------
EXTENDS JSPRuntime, SequenceTheorems, TLAPS

(***************************************************************************)
(* What is referred to otherwise than by a context exists, what exists is  *)
(* referred to, and the stack is well formed.  Every step that lets go of  *)
(* something goes through Settled, so that one lemma about it (Settles)    *)
(* serves them all.                                                        *)
(***************************************************************************)
Sound(X) ==
  /\ \A r \in Runtimes : r \in X => r \in rts
  /\ \A c \in Contexts : c \in X => of[c] # None

Stack(s) ==
  /\ s \in Seq(Frame) /\ Len(s) <= MaxDepth
  /\ \A i \in 1 .. Len(s) : s[i].kind = "handler" =>
       i > 1 /\ s[i - 1].kind = "script" /\ ~s[i - 1].in
  /\ \A i \in 1 .. Len(s) - 1 : s[i].kind = "script" => s[i].in \/ s[i + 1].kind = "handler"
  \* A script at the top leaves room for a handler.
  /\ Len(s) > 0 /\ s[Len(s)].kind = "script" => Len(s) < MaxDepth

Typed ==
  /\ rts \subseteq Runtimes /\ hook \subseteq Runtimes
  /\ mine \subseteq born /\ rts \subseteq born /\ born \subseteq Runtimes \cup Contexts
  /\ of \in [Contexts -> Runtimes \cup {None}] /\ at \in [Contexts -> Addresses \cup {None}]
  /\ named \in [Addresses -> Contexts \cup {None}]
  /\ handler \in [Runtimes -> Handlers \cup {None}]

Born == \A c \in Contexts : of[c] # None => of[c] \in rts /\ c \in born /\ at[c] \in Addresses

Hooked == \A r \in hook : r \in rts /\ handler[r] # None

\* What exists is referred to.
Referred ==
  /\ \A c \in Contexts : of[c] # None => c \in Held(mine, handler, stack)
  /\ \A r \in rts : r \in Held(mine, handler, stack) \/ \E c \in Contexts : of[c] = r

IInv ==
  /\ Typed /\ Stack(stack)
  /\ Sound(Held(mine, handler, stack)) /\ Born /\ Hooked /\ FindsIt /\ Referred

-----------------------------------------------------------------------------
\* One lemma for what lets go: m, h, s and k are what mine, handler, stack and
\* hook become.
LEMMA Settles ==
  ASSUME IInv, NEW m, NEW h, NEW s, NEW k, Settled(m, h, s, k),
         m \subseteq born, h \in [Runtimes -> Handlers \cup {None}], Stack(s),
         k \subseteq Runtimes, \A r \in k : r \in rts /\ h[r] # None,
         Sound(Held(m, h, s))
  PROVE  IInv'
<1> DEFINE held == Held(m, h, s)
           o == [c \in Contexts |-> IF c \in held THEN of[c] ELSE None]
<1>1. /\ of' = o /\ rts' = rts \cap Kept(o, held) /\ hook' = k \cap Kept(o, held)
      /\ named' = Unnamed(o, named) /\ mine' = m /\ handler' = h /\ stack' = s
      /\ at' = at /\ born' = born
  BY DEF Settled
<1>2. Held(mine, handler, stack)' = held
  BY <1>1 DEF Held, Running, Caught, In
<1>3. \A c \in Contexts : of'[c] = IF c \in held THEN of[c] ELSE None
  BY <1>1
<1>4. \A r \in rts' : r \in rts /\ r \in Runtimes /\ (r \in held \/ \E c \in Contexts : of'[c] = r)
  BY <1>1 DEF Kept, IInv, Typed
<1>5. \A r \in Runtimes : r \in rts /\ (r \in held \/ \E c \in Contexts : of'[c] = r) => r \in rts'
  BY <1>1 DEF Kept
<1>6. \A a \in Addresses : named'[a] = IF named[a] # None /\ of'[named[a]] = None THEN None ELSE named[a]
  BY <1>1 DEF Unnamed
<1>7. named' = [a \in Addresses |-> named'[a]]
  BY <1>1 DEF Unnamed
<1>8. of' = [c \in Contexts |-> of'[c]]
  BY <1>1
<1> HIDE DEF held, o
<1>9. Typed'
  <2>1. of' \in [Contexts -> Runtimes \cup {None}]
    BY <1>3, <1>8 DEF IInv, Typed
  <2>2. named' \in [Addresses -> Contexts \cup {None}]
    BY <1>6, <1>7 DEF IInv, Typed
  <2>3. hook' \subseteq Runtimes
    BY <1>1
  <2>4. rts' \subseteq Runtimes
    BY <1>4
  <2>. QED BY <1>1, <1>4, <2>1, <2>2, <2>3, <2>4 DEF IInv, Typed
<1>10. Stack(stack)'
  BY <1>1 DEF Stack
<1>11. Born'
  <2>. SUFFICES ASSUME NEW c \in Contexts, of'[c] # None
                PROVE  of'[c] \in rts' /\ c \in born' /\ at'[c] \in Addresses
    BY DEF Born
  <2>1. of'[c] = of[c] /\ of[c] # None
    BY <1>3
  <2>2. of[c] \in rts /\ of[c] \in Runtimes /\ c \in born /\ at[c] \in Addresses
    BY <2>1 DEF IInv, Born, Typed
  <2>. QED BY <1>1, <1>5, <2>1, <2>2
<1>12. Sound(Held(mine, handler, stack))'
  <2>1. \A r \in Runtimes : r \in held => r \in rts'
    BY <1>5 DEF Sound, held
  <2>2. \A c \in Contexts : c \in held => of'[c] # None
    BY <1>3 DEF Sound, held
  <2>. QED BY <1>2, <2>1, <2>2 DEF Sound
<1>13. Hooked'
  <2>. SUFFICES ASSUME NEW r \in hook' PROVE r \in rts' /\ handler'[r] # None
    BY DEF Hooked
  <2>1. r \in k /\ r \in rts' 
    BY <1>1
  <2>. QED BY <1>1, <2>1
<1>14. FindsIt'
  <2>1. ASSUME NEW c \in Contexts, of'[c] # None PROVE named'[at'[c]] = c
    <3>1. of'[c] = of[c] /\ of[c] # None
      BY <1>3, <2>1
    <3>2. named[at[c]] = c /\ at[c] \in Addresses
      BY <3>1 DEF IInv, FindsIt, Born
    <3>. QED BY <1>1, <1>6, <2>1, <3>2
  <2>2. ASSUME NEW a \in Addresses, named'[a] # None
        PROVE  of'[named'[a]] # None /\ at'[named'[a]] = a
    <3>1. named'[a] = named[a] /\ named[a] # None /\ of'[named[a]] # None
      BY <1>6, <2>2
    <3>. QED BY <1>1, <3>1 DEF IInv, FindsIt
  <2>. QED BY <2>1, <2>2 DEF FindsIt
<1>15. Referred'
  BY <1>2, <1>3, <1>4 DEF Referred
<1>. QED BY <1>9, <1>10, <1>11, <1>12, <1>13, <1>14, <1>15 DEF IInv

-----------------------------------------------------------------------------
LEMMA AppendFacts ==
  ASSUME NEW S, NEW s \in Seq(S), NEW x \in S
  PROVE  /\ Append(s, x) \in Seq(S) /\ Len(Append(s, x)) = Len(s) + 1
         /\ \A i \in 1 .. Len(s) : Append(s, x)[i] = s[i]
         /\ Append(s, x)[Len(s) + 1] = x
BY AppendProperties

LEMMA FrontFacts ==
  ASSUME NEW S, NEW s \in Seq(S), Len(s) > 0
  PROVE  /\ Front(s) \in Seq(S) /\ Len(Front(s)) = Len(s) - 1
         /\ \A i \in 1 .. Len(s) - 1 : Front(s)[i] = s[i]
<1>1. Len(s) \in Nat /\ Len(s) >= 1
  BY LenProperties
<1>2. Front(s) = SubSeq(s, 1, Len(s) - 1)
  BY DEF Front
<1>3. \A i \in 1 .. Len(s) - 1 : s[i] \in S
  BY <1>1, ElementOfSeq
<1>4. /\ SubSeq(s, 1, Len(s) - 1) \in Seq(S)
      /\ Len(SubSeq(s, 1, Len(s) - 1)) = IF 1 <= Len(s) - 1 THEN Len(s) - 1 - 1 + 1 ELSE 0
      /\ \A i \in 1 .. Len(s) - 1 - 1 + 1 : SubSeq(s, 1, Len(s) - 1)[i] = s[1 + i - 1]
  BY <1>1, <1>3, SubSeqProperties
<1>5. Len(SubSeq(s, 1, Len(s) - 1)) = Len(s) - 1
  <2>1. CASE 1 <= Len(s) - 1
    <3>1. Len(s) - 1 - 1 + 1 = Len(s) - 1
      BY <1>1
    <3>. QED BY <1>4, <2>1, <3>1
  <2>2. CASE ~(1 <= Len(s) - 1)
    <3>1. Len(s) = 1
      <4>1. \A n \in Nat : n >= 1 /\ ~(1 <= n - 1) => n = 1
        OBVIOUS
      <4>. QED BY <1>1, <2>2, <4>1
    <3>. QED BY <1>4, <2>2, <3>1
  <2>. QED BY <2>1, <2>2
<1>6. ASSUME NEW i \in 1 .. Len(s) - 1
      PROVE  SubSeq(s, 1, Len(s) - 1)[i] = s[i]
  <2>1. i \in 1 .. Len(s) - 1 - 1 + 1 /\ 1 + i - 1 = i
    BY <1>1
  <2>. QED BY <1>4, <2>1
<1>. QED BY <1>2, <1>4, <1>5, <1>6

\* A frame is of one of two kinds.
LEMMA FrameFacts ==
  ASSUME NEW s \in Seq(Frame), NEW i \in 1 .. Len(s)
  PROVE  /\ s[i] \in Frame
         /\ s[i].kind = "script" \/ s[i].kind = "handler"
         /\ s[i].kind = "script" => s[i].is \in Contexts /\ s[i].in \in BOOLEAN
         /\ s[i].kind = "handler" => s[i].is \in Handlers
<1>1. s[i] \in Frame
  BY ElementOfSeq
<1>. QED BY <1>1 DEF Frame

LEMMA DomainFacts ==
  ASSUME NEW s \in Seq(Frame)
  PROVE  DOMAIN s = 1 .. Len(s) /\ Len(s) \in Nat
BY LenProperties

\* The stack t refers to no more than s, as far as each of its frames is one of
\* s, but for the instruction it may be in.
LEMMA LessReferred ==
  ASSUME NEW s \in Seq(Frame), NEW t \in Seq(Frame), NEW m, NEW h,
         \A i \in 1 .. Len(t) : \E j \in 1 .. Len(s) : t[i].kind = s[j].kind /\ t[i].is = s[j].is
  PROVE  Held(m, h, t) \subseteq Held(m, h, s)
<1>1. DOMAIN s = 1 .. Len(s) /\ DOMAIN t = 1 .. Len(t)
  BY DomainFacts
<1>2. ASSUME NEW kind, NEW x \in In(t, kind)
      PROVE  x \in In(s, kind)
  <2>1. PICK i \in 1 .. Len(t) : t[i].kind = kind /\ x = t[i].is
    BY <1>1, <1>2 DEF In
  <2>2. PICK j \in 1 .. Len(s) : t[i].kind = s[j].kind /\ t[i].is = s[j].is
    OBVIOUS
  <2>. QED BY <1>1, <2>1, <2>2 DEF In
<1>3. Running(t) \subseteq Running(s)
  BY <1>2 DEF Running
<1>4. Caught(h, t) \subseteq Caught(h, s)
  BY <1>2 DEF Caught
<1>. QED BY <1>3, <1>4 DEF Held

LEMMA FrontStack ==
  ASSUME NEW s, Stack(s), Len(s) > 0
  PROVE  /\ Front(s) \in Seq(Frame) /\ Len(Front(s)) = Len(s) - 1
         /\ \A i \in 1 .. Len(s) - 1 : Front(s)[i] = s[i]
         /\ Stack(Front(s))
         /\ \A m, h : Held(m, h, Front(s)) \subseteq Held(m, h, s)
<1>1. /\ Front(s) \in Seq(Frame) /\ Len(Front(s)) = Len(s) - 1 /\ Len(s) \in Nat
      /\ \A i \in 1 .. Len(s) - 1 : Front(s)[i] = s[i]
  BY FrontFacts, LenProperties DEF Stack
<1>2. Stack(Front(s))
  <2>1. MaxDepth \in Nat
    BY DepthAssumption
  <2>2. Len(s) - 1 < MaxDepth
    BY <1>1, <2>1 DEF Stack
  <2>3. ASSUME NEW i \in 1 .. Len(s) - 1, Front(s)[i].kind = "handler"
        PROVE  i > 1 /\ Front(s)[i - 1].kind = "script" /\ ~Front(s)[i - 1].in
    <3>1. i \in 1 .. Len(s) /\ s[i].kind = "handler"
      BY <1>1, <2>3
    <3>2. i > 1 /\ s[i - 1].kind = "script" /\ ~s[i - 1].in
      BY <3>1 DEF Stack
    <3>3. i - 1 \in 1 .. Len(s) - 1
      BY <1>1, <3>2
    <3>. QED BY <1>1, <3>2, <3>3
  <2>4. ASSUME NEW i \in 1 .. Len(s) - 2, Front(s)[i].kind = "script"
        PROVE  Front(s)[i].in \/ Front(s)[i + 1].kind = "handler"
    <3>1. i \in 1 .. Len(s) - 1 /\ i + 1 \in 1 .. Len(s) - 1
      BY <1>1
    <3>. QED BY <1>1, <2>4, <3>1 DEF Stack
  <2>5. Len(s) - 1 - 1 = Len(s) - 2 /\ Len(s) - 1 <= MaxDepth
    BY <1>1, <2>1, <2>2
  <2>. QED BY <1>1, <2>2, <2>3, <2>4, <2>5 DEF Stack
<1>3. \A i \in 1 .. Len(s) - 1 : i \in 1 .. Len(s)
  BY <1>1
<1>4. \A m, h : Held(m, h, Front(s)) \subseteq Held(m, h, s)
  BY <1>1, <1>3, LessReferred DEF Stack
<1>. QED BY <1>1, <1>2, <1>4

\* An instruction of the script at the top begins or ends.
LEMMA InStack ==
  ASSUME NEW s, Stack(s), Len(s) > 0, s[Len(s)].kind = "script", NEW b \in BOOLEAN
  PROVE  /\ Stack([s EXCEPT ![Len(s)].in = b])
         /\ \A m, h : Held(m, h, [s EXCEPT ![Len(s)].in = b]) = Held(m, h, s)
<1> DEFINE n == Len(s)
           t == [s EXCEPT ![n].in = b]
<1>1. n \in Nat /\ n \in 1 .. n /\ DOMAIN s = 1 .. n /\ s \in Seq(Frame)
  BY DomainFacts DEF Stack
<1>2. /\ DOMAIN t = 1 .. n /\ t[n] = [s[n] EXCEPT !.in = b]
      /\ \A i \in 1 .. n : i # n => t[i] = s[i]
  BY <1>1
<1>3. s[n] \in [kind: {"script"}, is: Contexts, in: BOOLEAN]
  BY <1>1, ElementOfSeq DEF Frame
<1>4. t[n] \in Frame /\ t[n].kind = "script" /\ t[n].is = s[n].is
  BY <1>2, <1>3 DEF Frame
<1>5. t = [i \in 1 .. n |-> t[i]]
  BY <1>1
<1> HIDE DEF t
<1>6. ASSUME NEW i \in 1 .. n
      PROVE  t[i] \in Frame /\ t[i].kind = s[i].kind /\ t[i].is = s[i].is
  <2>1. CASE i = n
    BY <1>4, <2>1
  <2>2. CASE i # n
    <3>1. t[i] = s[i] /\ s[i] \in Frame
      BY <1>1, <1>2, <2>2, ElementOfSeq
    <3>. QED BY <3>1
  <2>. QED BY <2>1, <2>2
<1>7. t \in Seq(Frame) /\ Len(t) = n
  <2>1. t \in [1 .. n -> Frame]
    BY <1>5, <1>6
  <2>2. t \in Seq(Frame)
    BY <1>1, <2>1, SeqDef
  <2>. QED BY <1>1, <1>2, <2>2, LenProperties
<1>8. Stack(t)
  <2>1. ASSUME NEW i \in 1 .. n, t[i].kind = "handler"
        PROVE  i > 1 /\ t[i - 1].kind = "script" /\ ~t[i - 1].in
    <3>1. i > 1 /\ s[i - 1].kind = "script" /\ ~s[i - 1].in
      BY <1>6, <2>1 DEF Stack
    <3>2. i - 1 \in 1 .. n /\ i - 1 # n
      BY <1>1, <3>1
    <3>. QED BY <1>2, <3>1, <3>2
  <2>2. ASSUME NEW i \in 1 .. n - 1, t[i].kind = "script"
        PROVE  t[i].in \/ t[i + 1].kind = "handler"
    <3>1. i \in 1 .. n /\ i # n /\ i + 1 \in 1 .. n
      <4>1. \A l \in Nat : \A j \in 1 .. l - 1 : j \in 1 .. l /\ j # l /\ j + 1 \in 1 .. l
        OBVIOUS
      <4>. QED BY <1>1, <4>1
    <3>2. s[i].in \/ s[i + 1].kind = "handler"
      BY <1>6, <2>2, <3>1 DEF Stack
    <3>. QED BY <1>2, <1>6, <3>1, <3>2
  <2>3. n <= MaxDepth /\ n < MaxDepth
    BY DEF Stack
  <2>. QED BY <1>7, <2>1, <2>2, <2>3 DEF Stack
<1>9. ASSUME NEW m, NEW h PROVE Held(m, h, t) = Held(m, h, s)
  <2>1. \A i \in 1 .. Len(t) : \E j \in 1 .. Len(s) : t[i].kind = s[j].kind /\ t[i].is = s[j].is
    BY <1>6, <1>7
  <2>2. \A i \in 1 .. Len(s) : \E j \in 1 .. Len(t) : s[i].kind = t[j].kind /\ s[i].is = t[j].is
    BY <1>6, <1>7
  <2>3. Held(m, h, t) \subseteq Held(m, h, s)
    BY <1>1, <1>7, <2>1, LessReferred
  <2>4. Held(m, h, s) \subseteq Held(m, h, t)
    BY <1>1, <1>7, <2>2, LessReferred
  <2>. QED BY <2>3, <2>4
<1>. QED BY <1>8, <1>9 DEF t

\* A script, or a handler, is put above what may be below it.
LEMMA AppendStack ==
  ASSUME NEW s, Stack(s), NEW f \in Frame, Len(s) < MaxDepth,
         f.kind = "script" => Len(s) + 1 < MaxDepth,
         f.kind = "script" /\ Len(s) > 0 => s[Len(s)].kind = "handler" \/ s[Len(s)].in,
         f.kind = "handler" => Len(s) > 0 /\ s[Len(s)].kind = "script" /\ ~s[Len(s)].in
  PROVE  /\ Stack(Append(s, f))
         /\ \A m, h : Held(m, h, s) \subseteq Held(m, h, Append(s, f))
         /\ \A m, h : Held(m, h, Append(s, f)) \subseteq
              Held(m, h, s) \cup (IF f.kind = "script" THEN {f.is} ELSE Holds[f.is])
<1> DEFINE n == Len(s)
           t == Append(s, f)
<1>1. n \in Nat /\ s \in Seq(Frame) /\ MaxDepth \in Nat
  BY DepthAssumption, LenProperties DEF Stack
<1>2. t \in Seq(Frame) /\ Len(t) = n + 1 /\ t[n + 1] = f /\ \A i \in 1 .. n : t[i] = s[i]
  BY <1>1, AppendFacts
<1>3. f.kind = "script" \/ f.kind = "handler"
  BY DEF Frame
<1>4. DOMAIN s = 1 .. n /\ DOMAIN t = 1 .. (n + 1)
  BY <1>1, <1>2, DomainFacts
<1> HIDE DEF t
<1>5. Stack(t)
  <2>1. ASSUME NEW i \in 1 .. (n + 1), t[i].kind = "handler"
        PROVE  i > 1 /\ t[i - 1].kind = "script" /\ ~t[i - 1].in
    <3>1. CASE i = n + 1
      <4>1. n > 0 /\ n \in 1 .. n /\ i - 1 = n /\ s[n].kind = "script" /\ ~s[n].in
        BY <1>1, <1>2, <2>1, <3>1
      <4>. QED BY <1>1, <1>2, <4>1
    <3>2. CASE i # n + 1
      <4>1. i \in 1 .. n
        BY <1>1, <3>2
      <4>2. i > 1 /\ s[i - 1].kind = "script" /\ ~s[i - 1].in
        BY <1>2, <2>1, <4>1 DEF Stack
      <4>3. i - 1 \in 1 .. n
        BY <1>1, <4>1, <4>2
      <4>. QED BY <1>2, <4>2, <4>3
    <3>. QED BY <3>1, <3>2
  <2>2. ASSUME NEW i \in 1 .. n, t[i].kind = "script"
        PROVE  t[i].in \/ t[i + 1].kind = "handler"
    <3>1. CASE i = n
      <4>1. n > 0 /\ s[n].kind = "script" /\ t[i + 1] = f /\ t[i] = s[n]
        BY <1>1, <1>2, <2>2, <3>1
      <4>. QED BY <1>3, <4>1
    <3>2. CASE i # n
      <4>1. i \in 1 .. n - 1 /\ i + 1 \in 1 .. n
        BY <1>1, <3>2
      <4>. QED BY <1>2, <2>2, <4>1 DEF Stack
    <3>. QED BY <3>1, <3>2
  <2>3. n + 1 <= MaxDepth /\ n + 1 - 1 = n
    BY <1>1
  <2>. QED BY <1>2, <2>1, <2>2, <2>3 DEF Stack
<1>6. ASSUME NEW m, NEW h PROVE Held(m, h, s) \subseteq Held(m, h, t)
  <2>1. \A i \in 1 .. n : i \in 1 .. (n + 1)
    BY <1>1
  <2>2. \A i \in 1 .. n : \E j \in 1 .. (n + 1) : s[i].kind = t[j].kind /\ s[i].is = t[j].is
    BY <1>2, <2>1
  <2>. QED BY <1>1, <1>2, <2>2, LessReferred
<1>7. ASSUME NEW kind, NEW x \in In(t, kind)
      PROVE  x \in In(s, kind) \/ (f.kind = kind /\ x = f.is)
  <2>1. PICK i \in 1 .. (n + 1) : t[i].kind = kind /\ x = t[i].is
    BY <1>4, <1>7 DEF In
  <2>2. i \in 1 .. n \/ i = n + 1
    BY <1>1
  <2>. QED BY <1>2, <1>4, <2>1, <2>2 DEF In
<1>8. ASSUME NEW m, NEW h
      PROVE  Held(m, h, t) \subseteq Held(m, h, s) \cup (IF f.kind = "script" THEN {f.is} ELSE Holds[f.is])
  <2>1. \A x \in Running(t) : x \in Running(s) \/ (f.kind = "script" /\ x = f.is)
    BY <1>7 DEF Running
  <2>2. \A x \in Caught(h, t) : x \in Caught(h, s) \/ (f.kind = "handler" /\ x \in Holds[f.is])
    BY <1>7 DEF Caught
  <2>. QED BY <2>1, <2>2 DEF Held
<1>. QED BY <1>5, <1>6, <1>8 DEF t

-----------------------------------------------------------------------------
\* What the program can get at exists, and so does what it may make a closure
\* hold.
LEMMA ReachSound ==
  ASSUME IInv
  PROVE  /\ Sound(Reach) /\ None \notin Reach /\ Reach \subseteq born
         /\ Held(mine, handler, stack) \subseteq Reach \cup Caught(handler, stack)
<1> DEFINE root == mine \cup Running(stack) \cup UNION {Holds[h] : h \in In(stack, "handler")}
<1>1. root \subseteq Held(mine, handler, stack)
  BY DEF Held, Caught
<1>2. \A kind, x : x \in In(stack, kind) => \E i \in 1 .. Len(stack) : stack[i].kind = kind /\ stack[i].is = x
  BY DomainFacts DEF In, IInv, Stack
<1>3. In(stack, "script") \subseteq Contexts /\ In(stack, "handler") \subseteq Handlers
  BY <1>2, FrameFacts DEF IInv, Stack
<1>4. root \subseteq Runtimes \cup Contexts
  <2>1. \A h \in Handlers : Holds[h] \subseteq Runtimes \cup Contexts
    BY HandlersAssumption
  <2>. QED BY <1>3, <2>1 DEF Running, IInv, Typed
<1>5. \A c \in root \cap Contexts : of[c] # None /\ of[c] \in rts /\ of[c] \in Runtimes
  BY <1>1 DEF IInv, Sound, Born, Typed
<1>6. Reach = root \cup {of[c] : c \in root \cap Contexts}
  BY DEF Reach
<1>7. root \cup Caught(handler, stack) = Held(mine, handler, stack)
  BY DEF Held, Caught
<1> HIDE DEF root
<1>8. None \notin Reach
  BY <1>4, <1>5, <1>6, NoneAssumption
<1>9. Sound(Reach)
  <2>1. \A r \in Runtimes : r \in Reach => r \in rts
    BY <1>1, <1>5, <1>6 DEF IInv, Sound
  <2>2. \A c \in Contexts : c \in Reach => of[c] # None
    BY <1>1, <1>5, <1>6, NoneAssumption DEF IInv, Sound
  <2>. QED BY <2>1, <2>2 DEF Sound
<1>10. Reach \subseteq born
  <2>1. Reach \subseteq Runtimes \cup Contexts
    BY <1>4, <1>5, <1>6
  <2>. QED BY <1>9, <2>1 DEF Sound, IInv, Typed, Born
<1>. QED BY <1>6, <1>7, <1>8, <1>9, <1>10

\* Only the stack changes, and refers to what is there.
LEMMA Runs ==
  ASSUME IInv, UNCHANGED <<rts, of, at, born, mine, named, handler, hook>>, Stack(stack'),
         Held(mine, handler, stack) \subseteq Held(mine, handler, stack'),
         Sound(Held(mine, handler, stack'))
  PROVE  IInv'
<1>1. Held(mine, handler, stack)' = Held(mine, handler, stack')
  BY DEF Held, Running, Caught, In
<1>2. Sound(Held(mine, handler, stack))'
  BY <1>1 DEF Sound
<1>3. Referred'
  BY <1>1 DEF IInv, Referred
<1>4. Typed' /\ Stack(stack)' /\ Born' /\ Hooked' /\ FindsIt'
  BY DEF IInv, Typed, Stack, Born, Hooked, FindsIt
<1>. QED BY <1>2, <1>3, <1>4 DEF IInv

LEMMA InitOK == Init => IInv
<1>. SUFFICES ASSUME Init PROVE IInv
  OBVIOUS
<1>1. stack = <<>> /\ Len(stack) = 0 /\ stack \in Seq(Frame) /\ DOMAIN stack = {}
  BY DEF Init
<1>2. Held(mine, handler, stack) = {}
  <2>1. In(stack, "script") = {} /\ In(stack, "handler") = {}
    BY <1>1 DEF In
  <2>2. {handler[r] : r \in Runtimes} \ {None} = {}
    BY DEF Init
  <2>3. Caught(handler, stack) = {}
    BY <2>1, <2>2 DEF Caught
  <2>. QED BY <2>1, <2>3 DEF Held, Running, Init
<1>3. Stack(stack)
  BY <1>1, DepthAssumption DEF Stack
<1>4. Typed
  BY DEF Init, Typed
<1>5. Born /\ Hooked /\ FindsIt
  BY DEF Init, Born, Hooked, FindsIt
<1>6. Sound(Held(mine, handler, stack)) /\ Referred
  BY <1>2 DEF Sound, Referred, Init
<1>. QED BY <1>3, <1>4, <1>5, <1>6 DEF IInv

-----------------------------------------------------------------------------
LEMMA CreateRuntimeOK ==
  ASSUME IInv, NEW r \in Runtimes, CreateRuntime(r)
  PROVE  IInv'
<1>1. /\ rts' = rts \cup {r} /\ born' = born \cup {r} /\ mine' = mine \cup {r}
      /\ UNCHANGED <<of, at, named, handler, hook, stack>>
  BY DEF CreateRuntime
<1>2. Held(mine, handler, stack)' = Held(mine, handler, stack) \cup {r}
  BY <1>1 DEF Held, Running, Caught, In
<1>3. r \notin Contexts
  BY NoneAssumption
<1>4. Sound(Held(mine, handler, stack))'
  BY <1>1, <1>2, <1>3 DEF IInv, Sound
<1>5. Referred'
  BY <1>1, <1>2 DEF IInv, Referred
<1>6. Typed' /\ Stack(stack)' /\ Born' /\ Hooked' /\ FindsIt'
  BY <1>1 DEF IInv, Typed, Stack, Born, Hooked, FindsIt
<1>. QED BY <1>4, <1>5, <1>6 DEF IInv

LEMMA CreateContextOK ==
  ASSUME IInv, NEW c \in Contexts, NEW r \in Runtimes, NEW a \in Addresses, CreateContext(c, r, a)
  PROVE  IInv'
<1>1. /\ r \in Reach /\ c \notin born /\ \A d \in Contexts : of[d] # None => at[d] # a
      /\ of' = [of EXCEPT ![c] = r] /\ at' = [at EXCEPT ![c] = a]
      /\ named' = [named EXCEPT ![a] = c]
      /\ born' = born \cup {c} /\ mine' = mine \cup {c}
      /\ UNCHANGED <<rts, handler, hook, stack>>
  BY DEF CreateContext, Named
<1>2. r \in rts /\ r # None
  BY <1>1, ReachSound, NoneAssumption DEF Sound
<1>3. Held(mine, handler, stack)' = Held(mine, handler, stack) \cup {c}
  BY <1>1 DEF Held, Running, Caught, In
<1>4. c \notin Runtimes /\ c # None
  BY NoneAssumption
<1>5. /\ of'[c] = r /\ \A d \in Contexts : d # c => of'[d] = of[d]
      /\ at'[c] = a /\ \A d \in Contexts : d # c => at'[d] = at[d]
      /\ named'[a] = c /\ \A b \in Addresses : b # a => named'[b] = named[b]
  BY <1>1 DEF IInv, Typed
<1>6. of[c] = None
  BY <1>1 DEF IInv, Born
<1>7. Sound(Held(mine, handler, stack))'
  BY <1>1, <1>2, <1>3, <1>4, <1>5 DEF IInv, Sound
<1>8. Referred'
  <2>1. ASSUME NEW d \in Contexts, of'[d] # None
        PROVE  d \in Held(mine, handler, stack)'
    BY <1>3, <1>5, <2>1 DEF IInv, Referred
  <2>2. ASSUME NEW q \in rts'
        PROVE  q \in Held(mine, handler, stack)' \/ \E d \in Contexts : of'[d] = q
    <3>1. q # None
      BY <1>1, NoneAssumption DEF IInv, Typed
    <3>2. q \in Held(mine, handler, stack) \/ \E d \in Contexts : of[d] = q
      BY <1>1 DEF IInv, Referred
    <3>. QED BY <1>3, <1>5, <1>6, <3>1, <3>2
  <2>. QED BY <2>1, <2>2 DEF Referred
<1>9. Born'
  BY <1>1, <1>2, <1>5 DEF IInv, Born
<1>10. FindsIt'
  <2>1. ASSUME NEW d \in Contexts, of'[d] # None PROVE named'[at'[d]] = d
    <3>1. CASE d = c
      BY <1>5, <3>1
    <3>2. CASE d # c
      <4>1. of[d] # None /\ at[d] # a /\ at[d] \in Addresses /\ named[at[d]] = d
        BY <1>1, <1>5, <2>1, <3>2 DEF IInv, Born, FindsIt
      <4>. QED BY <1>5, <3>2, <4>1
    <3>. QED BY <3>1, <3>2
  <2>2. ASSUME NEW b \in Addresses, named'[b] # None
        PROVE  of'[named'[b]] # None /\ at'[named'[b]] = b
    <3>1. CASE b = a
      BY <1>2, <1>5, <3>1
    <3>2. CASE b # a
      <4>1. named'[b] = named[b] /\ named[b] \in Contexts /\ of[named[b]] # None /\ at[named[b]] = b
        BY <1>5, <2>2, <3>2 DEF IInv, Typed, FindsIt
      <4>. QED BY <1>5, <1>6, <4>1
    <3>. QED BY <3>1, <3>2
  <2>. QED BY <2>1, <2>2 DEF FindsIt
<1>11. Typed' /\ Stack(stack)' /\ Hooked'
  BY <1>1 DEF IInv, Typed, Stack, Hooked
<1>. QED BY <1>7, <1>8, <1>9, <1>10, <1>11 DEF IInv

LEMMA VariablesOK ==
  ASSUME IInv, NEW x \in Runtimes \cup Contexts, Drop(x) \/ Keep(x)
  PROVE  IInv'
<1>1. CASE Drop(x)
  <2>1. Settled(mine \ {x}, handler, stack, hook)
    BY <1>1 DEF Drop
  <2>2. Held(mine \ {x}, handler, stack) \subseteq Held(mine, handler, stack)
    BY DEF Held
  <2>3. Sound(Held(mine \ {x}, handler, stack))
    BY <2>2 DEF IInv, Sound
  <2>4. /\ mine \ {x} \subseteq born /\ handler \in [Runtimes -> Handlers \cup {None}] /\ Stack(stack)
        /\ hook \subseteq Runtimes /\ \A r \in hook : r \in rts /\ handler[r] # None
    BY DEF IInv, Typed, Hooked
  <2>. QED BY <2>1, <2>3, <2>4, Settles
<1>2. CASE Keep(x)
  <2>1. /\ x \in Reach /\ mine' = mine \cup {x}
        /\ UNCHANGED <<rts, of, at, born, named, handler, hook, stack>>
    BY <1>2 DEF Keep
  <2>2. Held(mine, handler, stack)' = Held(mine, handler, stack) \cup {x}
    BY <2>1 DEF Held, Running, Caught, In
  <2>3. Sound(Held(mine, handler, stack))'
    BY <2>1, <2>2, ReachSound DEF IInv, Sound
  <2>4. Referred'
    BY <2>1, <2>2 DEF IInv, Referred
  <2>5. Typed'
    BY <2>1, ReachSound DEF IInv, Typed
  <2>6. Stack(stack)' /\ Born' /\ Hooked' /\ FindsIt'
    BY <2>1 DEF IInv, Stack, Born, Hooked, FindsIt
  <2>. QED BY <2>3, <2>4, <2>5, <2>6 DEF IInv
<1>. QED BY <1>1, <1>2

LEMMA HandlerOK ==
  ASSUME IInv, NEW r \in Runtimes, RemoveHandler(r) \/ \E h \in Handlers : SetHandler(r, h)
  PROVE  IInv'
<1>1. ASSUME NEW g \in Handlers \cup {None}, NEW R, R \subseteq Handlers, R = {g} \ {None}
      PROVE  Held(mine, [handler EXCEPT ![r] = g], stack) \subseteq
               Held(mine, handler, stack) \cup UNION {Holds[k] : k \in R}
  <2>1. \A q \in Runtimes : [handler EXCEPT ![r] = g][q] = IF q = r THEN g ELSE handler[q]
    BY DEF IInv, Typed
  <2>2. {[handler EXCEPT ![r] = g][q] : q \in Runtimes} \ {None} \subseteq
          ({handler[q] : q \in Runtimes} \ {None}) \cup R
    BY <1>1, <2>1
  <2>3. Caught([handler EXCEPT ![r] = g], stack) \subseteq
          Caught(handler, stack) \cup UNION {Holds[k] : k \in R}
    BY <2>2 DEF Caught
  <2>. QED BY <2>3 DEF Held
<1>2. CASE RemoveHandler(r)
  <2>1. Settled(mine, [handler EXCEPT ![r] = None], stack, hook \ {r})
    BY <1>2 DEF RemoveHandler
  <2>2. Sound(Held(mine, [handler EXCEPT ![r] = None], stack))
    <3>1. {None} \ {None} = {} /\ {} \subseteq Handlers /\ UNION {Holds[k] : k \in {}} = {}
      OBVIOUS
    <3>2. Held(mine, [handler EXCEPT ![r] = None], stack) \subseteq Held(mine, handler, stack)
      BY <1>1, <3>1
    <3>. QED BY <3>2 DEF IInv, Sound
  <2>3. /\ mine \subseteq born /\ [handler EXCEPT ![r] = None] \in [Runtimes -> Handlers \cup {None}]
        /\ Stack(stack) /\ hook \ {r} \subseteq Runtimes
        /\ \A q \in hook \ {r} : q \in rts /\ [handler EXCEPT ![r] = None][q] # None
    BY DEF IInv, Typed, Hooked
  <2>. QED BY <2>1, <2>2, <2>3, Settles
<1>3. ASSUME NEW h \in Handlers, SetHandler(r, h) PROVE IInv'
  <2>1. /\ r \in Reach /\ Holds[h] \subseteq Reach
        /\ Settled(mine, [handler EXCEPT ![r] = h], stack, hook \cup {r})
    BY <1>3 DEF SetHandler
  <2>2. h # None
    BY NoneAssumption
  <2>3. Held(mine, [handler EXCEPT ![r] = h], stack) \subseteq Held(mine, handler, stack) \cup Reach
    <3>1. {h} \ {None} = {h} /\ UNION {Holds[k] : k \in {h}} = Holds[h]
      BY <2>2
    <3>. QED BY <1>1, <2>1, <3>1
  <2>4. Sound(Held(mine, [handler EXCEPT ![r] = h], stack))
    BY <2>3, ReachSound DEF IInv, Sound
  <2>5. /\ mine \subseteq born /\ [handler EXCEPT ![r] = h] \in [Runtimes -> Handlers \cup {None}]
        /\ Stack(stack) /\ hook \cup {r} \subseteq Runtimes
    BY DEF IInv, Typed
  <2>6. \A q \in hook \cup {r} : q \in rts /\ [handler EXCEPT ![r] = h][q] # None
    BY <2>1, <2>2, ReachSound DEF IInv, Typed, Hooked, Sound
  <2>. QED BY <2>1, <2>4, <2>5, <2>6, Settles
<1>. QED BY <1>2, <1>3

-----------------------------------------------------------------------------
\* Whatever is at the top of the stack, it is one of these.
LEMMA TopFacts ==
  ASSUME IInv, stack # <<>>
  PROVE  /\ Len(stack) > 0 /\ Len(stack) \in Nat /\ Top = stack[Len(stack)]
         /\ Len(stack) \in 1 .. Len(stack)
         /\ Top.kind = "script" \/ Top.kind = "handler"
         /\ Top.kind = "script" => Top.is \in Contexts /\ Top.in \in BOOLEAN /\ Len(stack) < MaxDepth
         /\ Top.kind = "handler" => Top.is \in Handlers
<1>1. stack \in Seq(Frame)
  BY DEF IInv, Stack
<1>2. Len(stack) > 0 /\ Len(stack) \in Nat /\ Len(stack) \in 1 .. Len(stack)
  BY <1>1, EmptySeq, LenProperties
<1>3. Top = stack[Len(stack)]
  BY DEF Top, Last
<1>. QED BY <1>1, <1>2, <1>3, FrameFacts DEF IInv, Stack

LEMMA RunOK ==
  ASSUME IInv, NEW c \in Contexts, Run(c)
  PROVE  IInv'
<1> DEFINE f == [kind |-> "script", is |-> c, in |-> FALSE]
<1>1. /\ c \in Reach /\ Len(stack) + 1 < MaxDepth /\ stack' = Append(stack, f)
      /\ UNCHANGED <<rts, of, at, born, mine, named, handler, hook>>
  BY DEF Run
<1>2. f \in Frame /\ f.kind = "script" /\ f.is = c
  BY DEF Frame
<1>3. Len(stack) \in Nat /\ Len(stack) < MaxDepth
  BY <1>1, DepthAssumption, LenProperties DEF IInv, Stack
<1>4. Len(stack) > 0 => stack[Len(stack)].kind = "handler" \/ stack[Len(stack)].in
  <2>1. Len(stack) > 0 => stack # <<>>
    OBVIOUS
  <2>. QED BY <2>1, TopFacts DEF Run, InPerl, Fetching
<1> HIDE DEF f
<1>5. /\ Stack(stack') /\ Held(mine, handler, stack) \subseteq Held(mine, handler, stack')
      /\ Held(mine, handler, stack') \subseteq Held(mine, handler, stack) \cup {c}
  BY <1>1, <1>2, <1>3, <1>4, AppendStack DEF IInv
<1>6. Sound(Held(mine, handler, stack'))
  BY <1>1, <1>5, ReachSound DEF IInv, Sound
<1>. QED BY <1>1, <1>5, <1>6, Runs

LEMMA FetchOK ==
  ASSUME IInv, Fetch \/ Continue
  PROVE  IInv'
<1>1. /\ stack # <<>> /\ Top.kind = "script"
      /\ UNCHANGED <<rts, of, at, born, mine, named, handler, hook>>
  BY DEF Fetch, Fetching, Continue
<1>2. PICK b \in BOOLEAN : stack' = [stack EXCEPT ![Len(stack)].in = b]
  BY DEF Fetch, Entered, Continue
<1>3. Stack(stack') /\ Held(mine, handler, stack') = Held(mine, handler, stack)
  BY <1>1, <1>2, TopFacts, InStack DEF IInv
<1>. QED BY <1>1, <1>3, Runs DEF IInv

LEMMA InterruptOK ==
  ASSUME IInv, Interrupt
  PROVE  IInv'
<1> DEFINE k == handler[of[Top.is]]
           f == [kind |-> "handler", is |-> k]
<1>1. /\ stack # <<>> /\ Top.kind = "script" /\ ~Top.in /\ of[Top.is] \in hook
      /\ stack' = Append(stack, f)
      /\ UNCHANGED <<rts, of, at, born, mine, named, handler, hook>>
  BY DEF Interrupt, Fetching
<1>2. k \in Handlers /\ of[Top.is] \in Runtimes
  BY <1>1 DEF IInv, Hooked, Typed
<1>3. k \in {handler[r] : r \in Runtimes} \ {None}
  BY <1>2, NoneAssumption
<1> HIDE DEF k
<1>4. f \in Frame /\ f.kind = "handler" /\ f.is = k
  BY <1>2 DEF Frame
<1> HIDE DEF f
<1>5. /\ Stack(stack') /\ Held(mine, handler, stack) \subseteq Held(mine, handler, stack')
      /\ Held(mine, handler, stack') \subseteq Held(mine, handler, stack) \cup Holds[k]
  BY <1>1, <1>4, TopFacts, AppendStack DEF IInv
<1>6. Holds[k] \subseteq Held(mine, handler, stack)
  BY <1>3 DEF Held, Caught
<1>7. Sound(Held(mine, handler, stack'))
  BY <1>5, <1>6 DEF IInv, Sound
<1>. QED BY <1>1, <1>5, <1>7, Runs

\* What is above is popped, and an instruction below may begin.
LEMMA PopOK ==
  ASSUME IInv, NEW s, Stack(s), Settled(mine, handler, s, hook),
         \A m, h : Held(m, h, s) \subseteq Held(m, h, stack)
  PROVE  IInv'
<1>1. Sound(Held(mine, handler, s))
  BY DEF IInv, Sound
<1>2. /\ mine \subseteq born /\ handler \in [Runtimes -> Handlers \cup {None}]
      /\ hook \subseteq Runtimes /\ \A r \in hook : r \in rts /\ handler[r] # None
  BY DEF IInv, Typed, Hooked
<1>. QED BY <1>1, <1>2, Settles

LEMMA AnswerOK ==
  ASSUME IInv, Answer
  PROVE  IInv'
<1>1. stack # <<>> /\ Top.kind = "handler"
  BY DEF Answer
<1>2. PICK yes \in Answers[Top.is] : Settled(mine, handler, Answered(stack, yes), hook)
  BY DEF Answer
<1> DEFINE n == Len(stack)
           f == Front(stack)
<1>3. n \in Nat /\ n > 1 /\ stack[n - 1].kind = "script" /\ Stack(stack)
  BY <1>1, TopFacts DEF IInv, Stack
<1>4. /\ Stack(f) /\ Len(f) = n - 1 /\ f[n - 1] = stack[n - 1]
      /\ \A m, h : Held(m, h, f) \subseteq Held(m, h, stack)
  <2>1. n - 1 \in 1 .. n - 1 /\ n > 0
    BY <1>3
  <2>. QED BY <1>3, <2>1, FrontStack
<1>5. Len(f) > 0
  BY <1>3, <1>4
<1> HIDE DEF f
<1>6. CASE yes
  <2>1. Answered(stack, yes) = [f EXCEPT ![Len(f)].in = TRUE]
    BY <1>6 DEF Answered, Entered, f
  <2>2. f[Len(f)].kind = "script"
    BY <1>3, <1>4
  <2>3. /\ Stack(Answered(stack, yes))
        /\ \A m, h : Held(m, h, Answered(stack, yes)) = Held(m, h, f)
    <3>1. TRUE \in BOOLEAN /\ Stack(f)
      BY <1>4
    <3>2. /\ Stack([f EXCEPT ![Len(f)].in = TRUE])
          /\ \A m, h : Held(m, h, [f EXCEPT ![Len(f)].in = TRUE]) = Held(m, h, f)
      BY <1>5, <2>2, <3>1, InStack
    <3>. QED BY <2>1, <3>2
  <2>4. \A m, h : Held(m, h, Answered(stack, yes)) \subseteq Held(m, h, stack)
    BY <1>4, <2>3
  <2>. QED BY <1>2, <2>3, <2>4, PopOK
<1>7. CASE ~yes
  <2>1. Answered(stack, yes) = Front(f)
    BY <1>7 DEF Answered, f
  <2>2. /\ Stack(Front(f))
        /\ \A m, h : Held(m, h, Front(f)) \subseteq Held(m, h, f)
    BY <1>4, <1>5, FrontStack
  <2>3. \A m, h : Held(m, h, Answered(stack, yes)) \subseteq Held(m, h, stack)
    BY <1>4, <2>1, <2>2
  <2>. QED BY <1>2, <2>1, <2>2, <2>3, PopOK
<1>. QED BY <1>6, <1>7

LEMMA FinishOK ==
  ASSUME IInv, Finish
  PROVE  IInv'
<1>1. stack # <<>> /\ Settled(mine, handler, Front(stack), hook)
  BY DEF Finish
<1>2. Stack(Front(stack)) /\ \A m, h : Held(m, h, Front(stack)) \subseteq Held(m, h, stack)
  BY <1>1, TopFacts, FrontStack DEF IInv
<1>. QED BY <1>1, <1>2, PopOK

-----------------------------------------------------------------------------
LEMMA NextOK == IInv /\ [Next]_vars => IInv'
<1>. SUFFICES ASSUME IInv, [Next]_vars PROVE IInv'
  OBVIOUS
<1>1. ASSUME NEW r \in Runtimes, CreateRuntime(r) PROVE IInv'
  BY <1>1, CreateRuntimeOK
<1>2. ASSUME NEW r \in Runtimes, RemoveHandler(r) PROVE IInv'
  BY <1>2, HandlerOK
<1>3. ASSUME NEW r \in Runtimes, NEW h \in Handlers, SetHandler(r, h) PROVE IInv'
  BY <1>3, HandlerOK
<1>4. ASSUME NEW c \in Contexts, NEW r \in Runtimes, NEW a \in Addresses, CreateContext(c, r, a)
      PROVE  IInv'
  BY <1>4, CreateContextOK
<1>5. ASSUME NEW x \in Runtimes \cup Contexts, Drop(x) \/ Keep(x) PROVE IInv'
  BY <1>5, VariablesOK
<1>6. ASSUME NEW c \in Contexts, Run(c) PROVE IInv'
  BY <1>6, RunOK
<1>7. CASE Engine
  BY <1>7, FetchOK, InterruptOK, AnswerOK DEF Engine
<1>8. CASE Finish
  BY <1>8, FinishOK
<1>9. CASE UNCHANGED vars
  <2>1. UNCHANGED <<rts, of, at, born, mine, named, handler, hook>> /\ stack' = stack
    BY <1>9 DEF vars
  <2>. QED BY <2>1, Runs DEF IInv
<1>. QED BY <1>1, <1>2, <1>3, <1>4, <1>5, <1>6, <1>7, <1>8, <1>9 DEF Next

\* Runtimes, contexts, names, handlers and the stack fit together in every
\* state (PJS_Context.c, TrapHandler.xs, Context.pm).
THEOREM RuntimeInvariance == Spec => []IInv
<1>. QED BY InitOK, NextOK, PTL DEF Spec

\* The stack of scripts and handlers, and every table, is of its type: a
\* handler is asked between two instructions only (PJS_trap_handler).
THEOREM RuntimeTypes == Spec => []TypeOK
<1>1. IInv => TypeOK
  BY DEF IInv, Typed, Stack, TypeOK
<1>. QED BY <1>1, RuntimeInvariance, PTL

\* What Perl can get at is not freed, and an interrupt finds its handler
\* (pcx->rrt, TrapHandler.xs:30-32), for every number of contexts and depth.
THEOREM Outlives == Spec => []Outlived
<1>1. IInv => Outlived
  BY ReachSound DEF IInv, Hooked, Sound, Outlived
<1>. QED BY <1>1, RuntimeInvariance, PTL

\* %Contexts leads from the address of every context to its handle, and from
\* nowhere else to one, however addresses are used again (Context.pm:32-40).
THEOREM Finds == Spec => []FindsIt
<1>1. IInv => FindsIt
  BY DEF IInv
<1>. QED BY <1>1, RuntimeInvariance, PTL

\* A runtime or a context that nothing refers to is gone: only what the
\* closures of the handlers hold can keep one (jsr_DESTROY, PJS_DestroyContext).
THEOREM Reclaims == Spec => []Reclaimed
<1>1. ASSUME IInv PROVE Reclaimed
  <2> DEFINE held == Reach \cup Caught(handler, stack)
             needed == held \cup {of[c] : c \in held \cap Contexts}
  <2>1. Held(mine, handler, stack) \subseteq held
    BY <1>1, ReachSound
  <2>2. \A c \in Contexts : of[c] # None => c \in held
    BY <1>1, <2>1 DEF IInv, Referred
  <2>3. ASSUME NEW r \in rts PROVE r \in needed
    <3>1. r \in Held(mine, handler, stack) \/ \E c \in Contexts : of[c] = r
      BY <1>1 DEF IInv, Referred
    <3>2. r # None
      BY <1>1, NoneAssumption DEF IInv, Typed
    <3>. QED BY <2>1, <2>2, <3>1, <3>2
  <2>. QED BY <2>2, <2>3 DEF Reclaimed
<1>. QED BY <1>1, RuntimeInvariance, PTL

=============================================================================
