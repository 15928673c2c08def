---------------------------- MODULE JSPCallProofs -----------------------------
EXTENDS JSPCall, SequenceTheorems, TLAPS

LEMMA AppendFacts ==
  ASSUME NEW S, NEW s \in Seq(S), NEW x \in S
  PROVE  /\ Append(s, x) \in Seq(S) /\ Len(Append(s, x)) = Len(s) + 1
         /\ \A i \in 1 .. Len(s) : Append(s, x)[i] = s[i]
         /\ Append(s, x)[Len(s) + 1] = x
BY AppendProperties

LEMMA FrontFacts ==
  ASSUME NEW S, NEW s \in Seq(S), Len(s) > 0
  PROVE  /\ Front(s) \in Seq(S) /\ Len(Front(s)) = Len(s) - 1
         /\ \A i \in 1 .. Len(s) - 1 : Front(s)[i] = s[i]
<1>1. Len(s) \in Nat /\ Len(s) >= 1
  BY LenProperties
<1>2. Front(s) = SubSeq(s, 1, Len(s) - 1)
  BY DEF Front
<1>3. \A i \in 1 .. Len(s) - 1 : s[i] \in S
  BY <1>1, ElementOfSeq
<1>4. /\ SubSeq(s, 1, Len(s) - 1) \in Seq(S)
      /\ Len(SubSeq(s, 1, Len(s) - 1)) = IF 1 <= Len(s) - 1 THEN Len(s) - 1 - 1 + 1 ELSE 0
      /\ \A i \in 1 .. Len(s) - 1 - 1 + 1 : SubSeq(s, 1, Len(s) - 1)[i] = s[1 + i - 1]
  BY <1>1, <1>3, SubSeqProperties
<1>5. Len(SubSeq(s, 1, Len(s) - 1)) = Len(s) - 1
  <2>1. CASE 1 <= Len(s) - 1
    <3>1. Len(s) - 1 - 1 + 1 = Len(s) - 1
      BY <1>1
    <3>. QED BY <1>4, <2>1, <3>1
  <2>2. CASE ~(1 <= Len(s) - 1)
    <3>1. Len(s) = 1
      <4>1. \A n \in Nat : n >= 1 /\ ~(1 <= n - 1) => n = 1
        OBVIOUS
      <4>. QED BY <1>1, <2>2, <4>1
    <3>. QED BY <1>4, <2>2, <3>1
  <2>. QED BY <2>1, <2>2
<1>6. ASSUME NEW i \in 1 .. Len(s) - 1
      PROVE  SubSeq(s, 1, Len(s) - 1)[i] = s[i]
  <2>1. i \in 1 .. Len(s) - 1 - 1 + 1 /\ 1 + i - 1 = i
    BY <1>1
  <2>. QED BY <1>4, <2>1
<1>. QED BY <1>2, <1>4, <1>5, <1>6

-----------------------------------------------------------------------------
\* What SequencesExt calls Front and Last, said of elements, and the languages
\* of a stack, which is what the abstract specification sees of it.
Langs(s) == [i \in DOMAIN s |-> s[i].lang]

LEMMA LangsFacts ==
  ASSUME NEW s \in Seq(Frame)
  PROVE  /\ Langs(s) \in Seq({"perl", "js"}) /\ Len(Langs(s)) = Len(s)
         /\ \A i \in 1 .. Len(s) : Langs(s)[i] = s[i].lang
<1>1. Len(s) \in Nat /\ DOMAIN s = 1 .. Len(s) /\ \A i \in 1 .. Len(s) : s[i] \in Frame
  BY LenProperties, ElementOfSeq
<1>2. \A i \in 1 .. Len(s) : s[i].lang \in {"perl", "js"}
  BY <1>1 DEF Frame
<1>3. Langs(s) \in Seq({"perl", "js"})
  BY <1>1, <1>2, SeqDef DEF Langs
<1>4. Len(Langs(s)) = Len(s)
  BY <1>1, <1>3, LenProperties DEF Langs
<1>. QED BY <1>1, <1>3, <1>4 DEF Langs

LEMMA LangsAppend ==
  ASSUME NEW s \in Seq(Frame), NEW f \in Frame
  PROVE  Langs(Append(s, f)) = Append(Langs(s), f.lang)
<1>1. f.lang \in {"perl", "js"}
  BY DEF Frame
<1>2. Append(s, f) \in Seq(Frame) /\ Len(Append(s, f)) = Len(s) + 1 /\ Len(s) \in Nat
  BY AppendFacts, LenProperties
<1>3. /\ Langs(Append(s, f)) \in Seq({"perl", "js"}) /\ Len(Langs(Append(s, f))) = Len(s) + 1
      /\ \A i \in 1 .. Len(s) + 1 : Langs(Append(s, f))[i] = Append(s, f)[i].lang
  BY <1>2, LangsFacts
<1>4. /\ Append(Langs(s), f.lang) \in Seq({"perl", "js"})
      /\ Len(Append(Langs(s), f.lang)) = Len(s) + 1
      /\ \A i \in 1 .. Len(s) : Append(Langs(s), f.lang)[i] = s[i].lang
      /\ Append(Langs(s), f.lang)[Len(s) + 1] = f.lang
  BY <1>1, LangsFacts, AppendFacts
<1>5. \A i \in 1 .. Len(s) + 1 : Langs(Append(s, f))[i] = Append(Langs(s), f.lang)[i]
  BY <1>2, <1>3, <1>4, AppendFacts
<1>. QED BY <1>3, <1>4, <1>5, SeqEqual

LEMMA LangsFront ==
  ASSUME NEW s \in Seq(Frame), Len(s) > 0
  PROVE  Langs(Front(s)) = Front(Langs(s))
<1>1. Front(s) \in Seq(Frame) /\ Len(Front(s)) = Len(s) - 1 /\ Len(s) \in Nat
  BY FrontFacts, LenProperties
<1>2. /\ Langs(Front(s)) \in Seq({"perl", "js"}) /\ Len(Langs(Front(s))) = Len(s) - 1
      /\ \A i \in 1 .. Len(s) - 1 : Langs(Front(s))[i] = Front(s)[i].lang
  BY <1>1, LangsFacts
<1>3. /\ Front(Langs(s)) \in Seq({"perl", "js"}) /\ Len(Front(Langs(s))) = Len(s) - 1
      /\ \A i \in 1 .. Len(s) - 1 : Front(Langs(s))[i] = Langs(s)[i]
  BY LangsFacts, FrontFacts
<1>4. ASSUME NEW i \in 1 .. Len(s) - 1
      PROVE  Langs(Front(s))[i] = Front(Langs(s))[i]
  <2>1. i \in 1 .. Len(s)
    BY <1>1
  <2>2. Langs(s)[i] = s[i].lang
    BY <2>1, LangsFacts
  <2>3. Front(s)[i] = s[i]
    BY FrontFacts
  <2>. QED BY <1>2, <1>3, <2>2, <2>3
<1>. QED BY <1>2, <1>3, <1>4, SeqEqual

-----------------------------------------------------------------------------
Shape(s) ==
  /\ s \in Seq(Frame) /\ Len(s) \in 1 .. (MaxDepth + 1)
  /\ s[1].lang = "perl"
  /\ \A i \in 2 .. Len(s) : s[i].lang # s[i - 1].lang
  /\ \A i \in 1 .. Len(s) : s[i].lang = "js" => s[i].cx \in Contexts

\* The context that called the frame of Perl at i, and that each such frame has
\* saved the one of the frame of Perl below it.
Caller(s, i) == IF i < 2 THEN Nobody ELSE s[i - 1].cx
Saved(s) == \A i \in 1 .. Len(s) : s[i].lang = "perl" => s[i].cx = Caller(s, i - 2)

LEMMA EnterShape ==
  ASSUME NEW s, Shape(s), Saved(s), Len(s) <= MaxDepth, NEW f \in Frame,
         f.lang # s[Len(s)].lang, f.lang = "js" => f.cx \in Contexts,
         f.lang = "perl" => f.cx = Caller(s, Len(s) - 1)
  PROVE  /\ Shape(Append(s, f)) /\ Saved(Append(s, f))
         /\ Len(Append(s, f)) = Len(s) + 1 /\ Append(s, f)[Len(s) + 1] = f
         /\ \A i \in 1 .. Len(s) : Append(s, f)[i] = s[i]
<1>. DEFINE t == Append(s, f)
<1>1. /\ t \in Seq(Frame) /\ Len(t) = Len(s) + 1 /\ t[Len(s) + 1] = f
      /\ \A i \in 1 .. Len(s) : t[i] = s[i]
  BY AppendFacts DEF Shape
<1>2. Len(s) \in Nat /\ Len(s) >= 1 /\ MaxDepth \in Nat
  BY DepthAssumption DEF Shape
<1>. HIDE DEF t
<1>3. Shape(t)
  <2>1. t[1].lang = "perl"
    BY <1>1, <1>2 DEF Shape
  <2>2. ASSUME NEW i \in 2 .. Len(t) PROVE t[i].lang # t[i - 1].lang
    <3>1. i - 1 \in 1 .. Len(s) /\ (i = Len(s) + 1 \/ i \in 2 .. Len(s))
      BY <1>1, <1>2
    <3>. QED BY SMTT(30), <1>1, <1>2, <3>1 DEF Shape
  <2>3. ASSUME NEW i \in 1 .. Len(t), t[i].lang = "js" PROVE t[i].cx \in Contexts
    <3>1. i = Len(s) + 1 \/ i \in 1 .. Len(s)
      BY <1>1, <1>2
    <3>. QED BY <1>1, <2>3, <3>1 DEF Shape
  <2>. QED BY <1>1, <1>2, <2>1, <2>2, <2>3 DEF Shape
<1>4. Saved(t)
  <2>. SUFFICES ASSUME NEW i \in 1 .. Len(t), t[i].lang = "perl"
                PROVE  t[i].cx = Caller(t, i - 2)
    BY DEF Saved
  <2>1. CASE i = Len(s) + 1
    BY <1>1, <1>2, <2>1 DEF Caller
  <2>2. CASE i \in 1 .. Len(s)
    BY <1>1, <1>2, <2>2 DEF Caller, Saved
  <2>. QED BY <1>1, <1>2, <2>1, <2>2
<1>. QED BY <1>1, <1>3, <1>4 DEF t

LEMMA LeaveShape ==
  ASSUME NEW s, Shape(s), Saved(s), Len(s) > 1
  PROVE  /\ Shape(Front(s)) /\ Saved(Front(s)) /\ Len(Front(s)) = Len(s) - 1
         /\ \A i \in 1 .. Len(s) - 1 : Front(s)[i] = s[i]
<1>. DEFINE t == Front(s)
<1>1. Len(s) \in Nat /\ Len(s) >= 1 /\ MaxDepth \in Nat
  BY DepthAssumption DEF Shape
<1>2. /\ t \in Seq(Frame) /\ Len(t) = Len(s) - 1
      /\ \A i \in 1 .. Len(s) - 1 : t[i] = s[i]
  BY <1>1, FrontFacts DEF Shape
<1>. HIDE DEF t
<1>3. Shape(t)
  <2>1. t[1].lang = "perl"
    BY <1>1, <1>2 DEF Shape
  <2>2. ASSUME NEW i \in 2 .. Len(t) PROVE t[i].lang # t[i - 1].lang
    <3>1. i - 1 \in 1 .. Len(s) - 1 /\ i \in 1 .. Len(s) - 1 /\ i \in 2 .. Len(s)
      BY <1>1, <1>2
    <3>. QED BY <1>2, <3>1 DEF Shape
  <2>3. ASSUME NEW i \in 1 .. Len(t), t[i].lang = "js" PROVE t[i].cx \in Contexts
    BY <1>1, <1>2, <2>3 DEF Shape
  <2>. QED BY <1>1, <1>2, <2>1, <2>2, <2>3 DEF Shape
<1>4. Saved(t)
  BY <1>1, <1>2 DEF Saved, Caller
<1>. QED BY <1>2, <1>3, <1>4 DEF t

-----------------------------------------------------------------------------
Running == IF Top.lang = "perl" THEN Len(stack) ELSE Len(stack) - 1

\* The inductive invariant of CURRENT: the chain of what the calls saved.
CurrentInv ==
  /\ Shape(stack) /\ Saved(stack) /\ current = Caller(stack, Running)
  /\ unwinds \in BOOLEAN /\ err \in Thrown /\ told \in Thrown
  /\ pending \in [Contexts -> Thrown] /\ raise \in [Contexts -> BOOLEAN]
  /\ current \in Contexts \union {Nobody} /\ stale \in BOOLEAN /\ falsy \in BOOLEAN

LEMMA TopFacts ==
  ASSUME CurrentInv
  PROVE  /\ Top = stack[Len(stack)] /\ Len(stack) \in Nat /\ Len(stack) >= 1
         /\ Top.lang \in {"perl", "js"}
         /\ Top.lang = "js" => Top.cx \in Contexts /\ Len(stack) > 1
         /\ Len(stack) > 1 /\ Top.lang = "perl" =>
              stack[Len(stack) - 1].lang = "js" /\ stack[Len(stack) - 1].cx \in Contexts
<1>1. Top = stack[Len(stack)] /\ Len(stack) \in Nat /\ Len(stack) >= 1
  BY DepthAssumption DEF Top, Last, CurrentInv, Shape
<1>2. \A i \in 1 .. Len(stack) : stack[i] \in Frame
  BY ElementOfSeq DEF CurrentInv, Shape
<1>3. Top.lang \in {"perl", "js"}
  BY <1>1, <1>2 DEF Frame
<1>4. Top.lang = "js" => Top.cx \in Contexts /\ Len(stack) > 1
  BY <1>1 DEF CurrentInv, Shape
<1>5. ASSUME Len(stack) > 1, Top.lang = "perl"
      PROVE  stack[Len(stack) - 1].lang = "js" /\ stack[Len(stack) - 1].cx \in Contexts
  <2>1. Len(stack) \in 2 .. Len(stack) /\ Len(stack) - 1 \in 1 .. Len(stack)
    BY <1>1, <1>5
  <2>2. stack[Len(stack) - 1].lang \in {"perl", "js"}
    BY <1>2, <2>1 DEF Frame
  <2>. QED BY <1>1, <1>5, <2>1, <2>2 DEF CurrentInv, Shape
<1>. QED BY <1>1, <1>3, <1>4, <1>5

\* How each kind of step moves the stack and CURRENT.
LEMMA EnterStep ==
  ASSUME CurrentInv, NEW f \in Frame, Enter(f), f.lang # Top.lang,
         \/ f.lang = "js" /\ f.cx \in Contexts /\ current' = current
         \/ f.lang = "perl" /\ f.cx = current /\ current' = Top.cx
  PROVE  Shape(stack)' /\ Saved(stack)' /\ current' = Caller(stack, Running)'
         /\ current' \in Contexts \union {Nobody} /\ unwinds' \in BOOLEAN
         /\ Len(stack') = Len(stack) + 1 /\ Top' = f
<1>1. Shape(stack) /\ Saved(stack) /\ Len(stack) <= MaxDepth /\ stack' = Append(stack, f)
  BY DEF Enter, CurrentInv
<1>2. f.lang # stack[Len(stack)].lang /\ (f.lang = "js" => f.cx \in Contexts)
  BY TopFacts
<1>3. f.lang = "perl" => f.cx = Caller(stack, Len(stack) - 1)
  BY TopFacts DEF CurrentInv, Running
<1>4. /\ Shape(stack') /\ Saved(stack') /\ Len(stack') = Len(stack) + 1
      /\ stack'[Len(stack) + 1] = f /\ \A i \in 1 .. Len(stack) : stack'[i] = stack[i]
  BY <1>1, <1>2, <1>3, EnterShape
<1>5. Top' = f
  BY <1>4 DEF Top, Last
<1>6. current' = Caller(stack', IF f.lang = "perl" THEN Len(stack') ELSE Len(stack') - 1)
  <2>1. CASE f.lang = "js"
    <3>1. Top.lang = "perl"
      BY <2>1, TopFacts
    <3>. QED BY <1>4, <2>1, <3>1, TopFacts DEF CurrentInv, Running, Caller
  <2>2. CASE f.lang = "perl"
    <3>1. current' = stack[Len(stack)].cx
      BY <2>2, TopFacts
    <3>. QED BY <1>4, <2>2, <3>1, TopFacts DEF Caller
  <2>. QED BY <2>1, <2>2 DEF Frame
<1>7. current' \in Contexts \union {Nobody}
  BY TopFacts DEF CurrentInv
<1>. QED BY <1>4, <1>5, <1>6, <1>7 DEF Enter, Running, Shape, Saved, Caller, Frame

LEMMA LeaveStep ==
  ASSUME CurrentInv, Len(stack) > 1, NEW b \in BOOLEAN, Leave(b),
         \/ Top.lang = "js" /\ current' = current
         \/ Top.lang = "perl" /\ current' = Top.cx
  PROVE  Shape(stack)' /\ Saved(stack)' /\ current' = Caller(stack, Running)'
         /\ current' \in Contexts \union {Nobody} /\ unwinds' \in BOOLEAN
         /\ Len(stack') = Len(stack) - 1 /\ Top' = stack[Len(stack) - 1]
         /\ Top'.lang \in {"perl", "js"} /\ Top'.lang # Top.lang
<1>1. Shape(stack) /\ Saved(stack) /\ stack' = Front(stack)
  BY DEF Leave, CurrentInv
<1>2. /\ Shape(stack') /\ Saved(stack') /\ Len(stack') = Len(stack) - 1
      /\ \A i \in 1 .. Len(stack) - 1 : stack'[i] = stack[i]
  BY <1>1, LeaveShape
<1>3. Top' = stack[Len(stack) - 1]
  BY <1>2, TopFacts DEF Top, Last
<1>4. Top'.lang # Top.lang /\ Top'.lang \in {"perl", "js"}
  <2>1. Len(stack) \in 2 .. Len(stack) /\ Len(stack) - 1 \in 1 .. Len(stack)
    BY TopFacts
  <2>2. stack[Len(stack) - 1] \in Frame
    BY <1>1, <2>1, ElementOfSeq DEF Shape
  <2>. QED BY <1>1, <1>3, <2>1, <2>2, TopFacts DEF Shape, Frame
<1>5. current' = Caller(stack', IF Top'.lang = "perl" THEN Len(stack') ELSE Len(stack') - 1)
  <2>1. CASE Top.lang = "js"
    BY <1>2, <1>4, <2>1, TopFacts DEF CurrentInv, Running, Caller
  <2>2. CASE Top.lang = "perl"
    <3>1. current' = Caller(stack, Len(stack) - 2)
      BY <2>2, <1>1, TopFacts DEF Saved
    <3>. QED BY <1>2, <1>4, <2>2, <3>1, TopFacts DEF Caller
  <2>. QED BY <2>1, <2>2, TopFacts
<1>6. current' \in Contexts \union {Nobody}
  <2>1. stack[Len(stack)] \in Frame
    BY <1>1, TopFacts, ElementOfSeq DEF Shape
  <2>2. Top.cx \in Contexts \union {Nobody}
    BY <2>1, TopFacts DEF Frame
  <2>. QED BY <2>2 DEF CurrentInv
<1>. QED BY <1>2, <1>3, <1>4, <1>5, <1>6 DEF Leave, Running, Shape, Saved, Caller, Frame

-----------------------------------------------------------------------------
LEMMA CurrentInit == Init => CurrentInv
<1>. SUFFICES ASSUME Init PROVE CurrentInv
  OBVIOUS
<1>1. Perl(Nobody) \in Frame
  BY DEF Perl, Frame
<1>2. stack \in Seq(Frame) /\ Len(stack) = 1 /\ stack[1] = Perl(Nobody)
  BY <1>1 DEF Init
<1>3. Shape(stack)
  BY <1>2, DepthAssumption DEF Shape, Perl
<1>4. Saved(stack) /\ current = Caller(stack, Running)
  BY <1>2 DEF Saved, Caller, Running, Perl, Top, Last, Init
<1>. QED BY <1>3, <1>4 DEF CurrentInv, Init, Thrown

\* The parts of the state beside the stack, in every step.
LEMMA TypesStep ==
  ASSUME CurrentInv, Next
  PROVE  /\ err' \in Thrown /\ told' \in Thrown
         /\ pending' \in [Contexts -> Thrown] /\ raise' \in [Contexts -> BOOLEAN]
<1>1. /\ err \in Thrown /\ told \in Thrown
      /\ pending \in [Contexts -> Thrown] /\ raise \in [Contexts -> BOOLEAN]
  BY DEF CurrentInv
<1>2. \A c \in Contexts : pending[c] \in Thrown
  BY <1>1
<1>3. ASSUME NEW c \in Contexts, SetRaise(c) \/ Eval(c) \/ Call(c)
      PROVE  /\ err' \in Thrown /\ told' \in Thrown
             /\ pending' \in [Contexts -> Thrown] /\ raise' \in [Contexts -> BOOLEAN]
  BY <1>1, <1>3 DEF SetRaise, Eval, Call, Thrown
<1>4. ASSUME NEW e \in Errors, Die(e) \/ Throw(e)
      PROVE  /\ err' \in Thrown /\ told' \in Thrown
             /\ pending' \in [Contexts -> Thrown] /\ raise' \in [Contexts -> BOOLEAN]
  BY <1>1, <1>4 DEF Die, Throw, Thrown
<1>5. CASE EvalBlock \/ Trap \/ Cancel \/ Catch \/ Finish
  BY <1>1, <1>5 DEF EvalBlock, Trap, Cancel, Catch, Finish, Thrown
<1>6. CASE Report \/ ReportOld \/ ReportNone
  <2>1. told' = told \/ told' = err'
    BY <1>6 DEF Report, ReportOld, ReportNone
  <2>2. Top.cx \in Contexts
    BY <1>6, TopFacts DEF Report, ReportOld, ReportNone, Throwing
  <2>3. pending[Top.cx] \in Thrown
    BY <1>2, <2>2
  <2>4. err' \in Thrown /\ raise' = raise
    BY <1>1, <1>6, <2>3 DEF Report, ReportOld, ReportNone
  <2>5. pending' \in [Contexts -> Thrown]
    <3>1. NoError \in Thrown
      BY DEF Thrown
    <3>. QED BY <1>1, <1>6, <3>1 DEF Report, ReportOld, ReportNone
  <2>. QED BY <1>1, <2>1, <2>4, <2>5
<1>7. CASE CallPerl \/ PerlReturns \/ ThrowError \/ LoseError
  BY <1>1, <1>7 DEF CallPerl, PerlReturns, ThrowError, LoseError, Thrown
<1>. QED BY <1>3, <1>4, <1>5, <1>6, <1>7 DEF Next

LEMMA ProgramStays == [Next]_vars => UNCHANGED program
BY DEF Next, vars, SetRaise, Eval, Call, Die, Throw, EvalBlock, Trap, Cancel, Catch, Finish,
       Report, ReportOld, ReportNone, CallPerl, PerlReturns, ThrowError, LoseError

\* A step is one of four kinds: the stack stays, a frame of JavaScript or of
\* Perl is entered, the innermost frame is left.
Stays == UNCHANGED <<stack, current>> /\ unwinds' \in BOOLEAN
Comes(f) ==
  /\ Enter(f) /\ f.lang # Top.lang
  /\ \/ f.lang = "js" /\ f.cx \in Contexts /\ current' = current
     \/ f.lang = "perl" /\ f.cx = current /\ current' = Top.cx
Goes(b) ==
  /\ Len(stack) > 1 /\ Leave(b)
  /\ \/ Top.lang = "js" /\ current' = current
     \/ Top.lang = "perl" /\ current' = Top.cx

LEMMA StepKinds ==
  ASSUME CurrentInv, Next
  PROVE  Stays \/ (\E f \in Frame : Comes(f)) \/ (\E b \in BOOLEAN : Goes(b))
<1>0. unwinds \in BOOLEAN /\ raise \in [Contexts -> BOOLEAN]
      /\ current \in Contexts \union {Nobody}
  BY DEF CurrentInv
<1>1. ASSUME NEW c \in Contexts, SetRaise(c) PROVE Stays
  BY <1>0, <1>1 DEF SetRaise, Stays
<1>2. ASSUME NEW c \in Contexts, Eval(c) \/ Call(c) PROVE \E f \in Frame : Comes(f)
  <2>1. JS(c) \in Frame /\ JS(c).lang = "js" /\ JS(c).cx = c
    BY DEF JS, Frame
  <2>2. Comes(JS(c))
    BY <1>2, <2>1 DEF Eval, Call, Comes, InPerl
  <2>. QED BY <2>1, <2>2
<1>3. ASSUME NEW e \in Errors, Die(e) \/ Throw(e) PROVE Stays
  BY <1>3 DEF Die, Throw, Unwind, Stays
<1>4. CASE EvalBlock \/ Trap \/ Cancel \/ Catch
  BY <1>0, <1>4 DEF EvalBlock, Trap, Cancel, Catch, Unwind, Stays
<1>5. CASE Finish \/ ReportNone
  <2>1. Goes(FALSE)
    BY <1>5, TopFacts DEF Finish, ReportNone, InJS, Throwing, Goes
  <2>. QED BY <2>1
<1>6. CASE Report \/ ReportOld
  <2>1. Goes(raise[Top.cx]) /\ Top.cx \in Contexts
    BY <1>6, TopFacts DEF Report, ReportOld, Throwing, Goes
  <2>. QED BY <1>0, <2>1
<1>7. CASE CallPerl
  <2>1. Perl(current) \in Frame /\ Perl(current).lang = "perl" /\ Perl(current).cx = current
    BY <1>0 DEF Perl, Frame
  <2>2. Comes(Perl(current))
    BY <1>7, <2>1 DEF CallPerl, Comes, InJS
  <2>. QED BY <2>1, <2>2
<1>8. CASE PerlReturns \/ ThrowError \/ LoseError
  <2>1. Goes(FALSE) \/ Goes(TRUE)
    BY <1>8 DEF PerlReturns, ThrowError, LoseError, InPerl, Dying, Goes
  <2>. QED BY <2>1
<1>. QED BY <1>1, <1>2, <1>3, <1>4, <1>5, <1>6, <1>7, <1>8 DEF Next

LEMMA CurrentStep == CurrentInv /\ [Next]_vars => CurrentInv'
<1>. SUFFICES ASSUME CurrentInv, [Next]_vars PROVE CurrentInv'
  OBVIOUS
<1>1. CASE UNCHANGED vars
  BY <1>1 DEF CurrentInv, vars, program, Running, Top
<1>2. CASE Next
  <2>0. stale' \in BOOLEAN /\ falsy' \in BOOLEAN
    BY ProgramStays DEF program, CurrentInv
  <2>1. /\ err' \in Thrown /\ told' \in Thrown
        /\ pending' \in [Contexts -> Thrown] /\ raise' \in [Contexts -> BOOLEAN]
    BY <1>2, TypesStep
  <2>2. CASE Stays
    BY <2>0, <2>1, <2>2 DEF Stays, CurrentInv, Running, Top
  <2>3. ASSUME NEW f \in Frame, Comes(f) PROVE CurrentInv'
    <3>1. Shape(stack)' /\ Saved(stack)' /\ current' = Caller(stack, Running)'
          /\ current' \in Contexts \union {Nobody} /\ unwinds' \in BOOLEAN
      BY <2>3, EnterStep DEF Comes
    <3>. QED BY <2>0, <2>1, <3>1 DEF CurrentInv
  <2>4. ASSUME NEW b \in BOOLEAN, Goes(b) PROVE CurrentInv'
    <3>1. Shape(stack)' /\ Saved(stack)' /\ current' = Caller(stack, Running)'
          /\ current' \in Contexts \union {Nobody} /\ unwinds' \in BOOLEAN
      BY <2>4, LeaveStep DEF Goes
    <3>. QED BY <2>0, <2>1, <3>1 DEF CurrentInv
  <2>. QED BY <1>2, <2>2, <2>3, <2>4, StepKinds
<1>. QED BY <1>1, <1>2

LEMMA CurrentAlways == Spec => []CurrentInv
BY CurrentInit, CurrentStep, PTL DEF Spec

(* Type correctness. *)
THEOREM CallTypes == Spec => []TypeOK
<1>1. CurrentInv => TypeOK
  BY DEF CurrentInv, Shape, TypeOK
<1>. QED BY <1>1, CurrentAlways, PTL

(* JSP::Context->current is right, whatever $@ holds when JavaScript is    *)
(* entered and whatever is thrown: PJS_CallPerlMethod and                  *)
(* PJS_Call_sv_with_jsvals_rsv save CURRENT and restore it on every way.   *)
THEOREM CurrentIsRight == Spec => []CurrentRight
<1>1. ASSUME CurrentInv PROVE CurrentRight
  <2>. SUFFICES ASSUME Top.lang = "perl"
                PROVE  current = IF Len(stack) = 1 THEN Nobody ELSE stack[Len(stack) - 1].cx
    BY DEF CurrentRight
  <2>1. current = Caller(stack, Len(stack))
    BY <1>1 DEF CurrentInv, Running
  <2>2. Len(stack) < 2 <=> Len(stack) = 1
    <3>1. \A n \in Nat : n >= 1 => (n < 2 <=> n = 1)
      OBVIOUS
    <3>. QED BY <1>1, <3>1, TopFacts
  <2>. QED BY <2>1, <2>2 DEF Caller
<1>. QED BY <1>1, CurrentAlways, PTL

-----------------------------------------------------------------------------
(* With a program that empties $@, JavaScript always runs with an empty $@ *)
(* (or one that is false), so that a pending exception is always fetched.  *)
FlowInv ==
  /\ CurrentInv
  /\ NothingPending
  /\ Top.lang = "js" => ~True(err)
  /\ Dying => err \in Errors

LEMMA FlowInit == Init => FlowInv
<1>. SUFFICES ASSUME Init PROVE FlowInv
  OBVIOUS
<1>1. CurrentInv
  BY CurrentInit
<1>2. Top.lang = "perl"
  BY DEF Init, Top, Last, Perl
<1>3. NothingPending
  BY DEF Init, NothingPending
<1>. QED BY <1>1, <1>2, <1>3 DEF FlowInv, Dying, Init

LEMMA FlowStep == ~stale /\ FlowInv /\ [Next]_vars => ~stale' /\ FlowInv'
<1>. SUFFICES ASSUME ~stale, FlowInv, [Next]_vars PROVE ~stale' /\ FlowInv'
  OBVIOUS
<1>. USE DEF FlowInv
<1>s. stale' = stale
  BY ProgramStays DEF program
<1>0. CurrentInv /\ CurrentInv'
  BY CurrentStep
<1>a. pending \in [Contexts -> Thrown] /\ err \in Thrown
  BY <1>0 DEF CurrentInv
<1>b. ASSUME NEW f \in Frame, Comes(f) PROVE Top' = f /\ unwinds' = FALSE
  BY <1>0, <1>b, EnterStep DEF Comes, Enter
<1>c. ASSUME NEW b \in BOOLEAN, Goes(b)
      PROVE  Top' = stack[Len(stack) - 1] /\ Top'.lang \in {"perl", "js"}
             /\ Top'.lang # Top.lang /\ unwinds' = b
  BY <1>0, <1>c, LeaveStep DEF Goes, Leave
<1>1. CASE UNCHANGED vars
  BY <1>s, <1>0, <1>1 DEF vars, Top, NothingPending, Throwing, Dying
<1>2. ASSUME NEW c \in Contexts, SetRaise(c) PROVE FlowInv'
  BY <1>s, <1>0, <1>2 DEF SetRaise, Top, NothingPending, Throwing, Dying
<1>3. ASSUME NEW c \in Contexts, Eval(c) \/ Call(c) PROVE FlowInv'
  <2>1. JS(c) \in Frame /\ JS(c).lang = "js" /\ JS(c).cx = c
    BY DEF JS, Frame
  <2>2. Comes(JS(c))
    BY <1>3, <2>1 DEF Eval, Call, Comes, InPerl
  <2>3. Top' = JS(c) /\ unwinds' = FALSE
    BY <1>b, <2>1, <2>2
  <2>4. NothingPending /\ ~Throwing /\ pending' = pending
    BY <1>3 DEF Eval, Call, InPerl, Throwing
  <2>5. ~True(err')
    BY <1>3, FreshAssumption DEF Eval, Call, True
  <2>. QED BY <1>s, <1>0, <2>1, <2>3, <2>4, <2>5 DEF NothingPending, Dying
<1>4. ASSUME NEW e \in Errors, Die(e) PROVE FlowInv'
  BY <1>s, <1>0, <1>4 DEF Die, Unwind, InPerl, Top, NothingPending, Throwing, Dying
<1>5. ASSUME NEW e \in Errors, Throw(e) PROVE FlowInv'
  BY <1>s, <1>0, <1>a, <1>5 DEF Throw, Unwind, InJS, Top, NothingPending, Throwing, Dying
<1>6. CASE EvalBlock \/ Trap \/ Cancel
  BY <1>s, <1>0, <1>6 DEF EvalBlock, Trap, Cancel, Unwind, InPerl, InJS, Top, NothingPending,
                    Throwing, Dying
<1>7. CASE Catch
  BY <1>s, <1>0, <1>a, <1>7 DEF Catch, Unwind, Top, NothingPending, Throwing, Dying
<1>8. CASE Finish \/ ReportNone
  <2>1. Goes(FALSE) /\ Top.lang = "js"
    BY <1>s, <1>0, <1>8, TopFacts DEF Finish, ReportNone, InJS, Throwing, Goes
  <2>2. Top'.lang = "perl" /\ unwinds' = FALSE
    BY <1>c, <2>1
  <2>3. \A c \in Contexts : pending'[c] = NoError
    BY <1>8 DEF Finish, ReportNone, InJS, Throwing, NothingPending
  <2>. QED BY <1>s, <1>0, <2>2, <2>3 DEF NothingPending, Dying
<1>9. CASE Report \/ ReportOld
  <2>1. Report /\ Top.lang = "js"
    BY <1>9 DEF Report, ReportOld, Throwing
  <2>2. Goes(raise[Top.cx]) /\ Top.cx \in Contexts
    BY <1>s, <1>0, <2>1, TopFacts DEF Report, Goes
  <2>3. Top'.lang = "perl"
    <3>1. raise[Top.cx] \in BOOLEAN
      BY <1>s, <1>0, <2>2 DEF CurrentInv
    <3>. QED BY <1>c, <2>1, <2>2, <3>1
  <2>4. \A c \in Contexts : pending'[c] = NoError
    BY <1>a, <2>1 DEF Report, NothingPending
  <2>5. err' \in Errors
    BY <1>a, <2>1, <2>2 DEF Report, Thrown
  <2>. QED BY <1>s, <1>0, <2>3, <2>4, <2>5 DEF NothingPending, Dying
<1>10. CASE CallPerl
  <2>1. Perl(current) \in Frame /\ Perl(current).lang = "perl" /\ Perl(current).cx = current
    BY <1>0 DEF Perl, Frame, CurrentInv
  <2>2. Comes(Perl(current))
    BY <1>10, <2>1 DEF CallPerl, Comes, InJS
  <2>3. Top' = Perl(current) /\ unwinds' = FALSE
    BY <1>b, <2>1, <2>2
  <2>4. \A c \in Contexts : pending'[c] = NoError
    BY <1>10 DEF CallPerl, InJS, Throwing, NothingPending
  <2>. QED BY <1>s, <1>0, <2>1, <2>3, <2>4 DEF NothingPending, Dying
<1>11. CASE PerlReturns \/ LoseError
  <2>1. Goes(FALSE) /\ Top.lang = "perl"
    BY <1>11 DEF PerlReturns, LoseError, InPerl, Dying, Goes
  <2>2. Top'.lang = "js" /\ unwinds' = FALSE
    BY <1>c, <2>1
  <2>3. \A c \in Contexts : pending'[c] = NoError
    BY <1>11, <2>1 DEF PerlReturns, LoseError, NothingPending, Throwing
  <2>4. ~True(err')
    BY <1>11, FreshAssumption DEF PerlReturns, LoseError, True
  <2>. QED BY <1>s, <1>0, <2>2, <2>3, <2>4 DEF NothingPending, Dying
<1>12. CASE ThrowError
  <2>1. Goes(TRUE) /\ Top.lang = "perl"
    BY <1>12 DEF ThrowError, Dying, Goes
  <2>2. Top'.lang = "js" /\ unwinds' = TRUE /\ Top' = stack[Len(stack) - 1]
    BY <1>c, <2>1
  <2>3. \A c \in Contexts : pending[c] = NoError
    BY <2>1 DEF NothingPending, Throwing
  <2>4. \A c \in Contexts : pending'[c] # NoError => c = Top'.cx
    BY <1>12, <1>a, <2>2, <2>3 DEF ThrowError
  <2>5. ~True(err')
    BY <1>12, FreshAssumption DEF ThrowError, True
  <2>. QED BY <1>s, <1>0, <2>2, <2>4, <2>5 DEF NothingPending, Throwing, Dying
<1>. QED BY <1>s, <1>1, <1>2, <1>3, <1>4, <1>5, <1>6, <1>7, <1>8, <1>9, <1>10, <1>11, <1>12 DEF Next

(* In a program that empties $@ before it enters JavaScript, no exception  *)
(* stays behind in a context: PJS_report_exception fetches and clears it.  *)
THEOREM NothingLeft == Spec => []NothingPending
<1>1. stale \/ FlowInv => NothingPending
  BY DEF FlowInv, NothingPending
<1>2. [Next]_vars => stale' = stale
  BY ProgramStays DEF program
<1>3. (stale \/ FlowInv) /\ [Next]_vars => (stale \/ FlowInv)'
  BY <1>2, FlowStep
<1>. QED BY <1>1, <1>3, FlowInit, PTL DEF Spec

-----------------------------------------------------------------------------
(* Where the stack shrinks, an exception goes on in the frame below: Perl  *)
(* dies if RaiseExceptions is set (the callers of PJS_report_exception),   *)
(* JavaScript throws what Perl died of (the code after call_sv), whatever  *)
(* the program left in $@.                                                 *)
THEOREM ExceptionsAreHeard == Spec => NeverSilent
<1>1. ASSUME CurrentInv, [Next]_vars, Len(stack') < Len(stack)
      PROVE  /\ Throwing /\ pending[Top.cx] # NoError /\ raise[Top.cx] => Dying'
             /\ Dying /\ True(err) => Throwing' /\ pending'[Top'.cx] = err
  <2>0. Len(stack) \in Nat /\ ~(UNCHANGED stack)
    BY <1>1, TopFacts
  <2>1. ASSUME NEW f \in Frame, Comes(f) PROVE FALSE
    BY <1>1, <2>0, <2>1, EnterStep DEF Comes
  <2>2. ASSUME NEW b \in BOOLEAN, Goes(b)
        PROVE  Top'.lang \in {"perl", "js"} /\ Top'.lang # Top.lang /\ unwinds' = b
               /\ Top' = stack[Len(stack) - 1]
    BY <1>1, <2>2, LeaveStep DEF Goes, Leave
  <2>3. ASSUME Throwing, pending[Top.cx] # NoError, raise[Top.cx] PROVE Dying'
    <3>1. Report \/ ReportOld
      BY <1>1, <2>0, <2>1, <2>3 DEF Next, vars, SetRaise, Eval, Call, Die, Throw, EvalBlock,
         Trap, Cancel, Catch, Finish, ReportNone, CallPerl, PerlReturns, ThrowError, LoseError,
         InPerl, InJS, Dying, Throwing, Unwind
    <3>2. Goes(TRUE)
      <4>1. raise[Top.cx] = TRUE
        BY <1>1, <2>3, TopFacts DEF CurrentInv, Throwing
      <4>. QED BY <1>1, <2>3, <3>1, <4>1, TopFacts DEF Report, ReportOld, Throwing, Goes
    <3>. QED BY <2>2, <2>3, <3>2 DEF Dying, Throwing
  <2>4. ASSUME Dying, True(err) PROVE Throwing' /\ pending'[Top'.cx] = err
    <3>1. ThrowError
      BY <1>1, <2>0, <2>4 DEF Next, vars, SetRaise, Eval, Call, Die, Throw, EvalBlock,
         Trap, Cancel, Catch, Finish, Report, ReportOld, ReportNone, CallPerl, PerlReturns,
         LoseError, InPerl, InJS, Dying, Throwing, Unwind
    <3>2. Goes(TRUE)
      BY <3>1 DEF ThrowError, Dying, Goes
    <3>3. Throwing' /\ Top' = stack[Len(stack) - 1] /\ Top'.cx \in Contexts
      BY <1>1, <2>2, <2>4, <3>2, TopFacts DEF Dying, Throwing, Goes
    <3>. QED BY <1>1, <3>1, <3>3 DEF ThrowError, CurrentInv
  <2>. QED BY <2>3, <2>4
<1>2. CurrentInv /\ [Next]_vars =>
        [Len(stack') < Len(stack) =>
           /\ Throwing /\ pending[Top.cx] # NoError /\ raise[Top.cx] => Dying'
           /\ Dying /\ True(err) => Throwing' /\ pending'[Top'.cx] = err]_vars
  BY <1>1
<1>. QED BY <1>2, CurrentAlways, PTL DEF Spec, NeverSilent

-----------------------------------------------------------------------------
(* The refinement: the abstract flow of exceptions.                        *)
langs == Langs(stack)

LEMMA LangsTop ==
  ASSUME CurrentInv
  PROVE  Flow!Last(langs) = Top.lang /\ Len(langs) = Len(stack)
<1>1. stack \in Seq(Frame) /\ Len(stack) \in 1 .. Len(stack)
  BY TopFacts DEF CurrentInv, Shape
<1>. QED BY <1>1, LangsFacts, TopFacts DEF langs, Flow!Last

LEMMA LangsEnter ==
  ASSUME CurrentInv, NEW f \in Frame, Comes(f)
  PROVE  langs' = Append(langs, IF Flow!Last(langs) = "perl" THEN "js" ELSE "perl")
<1>1. langs' = Append(langs, f.lang)
  BY LangsAppend DEF langs, Langs, CurrentInv, Shape, Comes, Enter
<1>2. f.lang = IF Flow!Last(langs) = "perl" THEN "js" ELSE "perl"
  BY LangsTop, TopFacts DEF Comes, Frame
<1>. QED BY <1>1, <1>2

LEMMA LangsLeave ==
  ASSUME CurrentInv, NEW b \in BOOLEAN, Goes(b)
  PROVE  langs' = Flow!Front(langs) /\ Len(langs) > 1
<1>1. stack \in Seq(Frame) /\ Len(stack) > 0 /\ stack' = Front(stack)
  BY TopFacts DEF CurrentInv, Shape, Goes, Leave
<1>2. Langs(stack') = Front(Langs(stack))
  BY <1>1, LangsFront
<1>. QED BY <1>1, <1>2, LangsTop DEF langs, Goes, Front, Flow!Front

LEMMA FlowMapsInit == Init => Flow!Init
<1>. SUFFICES ASSUME Init PROVE Flow!Init
  OBVIOUS
<1>1. stack = <<Perl(Nobody)>> /\ Perl(Nobody).lang = "perl"
  BY DEF Init, Perl
<1>2. [i \in DOMAIN stack |-> stack[i].lang] = <<"perl">>
  BY <1>1
<1>. QED BY <1>2 DEF Flow!Init, Init, flight

\* Where no error is false, neither $@ nor what is pending is.
TrueInv ==
  CurrentInv /\ (falsy \/ (err \notin Falsy /\ \A c \in Contexts : pending[c] \notin Falsy))

LEMMA TrueInit == Init => TrueInv
BY CurrentInit, FalsyAssumption, FreshAssumption DEF Init, TrueInv

LEMMA TrueStep == TrueInv /\ [Next]_vars => TrueInv'
<1>. SUFFICES ASSUME TrueInv, [Next]_vars, ~falsy
              PROVE  err' \notin Falsy /\ \A c \in Contexts : pending'[c] \notin Falsy
  BY CurrentStep, ProgramStays DEF TrueInv, program
<1>0. /\ err \notin Falsy /\ (\A c \in Contexts : pending[c] \notin Falsy) /\ NoError \notin Falsy
      /\ pending \in [Contexts -> Thrown] /\ (Top.lang = "js" => Top.cx \in Contexts)
  BY FalsyAssumption, FreshAssumption, TopFacts DEF TrueInv, CurrentInv
<1>1. CASE UNCHANGED vars
  BY <1>0, <1>1 DEF vars
<1>2. ASSUME NEW c \in Contexts, SetRaise(c) \/ Eval(c) \/ Call(c)
      PROVE  err' \notin Falsy /\ \A d \in Contexts : pending'[d] \notin Falsy
  BY <1>0, <1>2 DEF SetRaise, Eval, Call
<1>3. ASSUME NEW e \in Errors, Die(e) \/ Throw(e)
      PROVE  err' \notin Falsy /\ \A d \in Contexts : pending'[d] \notin Falsy
  BY <1>0, <1>3 DEF Die, Throw
<1>4. CASE EvalBlock \/ Trap \/ Cancel \/ Catch \/ Finish
  BY <1>0, <1>4 DEF EvalBlock, Trap, Cancel, Catch, Finish
<1>5. CASE Report \/ ReportOld \/ ReportNone
  BY <1>0, <1>5 DEF Report, ReportOld, ReportNone, Throwing
<1>6. CASE CallPerl \/ PerlReturns \/ ThrowError \/ LoseError
  BY <1>0, <1>6 DEF CallPerl, PerlReturns, ThrowError, LoseError
<1>. QED BY <1>1, <1>2, <1>3, <1>4, <1>5, <1>6 DEF Next

LEMMA FlowMapsStep ==
  Sound /\ TrueInv /\ FlowInv /\ [Next]_vars => [Flow!Next]_(Flow!vars)
<1>. SUFFICES ASSUME Sound, TrueInv, FlowInv, [Next]_vars PROVE Flow!Next \/ UNCHANGED <<langs, flight, told>>
  BY DEF Flow!vars, Flow!Next, langs, Langs
<1>0. CurrentInv /\ CurrentInv' /\ FlowInv'
  BY CurrentStep, FlowStep DEF FlowInv, Sound
<1>a. pending \in [Contexts -> Thrown] /\ err \in Thrown /\ told \in Thrown
  BY <1>0 DEF CurrentInv
<1>b. ~stale /\ (~True(err) => err = NoError)
  BY <1>a DEF True, Thrown, Sound, TrueInv
<1>c. Flow!Last(langs) = Top.lang /\ (Top.lang = "js" => Top.cx \in Contexts)
  BY <1>0, LangsTop, TopFacts
<1>d. UNCHANGED stack => UNCHANGED <<langs, Top>>
  BY DEF langs, Top, Langs
<1>1. CASE UNCHANGED vars
  BY <1>1, <1>d DEF vars, flight
<1>2. ASSUME NEW c \in Contexts, SetRaise(c) PROVE UNCHANGED <<langs, flight, told>>
  BY <1>2, <1>d DEF SetRaise, flight
<1>3. CASE EvalBlock
  BY <1>3, <1>d DEF EvalBlock, flight, InPerl
<1>4. ASSUME NEW c \in Contexts, Eval(c) \/ Call(c) PROVE Flow!Enter
  <2>1. JS(c) \in Frame /\ JS(c).lang = "js" /\ JS(c).cx = c
    BY DEF JS, Frame
  <2>2. Comes(JS(c))
    BY <1>4, <2>1 DEF Eval, Call, Comes, InPerl
  <2>3. langs' = Append(langs, IF Flow!Last(langs) = "perl" THEN "js" ELSE "perl")
    BY <1>0, <2>1, <2>2, LangsEnter
  <2>4. flight = NoError /\ flight' = NoError /\ told' = told
    BY <1>4 DEF Eval, Call, InPerl, Enter, flight
  <2>. QED BY <2>3, <2>4 DEF Flow!Enter, Flow!Next, langs, Langs
<1>5. ASSUME NEW e \in Errors, Die(e) \/ Throw(e) PROVE Flow!Throw
  <2>1. UNCHANGED <<langs, Top, told>> /\ flight = NoError
    BY <1>5, <1>d DEF Die, Throw, Unwind, InPerl, InJS, flight
  <2>2. flight' = e
    BY <1>5, <1>a, <1>c, <2>1, FreshAssumption
       DEF Die, Throw, Unwind, InPerl, InJS, flight
  <2>. QED BY <2>1, <2>2 DEF Flow!Throw, Flow!Next, langs, Langs
<1>6. CASE Trap
  <2>1. UNCHANGED <<langs, Top>> /\ flight = err /\ flight' = NoError /\ told' = err
    BY <1>6, <1>d DEF Trap, Unwind, Dying, flight
  <2>2. err \in Errors /\ Flow!Last(langs) = "perl"
    BY <1>6, <1>c DEF Trap, Dying, FlowInv
  <2>. QED BY <2>1, <2>2 DEF Flow!Trap, Flow!Next, langs, Langs
<1>7. CASE Cancel
  <2>1. UNCHANGED <<langs, Top, told>> /\ flight = NoError
    BY <1>7, <1>d DEF Cancel, Unwind, InJS, flight
  <2>2. pending'[Top'.cx] = NoError
    BY <1>7, <1>b, <1>c, <2>1 DEF Cancel, InJS, FlowInv, NothingPending, Throwing
  <2>3. flight' = Cancelled /\ Flow!Last(langs) = "js"
    BY <1>7, <1>c, <2>1, <2>2 DEF Cancel, Unwind, InJS, flight
  <2>. QED BY <2>1, <2>3 DEF Flow!Cancel, Flow!Next, langs, Langs
<1>8. CASE Catch
  <2>1. UNCHANGED <<langs, Top, told>> /\ flight' = NoError /\ Flow!Last(langs) = "js"
    BY <1>8, <1>c, <1>d DEF Catch, Unwind, Throwing, flight
  <2>2. flight = pending[Top.cx] /\ flight \in Errors
    BY <1>8, <1>a, <1>c DEF Catch, Throwing, flight, Thrown
  <2>. QED BY <2>1, <2>2 DEF Flow!Catch, Flow!Next, langs, Langs
<1>9. CASE Finish
  <2>1. Goes(FALSE)
    BY <1>0, <1>9, TopFacts DEF Finish, InJS, Goes
  <2>2. langs' = Flow!Front(langs) /\ Len(langs) > 1
    BY <1>0, <2>1, LangsLeave
  <2>3. flight = NoError /\ flight' = NoError /\ told' = told
    BY <1>9 DEF Finish, InJS, Leave, flight
  <2>. QED BY <2>2, <2>3 DEF Flow!Return, Flow!Next, langs, Langs
<1>10. CASE Report \/ ReportOld
  <2>1. Report /\ Top.lang = "js" /\ Top.cx \in Contexts
    BY <1>10, <1>c DEF Report, ReportOld, Throwing, FlowInv
  <2>2. Goes(raise[Top.cx]) /\ raise[Top.cx] \in BOOLEAN
    BY <1>0, <2>1, TopFacts DEF Report, Goes, CurrentInv
  <2>3. langs' = Flow!Front(langs) /\ Len(langs) > 1
    BY <1>0, <2>2, LangsLeave
  <2>4. flight = pending[Top.cx] /\ flight \in Errors /\ err' = flight
    BY <1>a, <2>1 DEF Report, Throwing, flight, Thrown
  <2>5. Top'.lang = "perl" /\ unwinds' = raise[Top.cx]
    BY <1>0, <2>1, <2>2, LeaveStep DEF Goes, Leave
  <2>6. CASE raise[Top.cx] = TRUE
    <3>1. flight' = flight /\ told' = told
      BY <2>1, <2>4, <2>5, <2>6 DEF Report, flight
    <3>. QED BY <2>3, <2>4, <3>1 DEF Flow!Unwind, Flow!Next, langs, Langs
  <2>7. CASE raise[Top.cx] = FALSE
    <3>1. flight' = NoError /\ told' = flight
      BY <2>1, <2>4, <2>5, <2>7 DEF Report, flight
    <3>. QED BY <1>c, <2>1, <2>3, <2>4, <3>1 DEF Flow!Tell, Flow!Next, langs, Langs
  <2>. QED BY <2>2, <2>6, <2>7
<1>11. CASE ReportNone
  <2>1. Goes(FALSE)
    BY <1>0, <1>11, TopFacts DEF ReportNone, Throwing, Goes
  <2>2. langs' = Flow!Front(langs)
    BY <1>0, <2>1, LangsLeave
  <2>3. flight = Cancelled /\ flight' = NoError /\ told' = told
    BY <1>11 DEF ReportNone, Throwing, Leave, flight
  <2>. QED BY <2>2, <2>3 DEF Flow!Stopped, Flow!Next, langs, Langs
<1>12. CASE CallPerl
  <2>1. Perl(current) \in Frame /\ Perl(current).lang = "perl" /\ Perl(current).cx = current
    BY <1>0 DEF Perl, Frame, CurrentInv
  <2>2. Comes(Perl(current))
    BY <1>12, <2>1 DEF CallPerl, Comes, InJS
  <2>3. langs' = Append(langs, IF Flow!Last(langs) = "perl" THEN "js" ELSE "perl")
    BY <1>0, <2>1, <2>2, LangsEnter
  <2>4. flight = NoError /\ flight' = NoError /\ told' = told
    BY <1>12 DEF CallPerl, InJS, Enter, flight
  <2>. QED BY <2>3, <2>4 DEF Flow!Enter, Flow!Next, langs, Langs
<1>13. CASE PerlReturns
  <2>1. Goes(FALSE)
    BY <1>13 DEF PerlReturns, InPerl, Goes
  <2>2. langs' = Flow!Front(langs) /\ Len(langs) > 1
    BY <1>0, <2>1, LangsLeave
  <2>3. flight = NoError /\ flight' = NoError /\ told' = told
    BY <1>13 DEF PerlReturns, InPerl, Leave, flight
  <2>. QED BY <2>2, <2>3 DEF Flow!Return, Flow!Next, langs, Langs
<1>14. CASE ThrowError \/ LoseError
  <2>1. err \in Errors /\ ThrowError /\ Top.lang = "perl"
    BY <1>14, <1>b, FreshAssumption DEF ThrowError, LoseError, Dying, FlowInv
  <2>2. Goes(TRUE)
    BY <2>1 DEF ThrowError, Goes
  <2>3. langs' = Flow!Front(langs) /\ Len(langs) > 1
    BY <1>0, <2>2, LangsLeave
  <2>4. /\ Top' = stack[Len(stack) - 1] /\ Top'.lang = "js" /\ unwinds' = TRUE
        /\ Top'.cx \in Contexts
    <3>1. Top' = stack[Len(stack) - 1] /\ Top'.lang \in {"perl", "js"} /\ Top'.lang # Top.lang
      BY <1>0, <2>2, LeaveStep DEF Goes
    <3>. QED BY <1>0, <2>1, <2>2, <3>1, TopFacts DEF Goes, Leave
  <2>5. flight = err /\ told' = told
    BY <2>1 DEF ThrowError, Dying, flight
  <2>6. pending'[Top'.cx] = err
    BY <1>a, <2>1, <2>4 DEF ThrowError
  <2>7. flight' = err
    BY <2>1, <2>4, <2>6, FreshAssumption DEF flight
  <2>. QED BY <2>1, <2>3, <2>5, <2>7 DEF Flow!Unwind, Flow!Next, langs, Langs
<1>. QED BY <1>1, <1>2, <1>3, <1>4, <1>5, <1>6, <1>7, <1>8, <1>9, <1>10, <1>11, <1>12, <1>13,
            <1>14 DEF Next, Flow!Next

(* Exceptions flow as lib/JSP.pm says they do, unchanged through any nest  *)
(* of the two languages and of contexts, in a program that empties $@ and  *)
(* whose errors are all true.                                              *)
THEOREM FlowImplemented == Spec => ExceptionFlow
<1>1. Init => (stale \/ FlowInv) /\ TrueInv /\ Flow!Init
  BY FlowInit, FlowMapsInit, TrueInit
<1>2. [Next]_vars => stale' = stale
  BY ProgramStays DEF program
<1>3. (stale \/ FlowInv) /\ [Next]_vars => (stale \/ FlowInv)'
  BY <1>2, FlowStep
<1>4. (stale \/ FlowInv) /\ TrueInv /\ [Next]_vars =>
        [Sound => [Flow!Next]_(Flow!vars)]_vars
  BY FlowMapsStep DEF Sound
<1>. QED BY <1>1, <1>3, <1>4, TrueStep, PTL DEF Spec, ExceptionFlow
===============================================================================
