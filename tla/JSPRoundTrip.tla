----------------------------- MODULE JSPRoundTrip -----------------------------
(***************************************************************************)
(* What the engine promises of Perl things that visit JavaScript ("Round   *)
(* trip integrity", lib/JSP.pm:234-238): in one context a thing has one    *)
(* face, a JavaScript object that it keeps until that object is collected, *)
(* and every conversion of the thing answers that face.                    *)
(***************************************************************************)
CONSTANTS Things, Faces, Contexts, None   \* None is not one of the Faces

VARIABLES
  face,    \* face[c][t]: the object that t is in context c, or None
  result   \* what the last conversion answered: [cx, thing, face], or None

vars == <<face, result>>

Init == face = [c \in Contexts |-> [t \in Things |-> None]] /\ result = None

\* No other thing has the object x, in any context.
Fresh(x) == \A c \in Contexts, t \in Things : face[c][t] # x

Answer(c, t, x) == result' = [cx |-> c, thing |-> t, face |-> x]

\* A thing that has a face in c shows it again.
Show(c, t) == face[c][t] # None /\ Answer(c, t, face[c][t]) /\ UNCHANGED face

\* A thing that has none gets one of its own.
Enter(c, t, x) ==
  /\ face[c][t] = None /\ Fresh(x)
  /\ face' = [face EXCEPT ![c][t] = x]
  /\ Answer(c, t, x)

\* Some objects are collected: their things lose their faces, and they alone.
Leave ==
  /\ \E X \in SUBSET Faces :
       face' = [c \in Contexts |->
                 [t \in Things |-> IF face[c][t] \in X THEN None ELSE face[c][t]]]
  /\ UNCHANGED result

Next ==
  \/ \E c \in Contexts, t \in Things : Show(c, t) \/ \E x \in Faces : Enter(c, t, x)
  \/ Leave

Spec == Init /\ [][Next]_vars

=============================================================================
