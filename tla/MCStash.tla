------------------------------ MODULE MCStash ------------------------------
(***************************************************************************)
(* Definitions for TLC: a program uses variables, or a name of a sub, with *)
(* the sigil and without; contexts are alike.                              *)
(***************************************************************************)
EXTENDS JSPStash, TLC

CONSTANTS x, f

AllScalars == {x}
AllSubs == {f}
AllPrograms == {{x}, {<<f, "">>, <<f, "&">>}}

AnyContexts == Permutations(Contexts)
=============================================================================
