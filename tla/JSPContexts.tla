----------------------------- MODULE JSPContexts -----------------------------
(***************************************************************************)
(* What JSPStash and JSPController have in common: the contexts of a       *)
(* process, which are destroyed one after the other, and a name for        *)
(* nothing.                                                                *)
(***************************************************************************)

CONSTANTS
  Contexts,
  None        \* undef, and what is not there

VARIABLE
  live        \* the contexts not destroyed yet

=============================================================================
