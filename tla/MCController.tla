---------------------------- MODULE MCController ----------------------------
(* A class with a constructor and tweaks, and heirs of it: one inherits the *)
(* constructor, one has its own; and a package that is no class.           *)
EXTENDS JSPController

CONSTANTS File, Heir, Socket, Utils, k1, k2

MCISA == [p \in Packages |-> CASE p = Heir -> <<File>> [] p = Socket -> <<Heir>> [] OTHER -> <<>>]
MCNew == [p \in Packages |-> CASE p = File -> k1 [] p = Socket -> k2 [] OTHER -> None]

=============================================================================
