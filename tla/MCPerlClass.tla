---------------------------- MODULE MCPerlClass ----------------------------
(***************************************************************************)
(* Definitions for TLC: a class with as many properties as there are       *)
(* tinyids, the same names on both sides; one with an instance method and  *)
(* a static one of one name; and one that may not be instantiated, with a  *)
(* static method over a static property, a property of instances and its   *)
(* static method of one name.                                              *)
(***************************************************************************)
EXTENDS JSPPerlClass

CONSTANTS m, p, q

Full == [fs |-> {m}, static_fs |-> {}, ps |-> {p, q}, static_ps |-> {p, q}, bare |-> FALSE]
Other == [fs |-> {m}, static_fs |-> {m}, ps |-> {q, p}, static_ps |-> {}, bare |-> FALSE]
Bare == [fs |-> {}, static_fs |-> {m}, ps |-> {m}, static_ps |-> {m, q}, bare |-> TRUE]

AllDefinitions == {Full, Other, Bare}
AllMembers == {m, p, q}

AnyNames == Permutations(Classes) \cup Permutations(Contexts) \cup Permutations(Names)
=============================================================================
