----------------------------- MODULE MCVisitors -----------------------------
(* A program that only passes references and asks for handles, in one      *)
(* context after the other; in less room, one whose constructors return    *)
(* old objects, one that reads package variables, one that passes \undef   *)
(* and whose conversions fail, and one with two contexts at a time.        *)
EXTENDS JSPVisitors

CONSTANTS s1, s2, t1, c1

MCPrograms ==
  {[uses |-> {"handles"}, undef |-> None, things |-> Things,
    contexts |-> {c1}, shells |-> Shells, args |-> 2],
   [uses |-> {"singletons"}, undef |-> None, things |-> Things,
    contexts |-> {c1}, shells |-> {s1, s2}, args |-> 1],
   [uses |-> {"variables"}, undef |-> None, things |-> Things,
    contexts |-> {c1}, shells |-> {s1, s2}, args |-> 0],
   [uses |-> {"failures"}, undef |-> t1, things |-> Things,
    contexts |-> Contexts, shells |-> {s1, s2}, args |-> 1],
   [uses |-> {"contexts"}, undef |-> None, things |-> {t1},
    contexts |-> Contexts, shells |-> Shells, args |-> 1]}

=============================================================================
