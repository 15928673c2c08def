------------------------------ MODULE MCRuntime ------------------------------
(* Two runtimes, and closures that agree or not, and hold a context.        *)
EXTENDS JSPRuntime

CONSTANTS r1, r2, c1, c2, watch, refuse

MCHolds == [h \in Handlers |-> IF h = watch THEN {c1} ELSE {}]
MCAnswers == [h \in Handlers |-> IF h = watch THEN BOOLEAN ELSE {FALSE}]

=============================================================================
