------------------------------ MODULE MCTimeout ------------------------------
(* Programs that set timeouts within timeouts or do not, that catch the    *)
(* exceptions of timeouts or do not, and whose callbacks answer anything,  *)
(* or nothing that stops just the innermost script.                        *)
EXTENDS JSPTimeout

Plainly == {"cb", "perl"} \X {"plain"}
Nested  == {"cb", "perl"} \X {"plain", "wto"}
Gentle  == AnyAnswer \ {"false", "string"}

MCPrograms ==
  [reenter: {Plainly, Nested}, catching: BOOLEAN, clearing: {TRUE}, answers: {Gentle, AnyAnswer}]

=============================================================================
