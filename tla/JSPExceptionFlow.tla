--------------------------- MODULE JSPExceptionFlow ---------------------------
(***************************************************************************)
(* What JSP promises of exceptions (lib/JSP.pm, EXCEPTION HANDLING): Perl  *)
(* and JavaScript nest, and an exception of either passes from frame to    *)
(* frame, whatever its language, unchanged, until something catches it or  *)
(* it is told to a Perl program that prefers to read it in $@.             *)
(***************************************************************************)
EXTENDS Sequences, SequencesExt

CONSTANTS
  Errors,     \* what is thrown
  Nothing,    \* no exception
  Cancelled   \* a script is stopped without an exception

VARIABLES
  langs,      \* the languages that run, innermost last
  flight,     \* the exception that unwinds them, Cancelled, or Nothing
  told        \* the last one that Perl read in $@

vars == <<langs, flight, told>>

Init == langs = <<"perl">> /\ flight = Nothing /\ told = Nothing

Enter ==
  /\ flight = Nothing /\ flight' = Nothing
  /\ langs' = Append(langs, IF Last(langs) = "perl" THEN "js" ELSE "perl")
  /\ UNCHANGED told

Return ==
  /\ flight = Nothing /\ flight' = Nothing
  /\ Len(langs) > 1 /\ langs' = Front(langs)
  /\ UNCHANGED told

Throw ==
  /\ flight = Nothing /\ flight' \in Errors
  /\ UNCHANGED <<langs, told>>

Cancel ==
  /\ flight = Nothing /\ flight' = Cancelled /\ Last(langs) = "js"
  /\ UNCHANGED <<langs, told>>

\* A catch of JavaScript.
Catch ==
  /\ flight \in Errors /\ flight' = Nothing /\ Last(langs) = "js"
  /\ UNCHANGED <<langs, told>>

\* Perl traps it with eval {}, and reads it in $@.
Trap ==
  /\ flight \in Errors /\ flight' = Nothing /\ Last(langs) = "perl"
  /\ told' = flight
  /\ UNCHANGED langs

\* The frame is left: the exception goes on in the one below ...
Unwind ==
  /\ flight \in Errors /\ UNCHANGED <<flight, told>>
  /\ Len(langs) > 1 /\ langs' = Front(langs)

\* ... or Perl has asked to be told, and continues with undef.
Tell ==
  /\ flight \in Errors /\ flight' = Nothing /\ told' = flight
  /\ Last(langs) = "js" /\ langs' = Front(langs)

\* What was cancelled is over, and its caller continues with undef.
Stopped ==
  /\ flight = Cancelled /\ flight' = Nothing
  /\ langs' = Front(langs) /\ UNCHANGED told

Next ==
  \/ Enter \/ Return \/ Throw \/ Cancel \/ Catch \/ Trap \/ Unwind \/ Tell \/ Stopped

Spec == Init /\ [][Next]_vars
===============================================================================
