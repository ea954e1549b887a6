------------------------------- MODULE MCLabels -------------------------------
(* Two functions of a program, int f() and int f_while().                     *)
EXTENDS Labels

MCFunctionNames == <<<<"f">>, <<"f", "while">>>>
=============================================================================
