----------------------------- MODULE MCCompiler -----------------------------
(* The vocabularies: the control structures, the definitions and what      *)
(* refers to them, macros, and two for conditions, with and without a      *)
(* macro to test.                                                          *)
EXTENDS Compiler

Procedure == {":p", ";", "lit"}

Structures == [words |-> Procedure \cup Control, most |-> 10]
References == [words |-> Procedure \cup {":q", "p", "'p", "PUBLIC p", "VAR"}, most |-> 8]
Macros == [words |-> Procedure \cup {"m", "EOL", "$def m m m", "$define m", "$enddef"}, most |-> 7]
Nesting == [words |-> Procedure \cup Conditionals \cup {"$else", "$endif"}, most |-> 8]
Testing ==
    [words |-> Procedure \cup Conditionals \cup {"m", "$def m lit", "$undef m", "$else", "$endif"},
     most |-> 6]

AllVocabularies == {Structures, References, Macros, Nesting, Testing}
=============================================================================
