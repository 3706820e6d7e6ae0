-------------------------- MODULE MCScutilParser ---------------------------
(* ScutilParser with a 4-byte line buffer: a 3-byte line fills it without *)
(* its newline, shorter lines leave bytes of the previous line behind     *)
(* their terminator, and two lines are read.                              *)
EXTENDS ScutilParser
=============================================================================
