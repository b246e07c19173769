------------------------------- MODULE MCLine -------------------------------
(***************************************************************************)
(* Instances of Line and Uaccess for TLC.  "exit" is a word of two letters *)
(* that does not fill the buffer.                                          *)
(***************************************************************************)
EXTENDS Uaccess

Exit == <<"a", "a">>
=============================================================================
