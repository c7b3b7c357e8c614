----------------------------- MODULE MCExecStream -----------------------------
(* ExecStream needs no definitions of its own to be checked: the constants are *)
(* numbers and sets of them, given in the configurations.                      *)
EXTENDS ExecStream
===============================================================================
