---------------------------- MODULE MCDebugSession ----------------------------
(* A small debugging session for the model checker. *)
EXTENDS DebugSession

MCLines == {1, 2}
OneLine == {1}
LineKind == {FALSE}
=============================================================================
