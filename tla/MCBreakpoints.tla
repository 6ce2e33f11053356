---------------------------- MODULE MCBreakpoints ----------------------------
(* Small instances of Breakpoints for TLC. *)
EXTENDS Breakpoints

MCLines == {1, 2}
OneLine == {1}
BothKinds == BOOLEAN
LineKind == {FALSE}
=============================================================================
