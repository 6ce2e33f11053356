---------------------------- MODULE MCMakeEngine ----------------------------
(* Two items, one header that the first item includes. *)
EXTENDS MakeEngine

CONSTANTS a, b, h, ao, bo

MCObject == [s \in Items |-> IF s = a THEN ao ELSE bo]
MCIncludes == [s \in Items |-> IF s = a THEN {h} ELSE {}]
=============================================================================
