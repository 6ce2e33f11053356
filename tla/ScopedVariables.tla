--------------------------- MODULE ScopedVariables ---------------------------
(***************************************************************************)
(* What the variables of RHIDE are meant to be: each directory that is        *)
(* entered gives names new values, and leaving it gives them their old ones, *)
(* unless it is broken: what it has set is no longer known.                  *)
(***************************************************************************)
EXTENDS Naturals, Sequences, SequencesExt

CONSTANT Values          \* Values: what the names together can stand for
VARIABLES scopes,        \* the values seen outside, and in each open directory
          broken         \* the directories that are broken

Open == Len(scopes) - 1  \* directories that are open

Init == Len(scopes) = 1 /\ scopes[1] \in Values /\ broken = {}
Push == /\ Len(scopes') > Len(scopes) /\ Front(scopes') = scopes /\ Last(scopes') \in Values
        /\ UNCHANGED broken
Pop == Open > 0 /\ Open \notin broken /\ scopes' = Front(scopes) /\ UNCHANGED broken
\* a broken one leaves any values behind, and breaks those it is in
Lose == /\ Open \in broken
        /\ Len(scopes') = Open /\ Front(scopes') = Front(Front(scopes)) /\ Last(scopes') \in Values
        /\ broken' = 1..Open'
\* directories break, and are repaired, by what is in their files
Change == broken' \in SUBSET (1..Open) /\ UNCHANGED scopes
Next == Push \/ Pop \/ Lose \/ Change
Spec == Init /\ [][Next]_<<scopes, broken>>
=============================================================================
