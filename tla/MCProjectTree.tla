---------------------------- MODULE MCProjectTree ----------------------------
EXTENDS ProjectTree
Root == <<"a", "p">>
Child == <<"b", "p">>
Grand == <<"c", "p">>
MCSubs == [f \in Path |-> IF f = Root THEN <<Child, Grand>>
                         ELSE IF f = Child THEN <<Grand>> ELSE <<>>]
MCEnvFile == [d \in Dirs |-> CASE d = "b" -> [x |-> 1]
                              [] d = "c" -> [x |-> 3]
                              [] OTHER -> [v \in {} |-> 0]]
MCChosen == {Root}
MCGiven == {Root, <<"r", "p">>}
MCVer == [f \in Path |-> IF f \in {Root, Child} THEN 1 ELSE 0]
World(missing, gone, only) == [missing |-> missing, gone |-> gone, only |-> only]
MCWorlds == {World({Std, <<"r", "p">>}, {}, FALSE), World({Grand}, {}, FALSE),
             World({}, {"b"}, TRUE)}
=============================================================================
