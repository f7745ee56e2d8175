---------------------------- MODULE MCPhraseSearch ----------------------------
(* Small instances of PhraseSearch: all ranges have translation options, and *)
(* zones are properly nested or apart, as the tags of the input are.         *)
EXTENDS PhraseSearch, TLC

MCOptions == Positions \X Positions
MCLimits == -1..(Size - 1)
MCStarts == {0, 2}

AllZones == {z \in Positions \X Positions : z[1] <= z[2]}
Nested(y, z) == \/ y[2] < z[1] \/ z[2] < y[1]
                \/ z[1] <= y[1] /\ y[2] <= z[2]
                \/ y[1] <= z[1] /\ z[2] <= y[2]
ZoneLists == {<<>>} \union {<<z>> : z \in AllZones}
               \union {<<y, z>> : y, z \in AllZones}
MCZoneLists == {zs \in ZoneLists : Len(zs) = 2 => Nested(zs[1], zs[2]) /\ zs[1] # zs[2]}
MCWalls == {ws \in SUBSET (0..(Size - 2)) : Cardinality(ws) <= 2}

MCConstraints == [zone : MCZoneLists, walls : MCWalls]
=============================================================================
