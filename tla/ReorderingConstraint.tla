------------------------- MODULE ReorderingConstraint -------------------------
(***************************************************************************)
(* moses/ReorderingConstraint.cpp: walls and zones that limit the order in *)
(* which the words of a sentence may be translated.  A wall after a word   *)
(* keeps the words on its right from being translated before those on its  *)
(* left; a zone, once entered, must be finished; a wall inside a zone is a *)
(* local wall of that zone.  A constraint is a record                      *)
(*   active     m_active                                                   *)
(*   zone       the zones, pairs of a first and a last position            *)
(*   wall       the positions with a wall after them                       *)
(*   localWall  for each position the number of a zone, or NotAZone        *)
(***************************************************************************)
EXTENDS WordsBitmap, Sequences, FiniteSets

NotAZone == 0

\* A zone's walls are those before its last word.
Inside(pos, z) == z[1] <= pos /\ pos < z[2]

SmallerThan(y, z) == z[1] < y[1] \/ z[2] > y[2]

\* FinalizeWalls: each zone in turn takes the walls inside it that are not yet
\* local, and those of a zone that is not inside it
LocalWall(zone, walls, pos) ==
  LET owner[z \in 0..Len(zone)] ==
        IF z = 0 THEN NotAZone
        ELSE IF ~Inside(pos, zone[z]) THEN owner[z - 1]
        ELSE IF owner[z - 1] = NotAZone \/ SmallerThan(zone[z], zone[owner[z - 1]])
             THEN z ELSE owner[z - 1]
  IN  IF pos \in walls THEN owner[Len(zone)] ELSE NotAZone

\* InitializeWalls, SetZone, SetWall and FinalizeWalls
Constraint(zone, walls) ==
  [active    |-> zone # <<>> \/ walls # {},
   zone      |-> zone,
   wall      |-> {pos \in walls : LocalWall(zone, walls, pos) = NotAZone},
   localWall |-> [pos \in Positions |-> LocalWall(zone, walls, pos)]]

-----------------------------------------------------------------------------
(* Check(bitmap, startPos, endPos)                                         *)

\* (mutant) the wall just before the phrase is overlooked
MutHitsWall(con, bitmap, startPos, endPos) ==
  /\ GetFirstGapPos(bitmap) # startPos
  /\ \E pos \in (GetFirstGapPos(bitmap) + 1)..(endPos - 1) : pos \in con.wall

HitsWall(con, bitmap, startPos, endPos) ==
  /\ GetFirstGapPos(bitmap) # startPos
  /\ \E pos \in GetFirstGapPos(bitmap)..(endPos - 1) : pos \in con.wall

\* The words before the phrase, and no others, are translated.
Monotone(bitmap, startPos) == bitmap = 0..(startPos - 1)

\* (mutant) only the word at the wall itself is looked at
MutHitsLocalWall(con, k, bitmap, startPos, endPos) ==
  \E pos \in con.zone[k][1]..(endPos - 1) :
    /\ pos < con.zone[k][2]
    /\ con.localWall[pos] = k
    /\ pos \notin bitmap /\ pos < startPos

\* An untranslated word of zone k, before the phrase, is left behind a local wall.
HitsLocalWall(con, k, bitmap, startPos, endPos) ==
  \E pos \in con.zone[k][1]..(endPos - 1) :
    /\ pos < con.zone[k][2]
    /\ con.localWall[pos] = k
    /\ \E q \in con.zone[k][1]..pos : q \notin bitmap /\ q < startPos

\* (mutant) the distortion limit is not looked at
MutZoneOK(con, k, bitmap, startPos, endPos, limit) ==
  LET startZone == con.zone[k][1]
      endZone == con.zone[k][2]
      words == startZone..endZone
      outside == endPos < startZone \/ startPos > endZone
  IN  \/ words \subseteq bitmap
      \/ outside /\ words \cap bitmap = {}
      \/ /\ ~outside
         /\ \/ startPos <= startZone
            \/ endPos > endZone /\ endZone - startPos + 1 >= Cardinality(words \ bitmap)
            \/ endPos <= endZone /\ ~HitsLocalWall(con, k, bitmap, startPos, endPos)

\* (mutant) a zone that is begun may be left
MutLeaveZone(con, k, bitmap, startPos, endPos, limit) ==
  LET startZone == con.zone[k][1]
      endZone == con.zone[k][2]
      outside == endPos < startZone \/ startPos > endZone
  IN  outside \/ ~HitsLocalWall(con, k, bitmap, startPos, endPos)

\* The zone is finished, or it is not begun and not entered now, or the phrase is
\* in it: then it must be possible to finish it and come back within the limit, and
\* a phrase that goes beyond its end must complete it.
ZoneOK(con, k, bitmap, startPos, endPos, limit) ==
  LET startZone == con.zone[k][1]
      endZone == con.zone[k][2]
      words == startZone..endZone
      gap == GetFirstGapPos(bitmap)
      outside == endPos < startZone \/ startPos > endZone
  IN  \/ words \subseteq bitmap
      \/ outside /\ words \cap bitmap = {}
      \/ /\ ~outside
         /\ startPos = gap \/ limit < 0 \/ endZone - gap < limit
         /\ \/ startPos <= startZone
            \/ endPos > endZone /\ endZone - startPos + 1 >= Cardinality(words \ bitmap)
            \/ endPos <= endZone /\ ~HitsLocalWall(con, k, bitmap, startPos, endPos)

\* A negative limit, converted to size_t, is larger than every distance.
Check(con, bitmap, startPos, endPos, limit) ==
  con.active =>
    /\ ~HitsWall(con, bitmap, startPos, endPos)
    /\ \/ Monotone(bitmap, startPos)
       \/ \A k \in 1..Len(con.zone) : ZoneOK(con, k, bitmap, startPos, endPos, limit)
=============================================================================
