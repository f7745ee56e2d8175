---------------------------- MODULE PhraseSearch ----------------------------
(***************************************************************************)
(* The search space of the phrase-based decoder: moses/SearchNormal.cpp    *)
(* (ProcessOneHypothesis), Hypothesis.cpp and InputType.cpp.  A state is a *)
(* hypothesis, as far as the search looks at it: the words translated so   *)
(* far and the range of the last phrase.  A step extends it by one phrase, *)
(* so that a behaviour is the derivation of a translation, and what is     *)
(* true of all behaviours is true whatever the stacks keep.                *)
(***************************************************************************)
EXTENDS ReorderingConstraint

CONSTANTS
  MaxPhrase,     \* max-phrase-length
  Options,       \* the ranges for which there are translation options
  Limits,        \* values of distortion-limit; a negative one is no limit
  Constraints,   \* reordering constraints: records of zones and walls
  Starts         \* how many words at the front are translated in advance

ASSUME SearchAssumption ==
  /\ MaxPhrase \in Nat \ {0}
  \* ProcessUnknownWord gives every word an option of its own
  /\ \A pos \in Positions : <<pos, pos>> \in Options
  /\ Limits \subseteq Int
  /\ Starts \subseteq 0..Size
  \* "no buggy walls, please": Sentence::Read keeps the walls within the sentence
  /\ \A c \in Constraints : /\ c.zone \in Seq(Positions \X Positions)
                             /\ c.walls \subseteq Positions

VARIABLES
  limit,               \* GetMaxDistortion()
  con,                 \* the sentence's reordering constraint
  m_sourceCompleted,   \* the bitmap
  prev                 \* m_currSourceWordsRange

vars == <<limit, con, m_sourceCompleted, prev>>

NoRange == <<NOT_FOUND, NOT_FOUND>>

SeedRange(n) == IF n > 0 THEN <<0, n - 1>> ELSE NoRange

\* The seed hypothesis, with the front of the sentence translated in advance
\* under -continue-partial-translation.
Init ==
  /\ limit \in Limits
  /\ \E c \in Constraints : con = Constraint(c.zone, c.walls)
  /\ \E n \in Starts :
       /\ m_sourceCompleted = 0..(n - 1)
       /\ prev = SeedRange(n)

AbsoluteOf(n) == IF n < 0 THEN -n ELSE n

\* The jump from the range to the word at pos
ComputeDistortionDistance(range, pos) ==
  IF range = NoRange THEN pos ELSE AbsoluteOf(range[2] - pos + 1)

FirstGap == GetFirstGapPos(m_sourceCompleted)

Overlap(startPos, endPos) == \E pos \in startPos..endPos : pos \in m_sourceCompleted

\* (mutant) the way back to the first gap is not looked at
MutWithinLimit(startPos, endPos) ==
  limit >= 0 => ComputeDistortionDistance(prev, startPos) <= limit

\* Neither the jump to the phrase is too long nor, if it starts to the right of the
\* first gap, the jump back from its end.
WithinLimit(startPos, endPos) ==
  limit >= 0 =>
    /\ ComputeDistortionDistance(prev, startPos) <= limit
    /\ \/ startPos = FirstGap
       \/ ComputeDistortionDistance(<<startPos, endPos>>, FirstGap) <= limit

CanExtend(startPos, endPos) ==
  /\ FirstGap <= startPos
  /\ endPos - startPos < MaxPhrase
  /\ <<startPos, endPos>> \in Options
  /\ ~Overlap(startPos, endPos)
  /\ Check(con, m_sourceCompleted, startPos, endPos, limit)
  /\ WithinLimit(startPos, endPos)

\* ExpandAllHypotheses, and the constructor of the new hypothesis
Extend(startPos, endPos) ==
  /\ CanExtend(startPos, endPos)
  /\ m_sourceCompleted' = m_sourceCompleted \union startPos..endPos
  /\ prev' = <<startPos, endPos>>
  /\ UNCHANGED <<limit, con>>

\* The hypothesis is a translation of the whole sentence.
Finished == IsComplete(m_sourceCompleted) /\ UNCHANGED vars

Next ==
  \/ \E startPos \in Positions : \E endPos \in startPos..(Size - 1) :
       Extend(startPos, endPos)
  \/ Finished

Spec == Init /\ [][Next]_vars

-----------------------------------------------------------------------------
TypeOK ==
  /\ limit \in Int
  /\ m_sourceCompleted \subseteq Positions
  /\ \/ prev = NoRange /\ m_sourceCompleted = {}
     \/ /\ prev \in Positions \X Positions
        /\ prev[1] <= prev[2]
        /\ prev[1]..prev[2] \subseteq m_sourceCompleted

\* "we ask now what its maximum value will be" (SearchNormal.cpp:217): whatever
\* jumps are made, the search is never left with a partial translation that cannot
\* be extended, by some single word, within the distortion limit and the reordering
\* constraints.
NoDeadEnd ==
  ~IsComplete(m_sourceCompleted) => \E pos \in Positions : CanExtend(pos, pos)

\* The translated words right of the first gap are all close to it, so that the
\* pattern of a bitmap's ID fits into its bits: assert(end < start || end-start <= 16).
WindowBound ==
  limit >= 0 => \A pos \in m_sourceCompleted : pos > FirstGap => pos + 1 - FirstGap <= limit

\* The jump back to the first gap is within the limit.
BackWithinLimit ==
  limit >= 0 /\ ~IsComplete(m_sourceCompleted) =>
    ComputeDistortionDistance(prev, FirstGap) <= limit

\* Several jumps, each of them allowed on the strength of one jump back in the future, never
\* add up to a hypothesis whose way back to its first gap, or whose window, is too long.
SearchInv == TypeOK /\ WindowBound /\ BackWithinLimit

\* "set a reordering zone (once entered, need to finish)" (ReorderingConstraint.cpp:96):
\* while a zone is partly translated, the last phrase has a word in it.
ZoneFinished ==
  \A k \in 1..Len(con.zone) :
    LET words == con.zone[k][1]..con.zone[k][2]
    IN  words \cap m_sourceCompleted # {} /\ ~(words \subseteq m_sourceCompleted)
          => prev[1]..prev[2] \cap words # {}

\* No gap is left behind a wall: with a word on its right, all on its left are translated.
WallKept ==
  \A w \in con.wall : \A pos \in m_sourceCompleted :
    pos > w => 0..w \subseteq m_sourceCompleted

\* The same for a local wall among the words of its zone.
LocalWallKept ==
  \A k \in 1..Len(con.zone) : \A w \in con.zone[k][1]..con.zone[k][2] :
    con.localWall[w] = k =>
      \A pos \in m_sourceCompleted :
        w < pos /\ pos <= con.zone[k][2] => con.zone[k][1]..w \subseteq m_sourceCompleted

\* Hypotheses are told apart by the ID of their bitmap when the stack keeps some of
\* each (stack-diversity): no two bitmaps within the window have the same ID.
InWindow(bitmap) ==
  \A pos \in bitmap : pos - GetFirstGapPos(bitmap) <= IdBits

IdDistinct ==
  limit \in 0..IdBits => \A other \in SUBSET Positions :
    InWindow(other) /\ GetID(other) = GetID(m_sourceCompleted)
      => other = m_sourceCompleted
=============================================================================
