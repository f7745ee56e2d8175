------------------------- MODULE PhraseSearchProofs -------------------------
(***************************************************************************)
(* What PhraseSearch promises for every sentence length, distortion limit, *)
(* set of translation options and reordering constraint.                   *)
(***************************************************************************)
EXTENDS PhraseSearch, WellFoundedInduction, FiniteSetTheorems, TLAPS

\* Every non-empty set of natural numbers has a least element.
LEMMA LeastNatural ==
  ASSUME NEW T \in SUBSET Nat, T # {}
  PROVE  \E m \in T : \A k \in T : m <= k
<1> DEFINE R == {ss \in Nat \X Nat : ss[1] < ss[2]}
<1>1. IsWellFoundedOn(R, Nat)
  BY NatLessThanWellFounded DEF OpToRel
<1> HIDE DEF R
<1>2. PICK m \in T : \A k \in T : ~(<<k, m>> \in R)
  BY <1>1, WFMin, Zenon
<1>3. \A k \in T : ~(k < m)
  BY <1>2 DEF R
<1> QED BY <1>3

\* Induction: a set with 0 and the successor of each of its elements is all of Nat.
LEMMA SetInduction ==
  ASSUME NEW S \in SUBSET Nat, 0 \in S, \A n \in S : n + 1 \in S
  PROVE  S = Nat
<1> SUFFICES ASSUME Nat \ S # {} PROVE FALSE
  OBVIOUS
<1>1. PICK m \in Nat \ S : \A k \in Nat \ S : m <= k
  BY LeastNatural
<1>2. m # 0 /\ m - 1 \in Nat
  BY <1>1
<1>3. m - 1 \in S
  BY <1>1, <1>2
<1>4. (m - 1) + 1 \in S
  BY <1>3
<1> QED BY <1>1, <1>4

\* The first gap is the least position that is not translated.
LEMMA FirstGapIs ==
  ASSUME NEW bitmap \in SUBSET Positions, ~IsComplete(bitmap)
  PROVE  /\ GetFirstGapPos(bitmap) \in Positions
         /\ GetFirstGapPos(bitmap) \notin bitmap
         /\ \A q \in Positions \ bitmap : GetFirstGapPos(bitmap) <= q
<1> DEFINE Gaps == Positions \ bitmap
<1>0. bitmap # Positions
  BY DEF IsComplete
<1>1. Gaps \in SUBSET Nat /\ Gaps # {}
  <2>1. Gaps # {}
    BY <1>0
  <2>2. Positions \subseteq Nat
    BY BitmapAssumption DEF Positions
  <2> QED BY <2>1, <2>2
<1>2. \E m \in Gaps : \A q \in Gaps : m <= q
  BY <1>1, LeastNatural
<1> QED BY <1>2 DEF GetFirstGapPos

\* In any bitmap the positions before the first gap are translated.
LEMMA BeforeFirstGap ==
  ASSUME NEW bitmap \in SUBSET Positions
  PROVE  /\ GetFirstGapPos(bitmap) \in 0..Size
         /\ GetFirstGapPos(bitmap) \notin bitmap
         /\ \A q \in Positions : q < GetFirstGapPos(bitmap) => q \in bitmap
         /\ GetFirstGapPos(bitmap) = Size <=> IsComplete(bitmap)
<1>1. CASE IsComplete(bitmap)
  BY <1>1, BitmapAssumption DEF IsComplete, GetFirstGapPos, NOT_FOUND, Positions
<1>2. CASE ~IsComplete(bitmap)
  <2> DEFINE gap == GetFirstGapPos(bitmap)
  <2>1. gap \in Positions /\ gap \notin bitmap /\ \A q \in Positions \ bitmap : gap <= q
    BY <1>2, FirstGapIs
  <2> HIDE DEF gap
  <2>2. gap \in 0..Size /\ gap # Size
    BY <2>1, BitmapAssumption DEF Positions
  <2>3. \A q \in Positions : q < gap => q \in bitmap
    BY <2>1, <2>2, BitmapAssumption DEF Positions
  <2> QED BY <1>2, <2>1, <2>2, <2>3 DEF gap
<1> QED BY <1>1, <1>2

-----------------------------------------------------------------------------
\* The constraint was built by Constraint.
ConOK == \E c \in Constraints : con = Constraint(c.zone, c.walls)

IndInv == SearchInv /\ ConOK

LEMMA InitInv == Init => IndInv
<1> SUFFICES ASSUME Init PROVE IndInv
  OBVIOUS
<1>1. PICK n \in Starts : m_sourceCompleted = 0..(n - 1) /\ prev = SeedRange(n)
  BY DEF Init
<1>2. n \in 0..Size
  BY <1>1, SearchAssumption
<1>3. ConOK
  BY DEF Init, ConOK
<1>4. limit \in Int
  BY SearchAssumption DEF Init
<1>5. m_sourceCompleted \subseteq Positions
  BY <1>1, <1>2, BitmapAssumption DEF Positions
<1>6. CASE n = 0
  <2>1. m_sourceCompleted = {} /\ prev = NoRange
    BY <1>1, <1>6 DEF SeedRange
  <2>2. TypeOK
    BY <2>1, <1>4, <1>5 DEF TypeOK
  <2>3. WindowBound
    BY <2>1 DEF WindowBound
  <2>4. ~IsComplete(m_sourceCompleted) => FirstGap = 0
    BY <2>1, BitmapAssumption, FirstGapIs DEF FirstGap, Positions, IsComplete
  <2>5. BackWithinLimit
    BY <2>1, <2>4 DEF BackWithinLimit, ComputeDistortionDistance
  <2> QED BY <1>3, <2>2, <2>3, <2>5 DEF IndInv, SearchInv
<1>7. CASE n > 0
  <2>1. prev = <<0, n - 1>> /\ prev # NoRange
    BY <1>1, <1>2, <1>7, BitmapAssumption DEF SeedRange, NoRange, NOT_FOUND
  <2>2. TypeOK
    <3>1. prev \in Positions \X Positions /\ prev[1] = 0 /\ prev[2] = n - 1
      BY <2>1, <1>2, <1>7, BitmapAssumption DEF Positions
    <3> QED BY <3>1, <1>1, <1>2, <1>4, <1>5, <1>7 DEF TypeOK
  <2>3. FirstGap \in 0..Size /\ FirstGap \notin m_sourceCompleted
          /\ (\A q \in Positions : q < FirstGap => q \in m_sourceCompleted)
    BY <1>5, BeforeFirstGap DEF FirstGap
  <2>4. FirstGap >= n
    BY <2>3, <1>1, <1>2
  <2>5. WindowBound
    BY <2>3, <2>4, <1>1, <1>2 DEF WindowBound
  <2>6. ~IsComplete(m_sourceCompleted) => FirstGap = n
    BY <2>3, <2>4, <1>1, <1>2, <1>5, FirstGapIs, BitmapAssumption
       DEF FirstGap, Positions, IsComplete
  <2>7. BackWithinLimit
    <3> SUFFICES ASSUME limit >= 0, ~IsComplete(m_sourceCompleted)
                 PROVE  ComputeDistortionDistance(prev, FirstGap) <= limit
      BY DEF BackWithinLimit
    <3>1. FirstGap = n
      BY <2>6
    <3>2. ComputeDistortionDistance(prev, FirstGap) = AbsoluteOf((n - 1) - n + 1)
      BY <2>1, <3>1 DEF ComputeDistortionDistance
    <3> QED BY <3>2, <1>2, <1>4 DEF AbsoluteOf
  <2> QED BY <1>3, <2>2, <2>5, <2>7 DEF IndInv, SearchInv
<1> QED BY <1>2, <1>6, <1>7

\* One extension, by cases on whether it fills the first gap.
LEMMA ExtendInv ==
  ASSUME IndInv, NEW s \in Positions, NEW e \in s..(Size - 1), Extend(s, e)
  PROVE  IndInv'
<1> DEFINE old == m_sourceCompleted
           new == m_sourceCompleted'
           gap == FirstGap
           gap2 == FirstGap'
<1>1. /\ s \in 0..(Size - 1) /\ e \in 0..(Size - 1) /\ s <= e
      /\ s \in Int /\ e \in Int /\ Size \in Nat
  BY BitmapAssumption DEF Positions
<1>2. limit' = limit /\ con' = con /\ limit \in Int
  BY DEF Extend, IndInv, SearchInv, TypeOK
<1>3. new = old \union s..e /\ prev' = <<s, e>>
  BY DEF Extend
<1>4. old \in SUBSET Positions /\ new \in SUBSET Positions
  <2>1. old \in SUBSET Positions
    BY DEF IndInv, SearchInv, TypeOK
  <2>2. s..e \subseteq Positions
    BY <1>1 DEF Positions
  <2> QED BY <1>3, <2>1, <2>2
<1>5. gap \in 0..Size /\ gap \notin old /\ (\A q \in 0..(Size - 1) : q < gap => q \in old)
  BY <1>4, BeforeFirstGap DEF FirstGap, Positions
<1>6. gap2 \in 0..Size /\ gap2 \notin new /\ (\A q \in 0..(Size - 1) : q < gap2 => q \in new)
  BY <1>4, BeforeFirstGap DEF FirstGap, Positions
<1>7. gap <= s /\ \A pos \in s..e : pos \notin old
  BY DEF Extend, CanExtend, Overlap
<1>8. gap <= gap2
  BY <1>1, <1>3, <1>5, <1>6
<1>9. TypeOK'
  <2>1. <<s, e>> \in Positions \X Positions /\ <<s, e>>[1] = s /\ <<s, e>>[2] = e
    BY <1>1 DEF Positions
  <2> QED BY <1>1, <1>2, <1>3, <1>4, <2>1 DEF TypeOK
<1>10. ConOK'
  BY <1>2 DEF ConOK, IndInv, SearchInv
<1>11. limit >= 0 => \A pos \in old : pos > gap => pos + 1 - gap <= limit
  BY DEF IndInv, SearchInv, WindowBound
<1>12. s # gap /\ limit >= 0 => e - gap + 1 <= limit
  <2> SUFFICES ASSUME s # gap, limit >= 0 PROVE e - gap + 1 <= limit
    OBVIOUS
  <2>1. ComputeDistortionDistance(<<s, e>>, gap) <= limit
    BY DEF Extend, CanExtend, WithinLimit
  <2>2. <<s, e>> # NoRange
    BY <1>1 DEF NoRange, NOT_FOUND
  <2>3. ComputeDistortionDistance(<<s, e>>, gap) = AbsoluteOf(e - gap + 1)
    BY <2>2 DEF ComputeDistortionDistance
  <2>4. e - gap + 1 \in Nat
    BY <1>1, <1>5, <1>7
  <2>5. AbsoluteOf(e - gap + 1) = e - gap + 1
    BY <2>4 DEF AbsoluteOf
  <2> QED BY <2>1, <2>3, <2>5
<1> HIDE DEF old, new, gap, gap2
<1>13. limit >= 0 => \A pos \in new : pos > gap2 => pos + 1 - gap2 <= limit
  <2> SUFFICES ASSUME limit >= 0, NEW pos \in new, pos > gap2
               PROVE  pos + 1 - gap2 <= limit
    OBVIOUS
  <2>1. pos \in Int
    BY <1>4, BitmapAssumption DEF Positions
  <2>2. CASE pos \in old
    <3>1. pos + 1 - gap <= limit
      BY <1>5, <1>6, <1>8, <1>11, <2>1, <2>2
    <3> QED BY <1>2, <1>5, <1>6, <1>8, <2>1, <3>1
  <2>3. CASE pos \in s..e /\ s # gap
    BY <1>1, <1>2, <1>5, <1>6, <1>8, <1>12, <2>1, <2>3
  <2>4. CASE pos \in s..e /\ s = gap
    \* then the first gap has moved beyond the phrase
    <3>1. gap2 > e
      BY <1>1, <1>3, <1>6, <1>8, <2>4
    <3> QED BY <1>1, <1>6, <2>1, <2>4, <3>1
  <2> QED BY <1>3, <2>2, <2>3, <2>4
<1>14. WindowBound'
  BY <1>2, <1>13 DEF WindowBound, new, gap2
<1>15. limit >= 0 /\ ~IsComplete(new) => AbsoluteOf(e - gap2 + 1) <= limit
  <2> SUFFICES ASSUME limit >= 0 PROVE AbsoluteOf(e - gap2 + 1) <= limit
    OBVIOUS
  <2>1. CASE s # gap
    <3>1. gap \notin new
      BY <1>1, <1>3, <1>5, <1>7, <2>1
    <3>2. gap2 = gap
      BY <1>1, <1>5, <1>6, <1>7, <1>8, <3>1
    <3>3. e - gap2 + 1 <= limit /\ e - gap2 + 1 \in Nat
      BY <1>1, <1>5, <1>7, <1>12, <2>1, <3>2
    <3> QED BY <1>2, <3>3 DEF AbsoluteOf
  <2>2. CASE s = gap
    <3>1. gap2 > e
      BY <1>1, <1>3, <1>6, <1>8, <2>2
    <3>2. CASE gap2 = e + 1
      BY <1>1, <1>2, <3>2 DEF AbsoluteOf
    <3>3. CASE gap2 > e + 1
      \* the word before the first gap was translated before
      <4>1. gap2 - 1 \in old /\ gap2 - 1 > gap
        BY <1>1, <1>3, <1>5, <1>6, <2>2, <3>3
      <4>2. (gap2 - 1) + 1 - gap <= limit
        BY <1>11, <4>1
      <4>3. gap2 - e - 1 <= limit
        BY <1>1, <1>2, <1>5, <1>6, <1>7, <4>2, <2>2
      <4>4. AbsoluteOf(e - gap2 + 1) = gap2 - e - 1
        BY <1>1, <1>6, <3>3 DEF AbsoluteOf
      <4> QED BY <4>3, <4>4
    <3> QED BY <1>1, <1>6, <3>1, <3>2, <3>3
  <2> QED BY <2>1, <2>2
<1>16. BackWithinLimit'
  <2>1. <<s, e>> # NoRange
    BY <1>1 DEF NoRange, NOT_FOUND
  <2>2. ComputeDistortionDistance(<<s, e>>, gap2) = AbsoluteOf(e - gap2 + 1)
    BY <2>1 DEF ComputeDistortionDistance
  <2> QED BY <1>2, <1>3, <1>15, <2>2 DEF BackWithinLimit, new, gap2
<1> QED BY <1>9, <1>10, <1>14, <1>16 DEF IndInv, SearchInv

LEMMA NextInv == IndInv /\ [Next]_vars => IndInv'
<1> SUFFICES ASSUME IndInv, [Next]_vars PROVE IndInv'
  OBVIOUS
<1>1. CASE UNCHANGED vars
  BY <1>1 DEF IndInv, SearchInv, TypeOK, ConOK, WindowBound, BackWithinLimit, FirstGap, vars
<1>2. CASE Finished
  BY <1>1, <1>2 DEF Finished
<1>3. ASSUME NEW s \in Positions, NEW e \in s..(Size - 1), Extend(s, e)
      PROVE  IndInv'
  BY <1>3, ExtendInv
<1> QED BY <1>1, <1>2, <1>3 DEF Next

\* The invariant of the search.
LEMMA Inductive == Spec => []IndInv
BY InitInv, NextInv, PTL DEF Spec

\* For every sentence, every distortion limit and every constraint: the translated words right
\* of the first gap are within the limit of it, which GetID's assertion relies on, and so is the
\* jump back.
THEOREM SearchInvariant == Spec => []SearchInv
<1>1. IndInv => SearchInv
  BY DEF IndInv
<1> QED BY Inductive, <1>1, PTL

-----------------------------------------------------------------------------
(* The reordering constraints                                              *)

\* A sentence with a zone or a wall has an active constraint: Check is in force.
LEMMA ConstraintFacts ==
  ASSUME ConOK
  PROVE  /\ con.zone \in Seq(Positions \X Positions)
         /\ con.wall \subseteq Positions
         /\ con.wall # {} => con.active
         /\ Len(con.zone) > 0 => con.active
         /\ \A k \in 1..Len(con.zone) : con.zone[k][1] \in Nat /\ con.zone[k][2] \in Nat
<1>1. PICK c \in Constraints : con = Constraint(c.zone, c.walls)
  BY DEF ConOK
<1>2. c.zone \in Seq(Positions \X Positions) /\ c.walls \subseteq Positions
  BY SearchAssumption
<1>3. /\ con.zone = c.zone
      /\ con.active <=> (c.zone # <<>> \/ c.walls # {})
      /\ con.wall \subseteq c.walls
  BY <1>1 DEF Constraint
<1>4. Positions \subseteq Nat
  BY BitmapAssumption DEF Positions
<1>5. \A k \in 1..Len(c.zone) : c.zone[k] \in Positions \X Positions
  BY <1>2
<1>6. Len(c.zone) > 0 => c.zone # <<>>
  BY <1>2
<1> QED BY <1>2, <1>3, <1>4, <1>5, <1>6

LEMMA ExtendWallKept ==
  ASSUME IndInv, WallKept,
         NEW s \in Positions, NEW e \in s..(Size - 1), Extend(s, e)
  PROVE  WallKept'
<1> DEFINE old == m_sourceCompleted
           gap == FirstGap
<1> SUFFICES ASSUME NEW w \in con.wall, NEW pos \in old \union s..e, pos > w,
                    NEW q \in 0..w, q \notin old \union s..e
             PROVE  FALSE
  BY DEF WallKept, Extend
<1>1. /\ s \in 0..(Size - 1) /\ e \in 0..(Size - 1) /\ s <= e /\ Size \in Nat
      /\ old \in SUBSET (0..(Size - 1))
  BY BitmapAssumption DEF Positions, IndInv, SearchInv, TypeOK
<1>2. ConOK
  BY DEF IndInv, SearchInv
<1>3. w \in 0..(Size - 1) /\ con.active
  BY <1>2, ConstraintFacts DEF Positions
<1>4. pos \in s..e
  BY DEF WallKept
<1>5. q \notin old /\ q \in Positions /\ q < s /\ w < e
  BY <1>1, <1>3, <1>4 DEF Positions
<1>6. gap \in 0..Size /\ gap <= q
  <2>1. old \in SUBSET Positions
    BY <1>1 DEF Positions
  <2>2. gap \in 0..Size /\ ~(q < gap)
    BY <1>5, <2>1, BeforeFirstGap DEF FirstGap
  <2> QED BY <1>1, <1>3, <2>2
<1>7. ~HitsWall(con, old, s, e)
  BY <1>3 DEF Extend, CanExtend, Check
<1>8. gap # s /\ w \in gap..(e - 1)
  BY <1>1, <1>3, <1>5, <1>6
<1> QED BY <1>7, <1>8 DEF HitsWall, FirstGap

\* No derivation, whatever its phrases, moves over a wall with a gap on its left.
THEOREM WallsKept == Spec => []WallKept
<1>1. Init => WallKept
  <2> SUFFICES ASSUME Init PROVE WallKept
    OBVIOUS
  <2>1. PICK n \in Starts : m_sourceCompleted = 0..(n - 1)
    BY DEF Init
  <2>2. n \in Nat
    BY <2>1, SearchAssumption, BitmapAssumption
  <2>3. con.wall \subseteq Nat
    BY InitInv, ConstraintFacts, BitmapAssumption DEF IndInv, SearchInv, Positions
  <2> QED BY <2>1, <2>2, <2>3 DEF WallKept
<1>2. IndInv /\ WallKept /\ [Next]_vars => WallKept'
  <2> SUFFICES ASSUME IndInv, WallKept, [Next]_vars PROVE WallKept'
    OBVIOUS
  <2>1. CASE UNCHANGED vars
    BY <2>1 DEF WallKept, vars
  <2>2. CASE Finished
    BY <2>1, <2>2 DEF Finished
  <2>3. ASSUME NEW s \in Positions, NEW e \in s..(Size - 1), Extend(s, e)
        PROVE  WallKept'
    BY <2>3, ExtendWallKept
  <2> QED BY <2>1, <2>2, <2>3 DEF Next
<1> QED BY Inductive, <1>1, <1>2, PTL DEF Spec

ZoneWords(k) == con.zone[k][1]..con.zone[k][2]
Open(k) == ZoneWords(k) \cap m_sourceCompleted # {} /\ ~(ZoneWords(k) \subseteq m_sourceCompleted)

\* The last phrase ended in every open zone; and one with a word right of the first gap can be
\* finished within the limit.
ZoneInv ==
  \A k \in 1..Len(con.zone) : Open(k) =>
    /\ prev[2] \in ZoneWords(k)
    /\ \A pos \in ZoneWords(k) \cap m_sourceCompleted :
         pos > FirstGap => limit < 0 \/ con.zone[k][2] - FirstGap < limit

\* At the start the only translated words are those in front.
LEMMA InitZoneInv == Init => ZoneInv
<1> SUFFICES ASSUME Init, NEW k \in 1..Len(con.zone), Open(k)
             PROVE  /\ prev[2] \in ZoneWords(k)
                    /\ \A pos \in ZoneWords(k) \cap m_sourceCompleted : ~(pos > FirstGap)
  BY DEF ZoneInv
<1>1. PICK n \in Starts : m_sourceCompleted = 0..(n - 1) /\ prev = SeedRange(n)
  BY DEF Init
<1>2. n \in Nat /\ n \in 0..Size
  BY <1>1, SearchAssumption, BitmapAssumption
<1>3. con.zone[k][1] \in Nat /\ con.zone[k][2] \in Nat
  BY InitInv, ConstraintFacts DEF IndInv, SearchInv
<1>4. n > 0 /\ con.zone[k][1] <= n - 1 /\ n - 1 < con.zone[k][2]
  BY <1>1, <1>2, <1>3 DEF Open, ZoneWords
<1>5. prev[2] = n - 1
  BY <1>1, <1>4 DEF SeedRange
<1>6. FirstGap \notin 0..(n - 1) /\ FirstGap \in Nat
  <2>1. m_sourceCompleted \in SUBSET Positions
    BY InitInv DEF IndInv, SearchInv, TypeOK
  <2>2. FirstGap \in 0..Size /\ FirstGap \notin m_sourceCompleted
    BY <2>1, BeforeFirstGap DEF FirstGap
  <2> QED BY <1>1, <2>2
<1> QED BY <1>1, <1>2, <1>3, <1>4, <1>5, <1>6 DEF ZoneWords

\* A phrase that reaches beyond the end of a zone it is in completes it.
LEMMA BeyondEnd ==
  ASSUME NEW a \in Nat, NEW b \in Nat, NEW old, NEW s \in Int, NEW e \in Int,
         e > b, s <= b, \A pos \in s..e : pos \notin old,
         s <= a \/ b - s + 1 >= Cardinality((a..b) \ old)
  PROVE  a..b \subseteq old \cup s..e
<1>1. CASE s <= a
  BY <1>1
<1>2. CASE s > a /\ b - s + 1 >= Cardinality((a..b) \ old)
  <2>1. s..b \subseteq (a..b) \ old
    BY <1>2
  <2>2. IsFiniteSet((a..b) \ old)
    <3>1. IsFiniteSet(a..b) /\ (a..b) \ old \subseteq a..b
      BY FS_Interval
    <3> QED BY <3>1, FS_Subset
  <2>3. IsFiniteSet(s..b) /\ Cardinality(s..b) = b - s + 1
    BY FS_Interval
  <2>4. Cardinality((a..b) \ old) \in Nat
    BY <2>2, FS_CardinalityType
  <2>5. Cardinality(s..b) <= Cardinality((a..b) \ old)
    BY <2>1, <2>2, FS_Subset
  <2>6. Cardinality(s..b) = Cardinality((a..b) \ old)
    BY <1>2, <2>3, <2>4, <2>5
  <2>7. s..b = (a..b) \ old
    BY <2>1, <2>2, <2>6, FS_Subset
  <2> QED BY <2>7
<1> QED BY <1>1, <1>2

\* An extension keeps it: Check lets no phrase out of an open zone but one that completes it.
LEMMA ExtendZoneInv ==
  ASSUME IndInv, ZoneInv, NEW s \in Positions, NEW e \in s..(Size - 1), Extend(s, e)
  PROVE  ZoneInv'
<1> DEFINE old == m_sourceCompleted
           new == old \cup s..e
           gap == FirstGap
           gap2 == FirstGap'
<1>1. con' = con /\ limit' = limit /\ m_sourceCompleted' = new /\ prev'[2] = e
  BY DEF Extend
<1> SUFFICES ASSUME NEW k \in 1..Len(con.zone), ZoneWords(k) \cap new # {}, ~(ZoneWords(k) \subseteq new)
             PROVE  /\ e \in ZoneWords(k)
                    /\ \A pos \in ZoneWords(k) \cap new :
                         pos > gap2 => limit < 0 \/ con.zone[k][2] - gap2 < limit
  BY <1>1 DEF ZoneInv, Open, ZoneWords
<1>2. s \in Int /\ e \in Int /\ s <= e /\ s >= 0 /\ Size \in Nat /\ limit \in Int
  BY BitmapAssumption DEF Positions, IndInv, SearchInv, TypeOK
<1>3. con.active /\ con.zone[k][1] \in Nat /\ con.zone[k][2] \in Nat
  <2>1. ConOK /\ Len(con.zone) \in Nat
    BY ConstraintFacts DEF IndInv, SearchInv
  <2>2. Len(con.zone) > 0
    BY <2>1
  <2> QED BY <2>1, <2>2, ConstraintFacts
<1>4. old \in SUBSET Positions /\ new \in SUBSET Positions
  <2>1. s..e \subseteq Positions
    BY <1>2 DEF Positions
  <2> QED BY <2>1 DEF IndInv, SearchInv, TypeOK
<1>5. gap \in 0..Size /\ gap \notin old /\ \A q \in Positions : q < gap => q \in old
  BY <1>4, BeforeFirstGap DEF FirstGap
<1>6. gap2 \in 0..Size /\ gap2 \notin new /\ \A q \in Positions : q < gap2 => q \in new
  <2>1. gap2 = GetFirstGapPos(new)
    BY <1>1 DEF FirstGap
  <2> QED BY <1>4, <2>1, BeforeFirstGap
<1>7. gap <= s /\ (\A pos \in s..e : pos \notin old) /\ Check(con, old, s, e, limit)
  BY DEF Extend, CanExtend, Overlap
<1>8. gap <= gap2 /\ (s = gap => gap2 > e) /\ (s # gap => gap2 = gap)
  <2>1. \A q \in 0..(Size - 1) : (q < gap => q \in old) /\ (q < gap2 => q \in new)
    BY <1>5, <1>6 DEF Positions
  <2>2. gap <= gap2
    BY <1>2, <1>5, <1>6, <2>1
  <2>3. ASSUME s = gap PROVE gap2 > e
    BY <1>2, <1>5, <1>6, <2>2, <2>3
  <2>4. ASSUME s # gap PROVE gap2 = gap
    BY <1>2, <1>5, <1>6, <1>7, <2>1, <2>2, <2>4
  <2> QED BY <2>2, <2>3, <2>4
<1>9. PICK a \in Nat, b \in Nat : a = con.zone[k][1] /\ b = con.zone[k][2]
  BY <1>3
<1>10. ZoneWords(k) = a..b
  BY <1>9 DEF ZoneWords
<1>11. Open(k) => \A pos \in (a..b) \cap old : pos > gap => limit < 0 \/ b - gap < limit
  BY <1>9, <1>10 DEF ZoneInv
<1> HIDE DEF old, new, gap, gap2
<1>12. \/ Monotone(old, s)
       \/ ZoneOK(con, k, old, s, e, limit)
  BY <1>3, <1>7 DEF Check
<1>13. CASE Monotone(old, s)
  <2>1. new = 0..e
    BY <1>2, <1>13 DEF Monotone, new
  <2>2. a <= e /\ e < b /\ \A pos \in new : ~(pos > gap2)
    <3>1. gap2 > e
      BY <1>2, <1>6, <2>1
    <3> QED BY <1>2, <1>6, <1>10, <2>1, <3>1
  <2> QED BY <1>2, <1>10, <2>2
<1>14. CASE ZoneOK(con, k, old, s, e, limit)
  <2>1. /\ ~(a..b \subseteq new) /\ (a..b) \cap new # {}
        /\ ~(a..b \subseteq old)
    BY <1>10 DEF new
  <2>2. ~(e < a \/ s > b)
    <3> SUFFICES ASSUME e < a \/ s > b PROVE FALSE
      OBVIOUS
    <3>1. (a..b) \cap old = {}
      BY <1>9, <1>14, <2>1 DEF ZoneOK
    <3>2. (a..b) \cap (s..e) = {}
      BY <1>2
    <3> QED BY <2>1, <3>1, <3>2 DEF new
  <2>3. /\ s = gap \/ limit < 0 \/ b - gap < limit
        /\ \/ s <= a
           \/ e > b /\ b - s + 1 >= Cardinality((a..b) \ old)
           \/ e <= b
    BY <1>9, <1>14, <2>1, <2>2 DEF ZoneOK, FirstGap, gap, old
  <2>4. e <= b
    <3> SUFFICES ASSUME e > b PROVE FALSE
      BY <1>2
    <3>1. s <= a \/ b - s + 1 >= Cardinality((a..b) \ old)
      BY <1>2, <2>3
    <3>2. s <= b /\ \A pos \in s..e : pos \notin old
      BY <1>2, <1>7, <2>2
    <3>3. a..b \subseteq old \cup s..e
      BY <1>2, <3>1, <3>2, BeyondEnd
    <3> QED BY <2>1, <3>3 DEF new
  <2>5. e \in a..b
    BY <1>2, <2>2, <2>4
  <2>6. ASSUME NEW pos \in (a..b) \cap new, pos > gap2 PROVE limit < 0 \/ b - gap2 < limit
    <3>1. CASE s # gap
      BY <1>8, <2>3, <3>1
    <3>2. CASE s = gap
      <4>1. pos \in old /\ pos > gap
        BY <1>2, <1>5, <1>6, <1>8, <2>6, <3>2 DEF new
      <4>2. Open(k)
        BY <1>10, <2>1, <4>1 DEF Open, old
      <4>3. limit < 0 \/ b - gap < limit
        BY <1>11, <4>1, <4>2
      <4> QED BY <1>2, <1>5, <1>6, <1>8, <4>3
    <3> QED BY <3>1, <3>2
  <2> QED BY <1>9, <1>10, <2>5, <2>6
<1> QED BY <1>12, <1>13, <1>14

\* So it always holds.
LEMMA ZoneInductive == Spec => [](IndInv /\ ZoneInv)
<1>1. IndInv /\ ZoneInv /\ [Next]_vars => ZoneInv'
  <2> SUFFICES ASSUME IndInv, ZoneInv, [Next]_vars PROVE ZoneInv'
    OBVIOUS
  <2>1. CASE UNCHANGED vars
    BY <2>1 DEF ZoneInv, Open, ZoneWords, FirstGap, vars
  <2>2. CASE Finished
    BY <2>1, <2>2 DEF Finished
  <2>3. ASSUME NEW s \in Positions, NEW e \in s..(Size - 1), Extend(s, e)
        PROVE  ZoneInv'
    BY <2>3, ExtendZoneInv
  <2> QED BY <2>1, <2>2, <2>3 DEF Next
<1> QED BY Inductive, InitZoneInv, <1>1, PTL DEF Spec

\* ZoneFinished ("once entered, need to finish"): every derivation stays in the zones it has begun.
THEOREM ZonesFinished == Spec => []ZoneFinished
<1>1. IndInv /\ ZoneInv => ZoneFinished
  <2> SUFFICES ASSUME IndInv, ZoneInv, NEW k \in 1..Len(con.zone), Open(k)
               PROVE  prev[1]..prev[2] \cap ZoneWords(k) # {}
    BY DEF ZoneFinished, Open, ZoneWords
  <2>1. prev[2] \in ZoneWords(k)
    BY DEF ZoneInv
  <2>2. prev[2] \in prev[1]..prev[2]
    <3>1. m_sourceCompleted # {}
      BY DEF Open
    <3>2. prev \in Positions \X Positions /\ prev[1] <= prev[2]
      BY <3>1 DEF IndInv, SearchInv, TypeOK
    <3>3. prev[1] \in Int /\ prev[2] \in Int
      BY <3>2, BitmapAssumption DEF Positions
    <3> QED BY <3>2, <3>3
  <2> QED BY <2>1, <2>2
<1> QED BY <1>1, ZoneInductive, PTL

\* The words k..m of a zone with the word q < k are more than m - k + 1 many.
LEMMA OneMore ==
  ASSUME NEW k \in Int, NEW m \in Int, k <= m, NEW q \in Int, q < k,
         NEW S, IsFiniteSet(S), q \in S, k..m \subseteq S
  PROVE  Cardinality(S) > m - k + 1
<1>1. IsFiniteSet(k..m) /\ Cardinality(k..m) = m - k + 1
  BY FS_Interval
<1>2. q \notin k..m
  OBVIOUS
<1>3. IsFiniteSet(k..m \union {q}) /\ Cardinality(k..m \union {q}) = m - k + 2
  <2>1. /\ IsFiniteSet(k..m \union {q})
        /\ Cardinality(k..m \union {q}) = Cardinality(k..m) + 1
    BY <1>1, <1>2, FS_AddElement
  <2> QED BY <1>1, <2>1
<1>4. Cardinality(k..m \union {q}) <= Cardinality(S) /\ Cardinality(S) \in Nat
  BY FS_Subset, FS_CardinalityType
<1> QED BY <1>3, <1>4

LEMMA ExtendLocalWallKept ==
  ASSUME IndInv, LocalWallKept,
         NEW s \in Positions, NEW e \in s..(Size - 1), Extend(s, e)
  PROVE  LocalWallKept'
<1> DEFINE old == m_sourceCompleted
           first(k) == con.zone[k][1]
           last(k) == con.zone[k][2]
<1> SUFFICES ASSUME NEW k \in 1..Len(con.zone), NEW w \in first(k)..last(k),
                    con.localWall[w] = k,
                    NEW pos \in old \union s..e, w < pos, pos <= last(k),
                    NEW q \in first(k)..w, q \notin old \union s..e
             PROVE  FALSE
  <2>1. con' = con /\ m_sourceCompleted' = old \union s..e
    BY DEF Extend
  <2> QED BY <2>1 DEF LocalWallKept
<1>1. s \in Int /\ e \in Int /\ s <= e /\ s >= 0
  BY BitmapAssumption DEF Positions
<1>2. con.active /\ first(k) \in Nat /\ last(k) \in Nat
  <2>1. ConOK /\ Len(con.zone) \in Nat
    BY ConstraintFacts DEF IndInv, SearchInv
  <2>2. Len(con.zone) > 0
    BY <2>1
  <2> QED BY <2>1, <2>2, ConstraintFacts
<1>3. pos \in s..e
  BY DEF LocalWallKept
<1>4. ~Overlap(s, e) /\ Check(con, old, s, e, limit)
  BY DEF Extend, CanExtend
<1> DEFINE a == first(k)
           b == last(k)
<1>5. /\ a \in Nat /\ b \in Nat /\ w \in Int /\ q \in Int
      /\ a <= q /\ q <= w /\ w < pos /\ pos <= b /\ w <= b
  BY <1>2
<1>6. /\ con.zone[k][1] = a /\ con.zone[k][2] = b
  OBVIOUS
<1> HIDE DEF a, b, first, last
<1>7. q < s /\ s <= b /\ e >= a /\ ~(s <= a) /\ w < b /\ w <= e - 1
  BY <1>1, <1>3, <1>5
<1>8. ~Monotone(old, s)
  BY <1>1, <1>5, <1>7 DEF Monotone
<1>9. ZoneOK(con, k, old, s, e, limit)
  BY <1>2, <1>4, <1>8 DEF Check
<1>10. q \in a..b /\ q \notin old /\ w \in a..(e - 1) /\ q \in a..w
  BY <1>1, <1>5, <1>7
<1>11. ~(a..b \subseteq old) /\ ~(e < a) /\ ~(s > b)
  BY <1>1, <1>5, <1>7, <1>10
<1>12. \/ e > b /\ b - s + 1 >= Cardinality((a..b) \ old)
       \/ e <= b /\ ~HitsLocalWall(con, k, old, s, e)
  BY <1>6, <1>7, <1>9, <1>11 DEF ZoneOK
<1>13. CASE e > b
  \* the phrase covers the end of the zone, but not q
  <2>1. s..b \subseteq (a..b) \ old
    BY <1>1, <1>4, <1>5, <1>7, <1>13 DEF Overlap
  <2>2. IsFiniteSet((a..b) \ old)
    <3>1. IsFiniteSet(a..b)
      BY <1>5, FS_Interval
    <3>2. (a..b) \ old \subseteq a..b
      OBVIOUS
    <3> QED BY <3>1, <3>2, FS_Subset
  <2>3. Cardinality((a..b) \ old) > b - s + 1
    BY <1>1, <1>5, <1>7, <1>10, <2>1, <2>2, OneMore
  <2>4. Cardinality((a..b) \ old) \in Nat
    BY <2>2, FS_CardinalityType
  <2> QED BY <1>1, <1>5, <1>12, <1>13, <2>3, <2>4
<1>14. CASE e <= b
  <2>1. HitsLocalWall(con, k, old, s, e)
    BY <1>6, <1>7, <1>10 DEF HitsLocalWall
  <2> QED BY <1>1, <1>5, <1>12, <1>14, <2>1
<1> QED BY <1>1, <1>5, <1>13, <1>14

\* Nor over a local wall with a gap on its left in the wall's zone.
THEOREM LocalWallsKept == Spec => []LocalWallKept
<1>1. Init => LocalWallKept
  <2> SUFFICES ASSUME Init PROVE LocalWallKept
    OBVIOUS
  <2>1. PICK n \in Starts : m_sourceCompleted = 0..(n - 1)
    BY DEF Init
  <2>2. n \in Nat
    BY <2>1, SearchAssumption, BitmapAssumption
  <2>3. \A k \in 1..Len(con.zone) : con.zone[k][1] \in Nat /\ con.zone[k][2] \in Nat
    BY InitInv, ConstraintFacts DEF IndInv, SearchInv
  <2>4. ASSUME NEW a \in Nat, NEW b \in Nat, NEW w \in a..b,
               NEW pos \in m_sourceCompleted, w < pos
        PROVE  a..w \subseteq m_sourceCompleted
    BY <2>1, <2>2, <2>4
  <2> QED BY <2>3, <2>4 DEF LocalWallKept
<1>2. IndInv /\ LocalWallKept /\ [Next]_vars => LocalWallKept'
  <2> SUFFICES ASSUME IndInv, LocalWallKept, [Next]_vars PROVE LocalWallKept'
    OBVIOUS
  <2>1. CASE UNCHANGED vars
    BY <2>1 DEF LocalWallKept, vars
  <2>2. CASE Finished
    BY <2>1, <2>2 DEF Finished
  <2>3. ASSUME NEW s \in Positions, NEW e \in s..(Size - 1), Extend(s, e)
        PROVE  LocalWallKept'
    BY <2>3, ExtendLocalWallKept
  <2> QED BY <2>1, <2>2, <2>3 DEF Next
<1> QED BY Inductive, <1>1, <1>2, PTL DEF Spec

-----------------------------------------------------------------------------
(* The search never comes to a dead end                                     *)

\* Zones are within each other or apart, as tags without a span attribute are.
NestedZones(zone) ==
  \A i, j \in 1..Len(zone) :
    /\ zone[i][1] <= zone[i][2]
    /\ \/ zone[i][2] < zone[j][1] \/ zone[j][2] < zone[i][1]
       \/ zone[i][1] <= zone[j][1] /\ zone[j][2] <= zone[i][2]
       \/ zone[j][1] <= zone[i][1] /\ zone[i][2] <= zone[j][2]

\* A loop over 1..n that carries a number along, from 0.
Carried(g, n, step) == g = [z \in 0..n |-> IF z = 0 THEN 0 ELSE step[<<z, g[z - 1]>>]]

\* There is such a loop (a recursive function has to be shown to exist).
LEMMA CarriedExists ==
  ASSUME NEW n \in Nat, NEW step \in [Nat \X Nat -> Nat]
  PROVE  \E g : Carried(g, n, step)
<1> DEFINE Upto(g, m) == \A z \in 0..m : g[z] = IF z = 0 THEN 0 ELSE step[<<z, g[z - 1]>>]
<1> DEFINE S == {m \in Nat : \E g \in [Nat -> Nat] : Upto(g, m)}
<1>1. 0 \in S
  <2>1. [z \in Nat |-> 0] \in [Nat -> Nat] /\ Upto([z \in Nat |-> 0], 0)
    OBVIOUS
  <2> QED BY <2>1
<1>2. ASSUME NEW m \in S PROVE m + 1 \in S
  <2>1. PICK g \in [Nat -> Nat] : Upto(g, m)
    BY <1>2
  <2>2. m \in Nat
    OBVIOUS
  <2> DEFINE h == [g EXCEPT ![m + 1] = step[<<m + 1, g[m]>>]]
  <2>3. h \in [Nat -> Nat]
    BY <2>2
  <2>4. h[m + 1] = step[<<m + 1, g[m]>>] /\ \A z \in Nat : z # m + 1 => h[z] = g[z]
    BY <2>2
  <2> HIDE DEF h
  <2>5. ASSUME NEW z \in 0..(m + 1) PROVE h[z] = IF z = 0 THEN 0 ELSE step[<<z, h[z - 1]>>]
    <3>1. CASE z = m + 1
      <4>1. z - 1 = m /\ h[m] = g[m] /\ z # 0
        BY <2>2, <2>4, <3>1
      <4> QED BY <2>4, <3>1, <4>1
    <3>2. CASE z # m + 1
      <4>1. z \in 0..m /\ h[z] = g[z] /\ (z # 0 => h[z - 1] = g[z - 1])
        BY <2>2, <2>4, <3>2
      <4> QED BY <2>1, <4>1
    <3> QED BY <3>1, <3>2
  <2>6. m + 1 \in Nat /\ Upto(h, m + 1)
    BY <2>2, <2>5
  <2> HIDE DEF Upto
  <2> QED BY <2>3, <2>6
<1>3. S = Nat
  <2> HIDE DEF S
  <2>1. S \in SUBSET Nat
    BY DEF S
  <2> QED BY <1>1, <1>2, <2>1, SetInduction
<1>4. PICK g \in [Nat -> Nat] : Upto(g, n)
  BY <1>3
<1> DEFINE f == [z \in 0..n |-> g[z]]
<1>5. ASSUME NEW z \in 0..n PROVE f[z] = IF z = 0 THEN 0 ELSE step[<<z, f[z - 1]>>]
  <2>1. f[z] = g[z] /\ (z # 0 => f[z - 1] = g[z - 1])
    OBVIOUS
  <2>2. g[z] = IF z = 0 THEN 0 ELSE step[<<z, g[z - 1]>>]
    BY <1>4
  <2> QED BY <2>1, <2>2
<1>6. Carried(f, n, step)
  <2>1. f = [z \in 0..n |-> f[z]]
    OBVIOUS
  <2> HIDE DEF f
  <2> QED BY <1>5, <2>1 DEF Carried
<1> QED BY <1>6

\* FinalizeWalls gives a wall to the innermost of the zones it is in.
LEMMA OwnerIs ==
  ASSUME NEW zone \in Seq(Positions \X Positions), NestedZones(zone), NEW walls, NEW pos \in Positions,
         NEW o, o = LocalWall(zone, walls, pos)
  PROVE  /\ pos \in walls /\ o = NotAZone =>
              \A i \in 1..Len(zone) : ~Inside(pos, zone[i])
         /\ o # NotAZone =>
              /\ o \in 1..Len(zone)
              /\ \A i \in 1..Len(zone) : Inside(pos, zone[i]) =>
                   zone[i][1] <= zone[o][1] /\ zone[o][2] <= zone[i][2]
<1> DEFINE n == Len(zone)
           step == [zo \in Nat \X Nat |->
                      IF ~Inside(pos, zone[zo[1]]) THEN zo[2]
                      ELSE IF zo[2] = NotAZone \/ SmallerThan(zone[zo[1]], zone[zo[2]])
                           THEN zo[1] ELSE zo[2]]
           owner == CHOOSE g : g = [z \in 0..n |->
                      IF z = 0 THEN NotAZone
                      ELSE IF ~Inside(pos, zone[z]) THEN g[z - 1]
                      ELSE IF g[z - 1] = NotAZone \/ SmallerThan(zone[z], zone[g[z - 1]])
                           THEN z ELSE g[z - 1]]
<1>1. n \in Nat
  OBVIOUS
<1>2. o = IF pos \in walls THEN owner[n] ELSE NotAZone
  BY DEF LocalWall
<1>3. \A i \in 1..n : zone[i][1] \in Nat /\ zone[i][2] \in Nat
  <2>1. \A i \in 1..n : zone[i] \in Positions \X Positions
    OBVIOUS
  <2>2. Positions \subseteq Nat
    BY BitmapAssumption DEF Positions
  <2> QED BY <2>1, <2>2
<1>4. pos \in Nat
  BY BitmapAssumption DEF Positions
<1>5. step \in [Nat \X Nat -> Nat]
  OBVIOUS
<1>6. PICK g : Carried(g, n, step)
  <2> HIDE DEF n, step
  <2> QED BY <1>1, <1>5, CarriedExists
<1>7. ASSUME NEW f, Carried(f, n, step)
      PROVE  /\ \A z \in 0..n : f[z] \in Nat
             /\ \A z \in 0..n : f[z] =
                  IF z = 0 THEN NotAZone
                  ELSE IF ~Inside(pos, zone[z]) THEN f[z - 1]
                  ELSE IF f[z - 1] = NotAZone \/ SmallerThan(zone[z], zone[f[z - 1]])
                       THEN z ELSE f[z - 1]
  <2>1. \A z \in 0..n : f[z] = IF z = 0 THEN 0 ELSE step[<<z, f[z - 1]>>]
    BY <1>7 DEF Carried
  <2> DEFINE S == {z \in Nat : z <= n => f[z] \in Nat}
  <2> HIDE DEF step, n
  <2>2. 0 \in S
    <3>1. 0 \in 0..n
      BY <1>1
    <3>2. f[0] = 0
      BY <2>1, <3>1
    <3> QED BY <3>2
  <2>3. ASSUME NEW z \in S PROVE z + 1 \in S
    <3> SUFFICES ASSUME z + 1 <= n PROVE f[z + 1] \in Nat
      OBVIOUS
    <3>1. z \in Nat /\ z <= n /\ z + 1 \in 0..n /\ z + 1 # 0 /\ (z + 1) - 1 = z /\ z + 1 \in Nat
      BY <1>1
    <3>2. f[z] \in Nat
      BY <3>1
    <3>3. f[z + 1] = step[<<z + 1, f[z]>>]
      BY <2>1, <3>1
    <3> QED BY <1>5, <3>1, <3>2, <3>3
  <2>4. S = Nat
    <3> HIDE DEF S
    <3>1. S \in SUBSET Nat
      BY DEF S
    <3> QED BY <2>2, <2>3, <3>1, SetInduction
  <2>5. \A z \in 0..n : f[z] \in Nat
    BY <1>1, <2>4
  <2> HIDE DEF S
  <2>6. ASSUME NEW z \in 0..n, z # 0
        PROVE  f[z] = IF ~Inside(pos, zone[z]) THEN f[z - 1]
                      ELSE IF f[z - 1] = NotAZone \/ SmallerThan(zone[z], zone[f[z - 1]])
                           THEN z ELSE f[z - 1]
    <3>1. z - 1 \in 0..n /\ z \in Nat
      BY <1>1, <2>6
    <3>2. f[z - 1] \in Nat
      BY <2>5, <3>1
    <3>3. <<z, f[z - 1]>> \in Nat \X Nat
      BY <3>1, <3>2
    <3>4. f[z] = step[<<z, f[z - 1]>>]
      BY <2>1, <2>6
    <3> QED BY <3>3, <3>4 DEF step
  <2> QED BY <1>1, <2>1, <2>5, <2>6 DEF NotAZone
<1>8. g = [z \in 0..n |->
             IF z = 0 THEN NotAZone
             ELSE IF ~Inside(pos, zone[z]) THEN g[z - 1]
             ELSE IF g[z - 1] = NotAZone \/ SmallerThan(zone[z], zone[g[z - 1]])
                  THEN z ELSE g[z - 1]]
  <2>1. g = [z \in 0..n |-> g[z]]
    BY <1>6 DEF Carried
  <2> HIDE DEF n, step
  <2> QED BY <1>6, <1>7, <2>1
<1>9. owner = [z \in 0..n |->
             IF z = 0 THEN NotAZone
             ELSE IF ~Inside(pos, zone[z]) THEN owner[z - 1]
             ELSE IF owner[z - 1] = NotAZone \/ SmallerThan(zone[z], zone[owner[z - 1]])
                  THEN z ELSE owner[z - 1]]
  BY <1>8
<1> HIDE DEF owner, step
<1>10. \A z \in 0..n : owner[z] =
             IF z = 0 THEN NotAZone
             ELSE IF ~Inside(pos, zone[z]) THEN owner[z - 1]
             ELSE IF owner[z - 1] = NotAZone \/ SmallerThan(zone[z], zone[owner[z - 1]])
                  THEN z ELSE owner[z - 1]
  BY <1>9
<1> DEFINE Innermost(z) ==
      /\ owner[z] = NotAZone => \A i \in 1..z : ~Inside(pos, zone[i])
      /\ owner[z] # NotAZone =>
           /\ owner[z] \in 1..z /\ Inside(pos, zone[owner[z]])
           /\ \A i \in 1..z : Inside(pos, zone[i]) =>
                zone[i][1] <= zone[owner[z]][1] /\ zone[owner[z]][2] <= zone[i][2]
<1> DEFINE S == {z \in Nat : z <= n => Innermost(z)}
<1>11. 0 \in S
  <2>1. owner[0] = NotAZone
    BY <1>1, <1>10
  <2> QED BY <2>1
<1>12. ASSUME NEW z \in S PROVE z + 1 \in S
  <2> SUFFICES ASSUME z + 1 <= n PROVE Innermost(z + 1)
    OBVIOUS
  <2>1. z \in Nat /\ z <= n /\ z + 1 \in 0..n /\ z + 1 # 0 /\ (z + 1) - 1 = z /\ z + 1 \in 1..n
    BY <1>1
  <2>2. Innermost(z)
    BY <2>1
  <2> DEFINE w == owner[z]
             x == z + 1
  <2>3. owner[z + 1] =
          IF ~Inside(pos, zone[z + 1]) THEN w
          ELSE IF w = NotAZone \/ SmallerThan(zone[z + 1], zone[w]) THEN z + 1 ELSE w
    BY <1>10, <2>1
  <2>4. \A i \in 1..(z + 1) : i \in 1..z \/ i = z + 1
    BY <2>1
  <2>5. 1..z \subseteq 1..(z + 1) /\ NotAZone = 0 /\ 1..z \subseteq 1..n
    BY <2>1 DEF NotAZone
  <2>6. CASE ~Inside(pos, zone[z + 1])
    <3>1. owner[z + 1] = w
      BY <2>3, <2>6
    <3> QED BY <2>2, <2>4, <2>5, <2>6, <3>1
  <2>7. CASE Inside(pos, zone[z + 1]) /\ w = NotAZone
    <3>1. owner[z + 1] = z + 1
      BY <2>3, <2>7
    <3>2. \A i \in 1..(z + 1) : Inside(pos, zone[i]) => i = z + 1
      BY <2>2, <2>4, <2>7
    <3>3. zone[z + 1][1] <= zone[z + 1][1] /\ zone[z + 1][2] <= zone[z + 1][2]
      BY <1>3, <2>1
    <3> QED BY <2>1, <2>5, <2>7, <3>1, <3>2, <3>3
  <2>8. CASE Inside(pos, zone[z + 1]) /\ w # NotAZone
    <3>1. /\ w \in 1..z /\ Inside(pos, zone[w])
          /\ \A i \in 1..z : Inside(pos, zone[i]) =>
               zone[i][1] <= zone[w][1] /\ zone[w][2] <= zone[i][2]
      BY <2>2, <2>8
    <3>2. /\ zone[w][1] \in Nat /\ zone[w][2] \in Nat
          /\ zone[z + 1][1] \in Nat /\ zone[z + 1][2] \in Nat
          /\ \A i \in 1..z : zone[i][1] \in Nat /\ zone[i][2] \in Nat
      BY <1>3, <2>1, <2>5, <3>1
    <3>3. \/ zone[w][2] < zone[z + 1][1] \/ zone[z + 1][2] < zone[w][1]
          \/ zone[w][1] <= zone[z + 1][1] /\ zone[z + 1][2] <= zone[w][2]
          \/ zone[z + 1][1] <= zone[w][1] /\ zone[w][2] <= zone[z + 1][2]
      BY <2>1, <2>5, <3>1 DEF NestedZones
    <3>4. \/ zone[w][1] <= zone[z + 1][1] /\ zone[z + 1][2] <= zone[w][2]
          \/ zone[z + 1][1] <= zone[w][1] /\ zone[w][2] <= zone[z + 1][2]
      BY <1>4, <2>8, <3>1, <3>2, <3>3 DEF Inside
    <3>5. CASE SmallerThan(zone[z + 1], zone[w])
      <4>1. owner[z + 1] = z + 1
        BY <2>3, <2>8, <3>5
      <4>2. zone[w][1] <= zone[z + 1][1] /\ zone[z + 1][2] <= zone[w][2]
        BY <3>2, <3>4, <3>5 DEF SmallerThan
      <4>3. ASSUME NEW i \in 1..(z + 1), Inside(pos, zone[i])
            PROVE  zone[i][1] <= zone[z + 1][1] /\ zone[z + 1][2] <= zone[i][2]
        BY <2>4, <3>1, <3>2, <4>2, <4>3
      <4> QED BY <2>1, <2>5, <2>8, <4>1, <4>3
    <3>6. CASE ~SmallerThan(zone[z + 1], zone[w])
      <4>1. owner[z + 1] = w
        BY <2>3, <2>8, <3>6
      <4>2. zone[z + 1][1] <= zone[w][1] /\ zone[w][2] <= zone[z + 1][2]
        BY <3>2, <3>6 DEF SmallerThan
      <4>3. ASSUME NEW i \in 1..(z + 1), Inside(pos, zone[i])
            PROVE  zone[i][1] <= zone[w][1] /\ zone[w][2] <= zone[i][2]
        BY <2>4, <3>1, <4>2, <4>3
      <4> QED BY <2>5, <3>1, <4>1, <4>3
    <3> QED BY <3>5, <3>6
  <2> QED BY <2>6, <2>7, <2>8
<1>13. S = Nat
  <2> HIDE DEF S
  <2>1. S \in SUBSET Nat
    BY DEF S
  <2> QED BY <1>11, <1>12, <2>1, SetInduction
<1>14. Innermost(n)
  BY <1>1, <1>13
<1> HIDE DEF n
<1>15. CASE pos \in walls
  BY <1>2, <1>14, <1>15 DEF n
<1>16. CASE pos \notin walls
  BY <1>2, <1>16
<1> QED BY <1>15, <1>16

\* Walls and zones of a nested constraint: a global wall is in no zone, a local one belongs to the
\* innermost.
LEMMA WallsOwned ==
  ASSUME ConOK, NestedZones(con.zone)
  PROVE  /\ \A w \in con.wall : \A k \in 1..Len(con.zone) : ~Inside(w, con.zone[k])
         /\ \A j, k \in 1..Len(con.zone) : \A w \in Positions :
              con.localWall[w] = j /\ Inside(w, con.zone[k]) =>
                con.zone[k][1] <= con.zone[j][1] /\ con.zone[j][2] <= con.zone[k][2]
<1>1. PICK c \in Constraints : con = Constraint(c.zone, c.walls)
  BY DEF ConOK
<1>2. c.zone \in Seq(Positions \X Positions) /\ c.walls \subseteq Positions
  BY SearchAssumption
<1>3. /\ con.zone = c.zone
      /\ con.wall = {w \in c.walls : LocalWall(c.zone, c.walls, w) = NotAZone}
      /\ \A w \in Positions : con.localWall[w] = LocalWall(c.zone, c.walls, w)
  BY <1>1 DEF Constraint
<1>4. ASSUME NEW w \in con.wall, NEW k \in 1..Len(con.zone) PROVE ~Inside(w, con.zone[k])
  <2>1. w \in c.walls /\ w \in Positions /\ LocalWall(c.zone, c.walls, w) = NotAZone
    BY <1>2, <1>3
  <2> QED BY <1>2, <1>3, <2>1, OwnerIs
<1>5. ASSUME NEW j \in 1..Len(con.zone), NEW k \in 1..Len(con.zone), NEW w \in Positions,
             con.localWall[w] = j, Inside(w, con.zone[k])
      PROVE  con.zone[k][1] <= con.zone[j][1] /\ con.zone[j][2] <= con.zone[k][2]
  <2>1. j = LocalWall(c.zone, c.walls, w)
    BY <1>3, <1>5
  <2>2. j # NotAZone
    BY <1>2, <1>3 DEF NotAZone
  <2> QED BY <1>2, <1>3, <1>5, <2>1, <2>2, OwnerIs
<1> QED BY <1>4, <1>5

\* The zones as numbers.
LEMMA ZonesAre ==
  ASSUME ConOK, NEW k \in 1..Len(con.zone)
  PROVE  con.active /\ con.zone[k][1] \in Nat /\ con.zone[k][2] \in Nat /\ con.zone[k][2] < Size
<1>1. con.zone \in Seq(Positions \X Positions) /\ Len(con.zone) > 0
  BY ConstraintFacts
<1>2. con.zone[k] \in Positions \X Positions
  BY <1>1
<1> QED BY <1>1, <1>2, ConstraintFacts, BitmapAssumption DEF Positions

\* What every word that may come next meets.
LEMMA OneWord ==
  ASSUME IndInv, NEW p \in Positions, p \notin m_sourceCompleted, FirstGap <= p,
         Check(con, m_sourceCompleted, p, p, limit), WithinLimit(p, p)
  PROVE  CanExtend(p, p)
<1>1. p \in Nat
  BY BitmapAssumption DEF Positions
<1>2. <<p, p>> \in Options /\ p - p < MaxPhrase
  BY <1>1, SearchAssumption
<1>3. ~Overlap(p, p)
  BY <1>1 DEF Overlap
<1> QED BY <1>1, <1>2, <1>3 DEF CanExtend

\* The word at the first gap can be translated when each open zone has it.
LEMMA GapNext ==
  ASSUME IndInv, ~IsComplete(m_sourceCompleted),
         \A k \in 1..Len(con.zone) : Open(k) => FirstGap \in ZoneWords(k)
  PROVE  FirstGap \in Positions /\ CanExtend(FirstGap, FirstGap)
<1> DEFINE gap == FirstGap
           old == m_sourceCompleted
<1>1. old \in SUBSET Positions
  BY DEF IndInv, SearchInv, TypeOK
<1>2. gap \in Positions /\ gap \notin old /\ \A q \in Positions \ old : gap <= q
  BY <1>1, FirstGapIs DEF FirstGap
<1>3. gap \in Nat
  BY <1>2, BitmapAssumption DEF Positions
<1>4. WithinLimit(gap, gap)
  BY DEF WithinLimit, IndInv, SearchInv, BackWithinLimit
<1>5. ASSUME NEW k \in 1..Len(con.zone) PROVE ZoneOK(con, k, old, gap, gap, limit)
  <2>0. ConOK
    BY DEF IndInv
  <2>1. PICK a \in Nat, b \in Nat : a = con.zone[k][1] /\ b = con.zone[k][2] /\ b < Size
    BY <2>0, ZonesAre
  <2>2. CASE ~(a..b \subseteq old) /\ gap \in a..b
    <3>1. ~HitsLocalWall(con, k, old, gap, gap)
      <4> SUFFICES ASSUME NEW q \in a..b, q \notin old, q < gap PROVE FALSE
        <5>1. ASSUME HitsLocalWall(con, k, old, gap, gap)
              PROVE  \E q \in a..b : q \notin old /\ q < gap
          <6>1. PICK pos \in a..(gap - 1) : pos < b /\ \E q \in a..pos : q \notin old /\ q < gap
            BY <2>1, <5>1 DEF HitsLocalWall
          <6> QED BY <2>1, <6>1
        <5> QED BY <5>1
      <4>1. q \in Positions
        BY <2>1, BitmapAssumption DEF Positions
      <4> QED BY <1>2, <1>3, <2>1, <4>1
    <3>2. gap <= b /\ gap >= a
      BY <2>1, <2>2
    <3> HIDE DEF old
    <3> QED BY <1>3, <2>1, <3>1, <3>2 DEF ZoneOK, FirstGap, old
  <2>3. CASE a..b \subseteq old
    BY <2>1, <2>3 DEF ZoneOK
  <2>4. CASE ~(a..b \subseteq old) /\ gap \notin a..b
    <3>1. (a..b) \cap old = {}
      BY <2>1, <2>4 DEF Open, ZoneWords
    <3>2. gap < a \/ gap > b
      BY <1>3, <2>1, <2>4
    <3> QED BY <2>1, <3>1, <3>2 DEF ZoneOK
  <2> QED BY <2>2, <2>3, <2>4
<1>6. ~HitsWall(con, old, gap, gap)
  BY DEF HitsWall, FirstGap
<1>7. Check(con, old, gap, gap, limit)
  BY <1>5, <1>6 DEF Check
<1>8. gap <= gap
  BY <1>3
<1> QED BY <1>2, <1>4, <1>7, <1>8, OneWord

\* Otherwise there is an innermost open zone without the first gap, and a first word in it that
\* is not translated.
LEMMA InnermostZone ==
  ASSUME IndInv, NEW k0 \in 1..Len(con.zone), Open(k0), FirstGap \notin ZoneWords(k0)
  PROVE  \E k \in 1..Len(con.zone) :
           /\ Open(k) /\ FirstGap \notin ZoneWords(k)
           /\ \A j \in 1..Len(con.zone) : Open(j) /\ FirstGap \notin ZoneWords(j) =>
                con.zone[k][2] - con.zone[k][1] <= con.zone[j][2] - con.zone[j][1]
<1> DEFINE A == {k \in 1..Len(con.zone) : Open(k) /\ FirstGap \notin ZoneWords(k)}
           T == {con.zone[k][2] - con.zone[k][1] : k \in A}
<1>1. ConOK
  BY DEF IndInv
<1>2. ASSUME NEW k \in A PROVE con.zone[k][2] - con.zone[k][1] \in Nat
  <2>1. con.zone[k][1] \in Nat /\ con.zone[k][2] \in Nat
    BY <1>1, ZonesAre
  <2>2. con.zone[k][1] <= con.zone[k][2]
    BY <2>1 DEF Open, ZoneWords
  <2> QED BY <2>1, <2>2
<1>3. T \in SUBSET Nat /\ T # {}
  BY <1>2
<1>4. PICK m \in T : \A x \in T : m <= x
  BY <1>3, LeastNatural
<1>5. PICK k \in A : m = con.zone[k][2] - con.zone[k][1]
  BY <1>4
<1>6. \A j \in A : con.zone[j][2] - con.zone[j][1] \in T
  OBVIOUS
<1>7. \A j \in A : con.zone[k][2] - con.zone[k][1] <= con.zone[j][2] - con.zone[j][1]
  BY <1>4, <1>5, <1>6
<1> QED BY <1>7

\* It has a first word left.
LEMMA FirstUntranslated ==
  ASSUME IndInv, NEW k \in 1..Len(con.zone), Open(k)
  PROVE  \E p \in ZoneWords(k) : /\ p \in Positions /\ p \notin m_sourceCompleted
                                 /\ \A q \in ZoneWords(k) \ m_sourceCompleted : p <= q
<1> DEFINE T == ZoneWords(k) \ m_sourceCompleted
<1>1. con.zone[k][1] \in Nat /\ con.zone[k][2] \in Nat /\ con.zone[k][2] < Size
  BY ZonesAre DEF IndInv
<1>2. T \in SUBSET Nat /\ T # {} /\ T \subseteq Positions
  BY <1>1, BitmapAssumption DEF ZoneWords, Open, Positions
<1>3. PICK p \in T : \A q \in T : p <= q
  BY <1>2, LeastNatural
<1> QED BY <1>2, <1>3

\* That word can be translated: what is right of the first gap in a zone around it is right of the
\* gap in the open one, walls between them would have a word on their right, and the limits that
\* were checked when the zone was entered leave room for both jumps.
LEMMA ZoneNext ==
  ASSUME IndInv, ZoneInv, WallKept, LocalWallKept, NestedZones(con.zone),
         ~IsComplete(m_sourceCompleted),
         NEW k \in 1..Len(con.zone), Open(k), FirstGap \notin ZoneWords(k),
         \A j \in 1..Len(con.zone) : Open(j) /\ FirstGap \notin ZoneWords(j) =>
            con.zone[k][2] - con.zone[k][1] <= con.zone[j][2] - con.zone[j][1],
         NEW p \in ZoneWords(k), p \in Positions, p \notin m_sourceCompleted,
         \A q \in ZoneWords(k) \ m_sourceCompleted : p <= q
  PROVE  CanExtend(p, p)
<1> DEFINE gap == FirstGap
           old == m_sourceCompleted
           last == prev[2]
<1>0. ConOK /\ limit \in Int /\ old \in SUBSET Positions /\ Positions \subseteq Nat
  BY BitmapAssumption DEF IndInv, SearchInv, TypeOK, Positions
<1>1. PICK a \in Nat, b \in Nat : a = con.zone[k][1] /\ b = con.zone[k][2] /\ b < Size
  BY <1>0, ZonesAre
<1>2. gap \in Positions /\ gap \notin old /\ gap \in Nat /\ \A q \in Positions \ old : gap <= q
  BY <1>0, FirstGapIs DEF FirstGap
<1>3. a <= p /\ p <= b /\ p \in Nat /\ \A q \in a..b : q \notin old => p <= q
  BY <1>1 DEF ZoneWords
<1>4. gap < a
  <2>1. gap <= p /\ gap \notin a..b
    BY <1>1, <1>2 DEF ZoneWords
  <2> QED BY <1>2, <1>3, <2>1
<1>5. PICK t \in a..b : t \in old
  BY <1>1 DEF Open, ZoneWords
<1>6. last \in a..b /\ (limit < 0 \/ b - gap < limit)
  BY <1>1, <1>2, <1>4, <1>5 DEF ZoneInv, ZoneWords
<1>7. WithinLimit(p, p)
  <2>1. prev # NoRange
    <3>1. old # {}
      BY <1>5
    <3>2. prev \in Positions \X Positions
      BY <3>1 DEF IndInv, SearchInv, TypeOK
    <3>3. Size \notin Positions
      BY BitmapAssumption DEF Positions
    <3> QED BY <3>2, <3>3 DEF NoRange, NOT_FOUND
  <2>2. ComputeDistortionDistance(prev, p) = AbsoluteOf(last - p + 1)
    BY <2>1 DEF ComputeDistortionDistance
  <2>3. <<p, p>> # NoRange
    BY <1>1, <1>3, BitmapAssumption DEF NoRange, NOT_FOUND
  <2>4. ComputeDistortionDistance(<<p, p>>, gap) = AbsoluteOf(p - gap + 1)
    BY <2>3 DEF ComputeDistortionDistance
  <2> HIDE DEF gap, last
  <2>5. limit >= 0 => AbsoluteOf(last - p + 1) <= limit /\ AbsoluteOf(p - gap + 1) <= limit
    BY <1>0, <1>1, <1>2, <1>3, <1>4, <1>6 DEF AbsoluteOf
  <2> QED BY <2>2, <2>4, <2>5 DEF WithinLimit, gap
\* No wall is between the first gap and the word: it would have a translated word on its right,
\* or be in the zone.
<1>8. ~HitsWall(con, old, p, p)
  <2> SUFFICES ASSUME NEW w \in gap..(p - 1), w \in con.wall PROVE FALSE
    BY DEF HitsWall, FirstGap
  <2>1. w \in Nat /\ gap <= w /\ w < p
    BY <1>2, <1>3
  <2>2. ASSUME NEW pos \in old, pos > w PROVE FALSE
    <3>1. 0..w \subseteq old
      BY <2>2 DEF WallKept
    <3> QED BY <1>2, <2>1, <3>1
  <2>3. CASE w < a
    <3>1. t > w
      BY <1>1, <2>1, <2>3
    <3> QED BY <1>5, <2>2, <3>1
  <2>4. CASE w >= a
    <3>1. Inside(w, con.zone[k])
      BY <1>1, <1>3, <2>1, <2>4 DEF Inside
    <3> QED BY <1>0, <3>1, WallsOwned
  <2> QED BY <1>1, <2>1, <2>3, <2>4
<1>9. ASSUME NEW j \in 1..Len(con.zone) PROVE ZoneOK(con, j, old, p, p, limit)
  <2>1. PICK c \in Nat, d \in Nat : c = con.zone[j][1] /\ d = con.zone[j][2] /\ d < Size
    BY <1>0, ZonesAre
  <2>2. /\ c <= d /\ a <= b
        /\ \/ b < c \/ d < a
           \/ a <= c /\ d <= b
           \/ c <= a /\ b <= d
    BY <1>1, <2>1 DEF NestedZones
  <2>3. CASE p \notin c..d
    <3>1. (c..d) \cap old = {} \/ c..d \subseteq old
      <4> SUFFICES ASSUME (c..d) \cap old # {}, ~(c..d \subseteq old) PROVE FALSE
        OBVIOUS
      <4>1. Open(j)
        BY <2>1 DEF Open, ZoneWords
      <4>2. last \in c..d
        BY <2>1, <4>1 DEF ZoneInv, ZoneWords
      <4>3. a <= c /\ d <= b
        BY <1>3, <1>6, <2>2, <2>3, <4>2
      <4>4. gap \notin c..d
        BY <1>2, <1>4, <4>3
      <4>5. b - a <= d - c
        BY <1>1, <2>1, <4>1, <4>4 DEF ZoneWords
      <4> QED BY <1>3, <2>3, <4>3, <4>5
    <3>2. p < c \/ p > d
      BY <1>3, <2>3
    <3> QED BY <2>1, <3>1, <3>2 DEF ZoneOK
  <2>4. CASE p \in c..d
    <3>1. \/ a <= c /\ d <= b
          \/ c <= a /\ b <= d
      BY <1>3, <2>2, <2>4
    <3>2. limit < 0 \/ d - gap < limit
      <4>1. CASE a <= c /\ d <= b
        BY <1>0, <1>2, <1>6, <4>1
      <4>2. CASE c <= a /\ b <= d
        <5>1. t \in c..d /\ t \in old /\ t > gap
          BY <1>2, <1>4, <1>5, <4>2
        <5>2. Open(j)
          BY <2>1, <2>4, <5>1 DEF Open, ZoneWords
        <5> QED BY <2>1, <5>1, <5>2 DEF ZoneInv, ZoneWords
      <4> QED BY <3>1, <4>1, <4>2
    <3>3. ~HitsLocalWall(con, j, old, p, p)
      <4> SUFFICES ASSUME NEW pos \in c..(p - 1), pos < d, con.localWall[pos] = j,
                          NEW q \in c..pos, q \notin old, q < p
                   PROVE  FALSE
        BY <2>1 DEF HitsLocalWall
      <4>1. pos \in Nat /\ pos < p /\ c <= pos /\ q \in Nat /\ c <= q /\ q <= pos /\ pos \in Positions
        BY <1>1, <1>3, BitmapAssumption DEF Positions
      <4>2. q < a
        BY <1>3, <4>1
      <4>3. c < a /\ b <= d
        BY <3>1, <4>1, <4>2
      <4>4. CASE pos < a
        \* the zone is begun beyond the local wall
        <5>1. t \in old /\ pos < t /\ t <= d /\ pos \in c..d
          BY <1>5, <4>1, <4>3, <4>4
        <5>2. c..pos \subseteq old
          BY <2>1, <5>1 DEF LocalWallKept
        <5> QED BY <5>2
      <4>5. CASE pos >= a
        \* the wall belongs to an inner zone
        <5>1. Inside(pos, con.zone[k])
          BY <1>1, <1>3, <4>1, <4>5 DEF Inside
        <5>2. a <= c
          BY <1>0, <1>1, <2>1, <4>1, <5>1, WallsOwned
        <5> QED BY <4>3, <5>2
      <4> QED BY <4>1, <4>4, <4>5
    <3>4. ~(p < c \/ p > d) /\ p <= d
      BY <1>3, <2>4
    <3> HIDE DEF old
    <3> QED BY <2>1, <3>2, <3>3, <3>4 DEF ZoneOK, FirstGap, old
  <2> QED BY <2>3, <2>4
<1>10. Check(con, old, p, p, limit)
  BY <1>8, <1>9 DEF Check
<1>11. gap <= p
  BY <1>2, <1>3, <1>4
<1> QED BY <1>7, <1>10, <1>11, OneWord

\* NoDeadEnd: whatever the sentence, the limit, the walls and the phrases chosen, and however many
\* zones there are, nested or apart, some word can always be translated next: the one at the first
\* gap, or when an open zone does not have it, the first one left in the innermost such zone.
THEOREM NeverADeadEnd == Spec => [](NestedZones(con.zone) => NoDeadEnd)
<1>1. IndInv /\ ZoneInv /\ WallKept /\ LocalWallKept => (NestedZones(con.zone) => NoDeadEnd)
  <2> SUFFICES ASSUME IndInv, ZoneInv, WallKept, LocalWallKept, NestedZones(con.zone),
                      ~IsComplete(m_sourceCompleted)
               PROVE  \E pos \in Positions : CanExtend(pos, pos)
    BY DEF NoDeadEnd
  <2>1. CASE \A k \in 1..Len(con.zone) : Open(k) => FirstGap \in ZoneWords(k)
    BY <2>1, GapNext
  <2>2. ASSUME NEW k0 \in 1..Len(con.zone), Open(k0), FirstGap \notin ZoneWords(k0)
        PROVE  \E pos \in Positions : CanExtend(pos, pos)
    <3>1. PICK k \in 1..Len(con.zone) :
             /\ Open(k) /\ FirstGap \notin ZoneWords(k)
             /\ \A j \in 1..Len(con.zone) : Open(j) /\ FirstGap \notin ZoneWords(j) =>
                  con.zone[k][2] - con.zone[k][1] <= con.zone[j][2] - con.zone[j][1]
      BY <2>2, InnermostZone
    <3>2. PICK p \in ZoneWords(k) : /\ p \in Positions /\ p \notin m_sourceCompleted
                                    /\ \A q \in ZoneWords(k) \ m_sourceCompleted : p <= q
      BY <3>1, FirstUntranslated
    <3> QED BY <3>1, <3>2, ZoneNext
  <2> QED BY <2>1, <2>2
<1> QED BY <1>1, ZoneInductive, WallsKept, LocalWallsKept, PTL

-----------------------------------------------------------------------------
\* The binary numbers with these digits: what the loops over bits compute from the end down.
Binary(g, end, base, digit) ==
  g = [pos \in Nat |-> IF pos > end THEN base ELSE 2 * g[pos + 1] + digit[pos]]

\* Its values, one by one.
Values(g, end, base, digit) ==
  \A pos \in Nat :
    g[pos] \in Nat /\ g[pos] = IF pos > end THEN base ELSE 2 * g[pos + 1] + digit[pos]

IsDigits(digit) == digit \in [Nat -> Nat]

\* There is one.
LEMMA BinaryExists ==
  ASSUME NEW end \in Int, NEW base \in Nat, NEW digit, IsDigits(digit)
  PROVE  \E g : Binary(g, end, base, digit)
<1>0. digit \in [Nat -> Nat]
  BY DEF IsDigits
<1> DEFINE Below(g, n) ==
      \A pos \in Nat : pos > end - n =>
        g[pos] = IF pos > end THEN base ELSE 2 * g[pos + 1] + digit[pos]
<1> DEFINE S == {n \in Nat : \E g \in [Nat -> Nat] : Below(g, n)}
<1>1. 0 \in S
  <2>1. [pos \in Nat |-> base] \in [Nat -> Nat] /\ Below([pos \in Nat |-> base], 0)
    OBVIOUS
  <2> QED BY <2>1
<1>2. ASSUME NEW n \in S PROVE n + 1 \in S
  <2>1. PICK g \in [Nat -> Nat] : Below(g, n)
    BY <1>2
  <2>2. CASE end - n \in Nat
    <3> DEFINE p == end - n
    <3> DEFINE h == [g EXCEPT ![p] = IF p > end THEN base ELSE 2 * g[p + 1] + digit[p]]
    <3>1. h \in [Nat -> Nat]
      BY <1>0, <2>1, <2>2
    <3>2. ASSUME NEW pos \in Nat, pos > end - (n + 1)
          PROVE  h[pos] = IF pos > end THEN base ELSE 2 * h[pos + 1] + digit[pos]
      <4>1. h[pos + 1] = g[pos + 1]
        BY <2>1, <2>2, <3>2
      <4>2. CASE pos = p
        BY <2>1, <2>2, <4>1, <4>2
      <4>3. CASE pos # p
        <5>1. pos > end - n /\ h[pos] = g[pos]
          BY <2>1, <2>2, <3>2, <4>3
        <5> QED BY <2>1, <4>1, <5>1
      <4> QED BY <4>2, <4>3
    <3> HIDE DEF h
    <3>3. Below(h, n + 1)
      BY <3>2
    <3>4. n + 1 \in Nat
      BY <1>2
    <3> QED BY <3>1, <3>3, <3>4
  <2>3. CASE end - n \notin Nat
    <3>1. Below(g, n + 1)
      <4> SUFFICES ASSUME NEW pos \in Nat, pos > end - (n + 1)
                   PROVE  g[pos] = IF pos > end THEN base ELSE 2 * g[pos + 1] + digit[pos]
        OBVIOUS
      <4>1. n \in Nat
        BY <1>2
      <4>2. pos > end - n
        BY <2>3, <4>1
      <4> QED BY <2>1, <4>2
    <3> QED BY <1>2, <2>1, <3>1
  <2> QED BY <2>2, <2>3
<1>3. S = Nat
  <2> HIDE DEF S
  <2>1. S \in SUBSET Nat
    BY DEF S
  <2> QED BY <1>1, <1>2, <2>1, SetInduction
<1>4. PICK n \in Nat : end - n < 0
  <2>1. CASE end < 0
    BY <2>1
  <2>2. CASE end >= 0
    <3>1. end + 1 \in Nat /\ end - (end + 1) < 0
      BY <2>2
    <3> QED BY <3>1
  <2> QED BY <2>1, <2>2
<1>5. PICK g \in [Nat -> Nat] : Below(g, n)
  BY <1>3
<1>6. \A pos \in Nat : g[pos] = IF pos > end THEN base ELSE 2 * g[pos + 1] + digit[pos]
  BY <1>4, <1>5
<1>7. Binary(g, end, base, digit)
  BY <1>5, <1>6 DEF Binary
<1> QED BY <1>7

\* Its values are numbers.
LEMMA BinaryTypes ==
  ASSUME NEW end \in Int, NEW base \in Nat, NEW digit, IsDigits(digit),
         NEW g, Binary(g, end, base, digit)
  PROVE  Values(g, end, base, digit)
<1>0. digit \in [Nat -> Nat]
  BY DEF IsDigits
<1>1. \A pos \in Nat : g[pos] = IF pos > end THEN base ELSE 2 * g[pos + 1] + digit[pos]
  BY DEF Binary
<1> DEFINE S == {n \in Nat : \A pos \in Nat : pos > end - n => g[pos] \in Nat}
<1>2. 0 \in S
  BY <1>1
<1>3. ASSUME NEW n \in S PROVE n + 1 \in S
  <2> SUFFICES ASSUME NEW pos \in Nat, pos > end - (n + 1) PROVE g[pos] \in Nat
    OBVIOUS
  <2>1. n \in Nat /\ pos + 1 \in Nat /\ pos + 1 > end - n
    OBVIOUS
  <2>2. g[pos + 1] \in Nat
    BY <2>1
  <2>3. CASE pos > end
    BY <1>1, <2>3
  <2>4. CASE ~(pos > end)
    <3>1. g[pos] = 2 * g[pos + 1] + digit[pos] /\ digit[pos] \in Nat
      BY <1>0, <1>1, <2>4
    <3> HIDE DEF S
    <3> QED BY <2>2, <3>1
  <2> QED BY <2>3, <2>4
<1>4. S = Nat
  <2> HIDE DEF S
  <2>1. S \in SUBSET Nat
    BY DEF S
  <2> QED BY <1>2, <1>3, <2>1, SetInduction
<1>5. ASSUME NEW pos \in Nat PROVE g[pos] \in Nat
  <2>1. PICK n \in Nat : pos > end - n
    <3>1. CASE end < 0
      BY <3>1
    <3>2. CASE end >= 0
      <4>1. end + 1 \in Nat /\ pos > end - (end + 1)
        BY <3>2
      <4> QED BY <4>1
    <3> QED BY <3>1, <3>2
  <2> HIDE DEF S
  <2>2. n \in S
    BY <1>4
  <2> QED BY <2>1, <2>2 DEF S
<1> QED BY <1>1, <1>5 DEF Values

Digits(bitmap) == [pos \in Nat |-> IF pos \in bitmap THEN 1 ELSE 0]

LEMMA PatternIs ==
  ASSUME NEW bitmap, NEW start \in Int, NEW end \in Int
  PROVE  \E g : Binary(g, end, 0, Digits(bitmap)) /\ Pattern(bitmap, start, end) = g[start + 1]
<1> DEFINE v == CHOOSE g : g = [pos \in Nat |-> IF pos > end THEN 0
                            ELSE 2 * g[pos + 1] + (IF pos \in bitmap THEN 1 ELSE 0)]
<1>1. Pattern(bitmap, start, end) = v[start + 1]
  BY DEF Pattern
<1>2. IsDigits(Digits(bitmap))
  BY DEF Digits, IsDigits
<1>3. \E g : Binary(g, end, 0, Digits(bitmap))
  BY <1>2, BinaryExists
<1>4. ASSUME NEW g PROVE Binary(g, end, 0, Digits(bitmap)) <=>
        g = [pos \in Nat |-> IF pos > end THEN 0
                            ELSE 2 * g[pos + 1] + (IF pos \in bitmap THEN 1 ELSE 0)]
  BY DEF Binary, Digits
<1>5. Binary(v, end, 0, Digits(bitmap))
  BY <1>3, <1>4
<1> QED BY <1>1, <1>5

\* The last translated word is the greatest one.
LEMMA LastPosIs ==
  ASSUME NEW bitmap \in SUBSET Positions, bitmap # {}
  PROVE  GetLastPos(bitmap) \in bitmap /\ \A q \in bitmap : q <= GetLastPos(bitmap)
<1> DEFINE T == {Size - x : x \in bitmap}
<1>1. \A x \in bitmap : x \in Nat /\ x < Size
  BY BitmapAssumption DEF Positions
<1>2. T \in SUBSET Nat /\ T # {}
  BY <1>1, BitmapAssumption
<1>3. PICK m \in T : \A k \in T : m <= k
  BY <1>2, LeastNatural
<1>4. PICK x \in bitmap : m = Size - x
  BY <1>3
<1>5. ASSUME NEW q \in bitmap PROVE q <= x
  <2>1. Size - q \in T
    OBVIOUS
  <2> HIDE DEF T
  <2>2. Size - x <= Size - q
    BY <1>3, <1>4, <2>1
  <2> QED BY <1>1, <1>4, <2>2, BitmapAssumption
<1>6. \E pos \in bitmap : \A q \in bitmap : q <= pos
  BY <1>5
<1> QED BY <1>6 DEF GetLastPos

\* The binary number of a bitmap: its digits are the words right of the first gap.
LEMMA PatternFacts ==
  ASSUME NEW bitmap \in SUBSET Positions, InWindow(bitmap)
  PROVE  \E g : /\ \A p \in Nat : g[p] \in Nat
                /\ \A p \in Nat : p > GetFirstGapPos(bitmap) =>
                     g[p] = 2 * g[p + 1] + (IF p \in bitmap THEN 1 ELSE 0)
                /\ g[GetFirstGapPos(bitmap) + IdBits + 1] = 0
                /\ GetID(bitmap) = g[GetFirstGapPos(bitmap) + 1]
                                     + PatternUnit * GetFirstGapPos(bitmap)
<1> DEFINE start == GetFirstGapPos(bitmap)
           end == IF bitmap = {} THEN 0 ELSE GetLastPos(bitmap)
<1>1. start \in Nat
  BY BeforeFirstGap, BitmapAssumption
<1>2. end \in Nat /\ end <= start + IdBits /\ \A q \in bitmap : q <= end
  <2>1. CASE bitmap = {}
    BY <1>1, <2>1, BitmapAssumption
  <2>2. CASE bitmap # {}
    <3>1. GetLastPos(bitmap) \in bitmap /\ \A q \in bitmap : q <= GetLastPos(bitmap)
      BY <2>2, LastPosIs
    <3>2. GetLastPos(bitmap) \in Nat
      <4>1. Positions \subseteq Nat
        BY BitmapAssumption DEF Positions
      <4> QED BY <3>1, <4>1
    <3>3. GetLastPos(bitmap) - start <= IdBits
      BY <3>1 DEF InWindow
    <3> QED BY <1>1, <2>2, <3>1, <3>2, <3>3, BitmapAssumption
  <2> QED BY <2>1, <2>2
<1>3. GetID(bitmap) = Pattern(bitmap, start, end) + PatternUnit * start
  BY DEF GetID
<1> HIDE DEF start, end
<1>4. PICK g : Binary(g, end, 0, Digits(bitmap)) /\ Pattern(bitmap, start, end) = g[start + 1]
  BY <1>1, <1>2, PatternIs
<1>5. IsDigits(Digits(bitmap))
      /\ \A p \in Nat : Digits(bitmap)[p] = IF p \in bitmap THEN 1 ELSE 0
  BY DEF Digits, IsDigits
<1>6. /\ \A p \in Nat : g[p] \in Nat
      /\ \A p \in Nat : g[p] = IF p > end THEN 0 ELSE 2 * g[p + 1] + Digits(bitmap)[p]
  <2>1. Values(g, end, 0, Digits(bitmap))
    BY <1>2, <1>4, <1>5, BinaryTypes
  <2> QED BY <2>1 DEF Values
<1>7. ASSUME NEW p \in Nat PROVE g[p] = 2 * g[p + 1] + (IF p \in bitmap THEN 1 ELSE 0)
  <2>1. CASE p > end
    <3>1. g[p] = 0 /\ g[p + 1] = 0 /\ p \notin bitmap
      BY <1>2, <1>6, <2>1
    <3> QED BY <3>1
  <2>2. CASE ~(p > end)
    BY <1>5, <1>6, <2>2
  <2> QED BY <2>1, <2>2
<1>8. g[start + IdBits + 1] = 0
  <2>1. start + IdBits + 1 \in Nat /\ start + IdBits + 1 > end
    BY <1>1, <1>2, BitmapAssumption
  <2> QED BY <1>6, <2>1
<1>9. GetID(bitmap) = g[start + 1] + PatternUnit * start
  BY <1>3, <1>4
<1> QED BY <1>6, <1>7, <1>8, <1>9 DEF start

\* The numbers from start on, with these bits.
Counts(g, start, bit) ==
  /\ bit \in [Nat -> {0, 1}]
  /\ \A p \in Nat : g[p] \in Nat
  /\ \A p \in Nat : p > start => g[p] = 2 * g[p + 1] + bit[p]

\* The unit of the start is above every pattern of a bitmap in its window.
LEMMA PatternBound ==
  ASSUME NEW g, NEW start \in Nat, NEW bit, Counts(g, start, bit),
         g[start + IdBits + 1] = 0
  PROVE  PatternUnit \in Nat /\ g[start + 1] < PatternUnit
<1>0. /\ bit \in [Nat -> {0, 1}]
      /\ \A p \in Nat : g[p] \in Nat
      /\ \A p \in Nat : p > start => g[p] = 2 * g[p + 1] + bit[p]
  BY DEF Counts
<1>1. PICK u : Binary(u, IdBits, 0, Digits({IdBits})) /\ PatternUnit = u[0]
  <2>1. -1 \in Int /\ IdBits \in Int /\ (-1) + 1 = 0
    BY BitmapAssumption
  <2> QED BY <2>1, PatternIs DEF PatternUnit
<1>2. IsDigits(Digits({IdBits}))
      /\ \A k \in Nat : Digits({IdBits})[k] = IF k = IdBits THEN 1 ELSE 0
  BY DEF Digits, IsDigits
<1>3. /\ \A k \in Nat : u[k] \in Nat
      /\ \A k \in Nat : u[k] = IF k > IdBits THEN 0 ELSE 2 * u[k + 1] + Digits({IdBits})[k]
  <2>1. IdBits \in Int
    BY BitmapAssumption
  <2>2. Values(u, IdBits, 0, Digits({IdBits}))
    BY <1>1, <1>2, <2>1, BinaryTypes
  <2> QED BY <2>2 DEF Values
<1>4. u[IdBits] = 1
  <2>1. u[IdBits + 1] = 0
    BY <1>3, BitmapAssumption
  <2>2. u[IdBits] = 2 * u[IdBits + 1] + Digits({IdBits})[IdBits]
    BY <1>3, BitmapAssumption
  <2>3. Digits({IdBits})[IdBits] = 1
    BY <1>2, BitmapAssumption
  <2> QED BY <2>1, <2>2, <2>3
<1>5. ASSUME NEW k \in Nat, k < IdBits PROVE u[k] = 2 * u[k + 1]
  <2>0. ~(k > IdBits) /\ k + 1 \in Nat
    BY <1>5, BitmapAssumption
  <2>1. u[k] = 2 * u[k + 1] + Digits({IdBits})[k] /\ u[k + 1] \in Nat
    BY <1>3, <2>0
  <2>2. Digits({IdBits})[k] = 0
    <3>1. k # IdBits
      BY <1>5, BitmapAssumption
    <3> QED BY <1>2, <3>1
  <2> QED BY <2>1, <2>2
<1> DEFINE S == {n \in Nat : n <= IdBits => g[start + 1 + IdBits - n] < u[IdBits - n]}
<1>6. 0 \in S
  <2>1. start + 1 + IdBits - 0 = start + IdBits + 1 /\ IdBits - 0 = IdBits
    BY BitmapAssumption
  <2> QED BY <1>4, <2>1, BitmapAssumption
<1>7. ASSUME NEW n \in S PROVE n + 1 \in S
  <2> SUFFICES ASSUME n + 1 <= IdBits
               PROVE  g[start + 1 + IdBits - (n + 1)] < u[IdBits - (n + 1)]
    OBVIOUS
  <2> DEFINE p == start + 1 + IdBits - (n + 1)
             k == IdBits - (n + 1)
  <2>1. n \in Nat /\ p \in Nat /\ p > start /\ k \in Nat /\ k < IdBits
        /\ p + 1 = start + 1 + IdBits - n /\ k + 1 = IdBits - n
    BY BitmapAssumption
  <2>2. g[p + 1] < u[k + 1]
    BY <2>1, BitmapAssumption
  <2> HIDE DEF p, k, S
  <2>3. u[k] = 2 * u[k + 1] /\ u[k + 1] \in Nat
    BY <1>3, <1>5, <2>1
  <2>4. g[p] = 2 * g[p + 1] + bit[p] /\ g[p + 1] \in Nat /\ bit[p] \in {0, 1}
    BY <1>0, <2>1
  <2>5. g[p] < u[k]
    BY <2>2, <2>3, <2>4
  <2> QED BY <2>5 DEF p, k
<1>8. S = Nat
  <2> HIDE DEF S
  <2>1. S \in SUBSET Nat
    BY DEF S
  <2> QED BY <1>6, <1>7, <2>1, SetInduction
<1> HIDE DEF S
<1>9. IdBits \in S
  BY <1>8, BitmapAssumption
<1>10. start + 1 + IdBits - IdBits = start + 1 /\ IdBits - IdBits = 0 /\ IdBits <= IdBits
  BY BitmapAssumption
<1>11. g[start + 1] < u[0]
  BY <1>9, <1>10 DEF S
<1> QED BY <1>1, <1>3, <1>11

\* The last digit and the rest.
LEMMA Parity ==
  ASSUME NEW a \in Nat, NEW b \in Nat, NEW x \in {0, 1}, NEW y \in {0, 1},
         2 * a + x = 2 * b + y
  PROVE  a = b /\ x = y
OBVIOUS

\* The number tells its digits.
LEMMA SameDigits ==
  ASSUME NEW g, NEW h, NEW start \in Nat, NEW bit, NEW bot,
         Counts(g, start, bit), Counts(h, start, bot), g[start + 1] = h[start + 1]
  PROVE  \A p \in Nat : p > start => bit[p] = bot[p]
<1>0. /\ bit \in [Nat -> {0, 1}] /\ bot \in [Nat -> {0, 1}]
      /\ \A p \in Nat : g[p] \in Nat /\ h[p] \in Nat
      /\ \A p \in Nat : p > start =>
           g[p] = 2 * g[p + 1] + bit[p] /\ h[p] = 2 * h[p + 1] + bot[p]
  BY DEF Counts
<1>1. ASSUME NEW p \in Nat, p > start, g[p] = h[p]
      PROVE  bit[p] = bot[p] /\ g[p + 1] = h[p + 1]
  <2>1. 2 * g[p + 1] + bit[p] = 2 * h[p + 1] + bot[p]
    BY <1>0, <1>1
  <2>2. g[p + 1] \in Nat /\ h[p + 1] \in Nat /\ bit[p] \in {0, 1} /\ bot[p] \in {0, 1}
    BY <1>0
  <2> QED BY <2>1, <2>2, Parity
<1> DEFINE S == {n \in Nat : g[start + 1 + n] = h[start + 1 + n]}
<1>2. 0 \in S
  OBVIOUS
<1>3. ASSUME NEW n \in S PROVE n + 1 \in S
  <2>1. start + 1 + n \in Nat /\ start + 1 + n > start
        /\ (start + 1 + n) + 1 = start + 1 + (n + 1)
    OBVIOUS
  <2>2. g[start + 1 + n] = h[start + 1 + n]
    OBVIOUS
  <2>3. g[(start + 1 + n) + 1] = h[(start + 1 + n) + 1]
    BY <1>1, <2>1, <2>2
  <2> QED BY <2>1, <2>3
<1>4. S = Nat
  <2> HIDE DEF S
  <2>1. S \in SUBSET Nat
    BY DEF S
  <2> QED BY <1>2, <1>3, <2>1, SetInduction
<1>5. ASSUME NEW p \in Nat, p > start PROVE bit[p] = bot[p]
  <2>1. p - (start + 1) \in Nat /\ start + 1 + (p - (start + 1)) = p
    BY <1>5
  <2> HIDE DEF S
  <2>2. p - (start + 1) \in S
    BY <1>4, <2>1
  <2>3. g[p] = h[p]
    BY <2>1, <2>2 DEF S
  <2> QED BY <1>1, <1>5, <2>3
<1> QED BY <1>5

\* A remainder below the unit: the quotient and the remainder are those of the sum.
LEMMA Quotient ==
  ASSUME NEW unit \in Nat, NEW a \in Nat, NEW b \in Nat, NEW s \in Nat, NEW t \in Nat,
         a < unit, b < unit, a + unit * s = b + unit * t
  PROVE  a = b /\ s = t
<1>1. ASSUME NEW x \in Nat, NEW y \in Nat, x < y PROVE unit * y >= unit * x + unit
  <2>1. unit * (y - x - 1) >= 0
    BY <1>1
  <2>2. unit * (y - x - 1) = unit * y - unit * x - unit
    BY <1>1
  <2>3. unit * x \in Int /\ unit * y \in Int
    OBVIOUS
  <2> QED BY <2>1, <2>2, <2>3
<1>2. unit * s \in Int /\ unit * t \in Int
  OBVIOUS
<1>3. ~(s < t)
  BY <1>1, <1>2
<1>4. ~(t < s)
  BY <1>1, <1>2
<1>5. s = t
  BY <1>3, <1>4
<1> QED BY <1>2, <1>5

\* Two bitmaps in their windows with the same ID are the same.
LEMMA SameID ==
  ASSUME NEW b \in SUBSET Positions, NEW c \in SUBSET Positions,
         InWindow(b), InWindow(c), GetID(b) = GetID(c)
  PROVE  b = c
<1> DEFINE s == GetFirstGapPos(b)
           t == GetFirstGapPos(c)
           bit == [p \in Nat |-> IF p \in b THEN 1 ELSE 0]
           bot == [p \in Nat |-> IF p \in c THEN 1 ELSE 0]
<1>1. PICK g : /\ \A p \in Nat : g[p] \in Nat
               /\ \A p \in Nat : p > s => g[p] = 2 * g[p + 1] + (IF p \in b THEN 1 ELSE 0)
               /\ g[s + IdBits + 1] = 0
               /\ GetID(b) = g[s + 1] + PatternUnit * s
  BY PatternFacts
<1>2. PICK h : /\ \A p \in Nat : h[p] \in Nat
               /\ \A p \in Nat : p > t => h[p] = 2 * h[p + 1] + (IF p \in c THEN 1 ELSE 0)
               /\ h[t + IdBits + 1] = 0
               /\ GetID(c) = h[t + 1] + PatternUnit * t
  BY PatternFacts
<1>3. /\ s \in 0..Size /\ s \notin b
      /\ \A q \in Positions : q < s => q \in b
  BY BeforeFirstGap
<1>4. /\ t \in 0..Size /\ t \notin c
      /\ \A q \in Positions : q < t => q \in c
  BY BeforeFirstGap
<1>5. s \in Nat /\ t \in Nat
  BY <1>3, <1>4, BitmapAssumption
<1>6. /\ bit \in [Nat -> {0, 1}] /\ \A p \in Nat : bit[p] = IF p \in b THEN 1 ELSE 0
      /\ bot \in [Nat -> {0, 1}] /\ \A p \in Nat : bot[p] = IF p \in c THEN 1 ELSE 0
  OBVIOUS
<1> HIDE DEF s, t, bit, bot
<1>7. Counts(g, s, bit)
  BY <1>1, <1>6 DEF Counts
<1>8. Counts(h, t, bot)
  BY <1>2, <1>6 DEF Counts
<1>9. PatternUnit \in Nat /\ g[s + 1] < PatternUnit
  BY <1>1, <1>5, <1>7, PatternBound
<1>10. h[t + 1] < PatternUnit
  BY <1>2, <1>5, <1>8, PatternBound
<1>11. g[s + 1] = h[t + 1] /\ s = t
  <2>1. g[s + 1] \in Nat /\ h[t + 1] \in Nat
    BY <1>1, <1>2, <1>5
  <2>2. g[s + 1] + PatternUnit * s = h[t + 1] + PatternUnit * t
    BY <1>1, <1>2
  <2> QED BY <1>5, <1>9, <1>10, <2>1, <2>2, Quotient
<1>12. \A p \in Nat : p > s => bit[p] = bot[p]
  <2>1. Counts(h, s, bot) /\ g[s + 1] = h[s + 1]
    BY <1>8, <1>11
  <2> QED BY <1>5, <1>7, <2>1, SameDigits
<1>13. ASSUME NEW p \in Positions PROVE p \in b <=> p \in c
  <2>1. p \in Nat
    BY BitmapAssumption DEF Positions
  <2>2. CASE p < s
    BY <1>3, <1>4, <1>11, <2>2
  <2>3. CASE p = s
    BY <1>3, <1>4, <1>11, <2>3
  <2>4. CASE p > s
    BY <1>6, <1>12, <2>1, <2>4
  <2> QED BY <1>5, <2>1, <2>2, <2>3, <2>4
<1> QED BY <1>13

\* A bitmap within the distortion limit has its bits within the window.
LEMMA LimitedWindow ==
  ASSUME IndInv, limit \in 0..IdBits
  PROVE  m_sourceCompleted \in SUBSET Positions /\ InWindow(m_sourceCompleted)
<1>1. m_sourceCompleted \in SUBSET Positions
  BY DEF IndInv, SearchInv, TypeOK
<1>2. FirstGap \in Nat
  BY <1>1, BeforeFirstGap, BitmapAssumption DEF FirstGap
<1>3. ASSUME NEW pos \in m_sourceCompleted PROVE pos - FirstGap <= IdBits
  <2>1. pos \in Nat
    BY <1>1, BitmapAssumption DEF Positions
  <2>2. CASE pos > FirstGap
    <3>1. pos + 1 - FirstGap <= limit
      BY <2>2 DEF IndInv, SearchInv, WindowBound
    <3> QED BY <1>2, <2>1, <3>1, BitmapAssumption
  <2> QED BY <1>2, <2>1, <2>2, BitmapAssumption
<1> QED BY <1>1, <1>3 DEF InWindow, FirstGap

\* Within a distortion limit of at most the bits of the pattern, no two bitmaps that the
\* search can tell apart have the same ID (WordsBitmap::GetID).
THEOREM DistinctIDs == Spec => []IdDistinct
<1>1. IndInv => IdDistinct
  BY LimitedWindow, SameID DEF IdDistinct
<1> QED BY <1>1, Inductive, PTL
=============================================================================
