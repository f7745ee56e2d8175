----------------------------- MODULE WordsBitmap -----------------------------
(***************************************************************************)
(* moses/WordsBitmap.h: which words of the source sentence a hypothesis    *)
(* has translated.  A bitmap is the set of the translated positions.       *)
(***************************************************************************)
EXTENDS Integers

CONSTANTS
  Size,     \* number of words in the sentence
  IdBits    \* bits of the pattern in a bitmap's ID, 16 in the code

ASSUME BitmapAssumption ==
  /\ Size \in Nat
  /\ IdBits \in Nat

Positions == 0..(Size - 1)

\* Any number above all positions: the code's is the largest size_t.
NOT_FOUND == Size

IsComplete(bitmap) == bitmap = Positions

GetFirstGapPos(bitmap) ==
  IF IsComplete(bitmap) THEN NOT_FOUND
  ELSE CHOOSE pos \in Positions \ bitmap : \A q \in Positions \ bitmap : pos <= q

GetLastPos(bitmap) ==
  IF bitmap = {} THEN NOT_FOUND
  ELSE CHOOSE pos \in bitmap : \A q \in bitmap : q <= pos

\* the words of [start + 1, end] as a binary number, the first one lowest
Pattern(bitmap, start, end) ==
  LET value[pos \in Nat] ==
        IF pos > end THEN 0
        ELSE 2 * value[pos + 1] + (IF pos \in bitmap THEN 1 ELSE 0)
  IN  value[start + 1]

\* 1 << IdBits: only that bit is set
PatternUnit == Pattern({IdBits}, -1, IdBits)

\* (mutant) the position of the first gap is left out
MutGetID(bitmap) ==
  LET start == GetFirstGapPos(bitmap)
      end == IF bitmap = {} THEN 0 ELSE GetLastPos(bitmap)
  IN  Pattern(bitmap, start, end)

\* A missing first gap is m_size and a missing last word is 0.
GetID(bitmap) ==
  LET start == GetFirstGapPos(bitmap)
      end == IF bitmap = {} THEN 0 ELSE GetLastPos(bitmap)
  IN  Pattern(bitmap, start, end) + PatternUnit * start
=============================================================================
