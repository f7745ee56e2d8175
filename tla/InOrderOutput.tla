---------------------------- MODULE InOrderOutput ----------------------------
(***************************************************************************)
(* What a user of the decoder sees of one output stream: the outputs of    *)
(* the sentences FirstId, FirstId + 1,... appear in this order, some at a  *)
(* time, and the stream is closed only when all of them are there.         *)
(***************************************************************************)
EXTENDS Naturals, Sequences

CONSTANTS FirstId, Count

VARIABLES emitted, closed

vars == <<emitted, closed>>

Init == emitted = <<>> /\ closed = FALSE

Emit == \E n \in (Len(emitted) + 1)..Count :
          /\ ~closed
          /\ emitted' = [k \in 1..n |-> FirstId + k - 1]
          /\ UNCHANGED closed

Close == Len(emitted) = Count /\ closed' = TRUE /\ UNCHANGED emitted

Next == Emit \/ Close

Spec == Init /\ [][Next]_vars /\ WF_vars(Next)
=============================================================================
