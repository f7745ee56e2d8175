---------------------------- MODULE MCStreamChain ----------------------------
(* Small instances of StreamChain. *)
EXTENDS StreamChain

MCTotals == {0, 4, 9}
MCKept == {1, 8, 9}
=============================================================================
