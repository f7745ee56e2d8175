----------------------- MODULE MCHypothesisStackNormal -----------------------
(* A small instance of HypothesisStackNormal. *)
EXTENDS HypothesisStackNormal, TLC

MCLogZero == -100
MCBeamWidth == -2
MCScores == 1..4
Setting(size, diversity, nBest, discarding) ==
  [size |-> size, diversity |-> diversity, nBest |-> nBest, discarding |-> discarding]
MCSettings == {Setting(2, 0, 0, TRUE), Setting(2, 1, 0, TRUE), Setting(1, 1, 0, TRUE),
               Setting(1, 2, 0, TRUE), Setting(1, 0, 1, TRUE), Setting(1, 0, 0, FALSE),
               Setting(0, 1, 0, TRUE)}
Symmetry == Permutations(Coverages) \cup Permutations(States)
=============================================================================
