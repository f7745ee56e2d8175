----------------------- MODULE MCPhraseCollectionCache -----------------------
(* A small instance of PhraseCollectionCache. *)
EXTENDS PhraseCollectionCache, TLC

\* The clock advances, stands still, or is set back to before all uses that are known.
MCClockSteps == {1, 0, -2 * MaxWrappers}
Symmetry == Permutations(Sentences) \cup Permutations(Keys)
==============================================================================
