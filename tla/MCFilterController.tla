------------------------- MODULE MCFilterController -------------------------
(* Small instances of FilterController: batches of two n-grams.            *)
EXTENDS FilterController, TLC

CONSTANTS w1, w2

MCWorkers == {w1, w2}

In(isArpa, lengths) == [arpa |-> isArpa, sections |-> lengths]

\* ARPA sections that end in the middle of a batch, the first one with more batches
\* than there are; count files that end with a batch or in the middle of one.
MCGood == {In(TRUE, <<9, 3>>), In(TRUE, <<1, 1, 1>>), In(FALSE, <<10>>), In(FALSE, <<0>>),
           In(FALSE, <<4, 3>>)}
\* A section that ends with its batch.
MCEven == {In(TRUE, <<2, 1>>)}
=============================================================================
