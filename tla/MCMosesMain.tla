----------------------------- MODULE MCMosesMain -----------------------------
(* A small instance of MosesMain for TLC.                                   *)
EXTENDS MosesMain

MCStreams == <<"best", "nbest">>
MCFailed == {2}
\* ChartManager::OutputBest; OutputNBest writes in any case.
MCSkips == {"best"}
=============================================================================
