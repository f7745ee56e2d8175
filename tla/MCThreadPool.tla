---------------------------- MODULE MCThreadPool ----------------------------
(* Small instances of ThreadPool for TLC.                                  *)
EXTENDS ThreadPool

CONSTANTS t1, t2, t3

\* t1 belongs to its client, as in mert.cpp and mosesserver.cpp; the others are
\* deleted by the worker, as TranslationTask in Main.cpp is.
MCTasks == {t1, t2, t3}
MCSelfDelete == {t2, t3}
=============================================================================
