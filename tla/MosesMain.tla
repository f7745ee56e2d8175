------------------------------ MODULE MosesMain ------------------------------
(***************************************************************************)
(* moses-cmd/Main.cpp with moses/TranslationTask.cpp: the main thread      *)
(* reads sentences and submits a task for each one; a task runs the search *)
(* and hands its results to one OutputCollector after another; after the   *)
(* last sentence the main thread stops the pool and deletes the IOWrapper, *)
(* which closes the streams.  The pool is ThreadPool with one client, the  *)
(* collectors are those of OutputCollector.                                *)
(***************************************************************************)
EXTENDS OutputCollector

CONSTANTS
  Workers,          \* the decoding threads
  FirstId,          \* start-translation-id
  NumSentences,     \* length of the input
  Streams,          \* the collectors in the order in which Run writes to them
  NoHypothesis,     \* the sentences for which the search finds no translation
  SkippedThen,      \* the collectors whose handler then returns without Write
  Main, NoTask

Ids == FirstId..(FirstId + NumSentences - 1)
Range(s) == {s[k] : k \in DOMAIN s}

ASSUME MainAssumption ==
  /\ FirstId \in Nat
  /\ NumSentences \in Nat
  /\ NoTask \notin Ids
  \* Run calls the handler of a collector once
  /\ Streams \in Seq(Range(Streams))
  /\ \A i, j \in 1..Len(Streams) : Streams[i] = Streams[j] => i = j

VARIABLES
  m_tasks, m_stopped, m_stopping, needed, available, wpc, wtask, wdel, wseen,
  cpc, ctask, process, ran, freed, accepted, refused, atStop,  \* of ThreadPool
  lineCount,   \* the id of the next sentence
  cols,        \* the collectors
  step,        \* how many handlers of the current task a worker has called
  closed       \* the IOWrapper is deleted

poolVars == <<m_tasks, m_stopped, m_stopping, needed, available, wpc, wtask, wdel,
              wseen, cpc, ctask, process, ran, freed, accepted, refused, atStop>>
vars == <<poolVars, lineCount, cols, step, closed>>

Pool == INSTANCE ThreadPool
  WITH Clients <- {Main}, Owner <- Main, Tasks <- Ids, SelfDelete <- Ids,
       QueueLimit <- 0, StopModes <- {TRUE}

Init ==
  /\ Pool!Init
  /\ lineCount = FirstId
  /\ cols = [s \in Range(Streams) |-> EmptyCollector]
  /\ step = [w \in Workers |-> 0]
  /\ closed = FALSE

\* ReadInput, SetTranslationId, new TranslationTask, Submit, ++lineCount
SubmitNext ==
  /\ lineCount \in Ids
  /\ Pool!SubmitPush(Main, lineCount)
  /\ lineCount' = lineCount + 1
  /\ UNCHANGED <<cols, step, closed>>

\* (mutant) the pool is told to stop without waiting for its queue
MutStopPool ==
  /\ lineCount \notin Ids
  /\ Pool!StopBegin(FALSE)
  /\ UNCHANGED <<lineCount, cols, step, closed>>

\* After the last sentence: pool.Stop(true)
StopPool ==
  /\ lineCount \notin Ids
  /\ Pool!StopBegin(TRUE)
  /\ UNCHANGED <<lineCount, cols, step, closed>>

GoOnStopping ==
  /\ Pool!StopDrain \/ Pool!StopShut \/ Pool!StopWake \/ Pool!StopJoin
  /\ UNCHANGED <<lineCount, cols, step, closed>>

\* Run calls the handler of the next collector
Output(w) ==
  /\ wpc[w] = "run" /\ step[w] < Len(Streams)
  /\ LET s == Streams[step[w] + 1]
     IN  cols' = IF wtask[w] \in NoHypothesis /\ s \in SkippedThen THEN cols
                 ELSE [cols EXCEPT ![s] = Written(@, wtask[w])]
  /\ step' = [step EXCEPT ![w] = @ + 1]
  /\ UNCHANGED <<poolVars, lineCount, closed>>

\* (mutant) Run may return without calling the last handler
MutReturn(w) ==
  /\ step[w] >= Len(Streams) - 1
  /\ Pool!RunTask(w)
  /\ step' = [step EXCEPT ![w] = 0]
  /\ UNCHANGED <<lineCount, cols, closed>>

\* Run returns after the last handler
Return(w) ==
  /\ step[w] = Len(Streams)
  /\ Pool!RunTask(w)
  /\ step' = [step EXCEPT ![w] = 0]
  /\ UNCHANGED <<lineCount, cols, closed>>

\* the rest of Execute
Execute(w) ==
  /\ \/ Pool!WaitForJob(w) \/ Pool!TakeJob(w) \/ Pool!FindNoJob(w)
     \/ Pool!ReadDel(w) \/ Pool!FinishTask(w) \/ Pool!Announce(w)
     \/ Pool!LoopAgain(w) \/ Pool!LoopExit(w)
  /\ UNCHANGED <<lineCount, cols, step, closed>>

\* delete ioWrapper
CloseStreams ==
  /\ cpc[Main] = "stopped" /\ ~closed
  /\ closed' = TRUE
  /\ UNCHANGED <<poolVars, lineCount, cols, step>>

\* the end of the block, where the pool is destroyed
DestroyPool ==
  /\ closed
  /\ Pool!Destroy
  /\ UNCHANGED <<lineCount, cols, step, closed>>

Wakeup == Pool!SpuriousWake /\ UNCHANGED <<lineCount, cols, step, closed>>

MainThread == SubmitNext \/ StopPool \/ GoOnStopping \/ CloseStreams \/ DestroyPool
Worker(w) == Output(w) \/ Return(w) \/ Execute(w)

Next ==
  \/ MainThread
  \/ \E w \in Workers : Worker(w)
  \/ Wakeup
  \/ cpc[Main] = "destroyed" /\ UNCHANGED vars

Spec == Init /\ [][Next]_vars

\* The input ends and the search of every sentence terminates; the threads that
\* can go on are scheduled.
FairSpec == Spec /\ WF_vars(MainThread) /\ \A w \in Workers : WF_vars(Worker(w))

-----------------------------------------------------------------------------
TypeOK ==
  /\ Pool!TypeOK
  /\ lineCount \in FirstId..(FirstId + NumSentences)
  /\ step \in [Workers -> 0..Len(Streams)]
  /\ closed \in BOOLEAN

\* What a stream is to show: the whole input, or, where a handler does not call Write for a
\* sentence without translation, what comes before the first such sentence: the collector waits
\* for it for ever.
Skipped(k) == IF Streams[k] \in SkippedThen THEN NoHypothesis \cap Ids ELSE {}
Expected(k) ==
  IF Skipped(k) = {} THEN NumSentences
  ELSE (CHOOSE id \in Skipped(k) : \A other \in Skipped(k) : id <= other) - FirstId

\* Each output stream, closed as the program closes it, is an in-order output of
\* the input: nothing is lost between the pool, the collectors and the end.
First == INSTANCE InOrderOutput
  WITH Count <- Expected(1), emitted <- cols[Streams[1]].out

Last == INSTANCE InOrderOutput
  WITH Count <- Expected(Len(Streams)), emitted <- cols[Streams[Len(Streams)]].out

FirstOutput == First!Spec
LastOutput == Last!Spec

\* An output is held back only for a sentence that some other worker has in hand, or that was
\* skipped: the pool starts the sentences in the order of the input, so nothing waits for a
\* sentence that is still in the queue.
HeldForSomeone ==
  /\ TypeOK
  /\ \A k \in 1..Len(Streams) : cols[Streams[k]].held # {} =>
       \/ cols[Streams[k]].next \in Skipped(k)
       \/ \E w \in Workers : /\ wtask[w] = cols[Streams[k]].next
                             /\ wpc[w] \in {"execute", "run"} /\ step[w] < k
=============================================================================
