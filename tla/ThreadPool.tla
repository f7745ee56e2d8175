------------------------------ MODULE ThreadPool ------------------------------
(***************************************************************************)
(* moses/ThreadPool.{h,cpp}: a fixed set of worker threads, one queue of   *)
(* tasks, one mutex and two condition variables.                           *)
(*                                                                         *)
(* m_mutex is a scoped lock around short blocks, so a block is one action. *)
(* What the code does outside a block (the reads of the task, Run, delete, *)
(* the notification, the loop test) are actions of their own.  A condition *)
(* variable is the set of the threads asleep on it; notify_all empties it, *)
(* and a thread may also wake for no reason.                               *)
(***************************************************************************)
EXTENDS Naturals, Sequences, FiniteSets

CONSTANTS
  Workers,      \* the threads created by the constructor
  Clients,      \* the threads that call Submit
  Owner,        \* the client that calls Stop and then the destructor
  Tasks,        \* task objects; each one is submitted at most once
  SelfDelete,   \* the tasks whose DeleteAfterExecution() is true
  QueueLimit,   \* m_queueLimit; 0 stands for "no limit"
  StopModes,    \* the arguments with which Stop is called
  NoTask        \* the NULL Task*

ASSUME PoolAssumption ==
  /\ Owner \in Clients
  /\ SelfDelete \subseteq Tasks
  /\ QueueLimit \in Nat
  /\ StopModes \subseteq BOOLEAN
  /\ NoTask \notin Tasks

VARIABLES
  m_tasks,     \* the queue of pending tasks
  m_stopped,
  m_stopping,
  needed,      \* the workers asleep on m_threadNeeded
  available,   \* the clients asleep on m_threadAvailable
  wpc,         \* where each worker is in Execute
  wtask,       \* Execute's local task
  wdel,        \* Execute's local del
  wseen,       \* m_stopped as the worker saw it when it last held the lock
  cpc,         \* where each client is in Submit, Stop or the destructor
  ctask,       \* Submit's argument while it is blocked
  process,     \* Stop's argument
  ran,         \* how often each task was run
  freed,       \* the tasks that were deleted
  accepted,    \* the tasks pushed on the queue
  refused,     \* the tasks for which Submit threw
  atStop       \* the tasks accepted before Stop set m_stopping

workerVars == <<wpc, wtask, wdel, wseen>>
clientVars == <<cpc, ctask, process>>
history    == <<accepted, refused, atStop>>
vars == <<m_tasks, m_stopped, m_stopping, needed, available, workerVars,
          clientVars, ran, freed, history>>

WorkerPC == {"find", "asleep", "execute", "run", "finish", "announce", "loop", "exited"}
ClientPC == {"idle", "full", "stop", "drain", "drainWait", "shut", "wake",
             "join", "stopped", "destroyed"}

Init ==
  /\ m_tasks = <<>>
  /\ m_stopped = FALSE
  /\ m_stopping = FALSE
  /\ needed = {}
  /\ available = {}
  /\ wpc = [w \in Workers |-> "find"]
  /\ wtask = [w \in Workers |-> NoTask]
  /\ wdel = [w \in Workers |-> FALSE]
  /\ wseen = [w \in Workers |-> FALSE]
  /\ cpc = [c \in Clients |-> "idle"]
  /\ ctask = [c \in Clients |-> NoTask]
  /\ process = FALSE
  /\ ran = [t \in Tasks |-> 0]
  /\ freed = {}
  /\ accepted = {}
  /\ refused = {}
  /\ atStop = {}

-----------------------------------------------------------------------------
(* Execute: the loop of a worker.                                          *)

\* if (m_tasks.empty() && !m_stopped) m_threadNeeded.wait(lock)
WaitForJob(w) ==
  /\ wpc[w] = "find"
  /\ m_tasks = <<>> /\ ~m_stopped
  /\ wpc' = [wpc EXCEPT ![w] = "asleep"]
  /\ wseen' = [wseen EXCEPT ![w] = m_stopped]
  /\ needed' = needed \union {w}
  /\ UNCHANGED <<m_tasks, m_stopped, m_stopping, available, wtask, wdel,
                 clientVars, ran, freed, history>>

\* A worker goes past the wait when it need not sleep, or when it is woken: the
\* code tests the queue with "if", so a woken worker does not wait again.
PastWait(w) ==
  \/ wpc[w] = "find" /\ (m_tasks # <<>> \/ m_stopped)
  \/ wpc[w] = "asleep" /\ w \notin needed

\* (mutant) front() without pop()
MutTakeJob(w) ==
  /\ PastWait(w)
  /\ ~m_stopped /\ m_tasks # <<>>
  /\ wtask' = [wtask EXCEPT ![w] = Head(m_tasks)]
  /\ wpc' = [wpc EXCEPT ![w] = "execute"]
  /\ wseen' = [wseen EXCEPT ![w] = m_stopped]
  /\ UNCHANGED <<m_tasks, m_stopped, m_stopping, needed, available, wdel,
                 clientVars, ran, freed, history>>

\* if (!m_stopped && !m_tasks.empty()): pop the front task
TakeJob(w) ==
  /\ PastWait(w)
  /\ ~m_stopped /\ m_tasks # <<>>
  /\ wtask' = [wtask EXCEPT ![w] = Head(m_tasks)]
  /\ m_tasks' = Tail(m_tasks)
  /\ wpc' = [wpc EXCEPT ![w] = "execute"]
  /\ wseen' = [wseen EXCEPT ![w] = m_stopped]
  /\ UNCHANGED <<m_stopped, m_stopping, needed, available, wdel, clientVars,
                 ran, freed, history>>

FindNoJob(w) ==
  /\ PastWait(w)
  /\ m_stopped \/ m_tasks = <<>>
  /\ wpc' = [wpc EXCEPT ![w] = "announce"]
  /\ wseen' = [wseen EXCEPT ![w] = m_stopped]
  /\ UNCHANGED <<m_tasks, m_stopped, m_stopping, needed, available, wtask,
                 wdel, clientVars, ran, freed, history>>

\* (mutant) every task is taken for one that deletes itself
MutReadDel(w) ==
  /\ wpc[w] = "execute"
  /\ wdel' = [wdel EXCEPT ![w] = TRUE]
  /\ wpc' = [wpc EXCEPT ![w] = "run"]
  /\ UNCHANGED <<m_tasks, m_stopped, m_stopping, needed, available, wtask,
                 wseen, clientVars, ran, freed, history>>

\* bool del = task->DeleteAfterExecution(), read before Run
ReadDel(w) ==
  /\ wpc[w] = "execute"
  /\ wdel' = [wdel EXCEPT ![w] = wtask[w] \in SelfDelete]
  /\ wpc' = [wpc EXCEPT ![w] = "run"]
  /\ UNCHANGED <<m_tasks, m_stopped, m_stopping, needed, available, wtask,
                 wseen, clientVars, ran, freed, history>>

\* task->Run() returns; what Run does in between belongs to the task
RunTask(w) ==
  /\ wpc[w] = "run"
  /\ ran' = [ran EXCEPT ![wtask[w]] = @ + 1]
  /\ wpc' = [wpc EXCEPT ![w] = "finish"]
  /\ UNCHANGED <<m_tasks, m_stopped, m_stopping, needed, available, wtask,
                 wdel, wseen, clientVars, freed, history>>

\* if (del) delete task
FinishTask(w) ==
  /\ wpc[w] = "finish"
  /\ freed' = IF wdel[w] THEN freed \union {wtask[w]} ELSE freed
  /\ wtask' = [wtask EXCEPT ![w] = NoTask]
  /\ wpc' = [wpc EXCEPT ![w] = "announce"]
  /\ UNCHANGED <<m_tasks, m_stopped, m_stopping, needed, available, wdel,
                 wseen, clientVars, ran, history>>

\* m_threadAvailable.notify_all(), without the lock
Announce(w) ==
  /\ wpc[w] = "announce"
  /\ available' = {}
  /\ wpc' = [wpc EXCEPT ![w] = "loop"]
  /\ UNCHANGED <<m_tasks, m_stopped, m_stopping, needed, wtask, wdel, wseen,
                 clientVars, ran, freed, history>>

\* while (!m_stopped), without the lock: a write the worker has not yet
\* synchronised with may or may not be seen
LoopAgain(w) ==
  /\ wpc[w] = "loop"
  /\ ~wseen[w]
  /\ wpc' = [wpc EXCEPT ![w] = "find"]
  /\ UNCHANGED <<m_tasks, m_stopped, m_stopping, needed, available, wtask,
                 wdel, wseen, clientVars, ran, freed, history>>

LoopExit(w) ==
  /\ wpc[w] = "loop"
  /\ m_stopped
  /\ wpc' = [wpc EXCEPT ![w] = "exited"]
  /\ UNCHANGED <<m_tasks, m_stopped, m_stopping, needed, available, wtask,
                 wdel, wseen, clientVars, ran, freed, history>>

Worker(w) == \/ WaitForJob(w) \/ TakeJob(w) \/ FindNoJob(w) \/ ReadDel(w)
             \/ RunTask(w) \/ FinishTask(w) \/ Announce(w)
             \/ LoopAgain(w) \/ LoopExit(w)

-----------------------------------------------------------------------------
(* Submit.                                                                 *)

Fresh(t) == t \notin accepted \union refused /\ \A c \in Clients : ctask[c] # t

Full == QueueLimit > 0 /\ Len(m_tasks) >= QueueLimit

\* (mutant) the notification of m_threadNeeded is forgotten
MutPush(t) ==
  /\ m_tasks' = Append(m_tasks, t)
  /\ accepted' = accepted \union {t}
  /\ UNCHANGED needed

Push(t) ==
  /\ m_tasks' = Append(m_tasks, t)
  /\ needed' = {}
  /\ accepted' = accepted \union {t}

\* if (m_stopping) throw
SubmitThrow(c, t) ==
  /\ cpc[c] = "idle" /\ cpc[Owner] # "destroyed" /\ Fresh(t)
  /\ m_stopping
  /\ refused' = refused \union {t}
  /\ UNCHANGED <<m_tasks, m_stopped, m_stopping, needed, available, workerVars,
                 clientVars, ran, freed, accepted, atStop>>

SubmitPush(c, t) ==
  /\ cpc[c] = "idle" /\ Fresh(t)
  /\ ~m_stopping /\ ~Full
  /\ Push(t)
  /\ UNCHANGED <<m_stopped, m_stopping, available, workerVars, clientVars,
                 ran, freed, refused, atStop>>

SubmitBlock(c, t) ==
  /\ cpc[c] = "idle" /\ Fresh(t)
  /\ ~m_stopping /\ Full
  /\ cpc' = [cpc EXCEPT ![c] = "full"]
  /\ ctask' = [ctask EXCEPT ![c] = t]
  /\ available' = available \union {c}
  /\ UNCHANGED <<m_tasks, m_stopped, m_stopping, needed, workerVars, process,
                 ran, freed, history>>

\* The wait is in a loop on the limit alone: m_stopping is not tested again.
SubmitResume(c) ==
  /\ cpc[c] = "full" /\ c \notin available
  /\ \/ /\ Full
        /\ available' = available \union {c}
        /\ UNCHANGED <<m_tasks, needed, accepted, cpc, ctask>>
     \/ /\ ~Full
        /\ Push(ctask[c])
        /\ cpc' = [cpc EXCEPT ![c] = "idle"]
        /\ ctask' = [ctask EXCEPT ![c] = NoTask]
        /\ UNCHANGED available
  /\ UNCHANGED <<m_stopped, m_stopping, workerVars, process, ran, freed,
                 refused, atStop>>

-----------------------------------------------------------------------------
(* Stop(processRemainingJobs) and the destructor.                          *)

\* The first block of Stop when m_stopped is not set yet
StopBegin(p) ==
  /\ cpc[Owner] = "idle" /\ ~m_stopped
  /\ m_stopping' = TRUE
  /\ process' = p
  /\ atStop' = accepted
  /\ cpc' = [cpc EXCEPT ![Owner] = IF p THEN "drain" ELSE "shut"]
  /\ UNCHANGED <<m_tasks, m_stopped, needed, available, workerVars, ctask,
                 ran, freed, accepted, refused>>

\* (mutant) "if" for "while": a woken Stop does not test the queue again
MutStopDrain ==
  /\ \/ /\ cpc[Owner] = "drain" /\ m_tasks # <<>> /\ ~m_stopped
        /\ cpc' = [cpc EXCEPT ![Owner] = "drainWait"]
        /\ available' = available \union {Owner}
     \/ /\ \/ cpc[Owner] = "drainWait" /\ Owner \notin available
           \/ cpc[Owner] = "drain" /\ m_tasks = <<>>
        /\ cpc' = [cpc EXCEPT ![Owner] = "shut"]
        /\ UNCHANGED available
  /\ UNCHANGED <<m_tasks, m_stopped, m_stopping, needed, workerVars, ctask,
                 process, ran, freed, history>>

\* while (!m_tasks.empty() && !m_stopped) m_threadAvailable.wait(lock)
StopDrain ==
  /\ \/ cpc[Owner] = "drain"
     \/ cpc[Owner] = "drainWait" /\ Owner \notin available
  /\ \/ /\ m_tasks # <<>> /\ ~m_stopped
        /\ cpc' = [cpc EXCEPT ![Owner] = "drainWait"]
        /\ available' = available \union {Owner}
     \/ /\ m_tasks = <<>> \/ m_stopped
        /\ cpc' = [cpc EXCEPT ![Owner] = "shut"]
        /\ UNCHANGED available
  /\ UNCHANGED <<m_tasks, m_stopped, m_stopping, needed, workerVars, ctask,
                 process, ran, freed, history>>

\* m_stopped = true, under the lock
StopShut ==
  /\ cpc[Owner] = "shut"
  /\ m_stopped' = TRUE
  /\ cpc' = [cpc EXCEPT ![Owner] = "wake"]
  /\ UNCHANGED <<m_tasks, m_stopping, needed, available, workerVars, ctask,
                 process, ran, freed, history>>

\* (mutant) the workers that sleep are not told
MutStopWake ==
  /\ cpc[Owner] = "wake"
  /\ cpc' = [cpc EXCEPT ![Owner] = "join"]
  /\ UNCHANGED <<m_tasks, m_stopped, m_stopping, needed, available, workerVars,
                 ctask, process, ran, freed, history>>

\* m_threadNeeded.notify_all(), without the lock
StopWake ==
  /\ cpc[Owner] = "wake"
  /\ needed' = {}
  /\ cpc' = [cpc EXCEPT ![Owner] = "join"]
  /\ UNCHANGED <<m_tasks, m_stopped, m_stopping, available, workerVars, ctask,
                 process, ran, freed, history>>

\* m_threads.join_all()
StopJoin ==
  /\ cpc[Owner] = "join"
  /\ \A w \in Workers : wpc[w] = "exited"
  /\ cpc' = [cpc EXCEPT ![Owner] = "stopped"]
  /\ UNCHANGED <<m_tasks, m_stopped, m_stopping, needed, available, workerVars,
                 ctask, process, ran, freed, history>>

\* The destructor calls Stop again, which returns because m_stopped is set.
\* Destroying the pool while a thread is inside Submit is the caller's error.
Destroy ==
  /\ cpc[Owner] = "stopped" /\ m_stopped
  /\ \A c \in Clients \ {Owner} : cpc[c] = "idle"
  /\ cpc' = [cpc EXCEPT ![Owner] = "destroyed"]
  /\ UNCHANGED <<m_tasks, m_stopped, m_stopping, needed, available, workerVars,
                 ctask, process, ran, freed, history>>

-----------------------------------------------------------------------------
(* The surroundings of the pool.                                           *)

\* A task that does not delete itself belongs to the thread that made it, which
\* may delete it once its Run is over (mert.cpp, mosesserver.cpp).
FreeTask(t) ==
  /\ t \notin SelfDelete /\ t \notin freed
  /\ ran[t] > 0
  /\ freed' = freed \union {t}
  /\ UNCHANGED <<m_tasks, m_stopped, m_stopping, needed, available, workerVars,
                 clientVars, ran, history>>

\* boost::condition_variable::wait may return without a notification.
SpuriousWake ==
  /\ \/ \E w \in needed : needed' = needed \ {w} /\ UNCHANGED available
     \/ \E c \in available : available' = available \ {c} /\ UNCHANGED needed
  /\ UNCHANGED <<m_tasks, m_stopped, m_stopping, workerVars, clientVars, ran,
                 freed, history>>

\* Everything has returned that can; without it TLC would report a deadlock.
AllExited == cpc[Owner] \in {"stopped", "destroyed"}
Terminated == AllExited /\ UNCHANGED vars

Call(c) == \E t \in Tasks : SubmitThrow(c, t) \/ SubmitPush(c, t) \/ SubmitBlock(c, t)
Stop == StopDrain \/ StopShut \/ StopWake \/ StopJoin \/ Destroy

Next ==
  \/ \E w \in Workers : Worker(w)
  \/ \E c \in Clients : Call(c) \/ SubmitResume(c)
  \/ \E p \in StopModes : StopBegin(p)
  \/ Stop
  \/ \E t \in Tasks : FreeTask(t)
  \/ SpuriousWake
  \/ Terminated

Spec == Init /\ [][Next]_vars

\* A thread that can run is scheduled, Run returns, and a call that was begun is
\* carried on.  Nobody is obliged to call Submit or Stop, and no thread wakes
\* without a notification for ever.
Fairness ==
  /\ \A w \in Workers : WF_vars(Worker(w))
  /\ \A c \in Clients : WF_vars(SubmitResume(c))
  /\ WF_vars(Stop)

FairSpec == Spec /\ Fairness

-----------------------------------------------------------------------------
TypeOK ==
  /\ m_tasks \in Seq(Tasks)
  /\ m_stopped \in BOOLEAN
  /\ m_stopping \in BOOLEAN
  /\ needed \subseteq Workers
  /\ available \subseteq Clients
  /\ wpc \in [Workers -> WorkerPC]
  /\ wtask \in [Workers -> Tasks \union {NoTask}]
  /\ wdel \in [Workers -> BOOLEAN]
  /\ wseen \in [Workers -> BOOLEAN]
  /\ cpc \in [Clients -> ClientPC]
  /\ ctask \in [Clients -> Tasks \union {NoTask}]
  /\ process \in BOOLEAN
  /\ ran \in [Tasks -> Nat]
  /\ freed \subseteq Tasks
  /\ accepted \subseteq Tasks
  /\ refused \subseteq Tasks
  /\ atStop \subseteq Tasks

\* When a Stop(true) has returned, every task that was accepted before it began
\* has been run exactly once: Main.cpp and mert.cpp rely on it to have all the
\* results, although m_stopped makes a worker leave without looking at the queue.
DrainedAtStop ==
  cpc[Owner] \in {"stopped", "destroyed"} /\ process
    => \A t \in atStop : ran[t] = 1

\* A worker reads or deletes its task only while the task exists: del is read
\* before Run because the task may be gone after it.
NoUseAfterFree ==
  \A w \in Workers :
    (wpc[w] \in {"execute", "run"} \/ (wpc[w] = "finish" /\ wdel[w]))
      => wtask[w] \notin freed

\* No lost wake-up: while a task is pending and the pool is open, some worker is
\* awake, though workers test the queue once and go to sleep.
SomeoneAwake == m_tasks # <<>> /\ ~m_stopped /\ Workers # {} => needed # Workers

\* The invariant behind DrainedAtStop and NoUseAfterFree.  A task is in one place
\* at a time: with a blocked client, in the queue, with one worker, or done.
Holding == {"execute", "run", "finish"}
InQueue(t) == \E i \in 1..Len(m_tasks) : m_tasks[i] = t

QueueInv ==
  /\ \A i \in 1..Len(m_tasks) : m_tasks[i] \in accepted /\ ran[m_tasks[i]] = 0
  /\ \A i, j \in 1..Len(m_tasks) : m_tasks[i] = m_tasks[j] => i = j

HeldInv ==
  /\ \A w \in Workers : wpc[w] \in Holding <=> wtask[w] # NoTask
  /\ \A w \in Workers : wpc[w] \in Holding =>
       wtask[w] \in accepted /\ ~InQueue(wtask[w])
  /\ \A v, w \in Workers : wtask[v] = wtask[w] /\ wtask[v] # NoTask => v = w
  /\ \A w \in Workers : wpc[w] \in {"execute", "run"} => ran[wtask[w]] = 0
  /\ \A w \in Workers : wpc[w] = "finish" => ran[wtask[w]] = 1
  /\ \A w \in Workers :
       wpc[w] \in {"run", "finish"} => (wdel[w] <=> wtask[w] \in SelfDelete)

BlockedInv ==
  /\ \A c \in Clients : cpc[c] = "full" <=> ctask[c] # NoTask
  /\ \A c \in Clients : cpc[c] = "full" => ctask[c] \notin accepted
  /\ \A b, c \in Clients : ctask[b] = ctask[c] /\ ctask[b] # NoTask => b = c
  /\ \A c \in Clients \ {Owner} : cpc[c] \in {"idle", "full"}

DoneInv ==
  /\ \A t \in Tasks : ran[t] \in {0, 1}
  /\ \A t \in Tasks : ran[t] = 1 => t \in accepted
  /\ \A t \in accepted : ran[t] = 0 => InQueue(t) \/ \E w \in Workers : wtask[w] = t
  /\ \A t \in freed : ran[t] = 1
  /\ \A t \in freed \cap SelfDelete : \A w \in Workers : wtask[w] # t

StopInv ==
  /\ atStop \subseteq accepted
  /\ process /\ cpc[Owner] \in {"shut", "wake", "join", "stopped", "destroyed"}
       => \A t \in atStop : ~InQueue(t)
  /\ m_stopped <=> cpc[Owner] \in {"wake", "join", "stopped", "destroyed"}
  /\ cpc[Owner] \in {"stopped", "destroyed"} => \A w \in Workers : wpc[w] = "exited"

PoolInv == TypeOK /\ QueueInv /\ HeldInv /\ BlockedInv /\ DoneInv /\ StopInv

\* Stop(false) gives up what is in the queue, and whoever waits for room in it.
GivenUp == m_stopping /\ ~process

\* Every accepted task is run in the end, unless Stop(false) gives it up or it was
\* accepted, from a blocked Submit, only after Stop had begun.  (A task is accepted once
\* and Tasks is finite: "in the end, for all" is "for each, in the end".)
AcceptedIsRun ==
  <>[](\A t \in accepted : ran[t] = 1 \/ GivenUp \/ (m_stopping /\ t \notin atStop))

\* Submit does not test m_stopping again after its wait: of several callers blocked when
\* Stop(true) comes, one may fill the place that the drained queue has left.  The workers leave
\* it there (m_stopped), and the others, for whom it is full again, wait for ever.
RefilledAtStop == m_stopped /\ Full

\* Every call returns: Stop, for which the queue must drain and every worker leave Execute;
\* and a Submit blocked by the queue limit, also when Stop(true) comes meanwhile, unless another
\* blocked Submit has filled the queue when no worker takes from it any more.
StopReturns == m_stopping ~> cpc[Owner] \in {"stopped", "destroyed"}
SubmitReturns == <>[](\A c \in Clients : cpc[c] = "full" => GivenUp \/ RefilledAtStop)
CallsReturn == StopReturns /\ SubmitReturns
=============================================================================
