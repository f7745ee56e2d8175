-------------------------- MODULE ThreadPoolProofs --------------------------
(***************************************************************************)
(* Theorems about ThreadPool, for any number of workers, clients and tasks *)
(* and any queue limit.  PoolInv is inductive; what the pool promises      *)
(* about the end of Stop(true) and about freed tasks follows from it.      *)
(***************************************************************************)
EXTENDS ThreadPool, TLAPS

\* What removing the front of a non-empty queue leaves.
LEMMA TailOfQueue ==
  ASSUME NEW S, NEW q \in Seq(S), q # <<>>
  PROVE  /\ Tail(q) \in Seq(S) /\ Head(q) \in S /\ Head(q) = q[1]
         /\ Len(q) \in Nat \ {0} /\ Len(Tail(q)) = Len(q) - 1
         /\ \A i \in 1..Len(Tail(q)) : Tail(q)[i] = q[i + 1] /\ i + 1 \in 1..Len(q)
  OBVIOUS

\* What pushing a task at the back of the queue leaves.
LEMMA AppendToQueue ==
  ASSUME NEW S, NEW q \in Seq(S), NEW t \in S
  PROVE  /\ Append(q, t) \in Seq(S)
         /\ Len(q) \in Nat /\ Len(Append(q, t)) = Len(q) + 1
         /\ \A i \in 1..Len(q) : Append(q, t)[i] = q[i]
         /\ Append(q, t)[Len(q) + 1] = t
  OBVIOUS

\* The constructor establishes the invariant.
LEMMA PoolInit == Init => PoolInv
<1> SUFFICES ASSUME Init PROVE PoolInv
  OBVIOUS
<1>1. TypeOK
  <2>1. m_tasks \in Seq(Tasks) /\ ran \in [Tasks -> Nat]
    BY DEF Init
  <2>2. /\ wpc \in [Workers -> WorkerPC] /\ cpc \in [Clients -> ClientPC]
        /\ wtask \in [Workers -> Tasks \union {NoTask}]
        /\ ctask \in [Clients -> Tasks \union {NoTask}]
    BY DEF Init, WorkerPC, ClientPC
  <2>3. wdel \in [Workers -> BOOLEAN] /\ wseen \in [Workers -> BOOLEAN]
    BY DEF Init
  <2> QED BY <2>1, <2>2, <2>3 DEF Init, TypeOK
<1>2. QueueInv /\ HeldInv /\ BlockedInv /\ DoneInv /\ StopInv
  BY PoolAssumption DEF Init, QueueInv, HeldInv, BlockedInv, DoneInv, StopInv, Holding
<1> QED BY <1>1, <1>2 DEF PoolInv

\* A worker's step outside the queue changes neither the queue nor the clients.
LEMMA WorkerStep ==
  ASSUME PoolInv, NEW w \in Workers,
         WaitForJob(w) \/ FindNoJob(w) \/ ReadDel(w) \/ Announce(w)
           \/ LoopAgain(w) \/ LoopExit(w)
  PROVE  PoolInv'
<1> USE PoolAssumption DEF WaitForJob, FindNoJob, PastWait, ReadDel, Announce,
        LoopAgain, LoopExit, clientVars, history, PoolInv
<1>a. /\ UNCHANGED <<m_tasks, wtask, ran, freed, accepted>>
      /\ wpc \in [Workers -> WorkerPC] /\ wdel \in [Workers -> BOOLEAN]
      /\ \A t : InQueue(t)' <=> InQueue(t)
  BY DEF TypeOK, InQueue
<1>b. PICK pc \in WorkerPC :
        /\ wpc' = [wpc EXCEPT ![w] = pc]
        /\ pc \in Holding <=> wpc[w] \in Holding
        /\ wpc[w] # "finish" /\ pc # "finish" /\ pc # "execute"
        /\ pc = "run" => wpc[w] = "execute"
  BY <1>a DEF Holding, WorkerPC
<1>c. \/ pc # "run" /\ wdel' = wdel
      \/ wdel' = [wdel EXCEPT ![w] = wtask[w] \in SelfDelete]
  <2>1. CASE ReadDel(w)
    BY <2>1
  <2>2. CASE wpc'[w] # "run"
    BY <2>2, <1>a, <1>b
  <2> QED BY <2>1, <2>2, <1>a, <1>b
<1>1. TypeOK'
  <2>1. /\ needed' \subseteq Workers /\ available' \subseteq Clients
        /\ wseen' \in [Workers -> BOOLEAN]
    <3>1. wseen \in [Workers -> BOOLEAN] /\ m_stopped \in BOOLEAN
          /\ needed \subseteq Workers /\ available \subseteq Clients
      BY DEF TypeOK
    <3>2. needed' \in {needed, needed \union {w}} /\ available' \in {available, {}}
      OBVIOUS
    <3>3. wseen' = wseen \/ wseen' = [wseen EXCEPT ![w] = m_stopped]
      OBVIOUS
    <3> QED BY <3>1, <3>2, <3>3
  <2>2. wdel' \in [Workers -> BOOLEAN]
    <3>1. CASE ReadDel(w)
      BY <3>1, <1>a
    <3>2. CASE ~ReadDel(w)
      BY <3>2, <1>a
    <3> QED BY <3>1, <3>2
  <2>4. wpc' \in [Workers -> WorkerPC]
    BY <1>a, <1>b
  <2>3. UNCHANGED <<m_stopped, m_stopping, cpc, ctask, process, refused, atStop>>
    OBVIOUS
  <2> QED BY <1>a, <2>1, <2>2, <2>3, <2>4 DEF TypeOK
<1>2. QueueInv'
  BY DEF QueueInv
<1>3. HeldInv'
  <2>1. \A v \in Workers : wpc'[v] \in Holding <=> wtask'[v] # NoTask
    BY <1>a, <1>b DEF HeldInv
  <2>2. \A v \in Workers : wpc'[v] \in {"execute", "run"} => ran'[wtask'[v]] = 0
    BY <1>a, <1>b DEF HeldInv
  <2>3. \A v \in Workers : wpc'[v] = "finish" => ran'[wtask'[v]] = 1
    BY <1>a, <1>b DEF HeldInv
  <2>4. \A v \in Workers :
          wpc'[v] \in {"run", "finish"} => (wdel'[v] <=> wtask'[v] \in SelfDelete)
    <3> SUFFICES ASSUME NEW v \in Workers, wpc'[v] \in {"run", "finish"}
                 PROVE  wdel'[v] <=> wtask[v] \in SelfDelete
      BY <1>a
    <3>1. CASE v # w
      BY <3>1, <1>a, <1>b DEF HeldInv
    <3>2. CASE v = w
      <4>1. ReadDel(w)
        BY <3>2, <1>a, <1>b
      <4> QED BY <4>1, <3>2, <1>a
    <3> QED BY <3>1, <3>2
  <2>5. \A v \in Workers : wpc'[v] \in Holding =>
          wtask'[v] \in accepted' /\ ~InQueue(wtask[v])'
    <3> SUFFICES ASSUME NEW v \in Workers, wpc'[v] \in Holding
                 PROVE  wtask[v] \in accepted /\ ~InQueue(wtask[v])'
      BY <1>a
    <3>1. wpc[v] \in Holding
      BY <1>a, <2>1 DEF HeldInv
    <3>2. wtask[v] \in accepted /\ ~InQueue(wtask[v])
      BY <3>1 DEF HeldInv
    <3> QED BY <3>2, <1>a DEF InQueue
  <2> QED BY <2>1, <2>2, <2>3, <2>4, <2>5, <1>a DEF HeldInv
<1>4. BlockedInv'
  BY DEF BlockedInv
<1>5. DoneInv'
  BY <1>a DEF DoneInv
<1>6. StopInv'
  BY DEF TypeOK, StopInv, InQueue
<1> QED BY <1>1, <1>2, <1>3, <1>4, <1>5, <1>6

\* Taking the front task moves it from the queue to one worker.
LEMMA TakeStep ==
  ASSUME PoolInv, NEW w \in Workers, TakeJob(w)
  PROVE  PoolInv'
<1> DEFINE h == Head(m_tasks)
<1>a. /\ m_tasks \in Seq(Tasks) /\ m_tasks # <<>>
      /\ wpc[w] \notin Holding /\ wpc[w] # "exited" /\ wtask[w] = NoTask
      /\ wpc \in [Workers -> WorkerPC] /\ wtask \in [Workers -> Tasks \union {NoTask}]
  BY DEF TakeJob, PastWait, PoolInv, TypeOK, HeldInv, Holding
<1>b. /\ m_tasks' \in Seq(Tasks) /\ h \in Tasks /\ h = m_tasks[1] /\ h # NoTask
      /\ Len(m_tasks) \in Nat \ {0} /\ Len(m_tasks') = Len(m_tasks) - 1
      /\ \A i \in 1..Len(m_tasks') : m_tasks'[i] = m_tasks[i + 1] /\ i + 1 \in 1..Len(m_tasks)
  BY <1>a, TailOfQueue, PoolAssumption DEF TakeJob
<1>c. /\ wpc' = [wpc EXCEPT ![w] = "execute"] /\ wtask' = [wtask EXCEPT ![w] = h]
      /\ UNCHANGED <<m_stopped, cpc, ctask, process, ran, freed, accepted, atStop, wdel>>
  BY DEF TakeJob, clientVars, history
<1>d. \A t : InQueue(t)' <=> InQueue(t) /\ t # h
  <2> SUFFICES ASSUME NEW t PROVE InQueue(t)' <=> InQueue(t) /\ t # h
    OBVIOUS
  <2>1. ASSUME InQueue(t)' PROVE InQueue(t) /\ t # h
    <3>1. PICK i \in 1..Len(m_tasks') : m_tasks'[i] = t
      BY <2>1 DEF InQueue
    <3>2. i + 1 \in 1..Len(m_tasks) /\ m_tasks[i + 1] = t /\ i + 1 # 1 /\ 1 \in 1..Len(m_tasks)
      BY <3>1, <1>b
    <3> QED BY <3>2, <1>b DEF InQueue, PoolInv, QueueInv
  <2>2. ASSUME InQueue(t), t # h PROVE InQueue(t)'
    <3>1. PICK i \in 1..Len(m_tasks) : m_tasks[i] = t
      BY <2>2 DEF InQueue
    <3>2. i # 1
      BY <3>1, <2>2, <1>b
    <3>3. i - 1 \in 1..Len(m_tasks') /\ (i - 1) + 1 = i
      BY <3>2, <1>b
    <3>4. m_tasks'[i - 1] = t
      BY <3>1, <3>3, <1>b
    <3> QED BY <3>3, <3>4 DEF InQueue
  <2> QED BY <2>1, <2>2
<1>e. InQueue(h) /\ h \in accepted /\ ran[h] = 0
  <2>1. 1 \in 1..Len(m_tasks)
    BY <1>b
  <2> QED BY <2>1, <1>b DEF InQueue, PoolInv, QueueInv
<1>1. TypeOK'
  BY <1>b DEF TakeJob, PoolInv, TypeOK, WorkerPC, clientVars, history
<1>2. QueueInv'
  <2>1. \A i \in 1..Len(m_tasks') : m_tasks'[i] \in accepted /\ ran[m_tasks'[i]] = 0
    BY <1>b DEF PoolInv, QueueInv
  <2>2. \A i, j \in 1..Len(m_tasks') : m_tasks'[i] = m_tasks'[j] => i = j
    <3> SUFFICES ASSUME NEW i \in 1..Len(m_tasks'), NEW j \in 1..Len(m_tasks'),
                        m_tasks'[i] = m_tasks'[j]
                 PROVE  i = j
      OBVIOUS
    <3>1. m_tasks[i + 1] = m_tasks[j + 1] /\ i + 1 \in 1..Len(m_tasks) /\ j + 1 \in 1..Len(m_tasks)
      BY <1>b
    <3>2. i + 1 = j + 1
      BY <3>1 DEF PoolInv, QueueInv
    <3> QED BY <3>2, <1>b
  <2> QED BY <2>1, <2>2, <1>c DEF QueueInv
<1>3. HeldInv'
  BY <1>a, <1>b, <1>c, <1>d, <1>e DEF PoolInv, HeldInv, Holding
<1>4. BlockedInv'
  BY <1>c DEF PoolInv, BlockedInv
<1>5. DoneInv'
  <2>1. \A t \in accepted : ran[t] = 0 =>
          InQueue(t)' \/ \E v \in Workers : wtask'[v] = t
    <3> SUFFICES ASSUME NEW t \in accepted, ran[t] = 0, t # h
                 PROVE  InQueue(t)' \/ \E v \in Workers : wtask'[v] = t
      BY <1>a, <1>c
    <3>1. CASE InQueue(t)
      BY <3>1, <1>d
    <3>2. CASE \E v \in Workers : wtask[v] = t
      <4>1. PICK v \in Workers : wtask[v] = t
        BY <3>2
      <4>2. v # w
        BY <4>1, <1>a, PoolAssumption DEF PoolInv, TypeOK
      <4> QED BY <4>1, <4>2, <1>a, <1>c
    <3> QED BY <3>1, <3>2 DEF PoolInv, DoneInv
  <2>2. \A t \in freed \cap SelfDelete : \A v \in Workers : wtask'[v] # t
    BY <1>a, <1>c, <1>e DEF PoolInv, DoneInv
  <2> QED BY <2>1, <2>2, <1>c DEF PoolInv, DoneInv
<1>6. StopInv'
  BY <1>a, <1>c, <1>d DEF PoolInv, StopInv, TakeJob
<1> QED BY <1>1, <1>2, <1>3, <1>4, <1>5, <1>6 DEF PoolInv

\* Run is the moment from which a task counts as done; it stays with its worker.
LEMMA RunStep ==
  ASSUME PoolInv, NEW w \in Workers, RunTask(w)
  PROVE  PoolInv'
<1> DEFINE h == wtask[w]
<1>a. /\ wpc' = [wpc EXCEPT ![w] = "finish"] /\ ran' = [ran EXCEPT ![h] = @ + 1]
      /\ UNCHANGED <<m_tasks, m_stopped, wtask, wdel, cpc, ctask, process,
                     freed, accepted, atStop>>
      /\ \A t : InQueue(t)' <=> InQueue(t)
  BY DEF RunTask, clientVars, history, InQueue
<1>b. /\ wpc[w] = "run" /\ wpc \in [Workers -> WorkerPC] /\ ran \in [Tasks -> Nat]
      /\ h \in Tasks /\ h \in accepted /\ ran[h] = 0 /\ ~InQueue(h) /\ h # NoTask
  BY PoolAssumption DEF RunTask, PoolInv, TypeOK, HeldInv, Holding
<1>c. /\ ran' \in [Tasks -> Nat] /\ ran'[h] = 1
      /\ \A t \in Tasks : t # h => ran'[t] = ran[t]
  BY <1>a, <1>b
<1>1. TypeOK'
  BY <1>a, <1>b, <1>c DEF RunTask, PoolInv, TypeOK, WorkerPC, clientVars, history
<1>2. QueueInv'
  <2>1. ASSUME NEW i \in 1..Len(m_tasks) PROVE m_tasks[i] \in Tasks /\ m_tasks[i] # h
    BY <1>b DEF InQueue, PoolInv, TypeOK
  <2> QED BY <2>1, <1>a, <1>c DEF PoolInv, QueueInv
<1>3. HeldInv'
  <2>1. \A v \in Workers : wpc'[v] \in Holding <=> wpc[v] \in Holding
    BY <1>a, <1>b DEF Holding
  <2>2. \A v \in Workers : v # w /\ wpc[v] \in Holding => wtask[v] \in Tasks /\ wtask[v] # h
    BY <1>b DEF PoolInv, TypeOK, HeldInv
  <2>3. \A v \in Workers : wpc'[v] \in {"execute", "run"} => ran'[wtask'[v]] = 0
    BY <2>2, <1>a, <1>b, <1>c DEF PoolInv, HeldInv, Holding
  <2>4. \A v \in Workers : wpc'[v] = "finish" => ran'[wtask'[v]] = 1
    BY <2>2, <1>a, <1>b, <1>c DEF PoolInv, HeldInv, Holding
  <2>5. \A v \in Workers : wpc'[v] \in Holding =>
          wtask'[v] \in accepted' /\ ~InQueue(wtask[v])'
    BY <2>1, <1>a DEF PoolInv, HeldInv, InQueue
  <2>6. \A v \in Workers :
          wpc'[v] \in {"run", "finish"} => (wdel'[v] <=> wtask'[v] \in SelfDelete)
    BY <1>a, <1>b DEF PoolInv, HeldInv
  <2> QED BY <2>1, <2>3, <2>4, <2>5, <2>6, <1>a DEF PoolInv, HeldInv
<1>4. BlockedInv'
  BY <1>a DEF PoolInv, BlockedInv
<1>5. DoneInv'
  BY <1>a, <1>b, <1>c DEF PoolInv, TypeOK, DoneInv
<1>6. StopInv'
  BY <1>a, <1>b DEF PoolInv, StopInv
<1> QED BY <1>1, <1>2, <1>3, <1>4, <1>5, <1>6 DEF PoolInv

\* After Run the worker lets go of its task, deleting it if it deletes itself.
LEMMA FinishStep ==
  ASSUME PoolInv, NEW w \in Workers, FinishTask(w)
  PROVE  PoolInv'
<1> DEFINE h == wtask[w]
<1>a. /\ wpc' = [wpc EXCEPT ![w] = "announce"] /\ wtask' = [wtask EXCEPT ![w] = NoTask]
      /\ UNCHANGED <<m_tasks, m_stopped, wdel, cpc, ctask, process, ran, accepted, atStop>>
      /\ freed' = IF h \in SelfDelete THEN freed \union {h} ELSE freed
      /\ \A t : InQueue(t)' <=> InQueue(t)
  BY DEF FinishTask, clientVars, history, InQueue, PoolInv, HeldInv
<1>b. /\ wpc[w] = "finish" /\ wpc \in [Workers -> WorkerPC] /\ ran \in [Tasks -> Nat]
      /\ wtask \in [Workers -> Tasks \union {NoTask}]
      /\ h \in Tasks /\ h \in accepted /\ ran[h] = 1 /\ h # NoTask
  BY PoolAssumption DEF FinishTask, PoolInv, TypeOK, HeldInv, Holding
<1>1. TypeOK'
  BY <1>a, <1>b DEF FinishTask, PoolInv, TypeOK, WorkerPC, clientVars, history
<1>2. QueueInv'
  BY <1>a DEF PoolInv, QueueInv
<1>3. HeldInv'
  <2>1. \A v \in Workers : v # w => wpc'[v] = wpc[v] /\ wtask'[v] = wtask[v]
    BY <1>a, <1>b
  <2>2. wpc'[w] \notin Holding /\ wtask'[w] = NoTask
    BY <1>a, <1>b DEF Holding
  <2>3. \A v \in Workers : wpc'[v] \in Holding =>
          wtask'[v] \in accepted' /\ ~InQueue(wtask[v])'
    BY <2>1, <2>2, <1>a DEF PoolInv, HeldInv, InQueue
  <2> QED BY <2>1, <2>2, <2>3, <1>a DEF PoolInv, HeldInv, Holding
<1>4. BlockedInv'
  BY <1>a DEF PoolInv, BlockedInv
<1>5. DoneInv'
  <2>1. \A t \in accepted : ran[t] = 0 => InQueue(t)' \/ \E v \in Workers : wtask'[v] = t
    <3> SUFFICES ASSUME NEW t \in accepted, ran[t] = 0, ~InQueue(t)
                 PROVE  \E v \in Workers : wtask'[v] = t
      BY <1>a
    <3>1. PICK v \in Workers : wtask[v] = t
      BY DEF PoolInv, DoneInv
    <3> QED BY <3>1, <1>a, <1>b
  <2>2. \A t \in freed' \cap SelfDelete : \A v \in Workers : wtask'[v] # t
    <3> SUFFICES ASSUME NEW t \in freed', t \in SelfDelete, NEW v \in Workers, wtask'[v] = t
                 PROVE  FALSE
      OBVIOUS
    <3>1. v # w /\ wtask[v] = t /\ t # h
      BY <1>a, <1>b, PoolAssumption DEF PoolInv, HeldInv
    <3> QED BY <3>1, <1>a DEF PoolInv, DoneInv
  <2> QED BY <2>1, <2>2, <1>a, <1>b DEF PoolInv, DoneInv
<1>6. StopInv'
  BY <1>a, <1>b DEF PoolInv, StopInv
<1> QED BY <1>1, <1>2, <1>3, <1>4, <1>5, <1>6 DEF PoolInv

\* A push adds a task that no other client holds, and leaves the client idle.
LEMMA PushStep ==
  ASSUME PoolInv, NEW c \in Clients, NEW t \in Tasks, t \notin accepted, Push(t),
         cpc[c] \in {"idle", "full"},
         cpc' = [cpc EXCEPT ![c] = "idle"], ctask' = [ctask EXCEPT ![c] = NoTask],
         \A b \in Clients : b # c => ctask[b] # t,
         available' \subseteq Clients, refused' \subseteq Tasks,
         UNCHANGED <<m_stopped, m_stopping, workerVars, process, ran, freed, atStop>>
  PROVE  PoolInv'
<1>a. /\ m_tasks \in Seq(Tasks) /\ m_tasks' = Append(m_tasks, t)
      /\ needed' = {} /\ accepted' = accepted \union {t}
      /\ UNCHANGED <<wpc, wtask, wdel, wseen>>
      /\ cpc \in [Clients -> ClientPC] /\ ctask \in [Clients -> Tasks \union {NoTask}]
  BY DEF Push, PoolInv, TypeOK, workerVars
<1>b. /\ m_tasks' \in Seq(Tasks)
      /\ Len(m_tasks) \in Nat /\ Len(m_tasks') = Len(m_tasks) + 1
      /\ \A i \in 1..Len(m_tasks) : m_tasks'[i] = m_tasks[i]
      /\ m_tasks'[Len(m_tasks) + 1] = t
  BY <1>a, AppendToQueue
<1>c. \A u : InQueue(u)' <=> InQueue(u) \/ u = t
  BY <1>b DEF InQueue
<1>d. /\ ran[t] = 0 /\ ~InQueue(t) /\ t \notin atStop
      /\ \A w \in Workers : wtask[w] # t
  <2>1. ran[t] = 0
    BY DEF PoolInv, DoneInv
  <2>2. ~InQueue(t)
    BY DEF PoolInv, QueueInv, InQueue
  <2>3. \A w \in Workers : wtask[w] # t
    BY PoolAssumption DEF PoolInv, HeldInv
  <2> QED BY <2>1, <2>2, <2>3 DEF PoolInv, StopInv
<1>1. TypeOK'
  BY <1>a, <1>b DEF PoolInv, TypeOK, ClientPC
<1>2. QueueInv'
  <2>1. \A i \in 1..Len(m_tasks') : m_tasks'[i] \in accepted' /\ ran[m_tasks'[i]] = 0
    BY <1>a, <1>b, <1>d DEF PoolInv, QueueInv
  <2>2. \A i \in 1..Len(m_tasks) : m_tasks[i] # t
    BY <1>d DEF InQueue
  <2>3. \A i, j \in 1..Len(m_tasks') : m_tasks'[i] = m_tasks'[j] => i = j
    BY <2>2, <1>b DEF PoolInv, QueueInv
  <2> QED BY <2>1, <2>3 DEF QueueInv
<1>3. HeldInv'
  <2>1. \A w \in Workers : wpc[w] \in Holding =>
          wtask'[w] \in accepted' /\ ~InQueue(wtask[w])'
    <3> SUFFICES ASSUME NEW w \in Workers, wpc[w] \in Holding
                 PROVE  wtask[w] \in accepted' /\ ~InQueue(wtask[w])'
      BY <1>a
    <3>1. wtask[w] \in accepted /\ ~InQueue(wtask[w]) /\ wtask[w] # t
      BY <1>d DEF PoolInv, HeldInv
    <3> QED BY <3>1, <1>a, <1>b DEF InQueue
  <2> QED BY <2>1, <1>a DEF PoolInv, HeldInv
<1>4. BlockedInv'
  BY <1>a, PoolAssumption DEF PoolInv, BlockedInv
<1>5. DoneInv'
  BY <1>a, <1>c DEF PoolInv, DoneInv
<1>6. StopInv'
  BY <1>a, <1>c, <1>d DEF PoolInv, StopInv
<1> QED BY <1>1, <1>2, <1>3, <1>4, <1>5, <1>6 DEF PoolInv

\* The other steps of a client, of Stop and of the surroundings leave the queue
\* and the workers alone.
LEMMA OutsideStep ==
  ASSUME PoolInv,
         UNCHANGED <<m_tasks, workerVars, ran, accepted>>,
         process' \in BOOLEAN, atStop' \subseteq Tasks,
         m_stopped' \in BOOLEAN, m_stopping' \in BOOLEAN,
         needed' \subseteq Workers, available' \subseteq Clients,
         refused' \subseteq Tasks,
         freed' \subseteq Tasks,
         \A t \in freed' : ran[t] = 1 /\ (t \in SelfDelete => t \in freed),
         cpc' \in [Clients -> ClientPC], ctask' \in [Clients -> Tasks \union {NoTask}],
         BlockedInv', StopInv'
  PROVE  PoolInv'
<1>a. UNCHANGED <<wpc, wtask, wdel, wseen>> /\ \A t : InQueue(t)' <=> InQueue(t)
  BY DEF workerVars, InQueue
<1>1. TypeOK' /\ QueueInv'
  BY <1>a DEF PoolInv, TypeOK, QueueInv
<1>2. HeldInv'
  BY <1>a DEF PoolInv, HeldInv, InQueue
<1>3. DoneInv'
  BY <1>a DEF PoolInv, DoneInv
<1> QED BY <1>1, <1>2, <1>3 DEF PoolInv

\* Every step of a client inside or outside Submit preserves the invariant.
LEMMA SubmitSteps ==
  ASSUME PoolInv, NEW c \in Clients, Call(c) \/ SubmitResume(c)
  PROVE  PoolInv'
<1>a. /\ cpc \in [Clients -> ClientPC] /\ ctask \in [Clients -> Tasks \union {NoTask}]
      /\ available \subseteq Clients /\ refused \subseteq Tasks
      /\ accepted \subseteq Tasks /\ freed \subseteq Tasks /\ atStop \subseteq Tasks
      /\ needed \subseteq Workers
      /\ m_stopped \in BOOLEAN /\ m_stopping \in BOOLEAN /\ process \in BOOLEAN
      /\ \A u \in freed : ran[u] = 1
  BY DEF PoolInv, TypeOK, DoneInv
<1>1. ASSUME NEW t \in Tasks, SubmitThrow(c, t) PROVE PoolInv'
  <2>1. UNCHANGED <<m_tasks, m_stopped, m_stopping, needed, available, workerVars,
                    cpc, ctask, process, ran, freed, accepted, atStop>>
        /\ refused' \subseteq Tasks
    BY <1>1, <1>a DEF SubmitThrow, clientVars
  <2>2. BlockedInv' /\ StopInv'
    BY <2>1 DEF PoolInv, BlockedInv, StopInv, InQueue, workerVars
  <2> QED BY <2>1, <2>2, <1>a, OutsideStep
<1>2. ASSUME NEW t \in Tasks, SubmitPush(c, t) PROVE PoolInv'
  <2>1. /\ cpc[c] = "idle" /\ t \notin accepted /\ Push(t)
        /\ \A b \in Clients : ctask[b] # t
        /\ UNCHANGED <<m_stopped, m_stopping, available, workerVars, cpc, ctask,
                       process, ran, freed, refused, atStop>>
    BY <1>2 DEF SubmitPush, Fresh, clientVars
  <2>2. ctask[c] = NoTask
    BY <2>1 DEF PoolInv, BlockedInv
  <2>3. cpc' = [cpc EXCEPT ![c] = "idle"] /\ ctask' = [ctask EXCEPT ![c] = NoTask]
    BY <2>1, <2>2, <1>a
  <2> QED BY <2>1, <2>3, <1>a, PushStep
<1>3. ASSUME NEW t \in Tasks, SubmitBlock(c, t) PROVE PoolInv'
  <2>1. /\ cpc[c] = "idle" /\ t \notin accepted /\ \A b \in Clients : ctask[b] # t
        /\ cpc' = [cpc EXCEPT ![c] = "full"] /\ ctask' = [ctask EXCEPT ![c] = t]
        /\ UNCHANGED <<m_tasks, m_stopped, m_stopping, needed, workerVars,
                       process, ran, freed, accepted, refused, atStop>>
        /\ available' \subseteq Clients
    BY <1>3, <1>a DEF SubmitBlock, Fresh, history
  <2>2. BlockedInv'
    BY <2>1, <1>a, PoolAssumption DEF PoolInv, BlockedInv
  <2>3. StopInv'
    BY <2>1, <1>a, PoolAssumption DEF PoolInv, StopInv, InQueue, workerVars
  <2>4. cpc' \in [Clients -> ClientPC] /\ ctask' \in [Clients -> Tasks \union {NoTask}]
    BY <2>1, <1>a DEF ClientPC
  <2> QED BY <2>1, <2>2, <2>3, <2>4, <1>a, OutsideStep
<1>4. CASE SubmitResume(c)
  <2>1. /\ cpc[c] = "full" /\ ctask[c] \in Tasks /\ ctask[c] \notin accepted
        /\ \A b \in Clients : b # c => ctask[b] # ctask[c]
    BY <1>4, <1>a DEF SubmitResume, PoolInv, BlockedInv
  <2>2. CASE Full
    <3>1. UNCHANGED <<m_tasks, m_stopped, m_stopping, needed, workerVars, cpc, ctask,
                      process, ran, freed, accepted, refused, atStop>>
          /\ available' \subseteq Clients
      BY <1>4, <2>2, <1>a DEF SubmitResume
    <3>2. BlockedInv' /\ StopInv'
      BY <3>1 DEF PoolInv, BlockedInv, StopInv, InQueue, workerVars
    <3> QED BY <3>1, <3>2, <1>a, OutsideStep
  <2>3. CASE ~Full
    <3>1. /\ Push(ctask[c]) /\ UNCHANGED available
          /\ cpc' = [cpc EXCEPT ![c] = "idle"] /\ ctask' = [ctask EXCEPT ![c] = NoTask]
          /\ UNCHANGED <<m_stopped, m_stopping, workerVars, process, ran, freed,
                         refused, atStop>>
      BY <1>4, <2>3 DEF SubmitResume
    <3> QED BY <2>1, <3>1, <1>a, PushStep
  <2> QED BY <2>2, <2>3
<1> QED BY <1>1, <1>2, <1>3, <1>4 DEF Call

\* Every step of Stop and of the destructor preserves the invariant.
LEMMA StopSteps ==
  ASSUME PoolInv, Stop \/ \E p \in StopModes : StopBegin(p)
  PROVE  PoolInv'
<1>a. /\ cpc \in [Clients -> ClientPC] /\ ctask \in [Clients -> Tasks \union {NoTask}]
      /\ available \subseteq Clients /\ refused \subseteq Tasks
      /\ accepted \subseteq Tasks /\ freed \subseteq Tasks /\ atStop \subseteq Tasks
      /\ needed \subseteq Workers /\ Owner \in Clients /\ StopModes \subseteq BOOLEAN
      /\ m_stopped \in BOOLEAN /\ m_stopping \in BOOLEAN /\ process \in BOOLEAN
      /\ \A u \in freed : ran[u] = 1
  BY PoolAssumption DEF PoolInv, TypeOK, DoneInv
<1>b. /\ UNCHANGED <<m_tasks, workerVars, ctask, ran, freed, accepted, refused>>
      /\ needed' \subseteq Workers /\ available' \subseteq Clients
      /\ process' \in BOOLEAN /\ atStop' \subseteq Tasks
      /\ m_stopped' \in BOOLEAN /\ m_stopping' \in BOOLEAN
  BY <1>a DEF Stop, StopBegin, StopDrain, StopShut, StopWake, StopJoin, Destroy, history
<1>c. PICK pc \in ClientPC \ {"full"} :
        cpc' = [cpc EXCEPT ![Owner] = pc] /\ cpc[Owner] # "full"
  BY <1>a DEF Stop, StopBegin, StopDrain, StopShut, StopWake, StopJoin, Destroy, ClientPC
<1>1. cpc' \in [Clients -> ClientPC]
  BY <1>a, <1>c
<1>2. BlockedInv'
  BY <1>a, <1>b, <1>c DEF PoolInv, BlockedInv
<1>3. StopInv'
  <2>1. ASSUME NEW p \in StopModes, StopBegin(p) PROVE StopInv'
    BY <2>1, <1>a DEF StopBegin, PoolInv, StopInv
  <2>2. CASE StopDrain
    BY <2>2, <1>a DEF StopDrain, PoolInv, StopInv, InQueue, history, workerVars
  <2>3. CASE StopShut
    BY <2>3, <1>a DEF StopShut, PoolInv, StopInv, InQueue, history, workerVars
  <2>4. CASE StopWake
    BY <2>4, <1>a DEF StopWake, PoolInv, StopInv, InQueue, history, workerVars
  <2>5. CASE StopJoin
    BY <2>5, <1>a DEF StopJoin, PoolInv, StopInv, InQueue, history, workerVars
  <2>6. CASE Destroy
    BY <2>6, <1>a DEF Destroy, PoolInv, StopInv, InQueue, history, workerVars
  <2> QED BY <2>1, <2>2, <2>3, <2>4, <2>5, <2>6 DEF Stop
<1> QED BY <1>1, <1>2, <1>3, <1>a, <1>b, OutsideStep

\* A client's delete, a spurious wake-up and stuttering preserve the invariant.
LEMMA SurroundingSteps ==
  ASSUME PoolInv, (\E t \in Tasks : FreeTask(t)) \/ SpuriousWake \/ UNCHANGED vars
  PROVE  PoolInv'
<1>a. /\ cpc \in [Clients -> ClientPC] /\ ctask \in [Clients -> Tasks \union {NoTask}]
      /\ available \subseteq Clients /\ refused \subseteq Tasks
      /\ accepted \subseteq Tasks /\ freed \subseteq Tasks /\ atStop \subseteq Tasks
      /\ needed \subseteq Workers
      /\ m_stopped \in BOOLEAN /\ m_stopping \in BOOLEAN /\ process \in BOOLEAN
      /\ \A u \in freed : ran[u] = 1
      /\ \A u \in Tasks : ran[u] \in {0, 1}
  BY DEF PoolInv, TypeOK, DoneInv
<1>1. UNCHANGED <<m_tasks, m_stopped, m_stopping, workerVars, cpc, ctask, process,
                  ran, accepted, refused, atStop>>
  BY DEF FreeTask, SpuriousWake, vars, clientVars, history
<1>2. needed' \subseteq Workers /\ available' \subseteq Clients
  BY <1>a DEF FreeTask, SpuriousWake, vars
<1>3. freed' \subseteq Tasks /\ \A u \in freed' : ran[u] = 1 /\ (u \in SelfDelete => u \in freed)
  BY <1>a DEF FreeTask, SpuriousWake, vars
<1>4. BlockedInv' /\ StopInv'
  BY <1>1 DEF PoolInv, BlockedInv, StopInv, InQueue, workerVars
<1> QED BY <1>a, <1>1, <1>2, <1>3, <1>4, OutsideStep

LEMMA PoolNext == PoolInv /\ [Next]_vars => PoolInv'
<1> SUFFICES ASSUME PoolInv, [Next]_vars PROVE PoolInv'
  OBVIOUS
<1>1. ASSUME NEW w \in Workers, Worker(w) PROVE PoolInv'
  BY <1>1, WorkerStep, TakeStep, RunStep, FinishStep DEF Worker
<1>2. ASSUME NEW c \in Clients, Call(c) \/ SubmitResume(c) PROVE PoolInv'
  BY <1>2, SubmitSteps
<1>3. CASE Stop \/ \E p \in StopModes : StopBegin(p)
  BY <1>3, StopSteps
<1>4. CASE (\E t \in Tasks : FreeTask(t)) \/ SpuriousWake \/ UNCHANGED vars
  BY <1>4, SurroundingSteps
<1> QED BY <1>1, <1>2, <1>3, <1>4 DEF Next, Terminated

\* The inductive invariant holds in every reachable state of the pool.
THEOREM PoolInvariant == Spec => []PoolInv
BY PoolInit, PoolNext, PTL DEF Spec

\* Stop(true) returns only after every task accepted before it was run, once.
THEOREM StopDrains == Spec => []DrainedAtStop
<1>1. PoolInv => DrainedAtStop
  <2> SUFFICES ASSUME PoolInv, cpc[Owner] \in {"stopped", "destroyed"}, process,
                      NEW t \in atStop
               PROVE  ran[t] = 1
    BY DEF DrainedAtStop
  <2>1. t \in Tasks /\ t \in accepted /\ ~InQueue(t)
    BY DEF PoolInv, TypeOK, StopInv
  <2>2. \A w \in Workers : wtask[w] # t
    BY <2>1, PoolAssumption DEF PoolInv, HeldInv, StopInv, Holding
  <2> QED BY <2>1, <2>2 DEF PoolInv, DoneInv
<1> QED BY <1>1, PoolInvariant, PTL

\* No worker reads, runs or deletes a task that was deleted before.
THEOREM TasksAlive == Spec => []NoUseAfterFree
<1>1. PoolInv => NoUseAfterFree
  BY DEF PoolInv, HeldInv, DoneInv, NoUseAfterFree, TypeOK, Holding
<1> QED BY <1>1, PoolInvariant, PTL

\* While a task is pending not every worker is asleep.
THEOREM NoLostWakeup == Spec => []SomeoneAwake
<1>1. Init => SomeoneAwake
  BY DEF Init, SomeoneAwake
<1>2. SomeoneAwake /\ PoolInv /\ [Next]_vars => SomeoneAwake'
  <2> SUFFICES ASSUME SomeoneAwake, PoolInv, [Next]_vars,
                      m_tasks' # <<>>, ~m_stopped', Workers # {}
               PROVE  needed' # Workers
    BY DEF SomeoneAwake
  <2>1. ASSUME NEW w \in Workers, Worker(w) PROVE needed' # Workers
    <3>1. CASE TakeJob(w)
      BY <3>1 DEF TakeJob, SomeoneAwake
    <3> QED BY <2>1, <3>1 DEF Worker, WaitForJob, FindNoJob, ReadDel, RunTask,
               FinishTask, Announce, LoopAgain, LoopExit, SomeoneAwake
  <2>2. ASSUME NEW c \in Clients, Call(c) \/ SubmitResume(c) PROVE needed' # Workers
    BY <2>2 DEF Call, SubmitThrow, SubmitPush, SubmitBlock, SubmitResume, Push, SomeoneAwake
  <2>3. CASE Stop \/ \E p \in StopModes : StopBegin(p)
    BY <2>3 DEF Stop, StopBegin, StopDrain, StopShut, StopWake, StopJoin, Destroy, SomeoneAwake
  <2>4. CASE (\E t \in Tasks : FreeTask(t)) \/ SpuriousWake \/ UNCHANGED vars
    BY <2>4 DEF FreeTask, SpuriousWake, vars, SomeoneAwake, PoolInv, TypeOK
  <2> QED BY <2>1, <2>2, <2>3, <2>4 DEF Next, Terminated
<1> QED BY <1>1, <1>2, PoolInvariant, PTL DEF Spec
=============================================================================
