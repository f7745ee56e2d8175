--------------------------- MODULE MosesMainProofs ---------------------------
(***************************************************************************)
(* The output collector, for any number of texts and any order of the      *)
(* calls (the theorems are about CollectorCalls), and the decoder as a     *)
(* whole, for any number of threads, sentences and output streams: what    *)
(* the proofs about the pool and about one collector give together.        *)
(***************************************************************************)
EXTENDS MosesMain, CollectorCalls, WellFoundedInduction, TLAPS

-----------------------------------------------------------------------------
(* One collector, whatever the order of the calls                           *)

\* The ids of n sentences.
FirstIds(n) == 0..(n - 1)

\* Every non-empty set of natural numbers has a least element.
LEMMA LeastNatural ==
  ASSUME NEW T \in SUBSET Nat, T # {}
  PROVE  \E m \in T : \A k \in T : m <= k
<1> DEFINE R == {ss \in Nat \X Nat : ss[1] < ss[2]}
<1>1. IsWellFoundedOn(R, Nat)
  BY NatLessThanWellFounded DEF OpToRel
<1> HIDE DEF R
<1>2. PICK m \in T : \A k \in T : ~(<<k, m>> \in R)
  BY <1>1, WFMin, Zenon
<1>3. \A k \in T : ~(k < m)
  BY <1>2 DEF R
<1> QED BY <1>3

\* The loop of Write ends: after id there is a last id of the gapless held run.
LEMMA RunEnds ==
  ASSUME NEW n \in Nat, NEW c, c.held \subseteq FirstIds(n), NEW id \in FirstIds(n)
  PROVE  /\ LastOfRun(c, id) \in Nat /\ LastOfRun(c, id) \in FirstIds(n)
         /\ LastOfRun(c, id) >= id
         /\ (id + 1)..LastOfRun(c, id) \subseteq c.held
         /\ LastOfRun(c, id) + 1 \notin c.held
<1> USE DEF FirstIds
<1> DEFINE T == {m \in Nat : m > id /\ m \notin c.held}
<1>1. n + id + 1 \in T
  OBVIOUS
<1>2. PICK m \in T : \A k \in T : m <= k
  <2> HIDE DEF T
  <2>1. T \subseteq Nat /\ T # {}
    BY <1>1 DEF T
  <2> QED BY <2>1, LeastNatural
<1>3. /\ m - 1 \in {id} \union c.held
      /\ m - 1 >= id
      /\ (id + 1)..(m - 1) \subseteq c.held
      /\ (m - 1) + 1 \notin c.held
  <2>1. \A k \in (id + 1)..(m - 1) : k \in c.held
    BY <1>2
  <2>2. m - 1 = id \/ m - 1 \in (id + 1)..(m - 1)
    BY <1>2
  <2> QED BY <2>1, <2>2, <1>2
<1>4. \E l \in {id} \union c.held :
        l >= id /\ (id + 1)..l \subseteq c.held /\ l + 1 \notin c.held
  BY <1>3
<1>5. /\ LastOfRun(c, id) \in {id} \union c.held
      /\ LastOfRun(c, id) >= id
      /\ (id + 1)..LastOfRun(c, id) \subseteq c.held
      /\ LastOfRun(c, id) + 1 \notin c.held
  BY <1>4 DEF LastOfRun
<1> QED BY <1>5

\* The collector c after the calls with the ids of W.
Sound(n, c, W) ==
  /\ c \in [next : Nat, held : SUBSET FirstIds(n), out : Seq(FirstIds(n))]
  /\ W \subseteq FirstIds(n)
  /\ Len(c.out) = c.next /\ \A k \in 1..Len(c.out) : c.out[k] = k - 1
  /\ c.next \notin W
  /\ W = (0..(c.next - 1)) \union c.held
  /\ \A i \in c.held : i > c.next

\* Nothing was written yet.
LEMMA EmptySound == ASSUME NEW n \in Nat PROVE Sound(n, EmptyCollector, {})
<1>1. EmptyCollector = [next |-> 0, held |-> {}, out |-> <<>>]
  BY DEF EmptyCollector
<1>2. EmptyCollector \in [next : Nat, held : SUBSET FirstIds(n), out : Seq(FirstIds(n))]
  BY <1>1
<1> QED BY <1>1, <1>2 DEF Sound

\* The call that the stream was waiting for prints its text and the run after it.
LEMMA WriteExpected ==
  ASSUME NEW n \in Nat, NEW c, NEW W, Sound(n, c, W), c.next \in FirstIds(n)
  PROVE  /\ Sound(n, Written(c, c.next), W \union {c.next})
         /\ Written(c, c.next).next > c.next
<1>0. PICK id \in FirstIds(n) : id = c.next
  OBVIOUS
<1> DEFINE last == LastOfRun(c, id)
<1> DEFINE run == [k \in 1..(last - id + 1) |-> id + k - 1]
<1>a. /\ c.next \in Nat /\ c.held \subseteq FirstIds(n) /\ c.out \in Seq(FirstIds(n))
      /\ W \subseteq FirstIds(n)
      /\ Len(c.out) = id /\ \A k \in 1..id : c.out[k] = k - 1
      /\ W = (0..(id - 1)) \union c.held
      /\ \A i \in c.held : i > id
  BY <1>0 DEF Sound
<1>b. /\ last \in Nat /\ last \in FirstIds(n) /\ last >= id
      /\ (id + 1)..last \subseteq c.held /\ last + 1 \notin c.held
  BY <1>a, RunEnds
<1>c. Written(c, id) = [next |-> last + 1, held |-> c.held \ ((id + 1)..last),
                        out |-> c.out \o run]
  BY <1>0 DEF Written
<1> HIDE DEF last
<1>d. id \in Nat /\ FirstIds(n) \subseteq Nat /\ \A i \in FirstIds(n) : \A j \in 0..i : j \in FirstIds(n)
  BY DEF FirstIds
<1>e. /\ run \in Seq(FirstIds(n)) /\ Len(run) = last - id + 1
      /\ \A k \in 1..Len(run) : run[k] = id + k - 1
  <2>1. last - id + 1 \in Nat
    BY <1>b, <1>d
  <2>2. \A k \in 1..(last - id + 1) : id + k - 1 \in FirstIds(n)
    BY <1>b, <1>d
  <2> QED BY <2>1, <2>2
<1> HIDE DEF run
<1>f. /\ c.out \o run \in Seq(FirstIds(n))
      /\ Len(c.out \o run) = last + 1
      /\ \A k \in 1..(last + 1) : (c.out \o run)[k] = k - 1
  <2>1. PICK out : out = c.out
    OBVIOUS
  <2>2. /\ out \in Seq(FirstIds(n)) /\ run \in Seq(FirstIds(n)) /\ id \in Nat /\ last \in Nat /\ last >= id
        /\ Len(out) = id /\ \A k \in 1..id : out[k] = k - 1
        /\ Len(run) = last - id + 1 /\ \A k \in 1..Len(run) : run[k] = id + k - 1
    BY <1>a, <1>b, <1>d, <1>e, <2>1
  <2>3. /\ out \o run \in Seq(FirstIds(n)) /\ Len(out \o run) = last + 1
        /\ \A k \in 1..(last + 1) : (out \o run)[k] = k - 1
    <3>1. out \o run \in Seq(FirstIds(n)) /\ Len(out \o run) = last + 1
      BY <2>2
    <3>2. ASSUME NEW k \in 1..(last + 1) PROVE (out \o run)[k] = k - 1
      <4>1. CASE k <= id
        BY <4>1, <2>2
      <4>2. CASE k > id
        <5>1. k - id \in 1..Len(run)
          BY <4>2, <2>2
        <5>2. (out \o run)[k] = run[k - id]
          BY <4>2, <2>2
        <5> QED BY <5>1, <5>2, <2>2
      <4> QED BY <4>1, <4>2, <2>2
    <3> QED BY <3>1, <3>2
  <2> QED BY <2>1, <2>3
<1>1. Written(c, id) \in [next : Nat, held : SUBSET FirstIds(n), out : Seq(FirstIds(n))]
  BY <1>a, <1>b, <1>c, <1>f
<1>2. \A i \in c.held \ ((id + 1)..last) : i > last + 1
  <2> TAKE i \in c.held \ ((id + 1)..last)
  <2>1. i \in Nat /\ i > id /\ i # last + 1
    BY <1>a, <1>b, <1>d
  <2> QED BY <2>1, <1>b, <1>d
<1>3. W \union {id} = (0..last) \union (c.held \ ((id + 1)..last))
  <2>1. 0..last = (0..(id - 1)) \union {id} \union ((id + 1)..last)
    BY <1>b, <1>d
  <2> QED BY <2>1, <1>a, <1>b
<1>4. last + 1 \notin W \union {id}
  BY <1>2, <1>3, <1>b
<1> QED BY <1>0, <1>a, <1>b, <1>c, <1>d, <1>f, <1>1, <1>2, <1>3, <1>4 DEF Sound

\* A call that comes early only saves its text.
LEMMA WriteEarly ==
  ASSUME NEW n \in Nat, NEW c, NEW W, Sound(n, c, W), NEW id \in FirstIds(n), id \notin W, id # c.next
  PROVE  /\ Sound(n, Written(c, id), W \union {id})
         /\ Written(c, id).out = c.out
<1>1. /\ c \in [next : Nat, held : SUBSET FirstIds(n), out : Seq(FirstIds(n))]
      /\ Written(c, id) = [c EXCEPT !.held = @ \union {id}]
  BY DEF Sound, Written
<1>2. /\ Written(c, id).next = c.next /\ Written(c, id).out = c.out
      /\ Written(c, id).held = c.held \union {id}
      /\ Written(c, id) \in [next : Nat, held : SUBSET FirstIds(n), out : Seq(FirstIds(n))]
  BY <1>1
<1>3. id > c.next
  BY <1>1 DEF Sound, FirstIds
<1> QED BY <1>1, <1>2, <1>3 DEF Sound

\* CollectorInv is Sound.
LEMMA SoundIsInv == CollectorInv <=> Sound(Count, col, written)
  BY DEF Sound, FirstIds, CollectorInv, CallsTypeOK, InOrder, NothingHeldBack, CallIds

\* CollectorInv: whatever the order of the calls, the stream is 0, 1, 2... and nothing that could
\* be printed is held.
THEOREM CollectorInvariant == CallsSpec => []CollectorInv
<1>1. CallsInit => CollectorInv
  BY EmptySound, SoundIsInv, CountAssumption DEF CallsInit
<1>2. CollectorInv /\ [CallsNext]_callVars => CollectorInv'
  <2> SUFFICES ASSUME CollectorInv, [CallsNext]_callVars PROVE CollectorInv'
    OBVIOUS
  <2>1. ASSUME NEW id \in CallIds, Write(id) PROVE CollectorInv'
    <3>1. /\ id \notin written /\ col' = Written(col, id)
          /\ written' = written \union {id} /\ id \in FirstIds(Count)
      BY <2>1 DEF Write, CallIds, FirstIds
    <3>2. Sound(Count, Written(col, id), written \union {id})
      BY <3>1, SoundIsInv, WriteExpected, WriteEarly, CountAssumption
    <3> QED BY <3>1, <3>2 DEF Sound, FirstIds, CollectorInv, CallsTypeOK, InOrder,
                                NothingHeldBack, CallIds
  <2>2. CASE UNCHANGED callVars
    BY <2>2 DEF callVars, CollectorInv, CallsTypeOK, InOrder, NothingHeldBack
  <2> QED BY <2>1, <2>2 DEF CallsNext, AllWritten
<1> QED BY <1>1, <1>2, PTL DEF CallsSpec

\* Complete: when every sentence has been written, every sentence has been printed.
THEOREM CollectorComplete == CallsSpec => []Complete
<1>1. CollectorInv => Complete
  <2> SUFFICES ASSUME CollectorInv, written = CallIds
               PROVE  Len(col.out) = Count /\ col.held = {}
    BY DEF Complete
  <2>1. /\ col.next \in Nat /\ col.next \notin 0..(Count - 1)
        /\ 0..(Count - 1) = (0..(col.next - 1)) \union col.held
        /\ \A i \in col.held : i > col.next
        /\ col.held \subseteq 0..(Count - 1) /\ Len(col.out) = col.next
    BY DEF CollectorInv, CallsTypeOK, InOrder, NothingHeldBack, CallIds
  <2>2. col.next >= Count
    BY <2>1, CountAssumption
  <2>3. col.held = {}
    BY <2>1, <2>2, CountAssumption
  <2>4. col.next = Count
    <3>1. col.next = 0 \/ col.next - 1 \in 0..(Count - 1)
      BY <2>1
    <3> QED BY <2>2, <3>1, CountAssumption, <2>1
  <2> QED BY <2>1, <2>3, <2>4
<1> QED BY <1>1, CollectorInvariant, PTL

-----------------------------------------------------------------------------
(* The collectors and the pool of the program                              *)

P == INSTANCE ThreadPoolProofs
  WITH Clients <- {Main}, Owner <- Main, Tasks <- Ids, SelfDelete <- Ids,
       QueueLimit <- 0, StopModes <- {TRUE}

\* The sentences whose output stream k has been given: those that were run, and those whose
\* worker is past the handler of the stream; less those the handler leaves out.
Given(k) ==
  {id \in Ids \ Skipped(k) :
     ran[id] = 1 \/ \E w \in Workers : wtask[w] = id /\ wpc[w] = "run" /\ step[w] >= k}

Out(k) == INSTANCE InOrderOutput
  WITH Count <- Expected(k), emitted <- cols[Streams[k]].out

-----------------------------------------------------------------------------
(* The steps of the program are steps of the pool                          *)

LEMMA PoolAssumed == P!PoolAssumption
  BY MainAssumption DEF P!PoolAssumption

LEMMA StepsOfPool == ASSUME [Next]_vars PROVE [P!Next]_(P!vars)
<1> USE DEF P!vars, P!workerVars, P!clientVars, P!history,
        Pool!workerVars, Pool!clientVars, Pool!history
<1>1. CASE SubmitNext
  <2>1. lineCount \in Ids /\ P!SubmitPush(Main, lineCount)
    BY <1>1 DEF SubmitNext, Pool!SubmitPush, P!SubmitPush, Pool!Fresh, P!Fresh, Pool!Full,
            P!Full, Pool!Push, P!Push
  <2> QED BY <2>1 DEF P!Next, P!Call
<1>2. CASE StopPool
  <2>1. P!StopBegin(TRUE)
    BY <1>2 DEF StopPool, Pool!StopBegin, P!StopBegin
  <2> QED BY <2>1 DEF P!Next
<1>3. CASE GoOnStopping
  <2>1. P!StopDrain \/ P!StopShut \/ P!StopWake \/ P!StopJoin
    BY <1>3 DEF GoOnStopping, Pool!StopDrain, P!StopDrain, Pool!StopShut, P!StopShut,
            Pool!StopWake, P!StopWake, Pool!StopJoin, P!StopJoin
  <2> QED BY <2>1 DEF P!Next, P!Stop
<1>4. CASE DestroyPool
  <2>1. P!Destroy
    BY <1>4 DEF DestroyPool, Pool!Destroy, P!Destroy
  <2> QED BY <2>1 DEF P!Next, P!Stop
<1>5. ASSUME NEW w \in Workers, Return(w) PROVE P!Next
  <2>1. P!RunTask(w)
    BY <1>5 DEF Return, Pool!RunTask, P!RunTask
  <2> QED BY <2>1 DEF P!Next, P!Worker
<1>6. ASSUME NEW w \in Workers, Execute(w) PROVE P!Next
  <2>1. P!Worker(w)
    BY <1>6 DEF Execute, P!Worker, Pool!WaitForJob, P!WaitForJob, Pool!TakeJob, P!TakeJob,
            Pool!FindNoJob, P!FindNoJob, Pool!PastWait, P!PastWait, Pool!ReadDel, P!ReadDel,
            Pool!FinishTask, P!FinishTask, Pool!Announce, P!Announce,
            Pool!LoopAgain, P!LoopAgain, Pool!LoopExit, P!LoopExit
  <2> QED BY <2>1 DEF P!Next
<1>7. CASE Wakeup
  <2>1. P!SpuriousWake
    BY <1>7 DEF Wakeup, Pool!SpuriousWake, P!SpuriousWake
  <2> QED BY <2>1 DEF P!Next
<1>8. CASE UNCHANGED poolVars
  BY <1>8 DEF poolVars
<1>9. CASE CloseStreams \/ (\E w \in Workers : Output(w)) \/ UNCHANGED vars
  BY <1>9, <1>8 DEF CloseStreams, Output, vars
<1> QED BY <1>1, <1>2, <1>3, <1>4, <1>5, <1>6, <1>7, <1>9 DEF Next, MainThread, Worker

LEMMA PoolKept == P!PoolInv /\ [Next]_vars => P!PoolInv'
<1> SUFFICES ASSUME P!PoolInv, [Next]_vars PROVE P!PoolInv'
  OBVIOUS
<1>1. [P!Next]_(P!vars)
  BY StepsOfPool
<1> QED BY <1>1, PoolAssumed, P!PoolNext, Zenon

LEMMA PoolStarts == Init => P!PoolInv
<1>1. Init => P!Init
  BY DEF Init, Pool!Init, P!Init
<1> QED BY <1>1, PoolAssumed, P!PoolInit, Zenon

-----------------------------------------------------------------------------
(* The main thread, the queue and the workers                              *)

\* The sentences up to the current one were submitted, and the last of them are queued.
Queued ==
  /\ lineCount \in FirstId..(FirstId + NumSentences)
  /\ accepted = FirstId..(lineCount - 1)
  /\ \A i \in 1..Len(m_tasks) : m_tasks[i] = lineCount - Len(m_tasks) + i - 1

\* The pool is stopped after the last sentence, and the streams are closed after that.
Ended ==
  /\ cpc[Main] # "idle" => lineCount \notin Ids /\ process /\ atStop = Ids
  /\ closed \in BOOLEAN
  /\ closed => cpc[Main] \in {"stopped", "destroyed"}

\* A worker has written something of its task only while it runs it.
Stepping ==
  /\ step \in [Workers -> 0..Len(Streams)]
  /\ \A w \in Workers : step[w] # 0 => wpc[w] = "run"

LEMMA StreamsAre == Len(Streams) \in Nat /\ DOMAIN Streams = 1..Len(Streams)
  BY MainAssumption

\* What a step does to the queue.
LEMMA QueueEffect ==
  ASSUME [Next]_vars
  PROVE  \/ /\ lineCount \in Ids /\ cpc[Main] = "idle" /\ lineCount' = lineCount + 1
            /\ m_tasks' = Append(m_tasks, lineCount) /\ accepted' = accepted \union {lineCount}
         \/ m_tasks # <<>> /\ m_tasks' = Tail(m_tasks) /\ UNCHANGED <<lineCount, accepted>>
         \/ UNCHANGED <<m_tasks, lineCount, accepted>>
<1>1. CASE SubmitNext
  BY <1>1 DEF SubmitNext, Pool!SubmitPush, Pool!Push
<1>2. CASE StopPool \/ GoOnStopping \/ CloseStreams \/ DestroyPool
  BY <1>2 DEF StopPool, GoOnStopping, CloseStreams, DestroyPool, Pool!StopBegin, Pool!StopDrain,
          Pool!StopShut, Pool!StopWake, Pool!StopJoin, Pool!Destroy, Pool!history, poolVars
<1>3. ASSUME NEW w \in Workers, Output(w) \/ Return(w)
      PROVE  UNCHANGED <<m_tasks, lineCount, accepted>>
  BY <1>3 DEF Output, Return, Pool!RunTask, Pool!history, poolVars
<1>4. ASSUME NEW w \in Workers, Execute(w)
      PROVE  \/ m_tasks # <<>> /\ m_tasks' = Tail(m_tasks) /\ UNCHANGED <<lineCount, accepted>>
             \/ UNCHANGED <<m_tasks, lineCount, accepted>>
  BY <1>4 DEF Execute, Pool!WaitForJob, Pool!TakeJob, Pool!FindNoJob, Pool!ReadDel,
          Pool!FinishTask, Pool!Announce, Pool!LoopAgain, Pool!LoopExit, Pool!history
<1>5. CASE Wakeup \/ UNCHANGED vars
  BY <1>5 DEF Wakeup, Pool!SpuriousWake, Pool!history, vars, poolVars
<1> QED BY <1>1, <1>2, <1>3, <1>4, <1>5 DEF Next, MainThread, Worker

LEMMA QueuedKept == ASSUME Queued, P!PoolInv, [Next]_vars PROVE Queued'
<1>1. m_tasks \in Seq(Ids)
  BY DEF P!PoolInv, P!TypeOK
<1>2. FirstId \in Nat /\ NumSentences \in Nat /\ lineCount \in Nat
  BY MainAssumption DEF Queued
<1>3. CASE lineCount \in Ids /\ lineCount' = lineCount + 1
           /\ m_tasks' = Append(m_tasks, lineCount) /\ accepted' = accepted \union {lineCount}
  <2>1. lineCount' \in FirstId..(FirstId + NumSentences)
    BY <1>2, <1>3 DEF Ids
  <2>2. accepted' = FirstId..(lineCount' - 1)
    BY <1>2, <1>3 DEF Ids, Queued
  <2>3. Len(m_tasks') = Len(m_tasks) + 1 /\ Len(m_tasks) \in Nat
        /\ m_tasks'[Len(m_tasks) + 1] = lineCount
        /\ \A i \in 1..Len(m_tasks) : m_tasks'[i] = m_tasks[i]
    BY <1>1, <1>3
  <2>4. \A i \in 1..Len(m_tasks') : m_tasks'[i] = lineCount' - Len(m_tasks') + i - 1
    BY <1>2, <1>3, <2>3 DEF Queued
  <2> QED BY <2>1, <2>2, <2>4 DEF Queued
<1>4. CASE m_tasks # <<>> /\ m_tasks' = Tail(m_tasks) /\ UNCHANGED <<lineCount, accepted>>
  <2>1. /\ Len(m_tasks) \in Nat /\ Len(m_tasks') = Len(m_tasks) - 1
        /\ \A i \in 1..Len(m_tasks') : m_tasks'[i] = m_tasks[i + 1] /\ i + 1 \in 1..Len(m_tasks)
    BY <1>1, <1>4
  <2>2. \A i \in 1..Len(m_tasks') : m_tasks'[i] = lineCount - Len(m_tasks') + i - 1
    BY <1>2, <2>1 DEF Queued
  <2> QED BY <1>4, <2>2 DEF Queued
<1>5. CASE UNCHANGED <<m_tasks, lineCount, accepted>>
  BY <1>5 DEF Queued
<1> QED BY <1>3, <1>4, <1>5, QueueEffect

LEMMA EndedKept == ASSUME Ended, Queued, P!PoolInv, [Next]_vars PROVE Ended'
<1>1. cpc \in [{Main} -> P!ClientPC]
  BY DEF P!PoolInv, P!TypeOK
<1>2. CASE SubmitNext
  BY <1>2 DEF SubmitNext, Pool!SubmitPush, Pool!clientVars, Ended
<1>3. CASE StopPool
  <2>1. /\ lineCount \notin Ids /\ lineCount' = lineCount /\ closed' = closed
        /\ process' /\ atStop' = accepted /\ cpc' = [cpc EXCEPT ![Main] = "drain"]
        /\ cpc[Main] = "idle"
    BY <1>3 DEF StopPool, Pool!StopBegin
  <2>2. accepted = Ids
    BY <2>1, MainAssumption DEF Queued, Ids
  <2> QED BY <2>1, <2>2, <1>1 DEF Ended
<1>4. CASE GoOnStopping
  <2>1. /\ UNCHANGED <<lineCount, closed, process, atStop>>
        /\ cpc[Main] \notin {"idle", "stopped", "destroyed"}
    BY <1>4 DEF GoOnStopping, Pool!StopDrain, Pool!StopShut, Pool!StopWake, Pool!StopJoin,
            Pool!history
  <2> QED BY <2>1 DEF Ended
<1>5. CASE CloseStreams
  BY <1>5 DEF CloseStreams, Ended, poolVars
<1>6. CASE DestroyPool
  BY <1>6, <1>1 DEF DestroyPool, Pool!Destroy, Ended, Pool!history
<1>7. ASSUME NEW w \in Workers, Worker(w) PROVE Ended'
  <2>1. UNCHANGED <<lineCount, closed, process, atStop, cpc>>
    BY <1>7 DEF Worker, Output, Return, Execute, poolVars, Pool!RunTask, Pool!WaitForJob,
            Pool!TakeJob, Pool!FindNoJob, Pool!ReadDel, Pool!FinishTask, Pool!Announce,
            Pool!LoopAgain, Pool!LoopExit, Pool!clientVars, Pool!history
  <2> QED BY <2>1 DEF Ended
<1>8. CASE Wakeup \/ UNCHANGED vars
  <2>1. UNCHANGED <<lineCount, closed, process, atStop, cpc>>
    BY <1>8 DEF Wakeup, Pool!SpuriousWake, Pool!clientVars, Pool!history, vars, poolVars
  <2> QED BY <2>1 DEF Ended
<1> QED BY <1>2, <1>3, <1>4, <1>5, <1>6, <1>7, <1>8 DEF Next, MainThread

LEMMA SteppingKept == ASSUME Stepping, P!PoolInv, [Next]_vars PROVE Stepping'
<1>1. wpc \in [Workers -> P!WorkerPC]
  BY DEF P!PoolInv, P!TypeOK
<1>2. Len(Streams) \in Nat
  BY StreamsAre
<1>3. CASE MainThread \/ Wakeup \/ UNCHANGED vars
  <2>1. UNCHANGED <<step, wpc>>
    BY <1>3 DEF MainThread, SubmitNext, StopPool, GoOnStopping, CloseStreams, DestroyPool,
            Wakeup, vars, poolVars, Pool!SubmitPush, Pool!StopBegin, Pool!StopDrain,
            Pool!StopShut, Pool!StopWake, Pool!StopJoin, Pool!Destroy, Pool!SpuriousWake,
            Pool!workerVars
  <2> QED BY <2>1 DEF Stepping
<1>4. ASSUME NEW w \in Workers, Output(w) PROVE Stepping'
  <2>1. /\ wpc[w] = "run" /\ step[w] < Len(Streams) /\ wpc' = wpc
        /\ step' = [step EXCEPT ![w] = @ + 1]
    BY <1>4 DEF Output, poolVars
  <2> QED BY <2>1, <1>2 DEF Stepping
<1>5. ASSUME NEW w \in Workers, Return(w) PROVE Stepping'
  <2>1. wpc' = [wpc EXCEPT ![w] = "finish"] /\ step' = [step EXCEPT ![w] = 0]
    BY <1>5 DEF Return, Pool!RunTask
  <2> QED BY <2>1, <1>1, <1>2 DEF Stepping
<1>6. ASSUME NEW w \in Workers, Execute(w) PROVE Stepping'
  <2>1. /\ step' = step /\ wpc[w] # "run"
        /\ \A v \in Workers \ {w} : wpc'[v] = wpc[v]
    BY <1>6, <1>1 DEF Execute, Pool!WaitForJob,
            Pool!TakeJob, Pool!FindNoJob, Pool!PastWait, Pool!ReadDel, Pool!FinishTask,
            Pool!Announce, Pool!LoopAgain, Pool!LoopExit
  <2> QED BY <2>1 DEF Stepping
<1> QED BY <1>3, <1>4, <1>5, <1>6 DEF Next, Worker

-----------------------------------------------------------------------------
(* The output streams                                                      *)

\* Every collector is as after the calls with what its stream was given.
Outputs ==
  /\ cols = [s \in Range(Streams) |-> cols[s]]
  /\ \A k \in 1..Len(Streams) : Sound(NumSentences, cols[Streams[k]], Given(k))

LEMMA CountIs == NumSentences \in Nat
  BY MainAssumption

LEMMA IdsOfStream == FirstId = 0 => FirstIds(NumSentences) = Ids
  BY MainAssumption DEF FirstIds, Ids

\* What a worker has in hand.
LEMMA InHand ==
  ASSUME P!PoolInv, NEW w \in Workers, wpc[w] \in {"execute", "run"}
  PROVE  /\ wtask[w] \in Ids /\ wtask[w] \in accepted /\ ran[wtask[w]] = 0
         /\ \A v \in Workers : wtask[v] = wtask[w] => v = w
  BY PoolAssumed DEF P!PoolAssumption, P!PoolInv, P!TypeOK, P!HeldInv, P!Holding

\* Run has called every handler when it returns, so that only Output gives something.
LEMMA GivenSame ==
  ASSUME Stepping, P!PoolInv, [Next]_vars, \A w \in Workers : ~Output(w),
         NEW k \in 1..Len(Streams)
  PROVE  Given(k)' = Given(k) /\ cols' = cols
<1>1. /\ wpc \in [Workers -> P!WorkerPC] /\ wtask \in [Workers -> Ids \union {NoTask}]
      /\ ran \in [Ids -> Nat] /\ step \in [Workers -> 0..Len(Streams)]
      /\ \A w \in Workers : step[w] # 0 => wpc[w] = "run"
  BY DEF P!PoolInv, P!TypeOK, Stepping
<1>2. CASE MainThread \/ Wakeup \/ UNCHANGED vars
  <2>1. UNCHANGED <<step, wpc, wtask, ran, cols>>
    BY <1>2 DEF MainThread, SubmitNext, StopPool, GoOnStopping, CloseStreams, DestroyPool,
            Wakeup, vars, poolVars, Pool!SubmitPush, Pool!StopBegin, Pool!StopDrain,
            Pool!StopShut, Pool!StopWake, Pool!StopJoin, Pool!Destroy, Pool!SpuriousWake,
            Pool!workerVars
  <2> QED BY <2>1 DEF Given
<1>3. ASSUME NEW w \in Workers, Return(w) PROVE Given(k)' = Given(k) /\ cols' = cols
  <2>1. /\ wpc[w] = "run" /\ step[w] = Len(Streams) /\ wpc' = [wpc EXCEPT ![w] = "finish"]
        /\ wtask' = wtask /\ ran' = [ran EXCEPT ![wtask[w]] = @ + 1] /\ cols' = cols
        /\ step' = [step EXCEPT ![w] = 0]
    BY <1>3 DEF Return, Pool!RunTask
  <2>2. /\ wtask[w] \in Ids /\ ran[wtask[w]] = 0
        /\ \A v \in Workers : wtask[v] = wtask[w] => v = w
    BY <2>1, InHand
  <2>3. ASSUME NEW id \in Ids
        PROVE  (ran[id] = 1 \/ \E v \in Workers : wtask[v] = id /\ wpc[v] = "run" /\ step[v] >= k)
               <=> (ran'[id] = 1 \/ \E v \in Workers : wtask'[v] = id /\ wpc'[v] = "run"
                                                         /\ step'[v] >= k)
    <3>1. CASE id = wtask[w]
      <4>1. ran'[id] = 1 /\ step[w] >= k
        BY <1>1, <2>1, <2>2, <3>1, StreamsAre
      <4> QED BY <2>1, <3>1, <4>1
    <3>2. CASE id # wtask[w]
      <4>1. /\ ran'[id] = ran[id]
            /\ \A v \in Workers \ {w} : wpc'[v] = wpc[v] /\ step'[v] = step[v]
        BY <1>1, <2>1, <3>2
      <4> QED BY <2>1, <3>2, <4>1
    <3> QED BY <3>1, <3>2
  <2> QED BY <2>1, <2>3 DEF Given
<1>4. ASSUME NEW w \in Workers, Execute(w) PROVE Given(k)' = Given(k) /\ cols' = cols
  <2>1. /\ UNCHANGED <<step, ran, cols>> /\ wpc[w] # "run"
        /\ \A v \in Workers \ {w} : wpc'[v] = wpc[v] /\ wtask'[v] = wtask[v]
    BY <1>4, <1>1 DEF Execute, Pool!WaitForJob, Pool!TakeJob, Pool!FindNoJob, Pool!PastWait,
            Pool!ReadDel, Pool!FinishTask, Pool!Announce, Pool!LoopAgain, Pool!LoopExit
  <2>2. step[w] = 0 /\ ~(step[w] >= k)
    BY <1>1, <2>1
  <2> QED BY <2>1, <2>2 DEF Given
<1> QED BY <1>2, <1>3, <1>4 DEF Next, Worker

\* A handler gives its stream the sentence in hand, unless it leaves it out, and the other
\* streams nothing.
LEMMA OutputGives ==
  ASSUME Stepping, P!PoolInv, NEW w \in Workers, Output(w)
  PROVE  \E n \in 1..Len(Streams) :
           /\ n = step[w] + 1
           /\ wtask[w] \in Ids /\ wtask[w] \notin Given(n)
           /\ Given(n)' = Given(n) \union ({wtask[w]} \ Skipped(n))
           /\ \A j \in 1..Len(Streams) : j # n => Given(j)' = Given(j)
<1>1. /\ wpc[w] = "run" /\ step[w] < Len(Streams) /\ step' = [step EXCEPT ![w] = @ + 1]
      /\ UNCHANGED <<wpc, wtask, ran>>
  BY DEF Output, poolVars
<1>2. step \in [Workers -> 0..Len(Streams)] /\ Len(Streams) \in Nat
  BY StreamsAre DEF Stepping
<1>3. /\ wtask[w] \in Ids /\ ran[wtask[w]] = 0
      /\ \A v \in Workers : wtask[v] = wtask[w] => v = w
  BY <1>1, InHand
<1>4. step[w] \in Nat /\ step'[w] = step[w] + 1 /\ \A v \in Workers \ {w} : step'[v] = step[v]
  BY <1>1, <1>2
<1>5. PICK n \in 1..Len(Streams) : n = step[w] + 1
  BY <1>1, <1>2, <1>4
<1>6. wtask[w] \notin Given(n)
  <2>1. ~(step[w] >= n)
    BY <1>4, <1>5
  <2> QED BY <1>3, <2>1 DEF Given
<1>7. ASSUME NEW j \in 1..Len(Streams), NEW v \in Workers
      PROVE  step'[v] >= j <=> step[v] >= j \/ (v = w /\ j = n)
  BY <1>2, <1>4, <1>5
<1>8. ASSUME NEW j \in 1..Len(Streams)
      PROVE  Given(j)' = Given(j) \union (IF j = n THEN {wtask[w]} \ Skipped(j) ELSE {})
  BY <1>1, <1>3, <1>7 DEF Given
<1>9. /\ Given(n)' = Given(n) \union ({wtask[w]} \ Skipped(n))
      /\ \A j \in 1..Len(Streams) : j # n => Given(j)' = Given(j)
  <2>1. ASSUME NEW j \in 1..Len(Streams), j # n PROVE Given(j)' = Given(j)
    BY <1>8, <2>1
  <2> QED BY <1>8, <2>1
<1> QED BY <1>3, <1>5, <1>6, <1>9, Zenon

\* What a step does to stream k and its collector: nothing, or a call of Write.
LEMMA StreamEffect ==
  ASSUME Stepping, P!PoolInv, Outputs, [Next]_vars, NEW k \in 1..Len(Streams)
  PROVE  \/ Given(k)' = Given(k) /\ cols'[Streams[k]] = cols[Streams[k]]
         \/ \E w \in Workers :
              /\ wpc[w] = "run" /\ wtask[w] \in Ids /\ wtask[w] \notin Given(k)
              /\ Given(k)' = Given(k) \union {wtask[w]}
              /\ cols'[Streams[k]] = Written(cols[Streams[k]], wtask[w])
<1>1. CASE \A w \in Workers : ~Output(w)
  BY <1>1, GivenSame
<1>2. ASSUME NEW w \in Workers, Output(w)
      PROVE  \/ Given(k)' = Given(k) /\ cols'[Streams[k]] = cols[Streams[k]]
             \/ /\ wpc[w] = "run" /\ wtask[w] \in Ids /\ wtask[w] \notin Given(k)
                /\ Given(k)' = Given(k) \union {wtask[w]}
                /\ cols'[Streams[k]] = Written(cols[Streams[k]], wtask[w])
  <2>1. PICK n \in 1..Len(Streams) :
          /\ n = step[w] + 1 /\ wtask[w] \in Ids /\ wtask[w] \notin Given(n)
          /\ Given(n)' = Given(n) \union ({wtask[w]} \ Skipped(n))
          /\ \A j \in 1..Len(Streams) : j # n => Given(j)' = Given(j)
    BY <1>2, OutputGives
  <2>2. /\ wpc[w] = "run"
        /\ cols' = IF wtask[w] \in NoHypothesis /\ Streams[n] \in SkippedThen THEN cols
                   ELSE [cols EXCEPT ![Streams[n]] = Written(@, wtask[w])]
    BY <1>2, <2>1 DEF Output
  <2>3. wtask[w] \in Skipped(n) <=> wtask[w] \in NoHypothesis /\ Streams[n] \in SkippedThen
    BY <2>1 DEF Skipped
  <2>4. Streams[k] \in DOMAIN cols
    BY StreamsAre DEF Outputs, Range
  <2>5. CASE k # n
    <3>1. Streams[k] # Streams[n]
      BY <2>1, <2>5, MainAssumption
    <3> QED BY <2>2, <2>1, <2>4, <2>5, <3>1
  <2>6. CASE k = n /\ wtask[w] \in Skipped(n)
    BY <2>2, <2>1, <2>3, <2>6
  <2>7. CASE k = n /\ wtask[w] \notin Skipped(n)
    BY <2>2, <2>1, <2>3, <2>4, <2>7
  <2> QED BY <2>5, <2>6, <2>7
<1> QED BY <1>1, <1>2

\* A call of Write that comes in time prints something; one that comes early does not.
LEMMA WriteEffect ==
  ASSUME NEW c, NEW W, Sound(NumSentences, c, W), NEW id \in FirstIds(NumSentences), id \notin W
  PROVE  /\ Sound(NumSentences, Written(c, id), W \union {id})
         /\ Written(c, id).out = c.out \/ Written(c, id).next > c.next
<1>1. CASE id = c.next
  BY <1>1, CountIs, WriteExpected
<1>2. CASE id # c.next
  BY <1>2, CountIs, WriteEarly
<1> QED BY <1>1, <1>2

\* There is a collector for each stream, always.
LEMMA DomainKept ==
  ASSUME [Next]_vars, cols = [s \in Range(Streams) |-> cols[s]]
  PROVE  cols' = [s \in Range(Streams) |-> cols'[s]]
<1>1. CASE cols' = cols
  BY <1>1
<1>2. ASSUME NEW s, NEW c, cols' = [cols EXCEPT ![s] = c]
      PROVE  cols' = [x \in Range(Streams) |-> cols'[x]]
  BY <1>2
<1>3. cols' = cols \/ \E s, c : cols' = [cols EXCEPT ![s] = c]
  BY DEF Next, MainThread, Worker, SubmitNext, StopPool, GoOnStopping, CloseStreams, DestroyPool,
         Wakeup, Output, Return, Execute, vars
<1> QED BY <1>1, <1>2, <1>3

LEMMA OutputsKept ==
  ASSUME FirstId = 0, Stepping, P!PoolInv, Outputs, [Next]_vars
  PROVE  Outputs'
<1>1. cols' = [s \in Range(Streams) |-> cols'[s]]
  BY DomainKept DEF Outputs
<1>2. ASSUME NEW k \in 1..Len(Streams) PROVE Sound(NumSentences, cols'[Streams[k]], Given(k)')
  <2>1. Sound(NumSentences, cols[Streams[k]], Given(k))
    BY DEF Outputs
  <2>2. ASSUME NEW w \in Workers, wtask[w] \in Ids, wtask[w] \notin Given(k),
               Given(k)' = Given(k) \union {wtask[w]},
               cols'[Streams[k]] = Written(cols[Streams[k]], wtask[w])
        PROVE  Sound(NumSentences, cols'[Streams[k]], Given(k)')
    BY <2>1, <2>2, IdsOfStream, WriteEffect
  <2>3. ASSUME Given(k)' = Given(k), cols'[Streams[k]] = cols[Streams[k]]
        PROVE  Sound(NumSentences, cols'[Streams[k]], Given(k)')
    BY <2>1, <2>3
  <2> QED BY <2>2, <2>3, StreamEffect
<1> QED BY <1>1, <1>2 DEF Outputs, Sound

-----------------------------------------------------------------------------
(* The program                                                             *)

MainInv == P!PoolInv /\ Queued /\ Ended /\ Stepping /\ Outputs

LEMMA MainStarts == FirstId = 0 /\ Init => MainInv
<1> SUFFICES ASSUME FirstId = 0, Init PROVE MainInv
  OBVIOUS
<1>1. /\ lineCount = FirstId /\ cols = [s \in Range(Streams) |-> EmptyCollector]
      /\ step = [w \in Workers |-> 0] /\ closed = FALSE /\ m_tasks = <<>>
      /\ accepted = {} /\ cpc = [c \in {Main} |-> "idle"] /\ ran = [t \in Ids |-> 0]
  BY DEF Init, Pool!Init
<1>2. Queued
  BY <1>1, MainAssumption DEF Queued
<1>3. Ended
  BY <1>1 DEF Ended
<1>5. Stepping
  BY <1>1, StreamsAre DEF Stepping
<1>4. ASSUME NEW k \in 1..Len(Streams) PROVE Sound(NumSentences, cols[Streams[k]], Given(k))
  <2>1. Streams[k] \in Range(Streams)
    BY StreamsAre DEF Range
  <2>2. Given(k) = {}
    BY <1>1 DEF Given
  <2> QED BY <1>1, <2>1, <2>2, CountIs, EmptySound
<1> QED BY <1>1, <1>2, <1>3, <1>4, <1>5, PoolStarts DEF MainInv, Outputs

LEMMA MainKept == FirstId = 0 /\ MainInv /\ [Next]_vars => MainInv'
  BY PoolKept, QueuedKept, EndedKept, SteppingKept, OutputsKept DEF MainInv

\* What a stream was given, a worker has taken from the queue.
LEMMA GivenIsTaken ==
  ASSUME MainInv, NEW k \in 1..Len(Streams), NEW id \in Given(k)
  PROVE  /\ id \in Ids /\ id \in accepted /\ ~P!InQueue(id)
<1>1. id \in Ids /\ (ran[id] = 1 \/ \E w \in Workers : wtask[w] = id /\ wpc[w] = "run")
  BY DEF Given
<1>2. CASE ran[id] = 1
  BY <1>1, <1>2 DEF MainInv, P!PoolInv, P!DoneInv, P!QueueInv, P!InQueue
<1>3. CASE \E w \in Workers : wtask[w] = id /\ wpc[w] = "run"
  BY <1>1, <1>3 DEF MainInv, P!PoolInv, P!HeldInv, P!Holding
<1> QED BY <1>1, <1>2, <1>3

\* Sentences are taken in the order of the input.
LEMMA TakenInOrder ==
  ASSUME MainInv, NEW n \in Ids, NEW id \in Ids, n < id, id \in accepted, ~P!InQueue(id)
  PROVE  n \in accepted /\ ~P!InQueue(n)
<1>1. m_tasks \in Seq(Ids) /\ lineCount \in Nat /\ accepted = FirstId..(lineCount - 1)
      /\ \A i \in 1..Len(m_tasks) : m_tasks[i] = lineCount - Len(m_tasks) + i - 1
  BY MainAssumption DEF MainInv, Queued, P!PoolInv, P!TypeOK
<1>2. n \in Nat /\ id \in Nat /\ n >= FirstId /\ Len(m_tasks) \in Nat /\ FirstId \in Nat
  BY <1>1, MainAssumption DEF Ids
<1>3. n \in accepted
  BY <1>1, <1>2
<1>4. ASSUME NEW i \in 1..Len(m_tasks), m_tasks[i] = n PROVE FALSE
  <2>1. n = lineCount - Len(m_tasks) + i - 1
    BY <1>1, <1>4
  <2>2. PICK j \in 1..Len(m_tasks) : id = lineCount - Len(m_tasks) + j - 1
    <3>1. i + (id - n) \in 1..Len(m_tasks)
      BY <1>1, <1>2, <2>1
    <3>2. id = lineCount - Len(m_tasks) + (i + (id - n)) - 1
      BY <1>1, <1>2, <2>1
    <3> QED BY <3>1, <3>2
  <2> QED BY <1>1, <2>2 DEF P!InQueue
<1> QED BY <1>3, <1>4 DEF P!InQueue

LEMMA MainTypes == MainInv => TypeOK
  BY DEF MainInv, Queued, Ended, Stepping, TypeOK, P!PoolInv, P!TypeOK, Pool!TypeOK,
         P!WorkerPC, Pool!WorkerPC, P!ClientPC, Pool!ClientPC

\* A text is held back only for a sentence that a worker has in hand or that the handler
\* leaves out.
THEOREM HeldForAWorker == ASSUME FirstId = 0 PROVE Spec => []HeldForSomeone
<1>1. MainInv => HeldForSomeone
  <2> SUFFICES ASSUME MainInv, NEW k \in 1..Len(Streams),
                      cols[Streams[k]].held # {}, cols[Streams[k]].next \notin Skipped(k)
               PROVE  \E w \in Workers : /\ wtask[w] = cols[Streams[k]].next
                                         /\ wpc[w] \in {"execute", "run"} /\ step[w] < k
    BY MainTypes DEF HeldForSomeone
  <2> DEFINE c == cols[Streams[k]]
  <2>1. Sound(NumSentences, c, Given(k))
    BY DEF MainInv, Outputs
  <2>2. PICK n : n = c.next
    OBVIOUS
  <2>3. PICK id \in c.held : TRUE
    OBVIOUS
  <2>4. n \in Nat /\ n \notin Given(k) /\ id \in Given(k) /\ n < id
    BY <2>1, <2>2 DEF Sound
  <2>5. id \in Ids /\ id \in accepted /\ ~P!InQueue(id)
    BY <2>4, GivenIsTaken
  <2>6. n \in Ids
    BY <2>4, <2>5, MainAssumption DEF Ids
  <2>7. n \in accepted /\ ~P!InQueue(n)
    BY <2>4, <2>5, <2>6, TakenInOrder
  <2>8. ran[n] # 1
    BY <2>2, <2>4, <2>6 DEF Given
  <2>9. PICK w \in Workers : wtask[w] = n
    BY <2>6, <2>7, <2>8 DEF MainInv, P!PoolInv, P!DoneInv
  <2>10. wpc[w] \in {"execute", "run"}
    BY <2>6, <2>8, <2>9, PoolAssumed DEF MainInv, P!PoolInv, P!HeldInv, P!Holding, P!PoolAssumption
  <2>11. step[w] < k
    <3>1. step[w] \in Nat /\ (step[w] # 0 => wpc[w] = "run")
      BY StreamsAre DEF MainInv, Stepping
    <3>2. CASE step[w] = 0
      BY <3>2
    <3>3. CASE wpc[w] = "run"
      BY <2>2, <2>4, <2>6, <2>9, <3>1, <3>3 DEF Given
    <3> QED BY <3>1, <3>2, <3>3
  <2> QED BY <2>2, <2>9, <2>10, <2>11
<1>2. Init => MainInv
  BY MainStarts
<1>3. MainInv /\ [Next]_vars => MainInv'
  BY MainKept
<1> QED BY <1>1, <1>2, <1>3, PTL DEF Spec

-----------------------------------------------------------------------------
(* Every stream is an output in the order of the input                     *)

\* The first sentence left out, or the end.
LEMMA ExpectedIs ==
  ASSUME FirstId = 0, NEW k
  PROVE  /\ Expected(k) \in 0..NumSentences
         /\ Expected(k) = NumSentences \/ Expected(k) \in Skipped(k)
         /\ \A id \in Skipped(k) : Expected(k) <= id
<1>1. Skipped(k) \subseteq Ids /\ Ids = 0..(NumSentences - 1) /\ NumSentences \in Nat
  BY MainAssumption DEF Skipped, Ids
<1>2. CASE Skipped(k) = {}
  BY <1>1, <1>2 DEF Expected
<1>3. CASE Skipped(k) # {}
  <2> DEFINE m == CHOOSE id \in Skipped(k) : \A other \in Skipped(k) : id <= other
  <2>1. Skipped(k) \in SUBSET Nat
    BY <1>1
  <2>2. \E id \in Skipped(k) : \A other \in Skipped(k) : id <= other
    BY <1>3, <2>1, LeastNatural
  <2>3. m \in Skipped(k) /\ \A other \in Skipped(k) : m <= other
    BY <2>2
  <2>4. Expected(k) = m - FirstId
    BY <1>3 DEF Expected
  <2> HIDE DEF m
  <2>5. Expected(k) = m
    BY <1>1, <2>3, <2>4
  <2> QED BY <1>1, <2>3, <2>5
<1> QED BY <1>2, <1>3

\* A stream never gets beyond.
LEMMA NotBeyond ==
  ASSUME FirstId = 0, NEW k, NEW c, NEW W, Sound(NumSentences, c, W), W \subseteq Ids \ Skipped(k)
  PROVE  c.next \in 0..Expected(k) /\ c.out = [j \in 1..c.next |-> FirstId + j - 1]
<1>1. /\ c.next \in Nat /\ c.out \in Seq(FirstIds(NumSentences)) /\ Len(c.out) = c.next
      /\ \A j \in 1..Len(c.out) : c.out[j] = j - 1
      /\ 0..(c.next - 1) \subseteq W
  BY DEF Sound
<1>2. /\ Expected(k) \in 0..NumSentences
      /\ Expected(k) = NumSentences \/ Expected(k) \in Skipped(k)
      /\ Ids = 0..(NumSentences - 1) /\ NumSentences \in Nat
  BY ExpectedIs, MainAssumption DEF Ids
<1>3. c.next <= Expected(k)
  <2> SUFFICES ASSUME c.next > Expected(k) PROVE FALSE
    BY <1>1, <1>2
  <2>1. Expected(k) \in 0..(c.next - 1)
    BY <1>1, <1>2
  <2> QED BY <1>1, <1>2, <2>1
<1>4. c.out = [j \in 1..c.next |-> FirstId + j - 1]
  BY <1>1
<1> QED BY <1>1, <1>2, <1>3, <1>4

\* When the pool is stopped every sentence was run, and the stream is complete.
LEMMA CompleteAtEnd ==
  ASSUME FirstId = 0, MainInv, NEW k \in 1..Len(Streams), cpc[Main] = "stopped"
  PROVE  Len(cols[Streams[k]].out) = Expected(k)
<1>1. \A id \in Ids : ran[id] = 1
  <2>1. process /\ atStop = Ids
    BY DEF MainInv, Ended
  <2>2. \A id \in Ids : id \in accepted /\ ~P!InQueue(id)
    BY <2>1 DEF MainInv, P!PoolInv, P!StopInv
  <2>3. \A id \in Ids, w \in Workers : wtask[w] # id
    BY PoolAssumed DEF MainInv, P!PoolInv, P!StopInv, P!HeldInv, P!Holding, P!PoolAssumption
  <2> QED BY <2>2, <2>3 DEF MainInv, P!PoolInv, P!DoneInv
<1>2. PICK c : c = cols[Streams[k]]
  OBVIOUS
<1>3. c.next \in Nat /\ Len(c.out) = c.next /\ c.next \notin Given(k)
  BY <1>2 DEF MainInv, Outputs, Sound
<1>4. Given(k) = Ids \ Skipped(k) /\ Ids = 0..(NumSentences - 1) /\ NumSentences \in Nat
  BY <1>1, MainAssumption DEF Given, Ids
<1>5. /\ Expected(k) \in 0..NumSentences /\ \A id \in Skipped(k) : Expected(k) <= id
      /\ c.next \in 0..Expected(k)
  <2>1. Sound(NumSentences, c, Given(k))
    BY <1>2 DEF MainInv, Outputs
  <2> QED BY <1>4, <2>1, ExpectedIs, NotBeyond
<1>6. c.next = NumSentences \/ c.next \in Skipped(k)
  BY <1>3, <1>4, <1>5
<1>7. c.next = Expected(k)
  BY <1>3, <1>4, <1>5, <1>6
<1> QED BY <1>2, <1>3, <1>7

\* The streams are closed in one step, which writes nothing.
LEMMA ClosedEffect ==
  ASSUME [Next]_vars
  PROVE  closed' = closed \/ (cpc[Main] = "stopped" /\ closed' = TRUE /\ cols' = cols)
  BY DEF Next, MainThread, Worker, SubmitNext, StopPool, GoOnStopping, CloseStreams, DestroyPool,
         Wakeup, Output, Return, Execute, vars

LEMMA OutStep ==
  ASSUME FirstId = 0, MainInv, [Next]_vars, NEW k \in 1..Len(Streams)
  PROVE  [Out(k)!Next]_(Out(k)!vars)
<1>1. MainInv'
  BY MainKept
<1>2. CASE cols'[Streams[k]].out = cols[Streams[k]].out
  <2>1. CASE closed' = closed
    BY <1>2, <2>1 DEF Out!vars
  <2>2. CASE cpc[Main] = "stopped" /\ closed' = TRUE
    BY <1>2, <2>2, CompleteAtEnd DEF Out!Next, Out!Close
  <2> QED BY <2>1, <2>2, ClosedEffect
<1>3. CASE cols'[Streams[k]].out # cols[Streams[k]].out
  <2>1. PICK w \in Workers :
          /\ wpc[w] = "run" /\ wtask[w] \in Ids /\ wtask[w] \notin Given(k)
          /\ cols'[Streams[k]] = Written(cols[Streams[k]], wtask[w])
    BY <1>3, StreamEffect DEF MainInv
  <2>2. Sound(NumSentences, cols[Streams[k]], Given(k))
    BY DEF MainInv, Outputs
  <2>3. cols'[Streams[k]].next > cols[Streams[k]].next
    BY <1>3, <2>1, <2>2, IdsOfStream, WriteEffect
  <2>4. ~closed /\ closed' = closed
    <3>1. closed \in BOOLEAN /\ (closed => cpc[Main] \in {"stopped", "destroyed"})
      BY DEF MainInv, Ended
    <3>2. cpc[Main] \notin {"stopped", "destroyed"}
      BY <2>1 DEF MainInv, P!PoolInv, P!StopInv
    <3> QED BY <1>3, <3>1, <3>2, ClosedEffect
  <2>5. PICK n : n = cols'[Streams[k]].next
    OBVIOUS
  <2>6. n \in 0..Expected(k) /\ cols'[Streams[k]].out = [j \in 1..n |-> FirstId + j - 1]
    <3>1. Sound(NumSentences, cols'[Streams[k]], Given(k)')
      BY <1>1 DEF MainInv, Outputs, Sound
    <3>2. Given(k)' \subseteq Ids \ Skipped(k)
      BY DEF Given
    <3> QED BY <2>5, <3>1, <3>2, NotBeyond
  <2>7. Len(cols[Streams[k]].out) = cols[Streams[k]].next /\ cols[Streams[k]].next \in Nat
    BY <2>2 DEF Sound
  <2>8. n \in (Len(cols[Streams[k]].out) + 1)..Expected(k)
    BY <2>3, <2>5, <2>6, <2>7, ExpectedIs
  <2> QED BY <2>4, <2>6, <2>8 DEF Out!Next, Out!Emit
<1> QED BY <1>2, <1>3

\* Each stream shows the sentences in the order of the input, some at a time, and is closed when
\* all of them are there, or all before the first that is left out: FirstOutput and LastOutput
\* without their liveness, and the same of every stream between them.
THEOREM OutputsInOrder ==
  ASSUME FirstId = 0, NEW k \in 1..Len(Streams)
  PROVE  Spec => Out(k)!Init /\ [][Out(k)!Next]_(Out(k)!vars)
<1>1. Init => Out(k)!Init
  <2>1. Streams[k] \in Range(Streams)
    BY StreamsAre DEF Range
  <2> QED BY <2>1 DEF Init, EmptyCollector, Out!Init
<1>2. Init => MainInv
  BY MainStarts
<1>3. MainInv /\ [Next]_vars => MainInv'
  BY MainKept
<1>4. MainInv /\ [Next]_vars => [Out(k)!Next]_(Out(k)!vars)
  BY OutStep
<1> QED BY <1>1, <1>2, <1>3, <1>4, PTL DEF Spec
=============================================================================
