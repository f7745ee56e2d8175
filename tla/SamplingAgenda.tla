---------------------------- MODULE SamplingAgenda ----------------------------
(***************************************************************************)
(* moses/TranslationModel/UG/mm/ug_bitext.{h,cc}: the dynamic phrase table *)
(* samples occurrences of a source phrase in the background.  A decoder    *)
(* thread (client) asks for the statistics of a phrase with prep, which    *)
(* puts a job on the agenda, or with lookup, which also waits for the end  *)
(* of the sampling.  Worker threads share the jobs; a worker that finds    *)
(* the agenda empty ends, and add_job starts new ones when it puts a job   *)
(* on an empty agenda.  With num_workers <= 1 the client of a lookup works *)
(* through the agenda itself.                                              *)
(*   A job and its statistics (pstats) are one record; jobs are numbered   *)
(* in the order they were added, which is that of the list of jobs.        *)
(***************************************************************************)
EXTENDS Integers, Sequences, FiniteSets

CONSTANTS
  Workers,          \* the entries of agenda::workers
  Clients,          \* decoder threads
  Occurs,           \* per phrase and occurrence: the target phrases extracted there
  Estimate,         \* per phrase: approxOccurrenceCount()
  Frequent,         \* the phrases above m_pstats_cache_threshold
  Calls,            \* per client: its calls, <<"prep", phrase>> or <<"lookup", phrase>>
  SampleSizes,      \* values of default_sample_size to consider, 0: everything
  MinDiverse,       \* job::min_diverse
  JobWorkers,       \* how many workers get_job sends to a job before it prefers another
  None

Phrases == DOMAIN Occurs
TargetPhrases == UNION {UNION {Occurs[p][k] : k \in DOMAIN Occurs[p]} : p \in Phrases}
Threads == Workers \cup Clients

ASSUME AgendaAssumption ==
  /\ IsFiniteSet(Workers) /\ IsFiniteSet(Clients) /\ Workers \cap Clients = {}
  /\ None \notin Threads
  /\ Occurs \in [Phrases -> Seq(SUBSET TargetPhrases)] /\ IsFiniteSet(TargetPhrases)
  /\ Estimate \in [Phrases -> Nat]
  /\ Calls \in [Clients -> Seq({"prep", "lookup"} \X Phrases)]
  /\ SampleSizes \subseteq Nat
  /\ MinDiverse \in Nat /\ JobWorkers \in Nat \ {0}

VARIABLES
  max_samples,  \* of every job: default_sample_size
  pooled,       \* num_workers > 1
  ag,           \* the agenda has been created
  jobs,         \* all jobs and their statistics
  joblist,      \* the numbers of the jobs on the list; the front is the smallest
  cache,        \* cache1: phrase -> job, 0 if there is none
  btlock,       \* who holds Bitext::lock
  thread,       \* per thread: where it is in agenda::worker::operator() (pc), its job and
                \* the target phrases it has still to add for the occurrence in hand
  client,       \* per client: where it is, the statistics it has, its calls to come
  shutdown,
  joined,       \* ~agenda has returned
  late          \* (history) a job was added while a worker was about to end

vars == <<max_samples, pooled, ag, jobs, joblist, cache, btlock, thread, client, shutdown, joined, late>>
config == <<max_samples, pooled>>

Idle == [pc |-> "off", job |-> 0, todo |-> {}]

Init ==
  /\ max_samples \in SampleSizes /\ pooled \in BOOLEAN
  /\ ag = FALSE
  /\ jobs = <<>> /\ joblist = {}
  /\ cache = [p \in Phrases |-> 0]
  /\ btlock = None
  /\ thread = [t \in Threads |-> Idle]
  /\ client = [c \in Clients |-> [pc |-> "idle", job |-> 0, calls |-> Calls[c]]]
  /\ shutdown = FALSE /\ joined = FALSE /\ late = FALSE

\* (mutant) a job is not in progress before a worker has registered
MutNewJob(p) ==
  [phrase |-> p, next |-> 0, ctr |-> 0, workers |-> 0, lock |-> None,
                 raw |-> Estimate[p], sampled |-> 0, good |-> 0,
                 trg |-> [t \in TargetPhrases |-> 0], in_progress |-> 0]

NewJob(p) == [phrase |-> p, next |-> 0, ctr |-> 0, workers |-> 0, lock |-> None,
              raw |-> Estimate[p], sampled |-> 0, good |-> 0,
              trg |-> [t \in TargetPhrases |-> 0], in_progress |-> 1]

AtEnd(j) == j.next = Len(Occurs[j.phrase])
MutDone(j) == \/ max_samples > 0 /\ j.good + 1 >= max_samples  \* (mutant) one too few
              \/ AtEnd(j)

Done(j) == \/ max_samples > 0 /\ j.good >= max_samples
           \/ AtEnd(j)
Diversity(j) == Cardinality({t \in TargetPhrases : j.trg[t] > 0})

-----------------------------------------------------------------------------
(* The clients                                                             *)

Enter(c) ==  \* prep2 takes Bitext::lock
  /\ client[c].pc = "idle" /\ client[c].calls # <<>>
  /\ btlock = None
  /\ btlock' = c
  /\ client' = [client EXCEPT ![c].pc = "prep"]
  /\ UNCHANGED <<config, late, ag, jobs, joblist, cache, thread, shutdown, joined>>

CreateAgenda(c) ==  \* and add_workers, which starts all of them
  /\ client[c].pc = "prep" /\ ~ag
  /\ ag' = TRUE
  /\ thread' = [t \in Threads |-> IF pooled /\ t \in Workers THEN [Idle EXCEPT !.pc = "check"]
                                                             ELSE thread[t]]
  /\ UNCHANGED <<config, late, jobs, joblist, cache, btlock, client, shutdown, joined>>

\* (mutant) threads that have ended are not replaced
MutAddJob(p) ==
  /\ jobs' = Append(jobs, NewJob(p))
  /\ joblist' = joblist \cup {Len(jobs) + 1}
  /\ UNCHANGED thread

\* add_job: if the agenda was empty, threads that have ended are replaced.
AddJob(p) ==
  /\ jobs' = Append(jobs, NewJob(p))
  /\ joblist' = joblist \cup {Len(jobs) + 1}
  /\ thread' = IF joblist = {}
               THEN [t \in Threads |-> IF thread[t].pc = "ended" THEN [Idle EXCEPT !.pc = "check"]
                                                                 ELSE thread[t]]
               ELSE thread

Prep(c) ==
  LET call == Head(client[c].calls)
      p == call[2]
      known == p \in Frequent /\ cache[p] # 0
      job == IF known THEN cache[p] ELSE Len(jobs) + 1
  IN  /\ client[c].pc = "prep" /\ ag
      /\ IF known THEN UNCHANGED <<jobs, joblist, thread>> ELSE AddJob(p)
      /\ late' = (late \/ (~known /\ \E w \in Workers : thread[w].pc = "ending"))
      /\ cache' = IF p \in Frequent THEN [cache EXCEPT ![p] = job] ELSE cache
      /\ btlock' = None
      /\ client' = [client EXCEPT ![c] =
           IF call[1] = "prep" THEN [pc |-> "idle", job |-> 0, calls |-> Tail(@.calls)]
                               ELSE [@ EXCEPT !.pc = "lookup", !.job = job]]
      /\ UNCHANGED <<config, ag, shutdown, joined>>

\* The second half of lookup: work or wait, in either case under Bitext::lock.
Lookup(c) ==
  /\ client[c].pc = "lookup" /\ btlock = None
  /\ btlock' = c
  /\ client' = [client EXCEPT ![c].pc = IF pooled THEN "wait" ELSE "work"]
  /\ thread' = IF pooled THEN thread ELSE [thread EXCEPT ![c].pc = "check"]
  /\ UNCHANGED <<config, late, ag, jobs, joblist, cache, shutdown, joined>>

Sleep(c) ==
  /\ client[c].pc = "wait" /\ jobs[client[c].job].in_progress > 0
  /\ client' = [client EXCEPT ![c].pc = "asleep"]
  /\ UNCHANGED <<config, late, ag, jobs, joblist, cache, btlock, thread, shutdown, joined>>

SpuriousWake(c) ==
  /\ client[c].pc = "asleep"
  /\ client' = [client EXCEPT ![c].pc = "wait"]
  /\ UNCHANGED <<config, late, ag, jobs, joblist, cache, btlock, thread, shutdown, joined>>

Return(c) ==
  /\ \/ client[c].pc = "wait" /\ jobs[client[c].job].in_progress = 0
     \/ client[c].pc = "work" /\ thread[c].pc = "off"
  /\ btlock' = None
  /\ client' = [client EXCEPT ![c].pc = "idle", ![c].calls = Tail(@)]
  /\ UNCHANGED <<config, late, ag, jobs, joblist, cache, thread, shutdown, joined>>

ClientStep(c) ==
  Enter(c) \/ CreateAgenda(c) \/ Prep(c) \/ Lookup(c) \/ Sleep(c) \/ Return(c)

-----------------------------------------------------------------------------
(* The workers, and a client in the place of one                           *)

\* pstats::release on a set of jobs: who brings in_progress to zero wakes the waiting clients.
Released(js, released) ==
  [i \in DOMAIN js |-> IF i \in released THEN [js[i] EXCEPT !.in_progress = @ - 1] ELSE js[i]]
Woken(released) ==
  [c \in Clients |->
    IF /\ client[c].pc = "asleep" /\ client[c].job \in released
       /\ jobs[client[c].job].in_progress = 1
    THEN [client[c] EXCEPT !.pc = "wait"] ELSE client[c]]

CheckShutdown(t) ==  \* get_job reads shutdown before it takes the lock of the agenda
  /\ thread[t].pc = "check"
  /\ thread' = [thread EXCEPT ![t].pc = IF shutdown THEN "ending" ELSE "get"]
  /\ UNCHANGED <<config, late, ag, jobs, joblist, cache, btlock, client, shutdown, joined>>

\* The jobs from the front up to the first one that is not done and has few workers are
\* looked at; those that are done leave the list.
FrontOf(list) == CHOOSE n \in list : \A m \in list : n <= m
FreeJobs == {n \in joblist : ~Done(jobs[n]) /\ jobs[n].workers < JobWorkers}
Finished == {n \in joblist : Done(jobs[n]) /\ \A f \in FreeJobs : n < f}

GetJob(t) ==
  LET rest == joblist \ Finished
      ret  == FrontOf(IF FreeJobs # {} THEN FreeJobs ELSE rest)
  IN  /\ thread[t].pc = "get"
      /\ joblist' = rest
      /\ client' = Woken(Finished)
      /\ IF rest = {}
         THEN /\ jobs' = Released(jobs, Finished)
              /\ thread' = [thread EXCEPT ![t].pc = "ending"]
         ELSE /\ jobs[ret].lock = None
              /\ jobs' = [Released(jobs, Finished) EXCEPT ![ret].workers = @ + 1]
              /\ thread' = [thread EXCEPT ![t].pc = "register", ![t].job = ret]
      /\ UNCHANGED <<config, late, ag, cache, btlock, shutdown, joined>>

RegisterWorker(t) ==
  /\ thread[t].pc = "register"
  /\ jobs' = [jobs EXCEPT ![thread[t].job].in_progress = @ + 1]
  /\ thread' = [thread EXCEPT ![t].pc = "step"]
  /\ UNCHANGED <<config, late, ag, joblist, cache, btlock, client, shutdown, joined>>

\* job::step, one turn of its loop; the lock of the job is held until the loop ends.
MoreToSample(j) ==
  /\ ~AtEnd(j)
  /\ \/ max_samples = 0
     \/ j.good < max_samples \/ Diversity(j) < MinDiverse

Step(t) ==
  LET n == thread[t].job
      j == jobs[n]
      raw == IF j.raw = j.ctr THEN j.raw + 1 ELSE j.raw
      read == [j EXCEPT !.next = @ + 1, !.raw = raw,
                        !.ctr = IF max_samples = 0 THEN @ ELSE @ + 1]
  IN  /\ thread[t].pc = "step"
      /\ j.lock \in {None, t}
      /\ MoreToSample(j)
      /\ \/ /\ max_samples > 0  \* the occurrence is skipped
            /\ \E rnum \in 0..(raw - j.ctr - 1) : rnum + j.good >= max_samples
            /\ jobs' = [jobs EXCEPT ![n] = [read EXCEPT !.lock = t]]
            /\ UNCHANGED thread
         \/ /\ max_samples > 0 => \E rnum \in 0..(raw - j.ctr - 1) : rnum + j.good < max_samples
            /\ jobs' = [jobs EXCEPT ![n] = [read EXCEPT !.lock = None, !.sampled = @ + 1]]
            \* find_trg_phr_bounds, of what only the worker sees; the next step if it fails
            /\ LET found == Occurs[j.phrase][read.next]
               IN thread' = [thread EXCEPT ![t].pc = IF found = {} THEN "step" ELSE "count",
                                           ![t].todo = found]
      /\ UNCHANGED <<config, late, ag, joblist, cache, btlock, client, shutdown, joined>>

StepEnds(t) ==
  LET n == thread[t].job
  IN  /\ thread[t].pc = "step"
      /\ jobs[n].lock \in {None, t}
      /\ ~MoreToSample(jobs[n])
      /\ jobs' = [jobs EXCEPT ![n].lock = None]
      /\ thread' = [thread EXCEPT ![t].pc = "release"]
      /\ UNCHANGED <<config, late, ag, joblist, cache, btlock, client, shutdown, joined>>

CountGood(t) ==
  /\ thread[t].pc = "count"
  /\ jobs' = [jobs EXCEPT ![thread[t].job].good = @ + 1]
  /\ thread' = [thread EXCEPT ![t].pc = "add"]
  /\ UNCHANGED <<config, late, ag, joblist, cache, btlock, client, shutdown, joined>>

MutAddPair(t) ==  \* (mutant) without "seen": a target phrase may be added again
  /\ thread[t].pc = "add"
  /\ \E target \in thread[t].todo :
       /\ jobs' = [jobs EXCEPT ![thread[t].job].trg[target] = @ + 1]
       /\ \E again \in BOOLEAN :
            thread' = [thread EXCEPT ![t].pc = IF again THEN "add" ELSE "step"]
  /\ UNCHANGED <<config, late, ag, joblist, cache, btlock, client, shutdown, joined>>

AddPair(t) ==  \* pstats::add; each target phrase once per occurrence ("seen")
  /\ thread[t].pc = "add"
  /\ \E target \in thread[t].todo :
       /\ jobs' = [jobs EXCEPT ![thread[t].job].trg[target] = @ + 1]
       /\ thread' = [thread EXCEPT ![t].todo = @ \ {target},
                                   ![t].pc = IF thread[t].todo = {target} THEN "step" ELSE "add"]
  /\ UNCHANGED <<config, late, ag, joblist, cache, btlock, client, shutdown, joined>>

Release(t) ==
  /\ thread[t].pc = "release"
  /\ jobs' = Released(jobs, {thread[t].job})
  /\ client' = Woken({thread[t].job})
  /\ thread' = [thread EXCEPT ![t] = [Idle EXCEPT !.pc = "check"]]
  /\ UNCHANGED <<config, late, ag, joblist, cache, btlock, shutdown, joined>>

\* operator() returns.  Only now would timed_join find that the thread has ended.
EndThread(t) ==
  /\ thread[t].pc = "ending"
  /\ thread' = [thread EXCEPT ![t].pc = IF t \in Workers THEN "ended" ELSE "off"]
  /\ UNCHANGED <<config, late, ag, jobs, joblist, cache, btlock, client, shutdown, joined>>

ThreadStep(t) ==
  \/ CheckShutdown(t) \/ GetJob(t) \/ RegisterWorker(t) \/ Step(t) \/ StepEnds(t)
  \/ CountGood(t) \/ AddPair(t) \/ Release(t) \/ EndThread(t)

-----------------------------------------------------------------------------
(* ~agenda, when the decoder threads are gone                              *)

Shutdown ==
  /\ \A c \in Clients : client[c].pc = "idle" /\ client[c].calls = <<>>
  /\ ~shutdown
  /\ shutdown' = TRUE
  /\ UNCHANGED <<config, late, ag, jobs, joblist, cache, btlock, thread, client, joined>>

Join ==
  /\ shutdown /\ ~joined
  /\ \A w \in Workers : thread[w].pc \in {"off", "ended"}
  /\ joined' = TRUE
  /\ UNCHANGED <<config, late, ag, jobs, joblist, cache, btlock, thread, client, shutdown>>

\* All workers have left, jobs or not: nobody comes back as long as the agenda is not empty.
Deserted ==
  /\ pooled /\ joblist # {}
  /\ \A w \in Workers : thread[w].pc \in {"ending", "ended"}

Terminated == /\ joined \/ (Deserted /\ \A w \in Workers : thread[w].pc = "ended")
              /\ UNCHANGED vars

Next ==
  \/ \E c \in Clients : ClientStep(c) \/ SpuriousWake(c)
  \/ \E t \in Threads : ThreadStep(t)
  \/ Shutdown \/ Join \/ Terminated

Spec ==
  /\ Init /\ [][Next]_vars
  /\ \A c \in Clients : WF_vars(ClientStep(c))
  /\ \A t \in Threads : WF_vars(ThreadStep(t))
  /\ WF_vars(Shutdown) /\ WF_vars(Join)

-----------------------------------------------------------------------------
(* Properties                                                              *)

ThreadPcs == {"off", "check", "get", "register", "step", "count", "add", "release", "ending", "ended"}

\* Types; in particular the locks are held by threads that exist.
TypeOK ==
  /\ max_samples \in SampleSizes /\ pooled \in BOOLEAN
  /\ ag \in BOOLEAN /\ shutdown \in BOOLEAN /\ joined \in BOOLEAN
  /\ \A n \in DOMAIN jobs :
       jobs[n] \in [phrase : Phrases, next : Nat, ctr : Nat, workers : Nat,
                    lock : Threads \cup {None}, raw : Nat, sampled : Nat, good : Nat,
                    trg : [TargetPhrases -> Nat], in_progress : Nat]
  /\ joblist \subseteq DOMAIN jobs
  /\ cache \in [Phrases -> 0..Len(jobs)]
  /\ btlock \in Clients \cup {None}
  /\ \A t \in Threads : /\ thread[t].pc \in ThreadPcs /\ thread[t].job \in 0..Len(jobs)
                        /\ thread[t].todo \subseteq TargetPhrases
  /\ \A c \in Clients : /\ client[c].pc \in {"idle", "prep", "lookup", "wait", "asleep", "work"}
                        /\ client[c].job \in 0..Len(jobs)

\* pstats::in_progress counts the workers between register_worker and release, and one more
\* until get_job has found the job done and taken it off the list, so that it cannot be zero
\* between two workers.
InProgressCounts ==
  \A n \in DOMAIN jobs :
    jobs[n].in_progress =
      Cardinality({t \in Threads : /\ thread[t].job = n
                                   /\ thread[t].pc \in {"step", "count", "add", "release"}})
      + (IF n \in joblist THEN 1 ELSE 0)

Statistics(n) == <<jobs[n].raw, jobs[n].sampled, jobs[n].good, jobs[n].trg>>

\* Job n has left the list, whoever comes finds nothing to sample, and every occurrence that
\* was taken has been counted.
Settled(n) ==
  /\ n \notin joblist
  /\ ~MoreToSample(jobs[n])
  /\ \A t \in Threads : thread[t].job = n => thread[t].pc \notin {"count", "add"}

\* Who reads the statistics once in_progress is zero (lookup, pstats2pplist, and expand after
\* them without any lock) reads what will never change again.  It is not that nobody comes any
\* more: a worker may have been sent to the job before it left the list and register only
\* now, so that in_progress rises again; and the test done(), which took the job off the
\* list, is not the one that ends the loop of step.  But whoever was last to leave the loop
\* has left nothing to sample.
ReadyIsFinal ==
  [][\A n \in DOMAIN jobs :
       /\ jobs[n].in_progress = 0 => Settled(n)
       /\ Settled(n) => Settled(n)' /\ Statistics(n)' = Statistics(n)]_vars

\* When sampling has ended the statistics are those of some set of occurrences, each counted
\* once for itself and once for each target phrase found there.
StatisticsOfASample ==
  \A n \in DOMAIN jobs : jobs[n].in_progress = 0 =>
    LET j == jobs[n]
        occ == Occurs[j.phrase]
    IN \E S \in SUBSET DOMAIN occ :
         /\ Cardinality(S) = j.sampled
         /\ Cardinality({k \in S : occ[k] # {}}) = j.good
         /\ \A t \in TargetPhrases : j.trg[t] = Cardinality({k \in S : t \in occ[k]})

\* Random as the choice is, a sample is never smaller than asked for as long as the estimate
\* of the number of occurrences is not too high; since others are at work between the test of
\* good and its increment it may be larger, by one per other worker at most.
SampleQuota ==
  \A n \in DOMAIN jobs :
    LET j == jobs[n]
        all == Len(Occurs[j.phrase])
    IN  /\ max_samples > 0 => j.good <= max_samples - 1 + (IF pooled THEN Cardinality(Workers) ELSE 1)
        /\ j.in_progress = 0 /\ Estimate[j.phrase] <= all =>
             j.sampled >= IF max_samples \in 1..all THEN max_samples ELSE all

\* pstats::add throws "more joint counts than good counts" otherwise.
JointWithinGood ==
  \A n \in DOMAIN jobs : \A t \in TargetPhrases : jobs[n].trg[t] <= jobs[n].good

\* What holds at any time: the locks and numbers are what they should be, nobody is told that
\* a job is ready while somebody is at work on it, and no worker is thrown out.
AgendaInv == TypeOK /\ InProgressCounts /\ JointWithinGood

\* What a client gets: a sample, and a large enough one.
SampleSound == StatisticsOfASample /\ SampleQuota

\* A lookup returns: there is a worker for every job, because add_job replaces those that have
\* ended.  The one exception is a job that comes while a worker is about to end, which is not
\* replaced then (and if it was the last, never).
Served ==
  \A c \in Clients : client[c].pc = "lookup" ~> (client[c].pc = "idle" \/ (late /\ Deserted))

\* "wait till all statistics have been collected": the wait ends.
LookupReturns ==
  \A c \in Clients : client[c].pc = "lookup" ~> client[c].pc = "idle"
=============================================================================
