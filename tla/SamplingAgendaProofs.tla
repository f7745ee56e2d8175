------------------------ MODULE SamplingAgendaProofs ------------------------
(***************************************************************************)
(* The proofs about the dynamic suffix-array phrase table.  For any number *)
(* of workers, clients, phrases and calls: in_progress counts who is at    *)
(* work on a job, and statistics that are ready do not change any more and *)
(* are those of a sample, which is large enough.  In the second half, for  *)
(* any number of sentences, phrases and collections and any size of the    *)
(* history: the cache of target phrase collections, its history and the    *)
(* reference counts agree, and the collection used last is not dropped.    *)
(***************************************************************************)
EXTENDS SamplingAgenda, PhraseCollectionCache, WellFoundedInduction, FiniteSetTheorems,
        SequenceTheorems, TLAPS

Job == [phrase : Phrases, next : Nat, ctr : Nat, workers : Nat,
        lock : Threads \cup {None}, raw : Nat, sampled : Nat, good : Nat,
        trg : [TargetPhrases -> Nat], in_progress : Nat]

Working == {"step", "count", "add", "release"}

\* The threads that have registered with job n and not released it.
AtWork(n, th) == {t \in Threads : th[t].job = n /\ th[t].pc \in Working}

\* The threads that have still to add a target phrase for an occurrence of job n.
Adding(n, target, th) ==
  {t \in Threads : th[t].job = n /\ th[t].pc = "add" /\ target \in th[t].todo}

-----------------------------------------------------------------------------
(* Counting                                                                *)

\* The threads are finitely many.
LEMMA ThreadsFinite == IsFiniteSet(Threads)
  BY AgendaAssumption, FS_Union DEF Threads

\* One element enters or leaves a set.
LEMMA SetStep ==
  ASSUME NEW A, IsFiniteSet(A), NEW B, NEW t, \A x : x # t => (x \in A <=> x \in B)
  PROVE  /\ (t \in A <=> t \in B) => B = A
         /\ t \notin A /\ t \in B => Cardinality(B) = Cardinality(A) + 1
         /\ t \in A /\ t \notin B => Cardinality(B) = Cardinality(A) - 1
<1>1. (t \in A <=> t \in B) => B = A
  OBVIOUS
<1>2. t \notin A /\ t \in B => B = A \cup {t}
  OBVIOUS
<1>3. t \in A /\ t \notin B => B = A \ {t}
  OBVIOUS
<1>4. Cardinality(A \cup {t}) = IF t \in A THEN Cardinality(A) ELSE Cardinality(A) + 1
  BY FS_AddElement
<1>5. Cardinality(A \ {t}) = IF t \in A THEN Cardinality(A) - 1 ELSE Cardinality(A)
  BY FS_RemoveElement
<1> QED BY <1>1, <1>2, <1>3, <1>4, <1>5

\* The counts are numbers, and not zero when somebody is there.
LEMMA CountTypes ==
  ASSUME NEW th, NEW n
  PROVE  /\ IsFiniteSet(AtWork(n, th)) /\ Cardinality(AtWork(n, th)) \in Nat
         /\ \A t \in AtWork(n, th) : Cardinality(AtWork(n, th)) > 0
         /\ \A x : /\ IsFiniteSet(Adding(n, x, th))
                   /\ Cardinality(Adding(n, x, th)) \in Nat
                   /\ \A t \in Adding(n, x, th) : Cardinality(Adding(n, x, th)) > 0
<1>1. IsFiniteSet(AtWork(n, th)) /\ \A x : IsFiniteSet(Adding(n, x, th))
  BY ThreadsFinite, FS_Subset DEF AtWork, Adding
<1> QED BY <1>1, FS_CardinalityType, FS_EmptySet

In(t, A) == IF t \in A THEN 1 ELSE 0

\* Nobody but t has moved from f to g.
Moves(t, f, g) == \A u \in Threads : u # t => g[u] = f[u]

\* What a step of thread t makes of a count.
LEMMA SetMoves ==
  ASSUME NEW A, IsFiniteSet(A), Cardinality(A) \in Nat, NEW B, NEW t,
         \A u : u # t => (u \in A <=> u \in B)
  PROVE  Cardinality(B) = Cardinality(A) + In(t, B) - In(t, A)
<1>1. /\ (t \in A <=> t \in B) => B = A
      /\ t \notin A /\ t \in B => Cardinality(B) = Cardinality(A) + 1
      /\ t \in A /\ t \notin B => Cardinality(B) = Cardinality(A) - 1
  BY SetStep
<1> QED BY <1>1 DEF In

\* Of those at work on a job.
LEMMA AtWorkMoves ==
  ASSUME NEW t \in Threads, NEW f, NEW g, Moves(t, f, g), NEW n
  PROVE  Cardinality(AtWork(n, g)) =
           Cardinality(AtWork(n, f)) + In(t, AtWork(n, g)) - In(t, AtWork(n, f))
<1>1. \A u : u # t => (u \in AtWork(n, f) <=> u \in AtWork(n, g))
  BY DEF AtWork, Moves
<1> QED BY <1>1, CountTypes, SetMoves

\* Of those who have a target phrase to add.
LEMMA AddingMoves ==
  ASSUME NEW t \in Threads, NEW f, NEW g, Moves(t, f, g), NEW n, NEW x
  PROVE  Cardinality(Adding(n, x, g)) =
           Cardinality(Adding(n, x, f)) + In(t, Adding(n, x, g)) - In(t, Adding(n, x, f))
<1>1. \A u : u # t => (u \in Adding(n, x, f) <=> u \in Adding(n, x, g))
  BY DEF Adding, Moves
<1> QED BY <1>1, CountTypes, SetMoves

-----------------------------------------------------------------------------
(* Job records                                                             *)

\* Job b has the phrase and the sums of job a.
SameSums(a, b) ==
  /\ b \in Job /\ b.phrase = a.phrase
  /\ b.in_progress = a.in_progress /\ b.good = a.good /\ b.trg = a.trg

\* A worker comes or goes.
LEMMA Registered ==
  ASSUME NEW a \in Job, NEW d \in {-1, 1}, a.in_progress + d >= 0,
         NEW b, b = [a EXCEPT !.in_progress = @ + d]
  PROVE  /\ b \in Job /\ b.next = a.next /\ b.phrase = a.phrase
         /\ b.in_progress = a.in_progress + d
         /\ b.good = a.good /\ b.trg = a.trg /\ b.raw = a.raw /\ b.sampled = a.sampled
  BY DEF Job

\* get_job sends one to the job.
LEMMA Sent ==
  ASSUME NEW a \in Job, NEW b, b = [a EXCEPT !.workers = @ + 1]
  PROVE  SameSums(a, b) /\ b.next = a.next /\ b.raw = a.raw /\ b.sampled = a.sampled
  BY DEF Job, SameSums

\* The lock changes hands.
LEMMA Locked ==
  ASSUME NEW a \in Job, NEW l \in Threads \cup {None}, NEW b, b = [a EXCEPT !.lock = l]
  PROVE  SameSums(a, b) /\ b.next = a.next /\ b.raw = a.raw /\ b.sampled = a.sampled
  BY DEF Job, SameSums

\* An occurrence is read.
LEMMA Advanced ==
  ASSUME NEW a \in Job, NEW r \in Nat, NEW k \in Nat,
         NEW b, b = [a EXCEPT !.next = @ + 1, !.raw = r, !.ctr = k]
  PROVE  SameSums(a, b) /\ b.next = a.next + 1
<1>1. b = [phrase |-> a.phrase, next |-> a.next + 1, ctr |-> k, workers |-> a.workers,
           lock |-> a.lock, raw |-> r, sampled |-> a.sampled, good |-> a.good,
           trg |-> a.trg, in_progress |-> a.in_progress]
  BY DEF Job
<1> QED BY <1>1 DEF Job, SameSums

\* It is taken.
LEMMA Taken ==
  ASSUME NEW a \in Job, NEW b, b = [a EXCEPT !.lock = None, !.sampled = @ + 1]
  PROVE  SameSums(a, b) /\ b.next = a.next
<1>1. b = [phrase |-> a.phrase, next |-> a.next, ctr |-> a.ctr, workers |-> a.workers,
           lock |-> None, raw |-> a.raw, sampled |-> a.sampled + 1, good |-> a.good,
           trg |-> a.trg, in_progress |-> a.in_progress]
  BY DEF Job
<1> QED BY <1>1 DEF Job, SameSums

\* It is good.
LEMMA CountedGood ==
  ASSUME NEW a \in Job, NEW b, b = [a EXCEPT !.good = @ + 1]
  PROVE  /\ b \in Job /\ b.next = a.next /\ b.phrase = a.phrase
         /\ b.in_progress = a.in_progress /\ b.good = a.good + 1 /\ b.trg = a.trg
  BY DEF Job

\* Job b is job a with one more occurrence of target phrase x.
OneMore(a, b, x) ==
  /\ b \in Job /\ b.next = a.next /\ b.phrase = a.phrase
  /\ b.in_progress = a.in_progress /\ b.good = a.good
  /\ b.trg[x] = a.trg[x] + 1
  /\ \A y \in TargetPhrases : y # x => b.trg[y] = a.trg[y]

\* One of its target phrases is added.
LEMMA Added ==
  ASSUME NEW a \in Job, NEW x \in TargetPhrases
  PROVE  OneMore(a, [a EXCEPT !.trg[x] = @ + 1], x)
  BY DEF Job, OneMore

-----------------------------------------------------------------------------
(* The inductive invariant                                                 *)

ThreadState == [pc : ThreadPcs, job : Nat, todo : SUBSET TargetPhrases]
ClientState ==
  [pc : {"idle", "prep", "lookup", "wait", "asleep", "work"}, job : Nat,
   calls : Seq({"prep", "lookup"} \X Phrases)]

Types ==
  /\ max_samples \in SampleSizes /\ pooled \in BOOLEAN
  /\ ag \in BOOLEAN /\ shutdown \in BOOLEAN /\ joined \in BOOLEAN
  /\ jobs \in Seq(Job)
  /\ \A n \in DOMAIN jobs : jobs[n].next <= Len(Occurs[jobs[n].phrase])
  /\ joblist \subseteq DOMAIN jobs
  /\ cache \in [Phrases -> 0..Len(jobs)]
  /\ btlock \in Clients \cup {None}
  /\ thread \in [Threads -> ThreadState]
  /\ client \in [Clients -> ClientState]

\* Who is where, and with which job.
Places ==
  /\ \A t \in Threads : /\ thread[t].job \in 0..Len(jobs)
                        /\ thread[t].pc \in Working \cup {"register"} => thread[t].job # 0
  /\ \A c \in Clients : /\ client[c].job \in 0..Len(jobs)
                        /\ client[c].pc # "idle" => client[c].calls # <<>>
                        /\ client[c].pc \in {"lookup", "wait", "asleep", "work"} => ag
                        /\ client[c].pc # "work" => thread[c].pc = "off"
  /\ ~ag => \A t \in Threads : thread[t].pc = "off"

InProgress ==
  \A n \in DOMAIN jobs :
    jobs[n].in_progress = Cardinality(AtWork(n, thread)) + In(n, joblist)

\* A target phrase is counted after the occurrence.
Joint ==
  \A n \in DOMAIN jobs : \A x \in TargetPhrases :
    jobs[n].trg[x] + Cardinality(Adding(n, x, thread)) <= jobs[n].good

IInv == Types /\ Places /\ InProgress /\ Joint

\* The two sums, for threads g, jobs js and a list.
Balanced(g, js, list) ==
  \A n \in DOMAIN jobs :
    /\ js[n].in_progress = Cardinality(AtWork(n, g)) + In(n, list)
    /\ \A x \in TargetPhrases : js[n].trg[x] + Cardinality(Adding(n, x, g)) <= js[n].good

\* What thread t adds to one side of the sums, going to g, js and list, it adds to the other.
Weighed(t, g, js, list) ==
  \A n \in DOMAIN jobs :
    /\ js[n].in_progress = jobs[n].in_progress
         + In(t, AtWork(n, g)) - In(t, AtWork(n, thread)) + In(n, list) - In(n, joblist)
    /\ \A x \in TargetPhrases :
         js[n].trg[x] + In(t, Adding(n, x, g)) + jobs[n].good
           <= jobs[n].trg[x] + In(t, Adding(n, x, thread)) + js[n].good

\* The two sums after a step of a thread, from what the step does to the job.
LEMMA Balance ==
  ASSUME IInv, NEW t \in Threads, NEW g, Moves(t, thread, g),
         NEW js, js \in Seq(Job), Len(js) = Len(jobs), NEW list, Weighed(t, g, js, list)
  PROVE  Balanced(g, js, list)
<1> SUFFICES ASSUME NEW n \in DOMAIN jobs
             PROVE  /\ js[n].in_progress = Cardinality(AtWork(n, g)) + In(n, list)
                    /\ \A x \in TargetPhrases :
                         js[n].trg[x] + Cardinality(Adding(n, x, g)) <= js[n].good
  BY DEF Balanced
<1>1. jobs[n] \in Job /\ js[n] \in Job
  BY DEF IInv, Types
<1>2. \A x, A : In(x, A) \in {0, 1}
  BY DEF In
<1>3. /\ Cardinality(AtWork(n, thread)) \in Nat
      /\ \A x : Cardinality(Adding(n, x, thread)) \in Nat
  BY CountTypes
<1>4. /\ Cardinality(AtWork(n, g)) =
           Cardinality(AtWork(n, thread)) + In(t, AtWork(n, g)) - In(t, AtWork(n, thread))
      /\ \A x : Cardinality(Adding(n, x, g)) =
           Cardinality(Adding(n, x, thread)) + In(t, Adding(n, x, g)) - In(t, Adding(n, x, thread))
  BY AtWorkMoves, AddingMoves
<1>5. js[n].in_progress = Cardinality(AtWork(n, g)) + In(n, list)
  <2>1. jobs[n].in_progress = Cardinality(AtWork(n, thread)) + In(n, joblist)
    BY DEF IInv, InProgress
  <2>2. /\ jobs[n].in_progress \in Nat
        /\ js[n].in_progress = jobs[n].in_progress
             + In(t, AtWork(n, g)) - In(t, AtWork(n, thread)) + In(n, list) - In(n, joblist)
    BY <1>1 DEF Job, Weighed
  <2> QED BY <1>2, <1>3, <1>4, <2>1, <2>2
<1>6. ASSUME NEW x \in TargetPhrases
      PROVE  js[n].trg[x] + Cardinality(Adding(n, x, g)) <= js[n].good
  <2> DEFINE old == jobs[n].trg[x]
             new == js[n].trg[x]
  <2>1. old + Cardinality(Adding(n, x, thread)) <= jobs[n].good
    BY DEF IInv, Joint
  <2>2. /\ old \in Nat /\ new \in Nat /\ jobs[n].good \in Nat /\ js[n].good \in Nat
        /\ new + In(t, Adding(n, x, g)) + jobs[n].good
             <= old + In(t, Adding(n, x, thread)) + js[n].good
    BY <1>1 DEF Job, Weighed
  <2>3. /\ Cardinality(Adding(n, x, g)) =
             Cardinality(Adding(n, x, thread)) + In(t, Adding(n, x, g)) - In(t, Adding(n, x, thread))
        /\ Cardinality(Adding(n, x, thread)) \in Nat
        /\ In(t, Adding(n, x, g)) \in {0, 1} /\ In(t, Adding(n, x, thread)) \in {0, 1}
    BY <1>2, <1>3, <1>4
  <2> HIDE DEF old, new
  <2>4. new + Cardinality(Adding(n, x, g)) <= js[n].good
    BY <2>1, <2>2, <2>3, SMTT(30)
  <2> QED BY <2>4 DEF new
<1> QED BY <1>5, <1>6

\* The types before the step, of what it may leave alone.
LEMMA OldTypes ==
  ASSUME IInv
  PROVE  /\ thread \in [Threads -> ThreadState] /\ client \in [Clients -> ClientState]
         /\ ag \in BOOLEAN /\ shutdown \in BOOLEAN /\ joined \in BOOLEAN
         /\ btlock \in Clients \cup {None}
         /\ Clients \subseteq Threads
  BY DEF IInv, Types, Threads

-----------------------------------------------------------------------------
(* What a step does to a job                                               *)

\* Job b has been sampled as far as job a, or farther.
Later(a, b) ==
  /\ b.phrase = a.phrase
  /\ a.next = Len(Occurs[a.phrase]) => b.next = a.next
  /\ a.good <= b.good
  /\ \A x \in TargetPhrases : a.trg[x] <= b.trg[x]

\* For example as far.
LEMMA SameLater ==
  ASSUME NEW a \in Job, NEW b, b.phrase = a.phrase, b.next = a.next, b.good = a.good, b.trg = a.trg
  PROVE  Later(a, b)
<1>1. a.good \in Nat /\ \A x \in TargetPhrases : a.trg[x] \in Nat
  BY DEF Job
<1> QED BY <1>1 DEF Later

\* What was done and over remains so.
LEMMA OverRemains ==
  ASSUME NEW a \in Job, NEW b \in Job, Later(a, b), max_samples \in Nat
  PROVE  /\ Done(a) => Done(b)
         /\ ~MoreToSample(a) => ~MoreToSample(b)
<1>1. AtEnd(a) => AtEnd(b)
  BY DEF Later, AtEnd
<1>2. a.good \in Nat /\ b.good \in Nat /\ a.good <= b.good
  BY DEF Later, Job
<1>3. Diversity(a) \in Nat /\ Diversity(b) \in Nat /\ Diversity(a) <= Diversity(b)
  <2> DEFINE A == {x \in TargetPhrases : a.trg[x] > 0}
             B == {x \in TargetPhrases : b.trg[x] > 0}
  <2>1. IsFiniteSet(B) /\ A \subseteq B
    <3>1. \A x \in TargetPhrases : a.trg[x] \in Nat /\ b.trg[x] \in Nat /\ a.trg[x] <= b.trg[x]
      BY DEF Later, Job
    <3>2. B \subseteq TargetPhrases /\ IsFiniteSet(TargetPhrases)
      BY AgendaAssumption
    <3>3. IsFiniteSet(B)
      BY <3>2, FS_Subset
    <3> QED BY <3>1, <3>3
  <2>2. Cardinality(A) \in Nat /\ Cardinality(B) \in Nat /\ Cardinality(A) <= Cardinality(B)
    BY <2>1, FS_Subset, FS_CardinalityType
  <2> QED BY <2>2 DEF Diversity
<1>4. MinDiverse \in Nat
  BY AgendaAssumption
<1>5. Done(a) => Done(b)
  BY <1>1, <1>2 DEF Done
<1>6. MoreToSample(b) => MoreToSample(a)
  <2> DEFINE da == Diversity(a)
             db == Diversity(b)
  <2>1. da \in Nat /\ db \in Nat /\ da <= db
    BY <1>3
  <2>2. /\ MoreToSample(a) <=> ~AtEnd(a) /\ (max_samples = 0 \/ a.good < max_samples \/ da < MinDiverse)
        /\ MoreToSample(b) <=> ~AtEnd(b) /\ (max_samples = 0 \/ b.good < max_samples \/ db < MinDiverse)
    BY DEF MoreToSample
  <2> HIDE DEF da, db
  <2> QED BY <1>1, <1>2, <1>4, <2>1, <2>2
<1> QED BY <1>5, <1>6

\* Threads th have one that has not left the loop of step for job n; one that is counting.
OnIt(n, th) == \E t \in Threads : th[t].job = n /\ th[t].pc \in {"step", "count", "add"}
Counting(n, th) == \E t \in Threads : th[t].job = n /\ th[t].pc \in {"count", "add"}

SameStatistics(a, b) == b.raw = a.raw /\ b.sampled = a.sampled /\ b.good = a.good /\ b.trg = a.trg

\* What a step does to job n.
Effect(n) ==
  /\ n \in joblist' => n \in joblist
  /\ n \in joblist => n \in joblist' \/ Done(jobs[n])
  /\ Later(jobs[n], jobs'[n])
  /\ OnIt(n, thread') \/ (jobs'[n].next = jobs[n].next /\ jobs'[n].good = jobs[n].good)
  /\ OnIt(n, thread) => OnIt(n, thread') \/ ~MoreToSample(jobs[n])
  /\ \/ MoreToSample(jobs[n]) \/ Counting(n, thread)
     \/ SameStatistics(jobs[n], jobs'[n]) /\ (Counting(n, thread') => Counting(n, thread))

\* Nothing, if nobody who works on it takes the step.
LEMMA NoEffect ==
  ASSUME IInv, NEW n \in DOMAIN jobs,
         n \in joblist' => n \in joblist, n \in joblist => n \in joblist' \/ Done(jobs[n]),
         SameStatistics(jobs[n], jobs'[n]),
         jobs'[n].next = jobs[n].next, jobs'[n].phrase = jobs[n].phrase,
         \A u \in Threads : \/ thread'[u] = thread[u]
                            \/ thread'[u].pc \notin Working /\ thread[u].pc \notin Working
                            \/ thread'[u].job # n /\ thread[u].job # n
  PROVE  Effect(n)
<1>1. Later(jobs[n], jobs'[n])
  <2>1. jobs[n] \in Job
    BY DEF IInv, Types
  <2>2. jobs[n].good \in Nat /\ \A x \in TargetPhrases : jobs[n].trg[x] \in Nat
    BY <2>1 DEF Job
  <2> QED BY <2>2 DEF Later, SameStatistics
<1>2. OnIt(n, thread) => OnIt(n, thread')
  BY DEF OnIt, Working
<1>3. Counting(n, thread') => Counting(n, thread)
  BY DEF Counting, Working
<1> QED BY <1>1, <1>2, <1>3 DEF Effect, SameStatistics

\* Of a job nobody touches.
LEMMA UntouchedEffect ==
  ASSUME IInv, NEW n \in DOMAIN jobs, jobs'[n] = jobs[n], n \in joblist' <=> n \in joblist,
         \A u \in Threads : \/ thread'[u] = thread[u]
                            \/ thread'[u].pc \notin Working /\ thread[u].pc \notin Working
                            \/ thread'[u].job # n /\ thread[u].job # n
  PROVE  Effect(n)
  BY NoEffect DEF SameStatistics

\* Thread t works on its job and goes on to s, without a change of the list.
Moved(t, s) ==
  /\ thread' = [thread EXCEPT ![t] = s] /\ UNCHANGED joblist
  /\ s.job \in {0, thread[t].job} /\ (s.job = 0 => s.pc \notin Working)

\* Of a worker on other jobs than its own.
LEMMA OtherEffect ==
  ASSUME IInv, NEW t \in Threads, NEW j, NEW s, Moved(t, s),
         jobs' = [jobs EXCEPT ![thread[t].job] = j], NEW n \in DOMAIN jobs, n # thread[t].job
  PROVE  Effect(n)
<1>1. n # 0 /\ jobs'[n] = jobs[n]
  BY DEF IInv, Types
<1>2. thread'[t] = s /\ \A u \in Threads : u # t => thread'[u] = thread[u]
  BY OldTypes DEF Moved
<1> QED BY <1>1, <1>2, UntouchedEffect DEF Moved

\* On its own.
LEMMA OwnEffect ==
  ASSUME IInv, NEW t \in Threads, NEW j \in Job, NEW s, Moved(t, s),
         jobs' = [jobs EXCEPT ![thread[t].job] = j], thread[t].job \in DOMAIN jobs,
         Later(jobs[thread[t].job], j),
         \/ s.pc \in {"step", "count", "add"} /\ s.job = thread[t].job
         \/ j.next = jobs[thread[t].job].next /\ j.good = jobs[thread[t].job].good,
         thread[t].pc \in {"step", "count", "add"} =>
           (s.pc \in {"step", "count", "add"} /\ s.job = thread[t].job) \/ ~MoreToSample(jobs[thread[t].job]),
         \/ MoreToSample(jobs[thread[t].job]) \/ thread[t].pc \in {"count", "add"}
         \/ SameStatistics(jobs[thread[t].job], j) /\ s.pc \notin {"count", "add"}
  PROVE  Effect(thread[t].job)
<1> DEFINE n == thread[t].job
<1>1. jobs'[n] = j
  BY DEF IInv, Types
<1>2. thread'[t] = s /\ \A u \in Threads : u # t => thread'[u] = thread[u]
  BY OldTypes DEF Moved
<1>3. s.pc \in {"step", "count", "add"} /\ s.job = n => OnIt(n, thread')
  BY <1>2 DEF OnIt
<1>4. OnIt(n, thread) => OnIt(n, thread') \/ thread[t].pc \in {"step", "count", "add"}
  BY <1>2 DEF OnIt
<1>5. s.pc \notin {"count", "add"} => (Counting(n, thread') => Counting(n, thread))
  BY <1>2 DEF Counting
<1>6. thread[t].pc \in {"count", "add"} => Counting(n, thread)
  BY DEF Counting
<1> QED BY <1>1, <1>3, <1>4, <1>5, <1>6 DEF Effect, Moved

-----------------------------------------------------------------------------
(* Steps of a thread that has a job                                        *)

\* What thread state s counts for, on its own job.
OwnWork(s) == IF s.pc \in Working THEN 1 ELSE 0
OwnAdd(s, x) == IF s.pc = "add" /\ x \in s.todo THEN 1 ELSE 0

\* Clients are at most woken.
ClientsKept ==
  /\ client' \in [Clients -> ClientState]
  /\ \A c \in Clients : /\ client'[c].job = client[c].job /\ client'[c].calls = client[c].calls
                        /\ \/ client'[c].pc = client[c].pc
                           \/ client[c].pc = "asleep" /\ client'[c].pc = "wait"

Rest == <<config, ag, cache, btlock, shutdown, joined>>

\* The job of t becomes j and t goes on to s.
WorkStep(t, j, s) ==
  /\ jobs' = [jobs EXCEPT ![thread[t].job] = j]
  /\ thread' = [thread EXCEPT ![t] = s]
  /\ joblist' = joblist /\ UNCHANGED Rest /\ ClientsKept
  /\ j \in Job /\ j.next <= Len(Occurs[j.phrase])
  /\ s \in ThreadState /\ s.job \in {0, thread[t].job}
  /\ s.pc \in Working => s.job = thread[t].job
  /\ s.pc # "register" /\ thread[t].pc \in Working \cup {"register"}

\* The sums for its job remain right.
WorkBalance(t, j, s) ==
  /\ j.in_progress = jobs[thread[t].job].in_progress + OwnWork(s) - OwnWork(thread[t])
  /\ \A x \in TargetPhrases :
       j.trg[x] + OwnAdd(s, x) + jobs[thread[t].job].good
         <= jobs[thread[t].job].trg[x] + OwnAdd(thread[t], x) + j.good

\* What it does to its job and where it is then.
WorkProgress(t, j, s) ==
  LET a == jobs[thread[t].job]
      Loop == {"step", "count", "add"}
  IN  /\ Later(a, j)
      /\ s.pc \in Loop \/ (j.next = a.next /\ j.good = a.good)
      /\ thread[t].pc \in Loop => s.pc \in Loop \/ ~MoreToSample(a)
      /\ \/ MoreToSample(a) \/ thread[t].pc \in {"count", "add"}
         \/ SameStatistics(a, j) /\ s.pc \notin {"count", "add"}

Effects == \A n \in DOMAIN jobs : Effect(n)

\* A record of the sequence of jobs is replaced.
LEMMA JobReplaced ==
  ASSUME jobs \in Seq(Job), NEW n \in DOMAIN jobs, NEW j \in Job
  PROVE  /\ [jobs EXCEPT ![n] = j] \in Seq(Job)
         /\ Len([jobs EXCEPT ![n] = j]) = Len(jobs)
         /\ \A m \in DOMAIN jobs : [jobs EXCEPT ![n] = j][m] = IF m = n THEN j ELSE jobs[m]
  BY ExceptSeq

\* A thread that has a job to work on: what there is to know of both.
LEMMA JobInHand ==
  ASSUME IInv, NEW t \in Threads, thread[t].pc \in Working \cup {"register"}
  PROVE  /\ thread[t].job \in DOMAIN jobs /\ jobs[thread[t].job] \in Job
         /\ jobs[thread[t].job].next <= Len(Occurs[jobs[thread[t].job].phrase])
         /\ thread[t] \in ThreadState
  BY SMTT(30) DEF IInv, Types, Places

\* Such a step keeps the invariant.
LEMMA WorkStepKeeps ==
  ASSUME IInv, NEW t \in Threads, NEW j, NEW s, WorkStep(t, j, s), WorkBalance(t, j, s)
  PROVE  IInv'
<1> DEFINE n == thread[t].job
           g == thread'
           js == jobs'
<1>1. n \in DOMAIN jobs /\ jobs \in Seq(Job) /\ j \in Job /\ n \in 0..Len(jobs) /\ n # 0
  BY DEF IInv, Types, Places, WorkStep
<1>2. /\ js \in Seq(Job) /\ Len(js) = Len(jobs)
      /\ DOMAIN js = DOMAIN jobs
      /\ \A m \in DOMAIN jobs : js[m] = IF m = n THEN j ELSE jobs[m]
  <2>1. js = [jobs EXCEPT ![n] = j]
    BY DEF WorkStep
  <2> HIDE DEF n, js
  <2> QED BY <1>1, <2>1, JobReplaced
<1>3. /\ g \in [Threads -> ThreadState] /\ g[t] = s
      /\ \A u \in Threads : u # t => g[u] = thread[u]
  BY DEF IInv, Types, WorkStep
<1>4. Types'
  <2>1. \A m \in DOMAIN js : js[m].next <= Len(Occurs[js[m].phrase])
    BY <1>2 DEF IInv, Types, WorkStep
  <2> QED BY <1>2, <1>3, <2>1 DEF IInv, Types, WorkStep, ClientsKept, Rest, config
<1>5. Places'
  <2>1. \A u \in Threads : /\ g[u].job \in 0..Len(js)
                           /\ g[u].pc \in Working \cup {"register"} => g[u].job # 0
    <3> SUFFICES ASSUME NEW u \in Threads
                 PROVE  /\ g[u].job \in 0..Len(js)
                        /\ g[u].pc \in Working \cup {"register"} => g[u].job # 0
      OBVIOUS
    <3>1. CASE u = t
      BY <1>1, <1>2, <1>3, <3>1 DEF WorkStep
    <3>2. CASE u # t
      BY <1>2, <1>3, <3>2 DEF IInv, Places
    <3> QED BY <3>1, <3>2
  <2>2. thread[t].pc # "off" /\ ag' = ag /\ ag \in BOOLEAN
    BY DEF WorkStep, Working, Rest, IInv, Types
  <2>3. ag
    BY <2>2 DEF IInv, Places
  <2>4. \A c \in Clients : /\ client'[c].job \in 0..Len(js)
                           /\ client'[c].pc # "idle" => client'[c].calls # <<>>
                           /\ client'[c].pc # "work" => g[c].pc = "off"
    <3> SUFFICES ASSUME NEW c \in Clients
                 PROVE  /\ client'[c].job \in 0..Len(js)
                        /\ client'[c].pc # "idle" => client'[c].calls # <<>>
                        /\ client'[c].pc # "work" => g[c].pc = "off"
      OBVIOUS
    <3>1. client'[c].pc # "work" => client[c].pc # "work"
      BY DEF WorkStep, ClientsKept
    <3>2. client[c].pc # "work" => thread[c].pc = "off"
      BY DEF IInv, Places
    <3>3. c \in Threads
      BY DEF Threads
    <3>4. client'[c].pc # "work" => g[c].pc = "off"
      BY <1>3, <2>2, <3>1, <3>2, <3>3
    <3>5. client'[c].pc # "idle" => client[c].pc # "idle"
      BY DEF WorkStep, ClientsKept
    <3> QED BY <1>2, <3>4, <3>5 DEF IInv, Places, WorkStep, ClientsKept
  <2> QED BY <2>1, <2>2, <2>3, <2>4 DEF Places
<1>6. ASSUME NEW m \in DOMAIN jobs
      PROVE  /\ js[m].in_progress = jobs[m].in_progress
                  + In(t, AtWork(m, g)) - In(t, AtWork(m, thread)) + In(m, joblist) - In(m, joblist)
             /\ \A x \in TargetPhrases :
                  js[m].trg[x] + In(t, Adding(m, x, g)) + jobs[m].good
                    <= jobs[m].trg[x] + In(t, Adding(m, x, thread)) + js[m].good
  <2>0. jobs[m] \in Job /\ In(m, joblist) \in {0, 1} /\ m # 0
    BY <1>1 DEF In
  <2>1. CASE m = n
    <3>1. In(t, AtWork(m, thread)) = OwnWork(thread[t]) /\ In(t, AtWork(m, g)) = OwnWork(s)
      BY <1>3, <2>1 DEF In, AtWork, OwnWork, WorkStep
    <3>2. \A x : In(t, Adding(m, x, thread)) = OwnAdd(thread[t], x) /\ In(t, Adding(m, x, g)) = OwnAdd(s, x)
      BY <1>3, <2>1 DEF In, Adding, OwnAdd, WorkStep, Working
    <3>3. js[m] = j
      BY <1>2, <2>1
    <3>4. js[m].in_progress = jobs[m].in_progress + OwnWork(s) - OwnWork(thread[t])
      BY <2>1, <3>3 DEF WorkBalance
    <3>5. jobs[m].in_progress \in Nat /\ OwnWork(s) \in {0, 1} /\ OwnWork(thread[t]) \in {0, 1}
      BY <2>0 DEF Job, OwnWork
    <3>6. js[m].in_progress = jobs[m].in_progress
            + In(t, AtWork(m, g)) - In(t, AtWork(m, thread)) + In(m, joblist) - In(m, joblist)
      <4> HIDE DEF js, n, g
      <4> QED BY <2>0, <3>1, <3>4, <3>5
    <3>7. \A x \in TargetPhrases :
            js[m].trg[x] + In(t, Adding(m, x, g)) + jobs[m].good
              <= jobs[m].trg[x] + In(t, Adding(m, x, thread)) + js[m].good
      BY <2>1, <3>2, <3>3 DEF WorkBalance
    <3> QED BY <3>6, <3>7
  <2>2. CASE m # n
    <3>1. js[m] = jobs[m]
      BY <1>2, <2>2
    <3>2. t \notin AtWork(m, thread) /\ t \notin AtWork(m, g)
      BY <1>3, <2>0, <2>2 DEF AtWork, WorkStep
    <3>3. \A x : t \notin Adding(m, x, thread) /\ t \notin Adding(m, x, g)
      BY <1>3, <2>0, <2>2 DEF Adding, WorkStep
    <3>4. /\ In(t, AtWork(m, thread)) = 0 /\ In(t, AtWork(m, g)) = 0
          /\ \A x : In(t, Adding(m, x, thread)) = 0 /\ In(t, Adding(m, x, g)) = 0
      BY <3>2, <3>3 DEF In
    <3>5. jobs[m].in_progress \in Nat /\ jobs[m].good \in Nat /\ jobs[m].trg \in [TargetPhrases -> Nat]
      BY <2>0 DEF Job
    <3> HIDE DEF js, n, g
    <3> QED BY <2>0, <3>1, <3>4, <3>5
  <2> QED BY <2>1, <2>2
<1>7. Moves(t, thread, g)
  BY <1>3 DEF Moves
<1>8. Weighed(t, g, js, joblist)
  BY <1>6 DEF Weighed
<1>9. Balanced(g, js, joblist)
  <2> HIDE DEF js, g, n
  <2> QED BY <1>2, <1>7, <1>8, Balance
<1>10. InProgress' /\ Joint'
  BY <1>2, <1>9 DEF InProgress, Joint, WorkStep, Balanced
<1> QED BY <1>4, <1>5, <1>10 DEF IInv

\* And has an effect on its job only.
LEMMA WorkStepEffects ==
  ASSUME IInv, NEW t \in Threads, NEW j, NEW s, WorkStep(t, j, s), WorkProgress(t, j, s)
  PROVE  Effects
<1>1. thread[t].job \in DOMAIN jobs /\ thread[t].job # 0 /\ j \in Job
  BY JobInHand DEF WorkStep, IInv, Places
<1>2. Moved(t, s) /\ jobs' = [jobs EXCEPT ![thread[t].job] = j]
  BY <1>1 DEF WorkStep, Moved
<1>3. Effect(thread[t].job)
  <2>1. s.pc \in {"step", "count", "add"} => s.job = thread[t].job
    BY DEF WorkStep, Working
  <2>2. /\ Later(jobs[thread[t].job], j)
        /\ \/ s.pc \in {"step", "count", "add"} /\ s.job = thread[t].job
           \/ j.next = jobs[thread[t].job].next /\ j.good = jobs[thread[t].job].good
        /\ thread[t].pc \in {"step", "count", "add"} =>
             (s.pc \in {"step", "count", "add"} /\ s.job = thread[t].job)
               \/ ~MoreToSample(jobs[thread[t].job])
        /\ \/ MoreToSample(jobs[thread[t].job]) \/ thread[t].pc \in {"count", "add"}
           \/ SameStatistics(jobs[thread[t].job], j) /\ s.pc \notin {"count", "add"}
    BY <2>1 DEF WorkProgress
  <2> QED BY <1>1, <1>2, <2>2, OwnEffect
<1>4. ASSUME NEW n \in DOMAIN jobs, n # thread[t].job
      PROVE  Effect(n)
  BY <1>2, <1>4, OtherEffect
<1> QED BY <1>3, <1>4 DEF Effects

\* Nobody is woken, or those are who have waited for the released jobs.
LEMMA ClientsAreKept ==
  ASSUME IInv, NEW R, UNCHANGED client \/ client' = Woken(R)
  PROVE  ClientsKept
<1>1. client \in [Clients -> ClientState]
  BY DEF IInv, Types
<1>2. CASE UNCHANGED client
  BY <1>1, <1>2 DEF ClientsKept
<1>3. CASE client' = Woken(R)
  <2> SUFFICES ASSUME NEW c \in Clients
               PROVE  /\ client'[c] \in ClientState
                      /\ client'[c].job = client[c].job /\ client'[c].calls = client[c].calls
                      /\ \/ client'[c].pc = client[c].pc
                         \/ client[c].pc = "asleep" /\ client'[c].pc = "wait"
    BY <1>3 DEF ClientsKept, Woken
  <2>1. \/ client'[c] = client[c]
        \/ (client'[c] = [client[c] EXCEPT !.pc = "wait"]) /\ client[c].pc = "asleep"
    BY <1>3 DEF Woken
  <2> QED BY <1>1, <2>1 DEF ClientState
<1> QED BY <1>2, <1>3

\* register_worker.
LEMMA RegisterKeeps ==
  ASSUME IInv, NEW t \in Threads, RegisterWorker(t)
  PROVE  IInv' /\ Effects
<1> DEFINE j == [jobs[thread[t].job] EXCEPT !.in_progress = @ + 1]
           s == [thread[t] EXCEPT !.pc = "step"]
<1>1. thread[t].pc = "register"
  BY DEF RegisterWorker
<1>2. /\ thread[t].job \in DOMAIN jobs /\ jobs[thread[t].job] \in Job
      /\ jobs[thread[t].job].next <= Len(Occurs[jobs[thread[t].job].phrase])
      /\ thread[t] \in ThreadState
  BY <1>1, JobInHand
<1>3. ClientsKept
  BY ClientsAreKept DEF RegisterWorker
<1>4. /\ s \in ThreadState /\ s.job = thread[t].job /\ s.pc = "step"
  BY <1>2 DEF ThreadState, ThreadPcs
<1>5. /\ j \in Job /\ j.next = jobs[thread[t].job].next /\ j.phrase = jobs[thread[t].job].phrase
      /\ j.in_progress = jobs[thread[t].job].in_progress + 1
      /\ j.trg = jobs[thread[t].job].trg /\ j.good = jobs[thread[t].job].good
      /\ j.raw = jobs[thread[t].job].raw /\ j.sampled = jobs[thread[t].job].sampled
  <2> DEFINE a == jobs[thread[t].job]
  <2>1. 1 \in {-1, 1} /\ a.in_progress + 1 >= 0 /\ a \in Job
    BY <1>2 DEF Job
  <2>2. j = [a EXCEPT !.in_progress = @ + 1]
    OBVIOUS
  <2> HIDE DEF a, j
  <2>3. /\ j \in Job /\ j.next = a.next /\ j.phrase = a.phrase
        /\ j.in_progress = a.in_progress + 1
        /\ j.good = a.good /\ j.trg = a.trg /\ j.raw = a.raw /\ j.sampled = a.sampled
    BY <2>1, <2>2, Registered
  <2> QED BY <2>3 DEF a
<1>6. jobs' = [jobs EXCEPT ![thread[t].job] = j] /\ thread' = [thread EXCEPT ![t] = s]
  BY DEF RegisterWorker
<1>7. joblist' = joblist /\ UNCHANGED Rest
  BY DEF RegisterWorker, Rest, config
<1> HIDE DEF j, s
<1>8. WorkStep(t, j, s)
  BY <1>1, <1>2, <1>3, <1>4, <1>5, <1>6, <1>7 DEF WorkStep, Working
<1>9. WorkBalance(t, j, s)
  <2>1. OwnWork(s) = 1 /\ OwnWork(thread[t]) = 0
    BY <1>1, <1>4 DEF OwnWork, Working
  <2>2. \A x : OwnAdd(s, x) = 0 /\ OwnAdd(thread[t], x) = 0
    BY <1>1, <1>4 DEF OwnAdd
  <2> QED BY <1>2, <1>5, <2>1, <2>2 DEF WorkBalance, Job
<1>10. WorkProgress(t, j, s)
  <2>1. Later(jobs[thread[t].job], j)
    BY <1>2, <1>5, SameLater
  <2> QED BY <1>1, <1>4, <1>5, <2>1 DEF WorkProgress, SameStatistics
<1> QED BY <1>8, <1>9, <1>10, WorkStepKeeps, WorkStepEffects

\* job::step takes an occurrence or skips it.
LEMMA StepKeeps ==
  ASSUME IInv, NEW t \in Threads, Step(t)
  PROVE  IInv' /\ Effects
<1> DEFINE n == thread[t].job
           a == jobs[n]
           raw == IF a.raw = a.ctr THEN a.raw + 1 ELSE a.raw
           ctr == IF max_samples = 0 THEN a.ctr ELSE a.ctr + 1
           read == [a EXCEPT !.next = @ + 1, !.raw = raw, !.ctr = ctr]
           found == Occurs[a.phrase][read.next]
           skip == [read EXCEPT !.lock = t]
           take == [read EXCEPT !.lock = None, !.sampled = @ + 1]
           on == [thread[t] EXCEPT !.pc = IF found = {} THEN "step" ELSE "count", !.todo = found]
<1>1. thread[t].pc = "step" /\ thread[t].pc \in Working \cup {"register"}
  BY DEF Step, Working
<1>2. /\ n \in DOMAIN jobs /\ a \in Job /\ a.next <= Len(Occurs[a.phrase])
      /\ thread[t] \in ThreadState
  BY <1>1, JobInHand
<1>3. raw \in Nat /\ ctr \in Nat
  <2>1. a.raw \in Nat /\ a.ctr \in Nat
    BY <1>2 DEF Job
  <2> HIDE DEF a
  <2> QED BY <2>1
<1>4. SameSums(a, read) /\ read.next = a.next + 1
  <2> HIDE DEF a, raw, ctr
  <2> QED BY <1>2, <1>3, Advanced
<1>5. read.next <= Len(Occurs[a.phrase]) /\ found \in SUBSET TargetPhrases
  <2>1. a.next # Len(Occurs[a.phrase])
    BY DEF Step, MoreToSample, AtEnd
  <2>2. /\ a.next \in Nat /\ a.phrase \in Phrases
        /\ Occurs[a.phrase] \in Seq(SUBSET TargetPhrases)
    BY <1>2, AgendaAssumption DEF Job
  <2> HIDE DEF a, read
  <2>3. read.next \in 1..Len(Occurs[a.phrase])
    BY <1>2, <1>4, <2>1, <2>2
  <2> QED BY <2>2, <2>3
<1>6. ClientsKept /\ joblist' = joblist /\ UNCHANGED Rest
  BY ClientsAreKept DEF Step, Rest, config
<1>7. \/ jobs' = [jobs EXCEPT ![n] = skip] /\ thread' = thread
      \/ jobs' = [jobs EXCEPT ![n] = take] /\ thread' = [thread EXCEPT ![t] = on]
  BY DEF Step
<1>8. thread = [thread EXCEPT ![t] = thread[t]]
  BY DEF IInv, Types
<1>9. /\ on \in ThreadState /\ on.job = n /\ on.pc \in {"step", "count"}
  BY <1>2, <1>5 DEF ThreadState, ThreadPcs
<1> HIDE DEF n, a, raw, ctr, read, found, on
<1>10. /\ SameSums(a, skip) /\ skip.next = read.next
       /\ SameSums(a, take) /\ take.next = read.next
  <2>1. SameSums(read, skip) /\ skip.next = read.next
    BY <1>4, Locked DEF SameSums
  <2>2. SameSums(read, take) /\ take.next = read.next
    BY <1>4, Taken DEF SameSums
  <2> QED BY <1>4, <2>1, <2>2 DEF SameSums
<1> HIDE DEF skip, take
<1>11. n = thread[t].job
  BY DEF n
<1>12. a.next # Len(Occurs[a.phrase])
  BY DEF Step, MoreToSample, AtEnd, a, n
<1>13. ASSUME NEW j, NEW s, SameSums(a, j), j.next = read.next,
              s \in ThreadState, s.job = n, s.pc \in {"step", "count"},
              jobs' = [jobs EXCEPT ![n] = j], thread' = [thread EXCEPT ![t] = s]
       PROVE  IInv' /\ Effects
  <2>1. WorkStep(t, j, s)
    BY <1>1, <1>5, <1>6, <1>13 DEF WorkStep, SameSums, Working, n
  <2>2. WorkBalance(t, j, s)
    <3>1. OwnWork(s) = 1 /\ OwnWork(thread[t]) = 1
      BY <1>1, <1>13 DEF OwnWork, Working
    <3>2. \A x : OwnAdd(s, x) = 0 /\ OwnAdd(thread[t], x) = 0
      BY <1>1, <1>13 DEF OwnAdd
    <3>3. j.in_progress = a.in_progress /\ j.good = a.good /\ j.trg = a.trg
      BY <1>13 DEF SameSums
    <3>4. a.in_progress \in Nat /\ a.good \in Nat /\ a.trg \in [TargetPhrases -> Nat]
      BY <1>2 DEF Job
    <3> QED BY <3>1, <3>2, <3>3, <3>4 DEF WorkBalance, a, n
  <2>3. WorkProgress(t, j, s)
    <3>1. Later(a, j)
      <4>1. a.good \in Nat /\ \A x \in TargetPhrases : a.trg[x] \in Nat
        BY <1>2 DEF Job
      <4> QED BY <1>13, <1>12, <4>1 DEF Later, SameSums
    <3>2. MoreToSample(a)
      BY <1>11 DEF Step, a
    <3> QED BY <1>13, <1>11, <3>1, <3>2 DEF WorkProgress, a
  <2> QED BY <2>1, <2>2, <2>3, WorkStepKeeps, WorkStepEffects
<1>14. CASE jobs' = [jobs EXCEPT ![n] = skip] /\ thread' = thread
  BY <1>1, <1>2, <1>8, <1>10, <1>13, <1>11, <1>14
<1>15. CASE jobs' = [jobs EXCEPT ![n] = take] /\ thread' = [thread EXCEPT ![t] = on]
  BY <1>9, <1>10, <1>13, <1>15
<1> QED BY <1>7, <1>14, <1>15

\* The end of job::step.
LEMMA StepEndsKeeps ==
  ASSUME IInv, NEW t \in Threads, StepEnds(t)
  PROVE  IInv' /\ Effects
<1> DEFINE a == jobs[thread[t].job]
           j == [a EXCEPT !.lock = None]
           s == [thread[t] EXCEPT !.pc = "release"]
<1>1. thread[t].pc = "step" /\ thread[t].pc \in Working \cup {"register"}
  BY DEF StepEnds, Working
<1>2. /\ a \in Job /\ a.next <= Len(Occurs[a.phrase]) /\ thread[t] \in ThreadState
  BY <1>1, JobInHand
<1>3. ClientsKept /\ joblist' = joblist /\ UNCHANGED Rest
  BY ClientsAreKept DEF StepEnds, Rest, config
<1>4. s \in ThreadState /\ s.job = thread[t].job /\ s.pc = "release"
  BY <1>2 DEF ThreadState, ThreadPcs
<1>5. jobs' = [jobs EXCEPT ![thread[t].job] = j] /\ thread' = [thread EXCEPT ![t] = s]
  BY DEF StepEnds
<1>6. SameSums(a, j) /\ j.next = a.next /\ j.raw = a.raw /\ j.sampled = a.sampled
  <2> HIDE DEF a
  <2> QED BY <1>2, Locked
<1>7. a = jobs[thread[t].job]
  OBVIOUS
<1> HIDE DEF j, s, a
<1>8. WorkStep(t, j, s)
  BY <1>1, <1>2, <1>3, <1>4, <1>5, <1>6 DEF WorkStep, SameSums, Working
<1>9. WorkBalance(t, j, s)
  <2>1. OwnWork(s) = 1 /\ OwnWork(thread[t]) = 1
    BY <1>1, <1>4 DEF OwnWork, Working
  <2>2. \A x : OwnAdd(s, x) = 0 /\ OwnAdd(thread[t], x) = 0
    BY <1>1, <1>4 DEF OwnAdd
  <2>3. a.in_progress \in Nat /\ a.good \in Nat /\ a.trg \in [TargetPhrases -> Nat]
    BY <1>2 DEF Job
  <2> QED BY <1>6, <1>7, <2>1, <2>2, <2>3 DEF WorkBalance, SameSums
<1>10. WorkProgress(t, j, s)
  <2>1. Later(a, j)
    BY <1>2, <1>6, SameLater DEF SameSums
  <2>2. ~MoreToSample(a)
    BY <1>7 DEF StepEnds
  <2> QED BY <1>1, <1>4, <1>6, <1>7, <2>1, <2>2 DEF WorkProgress, SameStatistics, SameSums
<1> QED BY <1>8, <1>9, <1>10, WorkStepKeeps, WorkStepEffects

\* An occurrence is counted; then its target phrases are.
LEMMA CountGoodKeeps ==
  ASSUME IInv, NEW t \in Threads, CountGood(t)
  PROVE  IInv' /\ Effects
<1> DEFINE a == jobs[thread[t].job]
           j == [a EXCEPT !.good = @ + 1]
           s == [thread[t] EXCEPT !.pc = "add"]
<1>1. thread[t].pc = "count" /\ thread[t].pc \in Working \cup {"register"}
  BY DEF CountGood, Working
<1>2. /\ a \in Job /\ a.next <= Len(Occurs[a.phrase]) /\ thread[t] \in ThreadState
  BY <1>1, JobInHand
<1>3. ClientsKept /\ joblist' = joblist /\ UNCHANGED Rest
  BY ClientsAreKept DEF CountGood, Rest, config
<1>4. s \in ThreadState /\ s.job = thread[t].job /\ s.pc = "add"
  BY <1>2 DEF ThreadState, ThreadPcs
<1>5. jobs' = [jobs EXCEPT ![thread[t].job] = j] /\ thread' = [thread EXCEPT ![t] = s]
  BY DEF CountGood
<1>6. /\ j \in Job /\ j.next = a.next /\ j.phrase = a.phrase
      /\ j.in_progress = a.in_progress /\ j.good = a.good + 1 /\ j.trg = a.trg
  <2> HIDE DEF a
  <2> QED BY <1>2, CountedGood
<1>7. a = jobs[thread[t].job]
  OBVIOUS
<1> HIDE DEF j, s, a
<1>8. WorkStep(t, j, s)
  BY <1>1, <1>2, <1>3, <1>4, <1>5, <1>6 DEF WorkStep, Working
<1>9. WorkBalance(t, j, s)
  <2>1. OwnWork(s) = 1 /\ OwnWork(thread[t]) = 1
    BY <1>1, <1>4 DEF OwnWork, Working
  <2>2. \A x : OwnAdd(s, x) \in {0, 1} /\ OwnAdd(thread[t], x) = 0
    BY <1>1, <1>4 DEF OwnAdd
  <2>3. a.in_progress \in Nat /\ a.good \in Nat /\ a.trg \in [TargetPhrases -> Nat]
    BY <1>2 DEF Job
  <2> QED BY <1>6, <1>7, <2>1, <2>2, <2>3 DEF WorkBalance
<1>10. WorkProgress(t, j, s)
  <2>1. a.good \in Nat /\ \A x \in TargetPhrases : a.trg[x] \in Nat
    BY <1>2 DEF Job
  <2>2. Later(a, j)
    BY <1>6, <2>1 DEF Later
  <2> QED BY <1>1, <1>4, <1>7, <2>2 DEF WorkProgress
<1> QED BY <1>8, <1>9, <1>10, WorkStepKeeps, WorkStepEffects

\* pstats::add.
LEMMA AddPairKeeps ==
  ASSUME IInv, NEW t \in Threads, AddPair(t)
  PROVE  IInv' /\ Effects
<1>0. PICK target \in thread[t].todo :
        /\ jobs' = [jobs EXCEPT ![thread[t].job].trg[target] = @ + 1]
        /\ thread' = [thread EXCEPT ![t].todo = @ \ {target},
                                    ![t].pc = IF thread[t].todo = {target} THEN "step" ELSE "add"]
  BY DEF AddPair
<1> DEFINE a == jobs[thread[t].job]
           j == [a EXCEPT !.trg[target] = @ + 1]
           s == [thread[t] EXCEPT !.todo = @ \ {target},
                                  !.pc = IF thread[t].todo = {target} THEN "step" ELSE "add"]
<1>1. thread[t].pc = "add" /\ thread[t].pc \in Working \cup {"register"}
  BY DEF AddPair, Working
<1>2. /\ a \in Job /\ a.next <= Len(Occurs[a.phrase]) /\ thread[t] \in ThreadState
  BY <1>1, JobInHand
<1>3. ClientsKept /\ joblist' = joblist /\ UNCHANGED Rest
  BY ClientsAreKept DEF AddPair, Rest, config
<1>4. /\ s \in ThreadState /\ s.job = thread[t].job /\ s.pc \in {"step", "add"}
      /\ s.todo = thread[t].todo \ {target} /\ target \in TargetPhrases
  BY <1>2 DEF ThreadState, ThreadPcs
<1>5. jobs' = [jobs EXCEPT ![thread[t].job] = j] /\ thread' = [thread EXCEPT ![t] = s]
  BY <1>0
<1>6. /\ j \in Job /\ j.next = a.next /\ j.phrase = a.phrase
      /\ j.in_progress = a.in_progress /\ j.good = a.good
      /\ j.trg[target] = a.trg[target] + 1
      /\ \A y \in TargetPhrases : y # target => j.trg[y] = a.trg[y]
  <2>1. OneMore(a, j, target)
    <3> HIDE DEF a, s
    <3> QED BY <1>2, <1>4, Added
  <2> QED BY <2>1 DEF OneMore
<1>7. a = jobs[thread[t].job]
  OBVIOUS
<1> HIDE DEF j, s, a
<1>8. WorkStep(t, j, s)
  BY <1>1, <1>2, <1>3, <1>4, <1>5, <1>6 DEF WorkStep, Working
<1>9. WorkBalance(t, j, s)
  <2>1. OwnWork(s) = 1 /\ OwnWork(thread[t]) = 1
    BY <1>1, <1>4 DEF OwnWork, Working
  <2>2. /\ OwnAdd(s, target) = 0 /\ OwnAdd(thread[t], target) = 1
        /\ \A x : /\ OwnAdd(s, x) <= OwnAdd(thread[t], x)
                  /\ OwnAdd(s, x) \in {0, 1} /\ OwnAdd(thread[t], x) \in {0, 1}
    BY <1>1, <1>4 DEF OwnAdd
  <2>3. a.in_progress \in Nat /\ a.good \in Nat /\ a.trg \in [TargetPhrases -> Nat]
    BY <1>2 DEF Job
  <2>4. j.in_progress = a.in_progress + OwnWork(s) - OwnWork(thread[t])
    BY <1>6, <2>1, <2>3
  <2>5. ASSUME NEW x \in TargetPhrases
        PROVE  j.trg[x] + OwnAdd(s, x) + a.good <= a.trg[x] + OwnAdd(thread[t], x) + j.good
    <3>1. j.trg[x] + OwnAdd(s, x) <= a.trg[x] + OwnAdd(thread[t], x) /\ a.trg[x] \in Nat
      BY <1>4, <1>6, <2>2, <2>3
    <3>2. j.trg[x] \in Nat
      BY <1>6 DEF Job
    <3> QED BY <1>6, <2>2, <2>3, <3>1, <3>2
  <2> QED BY <1>7, <2>4, <2>5 DEF WorkBalance
<1>10. WorkProgress(t, j, s)
  <2>1. a.good \in Nat /\ \A x \in TargetPhrases : a.trg[x] \in Nat
    BY <1>2 DEF Job
  <2>2. \A x \in TargetPhrases : a.trg[x] <= j.trg[x]
    BY <1>4, <1>6, <2>1
  <2>3. Later(a, j)
    BY <1>6, <2>1, <2>2 DEF Later
  <2> QED BY <1>1, <1>4, <1>7, <2>3 DEF WorkProgress
<1> QED BY <1>8, <1>9, <1>10, WorkStepKeeps, WorkStepEffects

\* release.
LEMMA ReleaseKeeps ==
  ASSUME IInv, NEW t \in Threads, Release(t)
  PROVE  IInv' /\ Effects
<1> DEFINE n == thread[t].job
           a == jobs[n]
           j == [a EXCEPT !.in_progress = @ + (-1)]
           s == [Idle EXCEPT !.pc = "check"]
<1>1. thread[t].pc = "release" /\ thread[t].pc \in Working \cup {"register"}
  BY DEF Release, Working
<1>2. /\ n \in DOMAIN jobs /\ a \in Job /\ a.next <= Len(Occurs[a.phrase])
      /\ thread[t] \in ThreadState
  BY <1>1, JobInHand
<1>3. ClientsKept /\ joblist' = joblist /\ UNCHANGED Rest
  BY ClientsAreKept DEF Release, Rest, config
<1>4. s \in ThreadState /\ s.job = 0 /\ s.pc = "check"
  BY DEF ThreadState, ThreadPcs, Idle
<1>5. a.in_progress > 0 /\ a.in_progress \in Nat
  <2>1. t \in AtWork(n, thread)
    BY <1>1 DEF AtWork, Working
  <2>2. Cardinality(AtWork(n, thread)) \in Nat /\ Cardinality(AtWork(n, thread)) > 0
    BY <2>1, CountTypes
  <2>3. a.in_progress = Cardinality(AtWork(n, thread)) + In(n, joblist)
    BY <1>2 DEF IInv, InProgress
  <2>4. In(n, joblist) \in {0, 1} /\ a.in_progress \in Nat
    BY <1>2 DEF In, Job
  <2> HIDE DEF n, a
  <2> QED BY <2>2, <2>3, <2>4
<1>6. jobs' = [jobs EXCEPT ![n] = j] /\ thread' = [thread EXCEPT ![t] = s]
  <2>1. jobs \in Seq(Job) /\ a.in_progress - 1 = a.in_progress + (-1)
    BY <1>5 DEF IInv, Types
  <2>2. jobs' = [i \in DOMAIN jobs |-> IF i = n THEN [a EXCEPT !.in_progress = @ - 1] ELSE jobs[i]]
    BY DEF Release, Released
  <2>3. jobs' = [i \in DOMAIN jobs |-> IF i = n THEN j ELSE jobs[i]]
    BY <2>1, <2>2
  <2> QED BY <2>3 DEF Release
<1>7. /\ j \in Job /\ j.next = a.next /\ j.phrase = a.phrase
      /\ j.in_progress = a.in_progress + (-1)
      /\ j.good = a.good /\ j.trg = a.trg /\ j.raw = a.raw /\ j.sampled = a.sampled
  <2>1. -1 \in {-1, 1} /\ a.in_progress + (-1) >= 0
    BY <1>5
  <2> HIDE DEF a
  <2> QED BY <1>2, <2>1, Registered
<1>8. a = jobs[thread[t].job]
  OBVIOUS
<1> HIDE DEF j, s, a
<1>9. WorkStep(t, j, s)
  BY <1>1, <1>2, <1>3, <1>4, <1>6, <1>7 DEF WorkStep, Working
<1>10. WorkBalance(t, j, s)
  <2>1. OwnWork(s) = 0 /\ OwnWork(thread[t]) = 1
    BY <1>1, <1>4 DEF OwnWork, Working
  <2>2. \A x : OwnAdd(s, x) = 0 /\ OwnAdd(thread[t], x) = 0
    BY <1>1, <1>4 DEF OwnAdd
  <2>3. a.in_progress \in Nat /\ a.good \in Nat /\ a.trg \in [TargetPhrases -> Nat]
    BY <1>2 DEF Job
  <2> QED BY <1>7, <1>8, <2>1, <2>2, <2>3 DEF WorkBalance
<1>11. WorkProgress(t, j, s)
  <2>1. Later(a, j)
    BY <1>2, <1>7, SameLater
  <2> QED BY <1>1, <1>4, <1>7, <1>8, <2>1 DEF WorkProgress, SameStatistics
<1> QED BY <1>9, <1>10, <1>11, WorkStepKeeps, WorkStepEffects

-----------------------------------------------------------------------------
(* Steps that nobody at work takes part in                                 *)

\* Who is at work goes on as before in threads g.
SameWork(g) ==
  \A u \in Threads : g[u] = thread[u] \/ (g[u].pc \notin Working /\ thread[u].pc \notin Working)

\* So the counts are the same.
LEMMA SameCounts ==
  ASSUME NEW g, SameWork(g)
  PROVE  \A n : /\ AtWork(n, g) = AtWork(n, thread)
                /\ \A x : Adding(n, x, g) = Adding(n, x, thread)
<1>1. \A n : AtWork(n, g) = AtWork(n, thread)
  BY DEF SameWork, AtWork
<1>2. \A n, x : Adding(n, x, g) = Adding(n, x, thread)
  BY DEF SameWork, Adding, Working
<1> QED BY <1>1, <1>2

\* The variables such a step may set have their types.
QuietTypes ==
  /\ thread' \in [Threads -> ThreadState] /\ client' \in [Clients -> ClientState]
  /\ ag' \in BOOLEAN /\ shutdown' \in BOOLEAN /\ joined' \in BOOLEAN
  /\ btlock' \in Clients \cup {None}

\* A step that leaves the jobs alone, and who works on them.
LEMMA QuietKeeps ==
  ASSUME IInv, UNCHANGED <<config, jobs, joblist, cache>>, QuietTypes, SameWork(thread'), Places'
  PROVE  IInv'
<1>1. Types'
  BY DEF IInv, Types, QuietTypes, config
<1>2. InProgress' /\ Joint'
  BY SameCounts DEF IInv, InProgress, Joint
<1> QED BY <1>1, <1>2 DEF IInv

\* A thread that looks at shutdown, or ends.
LEMMA PassKeeps ==
  ASSUME IInv, NEW t \in Threads, CheckShutdown(t) \/ EndThread(t)
  PROVE  IInv'
<1>1. PICK pc \in {"get", "ending", "ended", "off"} : thread' = [thread EXCEPT ![t].pc = pc]
  BY DEF CheckShutdown, EndThread
<1>2. /\ thread[t].pc \in {"check", "ending"}
      /\ UNCHANGED <<config, ag, jobs, joblist, cache, btlock, client, shutdown, joined>>
  BY DEF CheckShutdown, EndThread
<1>3. /\ thread' \in [Threads -> ThreadState]
      /\ thread'[t].pc = pc /\ thread'[t].job = thread[t].job
      /\ \A u \in Threads : u # t => thread'[u] = thread[u]
  BY <1>1, OldTypes DEF ThreadState, ThreadPcs
<1>4. SameWork(thread')
  BY <1>2, <1>3 DEF SameWork, Working
<1>5. QuietTypes
  BY <1>2, <1>3, OldTypes DEF QuietTypes
<1>6. Places'
  <2>1. ag
    BY <1>2 DEF IInv, Places
  <2>2. \A u \in Threads : /\ thread'[u].job \in 0..Len(jobs)
                           /\ thread'[u].pc \in Working \cup {"register"} => thread'[u].job # 0
    BY <1>3 DEF IInv, Places, Working
  <2>3. \A c \in Clients : client[c].pc # "work" => thread'[c].pc = "off"
    BY <1>2, <1>3, OldTypes DEF IInv, Places
  <2> QED BY <1>2, <2>1, <2>2, <2>3 DEF IInv, Places
<1> QED BY <1>2, <1>4, <1>5, <1>6, QuietKeeps

\* A client that goes to pc with calls; thread t is its own and may begin to work.
LEMMA ClientGoes ==
  ASSUME IInv, NEW c \in Clients, NEW pc, NEW calls,
         client' = [client EXCEPT ![c] = [client[c] EXCEPT !.pc = pc, !.calls = calls]],
         calls \in Seq({"prep", "lookup"} \X Phrases),
         pc \in {"idle", "prep", "wait", "asleep", "work"},
         pc # "idle" => calls # <<>>,
         pc \in {"wait", "asleep", "work"} => ag,
         btlock' \in Clients \cup {None},
         UNCHANGED <<config, ag, jobs, joblist, cache, shutdown, joined>>,
         thread[c].pc = "off",
         \/ thread' = thread
         \/ thread' = [thread EXCEPT ![c].pc = "check"] /\ pc = "work"
  PROVE  IInv'
<1>1. /\ client' \in [Clients -> ClientState]
      /\ client'[c].pc = pc /\ client'[c].calls = calls /\ client'[c].job = client[c].job
      /\ \A d \in Clients : d # c => client'[d] = client[d]
  BY OldTypes DEF ClientState
<1>2. /\ thread' \in [Threads -> ThreadState]
      /\ thread'[c].job = thread[c].job /\ thread'[c].pc \in {"off", "check"}
      /\ pc # "work" => thread'[c].pc = "off"
      /\ \A u \in Threads : u # c => thread'[u] = thread[u]
      /\ pc # "work" => thread' = thread
  BY OldTypes DEF ThreadState, ThreadPcs
<1>3. SameWork(thread')
  BY <1>2, OldTypes DEF SameWork, Working
<1>4. QuietTypes
  BY <1>1, <1>2, OldTypes DEF QuietTypes
<1>5. Places'
  <2>1. \A u \in Threads : /\ thread'[u].job \in 0..Len(jobs)
                           /\ thread'[u].pc \in Working \cup {"register"} => thread'[u].job # 0
    BY <1>2 DEF IInv, Places, Working
  <2>2. \A d \in Clients : /\ client'[d].job \in 0..Len(jobs)
                           /\ client'[d].pc # "idle" => client'[d].calls # <<>>
                           /\ client'[d].pc \in {"lookup", "wait", "asleep", "work"} => ag
                           /\ client'[d].pc # "work" => thread'[d].pc = "off"
    <3> SUFFICES ASSUME NEW d \in Clients
                 PROVE  /\ client'[d].job \in 0..Len(jobs)
                        /\ client'[d].pc # "idle" => client'[d].calls # <<>>
                        /\ client'[d].pc \in {"lookup", "wait", "asleep", "work"} => ag
                        /\ client'[d].pc # "work" => thread'[d].pc = "off"
      OBVIOUS
    <3>1. CASE d = c
      BY <1>1, <1>2, <3>1 DEF IInv, Places
    <3>2. CASE d # c
      BY <1>1, <1>2, <3>2, OldTypes DEF IInv, Places
    <3> QED BY <3>1, <3>2
  <2>3. ~ag => thread' = thread
    BY <1>2
  <2> QED BY <2>1, <2>2, <2>3 DEF IInv, Places
<1> QED BY <1>3, <1>4, <1>5, QuietKeeps

\* All steps of a client but the creation of the agenda and prep.
LEMMA ClientKeeps ==
  ASSUME IInv, NEW c \in Clients,
         Enter(c) \/ Lookup(c) \/ Sleep(c) \/ SpuriousWake(c) \/ Return(c)
  PROVE  IInv'
<1>1. /\ client[c] \in ClientState /\ client \in [Clients -> ClientState]
      /\ client[c].pc # "idle" => client[c].calls # <<>>
      /\ client[c].pc \in {"lookup", "wait", "asleep", "work"} => ag
      /\ client[c].pc # "work" => thread[c].pc = "off"
  BY OldTypes DEF IInv, Places
<1>2. client[c].calls \in Seq({"prep", "lookup"} \X Phrases)
  BY <1>1 DEF ClientState
<1>3. ASSUME NEW pc
      PROVE  [client EXCEPT ![c].pc = pc]
               = [client EXCEPT ![c] = [client[c] EXCEPT !.pc = pc, !.calls = client[c].calls]]
  BY <1>1 DEF ClientState
<1>4. CASE Enter(c)
  <2> DEFINE pc == "prep"
  <2>1. /\ client' = [client EXCEPT ![c] = [client[c] EXCEPT !.pc = pc, !.calls = client[c].calls]]
        /\ client[c].calls # <<>> /\ client[c].pc = "idle" /\ btlock' = c
        /\ UNCHANGED <<config, ag, jobs, joblist, cache, shutdown, joined, thread>>
    BY <1>3, <1>4 DEF Enter
  <2>2. thread[c].pc = "off" /\ btlock' \in Clients \cup {None}
    BY <1>1, <2>1
  <2>3. pc \in {"idle", "prep", "wait", "asleep", "work"} /\ pc \notin {"wait", "asleep", "work"}
    OBVIOUS
  <2> HIDE DEF pc
  <2> QED BY <1>2, <2>1, <2>2, <2>3, ClientGoes
<1>5. CASE Lookup(c)
  <2> DEFINE pc == IF pooled THEN "wait" ELSE "work"
  <2>1. /\ client' = [client EXCEPT ![c] = [client[c] EXCEPT !.pc = pc, !.calls = client[c].calls]]
        /\ client[c].pc = "lookup" /\ btlock' = c
        /\ UNCHANGED <<config, ag, jobs, joblist, cache, shutdown, joined>>
        /\ \/ thread' = thread
           \/ thread' = [thread EXCEPT ![c].pc = "check"] /\ pc = "work"
    BY <1>3, <1>5 DEF Lookup
  <2>2. pc \in {"wait", "work"}
    OBVIOUS
  <2> HIDE DEF pc
  <2> QED BY <1>1, <1>2, <2>1, <2>2, ClientGoes
<1>6. CASE Sleep(c)
  <2>1. /\ client' = [client EXCEPT ![c] = [client[c] EXCEPT !.pc = "asleep", !.calls = client[c].calls]]
        /\ client[c].pc = "wait" /\ btlock' = btlock
        /\ UNCHANGED <<config, ag, jobs, joblist, cache, shutdown, joined, thread>>
    BY <1>3, <1>6 DEF Sleep
  <2> QED BY <1>1, <1>2, <2>1, OldTypes, ClientGoes
<1>7. CASE SpuriousWake(c)
  <2>1. /\ client' = [client EXCEPT ![c] = [client[c] EXCEPT !.pc = "wait", !.calls = client[c].calls]]
        /\ client[c].pc = "asleep" /\ btlock' = btlock
        /\ UNCHANGED <<config, ag, jobs, joblist, cache, shutdown, joined, thread>>
    BY <1>3, <1>7 DEF SpuriousWake
  <2> QED BY <1>1, <1>2, <2>1, OldTypes, ClientGoes
<1>8. CASE Return(c)
  <2>1. /\ client' = [client EXCEPT ![c].pc = "idle", ![c].calls = Tail(@)]
        /\ btlock' = None
        /\ UNCHANGED <<config, ag, jobs, joblist, cache, shutdown, joined, thread>>
        /\ client[c].pc # "idle" /\ thread[c].pc = "off"
    BY <1>1, <1>8 DEF Return
  <2>2. client' = [client EXCEPT ![c] = [client[c] EXCEPT !.pc = "idle", !.calls = Tail(client[c].calls)]]
    BY <1>1, <2>1 DEF ClientState
  <2>3. Tail(client[c].calls) \in Seq({"prep", "lookup"} \X Phrases)
    BY <1>1, <1>2, <2>1
  <2> QED BY <2>1, <2>2, <2>3, ClientGoes
<1> QED BY <1>4, <1>5, <1>6, <1>7, <1>8

\* The agenda is created, with its workers.
LEMMA CreateAgendaKeeps ==
  ASSUME IInv, NEW c \in Clients, CreateAgenda(c)
  PROVE  IInv'
<1>1. /\ ~ag /\ ag' = TRUE
      /\ UNCHANGED <<config, jobs, joblist, cache, btlock, client, shutdown, joined>>
      /\ thread' = [t \in Threads |-> IF pooled /\ t \in Workers THEN [Idle EXCEPT !.pc = "check"]
                                                                ELSE thread[t]]
  BY DEF CreateAgenda
<1>2. \A t \in Threads : thread[t].pc = "off"
  BY <1>1 DEF IInv, Places
<1>3. [Idle EXCEPT !.pc = "check"] = [pc |-> "check", job |-> 0, todo |-> {}]
  BY DEF Idle
<1>4. thread' \in [Threads -> ThreadState]
  BY <1>1, <1>3, OldTypes DEF ThreadState, ThreadPcs
<1>5. SameWork(thread')
  BY <1>1, <1>2, <1>3 DEF SameWork, Working
<1>6. QuietTypes
  BY <1>1, <1>4, OldTypes DEF QuietTypes
<1>7. Places'
  <2>1. \A d \in Clients : thread'[d] = thread[d]
    BY <1>1, OldTypes, AgendaAssumption
  <2>2. \A u \in Threads : /\ thread'[u].job \in 0..Len(jobs)
                           /\ thread'[u].pc \in Working \cup {"register"} => thread'[u].job # 0
    <3>1. Len(jobs) \in Nat
      BY DEF IInv, Types
    <3>2. \A u \in Threads : thread'[u] = thread[u] \/ thread'[u] = [pc |-> "check", job |-> 0, todo |-> {}]
      BY <1>1, <1>3
    <3> QED BY <3>1, <3>2 DEF IInv, Places, Working
  <2> QED BY <1>1, <2>1, <2>2 DEF IInv, Places
<1> QED BY <1>1, <1>5, <1>6, <1>7, QuietKeeps

-----------------------------------------------------------------------------
(* get_job                                                                 *)

\* Every non-empty set of natural numbers has a least element.
LEMMA LeastNatural ==
  ASSUME NEW T \in SUBSET Nat, T # {}
  PROVE  \E m \in T : \A k \in T : m <= k
<1> DEFINE R == {ss \in Nat \X Nat : ss[1] < ss[2]}
<1>1. IsWellFoundedOn(R, Nat)
  BY NatLessThanWellFounded DEF OpToRel
<1> HIDE DEF R
<1>2. PICK m \in T : \A k \in T : ~(<<k, m>> \in R)
  BY <1>1, WFMin, Zenon
<1>3. \A k \in T : ~(k < m)
  BY <1>2 DEF R
<1> QED BY <1>3

\* The job at the front of a list is on the list.
LEMMA FrontIn ==
  ASSUME NEW list \in SUBSET Nat, list # {}
  PROVE  FrontOf(list) \in list
<1>1. \E n \in list : \A m \in list : n <= m
  BY LeastNatural
<1> QED BY <1>1 DEF FrontOf

\* in_progress is not zero as long as the job is on the list.
LEMMA OnList ==
  ASSUME IInv, NEW n \in joblist
  PROVE  /\ n \in DOMAIN jobs /\ jobs[n].in_progress \in Nat /\ jobs[n].in_progress > 0
<1>1. n \in DOMAIN jobs /\ jobs[n] \in Job
  BY DEF IInv, Types
<1>2. Cardinality(AtWork(n, thread)) \in Nat /\ In(n, joblist) = 1
  BY CountTypes DEF In
<1>3. jobs[n].in_progress = Cardinality(AtWork(n, thread)) + In(n, joblist)
  BY <1>1 DEF IInv, InProgress
<1>4. jobs[n].in_progress \in Nat
  BY <1>1 DEF Job
<1> QED BY <1>1, <1>2, <1>3, <1>4

\* Job b is job a, taken off the list if it is one of those.
OffList(a, b, off) ==
  /\ b \in Job /\ b.next = a.next /\ b.phrase = a.phrase
  /\ b.in_progress = a.in_progress - off
  /\ b.good = a.good /\ b.trg = a.trg /\ b.raw = a.raw /\ b.sampled = a.sampled

\* What get_job does to the jobs.
LEMMA JobsOfGetJob ==
  ASSUME IInv, NEW t \in Threads, GetJob(t)
  PROVE  /\ jobs' \in Seq(Job) /\ Len(jobs') = Len(jobs) /\ DOMAIN jobs' = DOMAIN jobs
         /\ \A n \in DOMAIN jobs : OffList(jobs[n], jobs'[n], In(n, Finished))
<1> DEFINE rel == Released(jobs, Finished)
           rest == joblist \ Finished
           ret == FrontOf(IF FreeJobs # {} THEN FreeJobs ELSE rest)
<1>1. jobs \in Seq(Job) /\ DOMAIN jobs = 1..Len(jobs) /\ joblist \subseteq DOMAIN jobs /\ Len(jobs) \in Nat
  BY DEF IInv, Types
<1>2. ASSUME NEW n \in DOMAIN jobs
      PROVE  OffList(jobs[n], rel[n], In(n, Finished))
  <2>1. jobs[n] \in Job
    BY <1>1
  <2>2. CASE n \in Finished
    <3>1. n \in joblist
      BY <2>2 DEF Finished
    <3>2. jobs[n].in_progress > 0 /\ jobs[n].in_progress \in Nat
      BY <3>1, OnList
    <3>3. rel[n] = [jobs[n] EXCEPT !.in_progress = @ + (-1)]
      <4>1. jobs[n].in_progress - 1 = jobs[n].in_progress + (-1)
        BY <3>2
      <4> QED BY <2>2, <4>1 DEF Released
    <3>4. -1 \in {-1, 1} /\ jobs[n].in_progress + (-1) >= 0
      BY <3>2
    <3>5. In(n, Finished) = 1
      BY <2>2 DEF In
    <3> HIDE DEF rel
    <3>6. /\ rel[n] \in Job /\ rel[n].next = jobs[n].next /\ rel[n].phrase = jobs[n].phrase
          /\ rel[n].in_progress = jobs[n].in_progress + (-1)
          /\ rel[n].good = jobs[n].good /\ rel[n].trg = jobs[n].trg
          /\ rel[n].raw = jobs[n].raw /\ rel[n].sampled = jobs[n].sampled
      BY <2>1, <3>3, <3>4, Registered
    <3> QED BY <3>2, <3>5, <3>6 DEF OffList
  <2>3. CASE n \notin Finished
    <3>1. rel[n] = jobs[n] /\ In(n, Finished) = 0
      BY <2>3 DEF Released, In
    <3>2. jobs[n].in_progress \in Nat
      BY <2>1 DEF Job
    <3> HIDE DEF rel
    <3> QED BY <2>1, <3>1, <3>2 DEF OffList
  <2> QED BY <2>2, <2>3
<1>3. DOMAIN rel = DOMAIN jobs /\ rel = [n \in DOMAIN jobs |-> rel[n]]
  BY DEF Released
<1>4. rest # {} => ret \in DOMAIN jobs
  <2>1. rest \in SUBSET Nat /\ FreeJobs \in SUBSET Nat /\ FreeJobs \subseteq joblist
    BY <1>1 DEF FreeJobs
  <2>2. rest # {} => ret \in joblist
    BY <2>1, FrontIn
  <2> QED BY <1>1, <2>2
<1>5. \/ jobs' = rel
      \/ rest # {} /\ jobs' = [rel EXCEPT ![ret].workers = @ + 1]
  BY DEF GetJob
<1> HIDE DEF rel, rest, ret
<1>6. /\ DOMAIN jobs' = DOMAIN jobs
      /\ \A n \in DOMAIN jobs : OffList(jobs[n], jobs'[n], In(n, Finished))
      /\ jobs' = [n \in DOMAIN jobs |-> jobs'[n]]
  <2>1. CASE jobs' = rel
    BY <1>2, <1>3, <2>1
  <2>2. CASE rest # {} /\ jobs' = [rel EXCEPT ![ret].workers = @ + 1]
    <3>1. DOMAIN jobs' = DOMAIN jobs /\ jobs' = [n \in DOMAIN jobs |-> jobs'[n]]
      BY <1>3, <2>2
    <3>2. ASSUME NEW n \in DOMAIN jobs
          PROVE  OffList(jobs[n], jobs'[n], In(n, Finished))
      <4>1. OffList(jobs[n], rel[n], In(n, Finished)) /\ rel[n] \in Job
        BY <1>2 DEF OffList
      <4>2. jobs'[n] = rel[n] \/ jobs'[n] = [rel[n] EXCEPT !.workers = @ + 1]
        BY <1>3, <1>4, <2>2
      <4>3. \/ jobs'[n] = rel[n]
            \/ /\ SameSums(rel[n], jobs'[n]) /\ jobs'[n].next = rel[n].next
               /\ jobs'[n].raw = rel[n].raw /\ jobs'[n].sampled = rel[n].sampled
        BY <4>1, <4>2, Sent
      <4> QED BY <4>1, <4>3 DEF OffList, SameSums
    <3> QED BY <3>1, <3>2
  <2> QED BY <1>5, <2>1, <2>2
<1>7. jobs' \in [1..Len(jobs) -> Job]
  BY <1>1, <1>6 DEF OffList
<1> QED BY <1>1, <1>6, <1>7

\* get_job.
LEMMA GetJobKeeps ==
  ASSUME IInv, NEW t \in Threads, GetJob(t)
  PROVE  IInv'
<1> DEFINE g == thread'
           js == jobs'
           list == joblist'
           ret == FrontOf(IF FreeJobs # {} THEN FreeJobs ELSE joblist \ Finished)
<1>1. /\ js \in Seq(Job) /\ Len(js) = Len(jobs) /\ DOMAIN js = DOMAIN jobs
      /\ \A n \in DOMAIN jobs : OffList(jobs[n], js[n], In(n, Finished))
  BY JobsOfGetJob
<1>2. /\ thread[t].pc = "get" /\ list = joblist \ Finished /\ Finished \subseteq joblist
      /\ UNCHANGED Rest
  BY DEF GetJob, Finished, Rest, config
<1>3. ClientsKept
  BY ClientsAreKept DEF GetJob
<1>4. joblist \subseteq DOMAIN jobs /\ DOMAIN jobs = 1..Len(jobs) /\ Len(jobs) \in Nat
  BY DEF IInv, Types
<1>5. list # {} => ret \in 1..Len(jobs)
  <2>1. list \in SUBSET Nat /\ FreeJobs \in SUBSET Nat /\ FreeJobs \subseteq joblist
    BY <1>2, <1>4 DEF FreeJobs
  <2>2. list # {} => ret \in joblist
    BY <1>2, <2>1, FrontIn
  <2> QED BY <1>4, <2>2
<1>6. \/ g = [thread EXCEPT ![t].pc = "ending"]
      \/ list # {} /\ g = [thread EXCEPT ![t].pc = "register", ![t].job = ret]
  BY <1>2 DEF GetJob
<1> HIDE DEF ret
<1>7. /\ g \in [Threads -> ThreadState] /\ g[t].pc \in {"ending", "register"}
      /\ g[t].job \in 0..Len(jobs) /\ (g[t].pc = "register" => g[t].job # 0)
      /\ \A u \in Threads : u # t => g[u] = thread[u]
  <2>1. thread[t].job \in 0..Len(jobs)
    BY DEF IInv, Places
  <2>2. CASE g = [thread EXCEPT ![t].pc = "ending"]
    <3> HIDE DEF g
    <3> QED BY <2>1, <2>2, OldTypes DEF ThreadState, ThreadPcs
  <2>3. CASE list # {} /\ g = [thread EXCEPT ![t].pc = "register", ![t].job = ret]
    <3>1. ret \in 1..Len(jobs) /\ ret \in Nat /\ ret # 0 /\ ret \in 0..Len(jobs)
      BY <1>4, <1>5, <2>3
    <3>2. g = [thread EXCEPT ![t] = [thread[t] EXCEPT !.pc = "register", !.job = ret]]
      BY <2>3, OldTypes DEF ThreadState
    <3>3. g[t] = [pc |-> "register", job |-> ret, todo |-> thread[t].todo]
      BY <3>2, OldTypes DEF ThreadState
    <3> HIDE DEF g
    <3>4. g[t] \in ThreadState
      BY <3>1, <3>3, OldTypes DEF ThreadState, ThreadPcs
    <3>5. /\ \A u \in Threads : u # t => g[u] = thread[u]
          /\ g = [u \in Threads |-> g[u]]
      BY <3>2, OldTypes
    <3> QED BY <3>1, <3>3, <3>4, <3>5, OldTypes
  <2> QED BY <1>6, <2>2, <2>3
<1>8. Types'
  <2>1. \A n \in DOMAIN js : js[n].next <= Len(Occurs[js[n].phrase])
    BY <1>1 DEF IInv, Types, OffList
  <2>2. list \subseteq DOMAIN js
    BY <1>1, <1>2, <1>4
  <2> QED BY <1>1, <1>2, <1>3, <1>7, <2>1, <2>2 DEF IInv, Types, ClientsKept, Rest, config
<1>9. Places'
  <2>1. ag /\ ag' = ag
    BY <1>2 DEF IInv, Places, Rest
  <2>2. \A u \in Threads : /\ g[u].job \in 0..Len(js)
                           /\ g[u].pc \in Working \cup {"register"} => g[u].job # 0
    <3> SUFFICES ASSUME NEW u \in Threads
                 PROVE  /\ g[u].job \in 0..Len(js)
                        /\ g[u].pc \in Working \cup {"register"} => g[u].job # 0
      OBVIOUS
    <3>1. CASE u = t
      BY <1>1, <1>7, <3>1 DEF Working
    <3>2. CASE u # t
      BY <1>1, <1>7, <3>2 DEF IInv, Places
    <3> QED BY <3>1, <3>2
  <2>3. ASSUME NEW c \in Clients
        PROVE  /\ client'[c].job \in 0..Len(js)
               /\ client'[c].pc # "idle" => client'[c].calls # <<>>
               /\ client'[c].pc # "work" => g[c].pc = "off"
    <3>1. /\ client'[c].job = client[c].job /\ client'[c].calls = client[c].calls
          /\ client'[c].pc # "idle" => client[c].pc # "idle"
          /\ client'[c].pc # "work" => client[c].pc # "work"
      BY <1>3 DEF ClientsKept
    <3>2. client[c].pc # "work" => thread[c].pc = "off"
      BY DEF IInv, Places
    <3>3. client[c].pc # "work" => g[c].pc = "off"
      BY <1>2, <1>7, <3>2, OldTypes
    <3> QED BY <1>1, <3>1, <3>3 DEF IInv, Places
  <2> QED BY <2>1, <2>2, <2>3 DEF Places
<1>10. Weighed(t, g, js, list)
  <2> SUFFICES ASSUME NEW n \in DOMAIN jobs
               PROVE  /\ js[n].in_progress = jobs[n].in_progress
                           + In(t, AtWork(n, g)) - In(t, AtWork(n, thread)) + In(n, list) - In(n, joblist)
                      /\ \A x \in TargetPhrases :
                           js[n].trg[x] + In(t, Adding(n, x, g)) + jobs[n].good
                             <= jobs[n].trg[x] + In(t, Adding(n, x, thread)) + js[n].good
    BY DEF Weighed
  <2>1. /\ In(t, AtWork(n, g)) = 0 /\ In(t, AtWork(n, thread)) = 0
        /\ \A x : In(t, Adding(n, x, g)) = 0 /\ In(t, Adding(n, x, thread)) = 0
    BY <1>2, <1>7 DEF In, AtWork, Adding, Working
  <2>2. In(n, list) = In(n, joblist) - In(n, Finished) /\ In(n, Finished) \in {0, 1} /\ In(n, joblist) \in {0, 1}
    BY <1>2 DEF In
  <2>3. /\ jobs[n].in_progress \in Nat /\ jobs[n].good \in Nat
        /\ jobs[n].trg \in [TargetPhrases -> Nat]
    <3>1. jobs[n] \in Job
      BY DEF IInv, Types
    <3> QED BY <3>1 DEF Job
  <2>4. /\ js[n].in_progress = jobs[n].in_progress - In(n, Finished)
        /\ js[n].good = jobs[n].good /\ js[n].trg = jobs[n].trg
    BY <1>1 DEF OffList
  <2> HIDE DEF g, js, list
  <2> QED BY <2>1, <2>2, <2>3, <2>4
<1>11. Balanced(g, js, list)
  <2>1. Moves(t, thread, g)
    BY <1>7 DEF Moves
  <2> HIDE DEF g, js, list
  <2> QED BY <1>1, <1>10, <2>1, Balance
<1>12. InProgress' /\ Joint'
  BY <1>1, <1>11 DEF InProgress, Joint, Balanced
<1> QED BY <1>8, <1>9, <1>12 DEF IInv

-----------------------------------------------------------------------------
(* prep                                                                    *)

\* A new job is on the list, and nobody is at work on it.
LEMMA AddJobKeeps ==
  ASSUME IInv, NEW p \in Phrases, AddJob(p)
  PROVE  /\ jobs' \in Seq(Job) /\ Len(jobs') = Len(jobs) + 1
         /\ \A n \in DOMAIN jobs' : jobs'[n].next <= Len(Occurs[jobs'[n].phrase])
         /\ joblist' \subseteq DOMAIN jobs'
         /\ thread' \in [Threads -> ThreadState]
         /\ \A u \in Threads : \/ thread'[u] = thread[u]
                               \/ thread[u].pc = "ended" /\ thread'[u].pc = "check" /\ thread'[u].job = 0
         /\ InProgress' /\ Joint'
<1> DEFINE new == Len(jobs) + 1
           js == jobs'
           g == thread'
<1>1. jobs \in Seq(Job) /\ Len(jobs) \in Nat /\ DOMAIN jobs = 1..Len(jobs) /\ new \notin DOMAIN jobs
  BY DEF IInv, Types
<1>2. /\ NewJob(p) \in Job /\ NewJob(p).next = 0 /\ NewJob(p).phrase = p
      /\ NewJob(p).in_progress = 1 /\ NewJob(p).good = 0
      /\ \A x \in TargetPhrases : NewJob(p).trg[x] = 0
  BY AgendaAssumption DEF NewJob, Job
<1>3. /\ js \in Seq(Job) /\ Len(js) = new /\ DOMAIN js = DOMAIN jobs \cup {new}
      /\ js[new] = NewJob(p) /\ \A n \in DOMAIN jobs : js[n] = jobs[n]
  <2>1. js = Append(jobs, NewJob(p))
    BY DEF AddJob
  <2> HIDE DEF js
  <2> QED BY <1>1, <1>2, <2>1
<1>4. \A n \in DOMAIN js : js[n].next <= Len(Occurs[js[n].phrase])
  <2>1. NewJob(p).next <= Len(Occurs[p])
    BY <1>2, AgendaAssumption
  <2> QED BY <1>2, <1>3, <2>1 DEF IInv, Types
<1>5. joblist' = joblist \cup {new} /\ joblist \subseteq DOMAIN jobs
  BY DEF AddJob, IInv, Types
<1>6. /\ g \in [Threads -> ThreadState]
      /\ \A u \in Threads : \/ g[u] = thread[u]
                            \/ thread[u].pc = "ended" /\ g[u].pc = "check" /\ g[u].job = 0
  <2> DEFINE s == [Idle EXCEPT !.pc = "check"]
  <2>1. s = [pc |-> "check", job |-> 0, todo |-> {}]
    BY DEF Idle
  <2>2. s \in ThreadState /\ s.pc = "check" /\ s.job = 0
    BY <2>1 DEF ThreadState, ThreadPcs
  <2>3. \/ g = thread
        \/ g = [t \in Threads |-> IF thread[t].pc = "ended" THEN s ELSE thread[t]]
    BY DEF AddJob
  <2> HIDE DEF g, s
  <2> QED BY <2>2, <2>3, OldTypes
<1>7. SameWork(g)
  BY <1>6 DEF SameWork, Working
<1>8. \A n : /\ AtWork(n, g) = AtWork(n, thread)
             /\ \A x : Adding(n, x, g) = Adding(n, x, thread)
  BY <1>7, SameCounts
<1>9. AtWork(new, thread) = {} /\ \A x : Adding(new, x, thread) = {}
  BY <1>1 DEF AtWork, Adding, IInv, Places
<1>10. Cardinality({}) = 0
  BY FS_EmptySet
<1>11. ASSUME NEW n \in DOMAIN js
       PROVE  js[n].in_progress = Cardinality(AtWork(n, g)) + In(n, joblist')
  <2>1. CASE n = new
    BY <1>2, <1>3, <1>5, <1>8, <1>9, <1>10, <2>1 DEF In
  <2>2. CASE n # new
    <3>1. n \in DOMAIN jobs /\ js[n] = jobs[n] /\ In(n, joblist') = In(n, joblist)
      BY <1>3, <1>5, <2>2 DEF In
    <3> QED BY <1>8, <3>1 DEF IInv, InProgress
  <2> QED BY <2>1, <2>2
<1>12. ASSUME NEW n \in DOMAIN js, NEW x \in TargetPhrases
       PROVE  js[n].trg[x] + Cardinality(Adding(n, x, g)) <= js[n].good
  <2>1. CASE n = new
    <3>1. js[n].trg[x] = 0 /\ js[n].good = 0
      BY <1>2, <1>3, <2>1
    <3>2. Cardinality(Adding(n, x, g)) = 0
      BY <1>8, <1>9, <1>10, <2>1
    <3> QED BY <3>1, <3>2
  <2>2. CASE n # new
    <3>1. n \in DOMAIN jobs /\ js[n] = jobs[n]
      BY <1>3, <2>2
    <3> QED BY <1>8, <3>1 DEF IInv, Joint
  <2> QED BY <2>1, <2>2
<1> QED BY <1>1, <1>3, <1>4, <1>5, <1>6, <1>11, <1>12 DEF InProgress, Joint

\* Client b is client a on its way to wait for job n.
Looking(a, b, n) == b \in ClientState /\ b.pc = "lookup" /\ b.job = n /\ b.calls = a.calls

\* The client goes on to wait for the job.
LEMMA ToLookup ==
  ASSUME NEW a \in ClientState, NEW n \in Nat
  PROVE  Looking(a, [a EXCEPT !.pc = "lookup", !.job = n], n)
<1> DEFINE b == [a EXCEPT !.pc = "lookup", !.job = n]
           S == Seq({"prep", "lookup"} \X Phrases)
<1> HIDE DEF S
<1>1. a \in [pc : {"idle", "prep", "lookup", "wait", "asleep", "work"}, job : Nat, calls : S]
  BY DEF ClientState, S
<1>2. b \in [pc : {"idle", "prep", "lookup", "wait", "asleep", "work"}, job : Nat, calls : S]
  BY <1>1
<1>3. b.pc = "lookup" /\ b.job = n /\ b.calls = a.calls
  BY <1>1
<1> QED BY <1>2, <1>3 DEF ClientState, S, Looking

\* prep, with a new job or the one in the cache.
LEMMA PrepKeeps ==
  ASSUME IInv, NEW c \in Clients, Prep(c)
  PROVE  IInv'
<1> DEFINE call == Head(client[c].calls)
           p == call[2]
           known == p \in Frequent /\ cache[p] # 0
           job == IF known THEN cache[p] ELSE Len(jobs) + 1
           cl == client'[c]
<1>1. /\ client[c] \in ClientState /\ client[c].pc = "prep" /\ client[c].calls # <<>>
      /\ ag /\ thread[c].pc = "off" /\ c \in Threads
  BY OldTypes DEF IInv, Places, Prep
<1>2. client[c].calls \in Seq({"prep", "lookup"} \X Phrases)
  BY <1>1 DEF ClientState
<1>3. call \in {"prep", "lookup"} \X Phrases /\ p \in Phrases
      /\ Tail(client[c].calls) \in Seq({"prep", "lookup"} \X Phrases)
  BY <1>1, <1>2
<1>4. /\ jobs' \in Seq(Job) /\ Len(jobs') \in Nat /\ Len(jobs) \in Nat /\ Len(jobs) <= Len(jobs')
      /\ job \in 0..Len(jobs')
      /\ \A n \in DOMAIN jobs' : jobs'[n].next <= Len(Occurs[jobs'[n].phrase])
      /\ joblist' \subseteq DOMAIN jobs'
      /\ thread' \in [Threads -> ThreadState]
      /\ \A u \in Threads : \/ thread'[u] = thread[u]
                            \/ thread[u].pc = "ended" /\ thread'[u].pc = "check" /\ thread'[u].job = 0
      /\ InProgress' /\ Joint'
  <2>0. jobs \in Seq(Job) /\ Len(jobs) \in Nat /\ cache[p] \in 0..Len(jobs)
    BY <1>3 DEF IInv, Types
  <2>1. CASE known
    <3>1. UNCHANGED <<jobs, joblist, thread>> /\ job = cache[p]
      BY <2>1 DEF Prep
    <3> HIDE DEF job, known
    <3> QED BY <2>0, <3>1 DEF IInv, Types, InProgress, Joint
  <2>2. CASE ~known
    <3>1. AddJob(p) /\ job = Len(jobs) + 1
      BY <2>2 DEF Prep
    <3> HIDE DEF job, known, p, call
    <3> QED BY <1>3, <2>0, <3>1, AddJobKeeps
  <2> QED BY <2>1, <2>2
<1>5. /\ cache' = (IF p \in Frequent THEN [cache EXCEPT ![p] = job] ELSE cache)
      /\ btlock' = None /\ UNCHANGED <<config, ag, shutdown, joined>>
  BY DEF Prep
<1>6. client' = [client EXCEPT ![c] =
                   IF call[1] = "prep" THEN [pc |-> "idle", job |-> 0, calls |-> Tail(client[c].calls)]
                                       ELSE [client[c] EXCEPT !.pc = "lookup", !.job = job]]
  BY DEF Prep
<1> HIDE DEF call, p, known, job
<1>7. /\ client' \in [Clients -> ClientState]
      /\ cl.job \in 0..Len(jobs') /\ cl.pc \in {"idle", "lookup"}
      /\ cl.pc # "idle" => cl.calls # <<>>
      /\ \A d \in Clients : d # c => client'[d] = client[d]
  <2> DEFINE s == IF call[1] = "prep" THEN [pc |-> "idle", job |-> 0, calls |-> Tail(client[c].calls)]
                                      ELSE [client[c] EXCEPT !.pc = "lookup", !.job = job]
  <2>1. /\ s \in ClientState /\ s.job \in 0..Len(jobs') /\ s.pc \in {"idle", "lookup"}
        /\ s.pc # "idle" => s.calls # <<>>
    <3>1. job \in Nat
      BY <1>4
    <3>2. CASE call[1] = "prep"
      BY <1>3, <1>4, <3>2 DEF ClientState
    <3>3. CASE call[1] # "prep"
      <4> DEFINE a == client[c]
      <4>1. s = [a EXCEPT !.pc = "lookup", !.job = job] /\ a \in ClientState
        BY <1>1, <3>3
      <4> HIDE DEF s, a
      <4>2. Looking(a, s, job)
        BY <3>1, <4>1, ToLookup
      <4>3. a = client[c]
        BY DEF a
      <4> QED BY <1>1, <1>4, <4>2, <4>3 DEF Looking
    <3> QED BY <3>2, <3>3
  <2> HIDE DEF s
  <2>2. client' = [client EXCEPT ![c] = s]
    BY <1>6 DEF s
  <2> QED BY <2>1, <2>2, OldTypes
<1>8. cache' \in [Phrases -> 0..Len(jobs')]
  <2>1. cache \in [Phrases -> 0..Len(jobs)]
    BY DEF IInv, Types
  <2>2. cache \in [Phrases -> 0..Len(jobs')]
    BY <1>4, <2>1
  <2> QED BY <1>3, <1>4, <1>5, <2>2
<1>9. Types'
  BY <1>4, <1>5, <1>7, <1>8 DEF IInv, Types, config
<1>10. Places'
  <2>1. \A u \in Threads : /\ thread'[u].job \in 0..Len(jobs')
                           /\ thread'[u].pc \in Working \cup {"register"} => thread'[u].job # 0
    BY <1>4 DEF IInv, Places, Working
  <2>2. \A d \in Clients : /\ client'[d].job \in 0..Len(jobs')
                           /\ client'[d].pc # "idle" => client'[d].calls # <<>>
                           /\ client'[d].pc # "work" => thread'[d].pc = "off"
    <3> SUFFICES ASSUME NEW d \in Clients
                 PROVE  /\ client'[d].job \in 0..Len(jobs')
                        /\ client'[d].pc # "idle" => client'[d].calls # <<>>
                        /\ client'[d].pc # "work" => thread'[d].pc = "off"
      OBVIOUS
    <3>1. CASE d = c
      <4>1. thread'[c].pc = "off"
        BY <1>1, <1>4
      <4> QED BY <1>7, <3>1, <4>1
    <3>2. CASE d # c
      <4>1. /\ client[d].job \in 0..Len(jobs)
            /\ client[d].pc # "idle" => client[d].calls # <<>>
            /\ client[d].pc # "work" => thread[d].pc = "off"
        BY DEF IInv, Places
      <4>2. client[d].job \in 0..Len(jobs')
        BY <1>4, <4>1
      <4>3. thread[d].pc = "off" => thread'[d].pc = "off"
        BY <1>4, OldTypes
      <4> QED BY <1>7, <3>2, <4>1, <4>2, <4>3
    <3> QED BY <3>1, <3>2
  <2> QED BY <1>1, <1>5, <2>1, <2>2 DEF Places
<1> QED BY <1>4, <1>9, <1>10 DEF IInv

-----------------------------------------------------------------------------
(* The effects of the other steps                                          *)

\* A client leaves the jobs that there are alone, and who works on them.
LEMMA ClientQuiet ==
  ASSUME IInv, NEW c \in Clients, ClientStep(c) \/ SpuriousWake(c)
  PROVE  SameWork(thread')
<1>1. [Idle EXCEPT !.pc = "check"].pc = "check"
  BY DEF Idle
<1>2. CASE CreateAgenda(c)
  <2>1. \A u \in Threads : thread[u].pc = "off"
    BY <1>2 DEF CreateAgenda, IInv, Places
  <2> QED BY <1>1, <1>2, <2>1 DEF CreateAgenda, Working, SameWork
<1>3. CASE Prep(c)
  BY <1>1, <1>3 DEF Prep, AddJob, Working, SameWork
<1>4. CASE Lookup(c)
  <2>1. thread[c].pc = "off"
    BY <1>4 DEF Lookup, IInv, Places
  <2>2. thread' = thread \/ thread' = [thread EXCEPT ![c].pc = "check"]
    BY <1>4 DEF Lookup
  <2> QED BY <2>1, <2>2, OldTypes DEF Working, ThreadState, SameWork
<1>5. CASE Enter(c) \/ Sleep(c) \/ SpuriousWake(c) \/ Return(c)
  BY <1>5 DEF Enter, Sleep, SpuriousWake, Return, SameWork
<1> QED BY <1>2, <1>3, <1>4, <1>5 DEF ClientStep

\* Of a client.
LEMMA ClientEffect ==
  ASSUME IInv, NEW c \in Clients, ClientStep(c) \/ SpuriousWake(c), NEW n \in DOMAIN jobs
  PROVE  Effect(n)
<1>0. jobs \in Seq(Job) /\ Len(jobs) \in Nat /\ DOMAIN jobs = 1..Len(jobs)
  BY DEF IInv, Types
<1>1. jobs'[n] = jobs[n] /\ (n \in joblist' <=> n \in joblist)
  <2>1. \/ UNCHANGED <<jobs, joblist>>
        \/ \E p : jobs' = Append(jobs, NewJob(p)) /\ joblist' = joblist \cup {Len(jobs) + 1}
    BY DEF ClientStep, SpuriousWake, Enter, CreateAgenda, Prep, AddJob, Lookup, Sleep, Return
  <2>2. ASSUME NEW p, jobs' = Append(jobs, NewJob(p)), joblist' = joblist \cup {Len(jobs) + 1}
        PROVE  jobs'[n] = jobs[n] /\ (n \in joblist' <=> n \in joblist)
    BY <1>0, <2>2
  <2> QED BY <2>1, <2>2
<1> QED BY <1>1, ClientQuiet, UntouchedEffect DEF SameWork

\* Of a thread that has no job.
LEMMA IdleEffect ==
  ASSUME IInv, NEW t \in Threads, CheckShutdown(t) \/ EndThread(t) \/ GetJob(t), NEW n \in DOMAIN jobs
  PROVE  Effect(n)
<1>1. CASE CheckShutdown(t) \/ EndThread(t)
  <2>1. PICK pc \in {"get", "ending", "ended", "off"} : thread' = [thread EXCEPT ![t].pc = pc]
    BY <1>1 DEF CheckShutdown, EndThread
  <2>2. thread[t].pc \notin Working /\ UNCHANGED <<jobs, joblist>>
    BY <1>1 DEF CheckShutdown, EndThread, Working
  <2>3. thread'[t].pc = pc /\ \A u \in Threads : u # t => thread'[u] = thread[u]
    BY <2>1, OldTypes DEF ThreadState
  <2> QED BY <2>2, <2>3, UntouchedEffect DEF Working
<1>2. CASE GetJob(t)
  <2>1. OffList(jobs[n], jobs'[n], In(n, Finished))
    BY <1>2, JobsOfGetJob
  <2>2. joblist' = joblist \ Finished /\ thread[t].pc = "get" /\ \A f \in Finished : Done(jobs[f])
    BY <1>2 DEF GetJob, Finished
  <2>3. \E v \in {"ending", "register"} : \E j :
          \/ thread' = [thread EXCEPT ![t].pc = v]
          \/ thread' = [thread EXCEPT ![t].pc = v, ![t].job = j]
    BY <1>2 DEF GetJob
  <2>4. /\ thread'[t].pc \in {"ending", "register"}
        /\ \A u \in Threads : u # t => thread'[u] = thread[u]
    BY <2>3, OldTypes DEF ThreadState
  <2>5. \A u \in Threads : \/ thread'[u] = thread[u]
                           \/ thread'[u].pc \notin Working /\ thread[u].pc \notin Working
    BY <2>2, <2>4 DEF Working
  <2> QED BY <2>1, <2>2, <2>5, NoEffect DEF OffList, SameStatistics
<1> QED BY <1>1, <1>2

-----------------------------------------------------------------------------
(* The theorems                                                            *)

\* Initially.
LEMMA InitIInv == Init => IInv
<1> SUFFICES ASSUME Init PROVE IInv
  OBVIOUS
<1>1. Types
  <2>1. thread \in [Threads -> ThreadState]
    BY DEF Init, Idle, ThreadState, ThreadPcs
  <2>2. client \in [Clients -> ClientState]
    BY AgendaAssumption DEF Init, ClientState
  <2>3. jobs \in Seq(Job) /\ jobs = <<>> /\ DOMAIN jobs = {} /\ Len(jobs) = 0
    BY DEF Init
  <2>4. joblist = {} /\ cache \in [Phrases -> 0..Len(jobs)]
    <3>1. cache = [p \in Phrases |-> 0] /\ 0 \in 0..Len(jobs)
      BY <2>3 DEF Init
    <3> QED BY <3>1 DEF Init
  <2> QED BY <2>1, <2>2, <2>3, <2>4 DEF Init, Types
<1>2. Places
  BY DEF Init, Places, Idle, Working, Threads
<1>3. InProgress /\ Joint
  BY DEF Init, InProgress, Joint
<1> QED BY <1>1, <1>2, <1>3 DEF IInv

\* Every step keeps it.
LEMMA Inductive == IInv /\ [Next]_vars => IInv'
<1> SUFFICES ASSUME IInv, [Next]_vars PROVE IInv'
  OBVIOUS
<1>1. ASSUME NEW c \in Clients, ClientStep(c) \/ SpuriousWake(c)
      PROVE  IInv'
  BY <1>1, ClientKeeps, CreateAgendaKeeps, PrepKeeps DEF ClientStep
<1>2. ASSUME NEW t \in Threads, ThreadStep(t)
      PROVE  IInv'
  BY <1>2, PassKeeps, GetJobKeeps, RegisterKeeps, StepKeeps, StepEndsKeeps, CountGoodKeeps,
     AddPairKeeps, ReleaseKeeps DEF ThreadStep
<1>3. CASE Shutdown \/ Join \/ Terminated \/ UNCHANGED vars
  <2>1. /\ UNCHANGED <<config, ag, jobs, joblist, cache, btlock, thread, client>>
        /\ shutdown' \in BOOLEAN /\ joined' \in BOOLEAN
    BY <1>3, OldTypes DEF Shutdown, Join, Terminated, vars, config
  <2> QED BY <2>1 DEF IInv, Types, Places, InProgress, Joint, config
<1> QED BY <1>1, <1>2, <1>3 DEF Next

\* The invariant, and what follows from it.
LEMMA Always == Spec => []IInv
<1>1. Init /\ [][Next]_vars => []IInv
  BY InitIInv, Inductive, PTL
<1> QED BY <1>1, PTL DEF Spec

\* in_progress counts the workers that have registered with the job and not released it, and
\* one more while the job is on the list; no target phrase is counted for more occurrences
\* than were found good, so pstats::add never throws; the locks are held by threads that exist.
THEOREM AgendaSound == Spec => []AgendaInv
<1>1. IInv => AgendaInv
  <2> SUFFICES ASSUME IInv PROVE AgendaInv
    OBVIOUS
  <2>1. TypeOK
    <3>1. \A n \in DOMAIN jobs : jobs[n] \in Job
      BY DEF IInv, Types
    <3>2. \A t \in Threads : /\ thread[t].pc \in ThreadPcs /\ thread[t].job \in 0..Len(jobs)
                              /\ thread[t].todo \subseteq TargetPhrases
      BY OldTypes DEF IInv, Places, ThreadState
    <3>3. \A c \in Clients : /\ client[c].pc \in {"idle", "prep", "lookup", "wait", "asleep", "work"}
                              /\ client[c].job \in 0..Len(jobs)
      BY OldTypes DEF IInv, Places, ClientState
    <3> QED BY <3>1, <3>2, <3>3 DEF IInv, Types, TypeOK, Job
  <2>2. InProgressCounts
    BY DEF IInv, InProgress, InProgressCounts, AtWork, Working, In
  <2>3. JointWithinGood
    <3> SUFFICES ASSUME NEW n \in DOMAIN jobs, NEW x \in TargetPhrases
                 PROVE  jobs[n].trg[x] <= jobs[n].good
      BY DEF JointWithinGood
    <3>1. jobs[n] \in Job
      BY DEF IInv, Types
    <3>2. jobs[n].trg[x] \in Nat /\ jobs[n].good \in Nat
      BY <3>1 DEF Job
    <3>3. jobs[n].trg[x] + Cardinality(Adding(n, x, thread)) <= jobs[n].good
      BY DEF IInv, Joint
    <3>4. Cardinality(Adding(n, x, thread)) \in Nat
      BY CountTypes
    <3> QED BY <3>2, <3>3, <3>4
  <2> QED BY <2>1, <2>2, <2>3 DEF AgendaInv
<1> QED BY <1>1, Always, PTL

-----------------------------------------------------------------------------
(* Ready statistics                                                        *)

\* Every step has one of these effects on every job there is.
LEMMA StepEffects ==
  ASSUME IInv, [Next]_vars
  PROVE  Effects
<1>1. ASSUME NEW c \in Clients, ClientStep(c) \/ SpuriousWake(c)
      PROVE  Effects
  BY <1>1, ClientEffect DEF Effects
<1>2. ASSUME NEW t \in Threads, ThreadStep(t)
      PROVE  Effects
  <2>1. CASE CheckShutdown(t) \/ EndThread(t) \/ GetJob(t)
    BY <2>1, IdleEffect DEF Effects
  <2> QED BY <1>2, <2>1, RegisterKeeps, StepKeeps, StepEndsKeeps, CountGoodKeeps, AddPairKeeps,
             ReleaseKeeps DEF ThreadStep
<1>3. CASE Shutdown \/ Join \/ Terminated \/ UNCHANGED vars
  <2>1. UNCHANGED <<jobs, joblist, thread>>
    BY <1>3 DEF Shutdown, Join, Terminated, vars
  <2> QED BY <2>1, UntouchedEffect DEF Effects
<1> QED BY <1>1, <1>2, <1>3 DEF Next

\* The quota does not change, jobs do not vanish, and a new one is on the list and at its
\* beginning, where the two tests for its end agree.
LEMMA NewJobs ==
  ASSUME IInv, [Next]_vars
  PROVE  /\ max_samples' = max_samples /\ max_samples \in Nat
         /\ DOMAIN jobs \subseteq DOMAIN jobs'
         /\ \A n \in DOMAIN jobs' \ DOMAIN jobs :
              n \in joblist' /\ (Done(jobs'[n]) => ~MoreToSample(jobs'[n]))
<1>0. /\ jobs \in Seq(Job) /\ Len(jobs) \in Nat /\ DOMAIN jobs = 1..Len(jobs)
      /\ max_samples \in Nat
  BY AgendaAssumption DEF IInv, Types
<1>1. max_samples' = max_samples
  BY DEF Next, ClientStep, SpuriousWake, Enter, CreateAgenda, Prep, Lookup, Sleep, Return,
         ThreadStep, CheckShutdown, GetJob, RegisterWorker, Step, StepEnds, CountGood, AddPair,
         Release, EndThread, Shutdown, Join, Terminated, vars, config
<1>2. \/ DOMAIN jobs' = DOMAIN jobs
      \/ \E p : jobs' = Append(jobs, NewJob(p)) /\ joblist' = joblist \cup {Len(jobs) + 1}
  <2>1. ASSUME NEW t \in Threads, ThreadStep(t)
        PROVE  DOMAIN jobs' = DOMAIN jobs
    <3>1. CASE GetJob(t)
      BY <3>1, JobsOfGetJob
    <3>2. CASE ~GetJob(t)
      BY <2>1, <3>2 DEF ThreadStep, CheckShutdown, RegisterWorker, Step, StepEnds, CountGood,
                        AddPair, Release, Released, EndThread
    <3> QED BY <3>1, <3>2
  <2>2. ASSUME NEW c \in Clients, ClientStep(c) \/ SpuriousWake(c)
        PROVE  \/ UNCHANGED jobs
               \/ \E p : jobs' = Append(jobs, NewJob(p)) /\ joblist' = joblist \cup {Len(jobs) + 1}
    BY <2>2 DEF ClientStep, SpuriousWake, Enter, CreateAgenda, Prep, AddJob, Lookup, Sleep, Return
  <2>3. CASE Shutdown \/ Join \/ Terminated \/ UNCHANGED vars
    BY <2>3 DEF Shutdown, Join, Terminated, vars
  <2> QED BY <2>1, <2>2, <2>3 DEF Next
<1>3. ASSUME NEW p, jobs' = Append(jobs, NewJob(p)), joblist' = joblist \cup {Len(jobs) + 1}
      PROVE  /\ DOMAIN jobs \subseteq DOMAIN jobs'
             /\ \A n \in DOMAIN jobs' \ DOMAIN jobs :
                  n \in joblist' /\ (Done(jobs'[n]) => ~MoreToSample(jobs'[n]))
  <2>1. DOMAIN jobs' = 1..(Len(jobs) + 1) /\ jobs'[Len(jobs) + 1] = NewJob(p)
    BY <1>0, <1>3
  <2>2. Done(NewJob(p)) => ~MoreToSample(NewJob(p))
    <3>1. NewJob(p).good = 0
      BY DEF NewJob
    <3>2. Done(NewJob(p)) => AtEnd(NewJob(p))
      BY <1>0, <3>1 DEF Done
    <3> QED BY <3>2 DEF MoreToSample
  <2>3. \A n \in DOMAIN jobs' \ DOMAIN jobs : n = Len(jobs) + 1
    BY <1>0, <2>1
  <2> QED BY <1>0, <1>3, <2>1, <2>2, <2>3
<1> QED BY <1>0, <1>1, <1>2, <1>3

\* A job leaves the list when it is done; whoever leaves the loop of step for it after that
\* leaves nothing to sample.
Over ==
  \A n \in DOMAIN jobs :
    /\ n \notin joblist => Done(jobs[n])
    /\ Done(jobs[n]) => OnIt(n, thread) \/ ~MoreToSample(jobs[n])

\* This is inductive.
LEMMA OverKept ==
  ASSUME IInv, Over, [Next]_vars
  PROVE  Over'
<1>1. IInv'
  BY Inductive
<1>2. /\ max_samples' = max_samples /\ max_samples \in Nat
      /\ DOMAIN jobs \subseteq DOMAIN jobs'
      /\ \A n \in DOMAIN jobs' \ DOMAIN jobs :
           n \in joblist' /\ (Done(jobs'[n]) => ~MoreToSample(jobs'[n]))
  BY NewJobs
<1>3. ASSUME NEW n \in DOMAIN jobs
      PROVE  /\ n \notin joblist' => Done(jobs'[n])
             /\ Done(jobs'[n]) => OnIt(n, thread') \/ ~MoreToSample(jobs'[n])
  <2> DEFINE a == jobs[n]
             b == jobs'[n]
  <2>1. Effect(n)
    BY StepEffects DEF Effects
  <2>2. a \in Job /\ b \in Job
    BY <1>1, <1>2 DEF IInv, Types
  <2>3. (Done(a) => Done(b)) /\ (~MoreToSample(a) => ~MoreToSample(b))
    <3>1. Later(a, b)
      BY <2>1 DEF Effect
    <3> QED BY <1>2, <2>2, <3>1, OverRemains
  <2>4. n \notin joblist' => Done(a)
    BY <2>1 DEF Effect, Over
  <2>5. OnIt(n, thread') \/ (Done(b) => Done(a))
    BY <2>1 DEF Effect, Later, Done, AtEnd
  <2>6. Done(a) => OnIt(n, thread') \/ ~MoreToSample(a)
    BY <2>1 DEF Effect, Over
  <2> HIDE DEF a, b
  <2>7. /\ n \notin joblist' => Done(b)
        /\ Done(b) => OnIt(n, thread') \/ ~MoreToSample(b)
    BY <2>3, <2>4, <2>5, <2>6
  <2> QED BY <2>7 DEF b
<1>4. \A n \in DOMAIN jobs' : /\ Done(jobs[n])' <=> Done(jobs'[n])
                              /\ MoreToSample(jobs[n])' <=> MoreToSample(jobs'[n])
  BY <1>2 DEF Done, MoreToSample, AtEnd, Diversity
<1> QED BY <1>2, <1>3, <1>4 DEF Over, OnIt

\* Nobody works on a job that is ready, and there is nothing left to sample.
LEMMA ReadyIsOver ==
  ASSUME IInv, Over, NEW n \in DOMAIN jobs, jobs[n].in_progress = 0
  PROVE  AtWork(n, thread) = {} /\ n \notin joblist /\ ~MoreToSample(jobs[n])
<1>1. jobs[n].in_progress = Cardinality(AtWork(n, thread)) + In(n, joblist)
  BY DEF IInv, InProgress
<1>2. Cardinality(AtWork(n, thread)) \in Nat /\ In(n, joblist) \in {0, 1}
  BY CountTypes DEF In
<1>3. Cardinality(AtWork(n, thread)) = 0 /\ In(n, joblist) = 0
  BY <1>1, <1>2
<1>4. \A t \in AtWork(n, thread) : FALSE
  BY <1>3, CountTypes
<1>5. n \notin joblist /\ AtWork(n, thread) = {}
  BY <1>3, <1>4 DEF In
<1>6. ~OnIt(n, thread)
  BY <1>5 DEF OnIt, AtWork, Working
<1> QED BY <1>5, <1>6 DEF Over

\* Who reads the statistics of a job when in_progress is zero, without the lock, reads what
\* no worker will ever change again, also one that has been sent to the job and comes late.
THEOREM ReadyStatisticsAreFinal == Spec => ReadyIsFinal
<1> DEFINE Final(n) == /\ jobs[n].in_progress = 0 => Settled(n)
                       /\ Settled(n) => Settled(n)' /\ Statistics(n)' = Statistics(n)
<1>1. Init => Over
  BY DEF Init, Over
<1>2. IInv /\ Over /\ [Next]_vars => Over'
  BY OverKept
<1>3. ASSUME IInv, Over, [Next]_vars, NEW n \in DOMAIN jobs
      PROVE  Final(n)
  <2>1. jobs[n].in_progress = 0 => Settled(n)
    <3> SUFFICES ASSUME jobs[n].in_progress = 0 PROVE Settled(n)
      OBVIOUS
    <3>1. AtWork(n, thread) = {} /\ n \notin joblist /\ ~MoreToSample(jobs[n])
      BY <1>3, ReadyIsOver
    <3> QED BY <3>1 DEF Settled, AtWork, Working
  <2>2. Settled(n) => Settled(n)' /\ Statistics(n)' = Statistics(n)
    <3> SUFFICES ASSUME Settled(n) PROVE Settled(n)' /\ Statistics(n)' = Statistics(n)
      OBVIOUS
    <3>1. Effect(n)
      BY <1>3, StepEffects DEF Effects
    <3>2. ~MoreToSample(jobs[n]) /\ ~Counting(n, thread) /\ n \notin joblist
      BY DEF Settled, Counting
    <3>3. SameStatistics(jobs[n], jobs'[n]) /\ ~Counting(n, thread') /\ n \notin joblist'
      BY <3>1, <3>2 DEF Effect
    <3>4. jobs[n] \in Job /\ jobs'[n] \in Job
      BY <1>3, Inductive, NewJobs DEF IInv, Types
    <3>5. ~MoreToSample(jobs'[n])
      BY <1>3, <3>1, <3>2, <3>4, NewJobs, OverRemains DEF Effect
    <3>6. ~MoreToSample(jobs[n])'
      BY <1>3, <3>5, NewJobs DEF MoreToSample, AtEnd, Diversity
    <3> QED BY <3>3, <3>6 DEF Settled, Counting, Statistics, SameStatistics
  <2> QED BY <2>1, <2>2
<1>4. IInv /\ Over /\ [Next]_vars => [\A n \in DOMAIN jobs : Final(n)]_vars
  BY <1>3
<1>5. Init /\ [][Next]_vars => [][\A n \in DOMAIN jobs : Final(n)]_vars
  BY InitIInv, Inductive, <1>1, <1>2, <1>4, PTL
<1> QED BY <1>5, PTL DEF Spec, ReadyIsFinal

-----------------------------------------------------------------------------
(* Samples                                                                 *)

\* Threads that have taken an occurrence of job n and not counted it yet, or not yet for
\* target phrase x.
Counters(n, th) == {t \in Threads : th[t].job = n /\ th[t].pc = "count"}
Pending(n, x, th) ==
  {t \in Threads : th[t].job = n /\ th[t].pc \in {"count", "add"} /\ x \in th[t].todo}

\* The occurrences of S at which a target phrase, or target phrase x, is found.
GoodOnes(S, p) == {k \in S : Occurs[p][k] # {}}
Having(S, p, x) == {k \in S : x \in Occurs[p][k]}

\* S are the occurrences that were taken: what is not counted yet will be.
Fits(S, j, n, th) ==
  /\ Cardinality(S) = j.sampled
  /\ Cardinality(GoodOnes(S, j.phrase)) = j.good + Cardinality(Counters(n, th))
  /\ \A x \in TargetPhrases :
       Cardinality(Having(S, j.phrase, x)) = j.trg[x] + Cardinality(Pending(n, x, th))

Drawn(j, n, th) == \E S \in SUBSET (1..j.next) : Fits(S, j, n, th)

Smaller(m, n) == IF m <= n THEN m ELSE n

\* The sample of job j is not too large for a crew of workers, and what has still to be read
\* is enough for it not to become too small.
Quota(j, n, th, max, crew) ==
  IF max = 0 THEN j.sampled = j.next
  ELSE /\ j.good + Cardinality(Counters(n, th)) <= max - 1 + crew
       /\ j.ctr = j.next /\ j.ctr <= j.raw
       /\ Estimate[j.phrase] <= Len(Occurs[j.phrase]) =>
            /\ j.raw <= Len(Occurs[j.phrase])
            /\ Len(Occurs[j.phrase]) - j.next + j.sampled >= Smaller(max, Len(Occurs[j.phrase]))

Crew == IF pooled THEN Cardinality(Workers) ELSE 1

\* Either the workers work, or the client that holds the lock.
Duty ==
  /\ \A c \in Clients : /\ client[c].pc = "work" => ~pooled
                        /\ client[c].pc \in {"prep", "wait", "asleep", "work"} => btlock = c
  /\ ~pooled => \A w \in Workers : thread[w].pc = "off"

Samples ==
  \A n \in DOMAIN jobs : /\ Drawn(jobs[n], n, thread)
                         /\ Quota(jobs[n], n, thread, max_samples, Crew)

\* These counts are numbers, too.
LEMMA PendingTypes ==
  ASSUME NEW th, NEW n
  PROVE  /\ IsFiniteSet(Counters(n, th)) /\ Cardinality(Counters(n, th)) \in Nat
         /\ \A x : IsFiniteSet(Pending(n, x, th)) /\ Cardinality(Pending(n, x, th)) \in Nat
<1>1. IsFiniteSet(Counters(n, th)) /\ \A x : IsFiniteSet(Pending(n, x, th))
  BY ThreadsFinite, FS_Subset DEF Counters, Pending
<1> QED BY <1>1, FS_CardinalityType

\* What a step of thread t makes of them.
LEMMA CountersMove ==
  ASSUME NEW t \in Threads, NEW f, NEW g, Moves(t, f, g), NEW n
  PROVE  Cardinality(Counters(n, g)) =
           Cardinality(Counters(n, f)) + In(t, Counters(n, g)) - In(t, Counters(n, f))
<1>1. \A u : u # t => (u \in Counters(n, f) <=> u \in Counters(n, g))
  BY DEF Counters, Moves
<1> QED BY <1>1, PendingTypes, SetMoves

LEMMA PendingMoves ==
  ASSUME NEW t \in Threads, NEW f, NEW g, Moves(t, f, g), NEW n, NEW x
  PROVE  Cardinality(Pending(n, x, g)) =
           Cardinality(Pending(n, x, f)) + In(t, Pending(n, x, g)) - In(t, Pending(n, x, f))
<1>1. \A u : u # t => (u \in Pending(n, x, f) <=> u \in Pending(n, x, g))
  BY DEF Pending, Moves
<1> QED BY <1>1, PendingTypes, SetMoves

\* Sets of occurrences are finite.
LEMMA OccurrencesFinite ==
  ASSUME NEW m \in Nat, NEW S \in SUBSET (1..m), NEW p
  PROVE  /\ IsFiniteSet(S) /\ Cardinality(S) \in Nat /\ Cardinality(S) <= m
         /\ IsFiniteSet(GoodOnes(S, p)) /\ Cardinality(GoodOnes(S, p)) \in Nat
         /\ Cardinality(GoodOnes(S, p)) <= Cardinality(S)
         /\ \A x : IsFiniteSet(Having(S, p, x)) /\ Cardinality(Having(S, p, x)) \in Nat
<1>1. IsFiniteSet(1..m) /\ Cardinality(1..m) = m
  <2>1. IsFiniteSet(1..m) /\ Cardinality(1..m) = IF 1 > m THEN 0 ELSE m - 1 + 1
    BY FS_Interval
  <2> QED BY <2>1
<1>2. IsFiniteSet(S) /\ Cardinality(S) <= m
  BY <1>1, FS_Subset
<1>3. GoodOnes(S, p) \in SUBSET S /\ \A x : Having(S, p, x) \in SUBSET S
  BY DEF GoodOnes, Having
<1>4. IsFiniteSet(GoodOnes(S, p)) /\ Cardinality(GoodOnes(S, p)) <= Cardinality(S)
  BY <1>2, <1>3, FS_Subset
<1>5. \A x : IsFiniteSet(Having(S, p, x))
  BY <1>2, <1>3, FS_Subset
<1> QED BY <1>2, <1>4, <1>5, FS_CardinalityType

\* No more is good than is sampled.
LEMMA GoodIsSampled ==
  ASSUME NEW j \in Job, NEW n, NEW th, Drawn(j, n, th)
  PROVE  j.good <= j.sampled
<1>1. PICK S \in SUBSET (1..j.next) : Fits(S, j, n, th)
  BY DEF Drawn
<1>2. j.next \in Nat /\ j.good \in Nat /\ j.sampled \in Nat
  BY DEF Job
<1>3. Cardinality(GoodOnes(S, j.phrase)) \in Nat /\ Cardinality(GoodOnes(S, j.phrase)) <= Cardinality(S)
  BY <1>2, OccurrencesFinite
<1>4. /\ Cardinality(S) = j.sampled
      /\ Cardinality(GoodOnes(S, j.phrase)) = j.good + Cardinality(Counters(n, th))
  BY <1>1 DEF Fits
<1>5. Cardinality(Counters(n, th)) \in Nat
  BY PendingTypes
<1> QED BY <1>2, <1>3, <1>4, <1>5

\* Job b is where job a was, and what thread t adds to it from f to g it does not hold any more.
Carried(t, f, g, n, a, b) ==
  /\ b.phrase = a.phrase /\ b.next = a.next /\ b.sampled = a.sampled
  /\ b.ctr = a.ctr /\ b.raw = a.raw
  /\ b.good + In(t, Counters(n, g)) = a.good + In(t, Counters(n, f))
  /\ \A x \in TargetPhrases : b.trg[x] + In(t, Pending(n, x, g)) = a.trg[x] + In(t, Pending(n, x, f))

\* The sums for Fits when the sample is the same.
LEMMA SumsCarried ==
  ASSUME NEW t \in Threads, NEW f, NEW g, Moves(t, f, g), NEW n, NEW a \in Job, NEW b \in Job,
         b.good + In(t, Counters(n, g)) = a.good + In(t, Counters(n, f)),
         \A x \in TargetPhrases : b.trg[x] + In(t, Pending(n, x, g)) = a.trg[x] + In(t, Pending(n, x, f))
  PROVE  /\ b.good + Cardinality(Counters(n, g)) = a.good + Cardinality(Counters(n, f))
         /\ \A x \in TargetPhrases :
              b.trg[x] + Cardinality(Pending(n, x, g)) = a.trg[x] + Cardinality(Pending(n, x, f))
<1>1. \A x, A : In(x, A) \in {0, 1}
  BY DEF In
<1>2. a.good \in Nat /\ b.good \in Nat /\ \A x \in TargetPhrases : a.trg[x] \in Nat /\ b.trg[x] \in Nat
  BY DEF Job
<1>3. b.good + Cardinality(Counters(n, g)) = a.good + Cardinality(Counters(n, f))
  <2>1. Cardinality(Counters(n, g)) =
          Cardinality(Counters(n, f)) + In(t, Counters(n, g)) - In(t, Counters(n, f))
    BY CountersMove
  <2>2. Cardinality(Counters(n, f)) \in Nat
    BY PendingTypes
  <2> QED BY <1>1, <1>2, <2>1, <2>2
<1>4. ASSUME NEW x \in TargetPhrases
      PROVE  b.trg[x] + Cardinality(Pending(n, x, g)) = a.trg[x] + Cardinality(Pending(n, x, f))
  <2>1. Cardinality(Pending(n, x, g)) =
          Cardinality(Pending(n, x, f)) + In(t, Pending(n, x, g)) - In(t, Pending(n, x, f))
    BY PendingMoves
  <2>2. Cardinality(Pending(n, x, f)) \in Nat
    BY PendingTypes
  <2>3. /\ In(t, Pending(n, x, g)) \in {0, 1} /\ In(t, Pending(n, x, f)) \in {0, 1}
        /\ a.trg[x] \in Nat /\ b.trg[x] \in Nat
        /\ b.trg[x] + In(t, Pending(n, x, g)) = a.trg[x] + In(t, Pending(n, x, f))
    BY <1>1, <1>2
  <2> QED BY <2>1, <2>2, <2>3
<1> QED BY <1>3, <1>4

\* The sample remains what it was.
LEMMA SampleCarried ==
  ASSUME NEW t \in Threads, NEW f, NEW g, Moves(t, f, g), NEW n, NEW a \in Job, NEW b \in Job,
         Carried(t, f, g, n, a, b), NEW max, NEW crew
  PROVE  /\ Drawn(a, n, f) => Drawn(b, n, g)
         /\ Quota(a, n, f, max, crew) => Quota(b, n, g, max, crew)
<1>1. /\ b.good + Cardinality(Counters(n, g)) = a.good + Cardinality(Counters(n, f))
      /\ \A x \in TargetPhrases :
           b.trg[x] + Cardinality(Pending(n, x, g)) = a.trg[x] + Cardinality(Pending(n, x, f))
  BY SumsCarried DEF Carried
<1>2. /\ b.phrase = a.phrase /\ b.next = a.next /\ b.sampled = a.sampled
      /\ b.ctr = a.ctr /\ b.raw = a.raw
  BY DEF Carried
<1>3. ASSUME NEW S, Fits(S, a, n, f) PROVE Fits(S, b, n, g)
  BY <1>1, <1>2, <1>3 DEF Fits
<1> QED BY <1>1, <1>2, <1>3 DEF Drawn, Quota

\* An occurrence is taken.
LEMMA SampleTaken ==
  ASSUME NEW t \in Threads, NEW f, NEW g, Moves(t, f, g), NEW n, NEW a \in Job, NEW b \in Job,
         NEW k, k = a.next + 1, b.phrase = a.phrase, b.next = k, b.sampled = a.sampled + 1,
         b.good = a.good, b.trg = a.trg,
         t \notin Counters(n, f), \A x : t \notin Pending(n, x, f),
         t \in Counters(n, g) <=> Occurs[a.phrase][k] # {},
         \A x \in TargetPhrases : t \in Pending(n, x, g) <=> x \in Occurs[a.phrase][k],
         Drawn(a, n, f)
  PROVE  Drawn(b, n, g)
<1>1. PICK S \in SUBSET (1..a.next) : Fits(S, a, n, f)
  BY DEF Drawn
<1>2. PICK T : T = S \cup {k}
  OBVIOUS
<1>3. PICK p : p = a.phrase
  OBVIOUS
<1>4. a.next \in Nat /\ a.good \in Nat /\ a.sampled \in Nat /\ \A x \in TargetPhrases : a.trg[x] \in Nat
  BY DEF Job
<1>5. k \notin S /\ T \in SUBSET (1..k) /\ k \in Nat /\ k \in T
  <2>1. k \in Nat /\ k \notin 1..a.next /\ k \in 1..k /\ \A i \in 1..a.next : i \in 1..k
    BY <1>4
  <2>2. k \notin S /\ \A i \in S : i \in 1..k
    BY <2>1
  <2> QED BY <1>2, <2>1, <2>2
<1>6. /\ IsFiniteSet(S) /\ Cardinality(S) \in Nat
      /\ IsFiniteSet(GoodOnes(S, p)) /\ Cardinality(GoodOnes(S, p)) \in Nat
      /\ \A x : IsFiniteSet(Having(S, p, x)) /\ Cardinality(Having(S, p, x)) \in Nat
  BY <1>4, OccurrencesFinite
<1>7. Cardinality(T) = Cardinality(S) + 1
  <2>1. \A x : x # k => (x \in S <=> x \in T)
    BY <1>2
  <2> QED BY <1>5, <1>6, <2>1, SetStep
<1>8. Cardinality(GoodOnes(T, p)) =
        Cardinality(GoodOnes(S, p)) + In(k, GoodOnes(T, p)) - In(k, GoodOnes(S, p))
  <2>1. \A x : x # k => (x \in GoodOnes(S, p) <=> x \in GoodOnes(T, p))
    BY <1>2 DEF GoodOnes
  <2> QED BY <1>6, <2>1, SetMoves
<1>9. ASSUME NEW x
      PROVE  Cardinality(Having(T, p, x)) =
               Cardinality(Having(S, p, x)) + In(k, Having(T, p, x)) - In(k, Having(S, p, x))
  <2>1. \A y : y # k => (y \in Having(S, p, x) <=> y \in Having(T, p, x))
    BY <1>2 DEF Having
  <2> QED BY <1>6, <2>1, SetMoves
<1>10. /\ In(k, GoodOnes(S, p)) = 0 /\ In(k, GoodOnes(T, p)) = In(t, Counters(n, g))
       /\ In(t, Counters(n, f)) = 0
  BY <1>3, <1>5 DEF In, GoodOnes
<1>11. \A x \in TargetPhrases : /\ In(k, Having(S, p, x)) = 0
                                /\ In(k, Having(T, p, x)) = In(t, Pending(n, x, g))
                                /\ In(t, Pending(n, x, f)) = 0
  BY <1>3, <1>5 DEF In, Having
<1>12. Cardinality(T) = b.sampled
  BY <1>1, <1>4, <1>7 DEF Fits
<1>13. Cardinality(GoodOnes(T, b.phrase)) = b.good + Cardinality(Counters(n, g))
  <2>1. Cardinality(GoodOnes(S, p)) = a.good + Cardinality(Counters(n, f))
    BY <1>1, <1>3 DEF Fits
  <2>2. Cardinality(Counters(n, g)) =
          Cardinality(Counters(n, f)) + In(t, Counters(n, g)) - In(t, Counters(n, f))
    BY CountersMove
  <2>3. Cardinality(Counters(n, f)) \in Nat /\ In(t, Counters(n, g)) \in {0, 1}
    BY PendingTypes DEF In
  <2>4. Cardinality(GoodOnes(T, p)) = a.good + Cardinality(Counters(n, g))
    BY <1>4, <1>8, <1>10, <2>1, <2>2, <2>3
  <2> QED BY <1>3, <2>4
<1>14. ASSUME NEW x \in TargetPhrases
       PROVE  Cardinality(Having(T, b.phrase, x)) = b.trg[x] + Cardinality(Pending(n, x, g))
  <2>1. Cardinality(Having(S, p, x)) = a.trg[x] + Cardinality(Pending(n, x, f))
    BY <1>1, <1>3 DEF Fits
  <2>2. Cardinality(Pending(n, x, g)) =
          Cardinality(Pending(n, x, f)) + In(t, Pending(n, x, g)) - In(t, Pending(n, x, f))
    BY PendingMoves
  <2>3. Cardinality(Pending(n, x, f)) \in Nat /\ In(t, Pending(n, x, g)) \in {0, 1} /\ a.trg[x] \in Nat
    BY <1>4, PendingTypes DEF In
  <2>4. /\ Cardinality(Having(T, p, x)) =
             Cardinality(Having(S, p, x)) + In(k, Having(T, p, x)) - In(k, Having(S, p, x))
        /\ In(k, Having(S, p, x)) = 0 /\ In(k, Having(T, p, x)) = In(t, Pending(n, x, g))
        /\ In(t, Pending(n, x, f)) = 0
    BY <1>9, <1>11
  <2>5. Cardinality(Having(T, p, x)) = a.trg[x] + Cardinality(Pending(n, x, g))
    BY <2>1, <2>2, <2>3, <2>4
  <2> QED BY <1>3, <2>5
<1>15. Fits(T, b, n, g)
  BY <1>12, <1>13, <1>14 DEF Fits
<1> QED BY <1>5, <1>15 DEF Drawn

\* An occurrence is skipped, or the lock is taken: the sample is the same.
LEMMA SampleSkipped ==
  ASSUME NEW n, NEW f, NEW a \in Job, NEW b \in Job,
         b.phrase = a.phrase, b.next = a.next + 1, b.sampled = a.sampled,
         b.good = a.good, b.trg = a.trg, Drawn(a, n, f)
  PROVE  Drawn(b, n, f)
<1>1. PICK S \in SUBSET (1..a.next) : Fits(S, a, n, f)
  BY DEF Drawn
<1>2. a.next \in Nat
  BY DEF Job
<1>3. S \in SUBSET (1..b.next)
  BY <1>2
<1>4. Fits(S, b, n, f)
  BY <1>1 DEF Fits
<1> QED BY <1>3, <1>4 DEF Drawn

\* The others at work when a thread may take an occurrence: there is room for it in the crew.
LEMMA CrewBound ==
  ASSUME IInv, Duty, NEW t \in Threads, thread[t].pc = "step", NEW n
  PROVE  Cardinality(Counters(n, thread)) + 1 <= Crew /\ Crew \in Nat
<1> DEFINE C == Counters(n, thread)
<1>1. \A c \in Clients : client[c].pc # "work" => thread[c].pc = "off"
  BY DEF IInv, Places
<1>2. IsFiniteSet(C) /\ Cardinality(C) \in Nat
  BY PendingTypes
<1>3. CASE pooled
  <2>1. \A c \in Clients : thread[c].pc = "off"
    BY <1>1, <1>3 DEF Duty
  <2>2. \A u \in Threads : thread[u].pc # "off" => u \in Workers
    BY <2>1 DEF Threads
  <2>3. t \in Workers /\ t \notin C /\ C \cup {t} \in SUBSET Workers
    BY <2>2 DEF Counters
  <2>4. Cardinality(C \cup {t}) = Cardinality(C) + 1
    <3> HIDE DEF C
    <3> QED BY <1>2, <2>3, FS_AddElement
  <2>5. IsFiniteSet(Workers)
    BY AgendaAssumption
  <2>6. Cardinality(C \cup {t}) <= Cardinality(Workers) /\ Cardinality(Workers) \in Nat
    <3> HIDE DEF C
    <3> QED BY <2>3, <2>5, FS_Subset, FS_CardinalityType
  <2> QED BY <1>2, <1>3, <2>4, <2>6 DEF Crew
<1>4. CASE ~pooled
  <2>1. \A u \in Threads : thread[u].pc # "off" => u \in Clients /\ btlock = u
    BY <1>1, <1>4 DEF Duty, Threads
  <2>2. \A u \in Threads : u # t => thread[u].pc = "off"
    BY <2>1
  <2>3. C = {}
    BY <2>2 DEF Counters
  <2>4. Cardinality(C) = 0
    BY <2>3, FS_EmptySet
  <2> QED BY <1>4, <2>4 DEF Crew
<1> QED BY <1>3, <1>4


\* Job b has the sample of job a.
SameDraw(a, b) ==
  /\ b.phrase = a.phrase /\ b.next = a.next /\ b.sampled = a.sampled
  /\ b.ctr = a.ctr /\ b.raw = a.raw /\ b.good = a.good /\ b.trg = a.trg

\* Nobody who counts for job n has moved.
StillCounting(n) ==
  \A u \in Threads : \/ thread'[u] = thread[u]
                     \/ thread'[u].pc \notin {"count", "add"} /\ thread[u].pc \notin {"count", "add"}
                     \/ thread'[u].job # n /\ thread[u].job # n

\* What is true of the sample of job n after the step.
Kept(n) == Drawn(jobs'[n], n, thread') /\ Quota(jobs'[n], n, thread', max_samples, Crew)

\* Of a job whose sample nobody touches.
LEMMA UntouchedKept ==
  ASSUME Samples, NEW n \in DOMAIN jobs, SameDraw(jobs[n], jobs'[n]), StillCounting(n)
  PROVE  Kept(n)
<1>1. PICK a : a = jobs[n]
  OBVIOUS
<1>2. PICK b : b = jobs'[n]
  OBVIOUS
<1>3. /\ b.phrase = a.phrase /\ b.next = a.next /\ b.sampled = a.sampled
      /\ b.ctr = a.ctr /\ b.raw = a.raw /\ b.good = a.good /\ b.trg = a.trg
  BY <1>1, <1>2 DEF SameDraw
<1>4. Counters(n, thread') = Counters(n, thread)
  BY DEF StillCounting, Counters
<1>5. \A x : Pending(n, x, thread') = Pending(n, x, thread)
  BY DEF StillCounting, Pending
<1>6. Drawn(a, n, thread) /\ Quota(a, n, thread, max_samples, Crew)
  BY <1>1 DEF Samples
<1>7. Drawn(b, n, thread')
  <2>1. PICK S \in SUBSET (1..a.next) : Fits(S, a, n, thread)
    BY <1>6 DEF Drawn
  <2>2. Fits(S, b, n, thread')
    BY <1>3, <1>4, <1>5, <2>1 DEF Fits
  <2> QED BY <1>3, <2>1, <2>2 DEF Drawn
<1>8. Quota(b, n, thread', max_samples, Crew)
  BY <1>3, <1>4, <1>6 DEF Quota
<1> QED BY <1>2, <1>7, <1>8 DEF Kept

\* What get_job, register_worker and release do to a job record does not touch its sample.
LEMMA UpdatesDraw ==
  ASSUME NEW a \in Job, NEW v, NEW w
  PROVE  /\ SameDraw(a, a) /\ SameDraw(a, [a EXCEPT !.workers = v])
         /\ SameDraw(a, [a EXCEPT !.in_progress = v]) /\ SameDraw(a, [a EXCEPT !.lock = v])
         /\ SameDraw(a, [[a EXCEPT !.in_progress = v] EXCEPT !.workers = w])
  BY DEF Job, SameDraw

\* Thread t goes on to s and job j replaces its own: the other samples are kept.
LEMMA OthersKept ==
  ASSUME IInv, Samples, NEW t \in Threads, thread[t].job \in DOMAIN jobs, NEW j, NEW s,
         jobs' = [jobs EXCEPT ![thread[t].job] = j], thread' = [thread EXCEPT ![t] = s],
         s.job \in {0, thread[t].job}
  PROVE  /\ jobs'[thread[t].job] = j
         /\ thread'[t] = s /\ Moves(t, thread, thread')
         /\ \A n \in DOMAIN jobs : n # thread[t].job => Kept(n)
         /\ s.pc \notin {"count", "add"} /\ thread[t].pc \notin {"count", "add"} =>
              StillCounting(thread[t].job)
<1>1. thread'[t] = s /\ \A u \in Threads : u # t => thread'[u] = thread[u]
  BY OldTypes
<1>2. jobs'[thread[t].job] = j /\ \A n \in DOMAIN jobs : n # thread[t].job => jobs'[n] = jobs[n]
  BY DEF IInv, Types
<1>3. ASSUME NEW n \in DOMAIN jobs, n # thread[t].job
      PROVE  Kept(n)
  <2>1. n # 0 /\ jobs[n] \in Job
    BY DEF IInv, Types
  <2>2. SameDraw(jobs[n], jobs'[n])
    BY <1>2, <1>3, <2>1, UpdatesDraw
  <2>3. StillCounting(n)
    BY <1>1, <1>3, <2>1 DEF StillCounting
  <2> QED BY <2>2, <2>3, UntouchedKept
<1> QED BY <1>1, <1>2, <1>3 DEF Moves, StillCounting

\* Steps of a thread that counts nothing.
LEMMA PassersKeep ==
  ASSUME IInv, Samples, NEW t \in Threads,
         CheckShutdown(t) \/ EndThread(t) \/ GetJob(t) \/ RegisterWorker(t) \/ StepEnds(t) \/ Release(t),
         NEW n \in DOMAIN jobs
  PROVE  Kept(n)
<1>1. jobs \in Seq(Job) /\ jobs[n] \in Job /\ DOMAIN jobs = 1..Len(jobs)
  BY DEF IInv, Types
<1>2. StillCounting(n)
  <2>1. thread[t].pc \notin {"count", "add"}
    BY DEF CheckShutdown, EndThread, GetJob, RegisterWorker, StepEnds, Release
  <2> DEFINE Outside == /\ thread'[t].pc \notin {"count", "add"}
                        /\ \A u \in Threads : u # t => thread'[u] = thread[u]
  <2>2. ASSUME CheckShutdown(t) \/ EndThread(t) \/ RegisterWorker(t) \/ StepEnds(t) PROVE Outside
    <3>1. \E pc \in {"get", "ending", "ended", "off", "step", "release"} :
            thread' = [thread EXCEPT ![t].pc = pc]
      BY <2>2 DEF CheckShutdown, EndThread, RegisterWorker, StepEnds
    <3> QED BY <3>1, OldTypes DEF ThreadState
  <2>3. ASSUME GetJob(t) PROVE Outside
    <3>1. \E pc \in {"ending", "register"} : \E j :
            \/ thread' = [thread EXCEPT ![t].pc = pc]
            \/ thread' = [thread EXCEPT ![t].pc = pc, ![t].job = j]
      BY <2>3 DEF GetJob
    <3> QED BY <3>1, OldTypes DEF ThreadState
  <2>4. ASSUME Release(t) PROVE Outside
    <3>1. thread' = [thread EXCEPT ![t] = [Idle EXCEPT !.pc = "check"]]
      BY <2>4 DEF Release
    <3>2. [Idle EXCEPT !.pc = "check"].pc = "check"
      BY DEF Idle
    <3> QED BY <3>1, <3>2, OldTypes
  <2>5. Outside
    BY <2>2, <2>3, <2>4
  <2> QED BY <2>1, <2>5 DEF StillCounting
<1>3. SameDraw(jobs[n], jobs'[n])
  <2>1. CASE CheckShutdown(t) \/ EndThread(t)
    <3>1. jobs' = jobs
      BY <2>1 DEF CheckShutdown, EndThread
    <3> QED BY <1>1, <3>1, UpdatesDraw
  <2>2. CASE RegisterWorker(t) \/ StepEnds(t)
    <3>1. PICK m, v : \/ jobs' = [jobs EXCEPT ![m].in_progress = v]
                      \/ jobs' = [jobs EXCEPT ![m].lock = v]
      BY <2>2 DEF RegisterWorker, StepEnds
    <3>2. \/ jobs'[n] = jobs[n]
          \/ jobs'[n] = [jobs[n] EXCEPT !.in_progress = v]
          \/ jobs'[n] = [jobs[n] EXCEPT !.lock = v]
      BY <1>1, <3>1
    <3> QED BY <1>1, <3>2, UpdatesDraw, ZenonT(60)
  <2>3. CASE Release(t)
    <3>1. \E v : \/ jobs'[n] = jobs[n]
                 \/ jobs'[n] = [jobs[n] EXCEPT !.in_progress = v]
      BY <1>1, <2>3 DEF Release, Released
    <3> QED BY <1>1, <3>1, UpdatesDraw
  <2>4. CASE GetJob(t)
    <3> DEFINE rel == Released(jobs, Finished)
    <3>1. PICK m : \/ jobs' = rel
                   \/ jobs' = [rel EXCEPT ![m].workers = @ + 1]
      BY <2>4 DEF GetJob
    <3>2. n \in DOMAIN rel /\ \E v : rel[n] = jobs[n] \/ rel[n] = [jobs[n] EXCEPT !.in_progress = v]
      BY DEF Released
    <3> HIDE DEF rel
    <3>3. PICK v : rel[n] = jobs[n] \/ rel[n] = [jobs[n] EXCEPT !.in_progress = v]
      BY <3>2
    <3>4. \E w : jobs'[n] = rel[n] \/ jobs'[n] = [rel[n] EXCEPT !.workers = w]
      BY <3>1, <3>2
    <3>5. PICK w : jobs'[n] = rel[n] \/ jobs'[n] = [rel[n] EXCEPT !.workers = w]
      BY <3>4
    <3>6. \/ jobs'[n] = jobs[n]
          \/ jobs'[n] = [jobs[n] EXCEPT !.workers = w]
          \/ jobs'[n] = [jobs[n] EXCEPT !.in_progress = v]
          \/ jobs'[n] = [[jobs[n] EXCEPT !.in_progress = v] EXCEPT !.workers = w]
      BY <3>3, <3>5
    <3>7. /\ SameDraw(jobs[n], jobs[n]) /\ SameDraw(jobs[n], [jobs[n] EXCEPT !.workers = w])
          /\ SameDraw(jobs[n], [jobs[n] EXCEPT !.in_progress = v])
          /\ SameDraw(jobs[n], [[jobs[n] EXCEPT !.in_progress = v] EXCEPT !.workers = w])
      BY <1>1, UpdatesDraw
    <3> QED BY <3>6, <3>7, Zenon
  <2> QED BY <2>1, <2>2, <2>3, <2>4
<1> QED BY <1>2, <1>3, UntouchedKept

\* What a thread took before is counted, or a target phrase found there.
LEMMA CarriedKept ==
  ASSUME IInv, Samples, NEW t \in Threads, NEW n \in DOMAIN jobs, jobs'[n] \in Job,
         Moves(t, thread, thread'), Carried(t, thread, thread', n, jobs[n], jobs'[n])
  PROVE  Kept(n)
<1>1. PICK a, b, f, g, max, crew :
        a = jobs[n] /\ b = jobs'[n] /\ f = thread /\ g = thread' /\ max = max_samples /\ crew = Crew
  OBVIOUS
<1>2. a \in Job /\ b \in Job
  BY <1>1 DEF IInv, Types
<1>3. Moves(t, f, g) /\ Carried(t, f, g, n, a, b)
  BY <1>1
<1>4. Drawn(a, n, f) /\ Quota(a, n, f, max, crew)
  BY <1>1 DEF Samples
<1>5. Drawn(b, n, g) /\ Quota(b, n, g, max, crew)
  BY <1>2, <1>3, <1>4, SampleCarried
<1> QED BY <1>1, <1>5 DEF Kept

\* An occurrence is counted.
LEMMA CountGoodKept ==
  ASSUME IInv, Samples, NEW t \in Threads, CountGood(t), NEW n \in DOMAIN jobs
  PROVE  Kept(n)
<1>1. PICK m, a, j, s :
        /\ m = thread[t].job /\ a = jobs[m]
        /\ j = [a EXCEPT !.good = @ + 1] /\ s = [thread[t] EXCEPT !.pc = "add"]
  OBVIOUS
<1>2. /\ thread[t].pc = "count" /\ thread[t].pc \in Working \cup {"register"}
      /\ jobs' = [jobs EXCEPT ![thread[t].job] = j] /\ thread' = [thread EXCEPT ![t] = s]
  BY <1>1 DEF CountGood, Working
<1>3. m \in DOMAIN jobs /\ a \in Job /\ thread[t] \in ThreadState
  BY <1>1, <1>2, JobInHand
<1>4. s.job = m /\ s.pc = "add" /\ s.todo = thread[t].todo
  BY <1>1, <1>3 DEF ThreadState
<1>5. /\ j \in Job /\ j.phrase = a.phrase /\ j.next = a.next /\ j.sampled = a.sampled
      /\ j.ctr = a.ctr /\ j.raw = a.raw /\ j.good = a.good + 1 /\ j.trg = a.trg
  BY <1>1, <1>3 DEF Job
<1>6. /\ jobs'[m] = j /\ thread'[t] = s /\ Moves(t, thread, thread')
      /\ \A i \in DOMAIN jobs : i # m => Kept(i)
  <2>1. m = thread[t].job
    BY <1>1
  <2>2. thread[t].job \in DOMAIN jobs /\ s.job \in {0, thread[t].job}
    BY <1>3, <1>4, <2>1
  <2> QED BY <1>2, <2>1, <2>2, OthersKept
<1>7. Carried(t, thread, thread', m, a, j)
  <2>1. In(t, Counters(m, thread)) = 1 /\ In(t, Counters(m, thread')) = 0
    BY <1>1, <1>2, <1>4, <1>6 DEF In, Counters
  <2>2. \A x : In(t, Pending(m, x, thread')) = In(t, Pending(m, x, thread))
    BY <1>1, <1>2, <1>4, <1>6 DEF In, Pending
  <2>3. a.good \in Nat
    BY <1>3 DEF Job
  <2>4. j.good + In(t, Counters(m, thread')) = a.good + In(t, Counters(m, thread))
    BY <1>5, <2>1, <2>3
  <2> QED BY <1>5, <2>2, <2>4 DEF Carried
<1>8. Kept(m)
  BY <1>1, <1>3, <1>5, <1>6, <1>7, CarriedKept
<1> QED BY <1>6, <1>8

\* A target phrase is.
LEMMA AddPairKept ==
  ASSUME IInv, Samples, NEW t \in Threads, AddPair(t), NEW n \in DOMAIN jobs
  PROVE  Kept(n)
<1>0. PICK target \in thread[t].todo :
        /\ jobs' = [jobs EXCEPT ![thread[t].job].trg[target] = @ + 1]
        /\ thread' = [thread EXCEPT ![t].todo = @ \ {target},
                                    ![t].pc = IF thread[t].todo = {target} THEN "step" ELSE "add"]
  BY DEF AddPair
<1>1. PICK m, a, j, s :
        /\ m = thread[t].job /\ a = jobs[m]
        /\ j = [a EXCEPT !.trg[target] = @ + 1]
        /\ s = [thread[t] EXCEPT !.todo = @ \ {target},
                                 !.pc = IF thread[t].todo = {target} THEN "step" ELSE "add"]
  OBVIOUS
<1>2. /\ thread[t].pc = "add" /\ thread[t].pc \in Working \cup {"register"}
      /\ jobs' = [jobs EXCEPT ![thread[t].job] = j] /\ thread' = [thread EXCEPT ![t] = s]
  BY <1>0, <1>1 DEF AddPair, Working
<1>3. m \in DOMAIN jobs /\ a \in Job /\ thread[t] \in ThreadState
  BY <1>1, <1>2, JobInHand
<1>4. /\ s.job = m /\ s.todo = thread[t].todo \ {target} /\ target \in TargetPhrases
      /\ s.pc = "add" \/ (s.pc = "step" /\ thread[t].todo = {target})
  BY <1>1, <1>3 DEF ThreadState
<1>5. /\ j \in Job /\ j.phrase = a.phrase /\ j.next = a.next /\ j.sampled = a.sampled
      /\ j.ctr = a.ctr /\ j.raw = a.raw /\ j.good = a.good
      /\ j.trg[target] = a.trg[target] + 1
      /\ \A y \in TargetPhrases : y # target => j.trg[y] = a.trg[y]
  BY <1>1, <1>3, <1>4 DEF Job
<1>6. /\ jobs'[m] = j /\ thread'[t] = s /\ Moves(t, thread, thread')
      /\ \A i \in DOMAIN jobs : i # m => Kept(i)
  <2>1. m = thread[t].job
    BY <1>1
  <2>2. thread[t].job \in DOMAIN jobs /\ s.job \in {0, thread[t].job}
    BY <1>3, <1>4, <2>1
  <2> QED BY <1>2, <2>1, <2>2, OthersKept
<1>7. Carried(t, thread, thread', m, a, j)
  <2>1. In(t, Counters(m, thread)) = 0 /\ In(t, Counters(m, thread')) = 0
    BY <1>2, <1>4, <1>6 DEF In, Counters
  <2>2. In(t, Pending(m, target, thread)) = 1 /\ In(t, Pending(m, target, thread')) = 0
    BY <1>1, <1>2, <1>4, <1>6 DEF In, Pending
  <2>3. \A x : x # target => In(t, Pending(m, x, thread')) = In(t, Pending(m, x, thread))
    BY <1>1, <1>2, <1>4, <1>6 DEF In, Pending
  <2>4. \A x \in TargetPhrases : a.trg[x] \in Nat
    BY <1>3 DEF Job
  <2>5. \A x \in TargetPhrases :
          j.trg[x] + In(t, Pending(m, x, thread')) = a.trg[x] + In(t, Pending(m, x, thread))
    <3> SUFFICES ASSUME NEW x \in TargetPhrases
                 PROVE  j.trg[x] + In(t, Pending(m, x, thread')) = a.trg[x] + In(t, Pending(m, x, thread))
      OBVIOUS
    <3>1. CASE x = target
      BY <1>5, <2>2, <2>4, <3>1
    <3>2. CASE x # target
      BY <1>5, <2>3, <3>2
    <3> QED BY <3>1, <3>2
  <2> QED BY <1>5, <2>1, <2>5 DEF Carried
<1>8. Kept(m)
  BY <1>1, <1>3, <1>5, <1>6, <1>7, CarriedKept
<1> QED BY <1>6, <1>8

\* Job b is job a after an occurrence has been read, and taken or not.
Read(a, b, max, taken) ==
  /\ b.phrase = a.phrase /\ b.next = a.next + 1 /\ b.sampled = a.sampled + taken
  /\ b.ctr = (IF max = 0 THEN a.ctr ELSE a.ctr + 1)
  /\ b.raw = (IF a.raw = a.ctr THEN a.raw + 1 ELSE a.raw)
  /\ b.good = a.good /\ b.trg = a.trg

\* The numbers that Quota compares.
LEMMA QuotaTypes ==
  ASSUME NEW a \in Job
  PROVE  /\ a.next \in Nat /\ a.sampled \in Nat /\ a.ctr \in Nat /\ a.raw \in Nat /\ a.good \in Nat
         /\ Len(Occurs[a.phrase]) \in Nat /\ Estimate[a.phrase] \in Nat
<1>1. a.phrase \in Phrases
  BY DEF Job
<1> QED BY <1>1, AgendaAssumption DEF Job

\* What the reading of an occurrence changes in the comparison.
LEMMA QuotaRead ==
  ASSUME NEW a \in Job, NEW b \in Job, NEW max \in Nat, NEW taken \in {0, 1}, NEW crew, NEW n, NEW f, NEW g,
         Read(a, b, max, taken), a.next < Len(Occurs[a.phrase]), Quota(a, n, f, max, crew),
         max = 0 => taken = 1,
         max > 0 => b.good + Cardinality(Counters(n, g)) <= max - 1 + crew,
         max > 0 /\ taken = 0 => a.good <= a.sampled /\ max <= b.raw - a.ctr - 1 + a.good
  PROVE  Quota(b, n, g, max, crew)
<1>1. PICK all, est : all = Len(Occurs[a.phrase]) /\ est = Estimate[a.phrase]
  OBVIOUS
<1>2. /\ a.next \in Nat /\ a.sampled \in Nat /\ a.ctr \in Nat /\ a.raw \in Nat /\ a.good \in Nat
      /\ all \in Nat /\ est \in Nat /\ a.next < all
  BY <1>1, QuotaTypes
<1>3. /\ b.phrase = a.phrase /\ b.next = a.next + 1 /\ b.sampled = a.sampled + taken
      /\ b.ctr = (IF max = 0 THEN a.ctr ELSE a.ctr + 1)
      /\ b.raw = (IF a.raw = a.ctr THEN a.raw + 1 ELSE a.raw)
  BY DEF Read
<1>4. CASE max = 0
  <2>1. a.sampled = a.next
    BY <1>4 DEF Quota
  <2>2. b.sampled = b.next
    BY <1>2, <1>3, <1>4, <2>1
  <2> QED BY <1>4, <2>2 DEF Quota
<1>5. CASE max > 0
  <2>1. /\ a.ctr = a.next /\ a.ctr <= a.raw
        /\ est <= all => a.raw <= all /\ all - a.next + a.sampled >= Smaller(max, all)
    BY <1>1, <1>5 DEF Quota
  <2>2. b.ctr = b.next /\ b.ctr <= b.raw
    BY <1>2, <1>3, <1>5, <2>1
  <2>3. ASSUME est <= all PROVE b.raw <= all
    BY <1>2, <1>3, <2>1, <2>3
  <2>4. ASSUME est <= all PROVE all - b.next + b.sampled >= Smaller(max, all)
    <3>1. CASE taken = 1
      BY <1>2, <1>3, <2>1, <2>4, <3>1
    <3>2. CASE taken = 0
      <4>1. max <= b.raw - a.ctr - 1 + a.good /\ a.good <= a.sampled /\ b.raw <= all
        BY <1>5, <2>3, <2>4, <3>2
      <4>2. b.next = a.ctr + 1 /\ b.sampled = a.sampled /\ b.raw \in Nat
        BY <1>2, <1>3, <2>1, <3>2
      <4>3. max <= all - b.next + b.sampled
        BY <1>2, <4>1, <4>2, SMTT(30)
      <4>4. Smaller(max, all) <= max
        BY <1>2 DEF Smaller
      <4>5. Smaller(max, all) \in Nat
        BY <1>2 DEF Smaller
      <4> QED BY <1>2, <4>2, <4>3, <4>4, <4>5
    <3> QED BY <3>1, <3>2
  <2> QED BY <1>1, <1>3, <1>5, <2>2, <2>3, <2>4 DEF Quota
<1> QED BY <1>4, <1>5

\* The record of the job that step makes of a.
LEMMA ReadRecord ==
  ASSUME NEW a \in Job, NEW max \in Nat, NEW read,
         read = [a EXCEPT !.next = @ + 1, !.raw = IF a.raw = a.ctr THEN a.raw + 1 ELSE a.raw,
                          !.ctr = IF max = 0 THEN @ ELSE @ + 1]
  PROVE  read \in Job /\ Read(a, read, max, 0)
<1>1. PICK raw, ctr : /\ raw = (IF a.raw = a.ctr THEN a.raw + 1 ELSE a.raw)
                      /\ ctr = (IF max = 0 THEN a.ctr ELSE a.ctr + 1)
  OBVIOUS
<1>2. /\ a.next \in Nat /\ a.next + 1 \in Nat /\ a.sampled \in Nat
      /\ a.sampled + 0 = a.sampled /\ raw \in Nat /\ ctr \in Nat
  BY <1>1, QuotaTypes
<1>3. read = [phrase |-> a.phrase, next |-> a.next + 1, ctr |-> ctr, workers |-> a.workers,
              lock |-> a.lock, raw |-> raw, sampled |-> a.sampled, good |-> a.good,
              trg |-> a.trg, in_progress |-> a.in_progress]
  BY <1>1 DEF Job
<1> QED BY <1>1, <1>2, <1>3 DEF Job, Read

\* When it is skipped.
LEMMA SkipRecord ==
  ASSUME NEW a \in Job, NEW max, NEW read \in Job, Read(a, read, max, 0),
         NEW l \in Threads \cup {None}, NEW skip, skip = [read EXCEPT !.lock = l]
  PROVE  skip \in Job /\ Read(a, skip, max, 0)
<1>1. SameSums(read, skip) /\ skip.next = read.next /\ skip.raw = read.raw /\ skip.sampled = read.sampled
  BY Locked
<1>2. skip.ctr = read.ctr
  BY DEF Job
<1> QED BY <1>1, <1>2 DEF Read, SameSums

\* When it is taken.
LEMMA TakeRecord ==
  ASSUME NEW a \in Job, NEW max, NEW read \in Job, Read(a, read, max, 0),
         NEW take, take = [read EXCEPT !.lock = None, !.sampled = @ + 1]
  PROVE  take \in Job /\ Read(a, take, max, 1)
<1>1. SameSums(read, take) /\ take.next = read.next
  BY Taken
<1>2. take.ctr = read.ctr /\ take.raw = read.raw /\ take.sampled = read.sampled + 1
  BY DEF Job
<1>3. a.sampled + 0 = a.sampled
  BY QuotaTypes
<1> QED BY <1>1, <1>2, <1>3 DEF Read, SameSums

\* An occurrence is read.
LEMMA StepKept ==
  ASSUME IInv, Duty, Samples, NEW t \in Threads, Step(t), NEW i \in DOMAIN jobs
  PROVE  Kept(i)
<1> DEFINE n == thread[t].job
           a == jobs[n]
           raw == IF a.raw = a.ctr THEN a.raw + 1 ELSE a.raw
           read == [a EXCEPT !.next = @ + 1, !.raw = raw,
                             !.ctr = IF max_samples = 0 THEN @ ELSE @ + 1]
           found == Occurs[a.phrase][read.next]
           skip == [read EXCEPT !.lock = t]
           take == [read EXCEPT !.lock = None, !.sampled = @ + 1]
           on == [thread[t] EXCEPT !.pc = IF found = {} THEN "step" ELSE "count", !.todo = found]
<1>1. /\ thread[t].pc = "step" /\ thread[t].pc \in Working \cup {"register"}
      /\ a.next # Len(Occurs[a.phrase])
  BY DEF Step, Working, MoreToSample, AtEnd
<1>2. /\ n \in DOMAIN jobs /\ a \in Job /\ a.next <= Len(Occurs[a.phrase])
      /\ thread[t] \in ThreadState /\ max_samples \in Nat
  BY <1>1, JobInHand, AgendaAssumption DEF IInv, Types
<1>3. read \in Job /\ Read(a, read, max_samples, 0)
  <2>1. read = [a EXCEPT !.next = @ + 1, !.raw = IF a.raw = a.ctr THEN a.raw + 1 ELSE a.raw,
                         !.ctr = IF max_samples = 0 THEN @ ELSE @ + 1]
    OBVIOUS
  <2> HIDE DEF a, read
  <2> QED BY <1>2, <2>1, ReadRecord
<1>4. \/ /\ max_samples > 0
         /\ \E rnum \in 0..(raw - a.ctr - 1) : rnum + a.good >= max_samples
         /\ jobs' = [jobs EXCEPT ![n] = skip] /\ thread' = thread
      \/ /\ max_samples > 0 => \E rnum \in 0..(raw - a.ctr - 1) : rnum + a.good < max_samples
         /\ jobs' = [jobs EXCEPT ![n] = take] /\ thread' = [thread EXCEPT ![t] = on]
  BY DEF Step
<1>5. /\ on.job = n /\ on.todo = found
      /\ on.pc = (IF found = {} THEN "step" ELSE "count")
  BY <1>2 DEF ThreadState
<1>6. n = thread[t].job /\ a = jobs[n] /\ found = Occurs[a.phrase][read.next]
  OBVIOUS
<1> HIDE DEF n, a, read, found, on
<1>7. raw = read.raw /\ read.next = a.next + 1
  BY <1>3 DEF Read
<1>8. /\ skip \in Job /\ Read(a, skip, max_samples, 0)
      /\ take \in Job /\ Read(a, take, max_samples, 1)
  BY <1>2, <1>3, SkipRecord, TakeRecord
<1> HIDE DEF raw, skip, take
<1>9. /\ a.next \in Nat /\ a.sampled \in Nat /\ a.ctr \in Nat /\ a.raw \in Nat /\ a.good \in Nat
      /\ Len(Occurs[a.phrase]) \in Nat /\ a.next < Len(Occurs[a.phrase])
      /\ raw = skip.raw /\ raw \in Nat
  <2>1. raw = skip.raw /\ raw \in Nat
    BY <1>3, <1>7, <1>8 DEF Read, Job
  <2>2. /\ a.next \in Nat /\ a.sampled \in Nat /\ a.ctr \in Nat /\ a.raw \in Nat /\ a.good \in Nat
        /\ Len(Occurs[a.phrase]) \in Nat
    BY <1>2, QuotaTypes
  <2> QED BY <1>1, <1>2, <2>1, <2>2
<1>10. /\ Drawn(a, n, thread) /\ Quota(a, n, thread, max_samples, Crew)
  BY <1>2, <1>6 DEF Samples
<1>11. a.good <= a.sampled
  BY <1>2, <1>10, GoodIsSampled
<1>12. CASE /\ max_samples > 0
            /\ \E rnum \in 0..(raw - a.ctr - 1) : rnum + a.good >= max_samples
            /\ jobs' = [jobs EXCEPT ![n] = skip] /\ thread' = thread
  <2>1. jobs'[n] = skip /\ \A k \in DOMAIN jobs : k # n => jobs'[k] = jobs[k]
    BY <1>2, <1>12 DEF IInv, Types
  <2>2. Drawn(skip, n, thread)
    <3>1. /\ skip.phrase = a.phrase /\ skip.next = a.next + 1 /\ skip.sampled = a.sampled
          /\ skip.good = a.good /\ skip.trg = a.trg
      BY <1>8, <1>9 DEF Read
    <3> QED BY <1>2, <1>8, <1>10, <3>1, SampleSkipped
  <2>3. Quota(skip, n, thread, max_samples, Crew)
    <3>1. max_samples <= skip.raw - a.ctr - 1 + a.good
      BY <1>2, <1>9, <1>12
    <3>2. skip.good + Cardinality(Counters(n, thread)) <= max_samples - 1 + Crew
      BY <1>8, <1>10, <1>12 DEF Read, Quota
    <3>3. 0 \in {0, 1}
      OBVIOUS
    <3>4. PICK max, crew, zero : max = max_samples /\ crew = Crew /\ zero = 0
      OBVIOUS
    <3>5. max \in Nat /\ max > 0 /\ zero \in {0, 1} /\ zero # 1
      BY <1>2, <1>12, <3>4
    <3>6. /\ Read(a, skip, max, zero) /\ Quota(a, n, thread, max, crew)
          /\ skip.good + Cardinality(Counters(n, thread)) <= max - 1 + crew
          /\ a.good <= a.sampled /\ max <= skip.raw - a.ctr - 1 + a.good
      BY <1>8, <1>10, <1>11, <3>1, <3>2, <3>4
    <3>7. Quota(skip, n, thread, max, crew)
      BY <1>2, <1>8, <1>9, <3>5, <3>6, QuotaRead
    <3> QED BY <3>4, <3>7
  <2>4. i # n => Kept(i)
    <3>1. i # n => jobs'[i] = jobs[i] /\ thread' = thread
      BY <1>12, <2>1
    <3> QED BY <3>1 DEF Kept, Samples
  <2> QED BY <1>12, <2>1, <2>2, <2>3, <2>4 DEF Kept
<1>13. CASE /\ max_samples > 0 => \E rnum \in 0..(raw - a.ctr - 1) : rnum + a.good < max_samples
            /\ jobs' = [jobs EXCEPT ![n] = take] /\ thread' = [thread EXCEPT ![t] = on]
  <2>1. /\ jobs'[n] = take /\ thread'[t] = on /\ Moves(t, thread, thread')
        /\ \A k \in DOMAIN jobs : k # n => Kept(k)
    <3>1. thread[t].job \in DOMAIN jobs /\ on.job \in {0, thread[t].job}
      BY <1>2, <1>5, <1>6
    <3>2. jobs' = [jobs EXCEPT ![thread[t].job] = take] /\ thread' = [thread EXCEPT ![t] = on]
      BY <1>6, <1>13
    <3> QED BY <1>6, <3>1, <3>2, OthersKept
  <2>2. /\ t \notin Counters(n, thread) /\ \A x : t \notin Pending(n, x, thread)
        /\ t \in Counters(n, thread') <=> found # {}
        /\ \A x : t \in Pending(n, x, thread') <=> x \in found
    BY <1>1, <1>5, <2>1 DEF Counters, Pending
  <2>3. Drawn(take, n, thread')
    <3>1. PICK k : k = a.next + 1
      OBVIOUS
    <3>2. /\ take.phrase = a.phrase /\ take.next = k /\ take.sampled = a.sampled + 1
          /\ take.good = a.good /\ take.trg = a.trg
      BY <1>8, <3>1 DEF Read
    <3>3. found = Occurs[a.phrase][k]
      BY <1>6, <1>7, <3>1
    <3>4. PICK f, g : f = thread /\ g = thread'
      OBVIOUS
    <3>5. /\ Moves(t, f, g) /\ Drawn(a, n, f)
          /\ t \notin Counters(n, f) /\ \A x : t \notin Pending(n, x, f)
          /\ t \in Counters(n, g) <=> Occurs[a.phrase][k] # {}
          /\ \A x \in TargetPhrases : t \in Pending(n, x, g) <=> x \in Occurs[a.phrase][k]
      BY <1>10, <2>1, <2>2, <3>3, <3>4
    <3>6. Drawn(take, n, g)
      BY <1>2, <1>8, <3>1, <3>2, <3>5, SampleTaken
    <3> QED BY <3>4, <3>6
  <2>4. Quota(take, n, thread', max_samples, Crew)
    <3>1. PICK max, crew, g, one : max = max_samples /\ crew = Crew /\ g = thread' /\ one = 1
      OBVIOUS
    <3>2. ASSUME max > 0
          PROVE  take.good + Cardinality(Counters(n, g)) <= max - 1 + crew
      <4>1. a.good < max_samples /\ take.good = a.good
        BY <1>2, <1>8, <1>9, <1>13, <3>1, <3>2 DEF Read
      <4>2. Cardinality(Counters(n, thread)) + 1 <= Crew /\ Crew \in Nat
        BY <1>1, CrewBound
      <4>3. Cardinality(Counters(n, thread')) =
              Cardinality(Counters(n, thread)) + In(t, Counters(n, thread')) - In(t, Counters(n, thread))
        BY <2>1, CountersMove
      <4>4. In(t, Counters(n, thread')) \in {0, 1} /\ In(t, Counters(n, thread)) = 0
        BY <2>2 DEF In
      <4>5. Cardinality(Counters(n, thread)) \in Nat
        BY PendingTypes
      <4>6. Cardinality(Counters(n, thread')) <= Crew /\ Cardinality(Counters(n, thread')) \in Nat
        BY <4>2, <4>3, <4>4, <4>5
      <4> QED BY <1>2, <1>9, <3>1, <4>1, <4>2, <4>6
    <3>3. max \in Nat /\ one \in {0, 1} /\ one # 0 /\ one = 1
      BY <1>2, <3>1
    <3>4. Read(a, take, max, one) /\ Quota(a, n, thread, max, crew)
      BY <1>8, <1>10, <3>1
    <3>5. Quota(take, n, g, max, crew)
      BY <1>2, <1>8, <1>9, <3>2, <3>3, <3>4, QuotaRead
    <3> QED BY <3>1, <3>5
  <2> QED BY <1>2, <2>1, <2>3, <2>4 DEF Kept
<1> QED BY <1>4, <1>12, <1>13

\* A new job has an empty sample.
LEMMA NewJobKept ==
  ASSUME IInv, SameWork(thread'), NEW p \in Phrases, NEW max \in Nat, NEW crew \in Nat, NEW n, n = Len(jobs) + 1
  PROVE  Drawn(NewJob(p), n, thread') /\ Quota(NewJob(p), n, thread', max, crew)
<1>1. PICK j : j = NewJob(p)
  OBVIOUS
<1>2. /\ j.phrase = p /\ j.next = 0 /\ j.ctr = 0 /\ j.raw = Estimate[p] /\ j.sampled = 0 /\ j.good = 0
      /\ \A x \in TargetPhrases : j.trg[x] = 0
  BY <1>1 DEF NewJob
<1>3. \A u \in Threads : thread[u].job # n
  BY DEF IInv, Types, Places
<1>4. Counters(n, thread') = {} /\ \A x : Pending(n, x, thread') = {}
  BY <1>3 DEF Counters, Pending, SameWork, Working
<1>5. Cardinality({}) = 0
  BY FS_EmptySet
<1>6. Drawn(j, n, thread')
  <2>1. GoodOnes({}, p) = {} /\ \A x : Having({}, p, x) = {}
    BY DEF GoodOnes, Having
  <2>2. Fits({}, j, n, thread')
    BY <1>2, <1>4, <1>5, <2>1, SMTT(30) DEF Fits
  <2> QED BY <2>2 DEF Drawn
<1>7. Quota(j, n, thread', max, crew)
  <2>1. Estimate[p] \in Nat /\ Len(Occurs[p]) \in Nat
    BY AgendaAssumption
  <2>2. j.good + Cardinality(Counters(n, thread')) = 0
    <3>1. Cardinality(Counters(n, thread')) = 0
      BY <1>4, <1>5
    <3>2. PICK cc : cc = Cardinality(Counters(n, thread'))
      OBVIOUS
    <3>3. j.good = 0 /\ cc = 0
      BY <1>2, <3>1, <3>2, Zenon
    <3>4. j.good + cc = 0
      BY <3>3
    <3> QED BY <3>2, <3>4, Zenon
  <2>3. max = 0 => j.sampled = j.next
    BY <1>2
  <2>4. max # 0 => /\ j.good + Cardinality(Counters(n, thread')) <= max - 1 + crew
                   /\ j.ctr = j.next /\ j.ctr <= j.raw
    BY <1>2, <2>1, <2>2
  <2>5. Len(Occurs[p]) - j.next + j.sampled >= Smaller(max, Len(Occurs[p]))
    BY <1>2, <2>1 DEF Smaller
  <2> QED BY <1>2, <2>3, <2>4, <2>5 DEF Quota
<1> QED BY <1>1, <1>6, <1>7

\* A step of a client.
LEMMA ClientsKeep ==
  ASSUME IInv, Samples, NEW c \in Clients, ClientStep(c) \/ SpuriousWake(c)
  PROVE  \A n \in DOMAIN jobs' : Kept(n)
<1>0. /\ jobs \in Seq(Job) /\ Len(jobs) \in Nat /\ DOMAIN jobs = 1..Len(jobs)
      /\ max_samples \in Nat /\ Crew \in Nat
  BY AgendaAssumption, FS_CardinalityType DEF IInv, Types, Crew
<1>1. SameWork(thread')
  BY ClientQuiet
<1>2. ASSUME NEW n \in DOMAIN jobs, jobs'[n] = jobs[n]
      PROVE  Kept(n)
  <2>1. SameDraw(jobs[n], jobs'[n])
    BY <1>2 DEF SameDraw
  <2>2. StillCounting(n)
    BY <1>1 DEF StillCounting, SameWork, Working
  <2> QED BY <2>1, <2>2, UntouchedKept
<1>3. \/ UNCHANGED jobs
      \/ \E p \in Phrases : jobs' = Append(jobs, NewJob(p))
  <2>1. CASE Prep(c)
    <3>1. client[c].calls # <<>> /\ client[c] \in ClientState
      BY <2>1, OldTypes DEF Prep, IInv, Places
    <3>2. client[c].calls \in Seq({"prep", "lookup"} \X Phrases)
      BY <3>1 DEF ClientState
    <3>3. Head(client[c].calls)[2] \in Phrases
      BY <3>1, <3>2
    <3> QED BY <2>1, <3>3 DEF Prep, AddJob
  <2> QED BY <2>1 DEF ClientStep, SpuriousWake, Enter, CreateAgenda, Lookup, Sleep, Return
<1>4. CASE UNCHANGED jobs
  BY <1>2, <1>4
<1>5. ASSUME NEW p \in Phrases, jobs' = Append(jobs, NewJob(p))
      PROVE  \A n \in DOMAIN jobs' : Kept(n)
  <2>1. PICK j, m : j = NewJob(p) /\ m = Len(jobs) + 1
    OBVIOUS
  <2>2. /\ DOMAIN jobs' = DOMAIN jobs \cup {m} /\ jobs'[m] = j
        /\ \A n \in DOMAIN jobs : jobs'[n] = jobs[n]
    BY <1>0, <1>5, <2>1
  <2>3. Kept(m)
    BY <1>0, <1>1, <2>1, <2>2, NewJobKept DEF Kept
  <2> QED BY <1>2, <2>2, <2>3
<1> QED BY <1>3, <1>4, <1>5

\* Every step keeps the samples.
LEMMA SamplesKept ==
  ASSUME IInv, Duty, Samples, [Next]_vars
  PROVE  Samples'
<1>1. ASSUME NEW c \in Clients, ClientStep(c) \/ SpuriousWake(c)
      PROVE  \A n \in DOMAIN jobs' : Kept(n)
  BY <1>1, ClientsKeep
<1>2. ASSUME NEW t \in Threads, ThreadStep(t)
      PROVE  \A n \in DOMAIN jobs' : Kept(n)
  <2>1. DOMAIN jobs' = DOMAIN jobs
    <3>1. CASE GetJob(t)
      BY <3>1, JobsOfGetJob
    <3>2. CASE ~GetJob(t)
      BY <1>2, <3>2 DEF ThreadStep, CheckShutdown, RegisterWorker, Step, StepEnds, CountGood,
                        AddPair, Release, Released, EndThread
    <3> QED BY <3>1, <3>2
  <2> QED BY <1>2, <2>1, PassersKeep, StepKept, CountGoodKept, AddPairKept DEF ThreadStep
<1>3. ASSUME Shutdown \/ Join \/ Terminated \/ UNCHANGED vars
      PROVE  \A n \in DOMAIN jobs' : Kept(n)
  <2>1. UNCHANGED <<jobs, thread>>
    BY <1>3 DEF Shutdown, Join, Terminated, vars
  <2> QED BY <2>1 DEF Kept, Samples
<1>4. \A n \in DOMAIN jobs' : Kept(n)
  BY <1>1, <1>2, <1>3 DEF Next
<1>5. max_samples' = max_samples /\ pooled' = pooled
  BY DEF Next, ClientStep, SpuriousWake, Enter, CreateAgenda, Prep, Lookup, Sleep, Return,
         ThreadStep, CheckShutdown, GetJob, RegisterWorker, Step, StepEnds, CountGood, AddPair,
         Release, EndThread, Shutdown, Join, Terminated, vars, config
<1>6. Crew' = Crew
  BY <1>5 DEF Crew
<1> QED BY <1>4, <1>5, <1>6 DEF Kept, Samples

\* Whether it is the workers or a client who works does not change.
LEMMA DutyKept ==
  ASSUME IInv, Duty, [Next]_vars
  PROVE  Duty'
<1>1. ASSUME NEW t \in Threads, ThreadStep(t)
      PROVE  Duty'
  <2>1. /\ pooled' = pooled /\ btlock' = btlock /\ ClientsKept
        /\ thread[t].pc # "off"
    <3>1. UNCHANGED client \/ \E R : client' = Woken(R)
      BY <1>1 DEF ThreadStep, CheckShutdown, GetJob, RegisterWorker, Step, StepEnds, CountGood,
                  AddPair, Release, EndThread
    <3>2. ClientsKept
      BY <3>1, ClientsAreKept
    <3> QED BY <1>1, <3>2 DEF ThreadStep, CheckShutdown, GetJob, RegisterWorker, Step, StepEnds,
                  CountGood, AddPair, Release, EndThread, config
  <2>2. \A u \in Threads : u # t => thread'[u] = thread[u]
    BY <1>1, OldTypes DEF ThreadStep, CheckShutdown, GetJob, RegisterWorker, Step, StepEnds,
                  CountGood, AddPair, Release, EndThread
  <2>3. ~pooled => \A w \in Workers : thread'[w].pc = "off"
    BY <2>1, <2>2 DEF Duty, Threads
  <2> QED BY <2>1, <2>3 DEF Duty, ClientsKept
<1>2. ASSUME NEW c \in Clients, ClientStep(c) \/ SpuriousWake(c)
      PROVE  Duty'
  <2> DEFINE Locking == {"prep", "wait", "asleep", "work"}
  <2>1. /\ pooled' = pooled /\ client \in [Clients -> ClientState] /\ None \notin Clients
        /\ \A d \in Clients : d # c => client'[d] = client[d]
    BY <1>2, OldTypes, AgendaAssumption DEF ClientStep, SpuriousWake, Enter, CreateAgenda, Prep,
         Lookup, Sleep, Return, config, Threads
  <2>2. ~pooled => \A w \in Workers : thread'[w].pc = "off"
    <3>1. SUFFICES ASSUME ~pooled, NEW w \in Workers, thread[w].pc = "off", w # c, w \in Threads
                   PROVE  thread'[w].pc = "off"
      BY <1>2, AgendaAssumption DEF Duty, Threads
    <3>2. CASE CreateAgenda(c)
      BY <3>1, <3>2 DEF CreateAgenda
    <3>3. CASE Prep(c)
      BY <3>1, <3>3 DEF Prep, AddJob
    <3>4. CASE Lookup(c)
      BY <3>1, <3>4, OldTypes DEF Lookup
    <3>5. CASE Enter(c) \/ Sleep(c) \/ SpuriousWake(c) \/ Return(c)
      BY <3>1, <3>5 DEF Enter, Sleep, SpuriousWake, Return
    <3> QED BY <1>2, <3>2, <3>3, <3>4, <3>5 DEF ClientStep
  <2>3. /\ client'[c].pc = "work" => ~pooled
        /\ client'[c].pc \in Locking => btlock' = c
    <3>1. CASE Enter(c)
      BY <2>1, <3>1 DEF Enter, ClientState
    <3>2. CASE Lookup(c)
      BY <2>1, <3>2 DEF Lookup, ClientState
    <3>3. CASE Prep(c)
      <4>1. client'[c].pc \in {"idle", "lookup"}
        BY <2>1, <3>3 DEF Prep, ClientState
      <4> QED BY <4>1
    <3>4. CASE Return(c)
      <4>1. client'[c].pc = "idle"
        BY <2>1, <3>4 DEF Return, ClientState
      <4> QED BY <4>1
    <3>5. CASE Sleep(c) \/ SpuriousWake(c)
      <4>1. client'[c].pc \in {"wait", "asleep"} /\ client[c].pc \in {"wait", "asleep"} /\ btlock' = btlock
        BY <2>1, <3>5 DEF Sleep, SpuriousWake, ClientState
      <4> QED BY <4>1 DEF Duty
    <3>6. CASE CreateAgenda(c)
      BY <3>6 DEF CreateAgenda, Duty
    <3> QED BY <1>2, <3>1, <3>2, <3>3, <3>4, <3>5, <3>6 DEF ClientStep
  <2>4. ASSUME NEW d \in Clients, d # c, client'[d].pc \in Locking
        PROVE  btlock' = d
    <3>1. btlock = d /\ d # None
      BY <2>1, <2>4 DEF Duty
    <3>2. client[c].pc \notin Locking
      BY <2>4, <3>1 DEF Duty
    <3>3. ~CreateAgenda(c) /\ ~Prep(c) /\ ~Sleep(c) /\ ~SpuriousWake(c) /\ ~Return(c)
      BY <3>2 DEF CreateAgenda, Prep, Sleep, SpuriousWake, Return
    <3>4. ~Enter(c) /\ ~Lookup(c)
      BY <3>1 DEF Enter, Lookup
    <3> QED BY <1>2, <3>3, <3>4 DEF ClientStep
  <2>5. ASSUME NEW d \in Clients
        PROVE  /\ client'[d].pc = "work" => ~pooled
               /\ client'[d].pc \in Locking => btlock' = d
    <3>1. CASE d = c
      BY <2>3, <3>1
    <3>2. CASE d # c
      BY <2>1, <2>4, <3>2 DEF Duty
    <3> QED BY <3>1, <3>2
  <2> QED BY <2>1, <2>2, <2>5 DEF Duty
<1>3. CASE Shutdown \/ Join \/ Terminated \/ UNCHANGED vars
  BY <1>3 DEF Shutdown, Join, Terminated, vars, config, Duty
<1> QED BY <1>1, <1>2, <1>3 DEF Next

\* What a client reads is a sample: there is a set of occurrences of which the counts are
\* true; as long as the estimate was not too high it is as large as asked for, and it is too
\* large by one per other worker at most.
THEOREM SamplesAreSound == Spec => []SampleSound
<1>1. Init => Over /\ Duty /\ Samples
  <2>1. Init => Over /\ Samples
    BY DEF Init, Over, Samples
  <2>2. Init => Duty
    BY DEF Init, Duty, Idle, Threads
  <2> QED BY <2>1, <2>2
<1>2. IInv /\ Over /\ Duty /\ Samples /\ [Next]_vars => (Over /\ Duty /\ Samples)'
  BY OverKept, DutyKept, SamplesKept
<1>3. ASSUME IInv, Over, Samples
      PROVE  SampleSound
  <2>1. ASSUME NEW n \in DOMAIN jobs, jobs[n].in_progress = 0
        PROVE  \E S \in SUBSET DOMAIN Occurs[jobs[n].phrase] :
                 /\ Cardinality(S) = jobs[n].sampled
                 /\ Cardinality({k \in S : Occurs[jobs[n].phrase][k] # {}}) = jobs[n].good
                 /\ \A x \in TargetPhrases :
                      jobs[n].trg[x] = Cardinality({k \in S : x \in Occurs[jobs[n].phrase][k]})
    <3>1. AtWork(n, thread) = {}
      BY <1>3, <2>1, ReadyIsOver
    <3>2. Counters(n, thread) = {} /\ \A x : Pending(n, x, thread) = {}
      BY <3>1 DEF Counters, Pending, AtWork, Working
    <3>3. Cardinality({}) = 0
      BY FS_EmptySet
    <3>4. PICK S \in SUBSET (1..jobs[n].next) : Fits(S, jobs[n], n, thread)
      BY <1>3 DEF Samples, Drawn
    <3>5. jobs[n] \in Job /\ jobs[n].next <= Len(Occurs[jobs[n].phrase])
      BY <1>3 DEF IInv, Types
    <3>6. /\ jobs[n].good \in Nat /\ jobs[n].next \in Nat /\ jobs[n].phrase \in Phrases
          /\ \A x \in TargetPhrases : jobs[n].trg[x] \in Nat
      BY <3>5 DEF Job
    <3>7. S \in SUBSET DOMAIN Occurs[jobs[n].phrase]
      <4>1. /\ DOMAIN Occurs[jobs[n].phrase] = 1..Len(Occurs[jobs[n].phrase])
            /\ Len(Occurs[jobs[n].phrase]) \in Nat
        BY <3>6, AgendaAssumption
      <4>2. \A k \in 1..jobs[n].next : k \in DOMAIN Occurs[jobs[n].phrase]
        BY <3>5, <3>6, <4>1
      <4> QED BY <4>2
    <3>8. /\ Cardinality(S) = jobs[n].sampled
          /\ Cardinality(GoodOnes(S, jobs[n].phrase)) = jobs[n].good
          /\ \A x \in TargetPhrases : jobs[n].trg[x] = Cardinality(Having(S, jobs[n].phrase, x))
      BY <3>2, <3>3, <3>4, <3>6 DEF Fits
    <3> QED BY <3>7, <3>8 DEF GoodOnes, Having
  <2>2. ASSUME NEW n \in DOMAIN jobs
        PROVE  LET j == jobs[n]
                   all == Len(Occurs[j.phrase])
               IN  /\ max_samples > 0 =>
                        j.good <= max_samples - 1 + (IF pooled THEN Cardinality(Workers) ELSE 1)
                   /\ j.in_progress = 0 /\ Estimate[j.phrase] <= all =>
                        j.sampled >= IF max_samples \in 1..all THEN max_samples ELSE all
    <3>1. PICK j, all, est, max : /\ j = jobs[n] /\ all = Len(Occurs[j.phrase])
                                  /\ est = Estimate[j.phrase] /\ max = max_samples
      OBVIOUS
    <3>2. j \in Job /\ j.next <= all
      BY <1>3, <3>1 DEF IInv, Types
    <3>3. /\ j.next \in Nat /\ j.sampled \in Nat /\ j.good \in Nat /\ all \in Nat /\ est \in Nat
          /\ max \in Nat
      BY <1>3, <3>1, <3>2, QuotaTypes, AgendaAssumption DEF IInv, Types
    <3>4. Quota(j, n, thread, max, Crew) /\ Drawn(j, n, thread)
      BY <1>3, <3>1 DEF Samples
    <3>5. ASSUME max > 0 PROVE j.good <= max - 1 + Crew
      <4>1. j.good + Cardinality(Counters(n, thread)) <= max - 1 + Crew
        BY <3>4, <3>5 DEF Quota
      <4>2. Crew \in Nat /\ Cardinality(Counters(n, thread)) \in Nat
        BY PendingTypes, AgendaAssumption, FS_CardinalityType DEF Crew
      <4> QED BY <3>3, <4>1, <4>2
    <3>6. ASSUME j.in_progress = 0, est <= all
          PROVE  j.sampled >= IF max \in 1..all THEN max ELSE all
      <4>1. ~MoreToSample(j)
        BY <1>3, <3>1, <3>6, ReadyIsOver
      <4>2. j.next = all \/ (max # 0 /\ j.good >= max)
        BY <3>1, <3>3, <4>1 DEF MoreToSample, AtEnd
      <4>3. j.good <= j.sampled
        BY <3>2, <3>4, GoodIsSampled
      <4>4. CASE max = 0
        <5>1. j.sampled = j.next
          BY <3>4, <4>4 DEF Quota
        <5> QED BY <3>3, <4>2, <4>4, <5>1
      <4>5. CASE max > 0
        <5>1. all - j.next + j.sampled >= Smaller(max, all)
          BY <3>1, <3>4, <3>6, <4>5 DEF Quota
        <5>2. j.sampled >= Smaller(max, all)
          BY <3>3, <4>2, <4>3, <5>1 DEF Smaller
        <5> QED BY <3>3, <4>5, <5>2 DEF Smaller
      <4> QED BY <3>3, <4>4, <4>5
    <3> QED BY <3>1, <3>5, <3>6 DEF Crew
  <2>3. StatisticsOfASample
    BY <2>1 DEF StatisticsOfASample
  <2>4. SampleQuota
    BY <2>2 DEF SampleQuota
  <2> QED BY <2>3, <2>4 DEF SampleSound
<1>4. Init /\ [][Next]_vars => []SampleSound
  BY InitIInv, Inductive, <1>1, <1>2, <1>3, PTL
<1> QED BY <1>4, PTL DEF Spec
-----------------------------------------------------------------------------
(* The cache of target phrase collections: PhraseCollectionCache.          *)

\* The time of a use is any number, until the times are counted anew.
WrapperRec == [live : BOOLEAN, key : Keys \cup {NoKey}, revision : 0..MaxRevision,
               refCount : Nat, tstamp : Int, idx : Nat \cup {-1}]
LookupRec == [pc : {"idle", "find", "build"}, key : Keys \cup {NoKey}, revision : 0..MaxRevision]
Heap == [v : Seq(Wrappers), w : [Wrappers -> WrapperRec]]

\* The wrappers of the history know their places, except that the one at the top may believe
\* that it is not in the history, as all others do that are not.
Linked(h) ==
  /\ \A k \in 1..Len(h.v) : h.w[h.v[k]].idx = k - 1 \/ (k = 1 /\ h.w[h.v[k]].idx = -1)
  /\ \A q \in Wrappers : h.w[q].idx >= 0 => /\ h.w[q].idx + 1 \in 1..Len(h.v)
                                            /\ h.v[h.w[q].idx + 1] = q

\* The one at the top knows it too.
TopKnows(h) == Len(h.v) >= 1 => h.w[h.v[1]].idx = 0

\* Nothing is left of a deleted collection, and the cache finds a collection under its key.
Cached(w, map) ==
  /\ \A q \in Wrappers : ~w[q].live => w[q] = Deleted
  /\ \A k \in Keys : map[k] # 0 => w[map[k]].live /\ w[map[k]].key = k

\* Some other in the history was used as late as the one at its top.
TopIsOlder(h) == \E o \in 2..Len(h.v) : h.w[h.v[1]].tstamp <= h.w[h.v[o]].tstamp

\* The times that are left after counting them anew.
StampRange == 0..(2 * MaxWrappers)

\* The history after m_history and the wrappers w.
CacheHeap(w) == [v |-> m_history, w |-> w]

CacheState ==
  /\ wrapper \in [Wrappers -> WrapperRec]
  /\ \A q \in Wrappers : wrapper[q].tstamp \in StampRange
  /\ m_cache \in [Keys -> 0..MaxWrappers]
  /\ m_history \in Seq(Wrappers) /\ Len(m_history) <= Capacity
  /\ revision \in 0..MaxRevision
  /\ lookup \in [Sentences -> LookupRec]
  /\ \A c \in Sentences : lookup[c].pc # "idle" => lookup[c].key \in Keys
  /\ held \in [Sentences -> Seq(Wrappers)]
  /\ clock \in {"advances", "stands", "set back"}

Counted(w) ==
  \A q \in Wrappers : IsFiniteSet(Holds(q)) /\ w[q].refCount = Cardinality(Holds(q))

\* The top of a full history may have lost its place if the clock did not advance with every
\* use, and may be later than all others only if the clock was set back.
CacheInv ==
  /\ CacheState
  /\ Linked(CacheHeap(wrapper))
  /\ Cached(wrapper, m_cache)
  /\ Counted(wrapper)
  /\ NothingLeaks
  /\ Len(m_history) < Capacity \/ clock = "advances" => TopKnows(CacheHeap(wrapper))
  /\ clock # "set back" /\ Len(m_history) >= 3 => TopIsOlder(CacheHeap(wrapper))

\* g has the values of a loop after each of its n turns.
Turned(g, n, T, first, step) ==
  /\ g \in [0..n -> T]
  /\ \A i \in 0..n : g[i] = IF i = 0 THEN first ELSE step[g[i - 1]]

\* A loop of n turns, each by the same step, has a value after every turn.
LEMMA TurnsExist ==
  ASSUME NEW T, NEW first \in T, NEW step \in [T -> T], NEW n \in Nat
  PROVE  \E g : Turned(g, n, T, first, step)
<1> DEFINE Upto(g, m) == \A i \in 0..m : g[i] = IF i = 0 THEN first ELSE step[g[i - 1]]
           S == {m \in Nat : \E g \in [Nat -> T] : Upto(g, m)}
<1>1. 0 \in S
  <2>1. [i \in Nat |-> first] \in [Nat -> T] /\ Upto([i \in Nat |-> first], 0)
    OBVIOUS
  <2> QED BY <2>1
<1>2. ASSUME NEW m \in S PROVE m + 1 \in S
  <2>1. PICK g \in [Nat -> T] : Upto(g, m)
    BY <1>2
  <2>2. m \in Nat
    OBVIOUS
  <2> DEFINE h == [g EXCEPT ![m + 1] = step[g[m]]]
  <2>3. h \in [Nat -> T]
    BY <2>2
  <2>4. h[m + 1] = step[g[m]] /\ \A i \in Nat : i # m + 1 => h[i] = g[i]
    BY <2>2
  <2> HIDE DEF h
  <2>5. ASSUME NEW i \in 0..(m + 1) PROVE h[i] = IF i = 0 THEN first ELSE step[h[i - 1]]
    <3>1. CASE i = m + 1
      <4>1. i - 1 = m /\ h[m] = g[m] /\ i # 0
        BY <2>2, <2>4, <3>1
      <4> QED BY <2>4, <3>1, <4>1
    <3>2. CASE i # m + 1
      <4>1. i \in 0..m /\ h[i] = g[i] /\ (i # 0 => h[i - 1] = g[i - 1])
        BY <2>2, <2>4, <3>2
      <4> QED BY <2>1, <4>1
    <3> QED BY <3>1, <3>2
  <2>6. m + 1 \in Nat /\ Upto(h, m + 1)
    BY <2>2, <2>5
  <2> HIDE DEF Upto
  <2> QED BY <2>3, <2>6
<1>3. n \in S
  <2> HIDE DEF S
  <2>0. S \in SUBSET Nat
    BY DEF S
  <2> SUFFICES ASSUME Nat \ S # {} PROVE FALSE
    OBVIOUS
  <2>1. PICK m \in Nat \ S : \A k \in Nat \ S : m <= k
    BY LeastNatural
  <2>2. m # 0 /\ m - 1 \in Nat
    BY <1>1, <2>1
  <2>3. m - 1 \in S
    BY <2>1, <2>2
  <2>4. (m - 1) + 1 \in S
    BY <1>2, <2>3
  <2> QED BY <2>1, <2>4
<1>4. PICK g \in [Nat -> T] : Upto(g, n)
  BY <1>3
<1> DEFINE f == [i \in 0..n |-> g[i]]
<1>5. ASSUME NEW i \in 0..n PROVE f[i] = (IF i = 0 THEN first ELSE step[f[i - 1]]) /\ f[i] \in T
  <2>1. f[i] = g[i] /\ (i # 0 => f[i - 1] = g[i - 1])
    OBVIOUS
  <2>2. g[i] = IF i = 0 THEN first ELSE step[g[i - 1]]
    BY <1>4
  <2> QED BY <2>1, <2>2
<1>6. f \in [0..n -> T]
  OBVIOUS
<1> HIDE DEF f
<1>7. Turned(f, n, T, first, step)
  BY <1>5, <1>6 DEF Turned
<1> QED BY <1>7

\* What holds after turn m and from each turn to the next holds after all later turns.
LEMMA TurnsStay ==
  ASSUME NEW n \in Nat, NEW m \in 0..n, NEW T, NEW f, f[m] \in T,
         \A i \in m..n : i < n /\ f[i] \in T => f[i + 1] \in T
  PROVE  \A i \in m..n : f[i] \in T
<1> DEFINE Bad == {i \in m..n : f[i] \notin T}
<1> SUFFICES ASSUME Bad # {} PROVE FALSE
  OBVIOUS
<1>1. Bad \in SUBSET Nat
  OBVIOUS
<1>2. PICK i \in Bad : \A k \in Bad : i <= k
  BY <1>1, LeastNatural
<1>3. i # m /\ i - 1 \in m..n /\ i - 1 < n /\ i - 1 \notin Bad
  BY <1>2
<1>4. f[i - 1] \in T
  BY <1>3
<1>5. f[(i - 1) + 1] \in T /\ (i - 1) + 1 = i
  BY <1>3, <1>4
<1> QED BY <1>5

-----------------------------------------------------------------------------
(* The heap                                                                *)

\* q is in the history v.
Member(v, q) == \E k \in 1..Len(v) : v[k] = q

\* Two states of a wrapper that differ at most in its place.
SameButPlace(r, s) ==
  /\ r.live = s.live /\ r.key = s.key /\ r.revision = s.revision
  /\ r.refCount = s.refCount /\ r.tstamp = s.tstamp

\* h is what has become of g: the wrappers have only changed places.
Rearranged(h, g) ==
  /\ h \in Heap /\ Len(h.v) = Len(g.v)
  /\ \A q \in Wrappers : Member(h.v, q) <=> Member(g.v, q)
  /\ \A q \in Wrappers : /\ SameButPlace(h.w[q], g.w[q])
                         /\ ~Member(g.v, q) => h.w[q] = g.w[q]

\* The wrappers of a history are different.
LEMMA LinkedDiffer ==
  ASSUME NEW h \in Heap, Linked(h)
  PROVE  /\ \A m \in 1..Len(h.v) : \A l \in 1..Len(h.v) : h.v[m] = h.v[l] => m = l
         /\ \A q \in Wrappers : h.w[q].idx >= 0 => Member(h.v, q)
<1>1. h.v \in Seq(Wrappers) /\ Len(h.v) \in Nat
  BY DEF Heap
<1>2. ASSUME NEW m \in 1..Len(h.v), NEW l \in 1..Len(h.v), h.v[m] = h.v[l] PROVE m = l
  <2>1. PICK x : x = h.w[h.v[m]].idx /\ x = h.w[h.v[l]].idx
    BY <1>2
  <2>2. (x = m - 1 \/ (m = 1 /\ x = -1)) /\ (x = l - 1 \/ (l = 1 /\ x = -1))
    BY <2>1 DEF Linked
  <2> QED BY <1>1, <2>2
<1>3. ASSUME NEW q \in Wrappers, h.w[q].idx >= 0 PROVE Member(h.v, q)
  BY <1>1, <1>3 DEF Linked, Member
<1> QED BY <1>2, <1>3

\* Two wrappers change places i and k, and are told that they are in x and y.
Told(h, i, k, x, y) ==
  [v |-> [h.v EXCEPT ![i + 1] = At(h, k), ![k + 1] = At(h, i)],
   w |-> [h.w EXCEPT ![At(h, k)].idx = x, ![At(h, i)].idx = y]]

\* x is what a wrapper may believe its place i to be.
Believes(x, i) == x = i \/ (i = 0 /\ x = -1)

\* The history is in order after two wrappers have changed places.
LEMMA ToldLinks ==
  ASSUME NEW h \in Heap, NEW i \in 0..(Len(h.v) - 1), NEW k \in 0..(Len(h.v) - 1), i # k,
         Linked(h), NEW x, Believes(x, i), NEW y, Believes(y, k), NEW s, s = Told(h, i, k, x, y)
  PROVE  /\ Rearranged(s, h) /\ Linked(s)
         /\ At(s, i) = At(h, k) /\ At(s, k) = At(h, i)
         /\ \A m \in 0..(Len(h.v) - 1) : m # i /\ m # k => At(s, m) = At(h, m)
         /\ x = i /\ y = k /\ (i = 0 \/ TopKnows(h)) => TopKnows(s)
<1> DEFINE a == At(h, i)
           b == At(h, k)
           N == Len(h.v)
<1>1. /\ h.v \in Seq(Wrappers) /\ h.w \in [Wrappers -> WrapperRec] /\ N \in Nat
      /\ i + 1 \in 1..N /\ k + 1 \in 1..N /\ i + 1 # k + 1
      /\ x \in Nat \cup {-1} /\ y \in Nat \cup {-1}
  BY DEF Heap, Believes
<1>2. a = h.v[i + 1] /\ b = h.v[k + 1] /\ a \in Wrappers /\ b \in Wrappers /\ a # b
  BY <1>1, LinkedDiffer DEF At
<1>3. s.v = [h.v EXCEPT ![i + 1] = b, ![k + 1] = a] /\ s.w = [h.w EXCEPT ![b].idx = x, ![a].idx = y]
  BY DEF Told
<1> HIDE DEF a, b
<1>4. /\ s.v \in Seq(Wrappers) /\ Len(s.v) = N
      /\ s.v[i + 1] = b /\ s.v[k + 1] = a
      /\ \A m \in 1..N : m # i + 1 /\ m # k + 1 => s.v[m] = h.v[m]
  <2>1. [h.v EXCEPT ![i + 1] = b] \in Seq(Wrappers) /\ Len([h.v EXCEPT ![i + 1] = b]) = N
    BY <1>1, <1>2
  <2> QED BY <1>1, <1>2, <1>3, <2>1
<1>5. /\ s.w \in [Wrappers -> WrapperRec]
      /\ s.w[b] = [h.w[b] EXCEPT !.idx = x] /\ s.w[a] = [h.w[a] EXCEPT !.idx = y]
      /\ s.w[b].idx = x /\ s.w[a].idx = y
      /\ \A q \in Wrappers : q # a /\ q # b => s.w[q] = h.w[q]
  <2> DEFINE wa == [h.w[a] EXCEPT !.idx = y]
             wb == [h.w[b] EXCEPT !.idx = x]
  <2>1. h.w[a] \in WrapperRec /\ h.w[b] \in WrapperRec
    BY <1>1, <1>2
  <2>2. wa \in WrapperRec /\ wb \in WrapperRec /\ wa.idx = y /\ wb.idx = x
    BY <1>1, <2>1 DEF WrapperRec
  <2>3. s.w = [h.w EXCEPT ![b] = wb, ![a] = wa]
    BY <1>1, <1>2, <1>3
  <2> HIDE DEF wa, wb
  <2>4. /\ s.w \in [Wrappers -> WrapperRec] /\ s.w[b] = wb /\ s.w[a] = wa
        /\ \A q \in Wrappers : q # a /\ q # b => s.w[q] = h.w[q]
    <3>1. PICK w \in [Wrappers -> WrapperRec] : w = h.w
      BY <1>1
    <3>2. s.w = [w EXCEPT ![b] = wb, ![a] = wa]
      BY <2>3, <3>1
    <3>3. /\ s.w \in [Wrappers -> WrapperRec] /\ s.w[b] = wb /\ s.w[a] = wa
          /\ \A q \in Wrappers : q # a /\ q # b => s.w[q] = w[q]
      BY <1>2, <2>2, <3>2
    <3> QED BY <3>1, <3>3
  <2> QED BY <2>2, <2>4 DEF wa, wb
<1>6. s \in Heap
  <2>1. s = [v |-> s.v, w |-> s.w]
    BY DEF Told
  <2> QED BY <1>4, <1>5, <2>1 DEF Heap
<1>7. \A q : Member(s.v, q) <=> Member(h.v, q)
  <2>1. ASSUME NEW m \in 1..N PROVE \E l \in 1..N : h.v[l] = s.v[m]
    BY <1>1, <1>2, <1>4
  <2>2. ASSUME NEW m \in 1..N PROVE \E l \in 1..N : s.v[l] = h.v[m]
    BY <1>1, <1>2, <1>4
  <2>3. Len(s.v) = N
    BY <1>4
  <2> TAKE q
  <2>4. Member(s.v, q) => Member(h.v, q)
    BY <2>1, <2>3 DEF Member
  <2>5. Member(h.v, q) => Member(s.v, q)
    BY <2>2, <2>3 DEF Member
  <2> QED BY <2>4, <2>5
<1>8. \A q \in Wrappers : SameButPlace(s.w[q], h.w[q])
  <2> TAKE q \in Wrappers
  <2>1. ASSUME NEW r \in WrapperRec, NEW z PROVE SameButPlace([r EXCEPT !.idx = z], r)
    BY DEF WrapperRec, SameButPlace
  <2>2. h.w[q] \in WrapperRec /\ SameButPlace(h.w[q], h.w[q])
    BY <1>1 DEF SameButPlace
  <2>3. SameButPlace([h.w[q] EXCEPT !.idx = x], h.w[q]) /\ SameButPlace([h.w[q] EXCEPT !.idx = y], h.w[q])
    BY <2>1, <2>2
  <2> QED BY <1>5, <2>2, <2>3
<1>9. ASSUME NEW m \in 1..N PROVE Believes(s.w[s.v[m]].idx, m - 1)
  <2>1. CASE m # i + 1 /\ m # k + 1
    <3>1. h.v[m] # a /\ h.v[m] # b /\ h.v[m] \in Wrappers
      BY <1>1, <1>2, <2>1, LinkedDiffer
    <3>2. s.w[s.v[m]].idx = h.w[h.v[m]].idx
      BY <1>4, <1>5, <2>1, <3>1
    <3>3. h.w[h.v[m]].idx = m - 1 \/ (m = 1 /\ h.w[h.v[m]].idx = -1)
      BY DEF Linked
    <3> QED BY <3>2, <3>3 DEF Believes
  <2>2. CASE m = i + 1
    <3>1. s.v[m] = b /\ m - 1 = i
      BY <1>4, <2>2
    <3> QED BY <1>5, <3>1
  <2>3. CASE m = k + 1
    <3>1. s.v[m] = a /\ m - 1 = k
      BY <1>4, <2>3
    <3> QED BY <1>5, <3>1
  <2> QED BY <2>1, <2>2, <2>3
<1>10. ASSUME NEW q \in Wrappers, s.w[q].idx >= 0
       PROVE  s.w[q].idx + 1 \in 1..N /\ s.v[s.w[q].idx + 1] = q
  <2>1. CASE q = b
    <3>0. x >= 0
      BY <1>5, <1>10, <2>1
    <3>1. x = i
      BY <1>1, <3>0 DEF Believes
    <3> QED BY <1>1, <1>4, <1>5, <2>1, <3>1
  <2>2. CASE q = a
    <3>0. y >= 0
      BY <1>5, <1>10, <2>2
    <3>1. y = k
      BY <1>1, <3>0 DEF Believes
    <3> QED BY <1>1, <1>4, <1>5, <2>2, <3>1
  <2>3. CASE q # a /\ q # b
    <3>1. s.w[q] = h.w[q]
      BY <1>5, <2>3
    <3>2. h.w[q].idx + 1 \in 1..N /\ h.v[h.w[q].idx + 1] = q
      BY <1>10, <3>1 DEF Linked
    <3>3. h.w[q].idx + 1 # i + 1 /\ h.w[q].idx + 1 # k + 1
      BY <1>2, <2>3, <3>2
    <3> QED BY <1>4, <3>1, <3>2, <3>3
  <2> QED BY <2>1, <2>2, <2>3
<1>11. /\ At(s, i) = b /\ At(s, k) = a
       /\ \A m \in 0..(N - 1) : m # i /\ m # k => At(s, m) = At(h, m)
  <2>1. At(s, i) = b /\ At(s, k) = a
    BY <1>4 DEF At
  <2>2. ASSUME NEW m \in 0..(N - 1), m # i, m # k PROVE At(s, m) = At(h, m)
    <3>1. m + 1 \in 1..N /\ m + 1 # i + 1 /\ m + 1 # k + 1
      BY <1>1, <2>2
    <3> QED BY <1>4, <3>1 DEF At
  <2> QED BY <2>1, <2>2
<1>12. Linked(s)
  <2>1. ASSUME NEW m \in 1..N
        PROVE  s.w[s.v[m]].idx = m - 1 \/ (m = 1 /\ s.w[s.v[m]].idx = -1)
    <3>1. m - 1 = 0 => m = 1
      BY <1>1
    <3> QED BY <1>9, <3>1 DEF Believes
  <2> QED BY <1>4, <1>10, <2>1 DEF Linked
<1>13. Rearranged(s, h)
  <2>1. Member(h.v, a) /\ Member(h.v, b)
    BY <1>1, <1>2 DEF Member
  <2>2. \A q \in Wrappers : ~Member(h.v, q) => s.w[q] = h.w[q]
    BY <1>5, <2>1
  <2> QED BY <1>4, <1>6, <1>7, <1>8, <2>2 DEF Rearranged
<1>14. ASSUME x = i, y = k, i = 0 \/ TopKnows(h), N >= 1 PROVE s.w[s.v[1]].idx = 0
  <2>1. CASE i = 0
    <3>1. i + 1 = 1 /\ x = 0
      BY <1>14, <2>1
    <3> QED BY <1>4, <1>5, <3>1
  <2>2. CASE k = 0
    <3>1. k + 1 = 1 /\ y = 0
      BY <1>14, <2>2
    <3> QED BY <1>4, <1>5, <3>1
  <2>3. CASE i # 0 /\ k # 0
    <3>1. 1 \in 1..N /\ 1 # i + 1 /\ 1 # k + 1
      BY <1>1, <1>14, <2>3
    <3>2. s.v[1] = h.v[1] /\ h.v[1] \in Wrappers /\ h.v[1] # a /\ h.v[1] # b
      BY <1>1, <1>2, <1>4, <3>1, LinkedDiffer
    <3> QED BY <1>5, <1>14, <2>3, <3>2 DEF TopKnows
  <2> QED BY <2>1, <2>2, <2>3
<1>15. x = i /\ y = k /\ (i = 0 \/ TopKnows(h)) => TopKnows(s)
  BY <1>4, <1>14 DEF TopKnows
<1> QED BY <1>11, <1>12, <1>13, <1>15 DEF a, b

\* bubble_down tells each of the two its place.
LEMMA SwappedLinks ==
  ASSUME NEW h \in Heap, NEW i \in 0..(Len(h.v) - 1), NEW k \in 0..(Len(h.v) - 1), i # k,
         Linked(h), NEW s, s = Swapped(h, i, k)
  PROVE  /\ Rearranged(s, h) /\ Linked(s)
         /\ At(s, i) = At(h, k) /\ At(s, k) = At(h, i)
         /\ \A m \in 0..(Len(h.v) - 1) : m # i /\ m # k => At(s, m) = At(h, m)
         /\ i = 0 \/ TopKnows(h) => TopKnows(s)
<1>1. s = Told(h, i, k, i, k) /\ Believes(i, i) /\ Believes(k, k)
  BY DEF Swapped, Told, Believes
<1> QED BY <1>1, ToldLinks

\* bubble_up has the two exchange what they believe.
LEMMA ExchangedLinks ==
  ASSUME NEW h \in Heap, NEW i \in 0..(Len(h.v) - 1), NEW k \in 0..(Len(h.v) - 1), i # k,
         Linked(h), NEW s, s = Exchanged(h, i, k)
  PROVE  /\ Rearranged(s, h) /\ Linked(s)
         /\ At(s, i) = At(h, k) /\ At(s, k) = At(h, i)
         /\ \A m \in 0..(Len(h.v) - 1) : m # i /\ m # k => At(s, m) = At(h, m)
         /\ TopKnows(h) => TopKnows(s)
<1> DEFINE x == h.w[At(h, i)].idx
           y == h.w[At(h, k)].idx
<1>1. s = Told(h, i, k, x, y)
  BY DEF Exchanged, Told
<1>2. Len(h.v) \in Nat /\ i + 1 \in 1..Len(h.v) /\ k + 1 \in 1..Len(h.v)
  BY DEF Heap
<1>3. Believes(x, i) /\ Believes(y, k)
  <2>1. ASSUME NEW m \in 0..(Len(h.v) - 1) PROVE Believes(h.w[At(h, m)].idx, m)
    <3>1. m + 1 \in 1..Len(h.v) /\ (m + 1) - 1 = m /\ (m + 1 = 1 => m = 0)
      BY <1>2
    <3> QED BY <3>1 DEF Linked, At, Believes
  <2> QED BY <2>1
<1>4. TopKnows(h) => x = i /\ y = k
  <2>1. ASSUME NEW m \in 0..(Len(h.v) - 1), TopKnows(h) PROVE h.w[At(h, m)].idx = m
    <3>1. m + 1 \in 1..Len(h.v) /\ (m + 1) - 1 = m /\ (m + 1 = 1 => m = 0) /\ Len(h.v) >= 1
      BY <1>2
    <3> QED BY <2>1, <3>1 DEF Linked, At, TopKnows
  <2> QED BY <2>1
<1> HIDE DEF x, y
<1>5. /\ Rearranged(s, h) /\ Linked(s)
      /\ At(s, i) = At(h, k) /\ At(s, k) = At(h, i)
      /\ \A m \in 0..(Len(h.v) - 1) : m # i /\ m # k => At(s, m) = At(h, m)
      /\ x = i /\ y = k /\ (i = 0 \/ TopKnows(h)) => TopKnows(s)
  BY <1>1, <1>3, ToldLinks
<1> QED BY <1>4, <1>5

LEMMA RearrangedTwice ==
  ASSUME NEW f, NEW g, NEW h, Rearranged(g, f), Rearranged(h, g)
  PROVE  Rearranged(h, f)
  BY DEF Rearranged, SameButPlace

LEMMA RearrangedSelf ==
  ASSUME NEW h \in Heap
  PROVE  Rearranged(h, h)
  BY DEF Rearranged, SameButPlace

LEMMA StampIs ==
  ASSUME NEW h \in Heap, NEW m \in 0..(Len(h.v) - 1)
  PROVE  /\ At(h, m) \in Wrappers /\ Member(h.v, At(h, m)) /\ Stamp(h, m) \in Int
         /\ Stamp(h, m) = h.w[At(h, m)].tstamp
<1>1. /\ h.v \in Seq(Wrappers) /\ Len(h.v) \in Nat /\ h.w \in [Wrappers -> WrapperRec]
      /\ m + 1 \in 1..Len(h.v)
  BY DEF Heap
<1>2. At(h, m) \in Wrappers /\ Member(h.v, At(h, m))
  BY <1>1 DEF At, Member
<1>3. h.w[At(h, m)] \in WrapperRec
  BY <1>1, <1>2
<1> QED BY <1>2, <1>3 DEF Stamp, WrapperRec

\* No wrapper in the history was used after p.
LastUsed(p, h) == \A q \in Wrappers : Member(h.v, q) => h.w[q].tstamp <= h.w[p].tstamp

LEMMA LastUsedStays ==
  ASSUME NEW g, NEW h, Rearranged(h, g), NEW p \in Wrappers, LastUsed(p, g)
  PROVE  LastUsed(p, h)
  BY DEF Rearranged, SameButPlace, LastUsed

\* If one that was used as late as the top is elsewhere, the top is older.
LEMMA OlderIf ==
  ASSUME NEW h \in Heap, NEW m \in 1..(Len(h.v) - 1), Stamp(h, 0) <= Stamp(h, m)
  PROVE  TopIsOlder(h)
<1>1. m + 1 \in 2..Len(h.v) /\ 0 + 1 = 1
  BY DEF Heap
<1> QED BY <1>1 DEF TopIsOlder, Stamp, At

-----------------------------------------------------------------------------
(* bubble_up                                                               *)

UpTurn(t) ==
  IF t.at > 0 /\ Stamp(t.h, t.at) < Stamp(t.h, t.at \div 2)
  THEN [h |-> Exchanged(t.h, t.at, t.at \div 2), at |-> t.at \div 2] ELSE t

\* After any number of turns: who was not at the top and was used last is not there now.
UpState(h) ==
  {t \in [h : Heap, at : 0..(Len(h.v) - 1)] :
     /\ Rearranged(t.h, h) /\ Linked(t.h)
     /\ TopKnows(h) => TopKnows(t.h)
     /\ \A p \in Wrappers : LastUsed(p, h) /\ At(h, 0) # p => At(t.h, 0) # p}

LEMMA UpTurnKeeps ==
  ASSUME NEW h \in Heap, NEW t \in UpState(h)
  PROVE  UpTurn(t) \in UpState(h) /\ (t.at = 1 => TopIsOlder(UpTurn(t).h))
<1> DEFINE g == t.h
           a == t.at
           b == t.at \div 2
           N == Len(h.v)
           s == Exchanged(g, a, b)
<1>1. /\ g \in Heap /\ a \in 0..(N - 1) /\ Len(g.v) = N /\ t = [h |-> g, at |-> a]
      /\ Rearranged(g, h) /\ Linked(g)
      /\ TopKnows(h) => TopKnows(g)
      /\ \A p \in Wrappers : LastUsed(p, h) /\ At(h, 0) # p => At(g, 0) # p
  BY DEF UpState, Rearranged
<1>2. N \in Nat /\ a \in 0..(Len(g.v) - 1) /\ (a = 1 => b = 0)
  BY <1>1 DEF Heap
<1>3. CASE a > 0 /\ Stamp(g, a) < Stamp(g, b)
  <2>1. b \in 0..(Len(g.v) - 1) /\ b < a /\ 0 \in 0..(Len(g.v) - 1)
    BY <1>1, <1>2, <1>3
  <2>2. UpTurn(t) = [h |-> s, at |-> b]
    BY <1>3 DEF UpTurn
  <2> HIDE DEF a, b, g, N
  <2>3. /\ Rearranged(s, g) /\ Linked(s) /\ (TopKnows(g) => TopKnows(s))
        /\ At(s, a) = At(g, b) /\ At(s, b) = At(g, a)
        /\ \A m \in 0..(Len(g.v) - 1) : m # a /\ m # b => At(s, m) = At(g, m)
    <3>1. a # b
      BY <1>2, <2>1
    <3> HIDE DEF s
    <3> QED BY <1>1, <1>2, <2>1, <3>1, ExchangedLinks DEF s
  <2> HIDE DEF s
  <2>4. Rearranged(s, h) /\ s \in Heap /\ Len(s.v) = N
    BY <1>1, <2>3, RearrangedTwice DEF Rearranged
  <2>5. ASSUME NEW p \in Wrappers, LastUsed(p, h), At(h, 0) # p PROVE At(s, 0) # p
    <3>1. At(g, 0) # p
      BY <1>1, <2>5
    <3>2. At(g, a) # p
      <4>1. LastUsed(p, g)
        BY <1>1, <2>5, LastUsedStays
      <4>2. Stamp(g, b) <= g.w[p].tstamp
        BY <1>1, <2>1, <4>1, StampIs DEF LastUsed
      <4>3. /\ Stamp(g, a) \in Int /\ Stamp(g, b) \in Int
            /\ Stamp(g, a) = g.w[At(g, a)].tstamp
        BY <1>1, <1>2, <2>1, StampIs
      <4> QED BY <1>3, <4>2, <4>3
    <3>3. CASE b = 0
      BY <2>3, <3>2, <3>3
    <3>4. CASE b # 0
      <4>1. 0 # a
        BY <1>2, <1>3
      <4> QED BY <2>1, <2>3, <3>1, <3>4, <4>1
    <3> QED BY <3>3, <3>4
  <2>6. [h |-> s, at |-> b] \in UpState(h)
    <3>1. b \in 0..(Len(h.v) - 1)
      BY <1>1, <2>1 DEF N
    <3> QED BY <1>1, <2>3, <2>4, <2>5, <3>1 DEF UpState
  <2>7. ASSUME a = 1 PROVE TopIsOlder(s)
    <3>1. b = 0 /\ 1 \in 0..(Len(g.v) - 1) /\ 1 \in 1..(Len(s.v) - 1) /\ 1 \in 0..(Len(s.v) - 1)
          /\ 0 \in 0..(Len(s.v) - 1)
      BY <1>1, <1>2, <2>1, <2>4, <2>7
    <3>2. Stamp(s, 0) = Stamp(g, 1) /\ Stamp(s, 1) = Stamp(g, 0)
      <4>1. At(g, 0) \in Wrappers /\ At(g, 1) \in Wrappers
        BY <1>1, <2>1, <3>1, StampIs
      <4> QED BY <2>3, <2>7, <3>1, <4>1 DEF Stamp, Rearranged, SameButPlace
    <3>3. Stamp(g, 0) \in Int /\ Stamp(g, 1) \in Int
      BY <1>1, <2>1, <3>1, StampIs
    <3>4. Stamp(s, 0) <= Stamp(s, 1)
      BY <1>3, <2>7, <3>1, <3>2, <3>3
    <3> QED BY <2>4, <3>1, <3>4, OlderIf
  <2> QED BY <2>2, <2>6, <2>7 DEF a
<1>4. CASE ~(a > 0 /\ Stamp(g, a) < Stamp(g, b))
  <2>1. UpTurn(t) = t
    BY <1>4 DEF UpTurn
  <2>2. ASSUME a = 1 PROVE TopIsOlder(g)
    <3>1. b = 0 /\ 0 \in 0..(Len(g.v) - 1) /\ 1 \in 0..(Len(g.v) - 1) /\ 1 \in 1..(Len(g.v) - 1)
      BY <1>1, <1>2, <2>2
    <3>2. Stamp(g, 0) \in Int /\ Stamp(g, 1) \in Int
      BY <1>1, <3>1, StampIs
    <3>3. Stamp(g, 0) <= Stamp(g, 1)
      BY <1>4, <2>2, <3>1, <3>2
    <3> QED BY <1>1, <3>1, <3>3, OlderIf
  <2> QED BY <2>1, <2>2
<1> QED BY <1>3, <1>4

\* What bubble_up does to the history.
LEMMA BubbleUpKeeps ==
  ASSUME NEW h \in Heap, Linked(h), NEW start \in Nat, NEW r, r = BubbleUp(h, start)
  PROVE  /\ Rearranged(r, h) /\ Linked(r) /\ (TopKnows(h) => TopKnows(r))
         /\ \A p \in Wrappers : LastUsed(p, h) /\ At(h, 0) # p => At(r, 0) # p
         /\ start = 1 /\ Len(h.v) >= 2 => TopIsOlder(r)
<1>1. Len(h.v) \in Nat
  BY DEF Heap
<1>2. CASE start >= Len(h.v)
  BY <1>1, <1>2, RearrangedSelf DEF BubbleUp
<1>3. CASE start < Len(h.v)
  <2> DEFINE first == [h |-> h, at |-> start]
             step == [t \in UpState(h) |-> UpTurn(t)]
             turn == CHOOSE f : f = [n \in 0..start |->
                       IF n = 0 THEN first ELSE UpTurn(f[n - 1])]
  <2>1. r = turn[start].h
    BY <1>3, <1>1 DEF BubbleUp, UpTurn
  <2>2. first \in UpState(h)
    BY <1>1, <1>3, RearrangedSelf DEF UpState
  <2>3. step \in [UpState(h) -> UpState(h)]
    BY UpTurnKeeps
  <2> HIDE DEF first
  <2>4. PICK g : Turned(g, start, UpState(h), first, step)
    <3> HIDE DEF step
    <3> QED BY <2>2, <2>3, TurnsExist
  <2>5. g = [n \in 0..start |-> IF n = 0 THEN first ELSE UpTurn(g[n - 1])]
    <3>1. \A t \in UpState(h) : step[t] = UpTurn(t)
      OBVIOUS
    <3> HIDE DEF step
    <3>2. ASSUME NEW i \in 0..start PROVE g[i] = IF i = 0 THEN first ELSE UpTurn(g[i - 1])
      <4>1. i # 0 => g[i - 1] \in UpState(h)
        BY <2>4 DEF Turned
      <4> QED BY <2>4, <3>1, <4>1 DEF Turned
    <3>3. g = [n \in 0..start |-> g[n]]
      BY <2>4 DEF Turned
    <3> QED BY <3>2, <3>3
  <2>6. turn = [n \in 0..start |-> IF n = 0 THEN first ELSE UpTurn(turn[n - 1])]
    BY <2>5
  <2> HIDE DEF turn, step
  <2>7. /\ turn[0] = first
        /\ \A i \in 0..start : i < start => turn[i + 1] = UpTurn(turn[i])
    <3>1. \A n \in 0..start : turn[n] = IF n = 0 THEN first ELSE UpTurn(turn[n - 1])
      BY <2>6
    <3>2. ASSUME NEW i \in 0..start, i < start PROVE turn[i + 1] = UpTurn(turn[i])
      <4>1. i + 1 \in 0..start /\ i + 1 # 0 /\ (i + 1) - 1 = i
        BY <3>2
      <4> QED BY <3>1, <4>1
    <3>3. 0 \in 0..start
      OBVIOUS
    <3> QED BY <3>1, <3>2, <3>3
  <2>8. \A i \in 0..start : turn[i] \in UpState(h)
    <3>1. \A i \in 0..start : i < start /\ turn[i] \in UpState(h) => turn[i + 1] \in UpState(h)
      BY <2>7, UpTurnKeeps
    <3> QED BY <2>2, <2>7, <3>1, TurnsStay
  <2>9. turn[start] \in UpState(h)
    BY <2>8
  <2>10. ASSUME start = 1 PROVE TopIsOlder(r)
    <3>1. r = UpTurn(first).h
      <4>1. 0 \in 0..start /\ 0 < start /\ 0 + 1 = start
        BY <2>10
      <4>2. turn[0 + 1] = UpTurn(turn[0])
        BY <2>7, <4>1
      <4> QED BY <2>1, <2>7, <4>1, <4>2
    <3>2. first.at = 1
      BY <2>10 DEF first
    <3> QED BY <2>2, <3>1, <3>2, UpTurnKeeps
  <2> QED BY <2>1, <2>9, <2>10 DEF UpState
<1> QED BY <1>1, <1>2, <1>3

-----------------------------------------------------------------------------
(* bubble_down                                                             *)

DownTurn(t) ==
  IF 2 * t.at + 1 < Len(t.h.v) /\ Stamp(t.h, SmallerChild(t.h, t.at)) < Stamp(t.h, t.at)
  THEN [h |-> Swapped(t.h, t.at, SmallerChild(t.h, t.at)), at |-> SmallerChild(t.h, t.at)] ELSE t

\* p was used after all others in the history.
Newest(p, h) == \A q \in Wrappers : Member(h.v, q) /\ q # p => h.w[q].tstamp < h.w[p].tstamp

\* After a turn that has changed something the newcomer has left the top, and whoever is there
\* instead has been told so.
DownState(h) ==
  {t \in [h : Heap, at : 1..(Len(h.v) - 1)] :
     Rearranged(t.h, h) /\ Linked(t.h) /\ TopKnows(t.h) /\ TopIsOlder(t.h)}

LEMMA SmallerChildIs ==
  ASSUME NEW h, NEW a \in Nat, Len(h.v) \in Nat, 2 * a + 1 < Len(h.v)
  PROVE  SmallerChild(h, a) \in 1..(Len(h.v) - 1) /\ a < SmallerChild(h, a)
<1> DEFINE l == 2 * a + 1
           r == 2 * a + 2
<1>1. SmallerChild(h, a) = IF r >= Len(h.v) \/ Stamp(h, l) < Stamp(h, r) THEN l ELSE r
  BY DEF SmallerChild
<1>2. CASE r >= Len(h.v) \/ Stamp(h, l) < Stamp(h, r)
  BY <1>1, <1>2
<1>3. CASE ~(r >= Len(h.v) \/ Stamp(h, l) < Stamp(h, r))
  <2>1. SmallerChild(h, a) = r /\ ~(r >= Len(h.v))
    BY <1>1, <1>3
  <2> QED BY <2>1
<1> QED BY <1>2, <1>3

\* Changes below the top leave the top older than some other.
LEMMA OlderStays ==
  ASSUME NEW g \in Heap, NEW h, Rearranged(h, g), Linked(g), At(h, 0) = At(g, 0), TopIsOlder(g)
  PROVE  TopIsOlder(h)
<1>1. /\ g.v \in Seq(Wrappers) /\ h.v \in Seq(Wrappers) /\ Len(h.v) = Len(g.v) /\ Len(g.v) \in Nat
      /\ g.v[1] = h.v[1]
  BY DEF Rearranged, Heap, At
<1>2. PICK o \in 2..Len(g.v) : g.w[g.v[1]].tstamp <= g.w[g.v[o]].tstamp
  BY DEF TopIsOlder
<1>3. o \in 1..Len(g.v) /\ 1 \in 1..Len(g.v) /\ g.v[o] \in Wrappers /\ g.v[1] \in Wrappers
  BY <1>1, <1>2
<1>4. g.v[o] # g.v[1]
  BY <1>2, <1>3, LinkedDiffer
<1>5. PICK m \in 1..Len(h.v) : h.v[m] = g.v[o]
  BY <1>3 DEF Member, Rearranged
<1>6. m \in 2..Len(h.v)
  BY <1>1, <1>4, <1>5
<1>7. h.w[h.v[1]].tstamp <= h.w[h.v[m]].tstamp
  BY <1>1, <1>2, <1>3, <1>5 DEF Rearranged, SameButPlace
<1> QED BY <1>6, <1>7 DEF TopIsOlder

LEMMA DownBegins ==
  ASSUME NEW h \in Heap, Linked(h), Len(h.v) >= 2, NEW first, first = [h |-> h, at |-> 0]
  PROVE  \/ DownTurn(first) \in DownState(h)
         \/ DownTurn(first) = first /\ TopIsOlder(h) /\ ~Newest(At(h, 0), h)
<1> DEFINE j == SmallerChild(h, 0)
           s == Swapped(h, 0, j)
<1>1. Len(h.v) \in Nat /\ 0 \in 0..(Len(h.v) - 1)
  BY DEF Heap
<1>2. j \in 1..(Len(h.v) - 1) /\ j \in 0..(Len(h.v) - 1) /\ j # 0
  BY <1>1, SmallerChildIs
<1>3. DownTurn(first) = IF Stamp(h, j) < Stamp(h, 0) THEN [h |-> s, at |-> j] ELSE first
  BY <1>1 DEF DownTurn
<1> HIDE DEF j
<1>4. Stamp(h, j) \in Int /\ Stamp(h, 0) \in Int
  BY <1>1, <1>2, StampIs
<1>5. CASE Stamp(h, j) < Stamp(h, 0)
  <2>1. /\ Rearranged(s, h) /\ Linked(s) /\ TopKnows(s)
        /\ At(s, 0) = At(h, j) /\ At(s, j) = At(h, 0)
    <3> HIDE DEF s
    <3> QED BY <1>1, <1>2, SwappedLinks DEF s
  <2> HIDE DEF s
  <2>2. s \in Heap /\ j \in 1..(Len(s.v) - 1)
    BY <1>2, <2>1 DEF Rearranged
  <2>3. Stamp(s, 0) = Stamp(h, j) /\ Stamp(s, j) = Stamp(h, 0)
    <3>1. At(h, 0) \in Wrappers /\ At(h, j) \in Wrappers
      BY <1>1, <1>2, StampIs
    <3> QED BY <2>1, <3>1 DEF Stamp, Rearranged, SameButPlace
  <2>4. TopIsOlder(s)
    BY <1>4, <1>5, <2>2, <2>3, OlderIf
  <2> QED BY <1>2, <1>3, <1>5, <2>1, <2>2, <2>4 DEF DownState
<1>6. CASE ~(Stamp(h, j) < Stamp(h, 0))
  <2>1. DownTurn(first) = first /\ Stamp(h, 0) <= Stamp(h, j)
    BY <1>3, <1>4, <1>6
  <2>2. TopIsOlder(h)
    BY <1>2, <2>1, OlderIf
  <2>3. ~Newest(At(h, 0), h)
    <3>1. At(h, j) # At(h, 0)
      <4>1. j + 1 \in 1..Len(h.v) /\ 0 + 1 \in 1..Len(h.v) /\ j + 1 # 0 + 1
        BY <1>1, <1>2
      <4> QED BY <4>1, LinkedDiffer DEF At
    <3>2. /\ At(h, j) \in Wrappers /\ Member(h.v, At(h, j)) /\ Stamp(h, j) = h.w[At(h, j)].tstamp
          /\ Stamp(h, 0) = h.w[At(h, 0)].tstamp
      BY <1>1, <1>2, StampIs
    <3> QED BY <1>6, <3>1, <3>2 DEF Newest
  <2> QED BY <2>1, <2>2, <2>3
<1> QED BY <1>5, <1>6

LEMMA DownTurnKeeps ==
  ASSUME NEW h \in Heap, NEW t \in DownState(h)
  PROVE  DownTurn(t) \in DownState(h)
<1> DEFINE g == t.h
           a == t.at
           j == SmallerChild(g, a)
           s == Swapped(g, a, j)
<1>1. /\ g \in Heap /\ a \in 1..(Len(h.v) - 1) /\ Len(g.v) = Len(h.v)
      /\ Rearranged(g, h) /\ Linked(g) /\ TopKnows(g) /\ TopIsOlder(g)
  BY DEF DownState, Rearranged
<1>2. Len(h.v) \in Nat /\ a \in Nat
  BY <1>1 DEF Heap
<1>3. CASE 2 * a + 1 < Len(g.v) /\ Stamp(g, j) < Stamp(g, a)
  <2>1. DownTurn(t) = [h |-> s, at |-> j]
    BY <1>3 DEF DownTurn
  <2>2. j \in 1..(Len(h.v) - 1) /\ a < j
    BY <1>1, <1>2, <1>3, SmallerChildIs
  <2>3. /\ a \in 0..(Len(g.v) - 1) /\ j \in 0..(Len(g.v) - 1) /\ 0 \in 0..(Len(g.v) - 1)
        /\ a # j /\ 0 # a /\ 0 # j
    BY <1>1, <1>2, <2>2
  <2> HIDE DEF a, j, g, s
  <2>4. Rearranged(s, g) /\ Linked(s) /\ TopKnows(s) /\ At(s, 0) = At(g, 0)
    <3>1. /\ Rearranged(s, g) /\ Linked(s) /\ TopKnows(s)
          /\ \A m \in 0..(Len(g.v) - 1) : m # a /\ m # j => At(s, m) = At(g, m)
      BY <1>1, <2>3, SwappedLinks DEF s
    <3> QED BY <2>3, <3>1
  <2>5. Rearranged(s, h) /\ s \in Heap
    BY <1>1, <2>4, RearrangedTwice DEF Rearranged
  <2>6. TopIsOlder(s)
    BY <1>1, <2>4, OlderStays
  <2> QED BY <2>1, <2>2, <2>4, <2>5, <2>6 DEF DownState
<1>4. CASE ~(2 * a + 1 < Len(g.v) /\ Stamp(g, j) < Stamp(g, a))
  BY <1>4 DEF DownTurn
<1> QED BY <1>3, <1>4

\* What bubble_down does to the history: in the end some other was used as late as the top is,
\* and a newcomer that is later than all others has not stayed at the top without knowing it.
LEMMA BubbleDownKeeps ==
  ASSUME NEW h \in Heap, Linked(h), Len(h.v) >= 2, NEW r, r = BubbleDown(h, 0)
  PROVE  /\ Rearranged(r, h) /\ Linked(r) /\ TopIsOlder(r)
         /\ Newest(At(h, 0), h) => TopKnows(r)
<1> DEFINE N == Len(h.v)
           first == [h |-> h, at |-> 0]
           T == DownState(h) \cup {first}
           step == [t \in T |-> DownTurn(t)]
           turn == CHOOSE f : f = [n \in 0..N |-> IF n = 0 THEN first ELSE DownTurn(f[n - 1])]
<1>1. N \in Nat /\ N >= 2
  BY DEF Heap
<1>2. r = turn[N].h
  BY DEF BubbleDown, DownTurn
<1>3. /\ \/ DownTurn(first) \in DownState(h)
         \/ DownTurn(first) = first /\ TopIsOlder(h) /\ ~Newest(At(h, 0), h)
      /\ \A t \in DownState(h) : DownTurn(t) \in DownState(h)
      /\ first.h = h
  BY DownBegins, DownTurnKeeps
<1> HIDE DEF first, N
<1>4. \A t \in T : step[t] = DownTurn(t)
  OBVIOUS
<1>5. step \in [T -> T] /\ first \in T
  BY <1>3
<1> HIDE DEF step, T
<1>6. PICK g : Turned(g, N, T, first, step)
  BY <1>1, <1>5, TurnsExist
<1>7. g = [n \in 0..N |-> IF n = 0 THEN first ELSE DownTurn(g[n - 1])]
  <2>1. ASSUME NEW i \in 0..N PROVE g[i] = IF i = 0 THEN first ELSE DownTurn(g[i - 1])
    <3>1. i # 0 => g[i - 1] \in T
      BY <1>1, <1>6 DEF Turned
    <3> QED BY <1>4, <1>6, <3>1 DEF Turned
  <2>2. g = [n \in 0..N |-> g[n]]
    BY <1>6 DEF Turned
  <2> QED BY <2>1, <2>2
<1>8. turn = [n \in 0..N |-> IF n = 0 THEN first ELSE DownTurn(turn[n - 1])]
  BY <1>7
<1> HIDE DEF turn
<1>9. \A n \in 0..N : turn[n] = IF n = 0 THEN first ELSE DownTurn(turn[n - 1])
  BY <1>8
<1>10. turn[1] = DownTurn(first)
  <2>1. 0 \in 0..N /\ 1 \in 0..N /\ 1 - 1 = 0 /\ 1 # 0
    BY <1>1
  <2> QED BY <1>9, <2>1
<1>11. \A i \in 1..N : i < N => turn[i + 1] = DownTurn(turn[i])
  <2> TAKE i \in 1..N
  <2> HAVE i < N
  <2>1. i + 1 \in 0..N /\ i + 1 # 0 /\ (i + 1) - 1 = i
    BY <1>1
  <2> QED BY <1>9, <2>1
<1>12. 1 \in 0..N /\ N \in 1..N
  BY <1>1
<1>13. CASE DownTurn(first) \in DownState(h)
  <2>1. \A i \in 1..N : turn[i] \in DownState(h)
    <3>1. \A i \in 1..N : i < N /\ turn[i] \in DownState(h) => turn[i + 1] \in DownState(h)
      BY <1>3, <1>11
    <3> QED BY <1>1, <1>10, <1>12, <1>13, <3>1, TurnsStay
  <2>2. turn[N] \in DownState(h)
    BY <1>12, <2>1
  <2> QED BY <1>2, <2>2 DEF DownState
<1>14. CASE DownTurn(first) = first /\ TopIsOlder(h) /\ ~Newest(At(h, 0), h)
  <2>0. PICK same : same = {first}
    OBVIOUS
  <2>1. \A i \in 1..N : turn[i] \in same
    <3>1. \A i \in 1..N : i < N /\ turn[i] \in same => turn[i + 1] \in same
      BY <1>11, <1>14, <2>0
    <3>2. turn[1] \in same
      BY <1>10, <1>14, <2>0
    <3> QED BY <1>1, <1>12, <3>1, <3>2, TurnsStay
  <2>2. r = h
    BY <1>2, <1>3, <1>12, <2>0, <2>1
  <2> QED BY <1>14, <2>2, RearrangedSelf
<1> QED BY <1>3, <1>13, <1>14
-----------------------------------------------------------------------------
(* decache and encache                                                     *)

\* A use of p: one more holder, and a new time.
Touched(w, w0, p, time) ==
  /\ w \in [Wrappers -> WrapperRec]
  /\ w[p].live = w0[p].live /\ w[p].key = w0[p].key /\ w[p].idx = w0[p].idx
  /\ w[p].refCount = w0[p].refCount + 1 /\ w[p].tstamp = time
  /\ \A q \in Wrappers : q # p => w[q] = w0[q]

LEMMA DeletedIs ==
  /\ Deleted \in WrapperRec /\ ~Deleted.live /\ Deleted.refCount = 0 /\ Deleted.idx = -1
  /\ Deleted.tstamp = 0
  BY CacheAssumption DEF Deleted, WrapperRec

\* decache deletes a wrapper that nobody holds and that is not in the history, and nothing else.
LEMMA DecachedKeeps ==
  ASSUME NEW w \in [Wrappers -> WrapperRec], NEW map \in [Keys -> 0..MaxWrappers], Cached(w, map),
         NEW p \in Wrappers, w[p].live, NEW d, d = Decached(w, map, p)
  PROVE  /\ d.w \in [Wrappers -> WrapperRec] /\ d.cache \in [Keys -> 0..MaxWrappers]
         /\ Cached(d.w, d.cache)
         /\ \A q \in Wrappers : q # p => d.w[q] = w[q]
         /\ d.w[p] = IF w[p].refCount > 0 \/ w[p].idx >= 0 THEN w[p] ELSE Deleted
<1>1. CASE w[p].refCount > 0 \/ w[p].idx >= 0
  <2>1. d.w = w /\ d.cache = map
    BY <1>1 DEF Decached
  <2> QED BY <1>1, <2>1
<1>2. CASE ~(w[p].refCount > 0 \/ w[p].idx >= 0)
  <2>1. /\ d.w = [w EXCEPT ![p] = Deleted]
        /\ d.cache = IF map[w[p].key] = p THEN [map EXCEPT ![w[p].key] = 0] ELSE map
    BY <1>2 DEF Decached
  <2>2. /\ d.w \in [Wrappers -> WrapperRec] /\ d.w[p] = Deleted
        /\ \A q \in Wrappers : q # p => d.w[q] = w[q]
    BY <2>1, DeletedIs
  <2>3. d.cache \in [Keys -> 0..MaxWrappers] /\ \A k \in Keys : d.cache[k] # 0 => d.cache[k] = map[k]
    <3>1. 0 \in 0..MaxWrappers
      BY CacheAssumption
    <3>2. CASE map[w[p].key] = p
      <4>1. PICK x : x = w[p].key
        OBVIOUS
      <4>2. d.cache = [map EXCEPT ![x] = 0]
        BY <2>1, <3>2, <4>1
      <4> QED BY <3>1, <4>2
    <3>3. CASE map[w[p].key] # p
      BY <2>1, <3>3
    <3> QED BY <3>2, <3>3
  <2>4. ASSUME NEW k \in Keys, d.cache[k] = p PROVE FALSE
    <3>1. p # 0
      BY DEF Wrappers
    <3>2. map[k] = p
      BY <2>3, <2>4, <3>1
    <3>3. w[p].key = k
      BY <3>1, <3>2 DEF Cached
    <3> QED BY <2>1, <2>4, <3>1, <3>2, <3>3
  <2>5. ASSUME NEW k \in Keys, d.cache[k] # 0
        PROVE  d.w[d.cache[k]].live /\ d.w[d.cache[k]].key = k
    <3>1. d.cache[k] = map[k] /\ map[k] # p /\ map[k] # 0
      BY <2>3, <2>4, <2>5
    <3>2. map[k] \in Wrappers
      BY <3>1, CacheAssumption DEF Wrappers
    <3> QED BY <2>2, <3>1, <3>2 DEF Cached
  <2>6. Cached(d.w, d.cache)
    BY <2>2, <2>5 DEF Cached
  <2> QED BY <1>2, <2>2, <2>3, <2>6
<1> QED BY <1>1, <1>2

\* A use is a use.
LEMMA TouchedIs ==
  ASSUME NEW w0 \in [Wrappers -> WrapperRec], NEW p \in Wrappers, NEW time \in Int
  PROVE  Touched([w0 EXCEPT ![p].refCount = @ + 1, ![p].tstamp = time], w0, p, time)
<1> DEFINE r == w0[p]
           r1 == [r EXCEPT !.refCount = r.refCount + 1]
           r2 == [r1 EXCEPT !.tstamp = time]
           w == [w0 EXCEPT ![p].refCount = @ + 1, ![p].tstamp = time]
<1>1. r \in WrapperRec
  OBVIOUS
<1>2. /\ r2 \in WrapperRec /\ r2.live = r.live /\ r2.key = r.key /\ r2.idx = r.idx
      /\ r2.refCount = r.refCount + 1 /\ r2.tstamp = time
  <2>1. ASSUME NEW x \in WrapperRec, NEW n \in Nat
        PROVE  LET y == [x EXCEPT !.refCount = n]
               IN  /\ y \in WrapperRec /\ y.live = x.live /\ y.key = x.key /\ y.idx = x.idx
                   /\ y.refCount = n
    BY DEF WrapperRec
  <2>2. ASSUME NEW x \in WrapperRec, NEW n \in Int
        PROVE  LET y == [x EXCEPT !.tstamp = n]
               IN  /\ y \in WrapperRec /\ y.live = x.live /\ y.key = x.key /\ y.idx = x.idx
                   /\ y.refCount = x.refCount /\ y.tstamp = n
    BY DEF WrapperRec
  <2>3. r.refCount + 1 \in Nat
    BY <1>1 DEF WrapperRec
  <2>4. /\ r1 \in WrapperRec /\ r1.live = r.live /\ r1.key = r.key /\ r1.idx = r.idx
        /\ r1.refCount = r.refCount + 1
    BY <1>1, <2>1, <2>3
  <2> HIDE DEF r1
  <2> QED BY <2>2, <2>4
<1>3. w = [w0 EXCEPT ![p] = r2]
  OBVIOUS
<1> HIDE DEF r2, w
<1>4. w \in [Wrappers -> WrapperRec] /\ w[p] = r2 /\ \A q \in Wrappers : q # p => w[q] = w0[q]
  BY <1>2, <1>3
<1>5. Touched(w, w0, p, time)
  BY <1>2, <1>4 DEF Touched
<1> QED BY <1>5 DEF w

\* Use keeps what Cached and Linked say.
LEMMA TouchedKeeps ==
  ASSUME NEW w0 \in [Wrappers -> WrapperRec], NEW p \in Wrappers, w0[p].live,
         NEW time, NEW w, Touched(w, w0, p, time), NEW map \in [Keys -> 0..MaxWrappers], Cached(w0, map),
         NEW v \in Seq(Wrappers), Linked([v |-> v, w |-> w0])
  PROVE  /\ Cached(w, map) /\ Linked([v |-> v, w |-> w]) /\ [v |-> v, w |-> w] \in Heap
         /\ TopKnows([v |-> v, w |-> w0]) => TopKnows([v |-> v, w |-> w])
<1>1. \A q \in Wrappers : w[q].live = w0[q].live /\ w[q].key = w0[q].key /\ w[q].idx = w0[q].idx
  BY DEF Touched
<1>2. \A k \in Keys : map[k] # 0 => map[k] \in Wrappers
  BY CacheAssumption DEF Wrappers
<1>3. Cached(w, map)
  <2>1. ASSUME NEW q \in Wrappers, ~w[q].live PROVE w[q] = Deleted
    <3>1. q # p
      BY <1>1, <2>1
    <3> QED BY <1>1, <2>1, <3>1 DEF Touched, Cached
  <2>2. \A k \in Keys : map[k] # 0 => w[map[k]].live /\ w[map[k]].key = k
    BY <1>1, <1>2 DEF Cached
  <2> QED BY <2>1, <2>2 DEF Cached
<1>4. Linked([v |-> v, w |-> w])
  <2>1. \A k \in 1..Len(v) : v[k] \in Wrappers
    OBVIOUS
  <2> QED BY <1>1, <2>1 DEF Linked
<1>5. [v |-> v, w |-> w] \in Heap
  BY DEF Heap, Touched
<1>6. TopKnows([v |-> v, w |-> w0]) => TopKnows([v |-> v, w |-> w])
  <2>1. Len(v) >= 1 => v[1] \in Wrappers
    OBVIOUS
  <2> QED BY <1>1, <2>1 DEF TopKnows
<1> QED BY <1>3, <1>4, <1>5, <1>6

\* Changing places does not disturb the cache, whose dead wrappers are not in the history.
LEMMA RearrangedCached ==
  ASSUME NEW g, NEW h, Rearranged(h, g), NEW map \in [Keys -> 0..MaxWrappers], Cached(g.w, map),
         \A q \in Wrappers : Member(g.v, q) => g.w[q].live
  PROVE  Cached(h.w, map)
<1>1. ASSUME NEW q \in Wrappers, ~h.w[q].live PROVE h.w[q] = Deleted
  <2>1. ~g.w[q].live
    BY <1>1 DEF Rearranged, SameButPlace
  <2> QED BY <2>1 DEF Rearranged, Cached
<1>2. ASSUME NEW k \in Keys, map[k] # 0 PROVE h.w[map[k]].live /\ h.w[map[k]].key = k
  <2>1. map[k] \in Wrappers
    BY <1>2, CacheAssumption DEF Wrappers
  <2> QED BY <1>2, <2>1 DEF Rearranged, SameButPlace, Cached
<1> QED BY <1>1, <1>2 DEF Cached

\* A new place for one wrapper.
Placed(w, p, x) == [w EXCEPT ![p].idx = x]

LEMMA PlaceSet ==
  ASSUME NEW w \in [Wrappers -> WrapperRec], NEW p \in Wrappers, NEW x \in Nat \cup {-1},
         NEW w1, w1 = Placed(w, p, x)
  PROVE  /\ w1 \in [Wrappers -> WrapperRec]
         /\ SameButPlace(w1[p], w[p]) /\ w1[p].idx = x
         /\ \A q \in Wrappers : q # p => w1[q] = w[q]
<1>1. ASSUME NEW r \in WrapperRec
      PROVE  LET y == [r EXCEPT !.idx = x] IN y \in WrapperRec /\ SameButPlace(y, r) /\ y.idx = x
  BY DEF WrapperRec, SameButPlace
<1> DEFINE y == [w[p] EXCEPT !.idx = x]
<1>2. y \in WrapperRec /\ SameButPlace(y, w[p]) /\ y.idx = x
  BY <1>1
<1>3. w1 = [w EXCEPT ![p] = y]
  BY DEF Placed
<1> HIDE DEF y
<1>4. w1 \in [Wrappers -> WrapperRec] /\ w1[p] = y /\ \A q \in Wrappers : q # p => w1[q] = w[q]
  BY <1>2, <1>3
<1> QED BY <1>2, <1>4

\* What encache makes of the history and of the wrappers w, after p has been touched.
HeapOf(e) == [v |-> e.v, w |-> e.w]
Encaches(e, w, p) ==
  /\ e.w \in [Wrappers -> WrapperRec] /\ e.v \in Seq(Wrappers) /\ Len(e.v) <= Capacity
  /\ e.cache \in [Keys -> 0..MaxWrappers]
  /\ Linked(HeapOf(e)) /\ Cached(e.w, e.cache)
  /\ \A q \in Wrappers :
       /\ e.w[q].refCount = w[q].refCount
       /\ Member(e.v, q) => e.w[q].live
       /\ e.w[q].live => /\ w[q].live
                         /\ Member(m_history, q) => e.w[q].refCount > 0 \/ Member(e.v, q)
  /\ Len(e.v) < Capacity => TopKnows(HeapOf(e))
  /\ TopKnows(CacheHeap(w)) /\ (\A q \in Wrappers : q # p => w[q].tstamp < w[p].tstamp)
       => TopKnows(HeapOf(e))
  /\ Len(e.v) >= 3 /\ (\A q \in Wrappers : w[q].tstamp <= w[p].tstamp) => TopIsOlder(HeapOf(e))
  /\ Capacity # 2 => \A k \in 1..Len(m_history) :
                        ~Member(e.v, m_history[k]) => k = 1 /\ Len(m_history) >= 3

\* The state after the loops of the heap.
LEMMA RearrangedIs ==
  ASSUME NEW g \in Heap, NEW h, Rearranged(h, g), Linked(h), Len(g.v) <= Capacity,
         NEW map \in [Keys -> 0..MaxWrappers], Cached(g.w, map),
         \A q \in Wrappers : Member(g.v, q) => g.w[q].live,
         NEW e, e = [w |-> h.w, v |-> h.v, cache |-> map]
  PROVE  /\ e.w \in [Wrappers -> WrapperRec] /\ e.v \in Seq(Wrappers) /\ Len(e.v) <= Capacity
         /\ e.cache \in [Keys -> 0..MaxWrappers]
         /\ Linked(HeapOf(e)) /\ Cached(e.w, e.cache) /\ HeapOf(e) = h
         /\ \A q \in Wrappers : /\ Member(e.v, q) => e.w[q].live
                                /\ Member(e.v, q) <=> Member(g.v, q)
                                /\ e.w[q].live = g.w[q].live /\ e.w[q].refCount = g.w[q].refCount
<1>1. h \in Heap /\ Len(h.v) = Len(g.v)
  BY DEF Rearranged
<1>2. h.w \in [Wrappers -> WrapperRec] /\ h.v \in Seq(Wrappers) /\ h = HeapOf(e)
  BY <1>1 DEF Heap, HeapOf
<1>3. Cached(h.w, map)
  BY RearrangedCached
<1>4. \A q \in Wrappers : /\ Member(h.v, q) <=> Member(g.v, q)
                          /\ h.w[q].live = g.w[q].live /\ h.w[q].refCount = g.w[q].refCount
  BY DEF Rearranged, SameButPlace
<1> QED BY <1>1, <1>2, <1>3, <1>4

\* If the one used last is not at the top, the top is older.
LEMMA TopIs ==
  ASSUME NEW h \in Heap, NEW p \in Wrappers, LastUsed(p, h), Member(h.v, p), At(h, 0) # p
  PROVE  TopIsOlder(h)
<1>1. h.v \in Seq(Wrappers) /\ Len(h.v) \in Nat
  BY DEF Heap
<1>2. PICK o \in 1..Len(h.v) : h.v[o] = p
  BY DEF Member
<1>3. o # 1 /\ o \in 2..Len(h.v) /\ 1 \in 1..Len(h.v)
  BY <1>1, <1>2 DEF At
<1>4. h.v[1] \in Wrappers /\ Member(h.v, h.v[1])
  BY <1>1, <1>3 DEF Member
<1>5. h.w[h.v[1]].tstamp <= h.w[h.v[o]].tstamp
  BY <1>2, <1>4 DEF LastUsed
<1> QED BY <1>3, <1>5 DEF TopIsOlder

\* The wrapper is already in the history.
LEMMA EncacheSeen ==
  ASSUME NEW w \in [Wrappers -> WrapperRec], NEW map \in [Keys -> 0..MaxWrappers], Cached(w, map),
         m_history \in Seq(Wrappers), Len(m_history) <= Capacity, Linked(CacheHeap(w)),
         \A q \in Wrappers : Member(m_history, q) => w[q].live,
         Len(m_history) < Capacity => TopKnows(CacheHeap(w)),
         NEW p \in Wrappers, w[p].idx >= 0,
         NEW k, k = 2 * (w[p].idx + 1),
         NEW h1, h1 = BubbleUp(CacheHeap(w), k),
         NEW h2, h2 = BubbleUp(h1, IF k < Len(m_history) THEN k - 1 ELSE k)
  PROVE  Encaches([w |-> h2.w, v |-> h2.v, cache |-> map], w, p)
<1> DEFINE g == CacheHeap(w)
<1>1. g \in Heap /\ g.v = m_history /\ g.w = w /\ Len(m_history) \in Nat
  BY DEF CacheHeap, Heap
<1>2. /\ w[p].idx \in Nat /\ w[p].idx + 1 \in 1..Len(m_history) /\ m_history[w[p].idx + 1] = p
      /\ k \in Nat
  <2>1. w[p] \in WrapperRec
    OBVIOUS
  <2>2. w[p].idx + 1 \in 1..Len(m_history) /\ m_history[w[p].idx + 1] = p
    BY <1>1 DEF Linked
  <2>3. w[p].idx \in Int
    BY <2>1 DEF WrapperRec
  <2>4. k \in Nat
    BY <2>3
  <2> QED BY <2>2, <2>3, <2>4
<1>3. Member(g.v, p)
  BY <1>1, <1>2 DEF Member
<1> HIDE DEF g
<1>4. /\ Rearranged(h1, g) /\ Linked(h1) /\ h1 \in Heap /\ (TopKnows(g) => TopKnows(h1))
      /\ LastUsed(p, g) /\ At(g, 0) # p => At(h1, 0) # p
  <2>1. Linked(g) /\ h1 = BubbleUp(g, k)
    BY DEF g
  <2>2. /\ Rearranged(h1, g) /\ Linked(h1) /\ (TopKnows(g) => TopKnows(h1))
        /\ \A o \in Wrappers : LastUsed(o, g) /\ At(g, 0) # o => At(h1, 0) # o
    BY <1>1, <1>2, <2>1, BubbleUpKeeps
  <2> QED BY <2>1, <2>2 DEF Rearranged
<1>5. (LastUsed(p, g) => LastUsed(p, h1)) /\ Len(h1.v) = Len(m_history)
  BY <1>1, <1>4, LastUsedStays DEF Rearranged, g
<1> DEFINE start == IF k < Len(m_history) THEN k - 1 ELSE k
<1>6. start \in Nat /\ h2 = BubbleUp(h1, start)
  BY <1>1, <1>2
<1>7. /\ Rearranged(h2, h1) /\ Linked(h2) /\ (TopKnows(h1) => TopKnows(h2))
      /\ LastUsed(p, h1) /\ At(h1, 0) # p => At(h2, 0) # p
      /\ start = 1 /\ Len(h1.v) >= 2 => TopIsOlder(h2)
  <2> HIDE DEF start
  <2>1. /\ Rearranged(h2, h1) /\ Linked(h2) /\ (TopKnows(h1) => TopKnows(h2))
        /\ \A o \in Wrappers : LastUsed(o, h1) /\ At(h1, 0) # o => At(h2, 0) # o
        /\ start = 1 /\ Len(h1.v) >= 2 => TopIsOlder(h2)
    BY <1>4, <1>6, BubbleUpKeeps
  <2> QED BY <2>1
<1>8. Rearranged(h2, g) /\ h2 \in Heap
  <2>1. Rearranged(h2, g)
    BY <1>4, <1>7, RearrangedTwice
  <2> QED BY <2>1 DEF Rearranged
<1>9. ASSUME Len(m_history) >= 3, LastUsed(p, g) PROVE TopIsOlder(h2)
  <2>1. CASE w[p].idx = 0
    <3>1. start = 1
      BY <1>1, <1>9, <2>1
    <3> QED BY <1>5, <1>7, <1>9, <3>1
  <2>2. CASE w[p].idx # 0
    <3>1. At(g, 0) = m_history[1]
      BY <1>1 DEF At
    <3>2. m_history[1] # p
      <4>1. 1 \in 1..Len(m_history) /\ w[p].idx + 1 # 1
        BY <1>1, <1>2, <1>9, <2>2
      <4>2. m_history[1] # m_history[w[p].idx + 1]
        BY <1>1, <1>2, <4>1, LinkedDiffer DEF g
      <4> QED BY <1>2, <4>2
    <3>3. At(h2, 0) # p
      BY <1>4, <1>5, <1>7, <1>9, <3>1, <3>2
    <3>4. LastUsed(p, h2) /\ Member(h2.v, p)
      BY <1>3, <1>8, <1>9, LastUsedStays DEF Rearranged
    <3> QED BY <1>8, <3>3, <3>4, TopIs
  <2> QED BY <2>1, <2>2
<1> DEFINE e == [w |-> h2.w, v |-> h2.v, cache |-> map]
<1>10. /\ e.w \in [Wrappers -> WrapperRec] /\ e.v \in Seq(Wrappers) /\ Len(e.v) <= Capacity
       /\ e.cache \in [Keys -> 0..MaxWrappers]
       /\ Linked(HeapOf(e)) /\ Cached(e.w, e.cache) /\ HeapOf(e) = h2
       /\ \A q \in Wrappers : /\ Member(e.v, q) => e.w[q].live
                              /\ Member(e.v, q) <=> Member(g.v, q)
                              /\ e.w[q].live = g.w[q].live /\ e.w[q].refCount = g.w[q].refCount
  <2>1. Len(g.v) <= Capacity /\ Cached(g.w, map) /\ \A q \in Wrappers : Member(g.v, q) => g.w[q].live
    BY <1>1
  <2> HIDE DEF e
  <2>2. e = [w |-> h2.w, v |-> h2.v, cache |-> map]
    BY DEF e
  <2> QED BY <1>1, <1>7, <1>8, <2>1, <2>2, RearrangedIs
<1>11. Len(e.v) = Len(m_history)
  BY <1>1, <1>8 DEF Rearranged
<1>12. \A m \in 1..Len(m_history) : Member(e.v, m_history[m])
  <2> TAKE m \in 1..Len(m_history)
  <2>1. m_history[m] \in Wrappers /\ Member(g.v, m_history[m])
    BY <1>1 DEF Member
  <2> QED BY <1>10, <2>1
<1> HIDE DEF e
<1>13. TopKnows(CacheHeap(w)) => TopKnows(HeapOf(e))
  BY <1>4, <1>7, <1>10 DEF g
<1>14. Len(e.v) >= 3 /\ (\A q \in Wrappers : w[q].tstamp <= w[p].tstamp) => TopIsOlder(HeapOf(e))
  BY <1>1, <1>9, <1>10, <1>11 DEF LastUsed
<1>15. Len(e.v) < Capacity => TopKnows(HeapOf(e))
  BY <1>11, <1>13
<1>16. \A q \in Wrappers :
         /\ e.w[q].refCount = w[q].refCount
         /\ Member(e.v, q) => e.w[q].live
         /\ e.w[q].live => /\ w[q].live
                           /\ Member(m_history, q) => e.w[q].refCount > 0 \/ Member(e.v, q)
  BY <1>1, <1>10
<1> HIDE DEF g
<1>17. Encaches(e, w, p)
  BY <1>10, <1>12, <1>13, <1>14, <1>15, <1>16 DEF Encaches
<1> QED BY <1>17 DEF e

\* The heap that encache hands to bubble_up when there is room for a wrapper.
Longer(w, p) == [v |-> Append(m_history, p), w |-> Placed(w, p, Len(m_history))]

\* The wrapper comes to the end of the history.
LEMMA EncacheAdds ==
  ASSUME NEW w \in [Wrappers -> WrapperRec], NEW map \in [Keys -> 0..MaxWrappers], Cached(w, map),
         m_history \in Seq(Wrappers), Len(m_history) < Capacity, Linked(CacheHeap(w)),
         \A q \in Wrappers : Member(m_history, q) => w[q].live, TopKnows(CacheHeap(w)),
         NEW p \in Wrappers, w[p].idx < 0, w[p].live,
         NEW g, g = Longer(w, p),
         NEW h, h = BubbleUp(g, Len(m_history))
  PROVE  Encaches([w |-> h.w, v |-> h.v, cache |-> map], w, p)
<1> DEFINE N == Len(m_history)
<1>1. /\ N \in Nat /\ g.v \in Seq(Wrappers) /\ Len(g.v) = N + 1 /\ Len(g.v) <= Capacity
      /\ g.v[N + 1] = p /\ \A m \in 1..N : g.v[m] = m_history[m] /\ m_history[m] \in Wrappers
  <2>1. g.v = Append(m_history, p)
    BY DEF Longer
  <2> QED BY <2>1, CacheAssumption
<1>2. /\ g.w \in [Wrappers -> WrapperRec] /\ SameButPlace(g.w[p], w[p]) /\ g.w[p].idx = N
      /\ \A q \in Wrappers : q # p => g.w[q] = w[q]
  <2>1. g.w = Placed(w, p, N)
    BY DEF Longer
  <2>2. N \in Nat \cup {-1}
    BY <1>1
  <2> HIDE DEF N
  <2> QED BY <2>1, <2>2, PlaceSet
<1>3. g \in Heap
  BY <1>1, <1>2 DEF Heap, Longer
<1>4. /\ \A m \in 1..N : w[m_history[m]].idx = m - 1
      /\ \A q \in Wrappers : w[q].idx >= 0 => w[q].idx + 1 \in 1..N /\ m_history[w[q].idx + 1] = q
  <2>1. ASSUME NEW m \in 1..N PROVE w[m_history[m]].idx = m - 1
    <3>1. m = 1 => w[m_history[m]].idx = 0 /\ N >= 1
      BY <1>1 DEF TopKnows, CacheHeap
    <3>2. w[m_history[m]].idx = m - 1 \/ m = 1
      BY DEF Linked, CacheHeap
    <3> QED BY <1>1, <3>1, <3>2
  <2> QED BY <2>1 DEF Linked, CacheHeap
<1> HIDE DEF N
<1>5. \A m \in 1..N : m_history[m] # p
  BY <1>1, <1>4
<1>6. Linked(g) /\ TopKnows(g)
  <2>1. ASSUME NEW m \in 1..Len(g.v) PROVE g.w[g.v[m]].idx = m - 1
    <3>1. CASE m = N + 1
      BY <1>1, <1>2, <3>1
    <3>2. CASE m # N + 1
      <4>1. m \in 1..N
        BY <1>1, <3>2
      <4>2. g.v[m] = m_history[m] /\ m_history[m] # p /\ m_history[m] \in Wrappers
        BY <1>1, <1>5, <4>1
      <4>3. g.w[m_history[m]] = w[m_history[m]] /\ w[m_history[m]].idx = m - 1
        BY <1>2, <1>4, <4>1, <4>2
      <4> QED BY <4>2, <4>3
    <3> QED BY <3>1, <3>2
  <2>2. ASSUME NEW q \in Wrappers, g.w[q].idx >= 0
        PROVE  g.w[q].idx + 1 \in 1..Len(g.v) /\ g.v[g.w[q].idx + 1] = q
    <3>1. CASE q = p
      BY <1>1, <1>2, <3>1
    <3>2. CASE q # p
      <4>1. g.w[q].idx + 1 \in 1..N /\ m_history[g.w[q].idx + 1] = q
        BY <1>2, <1>4, <2>2, <3>2
      <4> QED BY <1>1, <4>1
    <3> QED BY <3>1, <3>2
  <2>3. 1 \in 1..Len(g.v) /\ 1 - 1 = 0
    BY <1>1
  <2>4. g.w[g.v[1]].idx = 0
    BY <2>1, <2>3
  <2> QED BY <2>1, <2>2, <2>4 DEF Linked, TopKnows
<1>7. Member(g.v, p) /\ \A q \in Wrappers : Member(g.v, q) <=> q = p \/ Member(m_history, q)
  <2>1. N + 1 \in 1..Len(g.v) /\ \A m \in 1..N : m \in 1..Len(g.v)
    BY <1>1
  <2>2. \A m \in 1..Len(g.v) : m \in 1..N \/ m = N + 1
    BY <1>1
  <2>3. Member(g.v, p)
    BY <1>1, <2>1 DEF Member
  <2> QED BY <1>1, <2>1, <2>2, <2>3 DEF Member, N
<1>8. /\ Cached(g.w, map)
      /\ \A q \in Wrappers : /\ g.w[q].live = w[q].live /\ g.w[q].refCount = w[q].refCount
                             /\ g.w[q].tstamp = w[q].tstamp
  <2>1. \A k \in Keys : map[k] # 0 => map[k] \in Wrappers
    BY CacheAssumption DEF Wrappers
  <2>2. \A q \in Wrappers : /\ g.w[q].live = w[q].live /\ g.w[q].refCount = w[q].refCount
                            /\ g.w[q].key = w[q].key /\ g.w[q].tstamp = w[q].tstamp
    BY <1>2 DEF SameButPlace
  <2>3. \A q \in Wrappers : ~g.w[q].live => g.w[q] = Deleted
    BY <1>2, <2>2 DEF Cached
  <2> QED BY <2>1, <2>2, <2>3 DEF Cached
<1>9. /\ Rearranged(h, g) /\ Linked(h) /\ TopKnows(h) /\ h \in Heap
      /\ LastUsed(p, g) /\ At(g, 0) # p => At(h, 0) # p
  <2>1. /\ Rearranged(h, g) /\ Linked(h) /\ TopKnows(h)
        /\ \A o \in Wrappers : LastUsed(o, g) /\ At(g, 0) # o => At(h, 0) # o
    <3>1. h = BubbleUp(g, N)
      BY DEF N
    <3> QED BY <1>1, <1>3, <1>6, <3>1, BubbleUpKeeps
  <2> QED BY <2>1 DEF Rearranged
<1>10. ASSUME Len(g.v) >= 3, LastUsed(p, g) PROVE TopIsOlder(h)
  <2>1. 1 \in 1..N
    BY <1>1, <1>10
  <2>2. At(g, 0) # p
    <3>1. g.v[1] # p
      BY <1>1, <1>5, <2>1
    <3> QED BY <3>1 DEF At
  <2>3. LastUsed(p, h) /\ Member(h.v, p)
    BY <1>7, <1>9, <1>10, LastUsedStays DEF Rearranged
  <2> QED BY <1>9, <1>10, <2>2, <2>3, TopIs
<1>11. \A q \in Wrappers : Member(g.v, q) => g.w[q].live
  BY <1>7, <1>8
<1>12. PICK e : e = [w |-> h.w, v |-> h.v, cache |-> map]
  OBVIOUS
<1>13. /\ e.w \in [Wrappers -> WrapperRec] /\ e.v \in Seq(Wrappers) /\ Len(e.v) <= Capacity
       /\ e.cache \in [Keys -> 0..MaxWrappers]
       /\ Linked(HeapOf(e)) /\ Cached(e.w, e.cache) /\ HeapOf(e) = h
       /\ \A q \in Wrappers : /\ Member(e.v, q) => e.w[q].live
                              /\ Member(e.v, q) <=> Member(g.v, q)
                              /\ e.w[q].live = g.w[q].live /\ e.w[q].refCount = g.w[q].refCount
  <2>1. g \in Heap /\ Rearranged(h, g) /\ Linked(h) /\ Len(g.v) <= Capacity /\ Cached(g.w, map)
    BY <1>1, <1>3, <1>8, <1>9
  <2> QED BY <1>11, <1>12, <2>1, RearrangedIs
<1>14. \A q \in Wrappers :
         /\ e.w[q].refCount = w[q].refCount
         /\ Member(e.v, q) => e.w[q].live
         /\ e.w[q].live => /\ w[q].live
                           /\ Member(m_history, q) => e.w[q].refCount > 0 \/ Member(e.v, q)
  BY <1>7, <1>8, <1>13
<1>15. \A m \in 1..Len(m_history) : Member(e.v, m_history[m])
  <2> TAKE m \in 1..Len(m_history)
  <2>1. m_history[m] \in Wrappers /\ Member(m_history, m_history[m])
    BY DEF Member
  <2> QED BY <1>7, <1>13, <2>1
<1>16. TopKnows(HeapOf(e))
  BY <1>9, <1>13
<1>17. Len(e.v) >= 3 /\ (\A q \in Wrappers : w[q].tstamp <= w[p].tstamp) => TopIsOlder(HeapOf(e))
  <2>1. Len(e.v) = Len(g.v)
    BY <1>9, <1>12 DEF Rearranged
  <2> QED BY <1>8, <1>10, <1>13, <2>1 DEF LastUsed
<1>18. Encaches(e, w, p)
  BY <1>13, <1>14, <1>15, <1>16, <1>17 DEF Encaches
<1> QED BY <1>12, <1>18

\* What encache makes of the wrapper at the top when the history is full, and the heap that
\* it hands to bubble_down.
Evicted(w, map) == Decached(Placed(w, Head(m_history), -1), map, Head(m_history))
WithNewTop(w, map, p) == [v |-> [m_history EXCEPT ![1] = p], w |-> Evicted(w, map).w]

\* The wrapper takes the place of the one at the top, which it may be itself.
LEMMA EncacheReplaces ==
  ASSUME NEW w \in [Wrappers -> WrapperRec], NEW map \in [Keys -> 0..MaxWrappers], Cached(w, map),
         m_history \in Seq(Wrappers), Len(m_history) <= Capacity, Linked(CacheHeap(w)),
         \A q \in Wrappers : Member(m_history, q) => w[q].live,
         Len(m_history) >= Capacity, Capacity > 1,
         NEW p \in Wrappers, w[p].idx < 0, w[p].live, w[p].refCount > 0,
         NEW d, d = Evicted(w, map), NEW g, g = WithNewTop(w, map, p), NEW h, h = BubbleDown(g, 0)
  PROVE  Encaches([w |-> h.w, v |-> h.v, cache |-> d.cache], w, p)
<1> DEFINE N == Len(m_history)
           top == Head(m_history)
           w1 == Placed(w, top, -1)
<1>1. N \in Nat /\ N = Capacity /\ N >= 2 /\ \A m \in 1..N : m_history[m] \in Wrappers
  BY CacheAssumption
<1>2. top = m_history[1] /\ top \in Wrappers /\ 1 \in 1..N
  BY <1>1
<1>3. /\ \A m \in 2..N : w[m_history[m]].idx = m - 1
      /\ \A q \in Wrappers : w[q].idx >= 0 => w[q].idx + 1 \in 1..N /\ m_history[w[q].idx + 1] = q
      /\ \A m \in 1..N : \A l \in 1..N : m_history[m] = m_history[l] => m = l
      /\ \A m \in 1..N : w[m_history[m]].live
  <2>1. CacheHeap(w) \in Heap /\ CacheHeap(w).v = m_history /\ CacheHeap(w).w = w
    BY DEF CacheHeap, Heap
  <2>2. \A m \in 1..N : \A l \in 1..N : m_history[m] = m_history[l] => m = l
    BY <2>1, LinkedDiffer
  <2>3. \A m \in 2..N : m \in 1..N /\ m # 1
    BY <1>1
  <2>4. \A m \in 1..N : w[m_history[m]].live
    BY <1>1 DEF Member
  <2> QED BY <2>2, <2>3, <2>4 DEF Linked, CacheHeap
<1>4. w[p].idx = -1 /\ \A m \in 2..N : m_history[m] # p /\ m_history[m] # top /\ m \in 1..N
  <2>1. w[p].idx = -1
    BY DEF WrapperRec
  <2>2. ASSUME NEW m \in 2..N PROVE m_history[m] # p /\ m_history[m] # top /\ m \in 1..N
    <3>1. m \in 1..N /\ m # 1 /\ m - 1 # -1
      BY <1>1
    <3> QED BY <1>2, <1>3, <2>1, <3>1
  <2> QED BY <2>1, <2>2
<1> HIDE DEF N, top, w1
<1>5. \A m \in 1..N : m = 1 \/ m \in 2..N
  BY <1>1
<1>6. /\ w1 \in [Wrappers -> WrapperRec] /\ SameButPlace(w1[top], w[top]) /\ w1[top].idx = -1
      /\ \A q \in Wrappers : q # top => w1[q] = w[q]
  <2>1. -1 \in Nat \cup {-1}
    OBVIOUS
  <2> QED BY <1>2, <2>1, PlaceSet DEF w1
<1>7. Cached(w1, map) /\ w1[top].live
  <2>1. \A q \in Wrappers : w1[q].live = w[q].live /\ w1[q].key = w[q].key
    BY <1>6 DEF SameButPlace
  <2>2. \A k \in Keys : map[k] # 0 => map[k] \in Wrappers
    BY CacheAssumption DEF Wrappers
  <2>3. w[top].live
    BY <1>2, <1>3
  <2>4. \A q \in Wrappers : ~w1[q].live => w1[q] = Deleted
    BY <1>6, <2>1, <2>3 DEF Cached
  <2> QED BY <1>2, <2>1, <2>2, <2>3, <2>4 DEF Cached
<1>8. /\ d.w \in [Wrappers -> WrapperRec] /\ d.cache \in [Keys -> 0..MaxWrappers]
      /\ Cached(d.w, d.cache)
      /\ \A q \in Wrappers : q # top => d.w[q] = w[q]
      /\ d.w[top].idx = -1 /\ d.w[top].refCount = w[top].refCount
      /\ d.w[top].live => d.w[top].refCount > 0
      /\ w[top].refCount > 0 => d.w[top].live /\ d.w[top].tstamp = w[top].tstamp
  <2>1. d = Decached(w1, map, top)
    BY DEF Evicted, w1, top
  <2>2. /\ d.w \in [Wrappers -> WrapperRec] /\ d.cache \in [Keys -> 0..MaxWrappers]
        /\ Cached(d.w, d.cache)
        /\ \A q \in Wrappers : q # top => d.w[q] = w1[q]
        /\ d.w[top] = IF w1[top].refCount > 0 \/ w1[top].idx >= 0 THEN w1[top] ELSE Deleted
    BY <1>2, <1>6, <1>7, <2>1, DecachedKeeps
  <2>3. /\ w1[top].refCount = w[top].refCount /\ w1[top].refCount \in Nat
        /\ w1[top].tstamp = w[top].tstamp
    BY <1>2, <1>6 DEF SameButPlace, WrapperRec
  <2>4. CASE w1[top].refCount > 0
    BY <1>6, <1>7, <2>2, <2>3, <2>4
  <2>5. CASE ~(w1[top].refCount > 0)
    <3>1. d.w[top] = Deleted
      BY <1>6, <2>2, <2>5
    <3> QED BY <1>6, <2>2, <2>3, <2>5, <3>1, DeletedIs
  <2> QED BY <2>3, <2>4, <2>5
<1>9. /\ g.v \in Seq(Wrappers) /\ Len(g.v) = N /\ g.v[1] = p
      /\ \A m \in 2..N : g.v[m] = m_history[m] /\ g.v[m] # p /\ g.v[m] # top /\ g.v[m] \in Wrappers
      /\ g.w = d.w /\ g \in Heap
  <2>1. g.v = [m_history EXCEPT ![1] = p] /\ g.w = d.w /\ g = [v |-> g.v, w |-> g.w]
    BY DEF WithNewTop
  <2>2. g.v \in Seq(Wrappers) /\ Len(g.v) = N /\ g.v[1] = p /\ \A m \in 2..N : g.v[m] = m_history[m]
    BY <1>1, <2>1 DEF N
  <2>3. g \in Heap
    BY <1>8, <2>1, <2>2 DEF Heap
  <2> QED BY <1>1, <1>4, <2>1, <2>2, <2>3
<1>10. g.w[p].idx = -1 /\ g.w[p].live /\ g.w[p].tstamp = w[p].tstamp
  <2>1. CASE p = top
    BY <1>8, <1>9, <2>1
  <2>2. CASE p # top
    BY <1>4, <1>8, <1>9, <2>2
  <2> QED BY <2>1, <2>2
<1>11. \A m \in 2..N : g.w[g.v[m]] = w[m_history[m]]
  BY <1>8, <1>9
<1>12. Linked(g)
  <2>1. ASSUME NEW m \in 1..N PROVE g.w[g.v[m]].idx = m - 1 \/ (m = 1 /\ g.w[g.v[m]].idx = -1)
    <3>1. CASE m = 1
      BY <1>9, <1>10, <3>1
    <3>2. CASE m \in 2..N
      BY <1>3, <1>11, <3>2
    <3> QED BY <1>5, <3>1, <3>2
  <2>2. ASSUME NEW q \in Wrappers, g.w[q].idx >= 0
        PROVE  g.w[q].idx + 1 \in 1..N /\ g.v[g.w[q].idx + 1] = q
    <3>1. q # top /\ q # p
      BY <1>8, <1>9, <1>10, <2>2
    <3>2. g.w[q] = w[q]
      BY <1>8, <1>9, <3>1
    <3>3. w[q].idx + 1 \in 1..N /\ m_history[w[q].idx + 1] = q
      BY <1>3, <2>2, <3>2
    <3>4. w[q].idx + 1 # 1
      BY <1>2, <3>1, <3>3
    <3>5. PICK m \in 2..N : m = w[q].idx + 1
      BY <1>5, <3>3, <3>4
    <3>6. g.v[m] = q /\ m \in 1..N
      BY <1>9, <3>3, <3>5
    <3> QED BY <3>2, <3>5, <3>6
  <2> QED BY <1>9, <2>1, <2>2 DEF Linked
<1>13. /\ Rearranged(h, g) /\ Linked(h) /\ TopIsOlder(h)
       /\ Newest(p, g) => TopKnows(h)
  <2>1. At(g, 0) = p /\ Len(g.v) >= 2
    BY <1>1, <1>9 DEF At
  <2> QED BY <1>9, <1>12, <2>1, BubbleDownKeeps
<1>14. Member(g.v, p) /\ \A q \in Wrappers : Member(m_history, q) => q = top \/ Member(g.v, q)
  <2>1. 1 \in 1..Len(g.v) /\ \A m \in 2..N : m \in 1..Len(g.v)
    BY <1>1, <1>9
  <2> QED BY <1>2, <1>5, <1>9, <2>1 DEF Member, N
<1>15. \A q \in Wrappers : Member(g.v, q) => q = p \/ \E m \in 2..N : q = g.v[m] /\ g.w[q] = w[q]
  <2>1. ASSUME NEW q \in Wrappers, Member(g.v, q), q # p PROVE \E m \in 2..N : q = g.v[m] /\ g.w[q] = w[q]
    <3>1. PICK m \in 1..N : g.v[m] = q
      BY <1>9, <2>1 DEF Member
    <3>2. m \in 2..N
      BY <1>5, <1>9, <2>1, <3>1
    <3> QED BY <1>9, <1>11, <3>1, <3>2
  <2> QED BY <2>1
<1>16. \A q \in Wrappers : Member(g.v, q) => g.w[q].live
  <2>1. \A m \in 2..N : g.w[g.v[m]].live
    BY <1>3, <1>4, <1>11
  <2> QED BY <1>10, <1>15, <2>1
<1>17. PICK e : e = [w |-> h.w, v |-> h.v, cache |-> d.cache]
  OBVIOUS
<1>18. /\ e.w \in [Wrappers -> WrapperRec] /\ e.v \in Seq(Wrappers) /\ Len(e.v) <= Capacity
       /\ e.cache \in [Keys -> 0..MaxWrappers]
       /\ Linked(HeapOf(e)) /\ Cached(e.w, e.cache) /\ HeapOf(e) = h
       /\ \A q \in Wrappers : /\ Member(e.v, q) => e.w[q].live
                              /\ Member(e.v, q) <=> Member(g.v, q)
                              /\ e.w[q].live = g.w[q].live /\ e.w[q].refCount = g.w[q].refCount
  <2>1. h \in Heap /\ Len(h.v) = Len(g.v)
    BY <1>13 DEF Rearranged
  <2>2. h.w \in [Wrappers -> WrapperRec] /\ h.v \in Seq(Wrappers) /\ h = HeapOf(e)
    BY <1>17, <2>1 DEF Heap, HeapOf
  <2>3. g.w = d.w /\ g \in Heap /\ Len(g.v) <= Capacity
    BY <1>1, <1>9
  <2>4. Cached(h.w, d.cache)
    <3>1. Cached(g.w, d.cache)
      BY <1>8, <2>3
    <3>2. \A m2 \in [Keys -> 0..MaxWrappers] : Cached(g.w, m2) => Cached(h.w, m2)
      BY <1>13, <1>16, RearrangedCached
    <3> QED BY <1>8, <3>1, <3>2
  <2>5. \A q \in Wrappers : /\ Member(h.v, q) <=> Member(g.v, q)
                            /\ h.w[q].live = g.w[q].live /\ h.w[q].refCount = g.w[q].refCount
    BY <1>13 DEF Rearranged, SameButPlace
  <2>6. e.w = h.w /\ e.v = h.v /\ e.cache = d.cache
    BY <1>17
  <2> QED BY <1>8, <1>13, <1>16, <2>1, <2>2, <2>3, <2>4, <2>5, <2>6
<1>19. ASSUME NEW q \in Wrappers
       PROVE  /\ e.w[q].refCount = w[q].refCount
              /\ Member(e.v, q) => e.w[q].live
              /\ e.w[q].live => /\ w[q].live
                                /\ Member(m_history, q) => e.w[q].refCount > 0 \/ Member(e.v, q)
  <2>1. e.w[q].refCount = d.w[q].refCount /\ e.w[q].live = d.w[q].live /\ (Member(e.v, q) => e.w[q].live)
    BY <1>9, <1>18
  <2>2. CASE q = top
    BY <1>2, <1>3, <1>8, <2>1, <2>2
  <2>3. CASE q # top
    BY <1>8, <1>14, <1>18, <2>1, <2>3
  <2> QED BY <2>2, <2>3
<1>20. Len(e.v) = N
  BY <1>9, <1>13, <1>17 DEF Rearranged
<1>21. (\A q \in Wrappers : q # p => w[q].tstamp < w[p].tstamp) => TopKnows(HeapOf(e))
  <2>1. ASSUME \A q \in Wrappers : q # p => w[q].tstamp < w[p].tstamp PROVE Newest(p, g)
    BY <1>10, <1>15, <2>1 DEF Newest
  <2> QED BY <1>13, <1>18, <2>1
<1>22. ASSUME NEW m \in 1..Len(m_history), ~Member(e.v, m_history[m]), Capacity # 2
       PROVE  m = 1 /\ Len(m_history) >= 3
  <2>1. m_history[m] = top /\ m \in 1..N /\ m_history[m] \in Wrappers
    <3>1. m_history[m] \in Wrappers /\ Member(m_history, m_history[m]) /\ m \in 1..N
      BY <1>1 DEF Member, N
    <3> QED BY <1>14, <1>18, <1>22, <3>1
  <2>2. m = 1
    BY <1>4, <1>5, <2>1
  <2> QED BY <1>1, <1>22, <2>2 DEF N
<1>23. Len(e.v) < Capacity => TopKnows(HeapOf(e))
  BY <1>1, <1>20
<1>24. Encaches(e, w, p)
  BY <1>13, <1>18, <1>19, <1>21, <1>22, <1>23 DEF Encaches
<1> QED BY <1>17, <1>24


\* encache, with all its cases.
LEMMA EncachedKeeps ==
  ASSUME NEW w0 \in [Wrappers -> WrapperRec], NEW map \in [Keys -> 0..MaxWrappers],
         Cached(w0, map), m_history \in Seq(Wrappers), Len(m_history) <= Capacity,
         Linked(CacheHeap(w0)), \A q \in Wrappers : Member(m_history, q) => w0[q].live,
         Len(m_history) < Capacity => TopKnows(CacheHeap(w0)),
         NEW p \in Wrappers, w0[p].live, NEW time \in Int,
         NEW e, e = Encached(w0, map, p, time)
  PROVE  \E w : /\ Touched(w, w0, p, time) /\ Encaches(e, w, p)
                /\ TopKnows(CacheHeap(w0)) => TopKnows(CacheHeap(w))
<1> DEFINE N == Len(m_history)
<1>1. PICK w : w = [w0 EXCEPT ![p].refCount = @ + 1, ![p].tstamp = time]
  OBVIOUS
<1>2. Touched(w, w0, p, time)
  BY <1>1, TouchedIs
<1>3. /\ w \in [Wrappers -> WrapperRec] /\ Cached(w, map) /\ Linked(CacheHeap(w)) /\ w[p].live
      /\ TopKnows(CacheHeap(w0)) => TopKnows(CacheHeap(w))
      /\ \A q \in Wrappers : w[q].live = w0[q].live
      /\ w[p].refCount > 0
  <2>1. Linked([v |-> m_history, w |-> w0])
    BY DEF CacheHeap
  <2>2. /\ Cached(w, map) /\ Linked([v |-> m_history, w |-> w])
        /\ TopKnows([v |-> m_history, w |-> w0]) => TopKnows([v |-> m_history, w |-> w])
    BY <1>2, <2>1, TouchedKeeps
  <2>3. w0[p].refCount \in Nat /\ w[p].refCount = w0[p].refCount + 1
    BY <1>2 DEF WrapperRec, Touched
  <2>4. \A q \in Wrappers : w[q].live = w0[q].live
    BY <1>2 DEF Touched
  <2>5. w \in [Wrappers -> WrapperRec] /\ w[p].live /\ w[p].refCount > 0
    BY <1>2, <2>3, <2>4 DEF Touched
  <2> QED BY <2>2, <2>4, <2>5 DEF CacheHeap
<1>4. w[p].idx \in Int /\ N \in Nat
  BY <1>3 DEF WrapperRec
<1>5. /\ \A q \in Wrappers : Member(m_history, q) => w[q].live
      /\ Len(m_history) < Capacity => TopKnows(CacheHeap(w))
  BY <1>3
<1> DEFINE k == 2 * (w[p].idx + 1)
           right == BubbleUp(CacheHeap(w), k)
           again == BubbleUp(right, IF k < Len(m_history) THEN k - 1 ELSE k)
           longer == Longer(w, p)
           up == BubbleUp(longer, Len(m_history))
           d == Evicted(w, map)
           withNew == WithNewTop(w, map, p)
           down == BubbleDown(withNew, 0)
           Plain(h) == [w |-> h.w, v |-> h.v, cache |-> map]
           Evicting == [w |-> down.w, v |-> down.v, cache |-> d.cache]
<1>6. e = CASE Capacity <= 1 -> Plain(CacheHeap(w))
            [] Capacity > 1 /\ w[p].idx >= 0 -> Plain(again)
            [] Capacity > 1 /\ w[p].idx < 0 /\ Len(m_history) < Capacity -> Plain(up)
            [] OTHER -> Evicting
  <2> DEFINE Is(x) ==
        e = LET i == 2 * (x[p].idx + 1)
                h == BubbleUp(BubbleUp(CacheHeap(x), i), IF i < Len(m_history) THEN i - 1 ELSE i)
                r == BubbleUp(Longer(x, p), Len(m_history))
                b == BubbleDown(WithNewTop(x, map, p), 0)
            IN CASE Capacity <= 1 -> Plain(CacheHeap(x))
                 [] Capacity > 1 /\ x[p].idx >= 0 -> Plain(h)
                 [] Capacity > 1 /\ x[p].idx < 0 /\ Len(m_history) < Capacity -> Plain(r)
                 [] OTHER -> [w |-> b.w, v |-> b.v, cache |-> Evicted(x, map).cache]
  <2>1. e = Encached(w0, map, p, time)
    OBVIOUS
  <2>2. Is([w0 EXCEPT ![p].refCount = @ + 1, ![p].tstamp = time])
    BY <2>1, Zenon DEF Encached, Replaced, CacheHeap, Longer, Placed, Evicted, WithNewTop
  <2>3. Is(w)
    <3> HIDE DEF Is
    <3> QED BY <1>1, <2>2
  <2> QED BY <2>3
<1> HIDE DEF k, right, again, longer, up, d, withNew, down, Plain, Evicting
<1>7. /\ Capacity <= 1 => e = Plain(CacheHeap(w))
      /\ Capacity > 1 /\ w[p].idx >= 0 => e = Plain(again)
      /\ Capacity > 1 /\ w[p].idx < 0 /\ Len(m_history) < Capacity => e = Plain(up)
      /\ Capacity > 1 /\ w[p].idx < 0 /\ ~(Len(m_history) < Capacity) => e = Evicting
  <2>1. (Capacity > 1 <=> ~(Capacity <= 1)) /\ (w[p].idx >= 0 <=> ~(w[p].idx < 0))
    BY <1>4, CacheAssumption
  <2> QED BY <1>6, <2>1, Zenon
<1>8. CASE Capacity <= 1
  <2>1. e.w = w /\ e.v = m_history /\ e.cache = map
    BY <1>7, <1>8 DEF Plain, CacheHeap
  <2>2. ~(Len(e.v) >= 3)
    BY <1>4, <1>8, <2>1, CacheAssumption
  <2>3. HeapOf(e) = CacheHeap(w)
    BY <2>1 DEF HeapOf, CacheHeap
  <2>4. \A m \in 1..Len(m_history) : Member(m_history, m_history[m])
    BY DEF Member
  <2>5. Encaches(e, w, p)
    BY <1>3, <1>5, <2>1, <2>2, <2>3, <2>4 DEF Encaches
  <2> QED BY <1>2, <1>3, <2>5
<1>9. CASE Capacity > 1 /\ w[p].idx >= 0
  <2>1. e = [w |-> again.w, v |-> again.v, cache |-> map]
    BY <1>7, <1>9 DEF Plain
  <2>2. k = 2 * (w[p].idx + 1) /\ right = BubbleUp(CacheHeap(w), k)
        /\ again = BubbleUp(right, IF k < Len(m_history) THEN k - 1 ELSE k)
    BY DEF k, right, again
  <2>3. Encaches([w |-> again.w, v |-> again.v, cache |-> map], w, p)
    BY <1>3, <1>5, <1>9, <2>2, EncacheSeen
  <2> QED BY <1>2, <1>3, <2>1, <2>3
<1>10. CASE Capacity > 1 /\ w[p].idx < 0 /\ Len(m_history) < Capacity
  <2>1. e = [w |-> up.w, v |-> up.v, cache |-> map]
    BY <1>7, <1>10 DEF Plain
  <2>2. longer = Longer(w, p) /\ up = BubbleUp(longer, Len(m_history))
    BY DEF longer, up
  <2>3. Encaches([w |-> up.w, v |-> up.v, cache |-> map], w, p)
    BY <1>3, <1>5, <1>10, <2>2, EncacheAdds
  <2> QED BY <1>2, <1>3, <2>1, <2>3
<1>11. CASE Capacity > 1 /\ w[p].idx < 0 /\ ~(Len(m_history) < Capacity)
  <2>1. e = [w |-> down.w, v |-> down.v, cache |-> d.cache]
    BY <1>7, <1>11 DEF Evicting
  <2>2. d = Evicted(w, map) /\ withNew = WithNewTop(w, map, p) /\ down = BubbleDown(withNew, 0)
    BY DEF d, withNew, down
  <2>3. Len(m_history) >= Capacity
    BY <1>4, <1>11, CacheAssumption
  <2>4. Encaches([w |-> down.w, v |-> down.v, cache |-> d.cache], w, p)
    BY <1>3, <1>5, <1>11, <2>2, <2>3, EncacheReplaces
  <2> QED BY <1>2, <1>3, <2>1, <2>4
<1> QED BY <1>4, <1>8, <1>9, <1>10, <1>11, CacheAssumption

-----------------------------------------------------------------------------
(* Times                                                                   *)

LEMMA MinIs ==
  ASSUME NEW T \in SUBSET Nat, T # {}
  PROVE  Min(T) \in T
  BY LeastNatural DEF Min

LEMMA MaxIs ==
  ASSUME NEW T \in SUBSET Nat, T # {}, NEW bound \in Nat, \A t \in T : t <= bound
  PROVE  Max(T) \in T /\ \A t \in T : t <= Max(T)
<1> DEFINE U == {n \in Nat : \A t \in T : t <= n}
<1>1. PICK m \in U : \A k \in U : m <= k
  <2>1. U \in SUBSET Nat /\ bound \in U
    OBVIOUS
  <2> QED BY <2>1, LeastNatural
<1>2. m \in T
  <2> SUFFICES ASSUME m \notin T PROVE FALSE
    OBVIOUS
  <2>1. \A t \in T : t < m
    BY <1>1
  <2>2. m \in Nat /\ m # 0 /\ \A t \in T : t \in Nat
    <3>1. PICK t \in T : TRUE
      OBVIOUS
    <3>2. m \in Nat /\ t \in Nat /\ t < m
      BY <2>1
    <3> QED BY <3>2
  <2>3. m - 1 \in Nat /\ \A t \in T : t <= m - 1
    BY <2>1, <2>2
  <2>4. m - 1 \in U
    BY <2>3
  <2> QED BY <1>1, <2>2, <2>4
<1>3. \A t \in T : m >= t
  BY <1>1
<1> QED BY <1>2, <1>3 DEF Max

\* No wrapper has been used after the latest use.
LEMMA LatestIs ==
  ASSUME wrapper \in [Wrappers -> WrapperRec], Wrappers # {},
         \A q \in Wrappers : wrapper[q].tstamp \in StampRange
  PROVE  Latest \in Nat /\ \A q \in Wrappers : wrapper[q].tstamp <= Latest
<1> DEFINE T == {wrapper[q].tstamp : q \in Wrappers}
<1>1. T # {} /\ T \in SUBSET Nat /\ (\A t \in T : t <= 2 * MaxWrappers) /\ 2 * MaxWrappers \in Nat
  BY CacheAssumption DEF StampRange
<1>2. \A q \in Wrappers : wrapper[q].tstamp \in T
  OBVIOUS
<1>3. Latest = Max(T)
  BY DEF Latest
<1> HIDE DEF T
<1>4. Max(T) \in T /\ \A t \in T : t <= Max(T)
  BY <1>1, MaxIs
<1> QED BY <1>1, <1>2, <1>3, <1>4

\* r is w with other times, whose order is the same in the history v.
Renews(r, w, v) ==
  /\ r \in [Wrappers -> WrapperRec]
  /\ \A q \in Wrappers :
       /\ r[q].live = w[q].live /\ r[q].key = w[q].key
       /\ r[q].refCount = w[q].refCount /\ r[q].idx = w[q].idx
       /\ r[q].tstamp \in StampRange
       /\ ~Member(v, q) /\ w[q].tstamp = 0 => r[q] = w[q]
  /\ \A p \in Wrappers : \A q \in Wrappers :
       Member(v, p) /\ Member(v, q) /\ w[p].tstamp <= w[q].tstamp => r[p].tstamp <= r[q].tstamp

\* Counting the times anew changes nothing else, bounds them, and keeps the order of those in
\* the history.
LEMMA RenumberedIs ==
  ASSUME NEW w \in [Wrappers -> WrapperRec], NEW v \in Seq(Wrappers)
  PROVE  Renews(Renumbered(w, v), w, v)
<1>0. PICK r : r = Renumbered(w, v)
  OBVIOUS
<1> DEFINE members == Range(v)
           times == {w[p].tstamp : p \in members}
           Below(t) == {s \in times : s < t}
           f == [q \in members |-> w[q].tstamp]
<1>1. members \in SUBSET Wrappers /\ \A q : q \in members <=> Member(v, q)
  BY DEF Range, Member
<1> HIDE DEF members
<1>2. IsFiniteSet(members) /\ Cardinality(members) <= MaxWrappers
  <2>1. IsFiniteSet(Wrappers) /\ Cardinality(Wrappers) = MaxWrappers
    BY CacheAssumption, FS_Interval DEF Wrappers
  <2> QED BY <1>1, <2>1, FS_Subset
<1>3. IsFiniteSet(times) /\ Cardinality(times) <= Cardinality(members)
  <2>1. f \in [members -> times] /\ \A t \in times : \E q \in members : f[q] = t
    OBVIOUS
  <2> HIDE DEF f, times
  <2>2. f \in Surjection(members, times)
    BY <2>1 DEF Surjection
  <2> QED BY <1>2, <2>2, FS_Surjection
<1>4. \A q \in members : w[q].tstamp \in times /\ w[q].tstamp \in Int
  BY <1>1 DEF WrapperRec
<1>5. times \in SUBSET Int
  BY <1>4
<1>6. r = [q \in Wrappers |->
             [w[q] EXCEPT !.tstamp = IF q \in members THEN 2 * Cardinality(Below(w[q].tstamp)) ELSE 0]]
  BY <1>0 DEF Renumbered, members
<1> HIDE DEF times
<1>7. \A t : /\ IsFiniteSet(Below(t)) /\ Cardinality(Below(t)) \in Nat
             /\ Cardinality(Below(t)) <= MaxWrappers
  <2> TAKE t
  <2>1. Below(t) \in SUBSET times
    OBVIOUS
  <2>2. IsFiniteSet(Below(t)) /\ Cardinality(Below(t)) <= Cardinality(times)
    BY <1>3, <2>1, FS_Subset
  <2>3. /\ Cardinality(Below(t)) \in Nat /\ Cardinality(times) \in Nat
        /\ Cardinality(members) \in Nat
    BY <1>2, <1>3, <2>2, FS_CardinalityType
  <2> QED BY <1>2, <1>3, <2>2, <2>3, CacheAssumption
<1>8. ASSUME NEW s \in times, NEW t \in times, s <= t
      PROVE  Cardinality(Below(s)) <= Cardinality(Below(t))
  <2>1. Below(s) \in SUBSET Below(t)
    <3>1. s \in Int /\ t \in Int /\ \A x \in times : x \in Int
      BY <1>5
    <3>2. \A x \in times : x < s => x < t
      BY <1>8, <3>1
    <3> QED BY <3>2
  <2> HIDE DEF Below
  <2> QED BY <1>7, <2>1, FS_Subset
<1> HIDE DEF Below
<1>9. ASSUME NEW x \in WrapperRec, NEW n \in Int
      PROVE  LET y == [x EXCEPT !.tstamp = n]
             IN  /\ y \in WrapperRec /\ y.live = x.live /\ y.key = x.key /\ y.idx = x.idx
                 /\ y.refCount = x.refCount /\ y.tstamp = n /\ (x.tstamp = n => y = x)
  <2>1. /\ x = [live |-> x.live, key |-> x.key, revision |-> x.revision,
                refCount |-> x.refCount, tstamp |-> x.tstamp, idx |-> x.idx]
        /\ [x EXCEPT !.tstamp = n] = [live |-> x.live, key |-> x.key, revision |-> x.revision,
                                      refCount |-> x.refCount, tstamp |-> n, idx |-> x.idx]
    BY DEF WrapperRec
  <2>2. x.tstamp = n => [x EXCEPT !.tstamp = n] = x
    BY <2>1, Zenon
  <2>3. LET y == [x EXCEPT !.tstamp = n]
        IN  /\ y \in WrapperRec /\ y.live = x.live /\ y.key = x.key /\ y.idx = x.idx
            /\ y.refCount = x.refCount /\ y.tstamp = n
    BY DEF WrapperRec
  <2> QED BY <2>2, <2>3
<1>10. ASSUME NEW q \in Wrappers
       PROVE  /\ r[q] \in WrapperRec
              /\ r[q].live = w[q].live /\ r[q].key = w[q].key
              /\ r[q].refCount = w[q].refCount /\ r[q].idx = w[q].idx
              /\ r[q].tstamp \in StampRange
              /\ ~Member(v, q) /\ w[q].tstamp = 0 => r[q] = w[q]
              /\ Member(v, q) => r[q].tstamp = 2 * Cardinality(Below(w[q].tstamp))
  <2>1. PICK n : n = IF q \in members THEN 2 * Cardinality(Below(w[q].tstamp)) ELSE 0
    OBVIOUS
  <2>2. PICK x : x = w[q]
    OBVIOUS
  <2>3. x \in WrapperRec /\ r[q] = [x EXCEPT !.tstamp = n]
    BY <1>6, <2>1, <2>2
  <2>4. n \in Nat /\ n \in StampRange
    BY <1>7, <2>1, CacheAssumption DEF StampRange
  <2>5. /\ r[q] \in WrapperRec /\ r[q].live = x.live /\ r[q].key = x.key /\ r[q].idx = x.idx
        /\ r[q].refCount = x.refCount /\ r[q].tstamp = n /\ (x.tstamp = n => r[q] = x)
    BY <1>9, <2>3, <2>4
  <2> QED BY <1>1, <2>1, <2>2, <2>4, <2>5
<1>11. r \in [Wrappers -> WrapperRec]
  <2>1. r = [q \in Wrappers |-> r[q]]
    BY <1>6
  <2> QED BY <1>10, <2>1
<1>12. ASSUME NEW p \in Wrappers, NEW q \in Wrappers,
              Member(v, p), Member(v, q), w[p].tstamp <= w[q].tstamp
       PROVE  r[p].tstamp <= r[q].tstamp
  <2>1. w[p].tstamp \in times /\ w[q].tstamp \in times
    BY <1>1, <1>4, <1>12
  <2>2. Cardinality(Below(w[p].tstamp)) <= Cardinality(Below(w[q].tstamp))
    BY <1>8, <1>12, <2>1
  <2>3. /\ r[p].tstamp = 2 * Cardinality(Below(w[p].tstamp))
        /\ r[q].tstamp = 2 * Cardinality(Below(w[q].tstamp))
    BY <1>10, <1>12
  <2>4. Cardinality(Below(w[p].tstamp)) \in Nat /\ Cardinality(Below(w[q].tstamp)) \in Nat
    BY <1>7
  <2> QED BY <2>2, <2>3, <2>4
<1>13. Renews(r, w, v)
  BY <1>10, <1>11, <1>12 DEF Renews
<1> QED BY <1>0, <1>13

LEMMA RenewedKeeps ==
  ASSUME NEW w \in [Wrappers -> WrapperRec], NEW v \in Seq(Wrappers), Linked([v |-> v, w |-> w]),
         NEW map \in [Keys -> 0..MaxWrappers], Cached(w, map),
         \A q \in Wrappers : Member(v, q) => w[q].live, NEW r, Renews(r, w, v)
  PROVE  /\ Linked([v |-> v, w |-> r]) /\ Cached(r, map)
         /\ TopKnows([v |-> v, w |-> w]) => TopKnows([v |-> v, w |-> r])
         /\ TopIsOlder([v |-> v, w |-> w]) => TopIsOlder([v |-> v, w |-> r])
<1>1. /\ r \in [Wrappers -> WrapperRec]
      /\ \A q \in Wrappers :
              /\ r[q].live = w[q].live /\ r[q].key = w[q].key
              /\ r[q].refCount = w[q].refCount /\ r[q].idx = w[q].idx
              /\ ~Member(v, q) /\ w[q].tstamp = 0 => r[q] = w[q]
  BY Zenon DEF Renews
<1>2. \A p \in Wrappers : \A q \in Wrappers :
        Member(v, p) /\ Member(v, q) /\ w[p].tstamp <= w[q].tstamp => r[p].tstamp <= r[q].tstamp
  BY Zenon DEF Renews
<1>3. Len(v) \in Nat /\ \A k \in 1..Len(v) : v[k] \in Wrappers /\ Member(v, v[k])
  BY DEF Member
<1>4. Linked([v |-> v, w |-> r])
  BY <1>1, <1>3 DEF Linked
<1>5. Cached(r, map)
  <2>1. \A k \in Keys : map[k] # 0 => map[k] \in Wrappers
    BY CacheAssumption DEF Wrappers
  <2>2. ASSUME NEW q \in Wrappers, ~r[q].live PROVE r[q] = Deleted
    <3>1. ~w[q].live
      BY <1>1, <2>2
    <3>2. w[q] = Deleted /\ ~Member(v, q)
      BY <3>1 DEF Cached
    <3> QED BY <1>1, <3>2, DeletedIs
  <2>3. \A k \in Keys : map[k] # 0 => r[map[k]].live /\ r[map[k]].key = k
    BY <1>1, <2>1 DEF Cached
  <2> QED BY <2>2, <2>3 DEF Cached
<1>6. TopKnows([v |-> v, w |-> w]) => TopKnows([v |-> v, w |-> r])
  <2>1. Len(v) >= 1 => v[1] \in Wrappers
    BY <1>3
  <2> QED BY <1>1, <2>1 DEF TopKnows
<1>7. ASSUME TopIsOlder([v |-> v, w |-> w]) PROVE TopIsOlder([v |-> v, w |-> r])
  <2>1. PICK o \in 2..Len(v) : w[v[1]].tstamp <= w[v[o]].tstamp
    BY <1>7 DEF TopIsOlder
  <2>2. 1 \in 1..Len(v) /\ o \in 1..Len(v)
    BY <1>3
  <2>3. r[v[1]].tstamp <= r[v[o]].tstamp
    BY <1>2, <1>3, <2>1, <2>2
  <2> QED BY <2>3 DEF TopIsOlder
<1> QED BY <1>1, <1>4, <1>5, <1>6, <1>7

-----------------------------------------------------------------------------
(* Holders                                                                 *)

\* Who holds q, if hh is what the sentences hold.
HeldBy(q, hh) == UNION {{<<c, i>> : i \in {j \in DOMAIN hh[c] : hh[c][j] = q}} : c \in Sentences}

LEMMA HeldByIs ==
  ASSUME NEW q, NEW hh
  PROVE  /\ \A x \in HeldBy(q, hh) :
              \E c \in Sentences : \E i \in DOMAIN hh[c] : x = <<c, i>> /\ hh[c][i] = q
         /\ \A c \in Sentences : \A i \in DOMAIN hh[c] : hh[c][i] = q => <<c, i>> \in HeldBy(q, hh)
  BY DEF HeldBy

\* The number of holders of every wrapper.
CountedIn(w, hh) ==
  \A q \in Wrappers : IsFiniteSet(HeldBy(q, hh)) /\ w[q].refCount = Cardinality(HeldBy(q, hh))

LEMMA CountedIs == \A w : Counted(w) <=> CountedIn(w, held)
  BY DEF Counted, CountedIn, Holds, HeldBy

\* The sentence c holds p once more, or no more what it has held in the place i.
HoldsMore(more, hh, c, p) ==
  /\ more \in [Sentences -> Seq(Wrappers)] /\ more[c] = Append(hh[c], p)
  /\ \A d \in Sentences : d # c => more[d] = hh[d]
HoldsLess(less, hh, c, i) ==
  /\ less \in [Sentences -> Seq(Wrappers)] /\ less[c] = RemoveAt(hh[c], i)
  /\ \A d \in Sentences : d # c => less[d] = hh[d]

\* Only the reference count of p has changed, by n.
Recounted(r, w, p, n) ==
  \A q \in Wrappers : r[q].refCount = IF q = p THEN w[q].refCount + n ELSE w[q].refCount

\* One more holder is counted once.
LEMMA HolderComes ==
  ASSUME NEW hh \in [Sentences -> Seq(Wrappers)], NEW c \in Sentences, NEW p \in Wrappers,
         NEW w, CountedIn(w, hh), NEW more, HoldsMore(more, hh, c, p), NEW r, Recounted(r, w, p, 1)
  PROVE  CountedIn(r, more)
<1> DEFINE n == Len(hh[c])
<1>1. hh[c] \in Seq(Wrappers) /\ n \in Nat /\ DOMAIN hh[c] = 1..n
  OBVIOUS
<1>2. /\ more[c] = Append(hh[c], p)
      /\ \A d \in Sentences : d # c => more[d] = hh[d] /\ DOMAIN more[d] = DOMAIN hh[d]
  BY DEF HoldsMore
<1>3. /\ DOMAIN more[c] = 1..(n + 1) /\ more[c][n + 1] = p
      /\ \A i \in 1..n : more[c][i] = hh[c][i]
  BY <1>1, <1>2
<1> HIDE DEF n
<1>4. ASSUME NEW q, NEW x
      PROVE  x \in HeldBy(q, more) <=> x \in HeldBy(q, hh) \/ (q = p /\ x = <<c, n + 1>>)
  <2>1. ASSUME x \in HeldBy(q, more)
         PROVE  x \in HeldBy(q, hh) \/ (q = p /\ x = <<c, n + 1>>)
    <3>0. PICK d \in Sentences : \E i \in DOMAIN more[d] : x = <<d, i>> /\ more[d][i] = q
      BY <2>1, HeldByIs
    <3>1. PICK i \in DOMAIN more[d] : x = <<d, i>> /\ more[d][i] = q
      BY <3>0
    <3>2. CASE d = c /\ i = n + 1
      BY <1>3, <3>1, <3>2
    <3>3. CASE d # c
      BY <1>2, <3>1, <3>3, HeldByIs
    <3>4. CASE d = c /\ i # n + 1
      <4>1. i \in 1..n
        BY <1>1, <1>3, <3>1, <3>4
      <4> QED BY <1>1, <1>3, <3>1, <3>4, <4>1, HeldByIs
    <3> QED BY <3>2, <3>3, <3>4
  <2>2. ASSUME x \in HeldBy(q, hh) PROVE x \in HeldBy(q, more)
    <3>0. PICK d \in Sentences : \E i \in DOMAIN hh[d] : x = <<d, i>> /\ hh[d][i] = q
      BY <2>2, HeldByIs
    <3>1. PICK i \in DOMAIN hh[d] : x = <<d, i>> /\ hh[d][i] = q
      BY <3>0
    <3>2. CASE d = c
      <4>1. i \in DOMAIN more[c] /\ more[c][i] = hh[c][i]
        BY <1>1, <1>3, <3>1, <3>2
      <4> QED BY <3>1, <3>2, <4>1, HeldByIs
    <3>3. CASE d # c
      BY <1>2, <3>1, <3>3, HeldByIs
    <3> QED BY <3>2, <3>3
  <2>3. ASSUME q = p, x = <<c, n + 1>> PROVE x \in HeldBy(q, more)
    <3>1. n + 1 \in DOMAIN more[c]
      BY <1>1, <1>3
    <3> QED BY <1>3, <2>3, <3>1, HeldByIs
  <2> QED BY <2>1, <2>2, <2>3
<1>5. <<c, n + 1>> \notin HeldBy(p, hh)
  <2> SUFFICES ASSUME <<c, n + 1>> \in HeldBy(p, hh) PROVE FALSE
    OBVIOUS
  <2>0. PICK d \in Sentences : \E i \in DOMAIN hh[d] : <<c, n + 1>> = <<d, i>>
    BY HeldByIs
  <2>1. PICK i \in DOMAIN hh[d] : <<c, n + 1>> = <<d, i>>
    BY <2>0
  <2>2. n + 1 \in 1..n
    BY <1>1, <2>1
  <2> QED BY <1>1, <2>2
<1>6. ASSUME NEW q \in Wrappers
      PROVE  IsFiniteSet(HeldBy(q, more)) /\ r[q].refCount = Cardinality(HeldBy(q, more))
  <2>1. IsFiniteSet(HeldBy(q, hh)) /\ w[q].refCount = Cardinality(HeldBy(q, hh))
    BY DEF CountedIn
  <2>2. \A x : x \in HeldBy(q, more) <=> x \in HeldBy(q, hh) \/ (q = p /\ x = <<c, n + 1>>)
    BY <1>4
  <2>3. PICK A : A = HeldBy(q, hh)
    OBVIOUS
  <2>4. PICK B : B = HeldBy(q, more)
    OBVIOUS
  <2>5. PICK t : t = <<c, n + 1>>
    OBVIOUS
  <2>6. IsFiniteSet(A) /\ (\A x : x # t => (x \in A <=> x \in B)) /\ (q = p => t \notin A /\ t \in B)
    BY <1>5, <2>1, <2>2, <2>3, <2>4, <2>5
  <2>7. IsFiniteSet(B)
    <3>1. B \in SUBSET (A \cup {t})
      BY <2>6
    <3>2. IsFiniteSet(A \cup {t})
      BY <2>6, FS_AddElement
    <3> QED BY <3>1, <3>2, FS_Subset
  <2>8. q = p => Cardinality(B) = Cardinality(A) + 1
    BY <2>6, SetStep
  <2>9. q # p => B = A
    <3>1. q # p => \A x : x \in B <=> x \in A
      BY <2>2, <2>3, <2>4
    <3> QED BY <3>1
  <2>10. r[q].refCount = IF q = p THEN w[q].refCount + 1 ELSE w[q].refCount
    BY DEF Recounted
  <2> QED BY <2>1, <2>3, <2>4, <2>7, <2>8, <2>9, <2>10
<1> QED BY <1>6 DEF CountedIn

LEMMA RemoveAtIs ==
  ASSUME NEW s \in Seq(Wrappers), NEW i \in 1..Len(s)
  PROVE  /\ RemoveAt(s, i) \in Seq(Wrappers) /\ Len(RemoveAt(s, i)) = Len(s) - 1
         /\ \A j \in 1..(Len(s) - 1) : RemoveAt(s, i)[j] = IF j < i THEN s[j] ELSE s[j + 1]
<1> DEFINE a == SubSeq(s, 1, i - 1)
           b == SubSeq(s, i + 1, Len(s))
<1>1. Len(s) \in Nat /\ i \in Nat /\ i >= 1 /\ i <= Len(s)
  OBVIOUS
<1>2. a \in Seq(Wrappers) /\ Len(a) = i - 1 /\ \A j \in 1..(i - 1) : a[j] = s[j]
  BY <1>1
<1>3. /\ b \in Seq(Wrappers) /\ Len(b) = Len(s) - i
      /\ \A j \in 1..(Len(s) - i) : b[j] = s[i + j]
  BY <1>1
<1>4. RemoveAt(s, i) = a \o b
  BY DEF RemoveAt
<1> HIDE DEF a, b
<1>5. a \o b \in Seq(Wrappers) /\ Len(a \o b) = Len(s) - 1
  <2>1. a \o b \in Seq(Wrappers) /\ Len(a \o b) = Len(a) + Len(b)
    BY <1>2, <1>3, ConcatProperties
  <2> QED BY <1>1, <1>2, <1>3, <2>1
<1>6. ASSUME NEW j \in 1..(Len(s) - 1) PROVE (a \o b)[j] = IF j < i THEN s[j] ELSE s[j + 1]
  <2>1. \A m \in 1..(Len(a) + Len(b)) : (a \o b)[m] = IF m <= Len(a) THEN a[m] ELSE b[m - Len(a)]
    BY <1>2, <1>3, ConcatProperties
  <2>2. j \in 1..(Len(a) + Len(b))
    BY <1>1, <1>2, <1>3
  <2>3. CASE j < i
    <3>1. j <= Len(a) /\ j \in 1..(i - 1)
      BY <1>1, <1>2, <2>3
    <3> QED BY <1>2, <2>1, <2>2, <2>3, <3>1
  <2>4. CASE ~(j < i)
    <3>1. ~(j <= Len(a)) /\ j - Len(a) \in 1..(Len(s) - i) /\ i + (j - Len(a)) = j + 1
      BY <1>1, <1>2, <2>4
    <3> QED BY <1>3, <2>1, <2>2, <2>4, <3>1
  <2> QED BY <2>3, <2>4
<1> QED BY <1>4, <1>5, <1>6

\* One holder less is counted once.
LEMMA HolderLeaves ==
  ASSUME NEW hh \in [Sentences -> Seq(Wrappers)], NEW c \in Sentences, NEW i \in DOMAIN hh[c],
         NEW less, HoldsLess(less, hh, c, i),
         NEW w \in [Wrappers -> WrapperRec], CountedIn(w, hh), NEW r, Recounted(r, w, hh[c][i], -1)
  PROVE  CountedIn(r, less)
<1> DEFINE n == Len(hh[c])
<1>1. hh[c] \in Seq(Wrappers) /\ n \in Nat /\ DOMAIN hh[c] = 1..n /\ i \in 1..n /\ i \in Nat
  OBVIOUS
<1>2. \A d \in Sentences : d # c => less[d] = hh[d] /\ DOMAIN less[d] = DOMAIN hh[d]
  BY DEF HoldsLess
<1>3. /\ DOMAIN less[c] = 1..(n - 1)
      /\ \A j \in 1..(n - 1) : less[c][j] = IF j < i THEN hh[c][j] ELSE hh[c][j + 1]
  <2>1. PICK s : s = hh[c]
    OBVIOUS
  <2>2. s \in Seq(Wrappers) /\ i \in 1..Len(s) /\ less[c] = RemoveAt(s, i) /\ Len(s) = n
    BY <1>1, <2>1 DEF HoldsLess
  <2>3. /\ less[c] \in Seq(Wrappers) /\ Len(less[c]) = Len(s) - 1
        /\ \A j \in 1..(Len(s) - 1) : less[c][j] = IF j < i THEN s[j] ELSE s[j + 1]
    BY <2>2, RemoveAtIs
  <2>4. DOMAIN less[c] = 1..Len(less[c])
    BY <2>3
  <2> QED BY <2>1, <2>2, <2>3, <2>4
<1> HIDE DEF n
<1> SUFFICES ASSUME NEW q \in Wrappers
             PROVE  /\ IsFiniteSet(HeldBy(q, less))
                    /\ r[q].refCount = Cardinality(HeldBy(q, less))
  BY DEF CountedIn
<1>4. \A d \in Sentences : \A j \in DOMAIN hh[d] : j \in Nat
  OBVIOUS
<1> DEFINE A == HeldBy(q, hh) \ {<<c, i>>}
           B == HeldBy(q, less)
           Behind(d, j) == IF d = c /\ j > i THEN <<d, j - 1>> ELSE <<d, j>>
           F == [x \in A |-> Behind(x[1], x[2])]
<1>5. ASSUME NEW x \in A
      PROVE  \E d \in Sentences : \E j \in DOMAIN hh[d] :
                /\ x = <<d, j>> /\ hh[d][j] = q /\ ~(d = c /\ j = i) /\ F[x] = Behind(d, j)
  <2>1. PICK d \in Sentences : \E j \in DOMAIN hh[d] : x = <<d, j>> /\ hh[d][j] = q
    BY HeldByIs
  <2>2. PICK j \in DOMAIN hh[d] : x = <<d, j>> /\ hh[d][j] = q
    BY <2>1
  <2>3. x # <<c, i>> /\ x[1] = d /\ x[2] = j
    BY <2>2
  <2>4. F[x] = Behind(x[1], x[2])
    OBVIOUS
  <2> HIDE DEF F, Behind
  <2> QED BY <2>2, <2>3, <2>4
<1>6. ASSUME NEW d \in Sentences, NEW j \in DOMAIN hh[d], hh[d][j] = q, ~(d = c /\ j = i)
      PROVE  Behind(d, j) \in B
  <2>1. CASE d # c
    <3>1. Behind(d, j) = <<d, j>>
      BY <2>1
    <3> QED BY <1>2, <1>6, <2>1, <3>1, HeldByIs
  <2>2. CASE d = c /\ j < i
    <3>1. Behind(d, j) = <<d, j>> /\ j \in 1..(n - 1)
      BY <1>1, <2>2
    <3> QED BY <1>3, <1>6, <2>2, <3>1, HeldByIs
  <2>3. CASE d = c /\ j > i
    <3>1. Behind(d, j) = <<c, j - 1>> /\ j - 1 \in 1..(n - 1) /\ ~(j - 1 < i) /\ (j - 1) + 1 = j
      BY <1>1, <2>3
    <3>2. less[c][j - 1] = q /\ j - 1 \in DOMAIN less[c]
      BY <1>3, <1>6, <2>3, <3>1
    <3> QED BY <3>1, <3>2, HeldByIs
  <2> QED BY <1>1, <1>4, <1>6, <2>1, <2>2, <2>3
<1>7. F \in [A -> B]
  <2>1. ASSUME NEW x \in A PROVE F[x] \in B
    <3> HIDE DEF F, A, B, Behind
    <3> QED BY <1>5, <1>6
  <2> QED BY <2>1
<1>8. ASSUME NEW x \in A, NEW y \in A, F[x] = F[y] PROVE x = y
  <2>1. PICK d \in Sentences : \E j \in DOMAIN hh[d] :
          /\ x = <<d, j>> /\ hh[d][j] = q /\ ~(d = c /\ j = i) /\ F[x] = Behind(d, j)
    BY <1>5
  <2>2. PICK j \in DOMAIN hh[d] : x = <<d, j>> /\ ~(d = c /\ j = i) /\ F[x] = Behind(d, j)
    BY <2>1
  <2>3. PICK e \in Sentences : \E k \in DOMAIN hh[e] :
          /\ y = <<e, k>> /\ hh[e][k] = q /\ ~(e = c /\ k = i) /\ F[y] = Behind(e, k)
    BY <1>5
  <2>4. PICK k \in DOMAIN hh[e] : y = <<e, k>> /\ ~(e = c /\ k = i) /\ F[y] = Behind(e, k)
    BY <2>3
  <2>5. Behind(d, j) = Behind(e, k) /\ j \in Nat /\ k \in Nat
    BY <1>4, <1>8, <2>2, <2>4
  <2>6. d = e /\ j = k
    BY <1>1, <2>2, <2>4, <2>5
  <2> QED BY <2>2, <2>4, <2>6
<1>9. ASSUME NEW y \in B PROVE \E x \in A : F[x] = y
  <2>1. PICK d \in Sentences : \E j \in DOMAIN less[d] : y = <<d, j>> /\ less[d][j] = q
    BY HeldByIs
  <2>2. PICK j \in DOMAIN less[d] : y = <<d, j>> /\ less[d][j] = q
    BY <2>1
  <2>3. CASE ~(d = c /\ j >= i)
    <3>1. j \in DOMAIN hh[d] /\ hh[d][j] = q /\ j \in Nat
      BY <1>1, <1>2, <1>3, <1>4, <2>2, <2>3
    <3>2. <<d, j>> \in A
      BY <1>1, <2>3, <3>1, HeldByIs
    <3>3. F[<<d, j>>] = Behind(d, j)
      BY <3>2
    <3>4. Behind(d, j) = <<d, j>>
      BY <1>1, <2>3, <3>1
    <3> QED BY <2>2, <3>2, <3>3, <3>4
  <2>4. CASE d = c /\ j >= i
    <3>0. j \in 1..(n - 1)
      BY <1>3, <2>2, <2>4
    <3>1. j \in 1..(n - 1) /\ ~(j < i) /\ j + 1 \in 1..n /\ j + 1 > i /\ (j + 1) - 1 = j
      BY <1>1, <2>4, <3>0
    <3>2. hh[c][j + 1] = q /\ j + 1 \in DOMAIN hh[c]
      BY <1>1, <1>3, <2>2, <2>4, <3>1
    <3>3. <<c, j + 1>> \in A
      <4>1. <<c, j + 1>> \in HeldBy(q, hh)
        BY <3>2, HeldByIs
      <4> QED BY <1>1, <3>1, <4>1
    <3>4. F[<<c, j + 1>>] = Behind(c, j + 1) /\ Behind(c, j + 1) = <<c, j>>
      BY <3>1, <3>3
    <3> QED BY <2>2, <2>4, <3>3, <3>4
  <2> QED BY <2>3, <2>4
<1>10. IsFiniteSet(HeldBy(q, hh)) /\ w[q].refCount = Cardinality(HeldBy(q, hh))
  BY DEF CountedIn
<1>11. /\ IsFiniteSet(A)
       /\ Cardinality(A) = IF <<c, i>> \in HeldBy(q, hh) THEN Cardinality(HeldBy(q, hh)) - 1
                           ELSE Cardinality(HeldBy(q, hh))
  BY <1>10, FS_RemoveElement
<1>12. <<c, i>> \in HeldBy(q, hh) <=> hh[c][i] = q
  <2>1. ASSUME <<c, i>> \in HeldBy(q, hh) PROVE hh[c][i] = q
    <3>1. \E d \in Sentences : \E j \in DOMAIN hh[d] : <<c, i>> = <<d, j>> /\ hh[d][j] = q
      BY <2>1, HeldByIs
    <3> QED BY <3>1
  <2> QED BY <2>1, HeldByIs
<1> HIDE DEF A, B, F
<1>13. ExistsBijection(A, B)
  <2>1. DOMAIN F = A
    BY <1>7
  <2>2. IsInjective(F)
    BY <1>8, <2>1 DEF IsInjective
  <2>3. F \in Bijection(A, B)
    BY <1>7, <1>9, <2>2 DEF Bijection, Injection, Surjection
  <2> QED BY <2>3 DEF ExistsBijection
<1>14. IsFiniteSet(B) /\ Cardinality(B) = Cardinality(A)
  BY <1>11, <1>13, FS_Bijection
<1>15. r[q].refCount = IF q = hh[c][i] THEN w[q].refCount - 1 ELSE w[q].refCount
  <2>1. w[q].refCount \in Int
    BY DEF WrapperRec
  <2> QED BY <2>1 DEF Recounted
<1> QED BY <1>10, <1>11, <1>12, <1>14, <1>15 DEF B


-----------------------------------------------------------------------------
(* The steps                                                               *)

\* What leaves the history is the top of three or more.
OnlyTopLeaves ==
  Capacity # 2 => \A k \in 1..Len(m_history) :
                     ~Member(m_history', m_history[k]) => k = 1 /\ Len(m_history) >= 3

LEMMA NoLookupIs == NoLookup \in LookupRec /\ NoLookup.pc = "idle"
  BY CacheAssumption DEF NoLookup, LookupRec

LEMMA WrappersAreNat == Wrappers \in SUBSET Nat /\ 0 \notin Wrappers /\ Wrappers \subseteq 0..MaxWrappers
  BY CacheAssumption DEF Wrappers

\* A use of a wrapper that is in the cache, or about to be.
LEMMA UseKeeps ==
  ASSUME CacheInv, NEW c \in Sentences,
         NEW w0 \in [Wrappers -> WrapperRec], NEW map \in [Keys -> 0..MaxWrappers],
         Cached(w0, map), Linked(CacheHeap(w0)), CountedIn(w0, held),
         \A q \in Wrappers : Member(m_history, q) => w0[q].live,
         Len(m_history) < Capacity \/ clock = "advances" => TopKnows(CacheHeap(w0)),
         NEW p \in Wrappers, w0[p].live,
         \A q \in Wrappers : q # p /\ w0[q].live => w0[q].refCount > 0 \/ Member(m_history, q),
         \A q \in Wrappers : w0[q].tstamp <= Latest, Latest \in Nat,
         Use(c, w0, map, p), revision' = revision
  PROVE  CacheInv' /\ OnlyTopLeaves
<1>1. CacheState
  BY DEF CacheInv
<1>2. PICK step \in ClockSteps :
        LET e == Encached(w0, map, p, Latest + step)
        IN  /\ wrapper' = Renumbered(e.w, e.v) /\ m_history' = e.v /\ m_cache' = e.cache
            /\ clock' = Observed(step)
  BY DEF Use
<1>3. PICK time \in Int : time = Latest + step
  BY CacheAssumption
<1>4. PICK e : e = Encached(w0, map, p, time)
  OBVIOUS
<1>5. /\ wrapper' = Renumbered(e.w, e.v) /\ m_history' = e.v /\ m_cache' = e.cache
      /\ clock' = Observed(step) /\ step \in Int
  BY <1>2, <1>3, <1>4, CacheAssumption
<1>6. PICK w : /\ Touched(w, w0, p, time) /\ Encaches(e, w, p)
               /\ TopKnows(CacheHeap(w0)) => TopKnows(CacheHeap(w))
  <2>1. /\ m_history \in Seq(Wrappers) /\ Len(m_history) <= Capacity
        /\ Len(m_history) < Capacity => TopKnows(CacheHeap(w0))
    BY <1>1 DEF CacheState
  <2> QED BY <1>4, <2>1, EncachedKeeps
<1>7. /\ clock' \in {"advances", "stands", "set back"}
      /\ clock' # "set back" => step >= 0 /\ clock # "set back"
      /\ clock' = "advances" => step > 0 /\ clock = "advances"
  <2>1. clock \in {"advances", "stands", "set back"}
    BY <1>1 DEF CacheState
  <2>2. step \in Int
    BY <1>5
  <2>3. CASE step < 0
    <3>1. clock' = "set back"
      BY <1>5, <2>3 DEF Observed
    <3> QED BY <3>1
  <2>4. CASE step = 0
    <3>1. ~(step < 0) /\ step >= 0
      BY <2>4
    <3>2. clock' = IF clock = "advances" THEN "stands" ELSE clock
      BY <1>5, <2>4, <3>1, Zenon DEF Observed
    <3> QED BY <2>1, <3>1, <3>2, Zenon
  <2>5. CASE step > 0
    <3>1. ~(step < 0) /\ step # 0 /\ step >= 0
      BY <2>2, <2>5
    <3>2. clock' = clock
      BY <1>5, <3>1, Zenon DEF Observed
    <3> QED BY <2>1, <2>5, <3>1, <3>2, Zenon
  <2>6. step < 0 \/ step = 0 \/ step > 0
    BY <2>2
  <2> QED BY <2>3, <2>4, <2>5, <2>6
<1>8. /\ \A q \in Wrappers : /\ w[q].refCount = IF q = p THEN w0[q].refCount + 1 ELSE w0[q].refCount
                             /\ w[q].live = w0[q].live /\ w0[q].refCount \in Nat
                             /\ q # p => w[q].tstamp = w0[q].tstamp
                             /\ w[q].tstamp \in Int
      /\ w[p].tstamp = time
  BY <1>6 DEF Touched, WrapperRec
<1>9. /\ clock' = "advances" => \A q \in Wrappers : q # p => w[q].tstamp < w[p].tstamp
      /\ clock' # "set back" => \A q \in Wrappers : w[q].tstamp <= w[p].tstamp
  <2>1. \A q \in Wrappers : q # p => w[q].tstamp <= Latest /\ w[q].tstamp \in Int
    BY <1>8
  <2>2. w[p].tstamp = Latest + step /\ Latest \in Int /\ step \in Int
    BY <1>3, <1>5, <1>8
  <2>3. step > 0 => \A q \in Wrappers : q # p => w[q].tstamp < w[p].tstamp
    BY <2>1, <2>2
  <2>4. step >= 0 => \A q \in Wrappers : w[q].tstamp <= w[p].tstamp
    BY <2>1, <2>2
  <2> QED BY <1>7, <2>3, <2>4
<1>10. /\ e.w \in [Wrappers -> WrapperRec] /\ e.v \in Seq(Wrappers) /\ Len(e.v) <= Capacity
       /\ e.cache \in [Keys -> 0..MaxWrappers]
       /\ Linked([v |-> e.v, w |-> e.w]) /\ Cached(e.w, e.cache)
       /\ \A q \in Wrappers :
            /\ e.w[q].refCount = w[q].refCount
            /\ Member(e.v, q) => e.w[q].live
            /\ e.w[q].live => /\ w[q].live
                              /\ Member(m_history, q) => e.w[q].refCount > 0 \/ Member(e.v, q)
       /\ OnlyTopLeaves
  BY <1>5, <1>6 DEF Encaches, OnlyTopLeaves, HeapOf
<1>11. /\ Len(e.v) < Capacity \/ clock' = "advances" => TopKnows([v |-> e.v, w |-> e.w])
       /\ clock' # "set back" /\ Len(e.v) >= 3 => TopIsOlder([v |-> e.v, w |-> e.w])
  <2>1. clock' = "advances" => TopKnows(CacheHeap(w))
    BY <1>6, <1>7
  <2> QED BY <1>6, <1>9, <2>1 DEF Encaches, HeapOf
<1>12. /\ wrapper' \in [Wrappers -> WrapperRec]
       /\ \A q \in Wrappers : /\ wrapper'[q].tstamp \in StampRange
                              /\ wrapper'[q].live = e.w[q].live
                              /\ wrapper'[q].refCount = e.w[q].refCount
       /\ Linked([v |-> m_history', w |-> wrapper']) /\ Cached(wrapper', m_cache')
       /\ Len(m_history') < Capacity \/ clock' = "advances"
            => TopKnows([v |-> m_history', w |-> wrapper'])
       /\ clock' # "set back" /\ Len(m_history') >= 3
            => TopIsOlder([v |-> m_history', w |-> wrapper'])
  <2>1. PICK ew \in [Wrappers -> WrapperRec] : ew = e.w
    BY <1>10
  <2>2. PICK ev \in Seq(Wrappers) : ev = e.v
    BY <1>10
  <2>3. PICK ec \in [Keys -> 0..MaxWrappers] : ec = e.cache
    BY <1>10
  <2>4. /\ Linked([v |-> ev, w |-> ew]) /\ Cached(ew, ec) /\ wrapper' = Renumbered(ew, ev)
        /\ \A q \in Wrappers : Member(ev, q) => ew[q].live
    BY <1>5, <1>10, <2>1, <2>2, <2>3
  <2>5. PICK r : r = wrapper' /\ Renews(r, ew, ev)
    BY <2>4, RenumberedIs
  <2>6. /\ Linked([v |-> ev, w |-> r]) /\ Cached(r, ec)
        /\ TopKnows([v |-> ev, w |-> ew]) => TopKnows([v |-> ev, w |-> r])
        /\ TopIsOlder([v |-> ev, w |-> ew]) => TopIsOlder([v |-> ev, w |-> r])
    BY <2>4, <2>5, RenewedKeeps
  <2>7. /\ r \in [Wrappers -> WrapperRec]
        /\ \A q \in Wrappers : /\ r[q].tstamp \in StampRange
                               /\ r[q].live = ew[q].live /\ r[q].refCount = ew[q].refCount
    BY <2>5, Zenon DEF Renews
  <2>8. ev = m_history' /\ ec = m_cache'
    BY <1>5, <2>2, <2>3
  <2> QED BY <1>11, <2>1, <2>2, <2>5, <2>6, <2>7, <2>8
<1>13. NothingLeaks'
  <2>1. ASSUME NEW q \in Wrappers, wrapper'[q].live
        PROVE  wrapper'[q].refCount > 0 \/ Member(m_history', q)
    <3>1. e.w[q].live /\ w0[q].live /\ wrapper'[q].refCount = w[q].refCount
      BY <1>8, <1>10, <1>12, <2>1
    <3>2. CASE q = p
      BY <1>8, <3>1, <3>2
    <3>3. CASE q # p /\ w0[q].refCount > 0
      BY <1>8, <3>1, <3>3
    <3>4. CASE q # p /\ Member(m_history, q)
      BY <1>5, <1>10, <1>12, <3>1, <3>4
    <3> QED BY <3>1, <3>2, <3>3, <3>4
  <2> QED BY <2>1 DEF NothingLeaks, HistoryPlaces, Member
<1>14. held' \in [Sentences -> Seq(Wrappers)] /\ CountedIn(wrapper', held')
  <2>1. held \in [Sentences -> Seq(Wrappers)] /\ held' = [held EXCEPT ![c] = Append(@, p)]
    BY <1>1 DEF CacheState, Use
  <2>2. Append(held[c], p) \in Seq(Wrappers)
    BY <2>1
  <2>3. /\ held' \in [Sentences -> Seq(Wrappers)] /\ held'[c] = Append(held[c], p)
        /\ \A d \in Sentences : d # c => held'[d] = held[d]
    BY <2>1, <2>2
  <2>4. Recounted(wrapper', w0, p, 1)
    BY <1>8, <1>10, <1>12 DEF Recounted
  <2>5. HoldsMore(held', held, c, p)
    BY <2>3 DEF HoldsMore
  <2>6. CountedIn(wrapper', held')
    BY <1>1, <2>4, <2>5, HolderComes DEF CacheState
  <2> QED BY <2>3, <2>6
<1>15. /\ lookup' \in [Sentences -> LookupRec]
       /\ \A d \in Sentences : lookup'[d].pc # "idle" => lookup'[d].key \in Keys
  BY <1>1, NoLookupIs DEF CacheState, Use
<1>16. CacheState'
  BY <1>1, <1>5, <1>7, <1>10, <1>12, <1>14, <1>15 DEF CacheState
<1>17. Counted(wrapper)'
  BY <1>14 DEF Counted, CountedIn, Holds, HeldBy
<1> QED BY <1>10, <1>12, <1>13, <1>16, <1>17 DEF CacheInv, CacheHeap

\* The times that the invariant bounds.
LEMMA InvLatest ==
  ASSUME CacheInv, NEW p \in Wrappers
  PROVE  Latest \in Nat /\ \A q \in Wrappers : wrapper[q].tstamp <= Latest
  BY LatestIs DEF CacheInv, CacheState

\* What the history points to exists unless it has lost something.
LEMMA MembersLive ==
  ASSUME Intact, NEW q, Member(m_history, q)
  PROVE  wrapper[q].live
  BY DEF Intact, Member

LEMMA HitKeeps ==
  ASSUME CacheInv, NEW c \in Sentences, Hit(c)
  PROVE  CacheInv' /\ OnlyTopLeaves
<1> DEFINE p == m_cache[lookup[c].key]
<1>1. CacheState /\ Cached(wrapper, m_cache)
  BY DEF CacheInv
<1>2. lookup[c].key \in Keys
  BY <1>1 DEF CacheState, Hit
<1>3. p \in Wrappers /\ wrapper[p].live
  <2>1. p \in 0..MaxWrappers /\ p # 0
    BY <1>1, <1>2 DEF CacheState, Hit, Usable
  <2> QED BY <1>1, <1>2, <2>1, CacheAssumption DEF Wrappers, Cached
<1>4. Use(c, wrapper, m_cache, p) /\ revision' = revision
  BY DEF Hit
<1> HIDE DEF p
<1>5. /\ wrapper \in [Wrappers -> WrapperRec] /\ m_cache \in [Keys -> 0..MaxWrappers]
      /\ Linked(CacheHeap(wrapper)) /\ CountedIn(wrapper, held)
      /\ Len(m_history) < Capacity \/ clock = "advances" => TopKnows(CacheHeap(wrapper))
      /\ \A q \in Wrappers : q # p /\ wrapper[q].live => wrapper[q].refCount > 0 \/ Member(m_history, q)
  BY <1>1, CountedIs DEF CacheInv, CacheState, NothingLeaks, HistoryPlaces, Member
<1>6. Latest \in Nat /\ \A q \in Wrappers : wrapper[q].tstamp <= Latest
  BY <1>3, InvLatest
<1>7. \A q \in Wrappers : Member(m_history, q) => wrapper[q].live
  BY <1>4, MembersLive DEF Use
<1> QED BY <1>1, <1>3, <1>4, <1>5, <1>6, <1>7, UseKeeps

LEMMA StoreKeeps ==
  ASSUME CacheInv, NEW c \in Sentences, Store(c)
  PROVE  CacheInv' /\ OnlyTopLeaves
<1> DEFINE pointedTo == Range(m_history) \cup Range(m_cache) \cup UNION {Range(held[d]) : d \in Sentences}
           unused == {q \in Wrappers : ~wrapper[q].live} \ pointedTo
           p == Min(unused)
           k == lookup[c].key
           new == [live |-> TRUE, key |-> lookup[c].key, revision |-> lookup[c].revision,
                   refCount |-> 0, tstamp |-> 0, idx |-> -1]
           w0 == [wrapper EXCEPT ![p] = new]
           map == [m_cache EXCEPT ![k] = p]
<1>1. CacheState /\ Cached(wrapper, m_cache) /\ Linked([v |-> m_history, w |-> wrapper])
  BY DEF CacheInv, CacheHeap
<1>2. /\ wrapper \in [Wrappers -> WrapperRec] /\ m_cache \in [Keys -> 0..MaxWrappers]
      /\ m_history \in Seq(Wrappers)
  BY <1>1 DEF CacheState
<1>3. k \in Keys /\ lookup[c].revision \in 0..MaxRevision
  BY <1>1 DEF CacheState, Store, LookupRec
<1>4. p \in unused
  <2>1. unused \in SUBSET Nat /\ unused # {}
    BY WrappersAreNat DEF Store
  <2> HIDE DEF unused
  <2> QED BY <2>1, MinIs
<1>5. p \in Wrappers /\ wrapper[p] = Deleted
  BY <1>1, <1>4 DEF Cached
<1>6. Use(c, w0, map, p) /\ revision' = revision
  BY DEF Store
<1> HIDE DEF pointedTo, unused, p
<1>7. /\ new \in WrapperRec /\ new.live /\ new.key = k /\ new.refCount = 0 /\ new.tstamp = 0
      /\ new.idx = -1
  BY <1>3 DEF WrapperRec
<1> HIDE DEF new
<1>8. w0 \in [Wrappers -> WrapperRec] /\ w0[p] = new /\ \A q \in Wrappers : q # p => w0[q] = wrapper[q]
  BY <1>2, <1>5, <1>7
<1>9. /\ map \in [Keys -> 0..MaxWrappers] /\ map[k] = p
      /\ \A x \in Keys : x # k => map[x] = m_cache[x]
  BY <1>2, <1>3, <1>5, WrappersAreNat
<1> HIDE DEF w0, map, k
<1>10. Cached(w0, map)
  <2>1. ASSUME NEW q \in Wrappers, ~w0[q].live PROVE w0[q] = Deleted
    BY <1>1, <1>7, <1>8, <2>1 DEF Cached
  <2>2. ASSUME NEW x \in Keys, map[x] # 0 PROVE w0[map[x]].live /\ w0[map[x]].key = x
    <3>1. CASE x = k
      BY <1>5, <1>7, <1>8, <1>9, <3>1
    <3>2. CASE x # k
      <4>1. map[x] = m_cache[x] /\ m_cache[x] \in Wrappers
        BY <1>2, <1>9, <2>2, <3>2, CacheAssumption DEF Wrappers
      <4>2. wrapper[m_cache[x]].live /\ wrapper[m_cache[x]].key = x
        BY <1>1, <2>2, <4>1 DEF Cached
      <4>3. m_cache[x] # p
        BY <1>5, <4>2, DeletedIs
      <4> QED BY <1>8, <4>1, <4>2, <4>3
    <3> QED BY <3>1, <3>2
  <2> QED BY <2>1, <2>2 DEF Cached
<1>11. \A q \in Wrappers : w0[q].idx = wrapper[q].idx /\ w0[q].refCount = wrapper[q].refCount
  BY <1>5, <1>7, <1>8, DeletedIs
<1>12. Linked(CacheHeap(w0))
  <2>1. \A m \in 1..Len(m_history) : m_history[m] \in Wrappers
    BY <1>2
  <2> QED BY <1>1, <1>11, <2>1 DEF Linked, CacheHeap
<1>13. CountedIn(w0, held)
  BY <1>11, CountedIs DEF CacheInv, CountedIn
<1>14. \A q \in Wrappers : q # p /\ w0[q].live => w0[q].refCount > 0 \/ Member(m_history, q)
  BY <1>8 DEF CacheInv, NothingLeaks, HistoryPlaces, Member
<1>15. Latest \in Nat /\ \A q \in Wrappers : w0[q].tstamp <= Latest
  <2>1. Latest \in Nat /\ \A q \in Wrappers : wrapper[q].tstamp <= Latest
    BY <1>5, InvLatest
  <2> QED BY <1>7, <1>8, <2>1
<1>16. w0[p].live
  BY <1>7, <1>8
<1>17. \A q \in Wrappers : Member(m_history, q) => w0[q].live
  <2>1. Intact
    BY <1>6 DEF Use
  <2> QED BY <1>7, <1>8, <2>1, MembersLive
<1>18. Len(m_history) < Capacity \/ clock = "advances" => TopKnows(CacheHeap(w0))
  <2>1. Len(m_history) >= 1 => m_history[1] \in Wrappers
    BY <1>2
  <2> QED BY <1>11, <2>1 DEF CacheInv, CacheHeap, TopKnows
<1> QED BY <1>5, <1>6, <1>8, <1>9, <1>10, <1>12, <1>13, <1>14, <1>15, <1>16, <1>17, <1>18, UseKeeps

LEMMA ReleaseCollectionKeeps ==
  ASSUME CacheInv, NEW c \in Sentences, NEW i \in DOMAIN held[c], ReleaseCollection(c, i)
  PROVE  CacheInv' /\ OnlyTopLeaves
<1> DEFINE p == held[c][i]
           less == [wrapper[p] EXCEPT !.refCount = wrapper[p].refCount - 1]
           w == [wrapper EXCEPT ![p].refCount = @ - 1]
           d == Decached(w, m_cache, p)
<1>1. CacheState /\ Cached(wrapper, m_cache) /\ Linked([v |-> m_history, w |-> wrapper])
  BY DEF CacheInv, CacheHeap
<1>2. /\ wrapper \in [Wrappers -> WrapperRec] /\ m_cache \in [Keys -> 0..MaxWrappers]
      /\ m_history \in Seq(Wrappers) /\ held \in [Sentences -> Seq(Wrappers)]
  BY <1>1 DEF CacheState
<1>3. p \in Wrappers
  BY <1>2
<1>4. /\ wrapper' = d.w /\ m_cache' = d.cache /\ held' = [held EXCEPT ![c] = RemoveAt(@, i)]
      /\ UNCHANGED <<m_history, revision, lookup, clock>>
  BY DEF ReleaseCollection
<1>5. CountedIn(wrapper, held)
  BY CountedIs DEF CacheInv
<1>6. wrapper[p].refCount \in Nat /\ wrapper[p].refCount > 0 /\ wrapper[p].live
  <2>1. <<c, i>> \in HeldBy(p, held)
    BY HeldByIs
  <2>2. IsFiniteSet(HeldBy(p, held)) /\ wrapper[p].refCount = Cardinality(HeldBy(p, held))
    BY <1>3, <1>5 DEF CountedIn
  <2>3. wrapper[p].refCount \in Nat /\ wrapper[p].refCount # 0
    BY <2>1, <2>2, FS_CardinalityType, FS_EmptySet
  <2>4. wrapper[p].live
    BY <1>1, <1>3, <2>3, DeletedIs DEF Cached
  <2> QED BY <2>3, <2>4
<1>7. w = [wrapper EXCEPT ![p] = less]
  OBVIOUS
<1>8. /\ less \in WrapperRec /\ less.refCount = wrapper[p].refCount - 1
      /\ less.live = wrapper[p].live /\ less.live
      /\ less.key = wrapper[p].key /\ less.idx = wrapper[p].idx /\ less.tstamp = wrapper[p].tstamp
  <2>1. ASSUME NEW r \in WrapperRec, NEW n \in Nat
        PROVE  LET y == [r EXCEPT !.refCount = n]
               IN  /\ y \in WrapperRec /\ y.refCount = n /\ y.live = r.live /\ y.key = r.key
                   /\ y.idx = r.idx /\ y.tstamp = r.tstamp
    BY DEF WrapperRec
  <2>2. wrapper[p] \in WrapperRec /\ wrapper[p].refCount - 1 \in Nat
    BY <1>2, <1>3, <1>6
  <2> QED BY <1>6, <2>1, <2>2
<1> HIDE DEF less, w, d, p
<1>9. /\ w \in [Wrappers -> WrapperRec] /\ w[p] = less
      /\ \A q \in Wrappers : q # p => w[q] = wrapper[q]
  BY <1>2, <1>3, <1>7, <1>8
<1>10. Cached(w, m_cache)
  <2>1. \A k \in Keys : m_cache[k] # 0 => m_cache[k] \in Wrappers
    BY <1>2, CacheAssumption DEF Wrappers
  <2>2. \A q \in Wrappers : w[q].live = wrapper[q].live /\ w[q].key = wrapper[q].key
    BY <1>6, <1>8, <1>9
  <2>3. \A q \in Wrappers : ~w[q].live => w[q] = Deleted
    BY <1>1, <1>8, <1>9 DEF Cached
  <2> QED BY <1>1, <2>1, <2>2, <2>3 DEF Cached
<1>11. /\ d.w \in [Wrappers -> WrapperRec] /\ d.cache \in [Keys -> 0..MaxWrappers]
       /\ Cached(d.w, d.cache)
       /\ \A q \in Wrappers : q # p => d.w[q] = w[q]
       /\ d.w[p] = IF w[p].refCount > 0 \/ w[p].idx >= 0 THEN w[p] ELSE Deleted
  <2>1. d = Decached(w, m_cache, p) /\ w[p].live
    BY <1>8, <1>9 DEF d
  <2>2. m_cache \in [Keys -> 0..MaxWrappers] /\ w \in [Wrappers -> WrapperRec]
    BY <1>2, <1>9
  <2> QED BY <1>3, <1>10, <2>1, <2>2, DecachedKeeps
<1>12. /\ d.w[p].refCount = wrapper[p].refCount - 1
       /\ d.w[p].live => d.w[p].refCount > 0 \/ d.w[p].idx >= 0
       /\ d.w[p].idx = wrapper[p].idx
       /\ d.w[p].idx >= 0 => d.w[p].tstamp = wrapper[p].tstamp
       /\ 0 <= d.w[p].tstamp /\ d.w[p].tstamp <= wrapper[p].tstamp
       /\ d.w[p].tstamp \in StampRange
  <2>1. /\ wrapper[p].tstamp \in Nat /\ 0 <= wrapper[p].tstamp /\ wrapper[p].tstamp \in StampRange
        /\ wrapper[p].idx \in Nat \cup {-1} /\ 0 \in StampRange
    <3>1. wrapper[p].tstamp \in StampRange /\ wrapper[p].idx \in Nat \cup {-1}
      BY <1>1, <1>2, <1>3 DEF CacheState, WrapperRec
    <3> QED BY <3>1, CacheAssumption DEF StampRange
  <2>2. CASE less.refCount > 0 \/ less.idx >= 0
    <3>1. d.w[p] = less
      BY <1>9, <1>11, <2>2
    <3> QED BY <1>8, <2>1, <2>2, <3>1
  <2>3. CASE ~(less.refCount > 0 \/ less.idx >= 0)
    <3>1. d.w[p] = Deleted
      BY <1>9, <1>11, <2>3
    <3>2. less.refCount = 0 /\ wrapper[p].idx = -1
      BY <1>6, <1>8, <2>1, <2>3
    <3>3. d.w[p].refCount = 0 /\ ~d.w[p].live /\ d.w[p].idx = -1 /\ d.w[p].tstamp = 0
      BY <3>1, DeletedIs
    <3>4. wrapper[p].refCount - 1 = 0
      BY <1>8, <3>2
    <3>5. ~(d.w[p].idx >= 0) /\ 0 <= d.w[p].tstamp /\ d.w[p].tstamp <= wrapper[p].tstamp
      BY <2>1, <3>3
    <3> QED BY <2>1, <3>2, <3>3, <3>4, <3>5
  <2> QED BY <2>2, <2>3
<1>13. \A q \in Wrappers : q # p => d.w[q] = wrapper[q]
  BY <1>9, <1>11
<1>14. \A q \in Wrappers : d.w[q].idx = wrapper[q].idx
  BY <1>12, <1>13
<1>15. \A m \in 1..Len(m_history) : m_history[m] \in Wrappers
  BY <1>2
<1>16. Linked([v |-> m_history, w |-> d.w])
  BY <1>1, <1>14, <1>15 DEF Linked
<1>17. /\ Len(m_history) < Capacity \/ clock = "advances" => TopKnows([v |-> m_history, w |-> d.w])
       /\ clock # "set back" /\ Len(m_history) >= 3 => TopIsOlder([v |-> m_history, w |-> d.w])
  <2>1. TopKnows([v |-> m_history, w |-> wrapper]) => TopKnows([v |-> m_history, w |-> d.w])
    <3>1. Len(m_history) >= 1 => m_history[1] \in Wrappers
      BY <1>2
    <3> QED BY <1>14, <3>1 DEF TopKnows
  <2>2. ASSUME TopIsOlder([v |-> m_history, w |-> wrapper]) PROVE TopIsOlder([v |-> m_history, w |-> d.w])
    <3>1. PICK o \in 2..Len(m_history) : wrapper[m_history[1]].tstamp <= wrapper[m_history[o]].tstamp
      BY <2>2 DEF TopIsOlder
    <3>2. 1 \in 1..Len(m_history) /\ o \in 1..Len(m_history) /\ o # 1
      BY <1>2
    <3>3. PICK a \in Wrappers : a = m_history[1]
      BY <1>15, <3>2
    <3>4. PICK b \in Wrappers : b = m_history[o]
      BY <1>15, <3>2
    <3>5. wrapper[b].idx >= 0
      <4>1. wrapper[b].idx = o - 1
        BY <1>1, <3>2, <3>4 DEF Linked
      <4> QED BY <3>2, <4>1
    <3>6. d.w[b].tstamp = wrapper[b].tstamp
      BY <1>12, <1>13, <3>5
    <3>7. /\ d.w[a].tstamp <= wrapper[a].tstamp /\ d.w[a].tstamp \in Int
          /\ wrapper[a].tstamp \in Int /\ wrapper[b].tstamp \in Int
      <4>1. /\ d.w[a] \in WrapperRec /\ wrapper[a] \in WrapperRec /\ wrapper[b] \in WrapperRec
        BY <1>2, <1>11
      <4>2. /\ d.w[a].tstamp \in Int /\ wrapper[a].tstamp \in Int /\ wrapper[b].tstamp \in Int
        BY <4>1 DEF WrapperRec
      <4>3. CASE a = p
        BY <1>12, <4>2, <4>3
      <4>4. CASE a # p
        BY <1>13, <4>2, <4>4
      <4> QED BY <4>2, <4>3, <4>4
    <3>8. d.w[a].tstamp <= d.w[b].tstamp
      BY <3>1, <3>3, <3>4, <3>6, <3>7
    <3> QED BY <3>3, <3>4, <3>8 DEF TopIsOlder
  <2> QED BY <2>1, <2>2 DEF CacheInv, CacheHeap
<1>18. held' \in [Sentences -> Seq(Wrappers)] /\ CountedIn(d.w, held')
  <2>1. held[c] \in Seq(Wrappers) /\ i \in 1..Len(held[c])
    BY <1>2
  <2>2. RemoveAt(held[c], i) \in Seq(Wrappers)
    BY <2>1, RemoveAtIs
  <2>3. /\ held' \in [Sentences -> Seq(Wrappers)] /\ held'[c] = RemoveAt(held[c], i)
        /\ \A e \in Sentences : e # c => held'[e] = held[e]
    BY <1>2, <1>4, <2>2
  <2>4. HoldsLess(held', held, c, i)
    BY <2>3 DEF HoldsLess
  <2>5. Recounted(d.w, wrapper, held[c][i], -1)
    <3>1. \A q \in Wrappers : d.w[q].refCount = IF q = p THEN wrapper[q].refCount + (-1) ELSE wrapper[q].refCount
      BY <1>6, <1>12, <1>13
    <3> QED BY <3>1 DEF Recounted, p
  <2>6. CountedIn(d.w, held')
    BY <1>2, <1>5, <2>4, <2>5, HolderLeaves
  <2> QED BY <2>3, <2>6
<1>19. CacheState'
  <2>1. \A q \in Wrappers : d.w[q].tstamp \in StampRange
    BY <1>1, <1>12, <1>13 DEF CacheState
  <2> QED BY <1>1, <1>4, <1>11, <1>18, <2>1 DEF CacheState
<1>20. NothingLeaks'
  <2>1. \A q \in Wrappers : wrapper[q].idx >= 0 => Member(m_history, q)
    BY <1>1 DEF Linked, Member
  <2>2. \A q \in Wrappers : q # p /\ wrapper[q].live => wrapper[q].refCount > 0 \/ Member(m_history, q)
    BY DEF CacheInv, NothingLeaks, HistoryPlaces, Member
  <2>3. \A q \in Wrappers : d.w[q].live => d.w[q].refCount > 0 \/ Member(m_history, q)
    BY <1>3, <1>12, <1>13, <2>1, <2>2
  <2> QED BY <1>4, <2>3 DEF NothingLeaks, HistoryPlaces, Member
<1>21. Counted(wrapper)'
  BY <1>4, <1>18 DEF Counted, CountedIn, Holds, HeldBy
<1>22. OnlyTopLeaves
  BY <1>4 DEF OnlyTopLeaves, Member
<1> QED BY <1>4, <1>11, <1>16, <1>17, <1>19, <1>20, <1>21, <1>22 DEF CacheInv, CacheHeap

\* The steps that look for a collection, add a sentence pair, or do nothing.
LEMMA OtherStepsKeep ==
  ASSUME CacheInv, UNCHANGED <<wrapper, m_cache, m_history, held, clock>>, revision' \in 0..MaxRevision,
         lookup' \in [Sentences -> LookupRec],
         \A d \in Sentences : lookup'[d].pc # "idle" => lookup'[d].key \in Keys
  PROVE  CacheInv' /\ OnlyTopLeaves
<1>1. CacheState'
  BY DEF CacheInv, CacheState
<1>2. Counted(wrapper)' /\ NothingLeaks'
  <2>1. Counted(wrapper)'
    <3>1. CountedIn(wrapper, held)
      BY CountedIs DEF CacheInv
    <3>2. CountedIn(wrapper', held')
      BY <3>1
    <3> QED BY <3>2 DEF Counted, CountedIn, Holds, HeldBy
  <2>2. NothingLeaks'
    BY DEF CacheInv, NothingLeaks, HistoryPlaces
  <2> QED BY <2>1, <2>2
<1>3. OnlyTopLeaves
  BY DEF OnlyTopLeaves, Member
<1>4. CacheHeap(wrapper)' = CacheHeap(wrapper) /\ (Linked(CacheHeap(wrapper)) /\ Cached(wrapper, m_cache))'
  BY DEF CacheInv, CacheHeap, Linked, Cached
<1>5. (/\ Len(m_history) < Capacity \/ clock = "advances" => TopKnows(CacheHeap(wrapper))
       /\ clock # "set back" /\ Len(m_history) >= 3 => TopIsOlder(CacheHeap(wrapper)))'
  BY DEF CacheInv, CacheHeap, TopKnows, TopIsOlder
<1> QED BY <1>1, <1>2, <1>3, <1>4, <1>5 DEF CacheInv

\* A lookup of one sentence.
LEMMA LookupChanges ==
  ASSUME CacheState, NEW c \in Sentences, NEW l \in LookupRec, l.key \in Keys,
         lookup' = [lookup EXCEPT ![c] = l]
  PROVE  /\ lookup' \in [Sentences -> LookupRec]
         /\ \A d \in Sentences : lookup'[d].pc # "idle" => lookup'[d].key \in Keys
  BY DEF CacheState

LEMMA BeginKeeps ==
  ASSUME CacheInv, NEW c \in Sentences, NEW k \in Keys, Begin(c, k)
  PROVE  CacheInv' /\ OnlyTopLeaves
<1> DEFINE l == [pc |-> "find", key |-> k, revision |-> revision]
<1>1. CacheState
  BY DEF CacheInv
<1>2. l \in LookupRec /\ l.key \in Keys
  BY <1>1 DEF CacheState, LookupRec
<1>3. /\ lookup' = [lookup EXCEPT ![c] = l]
      /\ UNCHANGED <<wrapper, m_cache, m_history, held, clock>> /\ revision' \in 0..MaxRevision
  BY <1>1 DEF Begin, CacheState
<1> HIDE DEF l
<1> QED BY <1>1, <1>2, <1>3, LookupChanges, OtherStepsKeep

LEMMA MissKeeps ==
  ASSUME CacheInv, NEW c \in Sentences, Miss(c)
  PROVE  CacheInv' /\ OnlyTopLeaves
<1> DEFINE l == [lookup[c] EXCEPT !.pc = "build"]
<1>1. CacheState
  BY DEF CacheInv
<1>2. lookup[c] \in LookupRec /\ lookup[c].key \in Keys
  BY <1>1 DEF CacheState, Miss
<1>3. l \in LookupRec /\ l.key \in Keys
  BY <1>2 DEF LookupRec
<1>4. /\ lookup' = [lookup EXCEPT ![c] = l]
      /\ UNCHANGED <<wrapper, m_cache, m_history, held, clock>> /\ revision' \in 0..MaxRevision
  BY <1>1 DEF Miss, CacheState
<1> HIDE DEF l
<1> QED BY <1>1, <1>3, <1>4, LookupChanges, OtherStepsKeep

LEMMA AddSentencePairKeeps ==
  ASSUME CacheInv, AddSentencePair
  PROVE  CacheInv' /\ OnlyTopLeaves
<1>1. CacheState
  BY DEF CacheInv
<1>2. /\ UNCHANGED <<wrapper, m_cache, m_history, held, clock>> /\ revision' \in 0..MaxRevision
      /\ lookup' = lookup
  <2>1. revision \in 0..MaxRevision
    BY <1>1, Zenon DEF CacheState
  <2>2. revision' \in 0..MaxRevision
    BY <2>1, CacheAssumption DEF AddSentencePair
  <2> QED BY <2>2 DEF AddSentencePair
<1> QED BY <1>1, <1>2, OtherStepsKeep DEF CacheState

LEMMA CacheStutter ==
  ASSUME CacheInv, UNCHANGED cacheVars
  PROVE  CacheInv' /\ OnlyTopLeaves
<1>1. CacheState
  BY DEF CacheInv
<1>2. /\ UNCHANGED <<wrapper, m_cache, m_history, held, clock>> /\ revision' \in 0..MaxRevision
      /\ lookup' = lookup
  BY <1>1 DEF cacheVars, CacheState
<1> QED BY <1>1, <1>2, OtherStepsKeep DEF CacheState

LEMMA CacheBegins == CacheInit => CacheInv
<1> SUFFICES ASSUME CacheInit PROVE CacheInv
  OBVIOUS
<1>1. \A q \in Wrappers : wrapper[q] = Deleted
  BY DEF CacheInit
<1>2. CacheState
  <2>1. wrapper \in [Wrappers -> WrapperRec]
    BY DeletedIs DEF CacheInit
  <2>2. \A q \in Wrappers : wrapper[q].tstamp \in StampRange
    BY <1>1, CacheAssumption, DeletedIs DEF StampRange
  <2>3. m_cache \in [Keys -> 0..MaxWrappers] /\ revision \in 0..MaxRevision
    BY CacheAssumption DEF CacheInit
  <2>4. m_history \in Seq(Wrappers) /\ Len(m_history) <= Capacity
    BY CacheAssumption DEF CacheInit
  <2>5. /\ lookup \in [Sentences -> LookupRec] /\ held \in [Sentences -> Seq(Wrappers)]
        /\ \A c \in Sentences : lookup[c].pc # "idle" => lookup[c].key \in Keys
    BY NoLookupIs DEF CacheInit
  <2>6. clock \in {"advances", "stands", "set back"}
    BY DEF CacheInit
  <2> QED BY <2>1, <2>2, <2>3, <2>4, <2>5, <2>6 DEF CacheState
<1>3. Linked(CacheHeap(wrapper)) /\ Cached(wrapper, m_cache) /\ NothingLeaks
  BY <1>1, DeletedIs DEF CacheInit, CacheHeap, Linked, Cached, NothingLeaks
<1>4. Counted(wrapper)
  <2>1. \A q : Holds(q) = {}
    BY DEF CacheInit, Holds
  <2> QED BY <1>1, <2>1, DeletedIs, FS_EmptySet DEF Counted
<1>5. ~(Len(m_history) >= 3) /\ TopKnows(CacheHeap(wrapper))
  BY DEF CacheInit, CacheHeap, TopKnows
<1> QED BY <1>2, <1>3, <1>4, <1>5 DEF CacheInv

LEMMA CacheStepKeeps ==
  ASSUME CacheInv, [CacheNext]_cacheVars
  PROVE  CacheInv' /\ OnlyTopLeaves
<1>1. ASSUME NEW c \in Sentences, NEW k \in Keys, Begin(c, k) PROVE CacheInv' /\ OnlyTopLeaves
  BY <1>1, BeginKeeps
<1>2. ASSUME NEW c \in Sentences, Hit(c) PROVE CacheInv' /\ OnlyTopLeaves
  BY <1>2, HitKeeps
<1>3. ASSUME NEW c \in Sentences, Miss(c) PROVE CacheInv' /\ OnlyTopLeaves
  BY <1>3, MissKeeps
<1>4. ASSUME NEW c \in Sentences, Store(c) PROVE CacheInv' /\ OnlyTopLeaves
  BY <1>4, StoreKeeps
<1>5. ASSUME NEW c \in Sentences, NEW i \in DOMAIN held[c], ReleaseCollection(c, i)
      PROVE  CacheInv' /\ OnlyTopLeaves
  BY <1>5, ReleaseCollectionKeeps
<1>6. CASE AddSentencePair
  BY <1>6, AddSentencePairKeeps
<1>7. CASE UNCHANGED cacheVars
  BY <1>7, CacheStutter
<1>8. CASE Undefined
  BY <1>8, CacheStutter DEF Undefined
<1> QED BY <1>1, <1>2, <1>3, <1>4, <1>5, <1>6, <1>7, <1>8 DEF CacheNext

\* Whatever the clock does, the cache, the history and the reference counts agree with each
\* other in every reachable state, but for a top that may not know that it is in the history.
THEOREM CacheInvariant == CacheSpec => []CacheInv
<1>1. CacheInv /\ [CacheNext]_cacheVars => CacheInv'
  BY CacheStepKeeps
<1> QED BY <1>1, CacheBegins, PTL DEF CacheSpec

\* A collection that a sentence holds is not deleted, and its reference count is the number of
\* its holders: decache (mmsapt.cpp) deletes nothing that an InputPath still points to.
THEOREM HeldStaysAlive == CacheSpec => []HeldAlive
<1>1. CacheInv => HeldAlive
  <2> SUFFICES ASSUME CacheInv PROVE HeldAlive
    OBVIOUS
  <2>1. CacheState
    BY DEF CacheInv
  <2>2. CacheTypeOK
    <3>1. /\ m_history \in Seq(Wrappers) /\ Len(m_history) <= Capacity
          /\ held \in [Sentences -> Seq(Wrappers)] /\ wrapper \in [Wrappers -> WrapperRec]
          /\ m_cache \in [Keys -> 0..MaxWrappers]
          /\ \A q \in Wrappers : wrapper[q].tstamp \in StampRange
      BY <2>1, Zenon DEF CacheState
    <3>2. \A k \in HistoryPlaces : m_history[k] \in Wrappers
      BY <3>1 DEF HistoryPlaces
    <3>3. \A c \in Sentences : \A i \in DOMAIN held[c] : held[c][i] \in Wrappers
      BY <3>1
    <3>4. ASSUME NEW p \in Wrappers
          PROVE  wrapper[p] \in [live : BOOLEAN, key : Keys \cup {NoKey}, revision : 0..MaxRevision,
                                 refCount : Nat, tstamp : Nat, idx : Int]
      <4>1. wrapper[p] \in WrapperRec /\ wrapper[p].tstamp \in Nat
        BY <3>1, CacheAssumption DEF StampRange
      <4> QED BY <4>1 DEF WrapperRec
    <3> QED BY <3>1, <3>2, <3>3, <3>4 DEF CacheTypeOK
  <2>3. ASSUME NEW p \in Wrappers
        PROVE  /\ Holds(p) # {} => wrapper[p].live
               /\ wrapper[p].refCount = Cardinality(Holds(p))
    <3>1. IsFiniteSet(Holds(p)) /\ wrapper[p].refCount = Cardinality(Holds(p))
      BY DEF CacheInv, Counted
    <3>2. Holds(p) # {} => wrapper[p].refCount # 0
      BY <3>1, FS_EmptySet
    <3>3. ~wrapper[p].live => wrapper[p].refCount = 0
      BY DeletedIs DEF CacheInv, Cached
    <3> QED BY <3>1, <3>2, <3>3
  <2> QED BY <2>2, <2>3 DEF HeldAlive
<1> QED BY <1>1, CacheInvariant, PTL

\* What the history and the cache point to exists, and the places in the heap are those the
\* collections know, as encache asserts (mmsapt.cpp); the one exception is the top of the
\* history, once the clock has stood still or been set back.
THEOREM HistoryStaysSound == CacheSpec => []HistorySound
<1>1. CacheInv => HistorySound
  <2> SUFFICES ASSUME CacheInv PROVE HistorySound
    OBVIOUS
  <2>1. /\ CacheState /\ Linked([v |-> m_history, w |-> wrapper]) /\ Cached(wrapper, m_cache)
        /\ clock = "advances" => TopKnows([v |-> m_history, w |-> wrapper])
    BY DEF CacheInv, CacheHeap
  <2>2. \A q \in Wrappers : wrapper[q].idx >= 0 => wrapper[q].live
    BY <2>1, DeletedIs DEF Cached
  <2>3. ASSUME NEW k \in HistoryPlaces
        PROVE  Knows(k) \/ (k = 1 /\ clock # "advances" /\ wrapper[m_history[k]].idx = -1)
    <3>1. m_history[k] \in Wrappers /\ k \in Nat /\ k >= 1 /\ k \in 1..Len(m_history)
      <4>1. m_history \in Seq(Wrappers)
        BY <2>1, Zenon DEF CacheState
      <4> QED BY <4>1 DEF HistoryPlaces
    <3>2. wrapper[m_history[k]].idx = k - 1 \/ (k = 1 /\ wrapper[m_history[k]].idx = -1)
      BY <2>1, <3>1 DEF Linked
    <3>3. CASE wrapper[m_history[k]].idx = k - 1
      <4>1. wrapper[m_history[k]].live
        BY <2>2, <3>1, <3>3
      <4> QED BY <3>3, <4>1 DEF Knows
    <3>4. CASE k = 1 /\ wrapper[m_history[k]].idx = -1
      <4>1. clock = "advances" => wrapper[m_history[1]].idx = 0
        BY <2>1, <3>1, <3>4 DEF TopKnows
      <4> QED BY <3>4, <4>1
    <3> QED BY <3>2, <3>3, <3>4
  <2>4. \A p \in Wrappers : wrapper[p].idx >= 0 => /\ wrapper[p].idx + 1 \in HistoryPlaces
                                                   /\ m_history[wrapper[p].idx + 1] = p
    BY <2>1 DEF Linked, HistoryPlaces
  <2>5. \A k \in Keys : m_cache[k] # 0 => wrapper[m_cache[k]].live
    BY <2>1 DEF Cached
  <2> QED BY <2>3, <2>4, <2>5 DEF HistorySound
<1> QED BY <1>1, CacheInvariant, PTL

\* A collection that nobody holds and that has left the history does not stay: the caller of
\* decache has not forgotten it.
THEOREM NoLeak == CacheSpec => []NothingLeaks
<1>1. CacheInv => NothingLeaks
  BY DEF CacheInv
<1> QED BY <1>1, CacheInvariant, PTL

\* Another that was used as late as the top, in the words of the property.
LEMMA TopUsedAsLate ==
  ASSUME m_history \in Seq(Wrappers), TopIsOlder([v |-> m_history, w |-> wrapper])
  PROVE  UsedAsLate(1)
<1>1. PICK o \in 2..Len(m_history) : wrapper[m_history[1]].tstamp <= wrapper[m_history[o]].tstamp
  BY DEF TopIsOlder
<1>2. Len(m_history) \in Nat
  BY LenProperties
<1>3. o \in (1..Len(m_history)) \ {1}
  BY <1>2
<1> QED BY <1>1, <1>3 DEF UsedAsLate, HistoryPlaces

\* Unless the history has two places or the clock has been set back, what leaves it is never
\* the collection used last.
THEOREM NewestIsKept == Capacity # 2 => (CacheSpec => NewestStays)
<1> SUFFICES ASSUME Capacity # 2 PROVE CacheSpec => NewestStays
  OBVIOUS
<1> DEFINE NewestKept == \A k \in HistoryPlaces : Leaves(k) => UsedAsLate(k) \/ clock = "set back"
<1>1. ASSUME CacheInv, [CacheNext]_cacheVars PROVE NewestKept
  <2> SUFFICES ASSUME NEW k \in HistoryPlaces, Leaves(k), clock # "set back" PROVE UsedAsLate(k)
    OBVIOUS
  <2>1. ~Member(m_history', m_history[k])
    BY DEF Leaves, Member
  <2>2. k = 1 /\ Len(m_history) >= 3
    BY <1>1, <2>1, CacheStepKeeps DEF OnlyTopLeaves, HistoryPlaces
  <2>3. TopIsOlder([v |-> m_history, w |-> wrapper])
    BY <1>1, <2>2 DEF CacheInv, CacheHeap
  <2>4. CacheState
    BY <1>1 DEF CacheInv
  <2>5. m_history \in Seq(Wrappers)
    BY <2>4, Zenon DEF CacheState
  <2> QED BY <2>2, <2>3, <2>5, TopUsedAsLate
<1>2. CacheInv /\ [CacheNext]_cacheVars => [NewestKept]_cacheVars
  BY <1>1
<1>3. CacheSpec => []CacheInv
  BY CacheInvariant
<1> HIDE DEF NewestKept
<1>4. CacheSpec => [][NewestKept]_cacheVars
  BY <1>2, <1>3, PTL DEF CacheSpec
<1> QED BY <1>4 DEF NewestStays, NewestKept
=============================================================================
