# A verification of Moses

TLA+ modules for the parts of this repository whose correctness depends on the
order of steps: the thread pool of the decoder, the output that has to come out
in input order, the block pipelines and queues of KenLM, the parallel
language-model filter, the background sampling and the shared cache of the
dynamic phrase table, and the reordering and pruning sides of the phrase-based
search.  TLC checks small instances of every module; TLAPS proves the theorems of
section 6 for every value of the constants.

To run: `tlc -workers 2 -config Pool.cfg MCThreadPool` (section 4 gives the
module of each configuration), `tlapm ThreadPoolProofs.tla` for the proofs.
`PROJECT.json` maps each definition to the lines it stands for and lists the
runs, the findings, the hazards and, for each property, a mutated definition
(named `Mut...` in the modules) that violates it.

## 1. Inventory

Paths are relative to `src/`.

### Modelled, in whole or in part

| Part | Source | State | Operations | What is hard | What makes it correct |
|---|---|---|---|---|---|
| Thread pool | `moses/ThreadPool.{h,cpp}` | task queue, `m_stopped`, `m_stopping`, two condition variables, per-thread progress | `Execute`, `Submit`, `Stop(bool)`, destructor | lost and spurious wake-ups, a flag read outside the lock, tasks freed by their owner, `Stop` racing `Submit` | each accepted task runs exactly once before `Stop(true)` returns, none is touched after it is freed, nobody sleeps for ever |
| Output collector | `moses/OutputCollector.h` | `m_nextOutput`, held outputs | `Write` | tasks finish in any order; a sentence that never writes | the stream is in input order without gaps, and nothing printable is held back |
| Decoder main program | `moses-cmd/Main.cpp`, `moses/TranslationTask.cpp`, `moses/IOWrapper.cpp`, output handlers of the managers | sentence counter, a collector per output stream | read and submit, `TranslationTask::Run`, stop, close | the composition of the two parts above with the order of shutdown | every stream holds the whole input when it is closed |
| Producer-consumer queue | `util/pcqueue.hh` | ring of slots, two semaphores, two mutexes | `Produce`, `Consume` | the two sides hold different mutexes; a copy may throw | it is a bounded FIFO queue |
| Parallel filter | `lm/filter/thread.hh`, `util/thread_pool.hh`, `lm/filter/format.hh`, `arpa_io.hh`, `count_io.hh`, `filter_main.cc` | numbered batches, three queues, the deque of the output worker | `AddNGram`, `Flush`, the two workers, the reading loops, the destructors | reuse of batches, reordering, a ring of threads that wait for each other | the output is the filtered input, in order, and the program ends |
| Phrase-based search: reordering | `moses/SearchNormal.cpp`, `Hypothesis.cpp`, `WordsBitmap.h`, `ReorderingConstraint.{h,cpp}`, `InputType.cpp` | coverage bitmap, range of the last phrase, walls and zones | extending a hypothesis by a phrase, `Check`, bitmap IDs | the limits look one jump ahead only; nested zones with local walls; 16-bit IDs | no legal sequence of extensions leads to a dead end; walls and zones hold |
| Stream chain | `util/stream/chain.{hh,cc}`, `stream.hh`, `block.hh` | memory blocks, a ring of queues, one thread per link | `Chain >> worker`, `Link`, `Stream`, `Recycler`, `Wait` | ownership of blocks without locks, poison, reuse of the chain | a block has one owner, nobody waits to produce, the reader gets the entries in order, each round ends |
| Hypothesis stack | `moses/HypothesisStackNormal.{h,cpp}`, `HypothesisStack.cpp`, arc lists of `Hypothesis.cpp` | hypotheses on the stack, arc lists, best and worst score, a worst score per coverage | `AddPrune`, `PruneToSize`, `CleanupArcList` | early discarding on limits from earlier prunings; lazy pruning; diversity against size; who deletes a hypothesis | early discarding and lazy pruning lose nothing that one pruning of everything would keep; every hypothesis has one owner |
| Sampling agenda | `moses/TranslationModel/UG/mm/ug_bitext.{h,cc}` | job list, `in_progress` and counts of each job, worker threads that end and are replaced, the cache of statistics | `prep`, `lookup`, `add_job`, `get_job`, `job::step`, `pstats::add`, `release`, `~agenda` | reading while others sample; a count that is zero between two workers; workers that end when there is no work | statistics that are ready are complete and do not change; a lookup returns |
| Cache of phrase collections | `moses/TranslationModel/UG/mmsapt.cpp`, `moses/InputPath.cpp` | the map, a history (heap with back pointers), reference counts | `GetTargetPhraseCollectionLEGACY`, `encache`, `decache`, `Release`, `add` | look-up and storing are two critical sections; three kinds of owner | nothing is deleted under a sentence, nothing is kept for nobody |

How they interact.  The main program creates one `ThreadPool` and one
`OutputCollector` per output file.  The main thread calls `Submit` for each
sentence; a pool thread calls `TranslationTask::Run`, which runs the search and
then the output handlers one after another, each of which calls `Write` on its
collector (shared state under `m_mutex`).  `Stop(true)` is the only
synchronisation between the last task and the deletion of the collectors.  The
filter and the stream chain are separate programs that use `PCQueue` for every
message between threads; what flows are pointers to batches or blocks, so that
a message passes ownership.  The search itself is sequential, one hypothesis
graph per task: `SearchNormal` takes the stacks one after another, prunes one and
offers the extensions of what is left to the later ones.  The dynamic phrase table
is shared by all tasks: a decoder thread looks for a collection in the cache of
`Mmsapt`, and if there is none asks the bitext for statistics, which the threads of
the sampling agenda collect.

### Not modelled

| Part | Why |
|---|---|
| Cube pruning (`SearchCubePruning.cpp`, `BitmapContainer.cpp`, `HypothesisStackCubePruning.cpp`) | a second search over the same hypotheses; its stack prunes as the normal one does |
| Early discarding on expected scores (`SearchNormal.cpp:250`) | off by default; it needs scores of options and future costs |
| Chart and syntax decoding (`ChartManager.cpp`, `Syntax/`) | its search needs grammars; only what it writes to the output is in `MosesMain` |
| Suffix arrays, phrase extraction and scores of the dynamic phrase table, sampling with a bias, look-up of whole sentences (`ug_tsa_*`, `ug_bitext.h`, `sapt_*`) | data conversion; the last two are not used by the decoder's path through `prep` and `lookup` |
| LRU cache (`ug_lru_cache.h`) | used only by the look-up of whole sentences |
| Decoder server (`contrib/server/mosesserver.cpp`) | its tasks run on the modelled pool as tasks that their owner frees; the XML-RPC server around it is a library |
| Language-model estimation (`lm/builder`) | its workers run on `StreamChain`; of their own logic only in-place pruning is modelled |
| Compact phrase table (`TranslationModel/CompactPT`) | encoders over large tables; the threads of its creation share a queue of lines in the way of the filter |
| KenLM tries, hash tables, quantisation (`lm/*.cc`) | data structures without concurrency at sizes out of reach |
| Phrase dictionaries, feature functions, LM wrappers (`OnDiskPt`, `moses/FF`, `moses/LM`) | look-up, I/O and score arithmetic |
| Incremental search (`search/`) | best-first search over scores |
| Tuning (`mert/`) | numerical optimisation; its tasks share no state beyond the pool |
| Training tools (`phrase-extract`, `symal`, `biconcor`, `misc`), scripts, contributed tools | batch programs over text files |
| Classifier features, build system, vendored code | external |

The hazards of these parts that were met while reading are in `PROJECT.json`
with the reason why no property covers them yet.

## 2. Plan

Written, in this order: `ThreadPool` and its proofs; `OutputCollector`;
`MosesMain`, which composes the two and refines `InOrderOutput`, with the
proofs about the collector and those that compose the parts;
`PCQueue`, which refines `BoundedFIFO`, with the proof that it does;
`FilterController` and its proofs; `WordsBitmap`, `ReorderingConstraint`,
`PhraseSearch` and its proofs; `StreamChain` and its proofs; `HypothesisStackNormal`
and its proofs; `SamplingAgenda` and its proofs; `PhraseCollectionCache`, whose proofs are
the second half of `SamplingAgendaProofs`.

What would come next, the most important first:

1. **SearchNormal::Decode** over several stacks: the composition of
   `PhraseSearch` with `HypothesisStackNormal`, with the timeout.
2. **Decoder server** on `ThreadPool`: a client, its stack-allocated task and
   condition variable.
3. **MultipleOutputBuffer** and **CollapseStream**: extensions of
   `FilterController` and `StreamChain`.

## 3. The modules

**ThreadPool** (`moses/ThreadPool.{h,cpp}`).  `m_tasks`, `m_stopped`,
`m_stopping` are the fields of the class; `needed` and `available` are the sets
of threads waiting on `m_threadNeeded` and `m_threadAvailable`.  Each worker has
a control point `wpc`, its local `task` and `del`; each client has `cpc` and the
task it submits.  A block of code under the lock is one action (`TakeJob`,
`FindNoJob`, `SubmitPush`, `StopDrain`, ...); everything the code does outside
the lock is an action of its own: reading `DeleteAfterExecution`, `Run`, the
`delete`, the `notify_all` in `Execute` and in `Stop`, the loop test.
`SpuriousWake` lets either condition variable return without a notification.
The `while (!m_stopped)` test reads the flag without the lock: `wseen` says
whether the worker has, through the lock, synchronised with the write; until
then `LoopAgain` may read either value.  `FreeTask` is the owner of a task that does not delete itself
(`mert.cpp`, `mosesserver.cpp`).  `ran`, `freed`, `accepted`, `refused` and
`atStop` are history for the properties.

**OutputCollector, CollectorCalls** (`moses/OutputCollector.h`).  A collector is
a record of `m_nextOutput`, the keys of `m_outputs` and what was printed;
`Written(col, id)` is the whole of `Write`, the loop that releases held texts
included.  The mutex makes a call one action, so `CollectorCalls` calls it in
every order.

**MosesMain, InOrderOutput** (`moses-cmd/Main.cpp`, `TranslationTask.cpp`,
`IOWrapper.cpp`).  `MosesMain` instantiates `ThreadPool` with the main thread as
its only client and tasks that delete themselves.  `Output(w)` is one output
handler of `Run`, `Return(w)` its end; `NoHypothesis` and `SkippedThen` say for
which sentences and collectors a handler returns without calling `Write`, as
those of the chart decoder do (`ChartManager.cpp:308`).  `Expected` is how much of the
input can then be printed: all of it, or what precedes the first skipped sentence.  `InOrderOutput` is what a user expects of an
output file; `First` and `Last` map it to the first and the last collector.

**PCQueue, BoundedFIFO** (`util/pcqueue.hh`).  A call is four steps: the
semaphore, the mutex (where the address of the slot is taken), the end of the
copy, the other semaphore.  A slot is `Torn` while it is written.
`ProduceThrow` and `ConsumeThrow` are the `catch` blocks.  The refinement
mapping takes the queue to be the slots between the completed gets and the
completed puts.

**FilterController** (`lm/filter/thread.hh` and around it).  The reading thread
(`AddNGram`, `FillBatch`, `Refill`, `BeginFlush`, `Collect`, `EndFlush`,
`NextSection` and the destructors `PoisonFilter`, `PoisonOutput`, `JoinOutput`),
the filter workers and the output worker share batches through three queues,
which are taken to be bounded FIFO queues of atomic operations; that is what the
`queue` run shows of `PCQueue`.  An n-gram is its order and its place; whether
the filter passes it is left out (it passes all: order and loss can then be
seen for each).  An input is a format and the
lengths of its sections.

**WordsBitmap, ReorderingConstraint, PhraseSearch**.  A bitmap is the set of
translated words.  `ReorderingConstraint` translates `FinalizeWalls` and
`Check`, with its early returns turned into one condition.  A state of
`PhraseSearch` is a hypothesis as far as the extension looks at it
(`m_sourceCompleted` and the last range), a step is one pass of
`ProcessOneHypothesis`, `ExpandAllHypotheses` and the constructor.  A behaviour
is a derivation; pruning only removes some, so an invariant holds whatever is
pruned.  The distortion limit and the constraint are chosen in `Init`.

**StreamChain** (`util/stream/*`).  `queue[i]` connects link `i` to link `i+1`,
the last link is the recycler.  A link's `pc` is where its thread is: waiting in
`Consume`, holding a block, holding the poison, done.  What a thread does to a
block between two queue operations is one step, since nobody else may touch it
(that is `BlocksConserved`).  Link 1 writes entries, either as a `Stream` (whose
`Poison` passes the last block on with its valid size, be it zero, and takes
another block to poison) or as a `Read` worker; link 2 deletes entries in place, as the pruning worker of `lm/builder` does;
the links between only pass blocks; the last one reads.  `Join` and `Drain`, the two halves of `Wait`, and the
start of the next round are actions of the main thread.

**HypothesisStackNormal** (`moses/HypothesisStackNormal.cpp`, `Hypothesis.cpp`).  One
stack from its first `AddPrune` to its expansion.  A hypothesis is an address with a
coverage, a state of the feature functions and a score; two with the same coverage
and state are equal for recombination.  `Add` is `AddHypothesis` with the bookkeeping
of best and worst scores and the pruning when the stack has grown to its tolerated
size; `Pruned` is `PruneToSize`, where `Best` leaves open which of equal scores `sort`
and the heap put first; `AddArc`, `Freed` and `Cut` are the arc lists.  `bestOf` is
history: from it `MustSurvive` computes what a single pruning of everything that was
offered could not have dropped.

**SamplingAgenda** (`ug_bitext.{h,cc}`).  A client's `prep` and `lookup` hold
`Bitext::lock`; a worker's turn is `CheckShutdown` (before the lock of the agenda is
taken), `GetJob`, `RegisterWorker`, `Step` and `StepEnds` (the loop of `job::step`, under
the lock of the job, which it keeps while it skips occurrences), `CountGood` and
`AddPair` (the statistics are locked for each increment only), `Release`.  A worker that
finds no job is `ending` until its thread has returned, which is when `add_job` can
replace it.  Jobs are numbered as they are added, so the list of jobs is the set of the
numbers on it and its front the smallest.  An occurrence is the set of target phrases that are found there, a random
number any value that the generator may return.  When there is one worker thread at
most, the client of a lookup runs the same steps (`pooled` is false).  Left out: the
sampling bias, the counter `doomed` (it stays 0), and `workers` of a job as a count of
those still at work (the code never decrements it).

**PhraseCollectionCache** (`mmsapt.cpp`).  `Encached` is `encache` with its cases (no
history, already there, room, full), `BubbleUp` and `BubbleDown` are the two loops of
the heap with the back pointers, `Decached` is `decache`.  `Begin`, `Hit`, `Miss` and
`Store` are one look-up; `ReleaseCollection` is the end of an input path; `AddSentencePair`
makes cached collections stale.  A swap in `bubble_up` has the two collections exchange the
places they know (`Exchanged`), one in `bubble_down` tells each its own (`Swapped`); the loops
are recursive functions on the number of turns.  Time stamps are only compared, and only those
of the history, so they are renumbered by their order, with room between any two
(`Renumbered`).  A use is later than the latest of them by a member of
`ClockSteps`, which may be 0 or negative: the clock is `gettimeofday`, since `timespec` is no macro
and `#if defined(timespec)` (`mmsapt.cpp:772`) is never true.  The history variable `clock`
remembers whether it has advanced with every use, once stood still, or was set back
(`Observed`), for the properties to name.  When the history points to a
deleted collection (not `Intact`, section 7) a use would read or write freed memory; the model
allows no use from there on (`Undefined`).

## 4. The runs

| Run | Module, configuration | Shows |
|---|---|---|
| `pool` | `MCThreadPool`, `Pool.cfg` | `PoolInv` (a task is in one place at a time), `DrainedAtStop`, `NoUseAfterFree`, `SomeoneAwake`; every accepted task runs (`AcceptedIsRun`), `Stop` and a blocked `Submit` return (`CallsReturn`), with the exceptions named below |
| `collector` | `CollectorCalls`, `Collector.cfg` | any order of seven calls gives the stream in order (`CollectorInv`), complete at the end (`Complete`) |
| `main` | `MCMosesMain`, `Main.cfg` | both output streams implement `InOrderOutput`, its liveness included (`FirstOutput`, `LastOutput`); a text is held only for a sentence in some worker's hands or one that was skipped (`HeldForSomeone`) |
| `queue` | `PCQueue`, `Queue.cfg` | `PCQueue` implements `BoundedFIFO` in spite of a throw; no slot is read while written or written over (`SlotInv`); every call returns (`AllDelivered`) |
| `filter` | `MCFilterController`, `Filter.cfg` | the file is at all times a prefix of the expected one (`OutputInOrder`) and in the end equal to it, but for what the count format leaves out (`Completes`); a batch has one holder and numbers are distinct (`BatchInv`); the end of a section is written when nothing is in flight (`EndAfterOutput`) |
| `search` | `MCPhraseSearch`, `Search.cfg` | no dead end, the window bound (`SearchInv`), zones finished, walls kept, IDs distinct |
| `stack` | `MCHypothesisStackNormal`, `Stack.cfg` | every hypothesis has one owner and the stack is bounded (`StackInv`); what one pruning at the end would surely keep is kept (`NothingGoodLost`); the best is always there (`BestKept`); the limits only rise (`LimitsRise`) |
| `chain` | `MCStreamChain`, `Chain.cfg` | a block has one place and no queue is full when somebody produces (`RingInv`), poison is last, the reader gets exactly the kept entries, every round ends |
| `agenda` | `MCSamplingAgenda`, `Agenda.cfg` | `in_progress` counts who is at work (`AgendaInv`); ready statistics are those of a sample of the right size (`SampleSound`) and do not change (`ReadyIsFinal`); a lookup returns except in the case of `agenda_stall` (`Served`) |
| `tpc` | `MCPhraseCollectionCache`, `Tpc.cfg` | whatever the clock does, reference counts are right, nothing is deleted under a holder (`HeldAlive`) and nothing kept for nobody (`NothingLeaks`); history and back pointers agree, but for the top once the clock has not advanced (`HistorySound`); the collection used last does not leave unless the clock was set back (`NewestStays`) |
| `filter_even`, `agenda_stall` | `FilterEven.cfg`, `AgendaStall.cfg` | violations, see section 7 |

The inclusion in `pool` of both kinds of stop, of several clients and of a queue
limit goes beyond what any one caller does; `CallsReturn` and `AcceptedIsRun`
name what is excluded: `Stop(false)` gives up the queue (`GivenUp`), a task that a
blocked `Submit` adds after `Stop` has begun may stay there, and it may then keep
another `Submit` waiting for ever (`RefilledAtStop`, section 7).

### Bounds, and why they are enough

- `pool`: two workers (one can take a task while the other is between its test
  and its wait), three clients (two blocked in `Submit` while the owner stops, so that
  they compete for the place the drained queue leaves),
  three tasks, limit 1: each of queue empty, queue full, and blocked clients
  occurs with each state of a worker.  One task belongs to its client.  The
  proofs of section 6 remove these bounds for safety.
- `collector`: seven texts, so that runs of held texts of every length and with
  several gaps occur; `MosesMainProofs` removes the bound.
- `main`: two workers, four sentences, two streams: a worker can fall two
  sentences behind, and each collector can be ahead of the other.  One sentence
  has no translation; the handler of the first stream then returns without
  `Write`, as the chart decoder's does, that of the second writes an empty line, as
  those of the phrase-based decoder do.
- `queue`: two of each kind on two slots, four items, so that the ring wraps
  and both sides can hold their mutex at the same time; one exception,
  anywhere.
- `filter`: four batches (the number of batches is the capacity of every queue)
  of two n-grams, two workers.  Sections of 9 n-grams need more batches than
  there are, so batches are reused within a section; empty input and sections
  shorter than a batch are included.  One count input ends in the middle of a batch.
- `search`: five words, phrases of up to three, every limit from none (-1) and
  0 to 4, up to two nested or disjoint zones (of one word too) and up to two
  walls, so that walls are local to the inner zone, to the outer one or to none;
  `IdBits` is 4 where the code has 16, so that the pattern can reach its limit.
  Crossing zones are left out: tags can produce them, see the hazards.
- `chain`: three blocks of two entries, four workers and the recycler: more
  threads than blocks, and inputs of 0, 4 (a whole number of blocks) and 9
  entries (several laps, and a partial block), with a kept set that empties
  some blocks entirely.  Two rounds, with both kinds of source.
- `stack`: five addresses, so that a list of arcs passes through two recombinations;
  scores 1 to 4 with a beam of 2, so that hypotheses fall in and out of the beam;
  seven settings that put size below, at and above diversity, with and without arcs
  and early discarding.  Coverages and states are symmetric.  The number of
  hypotheses offered is not bounded, only how many exist at a time.
- `agenda`: two workers and two clients; a phrase with three occurrences, one of
  which yields nothing, for which both clients ask, and a rare one that is not cached;
  samples of all, one or two occurrences.  `MinDiverse` is 2 where the code has 10,
  `JobWorkers` 1 where it has 4, for the tests to go both ways: a sample of one is not diverse, and workers read on.  An estimate of the
  number of occurrences that is too low (2 for 3) is included.
- `tpc`: a history of three places, in which the heap has two levels; two phrases
  and one change of the bitext, so up to four current and outdated collections, which is
  one more than the history has places; one held by each of two sentences.  The clock
  steps are 1 (advances), 0 (stands still) and minus twice the number of collections
  (set back behind all the history); the proofs allow any step.  Sentences and phrases are symmetric.

Deadlock is checked in every passing run but `stack`, where the search goes on to the
next stack; a finished system has an explicit stuttering step (`Terminated`,
`Finished`).

## 5. Fairness

Weak fairness of each thread that can run: the operating system schedules it.
It is stated per thread (`Produce(p)`, `Worker(w)`, ...), never per action, so
that no branch of a thread's choice is forced.  For locks and semaphores this
reads: a thread in front of one that stays available gets it; where several
threads compete, each makes finitely many calls in the runs, so the others stop
competing.  `ThreadPool` assumes in addition that `Run` returns and that an
operation begun is carried on (`Fairness`): nobody is obliged to call `Submit`
or `Stop`.  Spurious wake-ups and unsynchronised reads are never fair, except
that a worker does not read the stale value of `m_stopped` for ever without
taking the lock, which each lap of the loop does.  In `SamplingAgenda` each client,
each thread and the two halves of the destructor are weakly fair; a client that holds
`Bitext::lock` is never blocked by another client, so that those in front of the lock
get it.

## 6. The proofs

Checked by TLAPS, without any unproved step.  The assumptions are those named in
the modules (`PoolAssumption`, `CountAssumption`, `MainAssumption`, `BitmapAssumption`,
`SearchAssumption`, `QueueAssumption`, `ControllerAssumption`, `ChainAssumption`,
`AgendaAssumption`, `CacheAssumption`, `StackAssumption`), which TLC evaluates for every run.

**ThreadPoolProofs**, for any sets of workers, clients and tasks and any queue
limit.  None of `DrainedAtStop` and `NoUseAfterFree` is inductive: that a task is
freed only when nobody holds it depends on the queue holding each task once and
no worker holding a queued one.  `PoolInv` says where a task is: `QueueInv` (queued
tasks are accepted, have not run, and are distinct), `HeldInv` (a worker's task is
its own, not queued, and has run exactly when `Run` has returned), `BlockedInv`
(a blocked client has a task not accepted yet), `DoneInv` (an accepted task that
has not run is queued or held; freed tasks have run), `StopInv` (the progress of
`Stop` and what it implies for the queue and the workers).  There is one lemma per
group of actions.

- `PoolInvariant`: `PoolInv`, which includes `TypeOK`, always holds.
- `StopDrains`: from `StopInv` (all workers have left, nothing accepted before the
  stop is queued) and `DoneInv`.
- `TasksAlive`: from `DoneInv` and `HeldInv`.
- `NoLostWakeup`: `SomeoneAwake` is inductive beside `PoolInv`: only a worker that
  finds the queue empty goes to sleep, and a push wakes everybody in the same step.

**MosesMainProofs**, first part: one collector, for any number of texts (`CollectorInvariant`,
`CollectorComplete`, about the specification of `CollectorCalls`).  `CollectorInv` is inductive
as it stands; `Sound` is the same of any collector and any set of ids it was called with, so
that the second part can use its lemmas for every stream.  The step that is not
obvious is the release of a run of held texts: `RunEnds` shows, with the least-number
principle (`LeastNatural`), where the run ends and that nothing printable stays
behind.  `CollectorComplete` follows:
when every id is written and none is printable, none is held.

**MosesMainProofs**, second part: the program, for any number of decoding threads, sentences and output streams,
any sentences without translation and any handlers that leave them out, and for
`FirstId` = 0 (with another the collectors wait for sentence 0, section 7).  The proofs about
the parts are used, not repeated: every step of the program is a step of the pool or leaves
it alone (`StepsOfPool`), so that `PoolInv` holds of it, and `Outputs` says that every
collector is `Sound` for the sentences its stream was given, `Given`: those run, and those
whose worker is past the handler.  Between the two stand what the composition adds: `Queued`
(the tasks accepted are those up to the current sentence, and the queue is the last of
them), `Ended` (the pool is stopped after the last sentence with `process`, and the streams
are closed after that) and `Stepping` (a worker writes only while it runs its task).

- `HeldForAWorker`: `HeldForSomeone`.  A text is held for a sentence that comes before one
  given to the stream; that one was taken from the queue, so by `Queued` the earlier was,
  too (`TakenInOrder`), and `DoneInv` of the pool finds the worker that has it.
- `OutputsInOrder`: the safety part of `FirstOutput` and `LastOutput`, for every stream.  A call
  of `Write` emits up to the next sentence missing or does nothing (`OutStep`); the streams
  are closed when the pool is stopped, where by the invariant of the pool every sentence was run,
  so that nothing is missing but what is left out (`CompleteAtEnd`).

**PhraseSearchProofs**, for every sentence length, phrase length, distortion limit,
set of translation options with one for every word, and set of constraints
(crossing zones included, except in `NeverADeadEnd`).

- `SearchInvariant`: `SearchInv`, that is `TypeOK`, `ConOK` (the constraint is one
  `Constraint` built), `WindowBound` and `BackWithinLimit`.  `WindowBound` alone is not
  inductive: an extension at the first gap moves the gap, and that the new gap is
  within reach of the phrase just placed follows from the bound on all words
  translated beyond it; conversely a phrase to the right of the gap is bounded by
  the test of its way back.
- `WallsKept`, `LocalWallsKept`: each is preserved by an extension on its own, given
  `SearchInv`.
- `ZonesFinished`: from `ZoneInv`, which says of every open zone (one with some of its words
  translated and some not) that the last phrase ended in it, and that it can be finished within
  the limit once it has a translated word right of the first gap.  A phrase can get out of an
  open zone at its end only if it completes it (`BeyondEnd`).
- `NeverADeadEnd`: `NoDeadEnd`, for any number of zones that are nested or apart, as tags
  without a span attribute are (`NestedZones`).  When every open zone has the first gap, the word there can be translated
  (`GapNext`; `BackWithinLimit` gives the distance).  Otherwise the open zones all have the end
  of the last phrase, hence lie one in another, and the first untranslated word of the innermost
  one without the gap can be translated (`ZoneNext`): no global wall is in the way, because
  `WallKept` allows no translated word behind it and walls in zones are local; a local wall of
  a zone around it would have a gap on its left, which `LocalWallKept` excludes, or belong to
  the inner zone (`OwnerIs`, by induction over the loop of `FinalizeWalls`); and `ZoneInv` leaves
  room for the jump and the way back.
- `DistinctIDs`: `IdDistinct`.  By `WindowBound` and a limit of at most `IdBits` the words
  right of the first gap have their digits in the pattern (`LimitedWindow`), which is therefore
  below the unit by which the start is multiplied (`PatternBound`); so equal IDs have
  equal starts and equal patterns (`Quotient`), a pattern tells its digits (`SameDigits`), and
  left of the gap all words are translated.  The loop of `GetID` is a recursive function on
  the natural numbers; that there is one with these values is proved from the least
  natural number (`SetInduction`, `BinaryExists`), without the library's induction theorems.

**PCQueueProofs**, for any number of slots, any finite disjoint sets of producers and
consumers, and any number of calls and exceptions.  The two sides hold different
mutexes; what keeps them apart is where the `Size` units of the semaphores are.
`Counts` says so: a unit is in `empty`, with a producer between its semaphore and the
end of its copy, in a filled slot, or with a consumer between its copy and its
post, and likewise for `used`.  `Positions` ties the two positions to the numbers of
completed copies modulo `Size` and allows one copy per side; `Filled` says that the
slots between them hold items.  The counts are cardinalities of sets of threads:
`CountStep` gives what one thread's step does to them, `Moves` applies it to each pair
of places.  That a producer writes to no filled slot (`WriteOutside`) is a fact about
remainders (`Remainder`, `Distinct`).

- `SlotInvariant`: `SlotInv`, from the inductive invariant.
- `QueueIsFIFO`: the refinement of `BoundedFIFO`.  A window of the ring grows by what a
  producer has copied (`WindowAppend`) and loses its head when a consumer has copied
  (`WindowTail`); every other step leaves it as it is, also a producer's beginning to
  write, which tears a slot outside the window.

**SamplingAgendaProofs**, for any finite sets of workers and clients, any phrases,
occurrences and estimates, and any sequences of calls.  `InProgressCounts` and
`JointWithinGood` are sums over threads, and what makes them inductive is to say which
threads: `in_progress` of a job is the number of threads between `register_worker` and
`release` (`AtWork`) plus one for the list, and the count of a target phrase together
with the threads that have still to add it (`Adding`) is at most `good`; the second
is the strengthening, since an occurrence is counted good before its target phrases are
added, by several workers at a time.  `Places` says which threads have a job and which
clients a running thread.  A step of one thread changes each sum by what the thread
itself counted for (`SetMoves`); `Weighed` is that balance and `Balance` concludes from
it, once for all steps of a worker that has a job (`WorkStepKeeps`) and once for
`get_job`.

- `AgendaSound`: `AgendaInv`, from the inductive invariant.
- `ReadyStatisticsAreFinal`: `ReadyIsFinal`.  The reader of ready statistics holds no
  lock, and a worker that was sent to the job before it left the list may still come.
  A second invariant, `Over`, says that a job off the list is done, and that a done job
  has a worker in the loop of `step` or nothing left to sample: the last to leave the
  loop has seen its condition false, and `Later` shows that it stays false (an
  occurrence read is not unread, and counts only grow).  `Effect` lists what a step can
  do to a job, for all actions at once.
- `SamplesAreSound`: `SampleSound`.  `Drawn` says of every job that there is a set of
  occurrences up to `next`, those taken, whose size is `sampled`, and that the good ones and
  those with each target phrase are as many as the job has counted plus those that threads
  have taken and not yet counted (`Fits`); a step takes an occurrence into the set
  (`SampleTaken`) or counts one thread less and the job one more (`SampleCarried`).  `Quota`
  bounds the size: a worker takes an occurrence only below the quota, but every worker may be
  about to count one, so that good occurrences and those being counted are at most
  `max_samples` - 1 + the crew (`CrewBound`); and what has not been read suffices to reach
  the quota.  `Duty` says who the crew is: the workers, or without them the one client
  that holds the lock, which is why a single thread overshoots by nothing.  `ReadyIsOver`
  turns this into the property: when statistics are ready no thread has anything to count.

The second half of the module is about `PhraseCollectionCache`, for any finite or infinite sets of
sentences and keys, any bounds and any clock: nothing is assumed of `ClockSteps` but that they are
integers.  The inductive invariant is `CacheInv`: the types
(`CacheState`), the back pointers (`Linked`), what the cache finds is alive and under its key
and nothing is left of a deleted collection (`Cached`), the reference counts (`Counted`),
`NothingLeaks`, and two facts about the top of the history.  `Linked` is as weak as the code: the
collection at the top may believe that it is not in the history.  It knows its place as long as the
history is not full or the clock has advanced with every use (`TopKnows`).  `TopIsOlder`
is what remains of a heap that is none: in a history of three or more places some other was
used as late as the top, unless the clock was set back.

The loops of the heap are functions on the number of turns.  That there is such a function and
what holds after each of its turns is proved once (`TurnsExist`, `TurnsStay`, from the least
natural number).  A swap keeps the weak `Linked`, whether the two exchange the places
they know (`ExchangedLinks`) or are told their own (`SwappedLinks`), and never makes the top forget
its place; `BubbleUpKeeps` and `BubbleDownKeeps` carry that through the loops.  In `bubble_down` the
newcomer does not know its place until the first swap, and there is one if it is later
than the others (`DownBegins`).  `EncachedKeeps` has a lemma per case of `encache`
(`EncacheSeen`, `EncacheAdds`, `EncacheReplaces`), `UseKeeps` adds the holder
and the renumbering of the stamps, which keeps their order (`RenumberedIs`, `RenewedKeeps`).  A use
is taken only while the history is `Intact`, so it finds its members alive.  The
holders of a collection are a set of pairs of a sentence and a place in its list: one more when it is
used (`HolderComes`); when one place is removed the later ones move, which is a bijection
(`HolderLeaves`).

- `CacheInvariant`: `CacheInv`.
- `HeldStaysAlive`, `HistoryStaysSound`, `NoLeak`: `HeldAlive`, `HistorySound`, `NothingLeaks`, from
  the invariant.
- `NewestIsKept`: `NewestStays`, an action property.  Only the top ever leaves
  (`OnlyTopLeaves`), and by `TopIsOlder` some other was used as late (`TopUsedAsLate`).  It excepts a
  capacity of two,
  where `bubble_up` may leave the newest at the top and the property is false; the code
  reserves at least 1000 places (`mmsapt.cpp:174`).

**FilterControllerProofs**, for any number of batches and workers, any batch size and
any inputs.  The output is in order because of where the batches are and what is in
them.  `Apart` says that every batch is in one of the places a batch can be in (the
reader's list, the three queues, a worker, the deque of the output worker) and in one only;
`Indexed` that a batch's place in the deque is its number less the number expected next;
`Blank` that batches come to the filter with an empty output; `Phases` what goes with each
control point of the reader (the poison is not on the queues before the end, and the batch
it fills has the last number).  `InOrder` is the invariant of the texts: `Orderly` takes the
file, the texts of the batches under way with their numbers and the lines read, and says
that each text is sorted, that a batch of a smaller number precedes one of a larger, that
the file precedes all of them, and that nothing read is missing.  It is proved about texts alone (`OrderlyNew`,
`OrderlyAppend`, `OrderlyEmit`, `OrderlyEnd`), and each action is an instance or leaves it
as it is (`OrderlySame`).

- `BatchesInOnePlace`: `BatchInv`, from `Apart` and `Indexed`.
- `FileInOrder`: `OutputInOrder`.  The property speaks of the file only; a batch that
  comes early must be known to be held until its turn, which `Indexed` does.
- `SectionAfterOutput`: `EndAfterOutput`.  The flush ends when the reader has as many
  batches in its list as there are; since the list has no batch twice it has all of them
  (`AllBack`), and by `Apart` none is anywhere else.

**StreamChainProofs**, for any number of workers above two, blocks, block sizes, inputs
and rounds.

- `RingConserved`: `RingInv`.  `Ring` says that no block is in two places, and while the
  chain runs the places of blocks number `BlockCount`.  The count is not a sum over queues
  but the cardinality of a set of places (a thread's hands, or an index of a queue): a
  step that moves a block is a bijection between the places before and after (`GiveMoves`,
  `ConsumeMoves`), so that the count stays without arithmetic.  That no queue is full
  when somebody holds a block follows: the indices of a queue and the hands are distinct
  places.
- `PoisonComesLast`: `PoisonLast`.  `Ending` is the inductive form: threads end in the order
  of the chain, and when one has ended the poison is at the end of the queue behind it or
  has been taken by the next.
- `AllDelivered`: `Delivered`.  `Flowing` orders what is on its way: the text of a block is
  ascending and within what is written, behind the pruning worker only kept entries are
  left, a block that is ahead of another in the chain has smaller entries, and every entry
  written that is kept is read or in a block (`Flow`).  A block counts from where the
  source has passed it on to where the last worker has read it, and with its valid size, so
  that what an earlier lap left in it never matters.  The steps are proved about texts and
  places alone (`FlowFilled`, `FlowCarried`, `FlowRead`).  `Drained` is needed at the start of
  a round, where the ring must be empty and all blocks back.

**HypothesisStackNormalProofs**, for any finite sets of coverages, states and addresses,
any scores above minus infinity even with the beam, any settings and any sequence of
hypotheses offered.  What makes `NothingGoodLost` hard is that a hypothesis is discarded
on limits that an earlier pruning set, or pruned among those that had come until then,
while the property speaks of all that was offered.  The proof counts places: each
hypothesis has a place, its coverage and its rank there, and `Places` are those taken by
the hypotheses that are not worse than a score, together with the ones the diversity
reserves.  The inductive invariant `IndInv` has four parts.  `Holds` is the ownership, of the
stack and the arc lists.  `Kept` says what the limits know: the common limit is minus
infinity, or within the beam of the best score, or there are as many places above it taken
as the size; the limit of a coverage is minus infinity or has as many of the
coverage above it as the diversity.  `Remembered` compares the stack with what was offered:
nothing on it is better than the best of its class, and each class that must survive
(`Must`) is on it with its best score.  The last part bounds the stack, by the size and the
diversity after a pruning (`Fits`) and by the tolerated size before.

Three facts carry the steps.  Places only grow when a hypothesis is added or replaced by a
better one (`PlacesBetter`, `AddBetter`), so limits stay justified.  A pruning that throws one
away leaves enough places above it taken (`LostFromStack`, `LostFromCoverage`), so one
that must survive is not thrown away, and the limits it sets are justified
(`NewWorst`) and no lower than before (`WorstRises`).  And more offers mean fewer that
must survive (`MustShrinks`), while one that is discarded below a limit is not among them
(`DiscardRemembers`): the places above the limit are taken on the stack, hence among the
offers (`StackBelowOffer`).

- `StackSound`: `StackInv`, from `Holds` and `Fits`.
- `PruningIsSafe`: `NothingGoodLost`; `MustSurviveIs` translates its classes into `Must`.
- `BestIsKept`: `BestKept`; a pruning keeps one of the best (`PrunedBest`).
- `LimitsOnlyRise`: `LimitsRise`, an action property, from the same lemmas about the steps.

The one assumption that the code does not state is in `StackAssumption`: `LogZero` is below
every score less the beam, so that "no limit yet" is below every limit.

Model-checked only: liveness (`AcceptedIsRun`, `CallsReturn`, `AllDelivered`,
`Completes`, `Served`), which TLAPS does not treat under fairness; the refinements
`FirstOutput` and `LastOutput`, for their liveness.

## 7. Where the code and its documentation disagree

Two runs whose single property TLC finds violated:

- `filter_even`: an ARPA section whose length is a multiple of the batch size (or
  is zero) makes `Flush` take a batch number that nobody delivers
  (`thread.hh:137`); the output worker waits for it for ever.
- `agenda_stall`: a job that is added while the workers have found the list empty and
  have not yet ended is given to nobody (`ug_bitext.h:933`): they are not replaced
  then, and no later job finds the list empty.

Other behaviours met while modelling, which the models have and the properties of
passing runs state or except by name:

- With `-start-translation-id` other than 0 every collector waits for sentence 0
  (`OutputCollector.h:46`) and nothing is printed; the chart decoder does not call
  `Write` for a sentence without translation (`ChartManager.cpp:308`), and all later
  sentences stay in the collector.  The first is outside the `main` run (`FirstId` is 0),
  the second is `Expected` in `MosesMain`.
- The count format never calls `Flush` (`format.hh:129`): with several threads the
  n-grams of the last batch, if it is not full, are dropped.  `Whole` in
  `FilterController`.
- `bubble_up` takes `k/2` for the parent of `k`, `bubble_down` `2k+1` and `2k+2` for the
  children (`mmsapt.cpp`): the history is not a heap, and what leaves it is not the
  collection that was used longest ago.  `NewestStays` is what remains.
- `bubble_down` sets the back pointer only where it swaps (`mmsapt.cpp:799`), so a new
  collection that is not younger than the two below it stays at the top of a full history
  with `idx` -1, which is to be its "position in history heap" (`mmsapt.h:145`).  `encache`
  stamps with the clock of the wall, which can repeat a stamp or be set back.  `Release` then
  deletes the collection, the history still points to it, and the next `encache` writes there.
  `HistorySound` states exactly this exception: the place at the top, and only once `clock` is
  not "advances".  Without it TLC finds the property violated as soon as two uses have the
  same stamp.
- `Submit` reads `m_stopping` before its wait and not after (`ThreadPool.cpp:72`, `76`).  Of several
  callers blocked when `Stop(true)` comes, one fills the place that the drained queue
  leaves when `m_stopped` is already set; the workers leave without looking at the queue
  (`ThreadPool.cpp:51`, `67`), and the others find it full again and wait for ever.
  `CallsReturn` excepts this as `RefilledAtStop`; without the exception TLC finds it
  violated with three clients, not with two.  No caller in the tree sets a queue limit.
- `min_diverse`, "minimum number of distinct translations" (`ug_bitext.h:596`), keeps
  `job::step` in its loop when the quota is reached, but the loop takes no occurrence
  then: without a bias the rest is read and skipped.  The upper bound of `SampleSound`
  holds with it.
- The pruning of a stack keeps what is strictly inside the beam, early discarding what
  is at its edge as well (`HypothesisStackNormal.cpp`); `MustSurvive` uses the strict one.

Outside the models: `GetIDPlus` takes the word after the new span for the first gap
(`WordsBitmap.h:235`), which gives early discarding on expected scores the wrong
coverage; `HypothesisStackNormal.cpp:79` shifts by the distortion limit, also when it
is -1; the look-up of whole sentences caches a list before it is filled
(`ug_bitext.h:1519`).

## 8. Abstractions to keep in mind

- Memory is sequentially consistent except for the one flag the code reads
  without its lock, `m_stopped` in `Execute`.
- The condition variables wake every waiter on `notify_all` in one step; the
  woken threads then compete for the lock in any order.
- Allocation failures, I/O errors and exceptions thrown by a task's `Run` are left
  out; so are workers of a stream chain that end the process.
- Scores are not computed: `PhraseSearch` allows any extension the limits allow, and
  `HypothesisStackNormal` is offered any score.
- The seed of a search under `-continue-partial-translation` is a translated front
  of the sentence, the case the option supports.
- Crossing zones of the reordering constraint are left out of the runs.  The proofs
  include them but for `NeverADeadEnd`, which is false of them: with the zones 0-1 and 1-2
  and word 1 translated first, each zone forbids what the other demands.
- In `SamplingAgenda` the statistics `raw`, `sampled`, `good` and the joint counts stand
  for all fields of `pstats`; alignments and orientation counts change with them.
- `Step` of `SamplingAgenda` evaluates the test of the loop (`ug_bitext.h:667`) and the test of
  the random number (`ug_bitext.h:691`), both of which read `stats->good` without a lock, in
  one step.  When another worker reaches the quota between the two tests, the code reads one
  occurrence more and skips it, which is neither sampled nor counted.  No claim about
  `in_progress` depends on it.
- The filter passes every n-gram, and the buffers for several output files are left
  out.
