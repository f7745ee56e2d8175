----------------------------- MODULE StreamChain -----------------------------
(***************************************************************************)
(* util/stream/chain.{hh,cc} and stream.hh: a fixed set of memory blocks   *)
(* goes round a ring of threads.  Queue i connects link i to link i + 1;   *)
(* link 1 fills blocks, links 2..Workers work on them in place, and link   *)
(* Workers + 1, the recycler, hands them back to queue 0.  Poison, a block *)
(* without memory, ends it.  The main thread builds the ring, waits, and   *)
(* may use the chain again.                                                *)
(*   Here link 2 deletes entries in place (lm/builder's PruneNGramStream)  *)
(* and the last worker reads them (Stream).                                *)
(***************************************************************************)
EXTENDS Integers, SequencesExt

CONSTANTS
  Workers,      \* links between the lead queue and the recycler, the source included
  BlockCount,   \* config_.block_count
  BlockSize,    \* block_size_, in entries
  Totals,       \* bound: how many entries there may be in a round
  Rounds,       \* bound: how often the chain is used
  Kept,         \* the entries that link 2 leaves
  NoBlock

ASSUME ChainAssumption ==
  /\ Workers \in Nat /\ Workers > 2
  /\ BlockCount \in Nat \ {0}   \* Chain::Chain throws on "block count zero"
  /\ BlockSize \in Nat \ {0}
  /\ Totals \subseteq Nat
  /\ Rounds \in Nat
  /\ NoBlock \notin 1..BlockCount

VARIABLES
  memory,    \* the entries in each block
  queue,     \* queues_
  link,      \* per link: where its thread is (pc) and the block it has (current_)
  main,      \* "idle", "running" or "draining"
  drained,   \* blocks that the drain in Wait has consumed
  round,
  source,    \* the worker of link 1: "Stream" or "Read"
  total,     \* entries the source will write
  written,   \* entries it has written
  delivered, \* entries the last worker has read
  ending     \* the source has called Poison

vars == <<memory, queue, link, main, drained, round, source, total, written, ending, delivered>>
data == <<memory, source, total, written, ending, delivered>>

Blocks == 1..BlockCount
Links == 1..(Workers + 1)
Queues == 0..Workers
Recycler == Workers + 1
In(i) == i - 1
Out(i) == IF i = Recycler THEN 0 ELSE i

Poison == [block |-> NoBlock, size |-> 0]
Absent == [pc |-> "absent", current |-> Poison]

Init ==
  /\ memory = [b \in Blocks |-> [k \in 1..BlockSize |-> 0]]
  /\ queue = [q \in Queues |-> <<>>]
  /\ link = [i \in Links |-> Absent]
  /\ main = "idle" /\ drained = 0 /\ round = 0
  /\ source = "Stream" /\ total = 0 /\ written = 0 /\ ending = FALSE /\ delivered = <<>>

-----------------------------------------------------------------------------
(* The main thread                                                         *)

\* Populate the lead queue with blocks; a new source will write new entries.
Start ==
  /\ main = "idle" /\ round < Rounds
  /\ queue' = [queue EXCEPT ![0] = [b \in Blocks |-> [block |-> b, size |-> BlockSize]]]
  /\ main' = "running"
  /\ source' \in {"Stream", "Read"}
  /\ total' \in Totals
  /\ written' = 0 /\ ending' = FALSE /\ delivered' = <<>>
  /\ UNCHANGED <<memory, link, drained, round>>

\* The threads are launched in order; operator>> or, for the last, CompleteLoop
Launch(i) ==
  /\ main = "running"
  /\ link[i].pc = "absent"
  /\ \A j \in 1..(i - 1) : link[j].pc # "absent"
  /\ link' = [link EXCEPT ![i].pc = "consume"]
  /\ UNCHANGED <<queue, main, drained, round, data>>

\* Wait: threads_.clear() joins the threads
Join ==
  /\ main = "running"
  /\ \A i \in Links : link[i].pc = "done"
  /\ link' = [i \in Links |-> Absent]
  /\ main' = "draining"
  /\ drained' = 0
  /\ UNCHANGED <<queue, round, data>>

\* The blocks left in the lead queue are counted up to the poison.
Drain ==
  /\ main = "draining"
  /\ queue[0] # <<>>
  /\ IF Head(queue[0]) = Poison
     THEN /\ queue' = [q \in Queues |-> <<>>]
          /\ main' = "idle"
          /\ round' = round + 1
          /\ UNCHANGED drained
     ELSE /\ queue' = [queue EXCEPT ![0] = Tail(@)]
          /\ main' = IF drained = BlockCount THEN "aborted" ELSE main
          /\ drained' = drained + 1
          /\ UNCHANGED round
  /\ UNCHANGED <<link, data>>

-----------------------------------------------------------------------------
(* A link.  Its thread holds a block, passes it on and consumes the next.  *)

Put(i, item) ==
  /\ Len(queue[Out(i)]) < BlockCount
  /\ queue' = [queue EXCEPT ![Out(i)] = Append(@, item)]

\* Init and the second half of operator++
Consume(i) ==
  /\ link[i].pc = "consume"
  /\ queue[In(i)] # <<>>
  /\ queue' = [queue EXCEPT ![In(i)] = Tail(@)]
  /\ LET item == Head(queue[In(i)])
     IN  link' = [link EXCEPT ![i] = [pc |-> IF item = Poison THEN "poisoned" ELSE "held",
                                      current |-> item]]
  /\ UNCHANGED <<main, drained, round, data>>

\* The first half of operator++, after the work: the block is passed on with n
\* valid entries.
Pass(i, n) ==
  /\ Put(i, [link[i].current EXCEPT !.size = n])
  /\ link' = [link EXCEPT ![i] = [pc |-> "consume", current |-> Poison]]

\* (mutant) ~Link does not see that the poison was passed on already
MutPassPoison(i) ==
  /\ link[i].pc = "poisoned"
  /\ queue' = [queue EXCEPT ![Out(i)] = @ \o <<Poison, Poison>>]
  /\ link' = [link EXCEPT ![i] = [pc |-> "done", current |-> Poison]]
  /\ UNCHANGED <<main, drained, round, data>>

\* At the end of operator++, in Poison or, if the first block was poison, in ~Link
PassPoison(i) ==
  /\ link[i].pc = "poisoned"
  /\ Put(i, Poison)
  /\ link' = [link EXCEPT ![i] = [pc |-> "done", current |-> Poison]]
  /\ UNCHANGED <<main, drained, round, data>>

\* the valid entries of the block that link i holds
Entries(i) ==
  [k \in 1..link[i].current.size |-> memory[link[i].current.block][k]]

\* the memory with s at the beginning of the block that link i holds
Overwritten(i, s) ==
  [memory EXCEPT ![link[i].current.block] =
    [k \in 1..BlockSize |-> IF k <= Len(s) THEN s[k] ELSE @[k]]]

Least(m, n) == IF m < n THEN m ELSE n

-----------------------------------------------------------------------------
(* The workers                                                             *)

Written(n) == [k \in 1..n |-> written + k]

\* (mutant) Poison sends a poison without taking another block for it
MutStreamFills(n, size) ==
  /\ Put(1, [link[1].current EXCEPT !.size = n])
  /\ link' = [link EXCEPT ![1] = [pc |-> IF n < size THEN "poisoned" ELSE "consume",
                                  current |-> Poison]]
  /\ ending' = (n < size)

\* Stream: a full block is passed on as it is.  After the last entry Poison sets
\* the valid size, even to zero, passes the block on and takes another.
StreamFills(n, size) ==
  /\ Pass(1, n)
  /\ ending' = (n < size)

SourceStream ==
  /\ link[1].pc = "held" /\ source = "Stream" /\ ~ending
  /\ LET size == link[1].current.size
         n == Least(size, total - written)
     IN  /\ memory' = Overwritten(1, Written(n))
         /\ written' = written + n
         /\ StreamFills(n, size)
  /\ UNCHANGED <<main, drained, round, source, total, delivered>>

ReadSize == Least(BlockSize, total - written)

\* Read: "got" entries of the file, until there are none
SourceRead ==
  /\ link[1].pc = "held" /\ source = "Read" /\ written < total
  /\ memory' = Overwritten(1, Written(ReadSize))
  /\ written' = written + ReadSize
  /\ Pass(1, ReadSize)
  /\ UNCHANGED <<main, drained, round, source, total, ending, delivered>>

\* Link::Poison turns the block that the source holds into poison.
PoisonHeld ==
  /\ link[1].pc = "held"
  /\ IF source = "Stream" THEN ending ELSE written = total
  /\ link' = [link EXCEPT ![1] = [pc |-> "poisoned", current |-> Poison]]
  /\ UNCHANGED <<queue, main, drained, round, data>>

\* (mutant) deleted entries stay in the valid part of the block
MutStaying == 1..link[2].current.size

\* the places of the entries that stay
Staying == {k \in 1..link[2].current.size : Entries(2)[k] \in Kept}

\* A finite set of places in ascending order; there is one way to list it.
Ascending(S) == {list \in [1..Cardinality(S) -> S] : \A j, k \in DOMAIN list : j < k => list[j] < list[k]}

\* PruneNGramStream: the entries that stay are moved to the front of the block.
Prune ==
  /\ link[2].pc = "held"
  /\ \E list \in Ascending(Staying) :
       /\ memory' = Overwritten(2, [k \in 1..Len(list) |-> Entries(2)[list[k]]])
       /\ Pass(2, Len(list))
  /\ UNCHANGED <<main, drained, round, source, total, written, ending, delivered>>

\* A worker in between that changes nothing the reader looks at
Forward(i) ==
  /\ link[i].pc = "held"
  /\ Pass(i, link[i].current.size)
  /\ UNCHANGED <<main, drained, round, data>>

\* A Stream that reads every entry of a block, or skips an empty one
Read ==
  /\ link[Workers].pc = "held"
  /\ delivered' = delivered \o Entries(Workers)
  /\ Pass(Workers, link[Workers].current.size)
  /\ UNCHANGED <<main, drained, round, memory, source, total, written, ending>>

\* (mutant) the valid size is left as the workers have set it
MutRecycle ==
  /\ link[Recycler].pc = "held"
  /\ Pass(Recycler, link[Recycler].current.size)
  /\ UNCHANGED <<main, drained, round, data>>

Recycle ==
  /\ link[Recycler].pc = "held"
  /\ Pass(Recycler, BlockSize)
  /\ UNCHANGED <<main, drained, round, data>>

Work(i) ==
  \/ i = 1 /\ (SourceStream \/ SourceRead \/ PoisonHeld)
  \/ i = 2 /\ Prune
  \/ i \in 3..(Workers - 1) /\ Forward(i)
  \/ i = Workers /\ Read
  \/ i = Recycler /\ Recycle

Thread(i) == Consume(i) \/ Work(i) \/ PassPoison(i)
Main == Start \/ (\E i \in Links : Launch(i)) \/ Join \/ Drain

Finished == main = "idle" /\ round = Rounds

Next == Main \/ (\E i \in Links : Thread(i)) \/ (Finished /\ UNCHANGED vars)

\* Every thread is scheduled; a thread at a queue waits for one other thread only.
Spec == Init /\ [][Next]_vars /\ WF_vars(Main) /\ (\A i \in Links : WF_vars(Thread(i)))

-----------------------------------------------------------------------------
Items == {Poison} \union [block : Blocks, size : 0..BlockSize]

TypeOK ==
  /\ memory \in [Blocks -> [1..BlockSize -> Nat]]
  /\ queue \in [Queues -> Seq(Items)]
  /\ link \in [Links -> [pc : {"absent", "consume", "held", "poisoned", "done"}, current : Items]]
  /\ main \in {"idle", "running", "draining"}
  /\ drained \in 0..BlockCount /\ round \in 0..Rounds
  /\ source \in {"Stream", "Read"} /\ ending \in BOOLEAN
  /\ total \in Totals \union {0} /\ written \in 0..total
  /\ delivered \in Seq(Nat)

\* What is in the ring: place <<q, k>> is the k-th in queue q, place <<i, 0>> is in
\* the hands of link i.
Holders == {i \in Links : link[i].pc \in {"held", "poisoned"}}
Places == (UNION {{<<q, k>> : k \in 1..Len(queue[q])} : q \in Queues}) \union {<<i, 0>> : i \in Holders}
At(p) == IF p[2] = 0 THEN link[p[1]].current ELSE queue[p[1]][p[2]]

\* A block's memory belongs to one queue or thread at a time, although queues and
\* links copy blocks freely; and the poison takes the place of a block, so that the
\* ring never holds more items than there are blocks.
BlocksConserved ==
  /\ \A p, r \in Places : At(p) # Poison /\ At(p).block = At(r).block => p = r
  /\ main = "running" => Cardinality(Places) = BlockCount

\* "This queue can accomodate all blocks" (chain.cc:92): Produce never waits, in
\* any queue, so that the ring cannot be stuck with every thread producing.
NeverFull == \A i \in Holders : Len(queue[Out(i)]) < BlockCount

\* The ring as a whole.
RingInv == TypeOK /\ BlocksConserved /\ NeverFull

\* Nothing comes after the poison, and a thread that has passed it leaves nothing
\* behind, but for the source, whose queue the recycler feeds.
PoisonLast ==
  /\ \A q \in Queues : \A k \in 1..(Len(queue[q]) - 1) : queue[q][k] # Poison
  /\ \A i \in Links \ {1} : link[i].pc = "done" => queue[In(i)] = <<>>

\* The last worker reads what was kept of the input, in order and nothing else,
\* and all of it before it has passed the poison: no entry of an earlier lap or round
\* is left in the valid part of a recycled block.
Delivered ==
  LET input == Kept \intersect 1..total
  IN  /\ \A k \in 1..Len(delivered) : delivered[k] \in input
      /\ \A j, k \in 1..Len(delivered) : j < k => delivered[j] < delivered[k]
      /\ \A k \in 1..Len(delivered) : \A x \in input : x < delivered[k] => x \in Range(delivered)
      /\ link[Workers].pc = "done" => input \subseteq Range(delivered)

\* Wait returns: all threads end and the drain finds the poison, each time.
Completes == <>[]Finished
=============================================================================
