------------------------------- MODULE PCQueue -------------------------------
(***************************************************************************)
(* util/pcqueue.hh: a ring of Size slots shared by producers and           *)
(* consumers.  One semaphore counts the empty slots, another the used      *)
(* ones; a mutex on each side protects the position in the ring.  Copying  *)
(* an item takes time (a slot is Torn while it is written) and may throw.  *)
(***************************************************************************)
EXTENDS Naturals, Sequences, FiniteSets

CONSTANTS
  Size,         \* number of slots
  Producers, Consumers,
  PerThread,    \* a producer p puts the items <<p, 1>>...<<p, PerThread>>, and a
                \* consumer takes PerThread items
  MaxThrows,    \* bound on how often a copy throws
  NoItem, Torn

ASSUME QueueAssumption ==
  /\ Size \in Nat \ {0}
  /\ IsFiniteSet(Producers) /\ IsFiniteSet(Consumers) /\ Producers \intersect Consumers = {}
  /\ PerThread \in Nat
  /\ MaxThrows \in Nat

VARIABLES
  empty, used,            \* the two semaphores
  storage,                \* the slots
  produceAt, consumeAt,   \* the positions
  slot,                   \* the slot each thread copies to or from
  pc,                     \* where each thread is in Produce or Consume
  done,                   \* how many calls each thread has completed
  got,                    \* the item each consumer took last
  puts, gets,             \* completed copies into and out of the ring
  throws

vars == <<empty, used, storage, produceAt, consumeAt, slot, pc, done, got, puts, gets, throws>>

Slots == 0..(Size - 1)
Items == Producers \X (1..PerThread)
Total == PerThread * Cardinality(Producers)
Advance(at) == (at + 1) % Size

Init ==
  /\ empty = Size /\ used = 0
  /\ storage = [s \in Slots |-> NoItem]
  /\ produceAt = 0 /\ consumeAt = 0
  /\ slot = [t \in Producers \union Consumers |-> 0]
  /\ pc = [t \in Producers \union Consumers |-> "idle"]
  /\ done = [t \in Producers \union Consumers |-> 0]
  /\ got = [c \in Consumers |-> NoItem]
  /\ puts = 0 /\ gets = 0 /\ throws = 0

-----------------------------------------------------------------------------
(* Produce *)

\* (mutant) the empty slots are not waited for
MutProduceWait(p) ==
  /\ pc[p] = "idle" /\ done[p] < PerThread
  /\ empty' = IF empty > 0 THEN empty - 1 ELSE 0
  /\ pc' = [pc EXCEPT ![p] = "waited"]
  /\ UNCHANGED <<used, storage, produceAt, consumeAt, slot, done, got, puts, gets, throws>>

ProduceWait(p) ==
  /\ pc[p] = "idle" /\ done[p] < PerThread
  /\ empty > 0
  /\ empty' = empty - 1
  /\ pc' = [pc EXCEPT ![p] = "waited"]
  /\ UNCHANGED <<used, storage, produceAt, consumeAt, slot, done, got, puts, gets, throws>>

\* (mutant) the position is not protected by a mutex
MutProduceLock(p) ==
  /\ pc[p] = "waited"
  /\ slot' = [slot EXCEPT ![p] = produceAt]
  /\ pc' = [pc EXCEPT ![p] = "copying"]
  /\ storage' = [storage EXCEPT ![produceAt] = Torn]
  /\ UNCHANGED <<empty, used, produceAt, consumeAt, done, got, puts, gets, throws>>

ProduceLock(p) ==
  /\ pc[p] = "waited"
  /\ \A q \in Producers : pc[q] # "copying"
  /\ slot' = [slot EXCEPT ![p] = produceAt]
  /\ pc' = [pc EXCEPT ![p] = "copying"]
  /\ storage' = [storage EXCEPT ![produceAt] = Torn]
  /\ UNCHANGED <<empty, used, produceAt, consumeAt, done, got, puts, gets, throws>>

\* the copy is complete, the position advances and the mutex is released
ProduceCopied(p) ==
  /\ pc[p] = "copying"
  /\ storage' = [storage EXCEPT ![slot[p]] = <<p, done[p] + 1>>]
  /\ produceAt' = Advance(produceAt)
  /\ puts' = puts + 1
  /\ pc' = [pc EXCEPT ![p] = "copied"]
  /\ UNCHANGED <<empty, used, consumeAt, slot, done, got, gets, throws>>

\* the copy throws: empty_.post() gives the slot back
ProduceThrow(p) ==
  /\ pc[p] = "copying" /\ throws < MaxThrows
  /\ empty' = empty + 1
  /\ throws' = throws + 1
  /\ pc' = [pc EXCEPT ![p] = "idle"]
  /\ UNCHANGED <<used, storage, produceAt, consumeAt, slot, done, got, puts, gets>>

ProducePost(p) ==
  /\ pc[p] = "copied"
  /\ used' = used + 1
  /\ done' = [done EXCEPT ![p] = @ + 1]
  /\ pc' = [pc EXCEPT ![p] = "idle"]
  /\ UNCHANGED <<empty, storage, produceAt, consumeAt, slot, got, puts, gets, throws>>

-----------------------------------------------------------------------------
(* Consume *)

ConsumeWait(c) ==
  /\ pc[c] = "idle" /\ done[c] < PerThread
  /\ used > 0
  /\ used' = used - 1
  /\ pc' = [pc EXCEPT ![c] = "waited"]
  /\ UNCHANGED <<empty, storage, produceAt, consumeAt, slot, done, got, puts, gets, throws>>

ConsumeLock(c) ==
  /\ pc[c] = "waited"
  /\ \A d \in Consumers : pc[d] # "copying"
  /\ slot' = [slot EXCEPT ![c] = consumeAt]
  /\ pc' = [pc EXCEPT ![c] = "copying"]
  /\ UNCHANGED <<empty, used, storage, produceAt, consumeAt, done, got, puts, gets, throws>>

ConsumeCopied(c) ==
  /\ pc[c] = "copying"
  /\ got' = [got EXCEPT ![c] = storage[slot[c]]]
  /\ consumeAt' = Advance(consumeAt)
  /\ gets' = gets + 1
  /\ pc' = [pc EXCEPT ![c] = "copied"]
  /\ UNCHANGED <<empty, used, storage, produceAt, slot, done, puts, throws>>

\* (mutant) the wrong semaphore is posted after an exception
MutConsumeThrow(c) ==
  /\ pc[c] = "copying" /\ throws < MaxThrows
  /\ empty' = empty + 1
  /\ throws' = throws + 1
  /\ pc' = [pc EXCEPT ![c] = "idle"]
  /\ UNCHANGED <<used, storage, produceAt, consumeAt, slot, done, got, puts, gets>>

\* the copy throws: used_.post() leaves the item to be consumed
ConsumeThrow(c) ==
  /\ pc[c] = "copying" /\ throws < MaxThrows
  /\ used' = used + 1
  /\ throws' = throws + 1
  /\ pc' = [pc EXCEPT ![c] = "idle"]
  /\ UNCHANGED <<empty, storage, produceAt, consumeAt, slot, done, got, puts, gets>>

ConsumePost(c) ==
  /\ pc[c] = "copied"
  /\ empty' = empty + 1
  /\ done' = [done EXCEPT ![c] = @ + 1]
  /\ pc' = [pc EXCEPT ![c] = "idle"]
  /\ UNCHANGED <<used, storage, produceAt, consumeAt, slot, got, puts, gets, throws>>

-----------------------------------------------------------------------------
Produce(p) == ProduceWait(p) \/ ProduceLock(p) \/ ProduceCopied(p) \/ ProducePost(p)
Consume(c) == ConsumeWait(c) \/ ConsumeLock(c) \/ ConsumeCopied(c) \/ ConsumePost(c)

Finished == \A t \in DOMAIN done : done[t] = PerThread /\ pc[t] = "idle"

Next ==
  \/ \E p \in Producers : Produce(p) \/ ProduceThrow(p)
  \/ \E c \in Consumers : Consume(c) \/ ConsumeThrow(c)
  \/ Finished /\ UNCHANGED vars

Spec == Init /\ [][Next]_vars

\* Each thread is scheduled, and a thread in front of a semaphore or mutex that is
\* again and again available gets it: every thread makes finitely many calls.
FairSpec == Spec /\ (\A p \in Producers : WF_vars(Produce(p)))
                 /\ (\A c \in Consumers : WF_vars(Consume(c)))

-----------------------------------------------------------------------------
TypeOK ==
  /\ empty \in 0..Size /\ used \in 0..Size
  /\ storage \in [Slots -> Items \union {NoItem, Torn}]
  /\ produceAt \in Slots /\ consumeAt \in Slots
  /\ slot \in [Producers \union Consumers -> Slots]
  /\ pc \in [Producers \union Consumers -> {"idle", "waited", "copying", "copied"}]
  /\ done \in [Producers \union Consumers -> 0..PerThread]
  /\ got \in [Consumers -> Items \union {NoItem}]
  /\ puts \in Nat /\ gets \in Nat /\ throws \in 0..MaxThrows

\* A consumer never copies from a slot that a producer is writing or has not
\* written: the two positions are protected by different mutexes, so that only
\* the semaphores keep the two sides apart.
NoTornRead ==
  \A c \in Consumers : pc[c] = "copying" => storage[slot[c]] \in Items

\* A slot is not written over before its item has been taken.
NoOverwrite ==
  \A p \in Producers : pc[p] = "copying" => puts - gets < Size

\* What the semaphores must see to, as the mutexes of the two sides do not.
SlotInv == TypeOK /\ NoTornRead /\ NoOverwrite

\* The ring is a bounded first-in first-out queue: copies take effect in the order
\* of the positions although the semaphores are posted in any order, and a throw
\* neither loses nor repeats an item.
FIFO == INSTANCE BoundedFIFO
  WITH items <- [k \in 1..(puts - gets) |-> storage[(gets + k - 1) % Size]]

ImplementsFIFO == FIFO!Spec

\* Everything that is produced is consumed, and nobody stays blocked.
AllDelivered == <>(gets = Total /\ Finished)
=============================================================================
