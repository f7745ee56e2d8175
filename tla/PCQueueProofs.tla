---------------------------- MODULE PCQueueProofs ----------------------------
(***************************************************************************)
(* For any number of slots, producers and consumers: the semaphores keep   *)
(* the two sides apart, and PCQueue implements BoundedFIFO.                *)
(***************************************************************************)
EXTENDS PCQueue, FiniteSetTheorems, SequenceTheorems, TLAPS

-----------------------------------------------------------------------------
(* Positions in a ring of N slots                                          *)

\* The remainder is a position in the ring.
LEMMA Division ==
  ASSUME NEW N \in Nat \ {0}, NEW a \in Nat
  PROVE  /\ (a % N) \in 0..(N - 1)
         /\ \E q \in Nat : a = (N * q) + (a % N)
  <1>1. (a % N) \in 0..(N - 1)
    OBVIOUS
  <1>2. a = (N * (a \div N)) + (a % N) /\ (a \div N) \in Nat
    OBVIOUS
  <1> QED BY <1>1, <1>2

\* No multiple of N lies between 0 and N.
LEMMA Multiples ==
  ASSUME NEW N \in Nat \ {0}, NEW k \in Int, 0 < N * k, N * k < N
  PROVE  FALSE
  OBVIOUS

\* Fewer than N apart, two numbers have different positions.
LEMMA Distinct ==
  ASSUME NEW N \in Nat \ {0}, NEW a \in Nat, NEW b \in Nat, a < b, b < a + N
  PROVE  (a % N) # (b % N)
  <1> SUFFICES ASSUME (a % N) = (b % N) PROVE FALSE
    OBVIOUS
  <1>1. PICK q \in Nat : a = (N * q) + (a % N)
    BY Division
  <1>2. PICK p \in Nat : b = (N * p) + (b % N)
    BY Division
  <1> DEFINE r == a % N
  <1>3. r \in Nat
    BY Division
  <1> HIDE DEF r
  <1>4. b - a = (N * p) - (N * q)
    BY <1>1, <1>2, <1>3 DEF r
  <1>5. b - a = N * (p - q)
    BY <1>4
  <1> QED BY <1>5, Multiples

\* A position is its own remainder.
LEMMA Remainder ==
  ASSUME NEW N \in Nat \ {0}, NEW q \in Nat, NEW r \in 0..(N - 1)
  PROVE  ((N * q) + r) % N = r
  OBVIOUS

\* The position of the next number is the next position in the ring.
LEMMA Successor ==
  ASSUME NEW N \in Nat \ {0}, NEW a \in Nat
  PROVE  ((a % N) + 1) % N = (a + 1) % N
  <1>1. PICK q \in Nat : a = (N * q) + (a % N)
    BY Division
  <1> DEFINE r == a % N
  <1>2. r \in 0..(N - 1)
    BY Division
  <1>3. a = (N * q) + r
    BY <1>1
  <1> HIDE DEF r
  <1>4. CASE r + 1 < N
    <2>1. r + 1 \in 0..(N - 1)
      BY <1>2, <1>4
    <2>2. ((N * q) + (r + 1)) % N = r + 1 /\ ((N * 0) + (r + 1)) % N = r + 1
      BY <2>1, Remainder
    <2>3. a + 1 = (N * q) + (r + 1) /\ r + 1 = (N * 0) + (r + 1)
      BY <1>2, <1>3
    <2> QED BY <2>2, <2>3 DEF r
  <1>5. CASE ~(r + 1 < N)
    <2>1. r + 1 = N
      BY <1>2, <1>5
    <2>2. ((N * (q + 1)) + 0) % N = 0 /\ ((N * 1) + 0) % N = 0
      BY Remainder
    <2>3. a + 1 = (N * (q + 1)) + 0 /\ r + 1 = (N * 1) + 0
      BY <1>2, <1>3, <2>1
    <2> QED BY <2>2, <2>3 DEF r
  <1> QED BY <1>4, <1>5

-----------------------------------------------------------------------------
(* How many threads are at certain places                                  *)

Count(S, X, f) == Cardinality({t \in S : f[t] \in X})

\* A count is a number, and not 0 when somebody is there.
LEMMA CountIsNatural ==
  ASSUME NEW S, IsFiniteSet(S), NEW X, NEW f
  PROVE  /\ Count(S, X, f) \in Nat
         /\ \A t \in S : f[t] \in X => Count(S, X, f) > 0
<1> DEFINE A == {t \in S : f[t] \in X}
<1>1. IsFiniteSet(A)
  BY FS_Subset
<1> HIDE DEF A
<1>2. Cardinality(A) \in Nat /\ (Cardinality(A) = 0 <=> A = {})
  BY <1>1, FS_CardinalityType, FS_EmptySet
<1>3. \A t \in S : f[t] \in X => A # {}
  BY DEF A
<1> QED BY <1>2, <1>3 DEF Count, A

\* One thread goes from one place to another.
LEMMA CountStep ==
  ASSUME NEW S, IsFiniteSet(S), NEW f, NEW g, NEW t, NEW X, \A x \in S : x # t => g[x] = f[x]
  PROVE  /\ t \notin S => Count(S, X, g) = Count(S, X, f)
         /\ (f[t] \in X <=> g[t] \in X) => Count(S, X, g) = Count(S, X, f)
         /\ t \in S /\ f[t] \notin X /\ g[t] \in X => Count(S, X, g) = Count(S, X, f) + 1
         /\ t \in S /\ f[t] \in X /\ g[t] \notin X => Count(S, X, g) = Count(S, X, f) - 1
<1> DEFINE A == {x \in S : f[x] \in X}
           B == {x \in S : g[x] \in X}
<1>2. IsFiniteSet(A)
  BY FS_Subset
<1>3. t \notin S => B = A
  OBVIOUS
<1>4. (f[t] \in X <=> g[t] \in X) => B = A
  OBVIOUS
<1>5. t \in S /\ f[t] \notin X /\ g[t] \in X => t \notin A /\ B = A \cup {t}
  OBVIOUS
<1>6. t \in S /\ f[t] \in X /\ g[t] \notin X => t \in A /\ B = A \ {t}
  OBVIOUS
<1> HIDE DEF A, B
<1>7. Cardinality(A \cup {t}) = IF t \in A THEN Cardinality(A) ELSE Cardinality(A) + 1
  BY <1>2, FS_AddElement
<1>8. Cardinality(A \ {t}) = IF t \in A THEN Cardinality(A) - 1 ELSE Cardinality(A)
  BY <1>2, FS_RemoveElement
<1>9. Count(S, X, f) = Cardinality(A) /\ Count(S, X, g) = Cardinality(B)
  BY DEF Count, A, B
<1> QED BY <1>3, <1>4, <1>5, <1>6, <1>7, <1>8, <1>9

-----------------------------------------------------------------------------
(* The inductive invariant                                                 *)

Threads == Producers \union Consumers
Busy == {"waited", "copying"}   \* between the semaphore and the end of the copy
Over == {"copied"}              \* before the other semaphore

\* Where the Size units of the two semaphores are.
Counts ==
  /\ gets <= puts
  /\ empty + Count(Producers, Busy, pc) + (puts - gets) + Count(Consumers, Over, pc) = Size
  /\ used + Count(Producers, Over, pc) + Count(Consumers, Busy, pc) = puts - gets

\* The positions follow the numbers of copies; each side copies one at a time, at its position.
Positions ==
  /\ produceAt = puts % Size /\ consumeAt = gets % Size
  /\ \A p \in Producers : pc[p] = "copying" => slot[p] = produceAt
  /\ \A c \in Consumers : pc[c] = "copying" => slot[c] = consumeAt
  /\ \A p, q \in Producers : pc[p] = "copying" /\ pc[q] = "copying" => p = q
  /\ \A c, d \in Consumers : pc[c] = "copying" /\ pc[d] = "copying" => c = d
  /\ \A t \in Threads : pc[t] # "idle" => done[t] < PerThread

\* Between the two positions the slots are filled.
Filled == \A n \in Nat : gets <= n /\ n < puts => storage[n % Size] \in Items

IInv == TypeOK /\ Counts /\ Positions /\ Filled

ProducerStep(p) ==
  \/ ProduceWait(p) \/ ProduceLock(p) \/ ProduceCopied(p) \/ ProducePost(p) \/ ProduceThrow(p)
ConsumerStep(c) ==
  \/ ConsumeWait(c) \/ ConsumeLock(c) \/ ConsumeCopied(c) \/ ConsumePost(c) \/ ConsumeThrow(c)

\* The counts as numbers, to do arithmetic with.
LEMMA CountTypes ==
  /\ Count(Producers, Busy, pc) \in Nat /\ Count(Producers, Over, pc) \in Nat
  /\ Count(Consumers, Busy, pc) \in Nat /\ Count(Consumers, Over, pc) \in Nat
  BY CountIsNatural, QueueAssumption

\* The same after a step.
LEMMA CountTypesPrimed ==
  /\ Count(Producers, Busy, pc') \in Nat /\ Count(Producers, Over, pc') \in Nat
  /\ Count(Consumers, Busy, pc') \in Nat /\ Count(Consumers, Over, pc') \in Nat
  BY CountIsNatural, QueueAssumption

\* What follows from the invariant for somebody who copies.
LEMMA Apart ==
  ASSUME IInv
  PROVE  /\ \A p \in Producers : pc[p] = "copying" => puts - gets < Size
         /\ \A c \in Consumers : pc[c] = "copying" => gets < puts
         /\ puts - gets <= Size
<1>1. \A p \in Producers : pc[p] = "copying" => Count(Producers, Busy, pc) > 0
  BY CountIsNatural, QueueAssumption DEF Busy
<1>2. \A c \in Consumers : pc[c] = "copying" => Count(Consumers, Busy, pc) > 0
  BY CountIsNatural, QueueAssumption DEF Busy
<1>3. /\ puts \in Nat /\ gets \in Nat /\ empty \in Nat /\ used \in Nat /\ Size \in Nat
  BY QueueAssumption DEF IInv, TypeOK
<1> QED BY <1>1, <1>2, <1>3, CountTypes DEF IInv, Counts

\* Initially all units are in the semaphore of the empty slots.
LEMMA InitIInv == Init => IInv
<1> SUFFICES ASSUME Init PROVE IInv
  OBVIOUS
<1> USE QueueAssumption
<1>1. TypeOK
  BY DEF Init, TypeOK, Slots
<1>2. Counts
  <2>1. /\ {t \in Producers : pc[t] \in Busy} = {} /\ {t \in Producers : pc[t] \in Over} = {}
        /\ {t \in Consumers : pc[t] \in Busy} = {} /\ {t \in Consumers : pc[t] \in Over} = {}
    BY DEF Init, Busy, Over
  <2>2. /\ Count(Producers, Busy, pc) = 0 /\ Count(Producers, Over, pc) = 0
        /\ Count(Consumers, Busy, pc) = 0 /\ Count(Consumers, Over, pc) = 0
    BY <2>1, FS_EmptySet DEF Count
  <2> QED BY <2>2 DEF Counts, Init
<1>3. Positions
  <2>1. 0 % Size = 0
    OBVIOUS
  <2> QED BY <2>1 DEF Positions, Init, Threads
<1>4. Filled
  BY DEF Filled, Init
<1> QED BY <1>1, <1>2, <1>3, <1>4 DEF IInv

-----------------------------------------------------------------------------
(* Steps                                                                   *)

\* What a step of t, one of the threads S of its side, makes of the four counts.
LEMMA Moves ==
  ASSUME NEW S, IsFiniteSet(S), NEW T, IsFiniteSet(T), S \intersect T = {},
         NEW t \in S, NEW f, NEW g, \A x \in S \union T : x # t => g[x] = f[x]
  PROVE  /\ Count(T, Busy, g) = Count(T, Busy, f)
         /\ Count(T, Over, g) = Count(T, Over, f)
         /\ f[t] = "idle" /\ g[t] = "waited" =>
              /\ Count(S, Busy, g) = Count(S, Busy, f) + 1
              /\ Count(S, Over, g) = Count(S, Over, f)
         /\ f[t] = "waited" /\ g[t] = "copying" =>
              /\ Count(S, Busy, g) = Count(S, Busy, f)
              /\ Count(S, Over, g) = Count(S, Over, f)
         /\ f[t] = "copying" /\ g[t] = "copied" =>
              /\ Count(S, Busy, g) = Count(S, Busy, f) - 1
              /\ Count(S, Over, g) = Count(S, Over, f) + 1
         /\ f[t] = "copying" /\ g[t] = "idle" =>
              /\ Count(S, Busy, g) = Count(S, Busy, f) - 1
              /\ Count(S, Over, g) = Count(S, Over, f)
         /\ f[t] = "copied" /\ g[t] = "idle" =>
              /\ Count(S, Busy, g) = Count(S, Busy, f)
              /\ Count(S, Over, g) = Count(S, Over, f) - 1
<1>1. t \notin T
  OBVIOUS
<1>2. Count(T, Busy, g) = Count(T, Busy, f)
  BY <1>1, CountStep
<1>3. Count(T, Over, g) = Count(T, Over, f)
  BY <1>1, CountStep
<1>4. /\ (f[t] \in Busy <=> g[t] \in Busy) => Count(S, Busy, g) = Count(S, Busy, f)
      /\ f[t] \notin Busy /\ g[t] \in Busy => Count(S, Busy, g) = Count(S, Busy, f) + 1
      /\ f[t] \in Busy /\ g[t] \notin Busy => Count(S, Busy, g) = Count(S, Busy, f) - 1
  BY CountStep
<1>5. /\ (f[t] \in Over <=> g[t] \in Over) => Count(S, Over, g) = Count(S, Over, f)
      /\ f[t] \notin Over /\ g[t] \in Over => Count(S, Over, g) = Count(S, Over, f) + 1
      /\ f[t] \in Over /\ g[t] \notin Over => Count(S, Over, g) = Count(S, Over, f) - 1
  BY CountStep
<1> QED BY <1>2, <1>3, <1>4, <1>5 DEF Busy, Over

\* The steps of a producer keep the counts.
LEMMA ProducerCounts ==
  ASSUME IInv, NEW p \in Producers, ProducerStep(p)
  PROVE  Counts'
<1> DEFINE g == pc'
<1>1. /\ \A x \in Producers \union Consumers : x # p => g[x] = pc[x]
      /\ ProduceWait(p) => pc[p] = "idle" /\ g[p] = "waited"
      /\ ProduceLock(p) => pc[p] = "waited" /\ g[p] = "copying"
      /\ ProduceCopied(p) => pc[p] = "copying" /\ g[p] = "copied"
      /\ ProducePost(p) => pc[p] = "copied" /\ g[p] = "idle"
      /\ ProduceThrow(p) => pc[p] = "copying" /\ g[p] = "idle"
  BY DEF IInv, TypeOK, ProducerStep, ProduceWait, ProduceLock, ProduceCopied, ProducePost, ProduceThrow
<1>2. IsFiniteSet(Producers) /\ IsFiniteSet(Consumers) /\ Producers \intersect Consumers = {}
  BY QueueAssumption
<1> HIDE DEF g
<1>3. /\ Count(Consumers, Busy, g) = Count(Consumers, Busy, pc)
      /\ Count(Consumers, Over, g) = Count(Consumers, Over, pc)
      /\ ProduceWait(p) => /\ Count(Producers, Busy, g) = Count(Producers, Busy, pc) + 1
                           /\ Count(Producers, Over, g) = Count(Producers, Over, pc)
      /\ ProduceLock(p) => /\ Count(Producers, Busy, g) = Count(Producers, Busy, pc)
                           /\ Count(Producers, Over, g) = Count(Producers, Over, pc)
      /\ ProduceCopied(p) => /\ Count(Producers, Busy, g) = Count(Producers, Busy, pc) - 1
                             /\ Count(Producers, Over, g) = Count(Producers, Over, pc) + 1
      /\ ProduceThrow(p) => /\ Count(Producers, Busy, g) = Count(Producers, Busy, pc) - 1
                            /\ Count(Producers, Over, g) = Count(Producers, Over, pc)
      /\ ProducePost(p) => /\ Count(Producers, Busy, g) = Count(Producers, Busy, pc)
                           /\ Count(Producers, Over, g) = Count(Producers, Over, pc) - 1
  BY <1>1, <1>2, Moves
<1>4. /\ gets \in Nat /\ puts \in Nat /\ empty \in Nat /\ used \in Nat /\ Size \in Nat
      /\ gets <= puts
      /\ empty + Count(Producers, Busy, pc) + (puts - gets) + Count(Consumers, Over, pc) = Size
      /\ used + Count(Producers, Over, pc) + Count(Consumers, Busy, pc) = puts - gets
  BY QueueAssumption DEF IInv, TypeOK, Counts
<1> SUFFICES /\ gets' <= puts'
             /\ empty' + Count(Producers, Busy, g) + (puts' - gets') + Count(Consumers, Over, g) = Size
             /\ used' + Count(Producers, Over, g) + Count(Consumers, Busy, g) = puts' - gets'
  BY DEF Counts, g
<1>5. CASE ProduceWait(p)
  BY <1>3, <1>4, <1>5, CountTypes DEF ProduceWait
<1>6. CASE ProduceLock(p)
  BY <1>3, <1>4, <1>6, CountTypes DEF ProduceLock
<1>7. CASE ProduceCopied(p)
  BY <1>3, <1>4, <1>7, CountTypes DEF ProduceCopied
<1>8. CASE ProducePost(p)
  BY <1>3, <1>4, <1>8, CountTypes DEF ProducePost
<1>9. CASE ProduceThrow(p)
  BY <1>3, <1>4, <1>9, CountTypes DEF ProduceThrow
<1> QED BY <1>5, <1>6, <1>7, <1>8, <1>9 DEF ProducerStep

\* The steps of a consumer keep the counts.
LEMMA ConsumerCounts ==
  ASSUME IInv, NEW c \in Consumers, ConsumerStep(c)
  PROVE  Counts'
<1> DEFINE g == pc'
<1>1. /\ \A x \in Consumers \union Producers : x # c => g[x] = pc[x]
      /\ ConsumeWait(c) => pc[c] = "idle" /\ g[c] = "waited"
      /\ ConsumeLock(c) => pc[c] = "waited" /\ g[c] = "copying"
      /\ ConsumeCopied(c) => pc[c] = "copying" /\ g[c] = "copied"
      /\ ConsumePost(c) => pc[c] = "copied" /\ g[c] = "idle"
      /\ ConsumeThrow(c) => pc[c] = "copying" /\ g[c] = "idle"
  BY DEF IInv, TypeOK, ConsumerStep, ConsumeWait, ConsumeLock, ConsumeCopied, ConsumePost, ConsumeThrow
<1>2. IsFiniteSet(Producers) /\ IsFiniteSet(Consumers) /\ Consumers \intersect Producers = {}
  BY QueueAssumption
<1> HIDE DEF g
<1>3. /\ Count(Producers, Busy, g) = Count(Producers, Busy, pc)
      /\ Count(Producers, Over, g) = Count(Producers, Over, pc)
      /\ ConsumeWait(c) => /\ Count(Consumers, Busy, g) = Count(Consumers, Busy, pc) + 1
                           /\ Count(Consumers, Over, g) = Count(Consumers, Over, pc)
      /\ ConsumeLock(c) => /\ Count(Consumers, Busy, g) = Count(Consumers, Busy, pc)
                           /\ Count(Consumers, Over, g) = Count(Consumers, Over, pc)
      /\ ConsumeCopied(c) => /\ Count(Consumers, Busy, g) = Count(Consumers, Busy, pc) - 1
                             /\ Count(Consumers, Over, g) = Count(Consumers, Over, pc) + 1
      /\ ConsumeThrow(c) => /\ Count(Consumers, Busy, g) = Count(Consumers, Busy, pc) - 1
                            /\ Count(Consumers, Over, g) = Count(Consumers, Over, pc)
      /\ ConsumePost(c) => /\ Count(Consumers, Busy, g) = Count(Consumers, Busy, pc)
                           /\ Count(Consumers, Over, g) = Count(Consumers, Over, pc) - 1
  BY <1>1, <1>2, Moves
<1>4. /\ gets \in Nat /\ puts \in Nat /\ empty \in Nat /\ used \in Nat /\ Size \in Nat
      /\ gets <= puts
      /\ empty + Count(Producers, Busy, pc) + (puts - gets) + Count(Consumers, Over, pc) = Size
      /\ used + Count(Producers, Over, pc) + Count(Consumers, Busy, pc) = puts - gets
      /\ ConsumeCopied(c) => gets < puts
  BY QueueAssumption, Apart DEF IInv, TypeOK, Counts, ConsumeCopied
<1> SUFFICES /\ gets' <= puts'
             /\ empty' + Count(Producers, Busy, g) + (puts' - gets') + Count(Consumers, Over, g) = Size
             /\ used' + Count(Producers, Over, g) + Count(Consumers, Busy, g) = puts' - gets'
  BY DEF Counts, g
<1>5. CASE ConsumeWait(c)
  BY <1>3, <1>4, <1>5, CountTypes DEF ConsumeWait
<1>6. CASE ConsumeLock(c)
  BY <1>3, <1>4, <1>6, CountTypes DEF ConsumeLock
<1>7. CASE ConsumeCopied(c)
  BY <1>3, <1>4, <1>7, CountTypes DEF ConsumeCopied
<1>8. CASE ConsumePost(c)
  BY <1>3, <1>4, <1>8, CountTypes DEF ConsumePost
<1>9. CASE ConsumeThrow(c)
  BY <1>3, <1>4, <1>9, CountTypes DEF ConsumeThrow
<1> QED BY <1>5, <1>6, <1>7, <1>8, <1>9 DEF ConsumerStep

\* The semaphores stay within their bounds, by the counts.
LEMMA SemaphoreBounds ==
  ASSUME IInv, Counts', empty' \in Nat, used' \in Nat, puts' \in Nat, gets' \in Nat
  PROVE  empty' \in 0..Size /\ used' \in 0..Size
  BY CountTypesPrimed, QueueAssumption DEF Counts

\* The steps of a producer keep the types.
LEMMA ProducerTypes ==
  ASSUME IInv, NEW p \in Producers, ProducerStep(p), Counts'
  PROVE  TypeOK'
<1> USE QueueAssumption DEF IInv, TypeOK, Positions, Threads
<1>1. empty' \in Nat /\ used' \in Nat /\ puts' \in Nat /\ gets' \in Nat
  BY DEF ProducerStep, ProduceWait, ProduceLock, ProduceCopied, ProducePost, ProduceThrow
<1>2. empty' \in 0..Size /\ used' \in 0..Size
  BY <1>1, SemaphoreBounds
<1>3. produceAt' \in Slots /\ consumeAt' \in Slots
  BY DEF Slots, Advance, ProducerStep, ProduceWait, ProduceLock, ProduceCopied, ProducePost, ProduceThrow
<1>4. storage' \in [Slots -> Items \union {NoItem, Torn}]
  <2>1. pc[p] # "idle" => done[p] + 1 \in 1..PerThread
    OBVIOUS
  <2>2. pc[p] # "idle" => <<p, done[p] + 1>> \in Items
    BY <2>1 DEF Items
  <2> QED BY <2>2 DEF ProducerStep, ProduceWait, ProduceLock, ProduceCopied, ProducePost, ProduceThrow
<1>5. /\ slot' \in [Producers \union Consumers -> Slots]
      /\ pc' \in [Producers \union Consumers -> {"idle", "waited", "copying", "copied"}]
  BY DEF ProducerStep, ProduceWait, ProduceLock, ProduceCopied, ProducePost, ProduceThrow
<1>6. done' \in [Producers \union Consumers -> 0..PerThread]
  <2>1. pc[p] # "idle" => done[p] + 1 \in 0..PerThread
    OBVIOUS
  <2> QED BY <2>1 DEF ProducerStep, ProduceWait, ProduceLock, ProduceCopied, ProducePost, ProduceThrow
<1>7. got' \in [Consumers -> Items \union {NoItem}] /\ throws' \in 0..MaxThrows
  BY DEF ProducerStep, ProduceWait, ProduceLock, ProduceCopied, ProducePost, ProduceThrow
<1> QED BY <1>1, <1>2, <1>3, <1>4, <1>5, <1>6, <1>7

\* A producer moves its position with its copies.
LEMMA ProducerPositions ==
  ASSUME IInv, NEW p \in Producers, ProducerStep(p)
  PROVE  Positions'
<1> USE DEF IInv, Positions, Threads
<1>1. produceAt' = puts' % Size /\ consumeAt' = gets' % Size
  <2>1. ((puts % Size) + 1) % Size = (puts + 1) % Size
    BY Successor, QueueAssumption DEF TypeOK
  <2> QED BY <2>1 DEF Advance, ProducerStep, ProduceWait, ProduceLock, ProduceCopied, ProducePost, ProduceThrow
<1>2. /\ \A q \in Producers : pc'[q] = "copying" => slot'[q] = produceAt'
      /\ \A q, r \in Producers : pc'[q] = "copying" /\ pc'[r] = "copying" => q = r
  BY DEF TypeOK, ProducerStep, ProduceWait, ProduceLock, ProduceCopied, ProducePost, ProduceThrow
<1>3. /\ \A c \in Consumers : pc'[c] = pc[c] /\ slot'[c] = slot[c]
      /\ consumeAt' = consumeAt
  BY QueueAssumption DEF TypeOK, ProducerStep, ProduceWait, ProduceLock, ProduceCopied, ProducePost, ProduceThrow
<1>4. \A t \in Producers \union Consumers : pc'[t] # "idle" => done'[t] < PerThread
  BY DEF TypeOK, ProducerStep, ProduceWait, ProduceLock, ProduceCopied, ProducePost, ProduceThrow
<1> QED BY <1>1, <1>2, <1>3, <1>4

\* A slot between the two positions is not the one a producer writes to.
LEMMA WriteOutside ==
  ASSUME IInv, NEW n \in Nat, gets <= n, n < puts, puts - gets < Size
  PROVE  (n % Size) # (puts % Size)
<1>1. puts \in Nat /\ gets \in Nat /\ Size \in Nat \ {0}
  BY QueueAssumption DEF IInv, TypeOK
<1>2. puts < n + Size
  BY <1>1
<1> QED BY <1>1, <1>2, Distinct

\* A producer fills the slot behind the last item and writes to no other filled one.
LEMMA ProducerFilled ==
  ASSUME IInv, NEW p \in Producers, ProducerStep(p)
  PROVE  Filled'
<1> SUFFICES ASSUME NEW n \in Nat, gets' <= n, n < puts'
             PROVE  storage'[n % Size] \in Items
  BY DEF Filled
<1>0. gets' = gets /\ (n % Size) \in Slots /\ puts \in Nat
  <2>1. (n % Size) \in 0..(Size - 1)
    BY Division, QueueAssumption
  <2> QED BY <2>1 DEF IInv, TypeOK, Slots, ProducerStep, ProduceWait, ProduceLock, ProduceCopied, ProducePost, ProduceThrow
<1>1. n < puts => storage[n % Size] \in Items
  BY <1>0 DEF IInv, Filled
<1>2. CASE ProduceLock(p)
  <2>1. puts - gets < Size
    <3>1. Count(Producers, Busy, pc) > 0
      BY <1>2, CountIsNatural, QueueAssumption DEF Busy, ProduceLock
    <3>2. empty \in Nat /\ puts \in Nat /\ gets \in Nat /\ Size \in Nat
      BY QueueAssumption DEF IInv, TypeOK
    <3> QED BY <3>1, <3>2, CountTypes DEF IInv, Counts
  <2>2. n < puts /\ (n % Size) # produceAt
    <3>1. n < puts /\ gets <= n
      BY <1>0, <1>2 DEF ProduceLock
    <3>2. (n % Size) # (puts % Size)
      BY <2>1, <3>1, WriteOutside
    <3> QED BY <3>1, <3>2 DEF IInv, Positions
  <2>3. storage' = [storage EXCEPT ![produceAt] = Torn]
    BY <1>2 DEF ProduceLock
  <2>4. storage'[n % Size] = storage[n % Size]
    BY <1>0, <2>2, <2>3 DEF IInv, TypeOK
  <2> QED BY <1>1, <2>2, <2>4
<1>3. CASE ProduceCopied(p)
  <2>1. slot[p] = (puts % Size) /\ puts' = puts + 1 /\ puts - gets < Size
    BY <1>3, Apart DEF ProduceCopied, IInv, Positions
  <2>2. <<p, done[p] + 1>> \in Items
    <3>1. done[p] + 1 \in 1..PerThread
      BY <1>3, QueueAssumption DEF ProduceCopied, IInv, TypeOK, Positions, Threads
    <3> QED BY <3>1 DEF Items
  <2>3. storage' = [storage EXCEPT ![slot[p]] = <<p, done[p] + 1>>]
    BY <1>3 DEF ProduceCopied
  <2>4. CASE n = puts
    BY <1>0, <2>1, <2>2, <2>3, <2>4 DEF IInv, TypeOK
  <2>5. CASE n # puts
    <3>1. n < puts /\ gets <= n
      BY <1>0, <2>1, <2>5
    <3>2. (n % Size) # slot[p]
      BY <2>1, <3>1, WriteOutside
    <3>3. storage'[n % Size] = storage[n % Size]
      BY <1>0, <2>3, <3>2 DEF IInv, TypeOK
    <3> QED BY <1>1, <3>1, <3>3
  <2> QED BY <2>4, <2>5
<1>4. CASE ProduceWait(p) \/ ProducePost(p) \/ ProduceThrow(p)
  <2>1. puts' = puts /\ storage' = storage
    BY <1>4 DEF ProduceWait, ProducePost, ProduceThrow
  <2> QED BY <1>1, <2>1
<1> QED BY <1>2, <1>3, <1>4 DEF ProducerStep

\* The steps of a consumer keep the types; what it takes is an item.
LEMMA ConsumerTypes ==
  ASSUME IInv, NEW c \in Consumers, ConsumerStep(c), Counts'
  PROVE  TypeOK'
<1> USE QueueAssumption DEF IInv, TypeOK, Positions, Threads
<1>1. empty' \in Nat /\ used' \in Nat /\ puts' \in Nat /\ gets' \in Nat
  BY DEF ConsumerStep, ConsumeWait, ConsumeLock, ConsumeCopied, ConsumePost, ConsumeThrow
<1>2. empty' \in 0..Size /\ used' \in 0..Size
  BY <1>1, SemaphoreBounds
<1>3. produceAt' \in Slots /\ consumeAt' \in Slots
  BY DEF Slots, Advance, ConsumerStep, ConsumeWait, ConsumeLock, ConsumeCopied, ConsumePost, ConsumeThrow
<1>4. /\ storage' \in [Slots -> Items \union {NoItem, Torn}]
      /\ slot' \in [Producers \union Consumers -> Slots]
      /\ pc' \in [Producers \union Consumers -> {"idle", "waited", "copying", "copied"}]
      /\ throws' \in 0..MaxThrows
  BY DEF ConsumerStep, ConsumeWait, ConsumeLock, ConsumeCopied, ConsumePost, ConsumeThrow
<1>5. done' \in [Producers \union Consumers -> 0..PerThread]
  <2>1. pc[c] # "idle" => done[c] + 1 \in 0..PerThread
    OBVIOUS
  <2> QED BY <2>1 DEF ConsumerStep, ConsumeWait, ConsumeLock, ConsumeCopied, ConsumePost, ConsumeThrow
<1>6. got' \in [Consumers -> Items \union {NoItem}]
  <2>1. pc[c] = "copying" => storage[slot[c]] \in Items
    <3>1. gets < puts /\ gets \in Nat => storage[gets % Size] \in Items
      BY DEF Filled
    <3> QED BY <3>1, Apart
  <2> QED BY <2>1 DEF ConsumerStep, ConsumeWait, ConsumeLock, ConsumeCopied, ConsumePost, ConsumeThrow
<1> QED BY <1>1, <1>2, <1>3, <1>4, <1>5, <1>6

\* A consumer moves its position with its copies.
LEMMA ConsumerPositions ==
  ASSUME IInv, NEW c \in Consumers, ConsumerStep(c)
  PROVE  Positions'
<1> USE DEF IInv, Positions, Threads
<1>1. produceAt' = puts' % Size /\ consumeAt' = gets' % Size
  <2>1. ((gets % Size) + 1) % Size = (gets + 1) % Size
    BY Successor, QueueAssumption DEF TypeOK
  <2> QED BY <2>1 DEF Advance, ConsumerStep, ConsumeWait, ConsumeLock, ConsumeCopied, ConsumePost, ConsumeThrow
<1>2. /\ \A d \in Consumers : pc'[d] = "copying" => slot'[d] = consumeAt'
      /\ \A d, e \in Consumers : pc'[d] = "copying" /\ pc'[e] = "copying" => d = e
  BY DEF TypeOK, ConsumerStep, ConsumeWait, ConsumeLock, ConsumeCopied, ConsumePost, ConsumeThrow
<1>3. /\ \A p \in Producers : pc'[p] = pc[p] /\ slot'[p] = slot[p]
      /\ produceAt' = produceAt
  BY QueueAssumption DEF TypeOK, ConsumerStep, ConsumeWait, ConsumeLock, ConsumeCopied, ConsumePost, ConsumeThrow
<1>4. \A t \in Producers \union Consumers : pc'[t] # "idle" => done'[t] < PerThread
  BY DEF TypeOK, ConsumerStep, ConsumeWait, ConsumeLock, ConsumeCopied, ConsumePost, ConsumeThrow
<1> QED BY <1>1, <1>2, <1>3, <1>4

\* A consumer writes to no slot.
LEMMA ConsumerFilled ==
  ASSUME IInv, NEW c \in Consumers, ConsumerStep(c)
  PROVE  Filled'
<1>1. storage' = storage /\ puts' = puts /\ gets \in Nat /\ (gets' = gets \/ gets' = gets + 1)
  BY DEF IInv, TypeOK, ConsumerStep, ConsumeWait, ConsumeLock, ConsumeCopied, ConsumePost, ConsumeThrow
<1> QED BY <1>1 DEF IInv, Filled

\* The invariant is inductive.
LEMMA Inductive == IInv /\ [Next]_vars => IInv'
<1> SUFFICES ASSUME IInv, [Next]_vars PROVE IInv'
  OBVIOUS
<1>1. ASSUME NEW p \in Producers, ProducerStep(p) PROVE IInv'
  BY <1>1, ProducerCounts, ProducerTypes, ProducerPositions, ProducerFilled DEF IInv
<1>2. ASSUME NEW c \in Consumers, ConsumerStep(c) PROVE IInv'
  BY <1>2, ConsumerCounts, ConsumerTypes, ConsumerPositions, ConsumerFilled DEF IInv
<1>3. CASE UNCHANGED vars
  BY <1>3 DEF vars, IInv, TypeOK, Counts, Positions, Filled
<1> QED BY <1>1, <1>2, <1>3 DEF Next, Produce, Consume, ProducerStep, ConsumerStep

\* The invariant holds in every behaviour.
LEMMA InvariantHolds == Spec => []IInv
  BY InitIInv, Inductive, PTL DEF Spec

\* SlotInv: a consumer copies only what a producer has finished to write, and a slot is not
\* written over before its item was taken.
THEOREM SlotInvariant == Spec => []SlotInv
<1>1. IInv => SlotInv
  <2> SUFFICES ASSUME IInv PROVE NoTornRead
    BY Apart DEF IInv, SlotInv, NoOverwrite
  <2>1. ASSUME NEW c \in Consumers, pc[c] = "copying" PROVE storage[slot[c]] \in Items
    <3>1. gets < puts /\ gets \in Nat /\ slot[c] = (gets % Size)
      BY <2>1, Apart DEF IInv, TypeOK, Positions
    <3> QED BY <3>1 DEF IInv, Filled
  <2> QED BY <2>1 DEF NoTornRead
<1> QED BY <1>1, InvariantHolds, PTL

-----------------------------------------------------------------------------
(* The queue that the ring stands for                                      *)

\* The slots from position a to before position b.
Window(st, a, b) == [k \in 1..(b - a) |-> st[(a + k - 1) % Size]]

\* They hold members of S.
Full(S, st, a, b) == \A n \in Nat : a <= n /\ n < b => st[n % Size] \in S

\* tt is st with v written behind the last of them.
Extended(st, tt, a, b, v) ==
  /\ \A n \in Nat : a <= n /\ n < b => tt[n % Size] = st[n % Size]
  /\ tt[b % Size] = v

IsSequence(S, st, a, b) ==
  /\ Window(st, a, b) \in Seq(S)
  /\ Len(Window(st, a, b)) = b - a
  /\ \A k \in 1..(b - a) : Window(st, a, b)[k] = st[(a + k - 1) % Size]

Grown(st, tt, a, b, v) == Window(tt, a, b + 1) = Append(Window(st, a, b), v)

\* If they are filled they form a sequence.
LEMMA WindowIsSeq ==
  ASSUME NEW S, NEW st, NEW a \in Nat, NEW b \in Nat, a <= b, Full(S, st, a, b)
  PROVE  IsSequence(S, st, a, b)
<1>1. \A k \in 1..(b - a) : st[(a + k - 1) % Size] \in S
  <2> TAKE k \in 1..(b - a)
  <2>1. a + k - 1 \in Nat /\ a <= a + k - 1 /\ a + k - 1 < b
    OBVIOUS
  <2> QED BY <2>1 DEF Full
<1>2. b - a \in Nat
  OBVIOUS
<1>3. Window(st, a, b) \in [1..(b - a) -> S]
  BY <1>1 DEF Window
<1>4. Window(st, a, b) \in Seq(S)
  BY <1>2, <1>3, SeqDef
<1>5. DOMAIN Window(st, a, b) = 1..(b - a)
  BY DEF Window
<1>6. Len(Window(st, a, b)) = b - a
  <2> HIDE DEF Window
  <2> QED BY <1>2, <1>4, <1>5, LenProperties
<1> QED BY <1>4, <1>6 DEF Window, IsSequence

\* Filling the slot behind the last one appends to the queue.
LEMMA WindowAppend ==
  ASSUME NEW S, NEW st, NEW tt, NEW a \in Nat, NEW b \in Nat, a <= b,
         NEW v \in S, Full(S, st, a, b), Extended(st, tt, a, b, v)
  PROVE  Grown(st, tt, a, b, v)
<1>1. Full(S, tt, a, b + 1)
  <2> SUFFICES ASSUME NEW n \in Nat, a <= n, n < b + 1 PROVE tt[n % Size] \in S
    BY DEF Full
  <2>1. CASE n < b
    BY <2>1 DEF Full, Extended
  <2>2. CASE ~(n < b)
    <3>1. n = b
      BY <2>2
    <3> QED BY <3>1 DEF Extended
  <2> QED BY <2>1, <2>2
<1> DEFINE s == Window(st, a, b)
           t == Window(tt, a, b + 1)
           u == Append(s, v)
<1>2. s \in Seq(S) /\ Len(s) = b - a /\ \A k \in 1..(b - a) : s[k] = st[(a + k - 1) % Size]
  <2>1. IsSequence(S, st, a, b)
    BY WindowIsSeq
  <2> QED BY <2>1 DEF IsSequence
<1>3. t \in Seq(S) /\ Len(t) = b + 1 - a /\ \A k \in 1..(b + 1 - a) : t[k] = tt[(a + k - 1) % Size]
  <2> DEFINE c == b + 1
  <2>1. c \in Nat /\ a <= c /\ Full(S, tt, a, c)
    BY <1>1
  <2> HIDE DEF c
  <2>2. IsSequence(S, tt, a, c)
    BY <2>1, WindowIsSeq
  <2> QED BY <2>2 DEF c, IsSequence
<1> HIDE DEF s, t
<1>4. /\ u \in Seq(S) /\ Len(u) = Len(s) + 1 /\ u[Len(s) + 1] = v
      /\ \A k \in 1..Len(s) : u[k] = s[k]
  BY <1>2, AppendProperties
<1> HIDE DEF u
<1>5. ASSUME NEW k \in 1..Len(t) PROVE t[k] = u[k]
  <2>1. CASE k = b + 1 - a
    <3>1. a + k - 1 = b /\ Len(s) + 1 = k
      BY <1>2, <2>1
    <3>2. t[k] = tt[(a + k - 1) % Size]
      BY <1>3
    <3> QED BY <1>4, <3>1, <3>2 DEF Extended
  <2>2. CASE k # b + 1 - a
    <3>1. k \in 1..(b - a)
      BY <1>3, <2>2
    <3>2. a + k - 1 \in Nat /\ a <= a + k - 1 /\ a + k - 1 < b
      BY <3>1
    <3>3. tt[(a + k - 1) % Size] = st[(a + k - 1) % Size]
      BY <3>2 DEF Extended
    <3>4. u[k] = s[k]
      BY <1>2, <1>4, <3>1
    <3> QED BY <1>2, <1>3, <3>1, <3>3, <3>4
  <2> QED BY <2>1, <2>2
<1>6. Len(t) = Len(u)
  BY <1>2, <1>3, <1>4
<1>7. t = u
  BY <1>3, <1>4, <1>5, <1>6, SeqEqual
<1> QED BY <1>7 DEF t, u, s, Grown

\* Leaving the first slot behind takes the head of the queue off.
LEMMA WindowTail ==
  ASSUME NEW S, NEW st, NEW a \in Nat, NEW b \in Nat, a < b, Full(S, st, a, b)
  PROVE  /\ Window(st, a, b) # <<>>
         /\ Window(st, a + 1, b) = Tail(Window(st, a, b))
         /\ st[a % Size] = Head(Window(st, a, b))
<1> DEFINE s == Window(st, a, b)
           t == Window(st, a + 1, b)
<1> HIDE DEF s, t
<1>1. s \in Seq(S) /\ Len(s) = b - a /\ \A k \in 1..(b - a) : s[k] = st[(a + k - 1) % Size]
  <2>1. a <= b
    OBVIOUS
  <2>2. IsSequence(S, st, a, b)
    BY <2>1, WindowIsSeq
  <2> QED BY <2>2 DEF s, IsSequence
<1>2. t \in Seq(S) /\ Len(t) = b - (a + 1)
      /\ \A k \in 1..(b - (a + 1)) : t[k] = st[((a + 1) + k - 1) % Size]
  <2> DEFINE c == a + 1
  <2>1. c \in Nat /\ c <= b /\ Full(S, st, c, b)
    BY DEF Full
  <2> HIDE DEF c
  <2>2. IsSequence(S, st, c, b)
    BY <2>1, WindowIsSeq
  <2> QED BY <2>2 DEF c, t, IsSequence
<1>3. s # <<>>
  BY <1>1, EmptySeq
<1>4. /\ Tail(s) \in Seq(S) /\ Len(Tail(s)) = Len(s) - 1
      /\ \A k \in 1..Len(Tail(s)) : Tail(s)[k] = s[k + 1]
  BY <1>1, <1>3, HeadTailProperties
<1>5. Len(t) = Len(Tail(s))
  BY <1>1, <1>2, <1>4
<1>6. ASSUME NEW k \in 1..Len(t) PROVE t[k] = Tail(s)[k]
  <2>1. k \in 1..(b - (a + 1)) /\ k + 1 \in 1..(b - a) /\ (a + 1) + k - 1 = a + (k + 1) - 1
    BY <1>2
  <2>2. t[k] = st[((a + 1) + k - 1) % Size]
    BY <1>2, <2>1
  <2>3. s[k + 1] = st[(a + (k + 1) - 1) % Size]
    BY <1>1, <2>1
  <2>4. Tail(s)[k] = s[k + 1]
    BY <1>4, <1>5
  <2> QED BY <2>1, <2>2, <2>3, <2>4
<1>7. t = Tail(s)
  BY <1>2, <1>4, <1>5, <1>6, SeqEqual
<1>8. st[a % Size] = Head(s)
  <2>1. 1 \in 1..(b - a) /\ a + 1 - 1 = a
    OBVIOUS
  <2>2. s[1] = st[a % Size]
    BY <1>1, <2>1
  <2> QED BY <1>1, <1>3, <2>2
<1> QED BY <1>3, <1>7, <1>8 DEF s, t

\* What is in the ring.
Queued == Window(storage, gets, puts)

\* A step of a producer puts an item into the queue, or does not change it.
LEMMA ProducerMaps ==
  ASSUME IInv, IInv', NEW p \in Producers, ProducerStep(p)
  PROVE  \/ \E v \in Items : Len(Queued) < Size /\ Queued' = Append(Queued, v) /\ got' = got
         \/ Queued' = Queued /\ got' = got
<1>0. /\ puts \in Nat /\ gets \in Nat /\ gets <= puts /\ Size \in Nat \ {0}
      /\ Full(Items, storage, gets, puts)
  BY QueueAssumption DEF IInv, TypeOK, Counts, Filled, Full
<1> DEFINE st == storage
           tt == storage'
<1>1. CASE ProduceCopied(p)
  <2>1. puts - gets < Size /\ slot[p] = (puts % Size)
    BY <1>1, Apart DEF IInv, Positions, ProduceCopied
  <2>2. puts' = puts + 1 /\ gets' = gets /\ got' = got
    BY <1>1 DEF ProduceCopied
  <2>3. ASSUME NEW n \in Nat, gets <= n, n < puts PROVE tt[n % Size] = st[n % Size]
    <3>1. (n % Size) # slot[p]
      BY <2>1, <2>3, WriteOutside
    <3>2. (n % Size) \in Slots
      BY <1>0, <2>3, Division DEF Slots
    <3> QED BY <1>1, <3>1, <3>2 DEF ProduceCopied, IInv, TypeOK
  <2>4. tt[puts % Size] \in Items
    <3>1. \A n \in Nat : gets' <= n /\ n < puts' => tt[n % Size] \in Items
      BY DEF IInv, Filled
    <3> QED BY <1>0, <2>2, <3>1
  <2>5. Len(Queued) < Size
    <3>1. IsSequence(Items, storage, gets, puts)
      BY <1>0, WindowIsSeq
    <3> QED BY <2>1, <3>1 DEF IsSequence, Queued
  <2>6. Queued' = Window(tt, gets, puts + 1)
    BY <2>2 DEF Queued, Window
  <2>7. Full(Items, st, gets, puts)
    BY <1>0
  <2> HIDE DEF st, tt
  <2>8. PICK v \in Items : Extended(st, tt, gets, puts, v)
    BY <2>3, <2>4 DEF Extended
  <2>9. Grown(st, tt, gets, puts, v)
    BY <1>0, <2>7, <2>8, WindowAppend
  <2> QED BY <2>2, <2>5, <2>6, <2>9 DEF Queued, st, Grown
<1>2. CASE ProduceLock(p)
  <2>2. puts' = puts /\ gets' = gets /\ got' = got /\ storage' = [storage EXCEPT ![produceAt] = Torn]
    BY <1>2 DEF ProduceLock
  <2>3. puts - gets < Size
    <3>1. Count(Producers, Busy, pc) > 0
      BY <1>2, CountIsNatural, QueueAssumption DEF Busy, ProduceLock
    <3>2. empty \in Nat
      BY DEF IInv, TypeOK
    <3> QED BY <1>0, <3>1, <3>2, CountTypes DEF IInv, Counts
  <2>4. \A k \in 1..(puts - gets) : tt[(gets + k - 1) % Size] = st[(gets + k - 1) % Size]
    <3> TAKE k \in 1..(puts - gets)
    <3> DEFINE n == gets + k - 1
    <3>1. n \in Nat /\ gets <= n /\ n < puts
      BY <1>0
    <3> HIDE DEF n
    <3>2. (n % Size) # produceAt
      BY <2>3, <3>1, WriteOutside DEF IInv, Positions
    <3>3. (n % Size) \in Slots
      BY <1>0, <3>1, Division DEF Slots
    <3>4. tt[n % Size] = st[n % Size]
      BY <2>2, <3>2, <3>3 DEF IInv, TypeOK
    <3> QED BY <3>4 DEF n
  <2>5. Queued' = Window(tt, gets, puts)
    BY <2>2 DEF Queued, Window
  <2>6. Window(tt, gets, puts) = Window(st, gets, puts)
    <3> HIDE DEF st, tt
    <3> QED BY <2>4 DEF Window
  <2> QED BY <2>2, <2>5, <2>6 DEF Queued
<1>3. CASE ProduceWait(p) \/ ProducePost(p) \/ ProduceThrow(p)
  BY <1>3 DEF ProduceWait, ProducePost, ProduceThrow, Queued, Window
<1> QED BY <1>1, <1>2, <1>3 DEF ProducerStep

\* A step of a consumer takes the head of the queue, or does not change it.
LEMMA ConsumerMaps ==
  ASSUME IInv, NEW c \in Consumers, ConsumerStep(c)
  PROVE  \/ /\ Queued # <<>> /\ Queued' = Tail(Queued)
            /\ got' = [got EXCEPT ![c] = Head(Queued)]
         \/ Queued' = Queued /\ got' = got
<1>0. puts \in Nat /\ gets \in Nat /\ Full(Items, storage, gets, puts)
  BY DEF IInv, TypeOK, Filled, Full
<1>1. CASE ConsumeCopied(c)
  <2>1. gets < puts /\ slot[c] = (gets % Size)
    BY <1>1, Apart DEF IInv, Positions, ConsumeCopied
  <2>2. /\ puts' = puts /\ gets' = gets + 1 /\ storage' = storage
        /\ got' = [got EXCEPT ![c] = storage[slot[c]]]
    BY <1>1 DEF ConsumeCopied
  <2>3. Queued' = Window(storage, gets + 1, puts)
    BY <2>2 DEF Queued, Window
  <2>4. /\ Queued # <<>>
        /\ Window(storage, gets + 1, puts) = Tail(Queued)
        /\ storage[gets % Size] = Head(Queued)
    BY <1>0, <2>1, WindowTail DEF Queued
  <2> QED BY <2>1, <2>2, <2>3, <2>4
<1>2. CASE ConsumeWait(c) \/ ConsumeLock(c) \/ ConsumePost(c) \/ ConsumeThrow(c)
  BY <1>2 DEF ConsumeWait, ConsumeLock, ConsumePost, ConsumeThrow, Queued, Window
<1> QED BY <1>1, <1>2 DEF ConsumerStep

\* Every step of the ring is one of the queue, or changes nothing there.
LEMMA StepMaps == IInv /\ IInv' /\ [Next]_vars => [FIFO!Put \/ FIFO!Get]_<<Queued, got>>
<1> SUFFICES ASSUME IInv, IInv', [Next]_vars PROVE [FIFO!Put \/ FIFO!Get]_<<Queued, got>>
  OBVIOUS
<1>1. ASSUME NEW p \in Producers, ProducerStep(p) PROVE FIFO!Put \/ UNCHANGED <<Queued, got>>
  BY <1>1, ProducerMaps DEF FIFO!Put, Queued, Window
<1>2. ASSUME NEW c \in Consumers, ConsumerStep(c) PROVE FIFO!Get \/ UNCHANGED <<Queued, got>>
  BY <1>2, ConsumerMaps DEF FIFO!Get, Queued, Window
<1>3. CASE UNCHANGED vars
  BY <1>3 DEF vars, Queued, Window
<1> QED BY <1>1, <1>2, <1>3 DEF Next, Produce, Consume, ProducerStep, ConsumerStep

\* ImplementsFIFO: for any number of slots and threads the ring is a bounded first-in first-out
\* queue, whatever order the semaphores are posted in and however often a copy throws.
THEOREM QueueIsFIFO == Spec => ImplementsFIFO
<1>1. Init => FIFO!Init
  <2> SUFFICES ASSUME Init PROVE FIFO!Init
    OBVIOUS
  <2>1. puts - gets = 0
    BY DEF Init
  <2>2. Queued = <<>>
    <3>1. 0 \in Nat /\ 0 <= 0 /\ puts = 0 /\ gets = 0 /\ Full(Items, storage, 0, 0)
      BY DEF Init, Full
    <3>2. Window(storage, 0, 0) \in Seq(Items) /\ Len(Window(storage, 0, 0)) = 0
      <4>1. IsSequence(Items, storage, 0, 0)
        BY <3>1, WindowIsSeq
      <4> QED BY <4>1 DEF IsSequence
    <3>3. Window(storage, 0, 0) = <<>>
      <4> HIDE DEF Window
      <4> QED BY <3>2, EmptySeq
    <3> QED BY <3>1, <3>3 DEF Queued
  <2> QED BY <2>2 DEF Init, FIFO!Init, Queued, Window
<1>2. IInv /\ IInv' /\ [Next]_vars => [FIFO!Put \/ FIFO!Get]_<<Queued, got>>
  BY StepMaps
<1> QED BY <1>1, <1>2, InvariantHolds, PTL DEF Spec, ImplementsFIFO, FIFO!Spec, Queued, Window
=============================================================================
