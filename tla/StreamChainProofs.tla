-------------------------- MODULE StreamChainProofs --------------------------
(***************************************************************************)
(* For any number of workers, blocks and entries: the blocks go round the  *)
(* ring one at a place, the poison comes last, and what the source writes  *)
(* reaches the last worker in order.                                       *)
(***************************************************************************)
EXTENDS StreamChain, FiniteSetTheorems, SequenceTheorems, TLAPS

-----------------------------------------------------------------------------
(* Texts in ascending order, and where in the ring they are                *)

Rising(s) == \A j, k \in 1..Len(s) : j < k => s[j] < s[k]
Below(s, t) == \A x \in Range(s), y \in Range(t) : x < y

\* Of two places between the source and the last worker: p is ahead of r.  Link i takes
\* from queue i - 1 and gives to queue i.
Ahead(p, r) ==
  \/ p[1] > r[1]
  \/ p[1] = r[1] /\ p[2] # 0 /\ (r[2] = 0 \/ p[2] < r[2])

\* The places between the source and the last worker, and those behind link 2.
InPipe(p) == IF p[2] = 0 THEN p[1] \in 2..Workers ELSE p[1] \in 1..(Workers - 1)
Past(p) == p[1] > 2 \/ (p[1] = 2 /\ p[2] # 0)

\* P are the places of blocks on their way, txt the entries in each, done what was read and n
\* the number of entries written.
Flow(P, txt, done, n) ==
  /\ \A p \in P : /\ Rising(txt[p]) /\ Range(txt[p]) \subseteq 1..n /\ Below(done, txt[p])
                  /\ Past(p) => Range(txt[p]) \subseteq Kept
  /\ \A p, r \in P : Ahead(p, r) => Below(txt[p], txt[r])
  /\ Rising(done) /\ Range(done) \subseteq Kept \intersect 1..n
  /\ \A x \in Kept \intersect 1..n : x \in Range(done) \/ \E p \in P : x \in Range(txt[p])

-----------------------------------------------------------------------------
(* The inductive invariant                                                 *)

\* A thread that is at work has the block it works on; without one it has poison.
Hands ==
  /\ \A i \in Links : link[i].pc = "held" <=> link[i].current # Poison
  /\ main # "running" => \A i \in Links : link[i].pc = "absent"

LastOf(q) == q[Len(q)]
Ended == {"poisoned", "done"}

\* The poison goes round the ring once, and each thread ends after the one before it.
Ending ==
  /\ \A i, j \in Links : j < i /\ link[i].pc \in Ended => link[j].pc = "done"
  /\ \A i \in Links \ {1} : link[i - 1].pc = "done" =>
       IF link[i].pc \in Ended THEN queue[i - 1] = <<>>
       ELSE queue[i - 1] # <<>> /\ LastOf(queue[i - 1]) = Poison
  /\ \A q \in Queues : \A k \in 1..Len(queue[q]) : queue[q][k] = Poison =>
       /\ k = Len(queue[q])
       /\ q # 0 => link[q].pc = "done"
       /\ q = 0 /\ main = "running" => link[Recycler].pc = "done"
  /\ link[Recycler].pc = "done" => queue[0] # <<>> /\ LastOf(queue[0]) = Poison

\* Between rounds the ring is empty, but for what the drain has not consumed yet.
Drained ==
  /\ main # "idle" => round < Rounds
  /\ main = "idle" => \A q \in Queues : queue[q] = <<>>
  /\ main = "draining" =>
       /\ \A q \in Queues \ {0} : queue[q] = <<>>
       /\ queue[0] # <<>> /\ LastOf(queue[0]) = Poison
       /\ drained + Len(queue[0]) = BlockCount

Ring ==
  /\ \A p, r \in Places : At(p) # Poison /\ At(p).block = At(r).block => p = r
  /\ main = "running" => IsFiniteSet(Places) /\ Cardinality(Places) = BlockCount

\* The source ends when everything is written.
Source ==
  /\ ending => written = total
  /\ link[1].pc \in Ended => written = total

Pipe == {p \in Places : InPipe(p) /\ At(p) # Poison}
Text == [p \in Pipe |-> [k \in 1..At(p).size |-> memory[At(p).block][k]]]
Flowing == Flow(Pipe, Text, delivered, written)

IInv == TypeOK /\ Hands /\ Ending /\ Drained /\ Ring /\ Source /\ Flowing

-----------------------------------------------------------------------------
(* What is on its way                                                      *)

LEMMA RisingConcat ==
  ASSUME NEW s \in Seq(Nat), NEW t \in Seq(Nat)
  PROVE  /\ s \o t \in Seq(Nat)
         /\ Range(s \o t) = Range(s) \union Range(t)
         /\ Rising(s) /\ Rising(t) /\ Below(s, t) => Rising(s \o t)
<1> DEFINE r == s \o t
<1>1. /\ r \in Seq(Nat) /\ Len(r) = Len(s) + Len(t) /\ Len(s) \in Nat /\ Len(t) \in Nat
      /\ \A k \in 1..Len(s) : r[k] = s[k]
      /\ \A k \in 1..Len(t) : r[Len(s) + k] = t[k]
      /\ DOMAIN r = 1..Len(r) /\ DOMAIN s = 1..Len(s) /\ DOMAIN t = 1..Len(t)
  OBVIOUS
<1> HIDE DEF r
<1>2. \A i \in 1..Len(r) :
        \/ i \in 1..Len(s) /\ r[i] = s[i]
        \/ i > Len(s) /\ i - Len(s) \in 1..Len(t) /\ r[i] = t[i - Len(s)]
  <2> TAKE i \in 1..Len(r)
  <2>1. CASE i <= Len(s)
    BY <1>1, <2>1
  <2>2. CASE i > Len(s)
    <3>1. i - Len(s) \in 1..Len(t) /\ Len(s) + (i - Len(s)) = i
      BY <1>1, <2>2
    <3>2. r[Len(s) + (i - Len(s))] = t[i - Len(s)]
      BY <1>1, <3>1
    <3> QED BY <2>2, <3>1, <3>2
  <2> QED BY <1>1, <2>1, <2>2
<1>3. /\ \A k \in 1..Len(s) : k \in 1..Len(r)
      /\ \A k \in 1..Len(t) : Len(s) + k \in 1..Len(r)
  BY <1>1
<1>4. Range(r) = Range(s) \union Range(t)
  <2>1. \A x \in Range(r) : x \in Range(s) \union Range(t)
    BY <1>1, <1>2 DEF Range
  <2>2. \A x \in Range(s) : x \in Range(r)
    BY <1>1, <1>3 DEF Range
  <2>3. \A x \in Range(t) : x \in Range(r)
    BY <1>1, <1>3 DEF Range
  <2> QED BY <2>1, <2>2, <2>3
<1>5. ASSUME Rising(s), Rising(t), Below(s, t)
      PROVE  Rising(r)
  <2> SUFFICES ASSUME NEW j \in 1..Len(r), NEW k \in 1..Len(r), j < k
               PROVE  r[j] < r[k]
    BY DEF Rising
  <2>1. \A i \in 1..Len(s) : s[i] \in Range(s)
    BY <1>1 DEF Range
  <2>2. \A i \in 1..Len(t) : t[i] \in Range(t)
    BY <1>1 DEF Range
  <2>3. CASE j \in 1..Len(s) /\ k \in 1..Len(s)
    BY <1>1, <1>5, <2>3 DEF Rising
  <2>4. CASE j \in 1..Len(s) /\ k > Len(s)
    <3>1. r[j] = s[j] /\ k \notin 1..Len(s)
      BY <1>1, <2>4
    <3>2. r[k] = t[k - Len(s)] /\ k - Len(s) \in 1..Len(t)
      BY <1>2, <3>1
    <3> QED BY <1>5, <2>1, <2>2, <2>4, <3>1, <3>2 DEF Below
  <2>5. CASE j > Len(s) /\ k > Len(s)
    <3>1. j \notin 1..Len(s) /\ k \notin 1..Len(s)
      BY <1>1, <2>5
    <3>2. /\ r[j] = t[j - Len(s)] /\ j - Len(s) \in 1..Len(t)
          /\ r[k] = t[k - Len(s)] /\ k - Len(s) \in 1..Len(t)
      BY <1>2, <3>1
    <3>3. j - Len(s) < k - Len(s)
      BY <1>1
    <3>4. \A a, b \in 1..Len(t) : a < b => t[a] < t[b]
      BY <1>5, Zenon DEF Rising
    <3>5. t[j - Len(s)] < t[k - Len(s)]
      BY <3>2, <3>3, <3>4, Zenon
    <3> QED BY <3>2, <3>5, Zenon
  <2>6. \/ j \in 1..Len(s) /\ k \in 1..Len(s)
        \/ j \in 1..Len(s) /\ k > Len(s)
        \/ j > Len(s) /\ k > Len(s)
    <3>1. Len(s) \in Nat /\ Len(r) \in Nat
      BY <1>1
    <3> QED BY <3>1
  <2> QED BY <2>3, <2>4, <2>5, <2>6, Zenon
<1> QED BY <1>1, <1>4, <1>5 DEF r

\* A block goes from one place to the next, perhaps with some entries pruned: f leads from the
\* new places to the old ones.
LEMMA FlowMoved ==
  ASSUME NEW P, NEW Q, NEW f, NEW txt, NEW txt1, NEW done, NEW n,
         \A p \in Q : f[p] \in P,
         \A p \in P : \E q \in Q : f[q] = p,
         \A p, r \in Q : Ahead(p, r) => Ahead(f[p], f[r]),
         \A p \in Q : /\ Rising(txt1[p])
                      /\ Range(txt1[p]) \subseteq Range(txt[f[p]])
                      /\ Range(txt[f[p]]) \intersect Kept \subseteq Range(txt1[p])
                      /\ Past(p) => Past(f[p]) \/ Range(txt1[p]) \subseteq Kept,
         Flow(P, txt, done, n)
  PROVE  Flow(Q, txt1, done, n)
<1>1. \A p \in Q : /\ Range(txt1[p]) \subseteq 1..n /\ Below(done, txt1[p])
                   /\ Past(p) => Range(txt1[p]) \subseteq Kept
  BY Zenon DEF Flow, Below
<1>2. \A p, r \in Q : Ahead(p, r) => Below(txt1[p], txt1[r])
  <2> SUFFICES ASSUME NEW p \in Q, NEW r \in Q, Ahead(p, r)
               PROVE  Below(txt1[p], txt1[r])
    OBVIOUS
  <2>1. Below(txt[f[p]], txt[f[r]])
    BY DEF Flow
  <2> QED BY <2>1 DEF Below
<1>3. \A x \in Kept \intersect 1..n : x \in Range(done) \/ \E p \in Q : x \in Range(txt1[p])
  <2> TAKE x \in Kept \intersect 1..n
  <2>1. CASE x \in Range(done)
    BY <2>1
  <2>2. CASE \E p \in P : x \in Range(txt[p])
    <3>1. PICK p \in P : x \in Range(txt[p])
      BY <2>2
    <3>2. PICK q \in Q : f[q] = p
      OBVIOUS
    <3> QED BY <3>1, <3>2
  <2> QED BY <2>1, <2>2 DEF Flow
<1> QED BY <1>1, <1>2, <1>3, Zenon DEF Flow

\* The source fills a block with the next m entries.
LEMMA FlowFilled ==
  ASSUME NEW P, NEW txt, NEW txt1, NEW done, NEW n \in Nat, NEW m \in Nat, NEW p, p \notin P,
         \A r \in P : Ahead(r, p) /\ ~Ahead(p, r), ~Ahead(p, p), ~Past(p),
         \A r \in P : txt1[r] = txt[r],
         txt1[p] = [k \in 1..m |-> n + k],
         Flow(P, txt, done, n)
  PROVE  Flow(P \union {p}, txt1, done, n + m)
<1> DEFINE Q == P \union {p}
           s == txt1[p]
<1>1. /\ s \in Seq(Nat) /\ Len(s) = m /\ DOMAIN s = 1..m /\ \A k \in 1..m : s[k] = n + k
  <2>1. txt1[p] \in Seq(Nat) /\ Len(txt1[p]) = m
    OBVIOUS
  <2> QED BY <2>1
<1> HIDE DEF s
<1>2. Range(s) = (n + 1)..(n + m)
  <2>1. \A x \in (n + 1)..(n + m) : x - n \in 1..m /\ n + (x - n) = x
    OBVIOUS
  <2>2. \A x \in (n + 1)..(n + m) : x \in Range(s)
    <3> TAKE x \in (n + 1)..(n + m)
    <3>1. x - n \in 1..m /\ s[x - n] = x
      BY <1>1, <2>1
    <3> QED BY <1>1, <3>1 DEF Range
  <2>3. \A x \in Range(s) : x \in (n + 1)..(n + m)
    BY <1>1 DEF Range
  <2> QED BY <2>2, <2>3
<1>3. Rising(s)
  BY <1>1 DEF Rising
<1>4. \A x \in 1..n, y \in Range(s) : x < y
  BY <1>2
<1>5. 1..n \subseteq 1..(n + m) /\ Range(s) \subseteq 1..(n + m)
      /\ \A x \in 1..(n + m) : x \in 1..n \/ x \in Range(s)
  BY <1>2
<1>6. \A r \in Q : /\ Rising(txt1[r]) /\ Range(txt1[r]) \subseteq 1..(n + m) /\ Below(done, txt1[r])
                   /\ Past(r) => Range(txt1[r]) \subseteq Kept
  <2> TAKE r \in Q
  <2>1. CASE r \in P
    BY <1>5, <2>1 DEF Flow
  <2>2. CASE r = p
    <3>1. Below(done, s)
      BY <1>4 DEF Flow, Below
    <3> QED BY <1>3, <1>5, <2>2, <3>1 DEF s
  <2> QED BY <2>1, <2>2
<1>7. \A q, r \in Q : Ahead(q, r) => Below(txt1[q], txt1[r])
  <2> SUFFICES ASSUME NEW q \in Q, NEW r \in Q, Ahead(q, r)
               PROVE  Below(txt1[q], txt1[r])
    OBVIOUS
  <2>1. q \in P
    OBVIOUS
  <2>2. CASE r \in P
    BY <2>1, <2>2 DEF Flow
  <2>3. CASE r = p
    <3>1. Range(txt1[q]) \subseteq 1..n
      BY <2>1 DEF Flow
    <3> QED BY <1>4, <2>3, <3>1 DEF Below, s
  <2> QED BY <2>2, <2>3
<1>8. Rising(done) /\ Range(done) \subseteq Kept \intersect 1..(n + m)
  BY <1>5 DEF Flow
<1>9. \A x \in Kept \intersect 1..(n + m) : x \in Range(done) \/ \E r \in Q : x \in Range(txt1[r])
  <2> TAKE x \in Kept \intersect 1..(n + m)
  <2>1. CASE x \in Range(s)
    BY <2>1 DEF s
  <2>2. CASE x \in 1..n
    BY <2>2 DEF Flow
  <2> QED BY <1>5, <2>1, <2>2
<1> QED BY <1>6, <1>7, <1>8, <1>9 DEF Flow

\* The last worker reads the block that is ahead of all others.
LEMMA FlowRead ==
  ASSUME NEW P, NEW p \in P, NEW txt, NEW done \in Seq(Nat), NEW n, txt[p] \in Seq(Nat), Past(p),
         \A r \in P \ {p} : Ahead(p, r),
         Flow(P, txt, done, n)
  PROVE  Flow(P \ {p}, txt, done \o txt[p], n)
<1> DEFINE d == done \o txt[p]
           Q == P \ {p}
<1>1. /\ Rising(done) /\ Range(done) \subseteq Kept \intersect 1..n
      /\ Rising(txt[p]) /\ Range(txt[p]) \subseteq 1..n /\ Range(txt[p]) \subseteq Kept
      /\ Below(done, txt[p])
  BY DEF Flow
<1>2. Range(d) = Range(done) \union Range(txt[p]) /\ Rising(d)
  BY <1>1, RisingConcat
<1> HIDE DEF d
<1>3. \A r \in Q : Below(d, txt[r])
  <2> TAKE r \in Q
  <2>1. Below(done, txt[r]) /\ Below(txt[p], txt[r])
    BY DEF Flow
  <2> QED BY <1>2, <2>1 DEF Below
<1>4. Range(d) \subseteq Kept \intersect 1..n
  BY <1>1, <1>2
<1>5. \A x \in Kept \intersect 1..n : x \in Range(d) \/ \E r \in Q : x \in Range(txt[r])
  BY <1>2 DEF Flow
<1>6. /\ \A r \in Q : /\ Rising(txt[r]) /\ Range(txt[r]) \subseteq 1..n
                      /\ Past(r) => Range(txt[r]) \subseteq Kept
      /\ \A q, r \in Q : Ahead(q, r) => Below(txt[q], txt[r])
  BY DEF Flow
<1>7. Flow(Q, txt, d, n)
  BY <1>2, <1>3, <1>4, <1>5, <1>6 DEF Flow
<1> QED BY <1>7 DEF d

-----------------------------------------------------------------------------
(* Places                                                                  *)

\* The places of the ring when q are the queues and the links H have a block in hand, and
\* what is there.
Spots(q, H) == (UNION {{<<n, k>> : k \in 1..Len(q[n])} : n \in Queues}) \union {<<i, 0>> : i \in H}
Item(q, l, p) == IF p[2] = 0 THEN l[p[1]].current ELSE q[p[1]][p[2]]

LEMMA Constants ==
  /\ Workers \in Nat /\ Workers > 2 /\ BlockCount \in Nat /\ BlockCount > 0
  /\ BlockSize \in Nat /\ BlockSize > 0
  /\ \A i \in Links : /\ In(i) = i - 1 /\ In(i) \in Queues /\ Out(i) \in Queues /\ i \in Nat
                      /\ i = Recycler \/ Out(i) = i
  /\ \A q \in Queues : q \in Nat
  /\ Recycler \in Links /\ 0 \in Queues
BY ChainAssumption DEF Links, Queues, In, Out, Recycler

LEMMA ItemShape ==
  /\ Poison \in Items /\ Poison.block = NoBlock /\ Poison.size = 0
  /\ \A x \in Items : /\ x = [block |-> x.block, size |-> x.size]
                      /\ x.size \in 0..BlockSize
                      /\ x # Poison => x.block \in Blocks /\ x.block # NoBlock
BY ChainAssumption DEF Items, Poison, Blocks

LEMMA SpotShape ==
  ASSUME NEW q \in [Queues -> Seq(Items)], NEW H, H \subseteq Links
  PROVE  /\ \A p \in Spots(q, H) :
              /\ p = <<p[1], p[2]>> /\ p[1] \in Nat /\ p[2] \in Nat
              /\ p[2] = 0 => p[1] \in H
              /\ p[2] # 0 => p[1] \in Queues /\ p[2] \in 1..Len(q[p[1]])
         /\ \A n \in Queues : Len(q[n]) \in Nat /\ \A k \in 1..Len(q[n]) : <<n, k>> \in Spots(q, H)
         /\ \A i \in H : <<i, 0>> \in Spots(q, H)
<1>1. \A n \in Queues : Len(q[n]) \in Nat
  OBVIOUS
<1>2. \A p : p \in Spots(q, H) <=> \/ \E n \in Queues : \E k \in 1..Len(q[n]) : p = <<n, k>>
                                   \/ \E i \in H : p = <<i, 0>>
  <2> DEFINE A == {{<<n, k>> : k \in 1..Len(q[n])} : n \in Queues}
             B == {<<i, 0>> : i \in H}
  <2>1. \A p : p \in UNION A <=> \E n \in Queues : p \in {<<n, k>> : k \in 1..Len(q[n])}
    BY Zenon
  <2>2. \A p : p \in UNION A <=> \E n \in Queues : \E k \in 1..Len(q[n]) : p = <<n, k>>
    <3> HIDE DEF A
    <3> QED BY <2>1, Zenon
  <2>3. \A p : p \in B <=> \E i \in H : p = <<i, 0>>
    OBVIOUS
  <2>4. Spots(q, H) = (UNION A) \union B
    BY Zenon DEF Spots
  <2> HIDE DEF A, B
  <2> QED BY <2>2, <2>3, <2>4, Zenon
<1>3. ASSUME NEW p \in Spots(q, H)
      PROVE  /\ p = <<p[1], p[2]>> /\ p[1] \in Nat /\ p[2] \in Nat
             /\ p[2] = 0 => p[1] \in H
             /\ p[2] # 0 => p[1] \in Queues /\ p[2] \in 1..Len(q[p[1]])
  <2>1. CASE \E i \in H : p = <<i, 0>>
    BY <2>1, Constants
  <2>2. CASE \E n \in Queues : \E k \in 1..Len(q[n]) : p = <<n, k>>
    BY <1>1, <2>2, Constants
  <2> QED BY <1>2, <2>1, <2>2
<1>4. /\ \A n \in Queues : \A k \in 1..Len(q[n]) : <<n, k>> \in Spots(q, H)
      /\ \A i \in H : <<i, 0>> \in Spots(q, H)
  BY <1>2, Zenon
<1> QED BY <1>1, <1>3, <1>4

\* Link i takes the first item of its queue: where what is at p was before.
TakeOld(i, p) ==
  IF p = <<i, 0>> THEN <<i - 1, 1>>
  ELSE IF p[1] = i - 1 /\ p[2] # 0 THEN <<p[1], p[2] + 1>> ELSE p

\* q, H and l are the queues, the hands and the links before, q1, H1 and l1 after it.
Taken(i, q, H, l, q1, H1, l1) ==
  /\ i \in Links /\ i \notin H /\ H \subseteq Links /\ H1 \subseteq Links
  /\ \A j : j \in H1 <=> j \in H \/ j = i
  /\ q \in [Queues -> Seq(Items)] /\ q1 \in [Queues -> Seq(Items)]
  /\ q[i - 1] # <<>> /\ q1[i - 1] = Tail(q[i - 1])
  /\ \A n \in Queues \ {i - 1} : q1[n] = q[n]
  /\ l1[i].current = Head(q[i - 1])
  /\ \A j \in H : l1[j].current = l[j].current

LEMMA Take ==
  ASSUME NEW i, NEW q, NEW H, NEW l, NEW q1, NEW H1, NEW l1, Taken(i, q, H, l, q1, H1, l1)
  PROVE  /\ [p \in Spots(q1, H1) |-> TakeOld(i, p)] \in Bijection(Spots(q1, H1), Spots(q, H))
         /\ \A p \in Spots(q1, H1) : Item(q1, l1, p) = Item(q, l, TakeOld(i, p))
<1> DEFINE S1 == Spots(q1, H1)
           S == Spots(q, H)
           f == [p \in S1 |-> TakeOld(i, p)]
<1>a. /\ i \in Links /\ i \notin H /\ H \subseteq Links /\ H1 \subseteq Links
      /\ \A j : j \in H1 <=> j \in H \/ j = i
      /\ q \in [Queues -> Seq(Items)] /\ q1 \in [Queues -> Seq(Items)]
      /\ q[i - 1] # <<>> /\ q1[i - 1] = Tail(q[i - 1])
      /\ \A n \in Queues \ {i - 1} : q1[n] = q[n]
      /\ l1[i].current = Head(q[i - 1])
      /\ \A j \in H : l1[j].current = l[j].current
  BY DEF Taken
<1>1. i - 1 \in Queues /\ i \in Nat /\ i - 1 \in Nat /\ H1 \subseteq Links
  BY <1>a, Constants
<1>2. /\ q1 \in [Queues -> Seq(Items)]
      /\ Len(q1[i - 1]) = Len(q[i - 1]) - 1 /\ Len(q[i - 1]) \in Nat /\ Len(q[i - 1]) >= 1
      /\ \A k \in 1..Len(q1[i - 1]) : q1[i - 1][k] = q[i - 1][k + 1]
      /\ Head(q[i - 1]) = q[i - 1][1]
      /\ \A n \in Queues : n # i - 1 => q1[n] = q[n]
  <2>1. q[i - 1] \in Seq(Items)
    BY <1>a, <1>1
  <2>2. /\ Tail(q[i - 1]) \in Seq(Items) /\ Len(Tail(q[i - 1])) = Len(q[i - 1]) - 1
        /\ Len(q[i - 1]) \in Nat /\ Len(q[i - 1]) >= 1
        /\ \A k \in 1..Len(Tail(q[i - 1])) : Tail(q[i - 1])[k] = q[i - 1][k + 1]
        /\ Head(q[i - 1]) = q[i - 1][1]
    BY <1>a, <2>1
  <2> QED BY <1>a, <1>1, <2>2
<1>3. /\ \A p \in S1 :
           /\ p = <<p[1], p[2]>> /\ p[1] \in Nat /\ p[2] \in Nat
           /\ p[2] = 0 => p[1] \in H1
           /\ p[2] # 0 => p[1] \in Queues /\ p[2] \in 1..Len(q1[p[1]])
      /\ \A n \in Queues : \A k \in 1..Len(q1[n]) : <<n, k>> \in S1
      /\ \A j \in H1 : <<j, 0>> \in S1
  BY <1>a, <1>1, <1>2, SpotShape
<1>4. /\ \A p \in S :
           /\ p = <<p[1], p[2]>> /\ p[1] \in Nat /\ p[2] \in Nat
           /\ p[2] = 0 => p[1] \in H
           /\ p[2] # 0 => p[1] \in Queues /\ p[2] \in 1..Len(q[p[1]])
      /\ \A n \in Queues : \A k \in 1..Len(q[n]) : <<n, k>> \in S
      /\ \A j \in H : <<j, 0>> \in S
  BY <1>a, SpotShape
<1> HIDE DEF S1, S
<1>5. ASSUME NEW p \in S1
      PROVE  TakeOld(i, p) \in S /\ Item(q1, l1, p) = Item(q, l, TakeOld(i, p))
  <2>1. CASE p = <<i, 0>>
    <3>1. TakeOld(i, p) = <<i - 1, 1>> /\ 1 \in 1..Len(q[i - 1])
      BY <1>a, <1>2, <2>1 DEF TakeOld
    <3>2. Item(q1, l1, p) = l1[i].current /\ Item(q, l, <<i - 1, 1>>) = q[i - 1][1]
      BY <1>a, <2>1 DEF Item
    <3> QED BY <1>a, <1>1, <1>2, <1>4, <3>1, <3>2
  <2>2. CASE p[1] = i - 1 /\ p[2] # 0
    <3>1. p # <<i, 0>> /\ TakeOld(i, p) = <<i - 1, p[2] + 1>>
      BY <1>a, <1>3, <2>2 DEF TakeOld
    <3>2. p[2] + 1 \in 1..Len(q[i - 1]) /\ p[2] \in 1..Len(q1[i - 1]) /\ p[2] + 1 # 0
      <4>1. p[2] \in 1..Len(q1[i - 1]) /\ p[2] \in Nat
        BY <1>a, <1>3, <2>2
      <4> QED BY <1>a, <1>2, <4>1
    <3> QED BY <1>a, <1>1, <1>2, <1>4, <2>2, <3>1, <3>2 DEF Item
  <2>3. CASE p # <<i, 0>> /\ ~(p[1] = i - 1 /\ p[2] # 0)
    <3>1. TakeOld(i, p) = p
      BY <1>a, <2>3 DEF TakeOld
    <3>2. CASE p[2] = 0
      <4>1. p[1] \in H
        BY <1>a, <1>3, <2>3, <3>2
      <4> QED BY <1>a, <1>3, <1>4, <3>1, <3>2, <4>1 DEF Item
    <3>3. CASE p[2] # 0
      BY <1>a, <1>2, <1>3, <1>4, <2>3, <3>1, <3>3 DEF Item
    <3> QED BY <1>a, <3>2, <3>3
  <2> QED BY <1>a, <2>1, <2>2, <2>3
<1>6. ASSUME NEW p \in S1, NEW r \in S1, TakeOld(i, p) = TakeOld(i, r)
      PROVE  p = r
  <2>1. \A x \in S1 : \/ x = <<i, 0>> /\ TakeOld(i, x) = <<i - 1, 1>>
                      \/ x[1] = i - 1 /\ x[2] \in Nat /\ x[2] > 0 /\ TakeOld(i, x) = <<i - 1, x[2] + 1>>
                      \/ ~(x[1] = i - 1 /\ x[2] # 0) /\ TakeOld(i, x) = x
    BY <1>a, <1>3 DEF TakeOld
  <2>2. <<i - 1, 1>>[1] = i - 1 /\ <<i - 1, 1>>[2] = 1
    OBVIOUS
  <2>3. \A k : <<i - 1, k + 1>>[1] = i - 1 /\ <<i - 1, k + 1>>[2] = k + 1
    OBVIOUS
  <2>4. \A k \in Nat : k > 0 => k + 1 # 1 /\ k + 1 # 0
    OBVIOUS
  <2>5. \A k, m \in Nat : k + 1 = m + 1 => k = m
    OBVIOUS
  <2>6. \A x \in S1 : x = <<x[1], x[2]>> /\ x[2] \in Nat
    BY <1>a, <1>3
  <2> QED BY <1>a, <1>6, <2>1, <2>2, <2>3, <2>4, <2>5, <2>6
<1>7. ASSUME NEW p \in S
      PROVE  \E r \in S1 : TakeOld(i, r) = p
  <2>1. CASE p = <<i - 1, 1>>
    <3>1. <<i, 0>> \in S1 /\ TakeOld(i, <<i, 0>>) = p
      BY <1>a, <1>3, <2>1 DEF TakeOld
    <3> QED BY <1>a, <3>1
  <2>2. CASE p[1] = i - 1 /\ p[2] # 0 /\ p[2] # 1
    <3>1. p[2] - 1 \in 1..Len(q1[i - 1]) /\ p[2] - 1 # 0 /\ (p[2] - 1) + 1 = p[2]
      BY <1>a, <1>2, <1>4, <2>2
    <3>2. <<i - 1, p[2] - 1>> \in S1
      BY <1>a, <1>1, <1>3, <3>1
    <3>3. TakeOld(i, <<i - 1, p[2] - 1>>) = p
      BY <1>a, <1>1, <1>4, <2>2, <3>1 DEF TakeOld
    <3> QED BY <1>a, <3>2, <3>3
  <2>3. CASE ~(p[1] = i - 1 /\ p[2] # 0)
    <3>1. p # <<i, 0>> /\ TakeOld(i, p) = p
      BY <1>a, <1>4, <2>3 DEF TakeOld
    <3>2. p \in S1
      <4>1. CASE p[2] = 0
        BY <1>a, <1>3, <1>4, <4>1
      <4>2. CASE p[2] # 0
        <5>1. p = <<p[1], p[2]>> /\ p[1] \in Queues /\ q1[p[1]] = q[p[1]] /\ p[2] \in 1..Len(q[p[1]])
          BY <1>a, <1>2, <1>4, <2>3, <4>2
        <5> QED BY <1>a, <1>3, <5>1
      <4> QED BY <1>a, <4>1, <4>2
    <3> QED BY <1>a, <3>1, <3>2
  <2> QED BY <1>a, <1>4, <2>1, <2>2, <2>3
<1>8. f \in Bijection(S1, S)
  BY <1>a, <1>5, <1>6, <1>7 DEF Bijection, Injection, Surjection, IsInjective
<1> QED BY <1>a, <1>5, <1>8 DEF S1, S

LEMMA TakeOrder ==
  ASSUME NEW i \in Links, NEW p \in Nat \X Nat, NEW r \in Nat \X Nat
  PROVE  /\ Ahead(p, r) => Ahead(TakeOld(i, p), TakeOld(i, r))
         /\ InPipe(p) <=> InPipe(TakeOld(i, p))
         /\ Past(p) => Past(TakeOld(i, p))
<1>1. i \in Nat /\ i >= 1 /\ i <= Workers + 1 /\ Workers \in Nat /\ Workers > 2
  BY Constants DEF Links
<1>2. /\ p[1] \in Nat /\ p[2] \in Nat /\ p = <<p[1], p[2]>>
      /\ r[1] \in Nat /\ r[2] \in Nat /\ r = <<r[1], r[2]>>
  OBVIOUS
<1>3. \A x \in Nat \X Nat :
        \/ x[1] = i /\ x[2] = 0 /\ TakeOld(i, x)[1] = i - 1 /\ TakeOld(i, x)[2] = 1
        \/ x[1] = i - 1 /\ x[2] # 0 /\ TakeOld(i, x)[1] = i - 1 /\ TakeOld(i, x)[2] = x[2] + 1
        \/ /\ ~(x[1] = i /\ x[2] = 0) /\ ~(x[1] = i - 1 /\ x[2] # 0)
           /\ TakeOld(i, x)[1] = x[1] /\ TakeOld(i, x)[2] = x[2]
  BY DEF TakeOld
<1>4. Ahead(p, r) => Ahead(TakeOld(i, p), TakeOld(i, r))
  BY <1>1, <1>2, <1>3 DEF Ahead
<1>5. InPipe(p) <=> InPipe(TakeOld(i, p))
  BY <1>1, <1>2, <1>3 DEF InPipe
<1>6. Past(p) => Past(TakeOld(i, p))
  BY <1>1, <1>2, <1>3 DEF Past
<1> QED BY <1>4, <1>5, <1>6

\* Link i gives an item to its queue.
GiveOld(i, o, m, p) == IF p = <<o, m>> THEN <<i, 0>> ELSE p

Given(i, o, m, x, q, H, l, q1, H1, l1) ==
  /\ i \in H /\ o \in Queues /\ x \in Items /\ H \subseteq Links /\ H1 \subseteq Links
  /\ \A j : j \in H1 <=> j \in H /\ j # i
  /\ q \in [Queues -> Seq(Items)] /\ q1 \in [Queues -> Seq(Items)]
  /\ m = Len(q[o]) + 1 /\ q1[o] = Append(q[o], x)
  /\ \A n \in Queues \ {o} : q1[n] = q[n]
  /\ \A j \in H \ {i} : l1[j].current = l[j].current

\* The new places map to the old ones, and only the one at the end of queue o has a new item.
Placed(i, o, m, x, q, H, l, q1, H1, l1) ==
  /\ <<o, m>> \in Spots(q1, H1)
  /\ [p \in Spots(q1, H1) |-> GiveOld(i, o, m, p)] \in Bijection(Spots(q1, H1), Spots(q, H))
  /\ Item(q1, l1, <<o, m>>) = x
  /\ \A p \in Spots(q1, H1) : p # <<o, m>> => Item(q1, l1, p) = Item(q, l, p)

LEMMA Give ==
  ASSUME NEW i, NEW o, NEW m, NEW x, NEW q, NEW H, NEW l, NEW q1, NEW H1, NEW l1,
         Given(i, o, m, x, q, H, l, q1, H1, l1)
  PROVE  Placed(i, o, m, x, q, H, l, q1, H1, l1)
<1> DEFINE S1 == Spots(q1, H1)
           S == Spots(q, H)
           f == [p \in S1 |-> GiveOld(i, o, m, p)]
<1>a. /\ i \in H /\ o \in Queues /\ x \in Items /\ H \subseteq Links /\ H1 \subseteq Links
      /\ \A j : j \in H1 <=> j \in H /\ j # i
      /\ q \in [Queues -> Seq(Items)] /\ q1 \in [Queues -> Seq(Items)]
      /\ m = Len(q[o]) + 1 /\ q1[o] = Append(q[o], x)
      /\ \A n \in Queues \ {o} : q1[n] = q[n]
      /\ \A j \in H \ {i} : l1[j].current = l[j].current
  BY DEF Given
<1>1. i \in Nat /\ o \in Nat /\ H1 \subseteq Links
  BY <1>a, Constants
<1>2. /\ q1 \in [Queues -> Seq(Items)]
      /\ Len(q1[o]) = m /\ m \in Nat /\ m >= 1 /\ Len(q[o]) = m - 1 /\ q1[o][m] = x
      /\ \A k \in 1..(m - 1) : q1[o][k] = q[o][k]
      /\ \A n \in Queues : n # o => q1[n] = q[n]
  <2>1. q[o] \in Seq(Items)
    BY <1>a
  <2>2. /\ Append(q[o], x) \in Seq(Items) /\ Len(Append(q[o], x)) = Len(q[o]) + 1
        /\ Len(q[o]) \in Nat /\ Append(q[o], x)[Len(q[o]) + 1] = x
        /\ \A k \in 1..Len(q[o]) : Append(q[o], x)[k] = q[o][k]
    BY <1>a, <2>1
  <2> QED BY <1>a, <2>2
<1>3. /\ \A p \in S1 :
           /\ p = <<p[1], p[2]>> /\ p[1] \in Nat /\ p[2] \in Nat
           /\ p[2] = 0 => p[1] \in H1
           /\ p[2] # 0 => p[1] \in Queues /\ p[2] \in 1..Len(q1[p[1]])
      /\ \A n \in Queues : \A k \in 1..Len(q1[n]) : <<n, k>> \in S1
      /\ \A j \in H1 : <<j, 0>> \in S1
  BY <1>a, <1>1, <1>2, SpotShape
<1>4. /\ \A p \in S :
           /\ p = <<p[1], p[2]>> /\ p[1] \in Nat /\ p[2] \in Nat
           /\ p[2] = 0 => p[1] \in H
           /\ p[2] # 0 => p[1] \in Queues /\ p[2] \in 1..Len(q[p[1]])
      /\ \A n \in Queues : \A k \in 1..Len(q[n]) : <<n, k>> \in S
      /\ \A j \in H : <<j, 0>> \in S
  BY <1>a, SpotShape
<1> HIDE DEF S1, S
<1>5. <<o, m>> \in S1 /\ <<i, 0>> \in S /\ <<i, 0>> \notin S1 /\ <<o, m>> \notin S
  <2>1. <<o, m>> \in S1
    BY <1>a, <1>2, <1>3
  <2>2. <<i, 0>> \notin S1
    BY <1>a, <1>3
  <2>3. <<o, m>> \notin S
    BY <1>a, <1>2, <1>4
  <2> QED BY <1>a, <1>4, <2>1, <2>2, <2>3
<1>6. ASSUME NEW p, p # <<o, m>>, p # <<i, 0>>
      PROVE  p \in S1 <=> p \in S
  <2>1. ASSUME p \in S1 PROVE p \in S
    <3>1. CASE p[2] = 0
      BY <1>a, <1>3, <1>4, <2>1, <3>1
    <3>2. CASE p[2] # 0 /\ p[1] # o
      BY <1>a, <1>2, <1>3, <1>4, <2>1, <3>2
    <3>3. CASE p[2] # 0 /\ p[1] = o
      <4>1. p[2] \in 1..m /\ p[2] # m /\ p = <<o, p[2]>>
        BY <1>a, <1>2, <1>3, <1>6, <2>1, <3>3
      <4>2. p[2] \in 1..Len(q[o])
        BY <1>a, <1>2, <4>1
      <4> QED BY <1>a, <1>4, <4>1, <4>2
    <3> QED BY <1>a, <3>1, <3>2, <3>3
  <2>2. ASSUME p \in S PROVE p \in S1
    <3>1. CASE p[2] = 0
      <4>1. p = <<p[1], 0>> /\ p[1] \in H /\ p[1] # i
        BY <1>a, <1>4, <1>6, <2>2, <3>1
      <4> QED BY <1>a, <1>3, <4>1
    <3>2. CASE p[2] # 0
      <4>1. p = <<p[1], p[2]>> /\ p[1] \in Queues /\ p[2] \in 1..Len(q[p[1]])
        BY <1>a, <1>4, <2>2, <3>2
      <4>2. p[2] \in 1..Len(q1[p[1]])
        <5>1. CASE p[1] = o
          BY <1>a, <1>2, <4>1, <5>1
        <5>2. CASE p[1] # o
          BY <1>a, <1>2, <4>1, <5>2
        <5> QED BY <1>a, <5>1, <5>2
      <4> QED BY <1>a, <1>3, <4>1, <4>2
    <3> QED BY <1>a, <3>1, <3>2
  <2> QED BY <1>a, <2>1, <2>2
<1>7. \A p \in S1 : /\ GiveOld(i, o, m, p) \in S
                    /\ p # <<o, m>> => GiveOld(i, o, m, p) = p
  BY <1>a, <1>5, <1>6 DEF GiveOld
<1>8. \A p \in S : \E r \in S1 : GiveOld(i, o, m, r) = p
  BY <1>a, <1>5, <1>6 DEF GiveOld
<1>9. \A p, r \in S1 : GiveOld(i, o, m, p) = GiveOld(i, o, m, r) => p = r
  BY <1>a, <1>5 DEF GiveOld
<1>10. ASSUME NEW p \in S1
       PROVE  Item(q1, l1, p) = IF p = <<o, m>> THEN x ELSE Item(q, l, p)
  <2>1. CASE p = <<o, m>>
    BY <1>a, <1>2, <2>1 DEF Item
  <2>2. CASE p # <<o, m>> /\ p[2] = 0
    BY <1>a, <1>3, <2>2 DEF Item
  <2>3. CASE p # <<o, m>> /\ p[2] # 0
    <3>1. p = <<p[1], p[2]>> /\ p[1] \in Queues /\ p[2] \in 1..Len(q1[p[1]])
      BY <1>a, <1>3, <2>3
    <3>2. q1[p[1]][p[2]] = q[p[1]][p[2]]
      BY <1>a, <1>2, <2>3, <3>1
    <3> QED BY <1>a, <2>3, <3>2 DEF Item
  <2> QED BY <1>a, <2>1, <2>2, <2>3
<1>11. f \in Bijection(S1, S)
  BY <1>a, <1>7, <1>8, <1>9 DEF Bijection, Injection, Surjection, IsInjective
<1>12. /\ Item(q1, l1, <<o, m>>) = x
       /\ \A p \in S1 : p # <<o, m>> => Item(q1, l1, p) = Item(q, l, p)
  BY <1>5, <1>10
<1> QED BY <1>5, <1>11, <1>12, Zenon DEF S1, S, Placed

\* All but the recycler give to the queue after them.
LEMMA GiveOrder ==
  ASSUME NEW i \in Links, i # Recycler, NEW m \in Nat \ {0}, NEW p \in Nat \X Nat, NEW r \in Nat \X Nat,
         p # <<i, 0>>, r # <<i, 0>>, p[1] = i /\ p[2] # 0 => p[2] <= m, r[1] = i /\ r[2] # 0 => r[2] <= m
  PROVE  Ahead(p, r) => Ahead(GiveOld(i, i, m, p), GiveOld(i, i, m, r))
<1>1. i \in Nat /\ m \in Nat /\ m > 0
  BY Constants
<1>2. \A x \in Nat \X Nat :
        \/ x[1] = i /\ x[2] = m /\ GiveOld(i, i, m, x)[1] = i /\ GiveOld(i, i, m, x)[2] = 0
        \/ ~(x[1] = i /\ x[2] = m) /\ GiveOld(i, i, m, x)[1] = x[1] /\ GiveOld(i, i, m, x)[2] = x[2]
  BY DEF GiveOld
<1>3. /\ p[1] \in Nat /\ p[2] \in Nat /\ r[1] \in Nat /\ r[2] \in Nat
      /\ ~(p[1] = i /\ p[2] = 0) /\ ~(r[1] = i /\ r[2] = 0)
  OBVIOUS
<1> QED BY <1>1, <1>2, <1>3 DEF Ahead

-----------------------------------------------------------------------------
(* Facts about a state                                                     *)

LEMMA PlaceShape ==
  ASSUME TypeOK
  PROVE  /\ Places = Spots(queue, Holders) /\ \A p : At(p) = Item(queue, link, p)
         /\ queue \in [Queues -> Seq(Items)] /\ Holders \subseteq Links
         /\ \A i \in Links : link[i].current \in Items
         /\ \A p \in Places :
              /\ p = <<p[1], p[2]>> /\ p[1] \in Nat /\ p[2] \in Nat /\ p \in Nat \X Nat
              /\ p[2] = 0 => p[1] \in Holders
              /\ p[2] # 0 => p[1] \in Queues /\ p[2] \in 1..Len(queue[p[1]])
              /\ At(p) \in Items
         /\ \A n \in Queues : Len(queue[n]) \in Nat /\ \A k \in 1..Len(queue[n]) : <<n, k>> \in Places
         /\ \A i \in Holders : <<i, 0>> \in Places /\ At(<<i, 0>>) = link[i].current
<1>1. Places = Spots(queue, Holders) /\ \A p : At(p) = Item(queue, link, p)
  BY DEF Places, Spots, At, Item
<1>2. /\ queue \in [Queues -> Seq(Items)] /\ Holders \subseteq Links
      /\ \A i \in Links : link[i].current \in Items
  BY DEF TypeOK, Holders
<1>3. /\ \A p \in Places :
           /\ p = <<p[1], p[2]>> /\ p[1] \in Nat /\ p[2] \in Nat
           /\ p[2] = 0 => p[1] \in Holders
           /\ p[2] # 0 => p[1] \in Queues /\ p[2] \in 1..Len(queue[p[1]])
      /\ \A n \in Queues : Len(queue[n]) \in Nat /\ \A k \in 1..Len(queue[n]) : <<n, k>> \in Places
      /\ \A i \in Holders : <<i, 0>> \in Places
  BY <1>1, <1>2, SpotShape
<1>4. ASSUME NEW p \in Places
      PROVE  At(p) \in Items /\ p \in Nat \X Nat
  <2>1. p \in Nat \X Nat
    <3>1. p = <<p[1], p[2]>> /\ p[1] \in Nat /\ p[2] \in Nat
      BY <1>3
    <3> QED BY <3>1
  <2>2. CASE p[2] = 0
    BY <1>2, <1>3, <2>1, <2>2 DEF At
  <2>3. CASE p[2] # 0
    <3>1. queue[p[1]] \in Seq(Items) /\ p[2] \in 1..Len(queue[p[1]])
      BY <1>2, <1>3, <2>3
    <3>2. queue[p[1]][p[2]] \in Items
      BY <3>1
    <3> QED BY <2>1, <2>3, <3>2 DEF At
  <2> QED BY <1>3, <2>1, <2>2, <2>3, Zenon
<1>5. \A i \in Holders : At(<<i, 0>>) = link[i].current
  BY DEF At
<1> QED BY <1>1, <1>2, <1>3, <1>4, <1>5

\* Link i takes an item: f leads from the places after it to those before it.
LEMMA ConsumeMoves ==
  ASSUME TypeOK, NEW i \in Links, Consume(i)
  PROVE  /\ [p \in Places' |-> TakeOld(i, p)] \in Bijection(Places', Places)
         /\ \A p \in Places' : TakeOld(i, p) \in Places /\ At(p)' = At(TakeOld(i, p))
         /\ Places' \subseteq Nat \X Nat
<1>1. /\ link[i].pc = "consume" /\ queue[i - 1] # <<>>
      /\ queue' = [queue EXCEPT ![i - 1] = Tail(queue[i - 1])]
      /\ link' = [link EXCEPT ![i] = [pc |-> IF Head(queue[i - 1]) = Poison THEN "poisoned" ELSE "held",
                                      current |-> Head(queue[i - 1])]]
  BY Constants DEF Consume
<1>2. /\ link'[i].current = Head(queue[i - 1]) /\ link'[i].pc \in {"held", "poisoned"}
      /\ \A j \in Links : j # i => link'[j] = link[j]
  BY <1>1 DEF TypeOK
<1>3. Holders' = Holders \union {i} /\ i \notin Holders
  BY <1>1, <1>2 DEF Holders
<1>4. Places' = Spots(queue', Holders') /\ \A p : At(p)' = Item(queue', link', p)
  BY DEF Places, Spots, At, Item
<1>5. \A j \in Holders : link'[j].current = link[j].current
  BY <1>2, <1>3 DEF Holders
<1>6. /\ queue \in [Queues -> Seq(Items)] /\ Holders \subseteq Links
      /\ Places = Spots(queue, Holders) /\ \A p : At(p) = Item(queue, link, p)
  BY PlaceShape
<1>7. /\ [p \in Spots(queue', Holders') |-> TakeOld(i, p)] \in
           Bijection(Spots(queue', Holders'), Spots(queue, Holders))
      /\ \A p \in Spots(queue', Holders') :
           Item(queue', link', p) = Item(queue, link, TakeOld(i, p))
  <2>1. /\ queue' \in [Queues -> Seq(Items)] /\ queue'[i - 1] = Tail(queue[i - 1])
        /\ \A n \in Queues \ {i - 1} : queue'[n] = queue[n]
    <3>1. i - 1 \in Queues /\ queue[i - 1] \in Seq(Items)
      BY <1>6, Constants
    <3>2. Tail(queue[i - 1]) \in Seq(Items)
      BY <1>1, <3>1
    <3> QED BY <1>1, <1>6, <3>1, <3>2
  <2>2. Holders' \subseteq Links /\ \A j : j \in Holders' <=> j \in Holders \/ j = i
    BY <1>3, <1>6
  <2>3. /\ i \notin Holders /\ queue[i - 1] # <<>> /\ link'[i].current = Head(queue[i - 1])
        /\ queue \in [Queues -> Seq(Items)] /\ Holders \subseteq Links
    BY <1>1, <1>2, <1>3, <1>6
  <2>4. Taken(i, queue, Holders, link, queue', Holders', link')
    BY <1>5, <2>1, <2>2, <2>3 DEF Taken
  <2> QED BY <2>4, Take, SMT
<1>8. [p \in Places' |-> TakeOld(i, p)] \in Bijection(Places', Places)
  BY <1>4, <1>6, <1>7, Zenon
<1>9. \A p \in Places' : TakeOld(i, p) \in Places
  <2> DEFINE f == [p \in Places' |-> TakeOld(i, p)]
  <2>1. \A p \in Places' : f[p] \in Places
    BY <1>8 DEF Bijection, Injection
  <2> QED BY <2>1
<1>10. \A p \in Places' : At(p)' = At(TakeOld(i, p))
  BY <1>4, <1>6, <1>7, SMT
<1>11. Places' \subseteq Nat \X Nat
  <2>1. queue' \in [Queues -> Seq(Items)] /\ Holders' \subseteq Links
    <3>1. i - 1 \in Queues /\ queue[i - 1] \in Seq(Items)
      BY <1>6, Constants
    <3>2. Tail(queue[i - 1]) \in Seq(Items)
      BY <1>1, <3>1
    <3> QED BY <1>1, <1>3, <1>6, <3>2
  <2>2. \A p \in Places' : p = <<p[1], p[2]>> /\ p[1] \in Nat /\ p[2] \in Nat
    BY <1>4, <2>1, SpotShape
  <2> QED BY <2>2
<1> QED BY <1>8, <1>9, <1>10, <1>11

\* Link i gives an item.
LEMMA GiveMoves ==
  ASSUME TypeOK, NEW i \in Holders, NEW x \in Items,
         queue' = [queue EXCEPT ![Out(i)] = Append(queue[Out(i)], x)],
         \A j \in Links : j # i => link'[j] = link[j],
         link'[i].pc \notin {"held", "poisoned"},
         NEW m, m = Len(queue[Out(i)]) + 1
  PROVE  /\ <<Out(i), m>> \in Places'
         /\ [p \in Places' |-> GiveOld(i, Out(i), m, p)] \in Bijection(Places', Places)
         /\ \A p \in Places' : GiveOld(i, Out(i), m, p) \in Places
         /\ At(<<Out(i), m>>)' = x /\ \A p \in Places' : p # <<Out(i), m>> => At(p)' = At(p)
         /\ m \in Nat \ {0} /\ \A p \in Places' : p # <<i, 0>>
<1>1. i \in Links /\ Out(i) \in Queues
  BY Constants DEF Holders
<1>2. Holders' = Holders \ {i}
  BY DEF Holders
<1>3. Places' = Spots(queue', Holders') /\ \A p : At(p)' = Item(queue', link', p)
  BY DEF Places, Spots, At, Item
<1>4. \A j \in Holders \ {i} : link'[j].current = link[j].current
  BY DEF Holders
<1>5. /\ queue \in [Queues -> Seq(Items)] /\ Holders \subseteq Links
      /\ Places = Spots(queue, Holders) /\ \A p : At(p) = Item(queue, link, p)
  BY PlaceShape
<1>6. /\ <<Out(i), m>> \in Spots(queue', Holders')
      /\ [p \in Spots(queue', Holders') |-> GiveOld(i, Out(i), m, p)] \in
           Bijection(Spots(queue', Holders'), Spots(queue, Holders))
      /\ Item(queue', link', <<Out(i), m>>) = x
      /\ \A p \in Spots(queue', Holders') :
           p # <<Out(i), m>> => Item(queue', link', p) = Item(queue, link, p)
  <2>1. /\ queue' \in [Queues -> Seq(Items)] /\ queue'[Out(i)] = Append(queue[Out(i)], x)
        /\ \A n \in Queues \ {Out(i)} : queue'[n] = queue[n]
    <3>1. queue[Out(i)] \in Seq(Items)
      BY <1>1, <1>5
    <3>2. Append(queue[Out(i)], x) \in Seq(Items)
      BY <3>1
    <3> QED BY <1>1, <1>5, <3>1, <3>2
  <2>2. Holders' \subseteq Links /\ \A j : j \in Holders' <=> j \in Holders /\ j # i
    BY <1>2, <1>5
  <2>3. queue \in [Queues -> Seq(Items)] /\ Holders \subseteq Links
    BY <1>5
  <2>4. Given(i, Out(i), m, x, queue, Holders, link, queue', Holders', link')
    BY <1>1, <1>4, <2>1, <2>2, <2>3 DEF Given
  <2>5. Placed(i, Out(i), m, x, queue, Holders, link, queue', Holders', link')
    BY <2>4, Give, Zenon
  <2> QED BY <2>5, Zenon DEF Placed
<1>7. [p \in Places' |-> GiveOld(i, Out(i), m, p)] \in Bijection(Places', Places)
  BY <1>3, <1>5, <1>6, Zenon
<1>8. \A p \in Places' : GiveOld(i, Out(i), m, p) \in Places
  <2> DEFINE f == [p \in Places' |-> GiveOld(i, Out(i), m, p)]
  <2>1. \A p \in Places' : f[p] \in Places
    BY <1>7 DEF Bijection, Injection
  <2> QED BY <2>1
<1>9. At(<<Out(i), m>>)' = x /\ \A p \in Places' : p # <<Out(i), m>> => At(p)' = At(p)
  <2>1. At(<<Out(i), m>>)' = x
    BY <1>3, <1>6, Zenon
  <2>2. ASSUME NEW p \in Places', p # <<Out(i), m>>
        PROVE  At(p)' = At(p)
    <3>1. At(p)' = Item(queue', link', p) /\ At(p) = Item(queue, link, p)
      BY <1>3, <1>5, Zenon
    <3>2. p \in Spots(queue', Holders')
      BY <1>3, Zenon
    <3> QED BY <1>6, <2>2, <3>1, <3>2, Zenon
  <2> QED BY <2>1, <2>2, Zenon
<1>10. <<Out(i), m>> \in Places'
  BY <1>3, <1>6, Zenon
<1>11. m \in Nat \ {0} /\ \A p \in Places' : p # <<i, 0>>
  <2>1. queue[Out(i)] \in Seq(Items)
    BY <1>1, <1>5
  <2>2. Append(queue[Out(i)], x) \in Seq(Items) /\ m \in Nat \ {0}
    BY <2>1
  <2>3. queue' \in [Queues -> Seq(Items)] /\ Holders' \subseteq Links
    BY <1>1, <1>2, <1>5, <2>2
  <2>4. \A p \in Places' : p[2] = 0 => p[1] \in Holders'
    BY <1>3, <2>3, SpotShape
  <2> QED BY <1>2, <2>2, <2>4
<1> QED BY <1>7, <1>8, <1>9, <1>10, <1>11

\* The ring keeps its blocks when they move.
LEMMA RingMoved ==
  ASSUME Ring, UNCHANGED main, NEW f \in Bijection(Places', Places),
         \A p \in Places : At(p) \in Items,
         \A p \in Places' : \/ At(p)' = Poison
                            \/ /\ At(p)' \in Items /\ At(p)' # Poison
                               /\ At(f[p]) # Poison /\ At(f[p]).block = At(p)'.block
  PROVE  Ring'
<1>1. /\ f \in Injection(Places', Places) /\ f \in Surjection(Places', Places)
      /\ \A p \in Places' : f[p] \in Places
      /\ \A p, r \in Places' : f[p] = f[r] => p = r
  BY DEF Bijection, Injection, IsInjective
<1>2. ASSUME NEW p \in Places', NEW r \in Places', At(p)' # Poison, At(p)'.block = At(r)'.block
      PROVE  p = r
  <2>1. At(r)' # Poison
    BY <1>2, ItemShape
  <2>2. f[p] = f[r]
    BY <1>1, <1>2, <2>1 DEF Ring
  <2> QED BY <1>1, <2>2
<1>3. ASSUME main' = "running"
      PROVE  IsFiniteSet(Places') /\ Cardinality(Places') = BlockCount
  BY <1>1, <1>3, FS_Injection DEF Ring
<1> QED BY <1>2, <1>3 DEF Ring

\* Nothing is on its way but what was, each block with the entries it had.
LEMMA FlowCarried ==
  ASSUME Flowing, UNCHANGED <<delivered, written>>, NEW f \in Bijection(Places', Places),
         \A p \in Places' : p \in Pipe' <=> f[p] \in Pipe,
         \A p \in Pipe' : Text'[p] = Text[f[p]] /\ (Past(p) => Past(f[p])),
         \A p, r \in Pipe' : Ahead(p, r) => Ahead(f[p], f[r])
  PROVE  Flowing'
<1>1. /\ \A p \in Places' : f[p] \in Places
      /\ \A p \in Places : \E r \in Places' : f[r] = p
  BY DEF Bijection, Injection, Surjection
<1>2. \A p \in Pipe' : f[p] \in Pipe
  BY DEF Pipe
<1>3. \A p \in Pipe : \E r \in Pipe' : f[r] = p
  BY <1>1 DEF Pipe
<1>4. \A p \in Pipe' : /\ Rising(Text'[p])
                       /\ Range(Text'[p]) \subseteq Range(Text[f[p]])
                       /\ Range(Text[f[p]]) \intersect Kept \subseteq Range(Text'[p])
                       /\ Past(p) => Past(f[p]) \/ Range(Text'[p]) \subseteq Kept
  BY <1>2 DEF Flowing, Flow
<1>5. Flow(Pipe', Text', delivered, written)
  BY <1>2, <1>3, <1>4, FlowMoved DEF Flowing
<1> QED BY <1>5 DEF Flowing

-----------------------------------------------------------------------------
(* A thread gives what it has, a block or the poison                       *)

LEMMA SeqOfFunction ==
  ASSUME NEW n \in Nat, NEW f \in [1..n -> Nat]
  PROVE  f \in Seq(Nat) /\ Len(f) = n
OBVIOUS

LEMMA SeqFacts ==
  ASSUME NEW s \in Seq(Items)
  PROVE  /\ Len(s) \in Nat /\ (s # <<>> <=> Len(s) > 0)
         /\ \A k \in 1..Len(s) : s[k] \in Items
         /\ \A x \in Items : /\ Append(s, x) \in Seq(Items) /\ Len(Append(s, x)) = Len(s) + 1
                             /\ Append(s, x)[Len(s) + 1] = x
                             /\ \A k \in 1..Len(s) : Append(s, x)[k] = s[k]
                             /\ Append(s, x) # <<>> /\ LastOf(Append(s, x)) = x
         /\ s # <<>> => /\ Tail(s) \in Seq(Items) /\ Len(Tail(s)) = Len(s) - 1
                        /\ \A k \in 1..(Len(s) - 1) : Tail(s)[k] = s[k + 1]
                        /\ Head(s) = s[1] /\ Head(s) \in Items
BY DEF LastOf

Gives(i, x) ==
  /\ i \in Links /\ x \in Items
  /\ queue' = [queue EXCEPT ![Out(i)] = Append(queue[Out(i)], x)]
  /\ link' = [link EXCEPT ![i] = [pc |-> IF x = Poison THEN "done" ELSE "consume", current |-> Poison]]
  /\ IF x = Poison THEN link[i].pc = "poisoned"
     ELSE link[i].pc = "held" /\ x.block = link[i].current.block
  /\ UNCHANGED <<main, round>>

LEMMA GiveTyped ==
  ASSUME TypeOK, NEW i, NEW x, Gives(i, x)
  PROVE  /\ queue' \in [Queues -> Seq(Items)]
         /\ link' \in [Links -> [pc : {"absent", "consume", "held", "poisoned", "done"}, current : Items]]
         /\ i \in Holders /\ Out(i) \in Queues
         /\ queue'[Out(i)] = Append(queue[Out(i)], x)
         /\ \A q \in Queues : q # Out(i) => queue'[q] = queue[q]
         /\ link'[i].pc = IF x = Poison THEN "done" ELSE "consume"
         /\ link'[i].current = Poison
         /\ \A j \in Links : j # i => link'[j] = link[j]
<1>1. /\ i \in Links /\ x \in Items
      /\ queue' = [queue EXCEPT ![Out(i)] = Append(queue[Out(i)], x)]
      /\ link' = [link EXCEPT ![i] = [pc |-> IF x = Poison THEN "done" ELSE "consume", current |-> Poison]]
      /\ link[i].pc \in {"held", "poisoned"}
  BY DEF Gives
<1>2. Out(i) \in Queues
  BY <1>1, Constants
<1>3. queue \in [Queues -> Seq(Items)]
  BY DEF TypeOK
<1>4. Append(queue[Out(i)], x) \in Seq(Items)
  BY <1>1, <1>2, <1>3, SeqFacts
<1>5. /\ queue' \in [Queues -> Seq(Items)]
      /\ queue'[Out(i)] = Append(queue[Out(i)], x)
      /\ \A q \in Queues : q # Out(i) => queue'[q] = queue[q]
  BY <1>1, <1>2, <1>3, <1>4
<1>6. /\ link' \in [Links -> [pc : {"absent", "consume", "held", "poisoned", "done"}, current : Items]]
      /\ link'[i].pc = IF x = Poison THEN "done" ELSE "consume"
      /\ link'[i].current = Poison
      /\ \A j \in Links : j # i => link'[j] = link[j]
  BY <1>1, ItemShape DEF TypeOK
<1>7. i \in Holders
  BY <1>1 DEF Holders
<1> QED BY <1>2, <1>5, <1>6, <1>7

LEMMA GiveEnding ==
  ASSUME TypeOK, Hands, Ending, Drained, NEW i, NEW x, Gives(i, x)
  PROVE  Hands' /\ Ending' /\ Drained' /\ main = "running"
<1>a. /\ i \in Links /\ x \in Items /\ main' = main /\ round' = round
      /\ x = Poison => link[i].pc = "poisoned"
      /\ x # Poison => link[i].pc = "held"
  BY DEF Gives
<1>b. /\ queue' \in [Queues -> Seq(Items)] /\ queue \in [Queues -> Seq(Items)]
      /\ Out(i) \in Queues
      /\ queue'[Out(i)] = Append(queue[Out(i)], x)
      /\ \A q \in Queues : q # Out(i) => queue'[q] = queue[q]
  BY GiveTyped DEF TypeOK
<1>c. /\ x = Poison => link'[i].pc = "done"
      /\ x # Poison => link'[i].pc = "consume"
      /\ link'[i].current = Poison
      /\ \A j \in Links : j # i => link'[j] = link[j]
  BY GiveTyped
<1>d. main = "running" /\ main' = "running"
  BY <1>a DEF Hands
<1>e. /\ Workers \in Nat /\ Workers > 2 /\ i \in Nat /\ (i = Recycler \/ Out(i) = i) /\ Recycler = Workers + 1
      /\ Out(Recycler) = 0 /\ Recycler \in Links /\ 0 \in Queues
      /\ \A j \in Links : j \in Nat /\ j >= 1 /\ j <= Workers + 1 /\ j - 1 \in Queues
      /\ \A q \in Queues : q \in Nat
  BY <1>a, Constants DEF Links, Recycler, Out
<1>f. queue'[Out(i)] # <<>> /\ LastOf(queue'[Out(i)]) = x
  <2>1. queue[Out(i)] \in Seq(Items)
    BY <1>b
  <2>2. Append(queue[Out(i)], x) # <<>> /\ LastOf(Append(queue[Out(i)], x)) = x
    BY <1>a, <2>1, SeqFacts
  <2> QED BY <1>b, <2>2
<1>1. Hands'
  BY <1>a, <1>c, <1>d DEF Hands
<1>2. ASSUME NEW k \in Links, NEW j \in Links, j < k, link'[k].pc \in Ended
      PROVE  link'[j].pc = "done"
  <2>1. link[k].pc \in Ended
    BY <1>a, <1>2, <1>c DEF Ended
  <2>2. link[j].pc = "done"
    BY <1>2, <2>1 DEF Ending
  <2> QED BY <1>a, <1>c, <2>2
<1>3. ASSUME NEW k \in Links \ {1}, link'[k - 1].pc = "done"
      PROVE  IF link'[k].pc \in Ended THEN queue'[k - 1] = <<>>
             ELSE queue'[k - 1] # <<>> /\ LastOf(queue'[k - 1]) = Poison
  <2>1. k - 1 \in Links /\ k - 1 < k /\ k - 1 \in Queues /\ k - 1 # 0
    BY <1>e DEF Links
  <2>2. CASE k - 1 = i
    <3>1. x = Poison /\ i # Recycler
      BY <1>3, <1>c, <1>e, <2>1, <2>2
    <3>2. Out(i) = k - 1 /\ k # i
      BY <1>e, <2>1, <2>2, <3>1
    <3>3. link[k].pc \notin Ended
      BY <1>a, <2>1, <2>2, <3>1 DEF Ending
    <3>4. queue'[k - 1] # <<>> /\ LastOf(queue'[k - 1]) = Poison
      BY <1>f, <3>1, <3>2
    <3>5. link'[k].pc \notin Ended
      BY <1>c, <3>2, <3>3
    <3> QED BY <3>4, <3>5
  <2>3. CASE k - 1 # i
    <3>1. Out(i) # k - 1
      BY <1>e, <2>1, <2>3
    <3>2. queue'[k - 1] = queue[k - 1] /\ link[k - 1].pc = "done"
      BY <1>3, <1>b, <1>c, <2>1, <2>3, <3>1
    <3>3. link'[k].pc \in Ended <=> link[k].pc \in Ended
      BY <1>a, <1>c DEF Ended
    <3>4. IF link[k].pc \in Ended THEN queue[k - 1] = <<>>
          ELSE queue[k - 1] # <<>> /\ LastOf(queue[k - 1]) = Poison
      BY <3>2 DEF Ending
    <3> QED BY <3>2, <3>3, <3>4
  <2> QED BY <2>2, <2>3
<1>4. ASSUME NEW q \in Queues, NEW k \in 1..Len(queue'[q]), queue'[q][k] = Poison
      PROVE  /\ k = Len(queue'[q])
             /\ q # 0 => link'[q].pc = "done"
             /\ q = 0 /\ main' = "running" => link'[Recycler].pc = "done"
  <2>1. CASE q = Out(i)
    <3>1. queue[q] \in Seq(Items) /\ queue'[q] = Append(queue[q], x) /\ Len(queue[q]) \in Nat
      BY <1>b, <2>1, SeqFacts
    <3>2. Len(queue'[q]) = Len(queue[q]) + 1
      BY <1>a, <3>1, SeqFacts
    <3>3. ASSUME k \in 1..Len(queue[q])
          PROVE  FALSE
      <4>1. queue[q][k] = Poison
        BY <1>4, <1>a, <3>1, <3>3, SeqFacts
      <4>2. /\ q # 0 => link[q].pc = "done"
            /\ q = 0 => link[Recycler].pc = "done"
        BY <1>d, <3>3, <4>1 DEF Ending
      <4>3. IF q = 0 THEN i = Recycler ELSE i = q
        BY <1>a, <1>e, <2>1
      <4> QED BY <1>a, <4>2, <4>3
    <3>4. k = Len(queue[q]) + 1
      BY <3>1, <3>2, <3>3
    <3>5. x = Poison
      BY <1>4, <1>a, <3>1, <3>4, SeqFacts
    <3>6. link'[i].pc = "done"
      BY <1>c, <3>5
    <3>7. IF q = 0 THEN i = Recycler ELSE i = q
      BY <1>a, <1>e, <2>1
    <3> QED BY <3>2, <3>4, <3>6, <3>7
  <2>2. CASE q # Out(i)
    <3>1. queue'[q] = queue[q]
      BY <1>b, <2>2
    <3>2. /\ k = Len(queue[q])
          /\ q # 0 => link[q].pc = "done"
          /\ q = 0 => link[Recycler].pc = "done"
      BY <1>4, <1>d, <3>1 DEF Ending
    <3>3. \A j \in Links : link[j].pc = "done" => link'[j].pc = "done"
      BY <1>a, <1>c
    <3>4. q # 0 => q \in Links
      BY <1>e DEF Queues, Links
    <3> QED BY <1>e, <3>1, <3>2, <3>3, <3>4
  <2> QED BY <2>1, <2>2
<1>5. ASSUME link'[Recycler].pc = "done"
      PROVE  queue'[0] # <<>> /\ LastOf(queue'[0]) = Poison
  <2>1. CASE i = Recycler
    <3>1. x = Poison /\ Out(i) = 0
      BY <1>5, <1>c, <1>e, <2>1
    <3> QED BY <1>f, <3>1
  <2>2. CASE i # Recycler
    <3>1. link[Recycler].pc = "done" /\ Out(i) # 0
      BY <1>5, <1>a, <1>c, <1>e, <2>2
    <3> QED BY <1>b, <1>e, <3>1 DEF Ending
  <2> QED BY <2>1, <2>2
<1>6. Ending'
  BY <1>2, <1>3, <1>4, <1>5, Zenon DEF Ending
<1>7. Drained'
  BY <1>a, <1>d DEF Drained
<1> QED BY <1>1, <1>6, <1>7, <1>d

\* Where the items are after it: only the one at the end of the queue is new.
LEMMA GivePlaces ==
  ASSUME TypeOK, NEW i, NEW x, Gives(i, x), NEW m, m = Len(queue[Out(i)]) + 1
  PROVE  /\ <<Out(i), m>> \in Places'
         /\ [p \in Places' |-> GiveOld(i, Out(i), m, p)] \in Bijection(Places', Places)
         /\ \A p \in Places' : GiveOld(i, Out(i), m, p) \in Places
         /\ At(<<Out(i), m>>)' = x /\ \A p \in Places' : p # <<Out(i), m>> => At(p)' = At(p)
         /\ m \in Nat \ {0} /\ \A p \in Places' : p # <<i, 0>>
<1>1. /\ i \in Holders /\ x \in Items
      /\ queue' = [queue EXCEPT ![Out(i)] = Append(queue[Out(i)], x)]
  BY GiveTyped DEF Gives
<1>2. \A j \in Links : j # i => link'[j] = link[j]
  BY GiveTyped
<1>3. link'[i].pc \notin {"held", "poisoned"}
  BY GiveTyped
<1>4. /\ <<Out(i), m>> \in Places'
      /\ [p \in Places' |-> GiveOld(i, Out(i), m, p)] \in Bijection(Places', Places)
      /\ \A p \in Places' : GiveOld(i, Out(i), m, p) \in Places
  BY <1>1, <1>2, <1>3, GiveMoves, Zenon
<1>5. At(<<Out(i), m>>)' = x /\ \A p \in Places' : p # <<Out(i), m>> => At(p)' = At(p)
  BY <1>1, <1>2, <1>3, GiveMoves, Zenon
<1>6. m \in Nat \ {0} /\ \A p \in Places' : p # <<i, 0>>
  BY <1>1, <1>2, <1>3, GiveMoves, Zenon
<1> QED BY <1>4, <1>5, <1>6, Zenon

LEMMA GiveRing ==
  ASSUME TypeOK, Ring, NEW i, NEW x, Gives(i, x)
  PROVE  Ring'
<1>m. PICK m : m = Len(queue[Out(i)]) + 1
  OBVIOUS
<1> DEFINE last == <<Out(i), m>>
           f == [p \in Places' |-> GiveOld(i, Out(i), m, p)]
<1>1. /\ last \in Places' /\ f \in Bijection(Places', Places)
      /\ At(last)' = x /\ \A p \in Places' : p # last => At(p)' = At(p)
  <2>1. /\ <<Out(i), m>> \in Places'
        /\ [p \in Places' |-> GiveOld(i, Out(i), m, p)] \in Bijection(Places', Places)
        /\ At(<<Out(i), m>>)' = x /\ \A p \in Places' : p # <<Out(i), m>> => At(p)' = At(p)
    BY <1>m, GivePlaces, Zenon
  <2> QED BY <2>1
<1>2. \A p \in Places' : /\ f[p] = GiveOld(i, Out(i), m, p) /\ f[p] \in Places
  <2>1. \A p \in Places' : GiveOld(i, Out(i), m, p) \in Places
    BY <1>m, GivePlaces, Zenon
  <2> QED BY <2>1
<1>3. x \in Items /\ UNCHANGED main /\ (x # Poison => x.block = link[i].current.block)
  BY DEF Gives
<1>4. \A p \in Places : At(p) \in Items
  BY PlaceShape
<1>5. i \in Links /\ (x # Poison => link[i].current # Poison)
  <2>1. i \in Links
    BY DEF Gives
  <2>2. ASSUME x # Poison
        PROVE  link[i].current # Poison
    BY <1>3, <2>2, ItemShape
  <2> QED BY <2>1, <2>2
<1>6. ASSUME NEW p \in Places'
      PROVE  \/ At(p)' = Poison
             \/ /\ At(p)' \in Items /\ At(p)' # Poison
                /\ At(f[p]) # Poison /\ At(f[p]).block = At(p)'.block
  <2>1. CASE p = last
    <3>1. f[p] = <<i, 0>>
      BY <1>2, <2>1 DEF GiveOld
    <3>2. At(f[p]) = link[i].current
      BY <3>1 DEF At
    <3>3. At(p)' = x
      BY <1>1, <2>1
    <3> QED BY <1>3, <1>5, <3>2, <3>3
  <2>2. CASE p # last
    <3>1. f[p] = p /\ p \in Places
      BY <1>2, <2>2 DEF GiveOld
    <3>2. At(p)' = At(p)
      BY <1>1, <2>2
    <3> QED BY <1>4, <3>1, <3>2
  <2> QED BY <2>1, <2>2
<1> HIDE DEF f
<1> QED BY <1>1, <1>3, <1>4, <1>6, RingMoved

-----------------------------------------------------------------------------
(* A thread consumes                                                       *)

LEMMA ConsumeTyped ==
  ASSUME TypeOK, NEW i \in Links, Consume(i)
  PROVE  /\ queue' \in [Queues -> Seq(Items)]
         /\ link' \in [Links -> [pc : {"absent", "consume", "held", "poisoned", "done"}, current : Items]]
         /\ link[i].pc = "consume" /\ queue[i - 1] # <<>> /\ queue[i - 1] \in Seq(Items)
         /\ i - 1 \in Queues
         /\ queue'[i - 1] = Tail(queue[i - 1]) /\ Head(queue[i - 1]) \in Items
         /\ \A q \in Queues : q # i - 1 => queue'[q] = queue[q]
         /\ Head(queue[i - 1]) = Poison => link'[i].pc = "poisoned"
         /\ Head(queue[i - 1]) # Poison => link'[i].pc = "held"
         /\ link'[i].current = Head(queue[i - 1])
         /\ \A j \in Links : j # i => link'[j] = link[j]
<1>1. /\ link[i].pc = "consume" /\ queue[i - 1] # <<>>
      /\ queue' = [queue EXCEPT ![i - 1] = Tail(queue[i - 1])]
      /\ link' = [link EXCEPT ![i] = [pc |-> IF Head(queue[i - 1]) = Poison THEN "poisoned" ELSE "held",
                                      current |-> Head(queue[i - 1])]]
  BY Constants DEF Consume
<1>2. i - 1 \in Queues /\ queue \in [Queues -> Seq(Items)] /\ queue[i - 1] \in Seq(Items)
  BY Constants DEF TypeOK
<1>3. Tail(queue[i - 1]) \in Seq(Items) /\ Head(queue[i - 1]) \in Items
  BY <1>1, <1>2, SeqFacts
<1>4. /\ queue' \in [Queues -> Seq(Items)]
      /\ queue'[i - 1] = Tail(queue[i - 1])
      /\ \A q \in Queues : q # i - 1 => queue'[q] = queue[q]
  BY <1>1, <1>2, <1>3
<1>5. /\ link' \in [Links -> [pc : {"absent", "consume", "held", "poisoned", "done"}, current : Items]]
      /\ Head(queue[i - 1]) = Poison => link'[i].pc = "poisoned"
      /\ Head(queue[i - 1]) # Poison => link'[i].pc = "held"
      /\ link'[i].current = Head(queue[i - 1])
      /\ \A j \in Links : j # i => link'[j] = link[j]
  BY <1>1, <1>3 DEF TypeOK
<1> QED BY <1>1, <1>2, <1>3, <1>4, <1>5

LEMMA ConsumeEnding ==
  ASSUME TypeOK, Hands, Ending, Drained, NEW i \in Links, Consume(i)
  PROVE  Hands' /\ Ending' /\ Drained'
<1>a. /\ link[i].pc = "consume" /\ queue[i - 1] # <<>> /\ queue[i - 1] \in Seq(Items)
      /\ i - 1 \in Queues
      /\ queue'[i - 1] = Tail(queue[i - 1])
      /\ \A q \in Queues : q # i - 1 => queue'[q] = queue[q]
      /\ Head(queue[i - 1]) = Poison => link'[i].pc = "poisoned"
      /\ Head(queue[i - 1]) # Poison => link'[i].pc = "held"
      /\ link'[i].current = Head(queue[i - 1])
      /\ \A j \in Links : j # i => link'[j] = link[j]
  BY ConsumeTyped
<1>b. main' = main /\ round' = round /\ drained' = drained
  BY DEF Consume
<1>c. main = "running" /\ main' = "running"
  BY <1>a, <1>b DEF Hands
<1>d. /\ Recycler \in Links /\ 0 \in Queues /\ i - 1 < i /\ 1 \in Links /\ 1 < Recycler
      /\ i # 1 => i - 1 \in Links
      /\ i - 1 = 0 => i = 1
      /\ \A j \in Links : j \in Nat /\ (j < i => j = i - 1 \/ j < i - 1)
      /\ \A q \in Queues : q = 0 \/ q \in Links
  BY ChainAssumption DEF Links, Queues, Recycler
<1>e. /\ Len(queue[i - 1]) \in Nat /\ Len(queue[i - 1]) > 0
      /\ Len(queue'[i - 1]) = Len(queue[i - 1]) - 1
      /\ \A k \in 1..(Len(queue[i - 1]) - 1) : queue'[i - 1][k] = queue[i - 1][k + 1]
      /\ Head(queue[i - 1]) = queue[i - 1][1]
      /\ queue'[i - 1] \in Seq(Items) /\ (queue'[i - 1] = <<>> <=> Len(queue'[i - 1]) = 0)
  <2>1. /\ Len(queue[i - 1]) \in Nat /\ Len(queue[i - 1]) > 0
        /\ Tail(queue[i - 1]) \in Seq(Items) /\ Len(Tail(queue[i - 1])) = Len(queue[i - 1]) - 1
        /\ \A k \in 1..(Len(queue[i - 1]) - 1) : Tail(queue[i - 1])[k] = queue[i - 1][k + 1]
        /\ Head(queue[i - 1]) = queue[i - 1][1]
    BY <1>a, SeqFacts
  <2>2. Tail(queue[i - 1]) = <<>> <=> Len(Tail(queue[i - 1])) = 0
    <3> DEFINE s == Tail(queue[i - 1])
    <3>1. s \in Seq(Items)
      BY <2>1
    <3> HIDE DEF s
    <3>2. s = <<>> <=> Len(s) = 0
      BY <3>1
    <3> QED BY <3>2 DEF s
  <2> QED BY <1>a, <2>1, <2>2
<1>1. Hands'
  <2>1. link'[i].pc = "held" <=> link'[i].current # Poison
    BY <1>a
  <2> QED BY <1>a, <1>c, <2>1 DEF Hands
<1>2. ASSUME Head(queue[i - 1]) = Poison
      PROVE  /\ Len(queue[i - 1]) = 1
             /\ i # 1 /\ link[i - 1].pc = "done"
  <2>1. 1 \in 1..Len(queue[i - 1]) /\ queue[i - 1][1] = Poison
    BY <1>2, <1>e
  <2>2. /\ 1 = Len(queue[i - 1])
        /\ i - 1 # 0 => link[i - 1].pc = "done"
        /\ i - 1 = 0 => link[Recycler].pc = "done"
    BY <1>a, <1>c, <2>1 DEF Ending
  <2>3. i # 1
    <3>1. SUFFICES ASSUME i = 1 PROVE FALSE
      OBVIOUS
    <3>2. link[Recycler].pc = "done"
      BY <2>2, <3>1
    <3>3. link[1].pc = "done"
      BY <1>d, <3>2 DEF Ending, Ended
    <3> QED BY <1>a, <3>1, <3>3
  <2> QED BY <1>d, <2>2, <2>3
<1>3. ASSUME NEW k \in Links, NEW j \in Links, j < k, link'[k].pc \in Ended
      PROVE  link'[j].pc = "done"
  <2>1. CASE k = i
    <3>1. Head(queue[i - 1]) = Poison
      BY <1>3, <1>a, <2>1 DEF Ended
    <3>2. i - 1 \in Links /\ link[i - 1].pc = "done" /\ j # i
      BY <1>2, <1>3, <1>d, <2>1, <3>1
    <3>3. link[j].pc = "done"
      <4>1. CASE j = i - 1
        BY <3>2, <4>1
      <4>2. CASE j < i - 1
        BY <3>2, <4>2 DEF Ending, Ended
      <4> QED BY <1>3, <1>d, <2>1, <4>1, <4>2
    <3> QED BY <1>a, <3>2, <3>3
  <2>2. CASE k # i
    <3>1. link[k].pc \in Ended
      BY <1>3, <1>a, <2>2
    <3>2. link[j].pc = "done"
      BY <1>3, <3>1 DEF Ending
    <3> QED BY <1>a, <3>2
  <2> QED BY <2>1, <2>2
<1>4. ASSUME NEW k \in Links \ {1}, link'[k - 1].pc = "done"
      PROVE  IF link'[k].pc \in Ended THEN queue'[k - 1] = <<>>
             ELSE queue'[k - 1] # <<>> /\ LastOf(queue'[k - 1]) = Poison
  <2>1. k - 1 \in Links /\ k - 1 \in Queues
    BY Constants DEF Links
  <2>2. k - 1 # i /\ link[k - 1].pc = "done"
    BY <1>4, <1>a, <2>1
  <2>3. IF link[k].pc \in Ended THEN queue[k - 1] = <<>>
        ELSE queue[k - 1] # <<>> /\ LastOf(queue[k - 1]) = Poison
    BY <2>2 DEF Ending
  <2>4. CASE k = i
    <3>1. queue[i - 1][Len(queue[i - 1])] = Poison
      BY <1>a, <2>3, <2>4 DEF Ended, LastOf
    <3>2. CASE Head(queue[i - 1]) = Poison
      <4>1. queue'[i - 1] = <<>>
        BY <1>2, <1>e, <3>2
      <4>2. link'[i].pc \in Ended
        BY <1>a, <3>2 DEF Ended
      <4> QED BY <2>4, <4>1, <4>2
    <3>3. CASE Head(queue[i - 1]) # Poison
      <4>1. Len(queue[i - 1]) > 1
        BY <1>e, <3>1, <3>3
      <4>2. /\ Len(queue'[i - 1]) \in 1..(Len(queue[i - 1]) - 1)
            /\ Len(queue'[i - 1]) + 1 = Len(queue[i - 1])
        BY <1>e, <4>1
      <4>3. queue'[i - 1][Len(queue'[i - 1])] = Poison /\ queue'[i - 1] # <<>>
        BY <1>e, <3>1, <4>2
      <4>4. link'[k].pc \notin Ended
        BY <1>a, <2>4, <3>3 DEF Ended
      <4> QED BY <2>4, <4>3, <4>4 DEF LastOf
    <3> QED BY <3>2, <3>3
  <2>5. CASE k # i
    <3>1. k - 1 # i - 1
      BY <2>5, Constants
    <3>2. queue'[k - 1] = queue[k - 1] /\ link'[k] = link[k]
      BY <1>a, <2>1, <2>5, <3>1
    <3> QED BY <2>3, <3>2
  <2> QED BY <2>4, <2>5
<1>5. ASSUME NEW q \in Queues, NEW k \in 1..Len(queue'[q]), queue'[q][k] = Poison
      PROVE  /\ k = Len(queue'[q])
             /\ q # 0 => link'[q].pc = "done"
             /\ q = 0 /\ main' = "running" => link'[Recycler].pc = "done"
  <2>1. \A j \in Links : link[j].pc = "done" => link'[j].pc = "done"
    BY <1>a
  <2>2. CASE q = i - 1
    <3>1. k \in 1..(Len(queue[i - 1]) - 1) /\ k + 1 \in 1..Len(queue[i - 1])
      BY <1>e, <2>2
    <3>2. queue[i - 1][k + 1] = Poison
      BY <1>5, <1>e, <2>2, <3>1
    <3>3. /\ k + 1 = Len(queue[i - 1])
          /\ q # 0 => link[q].pc = "done"
          /\ q = 0 => link[Recycler].pc = "done"
      BY <1>a, <1>c, <2>2, <3>1, <3>2 DEF Ending
    <3>4. k = Len(queue'[q])
      BY <1>e, <2>2, <3>1, <3>3
    <3> QED BY <1>d, <2>1, <3>3, <3>4
  <2>3. CASE q # i - 1
    <3>1. queue'[q] = queue[q]
      BY <1>a, <2>3
    <3>2. /\ k = Len(queue[q])
          /\ q # 0 => link[q].pc = "done"
          /\ q = 0 => link[Recycler].pc = "done"
      BY <1>5, <1>c, <3>1 DEF Ending
    <3> QED BY <1>d, <2>1, <3>1, <3>2
  <2> QED BY <2>2, <2>3
<1>6. ASSUME link'[Recycler].pc = "done"
      PROVE  queue'[0] # <<>> /\ LastOf(queue'[0]) = Poison
  <2>1. link[Recycler].pc = "done"
    BY <1>6, <1>a, <1>d
  <2>2. link[1].pc = "done"
    BY <1>d, <2>1 DEF Ending, Ended
  <2>3. i - 1 # 0
    BY <1>a, <1>d, <2>2
  <2> QED BY <1>a, <1>d, <2>1, <2>3 DEF Ending
<1>7. Ending'
  BY <1>3, <1>4, <1>5, <1>6, Zenon DEF Ending
<1>8. Drained'
  BY <1>b, <1>c DEF Drained
<1> QED BY <1>1, <1>7, <1>8

LEMMA ConsumeRest ==
  ASSUME TypeOK, Hands, Ending, Ring, Source, Flowing, NEW i \in Links, Consume(i)
  PROVE  Ring' /\ Source' /\ Flowing'
<1> DEFINE f == [p \in Places' |-> TakeOld(i, p)]
<1>1. /\ f \in Bijection(Places', Places) /\ Places' \subseteq Nat \X Nat
      /\ \A p \in Places' : TakeOld(i, p) \in Places /\ At(p)' = At(TakeOld(i, p))
  BY ConsumeMoves
<1>2. \A p \in Places' : f[p] = TakeOld(i, p) /\ f[p] \in Places /\ At(p)' = At(f[p])
  BY <1>1
<1> HIDE DEF f
<1>a. UNCHANGED <<main, memory, delivered, written, total, ending>>
  BY DEF Consume, data
<1>3. Ring'
  <2>1. \A p \in Places : At(p) \in Items
    BY PlaceShape
  <2> QED BY <1>1, <1>2, <1>a, <2>1, RingMoved
<1>4. Source'
  <2>1. /\ Head(queue[i - 1]) # Poison => link'[i].pc = "held"
        /\ link[i].pc = "consume"
        /\ \A j \in Links : j # i => link'[j] = link[j]
        /\ 0 \in Queues /\ 1 \in Links /\ Recycler \in Links /\ 1 < Recycler
    BY ConsumeTyped, ChainAssumption DEF Queues, Links, Recycler
  <2>2. ASSUME i = 1, link'[i].pc \in Ended
        PROVE  FALSE
    <3>1. queue[0] \in Seq(Items) /\ queue[0] # <<>> /\ Head(queue[0]) = Poison
      BY <2>1, <2>2, ConsumeTyped DEF Ended
    <3>2. 1 \in 1..Len(queue[0]) /\ queue[0][1] = Poison
      BY <3>1, SeqFacts
    <3>3. main = "running"
      BY <2>1 DEF Hands
    <3>4. link[Recycler].pc = "done"
      BY <2>1, <3>2, <3>3 DEF Ending
    <3>5. link[1].pc = "done"
      BY <2>1, <3>4 DEF Ending, Ended
    <3> QED BY <2>1, <2>2, <3>5
  <2> QED BY <1>a, <2>1, <2>2 DEF Source
<1>5. \A p \in Places' : p \in Pipe' <=> f[p] \in Pipe
  BY <1>1, <1>2, TakeOrder DEF Pipe
<1>6. \A p \in Pipe' : Text'[p] = Text[f[p]] /\ (Past(p) => Past(f[p]))
  <2> TAKE p \in Pipe'
  <2>1. p \in Places' /\ f[p] \in Pipe
    BY <1>5 DEF Pipe
  <2>2. Past(p) => Past(f[p])
    BY <1>1, <1>2, <2>1, TakeOrder
  <2>3. Text'[p] = [k \in 1..At(p)'.size |-> memory'[At(p)'.block][k]]
    BY DEF Text
  <2>4. Text[f[p]] = [k \in 1..At(f[p]).size |-> memory[At(f[p]).block][k]]
    BY <2>1 DEF Text
  <2>5. At(p)' = At(f[p]) /\ memory' = memory
    BY <1>2, <1>a, <2>1
  <2> QED BY <2>2, <2>3, <2>4, <2>5
<1>7. \A p, r \in Pipe' : Ahead(p, r) => Ahead(f[p], f[r])
  BY <1>1, <1>2, TakeOrder DEF Pipe
<1>8. Flowing'
  BY <1>1, <1>5, <1>6, <1>7, <1>a, FlowCarried
<1> QED BY <1>3, <1>4, <1>8

-----------------------------------------------------------------------------
(* A block is passed on                                                    *)

LEMMA OverwrittenOnly ==
  ASSUME TypeOK, NEW i \in Links, link[i].current.block \in Blocks,
         NEW s \in Seq(Nat), Len(s) <= BlockSize, NEW b, b = link[i].current.block
  PROVE  /\ Overwritten(i, s) \in [Blocks -> [1..BlockSize -> Nat]]
         /\ \A c \in Blocks : c # b => Overwritten(i, s)[c] = memory[c]
         /\ \A k \in 1..Len(s) : Overwritten(i, s)[b][k] = s[k]
<1> DEFINE new == [k \in 1..BlockSize |-> IF k <= Len(s) THEN s[k] ELSE memory[b][k]]
<1>1. memory \in [Blocks -> [1..BlockSize -> Nat]]
  BY DEF TypeOK
<1>2. Overwritten(i, s) = [memory EXCEPT ![b] = new]
  BY DEF Overwritten
<1>3. Len(s) \in Nat /\ \A k \in 1..Len(s) : s[k] \in Nat
  OBVIOUS
<1>4. new \in [1..BlockSize -> Nat]
  <2>1. memory[b] \in [1..BlockSize -> Nat]
    BY <1>1
  <2>2. ASSUME NEW k \in 1..BlockSize
        PROVE  (IF k <= Len(s) THEN s[k] ELSE memory[b][k]) \in Nat
    <3>1. CASE k <= Len(s)
      BY <1>3, <3>1
    <3>2. CASE ~(k <= Len(s))
      BY <2>1, <3>2
    <3> QED BY <3>1, <3>2
  <2> QED BY <2>2
<1>5. \A k \in 1..Len(s) : new[k] = s[k]
  BY <1>3, Constants
<1> HIDE DEF new
<1> QED BY <1>1, <1>2, <1>4, <1>5

LEMMA PassGives ==
  ASSUME TypeOK, Hands, NEW i \in Links, link[i].pc = "held", NEW n \in 0..BlockSize, Pass(i, n),
         UNCHANGED <<main, round>>,
         NEW x, x = [block |-> link[i].current.block, size |-> n]
  PROVE  /\ Gives(i, x) /\ x # Poison /\ x.size = n
         /\ link[i].current \in Items /\ link[i].current # Poison
         /\ link[i].current.block \in Blocks
<1>1. /\ link[i].current \in Items /\ link[i].current # Poison
      /\ link[i].current = [block |-> link[i].current.block, size |-> link[i].current.size]
      /\ link[i].current.block \in Blocks /\ link[i].current.block # NoBlock
  BY ItemShape DEF TypeOK, Hands
<1>2. [link[i].current EXCEPT !.size = n] = x
  BY <1>1
<1>3. x \in Items /\ x # Poison /\ x.size = n
  BY <1>1 DEF Items, Poison
<1>4. /\ queue' = [queue EXCEPT ![Out(i)] = Append(queue[Out(i)], x)]
      /\ link' = [link EXCEPT ![i] = [pc |-> "consume", current |-> Poison]]
  BY <1>2 DEF Pass, Put
<1> QED BY <1>1, <1>3, <1>4 DEF Gives

LEMMA GiveSets ==
  ASSUME TypeOK, NEW i, NEW x, Gives(i, x), NEW d, d = <<Out(i), Len(queue[Out(i)]) + 1>>
  PROVE  /\ Places' = (Places \ {<<i, 0>>}) \union {d} /\ d \notin Places
         /\ <<i, 0>> \in Places /\ At(<<i, 0>>) = link[i].current
         /\ At(d)' = x /\ \A p \in Places \ {<<i, 0>>} : At(p)' = At(p)
         /\ d[1] = Out(i) /\ d[2] \in Nat /\ d[2] > 0
         /\ \A p \in Places : p = <<p[1], p[2]>> /\ p[1] \in Nat /\ p[2] \in Nat
         /\ \A p \in Places : p[1] = Out(i) /\ p[2] # 0 => p[2] < d[2]
<1>m. PICK m : m = Len(queue[Out(i)]) + 1
  OBVIOUS
<1>d. d = <<Out(i), m>>
  BY <1>m
<1>1. /\ <<Out(i), m>> \in Places'
      /\ [p \in Places' |-> GiveOld(i, Out(i), m, p)] \in Bijection(Places', Places)
      /\ \A p \in Places' : GiveOld(i, Out(i), m, p) \in Places
      /\ At(<<Out(i), m>>)' = x /\ \A p \in Places' : p # <<Out(i), m>> => At(p)' = At(p)
      /\ m \in Nat \ {0}
      /\ \A p \in Places' : p # <<i, 0>>
  <2>1. \A p \in Places' : p # <<i, 0>>
    BY <1>m, GivePlaces, Zenon
  <2>2. /\ <<Out(i), m>> \in Places'
        /\ [p \in Places' |-> GiveOld(i, Out(i), m, p)] \in Bijection(Places', Places)
        /\ \A p \in Places' : GiveOld(i, Out(i), m, p) \in Places
        /\ At(<<Out(i), m>>)' = x /\ \A p \in Places' : p # <<Out(i), m>> => At(p)' = At(p)
        /\ m \in Nat \ {0}
    <3>1. /\ <<Out(i), m>> \in Places'
          /\ [p \in Places' |-> GiveOld(i, Out(i), m, p)] \in Bijection(Places', Places)
          /\ m \in Nat \ {0}
      BY <1>m, GivePlaces, Zenon
    <3>2. \A p \in Places' : GiveOld(i, Out(i), m, p) \in Places
      BY <1>m, GivePlaces, Zenon
    <3>3. At(<<Out(i), m>>)' = x /\ \A p \in Places' : p # <<Out(i), m>> => At(p)' = At(p)
      BY <1>m, GivePlaces, Zenon
    <3> QED BY <3>1, <3>2, <3>3, Zenon
  <2> QED BY <2>1, <2>2, Zenon
<1>2. /\ queue \in [Queues -> Seq(Items)] /\ i \in Holders /\ Out(i) \in Queues
      /\ \A p \in Places :
           /\ p = <<p[1], p[2]>> /\ p[1] \in Nat /\ p[2] \in Nat /\ p \in Nat \X Nat
           /\ p[2] = 0 => p[1] \in Holders
           /\ p[2] # 0 => p[1] \in Queues /\ p[2] \in 1..Len(queue[p[1]])
      /\ <<i, 0>> \in Places /\ At(<<i, 0>>) = link[i].current
  BY PlaceShape, GiveTyped
<1>3. /\ d[1] = Out(i) /\ d[2] = m /\ d[2] \in Nat /\ d[2] > 0 /\ d # <<i, 0>>
      /\ \A p \in Places : p = <<p[1], p[2]>> /\ p[1] \in Nat /\ p[2] \in Nat
      /\ \A p \in Places : p[1] = Out(i) /\ p[2] # 0 => p[2] < d[2]
  <2>1. Len(queue[Out(i)]) \in Nat
    BY <1>2, SeqFacts
  <2> QED BY <1>1, <1>2, <1>d, <1>m, <2>1
<1>4. d \notin Places
  BY <1>3
<1>5. \A p \in Places' : p # d => p \in Places /\ p # <<i, 0>>
  BY <1>1, <1>d DEF GiveOld
<1>6. ASSUME NEW p \in Places, p # <<i, 0>>
      PROVE  p \in Places' /\ p # d
  <2> DEFINE f == [r \in Places' |-> GiveOld(i, Out(i), m, r)]
  <2>1. PICK r \in Places' : f[r] = p
    BY <1>1 DEF Bijection, Surjection
  <2>2. GiveOld(i, Out(i), m, r) = p
    BY <2>1
  <2>3. r = p
    BY <1>6, <2>2 DEF GiveOld
  <2> QED BY <1>4, <2>3
<1>7. Places' = (Places \ {<<i, 0>>}) \union {d}
  <2>1. d \in Places'
    BY <1>1, <1>d
  <2> QED BY <1>5, <1>6, <2>1
<1>8. At(d)' = x /\ \A p \in Places \ {<<i, 0>>} : At(p)' = At(p)
  BY <1>1, <1>6, <1>d
<1> QED BY <1>2, <1>3, <1>4, <1>7, <1>8

LEMMA FlowSame ==
  ASSUME Flowing, UNCHANGED <<delivered, written>>, Pipe' = Pipe,
         \A p \in Pipe : At(p)' = At(p), UNCHANGED memory
  PROVE  Flowing'
<1>1. Text' = [p \in Pipe' |-> [k \in 1..At(p)'.size |-> memory'[At(p)'.block][k]]]
  BY DEF Text
<1>2. Text = [p \in Pipe |-> [k \in 1..At(p).size |-> memory[At(p).block][k]]]
  BY DEF Text
<1>3. Text' = Text
  BY <1>1, <1>2
<1> QED BY <1>3 DEF Flowing

\* Nothing is written in the blocks at other places.
LEMMA TextKept ==
  ASSUME TypeOK, Ring, NEW i \in Holders, link[i].current # Poison, NEW b, b = link[i].current.block,
         \A c \in Blocks : c # b => memory'[c] = memory[c],
         NEW p \in Pipe, p # <<i, 0>>, p \in Pipe', At(p)' = At(p)
  PROVE  Text'[p] = Text[p]
<1>1. /\ <<i, 0>> \in Places /\ At(<<i, 0>>) = link[i].current
      /\ p \in Places /\ At(p) # Poison /\ At(p) \in Items
  BY PlaceShape DEF Pipe
<1>2. At(p).block # b
  BY <1>1 DEF Ring
<1>3. At(p).block \in Blocks
  BY <1>1, ItemShape
<1>4. memory'[At(p).block] = memory[At(p).block]
  BY <1>2, <1>3
<1>5. Text'[p] = [k \in 1..At(p)'.size |-> memory'[At(p)'.block][k]]
  BY DEF Text
<1>6. Text[p] = [k \in 1..At(p).size |-> memory[At(p).block][k]]
  BY DEF Text
<1> QED BY <1>4, <1>5, <1>6

LEMMA GiveInv ==
  ASSUME IInv, NEW i, NEW x, Gives(i, x)
  PROVE  /\ queue' \in [Queues -> Seq(Items)]
         /\ link' \in [Links -> [pc : {"absent", "consume", "held", "poisoned", "done"}, current : Items]]
         /\ Hands' /\ Ending' /\ Drained' /\ Ring'
         /\ (ending' => written' = total') /\ total' = total /\ (link[1].pc \in Ended => written' = written) => Source'
<1>1. TypeOK /\ Hands /\ Ending /\ Drained /\ Ring /\ Source
  BY DEF IInv
<1>2. /\ queue' \in [Queues -> Seq(Items)]
      /\ link' \in [Links -> [pc : {"absent", "consume", "held", "poisoned", "done"}, current : Items]]
  BY <1>1, GiveTyped
<1>3. Hands' /\ Ending' /\ Drained'
  BY <1>1, GiveEnding
<1>4. Ring'
  BY <1>1, GiveRing
<1>5. link'[1].pc \in Ended => link[1].pc \in Ended
  <2>1. /\ link'[i].pc = IF x = Poison THEN "done" ELSE "consume"
        /\ \A j \in Links : j # i => link'[j] = link[j]
        /\ 1 \in Links
    BY <1>1, GiveTyped, ChainAssumption DEF Links
  <2>2. x = Poison => link[i].pc = "poisoned"
    BY DEF Gives
  <2> QED BY <2>1, <2>2 DEF Ended
<1> QED BY <1>1, <1>2, <1>3, <1>4, <1>5 DEF Source

LEMMA PassPoisonInv ==
  ASSUME IInv, NEW i \in Links, PassPoison(i)
  PROVE  IInv'
<1>a. /\ link[i].pc = "poisoned"
      /\ queue' = [queue EXCEPT ![Out(i)] = Append(queue[Out(i)], Poison)]
      /\ link' = [link EXCEPT ![i] = [pc |-> "done", current |-> Poison]]
      /\ UNCHANGED <<main, drained, round, memory, source, total, written, ending, delivered>>
  BY DEF PassPoison, Put, data
<1>b. TypeOK /\ Hands /\ Ending /\ Drained /\ Ring /\ Source /\ Flowing
  BY DEF IInv
<1>1. Gives(i, Poison)
  BY <1>a, ItemShape DEF Gives
<1>2. /\ queue' \in [Queues -> Seq(Items)]
      /\ link' \in [Links -> [pc : {"absent", "consume", "held", "poisoned", "done"}, current : Items]]
      /\ Hands' /\ Ending' /\ Drained' /\ Ring'
  BY <1>1, GiveInv
<1>3. Source'
  <2>1. (ending' => written' = total') /\ total' = total /\ (link[1].pc \in Ended => written' = written)
    BY <1>a, <1>b DEF Source
  <2> QED BY <1>1, <2>1, GiveInv
<1>4. TypeOK'
  BY <1>a, <1>b, <1>2 DEF TypeOK
<1>5. Flowing'
  <2>1. PICK d : d = <<Out(i), Len(queue[Out(i)]) + 1>>
    OBVIOUS
  <2>2. /\ Places' = (Places \ {<<i, 0>>}) \union {d} /\ d \notin Places
        /\ At(<<i, 0>>) = link[i].current
        /\ At(d)' = Poison /\ \A p \in Places \ {<<i, 0>>} : At(p)' = At(p)
    BY <1>b, <1>1, <2>1, GiveSets, Zenon
  <2>3. At(<<i, 0>>) = Poison
    BY <1>a, <1>b, <2>2 DEF Hands
  <2>4. Pipe' = Pipe
    BY <2>2, <2>3 DEF Pipe
  <2>5. \A p \in Pipe : At(p)' = At(p)
    BY <2>2, <2>3 DEF Pipe
  <2> QED BY <1>a, <1>b, <2>4, <2>5, FlowSame
<1> QED BY <1>b, <1>2, <1>3, <1>4, <1>5 DEF IInv

LEMMA RecycleInv ==
  ASSUME IInv, Recycle
  PROVE  IInv'
<1>a. /\ link[Recycler].pc = "held" /\ Pass(Recycler, BlockSize)
      /\ UNCHANGED <<main, drained, round, memory, source, total, written, ending, delivered>>
  BY DEF Recycle, data
<1>b. TypeOK /\ Hands /\ Ending /\ Drained /\ Ring /\ Source /\ Flowing
  BY DEF IInv
<1>c. /\ Recycler \in Links /\ BlockSize \in 0..BlockSize /\ Out(Recycler) = 0
      /\ Recycler \notin 2..Workers /\ 0 \notin 1..(Workers - 1)
  BY Constants DEF Out, Recycler
<1>0. PICK x : x = [block |-> link[Recycler].current.block, size |-> BlockSize]
  OBVIOUS
<1>1. Gives(Recycler, x)
  BY <1>a, <1>b, <1>c, <1>0, PassGives
<1>2. /\ queue' \in [Queues -> Seq(Items)]
      /\ link' \in [Links -> [pc : {"absent", "consume", "held", "poisoned", "done"}, current : Items]]
      /\ Hands' /\ Ending' /\ Drained' /\ Ring'
  BY <1>1, GiveInv
<1>3. Source'
  <2>1. (ending' => written' = total') /\ total' = total /\ (link[1].pc \in Ended => written' = written)
    BY <1>a, <1>b DEF Source
  <2> QED BY <1>1, <2>1, GiveInv
<1>4. TypeOK'
  BY <1>a, <1>b, <1>2 DEF TypeOK
<1>5. Flowing'
  <2>1. PICK d : d = <<Out(Recycler), Len(queue[Out(Recycler)]) + 1>>
    OBVIOUS
  <2>2. /\ Places' = (Places \ {<<Recycler, 0>>}) \union {d} /\ d \notin Places
        /\ At(d)' = x /\ \A p \in Places \ {<<Recycler, 0>>} : At(p)' = At(p)
        /\ d[1] = Out(Recycler) /\ d[2] \in Nat /\ d[2] > 0
    BY <1>b, <1>1, <2>1, GiveSets, Zenon
  <2>3. ~InPipe(d) /\ ~InPipe(<<Recycler, 0>>)
    BY <1>c, <2>2 DEF InPipe
  <2>4. Pipe' = Pipe
    BY <2>2, <2>3 DEF Pipe
  <2>5. \A p \in Pipe : At(p)' = At(p)
    BY <2>2, <2>3 DEF Pipe
  <2> QED BY <1>a, <1>b, <2>4, <2>5, FlowSame
<1> QED BY <1>b, <1>2, <1>3, <1>4, <1>5 DEF IInv

\* A worker changes the entries of a block, leaves those of Kept in it, and passes it on.
LEMMA MiddleFlows ==
  ASSUME TypeOK, Hands, Ring, Flowing, NEW i \in 2..(Workers - 1), link[i].pc = "held",
         NEW x, Gives(i, x), x # Poison,
         NEW new, new \in Seq(Nat), new = [k \in 1..x.size |-> memory'[x.block][k]],
         NEW old, old \in Seq(Nat),
         old = [k \in 1..link[i].current.size |-> memory[link[i].current.block][k]],
         Rising(old) => Rising(new),
         Range(new) \subseteq Range(old), Range(old) \intersect Kept \subseteq Range(new),
         i # 2 \/ Range(new) \subseteq Kept,
         \A c \in Blocks : c # link[i].current.block => memory'[c] = memory[c],
         UNCHANGED <<delivered, written>>
  PROVE  Flowing'
<1>a. /\ i \in Links /\ Out(i) = i /\ i \in Nat /\ i >= 2 /\ i <= Workers - 1
      /\ i # 1 /\ Workers \in Nat
  BY Constants DEF Links, Out, Recycler
<1>1. PICK d : d = <<Out(i), Len(queue[Out(i)]) + 1>>
  OBVIOUS
<1>2. /\ Places' = (Places \ {<<i, 0>>}) \union {d} /\ d \notin Places
      /\ <<i, 0>> \in Places /\ At(<<i, 0>>) = link[i].current
      /\ At(d)' = x /\ \A p \in Places \ {<<i, 0>>} : At(p)' = At(p)
      /\ d[1] = i /\ d[2] \in Nat /\ d[2] > 0
  BY <1>a, <1>1, GiveSets
<1>3. \A p \in Places : /\ p = <<p[1], p[2]>> /\ p[1] \in Nat /\ p[2] \in Nat
                        /\ p[1] = i /\ p[2] # 0 => p[2] < d[2]
  <2>1. /\ \A p \in Places : p = <<p[1], p[2]>> /\ p[1] \in Nat /\ p[2] \in Nat
        /\ \A p \in Places : p[1] = Out(i) /\ p[2] # 0 => p[2] < d[2]
    BY <1>1, GiveSets
  <2> QED BY <1>a, <2>1
<1>4. link[i].current # Poison /\ i \in Holders
  BY <1>a DEF Hands, Holders
<1>5. InPipe(d) /\ InPipe(<<i, 0>>)
  BY <1>a, <1>2 DEF InPipe
<1>6. <<i, 0>> \in Pipe /\ Pipe' = (Pipe \ {<<i, 0>>}) \union {d} /\ d \notin Pipe
  BY <1>2, <1>4, <1>5 DEF Pipe
<1> DEFINE f == [p \in Pipe' |-> IF p = d THEN <<i, 0>> ELSE p]
<1>7. \A p \in Pipe' : IF p = d THEN f[p] = <<i, 0>> ELSE p # <<i, 0>> /\ f[p] = p /\ p \in Pipe
  BY <1>2, <1>6
<1>8. \A p \in Pipe : \E q \in Pipe' : f[q] = p
  <2> TAKE p \in Pipe
  <2>1. CASE p = <<i, 0>>
    BY <1>6, <2>1
  <2>2. CASE p # <<i, 0>>
    BY <1>6, <2>2
  <2> QED BY <2>1, <2>2
<1> HIDE DEF f
<1>9. \A p, r \in Pipe' : Ahead(p, r) => Ahead(f[p], f[r])
  <2>1. \A p \in Pipe : p \in Places
    BY DEF Pipe
  <2>2. <<i, 0>>[1] = i /\ <<i, 0>>[2] = 0
    OBVIOUS
  <2>3. \A p \in Pipe : p[1] = i /\ p[2] = 0 => p = <<i, 0>>
    BY <1>3, <2>1
  <2> SUFFICES ASSUME NEW p \in Pipe', NEW r \in Pipe', Ahead(p, r)
               PROVE  Ahead(f[p], f[r])
    OBVIOUS
  <2>4. CASE p = d /\ r = d
    BY <1>2, <2>4 DEF Ahead
  <2>5. CASE p = d /\ r # d
    <3>1. f[p] = <<i, 0>> /\ f[r] = r /\ r \in Pipe /\ r # <<i, 0>>
      BY <1>7, <2>5
    <3>2. /\ r[1] \in Nat /\ r[2] \in Nat
          /\ r[1] = i /\ r[2] # 0 => r[2] < d[2]
          /\ ~(r[1] = i /\ r[2] = 0)
      BY <1>3, <2>1, <2>3, <3>1
    <3>3. i > r[1]
      BY <1>2, <1>a, <2>5, <3>2 DEF Ahead
    <3> QED BY <2>2, <3>1, <3>3 DEF Ahead
  <2>6. CASE p # d /\ r = d
    <3>1. f[p] = p /\ f[r] = <<i, 0>> /\ p \in Pipe
      BY <1>7, <2>6
    <3> QED BY <1>2, <2>2, <2>6, <3>1 DEF Ahead
  <2>7. CASE p # d /\ r # d
    BY <1>7, <2>7
  <2> QED BY <2>4, <2>5, <2>6, <2>7
<1>10. Text'[d] = new /\ Text[<<i, 0>>] = old /\ d \in Pipe'
  <2>1. d \in Pipe'
    BY <1>6
  <2>2. Text'[d] = [k \in 1..At(d)'.size |-> memory'[At(d)'.block][k]]
    BY <2>1 DEF Text
  <2>3. Text[<<i, 0>>] = [k \in 1..At(<<i, 0>>).size |-> memory[At(<<i, 0>>).block][k]]
    BY <1>6 DEF Text
  <2> QED BY <1>2, <2>1, <2>2, <2>3
<1>11. ASSUME NEW p \in Pipe', p # d
       PROVE  Text'[p] = Text[p] /\ p \in Pipe
  <2>1. p \in Pipe /\ p # <<i, 0>> /\ p \in Places
    BY <1>7, <1>11 DEF Pipe
  <2>2. At(p)' = At(p)
    BY <1>2, <2>1
  <2> QED BY <1>4, <2>1, <2>2, TextKept
<1>12. /\ \A p \in Pipe : Rising(Text[p])
       /\ Flow(Pipe, Text, delivered, written)
  BY DEF Flowing, Flow
<1>13. ASSUME NEW p \in Pipe'
       PROVE  /\ Rising(Text'[p])
              /\ Range(Text'[p]) \subseteq Range(Text[f[p]])
              /\ Range(Text[f[p]]) \intersect Kept \subseteq Range(Text'[p])
              /\ Past(p) => Past(f[p]) \/ Range(Text'[p]) \subseteq Kept
  <2>1. CASE p = d
    <3>1. Text'[p] = new /\ Text[f[p]] = old /\ f[p] = <<i, 0>>
      BY <1>7, <1>10, <2>1
    <3>2. Rising(new)
      BY <1>6, <1>12, <3>1
    <3>3. Past(f[p]) \/ Range(new) \subseteq Kept
      <4>1. <<i, 0>>[1] = i
        OBVIOUS
      <4>2. i # 2 => Past(<<i, 0>>)
        BY <1>a, <4>1 DEF Past
      <4> QED BY <3>1, <4>2
    <3> QED BY <3>1, <3>2, <3>3
  <2>2. CASE p # d
    <3>1. f[p] = p /\ Text'[p] = Text[p] /\ p \in Pipe
      BY <1>7, <1>11, <2>2
    <3> QED BY <1>12, <3>1
  <2> QED BY <2>1, <2>2
<1>14. \A p \in Pipe' : f[p] \in Pipe
  BY <1>6, <1>7
<1>15. Flow(Pipe', Text', delivered, written)
  BY <1>8, <1>9, <1>12, <1>13, <1>14, FlowMoved
<1> QED BY <1>15 DEF Flowing

\* The entries in the hands of link i, and in what it passes on.
LEMMA EntriesShape ==
  ASSUME TypeOK, NEW i \in Links, link[i].current \in Items, link[i].current # Poison
  PROVE  /\ Entries(i) \in Seq(Nat) /\ Len(Entries(i)) = link[i].current.size
         /\ link[i].current.size \in 0..BlockSize
         /\ Entries(i) = [k \in 1..link[i].current.size |-> memory[link[i].current.block][k]]
<1>1. link[i].current.size \in 0..BlockSize /\ link[i].current.block \in Blocks
  BY ItemShape
<1>2. memory[link[i].current.block] \in [1..BlockSize -> Nat]
  BY <1>1 DEF TypeOK
<1>3. Entries(i) = [k \in 1..link[i].current.size |-> memory[link[i].current.block][k]]
  BY DEF Entries
<1>4. \A k \in 1..link[i].current.size : memory[link[i].current.block][k] \in Nat
  <2> TAKE k \in 1..link[i].current.size
  <2>1. k \in 1..BlockSize
    BY <1>1, Constants
  <2> QED BY <1>2, <2>1
<1>5. Entries(i) \in Seq(Nat) /\ Len(Entries(i)) = link[i].current.size
  BY <1>1, <1>3, <1>4
<1> QED BY <1>1, <1>3, <1>5

LEMMA AscendingAll ==
  ASSUME NEW S, S \subseteq Nat, IsFiniteSet(S), NEW list \in Ascending(S)
  PROVE  /\ list \in [1..Cardinality(S) -> S] /\ Cardinality(S) \in Nat /\ Len(list) = Cardinality(S)
         /\ \A x \in S : \E k \in 1..Cardinality(S) : list[k] = x
         /\ \A j, k \in 1..Cardinality(S) : j < k => list[j] < list[k]
<1>1. Cardinality(S) \in Nat
  BY FS_CardinalityType
<1>2. /\ list \in [1..Cardinality(S) -> S]
      /\ \A j, k \in 1..Cardinality(S) : j < k => list[j] < list[k]
  BY DEF Ascending
<1>3. Len(list) = Cardinality(S)
  BY <1>1, <1>2
<1>4. list \in Injection(1..Cardinality(S), S)
  <2>1. \A j, k \in 1..Cardinality(S) : list[j] = list[k] => j = k
    <3> SUFFICES ASSUME NEW j \in 1..Cardinality(S), NEW k \in 1..Cardinality(S), j # k
                 PROVE  list[j] # list[k]
      OBVIOUS
    <3>1. list[j] \in Nat /\ list[k] \in Nat
      BY <1>2
    <3>2. j < k \/ k < j
      BY <1>1
    <3> QED BY <1>2, <3>1, <3>2
  <2> QED BY <1>2, <2>1 DEF Injection, IsInjective
<1>5. IsFiniteSet(1..Cardinality(S)) /\ Cardinality(1..Cardinality(S)) = Cardinality(S)
  <2>1. Cardinality(1..Cardinality(S)) = IF 1 > Cardinality(S) THEN 0 ELSE Cardinality(S) - 1 + 1
    BY <1>1, FS_Interval
  <2>2. IsFiniteSet(1..Cardinality(S))
    BY <1>1, FS_Interval
  <2> QED BY <1>1, <2>1, <2>2
<1>6. list \in Surjection(1..Cardinality(S), S)
  BY <1>4, <1>5, FS_Injection
<1>7. \A x \in S : \E k \in 1..Cardinality(S) : list[k] = x
  BY <1>6 DEF Surjection
<1> QED BY <1>1, <1>2, <1>3, <1>7

LEMMA ForwardInv ==
  ASSUME IInv, NEW i \in 3..(Workers - 1), Forward(i)
  PROVE  IInv'
<1>a. /\ link[i].pc = "held" /\ Pass(i, link[i].current.size)
      /\ UNCHANGED <<main, drained, round, memory, source, total, written, ending, delivered>>
  BY DEF Forward, data
<1>b. TypeOK /\ Hands /\ Ending /\ Drained /\ Ring /\ Source /\ Flowing
  BY DEF IInv
<1>c. i \in Links /\ i \in 2..(Workers - 1) /\ i # 2
  BY Constants DEF Links
<1>d. /\ link[i].current \in Items /\ link[i].current # Poison
      /\ link[i].current.size \in 0..BlockSize
  BY <1>a, <1>b, <1>c, ItemShape DEF TypeOK, Hands
<1>0. PICK x : x = [block |-> link[i].current.block, size |-> link[i].current.size]
  OBVIOUS
<1>1. Gives(i, x) /\ x # Poison
  BY <1>a, <1>b, <1>c, <1>d, <1>0, PassGives
<1>2. /\ queue' \in [Queues -> Seq(Items)]
      /\ link' \in [Links -> [pc : {"absent", "consume", "held", "poisoned", "done"}, current : Items]]
      /\ Hands' /\ Ending' /\ Drained' /\ Ring'
  BY <1>1, GiveInv
<1>3. Source'
  <2>1. (ending' => written' = total') /\ total' = total /\ (link[1].pc \in Ended => written' = written)
    BY <1>a, <1>b DEF Source
  <2> QED BY <1>1, <2>1, GiveInv
<1>4. TypeOK'
  BY <1>a, <1>b, <1>2 DEF TypeOK
<1>5. Flowing'
  <2>1. PICK s : s = Entries(i)
    OBVIOUS
  <2>2. /\ s \in Seq(Nat)
        /\ s = [k \in 1..link[i].current.size |-> memory[link[i].current.block][k]]
    BY <1>b, <1>c, <1>d, <2>1, EntriesShape
  <2>3. s = [k \in 1..x.size |-> memory'[x.block][k]]
    BY <1>0, <1>a, <2>2
  <2>4. \A c \in Blocks : memory'[c] = memory[c]
    BY <1>a
  <2> QED BY <1>a, <1>b, <1>c, <1>1, <2>2, <2>3, <2>4, MiddleFlows
<1> QED BY <1>b, <1>2, <1>3, <1>4, <1>5 DEF IInv

LEMMA PruneInv ==
  ASSUME IInv, Prune
  PROVE  IInv'
<1>b. TypeOK /\ Hands /\ Ending /\ Drained /\ Ring /\ Source /\ Flowing
  BY DEF IInv
<1>c. 2 \in Links /\ 2 \in 2..(Workers - 1)
  BY Constants DEF Links
<1>e. link[2].pc = "held"
  BY DEF Prune
<1>d. /\ link[2].current \in Items /\ link[2].current # Poison
      /\ link[2].current.size \in 0..BlockSize /\ link[2].current.block \in Blocks
  BY <1>b, <1>c, <1>e, ItemShape DEF TypeOK, Hands
<1>old. PICK old : old = Entries(2)
  OBVIOUS
<1>S. PICK S : S = Staying
  OBVIOUS
<1>0. PICK list \in Ascending(S) :
        /\ memory' = Overwritten(2, [k \in 1..Len(list) |-> old[list[k]]])
        /\ Pass(2, Len(list))
  BY <1>S, <1>old DEF Prune
<1>a. UNCHANGED <<main, drained, round, source, total, written, ending, delivered>>
  BY DEF Prune
<1>1. /\ old \in Seq(Nat) /\ Len(old) = link[2].current.size
      /\ old = [k \in 1..link[2].current.size |-> memory[link[2].current.block][k]]
  BY <1>b, <1>c, <1>d, <1>old, EntriesShape
<1>r. old \in Seq(Nat) /\ Len(old) \in Nat /\ \A k \in 1..Len(old) : old[k] \in Nat
  <2>1. old \in Seq(Nat)
    BY <1>1
  <2> QED BY <2>1
<1>2. S = {k \in 1..Len(old) : old[k] \in Kept}
  BY <1>S, <1>1, <1>old DEF Staying
<1>3. /\ S \subseteq Nat /\ IsFiniteSet(S) /\ Cardinality(S) \in Nat /\ Cardinality(S) <= Len(old)
      /\ Len(old) \in Nat
  <2>1. Len(old) \in Nat
    BY <1>r
  <2>2. IsFiniteSet(1..Len(old)) /\ Cardinality(1..Len(old)) = Len(old)
    <3>1. Cardinality(1..Len(old)) = IF 1 > Len(old) THEN 0 ELSE Len(old) - 1 + 1
      BY <2>1, FS_Interval
    <3>2. IsFiniteSet(1..Len(old))
      BY <2>1, FS_Interval
    <3> QED BY <2>1, <3>1, <3>2
  <2>3. S \in SUBSET (1..Len(old))
    BY <1>2
  <2>4. IsFiniteSet(S) /\ Cardinality(S) <= Len(old)
    BY <2>2, <2>3, FS_Subset
  <2>5. Cardinality(S) \in Nat
    BY <2>4, FS_CardinalityType
  <2> QED BY <2>1, <2>3, <2>4, <2>5
<1>4. PICK n : n = Cardinality(S)
  OBVIOUS
<1>5. /\ n \in Nat /\ n <= Len(old) /\ list \in [1..n -> S] /\ Len(list) = n
      /\ \A y \in S : \E k \in 1..n : list[k] = y
      /\ \A j, k \in 1..n : j < k => list[j] < list[k]
  <2>1. /\ list \in [1..Cardinality(S) -> S] /\ Len(list) = Cardinality(S)
        /\ \A y \in S : \E k \in 1..Cardinality(S) : list[k] = y
        /\ \A j, k \in 1..Cardinality(S) : j < k => list[j] < list[k]
    BY <1>3, AscendingAll
  <2> QED BY <1>3, <1>4, <2>1
<1>6. PICK new : new = [k \in 1..n |-> old[list[k]]]
  OBVIOUS
<1>7. \A k \in 1..n : list[k] \in 1..Len(old) /\ old[list[k]] \in Kept /\ old[list[k]] \in Nat
  BY <1>r, <1>2, <1>5
<1>8. new \in Seq(Nat) /\ Len(new) = n /\ DOMAIN new = 1..n /\ \A k \in 1..n : new[k] = old[list[k]]
  <2>1. DOMAIN new = 1..n /\ \A k \in 1..n : new[k] = old[list[k]]
    BY <1>6
  <2>2. new \in [1..n -> Nat]
    BY <1>6, <1>7
  <2>3. n \in Nat
    BY <1>5
  <2>4. new \in Seq(Nat) /\ Len(new) = n
    BY <2>2, <2>3, SeqOfFunction
  <2> QED BY <2>1, <2>4
<1>9. n \in 0..BlockSize
  <2>1. PICK size : size = link[2].current.size
    OBVIOUS
  <2>2. n \in Nat /\ n <= Len(old)
    BY <1>5
  <2>3. Len(old) = size
    BY <1>1, <2>1
  <2>4. size \in 0..BlockSize
    BY <1>d, <2>1
  <2>5. BlockSize \in Nat
    BY Constants
  <2> QED BY <2>2, <2>3, <2>4, <2>5
<1>10. memory' = Overwritten(2, new) /\ Pass(2, n)
  BY <1>0, <1>5, <1>6
<1>11. PICK b : b = link[2].current.block
  OBVIOUS
<1>12. /\ memory' \in [Blocks -> [1..BlockSize -> Nat]]
       /\ \A c \in Blocks : c # b => memory'[c] = memory[c]
       /\ \A k \in 1..n : memory'[b][k] = new[k]
  <2>1. Len(new) <= BlockSize
    BY <1>8, <1>9
  <2> QED BY <1>b, <1>c, <1>d, <1>8, <1>10, <1>11, <2>1, OverwrittenOnly
<1>13. PICK x : x = [block |-> link[2].current.block, size |-> n]
  OBVIOUS
<1>14. Gives(2, x) /\ x # Poison
  BY <1>a, <1>b, <1>c, <1>e, <1>9, <1>10, <1>13, PassGives
<1>15. /\ queue' \in [Queues -> Seq(Items)]
       /\ link' \in [Links -> [pc : {"absent", "consume", "held", "poisoned", "done"}, current : Items]]
       /\ Hands' /\ Ending' /\ Drained' /\ Ring'
  BY <1>14, GiveInv
<1>16. Source'
  <2>1. (ending' => written' = total') /\ total' = total /\ (link[1].pc \in Ended => written' = written)
    BY <1>a, <1>b DEF Source
  <2> QED BY <1>14, <2>1, GiveInv
<1>17. TypeOK'
  BY <1>a, <1>b, <1>12, <1>15 DEF TypeOK
<1>18. Flowing'
  <2>1. new = [k \in 1..x.size |-> memory'[x.block][k]]
    <3>1. x.size = n /\ x.block = b
      BY <1>11, <1>13
    <3>2. new = [k \in 1..n |-> memory'[b][k]]
      BY <1>6, <1>8, <1>12
    <3> QED BY <3>1, <3>2
  <2>2. Rising(old) => Rising(new)
    <3> SUFFICES ASSUME Rising(old), NEW j \in 1..n, NEW k \in 1..n, j < k
                 PROVE  new[j] < new[k]
      BY <1>8 DEF Rising
    <3>1. list[j] < list[k] /\ list[j] \in 1..Len(old) /\ list[k] \in 1..Len(old)
      BY <1>5, <1>7
    <3> QED BY <1>8, <3>1 DEF Rising
  <2>3. DOMAIN old = 1..Len(old)
    BY <1>1
  <2>4. Range(new) \subseteq Range(old) /\ Range(new) \subseteq Kept
    BY <1>7, <1>8, <2>3 DEF Range
  <2>5. Range(old) \intersect Kept \subseteq Range(new)
    <3> SUFFICES ASSUME NEW k \in 1..Len(old), old[k] \in Kept
                 PROVE  old[k] \in Range(new)
      BY <2>3 DEF Range
    <3>1. PICK j \in 1..n : list[j] = k
      BY <1>2, <1>5
    <3> QED BY <1>8, <3>1 DEF Range
  <2> QED BY <1>a, <1>b, <1>c, <1>e, <1>1, <1>8, <1>11, <1>12, <1>14, <2>1, <2>2, <2>4, <2>5, MiddleFlows
<1> QED BY <1>b, <1>15, <1>16, <1>17, <1>18 DEF IInv

\* The source writes the next n entries in the block it has, and passes it on.
LEMMA SourceFills ==
  ASSUME IInv, link[1].pc = "held", NEW n \in 0..BlockSize, n <= total - written,
         memory' = Overwritten(1, Written(n)), written' = written + n, Pass(1, n),
         ending' \in BOOLEAN, ending' => written + n = total,
         UNCHANGED <<main, drained, round, source, total, delivered>>
  PROVE  IInv'
<1>b. TypeOK /\ Hands /\ Ending /\ Drained /\ Ring /\ Source /\ Flowing
  BY DEF IInv
<1>c. /\ 1 \in Links /\ 1 \in 1..(Workers - 1) /\ 1 \notin 2..Workers /\ Out(1) = 1
      /\ Workers \in Nat /\ BlockSize \in Nat
  BY Constants DEF Links, Out, Recycler
<1>d. /\ link[1].current \in Items /\ link[1].current # Poison
      /\ link[1].current.block \in Blocks
  BY <1>b, <1>c, ItemShape DEF TypeOK, Hands
<1>e. n \in Nat /\ written \in Nat /\ total \in Nat /\ written + n \in 0..total
  BY <1>b, <1>c, ChainAssumption DEF TypeOK
<1>0. PICK new : new = [k \in 1..n |-> written + k]
  OBVIOUS
<1>1. new \in Seq(Nat) /\ Len(new) = n /\ Len(new) <= BlockSize /\ \A k \in 1..n : new[k] = written + k
  BY <1>0, <1>c, <1>e
<1>2. memory' = Overwritten(1, new)
  BY <1>0 DEF Written
<1>3. PICK b : b = link[1].current.block
  OBVIOUS
<1>4. /\ memory' \in [Blocks -> [1..BlockSize -> Nat]]
      /\ \A c \in Blocks : c # b => memory'[c] = memory[c]
      /\ \A k \in 1..n : memory'[b][k] = new[k]
  BY <1>b, <1>c, <1>d, <1>1, <1>2, <1>3, OverwrittenOnly
<1>5. PICK x : x = [block |-> link[1].current.block, size |-> n]
  OBVIOUS
<1>6. Gives(1, x) /\ x # Poison
  BY <1>b, <1>c, <1>5, PassGives
<1>7. /\ queue' \in [Queues -> Seq(Items)]
      /\ link' \in [Links -> [pc : {"absent", "consume", "held", "poisoned", "done"}, current : Items]]
      /\ Hands' /\ Ending' /\ Drained' /\ Ring'
  BY <1>6, GiveInv
<1>8. Source'
  <2>1. (ending' => written' = total') /\ total' = total /\ link[1].pc \notin Ended
    BY DEF Ended
  <2> QED BY <1>6, <2>1, GiveInv
<1>9. TypeOK'
  BY <1>b, <1>e, <1>4, <1>7 DEF TypeOK
<1>10. PICK d : d = <<Out(1), Len(queue[Out(1)]) + 1>>
  OBVIOUS
<1>11. /\ Places' = (Places \ {<<1, 0>>}) \union {d} /\ d \notin Places
       /\ At(d)' = x /\ \A p \in Places \ {<<1, 0>>} : At(p)' = At(p)
       /\ d[1] = 1 /\ d[2] \in Nat /\ d[2] > 0
       /\ \A p \in Places : p = <<p[1], p[2]>> /\ p[1] \in Nat /\ p[2] \in Nat
       /\ \A p \in Places : p[1] = 1 /\ p[2] # 0 => p[2] < d[2]
  <2>0. PICK i : i = 1
    OBVIOUS
  <2>1. Gives(i, x) /\ d = <<Out(i), Len(queue[Out(i)]) + 1>>
    BY <1>6, <1>10, <2>0
  <2>2. /\ Places' = (Places \ {<<i, 0>>}) \union {d} /\ d \notin Places
        /\ At(d)' = x /\ \A p \in Places \ {<<i, 0>>} : At(p)' = At(p)
        /\ d[1] = Out(i) /\ d[2] \in Nat /\ d[2] > 0
        /\ \A p \in Places : p = <<p[1], p[2]>> /\ p[1] \in Nat /\ p[2] \in Nat
        /\ \A p \in Places : p[1] = Out(i) /\ p[2] # 0 => p[2] < d[2]
    BY <1>b, <2>1, GiveSets
  <2> QED BY <1>c, <2>0, <2>2
<1>12. InPipe(d) /\ ~InPipe(<<1, 0>>)
  BY <1>c, <1>11 DEF InPipe
<1>13. Pipe' = Pipe \union {d} /\ d \notin Pipe
  BY <1>6, <1>11, <1>12 DEF Pipe
<1>14. ASSUME NEW r \in Pipe
       PROVE  Ahead(r, d) /\ ~Ahead(d, r)
  <2>1. /\ r[1] \in Nat /\ r[2] \in Nat /\ (r[1] = 1 /\ r[2] # 0 => r[2] < d[2])
        /\ InPipe(r)
    BY <1>11 DEF Pipe
  <2>2. r[1] > 1 \/ (r[1] = 1 /\ r[2] # 0)
    BY <1>c, <2>1 DEF InPipe
  <2> QED BY <1>11, <2>1, <2>2 DEF Ahead
<1>15. ~Ahead(d, d) /\ ~Past(d)
  BY <1>11 DEF Ahead, Past
<1>16. ASSUME NEW r \in Pipe
       PROVE  Text'[r] = Text[r]
  <2>1. r # <<1, 0>> /\ r \in Pipe' /\ At(r)' = At(r)
    BY <1>11, <1>12, <1>13 DEF Pipe
  <2>2. 1 \in Holders
    BY <1>c DEF Holders
  <2> QED BY <1>3, <1>4, <1>b, <1>d, <2>1, <2>2, TextKept
<1>17. Text'[d] = [k \in 1..n |-> written + k]
  <2>1. d \in Pipe' /\ At(d)' = x /\ x.size = n /\ x.block = b
    BY <1>3, <1>5, <1>11, <1>13
  <2>2. Text'[d] = [k \in 1..At(d)'.size |-> memory'[At(d)'.block][k]]
    BY <2>1 DEF Text
  <2>3. Text'[d] = [k \in 1..n |-> memory'[b][k]]
    BY <2>1, <2>2
  <2> QED BY <1>1, <1>4, <2>3
<1>18. Flow(Pipe, Text, delivered, written)
  BY <1>b DEF Flowing
<1>19. Flow(Pipe \union {d}, Text', delivered, written + n)
  BY <1>13, <1>14, <1>15, <1>16, <1>17, <1>18, <1>e, FlowFilled
<1>20. Flowing'
  BY <1>13, <1>19 DEF Flowing
<1> QED BY <1>b, <1>7, <1>8, <1>9, <1>20 DEF IInv

LEMMA SourceStreamInv ==
  ASSUME IInv, SourceStream
  PROVE  IInv'
<1>a. PICK n : n = Least(link[1].current.size, total - written)
  OBVIOUS
<1>1. /\ link[1].pc = "held"
      /\ memory' = Overwritten(1, Written(n)) /\ written' = written + n /\ Pass(1, n)
      /\ ending' = (n < link[1].current.size)
      /\ UNCHANGED <<main, drained, round, source, total, delivered>>
  BY <1>a DEF SourceStream, StreamFills
<1>2. 1 \in Links /\ TypeOK /\ BlockSize \in Nat
  BY Constants DEF IInv, Links
<1>3. link[1].current.size \in 0..BlockSize
  BY <1>2, ItemShape DEF TypeOK
<1>4. written \in Nat /\ total \in Nat /\ written <= total
  BY <1>2, ChainAssumption DEF TypeOK
<1>5. /\ n \in 0..BlockSize /\ n <= total - written
      /\ n < link[1].current.size => written + n = total
  BY <1>a, <1>2, <1>3, <1>4 DEF Least
<1>6. ending' \in BOOLEAN /\ (ending' => written + n = total)
  <2>1. ending' = (n < link[1].current.size)
    BY <1>1
  <2>2. (n < link[1].current.size) \in BOOLEAN
    BY <1>3, <1>5
  <2>3. ending' \in BOOLEAN
    BY <2>1, <2>2, Zenon
  <2>4. ending' => n < link[1].current.size
    BY <2>1, Zenon
  <2> QED BY <1>5, <2>3, <2>4
<1> QED BY <1>1, <1>5, <1>6, SourceFills

LEMMA SourceReadInv ==
  ASSUME IInv, SourceRead
  PROVE  IInv'
<1>a. PICK n : n = ReadSize
  OBVIOUS
<1>1. /\ link[1].pc = "held" /\ written < total
      /\ memory' = Overwritten(1, Written(n)) /\ written' = written + n /\ Pass(1, n)
      /\ UNCHANGED <<main, drained, round, source, total, ending, delivered>>
  BY <1>a DEF SourceRead
<1>2. /\ BlockSize \in Nat /\ written \in Nat /\ total \in Nat /\ written <= total
      /\ ending \in BOOLEAN
  BY Constants, ChainAssumption DEF IInv, TypeOK
<1>3. n \in 0..BlockSize /\ n <= total - written
  BY <1>a, <1>2 DEF Least, ReadSize
<1>4. ~ending
  BY <1>1, <1>2 DEF IInv, Source
<1>5. ending' \in BOOLEAN /\ (ending' => written + n = total)
  BY <1>1, <1>2, <1>4
<1> QED BY <1>1, <1>3, <1>5, SourceFills

LEMMA ReadInv ==
  ASSUME IInv, Read
  PROVE  IInv'
<1>a. /\ link[Workers].pc = "held" /\ Pass(Workers, link[Workers].current.size)
      /\ delivered' = delivered \o Entries(Workers)
      /\ UNCHANGED <<main, drained, round, memory, source, total, written, ending>>
  BY DEF Read
<1>b. TypeOK /\ Hands /\ Ending /\ Drained /\ Ring /\ Source /\ Flowing
  BY DEF IInv
<1>c. /\ Workers \in Links /\ Out(Workers) = Workers /\ Workers \in 2..Workers
      /\ Workers \notin 1..(Workers - 1) /\ Workers \in Nat /\ Workers > 2
  BY Constants DEF Links, Out, Recycler
<1>d. /\ link[Workers].current \in Items /\ link[Workers].current # Poison
      /\ link[Workers].current.size \in 0..BlockSize
  BY <1>a, <1>b, <1>c, ItemShape DEF TypeOK, Hands
<1>0. PICK x : x = [block |-> link[Workers].current.block, size |-> link[Workers].current.size]
  OBVIOUS
<1>1. Gives(Workers, x) /\ x # Poison
  BY <1>a, <1>b, <1>c, <1>d, <1>0, PassGives
<1>2. /\ queue' \in [Queues -> Seq(Items)]
      /\ link' \in [Links -> [pc : {"absent", "consume", "held", "poisoned", "done"}, current : Items]]
      /\ Hands' /\ Ending' /\ Drained' /\ Ring'
  BY <1>1, GiveInv
<1>3. Source'
  <2>1. (ending' => written' = total') /\ total' = total /\ (link[1].pc \in Ended => written' = written)
    BY <1>a, <1>b DEF Source
  <2> QED BY <1>1, <2>1, GiveInv
<1>4. /\ Entries(Workers) \in Seq(Nat) /\ delivered \in Seq(Nat)
      /\ Entries(Workers) = [k \in 1..link[Workers].current.size |-> memory[link[Workers].current.block][k]]
  BY <1>b, <1>c, <1>d, EntriesShape DEF TypeOK
<1>5. delivered' \in Seq(Nat)
  <2>1. PICK e : e = Entries(Workers)
    OBVIOUS
  <2>2. e \in Seq(Nat) /\ delivered \in Seq(Nat) /\ delivered' = delivered \o e
    BY <1>a, <1>4, <2>1
  <2>3. delivered \o e \in Seq(Nat)
    BY <2>2
  <2> QED BY <2>2, <2>3
<1>6. TypeOK'
  BY <1>a, <1>b, <1>2, <1>5 DEF TypeOK
<1>7. Flowing'
  <2>1. PICK d : d = <<Out(Workers), Len(queue[Out(Workers)]) + 1>>
    OBVIOUS
  <2>2. /\ Places' = (Places \ {<<Workers, 0>>}) \union {d} /\ d \notin Places
        /\ <<Workers, 0>> \in Places /\ At(<<Workers, 0>>) = link[Workers].current
        /\ \A p \in Places \ {<<Workers, 0>>} : At(p)' = At(p)
        /\ d[1] = Workers /\ d[2] \in Nat /\ d[2] > 0
        /\ \A p \in Places : p = <<p[1], p[2]>> /\ p[1] \in Nat /\ p[2] \in Nat
    BY <1>b, <1>c, <1>1, <2>1, GiveSets
  <2>3. PICK w : w = <<Workers, 0>>
    OBVIOUS
  <2>4. w[1] = Workers /\ w[2] = 0
    BY <2>3
  <2>5. ~InPipe(d) /\ InPipe(w)
    BY <1>c, <2>2, <2>4 DEF InPipe
  <2>6. w \in Pipe /\ Pipe' = Pipe \ {w}
    BY <1>d, <2>2, <2>3, <2>5 DEF Pipe
  <2>7. Past(w)
    BY <1>c, <2>4 DEF Past
  <2>8. ASSUME NEW r \in Pipe \ {w}
        PROVE  Ahead(w, r)
    <3>1. r = <<r[1], r[2]>> /\ r[1] \in Nat /\ r[2] \in Nat /\ r # w /\ InPipe(r)
      BY <2>2 DEF Pipe
    <3>2. ~(r[1] = Workers /\ r[2] = 0)
      BY <2>3, <3>1
    <3>3. r[1] < Workers
      BY <1>c, <3>1, <3>2 DEF InPipe
    <3> QED BY <1>c, <2>4, <3>1, <3>3 DEF Ahead
  <2>9. Text[w] = Entries(Workers)
    <3>1. Text[w] = [k \in 1..At(w).size |-> memory[At(w).block][k]]
      BY <2>6 DEF Text
    <3> QED BY <1>4, <2>2, <2>3, <3>1
  <2>10. Flow(Pipe \ {w}, Text, delivered \o Text[w], written)
    <3>1. Flow(Pipe, Text, delivered, written)
      BY <1>b DEF Flowing
    <3> QED BY <1>4, <2>6, <2>7, <2>8, <2>9, <3>1, FlowRead
  <2>11. ASSUME NEW p \in Pipe'
         PROVE  Text'[p] = Text[p]
    <3>1. p \in Pipe /\ At(p)' = At(p)
      BY <2>2, <2>3, <2>6 DEF Pipe
    <3>2. Text'[p] = [k \in 1..At(p)'.size |-> memory'[At(p)'.block][k]]
      BY DEF Text
    <3>3. Text[p] = [k \in 1..At(p).size |-> memory[At(p).block][k]]
      BY <3>1 DEF Text
    <3> QED BY <1>a, <3>1, <3>2, <3>3
  <2>12. Flow(Pipe', Text, delivered', written')
    BY <1>a, <2>6, <2>9, <2>10
  <2>13. Flow(Pipe', Text', delivered', written')
    BY <2>11, <2>12, Zenon DEF Flow
  <2> QED BY <2>13 DEF Flowing
<1> QED BY <1>b, <1>2, <1>3, <1>6, <1>7 DEF IInv

-----------------------------------------------------------------------------
(* The main thread, and the source when it ends                            *)

LEMMA RowCount ==
  ASSUME NEW q, NEW n \in Nat
  PROVE  /\ IsFiniteSet({<<q, k>> : k \in 1..n})
         /\ Cardinality({<<q, k>> : k \in 1..n}) = n
<1> DEFINE S == {<<q, k>> : k \in 1..n}
           f == [k \in 1..n |-> <<q, k>>]
<1>1. f \in Bijection(1..n, S)
  BY DEF Bijection, Injection, Surjection, IsInjective
<1>2. ExistsBijection(1..n, S)
  BY <1>1 DEF ExistsBijection
<1>3. IsFiniteSet(1..n) /\ Cardinality(1..n) = n
  <2>1. Cardinality(1..n) = IF 1 > n THEN 0 ELSE n - 1 + 1
    BY FS_Interval
  <2>2. IsFiniteSet(1..n)
    BY FS_Interval
  <2> QED BY <2>1, <2>2
<1> QED BY <1>2, <1>3, FS_Bijection

\* The places when everything is in the lead queue.
LEMMA LeadPlaces ==
  ASSUME NEW q, q \in [Queues -> Seq(Items)], \A n \in Queues \ {0} : q[n] = <<>>
  PROVE  Spots(q, {}) = {<<0, k>> : k \in 1..Len(q[0])}
<1>1. /\ \A p \in Spots(q, {}) :
           /\ p = <<p[1], p[2]>> /\ p[2] # 0
           /\ p[1] \in Queues /\ p[2] \in 1..Len(q[p[1]])
      /\ \A n \in Queues : Len(q[n]) \in Nat /\ \A k \in 1..Len(q[n]) : <<n, k>> \in Spots(q, {})
  BY SpotShape
<1>2. \A p \in Spots(q, {}) : p[1] = 0 /\ p = <<0, p[2]>> /\ p[2] \in 1..Len(q[0])
  <2> TAKE p \in Spots(q, {})
  <2>1. p = <<p[1], p[2]>> /\ p[1] \in Queues /\ p[2] \in 1..Len(q[p[1]])
    BY <1>1
  <2>2. p[1] = 0
    <3>1. SUFFICES ASSUME p[1] # 0 PROVE FALSE
      OBVIOUS
    <3>2. q[p[1]] = <<>>
      BY <2>1, <3>1
    <3>3. Len(q[p[1]]) = 0
      BY <3>2
    <3> QED BY <2>1, <3>3
  <2> QED BY <2>1, <2>2
<1>3. \A k \in 1..Len(q[0]) : <<0, k>> \in Spots(q, {})
  BY <1>1, Constants
<1> QED BY <1>2, <1>3

\* The ring when no thread has anything and only the lead queue is filled.
LEMMA LeadOnly ==
  ASSUME TypeOK, Holders = {}, \A q \in Queues \ {0} : queue[q] = <<>>
  PROVE  /\ Places = {<<0, k>> : k \in 1..Len(queue[0])} /\ Len(queue[0]) \in Nat
         /\ Cardinality(Places) = Len(queue[0])
         /\ Pipe = {}
<1>1. queue \in [Queues -> Seq(Items)] /\ Places = Spots(queue, {}) /\ 0 \in Queues
  BY PlaceShape, Constants
<1>2. Places = {<<0, k>> : k \in 1..Len(queue[0])}
  BY <1>1, LeadPlaces
<1>3. Len(queue[0]) \in Nat
  BY <1>1, SeqFacts
<1>4. Cardinality(Places) = Len(queue[0])
  BY <1>2, <1>3, RowCount
<1>5. Pipe = {}
  <2>1. \A p \in Places : ~InPipe(p)
    <3> TAKE p \in Places
    <3>1. PICK k \in 1..Len(queue[0]) : p = <<0, k>>
      BY <1>2
    <3>2. p[1] = 0 /\ p[2] = k /\ k # 0
      BY <1>3, <3>1
    <3>3. 0 \notin 1..(Workers - 1)
      BY Constants
    <3> QED BY <3>2, <3>3 DEF InPipe
  <2> QED BY <2>1 DEF Pipe
<1> QED BY <1>2, <1>3, <1>4, <1>5

\* The flow between two rounds: nothing is on its way.
LEMMA FlowStopped ==
  ASSUME Flowing, Pipe = {}, Pipe' = {}, UNCHANGED <<delivered, written>>
  PROVE  Flowing'
BY DEF Flowing, Flow

LEMMA LaunchInv ==
  ASSUME IInv, NEW i \in Links, Launch(i)
  PROVE  IInv'
<1>a. /\ main = "running" /\ link[i].pc = "absent"
      /\ link' = [link EXCEPT ![i].pc = "consume"]
      /\ UNCHANGED <<queue, main, drained, round, memory, source, total, written, ending, delivered>>
  BY DEF Launch, data
<1>b. TypeOK /\ Hands /\ Ending /\ Drained /\ Ring /\ Source /\ Flowing
  BY DEF IInv
<1>1. /\ link' \in [Links -> [pc : {"absent", "consume", "held", "poisoned", "done"}, current : Items]]
      /\ link'[i].pc = "consume" /\ link'[i].current = link[i].current
      /\ \A j \in Links : j # i => link'[j] = link[j]
  BY <1>a, <1>b DEF TypeOK
<1>2. TypeOK'
  BY <1>a, <1>b, <1>1 DEF TypeOK
<1>3. Hands'
  BY <1>a, <1>b, <1>1 DEF Hands
<1>4. \A j \in Links : /\ link'[j].pc \in Ended <=> link[j].pc \in Ended
                       /\ link'[j].pc = "done" <=> link[j].pc = "done"
  BY <1>a, <1>1 DEF Ended
<1>5. Ending'
  <2>1. \A k \in Links \ {1} : k - 1 \in Links
    BY Constants DEF Links
  <2>2. Recycler \in Links /\ \A q \in Queues : q # 0 => q \in Links
    BY Constants DEF Links, Queues
  <2>3. \A j, k \in Links : k < j /\ link'[j].pc \in Ended => link'[k].pc = "done"
    BY <1>b, <1>4 DEF Ending
  <2>4. \A k \in Links \ {1} : link'[k - 1].pc = "done" =>
          IF link'[k].pc \in Ended THEN queue'[k - 1] = <<>>
          ELSE queue'[k - 1] # <<>> /\ LastOf(queue'[k - 1]) = Poison
    BY <1>a, <1>b, <1>4, <2>1 DEF Ending
  <2>5. \A q \in Queues : \A k \in 1..Len(queue'[q]) : queue'[q][k] = Poison =>
          /\ k = Len(queue'[q])
          /\ q # 0 => link'[q].pc = "done"
          /\ q = 0 /\ main' = "running" => link'[Recycler].pc = "done"
    BY <1>a, <1>b, <1>4, <2>2 DEF Ending
  <2>6. link'[Recycler].pc = "done" => queue'[0] # <<>> /\ LastOf(queue'[0]) = Poison
    BY <1>a, <1>b, <1>4, <2>2 DEF Ending
  <2> QED BY <2>3, <2>4, <2>5, <2>6, Zenon DEF Ending
<1>6. Drained'
  BY <1>a, <1>b DEF Drained
<1>7. Holders' = Holders /\ \A j \in Links : link'[j].current = link[j].current
  BY <1>a, <1>1 DEF Holders
<1>8. Places' = Places /\ \A p \in Places : At(p)' = At(p)
  <2>1. Places' = Places
    BY <1>a, <1>7 DEF Places
  <2>2. \A p \in Places : p[2] = 0 => p[1] \in Links
    BY <1>b, PlaceShape
  <2> QED BY <1>a, <1>7, <2>1, <2>2 DEF At
<1>9. Ring'
  BY <1>a, <1>b, <1>8 DEF Ring
<1>10. Source'
  <2>1. 1 \in Links
    BY Constants DEF Links
  <2> QED BY <1>a, <1>b, <1>4, <2>1 DEF Source
<1>11. Flowing'
  <2>1. Pipe' = Pipe /\ \A p \in Pipe : At(p)' = At(p)
    BY <1>8 DEF Pipe
  <2> QED BY <1>a, <1>b, <2>1, FlowSame
<1> QED BY <1>2, <1>3, <1>5, <1>6, <1>9, <1>10, <1>11 DEF IInv

LEMMA PoisonHeldInv ==
  ASSUME IInv, PoisonHeld
  PROVE  IInv'
<1>a. /\ link[1].pc = "held" /\ (ending \/ written = total)
      /\ link' = [link EXCEPT ![1] = [pc |-> "poisoned", current |-> Poison]]
      /\ UNCHANGED <<queue, main, drained, round, memory, source, total, written, ending, delivered>>
  BY DEF PoisonHeld, data
<1>b. TypeOK /\ Hands /\ Ending /\ Drained /\ Ring /\ Source /\ Flowing
  BY DEF IInv
<1>c. /\ 1 \in Links /\ Recycler \in Links /\ Recycler # 1
      /\ \A j \in Links : ~(j < 1)
      /\ \A k \in Links \ {1} : k - 1 \in Links
      /\ \A q \in Queues : q # 0 => q \in Links
      /\ 1 \notin 2..Workers
  BY Constants DEF Links, Queues, Recycler
<1>1. /\ link' \in [Links -> [pc : {"absent", "consume", "held", "poisoned", "done"}, current : Items]]
      /\ link'[1].pc = "poisoned" /\ link'[1].current = Poison
      /\ \A j \in Links : j # 1 => link'[j] = link[j]
  BY <1>a, <1>b, <1>c, ItemShape DEF TypeOK
<1>2. TypeOK'
  BY <1>a, <1>b, <1>1 DEF TypeOK
<1>d. main = "running"
  BY <1>a, <1>b, <1>c DEF Hands
<1>3. Hands'
  BY <1>a, <1>b, <1>d, <1>1 DEF Hands
<1>4. \A j \in Links : link'[j].pc = "done" <=> link[j].pc = "done"
  BY <1>a, <1>1
<1>5. Ending'
  <2>3. \A k, j \in Links : j < k /\ link'[k].pc \in Ended => link'[j].pc = "done"
    <3> SUFFICES ASSUME NEW k \in Links, NEW j \in Links, j < k, link'[k].pc \in Ended
                 PROVE  link'[j].pc = "done"
      OBVIOUS
    <3>1. k # 1 /\ link[k].pc \in Ended
      BY <1>c, <1>1
    <3> QED BY <1>b, <1>4, <3>1 DEF Ending
  <2>4. \A k \in Links \ {1} : link'[k - 1].pc = "done" =>
          IF link'[k].pc \in Ended THEN queue'[k - 1] = <<>>
          ELSE queue'[k - 1] # <<>> /\ LastOf(queue'[k - 1]) = Poison
    BY <1>a, <1>b, <1>c, <1>1, <1>4 DEF Ending
  <2>5. \A q \in Queues : \A k \in 1..Len(queue'[q]) : queue'[q][k] = Poison =>
          /\ k = Len(queue'[q])
          /\ q # 0 => link'[q].pc = "done"
          /\ q = 0 /\ main' = "running" => link'[Recycler].pc = "done"
    BY <1>a, <1>b, <1>c, <1>4 DEF Ending
  <2>6. link'[Recycler].pc = "done" => queue'[0] # <<>> /\ LastOf(queue'[0]) = Poison
    BY <1>a, <1>b, <1>c, <1>4 DEF Ending
  <2> QED BY <2>3, <2>4, <2>5, <2>6, Zenon DEF Ending
<1>6. Drained'
  BY <1>a, <1>b DEF Drained
<1>7. Holders' = Holders
  BY <1>a, <1>1 DEF Holders
<1>8. Places' = Places
  BY <1>a, <1>7 DEF Places
<1>9. \A p \in Places : IF p = <<1, 0>> THEN At(p)' = Poison ELSE At(p)' = At(p)
  <2> TAKE p \in Places
  <2>1. p = <<p[1], p[2]>> /\ (p[2] = 0 => p[1] \in Links)
    BY <1>b, PlaceShape
  <2> QED BY <1>a, <1>1, <2>1 DEF At
<1>10. Ring'
  <2>1. \A p, r \in Places : At(p)' # Poison /\ At(p)'.block = At(r)'.block => p = r
    <3> SUFFICES ASSUME NEW p \in Places, NEW r \in Places, At(p)' # Poison, At(p)'.block = At(r)'.block
                 PROVE  p = r
      OBVIOUS
    <3>1. At(p)' = At(p) /\ At(p) # Poison /\ At(p) \in Items
      BY <1>9, <1>b, PlaceShape
    <3>2. At(r)' # Poison
      BY <3>1, ItemShape
    <3>3. At(r)' = At(r)
      BY <1>9, <3>2
    <3> QED BY <1>b, <3>1, <3>3 DEF Ring
  <2> QED BY <1>a, <1>b, <1>8, <2>1 DEF Ring
<1>11. Source'
  BY <1>a, <1>b DEF Source
<1>12. Flowing'
  <2>1. ~InPipe(<<1, 0>>)
    BY <1>c DEF InPipe
  <2>2. Pipe' = Pipe /\ \A p \in Pipe : At(p)' = At(p)
    BY <1>8, <1>9, <2>1 DEF Pipe
  <2> QED BY <1>a, <1>b, <2>2, FlowSame
<1> QED BY <1>2, <1>3, <1>5, <1>6, <1>10, <1>11, <1>12 DEF IInv

LEMMA JoinInv ==
  ASSUME IInv, Join
  PROVE  IInv'
<1>a. /\ main = "running" /\ \A i \in Links : link[i].pc = "done"
      /\ link' = [i \in Links |-> Absent] /\ main' = "draining" /\ drained' = 0
      /\ UNCHANGED <<queue, round, memory, source, total, written, ending, delivered>>
  BY DEF Join, data
<1>b. TypeOK /\ Hands /\ Ending /\ Drained /\ Ring /\ Source /\ Flowing
  BY DEF IInv
<1>c. /\ 1 \in Links /\ Recycler \in Links /\ BlockCount \in Nat
      /\ \A q \in Queues \ {0} : q \in Links /\ q + 1 \in Links \ {1} /\ (q + 1) - 1 = q
  BY Constants DEF Links, Queues, Recycler
<1>d. Absent \in [pc : {"absent", "consume", "held", "poisoned", "done"}, current : Items]
  BY ItemShape DEF Absent
<1>1. \A i \in Links : link'[i].pc = "absent" /\ link'[i].current = Poison
  BY <1>a DEF Absent
<1>2. TypeOK'
  BY <1>a, <1>b, <1>c, <1>d DEF TypeOK
<1>3. Hands'
  BY <1>1 DEF Hands
<1>4. Holders = {} /\ Holders' = {}
  BY <1>a, <1>1 DEF Holders
<1>5. \A q \in Queues \ {0} : queue[q] = <<>>
  <2> TAKE q \in Queues \ {0}
  <2>1. link[(q + 1) - 1].pc = "done" /\ link[q + 1].pc \in Ended
    BY <1>a, <1>c DEF Ended
  <2>2. queue[(q + 1) - 1] = <<>>
    BY <1>b, <1>c, <2>1 DEF Ending
  <2> QED BY <1>c, <2>2
<1>6. /\ Places = {<<0, k>> : k \in 1..Len(queue[0])} /\ Len(queue[0]) \in Nat
      /\ Cardinality(Places) = Len(queue[0]) /\ Pipe = {}
  BY <1>b, <1>4, <1>5, LeadOnly
<1>7. Len(queue[0]) = BlockCount
  BY <1>a, <1>b, <1>6 DEF Ring
<1>8. queue[0] # <<>> /\ LastOf(queue[0]) = Poison
  BY <1>a, <1>b, <1>c DEF Ending
<1>9. Ending'
  <2>1. \A i \in Links : link'[i].pc \notin Ended /\ link'[i].pc # "done"
    BY <1>1 DEF Ended
  <2>2. \A k \in Links \ {1} : k - 1 \in Links
    BY Constants DEF Links
  <2>3. \A q \in Queues : \A k \in 1..Len(queue'[q]) : queue'[q][k] = Poison =>
          /\ k = Len(queue'[q])
          /\ q # 0 => link'[q].pc = "done"
          /\ q = 0 /\ main' = "running" => link'[Recycler].pc = "done"
    <3> SUFFICES ASSUME NEW q \in Queues, NEW k \in 1..Len(queue[q]), queue[q][k] = Poison
                 PROVE  k = Len(queue[q]) /\ q = 0
      BY <1>a
    <3>1. k = Len(queue[q])
      BY <1>b DEF Ending
    <3>2. ASSUME q # 0
          PROVE  FALSE
      <4>1. queue[q] = <<>>
        BY <1>5, <3>2
      <4> QED BY <4>1
    <3> QED BY <3>1, <3>2
  <2> QED BY <1>c, <2>1, <2>2, <2>3 DEF Ending
<1>10. Drained'
  <2>1. drained' + Len(queue'[0]) = BlockCount
    BY <1>a, <1>7, <1>c
  <2> QED BY <1>a, <1>b, <1>5, <1>8, <2>1 DEF Drained
<1>11. Places' = Places
  BY <1>a, <1>4 DEF Places
<1>12. \A p \in Places : At(p)' = At(p)
  <2> TAKE p \in Places
  <2>1. PICK k \in 1..Len(queue[0]) : p = <<0, k>>
    BY <1>6
  <2>2. p[2] # 0
    BY <1>6, <2>1
  <2> QED BY <1>a, <2>2 DEF At
<1>13. Ring'
  BY <1>a, <1>b, <1>11, <1>12 DEF Ring
<1>14. Source'
  BY <1>a, <1>b, <1>c, <1>1 DEF Source, Ended
<1>15. Flowing'
  <2>1. Pipe' = Pipe /\ \A p \in Pipe : At(p)' = At(p)
    BY <1>11, <1>12 DEF Pipe
  <2> QED BY <1>a, <1>b, <2>1, FlowSame
<1> QED BY <1>2, <1>3, <1>9, <1>10, <1>13, <1>14, <1>15 DEF IInv

LEMMA DrainInv ==
  ASSUME IInv, Drain
  PROVE  IInv'
<1>a. /\ main = "draining" /\ queue[0] # <<>>
      /\ UNCHANGED <<link, memory, source, total, written, ending, delivered>>
  BY DEF Drain, data
<1>b. TypeOK /\ Hands /\ Ending /\ Drained /\ Ring /\ Source /\ Flowing
  BY DEF IInv
<1>c. /\ 1 \in Links /\ Recycler \in Links /\ BlockCount \in Nat /\ 0 \in Queues
      /\ \A k \in Links \ {1} : k - 1 \in Links
  BY Constants DEF Links, Queues, Recycler
<1>1. \A i \in Links : link'[i].pc = "absent" /\ link[i].pc = "absent"
  BY <1>a, <1>b DEF Hands
<1>2. Holders = {} /\ Holders' = {}
  BY <1>1 DEF Holders
<1>3. \A q \in Queues \ {0} : queue[q] = <<>>
  BY <1>a, <1>b DEF Drained
<1>4. /\ Places = {<<0, k>> : k \in 1..Len(queue[0])} /\ Len(queue[0]) \in Nat /\ Pipe = {}
  BY <1>b, <1>2, <1>3, LeadOnly
<1>5. /\ queue[0] # <<>> /\ LastOf(queue[0]) = Poison /\ drained + Len(queue[0]) = BlockCount
      /\ round < Rounds
  BY <1>a, <1>b DEF Drained
<1>6. queue[0] \in Seq(Items) /\ queue \in [Queues -> Seq(Items)]
  BY <1>b, <1>c DEF TypeOK
<1>7. round \in 0..Rounds /\ Rounds \in Nat /\ drained \in 0..BlockCount
  BY <1>b, ChainAssumption DEF TypeOK
<1>8. Hands'
  <2>1. \A i \in Links : link[i].current = Poison
    BY <1>1, <1>b DEF Hands
  <2> QED BY <1>a, <1>1, <2>1 DEF Hands
<1>9. Source'
  BY <1>a, <1>b DEF Source
<1>10. \A i \in Links : link'[i].pc \notin Ended /\ link'[i].pc # "done"
  BY <1>1 DEF Ended
<1>11. CASE Head(queue[0]) = Poison
  <2>1. queue' = [q \in Queues |-> <<>>] /\ main' = "idle" /\ round' = round + 1 /\ drained' = drained
    BY <1>11 DEF Drain
  <2>2. queue' \in [Queues -> Seq(Items)] /\ \A q \in Queues : queue'[q] = <<>> /\ Len(queue'[q]) = 0
    BY <2>1
  <2>3. TypeOK'
    <3>1. round' \in 0..Rounds
      BY <1>5, <1>7, <2>1
    <3> QED BY <1>a, <1>b, <2>1, <2>2, <3>1 DEF TypeOK
  <2>4. Ending'
    BY <1>10, <1>c, <2>2 DEF Ending
  <2>5. Drained'
    BY <2>1, <2>2 DEF Drained
  <2>6. Places' = {}
    BY <1>2, <2>2 DEF Places
  <2>7. Ring' /\ Pipe' = {}
    BY <2>1, <2>6 DEF Ring, Pipe
  <2>8. Flowing'
    BY <1>a, <1>b, <1>4, <2>7, FlowStopped
  <2> QED BY <1>8, <1>9, <2>3, <2>4, <2>5, <2>7, <2>8 DEF IInv
<1>12. CASE Head(queue[0]) # Poison
  <2>1. /\ queue' = [queue EXCEPT ![0] = Tail(queue[0])]
        /\ main' = IF drained = BlockCount THEN "aborted" ELSE main
        /\ drained' = drained + 1 /\ round' = round
    BY <1>12 DEF Drain
  <2>2. /\ Len(queue[0]) > 0 /\ Tail(queue[0]) \in Seq(Items)
        /\ Len(Tail(queue[0])) = Len(queue[0]) - 1
        /\ \A k \in 1..(Len(queue[0]) - 1) : Tail(queue[0])[k] = queue[0][k + 1]
        /\ Head(queue[0]) = queue[0][1]
    BY <1>5, <1>6, SeqFacts
  <2>3. queue[0][Len(queue[0])] = Poison /\ Len(queue[0]) > 1
    BY <1>4, <1>5, <1>12, <2>2 DEF LastOf
  <2>4. /\ queue' \in [Queues -> Seq(Items)] /\ queue'[0] = Tail(queue[0])
        /\ \A q \in Queues \ {0} : queue'[q] = <<>>
    BY <1>3, <1>6, <1>c, <2>1, <2>2
  <2>5. main' = "draining" /\ drained' \in 0..BlockCount
    BY <1>4, <1>5, <1>7, <1>a, <1>c, <2>1, <2>3
  <2>6. TypeOK'
    BY <1>a, <1>b, <2>1, <2>4, <2>5 DEF TypeOK
  <2>7. queue'[0] # <<>> /\ LastOf(queue'[0]) = Poison
    <3>1. Len(queue[0]) - 1 \in 1..(Len(queue[0]) - 1) /\ (Len(queue[0]) - 1) + 1 = Len(queue[0])
      BY <1>4, <2>3
    <3>2. Tail(queue[0])[Len(queue[0]) - 1] = Poison
      BY <2>2, <2>3, <3>1
    <3>3. Tail(queue[0]) # <<>>
      <4>1. PICK s \in Seq(Items) : s = Tail(queue[0])
        BY <2>2
      <4>2. Len(s) > 0
        BY <2>2, <2>3, <4>1
      <4>3. s # <<>>
        BY <4>2
      <4> QED BY <4>1, <4>3
    <3> QED BY <2>2, <2>4, <3>2, <3>3 DEF LastOf
  <2>8. Drained'
    <3>1. drained' + Len(queue'[0]) = BlockCount
      BY <1>4, <1>5, <1>7, <2>1, <2>2, <2>4
    <3> QED BY <1>5, <2>1, <2>4, <2>5, <2>7, <3>1 DEF Drained
  <2>9. Ending'
    <3>1. \A q \in Queues : \A k \in 1..Len(queue'[q]) : queue'[q][k] = Poison =>
            k = Len(queue'[q]) /\ q = 0
      <4> SUFFICES ASSUME NEW q \in Queues, NEW k \in 1..Len(queue'[q]), queue'[q][k] = Poison
                   PROVE  k = Len(queue'[q]) /\ q = 0
        OBVIOUS
      <4>1. q = 0
        <5>1. SUFFICES ASSUME q # 0 PROVE FALSE
          OBVIOUS
        <5>2. queue'[q] = <<>>
          BY <2>4, <5>1
        <5> QED BY <5>2
      <4>2. k \in 1..(Len(queue[0]) - 1) /\ k + 1 \in 1..Len(queue[0])
        BY <1>4, <2>2, <2>4, <4>1
      <4>3. queue[0][k + 1] = Poison
        BY <2>2, <2>4, <4>1, <4>2
      <4>4. k + 1 = Len(queue[0])
        BY <1>b, <1>c, <4>2, <4>3 DEF Ending
      <4> QED BY <1>4, <2>2, <2>4, <4>1, <4>2, <4>4
    <3> QED BY <1>10, <1>c, <2>5, <3>1 DEF Ending
  <2>10. Places' = {<<0, k>> : k \in 1..(Len(queue[0]) - 1)}
    <3>1. Places' = Spots(queue', {})
      BY <1>2, Zenon DEF Places, Spots
    <3>2. Spots(queue', {}) = {<<0, k>> : k \in 1..Len(queue'[0])}
      BY <2>4, LeadPlaces
    <3> QED BY <2>2, <2>4, <3>1, <3>2
  <2>11. ASSUME NEW k \in 1..(Len(queue[0]) - 1)
         PROVE  /\ <<0, k + 1>> \in Places /\ At(<<0, k + 1>>) = queue[0][k + 1]
                /\ At(<<0, k>>)' = queue[0][k + 1]
    <3>1. k + 1 \in 1..Len(queue[0]) /\ k # 0 /\ k + 1 # 0
      BY <1>4
    <3>2. At(<<0, k + 1>>) = queue[0][k + 1]
      BY <3>1 DEF At
    <3>3. At(<<0, k>>)' = queue'[0][k]
      BY <3>1 DEF At
    <3> QED BY <1>4, <2>2, <2>4, <3>1, <3>2, <3>3
  <2>12. Ring'
    <3>1. ASSUME NEW p \in Places', NEW r \in Places', At(p)' # Poison, At(p)'.block = At(r)'.block
          PROVE  p = r
      <4>1. PICK j \in 1..(Len(queue[0]) - 1) : p = <<0, j>>
        BY <2>10, <3>1
      <4>2. PICK k \in 1..(Len(queue[0]) - 1) : r = <<0, k>>
        BY <2>10, <3>1
      <4>3. At(<<0, j + 1>>) = At(p)' /\ At(<<0, k + 1>>) = At(r)'
        BY <2>11, <4>1, <4>2
      <4>4. <<0, j + 1>> = <<0, k + 1>>
        BY <1>b, <2>11, <3>1, <4>3 DEF Ring
      <4>5. j + 1 = k + 1
        BY <4>4
      <4>6. j = k
        BY <1>4, <4>5
      <4> QED BY <4>1, <4>2, <4>6
    <3> QED BY <2>5, <3>1 DEF Ring
  <2>13. Pipe' = {}
    <3>1. \A p \in Places' : ~InPipe(p)
      <4> TAKE p \in Places'
      <4>1. PICK k \in 1..(Len(queue[0]) - 1) : p = <<0, k>>
        BY <2>10
      <4>2. p[1] = 0 /\ p[2] # 0
        BY <1>4, <4>1
      <4>3. 0 \notin 1..(Workers - 1)
        BY Constants
      <4> QED BY <4>2, <4>3 DEF InPipe
    <3> QED BY <3>1 DEF Pipe
  <2>14. Flowing'
    BY <1>a, <1>b, <1>4, <2>13, FlowStopped
  <2> QED BY <1>8, <1>9, <2>6, <2>8, <2>9, <2>12, <2>14 DEF IInv
<1> QED BY <1>11, <1>12

LEMMA StartInv ==
  ASSUME IInv, Start
  PROVE  IInv'
<1> DEFINE lead == [b \in Blocks |-> [block |-> b, size |-> BlockSize]]
<1>a. /\ main = "idle" /\ round < Rounds
      /\ queue' = [queue EXCEPT ![0] = lead]
      /\ main' = "running" /\ source' \in {"Stream", "Read"} /\ total' \in Totals
      /\ written' = 0 /\ ending' = FALSE /\ delivered' = <<>>
      /\ UNCHANGED <<memory, link, drained, round>>
  BY DEF Start
<1>b. TypeOK /\ Hands /\ Ending /\ Drained /\ Ring /\ Source /\ Flowing
  BY DEF IInv
<1>c. /\ 1 \in Links /\ Recycler \in Links /\ BlockCount \in Nat /\ 0 \in Queues
      /\ \A k \in Links \ {1} : k - 1 \in Links
  BY Constants DEF Links, Queues, Recycler
<1>1. /\ lead \in Seq(Items) /\ Len(lead) = BlockCount
      /\ \A k \in 1..BlockCount : lead[k].block = k /\ lead[k] # Poison
  <2>1. \A b \in Blocks : /\ [block |-> b, size |-> BlockSize] \in Items
                          /\ [block |-> b, size |-> BlockSize] # Poison
    BY ChainAssumption DEF Items, Poison, Blocks
  <2>2. lead \in [1..BlockCount -> Items]
    BY <2>1 DEF Blocks
  <2>3. lead \in Seq(Items) /\ Len(lead) = BlockCount
    BY <1>c, <2>2
  <2>4. \A k \in 1..BlockCount : lead[k].block = k /\ lead[k] # Poison
    BY <2>1 DEF Blocks
  <2> QED BY <2>3, <2>4
<1> HIDE DEF lead
<1>2. /\ queue' \in [Queues -> Seq(Items)] /\ queue'[0] = lead
      /\ \A q \in Queues \ {0} : queue'[q] = <<>>
  <2>1. queue \in [Queues -> Seq(Items)] /\ \A q \in Queues : queue[q] = <<>>
    BY <1>a, <1>b DEF TypeOK, Drained
  <2> QED BY <1>1, <1>a, <1>c, <2>1
<1>3. TypeOK'
  <2>1. total' \in Totals \union {0} /\ total' \in Nat
    BY <1>a, ChainAssumption
  <2>2. written' \in 0..total' /\ delivered' \in Seq(Nat) /\ ending' \in BOOLEAN
    <3>1. written' \in 0..total'
      BY <1>a, <2>1
    <3>2. delivered' \in Seq(Nat)
      BY <1>a
    <3>3. ending' \in BOOLEAN
      BY <1>a
    <3> QED BY <3>1, <3>2, <3>3
  <2>3. /\ memory' \in [Blocks -> [1..BlockSize -> Nat]]
        /\ link' \in [Links -> [pc : {"absent", "consume", "held", "poisoned", "done"}, current : Items]]
        /\ drained' \in 0..BlockCount /\ round' \in 0..Rounds
    BY <1>a, <1>b DEF TypeOK
  <2>4. main' \in {"idle", "running", "draining"} /\ source' \in {"Stream", "Read"}
    BY <1>a
  <2> QED BY <1>2, <2>1, <2>2, <2>3, <2>4 DEF TypeOK
<1>4. \A i \in Links : link'[i].pc = "absent" /\ link'[i].current = Poison
  BY <1>a, <1>b DEF Hands
<1>5. Hands'
  BY <1>4 DEF Hands
<1>6. \A i \in Links : link'[i].pc \notin Ended /\ link'[i].pc # "done"
  BY <1>4 DEF Ended
<1>7. Ending'
  <2>1. \A q \in Queues : \A k \in 1..Len(queue'[q]) : queue'[q][k] # Poison
    <3> SUFFICES ASSUME NEW q \in Queues, NEW k \in 1..Len(queue'[q])
                 PROVE  queue'[q][k] # Poison
      OBVIOUS
    <3>1. CASE q = 0
      BY <1>1, <1>2, <3>1
    <3>2. CASE q # 0
      <4>1. queue'[q] = <<>>
        BY <1>2, <3>2
      <4> QED BY <4>1
    <3> QED BY <3>1, <3>2
  <2> QED BY <1>6, <1>c, <2>1 DEF Ending
<1>8. Drained'
  BY <1>a DEF Drained
<1>9. Holders' = {}
  BY <1>4 DEF Holders
<1>10. Places' = {<<0, k>> : k \in 1..BlockCount}
  <2>1. Places' = Spots(queue', {})
    BY <1>9, Zenon DEF Places, Spots
  <2>2. Spots(queue', {}) = {<<0, k>> : k \in 1..Len(queue'[0])}
    BY <1>2, LeadPlaces
  <2> QED BY <1>1, <1>2, <2>1, <2>2
<1>11. Ring'
  <2>1. IsFiniteSet(Places') /\ Cardinality(Places') = BlockCount
    BY <1>10, <1>c, RowCount
  <2>2. \A k \in 1..BlockCount : At(<<0, k>>)' = lead[k]
    BY <1>2 DEF At
  <2>3. ASSUME NEW p \in Places', NEW r \in Places', At(p)'.block = At(r)'.block
        PROVE  p = r
    <3>1. PICK j \in 1..BlockCount : p = <<0, j>>
      BY <1>10, <2>3
    <3>2. PICK k \in 1..BlockCount : r = <<0, k>>
      BY <1>10, <2>3
    <3>3. lead[j].block = lead[k].block
      BY <2>2, <2>3, <3>1, <3>2
    <3> QED BY <1>1, <3>1, <3>2, <3>3
  <2> QED BY <2>1, <2>3 DEF Ring
<1>12. Source'
  BY <1>a, <1>6, <1>c DEF Source
<1>13. Pipe' = {}
  <2>1. \A p \in Places' : ~InPipe(p)
    <3> TAKE p \in Places'
    <3>1. PICK k \in 1..BlockCount : p = <<0, k>>
      BY <1>10
    <3>2. p[1] = 0 /\ p[2] # 0
      BY <3>1
    <3>3. 0 \notin 1..(Workers - 1)
      BY Constants
    <3> QED BY <3>2, <3>3 DEF InPipe
  <2> QED BY <2>1 DEF Pipe
<1>14. Flowing'
  <2>1. delivered' = <<>> /\ 1..written' = {}
    BY <1>a
  <2>2. Rising(<<>>) /\ Range(<<>>) = {}
    BY DEF Rising, Range
  <2> QED BY <1>13, <2>1, <2>2 DEF Flowing, Flow
<1> QED BY <1>3, <1>5, <1>7, <1>8, <1>11, <1>12, <1>14 DEF IInv

-----------------------------------------------------------------------------
(* The inductive invariant holds                                           *)

LEMMA InitInv ==
  ASSUME Init
  PROVE  IInv
<1>a. /\ memory = [b \in Blocks |-> [k \in 1..BlockSize |-> 0]]
      /\ queue = [q \in Queues |-> <<>>]
      /\ link = [i \in Links |-> Absent]
      /\ main = "idle" /\ drained = 0 /\ round = 0
      /\ source = "Stream" /\ total = 0 /\ written = 0 /\ ending = FALSE /\ delivered = <<>>
  BY DEF Init
<1>c. /\ 1 \in Links /\ Recycler \in Links /\ BlockCount \in Nat /\ Rounds \in Nat
      /\ \A k \in Links \ {1} : k - 1 \in Links
  BY Constants, ChainAssumption DEF Links, Queues, Recycler
<1>1. Absent \in [pc : {"absent", "consume", "held", "poisoned", "done"}, current : Items]
  BY ItemShape DEF Absent
<1>2. \A i \in Links : link[i].pc = "absent" /\ link[i].current = Poison
  BY <1>a DEF Absent
<1>3. \A q \in Queues : queue[q] = <<>> /\ Len(queue[q]) = 0
  BY <1>a
<1>4. TypeOK
  <2>1. memory \in [Blocks -> [1..BlockSize -> Nat]]
    BY <1>a
  <2>2. queue \in [Queues -> Seq(Items)]
    BY <1>a
  <2>3. link \in [Links -> [pc : {"absent", "consume", "held", "poisoned", "done"}, current : Items]]
    BY <1>a, <1>1
  <2>4. /\ main \in {"idle", "running", "draining"} /\ source \in {"Stream", "Read"}
        /\ drained \in 0..BlockCount /\ round \in 0..Rounds
        /\ total \in Totals \union {0} /\ written \in 0..total
    BY <1>a, <1>c
  <2>5. delivered \in Seq(Nat)
    BY <1>a
  <2>6. ending \in BOOLEAN
    BY <1>a
  <2> QED BY <2>1, <2>2, <2>3, <2>4, <2>5, <2>6 DEF TypeOK
<1>5. Hands
  BY <1>2 DEF Hands
<1>6. \A i \in Links : link[i].pc \notin Ended /\ link[i].pc # "done"
  BY <1>2 DEF Ended
<1>7. Ending
  BY <1>3, <1>6, <1>c DEF Ending
<1>8. Drained
  BY <1>a, <1>3 DEF Drained
<1>9. Holders = {}
  BY <1>2 DEF Holders
<1>10. Places = {}
  BY <1>3, <1>9 DEF Places
<1>11. Ring /\ Pipe = {}
  BY <1>10, <1>a DEF Ring, Pipe
<1>12. Source
  BY <1>a, <1>c, <1>6 DEF Source
<1>13. Flowing
  <2>1. delivered = <<>> /\ 1..written = {}
    BY <1>a
  <2>2. Rising(<<>>) /\ Range(<<>>) = {}
    BY DEF Rising, Range
  <2> QED BY <1>11, <2>1, <2>2 DEF Flowing, Flow
<1> QED BY <1>4, <1>5, <1>7, <1>8, <1>11, <1>12, <1>13 DEF IInv

LEMMA ConsumeInv ==
  ASSUME IInv, NEW i \in Links, Consume(i)
  PROVE  IInv'
<1>b. TypeOK /\ Hands /\ Ending /\ Drained /\ Ring /\ Source /\ Flowing
  BY DEF IInv
<1>1. /\ queue' \in [Queues -> Seq(Items)]
      /\ link' \in [Links -> [pc : {"absent", "consume", "held", "poisoned", "done"}, current : Items]]
  BY <1>b, ConsumeTyped
<1>2. UNCHANGED <<main, drained, round, memory, source, total, written, ending, delivered>>
  BY DEF Consume, data
<1>3. TypeOK'
  BY <1>b, <1>1, <1>2 DEF TypeOK
<1>4. Hands' /\ Ending' /\ Drained'
  BY <1>b, ConsumeEnding
<1>5. Ring' /\ Source' /\ Flowing'
  BY <1>b, ConsumeRest
<1> QED BY <1>3, <1>4, <1>5 DEF IInv

LEMMA StutterInv ==
  ASSUME IInv, UNCHANGED vars
  PROVE  IInv'
<1>1. UNCHANGED <<memory, queue, link, main, drained, round, source, total, written, ending, delivered>>
  BY DEF vars
<1>2. Places' = Places /\ \A p : At(p)' = At(p)
  BY <1>1 DEF Places, Holders, At
<1>3. Pipe' = Pipe
  BY <1>2 DEF Pipe
<1>4. Flowing'
  BY <1>1, <1>2, <1>3, FlowSame DEF IInv
<1>5. Ring'
  BY <1>1, <1>2 DEF Ring, IInv
<1> QED BY <1>1, <1>4, <1>5 DEF IInv, TypeOK, Hands, Ending, Drained, Source

LEMMA NextInv ==
  ASSUME IInv, [Next]_vars
  PROVE  IInv'
<1>1. CASE Start
  BY <1>1, StartInv
<1>2. CASE \E i \in Links : Launch(i)
  BY <1>2, LaunchInv
<1>3. CASE Join
  BY <1>3, JoinInv
<1>4. CASE Drain
  BY <1>4, DrainInv
<1>5. ASSUME NEW i \in Links, Thread(i)
      PROVE  IInv'
  <2>1. CASE Consume(i)
    BY <2>1, ConsumeInv
  <2>2. CASE PassPoison(i)
    BY <2>2, PassPoisonInv
  <2>3. CASE SourceStream \/ SourceRead \/ PoisonHeld
    BY <2>3, SourceStreamInv, SourceReadInv, PoisonHeldInv
  <2>4. CASE Prune \/ Read \/ Recycle
    BY <2>4, PruneInv, ReadInv, RecycleInv
  <2>5. CASE i \in 3..(Workers - 1) /\ Forward(i)
    BY <2>5, ForwardInv
  <2> QED BY <1>5, <2>1, <2>2, <2>3, <2>4, <2>5 DEF Thread, Work
<1>6. CASE UNCHANGED vars
  BY <1>6, StutterInv
<1> QED BY <1>1, <1>2, <1>3, <1>4, <1>5, <1>6 DEF Next, Main

LEMMA AlwaysIInv == Spec => []IInv
<1>1. Init => IInv
  BY InitInv
<1>2. IInv /\ [Next]_vars => IInv'
  BY NextInv
<1> QED BY <1>1, <1>2, PTL DEF Spec

-----------------------------------------------------------------------------
(* What it gives                                                           *)

LEMMA RoomLeft ==
  ASSUME IInv
  PROVE  NeverFull
<1> SUFFICES ASSUME NEW i \in Holders
             PROVE  Len(queue[Out(i)]) < BlockCount
  BY DEF NeverFull
<1>b. TypeOK /\ Hands /\ Ring
  BY DEF IInv
<1>1. i \in Links /\ Out(i) \in Queues /\ Len(queue[Out(i)]) \in Nat /\ BlockCount \in Nat
  BY <1>b, Constants, PlaceShape DEF Holders
<1>2. main = "running"
  BY <1>b, <1>1 DEF Hands, Holders
<1>3. IsFiniteSet(Places) /\ Cardinality(Places) = BlockCount
  BY <1>b, <1>2 DEF Ring
<1> DEFINE S == {<<Out(i), k>> : k \in 1..Len(queue[Out(i)])}
<1>4. IsFiniteSet(S) /\ Cardinality(S) = Len(queue[Out(i)])
  BY <1>1, RowCount
<1>5. S \subseteq Places /\ <<i, 0>> \in Places /\ <<i, 0>> \notin S
  <2>1. \A k \in 1..Len(queue[Out(i)]) : <<Out(i), k>> \in Places
    BY <1>b, <1>1, PlaceShape
  <2>2. <<i, 0>> \in Places
    BY <1>b, PlaceShape
  <2>3. \A k \in 1..Len(queue[Out(i)]) : <<Out(i), k>> # <<i, 0>>
    BY <1>1
  <2> QED BY <2>1, <2>2, <2>3
<1> HIDE DEF S
<1>6. S \in SUBSET (Places \ {<<i, 0>>})
  BY <1>5
<1>7. /\ IsFiniteSet(Places \ {<<i, 0>>})
      /\ Cardinality(Places \ {<<i, 0>>}) = BlockCount - 1
  BY <1>3, <1>5, FS_RemoveElement
<1>8. Cardinality(S) <= BlockCount - 1
  BY <1>6, <1>7, FS_Subset
<1> QED BY <1>1, <1>4, <1>8

\* RingInv: a block is at one place at a time, and no thread ever waits to produce.
THEOREM RingConserved == Spec => []RingInv
<1>1. IInv => RingInv
  BY RoomLeft DEF IInv, Ring, RingInv, BlocksConserved
<1> QED BY <1>1, AlwaysIInv, PTL

\* PoisonLast: nothing comes after the poison, and a thread that passed it left nothing behind.
THEOREM PoisonComesLast == Spec => []PoisonLast
<1>1. ASSUME IInv
      PROVE  PoisonLast
  <2>b. TypeOK /\ Ending
    BY <1>1 DEF IInv
  <2>1. ASSUME NEW q \in Queues, NEW k \in 1..(Len(queue[q]) - 1)
        PROVE  queue[q][k] # Poison
    <3>1. Len(queue[q]) \in Nat
      BY <2>b, PlaceShape
    <3>2. k \in 1..Len(queue[q]) /\ k # Len(queue[q])
      BY <3>1
    <3> QED BY <2>b, <3>2 DEF Ending
  <2>2. ASSUME NEW i \in Links \ {1}, link[i].pc = "done"
        PROVE  queue[In(i)] = <<>>
    <3>1. i - 1 \in Links /\ i - 1 < i /\ In(i) = i - 1
      BY Constants DEF Links
    <3>2. link[i].pc \in Ended
      BY <2>2 DEF Ended
    <3>3. link[i - 1].pc = "done"
      BY <2>b, <3>1, <3>2 DEF Ending
    <3> QED BY <2>b, <3>1, <3>2, <3>3 DEF Ending
  <2> QED BY <2>1, <2>2 DEF PoisonLast
<1> QED BY <1>1, AlwaysIInv, PTL

\* Delivered: the last worker reads what was kept of the input, in order, and all of it
\* before its thread ends, whatever the workers and the number and size of the blocks.
THEOREM AllDelivered == Spec => []Delivered
<1>1. ASSUME IInv
      PROVE  Delivered
  <2>b. TypeOK /\ Ending /\ Source /\ Flow(Pipe, Text, delivered, written)
    BY <1>1 DEF IInv, Flowing
  <2>c. /\ total \in Nat /\ written \in Nat /\ written <= total
        /\ delivered \in Seq(Nat)
    BY <2>b, ChainAssumption DEF TypeOK
  <2>1. /\ Rising(delivered) /\ Range(delivered) \subseteq Kept \intersect 1..written
        /\ \A p \in Pipe : Below(delivered, Text[p])
        /\ \A p \in Pipe : Range(Text[p]) \subseteq 1..written
        /\ \A x \in Kept \intersect 1..written :
             x \in Range(delivered) \/ \E p \in Pipe : x \in Range(Text[p])
    BY <2>b DEF Flow
  <2>2. \A k \in 1..Len(delivered) : delivered[k] \in Range(delivered)
    BY <2>c DEF Range
  <2>3. 1..written \subseteq 1..total
    BY <2>c
  <2>4. \A j, k \in 1..Len(delivered) : j < k => delivered[j] < delivered[k]
    BY <2>1 DEF Rising
  <2>5. ASSUME NEW k \in 1..Len(delivered), NEW x \in Kept \intersect 1..total, x < delivered[k]
        PROVE  x \in Range(delivered)
    <3>1. delivered[k] \in 1..written
      BY <2>1, <2>2
    <3>2. x \in 1..written
      BY <2>5, <2>c, <3>1
    <3>3. ASSUME NEW p \in Pipe, x \in Range(Text[p])
          PROVE  FALSE
      <4>1. delivered[k] < x
        BY <2>1, <2>2, <3>3 DEF Below
      <4> QED BY <2>5, <3>1, <3>2, <4>1
    <3> QED BY <2>1, <3>2, <3>3
  <2>6. ASSUME link[Workers].pc = "done"
        PROVE  Kept \intersect 1..total \subseteq Range(delivered)
    <3>1. /\ Workers \in Links /\ 1 \in Links /\ 1 < Workers /\ Workers \in Nat
          /\ \A i \in 2..Workers : i \in Links \ {1} /\ i - 1 \in Links /\ (i < Workers \/ i = Workers)
                                   /\ i - 1 < Workers
      BY Constants DEF Links
    <3>2. \A i \in 1..Workers : i \in Links /\ link[i].pc = "done"
      <4> TAKE i \in 1..Workers
      <4>1. i \in Links /\ (i < Workers \/ i = Workers)
        BY <3>1 DEF Links
      <4>2. link[Workers].pc \in Ended
        BY <2>6 DEF Ended
      <4> QED BY <2>6, <2>b, <3>1, <4>1, <4>2 DEF Ending
    <3>3. written = total
      <4>1. 1 \in 1..Workers
        BY <3>1
      <4>2. link[1].pc \in Ended
        BY <3>2, <4>1 DEF Ended
      <4> QED BY <2>b, <4>2 DEF Source
    <3>4. \A q \in 1..(Workers - 1) : queue[q] = <<>>
      <4> TAKE q \in 1..(Workers - 1)
      <4>1. q + 1 \in Links \ {1} /\ (q + 1) - 1 = q /\ q \in 1..Workers /\ q + 1 \in 1..Workers
        BY <3>1 DEF Links
      <4>2. link[(q + 1) - 1].pc = "done" /\ link[q + 1].pc \in Ended
        BY <3>2, <4>1 DEF Ended
      <4>3. queue[(q + 1) - 1] = <<>>
        BY <2>b, <4>1, <4>2 DEF Ending
      <4> QED BY <4>1, <4>3
    <3>5. ASSUME NEW p \in Pipe
          PROVE  FALSE
      <4>1. /\ p \in Places /\ InPipe(p)
            /\ p[2] = 0 => p[1] \in Holders
            /\ p[2] # 0 => p[2] \in 1..Len(queue[p[1]])
        BY <2>b, PlaceShape DEF Pipe
      <4>2. CASE p[2] = 0
        <5>1. p[1] \in 1..Workers /\ p[1] \in Holders
          BY <3>1, <4>1, <4>2 DEF InPipe
        <5> QED BY <3>2, <5>1 DEF Holders
      <4>3. CASE p[2] # 0
        <5>1. queue[p[1]] = <<>>
          BY <3>4, <4>1, <4>3 DEF InPipe
        <5> QED BY <4>1, <4>3, <5>1
      <4> QED BY <4>2, <4>3
    <3> QED BY <2>1, <3>3, <3>5
  <2> QED BY <2>1, <2>2, <2>3, <2>4, <2>5, <2>6 DEF Delivered
<1> QED BY <1>1, AlwaysIInv, PTL
=============================================================================
