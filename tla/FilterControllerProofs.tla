----------------------- MODULE FilterControllerProofs -----------------------
(***************************************************************************)
(* For any number of filter threads, batches and inputs: every batch is in *)
(* one place, and the output is in the order of the input.                 *)
(***************************************************************************)
EXTENDS FilterController, FiniteSetTheorems, SequenceTheorems, TLAPS

-----------------------------------------------------------------------------
(* Queues of batches                                                       *)

Items == Batches \union {None}

\* The batches in a queue; the poison None is not one.
Has(q) == Range(q) \ {None}

\* At the back of a queue.
LEMMA HasAppend ==
  ASSUME NEW q \in Seq(Items), NEW b \in Items
  PROVE  /\ Append(q, b) \in Seq(Items)
         /\ Range(Append(q, b)) = Range(q) \union {b}
         /\ Has(Append(q, b)) = Has(q) \union ({b} \ {None})
         /\ Once(q) /\ b \notin Has(q) => Once(Append(q, b))
<1> DEFINE r == Append(q, b)
<1>1. /\ r \in Seq(Items) /\ Len(r) = Len(q) + 1 /\ Len(q) \in Nat
      /\ \A k \in 1..Len(q) : r[k] = q[k]
      /\ r[Len(q) + 1] = b
      /\ DOMAIN r = 1..Len(r) /\ DOMAIN q = 1..Len(q)
  OBVIOUS
<1> HIDE DEF r
<1>2. Range(r) = Range(q) \union {b} /\ Has(r) = Has(q) \union ({b} \ {None})
  <2>1. 1..Len(r) = (1..Len(q)) \union {Len(q) + 1}
    BY <1>1
  <2>2. Range(r) = Range(q) \union {b}
    BY <1>1, <2>1 DEF Range
  <2> QED BY <2>2 DEF Has
<1>3. ASSUME Once(q), b \notin Has(q)
      PROVE  Once(r)
  <2> SUFFICES ASSUME NEW j \in 1..Len(r), NEW k \in 1..Len(r), r[j] = r[k], r[j] # None
               PROVE  j = k
    BY DEF Once
  <2>1. \A i \in 1..Len(q) : q[i] # None => q[i] \in Has(q)
    BY <1>1 DEF Has, Range
  <2>2. \A i \in 1..Len(r) : i \in 1..Len(q) \/ i = Len(q) + 1
    BY <1>1
  <2> QED BY <1>1, <1>3, <2>1, <2>2 DEF Once
<1> QED BY <1>1, <1>2, <1>3 DEF r

\* At the front of a queue.
LEMMA HasTail ==
  ASSUME NEW q \in Seq(Items), q # <<>>
  PROVE  /\ Tail(q) \in Seq(Items) /\ Head(q) \in Items
         /\ Head(q) # None => Head(q) \in Has(q)
         /\ Head(q) \in Range(q) /\ Range(Tail(q)) \subseteq Range(q)
         /\ Once(q) => Once(Tail(q)) /\ Has(Tail(q)) = Has(q) \ {Head(q)}
<1> DEFINE r == Tail(q)
<1>1. /\ r \in Seq(Items) /\ Len(r) = Len(q) - 1 /\ Len(q) \in Nat /\ Len(q) > 0
      /\ \A k \in 1..Len(r) : r[k] = q[k + 1]
      /\ Head(q) = q[1] /\ q[1] \in Items
      /\ DOMAIN r = 1..Len(r) /\ DOMAIN q = 1..Len(q)
  OBVIOUS
<1> HIDE DEF r
<1>2. Head(q) # None => Head(q) \in Has(q)
  BY <1>1 DEF Has, Range
<1>4. Head(q) \in Range(q) /\ Range(r) \subseteq Range(q)
  <2>1. \A k \in 1..Len(r) : k + 1 \in 1..Len(q)
    BY <1>1
  <2>2. \A x \in Range(r) : x \in Range(q)
    BY <1>1, <2>1 DEF Range
  <2>3. Head(q) \in Range(q)
    BY <1>1 DEF Range
  <2> QED BY <2>2, <2>3
<1>3. ASSUME Once(q)
      PROVE  Once(r) /\ Has(r) = Has(q) \ {Head(q)}
  <2>1. Once(r)
    <3> SUFFICES ASSUME NEW j \in 1..Len(r), NEW k \in 1..Len(r), r[j] = r[k], r[j] # None
                 PROVE  j = k
      BY DEF Once
    <3>1. j + 1 \in 1..Len(q) /\ k + 1 \in 1..Len(q) /\ j \in Int /\ k \in Int
      BY <1>1
    <3>2. j + 1 = k + 1
      BY <1>1, <1>3, <3>1 DEF Once
    <3> QED BY <3>1, <3>2
  <2>2. ASSUME NEW b \in Has(r) PROVE b \in Has(q) \ {Head(q)}
    <3>1. PICK k \in 1..Len(r) : b = r[k]
      BY <1>1 DEF Has, Range
    <3>2. b = q[k + 1] /\ b # None /\ k + 1 \in 1..Len(q) /\ k + 1 # 1 /\ 1 \in 1..Len(q)
      BY <1>1, <3>1 DEF Has
    <3> QED BY <1>1, <1>3, <3>2 DEF Has, Range, Once
  <2>3. ASSUME NEW b \in Has(q), b # Head(q) PROVE b \in Has(r)
    <3>1. PICK k \in 1..Len(q) : b = q[k]
      BY <1>1 DEF Has, Range
    <3>2. k - 1 \in 1..Len(r) /\ r[k - 1] = q[k]
      BY <1>1, <2>3, <3>1
    <3> QED BY <1>1, <3>1, <3>2 DEF Has, Range
  <2> QED BY <2>1, <2>2, <2>3
<1> QED BY <1>1, <1>2, <1>3, <1>4 DEF r

\* On top of the reader's stack.
LEMMA HasPush ==
  ASSUME NEW q \in Seq(Items), NEW b \in Items
  PROVE  /\ <<b>> \o q \in Seq(Items) /\ <<b>> \o q # <<>> /\ Head(<<b>> \o q) = b
         /\ Has(<<b>> \o q) = Has(q) \union ({b} \ {None})
         /\ Once(q) /\ b \notin Has(q) => Once(<<b>> \o q)
<1> DEFINE r == <<b>> \o q
<1>1. /\ r \in Seq(Items) /\ Len(r) = Len(q) + 1 /\ Len(q) \in Nat
      /\ \A k \in 1..Len(q) : r[k + 1] = q[k]
      /\ r[1] = b
      /\ DOMAIN r = 1..Len(r) /\ DOMAIN q = 1..Len(q)
  OBVIOUS
<1> HIDE DEF r
<1>2. \A i \in 1..Len(r) : i = 1 \/ (i - 1 \in 1..Len(q) /\ r[i] = q[i - 1])
  <2> TAKE i \in 1..Len(r)
  <2>1. i # 1 => i - 1 \in 1..Len(q) /\ (i - 1) + 1 = i
    BY <1>1
  <2> QED BY <1>1, <2>1
<1>3. \A k \in 1..Len(q) : k + 1 \in 1..Len(r)
  BY <1>1
<1>4. Has(r) = Has(q) \union ({b} \ {None})
  <2>1. Range(r) = Range(q) \union {b}
    <3>1. \A x \in Range(r) : x \in Range(q) \union {b}
      BY <1>1, <1>2 DEF Range
    <3>2. \A x \in Range(q) : x \in Range(r)
      BY <1>1, <1>3 DEF Range
    <3>3. b \in Range(r)
      BY <1>1 DEF Range
    <3> QED BY <3>1, <3>2, <3>3
  <2> QED BY <2>1 DEF Has
<1>5. ASSUME Once(q), b \notin Has(q)
      PROVE  Once(r)
  <2> SUFFICES ASSUME NEW j \in 1..Len(r), NEW k \in 1..Len(r), r[j] = r[k], r[j] # None
               PROVE  j = k
    BY DEF Once
  <2>1. \A i \in 1..Len(q) : q[i] # None => q[i] \in Has(q)
    BY <1>1 DEF Has, Range
  <2>2. CASE j = 1
    BY <1>1, <1>2, <1>5, <2>1, <2>2
  <2>3. CASE k = 1
    BY <1>1, <1>2, <1>5, <2>1, <2>3
  <2>4. CASE j # 1 /\ k # 1
    <3>1. j - 1 \in 1..Len(q) /\ k - 1 \in 1..Len(q) /\ q[j - 1] = q[k - 1] /\ q[j - 1] # None
      BY <1>2, <2>4
    <3>2. j - 1 = k - 1
      BY <1>5, <3>1 DEF Once
    <3> QED BY <3>1, <3>2
  <2> QED BY <2>2, <2>3, <2>4
<1>6. r # <<>> /\ Head(r) = b
  BY <1>1
<1> QED BY <1>1, <1>4, <1>5, <1>6 DEF r
-----------------------------------------------------------------------------
(* Texts in the order of the input.                                        *)

Line == Nat \X Nat

Sorted(s) == \A j, k \in 1..Len(s) : j < k => Precedes(s[j], s[k])
AllBefore(s, t) == \A x \in Range(s), y \in Range(t) : Precedes(x, y)

LEMMA PrecedesAsymmetric ==
  ASSUME NEW x \in Line, NEW y \in Line, Precedes(x, y)
  PROVE  ~Precedes(y, x)
BY DEF Precedes, Line

LEMMA SortedConcat ==
  ASSUME NEW s \in Seq(Line), NEW t \in Seq(Line)
  PROVE  /\ s \o t \in Seq(Line)
         /\ Range(s \o t) = Range(s) \union Range(t)
         /\ Sorted(s) /\ Sorted(t) /\ AllBefore(s, t) => Sorted(s \o t)
<1> DEFINE r == s \o t
<1>1. /\ r \in Seq(Line) /\ Len(r) = Len(s) + Len(t) /\ Len(s) \in Nat /\ Len(t) \in Nat
      /\ \A k \in 1..Len(s) : r[k] = s[k]
      /\ \A k \in 1..Len(t) : r[Len(s) + k] = t[k]
      /\ DOMAIN r = 1..Len(r) /\ DOMAIN s = 1..Len(s) /\ DOMAIN t = 1..Len(t)
  OBVIOUS
<1> HIDE DEF r
<1>2. \A i \in 1..Len(r) :
        \/ i \in 1..Len(s) /\ r[i] = s[i]
        \/ i > Len(s) /\ i - Len(s) \in 1..Len(t) /\ r[i] = t[i - Len(s)]
  <2> TAKE i \in 1..Len(r)
  <2>1. CASE i <= Len(s)
    BY <1>1, <2>1
  <2>2. CASE i > Len(s)
    <3>1. i - Len(s) \in 1..Len(t) /\ Len(s) + (i - Len(s)) = i
      BY <1>1, <2>2
    <3>2. r[Len(s) + (i - Len(s))] = t[i - Len(s)]
      BY <1>1, <3>1
    <3> QED BY <2>2, <3>1, <3>2
  <2> QED BY <1>1, <2>1, <2>2
<1>3. /\ \A k \in 1..Len(s) : k \in 1..Len(r)
      /\ \A k \in 1..Len(t) : Len(s) + k \in 1..Len(r)
  BY <1>1
<1>4. Range(r) = Range(s) \union Range(t)
  <2>1. \A x \in Range(r) : x \in Range(s) \union Range(t)
    BY <1>1, <1>2 DEF Range
  <2>2. \A x \in Range(s) : x \in Range(r)
    BY <1>1, <1>3 DEF Range
  <2>3. \A x \in Range(t) : x \in Range(r)
    BY <1>1, <1>3 DEF Range
  <2> QED BY <2>1, <2>2, <2>3
<1>5. ASSUME Sorted(s), Sorted(t), AllBefore(s, t)
      PROVE  Sorted(r)
  <2> SUFFICES ASSUME NEW j \in 1..Len(r), NEW k \in 1..Len(r), j < k
               PROVE  Precedes(r[j], r[k])
    BY DEF Sorted
  <2>1. \A i \in 1..Len(s) : s[i] \in Range(s)
    BY <1>1 DEF Range
  <2>2. \A i \in 1..Len(t) : t[i] \in Range(t)
    BY <1>1 DEF Range
  <2>3. CASE j \in 1..Len(s) /\ k \in 1..Len(s)
    BY <1>1, <1>5, <2>3 DEF Sorted
  <2>4. CASE j \in 1..Len(s) /\ k > Len(s)
    BY <1>1, <1>2, <1>5, <2>1, <2>2, <2>4 DEF AllBefore
  <2>5. CASE j > Len(s) /\ k > Len(s)
    <3>1. j - Len(s) \in 1..Len(t) /\ k - Len(s) \in 1..Len(t) /\ j - Len(s) < k - Len(s)
      BY <1>1, <1>2, <2>5
    <3>2. Precedes(t[j - Len(s)], t[k - Len(s)])
      BY <1>5, <3>1 DEF Sorted
    <3>3. r[j] = t[j - Len(s)] /\ r[k] = t[k - Len(s)]
      <4>1. j \notin 1..Len(s) /\ k \notin 1..Len(s)
        BY <1>1, <2>5
      <4> QED BY <1>2, <4>1
    <3> QED BY <3>2, <3>3
  <2> QED BY <1>1, <2>3, <2>4, <2>5
<1> QED BY <1>1, <1>4, <1>5 DEF r

LEMMA SortedAppend ==
  ASSUME NEW s \in Seq(Line), NEW x \in Line
  PROVE  /\ Append(s, x) \in Seq(Line)
         /\ Range(Append(s, x)) = Range(s) \union {x}
         /\ Sorted(s) /\ (\A y \in Range(s) : Precedes(y, x)) => Sorted(Append(s, x))
<1>1. /\ <<x>> \in Seq(Line) /\ Append(s, x) = s \o <<x>>
      /\ Len(<<x>>) = 1 /\ DOMAIN <<x>> = {1} /\ <<x>>[1] = x
  OBVIOUS
<1>2. Range(<<x>>) = {x} /\ Sorted(<<x>>)
  BY <1>1 DEF Range, Sorted
<1>3. (\A y \in Range(s) : Precedes(y, x)) => AllBefore(s, <<x>>)
  BY <1>2 DEF AllBefore
<1> QED BY <1>1, <1>2, <1>3, SortedConcat

LEMMA EmptyText ==
  /\ <<>> \in Seq(Line) /\ Range(<<>>) = {} /\ Sorted(<<>>)
BY DEF Range, Sorted

-----------------------------------------------------------------------------
(* What the reordering keeps.  U are the batches under way, txt the lines  *)
(* they hold, num their numbers, which lie between lo and hi, f the file   *)
(* and taken the lines of the input that have been read.                   *)

Orderly(U, txt, num, f, taken, lo, hi) ==
  /\ lo <= hi
  /\ \A b \in U : lo <= num[b] /\ num[b] < hi
  /\ \A a, b \in U : num[a] = num[b] => a = b
  /\ \A b \in U : Sorted(txt[b]) /\ Range(txt[b]) \subseteq taken /\ AllBefore(f, txt[b])
  /\ \A a, b \in U : num[a] < num[b] => AllBefore(txt[a], txt[b])
  /\ Sorted(f) /\ Range(f) \subseteq taken
  /\ \A x \in taken : x \in Range(f) \/ \E b \in U : x \in Range(txt[b])

\* It speaks of the batches under way only.
LEMMA OrderlySame ==
  ASSUME NEW U, NEW txt, NEW num, NEW txt1, NEW num1, NEW f, NEW taken, NEW lo, NEW hi,
         \A b \in U : txt1[b] = txt[b] /\ num1[b] = num[b],
         Orderly(U, txt, num, f, taken, lo, hi)
  PROVE  Orderly(U, txt1, num1, f, taken, lo, hi)
BY Zenon DEF Orderly

\* A new batch with the next number.
LEMMA OrderlyNew ==
  ASSUME NEW U, NEW txt, NEW num, NEW f, NEW taken, NEW lo \in Nat, NEW hi \in Nat,
         NEW b, b \notin U, NEW txt1, NEW num1,
         \A a \in U : num[a] \in Nat,
         \A a \in U : txt1[a] = txt[a] /\ num1[a] = num[a],
         txt1[b] = <<>>, num1[b] = hi,
         Orderly(U, txt, num, f, taken, lo, hi)
  PROVE  Orderly(U \union {b}, txt1, num1, f, taken, lo, hi + 1)
<1> DEFINE V == U \union {b}
<1>1. Range(txt1[b]) = {} /\ Sorted(txt1[b])
  BY EmptyText
<1>2. lo <= hi + 1 /\ lo <= hi /\ hi < hi + 1 /\ \A n \in Nat : n < hi => n < hi + 1 /\ n # hi /\ ~(hi < n)
  BY DEF Orderly
<1>3. \A a \in V : lo <= num1[a] /\ num1[a] < hi + 1
  BY <1>2 DEF Orderly
<1>4. \A a, c \in V : num1[a] = num1[c] => a = c
  BY <1>2 DEF Orderly
<1>5. \A a \in V : Sorted(txt1[a]) /\ Range(txt1[a]) \subseteq taken /\ AllBefore(f, txt1[a])
  BY <1>1, Zenon DEF Orderly, AllBefore
<1>6. \A a, c \in V : num1[a] < num1[c] => AllBefore(txt1[a], txt1[c])
  <2> SUFFICES ASSUME NEW a \in V, NEW c \in V, num1[a] < num1[c]
               PROVE  AllBefore(txt1[a], txt1[c])
    OBVIOUS
  <2>1. CASE a \in U /\ c \in U
    BY <2>1, Zenon DEF Orderly
  <2>2. CASE c = b \/ a = b
    BY <1>1, <2>2 DEF AllBefore
  <2> QED BY <2>1, <2>2
<1>7. \A x \in taken : x \in Range(f) \/ \E a \in V : x \in Range(txt1[a])
  BY Zenon DEF Orderly
<1> QED BY <1>2, <1>3, <1>4, <1>5, <1>6, <1>7, Zenon DEF Orderly

\* A batch that holds nothing is taken away.
LEMMA OrderlyDrop ==
  ASSUME NEW U, NEW txt, NEW num, NEW f, NEW taken, NEW lo, NEW hi, NEW b, txt[b] = <<>>,
         Orderly(U, txt, num, f, taken, lo, hi)
  PROVE  Orderly(U \ {b}, txt, num, f, taken, lo, hi)
<1>1. Range(txt[b]) = {}
  BY EmptyText
<1>2. \A x \in taken : x \in Range(f) \/ \E a \in U \ {b} : x \in Range(txt[a])
  BY <1>1 DEF Orderly
<1> QED BY <1>2, Zenon DEF Orderly

\* One more line x is read into the batch b with the last number.
LEMMA OrderlyAppend ==
  ASSUME NEW U, NEW txt, NEW num, NEW f, NEW taken, NEW lo \in Nat, NEW hi \in Nat,
         NEW b \in U, num[b] = hi - 1, NEW x \in Line, NEW txt1,
         \A a \in U : num[a] \in Nat,
         \A a \in U : a # b => txt1[a] = txt[a],
         txt[b] \in Seq(Line), txt1[b] = Append(txt[b], x),
         \A y \in taken : Precedes(y, x),
         Orderly(U, txt, num, f, taken, lo, hi)
  PROVE  Orderly(U, txt1, num, f, taken \union {x}, lo, hi)
<1>1. /\ Range(txt1[b]) = Range(txt[b]) \union {x}
      /\ Sorted(txt1[b])
  <2>1. Sorted(txt[b]) /\ \A y \in Range(txt[b]) : Precedes(y, x)
    BY Zenon DEF Orderly
  <2> QED BY <2>1, SortedAppend
<1>2. \A a \in U : num[a] < num[b] \/ a = b
  <2> TAKE a \in U
  <2>1. num[a] < hi /\ num[b] < hi /\ (num[a] = num[b] => a = b)
    BY DEF Orderly
  <2> QED BY <2>1
<1>3. \A a \in U : Sorted(txt1[a]) /\ Range(txt1[a]) \subseteq taken \union {x} /\ AllBefore(f, txt1[a])
  <2> TAKE a \in U
  <2>1. CASE a # b
    BY <2>1 DEF Orderly
  <2>2. CASE a = b
    <3>1. \A y \in Range(f) : Precedes(y, x)
      BY DEF Orderly
    <3>2. AllBefore(f, txt[b]) /\ Range(txt[b]) \subseteq taken
      BY DEF Orderly
    <3> QED BY <1>1, <2>2, <3>1, <3>2 DEF AllBefore
  <2> QED BY <2>1, <2>2
<1>4. \A a, c \in U : num[a] < num[c] => AllBefore(txt1[a], txt1[c])
  <2> SUFFICES ASSUME NEW a \in U, NEW c \in U, num[a] < num[c]
               PROVE  AllBefore(txt1[a], txt1[c])
    OBVIOUS
  <2>1. a # b
    BY <1>2
  <2>2. AllBefore(txt[a], txt[c]) /\ Range(txt[a]) \subseteq taken
    BY DEF Orderly
  <2>3. CASE c # b
    BY <2>1, <2>2, <2>3
  <2>4. CASE c = b
    BY <1>1, <2>1, <2>2, <2>4 DEF AllBefore
  <2> QED BY <2>3, <2>4
<1>5. \A y \in taken \union {x} : y \in Range(f) \/ \E a \in U : y \in Range(txt1[a])
  <2> TAKE y \in taken \union {x}
  <2>1. CASE y = x
    BY <1>1, <2>1
  <2>2. CASE y \in taken
    <3>1. y \in Range(f) \/ \E a \in U : y \in Range(txt[a])
      BY <2>2 DEF Orderly
    <3> QED BY <1>1, <3>1
  <2> QED BY <2>1, <2>2
<1> QED BY <1>3, <1>4, <1>5, Zenon DEF Orderly

\* The batch with the first number is written to the file.
LEMMA OrderlyEmit ==
  ASSUME NEW U, NEW txt, NEW num, NEW f \in Seq(Line), NEW taken, NEW lo \in Nat, NEW hi \in Nat,
         NEW b \in U, num[b] = lo, txt[b] \in Seq(Line),
         \A a \in U : num[a] \in Nat,
         Orderly(U, txt, num, f, taken, lo, hi)
  PROVE  Orderly(U \ {b}, txt, num, f \o txt[b], taken, lo + 1, hi)
<1> DEFINE g == f \o txt[b]
           V == U \ {b}
<1>1. AllBefore(f, txt[b]) /\ Sorted(txt[b]) /\ Range(txt[b]) \subseteq taken
      /\ Sorted(f) /\ Range(f) \subseteq taken
  BY DEF Orderly
<1>2. Range(g) = Range(f) \union Range(txt[b]) /\ Sorted(g)
  BY <1>1, SortedConcat
<1> HIDE DEF g
<1>3. lo + 1 <= hi
  BY DEF Orderly
<1>4. \A a \in V : lo + 1 <= num[a] /\ num[a] < hi /\ num[b] < num[a]
  <2> TAKE a \in V
  <2>1. lo <= num[a] /\ num[a] < hi /\ num[a] # num[b]
    BY DEF Orderly
  <2> QED BY <2>1
<1>5. \A a \in V : AllBefore(txt[b], txt[a]) /\ AllBefore(f, txt[a])
  BY <1>4 DEF Orderly
<1>6. \A a \in V : AllBefore(g, txt[a])
  BY <1>2, <1>5 DEF AllBefore
<1>7. \A x \in taken : x \in Range(g) \/ \E a \in V : x \in Range(txt[a])
  BY <1>2 DEF Orderly
<1>8. /\ \A a, c \in V : num[a] = num[c] => a = c
      /\ \A a \in V : Sorted(txt[a]) /\ Range(txt[a]) \subseteq taken
      /\ \A a, c \in V : num[a] < num[c] => AllBefore(txt[a], txt[c])
  BY DEF Orderly
<1>9. Orderly(V, txt, num, g, taken, lo + 1, hi)
  BY <1>1, <1>2, <1>3, <1>4, <1>6, <1>7, <1>8 DEF Orderly
<1> QED BY <1>9 DEF g

\* When no batch is under way the line x is written at the end of the file.
LEMMA OrderlyEnd ==
  ASSUME NEW txt, NEW num, NEW f \in Seq(Line), NEW taken, NEW lo, NEW hi, NEW x \in Line,
         \A y \in taken : Precedes(y, x),
         Orderly({}, txt, num, f, taken, lo, hi)
  PROVE  Orderly({}, txt, num, Append(f, x), taken \union {x}, lo, hi)
<1>1. Sorted(f) /\ Range(f) \subseteq taken
  BY DEF Orderly
<1>2. Range(Append(f, x)) = Range(f) \union {x} /\ Sorted(Append(f, x))
  BY <1>1, SortedAppend
<1> QED BY <1>1, <1>2 DEF Orderly
-----------------------------------------------------------------------------
(* The inductive invariant                                                 *)

\* The batches that filter workers have in hand, and the one that is being filled.
Busy == {wbatch[w] : w \in {v \in Workers : wpc[v] = "busy"}}
Filling == IF mpc \in {"refill", "collect"} THEN {} ELSE {Top}
Underway == Has(fq) \union Has(oq) \union Has(ordering_) \union Busy \union Filling

\* The lines a batch holds: unfiltered, or what the filter passed.
Text == [b \in Batches |-> IF b \in Has(oq) \union Has(ordering_) THEN output[b] ELSE input[b]]

\* The lines that have been read, or, for the end of a section, written.
Taken == {x \in Lines : x[1] < section \/ (x[1] = section /\ x[2] <= pos)}

Typing ==
  /\ TypeOK
  /\ input \in [Batches -> Seq(Line)] /\ output \in [Batches -> Seq(Line)]
  /\ file \in Seq(Line)

\* What goes with each place of the reading thread.
Phases ==
  /\ mpc \notin {"refill", "collect"} => local_read_ # <<>> /\ seq[Top] = sequence_ - 1
  /\ mpc = "refill" => local_read_ = <<>> /\ section <= Len(Sections)
  /\ mpc = "collect" => Arpa /\ section <= Len(Sections) /\ pos = Sections[section]
  /\ section <= Len(Sections) => pos <= Sections[section]
  /\ section = Len(Sections) + 1 => pos = 0
  /\ mpc \in {"read", "refill", "collect"} =>
       /\ None \notin Range(fq) /\ None \notin Range(oq)
       /\ \A w \in Workers : wpc[w] # "exited"
  /\ \A w \in Workers : wpc[w] = "busy" <=> wbatch[w] \in Batches

\* Each batch is in one of six places.
Separate(L, T, F, O, D, W) ==
  /\ Batches \subseteq L \union T \union F \union O \union D \union W
  /\ L \intersect (T \union F \union O \union D \union W) = {}
  /\ T \intersect (F \union O \union D \union W) = {}
  /\ F \intersect (O \union D \union W) = {}
  /\ O \intersect (D \union W) = {}
  /\ D \intersect W = {}
Apart ==
  /\ Once(local_read_) /\ Once(to_read_) /\ Once(fq) /\ Once(oq) /\ Once(ordering_)
  /\ \A v, w \in Workers : wbatch[v] = wbatch[w] /\ wbatch[v] \in Batches => v = w
  /\ Separate(Has(local_read_), Has(to_read_), Has(fq), Has(oq), Has(ordering_), Busy)

\* The deque of the output worker is indexed by the numbers of the batches.
Indexed ==
  \A k \in 1..Len(ordering_) : ordering_[k] # None => seq[ordering_[k]] = base_sequence_ + k - 1

\* A batch comes to the filter with an empty output.
Blank ==
  \A b \in Has(local_read_) \union Has(to_read_) \union Has(fq) \union Busy : output[b] = <<>>

InOrder == Orderly(Underway, Text, seq, file, Taken, base_sequence_, sequence_)

IInv == Typing /\ Phases /\ Apart /\ Indexed /\ Blank /\ InOrder

-----------------------------------------------------------------------------
(* Lines that are read                                                     *)

ReadTo(s, p) == {x \in Lines : x[1] < s \/ (x[1] = s /\ x[2] <= p)}
Size(s) == Sections[s] + (IF Arpa THEN 1 ELSE 0)

LEMMA InputShape ==
  ASSUME Typing
  PROVE  Sections \in Seq(Nat) /\ Arpa \in BOOLEAN /\ Len(Sections) \in Nat
BY ControllerAssumption DEF Typing, TypeOK, Sections, Arpa

LEMMA LineShape ==
  ASSUME Typing, NEW x
  PROVE  /\ x \in Lines => x \in Line
         /\ x \in Lines <=> \E s \in 1..Len(Sections) : \E i \in 1..Size(s) : x = <<s, i>>
<1>1. \A s \in 1..Len(Sections) : Sections[s] \in Nat /\ Size(s) \in Nat /\ s \in Nat
  BY InputShape DEF Size
<1>2. x \in Lines <=> \E s \in 1..Len(Sections) : \E i \in 1..Size(s) : x = <<s, i>>
  BY DEF Lines, Size
<1>3. \A s \in 1..Len(Sections) : \A i \in 1..Size(s) : <<s, i>> \in Line
  BY <1>1 DEF Line
<1> QED BY <1>2, <1>3

\* The next line of a section follows all that were read before it.
LEMMA ReadNext ==
  ASSUME Typing, NEW s \in 1..Len(Sections), NEW p \in Nat, p < Size(s)
  PROVE  /\ <<s, p + 1>> \in Line
         /\ ReadTo(s, p + 1) = ReadTo(s, p) \union {<<s, p + 1>>}
         /\ \A y \in ReadTo(s, p) : Precedes(y, <<s, p + 1>>)
<1> DEFINE n == <<s, p + 1>>
<1>1. Size(s) \in Nat /\ p + 1 \in 1..Size(s) /\ n \in Lines /\ n \in Line /\ n[1] = s /\ n[2] = p + 1
      /\ s \in Nat
  <2>1. Size(s) \in Nat /\ s \in Nat
    BY InputShape DEF Size
  <2>2. p + 1 \in 1..Size(s)
    BY <2>1
  <2> QED BY <2>1, <2>2, LineShape
<1>2. \A y \in Lines : y \in Line /\ y[1] \in Nat /\ y[2] \in Nat /\ y = <<y[1], y[2]>>
  BY LineShape DEF Line
<1> HIDE DEF n
<1>3. \A y \in ReadTo(s, p) : Precedes(y, n)
  BY <1>1, <1>2 DEF ReadTo, Precedes
<1>4. ASSUME NEW y \in ReadTo(s, p + 1), y \notin ReadTo(s, p)
      PROVE  y = n
  <2>1. y \in Lines /\ y[1] = s /\ y[2] = p + 1
    BY <1>2, <1>4 DEF ReadTo
  <2> QED BY <1>2, <2>1 DEF n
<1>5. n \in ReadTo(s, p + 1)
  BY <1>1 DEF ReadTo
<1>6. ReadTo(s, p) \subseteq ReadTo(s, p + 1)
  BY <1>2 DEF ReadTo
<1> QED BY <1>1, <1>3, <1>4, <1>5, <1>6 DEF n

\* At the end of a section nothing is left of it.
LEMMA ReadAll ==
  ASSUME Typing, NEW s \in 1..Len(Sections), NEW p \in Nat, p = Size(s)
  PROVE  ReadTo(s + 1, 0) = ReadTo(s, p)
<1>1. \A y \in Lines : /\ y[1] \in Nat /\ y[2] \in Nat /\ y[2] > 0
                       /\ y[1] = s => y[2] <= p
  <2> TAKE y \in Lines
  <2>1. PICK t \in 1..Len(Sections) : \E i \in 1..Size(t) : y = <<t, i>>
    BY LineShape
  <2>2. Size(t) \in Nat /\ Len(Sections) \in Nat
    BY InputShape DEF Size
  <2> QED BY <2>1, <2>2
<1> QED BY <1>1 DEF ReadTo
-----------------------------------------------------------------------------
(* Facts about a state                                                     *)

LEMMA Shape ==
  ASSUME IInv
  PROVE  /\ local_read_ \in Seq(Items) /\ to_read_ \in Seq(Items) /\ fq \in Seq(Items)
         /\ oq \in Seq(Items) /\ ordering_ \in Seq(Items)
         /\ Has(local_read_) \subseteq Batches /\ Has(to_read_) \subseteq Batches
         /\ Has(fq) \subseteq Batches /\ Has(oq) \subseteq Batches
         /\ Has(ordering_) \subseteq Batches /\ Busy \subseteq Batches
         /\ None \notin Batches
         /\ \A w \in Workers : wbatch[w] \in Batches <=> wbatch[w] # None
<1>1. None \notin Batches
  BY ControllerAssumption DEF Batches
<1>2. \A q \in Seq(Items) : Has(q) \subseteq Batches
  BY DEF Has, Range, Items
<1>3. \A q \in Seq(Batches) : q \in Seq(Items)
  BY DEF Items
<1>4. Busy \subseteq Batches
  BY DEF IInv, Phases, Busy
<1>5. \A w \in Workers : wbatch[w] \in Batches <=> wbatch[w] # None
  BY <1>1 DEF IInv, Typing, TypeOK
<1> QED BY <1>1, <1>2, <1>3, <1>4, <1>5 DEF IInv, Typing, TypeOK, Items

\* The batch that is being filled.
LEMMA TopShape ==
  ASSUME IInv, mpc \notin {"refill", "collect"}
  PROVE  /\ local_read_ # <<>> /\ Top \in Batches /\ Top \in Has(local_read_)
         /\ Top \notin Has(to_read_) /\ Top \notin Has(fq) /\ Top \notin Has(oq)
         /\ Top \notin Has(ordering_) /\ Top \notin Busy
         /\ Filling = {Top} /\ Top \in Underway
         /\ Text[Top] = input[Top] /\ output[Top] = <<>> /\ seq[Top] = sequence_ - 1
<1>1. local_read_ # <<>> /\ seq[Top] = sequence_ - 1
  BY DEF IInv, Phases
<1>2. Top \in Items /\ Top \in Batches
  BY <1>1 DEF IInv, Typing, TypeOK, Items, Top
<1>3. Top # None
  BY <1>2, Shape
<1>4. Top \in Has(local_read_)
  BY <1>1, <1>3, Shape, HasTail DEF Top
<1>5. /\ Top \notin Has(to_read_) /\ Top \notin Has(fq) /\ Top \notin Has(oq)
      /\ Top \notin Has(ordering_) /\ Top \notin Busy
  BY <1>4 DEF IInv, Apart, Separate
<1> QED BY <1>1, <1>2, <1>4, <1>5 DEF Filling, Underway, Text, IInv, Blank

\* What InOrder says of the types of its parts.
LEMMA OrderShape ==
  ASSUME IInv
  PROVE  /\ Underway \subseteq Batches \/ mpc \notin {"refill", "collect"}
         /\ Underway \subseteq Batches
         /\ \A b \in Underway : seq[b] \in Nat /\ Text[b] \in Seq(Line)
         /\ base_sequence_ \in Nat /\ sequence_ \in Nat /\ file \in Seq(Line)
         /\ Taken \subseteq Line
<1>1. Filling \subseteq Batches
  BY TopShape DEF Filling
<1>2. Underway \subseteq Batches
  BY <1>1, Shape DEF Underway
<1>3. Taken \subseteq Line
  BY LineShape DEF Taken, IInv
<1>4. \A b \in Batches : seq[b] \in Nat /\ Text[b] \in Seq(Line)
  BY DEF IInv, Typing, TypeOK, Text
<1> QED BY <1>2, <1>3, <1>4 DEF IInv, Typing, TypeOK

\* A new number for a batch that is not in the deque.
LEMMA NewNumberIndexed ==
  ASSUME IInv, NEW n \in Batches, n \notin Has(ordering_), seq' = [seq EXCEPT ![n] = sequence_],
         UNCHANGED <<ordering_, base_sequence_>>
  PROVE  Indexed'
<1>1. \A k \in 1..Len(ordering_) : ordering_[k] # None => ordering_[k] \in Has(ordering_)
  BY Shape DEF Has, Range
<1>2. \A a \in Batches : a # n => seq'[a] = seq[a]
  BY DEF IInv, Typing, TypeOK
<1> QED BY <1>1, <1>2, Shape DEF IInv, Indexed

-----------------------------------------------------------------------------
(* The reading thread                                                      *)

LEMMA AddNGramKeeps ==
  ASSUME IInv, AddNGram
  PROVE  IInv'
<1> USE DEF AddNGram, Reading
<1>1. mpc = "read" /\ section \in 1..Len(Sections) /\ section \in Nat /\ pos \in Nat
      /\ pos < Sections[section] /\ Sections[section] \in Nat
  <2>1. Typing /\ section \in 1..(Len(Sections) + 1) /\ pos \in Nat
    BY DEF IInv, Typing, TypeOK
  <2>2. mpc = "read" /\ section <= Len(Sections) /\ pos < Sections[section]
    OBVIOUS
  <2> QED BY <2>1, <2>2, InputShape
<1>2. pos < Size(section) /\ NextNGram = <<section, pos + 1>>
  BY <1>1 DEF Size, NextNGram
<1>3. UNCHANGED <<Sections, Arpa, Lines>>
  BY DEF Sections, Arpa, Lines
<1>4. NextNGram \in Line /\ Taken' = Taken \union {NextNGram} /\ \A y \in Taken : Precedes(y, NextNGram)
  BY <1>1, <1>2, <1>3, ReadNext DEF IInv, Taken, ReadTo
<1>5. /\ input' = [input EXCEPT ![Top] = Append(input[Top], NextNGram)]
      /\ Top \in Batches /\ input[Top] \in Seq(Line)
      /\ Len(input[Top]) \in Nat
  BY <1>1, TopShape DEF IInv, Typing
<1>6. Append(input[Top], NextNGram) \in Seq(Line) /\ Len(Append(input[Top], NextNGram)) = Len(input[Top]) + 1
  BY <1>4, <1>5
<1>7. Typing'
  <2>1. input' \in [Batches -> Seq(Line)]
    BY <1>5, <1>6 DEF IInv, Typing
  <2>2. \A b \in Batches : Len(input'[b]) <= BatchSize
    BY <1>5, <1>6, ControllerAssumption DEF IInv, Typing, TypeOK
  <2>3. section' \in 1..(Len(Sections') + 1) /\ pos' \in Nat
    BY <1>1, <1>3 DEF IInv, Typing, TypeOK
  <2>4. UNCHANGED <<given, mpc, local_read_, to_read_, fq, oq, wpc, wbatch, opc, ordering_,
                    sequence_, base_sequence_, seq, output, file>>
    BY DEF outVars, workVars
  <2> QED BY <2>1, <2>2, <2>3, <2>4 DEF IInv, Typing, TypeOK
<1>8. Phases'
  BY <1>1, <1>3 DEF IInv, Phases, Top, outVars, workVars
<1>9. Apart' /\ Indexed' /\ Blank' /\ Underway' = Underway
  BY DEF IInv, Apart, Indexed, Blank, Busy, Underway, Filling, Top, outVars, workVars
<1>10. InOrder'
  <2>1. \A a \in Underway : a # Top => Text'[a] = Text[a]
    BY <1>5, OrderShape DEF Text, outVars, workVars, IInv, Typing
  <2>2. Text'[Top] = Append(Text[Top], NextNGram)
    BY <1>1, <1>5, TopShape DEF Text, outVars, workVars, IInv, Typing
  <2>3. Orderly(Underway, Text', seq, file, Taken \union {NextNGram}, base_sequence_, sequence_)
    BY <1>1, <1>4, <2>1, <2>2, OrderlyAppend, TopShape, OrderShape DEF IInv, InOrder
  <2> QED BY <1>4, <1>9, <2>3 DEF InOrder, outVars
<1> QED BY <1>7, <1>8, <1>9, <1>10 DEF IInv

LEMMA NextSectionKeeps ==
  ASSUME IInv, NextSection
  PROVE  IInv'
<1> USE DEF NextSection, Reading
<1>1. mpc = "read" /\ section \in 1..Len(Sections) /\ section \in Nat /\ pos \in Nat
      /\ pos = Sections[section] /\ Len(Sections) \in Nat /\ Sections \in Seq(Nat) /\ ~Arpa
  <2>1. Typing
    BY DEF IInv
  <2> QED BY <2>1, InputShape DEF Typing, TypeOK
<1>2. UNCHANGED <<Sections, Arpa, Lines>>
  BY DEF Sections, Arpa, Lines
<1>3. Taken' = Taken
  <2>1. pos = Size(section) /\ Typing
    BY <1>1 DEF Size, IInv
  <2>2. ReadTo(section + 1, 0) = ReadTo(section, pos)
    BY <1>1, <2>1, ReadAll
  <2> QED BY <1>2, <2>2 DEF Taken, ReadTo
<1>4. Typing'
  BY <1>1, <1>2 DEF IInv, Typing, TypeOK, outVars, workVars
<1>5. Phases'
  <2>1. section' <= Len(Sections)' => Sections'[section'] \in Nat
    BY <1>1, <1>2
  <2> QED BY <1>1, <1>2, <2>1 DEF IInv, Phases, Top, outVars, workVars
<1>6. Apart' /\ Indexed' /\ Blank' /\ Underway' = Underway /\ Text' = Text
  BY DEF IInv, Apart, Indexed, Blank, Busy, Underway, Text, Filling, Top, outVars, workVars
<1>7. InOrder'
  BY <1>3, <1>6 DEF IInv, InOrder, outVars
<1> QED BY <1>4, <1>5, <1>6, <1>7 DEF IInv

LEMMA FillBatchKeeps ==
  ASSUME IInv, FillBatch
  PROVE  IInv'
<1> DEFINE b == Top
           filled == [input EXCEPT ![Top] = Append(@, NextNGram)]
           n == Head(local_read_')
           text1 == [Text EXCEPT ![b] = Append(@, NextNGram)]
<1>a. /\ mpc = "read" /\ section <= Len(Sections) /\ pos < Sections[section]
      /\ Len(input[b]) + 1 = BatchSize
      /\ fq' = Append(fq, b) /\ pos' = pos + 1 /\ local_read_' = Tail(local_read_)
      /\ UNCHANGED <<given, section, to_read_, oq, workVars, outVars>>
  BY DEF FillBatch, Reading
<1>b. IF local_read_' = <<>>
      THEN mpc' = "refill" /\ input' = filled /\ UNCHANGED <<sequence_, seq>>
      ELSE NewInput(local_read_', filled) /\ UNCHANGED mpc
  BY DEF FillBatch
<1>1. mpc = "read" /\ section \in 1..Len(Sections) /\ section \in Nat /\ pos \in Nat
      /\ pos < Sections[section] /\ Sections[section] \in Nat
  <2>1. Typing
    BY DEF IInv
  <2>2. section \in 1..(Len(Sections) + 1) /\ pos \in Nat
    BY DEF IInv, Typing, TypeOK
  <2> QED BY <1>a, <2>1, <2>2, InputShape
<1>2. pos < Size(section) /\ NextNGram = <<section, pos + 1>>
  BY <1>1 DEF Size, NextNGram
<1>3. UNCHANGED <<Sections, Arpa, Lines>>
  BY <1>a DEF Sections, Arpa, Lines
<1>4. NextNGram \in Line /\ Taken' = Taken \union {NextNGram} /\ \A y \in Taken : Precedes(y, NextNGram)
  <2>1. Typing
    BY DEF IInv
  <2> QED BY <1>1, <1>2, <1>3, <1>a, <2>1, ReadNext DEF Taken, ReadTo
<1>5. /\ b \in Batches /\ input[b] \in Seq(Line) /\ b # None /\ b \in Items
      /\ b \in Has(local_read_) /\ b \notin Has(fq) /\ local_read_ # <<>> /\ b = Head(local_read_)
  BY <1>1, TopShape, Shape DEF IInv, Typing, Items, Top
<1>6. /\ fq' \in Seq(Items) /\ fq' \in Seq(Batches \union {None})
      /\ Has(fq') = Has(fq) \union {b} /\ Once(fq')
      /\ local_read_' \in Seq(Items) /\ local_read_' \in Seq(Batches)
      /\ Has(local_read_') = Has(local_read_) \ {b} /\ Once(local_read_')
  <2>1. /\ Append(fq, b) \in Seq(Items) /\ Has(Append(fq, b)) = Has(fq) \union {b}
        /\ Once(Append(fq, b))
    BY <1>5, Shape, HasAppend DEF IInv, Apart
  <2>2. /\ Tail(local_read_) \in Seq(Items) /\ Once(Tail(local_read_))
        /\ Has(Tail(local_read_)) = Has(local_read_) \ {b}
    BY <1>5, Shape, HasTail DEF IInv, Apart
  <2>3. Tail(local_read_) \in Seq(Batches)
    BY <1>5 DEF IInv, Typing, TypeOK
  <2> QED BY <1>a, <2>1, <2>2, <2>3 DEF Items
<1>7. filled \in [Batches -> Seq(Line)] /\ \A a \in Batches : Len(filled[a]) <= BatchSize
  <2>1. Append(input[b], NextNGram) \in Seq(Line) /\ Len(Append(input[b], NextNGram)) = Len(input[b]) + 1
        /\ Len(input[b]) \in Nat
    BY <1>4, <1>5
  <2>2. /\ filled = [input EXCEPT ![b] = Append(input[b], NextNGram)]
        /\ input \in [Batches -> Seq(Line)] /\ \A a \in Batches : Len(input[a]) <= BatchSize
    BY DEF IInv, Typing, TypeOK
  <2> HIDE DEF filled
  <2>3. \A a \in Batches : filled[a] = IF a = b THEN Append(input[b], NextNGram) ELSE input[a]
    BY <2>2
  <2> QED BY <1>a, <1>5, <2>1, <2>2, <2>3
<1>8. Orderly(Underway, text1, seq, file, Taken', base_sequence_, sequence_)
  <2>1. /\ \A a \in Underway : a # b => text1[a] = Text[a]
        /\ text1[b] = Append(Text[b], NextNGram)
    BY <1>5 DEF Text
  <2> HIDE DEF text1
  <2> QED BY <1>1, <1>4, <2>1, OrderlyAppend, TopShape, OrderShape DEF IInv, InOrder
<1>9. UNCHANGED <<Busy, ordering_, oq, output, file, base_sequence_, given, to_read_, wbatch>>
  BY <1>a DEF Busy, outVars, workVars
<1>10. Apart' /\ Blank'
  <2>1. Apart'
    BY <1>5, <1>6, <1>9 DEF IInv, Apart, Separate
  <2>2. Blank'
    BY <1>5, <1>6, <1>9 DEF IInv, Blank
  <2> QED BY <2>1, <2>2
<1>11. \A a \in Batches : a \in Underway => text1[a] = IF a \in Has(oq) \union Has(ordering_) THEN output[a] ELSE filled[a]
  <2>1. \A a \in Batches : filled[a] = IF a = b THEN Append(input[b], NextNGram) ELSE input[a]
    BY DEF IInv, Typing
  <2>2. b \notin Has(oq) \union Has(ordering_) /\ Text[b] = input[b]
    BY <1>1, TopShape
  <2>3. \A a \in Batches : text1[a] = IF a = b THEN Append(Text[b], NextNGram) ELSE Text[a]
    BY DEF Text
  <2> HIDE DEF filled, text1, b
  <2> QED BY <2>1, <2>2, <2>3 DEF Text
<1>12. None \notin Range(fq')
  <2>1. None \notin Range(fq)
    BY <1>1 DEF IInv, Phases
  <2>2. Range(fq') = Range(fq) \union {b}
    BY <1>a, <1>5, Shape, HasAppend
  <2> QED BY <1>5, <2>1, <2>2
<1>13. CASE local_read_' = <<>>
  <2>1. mpc' = "refill" /\ input' = filled /\ UNCHANGED <<sequence_, seq>>
    BY <1>b, <1>13
  <2>2. Typing'
    <3> HIDE DEF filled, b
    <3>1. section' \in 1..(Len(Sections') + 1) /\ pos' \in Nat
       BY <1>a, <1>1, <1>3 DEF IInv, Typing, TypeOK
    <3>2. input' \in [Batches -> Seq(Line)] /\ output' \in [Batches -> Seq(Line)] /\ file' \in Seq(Line)
       BY <1>a, <1>7, <2>1 DEF IInv, Typing, TypeOK, outVars, workVars
    <3>3. \A a \in Batches : Len(input'[a]) <= BatchSize /\ Len(output'[a]) <= BatchSize
       BY <1>a, <1>7, <2>1 DEF IInv, Typing, TypeOK, outVars, workVars
    <3> QED BY <1>a, <1>6, <2>1, <3>1, <3>2, <3>3 DEF IInv, Typing, TypeOK, outVars, workVars
  <2>3. Phases'
    BY <1>a, <1>1, <1>3, <1>12, <1>13, <2>1 DEF IInv, Phases, Top, outVars, workVars
  <2>4. Indexed'
    BY <2>1, <1>9 DEF IInv, Indexed
  <2>5. Underway' = Underway
    BY <1>1, <1>6, <1>9, <2>1 DEF Underway, Filling
  <2>6. \A a \in Underway : Text'[a] = text1[a]
    BY <1>9, <1>11, <2>1, OrderShape DEF Text
  <2>7. Orderly(Underway, Text', seq, file, Taken', base_sequence_, sequence_)
    BY <1>8, <2>6, OrderlySame, Zenon
  <2> QED BY <1>9, <1>10, <2>1, <2>2, <2>3, <2>4, <2>5, <2>7 DEF IInv, InOrder
<1>14. CASE local_read_' # <<>>
  <2>1. /\ mpc' = mpc /\ sequence_' = sequence_ + 1
        /\ seq' = [seq EXCEPT ![n] = sequence_]
        /\ input' = [filled EXCEPT ![n] = <<>>]
    BY <1>b, <1>14 DEF NewInput
  <2>2. n \in Batches /\ n # None /\ n \in Has(local_read_')
    <3>1. n \in Batches
      BY <1>6, <1>14
    <3> QED BY <1>6, <1>14, <3>1, Shape, HasTail
  <2>3. n # b /\ n \in Has(local_read_) /\ n \notin Underway
    BY <1>1, <1>6, <2>2, TopShape DEF IInv, Apart, Separate, Underway
  <2>4. Typing'
    <3>1. input' \in [Batches -> Seq(Line)] /\ \A a \in Batches : Len(input'[a]) <= BatchSize
      <4> HIDE DEF filled
      <4>1. <<>> \in Seq(Line) /\ Len(<<>>) = 0
        OBVIOUS
      <4> QED BY <1>7, <2>1, <2>2, <4>1, ControllerAssumption
    <3>2. seq' \in [Batches -> Nat] /\ sequence_' \in Nat
      BY <2>1, <2>2 DEF IInv, Typing, TypeOK
    <3>3. section' \in 1..(Len(Sections') + 1) /\ pos' \in Nat
      BY <1>a, <1>1, <1>3 DEF IInv, Typing, TypeOK
    <3>4. /\ output' \in [Batches -> Seq(Line)] /\ file' \in Seq(Line)
          /\ \A a \in Batches : Len(output'[a]) <= BatchSize
      BY <1>a DEF IInv, Typing, TypeOK, outVars, workVars
    <3> HIDE DEF filled, b, n
    <3> QED BY <1>a, <1>6, <2>1, <3>1, <3>2, <3>3, <3>4 DEF IInv, Typing, TypeOK, outVars, workVars
  <2>5. Phases'
    <3>1. seq'[n] = sequence_' - 1
      BY <2>1, <2>2 DEF IInv, Typing, TypeOK
    <3>2. mpc' = "read" /\ local_read_' # <<>> /\ Top' = n
      BY <1>1, <1>14, <2>1 DEF Top
    <3>3. UNCHANGED <<section, wpc, wbatch, oq>> /\ pos' = pos + 1
      BY <1>a DEF workVars
    <3> HIDE DEF n, b, filled
    <3> QED BY <1>1, <1>3, <1>12, <3>1, <3>2, <3>3 DEF IInv, Phases
  <2>6. Indexed'
    <3>1. n \notin Has(ordering_)
      BY <2>3 DEF Underway
    <3> QED BY <1>9, <2>1, <2>2, <3>1, NewNumberIndexed
  <2>7. Underway' = Underway \union {n}
    BY <1>1, <1>5, <1>6, <1>9, <2>1, TopShape DEF Underway, Filling, Top
  <2>8. Text'[n] = <<>> /\ \A a \in Underway : Text'[a] = text1[a]
    <3>1. \A a \in Underway : input'[a] = filled[a]
      <4> HIDE DEF filled, n
      <4> QED BY <1>7, <2>1, <2>3, OrderShape
    <3>2. input'[n] = <<>>
      BY <1>7, <2>1, <2>2
    <3> QED BY <1>9, <1>11, <2>2, <2>3, <3>1, <3>2, OrderShape DEF Text, Underway
  <2>9. Orderly(Underway \union {n}, Text', seq', file, Taken', base_sequence_, sequence_ + 1)
    <3>1. seq'[n] = sequence_ /\ \A a \in Underway : seq'[a] = seq[a] /\ seq[a] \in Nat
      BY <2>1, <2>2, <2>3, OrderShape DEF IInv, Typing, TypeOK
    <3> HIDE DEF n, b, text1, filled
    <3> QED BY <1>8, <2>3, <2>8, <3>1, OrderShape, OrderlyNew
  <2> QED BY <1>9, <1>10, <2>1, <2>4, <2>5, <2>6, <2>7, <2>9 DEF IInv, InOrder
<1> QED BY <1>13, <1>14

LEMMA RefillKeeps ==
  ASSUME IInv, Refill
  PROVE  IInv'
<1> DEFINE n == Head(to_read_)
<1>a. /\ mpc = "refill" /\ to_read_ # <<>> /\ local_read_' = <<n>> /\ to_read_' = Tail(to_read_)
      /\ mpc' = "read" /\ sequence_' = sequence_ + 1
      /\ seq' = [seq EXCEPT ![n] = sequence_] /\ input' = [input EXCEPT ![n] = <<>>]
      /\ UNCHANGED <<given, section, pos, fq, oq, workVars, outVars>>
  BY DEF Refill, NewInput
<1>1. UNCHANGED <<Sections, Arpa, Lines, Taken, Busy>>
  BY <1>a DEF Sections, Arpa, Lines, Taken, Busy, workVars
<1>2. n \in Batches /\ n # None /\ n \in Has(to_read_) /\ n \in Items
  <2>1. n \in Batches
    BY <1>a DEF IInv, Typing, TypeOK
  <2> QED BY <1>a, <2>1, Shape, HasTail DEF Items
<1>3. n \notin Underway
  BY <1>a, <1>2 DEF IInv, Apart, Separate, Underway, Filling
<1>4. local_read_ = <<>> /\ section <= Len(Sections)
  BY <1>a DEF IInv, Phases
<1>5. /\ local_read_' \in Seq(Batches) /\ local_read_' # <<>> /\ Head(local_read_') = n
      /\ Once(local_read_') /\ Has(local_read_') = {n} /\ Has(local_read_) = {}
      /\ to_read_' \in Seq(Batches) /\ Once(to_read_') /\ Has(to_read_') = Has(to_read_) \ {n}
  <2>1. /\ <<n>> \in Seq(Batches) /\ <<n>> # <<>> /\ Head(<<n>>) = n /\ Range(<<n>>) = {n}
        /\ Once(<<n>>)
    BY <1>2 DEF Range, Once
  <2>2. Tail(to_read_) \in Seq(Batches)
    BY <1>a DEF IInv, Typing, TypeOK
  <2>3. Once(Tail(to_read_)) /\ Has(Tail(to_read_)) = Has(to_read_) \ {n}
    BY <1>a, Shape, HasTail DEF IInv, Apart
  <2>4. Has(local_read_) = {}
    BY <1>4 DEF Has, Range
  <2>5. Has(<<n>>) = {n}
    BY <1>2, <2>1 DEF Has
  <2> HIDE DEF n
  <2> QED BY <1>a, <2>1, <2>2, <2>3, <2>4, <2>5
<1>6. UNCHANGED <<Has(fq), Has(oq), Has(ordering_), ordering_, oq, output, file, base_sequence_>>
  BY <1>a DEF workVars, outVars
<1> HIDE DEF n
<1>7. Typing'
  <2>1. input' \in [Batches -> Seq(Line)] /\ \A b \in Batches : Len(input'[b]) <= BatchSize
    <3>1. <<>> \in Seq(Line) /\ Len(<<>>) <= BatchSize
      BY ControllerAssumption
    <3>2. input \in [Batches -> Seq(Line)] /\ \A b \in Batches : Len(input[b]) <= BatchSize
      BY DEF IInv, Typing, TypeOK
    <3>3. \A b \in Batches : input'[b] = IF b = n THEN <<>> ELSE input[b]
      BY <1>a, <3>2
    <3> QED BY <1>a, <1>2, <3>1, <3>2, <3>3
  <2>2. seq' \in [Batches -> Nat] /\ sequence_' \in Nat
    BY <1>a, <1>2 DEF IInv, Typing, TypeOK
  <2>3. section' \in 1..(Len(Sections') + 1) /\ pos' \in Nat
    BY <1>a, <1>1 DEF IInv, Typing, TypeOK
  <2> QED BY <1>a, <1>5, <2>1, <2>2, <2>3 DEF IInv, Typing, TypeOK, outVars, workVars
<1>8. Phases'
  <2>1. seq'[n] = sequence_' - 1
    BY <1>a, <1>2 DEF IInv, Typing, TypeOK
  <2> QED BY <1>a, <1>1, <1>4, <1>5, <2>1 DEF IInv, Phases, Top, outVars, workVars
<1>9. Apart'
  BY <1>a, <1>1, <1>2, <1>5, <1>6 DEF IInv, Apart, Separate, workVars
<1>10. Indexed'
  BY <1>a, <1>2, <1>3, <1>6, NewNumberIndexed DEF Underway
<1>11. Blank'
  BY <1>1, <1>2, <1>5, <1>6 DEF IInv, Blank
<1>12. InOrder'
  <2>1. Underway' = Underway \union {n}
    BY <1>a, <1>1, <1>5, <1>6 DEF Underway, Filling, Top
  <2>2. Text'[n] = <<>> /\ \A a \in Underway : Text'[a] = Text[a]
    <3>1. input'[n] = <<>> /\ \A a \in Underway : input'[a] = input[a]
      BY <1>a, <1>2, <1>3, OrderShape DEF IInv, Typing
    <3> QED BY <1>2, <1>3, <1>6, <3>1, OrderShape DEF Text, Underway
  <2>3. seq'[n] = sequence_ /\ \A a \in Underway : seq'[a] = seq[a] /\ seq[a] \in Nat
    BY <1>a, <1>2, <1>3, OrderShape DEF IInv, Typing, TypeOK
  <2>4. Orderly(Underway \union {n}, Text', seq', file, Taken, base_sequence_, sequence_ + 1)
    BY <1>3, <2>2, <2>3, OrderShape, OrderlyNew DEF IInv, InOrder
  <2> QED BY <1>a, <1>1, <1>6, <2>1, <2>4 DEF InOrder
<1> QED BY <1>7, <1>8, <1>9, <1>10, <1>11, <1>12 DEF IInv

LEMMA BeginFlushKeeps ==
  ASSUME IInv, BeginFlush
  PROVE  IInv'
<1> DEFINE b == Top
<1>a. /\ mpc = "read" /\ section <= Len(Sections) /\ pos = Sections[section] /\ Arpa
      /\ IF input[b] = <<>> THEN UNCHANGED <<fq, local_read_>>
         ELSE fq' = Append(fq, b) /\ local_read_' = Tail(local_read_)
      /\ mpc' = "collect"
      /\ UNCHANGED <<given, section, pos, sequence_, seq, input, to_read_, oq, workVars, outVars>>
  BY DEF BeginFlush, Reading
<1>1. UNCHANGED <<Sections, Arpa, Lines, Taken, Busy>>
  <2>1. UNCHANGED <<given, section, pos, wpc, wbatch>>
    BY <1>a DEF workVars
  <2> QED BY <2>1 DEF Sections, Arpa, Lines, Taken, Busy
<1>2. /\ b \in Batches /\ b # None /\ b \in Items
      /\ b \in Has(local_read_) /\ b \notin Has(fq) /\ local_read_ # <<>> /\ b = Head(local_read_)
      /\ b \notin Has(to_read_) \union Has(oq) \union Has(ordering_) \union Busy
      /\ Filling = {b} /\ Text[b] = input[b] /\ output[b] = <<>>
  BY <1>a, TopShape, Shape DEF Items, Top
<1>3. UNCHANGED <<Has(to_read_), Has(oq), Has(ordering_), ordering_, oq, output, file, base_sequence_, seq, Text>>
  BY <1>a DEF workVars, outVars, Text
<1>4. \/ /\ UNCHANGED <<fq, local_read_>> /\ input[b] = <<>>
      \/ /\ fq' \in Seq(Batches \union {None}) /\ Has(fq') = Has(fq) \union {b} /\ Once(fq')
         /\ Range(fq') = Range(fq) \union {b}
         /\ local_read_' \in Seq(Batches)
         /\ Has(local_read_') = Has(local_read_) \ {b} /\ Once(local_read_')
  <2>1. /\ Append(fq, b) \in Seq(Items) /\ Has(Append(fq, b)) = Has(fq) \union {b}
        /\ Once(Append(fq, b)) /\ Range(Append(fq, b)) = Range(fq) \union {b}
    BY <1>2, Shape, HasAppend DEF IInv, Apart
  <2>2. /\ Once(Tail(local_read_)) /\ Has(Tail(local_read_)) = Has(local_read_) \ {b}
    BY <1>2, Shape, HasTail DEF IInv, Apart
  <2>3. Tail(local_read_) \in Seq(Batches)
    BY <1>2 DEF IInv, Typing, TypeOK
  <2> QED BY <1>a, <2>1, <2>2, <2>3 DEF Items
<1> HIDE DEF b
<1>5. Typing'
  <2>1. section' \in 1..(Len(Sections') + 1) /\ pos' \in Nat
    BY <1>a, <1>1 DEF IInv, Typing, TypeOK
  <2>2. fq' \in Seq(Batches \union {None}) /\ local_read_' \in Seq(Batches)
    BY <1>4 DEF IInv, Typing, TypeOK
  <2> QED BY <1>a, <2>1, <2>2 DEF IInv, Typing, TypeOK, outVars, workVars
<1>6. Phases'
  <2>1. None \notin Range(fq')
    BY <1>a, <1>2, <1>4 DEF IInv, Phases
  <2> QED BY <1>a, <1>1, <2>1 DEF IInv, Phases, outVars, workVars
<1>7. Apart'
  BY <1>a, <1>1, <1>2, <1>3, <1>4 DEF IInv, Apart, Separate, workVars
<1>8. Indexed'
  BY <1>3 DEF IInv, Indexed
<1>9. Blank'
  BY <1>1, <1>2, <1>3, <1>4 DEF IInv, Blank
<1>10. InOrder'
  <2>1. CASE UNCHANGED <<fq, local_read_>> /\ input[b] = <<>>
    <3>1. Underway' = Underway \ {b}
      BY <1>a, <1>1, <1>2, <1>3, <2>1 DEF Underway, Filling
    <3>2. Text[b] = <<>>
      BY <1>2, <2>1
    <3>3. Orderly(Underway \ {b}, Text, seq, file, Taken, base_sequence_, sequence_)
      BY <3>2, OrderlyDrop DEF IInv, InOrder
    <3> QED BY <1>a, <1>1, <1>3, <3>1, <3>3 DEF InOrder
  <2>2. CASE Has(fq') = Has(fq) \union {b}
    <3>1. Underway' = Underway
      BY <1>a, <1>1, <1>2, <1>3, <2>2 DEF Underway, Filling
    <3> QED BY <1>a, <1>1, <1>3, <3>1 DEF IInv, InOrder
  <2> QED BY <1>4, <2>1, <2>2
<1> QED BY <1>5, <1>6, <1>7, <1>8, <1>9, <1>10 DEF IInv

LEMMA CollectKeeps ==
  ASSUME IInv, Collect
  PROVE  IInv'
<1> DEFINE n == Head(to_read_)
<1>a. /\ mpc = "collect" /\ to_read_ # <<>> /\ local_read_' = <<n>> \o local_read_
      /\ to_read_' = Tail(to_read_)
      /\ UNCHANGED <<given, mpc, section, pos, sequence_, seq, input, fq, oq, workVars, outVars>>
  BY DEF Collect
<1>1. UNCHANGED <<Sections, Arpa, Lines, Taken, Busy, Underway, Text>>
  BY <1>a DEF Sections, Arpa, Lines, Taken, Busy, Underway, Text, Filling, workVars, outVars
<1>2. n \in Batches /\ n # None /\ n \in Has(to_read_) /\ n \in Items
  <2>1. n \in Batches
    BY <1>a DEF IInv, Typing, TypeOK
  <2> QED BY <1>a, <2>1, Shape, HasTail DEF Items
<1>3. /\ local_read_' \in Seq(Batches)
      /\ Once(local_read_') /\ Has(local_read_') = Has(local_read_) \union {n}
      /\ to_read_' \in Seq(Batches) /\ Once(to_read_') /\ Has(to_read_') = Has(to_read_) \ {n}
  <2>1. Tail(to_read_) \in Seq(Batches)
    BY <1>a DEF IInv, Typing, TypeOK
  <2>2. Once(Tail(to_read_)) /\ Has(Tail(to_read_)) = Has(to_read_) \ {n}
    BY <1>a, Shape, HasTail DEF IInv, Apart
  <2> HIDE DEF n
  <2>3. Once(<<n>> \o local_read_) /\ Has(<<n>> \o local_read_) = Has(local_read_) \union {n}
    BY <1>2, Shape, HasPush DEF IInv, Apart, Separate
  <2>4. <<n>> \o local_read_ \in Seq(Batches)
    BY <1>2 DEF IInv, Typing, TypeOK
  <2> QED BY <1>a, <2>1, <2>2, <2>3, <2>4
<1> HIDE DEF n
<1>4. Typing'
  <2>1. section' \in 1..(Len(Sections') + 1) /\ pos' \in Nat
    BY <1>a, <1>1 DEF IInv, Typing, TypeOK
  <2> QED BY <1>a, <1>3, <2>1 DEF IInv, Typing, TypeOK, outVars, workVars
<1>5. Phases'
  BY <1>a, <1>1 DEF IInv, Phases, outVars, workVars
<1>6. Apart'
  BY <1>a, <1>1, <1>2, <1>3 DEF IInv, Apart, Separate, workVars, outVars
<1>7. Indexed'
  BY <1>a DEF IInv, Indexed, outVars
<1>8. Blank'
  BY <1>a, <1>1, <1>2, <1>3 DEF IInv, Blank, workVars
<1>9. InOrder'
  BY <1>a, <1>1 DEF IInv, InOrder, outVars
<1> QED BY <1>4, <1>5, <1>6, <1>7, <1>8, <1>9 DEF IInv

\* When the stack is full every batch is on it.
LEMMA AllBack ==
  ASSUME IInv, Len(local_read_) = Queue
  PROVE  /\ Has(local_read_) = Batches
         /\ Has(to_read_) = {} /\ Has(fq) = {} /\ Has(oq) = {} /\ Has(ordering_) = {} /\ Busy = {}
<1>1. /\ local_read_ \in Seq(Batches) /\ DOMAIN local_read_ = 1..Queue /\ Batches = 1..Queue
      /\ None \notin Batches /\ Once(local_read_)
  <2>1. local_read_ \in Seq(Batches) /\ Once(local_read_)
    BY DEF IInv, Typing, TypeOK, Apart
  <2>2. DOMAIN local_read_ = 1..Queue
    BY <2>1
  <2> QED BY <2>1, <2>2, Shape DEF Batches
<1>2. local_read_ \in Injection(Batches, Batches)
  <2>1. local_read_ \in [Batches -> Batches]
    BY <1>1
  <2>2. \A j, k \in Batches : local_read_[j] = local_read_[k] => j = k
    BY <1>1, <2>1 DEF Once
  <2> QED BY <2>1, <2>2 DEF Injection, IsInjective
<1>3. IsFiniteSet(Batches)
  BY FS_Interval, ControllerAssumption DEF Batches
<1>4. local_read_ \in Surjection(Batches, Batches)
  BY <1>2, <1>3, FS_Injection
<1>5. Has(local_read_) = Batches
  <2>1. Batches \subseteq Range(local_read_)
    BY <1>1, <1>4 DEF Surjection, Range
  <2> QED BY <1>1, <2>1, Shape DEF Has
<1> QED BY <1>5, Shape DEF IInv, Apart, Separate

LEMMA EndFlushKeeps ==
  ASSUME IInv, EndFlush
  PROVE  IInv'
<1> DEFINE n == Head(local_read_)
           x == End(section)
<1>a. /\ mpc = "collect" /\ Len(local_read_) = Queue
      /\ mpc' = "read" /\ sequence_' = sequence_ + 1
      /\ seq' = [seq EXCEPT ![n] = sequence_] /\ input' = [input EXCEPT ![n] = <<>>]
      /\ file' = Append(file, x) /\ section' = section + 1 /\ pos' = 0
      /\ UNCHANGED <<given, local_read_, to_read_, fq, oq, workVars, opc, ordering_, base_sequence_>>
  BY DEF EndFlush, NewInput
<1>1. UNCHANGED <<Sections, Arpa, Lines, Busy>>
  BY <1>a DEF Sections, Arpa, Lines, Busy, workVars
<1>2. /\ section \in 1..Len(Sections) /\ section \in Nat /\ Len(Sections) \in Nat
      /\ pos \in Nat /\ pos = Sections[section] /\ Arpa /\ Typing
      /\ Sections \in Seq(Nat)
  <2>1. Typing /\ section \in 1..(Len(Sections) + 1) /\ pos \in Nat
    BY DEF IInv, Typing, TypeOK
  <2>2. Arpa /\ section <= Len(Sections) /\ pos = Sections[section]
    BY <1>a DEF IInv, Phases
  <2> QED BY <2>1, <2>2, InputShape
<1>3. /\ x \in Line /\ \A y \in Taken : Precedes(y, x)
      /\ Taken' = Taken \union {x}
  <2>1. pos + 1 = Size(section) /\ pos < Size(section) /\ x = <<section, pos + 1>>
    BY <1>2 DEF Size, End
  <2>2. Taken = ReadTo(section, pos) /\ Taken' = ReadTo(section + 1, 0)
    BY <1>a, <1>1 DEF Taken, ReadTo
  <2>3. ReadTo(section + 1, 0) = ReadTo(section, pos + 1)
    BY <1>2, <2>1, ReadAll
  <2> QED BY <1>2, <2>1, <2>2, <2>3, ReadNext
<1>4. /\ Has(local_read_) = Batches
      /\ Has(to_read_) = {} /\ Has(fq) = {} /\ Has(oq) = {} /\ Has(ordering_) = {} /\ Busy = {}
      /\ Underway = {}
  BY <1>a, AllBack DEF Underway, Filling
<1>5. local_read_ # <<>> /\ n \in Batches
  BY <1>a, ControllerAssumption DEF IInv, Typing, TypeOK
<1>6. UNCHANGED <<ordering_, base_sequence_, output>>
  BY <1>a DEF workVars
<1>7. Append(file, x) \in Seq(Line)
  BY <1>3, SortedAppend DEF IInv, Typing
<1> HIDE DEF n, x
<1>8. Typing'
  <2>1. input' \in [Batches -> Seq(Line)] /\ \A b \in Batches : Len(input'[b]) <= BatchSize
    <3>1. <<>> \in Seq(Line) /\ Len(<<>>) <= BatchSize
      BY ControllerAssumption
    <3>2. input \in [Batches -> Seq(Line)] /\ \A b \in Batches : Len(input[b]) <= BatchSize
      BY DEF IInv, Typing, TypeOK
    <3>3. \A b \in Batches : input'[b] = IF b = n THEN <<>> ELSE input[b]
      BY <1>a, <3>2
    <3> QED BY <1>a, <1>5, <3>1, <3>2, <3>3
  <2>2. seq' \in [Batches -> Nat] /\ sequence_' \in Nat
    BY <1>a, <1>5 DEF IInv, Typing, TypeOK
  <2>3. section' \in 1..(Len(Sections') + 1) /\ pos' \in Nat
    BY <1>a, <1>1, <1>2
  <2> QED BY <1>a, <1>7, <2>1, <2>2, <2>3 DEF IInv, Typing, TypeOK, workVars
<1>9. Phases'
  <2>1. seq'[n] = sequence_' - 1 /\ Top' = n
    BY <1>a, <1>5 DEF IInv, Typing, TypeOK, Top, n
  <2>2. section' <= Len(Sections)' => Sections'[section'] \in Nat
    BY <1>a, <1>1, <1>2
  <2> QED BY <1>a, <1>1, <1>2, <1>5, <2>1, <2>2 DEF IInv, Phases, workVars
<1>10. Apart'
  BY <1>a, <1>1 DEF IInv, Apart, workVars
<1>11. Indexed'
  BY <1>a, <1>4, <1>5, NewNumberIndexed
<1>12. Blank'
  BY <1>a, <1>1, <1>6 DEF IInv, Blank
<1>13. InOrder'
  <2>1. Underway' = {n}
    BY <1>a, <1>1, <1>4 DEF Underway, Filling, Top, n
  <2>2. Orderly({}, Text, seq, Append(file, x), Taken', base_sequence_, sequence_)
    BY <1>3, <1>4, OrderlyEnd, OrderShape DEF IInv, InOrder
  <2>3. Text'[n] = <<>> /\ seq'[n] = sequence_
    BY <1>a, <1>4, <1>5 DEF Text, IInv, Typing, TypeOK
  <2>4. Orderly({} \union {n}, Text', seq', Append(file, x), Taken', base_sequence_, sequence_ + 1)
    BY <2>2, <2>3, OrderlyNew, OrderShape
  <2> QED BY <1>a, <2>1, <2>4 DEF InOrder
<1> QED BY <1>8, <1>9, <1>10, <1>11, <1>12, <1>13 DEF IInv

\* Poison changes neither the batches in a queue nor what they hold.
LEMMA PoisonFilterKeeps ==
  ASSUME IInv, PoisonFilter
  PROVE  IInv'
<1>a. /\ mpc \in {"read", "close"} /\ fq' = Append(fq, None) /\ mpc' = "close"
      /\ UNCHANGED <<given, section, pos, local_read_, sequence_, seq, input, to_read_, oq, workVars, outVars>>
  BY DEF PoisonFilter
<1>1. Append(fq, None) \in Seq(Items) /\ Has(fq') = Has(fq) /\ Once(fq')
  <2>1. None \in Items /\ None \notin Has(fq) /\ {None} \ {None} = {}
    BY DEF Items, Has
  <2>2. fq \in Seq(Items) /\ Once(fq)
    BY Shape DEF IInv, Apart
  <2>3. /\ Append(fq, None) \in Seq(Items) /\ Once(Append(fq, None))
        /\ Has(Append(fq, None)) = Has(fq) \union ({None} \ {None})
    BY <2>1, <2>2, HasAppend
  <2> QED BY <1>a, <2>1, <2>3
<1>2. UNCHANGED <<Sections, Arpa, Lines, Taken, Busy, Underway, Text>>
  BY <1>a, <1>1 DEF Sections, Arpa, Lines, Taken, Busy, Underway, Text, Filling, Top, workVars, outVars
<1>3. Typing'
  BY <1>a, <1>1, <1>2 DEF IInv, Typing, TypeOK, Items, outVars, workVars
<1>4. Phases'
  BY <1>a, <1>2 DEF IInv, Phases, Top, outVars, workVars
<1>5. Apart' /\ Blank' /\ Indexed' /\ InOrder'
  BY <1>a, <1>1, <1>2 DEF IInv, Apart, Blank, Indexed, InOrder, outVars, workVars
<1> QED BY <1>3, <1>4, <1>5 DEF IInv

LEMMA PoisonOutputKeeps ==
  ASSUME IInv, PoisonOutput
  PROVE  IInv'
<1>a. /\ mpc = "close" /\ oq' = Append(oq, None) /\ mpc' = "join"
      /\ UNCHANGED <<given, section, pos, local_read_, sequence_, seq, input, to_read_, fq, workVars, outVars>>
  BY DEF PoisonOutput
<1>1. Append(oq, None) \in Seq(Items) /\ Has(oq') = Has(oq) /\ Once(oq')
  <2>1. None \in Items /\ None \notin Has(oq) /\ {None} \ {None} = {}
    BY DEF Items, Has
  <2>2. oq \in Seq(Items) /\ Once(oq)
    BY Shape DEF IInv, Apart
  <2>3. /\ Append(oq, None) \in Seq(Items) /\ Once(Append(oq, None))
        /\ Has(Append(oq, None)) = Has(oq) \union ({None} \ {None})
    BY <2>1, <2>2, HasAppend
  <2> QED BY <1>a, <2>1, <2>3
<1>2. UNCHANGED <<Sections, Arpa, Lines, Taken, Busy, Underway, Text>>
  BY <1>a, <1>1 DEF Sections, Arpa, Lines, Taken, Busy, Underway, Text, Filling, Top, workVars, outVars
<1>3. Typing'
  BY <1>a, <1>1, <1>2 DEF IInv, Typing, TypeOK, Items, outVars, workVars
<1>4. Phases'
  BY <1>a, <1>2 DEF IInv, Phases, Top, outVars, workVars
<1>5. Apart' /\ Blank' /\ Indexed' /\ InOrder'
  BY <1>a, <1>1, <1>2 DEF IInv, Apart, Blank, Indexed, InOrder, outVars, workVars
<1> QED BY <1>3, <1>4, <1>5 DEF IInv

LEMMA JoinOutputKeeps ==
  ASSUME IInv, JoinOutput
  PROVE  IInv'
<1>a. /\ mpc = "join" /\ mpc' = "done"
      /\ UNCHANGED <<given, section, pos, local_read_, sequence_, seq, input, to_read_, fq, oq, workVars, outVars>>
  BY DEF JoinOutput
<1>1. UNCHANGED <<Sections, Arpa, Lines, Taken, Busy, Underway, Text>>
  BY <1>a DEF Sections, Arpa, Lines, Taken, Busy, Underway, Text, Filling, Top, workVars, outVars
<1>2. Typing'
  BY <1>a, <1>1 DEF IInv, Typing, TypeOK, outVars, workVars
<1>3. Phases' /\ Apart' /\ Blank' /\ Indexed' /\ InOrder'
  BY <1>a, <1>1 DEF IInv, Phases, Apart, Blank, Indexed, InOrder, Top, outVars, workVars
<1> QED BY <1>2, <1>3 DEF IInv

-----------------------------------------------------------------------------
(* The workers                                                             *)

LEMMA FilterTakeKeeps ==
  ASSUME IInv, NEW w \in Workers, FilterTake(w)
  PROVE  IInv'
<1> DEFINE b == Head(fq)
<1>a. /\ wpc[w] = "idle" /\ fq # <<>>
      /\ wpc' = [wpc EXCEPT ![w] = IF b = None THEN "exited" ELSE "busy"]
      /\ wbatch' = [wbatch EXCEPT ![w] = b] /\ fq' = Tail(fq)
      /\ UNCHANGED <<mainVars, output, to_read_, oq, outVars>>
  BY DEF FilterTake
<1>1. UNCHANGED <<Sections, Arpa, Lines, Taken, Text, Filling>>
  BY <1>a DEF Sections, Arpa, Lines, Taken, Text, Filling, Top, mainVars, outVars
<1>2. /\ b \in Items /\ (b # None => b \in Has(fq)) /\ b \in Range(fq)
      /\ Tail(fq) \in Seq(Items) /\ Once(fq') /\ Has(fq') = Has(fq) \ {b}
      /\ Range(fq') \subseteq Range(fq)
  BY <1>a, Shape, HasTail DEF IInv, Apart
<1> HIDE DEF b
<1>3. /\ wbatch \in [Workers -> Items] /\ wpc \in [Workers -> {"idle", "busy", "exited"}]
      /\ wbatch[w] \notin Batches
  BY <1>a DEF IInv, Typing, TypeOK, Phases, Items
<1>4. /\ \A v \in Workers : wbatch'[v] = IF v = w THEN b ELSE wbatch[v]
      /\ \A v \in Workers : wpc'[v] = IF v = w THEN (IF b = None THEN "exited" ELSE "busy") ELSE wpc[v]
      /\ wbatch' \in [Workers -> Items] /\ wpc' \in [Workers -> {"idle", "busy", "exited"}]
  BY <1>a, <1>2, <1>3
<1>5. b # None => b \in Batches
  BY <1>2 DEF Items
<1>6. Busy' = Busy \union ({b} \ {None})
  <2>1. \A v \in Workers : v # w => wpc'[v] = wpc[v] /\ wbatch'[v] = wbatch[v]
    BY <1>4
  <2>2. wpc'[w] = "busy" <=> b # None
    BY <1>4
  <2>3. wbatch'[w] = b /\ wpc[w] # "busy"
    BY <1>a, <1>4
  <2> QED BY <2>1, <2>2, <2>3 DEF Busy
<1>13. \/ b = None /\ Has(fq') = Has(fq)
       \/ b # None /\ b \in Has(fq) /\ Has(fq') = Has(fq) \ {b}
  BY <1>2 DEF Has
<1>7. Typing'
  BY <1>a, <1>1, <1>2, <1>4 DEF IInv, Typing, TypeOK, Items, mainVars, outVars
<1>8. Phases'
  <2>1. mpc \in {"read", "refill", "collect"} => None \notin Range(fq') /\ b # None
    BY <1>2 DEF IInv, Phases
  <2>2. \A v \in Workers : wpc'[v] = "busy" <=> wbatch'[v] \in Batches
    BY <1>4, <1>5, Shape DEF IInv, Phases
  <2>3. mpc \in {"read", "refill", "collect"} => \A v \in Workers : wpc'[v] # "exited"
    BY <1>4, <2>1 DEF IInv, Phases
  <2> QED BY <1>a, <1>1, <2>1, <2>2, <2>3 DEF IInv, Phases, Top, mainVars
<1>9. Apart'
  <2>1. ASSUME NEW u \in Workers, NEW v \in Workers, wbatch'[u] = wbatch'[v], wbatch'[u] \in Batches
        PROVE  u = v
    <3>1. \A a \in Workers : wbatch[a] \in Batches => wbatch[a] \in Busy
      BY DEF IInv, Phases, Busy
    <3>2. b \in Batches => b \notin Busy
      BY <1>2, Shape DEF IInv, Apart, Separate
    <3> QED BY <1>4, <2>1, <3>1, <3>2 DEF IInv, Apart
  <2>2. UNCHANGED <<Once(local_read_), Once(to_read_), Once(oq), Once(ordering_),
                    Has(local_read_), Has(to_read_), Has(oq), Has(ordering_)>>
    BY <1>a DEF mainVars, outVars
  <2>3. Separate(Has(local_read_), Has(to_read_), Has(fq'), Has(oq), Has(ordering_), Busy')
    <3>1. Separate(Has(local_read_), Has(to_read_), Has(fq), Has(oq), Has(ordering_), Busy)
      BY DEF IInv, Apart
    <3>2. \/ Has(fq') = Has(fq) /\ Busy' = Busy
          \/ Has(fq') = Has(fq) \ {b} /\ Busy' = Busy \union {b} /\ b \in Has(fq)
      BY <1>6, <1>13
    <3> QED BY <3>1, <3>2 DEF Separate
  <2>4. Separate(Has(local_read_'), Has(to_read_'), Has(fq'), Has(oq'), Has(ordering_'), Busy')
    BY <2>2, <2>3
  <2> QED BY <1>2, <2>1, <2>2, <2>4 DEF IInv, Apart
<1>10. Indexed'
  BY <1>a DEF IInv, Indexed, mainVars, outVars
<1>11. Blank'
  BY <1>a, <1>2, <1>6 DEF IInv, Blank, mainVars
<1>12. InOrder'
  <2>1. Underway' = Underway
    <3>1. Has(fq') \union Busy' = Has(fq) \union Busy
      BY <1>6, <1>13
    <3> QED BY <1>a, <1>1, <3>1 DEF Underway, outVars
  <2> QED BY <1>a, <1>1, <2>1 DEF IInv, InOrder, mainVars, outVars
<1> QED BY <1>7, <1>8, <1>9, <1>10, <1>11, <1>12 DEF IInv

LEMMA FilterDoneKeeps ==
  ASSUME IInv, NEW w \in Workers, FilterDone(w)
  PROVE  IInv'
<1> DEFINE b == wbatch[w]
<1>a. /\ wpc[w] = "busy"
      /\ output' = [output EXCEPT ![b] = output[b] \o input[b]]
      /\ oq' = Append(oq, b)
      /\ wpc' = [wpc EXCEPT ![w] = "idle"] /\ wbatch' = [wbatch EXCEPT ![w] = None]
      /\ UNCHANGED <<mainVars, to_read_, fq, outVars>>
  BY DEF FilterDone
<1>1. UNCHANGED <<Sections, Arpa, Lines, Taken, Filling>>
  BY <1>a DEF Sections, Arpa, Lines, Taken, Filling, Top, mainVars
<1>2. /\ b \in Batches /\ b # None /\ b \in Items /\ b \in Busy
      /\ b \notin Has(local_read_) \union Has(to_read_) \union Has(fq) \union Has(oq) \union Has(ordering_)
  <2>1. b \in Batches /\ b \in Busy
    BY <1>a DEF IInv, Phases, Busy
  <2> QED BY <2>1, Shape DEF Items, IInv, Apart, Separate
<1>3. /\ Append(oq, b) \in Seq(Items) /\ Once(oq') /\ Has(oq') = Has(oq) \union {b}
      /\ Range(oq') = Range(oq) \union {b}
  BY <1>a, <1>2, Shape, HasAppend DEF IInv, Apart
<1>4. /\ wbatch \in [Workers -> Items] /\ wpc \in [Workers -> {"idle", "busy", "exited"}]
      /\ \A v \in Workers : v # w => wbatch[v] # b
  BY <1>2 DEF IInv, Typing, TypeOK, Apart, Items
<1>5. output[b] \o input[b] = input[b] /\ input[b] \in Seq(Line)
  <2>1. output[b] = <<>> /\ input[b] \in Seq(Line)
    BY <1>2 DEF IInv, Blank, Typing
  <2> QED BY <2>1
<1> HIDE DEF b
<1>6. /\ \A v \in Workers : wbatch'[v] = IF v = w THEN None ELSE wbatch[v]
      /\ \A v \in Workers : wpc'[v] = IF v = w THEN "idle" ELSE wpc[v]
      /\ wbatch' \in [Workers -> Items] /\ wpc' \in [Workers -> {"idle", "busy", "exited"}]
  BY <1>a, <1>4 DEF Items
<1>7. Busy' = Busy \ {b}
  <2>1. \A v \in Workers : v # w => wpc'[v] = wpc[v] /\ wbatch'[v] = wbatch[v] /\ wbatch[v] # b
    BY <1>4, <1>6
  <2>2. wpc'[w] # "busy" /\ wbatch[w] = b
    BY <1>6 DEF b
  <2> QED BY <2>1, <2>2 DEF Busy
<1>8. \A a \in Batches : output'[a] = IF a = b THEN input[b] ELSE output[a]
  BY <1>a, <1>5 DEF IInv, Typing
<1>9. Typing'
  <2>1. output' \in [Batches -> Seq(Line)]
    BY <1>a, <1>5, <1>8 DEF IInv, Typing
  <2>2. \A a \in Batches : Len(output'[a]) <= BatchSize
    BY <1>2, <1>8 DEF IInv, Typing, TypeOK
  <2> QED BY <1>a, <1>1, <1>3, <1>6, <2>1, <2>2 DEF IInv, Typing, TypeOK, Items, mainVars, outVars
<1>10. Phases'
  <2>1. None \notin Range(oq) => None \notin Range(oq')
    BY <1>2, <1>3
  <2>2. \A v \in Workers : wpc'[v] = "busy" <=> wbatch'[v] \in Batches
    BY <1>6, Shape DEF IInv, Phases
  <2>3. \A v \in Workers : wpc[v] # "exited" => wpc'[v] # "exited"
    BY <1>6
  <2> QED BY <1>a, <1>1, <2>1, <2>2, <2>3 DEF IInv, Phases, Top, mainVars
<1>11. Apart'
  <2>1. ASSUME NEW u \in Workers, NEW v \in Workers, wbatch'[u] = wbatch'[v], wbatch'[u] \in Batches
        PROVE  u = v
    BY <1>6, <2>1, Shape DEF IInv, Apart
  <2>2. UNCHANGED <<Once(local_read_), Once(to_read_), Once(fq), Once(ordering_),
                    Has(local_read_), Has(to_read_), Has(fq), Has(ordering_)>>
    BY <1>a DEF mainVars, outVars
  <2>3. Separate(Has(local_read_), Has(to_read_), Has(fq), Has(oq'), Has(ordering_), Busy')
    BY <1>2, <1>3, <1>7 DEF IInv, Apart, Separate
  <2>4. Separate(Has(local_read_'), Has(to_read_'), Has(fq'), Has(oq'), Has(ordering_'), Busy')
    BY <2>2, <2>3
  <2> QED BY <1>3, <2>1, <2>2, <2>4 DEF IInv, Apart
<1>12. Indexed'
  BY <1>a DEF IInv, Indexed, mainVars, outVars
<1>13. Blank'
  <2>1. UNCHANGED <<Has(local_read_), Has(to_read_), Has(fq)>>
    BY <1>a DEF mainVars
  <2>2. \A a \in Has(local_read_) \union Has(to_read_) \union Has(fq) \union Busy' : a # b /\ a \in Batches
    BY <1>2, <1>7, Shape
  <2> QED BY <1>7, <1>8, <2>1, <2>2 DEF IInv, Blank
<1>14. InOrder'
  <2>1. Underway' = Underway
    BY <1>a, <1>1, <1>2, <1>3, <1>7 DEF Underway, outVars
  <2>2. Text' = Text
    <3>1. input' = input /\ ordering_' = ordering_
      BY <1>a DEF mainVars, outVars
    <3>2. Text[b] = input[b] /\ Text'[b] = input[b]
      BY <1>2, <1>3, <1>8 DEF Text
    <3>3. \A a \in Batches : a # b => Text'[a] = Text[a]
      BY <1>3, <1>8, <3>1 DEF Text
    <3>4. Text = [a \in Batches |-> Text[a]] /\ Text' = [a \in Batches |-> Text'[a]]
      BY DEF Text
    <3> QED BY <3>2, <3>3, <3>4
  <2> QED BY <1>a, <1>1, <2>1, <2>2 DEF IInv, InOrder, mainVars, outVars
<1> QED BY <1>9, <1>10, <1>11, <1>12, <1>13, <1>14 DEF IInv

\* The place of a batch in the deque is free, or beyond its end.
LEMMA OutputTakeKeeps ==
  ASSUME IInv, OutputTake
  PROVE  IInv'
<1> DEFINE b == Head(oq)
           at == seq[b] - base_sequence_ + 1
           size == IF at > Len(ordering_) THEN at ELSE Len(ordering_)
<1>a. /\ oq # <<>> /\ oq' = Tail(oq)
      /\ IF b = None THEN opc' = "exited" /\ UNCHANGED ordering_
         ELSE /\ ordering_' = [k \in 1..size |-> IF k = at THEN b
                                                  ELSE IF k > Len(ordering_) THEN None
                                                  ELSE ordering_[k]]
              /\ opc' = "flush"
      /\ UNCHANGED <<mainVars, to_read_, fq, workVars, base_sequence_, file>>
  BY DEF OutputTake
<1>1. UNCHANGED <<Sections, Arpa, Lines, Taken, Filling, Busy>>
  BY <1>a DEF Sections, Arpa, Lines, Taken, Filling, Top, Busy, mainVars, workVars
<1>2. /\ b \in Items /\ (b # None => b \in Has(oq)) /\ b \in Range(oq)
      /\ Tail(oq) \in Seq(Items) /\ Once(oq') /\ Has(oq') = Has(oq) \ {b}
      /\ Range(oq') \subseteq Range(oq)
  BY <1>a, Shape, HasTail DEF IInv, Apart
<1> HIDE DEF b
<1>3. /\ ordering_' \in Seq(Items) /\ Once(ordering_') /\ Indexed'
      /\ \/ b = None /\ Has(oq') = Has(oq) /\ Has(ordering_') = Has(ordering_)
         \/ /\ b # None /\ b \in Has(oq) /\ Has(oq') = Has(oq) \ {b}
            /\ Has(ordering_') = Has(ordering_) \union {b}
  <2>1. CASE b = None
    <3>1. Has(oq) \ {b} = Has(oq)
      BY <2>1 DEF Has
    <3> QED BY <1>a, <1>2, <2>1, <3>1, Shape DEF IInv, Apart, Indexed, mainVars
  <2>2. CASE b # None
    <3>1. /\ b \in Batches /\ b \in Has(oq) /\ b \in Underway /\ b \notin Has(ordering_)
      BY <1>2, <2>2, Shape DEF Underway, IInv, Apart, Separate
    <3>2. seq[b] \in Nat /\ base_sequence_ \in Nat /\ base_sequence_ <= seq[b]
      BY <3>1 DEF IInv, Typing, TypeOK, InOrder, Orderly
    <3>3. at \in Nat /\ at >= 1 /\ Len(ordering_) \in Nat /\ size \in Nat /\ at \in 1..size
          /\ Len(ordering_) <= size
      BY <3>2, Shape
    <3>4. ordering_' = [k \in 1..size |-> IF k = at THEN b
                                          ELSE IF k > Len(ordering_) THEN None ELSE ordering_[k]]
      BY <1>a, <2>2
    <3>5. seq[b] = base_sequence_ + at - 1
      BY <3>2
    <3> HIDE DEF at, size
    <3>6. \A k \in 1..size : k > Len(ordering_) \/ k \in 1..Len(ordering_)
      BY <3>3
    <3>7. /\ ordering_' \in Seq(Items) /\ Len(ordering_') = size /\ DOMAIN ordering_' = 1..size
          /\ ordering_'[at] = b
          /\ \A k \in 1..size : k # at => ordering_'[k] = IF k > Len(ordering_) THEN None ELSE ordering_[k]
      <4>1. \A k \in 1..Len(ordering_) : ordering_[k] \in Items
        BY Shape
      <4>2. None \in Items
        BY DEF Items
      <4>3. ordering_' \in [1..size -> Items]
        BY <1>2, <3>4, <3>6, <4>1, <4>2
      <4> QED BY <3>3, <3>4, <4>3
    <3>8. at \in 1..Len(ordering_) => ordering_[at] = None
      <4> SUFFICES ASSUME at \in 1..Len(ordering_), ordering_[at] # None
                   PROVE  FALSE
        OBVIOUS
      <4>1. seq[ordering_[at]] = seq[b] /\ ordering_[at] \in Has(ordering_)
        BY <3>5, Shape DEF IInv, Indexed, Has, Range
      <4>2. ordering_[at] \in Underway
        BY <4>1 DEF Underway
      <4> QED BY <3>1, <4>1, <4>2 DEF IInv, InOrder, Orderly
    <3>9. \A k \in 1..size : ordering_'[k] # None =>
             \/ k = at
             \/ k # at /\ k \in 1..Len(ordering_) /\ ordering_'[k] = ordering_[k]
      BY <3>6, <3>7
    <3>10. \A k \in 1..Len(ordering_) : ordering_[k] # None =>
             k # at /\ k \in 1..size /\ ordering_'[k] = ordering_[k]
      BY <3>3, <3>7, <3>8
    <3>11. Has(ordering_') = Has(ordering_) \union {b}
      <4>1. \A y : y \in Has(ordering_') <=> y # None /\ \E k \in 1..size : y = ordering_'[k]
        BY <3>7 DEF Has, Range
      <4>2. \A y : y \in Has(ordering_) <=> y # None /\ \E k \in 1..Len(ordering_) : y = ordering_[k]
        BY Shape DEF Has, Range
      <4>3. ASSUME NEW y \in Has(ordering_') PROVE y \in Has(ordering_) \union {b}
        BY <3>7, <3>9, <4>1, <4>2
      <4>4. \A y \in Has(ordering_) : y \in Has(ordering_')
        BY <3>10, <4>1, <4>2
      <4>5. b \in Has(ordering_')
        BY <2>2, <3>3, <3>7, <4>1
      <4> QED BY <4>3, <4>4, <4>5
    <3>12. Once(ordering_')
      <4>1. \A k \in 1..Len(ordering_) : ordering_[k] # b
        BY <3>1, <2>2, Shape DEF Has, Range
      <4> QED BY <3>7, <3>9, <4>1 DEF IInv, Apart, Once
    <3>13. Indexed'
      <4>1. seq' = seq /\ base_sequence_' = base_sequence_
        BY <1>a DEF mainVars
      <4> QED BY <3>5, <3>7, <3>9, <4>1 DEF IInv, Indexed
    <3> QED BY <1>2, <2>2, <3>1, <3>7, <3>11, <3>12, <3>13
  <2> QED BY <2>1, <2>2
<1> HIDE DEF at, size
<1>4. Typing'
  <2>1. section' \in 1..(Len(Sections') + 1) /\ opc' \in {"take", "flush", "exited"}
    BY <1>a, <1>1 DEF IInv, Typing, TypeOK, mainVars
  <2> QED BY <1>a, <1>1, <1>2, <1>3, <2>1 DEF IInv, Typing, TypeOK, Items, mainVars, workVars
<1>5. Phases'
  BY <1>a, <1>1, <1>2 DEF IInv, Phases, Top, mainVars, workVars
<1>6. Apart'
  <2>1. UNCHANGED <<Once(local_read_), Once(to_read_), Once(fq), wbatch,
                    Has(local_read_), Has(to_read_), Has(fq), Busy>>
    BY <1>a, <1>1 DEF mainVars, workVars
  <2>2. Separate(Has(local_read_), Has(to_read_), Has(fq), Has(oq'), Has(ordering_'), Busy)
    <3>1. Separate(Has(local_read_), Has(to_read_), Has(fq), Has(oq), Has(ordering_), Busy)
      BY DEF IInv, Apart
    <3> QED BY <1>3, <3>1 DEF Separate
  <2>3. Separate(Has(local_read_'), Has(to_read_'), Has(fq'), Has(oq'), Has(ordering_'), Busy')
    BY <2>1, <2>2
  <2> QED BY <1>2, <1>3, <2>1, <2>3 DEF IInv, Apart
<1>7. Blank'
  BY <1>a, <1>1 DEF IInv, Blank, mainVars, workVars
<1>8. InOrder'
  <2>1. Has(oq') \union Has(ordering_') = Has(oq) \union Has(ordering_)
    BY <1>3
  <2>2. Underway' = Underway /\ Text' = Text
    BY <1>a, <1>1, <2>1 DEF Underway, Text, mainVars, workVars
  <2> QED BY <1>a, <1>1, <2>2 DEF IInv, InOrder, mainVars
<1> QED BY <1>3, <1>4, <1>5, <1>6, <1>7, <1>8 DEF IInv

LEMMA OutputFlushKeeps ==
  ASSUME IInv, OutputFlush
  PROVE  IInv'
<1> DEFINE b == Head(ordering_)
<1>a. /\ \/ /\ ordering_ # <<>> /\ b # None
            /\ file' = file \o output[b]
            /\ output' = [output EXCEPT ![b] = <<>>]
            /\ to_read_' = Append(to_read_, b)
            /\ ordering_' = Tail(ordering_)
            /\ base_sequence_' = base_sequence_ + 1
            /\ UNCHANGED opc
         \/ opc' = "take" /\ UNCHANGED <<file, output, to_read_, ordering_, base_sequence_>>
      /\ UNCHANGED <<mainVars, fq, oq, wpc, wbatch>>
  BY DEF OutputFlush, FrontReady
<1>1. UNCHANGED <<Sections, Arpa, Lines, Taken, Filling, Busy>>
  BY <1>a DEF Sections, Arpa, Lines, Taken, Filling, Top, Busy, mainVars
<1>2. CASE opc' = "take" /\ UNCHANGED <<file, output, to_read_, ordering_, base_sequence_>>
  <2>1. Underway' = Underway /\ Text' = Text
    BY <1>a, <1>1, <1>2 DEF Underway, Text, mainVars
  <2>2. Typing'
    BY <1>a, <1>1, <1>2 DEF IInv, Typing, TypeOK, mainVars
  <2>3. Phases' /\ Apart' /\ Indexed' /\ Blank' /\ InOrder'
    BY <1>a, <1>1, <1>2, <2>1 DEF IInv, Phases, Apart, Indexed, Blank, InOrder, Top, mainVars
  <2> QED BY <2>2, <2>3 DEF IInv
<1>3. CASE /\ ordering_ # <<>> /\ b # None
           /\ file' = file \o output[b]
           /\ output' = [output EXCEPT ![b] = <<>>]
           /\ to_read_' = Append(to_read_, b)
           /\ ordering_' = Tail(ordering_)
           /\ base_sequence_' = base_sequence_ + 1
           /\ UNCHANGED opc
  <2>1. /\ b \in Items /\ b \in Has(ordering_)
        /\ Tail(ordering_) \in Seq(Items) /\ Once(ordering_') /\ Has(ordering_') = Has(ordering_) \ {b}
    BY <1>3, Shape, HasTail DEF IInv, Apart
  <2>2. b \in Batches /\ b \in Underway /\ b \notin Has(local_read_) \union Has(to_read_) \union Has(fq) \union Has(oq) \union Busy
    BY <2>1, Shape DEF Underway, IInv, Apart, Separate
  <2>3. /\ Append(to_read_, b) \in Seq(Batches)
        /\ Once(to_read_') /\ Has(to_read_') = Has(to_read_) \union {b}
    <3>1. to_read_ \in Seq(Batches)
      BY DEF IInv, Typing, TypeOK
    <3> QED BY <1>3, <2>1, <2>2, <3>1, Shape, HasAppend DEF IInv, Apart
  <2>4. /\ ordering_[1] = b /\ Len(ordering_) >= 1 /\ Len(ordering_) \in Nat
        /\ Len(Tail(ordering_)) = Len(ordering_) - 1
        /\ \A k \in 1..Len(Tail(ordering_)) : Tail(ordering_)[k] = ordering_[k + 1]
    BY <1>3, Shape
  <2> HIDE DEF b
  <2>5. seq[b] = base_sequence_
    <3>1. seq[b] = base_sequence_ + 1 - 1 /\ base_sequence_ \in Nat
      BY <1>3, <2>4 DEF IInv, Indexed, Typing, TypeOK
    <3> QED BY <3>1
  <2>6. Indexed'
    <3> SUFFICES ASSUME NEW k \in 1..Len(ordering_'), ordering_'[k] # None
                 PROVE  seq[ordering_'[k]] = base_sequence_' + k - 1
      BY <1>a DEF Indexed, mainVars
    <3>1. k + 1 \in 1..Len(ordering_) /\ ordering_'[k] = ordering_[k + 1] /\ k \in Int
          /\ base_sequence_ \in Nat
      BY <1>3, <2>4 DEF IInv, Typing, TypeOK
    <3>2. seq[ordering_[k + 1]] = base_sequence_ + (k + 1) - 1
      BY <3>1 DEF IInv, Indexed
    <3> QED BY <1>3, <3>1, <3>2
  <2>7. Text[b] = output[b] /\ output[b] \in Seq(Line) /\ file \in Seq(Line)
    BY <2>1, <2>2 DEF Text, IInv, Typing
  <2>8. \A a \in Batches : output'[a] = IF a = b THEN <<>> ELSE output[a]
    BY <1>3 DEF IInv, Typing
  <2>9. Typing'
    <3>1. output' \in [Batches -> Seq(Line)] /\ \A a \in Batches : Len(output'[a]) <= BatchSize
      <4>1. <<>> \in Seq(Line) /\ Len(<<>>) <= BatchSize
        BY ControllerAssumption
      <4>2. output \in [Batches -> Seq(Line)] /\ \A a \in Batches : Len(output[a]) <= BatchSize
        BY DEF IInv, Typing, TypeOK
      <4> QED BY <1>3, <2>8, <4>1, <4>2
    <3>2. section' \in 1..(Len(Sections') + 1) /\ base_sequence_' \in Nat
      BY <1>a, <1>1, <1>3 DEF IInv, Typing, TypeOK, mainVars
    <3>3. file' \in Seq(Line)
      BY <1>3, <2>7
    <3> QED BY <1>a, <1>1, <1>3, <2>1, <2>3, <3>1, <3>2, <3>3 DEF IInv, Typing, TypeOK, Items, mainVars
  <2>10. Phases'
    BY <1>a, <1>1, <1>3 DEF IInv, Phases, Top, mainVars
  <2>11. Apart'
    <3>1. UNCHANGED <<Once(local_read_), Once(fq), Once(oq), wbatch,
                      Has(local_read_), Has(fq), Has(oq), Busy>>
      BY <1>a, <1>1 DEF mainVars
    <3>2. Separate(Has(local_read_), Has(to_read_'), Has(fq), Has(oq), Has(ordering_'), Busy)
      <4>1. Separate(Has(local_read_), Has(to_read_), Has(fq), Has(oq), Has(ordering_), Busy)
        BY DEF IInv, Apart
      <4> QED BY <2>1, <2>2, <2>3, <4>1 DEF Separate
    <3>3. Separate(Has(local_read_'), Has(to_read_'), Has(fq'), Has(oq'), Has(ordering_'), Busy')
      BY <3>1, <3>2
    <3> QED BY <2>1, <2>3, <3>1, <3>3 DEF IInv, Apart
  <2>12. Blank'
    <3>1. UNCHANGED <<Has(local_read_), Has(fq), Busy>>
      BY <1>a, <1>1 DEF mainVars
    <3> QED BY <2>3, <2>8, <3>1, Shape DEF IInv, Blank
  <2>13. InOrder'
    <3>1. b \notin Filling
      <4>1. Filling \subseteq Has(local_read_)
        BY TopShape DEF Filling
      <4> QED BY <2>2, <4>1
    <3>2. Underway' = Underway \ {b}
      BY <1>a, <1>1, <2>1, <2>2, <3>1 DEF Underway, mainVars
    <3>3. \A a \in Underway \ {b} : Text'[a] = Text[a] /\ a \in Batches
      BY <1>a, <2>1, <2>8, OrderShape DEF Text, mainVars
    <3>4. Orderly(Underway \ {b}, Text, seq, file \o Text[b], Taken, base_sequence_ + 1, sequence_)
      BY <2>2, <2>5, <2>7, OrderShape, OrderlyEmit DEF IInv, InOrder
    <3>5. Orderly(Underway \ {b}, Text', seq, file \o Text[b], Taken, base_sequence_ + 1, sequence_)
      BY <3>3, <3>4, OrderlySame, Zenon
    <3> QED BY <1>a, <1>1, <1>3, <2>7, <3>2, <3>5 DEF InOrder, mainVars
  <2> QED BY <2>6, <2>9, <2>10, <2>11, <2>12, <2>13 DEF IInv
<1> QED BY <1>a, <1>2, <1>3

-----------------------------------------------------------------------------
(* The theorems                                                            *)

LEMMA InitIInv ==
  ASSUME Init
  PROVE  IInv
<1>1. /\ given \in Inputs /\ mpc = "read" /\ section = 1 /\ pos = 0
      /\ local_read_ = [k \in 1..Queue |-> Queue - k + 1] /\ sequence_ = 1
      /\ seq = [b \in Batches |-> 0] /\ input = [b \in Batches |-> <<>>]
      /\ to_read_ = <<>> /\ fq = <<>> /\ oq = <<>> /\ output = [b \in Batches |-> <<>>]
      /\ wpc = [w \in Workers |-> "idle"] /\ wbatch = [w \in Workers |-> None]
      /\ opc = "take" /\ ordering_ = <<>> /\ base_sequence_ = 0 /\ file = <<>>
  BY DEF Init
<1>2. /\ Queue \in Nat /\ Queue >= 1 /\ BatchSize \in Nat
      /\ Batches = 1..Queue /\ None \notin Batches /\ 1 \in Batches
      /\ Sections \in Seq(Nat) /\ Len(Sections) \in Nat /\ Arpa \in BOOLEAN
  BY <1>1, ControllerAssumption DEF Batches, Sections, Arpa
<1>3. /\ local_read_ \in Seq(Batches) /\ Len(local_read_) = Queue /\ DOMAIN local_read_ = 1..Queue
      /\ local_read_ # <<>> /\ Once(local_read_) /\ Has(local_read_) = Batches /\ Top \in Batches
  <2>1. \A k \in 1..Queue : Queue - k + 1 \in Batches /\ local_read_[k] = Queue - k + 1
    BY <1>1, <1>2
  <2>2. local_read_ \in [1..Queue -> Batches]
    BY <1>1, <2>1
  <2>3. local_read_ \in Seq(Batches) /\ Len(local_read_) = Queue /\ DOMAIN local_read_ = 1..Queue
    BY <1>2, <2>2
  <2>4. Once(local_read_)
    <3> SUFFICES ASSUME NEW j \in 1..Queue, NEW k \in 1..Queue, local_read_[j] = local_read_[k]
                 PROVE  j = k
      BY <2>3 DEF Once
    <3> QED BY <1>2, <2>1
  <2>5. Range(local_read_) = Batches
    <3>1. \A b \in Batches : Queue - b + 1 \in 1..Queue /\ local_read_[Queue - b + 1] = b
      <4> TAKE b \in Batches
      <4>1. Queue - b + 1 \in 1..Queue
        BY <1>2
      <4>2. local_read_[Queue - b + 1] = Queue - (Queue - b + 1) + 1
        BY <2>1, <4>1
      <4> QED BY <1>2, <4>1, <4>2
    <3> QED BY <2>1, <2>3, <3>1 DEF Range
  <2>6. local_read_ # <<>> /\ Top \in Batches
    BY <1>2, <2>3 DEF Top
  <2> QED BY <1>2, <2>3, <2>4, <2>5, <2>6 DEF Has
<1>4. /\ <<>> \in Seq(Batches) /\ <<>> \in Seq(Items) /\ Range(<<>>) = {} /\ Has(<<>>) = {} /\ Once(<<>>)
      /\ Len(<<>>) = 0 /\ <<>> \in Seq(Line)
  BY DEF Range, Has, Once
<1>5. Busy = {}
  BY <1>1 DEF Busy
<1>6. Typing
  <2>1. section \in 1..(Len(Sections) + 1) /\ pos \in Nat /\ sequence_ \in Nat /\ base_sequence_ \in Nat
    BY <1>1, <1>2
  <2>2. input \in [Batches -> Seq(Line)] /\ output \in [Batches -> Seq(Line)] /\ file \in Seq(Line)
    BY <1>1, <1>4
  <2>3. seq \in [Batches -> Nat] /\ wpc \in [Workers -> {"idle", "busy", "exited"}]
        /\ wbatch \in [Workers -> Batches \union {None}]
    BY <1>1
  <2>4. \A b \in Batches : Len(input[b]) <= BatchSize /\ Len(output[b]) <= BatchSize
    BY <1>1, <1>2, <1>4
  <2> QED BY <1>1, <1>3, <1>4, <2>1, <2>2, <2>3, <2>4 DEF Typing, TypeOK, Items
<1>7. Phases
  <2>1. seq[Top] = sequence_ - 1
    BY <1>1, <1>3
  <2>2. section <= Len(Sections) => Sections[section] \in Nat
    BY <1>1, <1>2
  <2>3. \A w \in Workers : wpc[w] # "exited" /\ wpc[w] # "busy" /\ wbatch[w] \notin Batches
    BY <1>1, <1>2
  <2> QED BY <1>1, <1>3, <1>4, <2>1, <2>2, <2>3 DEF Phases
<1>8. Apart
  BY <1>1, <1>2, <1>3, <1>4, <1>5 DEF Apart, Separate
<1>9. Indexed /\ Blank
  <2>1. Len(ordering_) = 0
    BY <1>1, <1>4
  <2>2. \A b \in Batches : output[b] = <<>>
    BY <1>1
  <2>3. Indexed
    BY <2>1 DEF Indexed
  <2>4. Has(to_read_) = {} /\ Has(fq) = {}
    BY <1>1, <1>4
  <2> QED BY <1>3, <1>5, <2>2, <2>3, <2>4 DEF Blank
<1>10. InOrder
  <2>1. Underway = {Top}
    BY <1>1, <1>4, <1>5 DEF Underway, Filling
  <2>2. Text[Top] = <<>> /\ seq[Top] = 0
    BY <1>1, <1>3, <1>4 DEF Text
  <2>3. Taken = {}
    <3>1. ASSUME NEW x \in Taken PROVE FALSE
      <4>1. x \in Lines /\ (x[1] < 1 \/ (x[1] = 1 /\ x[2] <= 0))
        BY <1>1 DEF Taken
      <4>2. PICK t \in 1..Len(Sections) : \E i \in 1..Size(t) : x = <<t, i>>
        BY <1>6, <4>1, LineShape
      <4>3. Size(t) \in Nat
        BY <1>2 DEF Size
      <4> QED BY <1>2, <4>1, <4>2, <4>3
    <3> QED BY <3>1
  <2>4. Sorted(<<>>) /\ Range(<<>>) = {}
    BY EmptyText
  <2> HIDE DEF Top
  <2> QED BY <1>1, <2>1, <2>2, <2>3, <2>4 DEF InOrder, Orderly, AllBefore
<1> QED BY <1>6, <1>7, <1>8, <1>9, <1>10 DEF IInv

LEMMA NextIInv ==
  ASSUME IInv, [Next]_vars
  PROVE  IInv'
<1>1. CASE UNCHANGED vars
  <2>1. UNCHANGED <<Sections, Arpa, Lines, Taken, Busy, Underway, Text>>
    BY <1>1 DEF vars, mainVars, outVars, workVars, Sections, Arpa, Lines, Taken, Busy, Underway, Text, Filling, Top
  <2>2. Typing'
    BY <1>1, <2>1 DEF vars, mainVars, outVars, workVars, IInv, Typing, TypeOK
  <2>3. Phases' /\ Apart' /\ Indexed' /\ Blank' /\ InOrder'
    BY <1>1, <2>1 DEF vars, mainVars, outVars, workVars, IInv, Phases, Apart, Indexed, Blank, InOrder, Top
  <2> QED BY <2>2, <2>3 DEF IInv
<1>2. CASE Main
  BY <1>2, AddNGramKeeps, FillBatchKeeps, RefillKeeps, BeginFlushKeeps, CollectKeeps, EndFlushKeeps,
     NextSectionKeeps, PoisonFilterKeeps, PoisonOutputKeeps, JoinOutputKeeps DEF Main
<1>3. ASSUME NEW w \in Workers, FilterWorker(w)
      PROVE  IInv'
  BY <1>3, FilterTakeKeeps, FilterDoneKeeps DEF FilterWorker
<1>4. CASE OutputWorker
  BY <1>4, OutputTakeKeeps, OutputFlushKeeps DEF OutputWorker
<1> QED BY <1>1, <1>2, <1>3, <1>4 DEF Next

\* The inductive invariant holds in every state.
LEMMA AlwaysIInv == Spec => []IInv
<1>1. Init => IInv
  BY InitIInv
<1>2. IInv /\ [Next]_vars => IInv'
  BY NextIInv
<1> QED BY <1>1, <1>2, PTL DEF Spec

\* A set of holders with one element.
LEMMA IInvOneHolder ==
  ASSUME IInv
  PROVE  OneHolder
<1>1. /\ 1..5 = {1, 2, 3, 4, 5}
      /\ Queues[1] = local_read_ /\ Queues[2] = to_read_ /\ Queues[3] = fq
      /\ Queues[4] = oq /\ Queues[5] = ordering_
  BY DEF Queues
<1>2. \A m \in 1..5 : Once(Queues[m])
  BY <1>1 DEF IInv, Apart
<1>3. ASSUME NEW b \in Batches
      PROVE  Cardinality(Holders(b)) = 1
  <2>1. \A q \in Seq(Items) : b \in Range(q) <=> b \in Has(q)
    BY Shape DEF Has
  <2>2. \A m \in 1..5 : b \in Range(Queues[m]) <=>
            \/ m = 1 /\ b \in Has(local_read_)
            \/ m = 2 /\ b \in Has(to_read_)
            \/ m = 3 /\ b \in Has(fq)
            \/ m = 4 /\ b \in Has(oq)
            \/ m = 5 /\ b \in Has(ordering_)
    BY <1>1, <2>1, Shape
  <2>3. /\ b \notin Busy => \A w \in Workers : wbatch[w] # b
        /\ b \in Busy => \E w \in Workers : wbatch[w] = b /\ \A v \in Workers : wbatch[v] = b => v = w
    BY DEF IInv, Apart, Phases, Busy
  <2>4. Separate(Has(local_read_), Has(to_read_), Has(fq), Has(oq), Has(ordering_), Busy)
    BY DEF IInv, Apart
  <2>5. \E h : Holders(b) = {h}
    <3>1. CASE b \in Busy
      <4>1. PICK w \in Workers : wbatch[w] = b /\ \A v \in Workers : wbatch[v] = b => v = w
        BY <2>3, <3>1
      <4>2. \A m \in 1..5 : b \notin Range(Queues[m])
        BY <2>2, <2>4, <3>1 DEF Separate
      <4>3. Holders(b) = {<<"worker", w>>}
        BY <4>1, <4>2 DEF Holders
      <4> QED BY <4>3
    <3>2. CASE b \notin Busy
      <4>1. \E m \in 1..5 : b \in Range(Queues[m]) /\ \A k \in 1..5 : b \in Range(Queues[k]) => k = m
        BY <1>1, <2>2, <2>4, <3>2 DEF Separate
      <4>2. PICK m \in 1..5 : b \in Range(Queues[m]) /\ \A k \in 1..5 : b \in Range(Queues[k]) => k = m
        BY <4>1
      <4>3. {v \in Workers : wbatch[v] = b} = {}
        BY <2>3, <3>2
      <4>4. {k \in 1..5 : b \in Range(Queues[k])} = {m}
        BY <4>2
      <4>5. Holders(b) = {<<"queue", m>>}
        BY <4>3, <4>4 DEF Holders
      <4> QED BY <4>5
    <3> QED BY <3>1, <3>2
  <2> QED BY <2>5, FS_Singleton
<1> QED BY <1>2, <1>3 DEF OneHolder

LEMMA IInvDistinct ==
  ASSUME IInv
  PROVE  DistinctSequences
<1> DEFINE underway == {b \in Batches : b \notin Range(local_read_) /\ b \notin Range(to_read_)}
<1>1. underway \subseteq Underway
  <2>1. Batches \subseteq Has(local_read_) \union Has(to_read_) \union Has(fq) \union Has(oq) \union Has(ordering_) \union Busy
    BY DEF IInv, Apart, Separate
  <2>2. Has(local_read_) \subseteq Range(local_read_) /\ Has(to_read_) \subseteq Range(to_read_)
    BY DEF Has
  <2> QED BY <2>1, <2>2 DEF Underway
<1>2. /\ \A b \in Underway : seq[b] >= base_sequence_
      /\ \A a, b \in Underway : seq[a] = seq[b] => a = b
  BY OrderShape DEF IInv, InOrder, Orderly
<1> QED BY <1>1, <1>2 DEF DistinctSequences

\* What BatchInv says holds in every state: a batch is in one place, so nobody fills it while
\* another works on it, and a batch that comes back to the output worker has a number not
\* before base_sequence_ (assert in thread.hh:75) and of its own.
THEOREM BatchesInOnePlace == Spec => []BatchInv
<1>1. IInv => BatchInv
  BY IInvOneHolder, IInvDistinct DEF BatchInv, IInv, Typing
<1> QED BY <1>1, AlwaysIInv, PTL

\* "Assemble the output in order" (thread.hh:76): whatever the order in which the filter
\* workers finish, the file is at any time what the input begins with.
THEOREM FileInOrder == Spec => []OutputInOrder
<1>1. ASSUME IInv PROVE OutputInOrder
  <2>1. /\ Sorted(file) /\ Range(file) \subseteq Taken /\ file \in Seq(Line)
        /\ \A x \in Taken : x \in Range(file) \/ \E b \in Underway : x \in Range(Text[b])
        /\ \A b \in Underway : AllBefore(file, Text[b])
    BY <1>1, OrderShape DEF IInv, InOrder, Orderly
  <2>2. \A k \in 1..Len(file) : file[k] \in Range(file)
    BY <2>1 DEF Range
  <2>3. Taken \subseteq Lines
    BY DEF Taken
  <2>4. ASSUME NEW k \in 1..Len(file), NEW x \in Lines, Precedes(x, file[k])
        PROVE  x \in Range(file)
    <3>1. x \in Line /\ file[k] \in Line /\ file[k] \in Taken
      BY <1>1, <2>1, <2>2, <2>3, LineShape DEF IInv
    <3>2. x \in Taken
      <4>1. section \in Nat /\ pos \in Nat
        BY <1>1, InputShape DEF IInv, Typing, TypeOK
      <4> QED BY <2>4, <3>1, <4>1 DEF Precedes, Taken, Line
    <3>3. ~Precedes(file[k], x)
      BY <2>4, <3>1, PrecedesAsymmetric
    <3> QED BY <2>1, <2>2, <3>2, <3>3 DEF AllBefore
  <2> QED BY <2>1, <2>2, <2>3, <2>4 DEF OutputInOrder, Sorted
<1> QED BY <1>1, AlwaysIInv, PTL

\* The end of a section is written when no batch is on its way: the reading thread and the
\* output worker, which share the file without a lock, never use it at the same time.
THEOREM SectionAfterOutput == Spec => EndAfterOutput
<1>1. ASSUME IInv, IInv', [Next]_vars, Arpa, section' # section
      PROVE  ~FrontReady /\ fq = <<>> /\ oq = <<>> /\ \A w \in Workers : wpc[w] = "idle"
  <2>1. EndFlush
    <3>1. AddNGram \/ FillBatch \/ Refill \/ BeginFlush \/ Collect \/ PoisonFilter \/ PoisonOutput \/ JoinOutput
             => section' = section
      BY DEF AddNGram, FillBatch, Refill, BeginFlush, Collect, PoisonFilter, PoisonOutput, JoinOutput
    <3>2. ~NextSection
      BY <1>1 DEF NextSection
    <3>3. \A w \in Workers : FilterWorker(w) => section' = section
      BY DEF FilterWorker, FilterTake, FilterDone, mainVars
    <3>4. OutputWorker => section' = section
      BY DEF OutputWorker, OutputTake, OutputFlush, mainVars
    <3>5. UNCHANGED vars => section' = section
      BY DEF vars, mainVars
    <3> QED BY <1>1, <3>1, <3>2, <3>3, <3>4, <3>5 DEF Next, Main
  <2>2. mpc = "collect" /\ Len(local_read_) = Queue
    BY <2>1 DEF EndFlush
  <2>3. Has(fq) = {} /\ Has(oq) = {} /\ Has(ordering_) = {} /\ Busy = {}
    BY <1>1, <2>2, AllBack
  <2>4. fq = <<>> /\ oq = <<>>
    <3>1. None \notin Range(fq) /\ None \notin Range(oq)
      BY <1>1, <2>2 DEF IInv, Phases
    <3>2. Range(fq) = {} /\ Range(oq) = {}
      BY <2>3, <3>1 DEF Has
    <3>3. ASSUME NEW q \in Seq(Items), Range(q) = {} PROVE q = <<>>
      <4>1. Len(q) \in Nat /\ DOMAIN q = 1..Len(q)
        OBVIOUS
      <4>2. \A k \in 1..Len(q) : q[k] \in Range(q)
        BY <4>1 DEF Range
      <4>3. Len(q) = 0
        BY <3>3, <4>1, <4>2
      <4> QED BY <4>3
    <3> QED BY <1>1, <3>2, <3>3, Shape
  <2>5. ~FrontReady
    <3>1. ordering_ # <<>> /\ Head(ordering_) # None => Head(ordering_) \in Has(ordering_)
      BY <1>1, Shape, HasTail
    <3> QED BY <2>3, <3>1 DEF FrontReady
  <2>6. \A w \in Workers : wpc[w] = "idle"
    <3>1. \A w \in Workers : wpc[w] \in {"idle", "busy", "exited"}
      BY <1>1 DEF IInv, Typing, TypeOK
    <3>2. \A w \in Workers : wpc[w] # "exited"
      BY <1>1, <2>2 DEF IInv, Phases
    <3>3. \A w \in Workers : wpc[w] = "busy" => wbatch[w] \in Busy
      BY DEF Busy
    <3> QED BY <2>3, <3>1, <3>2, <3>3
  <2> QED BY <2>4, <2>5, <2>6
<1>2. IInv /\ IInv' /\ [Next]_vars =>
        [Arpa /\ section' # section =>
           ~FrontReady /\ fq = <<>> /\ oq = <<>> /\ \A w \in Workers : wpc[w] = "idle"]_vars
  BY <1>1
<1> QED BY <1>2, AlwaysIInv, PTL DEF Spec, EndAfterOutput
=============================================================================
