------------------------ MODULE PhraseCollectionCache ------------------------
(***************************************************************************)
(* moses/TranslationModel/UG/mmsapt.cpp: Mmsapt caches the target phrase   *)
(* collections it has built.  A collection (wrapper) is shared between the *)
(* sentences that hold it (refCount), the map m_cache, and the history, a  *)
(* heap in an array, ordered by the time of the last use, of bounded size. *)
(* It is deleted when nobody holds it and it is not, or no more, in the    *)
(* history.  Sentences are decoded in several threads; every access is     *)
(* under Mmsapt::lock, but looking for a collection and storing a new one  *)
(* are two critical sections, with the sampling in between.                *)
(***************************************************************************)
EXTENDS Integers, SequencesExt, FiniteSetsExt

CONSTANTS
  Sentences,
  Keys,           \* phrasekey
  Capacity,       \* m_history.capacity()
  MaxWrappers,    \* bound: collections that exist at a time
  MaxHeld,        \* bound: collections a sentence holds
  MaxRevision,    \* bound: sentence pairs added to the dynamic bitext
  ClockSteps,     \* by how much a use can be later than the latest of the others.  The clock is
                  \* that of the wall (gettimeofday): it may stand still or be set back.
  NoKey

ASSUME CacheAssumption ==
  /\ Capacity \in Nat /\ MaxWrappers \in Nat /\ MaxHeld \in Nat /\ MaxRevision \in Nat
  /\ ClockSteps \subseteq Int /\ NoKey \notin Keys

VARIABLES
  wrapper,     \* the TargetPhraseCollectionWrappers, `live' until deleted
  m_cache,     \* key -> wrapper, 0 if there is none
  m_history,   \* wrappers; the place 0 of the code is 1 here
  revision,    \* of btdyn
  lookup,      \* per client: the key it looks for, the revision it has read, where it is
  held,        \* per client: what the InputPaths of its sentence hold
  clock        \* how it has behaved so far: it "advances" with every use, it once "stands" still
               \* between two, or it is "set back"

cacheVars == <<wrapper, m_cache, m_history, revision, lookup, held, clock>>

Wrappers == 1..MaxWrappers
Deleted == [live |-> FALSE, key |-> NoKey, revision |-> 0, refCount |-> 0, tstamp |-> 0, idx |-> -1]

NoLookup == [pc |-> "idle", key |-> NoKey, revision |-> 0]

CacheInit ==
  /\ wrapper = [p \in Wrappers |-> Deleted]
  /\ m_cache = [k \in Keys |-> 0]
  /\ m_history = <<>>
  /\ revision = 0
  /\ lookup = [c \in Sentences |-> NoLookup]
  /\ held = [c \in Sentences |-> <<>>]
  /\ clock = "advances"

-----------------------------------------------------------------------------
(* The heap.  Its state is a record of the array v and the wrappers w,     *)
(* which know their place (idx).  HistoryPlaces are those of the code, from 0.    *)

At(h, k) == h.v[k + 1]
Stamp(h, k) == h.w[At(h, k)].tstamp
\* (mutant) only one of the two gets to know its new place
MutSwapped(h, i, k) ==
  [v |-> [h.v EXCEPT ![i + 1] = At(h, k), ![k + 1] = At(h, i)],
   w |-> [h.w EXCEPT ![At(h, k)].idx = i]]
Swapped(h, i, k) ==
  [v |-> [h.v EXCEPT ![i + 1] = At(h, k), ![k + 1] = At(h, i)],
   w |-> [h.w EXCEPT ![At(h, k)].idx = i, ![At(h, i)].idx = k]]

\* bubble_up has the two exchange the places they know, bubble_down tells each its own.
Exchanged(h, i, k) ==
  [v |-> [h.v EXCEPT ![i + 1] = At(h, k), ![k + 1] = At(h, i)],
   w |-> [h.w EXCEPT ![At(h, k)].idx = h.w[At(h, i)].idx, ![At(h, i)].idx = h.w[At(h, k)].idx]]

\* The loop of bubble_up, with no more turns than there are places above the start.
BubbleUp(h, start) ==
  LET turn[n \in 0..start] ==
        IF n = 0 THEN [h |-> h, at |-> start]
        ELSE LET t == turn[n - 1]
             IN IF t.at > 0 /\ Stamp(t.h, t.at) < Stamp(t.h, t.at \div 2)
                THEN [h |-> Exchanged(t.h, t.at, t.at \div 2), at |-> t.at \div 2] ELSE t
  IN  IF start >= Len(h.v) THEN h ELSE turn[start].h

\* The child that bubble_down compares with: the right one unless it is missing or younger.
SmallerChild(h, k) ==
  LET l == 2 * k + 1
      r == 2 * k + 2
  IN IF r >= Len(h.v) \/ Stamp(h, l) < Stamp(h, r) THEN l ELSE r

\* (mutant) the newcomer stays where the oldest was
MutBubbleDown(h, start) == [h EXCEPT !.w[At(h, start)].idx = start]

BubbleDown(h, start) ==
  LET turn[n \in 0..Len(h.v)] ==
        IF n = 0 THEN [h |-> h, at |-> start]
        ELSE LET t == turn[n - 1]
                 j == SmallerChild(t.h, t.at)
             IN IF 2 * t.at + 1 < Len(t.h.v) /\ Stamp(t.h, j) < Stamp(t.h, t.at)
                THEN [h |-> Swapped(t.h, t.at, j), at |-> j] ELSE t
  IN  turn[Len(h.v)].h

-----------------------------------------------------------------------------
\* (mutant) whether somebody holds it is not looked at
MutDecached(w, cache, p) ==
  IF w[p].idx >= 0 THEN [w |-> w, cache |-> cache]
  ELSE [w |-> [w EXCEPT ![p] = Deleted],
        cache |-> IF cache[w[p].key] = p THEN [cache EXCEPT ![w[p].key] = 0] ELSE cache]

\* decache: nothing while somebody holds it or it is in the history.
Decached(w, cache, p) ==
  IF w[p].refCount > 0 \/ w[p].idx >= 0 THEN [w |-> w, cache |-> cache]
  ELSE [w |-> [w EXCEPT ![p] = Deleted],
        cache |-> IF cache[w[p].key] = p THEN [cache EXCEPT ![w[p].key] = 0] ELSE cache]

\* (mutant) what leaves the history is not looked at again
MutReplaced(w, cache, p) ==
  LET h == BubbleDown([v |-> [m_history EXCEPT ![1] = p],
                       w |-> [w EXCEPT ![Head(m_history)].idx = -1]], 0)
  IN  [w |-> h.w, v |-> h.v, cache |-> cache]

\* What encache(p) makes of the history: p goes to its place by the time of its use; if the
\* history is full the wrapper at its top has to leave.
Replaced(w, cache, p) ==
  LET top == Head(m_history)
      out == Decached([w EXCEPT ![top].idx = -1], cache, top)
      h   == BubbleDown([v |-> [m_history EXCEPT ![1] = p], w |-> out.w], 0)
  IN  [w |-> h.w, v |-> h.v, cache |-> out.cache]

Encached(w0, cache, p, time) ==
  LET w == [w0 EXCEPT ![p].refCount = @ + 1, ![p].tstamp = time]
      k == 2 * (w[p].idx + 1)
      seen == [v |-> m_history, w |-> w]
      added == [v |-> Append(m_history, p), w |-> [w EXCEPT ![p].idx = Len(m_history)]]
      Plain(h) == [w |-> h.w, v |-> h.v, cache |-> cache]
  IN  CASE Capacity <= 1 -> Plain(seen)
        [] Capacity > 1 /\ w[p].idx >= 0 ->
             LET right == BubbleUp(seen, k)  \* k is decremented only if this call was made
             IN Plain(BubbleUp(right, IF k < Len(m_history) THEN k - 1 ELSE k))
        [] Capacity > 1 /\ w[p].idx < 0 /\ Len(m_history) < Capacity ->
             Plain(BubbleUp(added, Len(m_history)))
        [] OTHER -> Replaced(w, cache, p)

\* Only the times in the history are compared, and no more is known of them than their order:
\* they are numbered from the oldest, with room for a time between each two of them.
Latest == Max({wrapper[p].tstamp : p \in Wrappers})
Renumbered(w, v) ==
  LET times == {w[p].tstamp : p \in Range(v)}
      Number(p) == 2 * Cardinality({t \in times : t < w[p].tstamp})
  IN [p \in Wrappers |-> [w[p] EXCEPT !.tstamp = IF p \in Range(v) THEN Number(p) ELSE 0]]

Observed(step) ==
  IF step < 0 THEN "set back" ELSE IF step = 0 /\ clock = "advances" THEN "stands" ELSE clock

\* Nothing in the history has been deleted.  If something has, a use may read it or write to it,
\* and what the code does then is undefined: the model goes no further than that (Undefined).
Intact == \A k \in DOMAIN m_history : wrapper[m_history[k]].live

Use(c, w, cache, p) ==
  /\ Intact
  /\ \E step \in ClockSteps :
       LET e == Encached(w, cache, p, Latest + step)
       IN  /\ wrapper' = Renumbered(e.w, e.v) /\ m_history' = e.v /\ m_cache' = e.cache
           /\ clock' = Observed(step)
  /\ held' = [held EXCEPT ![c] = Append(@, p)]
  /\ lookup' = [lookup EXCEPT ![c] = NoLookup]

-----------------------------------------------------------------------------
Begin(c, k) ==  \* a copy of btdyn, whose revision counts from here on
  /\ lookup[c].pc = "idle" /\ Len(held[c]) < MaxHeld
  /\ lookup' = [lookup EXCEPT ![c] = [pc |-> "find", key |-> k, revision |-> revision]]
  /\ UNCHANGED <<wrapper, m_cache, m_history, revision, held, clock>>

Usable(c) ==
  LET p == m_cache[lookup[c].key]
  IN p # 0 /\ wrapper[p].revision = lookup[c].revision

Hit(c) ==
  /\ lookup[c].pc = "find" /\ Usable(c)
  /\ Use(c, wrapper, m_cache, m_cache[lookup[c].key])
  /\ UNCHANGED revision

Miss(c) ==
  /\ lookup[c].pc = "find" /\ ~Usable(c)
  /\ lookup' = [lookup EXCEPT ![c].pc = "build"]
  /\ UNCHANGED <<wrapper, m_cache, m_history, revision, held, clock>>

\* The new collection replaces whatever has come into the cache in the meantime.
Store(c) ==
  LET pointedTo == Range(m_history) \cup Range(m_cache) \cup UNION {Range(held[d]) : d \in Sentences}
      unused == {q \in Wrappers : ~wrapper[q].live} \ pointedTo
      p == Min(unused)
      new == [live |-> TRUE, key |-> lookup[c].key, revision |-> lookup[c].revision,
              refCount |-> 0, tstamp |-> 0, idx |-> -1]
  IN  /\ lookup[c].pc = "build"
      /\ unused # {}
      /\ Use(c, [wrapper EXCEPT ![p] = new], [m_cache EXCEPT ![lookup[c].key] = p], p)
      /\ UNCHANGED revision

ReleaseCollection(c, i) ==  \* ~InputPath
  LET p == held[c][i]
      w == [wrapper EXCEPT ![p].refCount = @ - 1]
      d == Decached(w, m_cache, p)
  IN  /\ lookup[c].pc = "idle"
      /\ wrapper' = d.w /\ m_cache' = d.cache
      /\ held' = [held EXCEPT ![c] = RemoveAt(@, i)]
      /\ UNCHANGED <<m_history, revision, lookup, clock>>

AddSentencePair ==  \* Mmsapt::add, a new dynamic bitext
  /\ revision < MaxRevision
  /\ revision' = revision + 1
  /\ UNCHANGED <<wrapper, m_cache, m_history, lookup, held, clock>>

Undefined == ~Intact /\ UNCHANGED cacheVars

CacheNext ==
  \/ \E c \in Sentences :
       \/ \E k \in Keys : Begin(c, k)
       \/ Hit(c) \/ Miss(c) \/ Store(c)
       \/ \E i \in DOMAIN held[c] : ReleaseCollection(c, i)
  \/ AddSentencePair
  \/ Undefined

CacheSpec == CacheInit /\ [][CacheNext]_cacheVars

-----------------------------------------------------------------------------
(* Properties                                                              *)
HistoryPlaces == 1..Len(m_history)
Holds(p) == UNION {{<<c, i>> : i \in {j \in DOMAIN held[c] : held[c][j] = p}} : c \in Sentences}

CacheTypeOK ==
  /\ \A p \in Wrappers :
       wrapper[p] \in [live : BOOLEAN, key : Keys \cup {NoKey}, revision : 0..MaxRevision,
                       refCount : Nat, tstamp : Nat, idx : Int]
  /\ m_cache \in [Keys -> 0..MaxWrappers]
  /\ Len(m_history) <= Capacity /\ \A k \in HistoryPlaces : m_history[k] \in Wrappers
  /\ \A c \in Sentences : \A i \in DOMAIN held[c] : held[c][i] \in Wrappers

\* A collection that a sentence holds is not deleted, and its reference count is the number of
\* those who hold it.
HeldAlive ==
  /\ CacheTypeOK
  /\ \A p \in Wrappers : /\ Holds(p) # {} => wrapper[p].live
                         /\ wrapper[p].refCount = Cardinality(Holds(p))

\* assert(ptr == v[ptr->idx]), and the other way round: what the history points to exists and
\* knows its place, and what the cache points to exists.  bubble_down tells a new collection its
\* place only when it moves down, which it does if it is later than what is below it; if the
\* clock has not always advanced, the one at the top may therefore not know that it is there,
\* and may then be deleted.
Knows(k) == wrapper[m_history[k]].live /\ wrapper[m_history[k]].idx = k - 1
HistorySound ==
  /\ \A k \in HistoryPlaces :
       Knows(k) \/ (k = 1 /\ clock # "advances" /\ wrapper[m_history[k]].idx = -1)
  /\ \A p \in Wrappers : wrapper[p].idx >= 0 => /\ wrapper[p].idx + 1 \in HistoryPlaces
                                              /\ m_history[wrapper[p].idx + 1] = p
  /\ \A k \in Keys : m_cache[k] # 0 => wrapper[m_cache[k]].live

\* Without a holder a collection exists only as long as the history keeps it.
NothingLeaks ==
  \A p \in Wrappers :
    wrapper[p].live => wrapper[p].refCount > 0 \/ \E k \in HistoryPlaces : m_history[k] = p

\* The history is not in the order of last use (bubble_up and bubble_down do not agree on who
\* is whose parent), so what leaves it need not be the oldest; but unless the clock has been set
\* back, some other that stays was used as late: it is never the one used last.
Leaves(k) == \A l \in 1..Len(m_history') : m_history[k] # m_history'[l]
UsedAsLate(k) ==
  \E o \in HistoryPlaces \ {k} : wrapper[m_history[k]].tstamp <= wrapper[m_history[o]].tstamp
NewestStays ==
  [][\A k \in HistoryPlaces : Leaves(k) => UsedAsLate(k) \/ clock = "set back"]_cacheVars
=============================================================================
