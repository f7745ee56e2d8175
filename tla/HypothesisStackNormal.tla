------------------------ MODULE HypothesisStackNormal ------------------------
(***************************************************************************)
(* moses/HypothesisStackNormal.cpp and the arc lists of                    *)
(* moses/Hypothesis.cpp: one stack of the phrase-based search.  The search *)
(* offers hypotheses to it with AddPrune while it expands the stacks       *)
(* before it; then Decode prunes it, cleans up the arc lists and expands   *)
(* what is left, after which nothing is added any more.                    *)
(*   Pruning is lazy.  Until Decode gets there the stack may hold twice    *)
(* what it should, and hypotheses that look too bad are thrown away at     *)
(* once, on the evidence of the scores seen so far.                        *)
(***************************************************************************)
EXTENDS Integers, FiniteSetsExt

CONSTANTS
  Addresses,   \* of hypotheses; bounds how many exist at a time
  Coverages,   \* source words covered
  States,      \* states of the feature functions
  Scores,      \* total scores, in logs
  LogZero,     \* minus infinity
  BeamWidth,   \* m_beamWidth, the log of -beam-threshold
  Settings,    \* records [size, diversity, nBest, discarding] to consider: -stack,
               \* -stack-diversity, the size of the n-best list (0: none), ~-disable-discarding
  DiversityRoom, \* 1 << the distortion limit: how many coverages the tolerated size allows for
  ArcFactor    \* arcs kept per n-best entry before a list is cut, 5 in the code

ASSUME StackAssumption ==
  /\ Addresses \subseteq Nat /\ IsFiniteSet(Addresses) /\ Scores \subseteq Int
  /\ IsFiniteSet(Coverages) /\ Coverages # {} /\ IsFiniteSet(States) /\ States # {}
  /\ LogZero \in Int /\ \A s \in Scores : LogZero < s + BeamWidth
  /\ BeamWidth \in Int /\ BeamWidth < 0
  /\ Settings \subseteq [size : Nat, diversity : Nat, nBest : Nat, discarding : BOOLEAN]
  /\ DiversityRoom \in Nat /\ ArcFactor \in Nat

Classes == Coverages \X States

VARIABLES
  static,                 \* of StaticData
  hypo,                   \* address -> hypothesis, Free where there is none
  m_hypos,                \* the addresses on the stack
  arcs,                   \* address -> its m_arcList
  m_bestScore, m_worstScore, m_diversityWorstScore,
  expanded,               \* Decode has come to this stack
  bestOf                  \* (history) the best score offered per class

vars == <<static, hypo, m_hypos, arcs, m_bestScore, m_worstScore, m_diversityWorstScore,
          expanded, bestOf>>

Free == [class |-> <<>>, score |-> LogZero]
Cov(h) == h.class[1]

Init ==
  /\ static \in Settings
  /\ hypo = [a \in Addresses |-> Free]
  /\ m_hypos = {}
  /\ arcs = [a \in Addresses |-> {}]
  /\ m_bestScore = LogZero /\ m_worstScore = LogZero
  /\ m_diversityWorstScore = [v \in Coverages |-> LogZero]
  /\ expanded = FALSE
  /\ bestOf = [c \in Classes |-> LogZero]

-----------------------------------------------------------------------------
(* Pruning.  A stack is a record of its hypotheses and of its limits:      *)
(* [on, worst, div].                                                       *)

\* The k best, in one of the orders that sort may choose among equals.
Best(k, S, h) ==
  {T \in kSubset(Min({k, Cardinality(S)}), S) :
     \A a \in T : \A b \in S \ T : h[a].score >= h[b].score}

\* For each coverage the best `diversity' of them.
DiverseSets(S, h) ==
  LET On(v) == {a \in S : Cov(h[a]) = v}
      Pick == {D \in SUBSET S : \A v \in Coverages : D \cap On(v) \in Best(static.diversity, On(v), h)}
  IN IF static.diversity = 0 THEN {{}} ELSE Pick

\* PruneToSize(size), which stack may come out of it.
Pruned(st, best, h) ==
  LET n == static.size
      Limit(D, v) ==
        LET mine == {a \in D : Cov(h[a]) = v}
        IN IF static.diversity > 0 /\ Cardinality(mine) = static.diversity
           THEN Min({h[a].score : a \in mine}) ELSE st.div[v]
      InBeam == {a \in st.on : h[a].score > best + BeamWidth}
      Filled(D, F) ==
        [on    |-> D \cup F,
         worst |-> IF F # {} /\ Cardinality(D \cup F) = n THEN Min({h[a].score : a \in F}) ELSE st.worst,
         div   |-> [v \in Coverages |-> Limit(D, v)]]
  IN  IF n = 0 \/ Cardinality(st.on) <= n THEN {st}
      ELSE UNION {{Filled(D, F) : F \in Best(Max({0, n - Cardinality(D)}), InBeam \ D, h)}
                  : D \in DiverseSets(st.on, h)}

\* FREEHYPO; an arc has no arcs of its own, AddArc took them.
Freed(h, ar, dead) ==
  [a \in Addresses |-> IF a \in dead \cup UNION {ar[d] : d \in dead} THEN Free ELSE h[a]]
ArcsWithout(ar, dead) == [a \in Addresses |-> IF a \in dead THEN {} ELSE ar[a]]

ToleratedSize == 2 * static.size - 1 + static.diversity * DiversityRoom

-----------------------------------------------------------------------------
(* AddPrune                                                                *)

\* (mutant) a new best score sets the limit, were it higher already or not
MutWorstWith(s) == IF s > m_bestScore THEN s + BeamWidth ELSE m_worstScore

\* A new best score takes the beam along.
WorstWith(s) ==
  IF s > m_bestScore /\ s + BeamWidth > m_worstScore THEN s + BeamWidth ELSE m_worstScore

\* Add: p has no equal among the rest, which are on the stack.
Add(h, ar, rest, p) ==
  LET s == h[p].score
      v == Cov(h[p])
      best == IF s > m_bestScore THEN s ELSE m_bestScore
      st == [on    |-> rest \cup {p},
             worst |-> WorstWith(s),
             div   |-> IF static.diversity = 1 /\ s > m_diversityWorstScore[v]
                       THEN [m_diversityWorstScore EXCEPT ![v] = s] ELSE m_diversityWorstScore]
      Kept == IF Cardinality(st.on) > ToleratedSize THEN Pruned(st, best, h) ELSE {st}
  IN  /\ \E k \in Kept :
           /\ m_hypos' = k.on
           /\ m_worstScore' = k.worst /\ m_diversityWorstScore' = k.div
           /\ hypo' = Freed(h, ar, st.on \ k.on)
           /\ arcs' = ArcsWithout(ar, st.on \ k.on)
      /\ m_bestScore' = best

\* (mutant) the limit of the coverage is not looked at
MutTooBad(new) == new.score = LogZero \/ (static.discarding /\ new.score < m_worstScore)

TooBad(new) ==
  \/ new.score = LogZero
  \/ /\ static.discarding /\ new.score < m_worstScore
     /\ ~(static.diversity > 0 /\ new.score >= m_diversityWorstScore[Cov(new)])

Equals(new) == {a \in m_hypos : hypo[a].class = new.class}

\* (mutant) the arcs of the loser stay with it
MutAddArc(ar, winner, loser) == [ar EXCEPT ![winner] = @ \cup {loser}]

\* Hypothesis::AddArc: the winner takes over the arcs of the loser, and the loser.
AddArc(ar, winner, loser) ==
  [ar EXCEPT ![winner] = @ \cup ar[loser] \cup {loser}, ![loser] = {}]

Discard(new) ==
  /\ TooBad(new)
  /\ UNCHANGED <<hypo, m_hypos, arcs, m_bestScore, m_worstScore, m_diversityWorstScore>>

AddNew(new, p) ==
  /\ ~TooBad(new) /\ Equals(new) = {}
  /\ Add([hypo EXCEPT ![p] = new], arcs, m_hypos, p)

\* (mutant) the worse of two equal ones is kept
MutReplaceEqual(new, p) ==
  /\ ~TooBad(new)
  /\ \E e \in Equals(new) :
       LET h == [hypo EXCEPT ![p] = new]
       IN  /\ new.score < hypo[e].score
           /\ IF static.nBest > 0
              THEN Add(h, AddArc(arcs, p, e), m_hypos \ {e}, p)
              ELSE Add(Freed(h, arcs, {e}), ArcsWithout(arcs, {e}), m_hypos \ {e}, p)

ReplaceEqual(new, p) ==
  /\ ~TooBad(new)
  /\ \E e \in Equals(new) :
       LET h == [hypo EXCEPT ![p] = new]
       IN  /\ new.score > hypo[e].score
           /\ IF static.nBest > 0
              THEN Add(h, AddArc(arcs, p, e), m_hypos \ {e}, p)
              ELSE Add(Freed(h, arcs, {e}), ArcsWithout(arcs, {e}), m_hypos \ {e}, p)

JoinEqual(new, p) ==
  /\ ~TooBad(new)
  /\ \E e \in Equals(new) :
       /\ new.score <= hypo[e].score
       /\ IF static.nBest > 0
          THEN /\ arcs' = AddArc(arcs, e, p)
               /\ hypo' = [hypo EXCEPT ![p] = new]
          ELSE UNCHANGED <<arcs, hypo>>
  /\ UNCHANGED <<m_hypos, m_bestScore, m_worstScore, m_diversityWorstScore>>

AddPrune(class, score) ==
  LET new == [class |-> class, score |-> score]
      unused == {a \in Addresses : hypo[a] = Free}
      p == Min(unused)
  IN  /\ ~expanded /\ unused # {}
      /\ bestOf' = [bestOf EXCEPT ![class] = Max({@, score})]
      /\ Discard(new) \/ AddNew(new, p) \/ ReplaceEqual(new, p) \/ JoinEqual(new, p)
      /\ UNCHANGED <<static, expanded>>

-----------------------------------------------------------------------------
\* CleanupArcList: a list that is too long is cut to the nBest best.
Cut(list, h) ==
  IF static.nBest > 0 /\ Cardinality(list) > ArcFactor * static.nBest
  THEN Best(static.nBest, list, h) ELSE {list}

\* Decode's turn of this stack, before the expansion.
Expand ==
  LET now == [on |-> m_hypos, worst |-> m_worstScore, div |-> m_diversityWorstScore]
  IN  /\ ~expanded /\ expanded' = TRUE
      /\ \E k \in Pruned(now, m_bestScore, hypo) :
           LET gone == m_hypos \ k.on
               left == ArcsWithout(arcs, gone)
           IN \E stay \in SUBSET UNION {left[a] : a \in k.on} :
                /\ \A a \in k.on : left[a] \cap stay \in Cut(left[a], hypo)
                /\ m_hypos' = k.on
                /\ m_worstScore' = k.worst /\ m_diversityWorstScore' = k.div
                /\ arcs' = [a \in Addresses |-> left[a] \cap stay]
                /\ hypo' = [a \in Addresses |->
                              IF a \in (UNION {left[b] : b \in k.on}) \ stay THEN Free
                              ELSE Freed(hypo, arcs, gone)[a]]
      /\ UNCHANGED <<static, m_bestScore, bestOf>>

Next == Expand \/ \E c \in Classes, s \in Scores \cup {LogZero} : AddPrune(c, s)

Spec == Init /\ [][Next]_vars

-----------------------------------------------------------------------------
(* Properties                                                              *)

TypeOK ==
  /\ static \in Settings
  /\ hypo \in [Addresses -> [class : Classes, score : Scores] \cup {Free}]
  /\ arcs \in [Addresses -> SUBSET Addresses]
  /\ m_bestScore \in Scores \cup {LogZero} /\ m_worstScore \in Int
  /\ m_diversityWorstScore \in [Coverages -> Scores \cup {LogZero}]
  /\ expanded \in BOOLEAN

\* Every hypothesis that has been created and not deleted is either on the stack or in the arc
\* list of exactly one that is; lists hold no deleted ones, and only ones that are equal to
\* their winner and not better.
Owned ==
  LET InArcs == UNION {arcs[w] : w \in Addresses}
  IN  /\ m_hypos \cap InArcs = {}
      /\ m_hypos \cup InArcs = {a \in Addresses : hypo[a] # Free}
      /\ \A v, w \in Addresses : v # w => arcs[v] \cap arcs[w] = {}
      /\ \A w \in Addresses : arcs[w] # {} => w \in m_hypos
      /\ \A w \in m_hypos : \A a \in arcs[w] :
           hypo[a].class = hypo[w].class /\ hypo[a].score <= hypo[w].score

Offered == {c \in Classes : bestOf[c] # LogZero}
BestOffered == Max({bestOf[c] : c \in Classes})

\* What must survive of all that was offered, had the stack been pruned only once and nothing
\* been discarded: the best of every class counts; for each coverage the best `diversity'; and
\* those among the best that fit beside them and are within the beam.  Room(T) is the places
\* that the classes in T take on the stack, when each coverage takes at least its quota.
OnCov(v) == {c \in Offered : c[1] = v}
AtLeast(S, c) == {d \in S : bestOf[d] >= bestOf[c]}
Quota(v) == Min({static.diversity, Cardinality(OnCov(v))})
Room(T) == UNION {{v} \X (1..Quota(v) \cup 1..Cardinality(T \cap OnCov(v))) : v \in Coverages}
MustSurvive ==
  {c \in Offered :
     \/ Cardinality(AtLeast(OnCov(c[1]), c)) <= static.diversity
     \/ /\ bestOf[c] > BestOffered + BeamWidth
        /\ \/ static.size = 0
           \/ Cardinality(Room(AtLeast(Offered, c))) <= static.size}

\* The stack, including its arcs: no two hypotheses on it are equal, and it grows no further
\* than lazy pruning allows, or the diversity asks for.
StackInv ==
  /\ TypeOK /\ Owned
  /\ \A a, b \in m_hypos : hypo[a].class = hypo[b].class => a = b
  /\ static.size > 0 => Cardinality(m_hypos) <= Max({ToleratedSize, Cardinality(Room({}))})

\* Lazy pruning and early discarding lose nothing: what a single pruning of everything that
\* was offered could not have dropped is on the stack when it is expanded, with its best score,
\* and no more than the size or the diversity asks for.
NothingGoodLost ==
  expanded =>
    /\ \A c \in MustSurvive : \E a \in m_hypos : hypo[a].class = c /\ hypo[a].score = bestOf[c]
    /\ static.size > 0 => Cardinality(m_hypos) <= Max({static.size, Cardinality(Room({}))})

\* m_bestScore is the best score offered, and a hypothesis with that score is on the stack at
\* all times (GetBestHypothesis), also of a stack that is read before its turn.
BestKept ==
  /\ m_bestScore = BestOffered
  /\ Offered # {} => \E a \in m_hypos : hypo[a].score = m_bestScore

\* The limits for early discarding rise only, and never above the best.
LimitsRise ==
  [][/\ m_worstScore' >= m_worstScore /\ m_worstScore' <= m_bestScore'
     /\ \A v \in Coverages : m_diversityWorstScore'[v] >= m_diversityWorstScore[v]]_vars
=============================================================================
