---------------------------- MODULE CollectorCalls ----------------------------
(***************************************************************************)
(* One OutputCollector and the tasks that call its Write, once for each of *)
(* the ids 0..Count-1 and in any order: m_mutex makes a call one action.   *)
(* The names keep clear of those of MosesMain, beside which the theorems   *)
(* about the collector stand (MosesMainProofs).                            *)
(***************************************************************************)
EXTENDS OutputCollector

CONSTANT Count

ASSUME CountAssumption == Count \in Nat

VARIABLES
  col,       \* the collector
  written    \* the ids whose Write has returned

callVars == <<col, written>>

CallIds == 0..(Count - 1)

CallsInit == col = EmptyCollector /\ written = {}

Write(id) ==
  /\ id \notin written
  /\ col' = Written(col, id)
  /\ written' = written \union {id}

AllWritten == written = CallIds /\ UNCHANGED callVars

CallsNext == (\E id \in CallIds : Write(id)) \/ AllWritten

CallsSpec == CallsInit /\ [][CallsNext]_callVars

-----------------------------------------------------------------------------
CallsTypeOK ==
  /\ col \in [next : Nat, held : SUBSET CallIds, out : Seq(CallIds)]
  /\ written \subseteq CallIds

\* The stream is the texts of 0, 1, 2... in this order, without gap or repetition,
\* whatever the order of the calls.
InOrder ==
  /\ Len(col.out) = col.next
  /\ \A k \in 1..Len(col.out) : col.out[k] = k - 1

\* Nothing is held that could be printed: a text waits only for a smaller id
\* whose Write has not been called, and every text is printed or held.
NothingHeldBack ==
  /\ col.next \notin written
  /\ written = (0..(col.next - 1)) \union col.held
  /\ \A i \in col.held : i > col.next

CollectorInv == CallsTypeOK /\ InOrder /\ NothingHeldBack

\* When every Write has returned the stream is complete.
Complete == written = CallIds => Len(col.out) = Count /\ col.held = {}
=============================================================================
