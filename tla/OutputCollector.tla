--------------------------- MODULE OutputCollector ---------------------------
(***************************************************************************)
(* The class of moses/OutputCollector.h, which puts the output of          *)
(* concurrent tasks in the order of the input.  A text is named by the     *)
(* sentence id it is written for, and a collector is a record              *)
(*   next  m_nextOutput, the id whose output the stream waits for          *)
(*   held  the keys of m_outputs and of m_debugs, two maps that are filled *)
(*         and emptied together: the texts saved for later                 *)
(*   out   what the stream has received, text by text                      *)
(***************************************************************************)
EXTENDS Naturals, Sequences

EmptyCollector == [next |-> 0, held |-> {}, out |-> <<>>]

\* The last id of the gapless run of held texts that follows id: where the loop
\* of Write ends.
LastOfRun(c, id) ==
  CHOOSE n \in {id} \union c.held :
    n >= id /\ (id + 1)..n \subseteq c.held /\ n + 1 \notin c.held

\* (mutant) m_nextOutput is advanced once for the whole run
MutWritten(c, id) ==
  IF id = c.next
  THEN LET last == LastOfRun(c, id)
       IN  [next |-> id + 1,
            held |-> c.held \ ((id + 1)..last),
            out  |-> c.out \o [k \in 1..(last - id + 1) |-> id + k - 1]]
  ELSE [c EXCEPT !.held = @ \union {id}]

\* Write(sourceId, output, debug)
Written(c, id) ==
  IF id = c.next
  THEN LET last == LastOfRun(c, id)
       IN  [next |-> last + 1,
            held |-> c.held \ ((id + 1)..last),
            out  |-> c.out \o [k \in 1..(last - id + 1) |-> id + k - 1]]
  ELSE [c EXCEPT !.held = @ \union {id}]
=============================================================================
