--------------------------- MODULE FilterController ---------------------------
(***************************************************************************)
(* The parallel language-model filter: lm/filter/thread.hh (Controller,    *)
(* FilterWorker, OutputWorker) on util/thread_pool.hh, driven by the       *)
(* reading loops of lm/filter/format.hh and arpa_io.hh.                    *)
(*                                                                         *)
(* The reading thread packs n-grams into batches and numbers them; filter  *)
(* workers take them in any order; one output worker writes them in the    *)
(* order of their numbers and gives the batches back.  The queues between  *)
(* them are BoundedFIFO queues of Queue items (see PCQueue).               *)
(***************************************************************************)
EXTENDS Naturals, FiniteSets, SequencesExt

CONSTANTS
  Workers,     \* the filter threads
  Queue,       \* number of batches and length of every queue
  BatchSize,
  Inputs,      \* the inputs: a format and the numbers of n-grams of order 1, 2, ...
  None         \* the poison, a NULL batch pointer

ASSUME ControllerAssumption ==
  /\ Queue \in Nat \ {0}
  /\ BatchSize \in Nat \ {0}
  /\ Inputs \subseteq [arpa : BOOLEAN, sections : Seq(Nat)]
  /\ None \notin 1..Queue

Batches == 1..Queue

VARIABLES
  given,        \* the input; the format is ARPA (Flush after each section) or count (never)
  mpc,          \* where the reading thread is
  section, pos, \* its position in the input
  local_read_,  \* the stack of batches it may fill; the top is being filled
  sequence_,    \* the next batch number
  seq,          \* the number of each batch
  input,        \* the n-grams of each batch
  output,       \* what the filter passed of each batch
  to_read_,     \* queue: output worker -> reading thread
  fq,           \* queue: reading thread -> filter workers
  oq,           \* queue: filter workers -> output worker
  wpc,          \* each filter worker: "idle", "busy" or "exited"
  wbatch,       \* the batch it works on, or None
  opc,          \* the output worker: "take", "flush" or "exited"
  ordering_,    \* its deque: batch or None for base_sequence_, base_sequence_ + 1...
  base_sequence_,
  file          \* what was written

mainVars == <<given, mpc, section, pos, local_read_, sequence_, seq, input>>
outVars  == <<opc, ordering_, base_sequence_, file>>
workVars == <<wpc, wbatch, output>>
vars == <<mainVars, to_read_, fq, oq, workVars, outVars>>

Sections == given.sections
Arpa == given.arpa

Top == Head(local_read_)
HasRoom(q) == Len(q) < Queue

\* A line of the output is an n-gram, named by its order and its place, or the end of a
\* section, which has the place after the last n-gram.
End(s) == <<s, Sections[s] + 1>>
Written(s) == [i \in 1..Sections[s] |-> <<s, i>>] \o (IF Arpa THEN <<End(s)>> ELSE <<>>)
Expected == FlattenSeq([s \in 1..Len(Sections) |-> Written(s)])

Init ==
  /\ given \in Inputs
  /\ mpc = "read" /\ section = 1 /\ pos = 0
  /\ local_read_ = [k \in 1..Queue |-> Queue - k + 1]
  /\ sequence_ = 1   \* the constructor has called NewInput
  /\ seq = [b \in Batches |-> 0]
  /\ input = [b \in Batches |-> <<>>]
  /\ to_read_ = <<>> /\ fq = <<>> /\ oq = <<>>
  /\ output = [b \in Batches |-> <<>>]
  /\ wpc = [w \in Workers |-> "idle"] /\ wbatch = [w \in Workers |-> None]
  /\ opc = "take" /\ ordering_ = <<>> /\ base_sequence_ = 0
  /\ file = <<>>

-----------------------------------------------------------------------------
(* The reading thread.                                                     *)

\* NewInput: input_ = &local_read_.top()->Fill(sequence_++); lines is what the
\* batches hold before it
NewInput(stack, lines) ==
  /\ sequence_' = sequence_ + 1
  /\ seq' = [seq EXCEPT ![Head(stack)] = sequence_]
  /\ input' = [lines EXCEPT ![Head(stack)] = <<>>]

NextNGram == <<section, pos + 1>>
Reading == mpc = "read" /\ section <= Len(Sections)

\* AddNGram when the batch does not become full
AddNGram ==
  /\ Reading /\ pos < Sections[section]
  /\ Len(input[Top]) + 1 < BatchSize
  /\ input' = [input EXCEPT ![Top] = Append(@, NextNGram)]
  /\ pos' = pos + 1
  /\ UNCHANGED <<given, mpc, section, local_read_, sequence_, seq, to_read_, fq, oq, workVars, outVars>>

\* AddNGram when it does: FlushInput, and NewInput unless no batch is left
FillBatch ==
  /\ Reading /\ pos < Sections[section]
  /\ Len(input[Top]) + 1 = BatchSize
  /\ HasRoom(fq)
  /\ fq' = Append(fq, Top)
  /\ pos' = pos + 1
  /\ local_read_' = Tail(local_read_)
  /\ LET filled == [input EXCEPT ![Top] = Append(@, NextNGram)]
     IN  IF local_read_' = <<>>
         THEN mpc' = "refill" /\ input' = filled /\ UNCHANGED <<sequence_, seq>>
         ELSE NewInput(local_read_', filled) /\ UNCHANGED mpc
  /\ UNCHANGED <<given, section, to_read_, oq, workVars, outVars>>

\* MoveRead in FlushInput, then NewInput
Refill ==
  /\ mpc = "refill" /\ to_read_ # <<>>
  /\ local_read_' = <<Head(to_read_)>>
  /\ to_read_' = Tail(to_read_)
  /\ NewInput(local_read_', input)
  /\ mpc' = "read"
  /\ UNCHANGED <<given, section, pos, fq, oq, workVars, outVars>>

MutBeginFlush ==   \* without local_read_.pop()
  /\ Reading /\ pos = Sections[section] /\ Arpa
  /\ IF input[Top] = <<>> THEN UNCHANGED fq ELSE HasRoom(fq) /\ fq' = Append(fq, Top)
  /\ mpc' = "collect"
  /\ UNCHANGED <<given, section, pos, local_read_, sequence_, seq, input, to_read_, oq, workVars, outVars>>

\* EndLength: Flush begins with FlushInput, which does nothing if no n-gram is in
\* the batch
BeginFlush ==
  /\ Reading /\ pos = Sections[section] /\ Arpa
  /\ IF input[Top] = <<>> THEN UNCHANGED <<fq, local_read_>>
     ELSE HasRoom(fq) /\ fq' = Append(fq, Top) /\ local_read_' = Tail(local_read_)
  /\ mpc' = "collect"
  /\ UNCHANGED <<given, section, pos, sequence_, seq, input, to_read_, oq, workVars, outVars>>

\* MoveRead until every batch is back
Collect ==
  /\ mpc = "collect" /\ Len(local_read_) < Queue
  /\ to_read_ # <<>>
  /\ local_read_' = <<Head(to_read_)>> \o local_read_
  /\ to_read_' = Tail(to_read_)
  /\ UNCHANGED <<given, mpc, section, pos, sequence_, seq, input, fq, oq, workVars, outVars>>

MutEndFlush ==   \* one batch short
  /\ mpc = "collect" /\ Len(local_read_) >= Queue - 1
  /\ NewInput(local_read_, input)
  /\ file' = Append(file, End(section))
  /\ section' = section + 1 /\ pos' = 0
  /\ mpc' = "read"
  /\ UNCHANGED <<given, local_read_, to_read_, fq, oq, workVars, opc, ordering_, base_sequence_>>

\* NewInput, and EndLength writes the end of the section
EndFlush ==
  /\ mpc = "collect" /\ Len(local_read_) = Queue
  /\ NewInput(local_read_, input)
  /\ file' = Append(file, End(section))
  /\ section' = section + 1 /\ pos' = 0
  /\ mpc' = "read"
  /\ UNCHANGED <<given, local_read_, to_read_, fq, oq, workVars, opc, ordering_, base_sequence_>>

\* The count format goes on without Flush
NextSection ==
  /\ Reading /\ pos = Sections[section] /\ ~Arpa
  /\ section' = section + 1 /\ pos' = 0
  /\ UNCHANGED <<given, mpc, local_read_, sequence_, seq, input, to_read_, fq, oq, workVars, outVars>>

\* The destructor of Controller: filter_ is destroyed first.  Each pool sends one
\* poison per worker and joins them.
Poisons == Len(SelectSeq(fq, LAMBDA b : b = None))
           + Cardinality({w \in Workers : wpc[w] = "exited"})

PoisonFilter ==
  /\ \/ mpc = "read" /\ section > Len(Sections)
     \/ mpc = "close"
  /\ Poisons < Cardinality(Workers) /\ HasRoom(fq)
  /\ fq' = Append(fq, None)
  /\ mpc' = "close"
  /\ UNCHANGED <<given, section, pos, local_read_, sequence_, seq, input, to_read_, oq, workVars, outVars>>

PoisonOutput ==
  /\ mpc = "close"
  /\ \A w \in Workers : wpc[w] = "exited"
  /\ HasRoom(oq)
  /\ oq' = Append(oq, None)
  /\ mpc' = "join"
  /\ UNCHANGED <<given, section, pos, local_read_, sequence_, seq, input, to_read_, fq, workVars, outVars>>

JoinOutput ==
  /\ mpc = "join" /\ opc = "exited"
  /\ mpc' = "done"
  /\ UNCHANGED <<given, section, pos, local_read_, sequence_, seq, input, to_read_, fq, oq, workVars, outVars>>

-----------------------------------------------------------------------------
(* The filter workers and the output worker.                               *)

FilterTake(w) ==
  /\ wpc[w] = "idle" /\ fq # <<>>
  /\ wpc' = [wpc EXCEPT ![w] = IF Head(fq) = None THEN "exited" ELSE "busy"]
  /\ wbatch' = [wbatch EXCEPT ![w] = Head(fq)]
  /\ fq' = Tail(fq)
  /\ UNCHANGED <<mainVars, output, to_read_, oq, outVars>>

\* CallFilter, and Produce to the output worker
FilterDone(w) ==
  LET b == wbatch[w]
  IN  /\ wpc[w] = "busy" /\ HasRoom(oq)
      /\ output' = [output EXCEPT ![b] = @ \o input[b]]
      /\ oq' = Append(oq, b)
      /\ wpc' = [wpc EXCEPT ![w] = "idle"]
      /\ wbatch' = [wbatch EXCEPT ![w] = None]
      /\ UNCHANGED <<mainVars, to_read_, fq, outVars>>

MutOutputTake ==   \* in the order of arrival
  /\ opc = "take" /\ oq # <<>>
  /\ oq' = Tail(oq)
  /\ IF Head(oq) = None THEN opc' = "exited" /\ UNCHANGED ordering_
     ELSE opc' = "flush" /\ ordering_' = Append(ordering_, Head(oq))
  /\ UNCHANGED <<mainVars, to_read_, fq, workVars, base_sequence_, file>>

\* ordering_[request->Sequence() - base_sequence_] = request, the deque growing
\* with NULLs as needed
OutputTake ==
  /\ opc = "take" /\ oq # <<>>
  /\ oq' = Tail(oq)
  /\ IF Head(oq) = None THEN opc' = "exited" /\ UNCHANGED ordering_
     ELSE LET at == seq[Head(oq)] - base_sequence_ + 1
              size == IF at > Len(ordering_) THEN at ELSE Len(ordering_)
          IN  /\ ordering_' = [k \in 1..size |-> IF k = at THEN Head(oq)
                                                 ELSE IF k > Len(ordering_) THEN None
                                                 ELSE ordering_[k]]
              /\ opc' = "flush"
  /\ UNCHANGED <<mainVars, to_read_, fq, workVars, base_sequence_, file>>

FrontReady == ordering_ # <<>> /\ Head(ordering_) # None

MutOutputFlush ==   \* if instead of while
  /\ opc = "flush" /\ opc' = "take"
  /\ IF FrontReady /\ HasRoom(to_read_)
     THEN /\ file' = file \o output[Head(ordering_)]
          /\ output' = [output EXCEPT ![Head(ordering_)] = <<>>]
          /\ to_read_' = Append(to_read_, Head(ordering_))
          /\ ordering_' = Tail(ordering_)
          /\ base_sequence_' = base_sequence_ + 1
     ELSE UNCHANGED <<file, output, to_read_, ordering_, base_sequence_>>
  /\ UNCHANGED <<mainVars, fq, oq, wpc, wbatch>>

OutputFlush ==
  /\ opc = "flush"
  /\ \/ /\ FrontReady /\ HasRoom(to_read_)
        /\ file' = file \o output[Head(ordering_)]
        /\ output' = [output EXCEPT ![Head(ordering_)] = <<>>]
        /\ to_read_' = Append(to_read_, Head(ordering_))
        /\ ordering_' = Tail(ordering_)
        /\ base_sequence_' = base_sequence_ + 1
        /\ UNCHANGED opc
     \/ /\ ~FrontReady
        /\ opc' = "take"
        /\ UNCHANGED <<file, output, to_read_, ordering_, base_sequence_>>
  /\ UNCHANGED <<mainVars, fq, oq, wpc, wbatch>>

-----------------------------------------------------------------------------
Main == \/ AddNGram \/ FillBatch \/ Refill \/ BeginFlush \/ Collect \/ EndFlush
        \/ NextSection \/ PoisonFilter \/ PoisonOutput \/ JoinOutput
FilterWorker(w) == FilterTake(w) \/ FilterDone(w)
OutputWorker == OutputTake \/ OutputFlush

Next == \/ Main
        \/ \E w \in Workers : FilterWorker(w)
        \/ OutputWorker
        \/ mpc = "done" /\ UNCHANGED vars

Spec == Init /\ [][Next]_vars

\* The operating system schedules every thread that can run.
FairSpec == Spec /\ WF_vars(Main) /\ (\A w \in Workers : WF_vars(FilterWorker(w)))
                 /\ WF_vars(OutputWorker)

-----------------------------------------------------------------------------
TypeOK ==
  /\ given \in Inputs
  /\ mpc \in {"read", "refill", "collect", "close", "join", "done"}
  /\ section \in 1..(Len(Sections) + 1) /\ pos \in Nat
  /\ local_read_ \in Seq(Batches) /\ to_read_ \in Seq(Batches)
  /\ fq \in Seq(Batches \union {None}) /\ oq \in Seq(Batches \union {None})
  /\ wpc \in [Workers -> {"idle", "busy", "exited"}]
  /\ wbatch \in [Workers -> Batches \union {None}]
  /\ opc \in {"take", "flush", "exited"}
  /\ ordering_ \in Seq(Batches \union {None})
  /\ sequence_ \in Nat /\ base_sequence_ \in Nat
  /\ seq \in [Batches -> Nat]
  /\ \A b \in Batches : Len(input[b]) <= BatchSize /\ Len(output[b]) <= BatchSize

Lines == UNION {{<<s, i>> : i \in 1..(Sections[s] + (IF Arpa THEN 1 ELSE 0))} : s \in 1..Len(Sections)}
Precedes(x, y) == x[1] < y[1] \/ (x[1] = y[1] /\ x[2] < y[2])

\* "Assemble the output in order" (thread.hh:76): the file is at any time what the input
\* begins with, although the batches come back in any order and are reused: its lines are
\* in the order of the input, and no line that precedes one of them is missing.
OutputInOrder ==
  /\ \A k \in 1..Len(file) : file[k] \in Lines
  /\ \A j, k \in 1..Len(file) : j < k => Precedes(file[j], file[k])
  /\ \A k \in 1..Len(file) : \A x \in Lines : Precedes(x, file[k]) => x \in Range(file)

\* A batch is in one place: with the reader, in a queue, with a worker, waiting for
\* its turn.  So it is never refilled while somebody works on it.
Queues == <<local_read_, to_read_, fq, oq, ordering_>>
Once(q) == \A j, k \in 1..Len(q) : q[j] = q[k] /\ q[j] # None => j = k
Holders(b) ==
  {<<"queue", n>> : n \in {m \in 1..5 : b \in Range(Queues[m])}}
    \union {<<"worker", w>> : w \in {v \in Workers : wbatch[v] = b}}
OneHolder ==
  /\ \A n \in 1..5 : Once(Queues[n])
  /\ \A b \in Batches : Cardinality(Holders(b)) = 1

\* assert(request->Sequence() >= base_sequence_) (thread.hh:75), and no two batches
\* under way have the same number: a batch never lands on a place already taken.
DistinctSequences ==
  LET underway == {b \in Batches : b \notin Range(local_read_) /\ b \notin Range(to_read_)}
  IN  /\ \A b \in underway : seq[b] >= base_sequence_
      /\ \A a, b \in underway : a # b => seq[a] # seq[b]

\* The batches: where they are, and that their numbers tell them apart.
BatchInv == TypeOK /\ OneHolder /\ DistinctSequences

\* The reading thread and the output worker never use the file at the same time:
\* the end of a section is written when nothing is left to flush.
EndAfterOutput ==
  [][Arpa /\ section' # section =>
       ~FrontReady /\ fq = <<>> /\ oq = <<>> /\ \A w \in Workers : wpc[w] = "idle"]_vars

\* The filter terminates with the whole input in the file, but for what was in a batch that
\* was not full at the end of a count file: nobody calls Flush for it.
Whole == IF Arpa THEN Expected ELSE SubSeq(Expected, 1, (Len(Expected) \div BatchSize) * BatchSize)
Completes == <>(mpc = "done" /\ file = Whole)
=============================================================================
