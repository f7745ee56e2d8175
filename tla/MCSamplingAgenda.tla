-------------------------- MODULE MCSamplingAgenda --------------------------
(* A small instance of SamplingAgenda: a phrase that is found three times and kept
   in the cache, and a rare one. *)
EXTENDS SamplingAgenda, TLC

MCOccurs == [often |-> << {"x"}, {}, {"x", "y"} >>, rare |-> << {"y"} >>]
MCEstimate == [often |-> 2, rare |-> 1]
MCFrequent == {"often"}
MCCalls(c1, c2) ==
  (c1 :> << <<"prep", "often">>, <<"lookup", "often">> >>)
  @@ (c2 :> << <<"lookup", "rare">>, <<"lookup", "often">> >>)
CONSTANTS c1, c2
MCCallsOf == MCCalls(c1, c2)
=============================================================================
