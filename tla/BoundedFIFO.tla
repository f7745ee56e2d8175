----------------------------- MODULE BoundedFIFO -----------------------------
(***************************************************************************)
(* What the users of util::PCQueue rely on: a queue of at most Size items  *)
(* that gives every item to one consumer, in the order of the puts.        *)
(***************************************************************************)
EXTENDS Naturals, Sequences

CONSTANTS Size, Producers, Consumers, Items, NoItem

VARIABLES
  items,   \* the queue
  got      \* the item each consumer took last

Init == items = <<>> /\ got = [c \in Consumers |-> NoItem]

Put == \E v \in Items : /\ Len(items) < Size
                        /\ items' = Append(items, v)
                        /\ UNCHANGED got

Get == \E c \in Consumers : /\ items # <<>>
                            /\ items' = Tail(items)
                            /\ got' = [got EXCEPT ![c] = Head(items)]

Spec == Init /\ [][Put \/ Get]_<<items, got>>
=============================================================================
