-------------------------------- MODULE Channel --------------------------------
(***************************************************************************)
(* What a Pipe promises: a bounded first-in, first-out channel of bytes.   *)
(* A writer hands in a sequence, of which the channel accepts prefixes; an *)
(* interrupt hands in one byte; a reader is given the oldest bytes.        *)
(***************************************************************************)
EXTENDS Naturals, Sequences

CONSTANTS
  Byte,      \* the bytes
  Capacity,  \* the most bytes in flight
  Writes     \* the sequences a writer hands in

VARIABLES
  queue,     \* the bytes in flight, oldest first
  left,      \* the bytes of the write in progress not accepted yet
  got        \* the bytes of the last read

vars == <<queue, left, got>>

Init == queue = <<>> /\ left = <<>> /\ got = <<>>

Offer == left' \in Writes /\ UNCHANGED <<queue, got>>

Ask == got' = <<>> /\ UNCHANGED <<queue, left>>

Accept ==
  /\ \E n \in 1 .. Len(left) :
       /\ Len(queue) + n <= Capacity
       /\ queue' = queue \o SubSeq(left, 1, n)
       /\ left' = SubSeq(left, n + 1, Len(left))
  /\ UNCHANGED got

Push ==
  /\ Len(queue) < Capacity
  /\ \E b \in Byte : queue' = Append(queue, b)
  /\ UNCHANGED <<left, got>>

Deliver ==
  /\ \E n \in 1 .. Len(queue) :
       /\ got' = SubSeq(queue, 1, n)
       /\ queue' = SubSeq(queue, n + 1, Len(queue))
  /\ UNCHANGED left

Next == Offer \/ Ask \/ Accept \/ Push \/ Deliver

Spec == Init /\ [][Next]_vars
=============================================================================
