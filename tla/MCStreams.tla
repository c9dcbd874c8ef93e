-------------------------------- MODULE MCStreams --------------------------------
(***************************************************************************)
(* A pipe of two bytes whose indices wrap at four, written three bytes at  *)
(* a time, or none.                                                        *)
(***************************************************************************)
EXTENDS Streams, TLC

CONSTANTS a, b

MCWrites == {<<>>, <<a, b, a>>}

Alone(f) == [nap |-> Never, rest |-> f]
Joined(d, f) == [nap |-> d, rest |-> f]

Program(p, reads, waits, futures) ==
  [producer |-> p, reads |-> reads, limits |-> {2, Never},
   waits   |-> writer :> waits \cap {1} @@ reader :> waits,
   futures |-> writer :> futures \cap {Alone("Move")} @@ reader :> futures]

\* Blocking and async transfers from a task, and both from an interrupt; a read
\* joined to a Sleep; an event joined to one, and blocking calls in a poll.
MCPrograms ==
  {Program(writer, {1, 2}, {1, Never}, {}),
   Program(writer, {0, 2}, {}, {Alone("Move")}),
   Program(isr, {0, 1, 2}, {1, Never}, {Alone("Move")}),
   Program(isr, {0, 2}, {}, {Joined(3, "Move")}),
   Program(isr, {1}, {}, {Joined(2, "Event"), Alone("Block")})}

\* A Sleep joined to a future whose poll makes a blocking call.
BlockingPrograms == {Program(isr, {1}, {}, {Joined(2, "Block")})}
=============================================================================
