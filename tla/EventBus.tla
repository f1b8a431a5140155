------------------------------ MODULE EventBus ------------------------------
(***************************************************************************)
(* One durable consumer of the JetStream stream "WHITE", as pkg/events     *)
(* configures it: explicit acks, a NAK with a delay when a handler fails,  *)
(* redelivery when the ack is late, at most MaxDeliver deliveries. Several *)
(* messages may be out at once, so they are handled in any order.          *)
(***************************************************************************)
EXTENDS Naturals, Sequences

CONSTANT MaxDeliver

ASSUME MaxDeliverAssumption == MaxDeliver \in Nat \ {0}

VARIABLE stream   \* the messages published, each with its delivery state

LetterStates == {"waiting", "out", "acked", "dropped"}

BusInit == stream = <<>>

Emit(msg) == stream' = Append(stream, [msg |-> msg, state |-> "waiting", tries |-> 0])

Waiting(k) == k \in DOMAIN stream /\ stream[k].state = "waiting"

Deliver(k) ==
  stream' = [stream EXCEPT ![k].state = "out", ![k].tries = @ + 1]

Ack(k) == stream' = [stream EXCEPT ![k].state = "acked"]

\* A NAK, or an ack that did not come in time: the message is delivered again
\* unless it has had all its deliveries. An acked message stays acked.
Return(k) ==
  stream' = [stream EXCEPT ![k].state =
    IF @ # "out" THEN @ ELSE IF stream[k].tries < MaxDeliver THEN "waiting" ELSE "dropped"]
=============================================================================
