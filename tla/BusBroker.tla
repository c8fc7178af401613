----------------------------- MODULE BusBroker -----------------------------
(***************************************************************************)
(* RabbitMQ as the three bus runtimes use it: one durable work queue, the   *)
(* retry tiers that dead-letter back into it, and the dead-letter queue.    *)
(* The broker itself is not in the repository; every operator here is what  *)
(* queue/bus/topology.go declares and what dispatch.go, consumer.go and     *)
(* broker.go ask of it.                                                     *)
(*                                                                          *)
(* A copy is one enqueued instance of an envelope.  Copies are numbered in  *)
(* the order in which the broker accepted them and a number is never        *)
(* reused, so "a later copy of the same message" is a comparison.           *)
(***************************************************************************)
EXTENDS Naturals, FiniteSets

CONSTANTS
  Msgs,         \* envelopes that producers publish, by envelope id
  MaxAttempts,  \* retry.go MaxAttempts
  MaxCopies     \* bound: copies the broker ever accepts

ASSUME BrokerAssumption ==
  /\ MaxAttempts \in Nat \ {0}
  /\ MaxCopies \in Nat \ {0}

VARIABLES
  accepted,     \* number of copies the broker has taken responsibility for
  env,          \* copy -> the envelope fields the dispatcher reads
  where,        \* copy -> where the broker keeps it
  redelivered   \* copies carrying the broker's redelivered flag

brokerVars == <<accepted, env, where, redelivered>>

Copies == 1..MaxCopies
Envelopes == [msg : Msgs, attempt : 1..MaxAttempts]
NoEnvelope == [msg |-> "none", attempt |-> 0]
Places == {"unborn", "ready", "unacked", "delay", "dlq", "gone"}

BrokerTypeOK ==
  /\ accepted \in 0..MaxCopies
  /\ env \in [Copies -> Envelopes \cup {NoEnvelope}]
  /\ where \in [Copies -> Places]
  /\ redelivered \subseteq Copies
  /\ \A c \in Copies : where[c] # "unborn" <=> c <= accepted
  /\ \A c \in Copies : c <= accepted => env[c] \in Envelopes

BrokerInit ==
  /\ accepted = 0
  /\ env = [c \in Copies |-> NoEnvelope]
  /\ where = [c \in Copies |-> "unborn"]
  /\ redelivered = {}

Room == accepted < MaxCopies

\* The broker takes responsibility for one more copy: a publish to the main
\* exchange lands in the work queue ("ready"), one to a retry exchange in the
\* delay queue of its tier ("delay").  `rest` is where the other copies are.
Accept(m, a, place, rest) ==
  /\ Room
  /\ accepted' = accepted + 1
  /\ env' = [env EXCEPT ![accepted + 1] = [msg |-> m, attempt |-> a]]
  /\ where' = [rest EXCEPT ![accepted + 1] = place]

\* basic.deliver, basic.ack and basic.nack of one copy.
MoveTo(c, place) ==
  /\ where' = [where EXCEPT ![c] = place]
  /\ UNCHANGED <<accepted, env>>

\* A requeue, by nack or because the channel went away, sets redelivered.
RequeueAll(S) ==
  /\ where' = [c \in Copies |-> IF c \in S THEN "ready" ELSE where[c]]
  /\ redelivered' = redelivered \cup S
  /\ UNCHANGED <<accepted, env>>

\* Copies of message m the broker still holds somewhere, and those of them
\* that are on their way to a handler.
Held(m) == {c \in 1..accepted : env[c].msg = m /\ where[c] # "gone"}
Travelling(m) == {c \in Held(m) : where[c] # "dlq"}
Published(m) == \E c \in 1..accepted : env[c].msg = m

\* A producer's first publish of m: attempt 1, on the main exchange.
Publish(m) ==
  /\ ~ Published(m)
  /\ Accept(m, 1, "ready", where)
  /\ UNCHANGED redelivered

\* The TTL of a delay queue ends: x-dead-letter-exchange is the main exchange
\* and the routing key is kept, so the copy is back in the work queue.
TierExpires(c) ==
  /\ where[c] = "delay"
  /\ MoveTo(c, "ready")
  /\ UNCHANGED redelivered
=============================================================================
