----------------------------- MODULE BusDispatch -----------------------------
(***************************************************************************)
(* The delivery policy of the work bus in its three runtimes -- Deliver,    *)
(* run and fail of queue/bus/dispatch.go, consumeOn of api/src/bus.ts and   *)
(* Consumer of ai/src/course_ai/bus.py -- with the broker, the shared claim *)
(* store, several replicas, and the failures the code provides for: a       *)
(* replica dies, its connection drops while handlers run, a claim call or a *)
(* publish confirm is never answered.                                       *)
(*                                                                          *)
(* The runtimes differ only where a call to the claim store fails.  One     *)
(* queue is consumed by one runtime, so `runtime` is chosen once, in Init.  *)
(*                                                                          *)
(* A job is one delivery being handled: a goroutine of consumer.go, a       *)
(* promise of bus.ts, a task of bus.py.  Every call it makes to the claim   *)
(* store or to the broker is a step of its own.                             *)
(***************************************************************************)
EXTENDS BusBroker, BusClaims

CONSTANTS
  Runtimes,   \* the runtimes considered, of "go", "node", "python"
  KeyOf,      \* message -> its idempotency key
  Unhandled,  \* messages no handler here can take: malformed, or unknown type
  Unreadable, \* the malformed ones, which do not parse as an envelope
  Jobs,       \* deliveries that can be in hand at once
  OwnerOf,    \* job -> the replica it belongs to
  Prefetch,   \* unacked deliveries the broker allows one replica
  Faults,     \* kinds of failure that happen
  MaxFaults   \* bound: failures in one behaviour

FaultKinds == {"crash", "drop", "claim", "publish", "replay"}

ASSUME DispatchAssumption ==
  /\ Runtimes \subseteq {"go", "node", "python"}
  /\ KeyOf \in [Msgs -> Keys]
  /\ Unhandled \subseteq Msgs
  /\ Unreadable \subseteq Unhandled
  /\ OwnerOf \in [Jobs -> Owners]
  /\ NoOwner \notin Owners
  /\ Prefetch \in Nat \ {0}
  /\ Faults \subseteq FaultKinds
  /\ MaxFaults \in Nat

VARIABLES
  runtime,    \* the runtime that consumes this queue
  job,        \* what each job is doing
  faults,     \* failures so far
  succeeded,  \* history: keys whose handler finished
  skipped     \* history: messages a delivery of which was acked as a duplicate
              \* while another replica's claim was running

vars == <<brokerVars, claim, runtime, job, faults, succeeded, skipped>>

\* "stuck": the promise or task ended with an exception nobody settles for, so
\* the delivery stays unacked for as long as the channel lives.
Pcs == {"idle", "claim", "run", "complete", "release", "fail", "requeue",
        "ackdone", "ack", "dead", "stuck"}

\* copy: the delivery in hand; open: its channel still exists; again: the
\* redelivered flag it arrived with.
JobRecords == [pc : Pcs, copy : 0..MaxCopies, open : BOOLEAN, again : BOOLEAN]
Idle == [pc |-> "idle", copy |-> 0, open |-> FALSE, again |-> FALSE]

MsgOf(j) == env[job[j].copy].msg
AttemptOf(j) == env[job[j].copy].attempt
Key(j) == KeyOf[MsgOf(j)]
At(j, pc) == job[j].pc = pc
Goto(j, pc) == job' = [job EXCEPT ![j].pc = pc]
OpenJobs(o) == {j \in Jobs : OwnerOf[j] = o /\ job[j].pc # "idle" /\ job[j].open}
InHand(o) == {job[j].copy : j \in OpenJobs(o)}
Fault(kind) ==
  /\ kind \in Faults
  /\ faults < MaxFaults
  /\ faults' = faults + 1

TypeOK ==
  /\ BrokerTypeOK
  /\ ClaimsTypeOK
  /\ runtime \in Runtimes
  /\ job \in [Jobs -> JobRecords]
  /\ \A j \in Jobs : job[j].pc # "idle" => job[j].copy \in 1..accepted
  /\ faults \in 0..MaxFaults
  /\ succeeded \subseteq Keys
  /\ skipped \subseteq Msgs

Init ==
  /\ BrokerInit
  /\ ClaimsInit
  /\ runtime \in Runtimes
  /\ job = [j \in Jobs |-> Idle]
  /\ faults = 0
  /\ succeeded = {}
  /\ skipped = {}

-----------------------------------------------------------------------------
\* Deliver

Produce(m) ==
  /\ Publish(m)
  /\ UNCHANGED <<claim, runtime, job, faults, succeeded, skipped>>

TierDone(c) ==
  /\ TierExpires(c)
  /\ UNCHANGED <<claim, runtime, job, faults, succeeded, skipped>>

\* The consumer hands a delivery to a fresh job; parsing and the handler lookup
\* send what nobody here can take to the dead letters.
Start(j, c) ==
  /\ At(j, "idle")
  /\ where[c] = "ready"
  /\ Cardinality(OpenJobs(OwnerOf[j])) < Prefetch
  /\ MoveTo(c, "unacked")
  /\ job' = [job EXCEPT ![j] =
               [pc |-> IF env[c].msg \in Unhandled THEN "dead" ELSE "claim",
                copy |-> c, open |-> TRUE, again |-> c \in redelivered]]
  /\ UNCHANGED <<redelivered, claim, runtime, faults, succeeded, skipped>>

ClaimGranted(j) ==
  /\ At(j, "claim")
  /\ Grants(Key(j), OwnerOf[j])
  /\ Take(Key(j), OwnerOf[j])
  /\ Goto(j, "run")
  /\ UNCHANGED <<brokerVars, runtime, faults, succeeded, skipped>>

\* Not claimed: the delivery counts as a duplicate and is acked.
ClaimRefused(j) ==
  /\ At(j, "claim")
  /\ ~ Grants(Key(j), OwnerOf[j])
  /\ Goto(j, "ack")
  /\ skipped' = IF HeldByOther(Key(j), OwnerOf[j])
                THEN skipped \cup {MsgOf(j)} ELSE skipped
  /\ UNCHANGED <<brokerVars, claim, runtime, faults, succeeded>>

\* As a bug would have it: Go, too, lets a failed claim call end the handling.
ClaimUnknownEscapes(j) ==
  /\ At(j, "claim")
  /\ Fault("claim")
  /\ Goto(j, "stuck")
  /\ UNCHANGED <<brokerVars, claim, runtime, succeeded, skipped>>

\* The claim call fails, and the caller cannot tell whether the statement ran.
\* Go fails the delivery; in Node and Python the exception leaves the handler.
ClaimUnknown(j) ==
  /\ At(j, "claim")
  /\ Fault("claim")
  /\ \/ UNCHANGED claim
     \/ Grants(Key(j), OwnerOf[j]) /\ Take(Key(j), OwnerOf[j])
  /\ Goto(j, IF runtime = "go" THEN "fail" ELSE "stuck")
  /\ UNCHANGED <<brokerVars, runtime, succeeded, skipped>>

HandlerSucceeds(j) ==
  /\ At(j, "run")
  /\ Goto(j, "complete")
  /\ succeeded' = succeeded \cup {Key(j)}
  /\ UNCHANGED <<brokerVars, claim, runtime, faults, skipped>>

\* As a bug would have it: the result of the handler is not looked at.
HandlerFailsUnseen(j) ==
  /\ At(j, "run")
  /\ Goto(j, "complete")
  /\ UNCHANGED <<brokerVars, claim, runtime, faults, succeeded, skipped>>

\* An error, a panic, or the handler deadline.
HandlerFails(j) ==
  /\ At(j, "run")
  /\ Goto(j, "release")
  /\ UNCHANGED <<brokerVars, claim, runtime, faults, succeeded, skipped>>

Complete(j) ==
  /\ At(j, "complete")
  /\ MarkDone(Key(j), OwnerOf[j])
  /\ Goto(j, "ackdone")
  /\ UNCHANGED <<brokerVars, runtime, faults, succeeded, skipped>>

\* The complete call fails after the work was done.  Go logs it and acks; Node
\* has it inside the try of the handler, so it is a failed attempt; in Python
\* the exception leaves the handler.
CompleteUnknown(j) ==
  /\ At(j, "complete")
  /\ Fault("claim")
  /\ \/ UNCHANGED claim
     \/ MarkDone(Key(j), OwnerOf[j])
  /\ Goto(j, CASE runtime = "go" -> "ackdone"
               [] runtime = "node" -> "release"
               [] OTHER -> "stuck")
  /\ UNCHANGED <<brokerVars, runtime, succeeded, skipped>>

Release(j) ==
  /\ At(j, "release")
  /\ Drop(Key(j), OwnerOf[j])
  /\ Goto(j, "fail")
  /\ UNCHANGED <<brokerVars, runtime, faults, succeeded, skipped>>

\* The release call fails.  Go logs it and schedules the retry all the same.
ReleaseUnknown(j) ==
  /\ At(j, "release")
  /\ Fault("claim")
  /\ \/ UNCHANGED claim
     \/ Drop(Key(j), OwnerOf[j])
  /\ Goto(j, IF runtime = "go" THEN "fail" ELSE "stuck")
  /\ UNCHANGED <<brokerVars, runtime, succeeded, skipped>>
-----------------------------------------------------------------------------
\* fail: the retry ladder

AtCeiling(j) == AttemptOf(j) >= MaxAttempts

\* As a bug would have it: the last failure is acked, not dead-lettered.
GiveUpByAck(j) ==
  /\ At(j, "fail")
  /\ AtCeiling(j)
  /\ Goto(j, "ack")
  /\ UNCHANGED <<brokerVars, claim, runtime, faults, succeeded, skipped>>

GiveUp(j) ==
  /\ At(j, "fail")
  /\ AtCeiling(j)
  /\ Goto(j, "dead")
  /\ UNCHANGED <<brokerVars, claim, runtime, faults, succeeded, skipped>>

\* The next attempt keeps the message and its key.  Go publishes on the
\* consumer's current channel, the others on the one the delivery came from.
ScheduleRetry(j) ==
  /\ At(j, "fail")
  /\ ~ AtCeiling(j)
  /\ runtime = "go" \/ job[j].open
  /\ Accept(MsgOf(j), AttemptOf(j) + 1, "delay", where)
  /\ Goto(j, "ack")
  /\ UNCHANGED <<redelivered, claim, runtime, faults, succeeded, skipped>>

\* As a bug would have it: the unconfirmed retry is taken for a scheduled one.
AckAnyway(j) == "ack"

AfterFailedPublish(j) == IF job[j].again THEN "dead" ELSE "requeue"

\* The publish is not confirmed: refused, returned, or never answered, in
\* which case the broker may have taken the copy.
RetryUnconfirmed(j) ==
  /\ At(j, "fail")
  /\ ~ AtCeiling(j)
  /\ Fault("publish")
  /\ \/ UNCHANGED <<accepted, env, where>>
     \/ (runtime = "go" \/ job[j].open)
        /\ Accept(MsgOf(j), AttemptOf(j) + 1, "delay", where)
  /\ Goto(j, AfterFailedPublish(j))
  /\ UNCHANGED <<redelivered, claim, runtime, succeeded, skipped>>

\* The channel of the delivery is gone (and, in Go, Run has not reconnected).
RetryOnDeadChannel(j) ==
  /\ At(j, "fail")
  /\ ~ AtCeiling(j)
  /\ ~ job[j].open
  /\ Goto(j, AfterFailedPublish(j))
  /\ UNCHANGED <<brokerVars, claim, runtime, faults, succeeded, skipped>>

\* Ack, Nack(false) and Nack(true) on a channel that is gone do nothing: the
\* broker has already taken the delivery back.
Settle(j, pc, place) ==
  /\ At(j, pc)
  /\ IF job[j].open
     THEN MoveTo(job[j].copy, place)
     ELSE UNCHANGED <<accepted, env, where>>
  /\ job' = [job EXCEPT ![j] = Idle]
  /\ UNCHANGED <<claim, runtime, faults, succeeded, skipped>>

Ack(j) == Settle(j, "ack", "gone") /\ UNCHANGED redelivered

\* The ack after a finished handler.  On a closed channel amqplib throws, and
\* in Node that lands in the catch of the handler.
AckDone(j) ==
  \/ /\ runtime = "node" => job[j].open
     /\ Settle(j, "ackdone", "gone")
     /\ UNCHANGED redelivered
  \/ /\ At(j, "ackdone")
     /\ runtime = "node" /\ ~ job[j].open
     /\ Goto(j, "release")
     /\ UNCHANGED <<brokerVars, claim, runtime, faults, succeeded, skipped>>

DeadLetter(j) == Settle(j, "dead", "dlq") /\ UNCHANGED redelivered

RequeueOnce(j) ==
  /\ Settle(j, "requeue", "ready")
  /\ redelivered' = IF job[j].open THEN redelivered \cup {job[j].copy}
                                   ELSE redelivered
-----------------------------------------------------------------------------
\* Failures, time, and the operator's replay

\* The process dies: its jobs end where they stand and the broker takes back
\* what they had not settled.
Crash(o) ==
  /\ Fault("crash")
  /\ \E j \in Jobs : OwnerOf[j] = o /\ ~ At(j, "idle")
  /\ RequeueAll(InHand(o))
  /\ job' = [j \in Jobs |-> IF OwnerOf[j] = o THEN Idle ELSE job[j]]
  /\ UNCHANGED <<claim, runtime, succeeded, skipped>>

\* The connection drops.  The broker takes the deliveries back, the jobs that
\* are still executing run on, and the consumer reconnects, so new deliveries
\* may start at once.
LoseConnection(o) ==
  /\ Fault("drop")
  /\ OpenJobs(o) # {}
  /\ RequeueAll(InHand(o))
  /\ job' = [j \in Jobs |-> IF j \notin OpenJobs(o) THEN job[j]
                            ELSE IF At(j, "stuck") THEN Idle
                            ELSE [job[j] EXCEPT !.open = FALSE]]
  /\ UNCHANGED <<claim, runtime, succeeded, skipped>>

\* The handler deadline (60 s) and the claim calls' deadline (10 s) sum to
\* less than the lease (300 s): a row goes stale only after every job of its
\* owner has moved past the steps the claim covers, or is dead.
UnderClaim(j) == job[j].pc \in {"run", "complete", "release"}

LeaseLapses(k) ==
  /\ \A j \in Jobs : UnderClaim(j) => ~ (Key(j) = k /\ OwnerOf[j] = claim[k].owner)
  /\ Lapse(k)
  /\ UNCHANGED <<brokerVars, runtime, job, faults, succeeded, skipped>>

\* ReplayDeadLetters: republish with attempt 1, then ack the dead letter.
\* When that ack fails the message is in both places.  What cannot be parsed
\* stays where it is.
Replay(c) ==
  /\ where[c] = "dlq"
  /\ env[c].msg \notin Unreadable
  /\ Fault("replay")
  /\ \/ Accept(env[c].msg, 1, "ready", [where EXCEPT ![c] = "gone"])
     \/ Accept(env[c].msg, 1, "ready", where)
  /\ UNCHANGED <<redelivered, claim, runtime, job, succeeded, skipped>>

-----------------------------------------------------------------------------
JobStep(j) ==
  \/ ClaimGranted(j) \/ ClaimRefused(j) \/ ClaimUnknown(j)
  \/ HandlerSucceeds(j) \/ HandlerFails(j)
  \/ Complete(j) \/ CompleteUnknown(j)
  \/ Release(j) \/ ReleaseUnknown(j)
  \/ GiveUp(j) \/ ScheduleRetry(j) \/ RetryUnconfirmed(j) \/ RetryOnDeadChannel(j)
  \/ Ack(j) \/ AckDone(j) \/ DeadLetter(j) \/ RequeueOnce(j)

Next ==
  \/ \E m \in Msgs : Produce(m)
  \/ \E c \in Copies : TierDone(c) \/ Replay(c)
  \/ \E j \in Jobs : (\E c \in Copies : Start(j, c)) \/ JobStep(j)
  \/ \E o \in Owners : Crash(o) \/ LoseConnection(o)
  \/ \E k \in Keys : LeaseLapses(k)

Spec == Init /\ [][Next]_vars

\* Jobs are scheduled, every wait in them has a deadline, the broker delivers
\* what is ready and expires its delay queues.  Nothing is assumed of
\* producers, of failures, of replays or of the lease.
Fairness ==
  /\ \A j \in Jobs : WF_vars(JobStep(j))
  /\ WF_vars(\E j \in Jobs, c \in Copies : Start(j, c))
  /\ \A c \in Copies : WF_vars(TierDone(c))

LiveSpec == Spec /\ Fairness
-----------------------------------------------------------------------------
\* A settle reaches only its own delivery (multiple=false): every unacked copy
\* is in the hand of exactly one job whose channel is open, and what an open
\* job holds is unacked.
HoldsIt(j, c) == job[j].pc # "idle" /\ job[j].open /\ job[j].copy = c
UnackedHeld ==
  /\ \A c \in Copies : where[c] = "unacked" => \E j \in Jobs : HoldsIt(j, c)
  /\ \A i, j \in Jobs : \A c \in Copies :
       HoldsIt(i, c) /\ HoldsIt(j, c) => i = j
  /\ \A j \in Jobs : \A c \in Copies : HoldsIt(j, c) => where[c] = "unacked"

\* Every published message is still held by the broker, or its work was done,
\* or a delivery of it was acked against another replica's running claim:
\* that duplicate-ack (dispatch.go:188, bus.ts:638, bus.py:673) is the only
\* way work leaves the bus undone, whatever crashes, drops, unanswered calls
\* and replays happen.
Accounted ==
  \A m \in Msgs : Published(m) =>
    \/ Held(m) # {}
    \/ KeyOf[m] \in succeeded
    \/ m \in skipped

\* Why Accounted holds, as an invariant of every step.  A copy leaves the
\* broker's hands only when its message is vouched for: its work is done, it
\* was skipped, or a copy accepted later is still there.  Later, because two
\* jobs about to ack two copies of one message must not vouch for each other.
Vouched(m, c) ==
  \/ KeyOf[m] \in succeeded
  \/ m \in skipped
  \/ \E d \in 1..accepted : d > c /\ env[d].msg = m /\ where[d] # "gone"
GoneVouched == \A c \in 1..accepted : where[c] = "gone" => Vouched(env[c].msg, c)
AckVouched == \A j \in Jobs : At(j, "ack") => Vouched(MsgOf(j), job[j].copy)
WorkDone ==
  \A j \in Jobs : At(j, "complete") \/ At(j, "ackdone") => Key(j) \in succeeded

\* A claim is marked done only for work that a handler finished.
DoneMeansSucceeded ==
  \A k \in Keys : claim[k].state = "done" => k \in succeeded

\* The inductive invariant.
Account == WorkDone /\ DoneMeansSucceeded /\ GoneVouched /\ AckVouched
NothingUnvouched == TypeOK /\ Account

\* Done, a row is done for ever: neither the release of a delivery that failed late, of
\* this owner or of another, nor a claim after the lease has lapsed, nor a crash and what is
\* redelivered after it, makes a finished key runnable again.
DoneIsForever ==
  [][\A k \in Keys : claim[k].state = "done" => claim'[k].state = "done"]_vars

\* How MessageLife sees the bus.
LifeOf(m) ==
  IF ~ Published(m) THEN "unsent"
  ELSE IF Travelling(m) # {} THEN "travelling"
  ELSE IF Held(m) # {} THEN "parked" ELSE "settled"
lifeMap == [m \in Msgs |-> LifeOf(m)]
doneMap == {m \in Msgs : KeyOf[m] \in succeeded}
Life == INSTANCE MessageLife WITH life <- lifeMap, done <- doneMap

\* The dispatcher implements the promise of MessageLife: a message leaves the
\* bus only as done or skipped, and what is given up is parked for an operator
\* (DLQ of topology.go), never dropped.
KeepsThePromise == Life!Spec

\* "Nothing is lost, it is only done twice" (consumer.go Stop): what the
\* broker no longer holds has been done.
NothingLost ==
  \A m \in Msgs : Published(m) => Held(m) # {} \/ KeyOf[m] \in succeeded

\* Every published message eventually stops travelling: it is done, skipped
\* or parked.
EverySettles == \A m \in Msgs : Published(m) ~> Travelling(m) = {}

\* No delivery holds its prefetch slot for ever.
SlotsFree == \A j \in Jobs : ~ At(j, "idle") ~> At(j, "idle")
=============================================================================
