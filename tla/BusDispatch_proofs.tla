------------------------- MODULE BusDispatch_proofs -------------------------
(***************************************************************************)
(* What BusDispatch guarantees for any number of messages, keys, replicas,  *)
(* jobs, attempts and failures, proved.                                     *)
(***************************************************************************)
EXTENDS BusDispatch, TLAPS

\* The steps of one job and the rest, by what they do to `job`.
LEMMA GotoType ==
  ASSUME TypeOK, NEW j \in Jobs, NEW pc \in Pcs, Goto(j, pc)
  PROVE  /\ job' \in [Jobs -> JobRecords]
         /\ \A i \in Jobs : job'[i].copy = job[i].copy /\ job'[i].open = job[i].open
         /\ \A i \in Jobs : i # j => job'[i] = job[i]
         /\ job'[j].pc = pc
BY DEF TypeOK, Goto, JobRecords

\* Taking one more copy keeps the broker's types; the copy gets the next number.
LEMMA AcceptType ==
  ASSUME BrokerTypeOK, NEW m \in Msgs, NEW a \in 1..MaxAttempts,
         NEW place \in Places \ {"unborn"}, NEW rest \in [Copies -> Places],
         \A c \in Copies : rest[c] = "unborn" <=> where[c] = "unborn",
         Accept(m, a, place, rest), redelivered' = redelivered
  PROVE  /\ BrokerTypeOK'
         /\ accepted' = accepted + 1
         /\ accepted' \in Copies
         /\ env'[accepted'] = [msg |-> m, attempt |-> a]
         /\ where'[accepted'] = place
         /\ \A c \in Copies : c # accepted' => env'[c] = env[c] /\ where'[c] = rest[c]
<1>1. accepted + 1 \in Copies /\ accepted' = accepted + 1 /\ accepted' \in 0..MaxCopies
  BY BrokerAssumption DEF BrokerTypeOK, Accept, Room, Copies
<1>2. [msg |-> m, attempt |-> a] \in Envelopes
  BY DEF Envelopes
<1>3. /\ env' \in [Copies -> Envelopes \cup {NoEnvelope}]
      /\ where' \in [Copies -> Places]
  BY <1>1, <1>2 DEF BrokerTypeOK, Accept
<1>4. \A c \in Copies : where'[c] # "unborn" <=> c <= accepted'
  BY <1>1 DEF BrokerTypeOK, Accept, Copies
<1>5. \A c \in Copies : c <= accepted' => env'[c] \in Envelopes
  BY <1>1, <1>2 DEF BrokerTypeOK, Accept, Copies
<1> QED
  BY <1>1, <1>3, <1>4, <1>5 DEF BrokerTypeOK, Accept

\* Moving a copy keeps the broker's types.
LEMMA MoveType ==
  ASSUME BrokerTypeOK, NEW c \in 1..accepted, NEW place \in Places \ {"unborn"},
         MoveTo(c, place), redelivered' \subseteq Copies
  PROVE  BrokerTypeOK'
BY BrokerAssumption DEF BrokerTypeOK, MoveTo, Copies

\* Requeueing copies keeps the broker's types.
LEMMA RequeueType ==
  ASSUME BrokerTypeOK, NEW S \in SUBSET (1..accepted), RequeueAll(S)
  PROVE  BrokerTypeOK'
BY BrokerAssumption DEF BrokerTypeOK, RequeueAll, Copies, Places

\* What a busy job holds is a numbered copy with an envelope of a known key.
LEMMA JobCopy ==
  ASSUME TypeOK, NEW j \in Jobs, job[j].pc # "idle"
  PROVE  /\ job[j].copy \in 1..accepted
         /\ job[j].copy \in Copies
         /\ env[job[j].copy] \in Envelopes
         /\ MsgOf(j) \in Msgs
         /\ AttemptOf(j) \in 1..MaxAttempts
         /\ Key(j) \in Keys
<1>1. job[j].copy \in 1..accepted /\ job[j].copy \in Copies
  BY BrokerAssumption DEF TypeOK, BrokerTypeOK, Copies
<1>2. env[job[j].copy] \in Envelopes
  BY <1>1 DEF TypeOK, BrokerTypeOK
<1> QED
  BY <1>1, <1>2, DispatchAssumption DEF Envelopes, MsgOf, AttemptOf, Key

\* Every statement on a claim row, and the lapse of its lease, keeps the rows.
LEMMA ClaimType ==
  ASSUME ClaimsTypeOK, NEW k \in Keys, NEW o \in Owners,
         \/ Take(k, o) \/ MarkDone(k, o) \/ Drop(k, o) \/ Lapse(k) \/ UNCHANGED claim
  PROVE  ClaimsTypeOK'
<1>1. Running(o) \in Rows /\ Done(o) \in Rows /\ Absent \in Rows
  BY DEF Running, Done, Absent, Rows
<1>2. CASE Take(k, o) \/ MarkDone(k, o) \/ Drop(k, o)
  BY <1>1, <1>2 DEF ClaimsTypeOK, Take, MarkDone, Drop
<1>3. CASE Lapse(k)
  BY <1>3 DEF ClaimsTypeOK, Lapse, Rows
<1>4. CASE UNCHANGED claim
  BY <1>4 DEF ClaimsTypeOK
<1> QED
  BY <1>2, <1>3, <1>4

\* A step that keeps the broker's copies keeps what every busy job holds; one
\* that accepts a copy does too.
LEMMA JobsType ==
  ASSUME TypeOK, BrokerTypeOK', accepted <= accepted',
         job' \in [Jobs -> JobRecords],
         \A j \in Jobs : job'[j].pc # "idle" =>
            job[j].pc # "idle" /\ job'[j].copy = job[j].copy
  PROVE  \A j \in Jobs : job'[j].pc # "idle" => job'[j].copy \in 1..accepted'
BY DEF TypeOK, BrokerTypeOK

\* An ack or nack, on a live channel or a dead one, keeps the types.
LEMMA SettleType ==
  ASSUME TypeOK, NEW j \in Jobs, NEW pc \in Pcs \ {"idle"},
         NEW place \in Places \ {"unborn"}, Settle(j, pc, place),
         redelivered' \subseteq Copies
  PROVE  TypeOK'
<1>1. job[j].copy \in 1..accepted
  BY JobCopy DEF Settle, At
<1>2. BrokerTypeOK' /\ accepted' = accepted
  <2>1. CASE job[j].open
    BY <1>1, <2>1, MoveType DEF TypeOK, Settle, MoveTo
  <2>2. CASE ~ job[j].open
    BY <2>2 DEF TypeOK, BrokerTypeOK, Settle
  <2> QED
    BY <2>1, <2>2
<1>3. Idle \in JobRecords /\ Idle.pc = "idle"
  BY BrokerAssumption DEF Idle, JobRecords, Pcs
<1>4. job' \in [Jobs -> JobRecords]
  BY <1>3 DEF TypeOK, Settle
<1>5. \A i \in Jobs : job'[i].pc # "idle" => job[i].pc # "idle" /\ job'[i].copy = job[i].copy
  BY <1>3 DEF TypeOK, Settle
<1>6. \A i \in Jobs : job'[i].pc # "idle" => job'[i].copy \in 1..accepted'
  BY <1>2, <1>4, <1>5, JobsType DEF TypeOK, BrokerTypeOK
<1> QED
  BY <1>2, <1>4, <1>6 DEF TypeOK, ClaimsTypeOK, Settle

\* A job step that touches only its own counter, the claim row of its key, the
\* fault count and the histories.
LEMMA QuietType ==
  ASSUME TypeOK, NEW j \in Jobs, ~ At(j, "idle"), NEW pc \in Pcs, Goto(j, pc),
         UNCHANGED <<brokerVars, runtime>>,
         ClaimsTypeOK', faults' \in 0..MaxFaults,
         succeeded' \subseteq Keys, skipped' \subseteq Msgs
  PROVE  TypeOK'
<1>1. BrokerTypeOK' /\ accepted' = accepted
  BY DEF TypeOK, BrokerTypeOK, brokerVars
<1>2. \A i \in Jobs : job'[i].pc # "idle" => job'[i].copy \in 1..accepted'
  BY <1>1, GotoType, JobsType DEF TypeOK, BrokerTypeOK, At
<1> QED
  BY <1>1, <1>2, GotoType DEF TypeOK

\* A retry: the copy of job j is published once more, or not at all.
LEMMA RetryType ==
  ASSUME TypeOK, NEW j \in Jobs, At(j, "fail"), ~ AtCeiling(j), NEW pc \in Pcs, Goto(j, pc),
         \/ Accept(MsgOf(j), AttemptOf(j) + 1, "delay", where)
         \/ UNCHANGED <<accepted, env, where>>,
         UNCHANGED <<redelivered, claim, runtime, succeeded, skipped>>,
         faults' \in 0..MaxFaults
  PROVE  TypeOK'
<1>1. MsgOf(j) \in Msgs /\ AttemptOf(j) + 1 \in 1..MaxAttempts
  BY JobCopy, BrokerAssumption DEF At, AtCeiling
<1>2. BrokerTypeOK' /\ accepted <= accepted'
  <2>1. CASE Accept(MsgOf(j), AttemptOf(j) + 1, "delay", where)
    <3>1. "delay" \in Places \ {"unborn"} /\ where \in [Copies -> Places]
          /\ accepted \in Nat /\ BrokerTypeOK
      BY DEF TypeOK, BrokerTypeOK, Places
    <3>2. BrokerTypeOK' /\ accepted' = accepted + 1
      BY <1>1, <2>1, <3>1, AcceptType
    <3> QED
      BY <3>1, <3>2
  <2>2. CASE UNCHANGED <<accepted, env, where>>
    BY <2>2 DEF TypeOK, BrokerTypeOK
  <2> QED
    BY <2>1, <2>2
<1>3. \A i \in Jobs : job'[i].pc # "idle" => job'[i].copy \in 1..accepted'
  BY <1>2, GotoType, JobsType DEF At
<1> QED
  BY <1>2, <1>3, GotoType DEF TypeOK, ClaimsTypeOK

\* The failures stay within their bound.
LEMMA FaultType ==
  ASSUME TypeOK, NEW kind, Fault(kind)
  PROVE  faults' \in 0..MaxFaults
BY DispatchAssumption DEF TypeOK, Fault

\* The first state has the types.
LEMMA TypeInit == Init => TypeOK
<1> SUFFICES ASSUME Init PROVE TypeOK
  OBVIOUS
<1>1. BrokerTypeOK
  BY BrokerAssumption DEF Init, BrokerInit, BrokerTypeOK, Copies, Places
<1>2. ClaimsTypeOK
  BY DEF Init, ClaimsInit, ClaimsTypeOK, Absent, Rows
<1>3. job \in [Jobs -> JobRecords] /\ \A j \in Jobs : job[j].pc = "idle"
  BY BrokerAssumption DEF Init, Idle, JobRecords, Pcs
<1> QED
  BY <1>1, <1>2, <1>3, DispatchAssumption DEF Init, TypeOK

\* Every step keeps them.
LEMMA TypeNext == TypeOK /\ [Next]_vars => TypeOK'
<1> SUFFICES ASSUME TypeOK, [Next]_vars PROVE TypeOK'
  OBVIOUS
<1> USE DEF Pcs
<1>0. /\ ClaimsTypeOK /\ faults \in 0..MaxFaults
      /\ succeeded \subseteq Keys /\ skipped \subseteq Msgs
      /\ BrokerTypeOK /\ redelivered \subseteq Copies
  BY DEF TypeOK, BrokerTypeOK
<1>1. CASE UNCHANGED vars
  BY <1>1 DEF TypeOK, BrokerTypeOK, ClaimsTypeOK, vars, brokerVars
<1>2. ASSUME NEW m \in Msgs, Produce(m) PROVE TypeOK'
  <2>1. "ready" \in Places \ {"unborn"} /\ where \in [Copies -> Places]
        /\ accepted \in Nat /\ 1 \in 1..MaxAttempts
    BY BrokerAssumption DEF TypeOK, BrokerTypeOK, Places
  <2>2. BrokerTypeOK' /\ accepted' = accepted + 1
    BY <1>0, <1>2, <2>1, AcceptType DEF Produce, Publish
  <2> QED
    BY <1>2, <2>1, <2>2 DEF Produce, TypeOK, ClaimsTypeOK
<1>3. ASSUME NEW c \in Copies, TierDone(c) PROVE TypeOK'
  <2>1. c \in 1..accepted /\ "ready" \in Places \ {"unborn"}
    BY <1>3 DEF TypeOK, BrokerTypeOK, TierDone, TierExpires, Places, Copies
  <2>2. BrokerTypeOK' /\ accepted' = accepted
    BY <1>0, <1>3, <2>1, MoveType DEF TierDone, TierExpires, MoveTo
  <2> QED
    BY <1>3, <2>2 DEF TypeOK, ClaimsTypeOK, TierDone
<1>4. ASSUME NEW c \in Copies, Replay(c) PROVE TypeOK'
  <2> DEFINE rest == [where EXCEPT ![c] = "gone"]
  <2>1. /\ c \in 1..accepted /\ "ready" \in Places \ {"unborn"}
        /\ accepted \in Nat /\ 1 \in 1..MaxAttempts
        /\ where \in [Copies -> Places] /\ rest \in [Copies -> Places]
        /\ \A d \in Copies : rest[d] = "unborn" <=> where[d] = "unborn"
    BY <1>4, BrokerAssumption DEF TypeOK, BrokerTypeOK, Replay, Places, Copies
  <2>2. env[c].msg \in Msgs
    BY <2>1 DEF TypeOK, BrokerTypeOK, Envelopes
  <2>3. BrokerTypeOK' /\ accepted' = accepted + 1
    <3>1. CASE Accept(env[c].msg, 1, "ready", rest)
      BY <1>0, <1>4, <2>1, <2>2, <3>1, AcceptType DEF Replay
    <3>2. CASE Accept(env[c].msg, 1, "ready", where)
      BY <1>0, <1>4, <2>1, <2>2, <3>2, AcceptType DEF Replay
    <3> QED
      BY <1>4, <3>1, <3>2 DEF Replay
  <2> QED
    BY <1>4, <2>1, <2>3, FaultType DEF TypeOK, ClaimsTypeOK, Replay
<1>5. ASSUME NEW j \in Jobs, NEW c \in Copies, Start(j, c) PROVE TypeOK'
  <2>1. c \in 1..accepted /\ "unacked" \in Places \ {"unborn"}
    BY <1>5 DEF TypeOK, BrokerTypeOK, Start, Places, Copies
  <2>2. BrokerTypeOK' /\ accepted' = accepted
    BY <1>0, <1>5, <2>1, MoveType DEF Start, MoveTo
  <2>3. job' \in [Jobs -> JobRecords]
    BY <1>5, <2>1, BrokerAssumption DEF TypeOK, Start, JobRecords, Copies
  <2>4. \A i \in Jobs : job'[i].pc # "idle" => job'[i].copy \in 1..accepted'
    BY <1>5, <2>1, <2>2 DEF TypeOK, Start
  <2> QED
    BY <1>5, <2>2, <2>3, <2>4 DEF TypeOK, ClaimsTypeOK, Start
<1>6. ASSUME NEW j \in Jobs, JobStep(j) PROVE TypeOK'
  <2>0. ~ At(j, "idle") => Key(j) \in Keys /\ MsgOf(j) \in Msgs /\ OwnerOf[j] \in Owners
    BY JobCopy, DispatchAssumption DEF At
  <2> USE <1>0, <2>0, QuietType, ClaimType, FaultType
  <2>1. CASE ClaimGranted(j)
    BY <2>1 DEF ClaimGranted, At
  <2>2. CASE ClaimRefused(j)
    BY <2>2 DEF ClaimRefused, At, ClaimsTypeOK
  <2>3. CASE ClaimUnknown(j)
    BY <2>3 DEF ClaimUnknown, At
  <2>4. CASE HandlerSucceeds(j)
    BY <2>4 DEF HandlerSucceeds, At, ClaimsTypeOK
  <2>5. CASE HandlerFails(j)
    BY <2>5 DEF HandlerFails, At, ClaimsTypeOK
  <2>6. CASE Complete(j)
    BY <2>6 DEF Complete, At
  <2>7. CASE CompleteUnknown(j)
    BY <2>7 DEF CompleteUnknown, At
  <2>8. CASE Release(j)
    BY <2>8 DEF Release, At
  <2>9. CASE ReleaseUnknown(j)
    BY <2>9 DEF ReleaseUnknown, At
  <2>10. CASE GiveUp(j)
    BY <2>10 DEF GiveUp, At, ClaimsTypeOK
  <2>11. CASE ScheduleRetry(j)
    BY <2>11, RetryType DEF ScheduleRetry
  <2>12. CASE RetryUnconfirmed(j)
    BY <2>12, RetryType DEF RetryUnconfirmed, AfterFailedPublish
  <2>13. CASE RetryOnDeadChannel(j)
    BY <2>13 DEF RetryOnDeadChannel, AfterFailedPublish, At, ClaimsTypeOK
  <2>14. CASE Ack(j)
    BY <2>14, SettleType DEF Ack, Places
  <2>15. CASE AckDone(j)
    <3>1. CASE Settle(j, "ackdone", "gone") /\ UNCHANGED redelivered
      BY <3>1, SettleType DEF Places
    <3>2. CASE At(j, "ackdone") /\ Goto(j, "release") /\
               UNCHANGED <<brokerVars, claim, runtime, faults, succeeded, skipped>>
      BY <3>2 DEF At, ClaimsTypeOK
    <3> QED
      BY <2>15, <3>1, <3>2 DEF AckDone
  <2>16. CASE DeadLetter(j)
    BY <2>16, SettleType DEF DeadLetter, Places
  <2>17. CASE RequeueOnce(j)
    <3>1. job[j].copy \in Copies
      BY <2>17, JobCopy DEF RequeueOnce, Settle, At
    <3>2. redelivered' \subseteq Copies
      BY <2>17, <3>1 DEF RequeueOnce
    <3> QED
      BY <2>17, <3>2, SettleType DEF RequeueOnce, Places
  <2> QED
    BY <1>6, <2>1, <2>2, <2>3, <2>4, <2>5, <2>6, <2>7, <2>8, <2>9, <2>10, <2>11,
       <2>12, <2>13, <2>14, <2>15, <2>16, <2>17 DEF JobStep
<1>7. ASSUME NEW o \in Owners, Crash(o) \/ LoseConnection(o) PROVE TypeOK'
  <2>1. InHand(o) \in SUBSET (1..accepted)
    BY JobCopy DEF InHand, OpenJobs
  <2>2. BrokerTypeOK' /\ accepted' = accepted
    BY <1>0, <1>7, <2>1, RequeueType DEF Crash, LoseConnection, RequeueAll
  <2>3. Idle \in JobRecords /\ Idle.pc = "idle"
    BY BrokerAssumption DEF Idle, JobRecords
  <2>4. /\ job' \in [Jobs -> JobRecords]
        /\ \A i \in Jobs : job'[i].pc # "idle" =>
               job[i].pc # "idle" /\ job'[i].copy = job[i].copy
    <3>1. CASE Crash(o)
      BY <2>3, <3>1 DEF TypeOK, Crash
    <3>2. CASE LoseConnection(o)
      BY <2>3, <3>2 DEF TypeOK, LoseConnection, JobRecords
    <3> QED
      BY <1>7, <3>1, <3>2
  <2>5. \A i \in Jobs : job'[i].pc # "idle" => job'[i].copy \in 1..accepted'
    BY <2>2, <2>4, JobsType DEF TypeOK, BrokerTypeOK
  <2> QED
    BY <1>7, <2>2, <2>4, <2>5, FaultType DEF TypeOK, ClaimsTypeOK, Crash, LoseConnection
<1>8. ASSUME NEW k \in Keys, LeaseLapses(k) PROVE TypeOK'
  <2>1. BrokerTypeOK' /\ accepted' = accepted
    BY <1>0, <1>8 DEF LeaseLapses, brokerVars, BrokerTypeOK
  <2>2. ClaimsTypeOK'
    BY <1>0, <1>8 DEF LeaseLapses, Lapse, ClaimsTypeOK, Rows
  <2> QED
    BY <1>8, <2>1, <2>2 DEF LeaseLapses, TypeOK
<1> QED
  BY <1>1, <1>2, <1>3, <1>4, <1>5, <1>6, <1>7, <1>8 DEF Next

\* Every variable of the dispatcher, the broker and the claim store keeps its
\* type, with any number of replicas, deliveries and failures.
THEOREM TypeSafety == Spec => []TypeOK
BY TypeInit, TypeNext, PTL DEF Spec

-----------------------------------------------------------------------------
\* Whoever holds what, and which copies are unacked, is as before.
LEMMA HoldsFrame ==
  ASSUME UnackedHeld,
         \A j \in Jobs, c \in Copies : HoldsIt(j, c)' <=> HoldsIt(j, c),
         \A c \in Copies : where'[c] = "unacked" <=> where[c] = "unacked"
  PROVE  UnackedHeld'
BY DEF UnackedHeld

\* A job that only goes on leaves every delivery with its holder.
LEMMA HoldsGoto ==
  ASSUME TypeOK, UnackedHeld, NEW j \in Jobs, ~ At(j, "idle"),
         NEW pc \in Pcs \ {"idle"}, Goto(j, pc),
         \A c \in Copies : where'[c] = "unacked" <=> where[c] = "unacked"
  PROVE  UnackedHeld'
<1>1. \A i \in Jobs, c \in Copies : HoldsIt(i, c)' <=> HoldsIt(i, c)
  BY GotoType DEF HoldsIt, At
<1> QED
  BY <1>1, HoldsFrame

\* A new copy is in nobody's hand.
LEMMA HoldsAccept ==
  ASSUME TypeOK, NEW m, NEW a, NEW place \in Places \ {"unacked"},
         NEW rest \in [Copies -> Places],
         \A c \in Copies : rest[c] = "unacked" <=> where[c] = "unacked",
         Accept(m, a, place, rest)
  PROVE  \A c \in Copies : where'[c] = "unacked" <=> where[c] = "unacked"
<1>1. accepted + 1 \in Copies /\ where[accepted + 1] = "unborn"
  BY BrokerAssumption DEF TypeOK, BrokerTypeOK, Accept, Room, Copies, Places
<1> QED
  BY <1>1 DEF Accept

\* A settle ends the hold of its own job on its own copy, and no other.
LEMMA HoldsSettle ==
  ASSUME TypeOK, UnackedHeld, NEW j \in Jobs, NEW pc \in Pcs \ {"idle"},
         NEW place \in Places \ {"unacked"}, Settle(j, pc, place)
  PROVE  UnackedHeld'
<1>1. ~ At(j, "idle") /\ job[j].copy \in Copies
  BY JobCopy DEF Settle, At
<1>2. \A i \in Jobs, c \in Copies : HoldsIt(i, c)' <=> i # j /\ HoldsIt(i, c)
  BY DEF TypeOK, Settle, HoldsIt, Idle
<1>3. CASE job[j].open
  <2>1. HoldsIt(j, job[j].copy)
    BY <1>1, <1>3 DEF HoldsIt, At
  <2>2. \A c \in Copies : where'[c] = "unacked" <=> c # job[j].copy /\ where[c] = "unacked"
    BY <1>1, <1>3 DEF TypeOK, BrokerTypeOK, Settle, MoveTo
  <2>3. \A c \in Copies : HoldsIt(j, c) => c = job[j].copy
    BY DEF HoldsIt
  <2> QED
    BY <1>1, <1>2, <2>1, <2>2, <2>3 DEF UnackedHeld
<1>4. CASE ~ job[j].open
  <2>1. \A i \in Jobs, c \in Copies : HoldsIt(i, c)' <=> HoldsIt(i, c)
    BY <1>2, <1>4 DEF HoldsIt
  <2> QED
    BY <1>4, <2>1, HoldsFrame DEF Settle
<1> QED
  BY <1>3, <1>4

\* At first nothing is unacked.
LEMMA UnackedInit == Init => UnackedHeld
BY DEF Init, BrokerInit, UnackedHeld, HoldsIt, Idle

\* Every step keeps unacked copies and open jobs one to one.
LEMMA UnackedNext == TypeOK /\ UnackedHeld /\ [Next]_vars => UnackedHeld'
<1> SUFFICES ASSUME TypeOK, UnackedHeld, [Next]_vars PROVE UnackedHeld'
  OBVIOUS
<1> USE DEF Pcs
<1>0. where \in [Copies -> Places] /\ \A j \in Jobs : ~ At(j, "idle") => job[j].copy \in Copies
  BY JobCopy DEF TypeOK, BrokerTypeOK, At
<1>1. CASE UNCHANGED vars
  BY <1>1, HoldsFrame DEF vars, brokerVars, HoldsIt
<1>2. ASSUME NEW m \in Msgs, Produce(m) PROVE UnackedHeld'
  <2>1. \A c \in Copies : where'[c] = "unacked" <=> where[c] = "unacked"
    BY <1>0, <1>2, HoldsAccept DEF Produce, Publish, Places
  <2> QED
    BY <1>2, <2>1, HoldsFrame DEF Produce, HoldsIt
<1>3. ASSUME NEW c \in Copies, TierDone(c) PROVE UnackedHeld'
  <2>1. \A d \in Copies : where'[d] = "unacked" <=> where[d] = "unacked"
    BY <1>0, <1>3 DEF TierDone, TierExpires, MoveTo
  <2> QED
    BY <1>3, <2>1, HoldsFrame DEF TierDone, HoldsIt
<1>4. ASSUME NEW c \in Copies, Replay(c) PROVE UnackedHeld'
  <2> DEFINE rest == [where EXCEPT ![c] = "gone"]
  <2>1. /\ rest \in [Copies -> Places]
        /\ \A d \in Copies : rest[d] = "unacked" <=> where[d] = "unacked"
    BY <1>0, <1>4 DEF Replay, Places
  <2>2. \A d \in Copies : where'[d] = "unacked" <=> where[d] = "unacked"
    <3>1. CASE Accept(env[c].msg, 1, "ready", rest)
      BY <2>1, <3>1, HoldsAccept DEF Places
    <3>2. CASE Accept(env[c].msg, 1, "ready", where)
      BY <1>0, <3>2, HoldsAccept DEF Places
    <3> QED
      BY <1>4, <3>1, <3>2 DEF Replay
  <2> QED
    BY <1>4, <2>2, HoldsFrame DEF Replay, HoldsIt
<1>5. ASSUME NEW j \in Jobs, NEW c \in Copies, Start(j, c) PROVE UnackedHeld'
  <2>1. \A d \in Copies : where'[d] = "unacked" <=> d = c \/ where[d] = "unacked"
    BY <1>0, <1>5 DEF Start, MoveTo
  <2>2. \A i \in Jobs, d \in Copies :
           HoldsIt(i, d)' <=> (i = j /\ d = c) \/ (i # j /\ HoldsIt(i, d))
    <3>1. /\ job'[j].pc # "idle" /\ job'[j].open /\ job'[j].copy = c
          /\ \A i \in Jobs : i # j => job'[i] = job[i]
      BY <1>5 DEF TypeOK, Start
    <3> QED
      BY <3>1 DEF HoldsIt
  <2>3. \A d \in Copies : ~ HoldsIt(j, d)
    BY <1>5 DEF Start, At, HoldsIt
  <2>4. where[c] # "unacked"
    BY <1>5 DEF Start
  <2>5. \A d \in Copies : (where[d] = "unacked")' => \E i \in Jobs : HoldsIt(i, d)'
    BY <2>1, <2>2, <2>3 DEF UnackedHeld
  <2>6. \A i \in Jobs, d \in Copies : HoldsIt(i, d)' => (where[d] = "unacked")'
    BY <2>1, <2>2 DEF UnackedHeld
  <2>7. \A i \in Jobs : ~ HoldsIt(i, c)
    BY <2>4 DEF UnackedHeld
  <2>8. \A i, l \in Jobs : \A d \in Copies : HoldsIt(i, d)' /\ HoldsIt(l, d)' => i = l
    BY <2>2, <2>7 DEF UnackedHeld
  <2> QED
    BY <2>5, <2>6, <2>8 DEF UnackedHeld
<1>6. ASSUME NEW j \in Jobs, JobStep(j) PROVE UnackedHeld'
  <2> USE HoldsGoto DEF brokerVars
  <2>1. CASE ClaimGranted(j) \/ ClaimRefused(j) \/ ClaimUnknown(j)
    BY <2>1 DEF ClaimGranted, ClaimRefused, ClaimUnknown, At
  <2>2. CASE HandlerSucceeds(j) \/ HandlerFails(j)
    BY <2>2 DEF HandlerSucceeds, HandlerFails, At
  <2>3. CASE Complete(j) \/ CompleteUnknown(j)
    BY <2>3 DEF Complete, CompleteUnknown, At
  <2>4. CASE Release(j) \/ ReleaseUnknown(j)
    BY <2>4 DEF Release, ReleaseUnknown, At
  <2>5. CASE GiveUp(j)
    BY <2>5 DEF GiveUp, At
  <2>6. CASE ScheduleRetry(j)
    <3>1. \A c \in Copies : where'[c] = "unacked" <=> where[c] = "unacked"
      BY <1>0, <2>6, HoldsAccept DEF ScheduleRetry, Places
    <3> QED
      BY <2>6, <3>1 DEF ScheduleRetry, At
  <2>7. CASE RetryUnconfirmed(j)
    <3>1. \A c \in Copies : where'[c] = "unacked" <=> where[c] = "unacked"
      BY <1>0, <2>7, HoldsAccept DEF RetryUnconfirmed, Places
    <3> QED
      BY <2>7, <3>1 DEF RetryUnconfirmed, AfterFailedPublish, At
  <2>8. CASE RetryOnDeadChannel(j)
    BY <2>8 DEF RetryOnDeadChannel, AfterFailedPublish, At
  <2>9. CASE Ack(j) \/ DeadLetter(j) \/ RequeueOnce(j)
    BY <2>9, HoldsSettle DEF Ack, DeadLetter, RequeueOnce, Places
  <2>10. CASE AckDone(j)
    <3>1. CASE Settle(j, "ackdone", "gone")
      BY <3>1, HoldsSettle DEF Places
    <3>2. CASE At(j, "ackdone") /\ Goto(j, "release") /\ UNCHANGED brokerVars
      BY <3>2 DEF At
    <3> QED
      BY <2>10, <3>1, <3>2 DEF AckDone
  <2> QED
    BY <1>6, <2>1, <2>2, <2>3, <2>4, <2>5, <2>6, <2>7, <2>8, <2>9, <2>10 DEF JobStep
<1>7. ASSUME NEW o \in Owners, Crash(o) \/ LoseConnection(o) PROVE UnackedHeld'
  <2>1. \A c \in Copies : where'[c] = "unacked" <=> c \notin InHand(o) /\ where[c] = "unacked"
    BY <1>0, <1>7 DEF Crash, LoseConnection, RequeueAll
  <2>2. \A i \in Jobs, c \in Copies :
          HoldsIt(i, c)' <=> OwnerOf[i] # o /\ HoldsIt(i, c)
    <3>1. CASE Crash(o)
      BY <3>1 DEF TypeOK, Crash, HoldsIt, Idle
    <3>2. CASE LoseConnection(o)
      BY <3>2 DEF TypeOK, LoseConnection, OpenJobs, HoldsIt, Idle, JobRecords
    <3> QED
      BY <1>7, <3>1, <3>2
  <2>3. \A c \in Copies : c \in InHand(o) <=> \E i \in Jobs : OwnerOf[i] = o /\ HoldsIt(i, c)
    BY DEF InHand, OpenJobs, HoldsIt
  <2> QED
    BY <2>1, <2>2, <2>3 DEF UnackedHeld
<1>8. ASSUME NEW k \in Keys, LeaseLapses(k) PROVE UnackedHeld'
  BY <1>8, HoldsFrame DEF LeaseLapses, brokerVars, HoldsIt
<1> QED
  BY <1>1, <1>2, <1>3, <1>4, <1>5, <1>6, <1>7, <1>8 DEF Next

\* In every execution a copy is unacked exactly when one job, with its channel
\* open, holds it, whatever connections drop and replicas die: no ack or nack
\* settles a delivery of another job (delivery.Ack and Nack of consumer.go).
THEOREM SettlesItsOwn == Spec => []UnackedHeld
<1>1. Init => TypeOK /\ UnackedHeld
  BY TypeInit, UnackedInit
<1>2. (TypeOK /\ UnackedHeld) /\ [Next]_vars => (TypeOK /\ UnackedHeld)'
  BY TypeNext, UnackedNext
<1> QED
  BY <1>1, <1>2, PTL DEF Spec

-----------------------------------------------------------------------------
\* A step that only adds copies, work and skips, and lets a copy go only when
\* its message is vouched for.
Grows ==
  /\ accepted <= accepted'
  /\ \A c \in 1..accepted : env'[c] = env[c]
  /\ succeeded \subseteq succeeded'
  /\ skipped \subseteq skipped'
  /\ \A c \in 1..accepted' : where'[c] = "gone" =>
       c <= accepted /\ (where[c] = "gone" \/ Vouched(env[c].msg, c)')

\* What vouched for a copy before a step that Grows does so after it.
LEMMA VouchGrows ==
  ASSUME TypeOK, TypeOK', Grows, NEW m, NEW c \in Nat, Vouched(m, c)
  PROVE  Vouched(m, c)'
<1>0. accepted \in Nat /\ accepted' \in Nat
  BY DEF TypeOK, BrokerTypeOK
<1>1. CASE KeyOf[m] \in succeeded \/ m \in skipped
  BY <1>1 DEF Vouched, Grows
<1>2. ASSUME NEW d \in 1..accepted, d > c, env[d].msg = m, where[d] # "gone"
      PROVE  Vouched(m, c)'
  <2>1. d \in 1..accepted' /\ env'[d].msg = m
    BY <1>0, <1>2 DEF Grows
  <2>2. CASE where'[d] # "gone"
    BY <1>2, <2>1, <2>2 DEF Vouched
  <2>3. CASE where'[d] = "gone"
    <3>1. Vouched(m, d)'
      BY <1>2, <2>1, <2>3 DEF Grows
    <3> QED
      BY <1>0, <1>2, <3>1 DEF Vouched
  <2> QED
    BY <2>2, <2>3
<1> QED
  BY <1>1, <1>2 DEF Vouched

\* Across such a step, what is gone stays vouched for.
LEMMA GoneGrows ==
  ASSUME TypeOK, TypeOK', Grows, GoneVouched
  PROVE  GoneVouched'
<1> SUFFICES ASSUME NEW c \in 1..accepted', where'[c] = "gone"
             PROVE  Vouched(env[c].msg, c)'
  BY DEF GoneVouched
<1>1. c \in 1..accepted /\ c \in Nat /\ env'[c] = env[c]
  BY DEF Grows, TypeOK, BrokerTypeOK
<1>2. CASE where[c] = "gone"
  BY <1>1, <1>2, VouchGrows DEF GoneVouched
<1>3. CASE Vouched(env[c].msg, c)'
  BY <1>1, <1>3 DEF Vouched
<1> QED
  BY <1>1, <1>2, <1>3 DEF Grows

\* A job that keeps its delivery and its place keeps what is claimed of it.
LEMMA JobsGrow ==
  ASSUME TypeOK, TypeOK', Grows, AckVouched, WorkDone, DoneMeansSucceeded,
         \A j \in Jobs : job'[j].pc # "idle" => job'[j].copy = job[j].copy /\ job[j].pc # "idle",
         \A j \in Jobs : At(j, "ack")' => At(j, "ack") \/ Vouched(MsgOf(j), job[j].copy)',
         \A j \in Jobs : (At(j, "complete") \/ At(j, "ackdone"))' =>
            At(j, "complete") \/ At(j, "ackdone") \/ Key(j)' \in succeeded',
         \A k \in Keys : claim'[k].state = "done" => claim[k].state = "done" \/ k \in succeeded'
  PROVE  AckVouched' /\ WorkDone' /\ DoneMeansSucceeded'
<1>1. \A j \in Jobs : job'[j].pc # "idle" =>
         job[j].copy \in Nat /\ MsgOf(j)' = MsgOf(j) /\ Key(j)' = Key(j)
               /\ job'[j].copy = job[j].copy
  BY JobCopy DEF Grows, MsgOf, Key, TypeOK, BrokerTypeOK
<1>2. ASSUME NEW j \in Jobs, At(j, "ack")' PROVE Vouched(MsgOf(j), job[j].copy)'
  <2>1. CASE At(j, "ack")
    <3>1. Vouched(MsgOf(j), job[j].copy)
      BY <2>1 DEF AckVouched
    <3>2. Vouched(MsgOf(j), job[j].copy)' <=>
             \/ KeyOf[MsgOf(j)] \in succeeded'
             \/ MsgOf(j) \in skipped'
             \/ \E d \in 1..accepted' : d > job[j].copy /\ env'[d].msg = MsgOf(j)
                                         /\ where'[d] # "gone"
      BY <1>1, <1>2 DEF Vouched, At
    <3> DEFINE m == MsgOf(j)
               n == job[j].copy
    <3>3. ASSUME NEW mm, NEW nn \in Nat, Vouched(mm, nn)
          PROVE  \/ KeyOf[mm] \in succeeded'
                 \/ mm \in skipped'
                 \/ \E d \in 1..accepted' : d > nn /\ env'[d].msg = mm /\ where'[d] # "gone"
      BY <3>3, VouchGrows DEF Vouched
    <3>4. n \in Nat
      BY <1>1, <1>2 DEF At
    <3> QED
      BY <3>1, <3>2, <3>3, <3>4
  <2> QED
    BY <1>2, <2>1
<1>3. \A j \in Jobs : (At(j, "complete") \/ At(j, "ackdone"))' => (Key(j) \in succeeded)'
  BY <1>1 DEF WorkDone, Grows, At
<1> QED
  BY <1>2, <1>3 DEF AckVouched, WorkDone, DoneMeansSucceeded, Grows

\* A step that moves no copy Grows.
LEMMA QuietGrows ==
  ASSUME TypeOK, UNCHANGED <<accepted, env, where>>,
         succeeded \subseteq succeeded', skipped \subseteq skipped'
  PROVE  Grows
BY DEF TypeOK, BrokerTypeOK, Grows

\* So does one that moves a copy, if the copy is vouched for where it goes.
LEMMA MoveGrows ==
  ASSUME TypeOK, NEW c \in Copies, NEW place, MoveTo(c, place),
         place = "gone" => Vouched(env[c].msg, c)',
         UNCHANGED <<succeeded, skipped>>
  PROVE  Grows
BY DEF TypeOK, BrokerTypeOK, Grows, MoveTo, Copies

\* A vouched copy may go: what vouches for it is done, skipped or a later copy.
LEMMA GoneMoveGrows ==
  ASSUME TypeOK, NEW c \in 1..accepted, MoveTo(c, "gone"),
         Vouched(env[c].msg, c), UNCHANGED <<succeeded, skipped>>
  PROVE  Grows
<1>1. c \in Copies /\ accepted' = accepted /\ env' = env
  BY BrokerAssumption DEF TypeOK, BrokerTypeOK, MoveTo, Copies
<1>2. \A d \in 1..accepted : d > c => where'[d] = where[d]
  BY BrokerAssumption DEF TypeOK, BrokerTypeOK, MoveTo, Copies
<1>3. Vouched(env[c].msg, c)'
  BY <1>1, <1>2 DEF Vouched
<1> QED
  BY <1>1, <1>3, MoveGrows

\* A new copy vouches for every copy of its message accepted before it, and
\* for the one, if any, that goes in the same step.
LEMMA AcceptGrows ==
  ASSUME TypeOK, NEW m \in Msgs, NEW a \in 1..MaxAttempts,
         NEW place \in {"ready", "delay"}, NEW rest \in [Copies -> Places],
         \A c \in Copies : rest[c] = "unborn" <=> where[c] = "unborn",
         \A c \in Copies : rest[c] = "gone" => where[c] = "gone" \/ env[c].msg = m,
         Accept(m, a, place, rest),
         UNCHANGED <<redelivered, succeeded, skipped>>
  PROVE  /\ Grows
         /\ \A c \in 1..accepted : Vouched(m, c)'
<1>0. BrokerTypeOK /\ place \in Places \ {"unborn"} /\ accepted \in Nat
  BY DEF TypeOK, BrokerTypeOK, Places
<1>1. /\ BrokerTypeOK'
      /\ accepted' = accepted + 1
      /\ accepted' \in Copies
      /\ env'[accepted'] = [msg |-> m, attempt |-> a]
      /\ where'[accepted'] = place
      /\ \A c \in Copies : c # accepted' => env'[c] = env[c] /\ where'[c] = rest[c]
  BY <1>0, AcceptType
<1>2. \A c \in 1..accepted : Vouched(m, c)'
  <2>1. /\ accepted' \in 1..accepted'
        /\ env'[accepted'].msg = m
        /\ where'[accepted'] # "gone"
        /\ \A c \in 1..accepted : accepted' > c
    BY <1>0, <1>1
  <2> QED
    BY <2>1 DEF Vouched
<1>3. \A c \in 1..accepted : c \in Copies /\ c # accepted'
  BY <1>0, <1>1, BrokerAssumption DEF Copies
<1>4. \A c \in 1..accepted' : where'[c] = "gone" => c \in 1..accepted
  <2>1. where'[accepted'] # "gone"
    BY <1>1
  <2>2. \A c \in 1..accepted' : c # accepted' => c \in 1..accepted
    BY <1>0, <1>1
  <2> QED
    BY <2>1, <2>2
<1>5. \A c \in 1..accepted' : where'[c] = "gone" =>
         c <= accepted /\ (where[c] = "gone" \/ Vouched(env[c].msg, c)')
  <2> SUFFICES ASSUME NEW c \in 1..accepted', where'[c] = "gone", where[c] # "gone"
               PROVE  c <= accepted /\ Vouched(env[c].msg, c)'
    BY <1>4
  <2>1. c \in 1..accepted /\ rest[c] = "gone" /\ env[c].msg = m /\ env'[c] = env[c]
    BY <1>1, <1>3, <1>4
  <2> QED
    BY <1>2, <2>1 DEF Vouched
<1> QED
  BY <1>0, <1>1, <1>2, <1>3, <1>5 DEF Grows

\* A step of one job keeps the account if the job had reason to get there.
LEMMA AccountGoto ==
  ASSUME TypeOK, TypeOK', Account, Grows, NEW j \in Jobs, ~ At(j, "idle"),
         NEW pc \in Pcs, Goto(j, pc),
         pc = "ack" => Vouched(MsgOf(j), job[j].copy)',
         pc \in {"complete", "ackdone"} => Key(j)' \in succeeded',
         \A k \in Keys : claim'[k].state = "done" => claim[k].state = "done" \/ k \in succeeded'
  PROVE  Account'
<1>1. /\ \A i \in Jobs : job'[i].copy = job[i].copy
      /\ \A i \in Jobs : i # j => job'[i] = job[i]
      /\ job'[j].pc = pc
  BY GotoType
<1>2. \A i \in Jobs : job'[i].pc # "idle" => job'[i].copy = job[i].copy /\ job[i].pc # "idle"
  BY <1>1 DEF At
<1>3. \A i \in Jobs : At(i, "ack")' => At(i, "ack") \/ Vouched(MsgOf(i), job[i].copy)'
  BY <1>1 DEF At
<1>4. \A i \in Jobs : (At(i, "complete") \/ At(i, "ackdone"))' =>
         At(i, "complete") \/ At(i, "ackdone") \/ Key(i)' \in succeeded'
  BY <1>1 DEF At
<1>5. GoneVouched'
  BY GoneGrows DEF Account
<1> QED
  BY <1>2, <1>3, <1>4, <1>5, JobsGrow DEF Account

\* Any other step leaves every job where it is or ends it.
LEMMA AccountOther ==
  ASSUME TypeOK, TypeOK', Account, Grows,
         \A j \in Jobs : job'[j].pc # "idle" => job'[j].copy = job[j].copy /\ job'[j].pc = job[j].pc,
         \A k \in Keys : claim'[k].state = "done" => claim[k].state = "done"
  PROVE  Account'
<1>1. GoneVouched'
  BY GoneGrows DEF Account
<1> QED
  BY <1>1, JobsGrow DEF Account, At

\* A settle keeps the account if what it removes is vouched for.
LEMMA AccountSettle ==
  ASSUME TypeOK, TypeOK', Account, NEW j \in Jobs, NEW pc \in Pcs \ {"idle"}, NEW place,
         Settle(j, pc, place),
         place = "gone" => Vouched(MsgOf(j), job[j].copy)
  PROVE  Account'
<1>1. job[j].copy \in 1..accepted /\ job[j].copy \in Copies
  BY JobCopy DEF Settle, At
<1>2. Grows
  <2>1. CASE job[j].open
    <3>1. MoveTo(job[j].copy, place) /\ UNCHANGED <<succeeded, skipped>>
      BY <2>1 DEF Settle
    <3>2. CASE place = "gone"
      BY <1>1, <3>1, <3>2, GoneMoveGrows DEF MsgOf
    <3>3. CASE place # "gone"
      BY <1>1, <3>1, <3>3, MoveGrows
    <3> QED
      BY <3>2, <3>3
  <2>2. CASE ~ job[j].open
    BY <2>2, QuietGrows DEF Settle
  <2> QED
    BY <2>1, <2>2
<1>3. \A i \in Jobs : job'[i].pc # "idle" => job'[i].copy = job[i].copy /\ job'[i].pc = job[i].pc
  BY DEF TypeOK, Settle, Idle
<1> QED
  BY <1>2, <1>3, AccountOther DEF Settle

\* At first there is nothing to account for.
LEMMA AccountInit == Init => Account
<1> SUFFICES ASSUME Init PROVE Account
  OBVIOUS
<1>1. accepted = 0 /\ \A j \in Jobs : job[j].pc = "idle"
  BY DEF Init, BrokerInit, Idle
<1>2. \A k \in Keys : claim[k].state = "absent"
  BY DEF Init, ClaimsInit, Absent
<1> QED
  BY <1>1, <1>2 DEF Account, WorkDone, DoneMeansSucceeded, GoneVouched, AckVouched, At

\* Every step keeps the account.
LEMMA AccountNext == TypeOK /\ Account /\ [Next]_vars => Account'
<1> SUFFICES ASSUME TypeOK, Account, [Next]_vars PROVE Account'
  OBVIOUS
<1> USE DEF Pcs
<1>0. TypeOK' /\ ClaimsTypeOK /\ where \in [Copies -> Places]
  BY TypeNext DEF TypeOK, BrokerTypeOK
<1>1. CASE UNCHANGED vars
  BY <1>0, <1>1, QuietGrows, AccountOther DEF vars, brokerVars
<1>2. ASSUME NEW m \in Msgs, Produce(m) PROVE Account'
  <2>1. Grows
    BY <1>0, <1>2, BrokerAssumption, AcceptGrows DEF Produce, Publish
  <2> QED
    BY <1>0, <1>2, <2>1, AccountOther DEF Produce
<1>3. ASSUME NEW c \in Copies, TierDone(c) PROVE Account'
  <2>1. Grows
    BY <1>3, MoveGrows DEF TierDone, TierExpires
  <2> QED
    BY <1>0, <1>3, <2>1, AccountOther DEF TierDone
<1>4. ASSUME NEW c \in Copies, Replay(c) PROVE Account'
  <2> DEFINE rest == [where EXCEPT ![c] = "gone"]
  <2>1. c \in 1..accepted
    BY <1>4 DEF TypeOK, BrokerTypeOK, Replay, Copies
  <2>2. env[c].msg \in Msgs /\ 1 \in 1..MaxAttempts
    BY <2>1, BrokerAssumption DEF TypeOK, BrokerTypeOK, Envelopes
  <2>3. /\ rest \in [Copies -> Places]
        /\ \A d \in Copies : rest[d] = "unborn" <=> where[d] = "unborn"
        /\ \A d \in Copies : rest[d] = "gone" => where[d] = "gone" \/ env[d].msg = env[c].msg
    BY <1>0, <1>4 DEF Replay, Places
  <2>4. Grows
    <3>1. CASE Accept(env[c].msg, 1, "ready", rest)
      BY <1>4, <2>2, <2>3, <3>1, AcceptGrows DEF Replay
    <3>2. CASE Accept(env[c].msg, 1, "ready", where)
      BY <1>0, <1>4, <2>2, <3>2, AcceptGrows DEF Replay
    <3> QED
      BY <1>4, <3>1, <3>2 DEF Replay
  <2> QED
    BY <1>0, <1>4, <2>4, AccountOther DEF Replay
<1>5. ASSUME NEW j \in Jobs, NEW c \in Copies, Start(j, c) PROVE Account'
  <2>1. Grows
    BY <1>5, MoveGrows DEF Start
  <2>2. job'[j].pc \in {"dead", "claim"} /\ \A i \in Jobs : i # j => job'[i] = job[i]
    BY <1>5 DEF Start, TypeOK
  <2>3. GoneVouched'
    BY <1>0, <2>1, GoneGrows DEF Account
  <2>4. \A i \in Jobs : i # j /\ ~ At(i, "idle") =>
           (Vouched(MsgOf(i), job[i].copy) => Vouched(MsgOf(i), job[i].copy)')
    <3> SUFFICES ASSUME NEW i \in Jobs, i # j, ~ At(i, "idle"),
                        Vouched(MsgOf(i), job[i].copy)
                 PROVE  Vouched(MsgOf(i), job[i].copy)'
      OBVIOUS
    <3>1. job[i].copy \in Nat /\ job'[i] = job[i] /\ MsgOf(i)' = MsgOf(i)
      BY <1>5, <2>2, JobCopy DEF At, TypeOK, BrokerTypeOK, MsgOf, Start, MoveTo
    <3>2. ASSUME NEW m, NEW n \in Nat, Vouched(m, n), MsgOf(i)' = m, job'[i].copy = n
          PROVE  Vouched(MsgOf(i), job[i].copy)'
      BY <1>0, <2>1, <3>2, VouchGrows DEF Vouched
    <3> QED
      BY <3>1, <3>2
  <2>5. AckVouched'
    BY <2>2, <2>4 DEF Account, AckVouched, At
  <2>6. \A i \in Jobs : i # j /\ ~ At(i, "idle") => Key(i)' = Key(i)
    BY <1>5, <2>2 DEF Start, MoveTo, Key, MsgOf
  <2>7. WorkDone' /\ DoneMeansSucceeded'
    BY <1>5, <2>2, <2>6 DEF Account, WorkDone, DoneMeansSucceeded, At, Start
  <2> QED
    BY <2>3, <2>5, <2>7 DEF Account
<1>6. ASSUME NEW j \in Jobs, JobStep(j) PROVE Account'
  <2>0. ~ At(j, "idle") => /\ Key(j) \in Keys /\ MsgOf(j) \in Msgs
                           /\ OwnerOf[j] \in Owners
                           /\ AttemptOf(j) \in 1..MaxAttempts
                           /\ job[j].copy \in 1..accepted
    BY JobCopy, DispatchAssumption DEF At
  <2>1. CASE ClaimGranted(j)
    BY <1>0, <2>0, <2>1, QuietGrows, AccountGoto
       DEF ClaimGranted, At, brokerVars, Take, Running, ClaimsTypeOK
  <2>2. CASE ClaimRefused(j)
    <3>1. Grows
      BY <2>2, QuietGrows DEF ClaimRefused, brokerVars
    <3>2. Key(j)' = Key(j) /\ MsgOf(j)' = MsgOf(j)
      BY <2>2, GotoType DEF ClaimRefused, brokerVars, Key, MsgOf
    <3>3. CASE HeldByOther(Key(j), OwnerOf[j])
      <4>1. MsgOf(j)' \in skipped'
        BY <2>2, <3>2, <3>3 DEF ClaimRefused
      <4> QED
        BY <1>0, <2>2, <3>1, <4>1, AccountGoto DEF ClaimRefused, At, Vouched
    <3>4. CASE ~ HeldByOther(Key(j), OwnerOf[j])
      <4>1. claim[Key(j)].state \in {"absent", "running", "done"}
        BY <1>0, <2>0, <2>2 DEF ClaimRefused, At, ClaimsTypeOK, Rows
      <4>2. claim[Key(j)].state = "done"
        BY <2>2, <3>4, <4>1 DEF ClaimRefused, HeldByOther, Grants
      <4>3. Key(j) \in succeeded
        BY <2>0, <2>2, <4>2 DEF ClaimRefused, At, Account, DoneMeansSucceeded
      <4>4. KeyOf[MsgOf(j)]' \in succeeded'
        BY <2>2, <3>2, <4>3 DEF ClaimRefused, Key
      <4> QED
        BY <1>0, <2>2, <3>1, <4>4, AccountGoto DEF ClaimRefused, At, Vouched
    <3> QED
      BY <3>3, <3>4
  <2>3. CASE ClaimUnknown(j)
    BY <1>0, <2>0, <2>3, QuietGrows, AccountGoto
       DEF ClaimUnknown, At, brokerVars, Take, Running, ClaimsTypeOK
  <2>4. CASE HandlerSucceeds(j)
    <3>1. Key(j)' = Key(j)
      BY <2>4, GotoType DEF HandlerSucceeds, brokerVars, Key, MsgOf
    <3> QED
      BY <1>0, <2>4, <3>1, QuietGrows, AccountGoto DEF HandlerSucceeds, At, brokerVars
  <2>5. CASE HandlerFails(j)
    BY <1>0, <2>5, QuietGrows, AccountGoto DEF HandlerFails, At, brokerVars
  <2>6. CASE Complete(j) \/ CompleteUnknown(j)
    <3>1. At(j, "complete") /\ UNCHANGED <<brokerVars, succeeded, skipped>>
      BY <2>6 DEF Complete, CompleteUnknown
    <3>2. PICK pc \in {"ackdone", "release", "stuck"} : Goto(j, pc)
      BY <2>6 DEF Complete, CompleteUnknown
    <3>3. Key(j) \in succeeded
      BY <3>1 DEF Account, WorkDone
    <3>4. Key(j)' \in succeeded'
      BY <3>1, <3>2, <3>3, GotoType DEF brokerVars, Key, MsgOf
    <3>5. \A k \in Keys : claim'[k].state = "done" => claim[k].state = "done" \/ k \in succeeded'
      <4>1. MarkDone(Key(j), OwnerOf[j]) \/ UNCHANGED claim
        BY <2>6 DEF Complete, CompleteUnknown
      <4> QED
        BY <1>0, <3>1, <3>3, <4>1 DEF MarkDone, ClaimsTypeOK
    <3>6. Grows
      BY <3>1, QuietGrows DEF brokerVars
    <3> QED
      BY <1>0, <3>1, <3>2, <3>4, <3>5, <3>6, AccountGoto DEF At
  <2>7. CASE Release(j) \/ ReleaseUnknown(j)
    <3>1. \A k \in Keys : claim'[k].state = "done" => claim[k].state = "done"
      <4>1. Drop(Key(j), OwnerOf[j]) \/ UNCHANGED claim
        BY <2>7 DEF Release, ReleaseUnknown
      <4> QED
        BY <1>0, <4>1 DEF Drop, ClaimsTypeOK, Absent
    <3> QED
      BY <1>0, <2>7, <3>1, QuietGrows, AccountGoto DEF Release, ReleaseUnknown, At, brokerVars
  <2>8. CASE GiveUp(j)
    BY <1>0, <2>8, QuietGrows, AccountGoto DEF GiveUp, At, brokerVars
  <2>9. CASE ScheduleRetry(j)
    <3>1. AttemptOf(j) + 1 \in 1..MaxAttempts /\ MsgOf(j) \in Msgs /\ job[j].copy \in 1..accepted
      BY <2>0, <2>9, BrokerAssumption DEF ScheduleRetry, AtCeiling, At
    <3>2. Grows /\ \A m \in {MsgOf(j)} : \A c \in 1..accepted : Vouched(m, c)'
      BY <1>0, <2>9, <3>1, AcceptGrows DEF ScheduleRetry
    <3>3. MsgOf(j)' = MsgOf(j) /\ job'[j].copy = job[j].copy
      BY <2>9, <3>1, <3>2, GotoType DEF ScheduleRetry, Grows, MsgOf
    <3>4. Vouched(MsgOf(j), job[j].copy)'
      BY <3>1, <3>2, <3>3 DEF Vouched
    <3> QED
      BY <1>0, <2>9, <3>2, <3>4, AccountGoto DEF ScheduleRetry, At
  <2>10. CASE RetryUnconfirmed(j)
    <3>1. AttemptOf(j) + 1 \in 1..MaxAttempts /\ MsgOf(j) \in Msgs
      BY <2>0, <2>10, BrokerAssumption DEF RetryUnconfirmed, AtCeiling, At
    <3>2. Grows
      <4>1. CASE UNCHANGED <<accepted, env, where>>
        BY <2>10, <4>1, QuietGrows DEF RetryUnconfirmed
      <4>2. CASE Accept(MsgOf(j), AttemptOf(j) + 1, "delay", where)
        BY <1>0, <2>10, <3>1, <4>2, AcceptGrows DEF RetryUnconfirmed
      <4> QED
        BY <2>10, <4>1, <4>2 DEF RetryUnconfirmed
    <3> QED
      BY <1>0, <2>10, <3>2, AccountGoto DEF RetryUnconfirmed, AfterFailedPublish, At
  <2>11. CASE RetryOnDeadChannel(j)
    BY <1>0, <2>11, QuietGrows, AccountGoto
       DEF RetryOnDeadChannel, AfterFailedPublish, At, brokerVars
  <2>12. CASE Ack(j)
    <3>1. Vouched(MsgOf(j), job[j].copy)
      BY <2>12 DEF Ack, Settle, Account, AckVouched
    <3> QED
      BY <1>0, <2>12, <3>1, AccountSettle DEF Ack
  <2>13. CASE AckDone(j)
    <3>1. CASE Settle(j, "ackdone", "gone")
      <4>1. Vouched(MsgOf(j), job[j].copy)
        BY <3>1 DEF Settle, Account, WorkDone, Vouched, Key
      <4> QED
        BY <1>0, <3>1, <4>1, AccountSettle
    <3>2. CASE At(j, "ackdone") /\ Goto(j, "release")
                 /\ UNCHANGED <<brokerVars, claim, runtime, faults, succeeded, skipped>>
      BY <1>0, <3>2, QuietGrows, AccountGoto DEF At, brokerVars
    <3> QED
      BY <2>13, <3>1, <3>2 DEF AckDone
  <2>14. CASE DeadLetter(j) \/ RequeueOnce(j)
    BY <1>0, <2>14, AccountSettle DEF DeadLetter, RequeueOnce
  <2> QED
    BY <1>6, <2>1, <2>2, <2>3, <2>4, <2>5, <2>6, <2>7, <2>8, <2>9, <2>10, <2>11,
       <2>12, <2>13, <2>14 DEF JobStep
<1>7. ASSUME NEW o \in Owners, Crash(o) \/ LoseConnection(o) PROVE Account'
  <2>1. Grows
    <3>1. RequeueAll(InHand(o)) /\ UNCHANGED <<succeeded, skipped>>
      BY <1>7 DEF Crash, LoseConnection
    <3> QED
      BY <3>1, BrokerAssumption DEF TypeOK, BrokerTypeOK, RequeueAll, Grows, Copies
  <2>2. \A i \in Jobs : job'[i].pc # "idle" => job'[i].copy = job[i].copy /\ job'[i].pc = job[i].pc
    <3>1. CASE Crash(o)
      BY <3>1 DEF TypeOK, Crash, Idle
    <3>2. CASE LoseConnection(o)
      BY <3>2 DEF TypeOK, LoseConnection, Idle, JobRecords
    <3> QED
      BY <1>7, <3>1, <3>2
  <2> QED
    BY <1>0, <1>7, <2>1, <2>2, AccountOther DEF Crash, LoseConnection
<1>8. ASSUME NEW k \in Keys, LeaseLapses(k) PROVE Account'
  <2>1. Grows
    BY <1>8, QuietGrows DEF LeaseLapses, brokerVars
  <2>2. \A l \in Keys : claim'[l].state = "done" => claim[l].state = "done"
    BY <1>0, <1>8 DEF LeaseLapses, Lapse, ClaimsTypeOK, Rows
  <2> QED
    BY <1>0, <1>8, <2>1, <2>2, AccountOther DEF LeaseLapses
<1> QED
  BY <1>1, <1>2, <1>3, <1>4, <1>5, <1>6, <1>7, <1>8 DEF Next

\* A claim row is marked done only after a handler finished its key, and no
\* copy leaves the broker unvouched: the inductive invariant holds.
THEOREM NothingIsUnvouched == Spec => []NothingUnvouched
<1>1. Init => TypeOK /\ Account
  BY TypeInit, AccountInit
<1>2. (TypeOK /\ Account) /\ [Next]_vars => (TypeOK /\ Account)'
  BY TypeNext, AccountNext
<1>3. TypeOK /\ Account => NothingUnvouched
  BY DEF NothingUnvouched
<1> QED
  BY <1>1, <1>2, <1>3, PTL DEF Spec

\* Every published message is still with the broker, or done, or was acked
\* away as a duplicate of a running claim, whatever fails and however often.
THEOREM EveryMessageAccounted == Spec => []Accounted
<1>1. NothingUnvouched => Accounted
  <2> SUFFICES ASSUME NothingUnvouched, NEW m \in Msgs, Published(m),
                      Held(m) = {}
               PROVE  KeyOf[m] \in succeeded \/ m \in skipped
    BY DEF Accounted
  <2>1. PICK c \in 1..accepted : env[c].msg = m
    BY DEF Published
  <2>2. \A d \in 1..accepted : env[d].msg = m => where[d] = "gone"
    BY DEF Held
  <2> QED
    BY <2>1, <2>2 DEF NothingUnvouched, Account, GoneVouched, Vouched
<1> QED
  BY <1>1, NothingIsUnvouched, PTL

\* A claim row says done only for work a handler finished.
THEOREM DoneRowsAreWork == Spec => []DoneMeansSucceeded
<1>1. NothingUnvouched => DoneMeansSucceeded
  BY DEF NothingUnvouched, Account
<1> QED
  BY <1>1, NothingIsUnvouched, PTL

\* No statement on a claim row takes it out of done.
LEMMA DoneStays ==
  ASSUME TypeOK, [Next]_vars
  PROVE  \A k \in Keys : claim[k].state = "done" => claim'[k].state = "done"
<1> SUFFICES ASSUME NEW k \in Keys, claim[k].state = "done"
             PROVE  claim'[k].state = "done"
  OBVIOUS
<1>0. claim \in [Keys -> Rows]
  BY DEF TypeOK, ClaimsTypeOK
<1>1. CASE UNCHANGED claim
  BY <1>1
<1>2. ASSUME NEW j \in Jobs, Grants(Key(j), OwnerOf[j]), Take(Key(j), OwnerOf[j])
      PROVE  claim'[k].state = "done"
  BY <1>0, <1>2 DEF Grants, Take
<1>3. ASSUME NEW j \in Jobs, MarkDone(Key(j), OwnerOf[j])
      PROVE  claim'[k].state = "done"
  BY <1>0, <1>3 DEF MarkDone, Done
<1>4. ASSUME NEW j \in Jobs, Drop(Key(j), OwnerOf[j])
      PROVE  claim'[k].state = "done"
  BY <1>0, <1>4 DEF Drop
<1>5. ASSUME NEW l \in Keys, Lapse(l) PROVE claim'[k].state = "done"
  BY <1>0, <1>5 DEF Lapse, Rows
<1>6. ASSUME NEW j \in Jobs, JobStep(j) PROVE claim'[k].state = "done"
  <2>1. \/ UNCHANGED claim
        \/ Grants(Key(j), OwnerOf[j]) /\ Take(Key(j), OwnerOf[j])
        \/ MarkDone(Key(j), OwnerOf[j])
        \/ Drop(Key(j), OwnerOf[j])
    BY <1>6 DEF JobStep, ClaimGranted, ClaimRefused, ClaimUnknown, HandlerSucceeds,
       HandlerFails, Complete, CompleteUnknown, Release, ReleaseUnknown, GiveUp,
       ScheduleRetry, RetryUnconfirmed, RetryOnDeadChannel, Ack, AckDone, DeadLetter,
       RequeueOnce, Settle
  <2> QED
    BY <1>1, <1>2, <1>3, <1>4, <2>1
<1> QED
  BY <1>1, <1>5, <1>6 DEF Next, vars, Produce, TierDone, Replay, Start, Crash,
     LoseConnection, LeaseLapses

\* done -> skip, for ever: no late Release, no second Claim and no lapsed lease
\* takes a done row back (bus.claim and bus.release, catalog.go).
THEOREM DoneForever == Spec => DoneIsForever
<1>1. TypeOK /\ [Next]_vars =>
        [\A k \in Keys : claim[k].state = "done" => claim'[k].state = "done"]_vars
  BY DoneStays
<1> QED
  BY <1>1, TypeSafety, PTL DEF Spec, DoneIsForever

-----------------------------------------------------------------------------
\* The refinement of MessageLife.
Going(c) == where[c] \notin {"gone", "dlq"}
HasGoing(m) == \E c \in 1..accepted : env[c].msg = m /\ Going(c)
HasHeld(m) == \E c \in 1..accepted : env[c].msg = m /\ where[c] # "gone"

LifeIs(m) ==
  /\ LifeOf(m) \in {"unsent", "travelling", "parked", "settled"}
  /\ LifeOf(m) = "unsent" <=> ~ Published(m)
  /\ LifeOf(m) = "travelling" <=> HasGoing(m)
  /\ LifeOf(m) = "parked" <=> ~ HasGoing(m) /\ HasHeld(m)
  /\ LifeOf(m) = "settled" <=> Published(m) /\ ~ HasHeld(m)

\* The life of a message in terms of the copies the broker has.
LEMMA LifeCases == \A m \in Msgs : LifeIs(m)
<1> SUFFICES ASSUME NEW m \in Msgs PROVE LifeIs(m)
  OBVIOUS
<1>1. Travelling(m) # {} <=> HasGoing(m)
  BY DEF Travelling, Held, HasGoing, Going
<1>2. Held(m) # {} <=> HasHeld(m)
  BY DEF Held, HasHeld
<1>3. (HasGoing(m) => HasHeld(m)) /\ (HasHeld(m) => Published(m))
  BY DEF HasGoing, HasHeld, Going, Published
<1> QED
  BY <1>1, <1>2, <1>3 DEF LifeOf, LifeIs

\* The same after a step.
LEMMA LifeCasesNext == (\A m \in Msgs : LifeIs(m))'
BY LifeCases, PTL

\* If no message changes its life, the mapped variable does not change.
LEMMA LifeKept ==
  ASSUME \A m \in Msgs : LifeOf(m)' = LifeOf(m)
  PROVE  lifeMap' = lifeMap
BY DEF lifeMap

\* If one message does, the mapped variable changes there alone.
LEMMA LifeMoved ==
  ASSUME NEW m \in Msgs, \A n \in Msgs : n # m => LifeOf(n)' = LifeOf(n)
  PROVE  lifeMap[m] = LifeOf(m) /\ lifeMap' = [lifeMap EXCEPT ![m] = LifeOf(m)']
BY DEF lifeMap

\* The mapped done changes only with the keys that succeeded.
LEMMA DoneKept ==
  ASSUME UNCHANGED succeeded
  PROVE  doneMap' = doneMap
BY DEF doneMap

\* Moves of copies within the broker that no message notices.
LEMMA SameLife ==
  ASSUME UNCHANGED <<accepted, env>>,
         \A c \in 1..accepted : /\ where'[c] = "gone" <=> where[c] = "gone"
                                /\ where'[c] = "dlq" <=> where[c] = "dlq"
  PROVE  lifeMap' = lifeMap
<1>1. \A m \in Msgs : LifeOf(m)' = LifeOf(m)
  <2> SUFFICES ASSUME NEW m \in Msgs PROVE LifeOf(m)' = LifeOf(m)
    OBVIOUS
  <2>1. Published(m)' <=> Published(m)
    BY DEF Published
  <2>2. HasGoing(m)' <=> HasGoing(m)
    BY DEF HasGoing, Going
  <2>3. HasHeld(m)' <=> HasHeld(m)
    BY DEF HasHeld
  <2>4. LifeIs(m) /\ LifeIs(m)'
    BY LifeCases, LifeCasesNext
  <2> QED
    BY <2>1, <2>2, <2>3, <2>4 DEF LifeIs
<1> QED
  BY <1>1, LifeKept

\* A new copy of m: m travels, and no other message notices.
LEMMA ArriveLife ==
  ASSUME TypeOK, NEW m \in Msgs, NEW a \in 1..MaxAttempts,
         NEW place \in {"ready", "delay"}, NEW rest \in [Copies -> Places],
         \A c \in Copies : rest[c] = "unborn" <=> where[c] = "unborn",
         \A c \in 1..accepted : rest[c] = where[c] \/ env[c].msg = m,
         Accept(m, a, place, rest), UNCHANGED redelivered
  PROVE  /\ LifeOf(m)' = "travelling"
         /\ \A n \in Msgs : n # m => LifeOf(n)' = LifeOf(n)
<1>0. BrokerTypeOK /\ place \in Places \ {"unborn"} /\ accepted \in Nat
  BY DEF TypeOK, BrokerTypeOK, Places
<1>1. /\ accepted' = accepted + 1
      /\ accepted' \in Copies
      /\ env'[accepted'] = [msg |-> m, attempt |-> a]
      /\ where'[accepted'] = place
      /\ \A c \in Copies : c # accepted' => env'[c] = env[c] /\ where'[c] = rest[c]
  BY <1>0, AcceptType
<1>2. \A c \in 1..accepted : c \in Copies /\ c # accepted' /\ c \in 1..accepted'
  BY <1>0, <1>1, BrokerAssumption DEF Copies
<1>3. accepted' \in 1..accepted' /\ \A c \in 1..accepted' : c # accepted' => c \in 1..accepted
  BY <1>0, <1>1
<1>4. LifeOf(m)' = "travelling"
  <2>1. env'[accepted'].msg = m /\ where'[accepted'] \notin {"gone", "dlq"}
    BY <1>1
  <2>2. HasGoing(m)'
    BY <1>3, <2>1 DEF HasGoing, Going
  <2> QED
    BY <2>2, LifeCasesNext DEF LifeIs
<1>5. ASSUME NEW n \in Msgs, n # m PROVE LifeOf(n)' = LifeOf(n)
  <2>1. \A c \in 1..accepted : env[c].msg = n => where'[c] = where[c]
    BY <1>1, <1>2, <1>5
  <2>2. \A c \in 1..accepted : env'[c] = env[c]
    BY <1>1, <1>2
  <2>3. env'[accepted'].msg # n
    BY <1>1, <1>5
  <2>4. Published(n)' <=> Published(n)
    BY <1>2, <1>3, <2>2, <2>3 DEF Published
  <2>5. HasGoing(n)' <=> HasGoing(n)
    BY <1>2, <1>3, <2>1, <2>2, <2>3 DEF HasGoing, Going
  <2>6. HasHeld(n)' <=> HasHeld(n)
    BY <1>2, <1>3, <2>1, <2>2, <2>3 DEF HasHeld
  <2>7. LifeIs(n) /\ LifeIs(n)'
    BY LifeCases, LifeCasesNext
  <2> QED
    BY <2>4, <2>5, <2>6, <2>7 DEF LifeIs
<1> QED
  BY <1>4, <1>5

\* A copy of m leaves for the dead letters, or for good.
LEMMA LeaveLife ==
  ASSUME TypeOK, NEW c \in 1..accepted, Going(c), NEW place \in {"gone", "dlq"},
         MoveTo(c, place), NEW m \in Msgs, env[c].msg = m
  PROVE  /\ LifeOf(m) = "travelling"
         /\ \/ LifeOf(m)' \in {"travelling", "parked"}
            \/ LifeOf(m)' = "settled" /\ place = "gone" /\ ~ HasHeld(m)'
         /\ \A n \in Msgs : n # m => LifeOf(n)' = LifeOf(n)
<1>0. /\ accepted' = accepted /\ env' = env
      /\ where' = [where EXCEPT ![c] = place]
      /\ c \in Copies /\ where \in [Copies -> Places]
      /\ 1..accepted \subseteq Copies
  BY BrokerAssumption DEF MoveTo, TypeOK, BrokerTypeOK, Copies, Envelopes
<1>1. LifeOf(m) = "travelling"
  <2>1. HasGoing(m)
    BY DEF HasGoing
  <2> QED
    BY <1>0, <2>1, LifeCases DEF LifeIs
<1>2. \/ LifeOf(m)' \in {"travelling", "parked"}
      \/ LifeOf(m)' = "settled" /\ place = "gone" /\ ~ HasHeld(m)'
  <2>1. Published(m)'
    BY <1>0 DEF Published
  <2>2. LifeIs(m)'
    BY <1>0, LifeCasesNext
  <2>3. place = "dlq" => HasHeld(m)'
    BY <1>0 DEF HasHeld
  <2> QED
    BY <2>1, <2>2, <2>3 DEF LifeIs
<1>3. ASSUME NEW n \in Msgs, n # m PROVE LifeOf(n)' = LifeOf(n)
  <2>1. Published(n)' <=> Published(n)
    BY <1>0 DEF Published
  <2>2. \A d \in 1..accepted : env[d].msg = n => where'[d] = where[d]
    BY <1>0, <1>3
  <2>3. (HasGoing(n)' <=> HasGoing(n)) /\ (HasHeld(n)' <=> HasHeld(n))
    BY <1>0, <2>2 DEF HasGoing, HasHeld, Going
  <2>4. LifeIs(n) /\ LifeIs(n)'
    BY LifeCases, LifeCasesNext
  <2> QED
    BY <2>1, <2>3, <2>4 DEF LifeIs
<1> QED
  BY <1>1, <1>2, <1>3

\* The two shapes of a step of MessageLife that moves a message.
LEMMA LifeArrives ==
  ASSUME NEW m \in Msgs, LifeOf(m)' = "travelling",
         \A n \in Msgs : n # m => LifeOf(n)' = LifeOf(n),
         UNCHANGED <<succeeded, skipped>>
  PROVE  [Life!Next]_(Life!vars)
<1>1. lifeMap[m] = LifeOf(m) /\ lifeMap' = [lifeMap EXCEPT ![m] = "travelling"]
  BY LifeMoved
<1>2. doneMap' = doneMap /\ LifeIs(m)
  BY DoneKept, LifeCases
<1>3. CASE LifeOf(m) = "travelling"
  BY <1>1, <1>2, <1>3 DEF lifeMap, Life!vars
<1>4. CASE LifeOf(m) \in {"unsent", "parked", "settled"}
  BY <1>1, <1>2, <1>4 DEF Life!Next, Life!Move, Life!Revive
<1> QED
  BY <1>2, <1>3, <1>4 DEF LifeIs

\* A travelling message that goes on, is parked or is settled takes a step of MessageLife.
LEMMA LifeLeaves ==
  ASSUME NEW m \in Msgs, LifeOf(m) = "travelling",
         \/ LifeOf(m)' \in {"travelling", "parked"}
         \/ LifeOf(m)' = "settled" /\ (KeyOf[m] \in succeeded \/ m \in skipped),
         \A n \in Msgs : n # m => LifeOf(n)' = LifeOf(n),
         UNCHANGED <<succeeded, skipped>>
  PROVE  [Life!Next]_(Life!vars)
<1>1. lifeMap[m] = "travelling" /\ lifeMap' = [lifeMap EXCEPT ![m] = LifeOf(m)']
  BY LifeMoved
<1>2. doneMap' = doneMap
  BY DoneKept
<1>3. CASE LifeOf(m)' = "travelling"
  BY <1>1, <1>2, <1>3 DEF lifeMap, Life!vars
<1>4. CASE LifeOf(m)' = "parked"
  BY <1>1, <1>2, <1>4 DEF Life!Next, Life!Move
<1>5. CASE LifeOf(m)' = "settled" /\ (KeyOf[m] \in succeeded \/ m \in skipped)
  BY <1>1, <1>2, <1>5 DEF Life!Next, Life!Move, Life!Settle, doneMap
<1> QED
  BY <1>3, <1>4, <1>5

\* A step that no message notices is a stutter of MessageLife.
LEMMA LifeQuiet ==
  ASSUME UNCHANGED <<accepted, env, succeeded, skipped>>,
         \A c \in 1..accepted : /\ where'[c] = "gone" <=> where[c] = "gone"
                                /\ where'[c] = "dlq" <=> where[c] = "dlq"
  PROVE  UNCHANGED Life!vars
BY SameLife, DoneKept DEF Life!vars

\* An ack, a dead letter and a requeue are steps of MessageLife.
LEMMA LifeSettle ==
  ASSUME TypeOK, UnackedHeld, Account, NEW j \in Jobs, NEW pc \in Pcs \ {"idle"},
         NEW place \in {"gone", "dlq", "ready"}, Settle(j, pc, place),
         place = "gone" => Vouched(MsgOf(j), job[j].copy)
  PROVE  [Life!Next]_(Life!vars)
<1>0. job[j].copy \in 1..accepted /\ job[j].copy \in Copies /\ MsgOf(j) \in Msgs
  BY JobCopy DEF Settle, At
<1>1. CASE ~ job[j].open
  BY <1>1, LifeQuiet DEF Settle
<1>2. CASE job[j].open
  <2>1. MoveTo(job[j].copy, place) /\ UNCHANGED <<succeeded, skipped>>
    BY <1>2 DEF Settle
  <2>2. where[job[j].copy] = "unacked"
    BY <1>0, <1>2 DEF UnackedHeld, HoldsIt, Settle, At
  <2>3. CASE place = "ready"
    BY <1>0, <2>1, <2>2, <2>3, LifeQuiet DEF MoveTo, TypeOK, BrokerTypeOK
  <2>4. CASE place \in {"gone", "dlq"}
    <3>1. PICK m \in Msgs : m = MsgOf(j)
      BY <1>0
    <3>2. PICK c \in 1..accepted : c = job[j].copy
      BY <1>0
    <3>3. Going(c) /\ env[c].msg = m /\ MoveTo(c, place)
      BY <2>1, <2>2, <3>1, <3>2 DEF Going, MsgOf
    <3>4. /\ LifeOf(m) = "travelling"
          /\ \/ LifeOf(m)' \in {"travelling", "parked"}
             \/ LifeOf(m)' = "settled" /\ place = "gone" /\ ~ HasHeld(m)'
          /\ \A n \in Msgs : n # m => LifeOf(n)' = LifeOf(n)
      BY <2>4, <3>3, LeaveLife
    <3>5. place = "gone" => Vouched(m, c)
      BY <3>1, <3>2
    <3>6. place = "gone" /\ ~ HasHeld(m)' => KeyOf[m] \in succeeded \/ m \in skipped
      <4>1. \A d \in 1..accepted : d > c => where'[d] = where[d]
        BY <3>3 DEF MoveTo, TypeOK, BrokerTypeOK, Copies
      <4> QED
        BY <3>3, <3>5, <4>1 DEF Vouched, HasHeld, MoveTo
    <3> QED
      BY <2>1, <3>4, <3>6, LifeLeaves
  <2> QED
    BY <2>3, <2>4
<1> QED
  BY <1>1, <1>2

\* Every step of the dispatcher is a step of MessageLife or a stutter.
LEMMA LifeNext == TypeOK /\ UnackedHeld /\ Account /\ [Next]_vars => [Life!Next]_(Life!vars)
<1> SUFFICES ASSUME TypeOK, UnackedHeld, Account, [Next]_vars
             PROVE  [Life!Next]_(Life!vars)
  OBVIOUS
<1> USE DEF Pcs
<1>0. where \in [Copies -> Places] /\ 1..accepted \subseteq Copies
  BY BrokerAssumption DEF TypeOK, BrokerTypeOK, Copies
<1>1. CASE UNCHANGED vars
  BY <1>1, LifeQuiet DEF vars, brokerVars
<1>2. ASSUME NEW m \in Msgs, Produce(m) PROVE [Life!Next]_(Life!vars)
  <2>1. /\ LifeOf(m)' = "travelling"
        /\ \A n \in Msgs : n # m => LifeOf(n)' = LifeOf(n)
    BY <1>0, <1>2, BrokerAssumption, ArriveLife DEF Produce, Publish
  <2> QED
    BY <1>2, <2>1, LifeArrives DEF Produce
<1>3. ASSUME NEW c \in Copies, TierDone(c) PROVE [Life!Next]_(Life!vars)
  BY <1>0, <1>3, LifeQuiet DEF TierDone, TierExpires, MoveTo
<1>4. ASSUME NEW c \in Copies, Replay(c) PROVE [Life!Next]_(Life!vars)
  <2> DEFINE rest == [where EXCEPT ![c] = "gone"]
  <2>1. c \in 1..accepted
    BY <1>4 DEF TypeOK, BrokerTypeOK, Replay, Copies
  <2>2. env[c].msg \in Msgs /\ 1 \in 1..MaxAttempts
    BY <2>1, BrokerAssumption DEF TypeOK, BrokerTypeOK, Envelopes
  <2>3. PICK m \in Msgs : m = env[c].msg
    BY <2>2
  <2>4. /\ rest \in [Copies -> Places]
        /\ \A d \in Copies : rest[d] = "unborn" <=> where[d] = "unborn"
        /\ \A d \in 1..accepted : rest[d] = where[d] \/ env[d].msg = m
    BY <1>0, <1>4, <2>3 DEF Replay, Places
  <2>5. LifeOf(m)' = "travelling" /\ \A n \in Msgs : n # m => LifeOf(n)' = LifeOf(n)
    <3>1. CASE Accept(m, 1, "ready", rest)
      BY <1>4, <2>2, <2>4, <3>1, ArriveLife DEF Replay
    <3>2. CASE Accept(m, 1, "ready", where)
      BY <1>0, <1>4, <2>2, <3>2, ArriveLife DEF Replay
    <3> QED
      BY <1>4, <2>3, <3>1, <3>2 DEF Replay
  <2> QED
    BY <1>4, <2>5, LifeArrives DEF Replay
<1>5. ASSUME NEW j \in Jobs, NEW c \in Copies, Start(j, c) PROVE [Life!Next]_(Life!vars)
  BY <1>0, <1>5, LifeQuiet DEF Start, MoveTo
<1>6. ASSUME NEW j \in Jobs, JobStep(j) PROVE [Life!Next]_(Life!vars)
  <2>0. ~ At(j, "idle") => /\ Key(j) \in Keys /\ MsgOf(j) \in Msgs
                           /\ AttemptOf(j) \in 1..MaxAttempts
                           /\ job[j].copy \in 1..accepted
    BY JobCopy DEF At
  <2>1. CASE ClaimGranted(j) \/ ClaimUnknown(j) \/ HandlerFails(j) \/ Complete(j)
             \/ CompleteUnknown(j) \/ Release(j) \/ ReleaseUnknown(j) \/ GiveUp(j)
             \/ RetryOnDeadChannel(j)
    BY <2>1, LifeQuiet DEF ClaimGranted, ClaimUnknown, HandlerFails, Complete,
       CompleteUnknown, Release, ReleaseUnknown, GiveUp, RetryOnDeadChannel, brokerVars
  <2>2. CASE ClaimRefused(j)
    <3>1. lifeMap' = lifeMap /\ doneMap' = doneMap
      BY <2>2, SameLife, DoneKept DEF ClaimRefused, brokerVars
    <3>2. Published(MsgOf(j)) /\ MsgOf(j) \in Msgs
      BY <2>0, <2>2 DEF ClaimRefused, At, Published, MsgOf
    <3>3. lifeMap[MsgOf(j)] # "unsent"
      BY <3>2, LifeCases DEF lifeMap, LifeIs
    <3>4. CASE skipped' = skipped \cup {MsgOf(j)}
      BY <3>1, <3>2, <3>3, <3>4 DEF Life!Next, Life!Skip
    <3>5. CASE skipped' = skipped
      BY <3>1, <3>5 DEF Life!vars
    <3> QED
      BY <2>2, <3>4, <3>5 DEF ClaimRefused
  <2>3. CASE HandlerSucceeds(j)
    <3> DEFINE S == {m \in Msgs : KeyOf[m] = Key(j)}
    <3>1. lifeMap' = lifeMap /\ skipped' = skipped
      BY <2>3, SameLife DEF HandlerSucceeds, brokerVars
    <3>2. doneMap' = doneMap \cup S
      BY <2>3 DEF HandlerSucceeds, doneMap
    <3>3. S \in SUBSET Msgs
      OBVIOUS
    <3> QED
      BY <3>1, <3>2, <3>3 DEF Life!Next, Life!Work
  <2>4. CASE ScheduleRetry(j) \/ RetryUnconfirmed(j)
    <3>1. AttemptOf(j) + 1 \in 1..MaxAttempts
      BY <2>0, <2>4, BrokerAssumption DEF ScheduleRetry, RetryUnconfirmed, AtCeiling, At
    <3>2. PICK m \in Msgs : m = MsgOf(j)
      BY <2>0, <2>4 DEF ScheduleRetry, RetryUnconfirmed, At
    <3>3. PICK a \in 1..MaxAttempts : a = AttemptOf(j) + 1
      BY <3>1
    <3>4. UNCHANGED <<redelivered, succeeded, skipped>>
      BY <2>4 DEF ScheduleRetry, RetryUnconfirmed
    <3>5. CASE Accept(m, a, "delay", where)
      <4>1. LifeOf(m)' = "travelling" /\ \A n \in Msgs : n # m => LifeOf(n)' = LifeOf(n)
        BY <1>0, <3>4, <3>5, ArriveLife
      <4> QED
        BY <3>4, <4>1, LifeArrives
    <3>6. CASE UNCHANGED <<accepted, env, where>>
      BY <3>4, <3>6, LifeQuiet
    <3> QED
      BY <2>4, <3>2, <3>3, <3>5, <3>6 DEF ScheduleRetry, RetryUnconfirmed
  <2>5. CASE Ack(j)
    <3>1. Vouched(MsgOf(j), job[j].copy)
      BY <2>5 DEF Ack, Settle, Account, AckVouched
    <3> QED
      BY <2>5, <3>1, LifeSettle DEF Ack
  <2>6. CASE AckDone(j)
    <3>1. CASE Settle(j, "ackdone", "gone")
      <4>1. Vouched(MsgOf(j), job[j].copy)
        BY <3>1 DEF Settle, Account, WorkDone, Vouched, Key
      <4> QED
        BY <3>1, <4>1, LifeSettle
    <3>2. CASE UNCHANGED <<brokerVars, succeeded, skipped>>
      BY <3>2, LifeQuiet DEF brokerVars
    <3> QED
      BY <2>6, <3>1, <3>2 DEF AckDone
  <2>7. CASE DeadLetter(j) \/ RequeueOnce(j)
    BY <2>7, LifeSettle DEF DeadLetter, RequeueOnce
  <2> QED
    BY <1>6, <2>1, <2>2, <2>3, <2>4, <2>5, <2>6, <2>7 DEF JobStep
<1>7. ASSUME NEW o \in Owners, Crash(o) \/ LoseConnection(o)
      PROVE  [Life!Next]_(Life!vars)
  <2>1. RequeueAll(InHand(o)) /\ UNCHANGED <<succeeded, skipped>>
    BY <1>7 DEF Crash, LoseConnection
  <2>2. \A c \in InHand(o) : c \in Copies => where[c] = "unacked"
    BY DEF InHand, OpenJobs, UnackedHeld, HoldsIt
  <2> QED
    BY <1>0, <2>1, <2>2, LifeQuiet DEF RequeueAll
<1>8. ASSUME NEW k \in Keys, LeaseLapses(k) PROVE [Life!Next]_(Life!vars)
  BY <1>8, LifeQuiet DEF LeaseLapses, brokerVars
<1> QED
  BY <1>1, <1>2, <1>3, <1>4, <1>5, <1>6, <1>7, <1>8 DEF Next

\* The first state maps to the first state.
LEMMA LifeInit == Init => Life!Init
<1> SUFFICES ASSUME Init PROVE Life!Init
  OBVIOUS
<1>1. \A m \in Msgs : LifeOf(m) = "unsent"
  BY DEF Init, BrokerInit, LifeOf, Published
<1> QED
  BY <1>1 DEF Init, Life!Init, lifeMap, doneMap

\* The dispatcher, the broker and the claim store together implement the
\* abstract promise: what leaves the bus was done, or skipped as a duplicate.
THEOREM DispatchKeepsThePromise == Spec => KeepsThePromise
<1>1. Spec => [](TypeOK /\ UnackedHeld /\ Account)
  <2>1. Init => TypeOK /\ UnackedHeld /\ Account
    BY TypeInit, UnackedInit, AccountInit
  <2>2. (TypeOK /\ UnackedHeld /\ Account) /\ [Next]_vars
           => (TypeOK /\ UnackedHeld /\ Account)'
    BY TypeNext, UnackedNext, AccountNext
  <2> QED
    BY <2>1, <2>2, PTL DEF Spec
<1> QED
  BY <1>1, LifeInit, LifeNext, PTL DEF Spec, KeepsThePromise, Life!Spec
=============================================================================
