-------------------------------- MODULE MCLive --------------------------------
(* What must end up happening, on small instances: a behaviour is one of a     *)
(* worker's session, of the bus, of the payments queue, of users.paid or of    *)
(* the gate of the password hash, with the fairness of that part.              *)
EXTENDS ConsumerSession, Sequences, TLC

CONSTANTS j1, j2, p1, w1, w2, e1, e2, g1, g3, o1, o2, m1, m2, k1

VARIABLES focus,
  \* PaymentEvents
  provider, changes, owed, events, payments, current, consumed, work, access, keys, faults, granted, forsaken,
  \* Access
  now, truth, row, ev, stamped, latest, opened, paid, sweep, overtaken, missed,
  \* KdfGate
  running, waiting, at, decoy, broken,
  \* BusDispatch
  accepted, env, where, redelivered, claim, language, job, failures, succeeded, skipped,
  \* MetaOutbox
  context, hook, meta, carried, counted, metaFaults, doubled,
  \* JobQueue
  jobs, hands, place, pass, jobFaults, ran, dropped

Q == INSTANCE PaymentEvents
       WITH Payments <- {p1}, Ordered <- {p1}, NoHint <- {}, Workers <- {w1, w2},
            Slots <- {e1, e2}, MaxAttempts <- 2, MaxChanges <- 2, MaxTroubles <- 1,
            rows <- payments, entitled <- access, troubles <- faults
A == INSTANCE Access
       WITH Grants <- {g1, g3}, Events <- {e1}, MaxNow <- 1, MaxMisses <- 0,
            stored <- row, keys <- opened, misses <- missed
K == INSTANCE KdfGate
       WITH Calls <- {p1, w1, e1}, Spends <- {w1, e1}, LIMIT <- 1, MaxFaults <- 1,
            faults <- broken
B == INSTANCE BusDispatch
       WITH Runtimes <- {"go"}, Keys <- {k1}, Msgs <- {m1, m2}, KeyOf <- [m \in {m1, m2} |-> k1],
            Unhandled <- {m2}, Unreadable <- {}, Jobs <- {g1, g3}, Owners <- {o1, o2},
            OwnerOf <- [g \in {g1, g3} |-> IF g = g3 THEN o2 ELSE o1], Prefetch <- 1,
            MaxAttempts <- 2, MaxCopies <- 5, MaxFaults <- 1,
            Faults <- {"crash", "drop", "claim", "publish", "replay"},
            runtime <- language, faults <- failures

M == INSTANCE MetaOutbox
       WITH Sales <- {p1}, Ticks <- {w1, w2}, MaxAttempts <- 2, MaxTroubles <- 2,
            hand <- carried, accepted <- counted, troubles <- metaFaults
J == INSTANCE JobQueue
       WITH Works <- {m1, m2}, Processes <- {w1, w2},
            Handles <- [w \in {w1, w2} |-> IF w = w1 THEN {m1, m2} ELSE {m1}], Batch <- 2,
            MAX_ATTEMPTS <- 2, MaxFaults <- 1, job <- jobs, at <- place, faults <- jobFaults

ASSUME /\ Q!PaymentAssumption /\ A!AccessAssumption /\ K!KdfAssumption
       /\ M!OutboxAssumption /\ J!JobAssumption

queueVars == <<provider, changes, owed, events, payments, current, consumed, work, access,
               keys, faults, granted, forsaken>>
accessVars == <<now, truth, row, ev, stamped, latest, opened, paid, sweep, overtaken, missed>>
kdfVars == <<running, waiting, at, decoy, broken>>
busVars == <<accepted, env, where, redelivered, claim, language, job, failures, succeeded, skipped>>
metaVars == <<context, hook, meta, carried, counted, metaFaults, doubled>>
jobVars == <<jobs, hands, place, pass, jobFaults, ran, dropped>>
liveVars == <<focus, vars, queueVars, accessVars, kdfVars, busVars, metaVars, jobVars>>

LiveInit ==
  /\ focus \in {"session", "queue", "access", "kdf", "bus", "meta", "jobs"}
  /\ Init /\ Q!EventsInit /\ A!AccessInit /\ K!KdfInit /\ B!Init /\ M!OutboxInit /\ J!JobInit
  /\ (focus # "session" => runtime = "go") /\ (focus # "access" => ~ paid)

\* Changes at Mercado Pago and faults are two together, to keep the graph small.
LiveNext ==
  \/ focus = "session" /\ Next
     /\ UNCHANGED <<focus, queueVars, accessVars, kdfVars, busVars, metaVars, jobVars>>
  \/ focus = "queue" /\ Q!EventsNext /\ changes' + faults' <= 2
     /\ UNCHANGED <<focus, vars, accessVars, kdfVars, busVars, metaVars, jobVars>>
  \/ focus = "access" /\ A!AccessNext
     /\ UNCHANGED <<focus, vars, queueVars, kdfVars, busVars, metaVars, jobVars>>
  \/ focus = "kdf" /\ K!KdfNext
     /\ UNCHANGED <<focus, vars, queueVars, accessVars, busVars, metaVars, jobVars>>
  \/ focus = "bus" /\ B!Next
     /\ UNCHANGED <<focus, vars, queueVars, accessVars, kdfVars, metaVars, jobVars>>
  \/ focus = "meta" /\ M!OutboxNext
     /\ UNCHANGED <<focus, vars, queueVars, accessVars, kdfVars, busVars, jobVars>>
  \/ focus = "jobs" /\ J!JobNext
     /\ UNCHANGED <<focus, vars, queueVars, accessVars, kdfVars, busVars, metaVars>>

\* The fairness of each part, for the behaviours that are its own.
SessionFairness ==
  /\ WF_vars(focus = "session" /\ LoopStep /\ main # "exited")
  /\ WF_vars(focus = "session" /\ StopStep)
  /\ \A j \in Jobs : WF_vars(focus = "session" /\ Finish(j))
QueueFairness ==
  /\ \A w \in {w1, w2} : WF_queueVars(focus = "queue" /\ Q!CallStep(w))
  /\ WF_queueVars(focus = "queue" /\ \E w \in {w1, w2}, e \in {e1, e2} : Q!Take(w, e))
  /\ WF_queueVars(focus = "queue" /\ Q!Reconcile(p1))
AccessFairness ==
  WF_accessVars(focus = "access" /\ A!Sweeps) /\ WF_accessVars(focus = "access" /\ A!SweepCloses)
KdfFairness == \A j \in K!Askers : WF_kdfVars(focus = "kdf" /\ K!KdfStep(j))
BusFairness ==
  /\ \A j \in {g1, g3} : WF_busVars(focus = "bus" /\ B!JobStep(j))
  /\ WF_busVars(focus = "bus" /\ \E j \in {g1, g3}, c \in B!Copies : B!Start(j, c))
  /\ \A c \in B!Copies : WF_busVars(focus = "bus" /\ B!TierDone(c))

MetaFairness ==
  /\ \A t \in {w1, w2} : WF_metaVars(focus = "meta" /\ M!OutboxStep(t))
  /\ WF_metaVars(focus = "meta" /\ \E t \in {w1, w2} : M!TakeSale(t, p1))
  /\ WF_metaVars(focus = "meta" /\ M!Due(p1))
JobFairness ==
  /\ \A w \in {w1, w2} : WF_jobVars(focus = "jobs" /\ J!JobStep(w))
  /\ \A k \in {m1, m2} : WF_jobVars(focus = "jobs" /\ J!Due(k))

AllFairness ==
  /\ SessionFairness /\ QueueFairness /\ AccessFairness /\ KdfFairness /\ BusFairness
  /\ MetaFairness /\ JobFairness
AllSpec == LiveInit /\ [][LiveNext]_liveVars /\ AllFairness

-------------------------------------------------------------------------------
\* Whatever webhooks are lost, the table ends with the status Mercado Pago has.
TableConverges == Q!TableConverges

\* Every message published settles: done, dead-lettered or acked as a duplicate.
EverySettles == B!EverySettles

\* Nothing that waits is forgotten: every call to the password hash is answered, every
\* delivery frees its prefetch slot, no event of a payment is left half processed, access
\* that has ended is closed though nobody says anything any more, a sale that was queued
\* is reported to Meta or given up for an operator to see, and a job is done or given up,
\* unless the process that had taken it dropped it; and no two processes work on one job.
BacklogsEnd ==
  /\ Q!EventsSettle /\ A!LapsedCloses /\ K!EveryCallEnds /\ B!SlotsFree /\ M!EverySaleSettles /\ J!EveryJobEnds
  /\ []J!TakenOnce
===============================================================================
