# Formal models of the course platform

These TLA+ modules model the parts of `app_ai_from_scratch` where something can go
wrong that a unit test would hardly reach: the work bus and its consumers, the
payments service, accounts and access, the course itself, its chat, leagues and
tools, and the pages that keep state in the browser. TLC checks the properties on
small instances; TLAPS proves most of the safety properties for every value of the
constants. All paths below are relative to `src/app_ai_from_scratch/`.

## 1. The system

| Part | State | Operations | Talks to | What is hard, what makes it right |
|---|---|---|---|---|
| Work bus dispatch (`queue/bus`, `api/src/bus.ts`, `ai/src/course_ai/bus.py`) | RabbitMQ queues, delay tiers, dead letters; deliveries in hand | claim, run, complete or release, retry, dead-letter, requeue once, ack | claim store, broker | Three runtimes, one policy. Crashes, lost connections, unanswered calls. No message is lost, a done key stays done. |
| Broker client and publisher (`queue/broker`, `api/src/bus.ts`) | one lazily dialled confirm channel | confirmed publish, returned publish, replay of dead letters | broker | An unconfirmed publish may have been taken; a returned one must not be reported as published. |
| Idempotency claims (`data/internal/op/catalog.go` bus.*) | one row per key, with owner and lease | bus.claim, bus.complete, bus.release, bus.prune | bus | Each statement is atomic; leases lapse. Done only for finished work. |
| Consumer session and shutdown (`queue/broker/consumer.go`, `worker.ts`, `worker.py`) | connection, consumer, stop flags | dial, set up, consume, back off, cancel, drain, close, join | broker, signals | Two threads of control meet in shared fields. One connection, a stop that ends, a drain that drains. |
| Payment events (`payments/src`) | webhook events, local tables, single-use orders | recordEvent, takeEvent, processOne, failEvent, reconcile, redrive | Mercado Pago, api | Webhooks are lost, late, doubled; several processOne overlap; a lease is outlived. The table converges, an order is used once. |
| Subscriptions (`payments/src`) | preapprovals, charges | checkout, processOne, cancel | Mercado Pago | A charge overtakes its preapproval; two calls write one row in the other order. |
| Report of sales (`payments/src/meta.ts`) | meta_events | queuePurchase, takeMetaEvent, deliverMetaOne | Meta | Two ticks overlap; an answer is lost after the sale was taken. |
| Coupons and checkout (`payments/src`) | coupons, coupon_redemptions, links | reserve, grant, redeem, attach, release | api, Mercado Pago | Three systems in one route, with a failure after each call. The cap holds, no place is burnt. |
| Entitlements (`auth/src/index.ts`, catalog entitlement_*) | entitlement events, users.paid as a cache | record, apply, sweep | payments | Two calls, overlapping applies. A recorded grant opens, a lapsed one closes. |
| Accounts, sessions, roles (`auth/src`) | users, login counters, recovery links, signed cookies | login, register, reset, revoke, role, delete | data service | A session signed from a row that changed meanwhile; the last administrator; the gate of the password hash. |
| Job queue and counters (`api/src/jobs.ts`, catalog job.*, counter.*) | jobs with attempts, counters | take, finish, reschedule; bump, read | data service | A process dies with jobs in hand; a lost answer repeats a count. |
| Data operation client (`api/src/data.ts`) | none | POST with one repeat | data service | A write whose answer was lost runs twice. |
| Leagues and ranking (`api/src/leagues.ts`) | the week's rows, aliases | opt in and out, table, closeWeek | data service | Row by row, without a transaction, and repeated. |
| Agent session memory and tools (`api/src/agent-bus.ts`, `api/src/tools`) | queue, stack and memo of a conversation | the tools | data service | State read before an await and used after it; eviction. |
| Agent loop and bridges (`ai/.../agent`, `api/src/ai-bridge.ts`) | none kept | one answer or a refusal | providers | The spend of an answer that is counted after it. |
| Message store (`messages/src`) | threads and turns | append, read, purge | api | Append beside purge. |
| Course, quizzes, grading, achievements (`api/src/server.ts`, `grading.ts`, `quizzes.ts`, `achievements.ts`, `seed.ts`) | labs, questions, attempts, achievements | attempt, visit, score, seed | data service | Overlapping attempts; a seed over an older release. |
| HTTP gateway (`api/src/server.ts`, `brake.ts`, `chat-ceiling.ts`) | windows and counters | every route | all | Prefixes, roles, limits. |
| Web client (`web/src/lib`, `components/AiPanel.astro`) | what a page keeps, localStorage | clicks, timers, answers | api | Late callbacks, two tabs, crossed answers. |
| Development launcher (`scripts/dev.mjs`) | processes and ports | start, stop | - | Killed outright it leaves orphans. |
| Data service, ontology and retrieval, Queue HTTP service, security agents, iOS and Android | mostly none of their own | - | - | Left aside, see section 6. |

Calls between the parts are HTTP with deadlines, or bus messages. What two parts
share is a table reached through data operations (claims, entitlements, counters),
or the broker, or in the browser the device's localStorage. `PROJECT.json` lists the
components, and under `hazards` every place that is hard to test, each at its line.

## 2. Modules

| Module | Models | Code |
|---|---|---|
| `BusBroker` | RabbitMQ as the bus declares and uses it; a copy is one enqueued instance of an envelope | `queue/bus/topology.go`, `broker.go` |
| `BusClaims` | the claim rows and the three statements on them | `catalog.go`, `queue/bus/claims.go` |
| `BusDispatch` | composes both with the jobs of several replicas | `dispatch.go`, `bus.ts` consumeOn, `bus.py` Consumer |
| `MessageLife` | abstract: what the bus promises about one message | the promise of `consumer.go`, `topology.go` |
| `BusFanout` | a publish, on one shared channel, to the queues of several services, which may share a claim store | `bus.ts` publish, topology, pgClaims |
| `ConsumerSession` | run loop and shutdown of the three runtimes | `consumer.go`, `main.go`, `bus.ts`, `worker.ts`, `bus.py`, `worker.py` |
| `PaymentEvents` | webhook queue, processOne, table, order, entitlement events | `payments/src/server.ts`, `db.ts`, `assess.ts`, `reconcile.ts` |
| `Coupons` | `/v1/checkout` with a coupon, links, redemption, release | `payments/src/server.ts`, `db.ts`, `mercadopago.ts` |
| `Subscriptions` | checkout of a subscription, its two kinds of events, the cancel route | the same |
| `MetaOutbox` | queuePurchase and the table it is delivered through | `payments/src/meta.ts`, `db.ts` |
| `Access` | grants, events, users.paid, the sweep | `payments/src`, `auth/src/index.ts` |
| `Accounts` | login, registration, recovery, revocation, deletion, roles | `auth/src/index.ts`, `core.ts` |
| `KdfGate` | withSlot and the decoy of the password hash | `auth/src/core.ts` |
| `ChatSpend` | POST /api/chat: windows, ceilings, the bill, midnight, restart | `api/src/server.ts`, `chat-ceiling.ts` |
| `Threads` | the stored conversation and its purge | `messages/src/store.ts`, `messages-bridge.ts` |
| `DataClient` | post with its timeout and its repeat | `api/src/data.ts` |
| `JobQueue` | takeBatch, runBatch, reschedule, buried | `api/src/jobs.ts` |
| `Course` | attempts, grading, scores, pages, achievements | `api/src/server.ts`, `grading.ts`, `quizzes.ts`, `achievements.ts` |
| `Leagues` | opt-in, ranking, the table, closeWeek | `api/src/leagues.ts`, `tools/progress.ts` |
| `Gateway` | prefixes, roles, throttle, brake of the forms, internal routes | `api/src/server.ts`, `brake.ts` |
| `AgentTools` | the tools of the agent and the bus they share | `api/src/tools`, `agent-bus.ts` |
| `OwnTools` | what a person is told of their streak, pace, history and lacks | `tools/progress.ts`, `coach.ts` |
| `Seed` | the seeding of the course, row by row, over an older release | `api/src/seed.ts`, `db.ts` |
| `Narrator` | the reading aloud | `web/src/lib/narrator.ts` |
| `LessonPage` | the labs and questions of a page | `labs-client.ts`, `quiz-client.ts` |
| `Cards` | toasts and unlocked achievements in the cat's lane | `avisos.ts`, `unlock.ts`, `trazo.ts` |
| `Nudges` | the assistant that speaks first, and its budget | `web/src/lib/coach.ts`, `api/src/coach.ts` |
| `PanelChat` | the turns of the panel | `AiPanel.astro`, `chat-client.ts` |
| `AiPick` | the pickers of model and effort | `ai-pick.ts` |
| `Tours` | the tutorial and the tour of the first visit | `tutorial.ts`, `onboard.ts` |
| `DevStart` | `pnpm dev` and `pnpm stop` | `scripts/dev.mjs` |
| `BusDispatch_proofs`, `ConsumerSession_proofs`, `Coupons_proofs`, `Accounts_proofs`, `KdfGate_proofs`, `Api_proofs`, `Course_proofs`, `Web_proofs` | theorems | - |
| `MC*` | constants and symmetry for TLC | - |

`MCLive`, `MCPayments`, `MCApi`, `MCApp` and `MCWeb` put several components side by
side in one run. Their variable `focus` says which one a behaviour is about; the rest
stand still. The components of one such run share no state in the code beyond what
each models of it, so nothing is lost by that, and each behaviour of a component is one
of the run. Where such a module narrows a component (a conjunct beside its `Next`),
a comment says so: see section 3.

**One step per await.** A Go goroutine, a Node promise and a Python task are
interrupted only where they call out, so each call to the broker, the claim store,
the database, Mercado Pago, Meta or the api is an action of its own, and everything
between two calls belongs to the action before or after it. A call that fails has
up to three outcomes: it did nothing, it did its work and the answer was lost, or the
process died. What a handler has read stays in its own record, because later steps use
the copy and not the row.

**Bus.** A job is one delivery in hand; its `pc` is the call it makes next, and
`open` says whether the channel it came on still exists. `Start` is the hand-over
with parsing and handler lookup, `ClaimRefused` the duplicate path, and `fail` of the
code is `GiveUp`, `ScheduleRetry`, `RetryUnconfirmed` and `RetryOnDeadChannel`. The
three runtimes differ only where a call to the claim store fails and in the ack
after success (amqplib throws on a closed channel), so one module holds all three
and `runtime` is picked in `Init`. `BusFanout` has the queues of several services and
abstracts a delivery to what claims do between services.

**Session.** `loop` is where Run (startWorker, Worker.run) stands, `main` where the
signal path stands. `link` and `handle` are the fields through which they meet.
The connection and its channel are opened in two steps (`Connects`, `OpensChannel`),
because between them a channel can be refused (`ChannelFails`) or the connection lost.
`late`, `refused` and `cut` are histories: connections opened after the signal, those
whose channel was refused, and deliveries in hand at the signal that this process let go
of early.

**Payments.** In `PaymentEvents` a worker is one call of processOne; `snap` is the
payment as it fetched it, which may be older than the row it overwrites; `forsaken` is
the history of the payments of which a call died while another one had its event too, or
had finished it. In `Coupons` a place is a row of coupon_redemptions, `call` one open
`/v1/checkout`, `link` the payment link. In `Subscriptions` `prov` is what Mercado Pago has of a preapproval and
`sub` what the table has; `events` counts the events that wait by the attempts they have
had, because one that fails at the last of them is dead (`failEvent`), while one whose
process died is taken again. `lost` and `crossed` are histories of what nothing will tell
the table any more, and of rows two calls wrote in the other order. In `MetaOutbox`
`doubled` is the history of the sales that two deliveries had in hand at once, or whose
acceptance could not be written.

**Api.** In `Accounts` a request is one handler and holds the row it read. `Access`
follows one account from Mercado Pago to `users.paid`. In `ChatSpend` an increment is
two calls, `counter.bump` and `counter.read`, as it is in the code. In `DataClient` an
attempt is on the wire, was run, or has its answer on the way back; a timeout leaves
the attempt where it is. `KdfGate` is one thread whose callbacks interleave.

**Course.** A request is one attempt, one page or one score, with what it has read so
far. `missed` is the history of the people whose recomputation of achievements failed
half-way and has not been made again since.

**Pages.** An answer, a timer, the end of an utterance is an action that may come late.
Histories (`doubled`, `moved`, `crossed`, `foreign`, `slipped`, `astray`) name what
the code does not protect against, and the properties say what holds without it. In
`PanelChat` `truth` is what was said, `overlaps` what was still to come when a question
was asked, and `astray` the turns that another question took with it when it failed.

## 3. Properties and runs

| Run | Asks | Properties |
|---|---|---|
| `bus_safety` | does work leave the bus only when it is done or handed on | Accounted, DoneMeansSucceeded, DoneIsForever, NothingUnvouched, KeepsThePromise |
| `live` | does everything that must happen happen | OneConnection, NodeDrains, StopEnds, TableConverges, EverySettles, BacklogsEnd |
| `payments` | coupons and single-use orders | CapHolds, RedeemedIsBacked, SettledRowsHoldTheOrder |
| `api` | accounts, access, ceilings, threads, the hash gate, publishing, data calls | SessionsAreCurrent, OnlyOverlapOrphans, RecordedGrantOpens, CeilingsHold, StoredIsShown, GateHolds, PublishedIsRun, AnswersStand |
| `app` | the course, leagues, routes, subscriptions, sales, tools | AchievementsFollow, CourseTells, NothingIsTakenAway, LeaguesTell, EveryPrefixIsGuarded, RowsSettle, AcceptedIsSent, ToolsTell |
| `web` | the pages, the launcher, the seed | OneVoice, PageTells, LaneIsTidy, BudgetHolds, SaidIsSent, PickersAgree, WalksTell, AllOrNothing, OwnToolsTell, SeedStands |
| `bus_nothing_lost`, `bus_stuck`, `bus_fanout`, `session_drain_go`, `payments_order`, `payments_refund` | does the code do what its comments say | NothingLost, EverySettles, EveryBoundServiceRuns, DrainsInHand, OneGrantPerOrder, RefundRevokes: all violated |

Bounds, and why they are enough:

- `bus_safety`: three runtimes, two messages of one key (a duplicate), two replicas
  (another owner), three jobs, two of them in one replica (a prefetch above one), two
  attempts (below the ceiling and at it), three copies (the original, its retry, the
  second message), one failure of any kind between any two steps.
- `live`: the session in three runtimes with two jobs and three connections (a first,
  one being dialled when the signal comes, one more that must not be); the queue with
  one payment, two overlapping calls, and changes and faults together at most two;
  two grants of which one lapses; three derivations behind a limit of one; Go's bus with
  a good and an unhandled message, where five copies are as many as one failure can
  make, so that the bound never stops a retry; one sale, two ticks, two faults; two jobs
  and two processes.
- `payments`: two coupons (one of 100 percent) of two places with two checkouts and a
  third row that finds one full; three payments, two of one order (the race) and one
  without a hint, two overlapping calls, one failure of a checkout and two troubles of the
  queue, which is what it takes to forsake a payment (a lease outlived, and a call that
  dies).
- `api`: two people, a session signed from a row that changes, two requests at once, two
  versions of a token; two days with a midnight and a restart between them; two grants
  and two events; two publishes of which one is bound nowhere, three services of which
  two share a claim store; two calls of two attempts each; five derivations behind a
  limit of two.
- `app`: two windows of one person with three labs, a question and an exam over two
  lessons; two people and two weeks of leagues; five kinds of caller and three spellings
  of a prefix; two checkouts of one buyer, one of them charged; two ticks and one sale;
  two conversations of which one evicts the other. To keep the graph small one person of
  the league reads at a time, the routes without a counter are asked for before the
  forms, and a charge or a failure comes only where the buyer has opened one checkout:
  `RowsSettle` is of each row, and two rows of a buyer meet in the cancel route, which
  picks one, and in the refusal of a second checkout. An event of a preapproval has two
  attempts (8 in the code) and two things may fail, so that one event can fail at both and
  be dead.
- `web`: each page part on its smallest interesting instance: two sentences, two
  questions, two cards of one key, two tabs, two pages with two pickers, two targets of a
  walk, a run of the launcher and the one after it, two releases of a seed. The second
  run of the launcher starts after the first was killed and finds of it no more than web
  and api. The panel has a history and three questions.

Every bound is a named constant (`MaxFaults`, `MaxRequests`, `MaxSent`, ...). The proofs
of section 5 remove the bounds for the properties they are about.

**Deadlock** is not checked (`CHECK_DEADLOCK FALSE`): every one of these models comes
to rest when its bounds are used up, and a process that has exited does nothing.
What must not stop is stated as liveness instead.

**Every property has a mutant**: an operator next to the definition it changes,
marked as a mutant, which no specification uses. Put in its place, it
makes TLC find the property violated.

### What the violated properties show

- `bus_nothing_lost`: a delivery is acked as a duplicate because another replica
  holds a fresh claim; that replica then dies, or its release fails, and the
  redelivered or retried copy is gone too. `consumer.go` says of Stop "nothing is
  lost, it is only done twice". `Accounted` says what does hold: this duplicate-ack
  is the *only* way work leaves the bus undone.
- `bus_stuck`: in Node and Python an exception of the claim store leaves the handler
  of the delivery, which is then neither acked nor nacked.
- `bus_fanout`: the api worker and the queue service claim one `bus.echo` in one table,
  and the second acks its copy without running it. `PublishedIsRun` says what does hold.
- `session_drain_go`: SIGTERM cancels the context the session itself watches, and the
  session closes the connection under the deliveries Stop is about to drain. Node's
  order of shutdown is right (`NodeDrains`).
- `payments_order`: the row of a second payment for one order is written eligible
  before the order refuses it; an overlapping call reads it in between.
- `payments_refund`: an approved payment takes its buyer from the order, a refunded
  one only from the hint; without the hint the refund reaches nobody.

Some properties have an exception in their statement, a history that names what the code
does not protect: `OnlyOverlapOrphans` (two demotions counted at once),
`RecordedGrantOpens` (an apply that a newer record overtook), `CeilingsHold` (one turn
for each request under way; the comment at `server.ts:609-611` speaks of one),
`AnswersStand` (an attempt that was given up may still land), `RowsSettle` (crossed
writes, an event that is dead), `OneConnection` (below), `SaidIsSent` (a turn that a
failed question took with it), `AcceptedIsSent` (overlapping ticks), `AchievementsFollow` (a recomputation cut
short), and those of the pages. The exception is what deserves a look.

`OneConnection` leaves out the connections in `Stranded`, which are a leak of the code and
not of the model. Node opens a connection (`bus.ts:861`), then its channel (862), and only
then names the two in `link` (863). When the channel is refused the `catch` (891-899)
closes what `link` names, which is nothing: the connection stays open, and one more for
each retry, although the comment there (893-895) says that what was half-opened is closed.
`stop()` does not close it either. The publisher's `ensureChannel` (761-762) opens its
connection in the same two steps. What `OneConnection` says is that this is the only way
to a second connection in Node, and that Go and Python, which hold the connection before
they ask for a channel, have none. The same comment says what such a leak ends in: a
broker "accumulates them until it refuses new ones".

## 4. Fairness

Fairness is assumed in `live` and in `bus_stuck` only, part by part (`MCLive`):

- session (`SessionFairness`): weak fairness of the run loop while the process lives, of
  the shutdown, and of each handler; dials and declarations answer or fail within their
  timeouts. A new delivery need never come and a connection need never drop.
- queue (`QueueFairness`): calls of processOne go on, the one-second timer takes what is
  due, and the reconciliation finds a drifted payment, which the code does every quarter
  of an hour for the last 24 hours and 100 payments. Webhooks may all be lost. Changes at
  Mercado Pago are finitely many.
- access (`AccessFairness`): the hourly sweep, and nothing else: no event need ever come.
- hash gate (`KdfFairness`): each call's next step; a derivation ends.
- bus (`BusFairness`): each job's next step (goroutines are scheduled, claim calls have a
  deadline of 10 s, a handler one of 60 s), handing a ready delivery to a free job, and
  the TTL of each delay queue. Nothing is assumed of producers, failures, replays or
  lapsing leases. Go alone: for the other two `bus_stuck` shows that it fails.
- sales (`MetaFairness`): the steps of a delivery, the timer that takes what is due, and
  the time that makes a sale due.
- jobs (`JobFairness`): the steps of a process and the time that makes a job due. At this
  commit no service starts `worker()`; the property is about the queue once one does.

## 5. Proofs

The proof modules are checked by `tlapm` to the last leaf. Nothing is assumed but the
named assumptions on the constants of the modules they extend (`BrokerAssumption`,
`DispatchAssumption`, `SessionAssumption`, `CouponAssumption`, `PaymentAssumption`,
`AccountsAssumption`,
`KdfAssumption`, `AccessAssumption`, `ChatAssumption`, `DataAssumption`,
`FanoutAssumption`, `CourseAssumption`, `SubscriptionsAssumption`, `OutboxAssumption`,
`NarratorAssumption`, `PageAssumption`, `PickAssumption`, `DevAssumption`,
`SeedAssumption`, `PanelAssumption`, `ToursAssumption`, `GatewayAssumption`,
`ToolsAssumption`, `NudgesAssumption`, `ThreadsAssumption`, `LeaguesAssumption`,
`CardsAssumption`, `OwnAssumption`), which TLC evaluates in the runs. They say that bounds are naturals,
that sets that are counted are finite, that names of different kinds differ, and what
kind of thing a table of the code (limits, lessons of labs, tools of a caller) holds.
`OwnAssumption` also says that a lesson has as many labs as grades, three of each in the
code (`product.ts:94`, `achievements.ts:14`): of a shorter lesson the last grade would be
missing for ever. The
number of messages, people, requests, lessons, calls and failures is arbitrary. The
theorems a reader should know are listed in `PROJECT.json`.

Each part has the same shape: an inductive invariant, the lemma that the initial states
have it, one lemma per action (or family of actions) that a step keeps it, and the
property from it. What makes each invariant necessary:

**`BusDispatch_proofs`** - `TypeSafety`; `SettlesItsOwn` (no ack or nack reaches a
delivery of another job); `NothingIsUnvouched`, `DoneRowsAreWork`,
`EveryMessageAccounted`. `Accounted` is not inductive: when a copy is acked because
another copy of the message is on its way, that other copy must not be acked for the
sake of the first. `NothingUnvouched` uses the order in which the broker accepted the
copies: a copy may leave only if its key has succeeded, its message was skipped, or a
*later* copy is still held. The latest copy then always has a reason of its own.
`DoneForever` is of the action property `DoneIsForever`: no late release or second delivery
reopens a row that is done. `DispatchKeepsThePromise` is the refinement
`Spec => Life!Spec` under the mapping `LifeOf`: every step of the dispatcher is a step
of `MessageLife` or a stutter.

**`ConsumerSession_proofs`** - `SessionTypes`, `NeverTwoConnections`, `OneLateDial`: only
the newest connection can be open, and then the run loop is between dialling and
leaving, or the signal has come and the loop will not dial again; but for those of Node
whose channel was refused (`Stranded`), which may be older. `NodeAlwaysDrains`: a
running job is on the newest connection, which is open and consumed; until the signal
`handle` is that consumer, so `stop()` captures the one the early jobs are on. In Go the
violated run shows where that argument breaks.

**`Coupons_proofs`** - `TypeCorrect`, `CapIsKept`, `NoPlaceIsBurnt`, `GiftsCount`,
`RedeemedStays` (Coupons), `SettledRowsAlwaysHold` (PaymentEvents). Types alone are not
inductive, because a grant copies the coupon and the buyer from the row its checkout names. `Inv` adds what is true of that row: the
checkout is alone with it, it is young and has no link yet, it stays reserved until the
checkout gives up, and a checkout about to redeem has made the grant. `CapIsKept`
counts: what a reservation leaves is a subset of `Taken` and one more.
For the queue the property speaks of rows nobody is at any more, and is broken long before
by the row that is written as bought before `consumeOrder` is asked (`Half`). The
invariant `HalfIsSeen` says who will put such a row right: a call of the payment that is
between the two writes, or an event of it that will be taken (waiting, in processing or
dead, but no orphan) and that no call past the order has. That is kept by a call that
fails alone, because its event waits or is dead, and by a crash. It is not kept when two
calls have one event, one of them past the order, and the other dies half-way: the first
finishes the event over it. Such payments are `forsaken`; without the exception TLC breaks
`SettledRowsHoldTheOrder` with a lease outlived and one failure, so two troubles of the
code are enough for a row that says it bought what its order did not pay.

**`Accounts_proofs`** - `TypeCorrect`, `SessionsStayCurrent`, `RowsOnlyGoForward`,
`OnlyOverlap`. `SessionInv` says of every copy of an account (in a session, or in a
handler about to sign one) that it `Matches` the row: the row has moved on to a later
version, or still has the password and the role of the copy. `RowsOnlyGoForward` is the
action property that makes this stable. `CommandInv` says what was counted in front of
a demotion or a deletion, while nobody else is changing who commands.

**`KdfGate_proofs`** - `GateIsKept`. `GateHolds` is nearly inductive; what it needs is
that nobody derives the decoy before it was asked for.

**`Api_proofs`** -
- `RecordsOpen` (Access): `SomebodyWrites`, an account that is closed though a grant is
  open has an event recorded and not done, and `WritersAreFresh`, what is about to be
  written is what holds unless a record overtook it.
- `CeilingsAreKept` (ChatSpend): the questions asked, and those counted and not yet
  asked, are at most the counter; those let past a cap and not yet asked are within it;
  and above a ceiling of tokens each request that may still bill it has one turn of the
  overshoot reserved. The proof counts sets of requests, so it uses cardinalities.
- `AnswersAreKept` (DataClient): an attempt is in one place (`OnePlace`), a call has run
  no more often than it was sent (`RunsCounted`), and what the table and each answer on
  the way hold is no older than the last write that was answered (`RowIsFresh`).
- `PublishedIsAlwaysRun` (BusFanout): `SentIsCovered`, a message that was sent is in each
  claim store with a queue bound to its key: waiting, delayed, at work, run or dead. A
  copy that is acked as a duplicate needs `ClaimsAreWork`: who holds the claim is at work
  in that store, and a complete claim was run.
- `TurnsAreNotLost` (Threads): a turn under which no purge passed is in its person's one
  thread (`TurnsOfTheThread`), and so is the one about to be inserted
  (`InsertsAreOfTheThread`). A turn that is held and not shown has `Limit` turns before it.

**`Course_proofs`** -
- `CourseTypes`, `AchievementsAreKept`, `CourseIsTold`, `ProgressOnlyGrows`. Its first
  part is about the operators: what is owed never shrinks when more is solved, which
  takes that completed lessons, quizzes and exams only grow. `CourseInv` then says of
  every request what it has read against what is solved by now (`RequestsHold`), that
  nobody has more than they are owed (`EarnedIsOwed`), that who has less has a request on
  the way that will leave them with all (`OwedIsComing`), and that who never paid has
  touched and been told only of what is free (`NoneUnpaid`).
- `RowsAlwaysSettle` (Subscriptions). `RowsSettle` is of a moment when
  nothing is under way. `StaleIsTold` is of every moment: a row that is not up to date,
  and a row somebody is about to overwrite with an older status, will be told: an event
  waits, a run is about to read or has just read the status of now, the answer of the
  cancel route is to be stored, or the change was lost (its event died at the last
  attempt) or crossed.
- `SalesAreTold` (MetaOutbox). `HeldOnce`: a sale that is not doubled is in one hand, and
  nobody is about to send it, or to call it failed, once Meta has it; with `Remembered`.
- `LeaguesAgree` (Leagues): a call reads the tables one after the other while they change.
  What an uncrossed call has read is what is there (`Uncrossed`), what a close holds is at
  most what was solved in the week it began in (`Closer`), an answer agrees from the
  moment it is given (`Good`), and a promotion was shown against a row of an earlier week
  that is still stored (`PromotionsAreKept`).

**`Web_proofs`** -
- `OneVoiceReads` (Narrator): the sentence under way is in one place, once: in the
  engine, in a late callback or in a timer (`OneThread`), and what is of an earlier
  generation stays behind (`OfBefore`).
- `PageAlwaysTells` (LessonPage): what is awaited is what the controls show unless they
  were used (`LabFollows`, `QuizFollows`), and scores grow from turn to turn.
- `PickersAlwaysAgree` (AiPick): a page nobody wrote beside shows what is kept.
- `AllOrNothingStands` (DevStart): a run that has not prepared has started nothing, one
  that closes has told whatever is alive, ends are looked into, and what a stop has
  passed it told, but what held no port.
- `SeedAlwaysStands` (Seed): what is stored is what some release says, and a run nobody
  disturbed has left everything it passed as its release has it.
- `SaidIsAlwaysSent` (PanelChat): a question is asked once, and is among what was said as
  long as it is under way (`AskedOnce`), so one failure takes one turn from what was said
  and one from what the page holds, and the two differ by no more than questions that
  failed and what they took (`Balanced`). Without an overlap the one question under way is
  the last turn (`Straight`), so that dropping the last turn drops it.
- `WalksAlwaysTell` (Tours): the two walks are not in the document at once unless `both`
  says so (`OneWalk`), and the cards on their way with those put down are all that were
  called for (`CardsCalled`).
- `BudgetAlwaysHolds` (Nudges): the count of a tab is that of the visit it is in
  (`VisitsCounted`), and, while one tab is open at a time, the budget the device keeps is
  what was told, in short (`BudgetIsTold`), and the page has it (`PagesFollow`). With two
  tabs each writes over what the other kept, and only the count of each visit holds.
- `LaneIsAlwaysTidy` (Cards): no card is in two places (`CardsApart`); every card that
  waits behind another was issued behind it, and the one that is being brought has all its
  time left but what its walk has taken (`HeadIsFresh`), so it cannot expire before it is
  put down; and the entry of a key is the key's card, in the lane or on its way, unless
  the key `slipped` (`EntriesHold`).
- `OwnToolsAlwaysTell` (OwnTools): first the walks over the days. Each is defined by itself
  along the sequence; a witness (the distance from the start of the run) satisfies that
  definition, so the walk does, and by the least place where it would be wrong it *is* that
  distance (`RunIs`, `LivesIs`). With the runs as intervals (`StretchIs`, `RunIsStretch`)
  the best and the live streak are the longest ones. Then what is missing is the least
  over all the ways to solve more (`GradeLacks`, `RankLacks`), and sums over lessons or
  weeks count what is solved (`TallyOfParts`). The invariant `Heard` says that what a
  question has read is of some moment since it was asked, and of now if nothing crossed it.

Only model-checked: the four properties of `live` (`StopEnds`, `TableConverges`,
`EverySettles`, `BacklogsEnd`). All liveness, and whatever rests on ENABLED, is out of this
prover's reach. Every invariant and every action property of the passing runs is the
subject of a theorem.

## 6. What is not modelled, and why

Abstractions inside the modelled parts:

- Bus: `bus.prune` (30 days), handlers abandoned at their deadline that go on having
  effects (`dispatch.go:249`), the batch order of ReplayDeadLetters, `MemoryClaims`,
  counters and logs. A claim is taken to outlast its handler (`LeaseLapses`): 60 s and
  10 s of deadlines against a lease of 300 s.
- Session: a channel that the broker closes alone once it is open takes the connection
  with it, though Node and Python reconnect only when the connection closes
  (`api/src/bus.ts:876`); deliveries a client library has buffered when the consumer is
  cancelled are left out.
- Payments: the form of a webhook signature, period ends inside PaymentEvents.
  Reconcile is assumed to see every drifted payment; it looks at payments only, so a
  subscription whose change was lost stays as it is (`lost` of Subscriptions).
- Coupons: start and end dates, switching a coupon off. 30 minutes do not pass while a
  checkout is open: its calls have deadlines of seconds. `CapHolds` counts places, as the
  code does. Discounted *payments* can be more than that: a link lives 24 hours, its
  reservation 30 minutes. A preapproval carries no reservation id, so a subscription's
  place goes back after 30 minutes. A second paid link of one buyer gets `stuck` on the
  unique index, as it does in the code.
- Accounts: the hash itself is a comparison, cookies are records. The first root comes
  from `api/init/bootstrap-root.ts` or the seed.
- Chat: the bridge is an answer with its tokens, a refusal or a timeout, which counts
  none. A window of the brake is fixed, so two windows let through twice the limit; the
  property is about one window.
- Threads: the code shows the *oldest* turns of a thread up to the limit, and so does the
  model.
- Course: what a lab asks is a solution and a kind; the wording, hints of a coach and
  drawings are left out.
- Pages: drawing, translation, animation.

Parts left out:

- Data service: a closed catalogue of SQL statements and a planner without state of its
  own; the statements that matter are modelled where they are used.
- Ontology and retrieval: pure functions over a fixed graph and text.
- The agent's loop over providers: sequential, and what the api sees of it is modelled.
- Queue HTTP service: the front of publish, replay and health, which are modelled.
- Translations (`web/src/lib/i18n.ts`), the texts and questions of quizzes, the cat in 3D
  (`cat3d.ts`), the drawn scenes (`scenes/`), `scripts/verify.mjs`: data and
  presentation.
- Security agents: detection rules and probes of running services. iOS and Android: user
  interfaces over the api.

## 7. Plan

What remains: a channel that is closed alone in `ConsumerSession`, and the batch of
ReplayDeadLetters.
