---------------------------- MODULE PaymentEvents ----------------------------
(***************************************************************************)
(* How a payment becomes access: the webhook queue of payments/src          *)
(* (recordEvent, takeEvent, processOne, failEvent, reconcileOnce, redrive), *)
(* the local payments table, the single-use order and the entitlement       *)
(* events the api keeps (auth applyEntitlement).                            *)
(*                                                                          *)
(* processOne is called by every webhook and by a timer, so several run at  *)
(* once; each await in it is a step here.  Amounts, currencies and dates    *)
(* are abstracted to what assessPayment makes of them.  Every payment       *)
(* belongs to one buyer; those in Ordered were made through one single-use  *)
(* checkout link.                                                           *)
(***************************************************************************)
EXTENDS Naturals, FiniteSets

CONSTANTS
  Payments,
  Ordered,      \* payments made against the order
  NoHint,       \* payments whose user_id Mercado Pago lost
  Workers,      \* calls of processOne that can run at once
  Slots,        \* bound: rows of payment_webhook_events followed at once
  MaxAttempts,  \* attempts before an event is dead (8 in the code)
  MaxChanges,   \* bound: changes of state at Mercado Pago
  MaxTroubles   \* bound: failed calls, crashes and leases outlived

ASSUME PaymentAssumption ==
  /\ Ordered \subseteq Payments /\ NoHint \subseteq Payments
  /\ MaxAttempts \in Nat \ {0}
  /\ MaxChanges \in Nat /\ MaxTroubles \in Nat

VARIABLES
  provider,  \* the payments as Mercado Pago has them
  changes,   \* changes so far
  owed,      \* payments whose last change has not been notified
  events,    \* payment_webhook_events
  rows,      \* payments, the local table
  current,   \* payments whose row is younger than their last change
  consumed,  \* checkout_orders.consumed_by: the payment, or nothing
  work,      \* the processOne calls
  entitled,  \* the latest entitlement of each payment at the api
  keys,      \* entitlement_events.event_key of the events followed
  troubles,
  granted,   \* history: payments that were ever granted access
  forsaken   \* history: payments of which a call died while another call had its
             \* event too, or had finished it

tables == <<rows, current, consumed>>
api == <<entitled, keys, granted>>
hurt == <<troubles, forsaken>>
eventVars == <<provider, changes, owed, events, tables, work, api, hurt>>

\* "partial" is an approved payment of which part was refunded; "revoked" one
\* refunded, charged back or in mediation.
Statuses == {"none", "pending", "approved", "partial", "revoked"}
Changes == {<<"none", "pending">>, <<"none", "approved">>, <<"pending", "approved">>,
            <<"approved", "partial">>, <<"approved", "revoked">>, <<"partial", "revoked">>,
            <<"revoked", "approved">>}

NoRow == [status |-> "none", eligible |-> FALSE, user |-> FALSE]
Unused == [state |-> "free", orphan |-> FALSE]
NoCall == [pc |-> "idle"]
Open == {"pending", "processing"}

EventRows == [state : {"pending", "processing", "done", "dead"}, of : Payments,
              tries : Nat, orphan : BOOLEAN]
CallRecords == [pc : {"fetch", "assess", "upsert", "consume", "refuse", "orphan", "read",
                "send", "sending", "finish"},
          slot : Slots, of : Payments, tries : Nat, snap : Statuses,
          eligible : BOOLEAN, active : BOOLEAN, stamp : Nat]

EventsTypeOK ==
  /\ provider \in [Payments -> Statuses]
  /\ changes \in 0..MaxChanges /\ owed \subseteq Payments
  /\ events \in [Slots -> EventRows \cup {Unused}]
  /\ rows \in [Payments -> [status : Statuses \ {"partial"}, eligible : BOOLEAN, user : BOOLEAN]]
  /\ current \subseteq Payments
  /\ consumed \subseteq Ordered /\ Cardinality(consumed) <= 1
  /\ work \in [Workers -> CallRecords \cup {NoCall}]
  /\ entitled \in [Payments -> [active : BOOLEAN, stamp : Nat]]
  /\ keys \subseteq Slots \X BOOLEAN
  /\ troubles \in 0..MaxTroubles
  /\ granted \subseteq Payments /\ forsaken \subseteq Payments

EventsInit ==
  /\ provider = [p \in Payments |-> "none"]
  /\ changes = 0 /\ owed = {} /\ troubles = 0
  /\ events = [e \in Slots |-> Unused]
  /\ rows = [p \in Payments |-> NoRow]
  /\ current = {} /\ consumed = {} /\ keys = {} /\ granted = {} /\ forsaken = {}
  /\ work = [w \in Workers |-> NoCall]
  /\ entitled = [p \in Payments |-> [active |-> FALSE, stamp |-> 0]]

Busy(w) == work[w].pc # "idle"
On(e) == {w \in Workers : Busy(w) /\ work[w].slot = e}
IsAt(w, pc) == work[w].pc = pc

\* The call goes on to pc, done with what it knew of the payment.
GoOn(w, pc) == [work EXCEPT ![w] = [@ EXCEPT !.pc = pc, !.snap = "none",
                                    !.eligible = FALSE, !.active = FALSE, !.stamp = 0]]
Trouble == troubles < MaxTroubles /\ troubles' = troubles + 1
-----------------------------------------------------------------------------
\* Mercado Pago

Change(p, status) ==
  /\ <<provider[p], status>> \in Changes
  /\ changes < MaxChanges
  /\ changes' = changes + 1
  /\ provider' = [provider EXCEPT ![p] = status]
  /\ owed' = owed \cup {p}
  /\ current' = current \ {p}
  /\ UNCHANGED <<events, rows, consumed, work, api, hurt>>

\* A new row of payment_webhook_events, in place of one nobody will touch again.
RecordEvent(p) ==
  \E e \in Slots :
    /\ On(e) = {}
    /\ events[e].state \in {"free", "done"} \/ events[e].orphan
    /\ events' = [events EXCEPT ![e] = [state |-> "pending", of |-> p, tries |-> 0,
                                        orphan |-> FALSE]]
    /\ keys' = {k \in keys : k[1] # e}

\* It may be late, or never come.
Webhook(p) ==
  /\ p \in owed
  /\ owed' = owed \ {p}
  /\ RecordEvent(p)
  /\ UNCHANGED <<provider, changes, tables, work, entitled, granted, hurt>>

StatusOf(s) == IF s = "partial" THEN "approved" ELSE s

\* As a bug would have it: only payments the table does not know are drift.
DriftedUnknown(p) == provider[p] # "none" /\ rows[p].status = "none"

\* diffPayments: unknown here, with another status, or older than the change.
Drifted(p) ==
  /\ provider[p] # "none"
  /\ rows[p].status # StatusOf(provider[p]) \/ p \notin current

Reconcile(p) ==
  /\ Drifted(p)
  /\ RecordEvent(p)
  /\ UNCHANGED <<provider, changes, owed, tables, work, entitled, granted, hurt>>

Redrive ==
  LET Dead == {e \in Slots : events[e].state = "dead" /\ ~ events[e].orphan} IN
  /\ Dead # {}
  /\ events' = [e \in Slots |-> IF e \in Dead THEN [events[e] EXCEPT !.state = "pending", !.tries = 0]
                                              ELSE events[e]]
  /\ UNCHANGED <<provider, changes, owed, tables, work, api, hurt>>
-----------------------------------------------------------------------------
\* processOne

\* As a bug would have it: what a dead process was at stays in processing.
DueOnce(e) == events[e].state = "pending"

\* Any event whose wait is over; for one in processing, its five-minute lease.
Due(e) == events[e].state \in Open

Take(w, e) ==
  /\ ~ Busy(w)
  /\ Due(e)
  /\ IF events[e].state = "processing" /\ On(e) # {} THEN Trouble ELSE UNCHANGED troubles
  /\ events' = [events EXCEPT ![e].state = "processing", ![e].tries = @ + 1]
  /\ work' = [work EXCEPT ![w] =
                [pc |-> "fetch", slot |-> e, of |-> events[e].of, tries |-> events[e].tries + 1,
                 snap |-> "none", eligible |-> FALSE, active |-> FALSE, stamp |-> 0]]
  /\ UNCHANGED <<provider, changes, owed, tables, api, forsaken>>

Fetch(w) ==
  /\ IsAt(w, "fetch")
  /\ work' = [work EXCEPT ![w].pc = "assess", ![w].snap = provider[work[w].of]]
  /\ UNCHANGED <<provider, changes, owed, events, tables, api, hurt>>

Approved(s) == StatusOf(s) = "approved"

\* Of an approved payment the order can name the buyer, of another only its hint.
HasUser(p, s) == p \notin NoHint \/ (Approved(s) /\ p \in Ordered)

\* assessPayment, with the order as it is read now.
Eligible(p, s) ==
  Approved(s) => /\ HasUser(p, s)
                 /\ p \in Ordered => consumed \subseteq {p}
                 /\ s # "partial"

Assess(w) ==
  /\ IsAt(w, "assess")
  /\ work' = [work EXCEPT ![w].pc = "upsert", ![w].eligible = Eligible(work[w].of, work[w].snap)]
  /\ UNCHANGED <<provider, changes, owed, events, tables, api, hurt>>

UpsertRow(w, eligible) ==
  LET p == work[w].of  s == work[w].snap IN
  /\ rows' = [rows EXCEPT ![p] = [status |-> StatusOf(s), eligible |-> eligible, user |-> HasUser(p, s)]]
  /\ current' = current \cup {p}

\* What follows the row: the dead letter, the delivery, or nothing.
Following(p, s, eligible) ==
  CASE Approved(s) /\ ~ HasUser(p, s) -> "orphan"
    [] HasUser(p, s) /\ eligible -> "read"
    [] OTHER -> "finish"

Upsert(w) ==
  LET p == work[w].of  s == work[w].snap  ok == work[w].eligible IN
  /\ IsAt(w, "upsert")
  /\ UpsertRow(w, ok)
  /\ work' = IF Approved(s) /\ ok /\ p \in Ordered
             THEN [work EXCEPT ![w].pc = "consume"]
             ELSE GoOn(w, Following(p, s, ok))
  /\ UNCHANGED <<provider, changes, owed, events, consumed, api, hurt>>

\* As a bug would have it: the order is read, found consumed, and taken anyway.
WinsAlways(p) == TRUE

\* The compare-and-set of consumeOrder; the payment that holds the order wins again.
Wins(p) == consumed \subseteq {p}

Consume(w) ==
  LET p == work[w].of IN
  /\ IsAt(w, "consume")
  /\ IF Wins(p)
     THEN /\ consumed' = {p}
          /\ work' = GoOn(w, Following(p, work[w].snap, TRUE))
     ELSE /\ work' = [work EXCEPT ![w].pc = "refuse"]
          /\ UNCHANGED consumed
  /\ UNCHANGED <<provider, changes, owed, events, rows, current, api, hurt>>

Refuse(w) ==
  /\ IsAt(w, "refuse")
  /\ UpsertRow(w, FALSE)
  /\ work' = GoOn(w, "finish")
  /\ UNCHANGED <<provider, changes, owed, events, consumed, api, hurt>>

Orphan(w) ==
  /\ IsAt(w, "orphan")
  /\ events' = [events EXCEPT ![work[w].slot].state = "dead", ![work[w].slot].orphan = TRUE]
  /\ work' = [work EXCEPT ![w] = NoCall]
  /\ UNCHANGED <<provider, changes, owed, tables, api, hurt>>

\* entitlementStateFor reads the row, whoever wrote it last.
Read(w) ==
  LET row == rows[work[w].of] IN
  /\ IsAt(w, "read")
  /\ work' = [work EXCEPT ![w].pc = "send",
                          ![w].active = row.status = "approved" /\ row.eligible /\ row.user]
  /\ UNCHANGED <<provider, changes, owed, events, tables, api, hurt>>

Sending(p) == {v \in Workers : IsAt(v, "sending") /\ work[v].of = p}

\* occurredAt: later than every other of the payment that still matters.
Send(w) ==
  LET p == work[w].of
      stamps == {entitled[p].stamp} \cup {work[v].stamp : v \in Sending(p)} IN
  /\ IsAt(w, "send")
  /\ work' = [work EXCEPT ![w].pc = "sending",
                          ![w].stamp = 1 + CHOOSE t \in stamps : \A u \in stamps : u <= t]
  /\ UNCHANGED <<provider, changes, owed, events, tables, api, hurt>>

\* applyEntitlement: an event key is recorded once, the latest occurredAt counts.
\* Stamps start again from 0 when none is under way.
Record(w) ==
  LET p == work[w].of  key == <<work[w].slot, work[w].active>>
      new == key \notin keys
      wins == new /\ work[w].stamp > entitled[p].stamp
      top == IF wins THEN work[w].stamp ELSE entitled[p].stamp IN
  /\ IsAt(w, "sending")
  /\ keys' = keys \cup {key}
  /\ entitled' = [entitled EXCEPT ![p] =
                  [active |-> IF wins THEN work[w].active ELSE @.active,
                   stamp |-> IF Sending(p) = {w} THEN 0 ELSE top]]
  /\ granted' = IF wins /\ work[w].active THEN granted \cup {p} ELSE granted
  /\ work' = GoOn(w, "finish")
  /\ UNCHANGED <<provider, changes, owed, events, tables, hurt>>

\* finishEvent.  A done row no other call holds is followed no longer.
Finish(w) ==
  LET e == work[w].slot IN
  /\ IsAt(w, "finish")
  /\ IF On(e) = {w}
     THEN /\ events' = [events EXCEPT ![e] = Unused]
          /\ keys' = {k \in keys : k[1] # e}
     ELSE /\ events' = [events EXCEPT ![e].state = "done"]
          /\ UNCHANGED keys
  /\ work' = [work EXCEPT ![w] = NoCall]
  /\ UNCHANGED <<provider, changes, owed, tables, entitled, granted, hurt>>

\* As a bug would have it: a state the table does not have.
AfterFailureFailed(w) == "failed"

AfterFailure(w) == IF work[w].tries >= MaxAttempts THEN "dead" ELSE "pending"

\* A call fails, or its answer is lost: failEvent.
FailEvent(w) ==
  /\ Busy(w) /\ Trouble
  /\ forsaken' = IF On(work[w].slot) = {w} THEN forsaken ELSE forsaken \cup {work[w].of}
  /\ events' = [events EXCEPT ![work[w].slot].state = AfterFailure(w),
                              ![work[w].slot].orphan = FALSE]
  /\ work' = [work EXCEPT ![w] = NoCall]
  /\ UNCHANGED <<provider, changes, owed, tables, api>>

\* An event nobody will take again.
Settled(e) == events[e].state = "done" \/ events[e].orphan

Killed ==
  /\ \E w \in Workers : Busy(w)
  /\ Trouble
  /\ forsaken' = forsaken \cup {p \in Payments :
       \E w \in Workers : Busy(w) /\ Settled(work[w].slot) /\ work[w].of = p}
  /\ work' = [w \in Workers |-> NoCall]
  /\ UNCHANGED <<provider, changes, owed, events, tables, api>>

CallStep(w) ==
  \/ Fetch(w) \/ Assess(w) \/ Upsert(w) \/ Consume(w) \/ Refuse(w) \/ Orphan(w)
  \/ Read(w) \/ Send(w) \/ Record(w) \/ Finish(w)

EventsNext ==
  \/ \E p \in Payments : \/ \E s \in Statuses : Change(p, s)
                         \/ Webhook(p) \/ Reconcile(p)
  \/ Redrive \/ Killed
  \/ \E w \in Workers : (\E e \in Slots : Take(w, e)) \/ CallStep(w) \/ FailEvent(w)

EventsSpec == EventsInit /\ [][EventsNext]_eventVars

\* Calls go on, the one-second timer takes what is due and the reconciliation
\* runs every quarter of an hour.
EventsFairness ==
  /\ \A w \in Workers : WF_eventVars(CallStep(w))
  /\ WF_eventVars(\E w \in Workers, e \in Slots : Take(w, e))
  /\ \A p \in Payments : WF_eventVars(Reconcile(p))

EventsLiveSpec == EventsSpec /\ EventsFairness
-----------------------------------------------------------------------------
AtWork(p) == \/ \E w \in Workers : Busy(w) /\ work[w].of = p
             \/ \E e \in Slots : events[e].state \in Open \cup {"dead"} /\ events[e].of = p

\* Once nothing of a payment is at work any more, its row says it bought
\* something only if it is the payment that consumed the order: unless a call of it died
\* after another one of the same event went past it (an outlived lease).
SettledRowsHoldTheOrder ==
  \A p \in Ordered \ forsaken :
    rows[p].status = "approved" /\ rows[p].eligible /\ ~ AtWork(p) => consumed = {p}

\* No event is left half processed.
EventsSettle ==
  \A e \in Slots : events[e].state \in Open ~> events[e].state \notin Open

\* Whatever webhooks are lost and however calls overlap, the table ends up with
\* the status Mercado Pago has.
TableConverges ==
  \A p \in Payments : <>[](provider[p] = "none" \/ rows[p].status = StatusOf(provider[p]))

\* The order is good for one payment (db.ts: the second approved payment loses).
OneGrantPerOrder == Cardinality(granted \cap Ordered) <= 1

\* When all is processed, a refunded payment gives no access (SAAS-READINESS).
RefundRevokes ==
  \A p \in Payments :
    provider[p] = "revoked" /\ rows[p].status = "revoked" /\ ~ AtWork(p)
      => ~ entitled[p].active
=============================================================================
