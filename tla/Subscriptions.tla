---------------------------- MODULE Subscriptions ----------------------------
(***************************************************************************)
(* Monthly subscriptions in the payments service: the checkout that opens   *)
(* one (payments/src/server.ts), the two kinds of webhook events that speak *)
(* of it, the table, and the cancel route.  Mercado Pago is external: it    *)
(* keeps the preapproval, charges it, and announces each change with an     *)
(* event that may be lost.  The leases of the events and the grants          *)
(* themselves are in PaymentEvents and Access.                              *)
(***************************************************************************)
EXTENDS Integers, FiniteSets

CONSTANTS Checkouts,  \* order keys, each with the preapproval it opens
          Owner,      \* checkout -> who subscribes
          Charges,    \* recurring charges
          Of,         \* charge -> the checkout whose preapproval it belongs to
          Hinted,     \* charges whose metadata names the user
          Workers,    \* runs of processOne that overlap
          EventAttempts,  \* of an event before it is dead: 8 in the code
          MaxEvents,  \* bound: new events of one resource that wait
          MaxFailures   \* bound: lost events, failed calls

ASSUME SubscriptionsAssumption ==
  /\ Checkouts \cap Charges = {} /\ "nothing" \notin Checkouts \cup Charges
  /\ Hinted \subseteq Charges /\ \A c \in Charges : Of[c] \in Checkouts
  /\ {EventAttempts, MaxEvents} \subseteq Nat \ {0} /\ MaxFailures \in Nat

VARIABLES asked,    \* the checkout route, per order key
          prov,     \* Mercado Pago: the preapproval of each order
          charged,  \* Mercado Pago: the approved charges
          sub,      \* subscriptions: the status stored of each preapproval
          newest,   \* subscriptions: the row of each user updated last
          pay,      \* payments: what is stored of each charge
          events,   \* payment_webhook_events: how many wait, per resource and attempts made
          work,     \* what each run of processOne has in hand
          cancel,   \* the cancel route, per user
          failures,
          lost,     \* history: preapprovals a change of which was lost on the way, or died
          crossed   \* history: preapprovals written by who had read them before
                    \* somebody else wrote them

subVars == <<asked, prov, charged, sub, newest, pay, events, work, cancel, failures, lost, crossed>>

Buyers == {Owner[c] : c \in Checkouts}
Ladder == 0..EventAttempts
Nothing == [of |-> "nothing", seen |-> "unread", late |-> FALSE, tries |-> 0]
MineOf(u) == {c \in Checkouts : Owner[c] = u /\ sub[c] # "none"}

SubscriptionsInit ==
  /\ asked = [c \in Checkouts |-> "new"]
  /\ prov = [c \in Checkouts |-> "none"] /\ charged = {}
  /\ sub = [c \in Checkouts |-> "none"] /\ newest = [u \in Buyers |-> "nothing"]
  /\ pay = [c \in Charges |-> "none"]
  /\ events = [x \in Checkouts \cup Charges |-> [a \in Ladder |-> 0]]
  /\ work = [w \in Workers |-> Nothing] /\ cancel = [u \in Buyers |-> Nothing]
  /\ failures = 0 /\ lost = {} /\ crossed = {}

Failure == failures < MaxFailures /\ failures' = failures + 1

\* An event of x waits, after so many attempts.
Waits(x, a) == events' = [events EXCEPT ![x][a] = @ + 1]

\* Mercado Pago announces a change of x; the webhook takes it for what it is, an event of
\* a preapproval or of a charge, and records it, or it is lost.
Announce(x) ==
  \/ events[x][0] < MaxEvents /\ Waits(x, 0) /\ UNCHANGED <<failures, lost>>
  \/ Failure /\ lost' = lost \cup {x} /\ UNCHANGED events
-----------------------------------------------------------------------------
\* The checkout

\* subscription(userId): the live row first, then the one updated last.
Current(u) ==
  LET live == {c \in MineOf(u) : sub[c] = "authorized"}
  IN IF live # {} THEN live ELSE {newest[u]} \ {"nothing"}

\* already_subscribed, read from the table before anything is written.
Ask(c) ==
  /\ asked[c] = "new"
  /\ asked' = [asked EXCEPT ![c] =
       IF \E d \in Current(Owner[c]) : sub[d] = "authorized" THEN "refused" ELSE "checked"]
  /\ UNCHANGED <<prov, charged, sub, newest, pay, events, work, cancel, failures, lost, crossed>>

\* saveCheckoutContext and createOrder: the order is there before Mercado Pago is
\* asked, so that its external_reference finds the user.
Order(c) ==
  /\ asked[c] = "checked" /\ asked' = [asked EXCEPT ![c] = "ordered"]
  /\ UNCHANGED <<prov, charged, sub, newest, pay, events, work, cancel, failures, lost, crossed>>

\* provider.checkout: a preapproval that is pending until the buyer accepts it, and
\* attachOrderRef; or a call that fails, before or after Mercado Pago acted on it.
Preapprove(c) ==
  /\ asked[c] = "ordered" /\ asked' = [asked EXCEPT ![c] = "open"]
  /\ prov' = [prov EXCEPT ![c] = "pending"] /\ Announce(c)
  /\ UNCHANGED <<charged, sub, newest, pay, work, cancel, crossed>>
PreapproveFails(c) ==
  /\ asked[c] = "ordered" /\ Failure /\ asked' = [asked EXCEPT ![c] = "failed"]
  /\ UNCHANGED <<prov, charged, sub, newest, pay, events, work, cancel, lost, crossed>>

\* The buyer accepts, the payer or Mercado Pago ends it, a month is charged.
Accepts(c) ==
  /\ asked[c] = "open" /\ prov[c] = "pending"
  /\ prov' = [prov EXCEPT ![c] = "authorized"] /\ Announce(c)
  /\ UNCHANGED <<asked, charged, sub, newest, pay, work, cancel, crossed>>
EndsThere(c) ==
  /\ prov[c] \in {"pending", "authorized"}
  /\ prov' = [prov EXCEPT ![c] = "cancelled"] /\ Announce(c)
  /\ UNCHANGED <<asked, charged, sub, newest, pay, work, cancel, crossed>>
Charge(c) ==
  /\ prov[Of[c]] = "authorized" /\ c \notin charged
  /\ charged' = charged \cup {c} /\ Announce(c)
  /\ UNCHANGED <<asked, prov, sub, newest, pay, work, cancel, crossed>>
-----------------------------------------------------------------------------
\* processOne

\* classifyWebhook has named the resource; takeEvent counts the attempt and hands the
\* event over.  Beyond the last attempt the count tells nothing.
Take(w, x) ==
  /\ work[w] = Nothing
  /\ \E a \in Ladder :
       /\ events[x][a] > 0 /\ events' = [events EXCEPT ![x][a] = @ - 1]
       /\ work' = [work EXCEPT ![w] =
            [Nothing EXCEPT !.of = x, !.tries = IF a = EventAttempts THEN a ELSE a + 1]]
  /\ UNCHANGED <<asked, prov, charged, sub, newest, pay, cancel, failures, lost, crossed>>

\* A call of it fails: failEvent makes the event wait for its next attempt, and after
\* the last one it is dead.
Retry(w) ==
  /\ work[w] # Nothing /\ Failure
  /\ IF work[w].tries < EventAttempts
     THEN Waits(work[w].of, work[w].tries) /\ UNCHANGED lost
     ELSE lost' = lost \cup {work[w].of} /\ UNCHANGED events
  /\ work' = [work EXCEPT ![w] = Nothing]
  /\ UNCHANGED <<asked, prov, charged, sub, newest, pay, cancel, crossed>>

\* Its process dies: nobody calls failEvent, and when the lease runs out takeEvent takes
\* the event again, whatever its attempts.
RunDies(w) ==
  /\ work[w] # Nothing /\ Failure
  /\ Waits(work[w].of, work[w].tries)
  /\ work' = [work EXCEPT ![w] = Nothing]
  /\ UNCHANGED <<asked, prov, charged, sub, newest, pay, cancel, lost, crossed>>

\* provider.subscription.
Fetch(w) ==
  /\ work[w].of \in Checkouts /\ work[w].seen = "unread"
  /\ work' = [work EXCEPT ![w].seen = prov[work[w].of]]
  /\ UNCHANGED <<asked, prov, charged, sub, newest, pay, events, cancel, failures, lost, crossed>>

\* upsertSubscription writes what was read, whatever has been written since; the
\* user is the one of the metadata or of the order, which exists by now.
Writes(c, status, late) ==
  /\ sub' = [sub EXCEPT ![c] = status]
  /\ newest' = [newest EXCEPT ![Owner[c]] = c]
  /\ crossed' = IF late THEN crossed \cup {c} ELSE crossed
Overtake(r, c) == IF r.of = c /\ r.seen # "unread" THEN [r EXCEPT !.late = TRUE] ELSE r

Upsert(w) ==
  /\ work[w].of \in Checkouts /\ work[w].seen # "unread"
  /\ LET c == work[w].of
     IN /\ Writes(c, work[w].seen, work[w].late)
        /\ work' = [v \in Workers |-> IF v = w THEN Nothing ELSE Overtake(work[v], c)]
        /\ cancel' = [u \in Buyers |-> Overtake(cancel[u], c)]
  /\ UNCHANGED <<asked, prov, charged, pay, events, failures, lost>>

\* processAuthorizedPayment: the preapproval it belongs to, as the table has it.
ReadsSubscription(w) ==
  /\ work[w].of \in Charges /\ work[w].seen = "unread"
  /\ work' = [work EXCEPT ![w].seen = IF sub[Of[work[w].of]] = "none" THEN "no row" ELSE "row"]
  /\ UNCHANGED <<asked, prov, charged, sub, newest, pay, events, cancel, failures, lost, crossed>>

\* processPaymentItem with the order made up of that row: never single use, never
\* expired, the amount of the preapproval.  Without a row there is no order, and
\* without a user in the metadata either the event is dead at once.
Assessed(ch, seen) == IF seen = "row" \/ ch \in Hinted THEN "granted" ELSE "orphan"
Settle(w) ==
  /\ work[w].of \in Charges /\ work[w].seen # "unread"
  /\ pay' = [pay EXCEPT ![work[w].of] = Assessed(work[w].of, work[w].seen)]
  /\ work' = [work EXCEPT ![w] = Nothing]
  /\ UNCHANGED <<asked, prov, charged, sub, newest, events, cancel, failures, lost, crossed>>
-----------------------------------------------------------------------------
\* POST /v1/subscriptions/:userId/cancel

AskCancel(u) ==
  /\ cancel[u] = Nothing /\ MineOf(u) # {}
  /\ \E c \in Current(u) : cancel' = [cancel EXCEPT ![u] = [Nothing EXCEPT !.of = c]]
  /\ UNCHANGED <<asked, prov, charged, sub, newest, pay, events, work, failures, lost, crossed>>

\* provider.cancelSubscription; a preapproval that has ended cannot end again.  Its
\* event may be lost as any other, but the answer says what it would have said.
CancelThere(u) ==
  /\ cancel[u] # Nothing /\ cancel[u].seen = "unread"
  /\ LET c == cancel[u].of
     IN IF prov[c] = "cancelled"
        THEN cancel' = [cancel EXCEPT ![u] = Nothing] /\ UNCHANGED <<prov, events, failures>>
        ELSE /\ prov' = [prov EXCEPT ![c] = "cancelled"]
             /\ cancel' = [cancel EXCEPT ![u].seen = "cancelled"]
             /\ \/ events[c][0] < MaxEvents /\ Waits(c, 0) /\ UNCHANGED failures
                \/ Failure /\ UNCHANGED events
  /\ UNCHANGED <<asked, charged, sub, newest, pay, work, lost, crossed>>

\* The route fails, or its process dies, before the answer is stored.
CancelFails(u) ==
  /\ cancel[u] # Nothing /\ Failure /\ cancel' = [cancel EXCEPT ![u] = Nothing]
  /\ lost' = IF cancel[u].seen = "cancelled" THEN lost \cup {cancel[u].of} ELSE lost
  /\ UNCHANGED <<asked, prov, charged, sub, newest, pay, events, work, crossed>>

\* As a bug would have it: nothing is stored, the webhook will say it.
CancelUnstored(u) ==
  /\ cancel[u].seen = "cancelled" /\ cancel' = [cancel EXCEPT ![u] = Nothing]
  /\ UNCHANGED <<asked, prov, charged, sub, newest, pay, events, work, failures, lost, crossed>>

\* The answer is stored, then sent to the api.
CancelStored(u) ==
  /\ cancel[u].seen = "cancelled"
  /\ LET c == cancel[u].of
     IN /\ Writes(c, "cancelled", cancel[u].late)
        /\ work' = [v \in Workers |-> Overtake(work[v], c)]
  /\ cancel' = [cancel EXCEPT ![u] = Nothing]
  /\ UNCHANGED <<asked, prov, charged, pay, events, failures, lost>>

SubscriptionsNext ==
  \/ \E c \in Checkouts :
       Ask(c) \/ Order(c) \/ Preapprove(c) \/ PreapproveFails(c) \/ Accepts(c) \/ EndsThere(c)
  \/ \E c \in Charges : Charge(c)
  \/ \E w \in Workers :
       \/ \E x \in Checkouts \cup Charges : Take(w, x)
       \/ Retry(w) \/ RunDies(w) \/ Fetch(w) \/ Upsert(w) \/ ReadsSubscription(w) \/ Settle(w)
  \/ \E u \in Buyers : AskCancel(u) \/ CancelThere(u) \/ CancelFails(u) \/ CancelStored(u)

SubscriptionsSpec == SubscriptionsInit /\ [][SubscriptionsNext]_subVars
-----------------------------------------------------------------------------
EventWaits(x) == \E a \in Ladder : events[x][a] > 0
AtWork(x) ==
  EventWaits(x) \/ \E r \in {work[w] : w \in Workers} \cup {cancel[u] : u \in Buyers} : r.of = x

\* Once nothing of a preapproval is under way, the table has its status, unless an
\* event of it was lost or failed at its last attempt, a cancellation of it was not
\* stored, or two calls that had read it wrote it in the other order: reconciliation
\* looks at payments only, so those rows stay wrong.  A cancellation that was stored
\* needs no event, and no death of a process loses one.
RowsSettle ==
  \A c \in Checkouts :
    ~AtWork(c) /\ sub[c] # prov[c] => c \in lost \cup crossed
=============================================================================
