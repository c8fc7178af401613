------------------------------ MODULE MetaOutbox ------------------------------
(***************************************************************************)
(* The sales that the payments service reports to Meta: what the webhook    *)
(* queues (queuePurchase of payments/src/server.ts) and the table it goes   *)
(* through (meta_events, db.ts).  Deliveries overlap: the timer starts one  *)
(* every second and waits for none, and a lease of five minutes is all that *)
(* keeps two of them from one event.  Meta is external: it takes an event,  *)
(* or refuses it, or its answer is lost.                                    *)
(***************************************************************************)
EXTENDS Integers

CONSTANTS Sales,        \* approved payments of an eligible buyer
          Ticks,        \* deliverMetaOne calls that can overlap
          MaxAttempts,  \* 8 in the code
          MaxTroubles   \* bound: refusals, lost answers, failed writes, leases that lapse

ASSUME OutboxAssumption == MaxAttempts \in Nat \ {0} /\ MaxTroubles \in Nat

VARIABLES context,   \* checkout_contexts of the buyer of each sale: none, ads, noAds
          hook,      \* the processing of the payment's event
          meta,      \* meta_events: no row, or its state, attempts, and whether it is due
          hand,      \* what each delivery has taken
          accepted,  \* Meta: the events it has
          troubles,
          doubled    \* history: events taken while another delivery had them in
                     \* hand, and those whose acceptance could not be written

outboxVars == <<context, hook, meta, hand, accepted, troubles, doubled>>

NoRow == [state |-> "none", attempts |-> 0, due |-> FALSE]
Empty == [of |-> "nothing", attempts |-> 0, at |-> "idle"]

OutboxInit ==
  /\ context = [s \in Sales |-> "none"] /\ hook = [s \in Sales |-> "idle"]
  /\ meta = [s \in Sales |-> NoRow] /\ hand = [t \in Ticks |-> Empty]
  /\ accepted = {} /\ troubles = 0 /\ doubled = {}

Trouble == troubles < MaxTroubles /\ troubles' = troubles + 1

\* saveCheckoutContext: the last checkout of the buyer counts, whatever it bought.
SaveContext(s, c) ==
  /\ context[s] # c /\ context' = [context EXCEPT ![s] = c]
  /\ UNCHANGED <<hook, meta, hand, accepted, troubles, doubled>>

\* queuePurchase, each time the payment's event is processed: the context is read...
Reads(s) ==
  /\ hook[s] = "idle"
  /\ hook' = [hook EXCEPT ![s] = IF context[s] = "noAds" THEN "idle" ELSE "queue"]
  /\ UNCHANGED <<context, meta, hand, accepted, troubles, doubled>>

\* ...and one event per payment is kept, with the id the thank-you page uses.
Queues(s) ==
  /\ hook[s] = "queue" /\ hook' = [hook EXCEPT ![s] = "idle"]
  /\ meta' = [meta EXCEPT ![s] =
       IF @ = NoRow THEN [state |-> "pending", attempts |-> 0, due |-> TRUE] ELSE @]
  /\ UNCHANGED <<context, hand, accepted, troubles, doubled>>

Held(s) == \E t \in Ticks : hand[t].of = s

\* Mutant: only the pending ones are taken again.
TakesPending(s) == meta[s].state = "pending" /\ meta[s].due
\* A row whose lease has lapsed is taken again, by whoever comes first.
Takes(s) == meta[s].state \in {"pending", "processing"} /\ meta[s].due

TakeSale(t, s) ==
  /\ hand[t] = Empty /\ Takes(s)
  /\ meta' = [meta EXCEPT ![s] =
       [state |-> "processing", attempts |-> @.attempts + 1, due |-> FALSE]]
  /\ hand' = [hand EXCEPT ![t] = [of |-> s, attempts |-> meta[s].attempts + 1, at |-> "send"]]
  /\ doubled' = IF Held(s) THEN doubled \cup {s} ELSE doubled
  /\ UNCHANGED <<context, hook, accepted, troubles>>

To(t, at) == hand' = [hand EXCEPT ![t].at = at]

\* meta.send: Meta counts one event, and says so; or the call ends in an error, with
\* the event taken or not.
Sends(t) ==
  /\ hand[t].at = "send" /\ accepted' = accepted \cup {hand[t].of} /\ To(t, "sent")
  /\ UNCHANGED <<context, hook, meta, troubles, doubled>>
SendFails(t) ==
  /\ hand[t].at = "send" /\ Trouble /\ To(t, "failed")
  /\ UNCHANGED <<context, hook, meta, accepted, doubled>>
AnswerLost(t) ==
  /\ hand[t].at = "send" /\ Trouble /\ To(t, "failed")
  /\ accepted' = accepted \cup {hand[t].of} /\ doubled' = doubled \cup {hand[t].of}
  /\ UNCHANGED <<context, hook, meta>>

Lets(t) == hand' = [hand EXCEPT ![t] = Empty]

\* Mutant: the outcome is written before Meta has answered.
SentBefore(t) ==
  /\ hand[t].at \in {"send", "sent"}
  /\ meta' = [meta EXCEPT ![hand[t].of].state = "sent"] /\ Lets(t)
  /\ UNCHANGED <<context, hook, accepted, troubles, doubled>>

\* metaSent, whatever the row says by now; when it fails the catch takes over.
Sent(t) ==
  /\ hand[t].at = "sent"
  /\ meta' = [meta EXCEPT ![hand[t].of].state = "sent"] /\ Lets(t)
  /\ UNCHANGED <<context, hook, accepted, troubles, doubled>>
SentUnwritten(t) ==
  /\ hand[t].at = "sent" /\ Trouble /\ To(t, "failed")
  /\ doubled' = doubled \cup {hand[t].of}
  /\ UNCHANGED <<context, hook, meta, accepted>>

\* metaFailed: dead when the taker had the last attempt, else pending and due later,
\* be the row in other hands or sent by now.
Failed(t) ==
  /\ hand[t].at = "failed"
  /\ meta' = [meta EXCEPT ![hand[t].of] =
       [@ EXCEPT !.state = IF hand[t].attempts >= MaxAttempts THEN "dead" ELSE "pending",
                 !.due = FALSE]]
  /\ Lets(t)
  /\ UNCHANGED <<context, hook, accepted, troubles, doubled>>

\* The process dies with the delivery in hand.
Dies(t) ==
  /\ hand[t] # Empty /\ Trouble /\ Lets(t)
  /\ doubled' = IF hand[t].of \in accepted THEN doubled \cup {hand[t].of} ELSE doubled
  /\ UNCHANGED <<context, hook, meta, accepted>>

\* next_attempt_at passes: the delay of a pending row, the lease of one at work.
Due(s) ==
  /\ meta[s].state \in {"pending", "processing"} /\ ~meta[s].due
  /\ meta' = [meta EXCEPT ![s].due = TRUE]
  /\ UNCHANGED <<context, hook, hand, accepted, troubles, doubled>>

OutboxStep(t) ==
  \/ Sends(t) \/ SendFails(t) \/ AnswerLost(t) \/ Sent(t) \/ SentUnwritten(t) \/ Failed(t) \/ Dies(t)
OutboxNext ==
  \/ \E s \in Sales :
       \/ \E c \in {"ads", "noAds"} : SaveContext(s, c)
       \/ Reads(s) \/ Queues(s) \/ Due(s) \/ \E t \in Ticks : TakeSale(t, s)
  \/ \E t \in Ticks : OutboxStep(t)
OutboxSpec == OutboxInit /\ [][OutboxNext]_outboxVars
-----------------------------------------------------------------------------
\* What is on the table as sent was taken by Meta; what Meta took is on the table as
\* sent once no delivery of it is under way, unless two of them overlapped or the
\* answer, or its writing, was lost: then a late failure may have put it back.
AcceptedIsSent ==
  \A s \in Sales :
    /\ meta[s].state = "sent" => s \in accepted
    /\ s \in accepted /\ ~Held(s) /\ meta[s].state # "sent" => s \in doubled

\* A sale that was queued is reported or given up for an operator to see.
EverySaleSettles == \A s \in Sales : meta[s].state = "pending" ~> meta[s].state \in {"sent", "dead"}
=============================================================================
