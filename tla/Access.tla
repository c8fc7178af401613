------------------------------- MODULE Access -------------------------------
(***************************************************************************)
(* Who has access, from Mercado Pago to users.paid.  A change of a grant (a *)
(* subscription, or a purchase that ends) reaches the payments service as   *)
(* an event; the state of that one grant travels to the api, which records  *)
(* it and derives users.paid in two calls; an hourly sweep closes what has  *)
(* lapsed.  One account is followed.                                        *)
(***************************************************************************)
EXTENDS Naturals, FiniteSets

CONSTANTS Grants,   \* (source, external_id) pairs of the account
          Events,   \* rows of payment_webhook_events
          MaxNow,   \* bound on time, in hours
          MaxMisses \* bound on lost webhooks and failed attempts

ASSUME AccessAssumption == MaxNow \in Nat /\ MaxMisses \in Nat

VARIABLES now,
          truth,     \* what Mercado Pago knows of each grant
          stored,    \* what the payments service has stored of it
          ev,        \* each event and how far its processing is
          stamped,   \* occurredAt values handed out
          latest,    \* entitlement_events: the newest state of each grant
          keys,      \* entitlement_events: the event_keys
          paid,      \* users.paid
          sweep,     \* the sweep under way
          overtaken, \* history: a value computed before a record was written after it
          misses

accessVars == <<now, truth, stored, ev, stamped, latest, keys, paid, sweep, overtaken, misses>>

EndTimes == 0..(MaxNow + 1)
NoGrant == [on |-> FALSE, end |-> 0]
Unused == [at |-> "unused"]

AccessInit ==
  /\ now = 0
  /\ truth = [g \in Grants |-> NoGrant] /\ stored = [g \in Grants |-> NoGrant]
  /\ ev = [e \in Events |-> Unused]
  /\ stamped = 0
  /\ latest = [g \in Grants |-> [active |-> FALSE, end |-> 0, stamp |-> 0]]
  /\ keys = {}
  /\ paid \in BOOLEAN   \* some accounts were paid before there were events
  /\ sweep = [at |-> "idle"]
  /\ overtaken = FALSE /\ misses = 0

Tick == now < MaxNow /\ now' = now + 1
        /\ UNCHANGED <<truth, stored, ev, stamped, latest, keys, paid, sweep, overtaken, misses>>

\* A subscription is authorized, renewed or cancelled, a purchase approved; the
\* webhook is recorded, or lost.
Changes(g) ==
  /\ \E r \in {NoGrant} \cup [on: {TRUE}, end: {t \in EndTimes : t > now}] :
       r # truth[g] /\ truth' = [truth EXCEPT ![g] = r]
  /\ \/ \E e \in Events : ev[e] = Unused /\ ev' = [ev EXCEPT ![e] = [at |-> "due", of |-> g]]
                          /\ UNCHANGED misses
     \/ misses < MaxMisses /\ misses' = misses + 1 /\ UNCHANGED ev
  /\ UNCHANGED <<now, stored, stamped, latest, keys, paid, sweep, overtaken>>

-----------------------------------------------------------------------------
(* The payments service: one event.                                         *)

Fetches(e) ==
  /\ ev[e].at = "due"
  /\ ev' = [ev EXCEPT ![e] = [at |-> "fetched", of |-> ev[e].of, snap |-> truth[ev[e].of]]]
  /\ UNCHANGED <<now, truth, stored, stamped, latest, keys, paid, sweep, overtaken, misses>>

Upserts(e) ==
  /\ ev[e].at = "fetched"
  /\ stored' = [stored EXCEPT ![ev[e].of] = ev[e].snap]
  /\ ev' = [ev EXCEPT ![e] = [at |-> "upserted", of |-> ev[e].of]]
  /\ UNCHANGED <<now, truth, stamped, latest, keys, paid, sweep, overtaken, misses>>

\* deriveEntitlementFor: an authorized grant is active until its end.
Derive(r) == [active |-> r.on /\ r.end > now, end |-> IF r.on /\ r.end > now THEN r.end ELSE 0]

\* sendEntitlement reads the state of this grant...
Derives(e) ==
  /\ ev[e].at = "upserted"
  /\ ev' = [ev EXCEPT ![e] = [at |-> "derived", of |-> ev[e].of, state |-> Derive(stored[ev[e].of])]]
  /\ UNCHANGED <<now, truth, stored, stamped, latest, keys, paid, sweep, overtaken, misses>>

\* ... stamps it and posts it.
Posts(e) ==
  /\ ev[e].at = "derived"
  /\ stamped' = stamped + 1
  /\ ev' = [ev EXCEPT ![e] = [at |-> "posted", of |-> ev[e].of, state |-> ev[e].state,
                              stamp |-> stamped + 1]]
  /\ UNCHANGED <<now, truth, stored, latest, keys, paid, sweep, overtaken, misses>>

-----------------------------------------------------------------------------
(* The api: applyEntitlement.                                               *)

\* Statements that have read entitlement_events and not yet written users.paid.
Stale(entry) == IF entry.at = "writing" THEN [entry EXCEPT !.stale = TRUE] ELSE entry

\* Mutant: a duplicate is answered without deriving the access again.
RecordsOnce(e) ==
  /\ ev[e].at = "posted"
  /\ LET g == ev[e].of
         key == <<e, ev[e].state.active>>
     IN /\ latest' = IF key \in keys \/ ev[e].stamp < latest[g].stamp THEN latest
                     ELSE [latest EXCEPT ![g] = [active |-> ev[e].state.active,
                                                 end |-> ev[e].state.end, stamp |-> ev[e].stamp]]
        /\ keys' = keys \cup {key}
        /\ ev' = [ev EXCEPT ![e] = [at |-> IF key \in keys THEN "done" ELSE "recorded", of |-> g]]
  /\ UNCHANGED <<now, truth, stored, stamped, paid, sweep, overtaken, misses>>

\* POST /api/internal/entitlements: the event as the payments service sends it.
Body(e) == [key |-> <<e, ev[e].state.active>>, grant |-> ev[e].of,
            active |-> ev[e].state.active, end |-> ev[e].state.end, stamp |-> ev[e].stamp]

\* auth.entitlement_record: one row per event_key; the newest occurred_at counts.
Records(e) ==
  /\ ev[e].at = "posted"
  /\ LET body == Body(e)
         new == body.key \notin keys
     IN /\ latest' = IF new /\ body.stamp > latest[body.grant].stamp
                     THEN [latest EXCEPT ![body.grant] =
                             [active |-> body.active, end |-> body.end, stamp |-> body.stamp]]
                     ELSE latest
        /\ keys' = keys \cup {body.key}
        /\ ev' = [d \in Events |-> IF d = e THEN [at |-> "recorded", of |-> body.grant]
                                  ELSE Stale(ev[d])]
        /\ sweep' = Stale(sweep)
  /\ UNCHANGED <<now, truth, stored, stamped, paid, overtaken, misses>>

\* What entitlement_apply and entitlement_sweep derive.
Open == \E g \in Grants : latest[g].active /\ latest[g].end > now

\* auth.entitlement_apply is one UPDATE: its subquery reads a snapshot, and the
\* row may be locked by another UPDATE before it writes.
Applies(e) ==
  /\ ev[e].at = "recorded"
  /\ ev' = [ev EXCEPT ![e] = [at |-> "writing", of |-> ev[e].of, open |-> Open, stale |-> FALSE]]
  /\ UNCHANGED <<now, truth, stored, stamped, latest, keys, paid, sweep, overtaken, misses>>

Writes(e) ==
  /\ ev[e].at = "writing"
  /\ paid' = ev[e].open
  /\ overtaken' = (overtaken \/ ev[e].stale)
  /\ ev' = [ev EXCEPT ![e] = [at |-> "answered", of |-> ev[e].of]]
  /\ UNCHANGED <<now, truth, stored, stamped, latest, keys, sweep, misses>>

Finishes(e) ==
  /\ ev[e].at = "answered"
  /\ ev' = [ev EXCEPT ![e] = [at |-> "done", of |-> ev[e].of]]
  /\ UNCHANGED <<now, truth, stored, stamped, latest, keys, paid, sweep, overtaken, misses>>

\* Any call fails or its answer is lost: failEvent, and a new attempt from the start.
Fails(e) ==
  /\ ev[e].at \notin {"unused", "due", "done"} /\ misses < MaxMisses
  /\ ev' = [ev EXCEPT ![e] = [at |-> "due", of |-> ev[e].of]]
  /\ misses' = misses + 1
  /\ UNCHANGED <<now, truth, stored, stamped, latest, keys, paid, sweep, overtaken>>

\* Mutant: the sweep does not look at the end of the period.
SweepsRevoked ==
  /\ sweep.at = "idle" /\ paid /\ keys # {} /\ ~\E g \in Grants : latest[g].active
  /\ sweep' = [at |-> "writing", stale |-> FALSE]
  /\ UNCHANGED <<now, truth, stored, ev, stamped, latest, keys, paid, overtaken, misses>>

\* auth.entitlement_sweep: an account that is paid, has events, and nothing open.
Sweeps ==
  /\ sweep.at = "idle" /\ paid /\ keys # {} /\ ~Open
  /\ sweep' = [at |-> "writing", stale |-> FALSE]
  /\ UNCHANGED <<now, truth, stored, ev, stamped, latest, keys, paid, overtaken, misses>>

SweepCloses ==
  /\ sweep.at = "writing"
  /\ paid' = FALSE
  /\ overtaken' = (overtaken \/ sweep.stale)
  /\ sweep' = [at |-> "idle"]
  /\ UNCHANGED <<now, truth, stored, ev, stamped, latest, keys, misses>>

Process(e) ==
  \/ Fetches(e) \/ Upserts(e) \/ Derives(e) \/ Posts(e)
  \/ Records(e) \/ Applies(e) \/ Writes(e) \/ Finishes(e)

AccessNext ==
  \/ Tick
  \/ \E g \in Grants : Changes(g)
  \/ \E e \in Events : Process(e) \/ Fails(e)
  \/ Sweeps \/ SweepCloses

AccessFairness == WF_accessVars(Sweeps) /\ WF_accessVars(SweepCloses)

AccessSpec == AccessInit /\ [][AccessNext]_accessVars /\ AccessFairness

-----------------------------------------------------------------------------
State == [active: BOOLEAN, end: EndTimes]
Phase ==
  {Unused} \cup [at: {"due", "upserted", "recorded", "answered", "done"}, of: Grants]
  \cup [at: {"fetched"}, of: Grants, snap: [on: BOOLEAN, end: EndTimes]]
  \cup [at: {"derived"}, of: Grants, state: State]
  \cup [at: {"posted"}, of: Grants, state: State, stamp: Nat]
  \cup [at: {"writing"}, of: Grants, open: BOOLEAN, stale: BOOLEAN]

\* What the two services hold.
AccessTypeOK ==
  /\ now \in 0..MaxNow
  /\ truth \in [Grants -> [on: BOOLEAN, end: EndTimes]] /\ stored \in [Grants -> [on: BOOLEAN, end: EndTimes]]
  /\ ev \in [Events -> Phase]
  /\ stamped \in Nat
  /\ latest \in [Grants -> [active: BOOLEAN, end: EndTimes, stamp: 0..stamped]]
  /\ keys \subseteq Events \X BOOLEAN
  /\ paid \in BOOLEAN /\ overtaken \in BOOLEAN /\ misses \in 0..MaxMisses
  /\ sweep \in {[at |-> "idle"]} \cup [at: {"writing"}, stale: BOOLEAN]

\* A recorded grant that has not ended opens the course, once the events that
\* were recorded have been processed: duplicates, failures between the two calls
\* and lapses of other grants do not lose it.  Only a statement overtaken by a
\* record does (index.ts makes two calls of what should be one).
RecordedGrantOpens ==
  (Open /\ \A e \in Events : <<e, TRUE>> \in keys \/ <<e, FALSE>> \in keys => ev[e].at = "done")
    => paid \/ overtaken

\* Access that has ended is closed, though nobody says anything any more.
LapsedCloses == [](keys # {} /\ ~Open => <>(~paid \/ Open))
=============================================================================
