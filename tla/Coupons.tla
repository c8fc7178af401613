------------------------------- MODULE Coupons -------------------------------
(***************************************************************************)
(* Coupons of payments/src: a checkout reserves a place of a coupon         *)
(* (Store.reserveCoupon), then either grants the course at once (a coupon   *)
(* of 100 percent) or hands the buyer a payment link whose payment redeems  *)
(* the place later.  A place that is not redeemed is released by the        *)
(* checkout that failed or, after 30 minutes, by the next reservation.      *)
(***************************************************************************)
EXTENDS Naturals, FiniteSets

CONSTANTS
  Users,
  Codes,      \* the coupons
  Free,       \* those of 100 percent
  Cap,        \* coupons.max_redemptions of each
  Calls,      \* /v1/checkout requests that can be open at once
  Places,     \* bound: rows of coupon_redemptions followed at once
  MaxFaults   \* bound: failed calls, lost answers and crashes

ASSUME CouponAssumption ==
  /\ Free \subseteq Codes /\ IsFiniteSet(Places)
  /\ Cap \in [Codes -> Nat \ {0}]
  /\ MaxFaults \in Nat

VARIABLES
  places,  \* coupon_redemptions
  call,    \* the open checkouts
  link,    \* the payment link a reservation was handed out with
  access,  \* [Codes -> the users the api granted the course for that coupon]
  cut,     \* history: <<code, user>> of grants whose checkout failed after them
  faults

vars == <<places, call, link, access, cut, faults>>

Empty == [state |-> "none"]
Idle == [pc |-> "idle"]
Held == {"reserved", "redeemed"}

PlaceRows == [state : {"reserved", "redeemed", "released"}, code : Codes, user : Users,
              old : BOOLEAN]
\* "open" can be paid, "paid" waits for its event, "stuck" is an event that
\* fails at every attempt.
Links == {"none", "open", "paid", "settled", "stuck", "expired"}

TypeOK ==
  /\ places \in [Places -> PlaceRows \cup {Empty}]
  /\ call \in [Calls -> [pc : {"order", "grant", "redeem", "provider", "attach", "release"},
                         place : Places, mode : {"one_time", "subscription"}] \cup {Idle}]
  /\ link \in [Places -> Links]
  /\ access \in [Codes -> SUBSET Users]
  /\ cut \subseteq Codes \X Users
  /\ faults \in 0..MaxFaults

Init ==
  /\ places = [i \in Places |-> Empty]
  /\ call = [c \in Calls |-> Idle]
  /\ link = [i \in Places |-> "none"]
  /\ access = [k \in Codes |-> {}]
  /\ cut = {} /\ faults = 0

At(c, pc) == call[c].pc = pc
InUse(i) == \E c \in Calls : call[c] # Idle /\ call[c].place = i
Rows(k, states) == {i \in Places : places[i].state \in states /\ places[i].code = k}
InState(row, s) == [state |-> s, code |-> row.code, user |-> row.user, old |-> row.old]
Redeemed(k, u) == \E i \in Rows(k, {"redeemed"}) : places[i].user = u
Fault == faults < MaxFaults /\ faults' = faults + 1
-----------------------------------------------------------------------------
\* A row nobody can reach any more is followed no longer.
Forgotten(i) == /\ places[i].state \in {"none", "released"} /\ ~ InUse(i)
                /\ link[i] \in {"none", "expired", "settled"}

\* As a bug would have it: only what is redeemed counts against the cap.
TakenRedeemed(k) == Rows(k, {"redeemed"})

\* The places of k that count, once the old reservations are released.
Taken(k) == {i \in Rows(k, Held) : ~ (places[i].state = "reserved" /\ places[i].old)}

\* Store.reserveCoupon: one transaction under the lock of the coupon row.  When
\* it refuses, it rolls the releases back too and the checkout answers 422.
Reserve(c, k, u, mode) ==
  /\ call[c] = Idle
  /\ ~ Redeemed(k, u)
  /\ Cardinality(Taken(k)) < Cap[k]
  /\ \E i \in Places :
       /\ Forgotten(i)
       /\ places' =
            [j \in Places |->
               IF j = i THEN [state |-> "reserved", code |-> k, user |-> u, old |-> FALSE]
               ELSE IF places[j].state = "reserved" /\ places[j].old
               THEN InState(places[j], "released") ELSE places[j]]
       /\ link' = [link EXCEPT ![i] = "none"]
       /\ call' = [call EXCEPT ![c] = [pc |-> "order", place |-> i, mode |-> mode]]
  /\ UNCHANGED <<access, cut, faults>>

GoTo(c, pc) ==
  call' = [call EXCEPT ![c] = [pc |-> pc, place |-> call[c].place, mode |-> call[c].mode]]
Done(c) == call' = [call EXCEPT ![c] = Idle]
PlaceOf(c) == places[call[c].place]

\* redeemCouponReservation: a released place stays so; the index
\* coupon_user_redeemed refuses a second one of the user.
Clashes(i) == places[i].state = "reserved" /\ Redeemed(places[i].code, places[i].user)
MovePlace(i, s) == places' = [places EXCEPT ![i] = InState(places[i], s)]
RedeemPlace(i) ==
  IF places[i].state = "reserved" THEN MovePlace(i, "redeemed") ELSE UNCHANGED places

\* As a bug would have it, and once had: the place is redeemed before the grant.
RedeemFirst(c) ==
  /\ At(c, "order")
  /\ IF PlaceOf(c).code \in Free
     THEN RedeemPlace(call[c].place) /\ GoTo(c, "grant")
     ELSE UNCHANGED places /\ GoTo(c, "provider")
  /\ UNCHANGED <<link, access, cut, faults>>

\* A coupon of 100 percent skips Mercado Pago.
CreateOrder(c) ==
  /\ At(c, "order")
  /\ GoTo(c, IF PlaceOf(c).code \in Free THEN "grant" ELSE "provider")
  /\ UNCHANGED <<places, link, access, cut, faults>>

Granted(c) == access' = [access EXCEPT ![PlaceOf(c).code] = @ \cup {PlaceOf(c).user}]

\* sendEntitlement, answered.
Grant(c) ==
  /\ At(c, "grant")
  /\ Granted(c)
  /\ GoTo(c, "redeem")
  /\ UNCHANGED <<places, link, cut, faults>>

\* It is applied, and its answer lost: the catch of the route.
GrantUnanswered(c) ==
  /\ At(c, "grant") /\ Fault
  /\ Granted(c)
  /\ cut' = cut \cup {<<PlaceOf(c).code, PlaceOf(c).user>>}
  /\ GoTo(c, "release")
  /\ UNCHANGED <<places, link>>

Redeem(c) ==
  /\ At(c, "redeem")
  /\ IF Clashes(call[c].place)
     THEN GoTo(c, "release") /\ UNCHANGED places
     ELSE Done(c) /\ RedeemPlace(call[c].place)
  /\ UNCHANGED <<link, access, cut, faults>>

\* It is done, and its answer lost.
RedeemUnanswered(c) ==
  /\ At(c, "redeem") /\ ~ Clashes(call[c].place) /\ Fault
  /\ RedeemPlace(call[c].place)
  /\ GoTo(c, "release")
  /\ UNCHANGED <<link, access, cut>>

ProviderCheckout(c) ==
  /\ At(c, "provider")
  /\ GoTo(c, "attach")
  /\ UNCHANGED <<places, link, access, cut, faults>>

\* attachOrderRef and attachCoupon; with the answer the buyer has the link.  The
\* payment of a preapproval carries no coupon_redemption_id.
Attach(c) ==
  /\ At(c, "attach")
  /\ link' = IF call[c].mode = "one_time" THEN [link EXCEPT ![call[c].place] = "open"] ELSE link
  /\ Done(c)
  /\ UNCHANGED <<places, access, cut, faults>>

\* The catch of the route: releaseCoupon touches only what is still reserved.
Release(c) ==
  /\ At(c, "release")
  /\ Done(c)
  /\ IF PlaceOf(c).state = "reserved" THEN MovePlace(call[c].place, "released")
     ELSE UNCHANGED places
  /\ UNCHANGED <<link, access, cut, faults>>

\* Grants that end here without having been redeemed.
CutOff(calls) ==
  {<<PlaceOf(c).code, PlaceOf(c).user>> : c \in {d \in calls : At(d, "redeem")}}

\* A call of the route fails before it did anything, or the release itself.
Fail(c) ==
  /\ call[c] # Idle /\ Fault
  /\ IF At(c, "release") THEN Done(c) ELSE GoTo(c, "release")
  /\ cut' = cut \cup CutOff({c})
  /\ UNCHANGED <<places, link, access>>

Crash ==
  /\ \E c \in Calls : call[c] # Idle
  /\ Fault
  /\ call' = [c \in Calls |-> Idle]
  /\ cut' = cut \cup CutOff(Calls)
  /\ UNCHANGED <<places, link, access>>
-----------------------------------------------------------------------------
\* 30 minutes; the calls of an open checkout are over long before.
Age(i) ==
  /\ places[i].state = "reserved" /\ ~ places[i].old /\ ~ InUse(i)
  /\ places' = [places EXCEPT ![i] =
                  [state |-> "reserved", code |-> @.code, user |-> @.user, old |-> TRUE]]
  /\ UNCHANGED <<call, link, access, cut, faults>>

\* A link lives 24 hours, whatever became of its place.
Pay(i) ==
  /\ link[i] = "open"
  /\ link' = [link EXCEPT ![i] = "paid"]
  /\ UNCHANGED <<places, call, access, cut, faults>>

Expire(i) ==
  /\ link[i] = "open"
  /\ link' = [link EXCEPT ![i] = "expired"]
  /\ UNCHANGED <<places, call, access, cut, faults>>

\* processPaymentItem of the approved payment.  Retries end as the first try.
RedeemPaid(i) ==
  /\ link[i] = "paid"
  /\ IF Clashes(i)
     THEN link' = [link EXCEPT ![i] = "stuck"] /\ UNCHANGED places
     ELSE link' = [link EXCEPT ![i] = "settled"] /\ RedeemPlace(i)
  /\ UNCHANGED <<call, access, cut, faults>>

Step(c) ==
  \/ CreateOrder(c) \/ Grant(c) \/ GrantUnanswered(c) \/ Redeem(c) \/ RedeemUnanswered(c)
  \/ ProviderCheckout(c) \/ Attach(c) \/ Release(c)

Next ==
  \/ \E c \in Calls :
       \/ \E k \in Codes, u \in Users, mode \in {"one_time", "subscription"} : Reserve(c, k, u, mode)
       \/ Step(c) \/ Fail(c)
  \/ Crash
  \/ \E i \in Places : Age(i) \/ Pay(i) \/ Expire(i) \/ RedeemPaid(i)

Spec == Init /\ [][Next]_vars
-----------------------------------------------------------------------------
\* max_redemptions: however checkouts, releases and late payments interleave,
\* no more places than that are reserved or redeemed at any moment.
CapHolds == \A k \in Codes : Cardinality(Rows(k, Held)) <= Cap[k]

\* "What cannot be undone goes last" (server.ts): a redeemed place is backed by
\* the course granted for it or by a payment, so no failure burns a place.
RedeemedIsBacked ==
  \A i \in Places : places[i].state = "redeemed" =>
    IF places[i].code \in Free THEN places[i].user \in access[places[i].code]
    ELSE link[i] = "settled"

\* The course given away for a coupon is counted against it, unless the checkout
\* failed between the grant and the redemption.
GiftsAreCounted ==
  \A k \in Codes : \A u \in access[k] :
    \/ <<k, u>> \in cut
    \/ \E i \in Rows(k, Held) : places[i].user = u

\* No late release, of a failed checkout or of age, frees a redeemed place.
RedeemedForever ==
  [][\A i \in Places : places[i].state = "redeemed" => places'[i].state = "redeemed"]_vars
=============================================================================
