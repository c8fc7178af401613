--------------------------- MODULE Coupons_proofs ---------------------------
(***************************************************************************)
(* Proofs about Coupons, for any coupons, buyers, checkouts and failures,   *)
(* and about PaymentEvents, for any payments, calls, events and failures.   *)
(***************************************************************************)
EXTENDS Coupons, PaymentEvents, FiniteSetTheorems, TLAPS

\* What is true of the place of an open checkout: nobody else has it, it is
\* young, it has no link yet, and until the checkout gives up it is reserved.
CallFact(c) ==
  /\ PlaceOf(c) \in PlaceRows /\ ~ PlaceOf(c).old
  /\ link[call[c].place] = "none"
  /\ ~ At(c, "release") => PlaceOf(c).state = "reserved"
  /\ At(c, "grant") \/ At(c, "redeem") => PlaceOf(c).code \in Free
  /\ At(c, "provider") \/ At(c, "attach") => PlaceOf(c).code \notin Free
  /\ At(c, "redeem") => PlaceOf(c).user \in access[PlaceOf(c).code]
CallFacts == \A c \in Calls : call[c] # Idle => CallFact(c)

OwnPlaces ==
  \A c, d \in Calls :
    call[c] # Idle /\ call[d] # Idle /\ call[c].place = call[d].place => c = d

\* Only a coupon that leaves something to pay has links.
LinkFacts ==
  \A i \in Places : link[i] \in {"open", "paid"} =>
    places[i] \in PlaceRows /\ places[i].code \notin Free

\* A grant was cut off, or is redeemed, or a checkout is about to redeem it.
AboutTo(k, u) ==
  \E c \in Calls : At(c, "redeem") /\ PlaceOf(c).code = k /\ PlaceOf(c).user = u
GiftsBacked ==
  \A k \in Codes : \A u \in access[k] :
    <<k, u>> \in cut \/ Redeemed(k, u) \/ AboutTo(k, u)

Inv ==
  TypeOK /\ CapHolds /\ CallFacts /\ OwnPlaces /\ LinkFacts /\ RedeemedIsBacked /\ GiftsBacked
-----------------------------------------------------------------------------
CallRows == [pc : {"order", "grant", "redeem", "provider", "attach", "release"},
             place : Places, mode : {"one_time", "subscription"}]

\* A row that has a state is a full row.
LEMMA Rowed ==
  ASSUME TypeOK, NEW i \in Places, places[i].state # "none"
  PROVE  places[i] \in PlaceRows
BY DEF TypeOK, Empty

\* A call that has a step is a full call.
LEMMA Called ==
  ASSUME TypeOK, NEW c \in Calls, call[c] # Idle
  PROVE  call[c] \in CallRows
BY DEF TypeOK, CallRows

\* A move keeps a row a row.
LEMMA MovedRow ==
  ASSUME NEW row \in PlaceRows, NEW s \in {"reserved", "redeemed", "released"}
  PROVE  /\ InState(row, s) \in PlaceRows
         /\ InState(row, s).state = s /\ InState(row, s).code = row.code
         /\ InState(row, s).user = row.user /\ InState(row, s).old = row.old
BY DEF PlaceRows, InState

\* Whoever takes a step of a checkout has a place.
LEMMA Stepping ==
  ASSUME TypeOK, NEW c \in Calls, Step(c) \/ Fail(c)
  PROVE  call[c] \in CallRows /\ call[c] # Idle
<1>1. call[c] # Idle
  BY DEF Step, Fail, CreateOrder, Grant, GrantUnanswered, Redeem, RedeemUnanswered,
    ProviderCheckout, Attach, Release, At, Idle
<1> QED  BY <1>1, Called

-----------------------------------------------------------------------------
\* What a step can do to the row of one place.
Took(i) == places[i].state \in {"none", "released"} /\ places'[i].state = "reserved"
Kept(i) == places'[i] = places[i]
Ended(i) ==
  /\ places[i].state = "reserved"
  /\ places'[i].state \in {"reserved", "redeemed", "released"}
  /\ places'[i].code = places[i].code /\ places'[i].user = places[i].user

\* Every row is taken, kept or moved on from reserved, and stays a row.
LEMMA PlaceMoved ==
  ASSUME TypeOK, [Next]_vars
  PROVE  /\ places' \in [Places -> PlaceRows \cup {Empty}]
         /\ \A i \in Places : Took(i) \/ Kept(i) \/ Ended(i)
<1> DEFINE Good == /\ places' \in [Places -> PlaceRows \cup {Empty}]
                   /\ \A i \in Places : Took(i) \/ Kept(i) \/ Ended(i)
<1>0. places \in [Places -> PlaceRows \cup {Empty}]  BY DEF TypeOK
<1>1. ASSUME NEW c \in Calls, NEW k \in Codes, NEW u \in Users,
             NEW mode \in {"one_time", "subscription"}, Reserve(c, k, u, mode)
      PROVE  Good
  <2>1. PICK p \in Places :
        /\ Forgotten(p)
        /\ places' =
             [j \in Places |->
                IF j = p THEN [state |-> "reserved", code |-> k, user |-> u, old |-> FALSE]
                ELSE IF places[j].state = "reserved" /\ places[j].old
                THEN InState(places[j], "released") ELSE places[j]]
    BY <1>1 DEF Reserve
  <2>2. ASSUME NEW j \in Places
        PROVE  places'[j] \in PlaceRows \cup {Empty} /\ (Took(j) \/ Kept(j) \/ Ended(j))
    <3>1. CASE j = p
      BY <2>1, <3>1 DEF PlaceRows, Took, Forgotten
    <3>2. CASE j # p /\ places[j].state = "reserved" /\ places[j].old
      <4>1. places[j] \in PlaceRows  BY <3>2, Rowed
      <4>2. places'[j] = InState(places[j], "released")  BY <2>1, <3>2
      <4> QED  BY <4>1, <4>2, <3>2, MovedRow DEF Ended
    <3>3. CASE j # p /\ ~ (places[j].state = "reserved" /\ places[j].old)
      BY <1>0, <2>1, <3>3 DEF Kept
    <3> QED  BY <3>1, <3>2, <3>3
  <2> QED  BY <2>1, <2>2
<1>2. ASSUME NEW j \in Places, NEW s \in {"redeemed", "released"},
             places[j].state = "reserved", MovePlace(j, s)
      PROVE  Good
  <2>1. places[j] \in PlaceRows  BY <1>2, Rowed
  <2>2. InState(places[j], s) \in PlaceRows  BY <2>1, MovedRow
  <2>3. places' = [places EXCEPT ![j] = InState(places[j], s)]  BY <1>2 DEF MovePlace
  <2>4. places' \in [Places -> PlaceRows \cup {Empty}]  BY <1>0, <2>2, <2>3
  <2>5. Ended(j)  BY <1>0, <1>2, <2>1, <2>3, MovedRow DEF Ended
  <2>6. \A i \in Places : i # j => Kept(i)  BY <1>0, <2>3 DEF Kept
  <2> QED  BY <2>4, <2>5, <2>6
<1>3. ASSUME UNCHANGED places
      PROVE  Good
  BY <1>0, <1>3 DEF Kept
<1>4. ASSUME NEW c \in Calls, Step(c) \/ Fail(c)
      PROVE  Good
  <2>1. call[c].place \in Places  BY <1>4, Stepping DEF CallRows
  <2>2. CASE UNCHANGED places  BY <1>3, <2>2
  <2>3. CASE ~ UNCHANGED places
    <3>1. \E s \in {"redeemed", "released"} :
             places[call[c].place].state = "reserved" /\ MovePlace(call[c].place, s)
      BY <1>4, <2>3 DEF Step, Fail, CreateOrder, Grant, GrantUnanswered, Redeem, RedeemUnanswered,
        ProviderCheckout, Attach, Release, RedeemPlace, PlaceOf
    <3> QED  BY <1>2, <2>1, <3>1
  <2> QED  BY <2>2, <2>3
<1>5. ASSUME NEW j \in Places, Age(j)
      PROVE  Good
  <2>1. places[j] \in PlaceRows  BY <1>5, Rowed DEF Age
  <2>2. places' \in [Places -> PlaceRows \cup {Empty}]
    BY <1>0, <1>5, <2>1 DEF Age, PlaceRows
  <2>3. Ended(j)  BY <1>0, <1>5, <2>1 DEF Age, Ended
  <2>4. \A i \in Places : i # j => Kept(i)  BY <1>0, <1>5 DEF Age, Kept
  <2> QED  BY <2>2, <2>3, <2>4
<1>6. ASSUME NEW j \in Places, RedeemPaid(j)
      PROVE  Good
  BY <1>6, <1>2, <1>3 DEF RedeemPaid, RedeemPlace
<1> QED
  BY <1>1, <1>3, <1>4, <1>5, <1>6 DEF Next, vars, Crash, Pay, Expire

-----------------------------------------------------------------------------
\* The reservation of a step, with the place it took.
LEMMA Reserving ==
  ASSUME NEW c \in Calls, NEW k \in Codes, NEW u \in Users, NEW mode, Reserve(c, k, u, mode)
  PROVE  \E i \in Places :
           /\ call[c] = Idle
           /\ Forgotten(i)
           /\ places' =
                [j \in Places |->
                   IF j = i THEN [state |-> "reserved", code |-> k, user |-> u, old |-> FALSE]
                   ELSE IF places[j].state = "reserved" /\ places[j].old
                   THEN InState(places[j], "released") ELSE places[j]]
           /\ link' = [link EXCEPT ![i] = "none"]
           /\ call' = [call EXCEPT ![c] = [pc |-> "order", place |-> i, mode |-> mode]]
BY DEF Reserve

\* Every step keeps the types.
LEMMA TypeStep ==
  ASSUME TypeOK, CallFacts, [Next]_vars
  PROVE  TypeOK'
<1> USE CouponAssumption
<1>1. places' \in [Places -> PlaceRows \cup {Empty}]  BY PlaceMoved
<1>2. ASSUME NEW c \in Calls, NEW k \in Codes, NEW u \in Users,
             NEW mode \in {"one_time", "subscription"}, Reserve(c, k, u, mode)
      PROVE  TypeOK'
  <2>1. PICK i \in Places :
           /\ link' = [link EXCEPT ![i] = "none"]
           /\ call' = [call EXCEPT ![c] = [pc |-> "order", place |-> i, mode |-> mode]]
    BY <1>2, Reserving
  <2>2. link' \in [Places -> Links]  BY <2>1 DEF TypeOK, Links
  <2>3. call' \in [Calls -> CallRows \cup {Idle}]  BY <2>1 DEF TypeOK, CallRows
  <2> QED  BY <1>1, <1>2, <2>2, <2>3 DEF TypeOK, Reserve, CallRows
<1>3. ASSUME NEW c \in Calls, Step(c) \/ Fail(c)
      PROVE  TypeOK'
  <2>1. call[c] \in CallRows /\ call[c] # Idle  BY <1>3, Stepping
  <2>2. \/ Done(c)
        \/ \E pc \in {"grant", "redeem", "provider", "attach", "release"} : GoTo(c, pc)
    BY <1>3 DEF Step, Fail, CreateOrder, Grant, GrantUnanswered, Redeem, RedeemUnanswered,
      ProviderCheckout, Attach, Release
  <2>3. call' \in [Calls -> CallRows \cup {Idle}]
    BY <2>1, <2>2 DEF TypeOK, CallRows, Done, GoTo
  <2>4. link' \in [Places -> Links]
    BY <1>3, <2>1 DEF TypeOK, CallRows, Links, Step, Fail, CreateOrder, Grant, GrantUnanswered,
      Redeem, RedeemUnanswered, ProviderCheckout, Attach, Release
  <2>5. PlaceOf(c).code \in Codes /\ PlaceOf(c).user \in Users
    BY <2>1 DEF CallFacts, CallFact, PlaceRows
  <2>6. access' \in [Codes -> SUBSET Users]
    BY <1>3, <2>5 DEF TypeOK, Step, Fail, CreateOrder, Grant, GrantUnanswered, Granted,
      Redeem, RedeemUnanswered, ProviderCheckout, Attach, Release
  <2>7. CutOff({c}) \subseteq Codes \X Users  BY <2>5 DEF CutOff
  <2>8. cut' \subseteq Codes \X Users
    <3>1. \/ cut' = cut \/ cut' = cut \cup CutOff({c})
          \/ cut' = cut \cup {<<PlaceOf(c).code, PlaceOf(c).user>>}
      BY <1>3 DEF Step, Fail, CreateOrder, Grant, GrantUnanswered,
        Redeem, RedeemUnanswered, ProviderCheckout, Attach, Release
    <3>2. <<PlaceOf(c).code, PlaceOf(c).user>> \in Codes \X Users  BY <2>5
    <3> QED  BY <2>7, <3>1, <3>2 DEF TypeOK
  <2>9. faults' \in 0..MaxFaults
    BY <1>3 DEF TypeOK, Fault, Step, Fail, CreateOrder, Grant, GrantUnanswered,
      Redeem, RedeemUnanswered, ProviderCheckout, Attach, Release
  <2> QED  BY <1>1, <2>3, <2>4, <2>6, <2>8, <2>9 DEF TypeOK, CallRows
<1>4. ASSUME Crash
      PROVE  TypeOK'
  <2>1. \A c \in Calls : At(c, "redeem") => call[c] # Idle  BY DEF At, Idle
  <2>2. CutOff(Calls) \subseteq Codes \X Users  BY <2>1 DEF CutOff, CallFacts, CallFact, PlaceRows
  <2> QED  BY <1>4, <2>2 DEF TypeOK, Crash, Fault
<1>5. ASSUME NEW i \in Places, Age(i) \/ Pay(i) \/ Expire(i) \/ RedeemPaid(i)
      PROVE  TypeOK'
  <2>1. link' \in [Places -> Links]
    BY <1>5 DEF TypeOK, Links, Age, Pay, Expire, RedeemPaid
  <2> QED  BY <1>1, <1>5, <2>1 DEF TypeOK, Age, Pay, Expire, RedeemPaid
<1>6. CASE UNCHANGED vars  BY <1>6 DEF TypeOK, vars
<1> QED  BY <1>2, <1>3, <1>4, <1>5, <1>6 DEF Next

-----------------------------------------------------------------------------
Reserves ==
  \E c \in Calls, k \in Codes, u \in Users, mode \in {"one_time", "subscription"} :
    Reserve(c, k, u, mode)

\* Only a reservation takes a place.
LEMMA NotTaken ==
  ASSUME TypeOK, [Next]_vars, ~ Reserves, NEW i \in Places
  PROVE  ~ Took(i)
<1>1. ASSUME NEW c \in Calls, Step(c) \/ Fail(c)
      PROVE  ~ Took(i)
  <2>1. call[c].place \in Places  BY <1>1, Stepping DEF CallRows
  <2>2. places \in [Places -> PlaceRows \cup {Empty}]  BY DEF TypeOK
  <2>3. \/ UNCHANGED places
        \/ places[call[c].place].state = "reserved"
           /\ \E s : MovePlace(call[c].place, s)
    BY <1>1 DEF Step, Fail, CreateOrder, Grant, GrantUnanswered, Redeem, RedeemUnanswered,
      ProviderCheckout, Attach, Release, RedeemPlace, PlaceOf
  <2> QED  BY <2>1, <2>2, <2>3 DEF Took, MovePlace
<1>2. ASSUME NEW j \in Places, Age(j) \/ Pay(j) \/ Expire(j) \/ RedeemPaid(j)
      PROVE  ~ Took(i)
  <2>1. places \in [Places -> PlaceRows \cup {Empty}]  BY DEF TypeOK
  <2> QED  BY <1>2, <2>1 DEF Age, Pay, Expire, RedeemPaid, RedeemPlace, MovePlace, Took
<1>3. ASSUME Crash \/ UNCHANGED vars
      PROVE  ~ Took(i)
  BY <1>3 DEF Crash, vars, Took
<1> QED  BY <1>1, <1>2, <1>3 DEF Next, Reserves

\* The rows of a coupon can be counted.
LEMMA RowsFinite ==
  ASSUME NEW k, NEW states
  PROVE  IsFiniteSet(Rows(k, states)) /\ Cardinality(Rows(k, states)) \in Nat
BY CouponAssumption, FS_Subset, FS_CardinalityType DEF Rows

\* Where no place of a coupon is taken, the cap goes on holding.
LEMMA CapKept ==
  ASSUME CapHolds, \A i \in Places : Kept(i) \/ Ended(i)
  PROVE  CapHolds'
<1> SUFFICES ASSUME NEW k \in Codes PROVE Cardinality(Rows(k, Held)') <= Cap[k]
  BY DEF CapHolds
<1>1. Rows(k, Held)' \subseteq Rows(k, Held)  BY DEF Rows, Held, Kept, Ended
<1>2. /\ Cardinality(Rows(k, Held)') \in Nat
      /\ Cardinality(Rows(k, Held)') <= Cardinality(Rows(k, Held))
  BY <1>1, RowsFinite, FS_Subset, FS_CardinalityType
<1>3. Cap[k] \in Nat  BY CouponAssumption
<1> QED  BY <1>2, <1>3, RowsFinite DEF CapHolds

\* max_redemptions holds across every step.
LEMMA CapStep ==
  ASSUME TypeOK, CapHolds, [Next]_vars
  PROVE  CapHolds'
<1>1. ASSUME NEW c \in Calls, NEW k \in Codes, NEW u \in Users,
             NEW mode \in {"one_time", "subscription"}, Reserve(c, k, u, mode)
      PROVE  CapHolds'
  <2>1. PICK i \in Places :
           /\ Forgotten(i)
           /\ places' =
                [j \in Places |->
                   IF j = i THEN [state |-> "reserved", code |-> k, user |-> u, old |-> FALSE]
                   ELSE IF places[j].state = "reserved" /\ places[j].old
                   THEN InState(places[j], "released") ELSE places[j]]
    BY <1>1, Reserving
  <2> SUFFICES ASSUME NEW m \in Codes PROVE Cardinality(Rows(m, Held)') <= Cap[m]
    BY DEF CapHolds
  <2>2. Cap[m] \in Nat  BY CouponAssumption
  <2>3. CASE m = k
    <3>1. Rows(m, Held)' \subseteq Taken(k) \cup {i}
      BY <2>1, <2>3 DEF Rows, Held, Taken, InState
    <3>2. IsFiniteSet(Taken(k)) /\ Cardinality(Taken(k)) \in Nat
      BY RowsFinite, FS_Subset, FS_CardinalityType DEF Taken
    <3>3. /\ IsFiniteSet(Taken(k) \cup {i})
          /\ Cardinality(Taken(k) \cup {i}) <= Cardinality(Taken(k)) + 1
      BY <3>2, FS_AddElement
    <3>4. Cardinality(Taken(k) \cup {i}) \in Nat /\ Cardinality(Rows(m, Held)') \in Nat
      BY <3>1, <3>3, FS_Subset, FS_CardinalityType
    <3>5. Cardinality(Rows(m, Held)') <= Cardinality(Taken(k) \cup {i})
      BY <3>1, <3>3, FS_Subset
    <3>6. Cardinality(Taken(k)) < Cap[k]  BY <1>1 DEF Reserve
    <3> QED  BY <2>2, <2>3, <3>2, <3>3, <3>4, <3>5, <3>6
  <2>4. CASE m # k
    <3>1. Rows(m, Held)' \subseteq Rows(m, Held)
      BY <2>1, <2>4 DEF Rows, Held, InState
    <3>2. /\ Cardinality(Rows(m, Held)') \in Nat
          /\ Cardinality(Rows(m, Held)') <= Cardinality(Rows(m, Held))
      BY <3>1, RowsFinite, FS_Subset, FS_CardinalityType
    <3> QED  BY <2>2, <3>2, RowsFinite DEF CapHolds
  <2> QED  BY <2>3, <2>4
<1>2. CASE ~ Reserves  BY <1>2, NotTaken, PlaceMoved, CapKept
<1> QED  BY <1>1, <1>2 DEF Reserves

-----------------------------------------------------------------------------
\* A row that is kept or that ends goes on being a row of its coupon and buyer.
LEMMA StaysRow ==
  ASSUME TypeOK, [Next]_vars, NEW i \in Places, places[i] \in PlaceRows, ~ Took(i)
  PROVE  /\ places'[i] \in PlaceRows
         /\ places'[i].code = places[i].code /\ places'[i].user = places[i].user
BY PlaceMoved DEF Kept, Ended, Empty, PlaceRows

\* A redeemed row never changes again.
LEMMA RedeemedKept ==
  ASSUME TypeOK, [Next]_vars, NEW i \in Places, places[i].state = "redeemed"
  PROVE  places'[i] = places[i]
BY PlaceMoved DEF Took, Kept, Ended

\* A step of one checkout leaves the places of the others as they were.
LEMMA OthersKeep ==
  ASSUME TypeOK, CallFacts, OwnPlaces, NEW c \in Calls, Step(c) \/ Fail(c),
         NEW d \in Calls, d # c, call[d] # Idle
  PROVE  /\ call'[d] = call[d] /\ call[d].place # call[c].place
         /\ places'[call[d].place] = places[call[d].place]
         /\ link'[call[d].place] = link[call[d].place]
<1>1. call[c] \in CallRows /\ call[c] # Idle  BY Stepping
<1>2. call[d] \in CallRows  BY Called
<1>3. call[d].place # call[c].place  BY <1>1 DEF OwnPlaces
<1>4. places' = places \/ \E s : MovePlace(call[c].place, s)
  BY DEF Step, Fail, CreateOrder, Grant, GrantUnanswered, Redeem, RedeemUnanswered,
    ProviderCheckout, Attach, Release, RedeemPlace
<1>5. places'[call[d].place] = places[call[d].place]
  BY <1>1, <1>2, <1>3, <1>4 DEF MovePlace, TypeOK, CallRows
<1>6. link'[call[d].place] = link[call[d].place]
  BY <1>1, <1>2, <1>3 DEF TypeOK, CallRows, Step, Fail, CreateOrder, Grant, GrantUnanswered,
    Redeem, RedeemUnanswered, ProviderCheckout, Attach, Release
<1>7. call'[d] = call[d]
  BY DEF TypeOK, GoTo, Done, Step, Fail, CreateOrder, Grant, GrantUnanswered,
    Redeem, RedeemUnanswered, ProviderCheckout, Attach, Release
<1> QED  BY <1>3, <1>5, <1>6, <1>7

\* What was granted stays granted.
LEMMA AccessGrows ==
  ASSUME TypeOK, [Next]_vars, NEW k \in Codes
  PROVE  access[k] \subseteq access'[k]
<1>1. \/ access' = access
      \/ \E c \in Calls : Granted(c)
  BY DEF Next, vars, Reserve, Step, Fail, CreateOrder, Grant, GrantUnanswered,
    Redeem, RedeemUnanswered, ProviderCheckout, Attach, Release, Crash, Age, Pay, Expire, RedeemPaid
<1> QED  BY <1>1 DEF Granted, TypeOK

\* What a checkout relies on survives the steps that do not touch its place.
LEMMA Untouched ==
  ASSUME TypeOK, [Next]_vars, NEW d \in Calls, call[d] # Idle, CallFact(d),
         call'[d] = call[d],
         places'[call[d].place] = places[call[d].place],
         link'[call[d].place] = link[call[d].place]
  PROVE  CallFact(d)'
<1>1. PlaceOf(d)' = PlaceOf(d)  BY DEF PlaceOf
<1>2. PlaceOf(d).code \in Codes  BY DEF CallFact, PlaceRows
<1>3. access[PlaceOf(d).code] \subseteq access'[PlaceOf(d).code]  BY <1>2, AccessGrows
<1> QED  BY <1>1, <1>3 DEF CallFact, At

-----------------------------------------------------------------------------
\* The checkout that takes a step goes on having what it relies on.
LEMMA OwnStep ==
  ASSUME TypeOK, CallFacts, [Next]_vars, NEW c \in Calls, Step(c) \/ Fail(c), call'[c] # Idle
  PROVE  call'[c].place = call[c].place /\ CallFact(c)'
<1>1. call[c] \in CallRows /\ call[c] # Idle /\ CallFact(c)  BY Stepping DEF CallFacts
<1>2. call \in [Calls -> CallRows \cup {Idle}]  BY DEF TypeOK, CallRows
<1>3. ~ Done(c)  BY <1>2 DEF Done
<1>4. ASSUME NEW pc, GoTo(c, pc)
      PROVE  call'[c].place = call[c].place /\ call'[c].pc = pc
  BY <1>2, <1>4 DEF GoTo
<1>5. CASE CreateOrder(c)
  BY <1>1, <1>4, <1>5 DEF CreateOrder, CallFact, At, PlaceOf
<1>6. CASE Grant(c)
  <2>1. PlaceOf(c).code \in Codes  BY <1>1 DEF CallFact, PlaceRows
  <2>2. PlaceOf(c).user \in access'[PlaceOf(c).code]
    BY <1>6, <2>1 DEF Grant, Granted, TypeOK
  <2> QED  BY <1>1, <1>4, <1>6, <2>2 DEF Grant, CallFact, At, PlaceOf
<1>7. CASE ProviderCheckout(c)
  BY <1>1, <1>4, <1>7 DEF ProviderCheckout, CallFact, At, PlaceOf
<1>8. CASE UNCHANGED <<places, link>> /\ GoTo(c, "release")
  BY <1>1, <1>4, <1>8 DEF CallFact, At, PlaceOf
<1>9. CASE RedeemUnanswered(c)
  <2>1. places[call[c].place].state = "reserved"  BY <1>1, <1>9 DEF CallFact, At, PlaceOf, RedeemUnanswered
  <2>2. places' = [places EXCEPT ![call[c].place] = InState(places[call[c].place], "redeemed")]
    BY <1>9, <2>1 DEF RedeemUnanswered, RedeemPlace, MovePlace
  <2>3. places'[call[c].place] = InState(places[call[c].place], "redeemed")
    BY <1>1, <2>2 DEF TypeOK, CallRows
  <2>4. PlaceOf(c)' = InState(PlaceOf(c), "redeemed") /\ At(c, "release")'
    BY <1>4, <1>9, <2>3 DEF RedeemUnanswered, PlaceOf, At
  <2>5. PlaceOf(c)' \in PlaceRows /\ ~ PlaceOf(c).old'
    BY <1>1, <2>4, MovedRow DEF CallFact
  <2> QED  BY <1>1, <1>4, <1>9, <2>4, <2>5 DEF RedeemUnanswered, CallFact, At
<1> QED
  BY <1>1, <1>3, <1>5, <1>6, <1>7, <1>8, <1>9 DEF Step, Fail, GrantUnanswered, Redeem, Attach, Release

\* What is true of open checkouts and their places survives every step.
LEMMA CheckoutStep ==
  ASSUME TypeOK, CallFacts, OwnPlaces, [Next]_vars
  PROVE  CallFacts' /\ OwnPlaces'
<1>1. ASSUME NEW c \in Calls, NEW k \in Codes, NEW u \in Users,
             NEW mode \in {"one_time", "subscription"}, Reserve(c, k, u, mode)
      PROVE  CallFacts' /\ OwnPlaces'
  <2>1. PICK i \in Places :
           /\ call[c] = Idle
           /\ Forgotten(i)
           /\ places' =
                [j \in Places |->
                   IF j = i THEN [state |-> "reserved", code |-> k, user |-> u, old |-> FALSE]
                   ELSE IF places[j].state = "reserved" /\ places[j].old
                   THEN InState(places[j], "released") ELSE places[j]]
           /\ link' = [link EXCEPT ![i] = "none"]
           /\ call' = [call EXCEPT ![c] = [pc |-> "order", place |-> i, mode |-> mode]]
    BY <1>1, Reserving
  <2>2. ASSUME NEW d \in Calls, d # c, call'[d] # Idle
        PROVE  call[d] # Idle /\ call'[d] = call[d] /\ call[d].place # i
    BY <2>1, <2>2 DEF TypeOK, Forgotten, InUse
  <2>3. call'[c].pc = "order" /\ call'[c].place = i  BY <2>1 DEF TypeOK
  <2>4. ASSUME NEW d \in Calls, d # c, call'[d] # Idle
        PROVE  CallFact(d)'
    <3>1. call[d] # Idle /\ call'[d] = call[d] /\ call[d].place # i  BY <2>2, <2>4
    <3>2. CallFact(d) /\ call[d].place \in Places  BY <3>1, Called DEF CallFacts, CallRows
    <3>3. places'[call[d].place] = places[call[d].place]
      BY <2>1, <3>1, <3>2 DEF CallFact, PlaceOf
    <3>4. link'[call[d].place] = link[call[d].place]  BY <2>1, <3>1, <3>2 DEF TypeOK
    <3> QED  BY <3>1, <3>2, <3>3, <3>4, Untouched
  <2>5. CallFact(c)'
    <3>1. PlaceOf(c)' = [state |-> "reserved", code |-> k, user |-> u, old |-> FALSE]
      BY <2>1, <2>3 DEF PlaceOf
    <3>2. link'[i] = "none"  BY <2>1 DEF TypeOK
    <3> QED  BY <2>3, <3>1, <3>2 DEF CallFact, At, PlaceRows
  <2>6. CallFacts'  BY <2>4, <2>5 DEF CallFacts
  <2>7. OwnPlaces'  BY <2>2, <2>3 DEF OwnPlaces
  <2> QED  BY <2>6, <2>7
<1>2. ASSUME NEW c \in Calls, Step(c) \/ Fail(c)
      PROVE  CallFacts' /\ OwnPlaces'
  <2>1. call[c] # Idle  BY <1>2, Stepping
  <2>2. ASSUME NEW d \in Calls, d # c, call'[d] # Idle
        PROVE  call[d] # Idle /\ call'[d] = call[d]
    BY <1>2, <2>2 DEF TypeOK, GoTo, Done, Step, Fail, CreateOrder, Grant, GrantUnanswered,
      Redeem, RedeemUnanswered, ProviderCheckout, Attach, Release
  <2>3. ASSUME NEW d \in Calls, d # c, call'[d] # Idle
        PROVE  CallFact(d)'
    <3>1. call[d] # Idle /\ CallFact(d)  BY <2>2, <2>3 DEF CallFacts
    <3> QED  BY <1>2, <2>3, <3>1, OthersKeep, Untouched
  <2>4. CallFacts'  BY <1>2, <2>3, OwnStep DEF CallFacts
  <2>5. ASSUME NEW d \in Calls, d # c, call'[d] # Idle, call'[c] # Idle
        PROVE  call'[d].place # call'[c].place
    BY <1>2, <2>2, <2>5, OwnStep, OthersKeep
  <2>6. OwnPlaces'  BY <2>2, <2>5 DEF OwnPlaces
  <2> QED  BY <2>4, <2>6
<1>3. ASSUME Crash
      PROVE  CallFacts' /\ OwnPlaces'
  BY <1>3 DEF Crash, CallFacts, OwnPlaces
<1>4. ASSUME NEW i \in Places, Age(i) \/ Pay(i) \/ Expire(i) \/ RedeemPaid(i)
      PROVE  CallFacts' /\ OwnPlaces'
  <2>1. call' = call  BY <1>4 DEF Age, Pay, Expire, RedeemPaid
  <2>2. ~ InUse(i)
    BY <1>4 DEF Age, Pay, Expire, RedeemPaid, InUse, CallFacts, CallFact
  <2>3. ASSUME NEW d \in Calls, call[d] # Idle
        PROVE  CallFact(d)'
    <3>1. call[d].place \in Places /\ call[d].place # i
      BY <2>2, <2>3, Called DEF InUse, CallRows
    <3>2. /\ places'[call[d].place] = places[call[d].place]
          /\ link'[call[d].place] = link[call[d].place]
      BY <1>4, <3>1 DEF Age, Pay, Expire, RedeemPaid, RedeemPlace, MovePlace, TypeOK
    <3> QED  BY <2>1, <2>3, <3>2, Untouched DEF CallFacts
  <2> QED  BY <2>1, <2>3 DEF CallFacts, OwnPlaces
<1>5. CASE UNCHANGED vars
  BY <1>5 DEF vars, CallFacts, CallFact, OwnPlaces, At, PlaceOf
<1> QED  BY <1>1, <1>2, <1>3, <1>4, <1>5 DEF Next

-----------------------------------------------------------------------------
\* How a link changes.
LEMMA LinkMoved ==
  ASSUME TypeOK, CallFacts, [Next]_vars, NEW i \in Places
  PROVE  \/ link'[i] = link[i]
         \/ link'[i] = "none" /\ Forgotten(i)
         \/ link'[i] = "open" /\ places'[i] = places[i] /\ places[i] \in PlaceRows
            /\ places[i].code \notin Free /\ places[i].state = "reserved"
         \/ link'[i] \in {"paid", "stuck", "settled", "expired"} /\ link[i] \in {"open", "paid"}
<1> DEFINE Moves ==
  \/ link'[i] = link[i]
  \/ link'[i] = "none" /\ Forgotten(i)
  \/ link'[i] = "open" /\ places'[i] = places[i] /\ places[i] \in PlaceRows
     /\ places[i].code \notin Free /\ places[i].state = "reserved"
  \/ link'[i] \in {"paid", "stuck", "settled", "expired"} /\ link[i] \in {"open", "paid"}
<1>1. ASSUME NEW c \in Calls, NEW k \in Codes, NEW u \in Users,
             NEW mode \in {"one_time", "subscription"}, Reserve(c, k, u, mode)
      PROVE  Moves
  <2>1. PICK j \in Places : Forgotten(j) /\ link' = [link EXCEPT ![j] = "none"]
    BY <1>1, Reserving
  <2> QED  BY <2>1 DEF TypeOK
<1>2. ASSUME NEW c \in Calls, Attach(c)
      PROVE  Moves
  <2>1. call[c] \in CallRows /\ call[c] # Idle  BY <1>2, Stepping DEF Step
  <2>2. CallFact(c)  BY <2>1 DEF CallFacts
  <2> QED  BY <1>2, <2>1, <2>2 DEF Attach, CallFact, At, PlaceOf, TypeOK, CallRows
<1>3. ASSUME NEW c \in Calls, Step(c) \/ Fail(c), ~ Attach(c)
      PROVE  Moves
  BY <1>3 DEF Step, Fail, CreateOrder, Grant, GrantUnanswered, Redeem, RedeemUnanswered,
    ProviderCheckout, Release
<1>4. ASSUME NEW j \in Places, Age(j) \/ Pay(j) \/ Expire(j) \/ RedeemPaid(j)
      PROVE  Moves
  BY <1>4 DEF Age, Pay, Expire, RedeemPaid, TypeOK
<1> QED  BY <1>1, <1>2, <1>3, <1>4 DEF Next, Crash, vars

\* A step takes a place only of rows nobody needs.
LEMMA TookForgotten ==
  ASSUME TypeOK, [Next]_vars, NEW i \in Places, Took(i)
  PROVE  link'[i] = "none"
<1>1. PICK c \in Calls, k \in Codes, u \in Users, mode \in {"one_time", "subscription"} :
        Reserve(c, k, u, mode)
  BY NotTaken DEF Reserves
<1>2. PICK p \in Places :
        /\ places' =
             [j \in Places |->
                IF j = p THEN [state |-> "reserved", code |-> k, user |-> u, old |-> FALSE]
                ELSE IF places[j].state = "reserved" /\ places[j].old
                THEN InState(places[j], "released") ELSE places[j]]
        /\ link' = [link EXCEPT ![p] = "none"]
  BY <1>1, Reserving
<1>3. i = p  BY <1>2 DEF Took, InState
<1> QED  BY <1>2, <1>3 DEF TypeOK

\* Only coupons that leave something to pay get links.
LEMMA LinkStep ==
  ASSUME TypeOK, CallFacts, LinkFacts, [Next]_vars
  PROVE  LinkFacts'
<1> SUFFICES ASSUME NEW i \in Places, link'[i] \in {"open", "paid"}
             PROVE  places'[i] \in PlaceRows /\ places'[i].code \notin Free
  BY DEF LinkFacts
<1>1. CASE link[i] \in {"open", "paid"}
  <2>1. places[i] \in PlaceRows /\ places[i].code \notin Free  BY <1>1 DEF LinkFacts
  <2>2. ~ Took(i)  BY TookForgotten
  <2> QED  BY <2>1, <2>2, StaysRow
<1>2. CASE link[i] \notin {"open", "paid"}
  BY <1>2, LinkMoved
<1> QED  BY <1>1, <1>2

\* No step burns a place: what it redeems is backed, and stays so.
LEMMA BackedStep ==
  ASSUME TypeOK, CallFacts, LinkFacts, RedeemedIsBacked, [Next]_vars
  PROVE  RedeemedIsBacked'
<1> SUFFICES ASSUME NEW i \in Places, places'[i].state = "redeemed"
             PROVE  IF places'[i].code \in Free THEN places'[i].user \in access'[places'[i].code]
                    ELSE link'[i] = "settled"
  BY DEF RedeemedIsBacked
<1>1. CASE places[i].state = "redeemed"
  <2>1. places'[i] = places[i]  BY <1>1, RedeemedKept
  <2>2. places[i] \in PlaceRows  BY <1>1, Rowed
  <2>3. places[i].code \in Codes  BY <2>2 DEF PlaceRows
  <2>4. access[places[i].code] \subseteq access'[places[i].code]  BY <2>3, AccessGrows
  <2>5. link[i] = "settled" => link'[i] = "settled"
    BY <1>1, LinkMoved DEF Forgotten
  <2> QED  BY <1>1, <2>1, <2>4, <2>5 DEF RedeemedIsBacked
<1>2. CASE places[i].state # "redeemed"
  <2>1. places[i].state = "reserved" /\ ~ Kept(i)  BY <1>2, PlaceMoved DEF Took, Kept, Ended
  <2>2. places[i] \in PlaceRows  BY <2>1, Rowed
  <2>3. ~ Took(i)  BY <2>1 DEF Took
  <2>4. places'[i].code = places[i].code /\ places'[i].user = places[i].user
    BY <2>2, <2>3, StaysRow
  <2>5. ASSUME NEW c \in Calls, Step(c) \/ Fail(c)
        PROVE  i = call[c].place /\ At(c, "redeem")
    <3>1. call[c] \in CallRows /\ call[c] # Idle  BY <2>5, Stepping
    <3>2. CASE At(c, "redeem") /\ MovePlace(call[c].place, "redeemed")
      BY <2>1, <3>1, <3>2 DEF MovePlace, Kept, TypeOK, CallRows
    <3>3. CASE MovePlace(call[c].place, "released")
      BY <1>2, <3>1, <3>3 DEF MovePlace, InState, TypeOK, CallRows
    <3>4. CASE UNCHANGED places
      BY <2>1, <3>4 DEF Kept
    <3> QED
      BY <2>5, <3>2, <3>3, <3>4 DEF Step, Fail, CreateOrder, Grant, GrantUnanswered, Redeem,
        RedeemUnanswered, ProviderCheckout, Attach, Release, RedeemPlace
  <2>6. ASSUME NEW c \in Calls, Step(c) \/ Fail(c)
        PROVE  places[i].code \in Free /\ places[i].user \in access[places[i].code]
    <3>1. call[c] # Idle  BY <2>6, Stepping
    <3> QED  BY <2>5, <2>6, <3>1 DEF CallFacts, CallFact, PlaceOf
  <2>7. ASSUME NEW j \in Places, RedeemPaid(j)
        PROVE  places[i].code \notin Free /\ link'[i] = "settled"
    <3>1. i = j  BY <2>1, <2>7 DEF RedeemPaid, RedeemPlace, MovePlace, Kept, TypeOK
    <3>2. ~ Clashes(j)  BY <2>1, <2>7, <3>1 DEF RedeemPaid, Kept
    <3> QED  BY <2>7, <3>1, <3>2 DEF RedeemPaid, LinkFacts, TypeOK
  <2>8. ~ Reserves
    <3> SUFFICES ASSUME NEW c \in Calls, NEW k \in Codes, NEW u \in Users,
                        NEW mode \in {"one_time", "subscription"}, Reserve(c, k, u, mode)
                 PROVE  FALSE
      BY DEF Reserves
    <3> QED  BY <2>1, Reserving DEF InState, Kept
  <2>9. ASSUME NEW j \in Places, Age(j)
        PROVE  FALSE
    BY <1>2, <2>1, <2>9 DEF Age, TypeOK
  <2>10. access[places[i].code] \subseteq access'[places[i].code]
    BY <2>2, AccessGrows DEF PlaceRows
  <2>11. CASE \E c \in Calls : Step(c) \/ Fail(c)  BY <2>4, <2>6, <2>10, <2>11
  <2>12. CASE \E j \in Places : RedeemPaid(j)  BY <2>4, <2>7, <2>12
  <2> QED
    BY <2>1, <2>8, <2>9, <2>11, <2>12 DEF Next, Reserves, Crash, Pay, Expire, vars, Kept
<1> QED  BY <1>1, <1>2

-----------------------------------------------------------------------------
\* A grant that was vouched for by a checkout about to redeem it is redeemed or
\* cut off by whatever step takes that checkout further.
LEMMA AboutToStep ==
  ASSUME TypeOK, CallFacts, OwnPlaces, [Next]_vars, NEW k \in Codes, NEW u \in Users, AboutTo(k, u)
  PROVE  <<k, u>> \in cut' \/ Redeemed(k, u)' \/ AboutTo(k, u)'
<1>1. PICK d \in Calls : At(d, "redeem") /\ PlaceOf(d).code = k /\ PlaceOf(d).user = u
  BY DEF AboutTo
<1>2. call[d] # Idle /\ call[d] \in CallRows  BY <1>1, Called DEF At, Idle
<1>3. CallFact(d) /\ places[call[d].place].state = "reserved" /\ call[d].place \in Places
  BY <1>1, <1>2 DEF CallFacts, CallFact, CallRows, At, PlaceOf
<1>4. ASSUME call'[d] = call[d], places'[call[d].place] = places[call[d].place]
      PROVE  AboutTo(k, u)'
  BY <1>1, <1>4 DEF AboutTo, At, PlaceOf
<1>5. ASSUME NEW c \in Calls, NEW m \in Codes, NEW v \in Users,
             NEW mode \in {"one_time", "subscription"}, Reserve(c, m, v, mode)
      PROVE  AboutTo(k, u)'
  <2>1. PICK i \in Places :
           /\ call[c] = Idle
           /\ Forgotten(i)
           /\ places' =
                [j \in Places |->
                   IF j = i THEN [state |-> "reserved", code |-> m, user |-> v, old |-> FALSE]
                   ELSE IF places[j].state = "reserved" /\ places[j].old
                   THEN InState(places[j], "released") ELSE places[j]]
           /\ call' = [call EXCEPT ![c] = [pc |-> "order", place |-> i, mode |-> mode]]
    BY <1>5, Reserving
  <2>2. call[d].place # i /\ c # d  BY <1>2, <2>1 DEF Forgotten, InUse
  <2>3. call'[d] = call[d]  BY <2>1, <2>2 DEF TypeOK
  <2>4. places'[call[d].place] = places[call[d].place]
    BY <1>3, <2>1, <2>2 DEF CallFact, PlaceOf
  <2> QED  BY <1>4, <2>3, <2>4
<1>6. ASSUME NEW c \in Calls, Step(c) \/ Fail(c), c # d
      PROVE  AboutTo(k, u)'
  BY <1>2, <1>4, <1>6, OthersKeep
<1>7. ASSUME Redeem(d) \/ RedeemUnanswered(d)
      PROVE  Redeemed(k, u)'
  <2>1. CASE Clashes(call[d].place)
    <3>1. PICK i \in Places : places[i].state = "redeemed" /\ places[i].code = k /\ places[i].user = u
      BY <1>1, <2>1 DEF Clashes, Redeemed, Rows, PlaceOf
    <3>2. places'[i] = places[i]  BY <3>1, RedeemedKept
    <3> QED  BY <3>1, <3>2 DEF Redeemed, Rows
  <2>2. CASE ~ Clashes(call[d].place)
    <3>1. places' = [places EXCEPT ![call[d].place] = InState(places[call[d].place], "redeemed")]
      BY <1>3, <1>7, <2>2 DEF Redeem, RedeemUnanswered, RedeemPlace, MovePlace
    <3>2. places'[call[d].place] = InState(places[call[d].place], "redeemed")
      BY <1>3, <3>1 DEF TypeOK
    <3>3. /\ places'[call[d].place].state = "redeemed" /\ places'[call[d].place].code = k
          /\ places'[call[d].place].user = u
      BY <1>1, <3>2 DEF InState, PlaceOf
    <3> QED  BY <1>3, <3>3 DEF Redeemed, Rows
  <2> QED  BY <2>1, <2>2
<1>8. ASSUME Fail(d)
      PROVE  <<k, u>> \in cut'
  BY <1>1, <1>8 DEF Fail, CutOff
<1>9. ASSUME Step(d) \/ Fail(d)
      PROVE  Redeem(d) \/ RedeemUnanswered(d) \/ Fail(d)
  BY <1>1, <1>9 DEF Step, Fail, CreateOrder, Grant, GrantUnanswered, ProviderCheckout, Attach,
    Release, At
<1>10. ASSUME Crash
       PROVE  <<k, u>> \in cut'
  BY <1>1, <1>10 DEF Crash, CutOff
<1>11. ASSUME NEW i \in Places, Age(i) \/ Pay(i) \/ Expire(i) \/ RedeemPaid(i)
       PROVE  AboutTo(k, u)'
  <2>1. call[d].place # i
    BY <1>2, <1>3, <1>11 DEF Age, Pay, Expire, RedeemPaid, InUse, CallFact
  <2>2. call'[d] = call[d] /\ places'[call[d].place] = places[call[d].place]
    BY <1>3, <1>11, <2>1 DEF Age, Pay, Expire, RedeemPaid, RedeemPlace, MovePlace, TypeOK
  <2> QED  BY <1>4, <2>2
<1>12. CASE UNCHANGED vars  BY <1>4, <1>12 DEF vars
<1> QED
  BY <1>5, <1>6, <1>7, <1>8, <1>9, <1>10, <1>11, <1>12 DEF Next

\* Whatever a step grants, somebody vouches for.
LEMMA GiftsStep ==
  ASSUME TypeOK, CallFacts, OwnPlaces, GiftsBacked, [Next]_vars
  PROVE  GiftsBacked'
<1> SUFFICES ASSUME NEW k \in Codes, NEW u \in access'[k]
             PROVE  <<k, u>> \in cut' \/ Redeemed(k, u)' \/ AboutTo(k, u)'
  BY DEF GiftsBacked
<1>1. CASE u \in access[k]
  <2>1. cut \subseteq cut'
    BY DEF Next, vars, Reserve, Step, Fail, CreateOrder, Grant, GrantUnanswered, Redeem,
      RedeemUnanswered, ProviderCheckout, Attach, Release, Crash, Age, Pay, Expire, RedeemPaid
  <2>2. CASE Redeemed(k, u)
    <3>1. PICK i \in Places : places[i].state = "redeemed" /\ places[i].code = k /\ places[i].user = u
      BY <2>2 DEF Redeemed, Rows
    <3>2. places'[i] = places[i]  BY <3>1, RedeemedKept
    <3> QED  BY <3>1, <3>2 DEF Redeemed, Rows
  <2>3. CASE AboutTo(k, u)
    <3>1. u \in Users  BY <1>1 DEF TypeOK
    <3> QED  BY <2>3, <3>1, AboutToStep
  <2> QED  BY <1>1, <2>1, <2>2, <2>3 DEF GiftsBacked
<1>2. CASE u \notin access[k]
  <2>1. PICK c \in Calls : Grant(c) \/ GrantUnanswered(c)
    BY <1>2 DEF Next, vars, Reserve, Step, Fail, CreateOrder, Redeem,
      RedeemUnanswered, ProviderCheckout, Attach, Release, Crash, Age, Pay, Expire, RedeemPaid
  <2>2. PlaceOf(c).code = k /\ PlaceOf(c).user = u
    BY <1>2, <2>1 DEF Grant, GrantUnanswered, Granted, TypeOK
  <2>3. CASE Grant(c)
    <3>1. call'[c].pc = "redeem" /\ call'[c].place = call[c].place /\ places' = places
      BY <2>3 DEF Grant, GoTo, TypeOK
    <3>2. At(c, "redeem")' /\ PlaceOf(c)' = PlaceOf(c)  BY <3>1 DEF At, PlaceOf
    <3> QED  BY <2>2, <3>2 DEF AboutTo
  <2>4. CASE GrantUnanswered(c)  BY <2>2, <2>4 DEF GrantUnanswered
  <2> QED  BY <2>1, <2>3, <2>4
<1> QED  BY <1>1, <1>2

-----------------------------------------------------------------------------
\* Nothing is reserved, granted or linked before the first checkout.
LEMMA InvInit ==
  ASSUME Init
  PROVE  Inv
<1> USE CouponAssumption DEF Init, Empty, Idle
<1>1. TypeOK  BY DEF TypeOK, Links
<1>2. CapHolds
  <2> SUFFICES ASSUME NEW k \in Codes PROVE Cardinality(Rows(k, Held)) <= Cap[k]
    BY DEF CapHolds
  <2>1. Rows(k, Held) = {}  BY DEF Rows, Held
  <2> QED  BY <2>1, FS_EmptySet
<1>3. CallFacts /\ OwnPlaces  BY DEF CallFacts, OwnPlaces
<1>4. LinkFacts /\ RedeemedIsBacked /\ GiftsBacked
  BY DEF LinkFacts, RedeemedIsBacked, GiftsBacked
<1> QED  BY <1>1, <1>2, <1>3, <1>4 DEF Inv

\* Every step keeps the invariant.
LEMMA InvStep ==
  ASSUME Inv, [Next]_vars
  PROVE  Inv'
BY TypeStep, CapStep, CheckoutStep, LinkStep, BackedStep, GiftsStep DEF Inv

\* It holds in every state.
LEMMA Invariant == Spec => []Inv
BY InvInit, InvStep, PTL DEF Spec

\* Every state of the spec is one the table, the routes and the links can be in;
\* the rows an open checkout names are rows (TypeOK is not inductive by itself).
THEOREM TypeCorrect == Spec => []TypeOK
<1>1. Inv => TypeOK  BY DEF Inv
<1> QED  BY <1>1, Invariant, PTL

\* max_redemptions is never exceeded by reservations and redemptions together,
\* for any number of coupons, buyers, checkouts, late payments and failures.
THEOREM CapIsKept == Spec => []CapHolds
<1>1. Inv => CapHolds  BY DEF Inv
<1> QED  BY <1>1, Invariant, PTL

\* No failure burns a place: a redeemed place has its grant or its payment.
THEOREM NoPlaceIsBurnt == Spec => []RedeemedIsBacked
<1>1. Inv => RedeemedIsBacked  BY DEF Inv
<1> QED  BY <1>1, Invariant, PTL

\* A course given away is counted against its coupon unless its checkout failed
\* after the grant.
THEOREM GiftsCount == Spec => []GiftsAreCounted
<1>1. Inv => GiftsAreCounted
  <2> SUFFICES ASSUME Inv, NEW k \in Codes, NEW u \in access[k], <<k, u>> \notin cut
               PROVE  \E i \in Rows(k, Held) : places[i].user = u
    BY DEF GiftsAreCounted
  <2>1. CASE Redeemed(k, u)  BY <2>1 DEF Redeemed, Rows, Held
  <2>2. CASE AboutTo(k, u)
    <3>1. PICK c \in Calls : At(c, "redeem") /\ PlaceOf(c).code = k /\ PlaceOf(c).user = u
      BY <2>2 DEF AboutTo
    <3>2. call[c] # Idle /\ call[c].place \in Places
      BY <3>1, Called DEF Inv, At, Idle, CallRows
    <3>3. PlaceOf(c).state = "reserved"  BY <3>1, <3>2 DEF Inv, CallFacts, CallFact, At
    <3> QED  BY <3>1, <3>2, <3>3 DEF Rows, Held, PlaceOf
  <2> QED  BY <2>1, <2>2 DEF Inv, GiftsBacked
<1> QED  BY <1>1, Invariant, PTL

\* No release, of a failed checkout or of age, takes a redeemed place back.
THEOREM RedeemedStays == Spec => RedeemedForever
<1>1. ASSUME Inv, [Next]_vars
      PROVE  [\A i \in Places : places[i].state = "redeemed" => places'[i].state = "redeemed"]_vars
  BY <1>1, RedeemedKept DEF Inv
<1> QED  BY <1>1, Invariant, PTL DEF Spec, RedeemedForever

-----------------------------------------------------------------------------
(* The webhook queue: a settled row that bought something holds the order.  *)

\* Where a call of processOne can be.
Stages == {"fetch", "assess", "upsert", "consume", "refuse", "orphan", "read", "send",
           "sending", "finish"}
\* A full row of payment_webhook_events.
EventRow(r) ==
  /\ DOMAIN r = {"state", "of", "tries", "orphan"}
  /\ r.state \in {"pending", "processing", "done", "dead"}
  /\ r.of \in Payments /\ r.orphan \in BOOLEAN

\* A call has the row it took, and works for the payment the row names.
CallFits(c) ==
  /\ DOMAIN c = {"pc", "slot", "of", "tries", "snap", "eligible", "active", "stamp"}
  /\ c.pc \in Stages /\ c.slot \in Slots
  /\ EventRow(events[c.slot]) /\ events[c.slot].of = c.of

\* Rows are full rows, and calls fit theirs.
EventsHold ==
  /\ DOMAIN events = Slots /\ DOMAIN work = Workers /\ DOMAIN rows = Payments
  /\ \A e \in Slots : events[e] = Unused \/ EventRow(events[e])
  /\ \A w \in Workers : work[w] = NoCall \/ CallFits(work[w])

\* Before the row is written, or between the row and the order.
Early == {"fetch", "assess", "upsert", "consume", "refuse"}
Finishing(p) == \E w \in Workers : work[w].pc \in {"consume", "refuse"} /\ work[w].of = p

\* A row that says it bought something without the order.
Half(p) == rows[p].status = "approved" /\ rows[p].eligible /\ consumed # {p}

\* Whoever takes the event writes the row again, and asks for the order again.
WillBeRead(e, p) ==
  /\ events[e].state \in Open \cup {"dead"} /\ ~ events[e].orphan /\ events[e].of = p
  /\ \A w \in On(e) : work[w].pc \in Early

\* The row of p is about to be written again, or its order about to be asked for again.
Seen(p) == Finishing(p) \/ \E e \in Slots : WillBeRead(e, p)
\* The invariant: what a payment has not bought is not left standing unseen.
HalfIsSeen == \A p \in Ordered \ forsaken : Half(p) => Seen(p)
-----------------------------------------------------------------------------
\* What a step does to the calls and the events, row by row.
RestKeep(w) == DOMAIN work' = Workers /\ \A v \in Workers \ {w} : work'[v] = work[v]
OtherEvents(e) == DOMAIN events' = Slots /\ \A f \in Slots \ {e} : events'[f] = events[f]
\* A call goes on to pc with the event and the payment it had.
GoesTo(w, pc) ==
  /\ RestKeep(w)
  /\ DOMAIN work'[w] = DOMAIN work[w]
  /\ work'[w].pc = pc /\ work'[w].slot = work[w].slot /\ work'[w].of = work[w].of
\* A call is over.
Leaves(w) == RestKeep(w) /\ work'[w] = NoCall
\* The row of an event moves on; whose payment it is stays.
Turns(e, s) ==
  /\ OtherEvents(e)
  /\ DOMAIN events'[e] = DOMAIN events[e]
  /\ events'[e].of = events[e].of /\ events'[e].state = s
  /\ events'[e].orphan \in BOOLEAN

\* A call that is somewhere fits its event.
LEMMA CallAtWork ==
  ASSUME EventsHold, NEW w \in Workers, work[w].pc # "idle"
  PROVE  CallFits(work[w])
BY DEF EventsHold, NoCall

\* What GoOn makes of a call.
LEMMA GoingOn ==
  ASSUME EventsHold, NEW w \in Workers, work[w].pc # "idle", NEW pc, work' = GoOn(w, pc)
  PROVE  GoesTo(w, pc)
<1>1. CallFits(work[w])
  BY CallAtWork
<1> DEFINE c == work[w]
           d == [c EXCEPT !.pc = pc, !.snap = "none", !.eligible = FALSE,
                          !.active = FALSE, !.stamp = 0]
<1>2. DOMAIN d = DOMAIN c /\ d.pc = pc /\ d.slot = c.slot /\ d.of = c.of
  BY <1>1 DEF CallFits
<1>3. work' = [work EXCEPT ![w] = d]
  BY DEF GoOn
<1>4. work'[w] = d /\ RestKeep(w)
  BY <1>3 DEF EventsHold, RestKeep
<1> QED
  BY <1>2, <1>4 DEF GoesTo
\* A call goes on and no event moves: the calls still fit their events.
LEMMA HoldsAsCallsGo ==
  ASSUME EventsHold, NEW w \in Workers, work[w].pc # "idle", NEW pc \in Stages,
         GoesTo(w, pc), events' = events, DOMAIN rows' = Payments
  PROVE  EventsHold'
<1>1. CallFits(work[w])
  BY CallAtWork
<1>2. CallFits(work[w])'
  BY <1>1 DEF CallFits, GoesTo, EventRow
<1>3. ASSUME NEW v \in Workers, v # w  PROVE (work[v] = NoCall \/ CallFits(work[v]))'
  BY <1>3 DEF GoesTo, RestKeep, EventsHold, CallFits, EventRow
<1>4. \A v \in Workers : (work[v] = NoCall \/ CallFits(work[v]))'
  BY <1>2, <1>3
<1>5. \A e \in Slots : (events[e] = Unused \/ EventRow(events[e]))'
  BY DEF EventsHold, EventRow
<1> QED
  BY <1>4, <1>5 DEF EventsHold, GoesTo, RestKeep

\* A full row that turns is a full row.
LEMMA TurnedRow ==
  ASSUME EventsHold, NEW e \in Slots, EventRow(events[e]),
         NEW s \in {"pending", "processing", "done", "dead"}, Turns(e, s)
  PROVE  /\ EventRow(events[e])'
         /\ \A f \in Slots : (events[f] = Unused \/ EventRow(events[f]))'
<1>1. EventRow(events[e])'
  BY DEF EventRow, Turns
<1>2. ASSUME NEW f \in Slots, f # e  PROVE (events[f] = Unused \/ EventRow(events[f]))'
  BY <1>2 DEF Turns, OtherEvents, EventsHold, EventRow
<1> QED
  BY <1>1, <1>2

\* A call leaves and its event turns.
LEMMA HoldsAsCallsLeave ==
  ASSUME EventsHold, NEW w \in Workers, work[w].pc # "idle",
         NEW s \in {"pending", "processing", "done", "dead"},
         Turns(work[w].slot, s), Leaves(w), rows' = rows
  PROVE  EventsHold'
<1> DEFINE e == work[w].slot
<1>1. CallFits(work[w])
  BY CallAtWork
<1>2. e \in Slots /\ EventRow(events[e])
  BY <1>1 DEF CallFits
<1>3. EventRow(events'[e]) /\ \A f \in Slots : (events[f] = Unused \/ EventRow(events[f]))'
  BY <1>2, TurnedRow DEF EventRow
<1>4. ASSUME NEW v \in Workers, v # w, CallFits(work[v])  PROVE CallFits(work[v])'
  <2>1. work'[v] = work[v]
    BY <1>4 DEF Leaves, RestKeep
  <2>2. CASE work[v].slot = e
    <3>1. events'[e].of = work[v].of
      BY <1>4, <2>2 DEF Turns, CallFits
    <3> QED
      BY <1>3, <1>4, <2>1, <2>2, <3>1 DEF CallFits, EventRow
  <2>3. CASE work[v].slot # e
    <3>1. events'[work[v].slot] = events[work[v].slot]
      BY <1>4, <2>3 DEF Turns, OtherEvents, CallFits
    <3> QED
      BY <1>4, <2>1, <3>1 DEF CallFits, EventRow
  <2> QED
    BY <2>2, <2>3
<1>5. \A v \in Workers : (work[v] = NoCall \/ CallFits(work[v]))'
  <2> TAKE v \in Workers
  <2>1. CASE v = w
    BY <2>1 DEF Leaves
  <2>2. CASE v # w /\ work[v] = NoCall
    BY <2>2 DEF Leaves, RestKeep
  <2>3. CASE v # w /\ CallFits(work[v])
    BY <2>3, <1>4
  <2> QED
    BY <2>1, <2>2, <2>3 DEF EventsHold
<1>6. DOMAIN events' = Slots /\ DOMAIN work' = Workers /\ DOMAIN rows' = Payments
  BY DEF Turns, OtherEvents, Leaves, RestKeep, EventsHold
<1> QED
  BY <1>3, <1>5, <1>6 DEF EventsHold

\* No call is on the event: whatever row comes in its place, the calls fit theirs.
LEMMA HoldsAsRowsChange ==
  ASSUME EventsHold, NEW e \in Slots, OtherEvents(e), UNCHANGED <<work, rows>>,
         events'[e] = Unused \/ EventRow(events'[e]), On(e) = {}
  PROVE  EventsHold'
<1>1. ASSUME NEW v \in Workers, CallFits(work[v])  PROVE CallFits(work[v])'
  <2>1. work[v].slot # e
    BY <1>1 DEF On, Busy, CallFits, Stages
  <2>2. events'[work[v].slot] = events[work[v].slot]
    BY <1>1, <2>1 DEF OtherEvents, CallFits
  <2> QED
    BY <1>1, <2>2 DEF CallFits, EventRow
<1>2. \A v \in Workers : (work[v] = NoCall \/ CallFits(work[v]))'
  BY <1>1 DEF EventsHold
<1>3. ASSUME NEW f \in Slots  PROVE (events[f] = Unused \/ EventRow(events[f]))'
  <2>1. CASE f = e
    BY <2>1 DEF EventRow
  <2>2. CASE f # e
    BY <2>2 DEF OtherEvents, EventsHold, EventRow
  <2> QED
    BY <2>1, <2>2
<1> QED
  BY <1>2, <1>3 DEF EventsHold, OtherEvents
-----------------------------------------------------------------------------
\* What each action does to the calls and the events.

\* A function after a write.
LEMMA WrittenCell ==
  ASSUME NEW f, NEW k \in DOMAIN f, NEW x, NEW g, g = [f EXCEPT ![k] = x]
  PROVE  DOMAIN g = DOMAIN f /\ g[k] = x /\ \A o \in DOMAIN f \ {k} : g[o] = f[o]
OBVIOUS

\* What is left of a call that ends.
LEMMA LeavingDoes ==
  ASSUME EventsHold, NEW w \in Workers, work' = [work EXCEPT ![w] = NoCall]
  PROVE  Leaves(w)
BY DEF EventsHold, Leaves, RestKeep

\* takeEvent: the row is in processing, and the call starts on it.
LEMMA TakeDoes ==
  ASSUME EventsHold, NEW w \in Workers, NEW e \in Slots, Take(w, e)
  PROVE  /\ EventRow(events[e]) /\ events[e].state \in Open
         /\ Turns(e, "processing") /\ events'[e].orphan = events[e].orphan
         /\ RestKeep(w)
         /\ work'[w].pc = "fetch" /\ work'[w].slot = e /\ work'[w].of = events[e].of
         /\ DOMAIN work'[w] = {"pc", "slot", "of", "tries", "snap", "eligible", "active", "stamp"}
         /\ UNCHANGED <<tables, forsaken>>
<1>1. EventRow(events[e]) /\ events[e].state \in Open
  BY DEF Take, Due, Open, EventsHold, Unused
<1> DEFINE r == events[e]
           s == [r EXCEPT !.state = "processing"]
           t == [s EXCEPT !.tries = s.tries + 1]
<1>2. /\ DOMAIN t = DOMAIN r /\ t.state = "processing" /\ t.of = r.of
      /\ t.orphan = r.orphan
  BY <1>1 DEF EventRow
<1>3. events' = [[events EXCEPT ![e] = s] EXCEPT ![e] = t]
  BY <1>1 DEF Take, EventsHold, EventRow
<1>4. events'[e] = t /\ OtherEvents(e)
  BY <1>3 DEF EventsHold, OtherEvents
<1>5. Turns(e, "processing") /\ events'[e].orphan = events[e].orphan
  BY <1>1, <1>2, <1>4 DEF Turns, EventRow
<1> DEFINE c == [pc |-> "fetch", slot |-> e, of |-> events[e].of, tries |-> events[e].tries + 1,
                 snap |-> "none", eligible |-> FALSE, active |-> FALSE, stamp |-> 0]
<1>6. work' = [work EXCEPT ![w] = c]
  BY DEF Take
<1>7. work'[w] = c /\ RestKeep(w)
  BY <1>6 DEF EventsHold, RestKeep
<1>8. c.pc = "fetch" /\ c.slot = e /\ c.of = events[e].of
  OBVIOUS
<1>9. DOMAIN c = {"pc", "slot", "of", "tries", "snap", "eligible", "active", "stamp"}
  OBVIOUS
<1>10. UNCHANGED <<tables, forsaken>>
  BY DEF Take
<1> QED
  BY <1>1, <1>5, <1>7, <1>8, <1>9, <1>10

\* The steps of a call that leave its event alone, and where they lead.
LEMMA FetchDoes ==
  ASSUME EventsHold, NEW w \in Workers, Fetch(w)
  PROVE  GoesTo(w, "assess") /\ UNCHANGED <<events, tables, forsaken>>
<1>1. CallFits(work[w])
  BY CallAtWork DEF Fetch, IsAt
<1> DEFINE c == work[w]
           d == [[c EXCEPT !.pc = "assess"] EXCEPT !.snap = provider[work[w].of]]
<1>2. DOMAIN d = DOMAIN c /\ d.pc = "assess" /\ d.slot = c.slot /\ d.of = c.of
  BY <1>1 DEF CallFits
<1>3. work'[w] = d /\ RestKeep(w)
  BY DEF Fetch, EventsHold, RestKeep
<1>4. UNCHANGED <<events, tables, forsaken>>
  BY DEF Fetch, hurt
<1> QED
  BY <1>2, <1>3, <1>4 DEF GoesTo

\* assessPayment moves the call alone.
LEMMA AssessDoes ==
  ASSUME EventsHold, NEW w \in Workers, Assess(w)
  PROVE  GoesTo(w, "upsert") /\ UNCHANGED <<events, tables, forsaken>>
<1>1. CallFits(work[w])
  BY CallAtWork DEF Assess, IsAt
<1> DEFINE c == work[w]
           d == [[c EXCEPT !.pc = "upsert"] EXCEPT !.eligible = Eligible(work[w].of, work[w].snap)]
<1>2. DOMAIN d = DOMAIN c /\ d.pc = "upsert" /\ d.slot = c.slot /\ d.of = c.of
  BY <1>1 DEF CallFits
<1>3. work'[w] = d /\ RestKeep(w)
  BY DEF Assess, EventsHold, RestKeep
<1>4. UNCHANGED <<events, tables, forsaken>>
  BY DEF Assess, hurt
<1> QED
  BY <1>2, <1>3, <1>4 DEF GoesTo

\* entitlementStateFor moves the call alone.
LEMMA ReadDoes ==
  ASSUME EventsHold, NEW w \in Workers, Read(w)
  PROVE  GoesTo(w, "send") /\ UNCHANGED <<events, tables, forsaken>>
<1>1. CallFits(work[w])
  BY CallAtWork DEF Read, IsAt
<1> DEFINE c == work[w]
           row == rows[work[w].of]
           d == [[c EXCEPT !.pc = "send"] EXCEPT
                   !.active = row.status = "approved" /\ row.eligible /\ row.user]
<1>2. DOMAIN d = DOMAIN c /\ d.pc = "send" /\ d.slot = c.slot /\ d.of = c.of
  BY <1>1 DEF CallFits
<1>3. work'[w] = d /\ RestKeep(w)
  BY DEF Read, EventsHold, RestKeep
<1>4. UNCHANGED <<events, tables, forsaken>>
  BY DEF Read, hurt
<1> QED
  BY <1>2, <1>3, <1>4 DEF GoesTo

\* sendEntitlement moves the call alone.
LEMMA SendDoes ==
  ASSUME EventsHold, NEW w \in Workers, Send(w)
  PROVE  GoesTo(w, "sending") /\ UNCHANGED <<events, tables, forsaken>>
<1>1. CallFits(work[w])
  BY CallAtWork DEF Send, IsAt
<1>2. PICK n : work' = [work EXCEPT ![w].pc = "sending", ![w].stamp = n]
  BY DEF Send
<1> DEFINE c == work[w]
           d == [[c EXCEPT !.pc = "sending"] EXCEPT !.stamp = n]
<1>3. DOMAIN d = DOMAIN c /\ d.pc = "sending" /\ d.slot = c.slot /\ d.of = c.of
  BY <1>1 DEF CallFits
<1>4. work'[w] = d /\ RestKeep(w)
  BY <1>2 DEF EventsHold, RestKeep
<1>5. UNCHANGED <<events, tables, forsaken>>
  BY DEF Send, hurt
<1> QED
  BY <1>3, <1>4, <1>5 DEF GoesTo

\* applyEntitlement moves the call, and nothing of the queue's tables.
LEMMA RecordDoes ==
  ASSUME EventsHold, NEW w \in Workers, Record(w)
  PROVE  GoesTo(w, "finish") /\ UNCHANGED <<events, tables, forsaken>>
<1>1. work[w].pc # "idle" /\ work' = GoOn(w, "finish")
  BY DEF Record, IsAt
<1>2. UNCHANGED <<events, tables, forsaken>>
  BY DEF Record, hurt
<1> QED
  BY <1>1, <1>2, GoingOn

\* Where a call goes after its row.
LEMMA FollowingStages ==
  ASSUME NEW p, NEW s, NEW ok
  PROVE  Following(p, s, ok) \in {"orphan", "read", "finish"}
BY DEF Following

\* What upsertPayment writes.
LEMMA WrittenRow ==
  ASSUME EventsHold, NEW w \in Workers, CallFits(work[w]), NEW ok, UpsertRow(w, ok)
  PROVE  /\ DOMAIN rows' = Payments
         /\ rows'[work[w].of].status = StatusOf(work[w].snap)
         /\ rows'[work[w].of].eligible = ok
         /\ \A p \in Payments \ {work[w].of} : rows'[p] = rows[p]
<1>1. work[w].of \in Payments
  BY DEF CallFits, EventRow
<1> QED
  BY <1>1 DEF UpsertRow, EventsHold

\* A row that says it bought something with an order is followed by consumeOrder.
LEMMA UpsertDoes ==
  ASSUME EventsHold, NEW w \in Workers, Upsert(w)
  PROVE  /\ \E pc \in {"consume", "orphan", "read", "finish"} : GoesTo(w, pc)
         /\ UpsertRow(w, work[w].eligible)
         /\ Approved(work[w].snap) /\ work[w].eligible /\ work[w].of \in Ordered
              => work'[w].pc = "consume"
         /\ UNCHANGED <<events, consumed, forsaken>>
<1>1. CallFits(work[w]) /\ work[w].pc # "idle"
  BY CallAtWork DEF Upsert, IsAt
<1> DEFINE Asks == Approved(work[w].snap) /\ work[w].eligible /\ work[w].of \in Ordered
           next == Following(work[w].of, work[w].snap, work[w].eligible)
<1>2. UpsertRow(w, work[w].eligible) /\ UNCHANGED <<events, consumed, forsaken>>
  BY DEF Upsert, hurt
<1>3. CASE Asks
  <2> DEFINE d == [work[w] EXCEPT !.pc = "consume"]
  <2>1. DOMAIN d = DOMAIN work[w] /\ d.pc = "consume" /\ d.slot = work[w].slot /\ d.of = work[w].of
    BY <1>1 DEF CallFits
  <2>2. work' = [work EXCEPT ![w].pc = "consume"]
    BY <1>3 DEF Upsert
  <2>3. work'[w] = d /\ RestKeep(w)
    BY <2>2 DEF EventsHold, RestKeep
  <2>4. GoesTo(w, "consume")
    BY <2>1, <2>3 DEF GoesTo
  <2> QED
    BY <1>2, <2>4 DEF GoesTo
<1>4. CASE ~ Asks
  <2>1. work' = GoOn(w, next)
    BY <1>4 DEF Upsert
  <2>2. GoesTo(w, next)
    BY <1>1, <2>1, GoingOn
  <2>3. next \in {"orphan", "read", "finish"}
    BY FollowingStages
  <2> QED
    BY <1>2, <1>4, <2>2, <2>3
<1> QED
  BY <1>3, <1>4

\* consumeOrder: the order is this payment's, or the row is about to be refused.
LEMMA ConsumeDoes ==
  ASSUME EventsHold, NEW w \in Workers, Consume(w)
  PROVE  /\ UNCHANGED <<events, rows, forsaken>>
         /\ \/ /\ consumed \subseteq {work[w].of} /\ consumed' = {work[w].of}
               /\ \E pc \in {"orphan", "read", "finish"} : GoesTo(w, pc)
            \/ GoesTo(w, "refuse") /\ UNCHANGED consumed
<1>1. CallFits(work[w]) /\ work[w].pc # "idle"
  BY CallAtWork DEF Consume, IsAt
<1>2. UNCHANGED <<events, rows, forsaken>>
  BY DEF Consume, hurt
<1>3. CASE Wins(work[w].of)
  <2> DEFINE next == Following(work[w].of, work[w].snap, TRUE)
  <2>1. work' = GoOn(w, next) /\ consumed' = {work[w].of}
    BY <1>3 DEF Consume
  <2>2. GoesTo(w, next)
    BY <1>1, <2>1, GoingOn
  <2>3. next \in {"orphan", "read", "finish"}
    BY FollowingStages
  <2> QED
    BY <1>2, <1>3, <2>1, <2>2, <2>3 DEF Wins
<1>4. CASE ~ Wins(work[w].of)
  <2> DEFINE d == [work[w] EXCEPT !.pc = "refuse"]
  <2>1. DOMAIN d = DOMAIN work[w] /\ d.pc = "refuse" /\ d.slot = work[w].slot /\ d.of = work[w].of
    BY <1>1 DEF CallFits
  <2>2. work' = [work EXCEPT ![w].pc = "refuse"] /\ UNCHANGED consumed
    BY <1>4 DEF Consume
  <2>3. work'[w] = d /\ RestKeep(w)
    BY <2>2 DEF EventsHold, RestKeep
  <2> QED
    BY <1>2, <2>1, <2>2, <2>3 DEF GoesTo
<1> QED
  BY <1>3, <1>4

\* The refused row is written, and the call is about to finish.
LEMMA RefuseDoes ==
  ASSUME EventsHold, NEW w \in Workers, Refuse(w)
  PROVE  /\ GoesTo(w, "finish") /\ UpsertRow(w, FALSE)
         /\ UNCHANGED <<events, consumed, forsaken>>
<1>1. work[w].pc # "idle" /\ work' = GoOn(w, "finish")
  BY DEF Refuse, IsAt
<1>2. UpsertRow(w, FALSE) /\ UNCHANGED <<events, consumed, forsaken>>
  BY DEF Refuse, hurt
<1> QED
  BY <1>1, <1>2, GoingOn

\* The dead letter: nobody takes the row again.
LEMMA OrphanDoes ==
  ASSUME EventsHold, NEW w \in Workers, Orphan(w)
  PROVE  Turns(work[w].slot, "dead") /\ Leaves(w) /\ UNCHANGED <<tables, forsaken>>
<1>1. CallFits(work[w])
  BY CallAtWork DEF Orphan, IsAt
<1> DEFINE e == work[w].slot
           d == [[events[e] EXCEPT !.state = "dead"] EXCEPT !.orphan = TRUE]
<1>2. e \in Slots /\ EventRow(events[e])
  BY <1>1 DEF CallFits
<1>3. DOMAIN d = DOMAIN events[e] /\ d.of = events[e].of /\ d.state = "dead" /\ d.orphan = TRUE
  BY <1>2 DEF EventRow
<1>4. events'[e] = d /\ OtherEvents(e)
  BY <1>2 DEF Orphan, EventsHold, OtherEvents
<1>5. Leaves(w) /\ UNCHANGED <<tables, forsaken>>
  BY LeavingDoes DEF Orphan, hurt
<1> QED
  BY <1>3, <1>4, <1>5 DEF Turns

\* finishEvent: the row is done, or followed no longer.
LEMMA FinishDoes ==
  ASSUME EventsHold, NEW w \in Workers, Finish(w)
  PROVE  /\ Leaves(w) /\ UNCHANGED <<tables, forsaken>>
         /\ \/ /\ On(work[w].slot) = {w}
               /\ OtherEvents(work[w].slot) /\ events'[work[w].slot] = Unused
            \/ Turns(work[w].slot, "done")
<1>1. CallFits(work[w])
  BY CallAtWork DEF Finish, IsAt
<1> DEFINE e == work[w].slot
           d == [events[e] EXCEPT !.state = "done"]
<1>2. e \in Slots /\ EventRow(events[e])
  BY <1>1 DEF CallFits
<1>3. Leaves(w) /\ UNCHANGED <<tables, forsaken>>
  BY LeavingDoes DEF Finish, hurt
<1>4. CASE On(e) = {w}
  <2>1. events' = [events EXCEPT ![e] = Unused]
    BY <1>4 DEF Finish
  <2>2. events'[e] = Unused /\ OtherEvents(e)
    BY <1>2, <2>1 DEF EventsHold, OtherEvents
  <2> QED
    BY <1>3, <1>4, <2>2
<1>5. CASE On(e) # {w}
  <2>1. DOMAIN d = DOMAIN events[e] /\ d.of = events[e].of /\ d.state = "done" /\ d.orphan \in BOOLEAN
    BY <1>2 DEF EventRow
  <2>2. events' = [events EXCEPT ![e].state = "done"]
    BY <1>5 DEF Finish
  <2>3. events'[e] = d /\ OtherEvents(e)
    BY <1>2, <2>2 DEF EventsHold, OtherEvents
  <2> QED
    BY <1>3, <2>1, <2>3 DEF Turns
<1> QED
  BY <1>4, <1>5

\* failEvent: the row waits again or is dead, whoever else is on it.
LEMMA FailDoes ==
  ASSUME EventsHold, NEW w \in Workers, FailEvent(w)
  PROVE  /\ CallFits(work[w]) /\ work[w].pc # "idle"
         /\ \E s \in {"dead", "pending"} : Turns(work[w].slot, s)
         /\ events'[work[w].slot].orphan = FALSE
         /\ Leaves(w) /\ UNCHANGED tables
         /\ forsaken \subseteq forsaken'
         /\ On(work[w].slot) # {w} => work[w].of \in forsaken'
<1>1. CallFits(work[w]) /\ work[w].pc # "idle"
  BY CallAtWork DEF FailEvent, Busy
<1> DEFINE e == work[w].slot
           s == AfterFailure(w)
           d == [[events[e] EXCEPT !.state = s] EXCEPT !.orphan = FALSE]
<1>2. e \in Slots /\ EventRow(events[e])
  BY <1>1 DEF CallFits
<1>3. s \in {"dead", "pending"}
  BY DEF AfterFailure
<1> HIDE DEF s
<1>4. DOMAIN d = DOMAIN events[e] /\ d.of = events[e].of /\ d.state = s /\ d.orphan = FALSE
  BY <1>2 DEF EventRow
<1>5. events' = [events EXCEPT ![e].state = s, ![e].orphan = FALSE]
  BY DEF FailEvent, s
<1>6. events'[e] = d /\ OtherEvents(e)
  BY <1>2, <1>5 DEF EventsHold, OtherEvents
<1>7. Turns(e, s) /\ events'[e].orphan = FALSE
  BY <1>4, <1>6 DEF Turns
<1>8. Leaves(w) /\ UNCHANGED tables
  BY LeavingDoes DEF FailEvent
<1>9. forsaken \subseteq forsaken' /\ (On(e) # {w} => work[w].of \in forsaken')
  BY DEF FailEvent
<1> QED
  BY <1>1, <1>3, <1>7, <1>8, <1>9

\* A fresh event takes the place of a row no call is on and nobody takes again.
LEMMA RecordEventDoes ==
  ASSUME EventsHold, NEW p \in Payments, RecordEvent(p)
  PROVE  \E e \in Slots : /\ On(e) = {}
                          /\ events[e].state \in {"free", "done"} \/ events[e].orphan
                          /\ OtherEvents(e) /\ EventRow(events'[e])
<1>1. PICK e \in Slots :
        /\ On(e) = {}
        /\ events[e].state \in {"free", "done"} \/ events[e].orphan
        /\ events' = [events EXCEPT ![e] = [state |-> "pending", of |-> p, tries |-> 0,
                                            orphan |-> FALSE]]
  BY DEF RecordEvent
<1> DEFINE r == [state |-> "pending", of |-> p, tries |-> 0, orphan |-> FALSE]
<1>2. EventRow(r)
  BY DEF EventRow
<1>3. events'[e] = r /\ OtherEvents(e)
  BY <1>1 DEF EventsHold, OtherEvents
<1> QED
  BY <1>1, <1>2, <1>3

\* Only dead rows become pending again.
LEMMA RedriveDoes ==
  ASSUME EventsHold, Redrive
  PROVE  /\ DOMAIN events' = Slots
         /\ \A e \in Slots :
              \/ events'[e] = events[e]
              \/ /\ EventRow(events[e]) /\ EventRow(events'[e])
                 /\ events'[e].state = "pending" /\ events'[e].of = events[e].of
                 /\ events'[e].orphan = events[e].orphan
         /\ UNCHANGED <<tables, work, forsaken>>
<1> DEFINE Dead == {e \in Slots : events[e].state = "dead" /\ ~ events[e].orphan}
<1>1. events' = [e \in Slots |-> IF e \in Dead THEN [events[e] EXCEPT !.state = "pending", !.tries = 0]
                                              ELSE events[e]]
  BY DEF Redrive
<1>2. ASSUME NEW e \in Slots, e \in Dead
      PROVE  /\ EventRow(events[e]) /\ EventRow(events'[e])
             /\ events'[e].state = "pending" /\ events'[e].of = events[e].of
             /\ events'[e].orphan = events[e].orphan
  <2>1. EventRow(events[e])
    BY <1>2 DEF EventsHold, Unused
  <2> DEFINE d == [[events[e] EXCEPT !.state = "pending"] EXCEPT !.tries = 0]
  <2>2. /\ DOMAIN d = DOMAIN events[e] /\ d.state = "pending" /\ d.of = events[e].of
        /\ d.orphan = events[e].orphan
    BY <2>1 DEF EventRow
  <2>3. events'[e] = d
    BY <1>1, <1>2
  <2> QED
    BY <2>1, <2>2, <2>3 DEF EventRow
<1>3. ASSUME NEW e \in Slots, e \notin Dead  PROVE events'[e] = events[e]
  BY <1>1, <1>3
<1>4. UNCHANGED <<tables, work, forsaken>>
  BY DEF Redrive, hurt
<1> QED
  BY <1>1, <1>2, <1>3, <1>4

\* The process dies with its calls; the rows stay as they were.
LEMMA KilledDoes ==
  ASSUME EventsHold, Killed
  PROVE  /\ UNCHANGED <<tables, events>>
         /\ DOMAIN work' = Workers /\ \A w \in Workers : work'[w] = NoCall
         /\ forsaken \subseteq forsaken'
         /\ \A w \in Workers : Busy(w) /\ Settled(work[w].slot) => work[w].of \in forsaken'
<1>1. ASSUME NEW w \in Workers, Busy(w)  PROVE work[w].of \in Payments
  BY <1>1, CallAtWork DEF Busy, CallFits, EventRow
<1> QED
  BY <1>1 DEF Killed
-----------------------------------------------------------------------------
\* It holds when nothing happened yet.
LEMMA HoldsAtFirst ==
  ASSUME EventsInit
  PROVE  EventsHold
BY DEF EventsInit, EventsHold

\* A taken event has one more call that fits it.
LEMMA TakenFits ==
  ASSUME EventsHold, NEW w \in Workers, NEW e \in Slots, Take(w, e)
  PROVE  EventsHold'
<1>1. /\ EventRow(events[e]) /\ Turns(e, "processing") /\ RestKeep(w)
      /\ work'[w].pc = "fetch" /\ work'[w].slot = e /\ work'[w].of = events[e].of
      /\ DOMAIN work'[w] = {"pc", "slot", "of", "tries", "snap", "eligible", "active", "stamp"}
      /\ rows' = rows
  BY TakeDoes DEF tables
<1>2. EventRow(events'[e]) /\ \A f \in Slots : (events[f] = Unused \/ EventRow(events[f]))'
  BY <1>1, TurnedRow DEF EventRow
<1>3. CallFits(work[w])'
  BY <1>1, <1>2 DEF CallFits, Turns, EventRow, Stages
<1>4. ASSUME NEW v \in Workers, v # w, CallFits(work[v])  PROVE CallFits(work[v])'
  <2>1. work'[v] = work[v]
    BY <1>1, <1>4 DEF RestKeep
  <2>2. CASE work[v].slot = e
    BY <1>1, <1>2, <1>4, <2>1, <2>2 DEF Turns, CallFits, EventRow
  <2>3. CASE work[v].slot # e
    <3>1. events'[work[v].slot] = events[work[v].slot]
      BY <1>1, <1>4, <2>3 DEF Turns, OtherEvents, CallFits
    <3> QED
      BY <1>4, <2>1, <3>1 DEF CallFits, EventRow
  <2> QED
    BY <2>2, <2>3
<1>5. \A v \in Workers : (work[v] = NoCall \/ CallFits(work[v]))'
  <2> TAKE v \in Workers
  <2>1. CASE v # w /\ work[v] = NoCall
    BY <1>1, <2>1 DEF RestKeep
  <2> QED
    BY <2>1, <1>3, <1>4 DEF EventsHold
<1> QED
  BY <1>1, <1>2, <1>5 DEF EventsHold, Turns, OtherEvents, RestKeep

\* Every step of processOne keeps it.
LEMMA StepsHold ==
  ASSUME EventsHold, NEW w \in Workers, CallStep(w)
  PROVE  EventsHold'
<1>1. CASE Fetch(w)
  BY <1>1, FetchDoes, HoldsAsCallsGo DEF Fetch, IsAt, tables, Stages, EventsHold
<1>2. CASE Assess(w)
  BY <1>2, AssessDoes, HoldsAsCallsGo DEF Assess, IsAt, tables, Stages, EventsHold
<1>3. CASE Upsert(w)
  <2>1. PICK pc \in {"consume", "orphan", "read", "finish"} : GoesTo(w, pc)
    BY <1>3, UpsertDoes
  <2>2. work[w].pc # "idle" /\ UpsertRow(w, work[w].eligible) /\ events' = events
    BY <1>3, UpsertDoes DEF Upsert, IsAt
  <2>3. DOMAIN rows' = Payments
    BY <2>2, CallAtWork, WrittenRow
  <2> QED
    BY <2>1, <2>2, <2>3, HoldsAsCallsGo DEF Stages
<1>4. CASE Consume(w)
  <2>1. PICK pc \in {"orphan", "read", "finish", "refuse"} : GoesTo(w, pc)
    BY <1>4, ConsumeDoes
  <2>2. work[w].pc # "idle" /\ rows' = rows /\ events' = events
    BY <1>4, ConsumeDoes DEF Consume, IsAt
  <2> QED
    BY <2>1, <2>2, HoldsAsCallsGo DEF Stages, EventsHold
<1>5. CASE Refuse(w)
  <2>1. work[w].pc # "idle" /\ GoesTo(w, "finish") /\ UpsertRow(w, FALSE) /\ events' = events
    BY <1>5, RefuseDoes DEF Refuse, IsAt
  <2>2. DOMAIN rows' = Payments
    BY <2>1, CallAtWork, WrittenRow
  <2> QED
    BY <2>1, <2>2, HoldsAsCallsGo DEF Stages
<1>6. CASE Orphan(w)
  BY <1>6, OrphanDoes, HoldsAsCallsLeave DEF Orphan, IsAt, tables
<1>7. CASE Read(w)
  BY <1>7, ReadDoes, HoldsAsCallsGo DEF Read, IsAt, tables, Stages, EventsHold
<1>8. CASE Send(w)
  BY <1>8, SendDoes, HoldsAsCallsGo DEF Send, IsAt, tables, Stages, EventsHold
<1>9. CASE Record(w)
  BY <1>9, RecordDoes, HoldsAsCallsGo DEF Record, IsAt, tables, Stages, EventsHold
<1>10. CASE Finish(w)
  <2>1. work[w].pc # "idle" /\ Leaves(w) /\ rows' = rows
    BY <1>10, FinishDoes DEF Finish, IsAt, tables
  <2>2. CASE Turns(work[w].slot, "done")
    BY <2>1, <2>2, HoldsAsCallsLeave
  <2>3. CASE /\ On(work[w].slot) = {w}
             /\ OtherEvents(work[w].slot) /\ events'[work[w].slot] = Unused
    <3> DEFINE e == work[w].slot
    <3>1. ASSUME NEW v \in Workers  PROVE (work[v] = NoCall \/ CallFits(work[v]))'
      <4>1. CASE v = w
        BY <2>1, <4>1 DEF Leaves
      <4>2. CASE v # w /\ work[v] = NoCall
        BY <2>1, <4>2 DEF Leaves, RestKeep
      <4>3. CASE v # w /\ CallFits(work[v])
        <5>1. work[v].slot # e
          BY <2>3, <4>3 DEF On, Busy, CallFits, Stages
        <5>2. events'[work[v].slot] = events[work[v].slot]
          BY <2>3, <4>3, <5>1 DEF OtherEvents, CallFits
        <5>3. work'[v] = work[v]
          BY <2>1, <4>3 DEF Leaves, RestKeep
        <5> QED
          BY <4>3, <5>2, <5>3 DEF CallFits, EventRow
      <4> QED
        BY <4>1, <4>2, <4>3 DEF EventsHold
    <3>2. ASSUME NEW f \in Slots  PROVE (events[f] = Unused \/ EventRow(events[f]))'
      BY <2>3 DEF OtherEvents, EventsHold, EventRow
    <3> QED
      BY <2>1, <2>3, <3>1, <3>2 DEF EventsHold, OtherEvents, Leaves, RestKeep
  <2> QED
    BY <1>10, <2>2, <2>3, FinishDoes
<1> QED
  BY <1>1, <1>2, <1>3, <1>4, <1>5, <1>6, <1>7, <1>8, <1>9, <1>10 DEF CallStep

\* So does a step that touches neither events nor calls nor rows.
LEMMA KeptHolds ==
  ASSUME EventsHold, UNCHANGED <<events, work, rows>>
  PROVE  EventsHold'
BY DEF EventsHold, EventRow, CallFits

\* Every step of the queue keeps it.
LEMMA EventsAlwaysFit ==
  ASSUME EventsHold, [EventsNext]_eventVars
  PROVE  EventsHold'
<1>1. ASSUME NEW p \in Payments, NEW s \in Statuses, Change(p, s)  PROVE EventsHold'
  BY <1>1, KeptHolds DEF Change
<1>2. ASSUME NEW p \in Payments, Webhook(p) \/ Reconcile(p)  PROVE EventsHold'
  <2>1. RecordEvent(p) /\ UNCHANGED <<work, rows>>
    BY <1>2 DEF Webhook, Reconcile, tables
  <2> QED
    BY <2>1, RecordEventDoes, HoldsAsRowsChange
<1>3. CASE Redrive
  <2>1. DOMAIN events' = Slots /\ UNCHANGED <<work, rows>>
    BY <1>3, RedriveDoes DEF tables
  <2>2. ASSUME NEW e \in Slots  PROVE (events[e] = Unused \/ EventRow(events[e]))'
    BY <1>3, RedriveDoes DEF EventsHold, EventRow
  <2>3. ASSUME NEW w \in Workers, CallFits(work[w])  PROVE CallFits(work[w])'
    BY <1>3, <2>1, <2>3, RedriveDoes DEF CallFits, EventRow
  <2> QED
    BY <2>1, <2>2, <2>3 DEF EventsHold
<1>4. CASE Killed
  BY <1>4, KilledDoes DEF EventsHold, EventRow, tables
<1>5. ASSUME NEW w \in Workers, NEW e \in Slots, Take(w, e)  PROVE EventsHold'
  BY <1>5, TakenFits
<1>6. ASSUME NEW w \in Workers, CallStep(w)  PROVE EventsHold'
  BY <1>6, StepsHold
<1>7. ASSUME NEW w \in Workers, FailEvent(w)  PROVE EventsHold'
  BY <1>7, FailDoes, HoldsAsCallsLeave DEF tables
<1>8. CASE UNCHANGED eventVars
  BY <1>8, KeptHolds DEF eventVars, tables
<1> QED
  BY <1>1, <1>2, <1>3, <1>4, <1>5, <1>6, <1>7, <1>8 DEF EventsNext
-----------------------------------------------------------------------------
\* A half row of p stays seen: what each kind of step leaves of it.

\* Only calls that are neither early nor idle move on, or an early one stays early.
LEMMA SeenAsOthersGo ==
  ASSUME EventsHold, NEW w \in Workers, work[w].pc # "idle", NEW pc, GoesTo(w, pc),
         events' = events, NEW p, Seen(p),
         work[w].pc \notin {"consume", "refuse"},
         work[w].pc \in Early => pc \in Early
  PROVE  Seen(p)'
<1>1. CASE Finishing(p)
  <2>1. PICK v \in Workers : work[v].pc \in {"consume", "refuse"} /\ work[v].of = p
    BY <1>1 DEF Finishing
  <2>2. work'[v] = work[v]
    BY <2>1 DEF GoesTo, RestKeep
  <2> QED
    BY <2>1, <2>2 DEF Seen, Finishing
<1>2. ASSUME NEW e \in Slots, WillBeRead(e, p)  PROVE WillBeRead(e, p)'
  <2>1. ASSUME NEW v \in Workers, (v \in On(e))'  PROVE work'[v].pc \in Early
    <3>1. CASE v = w
      <4>1. w \in On(e)
        BY <2>1, <3>1 DEF On, Busy, GoesTo
      <4> QED
        BY <1>2, <3>1, <4>1 DEF WillBeRead, GoesTo
    <3>2. CASE v # w
      BY <1>2, <2>1, <3>2 DEF On, Busy, GoesTo, RestKeep, WillBeRead
    <3> QED
      BY <3>1, <3>2
  <2>2. \A v \in On(e)' : work'[v].pc \in Early
    BY <2>1 DEF On
  <2> QED
    BY <1>2, <2>2 DEF WillBeRead
<1> QED
  BY <1>1, <1>2 DEF Seen

\* A call that is past the order leaves.
LEMMA SeenAsOthersLeave ==
  ASSUME EventsHold, NEW w \in Workers, work[w].pc # "idle", Leaves(w),
         OtherEvents(work[w].slot), NEW p, Seen(p), work[w].pc \notin Early
  PROVE  Seen(p)'
<1>1. CASE Finishing(p)
  <2>1. PICK v \in Workers : work[v].pc \in {"consume", "refuse"} /\ work[v].of = p
    BY <1>1 DEF Finishing
  <2>2. work'[v] = work[v]
    BY <2>1 DEF Leaves, RestKeep, Early
  <2> QED
    BY <2>1, <2>2 DEF Seen, Finishing
<1>2. ASSUME NEW e \in Slots, WillBeRead(e, p)  PROVE WillBeRead(e, p)'
  <2>1. e # work[w].slot
    BY <1>2 DEF WillBeRead, On, Busy
  <2>2. events'[e] = events[e]
    BY <2>1 DEF OtherEvents
  <2>3. \A v \in On(e)' : v \in On(e) /\ work'[v] = work[v]
    BY DEF On, Busy, Leaves, RestKeep, NoCall
  <2> QED
    BY <1>2, <2>2, <2>3 DEF WillBeRead
<1> QED
  BY <1>1, <1>2 DEF Seen

\* A call of another payment writes its row or asks for its order.
LEMMA SeenOfOthers ==
  ASSUME EventsHold, NEW w \in Workers, work[w].pc # "idle", NEW pc, GoesTo(w, pc),
         events' = events, NEW p, Seen(p), work[w].of # p
  PROVE  Seen(p)'
<1>0. CallFits(work[w])
  BY CallAtWork
<1>1. CASE Finishing(p)
  <2>1. PICK v \in Workers : work[v].pc \in {"consume", "refuse"} /\ work[v].of = p
    BY <1>1 DEF Finishing
  <2>2. work'[v] = work[v]
    BY <2>1 DEF GoesTo, RestKeep
  <2> QED
    BY <2>1, <2>2 DEF Seen, Finishing
<1>2. ASSUME NEW e \in Slots, WillBeRead(e, p)  PROVE WillBeRead(e, p)'
  <2>1. e # work[w].slot
    BY <1>0, <1>2 DEF WillBeRead, CallFits
  <2>2. \A v \in On(e)' : v \in On(e) /\ work'[v] = work[v]
    BY <2>1 DEF On, Busy, GoesTo, RestKeep
  <2> QED
    BY <1>2, <2>2 DEF WillBeRead
<1> QED
  BY <1>1, <1>2 DEF Seen

\* A call takes an event: it is an early one.
LEMMA SeenAsTaken ==
  ASSUME EventsHold, NEW w \in Workers, NEW e \in Slots, Take(w, e), NEW p, Seen(p)
  PROVE  Seen(p)'
<1>0. /\ EventRow(events[e]) /\ Turns(e, "processing") /\ RestKeep(w)
      /\ work'[w].pc = "fetch" /\ work'[w].slot = e /\ events'[e].orphan = events[e].orphan
  BY TakeDoes
<1>1. CASE Finishing(p)
  <2>1. PICK v \in Workers : work[v].pc \in {"consume", "refuse"} /\ work[v].of = p
    BY <1>1 DEF Finishing
  <2>2. work'[v] = work[v]
    BY <1>0, <2>1 DEF RestKeep, Take, Busy
  <2> QED
    BY <2>1, <2>2 DEF Seen, Finishing
<1>2. ASSUME NEW f \in Slots, WillBeRead(f, p)  PROVE WillBeRead(f, p)'
  <2>1. /\ events'[f].state \in Open \cup {"dead"} /\ ~ events'[f].orphan
        /\ events'[f].of = p
    <3>1. CASE f = e
      BY <1>0, <1>2, <3>1 DEF WillBeRead, Turns, Open
    <3>2. CASE f # e
      BY <1>0, <1>2, <3>2 DEF WillBeRead, Turns, OtherEvents
    <3> QED
      BY <3>1, <3>2
  <2>2. ASSUME NEW v \in Workers, (v \in On(f))'  PROVE work'[v].pc \in Early
    <3>1. CASE v = w
      BY <1>0, <3>1 DEF Early
    <3>2. CASE v # w
      BY <1>0, <1>2, <2>2, <3>2 DEF On, Busy, RestKeep, WillBeRead
    <3> QED
      BY <3>1, <3>2
  <2>3. \A v \in On(f)' : work'[v].pc \in Early
    BY <2>2 DEF On
  <2> QED
    BY <2>1, <2>3 DEF WillBeRead
<1> QED
  BY <1>1, <1>2 DEF Seen

\* A fresh event takes no place of an event that will be read.
LEMMA SeenAsRecorded ==
  ASSUME EventsHold, NEW r \in Payments, RecordEvent(r), work' = work, NEW p, Seen(p)
  PROVE  Seen(p)'
<1>1. PICK e \in Slots : /\ On(e) = {}
                         /\ events[e].state \in {"free", "done"} \/ events[e].orphan
                         /\ OtherEvents(e)
  BY RecordEventDoes
<1>2. ASSUME NEW f \in Slots, WillBeRead(f, p)  PROVE WillBeRead(f, p)'
  <2>1. f # e
    BY <1>1, <1>2 DEF WillBeRead, Open
  <2>2. events'[f] = events[f]
    BY <1>1, <2>1 DEF OtherEvents
  <2>3. On(f)' = On(f)
    BY DEF On, Busy
  <2> QED
    BY <1>2, <2>2, <2>3 DEF WillBeRead
<1>3. Finishing(p) => Finishing(p)'
  BY DEF Finishing
<1> QED
  BY <1>2, <1>3 DEF Seen

\* Dead events become pending again: they will be read.
LEMMA SeenAsRedriven ==
  ASSUME EventsHold, Redrive, NEW p, Seen(p)
  PROVE  Seen(p)'
<1>1. work' = work
  BY RedriveDoes
<1>2. ASSUME NEW f \in Slots, WillBeRead(f, p)  PROVE WillBeRead(f, p)'
  <2>1. /\ events'[f].state \in Open \cup {"dead"} /\ ~ events'[f].orphan
        /\ events'[f].of = p
    BY <1>2, RedriveDoes DEF WillBeRead, Open
  <2>2. On(f)' = On(f)
    BY <1>1 DEF On, Busy
  <2> QED
    BY <1>1, <1>2, <2>1, <2>2 DEF WillBeRead
<1>3. Finishing(p) => Finishing(p)'
  BY <1>1 DEF Finishing
<1> QED
  BY <1>2, <1>3 DEF Seen

\* When the process dies, every event that is not settled will be read again.
LEMMA SeenAsKilled ==
  ASSUME EventsHold, Killed, NEW p, p \notin forsaken', Seen(p)
  PROVE  Seen(p)'
<1>1. /\ events' = events /\ DOMAIN work' = Workers /\ \A w \in Workers : work'[w] = NoCall
      /\ \A w \in Workers : Busy(w) /\ Settled(work[w].slot) => work[w].of \in forsaken'
  BY KilledDoes
<1>2. ASSUME NEW e \in Slots  PROVE On(e)' = {}
  BY <1>1 DEF On, Busy, NoCall
<1>3. ASSUME NEW e \in Slots, WillBeRead(e, p)  PROVE WillBeRead(e, p)'
  BY <1>1, <1>2, <1>3 DEF WillBeRead
<1>4. ASSUME NEW w \in Workers, NEW e \in Slots, work[w].slot = e,
             work[w].pc \in {"consume", "refuse"}, work[w].of = p
      PROVE  WillBeRead(e, p)'
  <2>1. Busy(w) /\ CallFits(work[w])
    BY <1>4, CallAtWork DEF Busy
  <2>2. ~ Settled(e)
    BY <1>1, <1>4, <2>1
  <2>3. /\ events[e].state \in Open \cup {"dead"} /\ ~ events[e].orphan
        /\ events[e].of = p
    BY <1>4, <2>1, <2>2 DEF Settled, CallFits, EventRow, Open
  <2> QED
    BY <1>1, <1>2, <2>3 DEF WillBeRead
<1>5. Finishing(p) => \E e \in Slots : WillBeRead(e, p)'
  <2> SUFFICES ASSUME NEW w \in Workers, work[w].pc \in {"consume", "refuse"}, work[w].of = p
               PROVE  \E e \in Slots : WillBeRead(e, p)'
    BY DEF Finishing
  <2>1. CallFits(work[w])
    BY CallAtWork
  <2>2. PICK e \in Slots : work[w].slot = e
    BY <2>1 DEF CallFits
  <2> QED
    BY <1>4, <2>2
<1> QED
  BY <1>3, <1>5 DEF Seen

\* A call that fails alone on its event leaves the event to the next one.
LEMMA SeenAsFailed ==
  ASSUME EventsHold, NEW w \in Workers, FailEvent(w), NEW p, p \notin forsaken', Seen(p)
  PROVE  Seen(p)'
<1>0. PICK e \in Slots : e = work[w].slot
  BY FailDoes DEF CallFits
<1>1. CallFits(work[w]) /\ work[w].pc # "idle"
  BY FailDoes
<1>2. PICK s \in {"dead", "pending"} : Turns(e, s)
  BY <1>0, FailDoes
<1>3. events'[e].orphan = FALSE /\ Leaves(w) /\ (On(e) # {w} => work[w].of \in forsaken')
  BY <1>0, FailDoes
<1>4. CASE work[w].of = p
  <2>1. On(e) = {w}
    BY <1>3, <1>4
  <2>2. \A v \in Workers : v \notin On(e)'
    BY <1>3, <2>1 DEF Leaves, RestKeep, On, Busy, NoCall
  <2>3. \A v \in On(e)' : work'[v].pc \in Early
    BY <2>2 DEF On
  <2>4. events'[e].state \in Open \cup {"dead"} /\ events'[e].of = p
    BY <1>0, <1>1, <1>2, <1>4 DEF Turns, CallFits, Open
  <2>5. WillBeRead(e, p)'
    BY <1>3, <2>3, <2>4 DEF WillBeRead
  <2> QED
    BY <2>5 DEF Seen
<1>5. CASE work[w].of # p
  <2>1. CASE Finishing(p)
    <3>1. PICK v \in Workers : work[v].pc \in {"consume", "refuse"} /\ work[v].of = p
      BY <2>1 DEF Finishing
    <3>2. work'[v] = work[v]
      BY <1>3, <1>5, <3>1 DEF Leaves, RestKeep
    <3> QED
      BY <3>1, <3>2 DEF Seen, Finishing
  <2>2. ASSUME NEW f \in Slots, WillBeRead(f, p)  PROVE WillBeRead(f, p)'
    <3>1. f # e
      BY <1>0, <1>1, <1>5, <2>2 DEF WillBeRead, CallFits
    <3>2. events'[f] = events[f]
      BY <1>2, <3>1 DEF Turns, OtherEvents
    <3>3. \A v \in On(f)' : v \in On(f) /\ work'[v] = work[v]
      BY <1>3 DEF On, Busy, Leaves, RestKeep, NoCall
    <3> QED
      BY <2>2, <3>2, <3>3 DEF WillBeRead
  <2> QED
    BY <2>1, <2>2 DEF Seen
<1> QED
  BY <1>4, <1>5

\* Nothing of the tables moves: a half row was one before, and stays seen.
LEMMA SeenOnStillTables ==
  ASSUME HalfIsSeen, UNCHANGED tables, forsaken \subseteq forsaken',
         \A p : Seen(p) /\ p \notin forsaken' => Seen(p)'
  PROVE  HalfIsSeen'
BY DEF HalfIsSeen, Half, tables

\* The written row is half only if its call asks for the order next.
LEMMA UpsertSeen ==
  ASSUME EventsHold, HalfIsSeen, NEW w \in Workers, Upsert(w)
  PROVE  HalfIsSeen'
<1>1. CallFits(work[w]) /\ work[w].pc # "idle"
  BY CallAtWork DEF Upsert, IsAt
<1>2. PICK pc \in {"consume", "orphan", "read", "finish"} : GoesTo(w, pc)
  BY UpsertDoes
<1>3. /\ UpsertRow(w, work[w].eligible)
      /\ Approved(work[w].snap) /\ work[w].eligible /\ work[w].of \in Ordered
           => work'[w].pc = "consume"
      /\ UNCHANGED <<events, consumed, forsaken>>
  BY UpsertDoes
<1>4. ASSUME NEW p \in Ordered \ forsaken, Half(p)', work[w].of = p  PROVE Seen(p)'
  <2>1. rows'[p].status = StatusOf(work[w].snap) /\ rows'[p].eligible = work[w].eligible
    BY <1>1, <1>3, <1>4, WrittenRow
  <2>2. work'[w].pc = "consume"
    BY <1>3, <1>4, <2>1 DEF Half, Approved
  <2>3. work'[w].of = p
    BY <1>2, <1>4 DEF GoesTo
  <2> QED
    BY <2>2, <2>3 DEF Seen, Finishing
<1>5. ASSUME NEW p \in Ordered \ forsaken, Half(p)', work[w].of # p  PROVE Seen(p)'
  <2>1. rows'[p] = rows[p]
    BY <1>1, <1>3, <1>5, WrittenRow, PaymentAssumption
  <2>2. Half(p)
    BY <1>3, <1>5, <2>1 DEF Half
  <2> QED
    BY <1>1, <1>2, <1>3, <1>5, <2>2, SeenOfOthers DEF HalfIsSeen
<1> QED
  BY <1>3, <1>4, <1>5 DEF HalfIsSeen

\* The order is taken, or the call goes on to refuse the row.
LEMMA ConsumeSeen ==
  ASSUME EventsHold, HalfIsSeen, NEW w \in Workers, Consume(w)
  PROVE  HalfIsSeen'
<1>1. CallFits(work[w]) /\ work[w].pc # "idle"
  BY CallAtWork DEF Consume, IsAt
<1>2. PICK pc \in {"orphan", "read", "finish", "refuse"} : GoesTo(w, pc)
  BY ConsumeDoes
<1>3. UNCHANGED <<events, rows, forsaken>>
  BY ConsumeDoes
<1>4. ASSUME NEW p \in Ordered \ forsaken, Half(p)', work[w].of = p  PROVE Seen(p)'
  <2>1. consumed' # {work[w].of}
    BY <1>4 DEF Half
  <2>2. GoesTo(w, "refuse")
    BY <2>1, ConsumeDoes
  <2> QED
    BY <1>4, <2>2 DEF Seen, Finishing, GoesTo
<1>5. ASSUME NEW p \in Ordered \ forsaken, Half(p)', work[w].of # p  PROVE Seen(p)'
  <2>1. consumed # {p}
    BY <1>5, ConsumeDoes DEF Half
  <2>2. Half(p)
    BY <1>3, <1>5, <2>1 DEF Half
  <2> QED
    BY <1>1, <1>2, <1>3, <1>5, <2>2, SeenOfOthers DEF HalfIsSeen
<1> QED
  BY <1>3, <1>4, <1>5 DEF HalfIsSeen

\* The refused row bought nothing.
LEMMA RefuseSeen ==
  ASSUME EventsHold, HalfIsSeen, NEW w \in Workers, Refuse(w)
  PROVE  HalfIsSeen'
<1>1. CallFits(work[w]) /\ work[w].pc # "idle"
  BY CallAtWork DEF Refuse, IsAt
<1>2. GoesTo(w, "finish") /\ UpsertRow(w, FALSE) /\ UNCHANGED <<events, consumed, forsaken>>
  BY RefuseDoes
<1>3. ASSUME NEW p \in Ordered \ forsaken, Half(p)'  PROVE work[w].of # p
  BY <1>1, <1>2, <1>3, WrittenRow DEF Half
<1>4. ASSUME NEW p \in Ordered \ forsaken, Half(p)'  PROVE Seen(p)'
  <2>1. rows'[p] = rows[p]
    BY <1>1, <1>2, <1>3, <1>4, WrittenRow, PaymentAssumption
  <2>2. Half(p)
    BY <1>2, <1>4, <2>1 DEF Half
  <2> QED
    BY <1>1, <1>2, <1>3, <1>4, <2>2, SeenOfOthers DEF HalfIsSeen
<1> QED
  BY <1>2, <1>4 DEF HalfIsSeen

\* Every step of processOne keeps half rows seen.
LEMMA StepsSeen ==
  ASSUME EventsHold, HalfIsSeen, NEW w \in Workers, CallStep(w)
  PROVE  HalfIsSeen'
<1>1. CASE Fetch(w)
  <2>1. work[w].pc = "fetch" /\ GoesTo(w, "assess") /\ UNCHANGED <<events, tables, forsaken>>
    BY <1>1, FetchDoes DEF Fetch, IsAt
  <2>2. ASSUME NEW p, Seen(p)  PROVE Seen(p)'
    BY <2>1, <2>2, SeenAsOthersGo DEF Early
  <2> QED
    BY <2>1, <2>2, SeenOnStillTables
<1>2. CASE Assess(w)
  <2>1. work[w].pc = "assess" /\ GoesTo(w, "upsert") /\ UNCHANGED <<events, tables, forsaken>>
    BY <1>2, AssessDoes DEF Assess, IsAt
  <2>2. ASSUME NEW p, Seen(p)  PROVE Seen(p)'
    BY <2>1, <2>2, SeenAsOthersGo DEF Early
  <2> QED
    BY <2>1, <2>2, SeenOnStillTables
<1>3. CASE Upsert(w)
  BY <1>3, UpsertSeen
<1>4. CASE Consume(w)
  BY <1>4, ConsumeSeen
<1>5. CASE Refuse(w)
  BY <1>5, RefuseSeen
<1>6. CASE Orphan(w)
  <2>1. /\ work[w].pc = "orphan" /\ Leaves(w) /\ OtherEvents(work[w].slot)
        /\ UNCHANGED <<tables, forsaken>>
    BY <1>6, OrphanDoes DEF Orphan, IsAt, Turns
  <2>2. ASSUME NEW p, Seen(p)  PROVE Seen(p)'
    BY <2>1, <2>2, SeenAsOthersLeave DEF Early
  <2> QED
    BY <2>1, <2>2, SeenOnStillTables
<1>7. CASE Read(w)
  <2>1. work[w].pc = "read" /\ GoesTo(w, "send") /\ UNCHANGED <<events, tables, forsaken>>
    BY <1>7, ReadDoes DEF Read, IsAt
  <2>2. ASSUME NEW p, Seen(p)  PROVE Seen(p)'
    BY <2>1, <2>2, SeenAsOthersGo DEF Early
  <2> QED
    BY <2>1, <2>2, SeenOnStillTables
<1>8. CASE Send(w)
  <2>1. work[w].pc = "send" /\ GoesTo(w, "sending") /\ UNCHANGED <<events, tables, forsaken>>
    BY <1>8, SendDoes DEF Send, IsAt
  <2>2. ASSUME NEW p, Seen(p)  PROVE Seen(p)'
    BY <2>1, <2>2, SeenAsOthersGo DEF Early
  <2> QED
    BY <2>1, <2>2, SeenOnStillTables
<1>9. CASE Record(w)
  <2>1. work[w].pc = "sending" /\ GoesTo(w, "finish") /\ UNCHANGED <<events, tables, forsaken>>
    BY <1>9, RecordDoes DEF Record, IsAt
  <2>2. ASSUME NEW p, Seen(p)  PROVE Seen(p)'
    BY <2>1, <2>2, SeenAsOthersGo DEF Early
  <2> QED
    BY <2>1, <2>2, SeenOnStillTables
<1>10. CASE Finish(w)
  <2>1. /\ work[w].pc = "finish" /\ Leaves(w) /\ OtherEvents(work[w].slot)
        /\ UNCHANGED <<tables, forsaken>>
    BY <1>10, FinishDoes DEF Finish, IsAt, Turns
  <2>2. ASSUME NEW p, Seen(p)  PROVE Seen(p)'
    BY <2>1, <2>2, SeenAsOthersLeave DEF Early
  <2> QED
    BY <2>1, <2>2, SeenOnStillTables
<1> QED
  BY <1>1, <1>2, <1>3, <1>4, <1>5, <1>6, <1>7, <1>8, <1>9, <1>10 DEF CallStep

\* So does every step of the queue.
LEMMA HalfStaysSeen ==
  ASSUME EventsHold, HalfIsSeen, [EventsNext]_eventVars
  PROVE  HalfIsSeen'
<1>1. ASSUME UNCHANGED <<events, work, tables, forsaken>>  PROVE HalfIsSeen'
  BY <1>1, SeenOnStillTables DEF Seen, Finishing, WillBeRead, On, Busy
<1>2. ASSUME NEW p \in Payments, NEW s \in Statuses, Change(p, s)  PROVE HalfIsSeen'
  <2>1. UNCHANGED <<events, work, rows, consumed, forsaken>>
    BY <1>2 DEF Change, hurt
  <2>2. \A q : Seen(q) => Seen(q)'
    BY <2>1 DEF Seen, Finishing, WillBeRead, On, Busy
  <2> QED
    BY <2>1, <2>2 DEF HalfIsSeen, Half
<1>3. ASSUME NEW p \in Payments, Webhook(p) \/ Reconcile(p)  PROVE HalfIsSeen'
  <2>1. RecordEvent(p) /\ work' = work /\ UNCHANGED <<tables, forsaken>>
    BY <1>3 DEF Webhook, Reconcile, hurt
  <2>2. ASSUME NEW q, Seen(q)  PROVE Seen(q)'
    BY <2>1, <2>2, SeenAsRecorded
  <2> QED
    BY <2>1, <2>2, SeenOnStillTables
<1>4. CASE Redrive
  <2>1. UNCHANGED <<tables, forsaken>>
    BY <1>4, RedriveDoes
  <2>2. ASSUME NEW q, Seen(q)  PROVE Seen(q)'
    BY <1>4, <2>2, SeenAsRedriven
  <2> QED
    BY <2>1, <2>2, SeenOnStillTables
<1>5. CASE Killed
  <2>1. UNCHANGED tables /\ forsaken \subseteq forsaken'
    BY <1>5, KilledDoes
  <2>2. ASSUME NEW q, Seen(q), q \notin forsaken'  PROVE Seen(q)'
    BY <1>5, <2>2, SeenAsKilled
  <2> QED
    BY <2>1, <2>2, SeenOnStillTables
<1>6. ASSUME NEW w \in Workers, NEW e \in Slots, Take(w, e)  PROVE HalfIsSeen'
  <2>1. UNCHANGED <<tables, forsaken>>
    BY <1>6, TakeDoes
  <2>2. ASSUME NEW q, Seen(q)  PROVE Seen(q)'
    BY <1>6, <2>2, SeenAsTaken
  <2> QED
    BY <2>1, <2>2, SeenOnStillTables
<1>7. ASSUME NEW w \in Workers, CallStep(w)  PROVE HalfIsSeen'
  BY <1>7, StepsSeen
<1>8. ASSUME NEW w \in Workers, FailEvent(w)  PROVE HalfIsSeen'
  <2>1. UNCHANGED tables /\ forsaken \subseteq forsaken'
    BY <1>8, FailDoes
  <2>2. ASSUME NEW q, Seen(q), q \notin forsaken'  PROVE Seen(q)'
    BY <1>8, <2>2, SeenAsFailed
  <2> QED
    BY <2>1, <2>2, SeenOnStillTables
<1>9. CASE UNCHANGED eventVars
  BY <1>1, <1>9 DEF eventVars, hurt
<1> QED
  BY <1>2, <1>3, <1>4, <1>5, <1>6, <1>7, <1>8, <1>9 DEF EventsNext

\* What is seen is at work.
LEMMA SeenSettles ==
  ASSUME EventsHold, HalfIsSeen
  PROVE  SettledRowsHoldTheOrder
<1>1. ASSUME NEW p \in Ordered \ forsaken, Seen(p)  PROVE AtWork(p)
  BY <1>1 DEF Seen, Finishing, WillBeRead, AtWork, Busy
<1> QED
  BY <1>1 DEF SettledRowsHoldTheOrder, HalfIsSeen, Half

\* Once nothing of a payment is at work, its row says it bought something only if it is
\* the payment that consumed the order (consumeOrder), however many processOne calls overlap,
\* fail, outlive their lease or die with the process: unless a call of that payment died
\* while another one had the same event too, or had finished it (failEvent and finishEvent
\* write the row whoever else is on it).
THEOREM SettledRowsAlwaysHold == EventsSpec => []SettledRowsHoldTheOrder
<1>1. EventsInit => EventsHold /\ HalfIsSeen
  BY HoldsAtFirst, PaymentAssumption DEF EventsInit, HalfIsSeen, Half, NoRow
<1>2. EventsHold /\ HalfIsSeen /\ [EventsNext]_eventVars => (EventsHold /\ HalfIsSeen)'
  BY EventsAlwaysFit, HalfStaysSeen
<1>3. EventsHold /\ HalfIsSeen => SettledRowsHoldTheOrder
  BY SeenSettles
<1> QED
  BY <1>1, <1>2, <1>3, PTL DEF EventsSpec
=============================================================================
