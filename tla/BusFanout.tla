------------------------------ MODULE BusFanout ------------------------------
(***************************************************************************)
(* From a publish to the services that run it: the publisher of             *)
(* api/src/bus.ts with its one shared confirm channel, the topology it      *)
(* declares, and a message that reaches every queue bound to its key, each  *)
(* consumed by another service.  BusDispatch has one queue in full detail;  *)
(* here there are several, and what they share is the claim store: api's    *)
(* worker and the queue service claim in one table, under the same key.     *)
(* RabbitMQ is external.                                                    *)
(***************************************************************************)
EXTENDS Integers, FiniteSets

CONSTANTS Publishes,    \* calls of publish, each of one message
          KeyOf,        \* publish -> its routing key
          Queues,       \* the services' queues
          Bound,        \* queue -> the keys its patterns match
          Shares,       \* queues whose consumers claim in the jobs table
          MAX_ATTEMPTS,
          MaxLinks,     \* bound: channels the publisher opens
          MaxTroubles   \* bound: broken links, unanswered publishes, failed handlers

ASSUME FanoutAssumption ==
  /\ Shares \subseteq Queues /\ {"free", "done"} \cap Queues = {}
  /\ MAX_ATTEMPTS \in Nat \ {0} /\ MaxLinks \in Nat /\ MaxTroubles \in Nat

VARIABLES publish,  \* where each publish is, and on which channel
          shared,   \* the shared link; 0 is null
          opening,  \* the promise of the next one is pending
          links,    \* links opened so far
          gone,     \* links the broker has closed
          ready,    \* copies that wait in a queue
          working,  \* copies in the hands of a handler
          tiers,    \* copies that wait in a delay queue
          claims,   \* claim store -> message -> its row
          ran,      \* history: which service ran which message
          dead,     \* dead letters: whose they are
          troubles

fanVars == <<publish, shared, opening, links, gone, ready, working, tiers, claims, ran, dead, troubles>>

ClaimStores == {"jobs"} \cup (Queues \ Shares)
StoreOf(q) == IF q \in Shares THEN "jobs" ELSE q
Unclaimed == "free"
Complete == "done"
Routed(c) == {q \in Queues : KeyOf[c] \in Bound[q]}

FanInit ==
  /\ publish = [c \in Publishes |-> [at |-> "new", on |-> 0]]
  /\ shared = 0 /\ opening = FALSE /\ links = 0 /\ gone = {}
  /\ ready = {} /\ working = {} /\ tiers = {}
  /\ claims = [s \in ClaimStores |-> [c \in Publishes |-> Unclaimed]]
  /\ ran = {} /\ dead = {} /\ troubles = 0

Trouble == troubles < MaxTroubles /\ troubles' = troubles + 1
-----------------------------------------------------------------------------
\* ensureChannel: the shared link, or the one somebody is opening, or a new one.
Publish(c) ==
  /\ publish[c].at = "new"
  /\ IF shared # 0
     THEN publish' = [publish EXCEPT ![c] = [at |-> "send", on |-> shared]] /\ UNCHANGED opening
     ELSE publish' = [publish EXCEPT ![c].at = "link"] /\ opening' = TRUE
  /\ UNCHANGED <<shared, links, gone, ready, working, tiers, claims, ran, dead, troubles>>

\* The link is there, with the topology declared on it, and all who wait go on with it.
Opens ==
  /\ opening /\ links < MaxLinks
  /\ opening' = FALSE /\ links' = links + 1 /\ shared' = links + 1
  /\ publish' = [c \in Publishes |-> IF publish[c].at = "link" THEN [at |-> "send", on |-> links + 1]
                              ELSE publish[c]]
  /\ UNCHANGED <<gone, ready, working, tiers, claims, ran, dead, troubles>>

\* Opening fails for all who wait; each of them drops the shared link.
OpenFails ==
  /\ opening /\ Trouble /\ opening' = FALSE /\ shared' = 0
  /\ publish' = [c \in Publishes |-> IF publish[c].at = "link" THEN [at |-> "not", on |-> 0] ELSE publish[c]]
  /\ UNCHANGED <<links, gone, ready, working, tiers, claims, ran, dead>>

\* The broker closes a link: the close handler forgets it, if it is still the shared one.
Closes(l) ==
  /\ l \in 1..links \ gone /\ Trouble /\ gone' = gone \cup {l}
  /\ shared' = IF shared = l THEN 0 ELSE shared
  /\ UNCHANGED <<publish, opening, links, ready, working, tiers, claims, ran, dead>>

Copy(c, q, n, from) == [of |-> c, q |-> q, attempt |-> n, from |-> from]

\* topology: a topic exchange hands a message to every queue with a matching pattern.
FanOut(c, n, from) == {Copy(c, q, n, from) : q \in Routed(c)}

\* publishOn: the message is on its way, mandatory; a channel that is gone throws.
Sends(c) ==
  /\ publish[c].at = "send"
  /\ IF publish[c].on \in gone
     THEN publish' = [publish EXCEPT ![c].at = "not"] /\ shared' = 0 /\ UNCHANGED ready
     ELSE /\ publish' = [publish EXCEPT ![c].at = "confirm"]
          /\ ready' = ready \cup FanOut(c, 1, "first") /\ UNCHANGED shared
  /\ UNCHANGED <<opening, links, gone, working, tiers, claims, ran, dead, troubles>>

\* Mutant: the confirm alone decides.
TakenByConfirm(c) == TRUE
\* A message that no queue takes is returned before it is confirmed.
TakenBy(c) == Routed(c) # {}

Confirmed(c) ==
  /\ publish[c].at = "confirm" /\ publish[c].on \notin gone
  /\ publish' = [publish EXCEPT ![c].at = IF TakenBy(c) THEN "published" ELSE "not"]
  /\ shared' = IF TakenBy(c) THEN shared ELSE 0
  /\ UNCHANGED <<opening, links, gone, ready, working, tiers, claims, ran, dead, troubles>>

\* No confirm comes: the timeout ends the publish, and whatever link is shared by then
\* is dropped, open or not.
TimesOut(c) ==
  /\ publish[c].at = "confirm" /\ (publish[c].on \notin gone => troubles < MaxTroubles)
  /\ troubles' = IF publish[c].on \in gone THEN troubles ELSE troubles + 1
  /\ publish' = [publish EXCEPT ![c].at = "not"] /\ shared' = 0
  /\ UNCHANGED <<opening, links, gone, ready, working, tiers, claims, ran, dead>>
-----------------------------------------------------------------------------
\* Mutant: the key of the retry is dropped, so that only the tier's name routes it.
RequeuedNowhere(t) == {}
\* A delay queue is emptied into the main exchange under the first routing key, so
\* the retry reaches every queue again.
Requeued(t) == FanOut(t.of, t.attempt, t.from)
TierEnds(t) ==
  /\ t \in tiers /\ tiers' = tiers \ {t} /\ ready' = ready \cup Requeued(t)
  /\ UNCHANGED <<publish, shared, opening, links, gone, working, claims, ran, dead, troubles>>

SetClaim(k, v) == claims' = [claims EXCEPT ![StoreOf(k.q)][k.of] = v]

\* pgClaims: a row that is free, or held by this worker; a message that is somebody
\* else's, or done, is acked as a duplicate.
Delivers(k) ==
  /\ k \in ready /\ ready' = ready \ {k}
  /\ IF claims[StoreOf(k.q)][k.of] \in {Unclaimed, k.q}
     THEN SetClaim(k, k.q) /\ working' = working \cup {k}
     ELSE UNCHANGED <<claims, working>>
  /\ UNCHANGED <<publish, shared, opening, links, gone, tiers, ran, dead, troubles>>

Succeeds(k) ==
  /\ k \in working /\ working' = working \ {k}
  /\ ran' = ran \cup {<<k.q, k.of>>} /\ SetClaim(k, Complete)
  /\ UNCHANGED <<publish, shared, opening, links, gone, ready, tiers, dead, troubles>>

\* The claim is released, and the message goes to the retry ladder, or to the dead
\* letters after its last attempt.
HandlerFails(k) ==
  /\ k \in working /\ Trouble /\ working' = working \ {k}
  /\ claims' = [claims EXCEPT ![StoreOf(k.q)][k.of] = IF @ = k.q THEN Unclaimed ELSE @]
  /\ IF k.attempt >= MAX_ATTEMPTS
     THEN dead' = dead \cup {<<k.q, k.of>>} /\ UNCHANGED tiers
     ELSE tiers' = tiers \cup {[of |-> k.of, attempt |-> k.attempt + 1, from |-> k.q]}
          /\ UNCHANGED dead
  /\ UNCHANGED <<publish, shared, opening, links, gone, ready, ran>>

FanNext ==
  \/ \E c \in Publishes : Publish(c) \/ Sends(c) \/ Confirmed(c) \/ TimesOut(c)
  \/ Opens \/ OpenFails \/ \E l \in 1..MaxLinks : Closes(l)
  \/ \E t \in tiers : TierEnds(t)
  \/ \E k \in ready : Delivers(k)
  \/ \E k \in working : Succeeds(k) \/ HandlerFails(k)
FanSpec == FanInit /\ [][FanNext]_fanVars
-----------------------------------------------------------------------------
Travels(c) == \E k \in ready \cup working \cup tiers : k.of = c
SomeOf(s, c, S) == \E q \in Routed(c) : StoreOf(q) = s /\ <<q, c>> \in S

\* A publish that was reported as published is in a queue, at work, or was run, or is
\* a dead letter, once in each claim store that has a queue bound to it: a return is
\* not taken for a confirm, and the copies of one message do not talk each other out
\* of running it.
PublishedIsRun ==
  \A c \in Publishes :
    publish[c].at = "published" =>
      /\ Routed(c) # {}
      /\ Travels(c) \/ \A q \in Routed(c) : SomeOf(StoreOf(q), c, ran \cup dead)

\* What queue/tools/smoke.sh and api/src/worker.ts say of bus.echo: one message, and
\* every service bound to it runs it.
EveryBoundServiceRuns ==
  \A c \in Publishes :
    publish[c].at = "published" /\ ~Travels(c)
      => \A q \in Routed(c) : <<q, c>> \in ran \cup dead
=============================================================================
