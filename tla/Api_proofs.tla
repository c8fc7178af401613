----------------------------- MODULE Api_proofs -----------------------------
(***************************************************************************)
(* What the api rests on, for every number of events, calls and people: a   *)
(* recorded grant opens the account (Access), the free plan's ceilings hold *)
(* (ChatSpend), what the data client was answered stands (DataClient), what *)
(* was published runs in every service bound to it (BusFanout), and what    *)
(* was stored of a conversation is shown (Threads).  Each part states its   *)
(* inductive invariant, that the initial states have it and every step      *)
(* keeps it, and that it implies the property.                              *)
(***************************************************************************)
EXTENDS Access, ChatSpend, DataClient, BusFanout, Threads, FiniteSetTheorems, TLAPS

-----------------------------------------------------------------------------
(* The entitlement of an account: auth's record and apply, the api's access events. *)

\* A write that nothing has overtaken opens what is open, and the sweep's closes nothing.
WritersAreFresh ==
  /\ \A e \in Events : ev[e].at = "writing" /\ ~ev[e].stale /\ Open => ev[e].open
  /\ sweep.at = "writing" /\ ~sweep.stale => ~Open

\* Who is closed though a grant is open is about to be written.
Pending(e) == (<<e, TRUE>> \in keys \/ <<e, FALSE>> \in keys) /\ ev[e].at \notin {"answered", "done"}
SomebodyWrites == Open /\ ~paid /\ ~overtaken => \E e \in Events : Pending(e)

StampsAreHanded == \A e \in Events : ev[e].at = "posted" => ev[e].stamp <= stamped

AccessInv == AccessTypeOK /\ StampsAreHanded /\ WritersAreFresh /\ SomebodyWrites

Kept == [at: {"due", "upserted", "recorded", "answered", "done"}, of: Grants]
Fetched == [at: {"fetched"}, of: Grants, snap: [on: BOOLEAN, end: EndTimes]]
Derived == [at: {"derived"}, of: Grants, state: State]
Posted == [at: {"posted"}, of: Grants, state: State, stamp: Nat]
Writing == [at: {"writing"}, of: Grants, open: BOOLEAN, stale: BOOLEAN]

\* An event of a phase has that phase's fields.
LEMMA Phases ==
  ASSUME NEW x \in Phase
  PROVE  /\ x.at \in {"due", "upserted", "recorded", "answered", "done"} => x \in Kept
         /\ x.at = "fetched" => x \in Fetched
         /\ x.at = "derived" => x \in Derived
         /\ x.at = "posted" => x \in Posted
         /\ x.at = "writing" => x \in Writing
         /\ x.at # "unused" => x.of \in Grants
BY DEF Phase, Unused, Kept, Fetched, Derived, Posted, Writing

LEMMA AllPhases ==
  /\ Unused \in Phase /\ Kept \subseteq Phase /\ Fetched \subseteq Phase
  /\ Derived \subseteq Phase /\ Posted \subseteq Phase /\ Writing \subseteq Phase
BY DEF Phase, Kept, Fetched, Derived, Posted, Writing

\* An entry that is marked as overtaken keeps its place.
LEMMA StaleKeeps ==
  ASSUME NEW x \in Phase
  PROVE  /\ Stale(x) \in Phase /\ Stale(x).at = x.at
         /\ x.at = "writing" => Stale(x).stale
         /\ x.at # "writing" => Stale(x) = x
<1>1. CASE x.at = "writing"
  <2>1. x \in Writing
    BY <1>1, Phases
  <2>2. Stale(x) = [x EXCEPT !.stale = TRUE]
    BY <1>1 DEF Stale
  <2> QED
    BY <1>1, <2>1, <2>2, AllPhases DEF Writing
<1>2. CASE x.at # "writing"
  BY <1>2 DEF Stale
<1> QED
  BY <1>1, <1>2

\* The sweep is idle or writes; it too is marked.
LEMMA Sweepings ==
  /\ [at |-> "idle"].at = "idle"
  /\ \A x \in {[at |-> "idle"]} \cup [at: {"writing"}, stale: BOOLEAN] :
       /\ x.at \in {"idle", "writing"} /\ (x.at = "writing" => x.stale \in BOOLEAN)
       /\ Stale(x) \in {[at |-> "idle"]} \cup [at: {"writing"}, stale: BOOLEAN]
       /\ Stale(x).at = "writing" => Stale(x).stale
  /\ [at |-> "writing", stale |-> FALSE] \in [at: {"writing"}, stale: BOOLEAN]
  /\ [at |-> "writing", stale |-> FALSE].at = "writing"
  /\ [at |-> "writing", stale |-> FALSE].stale = FALSE
<1>1. ASSUME NEW x \in [at: {"writing"}, stale: BOOLEAN]
      PROVE  Stale(x) \in [at: {"writing"}, stale: BOOLEAN] /\ Stale(x).stale
  BY <1>1 DEF Stale
<1> QED
  BY <1>1 DEF Stale

\* The clock closes grants and opens none.
LEMMA TimeOnlyCloses ==
  ASSUME AccessTypeOK, now' = now + 1, latest' = latest, Open'
  PROVE  Open
<1>1. PICK g \in Grants : latest'[g].active /\ latest'[g].end > now'
  BY DEF Open
<1>2. latest[g].end \in Nat /\ now \in Nat
  BY AccessAssumption DEF AccessTypeOK, EndTimes
<1>3. latest[g].end > now
  BY <1>1, <1>2
<1> QED
  BY <1>1, <1>3 DEF Open

LEMMA AccessStarts == AccessInit => AccessInv
<1> SUFFICES ASSUME AccessInit PROVE AccessInv
  OBVIOUS
<1>1. AccessTypeOK
  <2>1. 0 \in 0..MaxNow /\ 0 \in EndTimes /\ 0 \in 0..0 /\ 0 \in 0..MaxMisses
    BY AccessAssumption DEF EndTimes
  <2>2. truth \in [Grants -> [on: BOOLEAN, end: EndTimes]] /\ stored = truth
    BY <2>1 DEF AccessInit, NoGrant
  <2>3. latest \in [Grants -> [active: BOOLEAN, end: EndTimes, stamp: 0..0]]
    BY <2>1 DEF AccessInit
  <2>4. ev \in [Events -> Phase]
    BY AllPhases DEF AccessInit
  <2> QED
    BY <2>1, <2>2, <2>3, <2>4 DEF AccessInit, AccessTypeOK
<1>2. ~Open
  BY DEF AccessInit, Open
<1> QED
  BY <1>1, <1>2 DEF AccessInit, AccessInv, StampsAreHanded, WritersAreFresh, SomebodyWrites, Unused

\* A step of one event that leaves it short of its answer.
LEMMA MovesOn ==
  ASSUME AccessInv, NEW e \in Events, NEW x \in Phase, x.at \notin {"writing", "answered", "done"},
         ev' = [ev EXCEPT ![e] = x], UNCHANGED <<now, latest, keys, paid, sweep, overtaken>>
  PROVE  WritersAreFresh' /\ SomebodyWrites'
<1>1. ev'[e] = x /\ \A d \in Events \ {e} : ev'[d] = ev[d]
  BY DEF AccessInv, AccessTypeOK
<1>2. Open' = Open
  BY DEF Open
<1>3. \A d \in Events : Pending(d) => (Pending(d))'
  BY <1>1 DEF Pending
<1>4. WritersAreFresh'
  BY <1>1, <1>2 DEF AccessInv, WritersAreFresh
<1>5. SomebodyWrites'
  BY <1>2, <1>3 DEF AccessInv, SomebodyWrites
<1> QED
  BY <1>4, <1>5

LEMMA AccessSteps == AccessInv /\ [AccessNext]_accessVars => AccessInv'
<1> SUFFICES ASSUME AccessInv, [AccessNext]_accessVars PROVE AccessInv'
  OBVIOUS
<1> USE AccessAssumption
<1>0. AccessTypeOK /\ StampsAreHanded /\ WritersAreFresh /\ SomebodyWrites
  BY DEF AccessInv
<1>1. ASSUME UNCHANGED accessVars PROVE AccessInv'
  BY <1>0, <1>1 DEF accessVars, AccessInv, AccessTypeOK, StampsAreHanded, WritersAreFresh,
                    SomebodyWrites, Pending, Open
<1>2. ASSUME Tick PROVE AccessInv'
  <2>1. Open' => Open
    BY <1>0, <1>2, TimeOnlyCloses DEF Tick
  <2>2. AccessTypeOK'
    BY <1>0, <1>2 DEF Tick, AccessTypeOK
  <2> QED
    BY <1>0, <1>2, <2>1, <2>2 DEF Tick, AccessInv, StampsAreHanded, WritersAreFresh, SomebodyWrites, Pending
<1>3. ASSUME NEW g \in Grants, Changes(g) PROVE AccessInv'
  <2>1. truth' \in [Grants -> [on: BOOLEAN, end: EndTimes]]
    <3>1. PICK r \in {NoGrant} \cup [on: {TRUE}, end: {t \in EndTimes : t > now}] :
            truth' = [truth EXCEPT ![g] = r]
      BY <1>3 DEF Changes
    <3>2. r \in [on: BOOLEAN, end: EndTimes]
      <4>1. 0 \in EndTimes
        BY DEF EndTimes
      <4>2. CASE r = NoGrant
        BY <4>1, <4>2 DEF NoGrant
      <4>3. CASE r \in [on: {TRUE}, end: {t \in EndTimes : t > now}]
        BY <4>3
      <4> QED
        BY <4>2, <4>3
    <3> QED
      BY <1>0, <3>1, <3>2 DEF AccessTypeOK
  <2>2. CASE UNCHANGED ev
    <3>1. Open' = Open
      BY <1>3 DEF Changes, Open
    <3>2. AccessTypeOK'
      BY <1>0, <1>3, <2>1, <2>2 DEF Changes, AccessTypeOK
    <3> QED
      BY <1>0, <1>3, <2>2, <3>1, <3>2 DEF Changes, AccessInv, StampsAreHanded, WritersAreFresh,
                                          SomebodyWrites, Pending
  <2>3. ASSUME NEW e \in Events, ev[e] = Unused, ev' = [ev EXCEPT ![e] = [at |-> "due", of |-> g]],
               UNCHANGED misses
        PROVE AccessInv'
    <3>1. [at |-> "due", of |-> g] \in Phase
      BY AllPhases DEF Kept
    <3>2. AccessTypeOK'
      BY <1>0, <1>3, <2>1, <2>3, <3>1 DEF Changes, AccessTypeOK
    <3>3. StampsAreHanded'
      BY <1>0, <1>3, <2>3 DEF Changes, StampsAreHanded, AccessTypeOK
    <3> QED
      BY <1>3, <2>3, <3>1, <3>2, <3>3, MovesOn DEF Changes, AccessInv
  <2> QED
    BY <1>3, <2>2, <2>3 DEF Changes
<1>4. ASSUME NEW e \in Events, Fetches(e) PROVE AccessInv'
  <2> DEFINE x == [at |-> "fetched", of |-> ev[e].of, snap |-> truth[ev[e].of]]
  <2>1. x \in Phase
    BY <1>0, <1>4, Phases, AllPhases DEF Fetches, AccessTypeOK, Fetched
  <2>2. AccessTypeOK' /\ StampsAreHanded'
    BY <1>0, <1>4, <2>1 DEF Fetches, AccessTypeOK, StampsAreHanded
  <2> QED
    BY <1>4, <2>1, <2>2, MovesOn DEF Fetches, AccessInv
<1>5. ASSUME NEW e \in Events, Upserts(e) PROVE AccessInv'
  <2> DEFINE x == [at |-> "upserted", of |-> ev[e].of]
  <2>1. ev[e] \in Fetched
    BY <1>0, <1>5, Phases DEF Upserts, AccessTypeOK
  <2>2. x \in Phase
    BY <2>1, AllPhases DEF Kept, Fetched
  <2>3. AccessTypeOK' /\ StampsAreHanded'
    BY <1>0, <1>5, <2>1, <2>2 DEF Upserts, AccessTypeOK, StampsAreHanded, Fetched
  <2> QED
    BY <1>5, <2>2, <2>3, MovesOn DEF Upserts, AccessInv
<1>6. ASSUME NEW e \in Events, Derives(e) PROVE AccessInv'
  <2> DEFINE x == [at |-> "derived", of |-> ev[e].of, state |-> Derive(stored[ev[e].of])]
  <2>1. ev[e].of \in Grants
    BY <1>0, <1>6, Phases DEF Derives, AccessTypeOK
  <2>2. Derive(stored[ev[e].of]) \in State
    BY <1>0, <2>1 DEF AccessTypeOK, Derive, State, EndTimes
  <2>3. x \in Phase
    BY <2>1, <2>2, AllPhases DEF Derived
  <2>4. AccessTypeOK' /\ StampsAreHanded'
    BY <1>0, <1>6, <2>3 DEF Derives, AccessTypeOK, StampsAreHanded
  <2> QED
    BY <1>6, <2>3, <2>4, MovesOn DEF Derives, AccessInv
<1>7. ASSUME NEW e \in Events, Posts(e) PROVE AccessInv'
  <2> DEFINE x == [at |-> "posted", of |-> ev[e].of, state |-> ev[e].state, stamp |-> stamped + 1]
  <2>1. ev[e] \in Derived /\ stamped \in Nat
    BY <1>0, <1>7, Phases DEF Posts, AccessTypeOK
  <2>2. x \in Phase
    BY <2>1, AllPhases DEF Derived, Posted
  <2>3. latest' \in [Grants -> [active: BOOLEAN, end: EndTimes, stamp: 0..stamped']]
    BY <1>0, <1>7 DEF Posts, AccessTypeOK
  <2>4. AccessTypeOK'
    BY <1>0, <1>7, <2>1, <2>2, <2>3 DEF Posts, AccessTypeOK
  <2>5. \A d \in Events : ev[d].at = "posted" => ev[d].stamp \in Nat
    BY <1>0, Phases DEF AccessTypeOK, Posted
  <2>6. StampsAreHanded'
    BY <1>0, <1>7, <2>1, <2>5 DEF Posts, AccessTypeOK, StampsAreHanded
  <2> QED
    BY <1>7, <2>2, <2>4, <2>6, MovesOn DEF Posts, AccessInv
<1>8. ASSUME NEW e \in Events, Records(e) PROVE AccessInv'
  <2>1. ev[e] \in Posted /\ ev[e].stamp <= stamped
    BY <1>0, <1>8, Phases DEF Records, AccessTypeOK, StampsAreHanded
  <2>2. /\ ev'[e] = [at |-> "recorded", of |-> ev[e].of]
        /\ \A d \in Events \ {e} : ev'[d] = Stale(ev[d])
        /\ DOMAIN ev' = Events /\ ev' = [d \in Events |-> ev'[d]]
    BY <1>8 DEF Records, Body
  <2>3. \A d \in Events : ev'[d] \in Phase
    BY <1>0, <2>1, <2>2, StaleKeeps, AllPhases DEF AccessTypeOK, Posted, Kept
  <2>4. latest' \in [Grants -> [active: BOOLEAN, end: EndTimes, stamp: 0..stamped]]
    <3>1. [active |-> ev[e].state.active, end |-> ev[e].state.end, stamp |-> ev[e].stamp]
            \in [active: BOOLEAN, end: EndTimes, stamp: 0..stamped]
      BY <1>0, <2>1 DEF Posted, State, AccessTypeOK
    <3> QED
      BY <1>0, <1>8, <3>1 DEF Records, Body, AccessTypeOK
  <2>5. keys' \subseteq Events \X BOOLEAN
    BY <1>0, <1>8, <2>1 DEF Records, Body, AccessTypeOK, Posted, State
  <2>6. /\ sweep' \in {[at |-> "idle"]} \cup [at: {"writing"}, stale: BOOLEAN]
        /\ sweep'.at = "writing" => sweep'.stale
    BY <1>0, <1>8, Sweepings DEF Records, AccessTypeOK
  <2>7. AccessTypeOK'
    BY <1>0, <1>8, <2>2, <2>3, <2>4, <2>5, <2>6 DEF Records, AccessTypeOK
  <2>8. StampsAreHanded'
    BY <1>0, <1>8, <2>2, StaleKeeps DEF Records, StampsAreHanded, AccessTypeOK
  <2>9. WritersAreFresh'
    BY <1>0, <2>2, <2>6, StaleKeeps DEF WritersAreFresh, AccessTypeOK
  <2>10. <<e, TRUE>> \in keys' \/ <<e, FALSE>> \in keys'
    BY <1>8, <2>1 DEF Records, Body, Posted, State
  <2>11. SomebodyWrites'
    <3>1. (Pending(e))'
      BY <2>2, <2>10 DEF Pending
    <3> QED
      BY <3>1 DEF SomebodyWrites
  <2> QED
    BY <2>7, <2>8, <2>9, <2>11 DEF AccessInv
<1>9. ASSUME NEW e \in Events, Applies(e) PROVE AccessInv'
  <2> DEFINE x == [at |-> "writing", of |-> ev[e].of, open |-> Open, stale |-> FALSE]
  <2>1. ev[e].of \in Grants
    BY <1>0, <1>9, Phases DEF Applies, AccessTypeOK
  <2>2. Open \in BOOLEAN
    BY DEF Open
  <2>3. x \in Phase
    BY <2>1, <2>2, AllPhases DEF Writing
  <2>4. Open' = Open
    BY <1>9 DEF Applies, Open
  <2>5. ev'[e] = x /\ \A d \in Events \ {e} : ev'[d] = ev[d]
    BY <1>0, <1>9 DEF Applies, AccessTypeOK
  <2>6. AccessTypeOK' /\ StampsAreHanded'
    BY <1>0, <1>9, <2>3 DEF Applies, AccessTypeOK, StampsAreHanded
  <2>7. WritersAreFresh'
    BY <1>0, <1>9, <2>4, <2>5 DEF Applies, WritersAreFresh
  <2>8. \A d \in Events : Pending(d) => (Pending(d))'
    BY <1>9, <2>5 DEF Applies, Pending
  <2>9. SomebodyWrites'
    BY <1>0, <1>9, <2>4, <2>8 DEF Applies, SomebodyWrites
  <2> QED
    BY <2>6, <2>7, <2>9 DEF AccessInv
<1>10. ASSUME NEW e \in Events, Writes(e) PROVE AccessInv'
  <2>1. ev[e] \in Writing
    BY <1>0, <1>10, Phases DEF Writes, AccessTypeOK
  <2>2. [at |-> "answered", of |-> ev[e].of] \in Phase
    BY <2>1, AllPhases DEF Kept, Writing
  <2>3. AccessTypeOK' /\ StampsAreHanded'
    BY <1>0, <1>10, <2>1, <2>2 DEF Writes, AccessTypeOK, StampsAreHanded, Writing
  <2>4. Open' = Open
    BY <1>10 DEF Writes, Open
  <2>5. WritersAreFresh'
    BY <1>0, <1>10, <2>4 DEF Writes, WritersAreFresh, AccessTypeOK
  <2>6. SomebodyWrites'
    BY <1>0, <1>10, <2>1, <2>4 DEF Writes, WritersAreFresh, SomebodyWrites, Writing
  <2> QED
    BY <2>3, <2>5, <2>6 DEF AccessInv
<1>11. ASSUME NEW e \in Events, Finishes(e) PROVE AccessInv'
  <2>1. [at |-> "done", of |-> ev[e].of] \in Phase
    BY <1>0, <1>11, Phases, AllPhases DEF Finishes, AccessTypeOK, Kept
  <2>2. AccessTypeOK' /\ StampsAreHanded'
    BY <1>0, <1>11, <2>1 DEF Finishes, AccessTypeOK, StampsAreHanded
  <2>3. Open' = Open
    BY <1>11 DEF Finishes, Open
  <2>4. \A d \in Events : Pending(d) => (Pending(d))'
    BY <1>0, <1>11 DEF Finishes, Pending, AccessTypeOK
  <2>5. WritersAreFresh'
    BY <1>0, <1>11, <2>3 DEF Finishes, WritersAreFresh, AccessTypeOK
  <2>6. SomebodyWrites'
    BY <1>0, <1>11, <2>3, <2>4 DEF Finishes, SomebodyWrites
  <2> QED
    BY <2>2, <2>5, <2>6 DEF AccessInv
<1>12. ASSUME NEW e \in Events, Fails(e) PROVE AccessInv'
  <2>1. [at |-> "due", of |-> ev[e].of] \in Phase
    BY <1>0, <1>12, Phases, AllPhases DEF Fails, AccessTypeOK, Kept
  <2>2. AccessTypeOK' /\ StampsAreHanded'
    BY <1>0, <1>12, <2>1 DEF Fails, AccessTypeOK, StampsAreHanded
  <2> QED
    BY <1>12, <2>1, <2>2, MovesOn DEF Fails, AccessInv
<1>13. ASSUME Sweeps \/ SweepCloses PROVE AccessInv'
  <2>1. Open' = Open
    BY <1>13 DEF Sweeps, SweepCloses, Open
  <2>2. AccessTypeOK' /\ StampsAreHanded'
    <3>1. sweep' \in {[at |-> "idle"]} \cup [at: {"writing"}, stale: BOOLEAN]
      BY <1>13, Sweepings DEF Sweeps, SweepCloses
    <3>2. paid' \in BOOLEAN /\ overtaken' \in BOOLEAN
      BY <1>0, <1>13, Sweepings DEF Sweeps, SweepCloses, AccessTypeOK
    <3> QED
      BY <1>0, <1>13, <3>1, <3>2 DEF Sweeps, SweepCloses, AccessTypeOK, StampsAreHanded
  <2>3. WritersAreFresh'
    BY <1>0, <1>13, <2>1, Sweepings DEF Sweeps, SweepCloses, WritersAreFresh
  <2>4. \A d \in Events : Pending(d) => (Pending(d))'
    BY <1>13 DEF Sweeps, SweepCloses, Pending
  <2>5. SomebodyWrites'
    BY <1>0, <1>13, <2>1, <2>4, Sweepings DEF Sweeps, SweepCloses, WritersAreFresh, SomebodyWrites,
                                              AccessTypeOK
  <2> QED
    BY <2>2, <2>3, <2>5 DEF AccessInv
<1> QED
  BY <1>1, <1>2, <1>3, <1>4, <1>5, <1>6, <1>7, <1>8, <1>9, <1>10, <1>11, <1>12, <1>13
     DEF AccessNext, Process

\* A grant that is recorded and has not ended opens the course once its events have been
\* processed, whatever is repeated, fails between the two calls or lapses meanwhile:
\* only a statement that another record has overtaken can leave it closed.
THEOREM RecordsOpen == AccessSpec => []RecordedGrantOpens
<1>1. AccessInv => RecordedGrantOpens
  BY DEF AccessInv, SomebodyWrites, Pending, RecordedGrantOpens
<1> QED
  BY <1>1, AccessStarts, AccessSteps, PTL DEF AccessSpec

-----------------------------------------------------------------------------
(* The ceilings of the chat: what is counted, what is let past, what is still billed. *)

\* A request that has counted itself under a question key, one that has also been let
\* past its cap, and is not billed yet.
Bumped(c, k) ==
  \/ c.at \in {"ownRead", "all", "allRead", "tok", "tokAll"} /\ k = OwnKey(c.lane, c.u, c.day)
  \/ c.at \in {"allRead", "tok", "tokAll"} /\ k = AllKey(c.lane, c.day)
Passed(c, k) ==
  \/ c.at \in {"all", "allRead", "tok", "tokAll"} /\ k = OwnKey(c.lane, c.u, c.day)
  \/ c.at \in {"tok", "tokAll"} /\ k = AllKey(c.lane, c.day)

\* A request that may still count tokens under a key without looking at it again: it is
\* past its ceiling, or of a day before, and reads the day anew after the answer.
DayOf(k) == IF k[1] = "tok" THEN k[3] ELSE k[2]
Bills(c, k) ==
  /\ c.at \notin {"none", "store"}
  /\ k[1] = "tok" => k[2] = c.u
  /\ \/ c.day < DayOf(k) /\ c.at \notin {"billOwn", "billAll"}
     \/ c.day = DayOf(k) /\ \/ c.at \in {"ask", "billOwn"}
                            \/ c.at = "billAll" /\ k[1] = "tokAll"
                            \/ c.at = "tokAll" /\ ~c.over /\ k[1] = "tok"

Bumpers(old, k) == {s \in Requests : Bumped(old[s], k)}
Passers(old, k) == {s \in Requests : Passed(old[s], k)}
Billers(old, k) == {s \in Requests : Bills(old[s], k)}

QuestionsCounted == \A k \in QuestionKeys : asked[k] + Cardinality(Bumpers(chat, k)) <= n[k]
QuestionsCapped == \A k \in QuestionKeys : asked[k] + Cardinality(Passers(chat, k)) <= Cap(k)
TokensBounded ==
  \A k \in TokenKeys :
    n[k] > Cap(k) =>
      n[k] + Cardinality(Billers(chat, k)) * Turn <= Cap(k) + (Cardinality(Requests) + unanswered) * Turn
DaysPast ==
  /\ \A s \in Requests : chat[s] # Free => chat[s].day <= today
  /\ \A k \in TokenKeys : DayOf(k) > today => n[k] = 0

ChatInv == ChatTypeOK /\ QuestionsCounted /\ QuestionsCapped /\ TokensBounded /\ DaysPast

-----------------------------------------------------------------------------
Stages == {"own", "ownRead", "all", "allRead", "tok", "tokAll", "ask", "billOwn", "billAll", "store"}
Going == [at: Stages, try: 1..2, u: People, lane: Lanes, day: Days, over: BOOLEAN, used: 0..Turn]

\* A request that is under way has all its fields.
LEMMA ChatKinds ==
  /\ Free \in ChatCalls /\ Going \subseteq ChatCalls /\ Free.at = "none"
  /\ \A c \in ChatCalls : (c # Free \/ c.at \in Stages) => c \in Going
  /\ \A c \in Going : c # Free
BY DEF ChatCalls, Going, Stages, Free

\* The counters have keys of four shapes, and a cap each.
LEMMA Keys ==
  /\ \A k \in QuestionKeys \cup TokenKeys : Cap(k) \in Nat
  /\ \A c \in Going : /\ OwnKey(c.lane, c.u, c.day) \in QuestionKeys
                      /\ AllKey(c.lane, c.day) \in QuestionKeys
                      /\ TokKey(c.u, c.day) \in TokenKeys /\ TokAllKey(c.day) \in TokenKeys
  /\ \A k \in TokenKeys : DayOf(k) \in Days /\ k[1] \in {"tok", "tokAll"}
  /\ \A k \in QuestionKeys : k \notin TokenKeys
<1>1. ASSUME NEW k \in QuestionKeys PROVE Cap(k) \in Nat /\ k[1] \in {"own", "all"}
  BY ChatAssumption DEF QuestionKeys, OwnKey, AllKey, Cap
<1>2. ASSUME NEW k \in TokenKeys
      PROVE  Cap(k) \in Nat /\ DayOf(k) \in Days /\ k[1] \in {"tok", "tokAll"}
  BY ChatAssumption DEF TokenKeys, TokKey, TokAllKey, Cap, DayOf
<1>3. \A k \in QuestionKeys : k \notin TokenKeys
  BY <1>1, <1>2
<1>4. ASSUME NEW c \in Going
      PROVE  /\ OwnKey(c.lane, c.u, c.day) \in QuestionKeys /\ AllKey(c.lane, c.day) \in QuestionKeys
             /\ TokKey(c.u, c.day) \in TokenKeys /\ TokAllKey(c.day) \in TokenKeys
  BY DEF Going, QuestionKeys, TokenKeys
<1> QED
  BY <1>1, <1>2, <1>3, <1>4

\* Sets of requests are finite and no larger than all of them.
LEMMA FewRequests ==
  ASSUME NEW S \in SUBSET Requests
  PROVE  IsFiniteSet(S) /\ Cardinality(S) \in Nat /\ Cardinality(S) <= Cardinality(Requests)
         /\ Cardinality(Requests) \in Nat
BY ChatAssumption, FS_Subset, FS_CardinalityType

LEMMA Marks ==
  \A c, k : Bumped(c, k) \in BOOLEAN /\ Passed(c, k) \in BOOLEAN /\ Bills(c, k) \in BOOLEAN
BY DEF Bumped, Passed, Bills

\* How many requests are somewhere, before and after one of them moves.
LEMMA OneMoves ==
  ASSUME NEW s \in Requests, NEW A \in SUBSET Requests, NEW B \in SUBSET Requests,
         \A r \in Requests \ {s} : r \in A <=> r \in B
  PROVE  /\ (s \in A <=> s \in B) => Cardinality(B) = Cardinality(A)
         /\ s \in B /\ s \notin A => Cardinality(B) = Cardinality(A) + 1
         /\ s \in A /\ s \notin B => Cardinality(B) = Cardinality(A) - 1
<1>1. IsFiniteSet(A) /\ IsFiniteSet(B) /\ Cardinality(A) \in Nat /\ Cardinality(B) \in Nat
  BY FewRequests
<1>2. (s \in A <=> s \in B) => A = B
  OBVIOUS
<1>3. s \in B /\ s \notin A => B = A \cup {s}
  OBVIOUS
<1>4. s \in A /\ s \notin B => A = B \cup {s}
  OBVIOUS
<1> QED
  BY <1>1, <1>2, <1>3, <1>4, FS_AddElement

OnlyMoves(old, next, s, c) == next[s] = c /\ \A r \in Requests \ {s} : next[r] = old[r]

\* The same for those who have counted, passed, or may bill.
LEMMA RequestMoves ==
  ASSUME NEW old, NEW next, NEW s \in Requests, NEW c, NEW k, OnlyMoves(old, next, s, c)
  PROVE  /\ (Bumped(old[s], k) <=> Bumped(c, k)) => Cardinality(Bumpers(next, k)) = Cardinality(Bumpers(old, k))
         /\ ~Bumped(old[s], k) /\ Bumped(c, k) => Cardinality(Bumpers(next, k)) = Cardinality(Bumpers(old, k)) + 1
         /\ Bumped(old[s], k) /\ ~Bumped(c, k) => Cardinality(Bumpers(next, k)) = Cardinality(Bumpers(old, k)) - 1
         /\ (Passed(old[s], k) <=> Passed(c, k)) => Cardinality(Passers(next, k)) = Cardinality(Passers(old, k))
         /\ ~Passed(old[s], k) /\ Passed(c, k) => Cardinality(Passers(next, k)) = Cardinality(Passers(old, k)) + 1
         /\ Passed(old[s], k) /\ ~Passed(c, k) => Cardinality(Passers(next, k)) = Cardinality(Passers(old, k)) - 1
         /\ (Bills(old[s], k) <=> Bills(c, k)) => Cardinality(Billers(next, k)) = Cardinality(Billers(old, k))
         /\ ~Bills(old[s], k) /\ Bills(c, k) => Cardinality(Billers(next, k)) = Cardinality(Billers(old, k)) + 1
         /\ Bills(old[s], k) /\ ~Bills(c, k) => Cardinality(Billers(next, k)) = Cardinality(Billers(old, k)) - 1
<1>1. /\ (Bumped(old[s], k) <=> Bumped(c, k)) => Cardinality(Bumpers(next, k)) = Cardinality(Bumpers(old, k))
      /\ ~Bumped(old[s], k) /\ Bumped(c, k) => Cardinality(Bumpers(next, k)) = Cardinality(Bumpers(old, k)) + 1
      /\ Bumped(old[s], k) /\ ~Bumped(c, k) => Cardinality(Bumpers(next, k)) = Cardinality(Bumpers(old, k)) - 1
  <2>1. /\ \A r \in Requests \ {s} : r \in Bumpers(old, k) <=> r \in Bumpers(next, k)
        /\ Bumpers(old, k) \in SUBSET Requests /\ Bumpers(next, k) \in SUBSET Requests
        /\ s \in Bumpers(old, k) <=> Bumped(old[s], k)
        /\ s \in Bumpers(next, k) <=> Bumped(c, k)
    BY DEF Bumpers, OnlyMoves
  <2> QED
    BY <2>1, OneMoves, Marks
<1>2. /\ (Passed(old[s], k) <=> Passed(c, k)) => Cardinality(Passers(next, k)) = Cardinality(Passers(old, k))
      /\ ~Passed(old[s], k) /\ Passed(c, k) => Cardinality(Passers(next, k)) = Cardinality(Passers(old, k)) + 1
      /\ Passed(old[s], k) /\ ~Passed(c, k) => Cardinality(Passers(next, k)) = Cardinality(Passers(old, k)) - 1
  <2>1. /\ \A r \in Requests \ {s} : r \in Passers(old, k) <=> r \in Passers(next, k)
        /\ Passers(old, k) \in SUBSET Requests /\ Passers(next, k) \in SUBSET Requests
        /\ s \in Passers(old, k) <=> Passed(old[s], k)
        /\ s \in Passers(next, k) <=> Passed(c, k)
    BY DEF Passers, OnlyMoves
  <2> QED
    BY <2>1, OneMoves, Marks
<1>3. /\ (Bills(old[s], k) <=> Bills(c, k)) => Cardinality(Billers(next, k)) = Cardinality(Billers(old, k))
      /\ ~Bills(old[s], k) /\ Bills(c, k) => Cardinality(Billers(next, k)) = Cardinality(Billers(old, k)) + 1
      /\ Bills(old[s], k) /\ ~Bills(c, k) => Cardinality(Billers(next, k)) = Cardinality(Billers(old, k)) - 1
  <2>1. /\ \A r \in Requests \ {s} : r \in Billers(old, k) <=> r \in Billers(next, k)
        /\ Billers(old, k) \in SUBSET Requests /\ Billers(next, k) \in SUBSET Requests
        /\ s \in Billers(old, k) <=> Bills(old[s], k)
        /\ s \in Billers(next, k) <=> Bills(c, k)
    BY DEF Billers, OnlyMoves
  <2> QED
    BY <2>1, OneMoves, Marks
<1> QED
  BY <1>1, <1>2, <1>3

\* One turn more or less, and a sum that is not exceeded.
LEMMA Products ==
  ASSUME NEW x \in Nat, NEW y \in Nat
  PROVE  /\ x * Turn \in Nat /\ (x + 1) * Turn = x * Turn + Turn
         /\ x <= y => x * Turn <= y * Turn
<1>1. Turn \in Nat
  BY ChatAssumption
<1>2. (x + 1) * Turn = x * Turn + Turn /\ x * Turn \in Nat
  BY <1>1
<1>3. ASSUME x <= y PROVE x * Turn <= y * Turn
  <2>1. (y - x) * Turn >= 0
    BY <1>1, <1>3
  <2>2. y * Turn = x * Turn + (y - x) * Turn
    BY <1>1
  <2> QED
    BY <1>1, <2>1, <2>2
<1> QED
  BY <1>2, <1>3

-----------------------------------------------------------------------------
\* While nobody counts himself or gets past a cap anew, the questions stay counted.
LEMMA QuestionsStay ==
  ASSUME ChatInv, NEW s \in Requests, NEW c \in ChatCalls, chat' = [chat EXCEPT ![s] = c],
         asked' = asked, n' \in [QuestionKeys \cup TokenKeys -> Nat],
         \A k \in QuestionKeys : n'[k] >= n[k],
         \A k \in QuestionKeys : /\ Bumped(c, k) => Bumped(chat[s], k)
                                 /\ Passed(c, k) => Passed(chat[s], k)
  PROVE  QuestionsCounted' /\ QuestionsCapped'
<1> SUFFICES ASSUME NEW k \in QuestionKeys
             PROVE  /\ asked'[k] + Cardinality(Bumpers(chat', k)) <= n'[k]
                    /\ asked'[k] + Cardinality(Passers(chat', k)) <= Cap(k)
  BY DEF QuestionsCounted, QuestionsCapped
<1>1. /\ Cardinality(Bumpers(chat, k)) \in Nat /\ Cardinality(Passers(chat, k)) \in Nat
      /\ Cap(k) \in Nat /\ asked[k] \in Nat /\ n[k] \in Nat /\ n'[k] \in Nat
  BY FewRequests, Keys DEF Bumpers, Passers, ChatInv, ChatTypeOK
<1>2. /\ asked[k] + Cardinality(Bumpers(chat, k)) <= n[k]
      /\ asked[k] + Cardinality(Passers(chat, k)) <= Cap(k)
  BY DEF ChatInv, QuestionsCounted, QuestionsCapped
<1>0. OnlyMoves(chat, chat', s, c)
  BY DEF ChatInv, ChatTypeOK, OnlyMoves
<1>3. /\ \/ Cardinality(Bumpers(chat', k)) = Cardinality(Bumpers(chat, k))
         \/ Cardinality(Bumpers(chat', k)) = Cardinality(Bumpers(chat, k)) - 1
      /\ \/ Cardinality(Passers(chat', k)) = Cardinality(Passers(chat, k))
         \/ Cardinality(Passers(chat', k)) = Cardinality(Passers(chat, k)) - 1
  BY <1>0, RequestMoves, Marks
<1> QED
  BY <1>1, <1>2, <1>3

\* How a key's bound is kept: while it is not passed every request fits above it.
LEMMA Fits ==
  ASSUME ChatInv, NEW k \in TokenKeys, NEW S \in SUBSET Requests, NEW x \in Nat,
         x <= Cap(k)
  PROVE  x + Cardinality(S) * Turn <= Cap(k) + (Cardinality(Requests) + unanswered) * Turn
<1>1. Cardinality(S) \in Nat /\ Cardinality(Requests) + unanswered \in Nat
      /\ Cardinality(S) <= Cardinality(Requests) + unanswered
  BY FewRequests DEF ChatInv, ChatTypeOK
<1>2. /\ Cardinality(S) * Turn \in Nat /\ (Cardinality(Requests) + unanswered) * Turn \in Nat
      /\ Cardinality(S) * Turn <= (Cardinality(Requests) + unanswered) * Turn
  BY <1>1, Products
<1> QED
  BY <1>2, Keys

\* While no tokens are counted, whoever may bill anew looked at the key first.
LEMMA TokensStay ==
  ASSUME ChatInv, NEW s \in Requests, NEW c \in ChatCalls, chat' = [chat EXCEPT ![s] = c],
         unanswered' \in {unanswered, unanswered + 1}, \A k \in TokenKeys : n'[k] = n[k],
         \A k \in TokenKeys : Bills(c, k) => Bills(chat[s], k) \/ n[k] <= Cap(k)
  PROVE  TokensBounded'
<1> SUFFICES ASSUME NEW k \in TokenKeys, n'[k] > Cap(k)
             PROVE  n'[k] + Cardinality(Billers(chat', k)) * Turn
                      <= Cap(k) + (Cardinality(Requests) + unanswered') * Turn
  BY DEF TokensBounded
<1>1. n[k] \in Nat /\ Cap(k) \in Nat /\ unanswered \in Nat /\ n'[k] = n[k]
  BY Keys DEF ChatInv, ChatTypeOK
<1>2. n[k] + Cardinality(Billers(chat, k)) * Turn <= Cap(k) + (Cardinality(Requests) + unanswered) * Turn
  BY <1>1 DEF ChatInv, TokensBounded
<1>3. Cardinality(Billers(chat, k)) \in Nat /\ Cardinality(Billers(chat', k)) \in Nat
      /\ Cardinality(Requests) \in Nat
  BY FewRequests DEF Billers
<1>0. OnlyMoves(chat, chat', s, c)
  BY DEF ChatInv, ChatTypeOK, OnlyMoves
<1>4. Cardinality(Billers(chat', k)) <= Cardinality(Billers(chat, k))
  <2>1. Bills(c, k) => Bills(chat[s], k)
    BY <1>1
  <2>2. \/ Cardinality(Billers(chat', k)) = Cardinality(Billers(chat, k))
        \/ Cardinality(Billers(chat', k)) = Cardinality(Billers(chat, k)) - 1
    BY <1>0, <2>1, RequestMoves, Marks
  <2> QED
    BY <1>3, <2>2
<1>5. Cardinality(Billers(chat', k)) * Turn <= Cardinality(Billers(chat, k)) * Turn
  BY <1>3, <1>4, Products
<1>6. (Cardinality(Requests) + unanswered) * Turn <= (Cardinality(Requests) + unanswered') * Turn
  BY <1>1, <1>3, Products
<1>7. /\ Cardinality(Billers(chat, k)) * Turn \in Nat /\ Cardinality(Billers(chat', k)) * Turn \in Nat
      /\ (Cardinality(Requests) + unanswered) * Turn \in Nat
      /\ (Cardinality(Requests) + unanswered') * Turn \in Nat
  BY <1>1, <1>3, Products
<1> QED
  BY <1>1, <1>2, <1>5, <1>6, <1>7

\* Tokens are counted: the request leaves the key, or the write may be repeated.
LEMMA TokensCounted ==
  ASSUME ChatInv, NEW s \in Requests, NEW c \in ChatCalls, chat' = [chat EXCEPT ![s] = c],
         NEW k0 \in TokenKeys, NEW used \in 0..Turn, n' = [n EXCEPT ![k0] = n[k0] + used],
         \A k \in TokenKeys : Bills(c, k) => Bills(chat[s], k),
         \/ unanswered' = unanswered + 1
         \/ unanswered' = unanswered /\ Bills(chat[s], k0) /\ ~Bills(c, k0)
  PROVE  TokensBounded'
<1> SUFFICES ASSUME NEW k \in TokenKeys, n'[k] > Cap(k)
             PROVE  n'[k] + Cardinality(Billers(chat', k)) * Turn
                      <= Cap(k) + (Cardinality(Requests) + unanswered') * Turn
  BY DEF TokensBounded
<1> DEFINE R == Cardinality(Requests)
           B == Cardinality(Billers(chat, k))
           N == Cardinality(Billers(chat', k))
<1>0. Turn \in Nat
  BY ChatAssumption
<1>1. n[k] \in Nat /\ Cap(k) \in Nat /\ unanswered \in Nat /\ n[k0] \in Nat
      /\ n'[k] = IF k = k0 THEN n[k] + used ELSE n[k]
  BY Keys DEF ChatInv, ChatTypeOK
<1>2. B \in Nat /\ N \in Nat /\ R \in Nat /\ B <= R
  BY FewRequests DEF Billers
<1>3. n[k] + B * Turn <= Cap(k) + (R + unanswered) * Turn
  <2>1. CASE n[k] > Cap(k)
    BY <2>1 DEF ChatInv, TokensBounded
  <2>2. CASE n[k] <= Cap(k)
    <3>1. Billers(chat, k) \in SUBSET Requests
      BY DEF Billers, OnlyMoves
    <3> QED
      BY <1>1, <2>2, <3>1, Fits
  <2> QED
    BY <1>1, <2>1, <2>2
<1>10. OnlyMoves(chat, chat', s, c)
  BY DEF ChatInv, ChatTypeOK, OnlyMoves
<1>4. N = B \/ N = B - 1
  BY <1>10, RequestMoves, Marks
<1>5. k = k0 /\ unanswered' = unanswered => N = B - 1
  BY <1>1, <1>10, RequestMoves, Marks
<1> HIDE DEF R, B, N
<1>6. /\ B * Turn \in Nat /\ N * Turn \in Nat /\ (R + unanswered) * Turn \in Nat
      /\ (R + unanswered + 1) * Turn = (R + unanswered) * Turn + Turn
      /\ N <= B => N * Turn <= B * Turn
      /\ N = B - 1 => B * Turn = N * Turn + Turn
  <2>1. N + 1 \in Nat /\ R + unanswered \in Nat
    BY <1>1, <1>2
  <2>2. B * Turn \in Nat /\ N * Turn \in Nat /\ (N + 1) * Turn = N * Turn + Turn
    BY <1>2, Products
  <2>3. (R + unanswered) * Turn \in Nat
        /\ (R + unanswered + 1) * Turn = (R + unanswered) * Turn + Turn
    BY <2>1, Products
  <2>4. N <= B => N * Turn <= B * Turn
    BY <1>2, Products
  <2>5. N = B - 1 => N + 1 = B
    BY <1>2
  <2> QED
    BY <2>2, <2>3, <2>4, <2>5
<1>7. used \in Nat /\ used <= Turn
  BY <1>0
<1>8. CASE unanswered' = unanswered + 1
  <2>1. N * Turn <= B * Turn
    BY <1>2, <1>4, <1>6
  <2>2. (R + unanswered') * Turn = (R + unanswered) * Turn + Turn
    BY <1>1, <1>2, <1>6, <1>8
  <2>3. n'[k] <= n[k] + Turn
    BY <1>0, <1>1, <1>7
  <2> QED
    BY <1>0, <1>1, <1>3, <1>6, <2>1, <2>2, <2>3 DEF R, N
<1>9. CASE unanswered' = unanswered
  <2>1. CASE k = k0
    BY <1>0, <1>1, <1>3, <1>5, <1>6, <1>7, <1>9, <2>1 DEF R, N
  <2>2. CASE k # k0
    <3>1. N * Turn <= B * Turn
      BY <1>2, <1>4, <1>6
    <3> QED
      BY <1>1, <1>3, <1>6, <1>9, <2>2, <3>1 DEF R, N
  <2> QED
    BY <2>1, <2>2
<1> QED
  BY <1>8, <1>9

\* Nobody moves.
LEMMA NobodyMoves ==
  ASSUME ChatInv, chat' = chat, asked' = asked, n' = n, unanswered' = unanswered
  PROVE  QuestionsCounted' /\ QuestionsCapped' /\ TokensBounded'
BY DEF ChatInv, QuestionsCounted, QuestionsCapped, TokensBounded

\* A request that is over is in no set, and one that is refused or fails leaves them all.
LEMMA OverAndOut ==
  /\ \A k : ~Bumped(Free, k) /\ ~Passed(Free, k) /\ ~Bills(Free, k)
BY DEF Free, Bumped, Passed, Bills

LEMMA Leaves ==
  ASSUME ChatInv, NEW s \in Requests, chat' = [chat EXCEPT ![s] = Free], asked' = asked,
         n' = n, unanswered' \in {unanswered, unanswered + 1}
  PROVE  QuestionsCounted' /\ QuestionsCapped' /\ TokensBounded'
<1>1. n \in [QuestionKeys \cup TokenKeys -> Nat]
  BY DEF ChatInv, ChatTypeOK
<1>2. \A k \in QuestionKeys : n'[k] >= n[k]
  BY <1>1
<1>3. QuestionsCounted' /\ QuestionsCapped'
  BY <1>1, <1>2, ChatKinds, OverAndOut, QuestionsStay
<1>4. TokensBounded'
  BY ChatKinds, OverAndOut, TokensStay
<1> QED
  BY <1>3, <1>4

LEMMA ChatStarts == ChatInit => ChatInv
<1> SUFFICES ASSUME ChatInit PROVE ChatInv
  OBVIOUS
<1> USE ChatAssumption
<1>1. ChatTypeOK
  BY ChatKinds DEF ChatInit, ChatTypeOK, Days
<1>2. \A k : Bumpers(chat, k) = {} /\ Passers(chat, k) = {}
  BY OverAndOut DEF ChatInit, Bumpers, Passers
<1>3. QuestionsCounted /\ QuestionsCapped
  <2>1. ASSUME NEW k \in QuestionKeys
        PROVE  /\ asked[k] + Cardinality(Bumpers(chat, k)) <= n[k]
               /\ asked[k] + Cardinality(Passers(chat, k)) <= Cap(k)
    <3>1. Bumpers(chat, k) = {} /\ Passers(chat, k) = {} /\ Cardinality({}) = 0
      BY <1>2, FS_EmptySet
    <3> QED
      <4>1. asked[k] = 0 /\ n[k] = 0 /\ Cap(k) \in Nat
        BY Keys DEF ChatInit
      <4> QED
        BY <3>1, <4>1
  <2> QED
    BY <2>1 DEF QuestionsCounted, QuestionsCapped
<1>4. TokensBounded
  BY Keys DEF ChatInit, TokensBounded
<1>5. DaysPast
  BY DEF ChatInit, DaysPast
<1> QED
  BY <1>1, <1>3, <1>4, <1>5 DEF ChatInv

-----------------------------------------------------------------------------
LEMMA ArrivesKeeps ==
  ASSUME ChatInv, NEW s \in Requests, NEW u \in People, NEW lane \in Lanes, Arrives(s, u, lane)
  PROVE  ChatInv'
<1> USE ChatAssumption
<1>0. ChatTypeOK /\ DaysPast
  BY DEF ChatInv
<1>1. CASE UNCHANGED <<window, chat>>
  <2>1. ChatTypeOK'
    BY <1>0, <1>1 DEF Arrives, ChatTypeOK
  <2>2. DaysPast'
    BY <1>0, <1>1 DEF Arrives, DaysPast
  <2> QED
    BY <1>1, <2>1, <2>2, NobodyMoves DEF Arrives, ChatInv
<1>2. CASE window[u] < PerMinute
  <2> DEFINE c == [at |-> "own", try |-> 1, u |-> u, lane |-> lane, day |-> today,
                   over |-> FALSE, used |-> 0]
  <2>1. c \in Going /\ c \in ChatCalls
    <3>1. 0 \in 0..Turn /\ today \in Days
      BY <1>0 DEF ChatTypeOK
    <3>2. c \in Going
      BY <3>1 DEF Going, Stages
    <3> QED
      BY <3>2, ChatKinds
  <2>2. chat' = [chat EXCEPT ![s] = c] /\ window' = [window EXCEPT ![u] = window[u] + 1]
    BY <1>0, <1>2 DEF Arrives, ChatTypeOK
  <2>3. ChatTypeOK'
    BY <1>0, <1>2, <2>1, <2>2 DEF Arrives, ChatTypeOK
  <2>4. \A k : ~Bumped(c, k) /\ ~Passed(c, k)
    BY DEF Bumped, Passed
  <2>5. \A k \in TokenKeys : Bills(c, k) => n[k] <= Cap(k)
    <3>1. ASSUME NEW k \in TokenKeys, Bills(c, k) PROVE n[k] <= Cap(k)
      <4>1. DayOf(k) > today
        BY <1>0, <3>1, Keys DEF Bills, ChatTypeOK, Days
      <4> QED
        BY <1>0, <4>1, Keys DEF DaysPast
    <3> QED
      BY <3>1
  <2>6. DaysPast'
    BY <1>0, <2>2 DEF Arrives, DaysPast, ChatTypeOK, Days
  <2>7. n' = n /\ asked' = asked /\ unanswered' = unanswered
    BY DEF Arrives
  <2> HIDE DEF c
  <2>8. QuestionsCounted' /\ QuestionsCapped'
    <3>1. n \in [QuestionKeys \cup TokenKeys -> Nat] /\ \A k \in QuestionKeys : n'[k] >= n[k]
      BY <1>0, <2>7 DEF ChatTypeOK
    <3> QED
      BY <2>1, <2>2, <2>4, <2>7, <3>1, QuestionsStay
  <2>9. TokensBounded'
    BY <2>1, <2>2, <2>5, <2>7, TokensStay
  <2> QED
    BY <2>3, <2>6, <2>8, <2>9 DEF ChatInv
<1>3. window[u] \in Nat
  BY <1>0 DEF ChatTypeOK
<1> QED
  BY <1>1, <1>2, <1>3 DEF Arrives

\* The next call, and the key of the one that is made.
LEMMA Steps ==
  /\ \A x \in DOMAIN After : After[x] \in Stages
  /\ DOMAIN After = {"own", "ownRead", "all", "allRead", "tok", "tokAll", "billOwn", "billAll"}
  /\ Bumping \subseteq DOMAIN After
  /\ After["own"] = "ownRead" /\ After["ownRead"] = "all" /\ After["all"] = "allRead"
  /\ After["allRead"] = "tok" /\ After["tok"] = "tokAll" /\ After["tokAll"] = "ask"
  /\ After["billOwn"] = "billAll" /\ After["billAll"] = "store"
BY DEF After, Stages, Bumping

LEMMA CountersOf ==
  ASSUME NEW c \in Going
  PROVE  /\ c.at \in {"own", "ownRead"} => CounterOf(c) = OwnKey(c.lane, c.u, c.day)
         /\ c.at \in {"all", "allRead"} => CounterOf(c) = AllKey(c.lane, c.day)
         /\ c.at \in {"tok", "billOwn"} => CounterOf(c) = TokKey(c.u, c.day)
         /\ c.at \in {"tokAll", "billAll"} => CounterOf(c) = TokAllKey(c.day)
BY DEF CounterOf

LEMMA KeysDiffer ==
  ASSUME NEW l, NEW u, NEW d, NEW m, NEW e
  PROVE  /\ OwnKey(l, u, d) # AllKey(m, e) /\ TokKey(u, d) # TokAllKey(e)
         /\ DayOf(TokKey(u, d)) = d /\ DayOf(TokAllKey(d)) = d
         /\ TokKey(u, d)[1] = "tok" /\ TokKey(u, d)[2] = u /\ TokAllKey(d)[1] = "tokAll"
BY DEF OwnKey, AllKey, TokKey, TokAllKey, DayOf

LEMMA BumpsKeeps ==
  ASSUME ChatInv, NEW s \in Requests, Bumps(s)
  PROVE  ChatInv'
<1> USE ChatAssumption
<1> DEFINE c == chat[s]
           d == [c EXCEPT !.at = After[c.at], !.try = 1]
           k0 == CounterOf(c)
<1>0. ChatTypeOK /\ DaysPast
  BY DEF ChatInv
<1>1. c \in Going /\ c.at \in Bumping
  BY <1>0, ChatKinds DEF Bumps, Bumping, Stages, ChatTypeOK
<1>2. /\ d \in Going /\ d.at = After[c.at] /\ d.u = c.u /\ d.lane = c.lane /\ d.day = c.day
      /\ d.over = c.over /\ d.used = c.used
  <2>1. After[c.at] \in Stages /\ 1 \in 1..2
    BY <1>1, Steps
  <2> QED
    BY <1>1, <2>1 DEF Going
<1>3. chat' = [chat EXCEPT ![s] = d]
  BY DEF Bumps, Goes
<1>4. n' = [n EXCEPT ![k0] = n[k0] + Amount(c)] /\ Amount(c) \in Nat
  BY <1>0, <1>1 DEF Bumps, Counted, Amount, Going, ChatTypeOK
<1>5. d \in ChatCalls
  BY <1>2, ChatKinds
<1>6. UNCHANGED <<window, today, asked, sent, unanswered>>
  BY DEF Bumps
<1>7. k0 \in QuestionKeys \cup TokenKeys
  BY <1>1, CountersOf, Keys DEF Bumping
<1>8. n' \in [QuestionKeys \cup TokenKeys -> Nat]
  BY <1>0, <1>4, <1>7 DEF ChatTypeOK
<1>9. ChatTypeOK'
  BY <1>0, <1>3, <1>5, <1>6, <1>8 DEF ChatTypeOK
<1>10. \A k \in QuestionKeys \cup TokenKeys : n'[k] = IF k = k0 THEN n[k] + Amount(c) ELSE n[k]
  BY <1>0, <1>4, <1>7 DEF ChatTypeOK
<1>11. \A k \in QuestionKeys : n'[k] >= n[k]
  <2>1. ASSUME NEW k \in QuestionKeys PROVE n'[k] >= n[k]
    <3>1. n[k] \in Nat
      BY <1>0 DEF ChatTypeOK
    <3> QED
      BY <1>4, <1>10, <3>1
  <2> QED
    BY <2>1
<1>12. DaysPast'
  <2>1. \A r \in Requests : chat'[r] # Free => chat'[r].day <= today
    BY <1>0, <1>1, <1>2, <1>3, ChatKinds DEF DaysPast, ChatTypeOK
  <2>2. c.day <= today /\ c.day \in Days /\ today \in Days
    BY <1>0, <1>1, ChatKinds DEF DaysPast, Going, ChatTypeOK
  <2>3. ASSUME NEW k \in TokenKeys, DayOf(k) > today PROVE n'[k] = 0
    <3>1. k0 \in TokenKeys => DayOf(k0) = c.day
      BY <1>1, CountersOf, Keys, KeysDiffer DEF Bumping
    <3>2. k # k0
      BY <2>2, <2>3, <3>1 DEF Days
    <3> QED
      BY <1>0, <1>10, <2>3, <3>2 DEF DaysPast
  <2> QED
    BY <1>6, <2>1, <2>3 DEF DaysPast
<1>13. CASE c.at \in {"own", "all"}
  <2> DEFINE own == OwnKey(c.lane, c.u, c.day)
             all == AllKey(c.lane, c.day)
  <2>1. k0 \in QuestionKeys /\ own # all /\ Amount(c) = 1
    BY <1>1, <1>13, CountersOf, Keys, KeysDiffer DEF Amount
  <2>2. \A k \in TokenKeys : n'[k] = n[k]
    BY <1>10, <2>1, Keys
  <2>3. \A k \in TokenKeys : Bills(d, k) => Bills(c, k)
    BY <1>2, <1>13, Steps DEF Bills
  <2>4. TokensBounded'
    BY <1>3, <1>5, <1>6, <2>2, <2>3, TokensStay
  <2>5. \A k : (Bumped(d, k) <=> Bumped(c, k) \/ k = k0) /\ ~Bumped(c, k0) /\ (Passed(d, k) <=> Passed(c, k))
    BY <1>1, <1>2, <1>13, <2>1, Steps, CountersOf DEF Bumped, Passed
  <2>6. ASSUME NEW k \in QuestionKeys
        PROVE  /\ asked'[k] + Cardinality(Bumpers(chat', k)) <= n'[k]
               /\ asked'[k] + Cardinality(Passers(chat', k)) <= Cap(k)
    <3>1. OnlyMoves(chat, chat', s, d)
      BY <1>0, <1>3 DEF ChatTypeOK, OnlyMoves
    <3> HIDE DEF d
    <3>2. Cardinality(Passers(chat', k)) = Cardinality(Passers(chat, k))
      BY <2>5, <3>1, RequestMoves, Marks
    <3>3. Cardinality(Bumpers(chat', k)) = Cardinality(Bumpers(chat, k)) + (IF k = k0 THEN 1 ELSE 0)
      <4>1. Cardinality(Bumpers(chat, k)) \in Nat
        BY FewRequests DEF Bumpers
      <4>2. k = k0 => Cardinality(Bumpers(chat', k)) = Cardinality(Bumpers(chat, k)) + 1
        BY <2>5, <3>1, RequestMoves, Marks
      <4>3. k # k0 => Cardinality(Bumpers(chat', k)) = Cardinality(Bumpers(chat, k))
        BY <2>5, <3>1, RequestMoves, Marks
      <4> QED
        BY <4>1, <4>2, <4>3
    <3>4. n'[k] = n[k] + (IF k = k0 THEN 1 ELSE 0)
      BY <1>0, <1>10, <2>1 DEF ChatTypeOK
    <3>5. /\ asked[k] + Cardinality(Bumpers(chat, k)) <= n[k]
          /\ asked[k] + Cardinality(Passers(chat, k)) <= Cap(k)
      BY DEF ChatInv, QuestionsCounted, QuestionsCapped
    <3>6. Cardinality(Bumpers(chat, k)) \in Nat /\ asked[k] \in Nat /\ n[k] \in Nat /\ asked' = asked
      BY <1>0, <1>6, FewRequests DEF Bumpers, ChatTypeOK
    <3> QED
      BY <3>2, <3>3, <3>4, <3>5, <3>6
  <2>7. QuestionsCounted' /\ QuestionsCapped'
    BY <2>6 DEF QuestionsCounted, QuestionsCapped
  <2> QED
    BY <1>9, <1>12, <2>4, <2>7 DEF ChatInv
<1>14. CASE c.at \in {"billOwn", "billAll"}
  <2>1. k0 \in TokenKeys /\ Amount(c) = c.used /\ c.used \in 0..Turn
    BY <1>1, <1>14, CountersOf, Keys DEF Amount, Going
  <2>2. \A k : ~Bumped(d, k) /\ ~Passed(d, k)
    BY <1>2, <1>14, Steps DEF Bumped, Passed
  <2>3. QuestionsCounted' /\ QuestionsCapped'
    BY <1>3, <1>5, <1>6, <1>8, <1>11, <2>2, QuestionsStay
  <2>4. \A k \in TokenKeys : Bills(d, k) => Bills(c, k)
    BY <1>2, <1>14, Steps DEF Bills
  <2>5. Bills(c, k0) /\ ~Bills(d, k0)
    BY <1>1, <1>2, <1>14, Steps, CountersOf, KeysDiffer DEF Bills
  <2> HIDE DEF d
  <2>6. TokensBounded'
    BY <1>3, <1>4, <1>5, <1>6, <2>1, <2>4, <2>5, TokensCounted
  <2> QED
    BY <1>9, <1>12, <2>3, <2>6 DEF ChatInv
<1> QED
  BY <1>1, <1>13, <1>14 DEF Bumping

LEMMA UnansweredKeeps ==
  ASSUME ChatInv, NEW s \in Requests, BumpUnanswered(s)
  PROVE  ChatInv'
<1> USE ChatAssumption
<1> DEFINE c == chat[s]
           d == IF c.try = 1 THEN [c EXCEPT !.try = 2] ELSE Free
           k0 == CounterOf(c)
<1>0. ChatTypeOK /\ DaysPast
  BY DEF ChatInv
<1>1. c \in Going /\ c.at \in Bumping
  BY <1>0, ChatKinds DEF BumpUnanswered, Bumping, Stages, ChatTypeOK
<1>2. /\ d \in ChatCalls /\ (d # Free => d.day = c.day)
      /\ \A k : (Bumped(d, k) => Bumped(c, k)) /\ (Passed(d, k) => Passed(c, k)) /\ (Bills(d, k) => Bills(c, k))
  <2>1. CASE c.try = 1
    <3>1. /\ d \in Going /\ d.at = c.at /\ d.u = c.u /\ d.lane = c.lane /\ d.day = c.day
          /\ d.over = c.over
      BY <1>1, <2>1 DEF Going
    <3> HIDE DEF c, d
    <3> QED
      BY <3>1, ChatKinds DEF Bumped, Passed, Bills
  <2>2. CASE c.try # 1
    BY <2>2, ChatKinds, OverAndOut
  <2> QED
    BY <2>1, <2>2
<1>3. chat' = [chat EXCEPT ![s] = d]
  BY DEF BumpUnanswered, Answers
<1>4. UNCHANGED <<window, today, asked, sent>> /\ unanswered' = unanswered + 1 /\ unanswered < MaxUnanswered
  BY DEF BumpUnanswered
<1>5. chat' \in [Requests -> ChatCalls] /\ unanswered' \in 0..MaxUnanswered
  BY <1>0, <1>2, <1>3, <1>4 DEF ChatTypeOK
<1>6. \A r \in Requests : chat'[r] # Free => chat'[r].day <= today'
  BY <1>0, <1>1, <1>2, <1>3, <1>4, ChatKinds DEF DaysPast, ChatTypeOK
<1> HIDE DEF d
<1>7. CASE UNCHANGED n
  <2>1. ChatTypeOK'
    BY <1>0, <1>4, <1>5, <1>7 DEF ChatTypeOK
  <2>2. DaysPast'
    BY <1>0, <1>4, <1>6, <1>7 DEF DaysPast
  <2>3. n' \in [QuestionKeys \cup TokenKeys -> Nat] /\ \A k \in QuestionKeys : n'[k] >= n[k]
    BY <1>0, <1>7 DEF ChatTypeOK
  <2>4. QuestionsCounted' /\ QuestionsCapped'
    BY <1>2, <1>3, <1>4, <2>3, QuestionsStay
  <2>5. TokensBounded'
    BY <1>2, <1>3, <1>4, <1>7, TokensStay
  <2> QED
    BY <2>1, <2>2, <2>4, <2>5 DEF ChatInv
<1>8. CASE Counted(s)
  <2>1. n' = [n EXCEPT ![k0] = n[k0] + Amount(c)] /\ Amount(c) \in Nat
    BY <1>0, <1>1, <1>8 DEF Counted, Amount, Going, ChatTypeOK
  <2>2. k0 \in QuestionKeys \cup TokenKeys
    BY <1>1, CountersOf, Keys DEF Bumping
  <2>3. n' \in [QuestionKeys \cup TokenKeys -> Nat]
    BY <1>0, <2>1, <2>2 DEF ChatTypeOK
  <2>4. \A k \in QuestionKeys \cup TokenKeys : n'[k] = IF k = k0 THEN n[k] + Amount(c) ELSE n[k]
    BY <1>0, <2>1, <2>2 DEF ChatTypeOK
  <2>5. \A k \in QuestionKeys : n'[k] >= n[k]
    <3>1. ASSUME NEW k \in QuestionKeys PROVE n'[k] >= n[k]
      <4>1. n[k] \in Nat
        BY <1>0 DEF ChatTypeOK
      <4> QED
        BY <2>1, <2>4, <4>1
    <3> QED
      BY <3>1
  <2>6. ChatTypeOK'
    BY <1>0, <1>4, <1>5, <2>3 DEF ChatTypeOK
  <2>7. DaysPast'
    <3>1. c.day <= today /\ c.day \in Days /\ today \in Days
      BY <1>0, <1>1, ChatKinds DEF DaysPast, Going, ChatTypeOK
    <3>2. ASSUME NEW k \in TokenKeys, DayOf(k) > today PROVE n'[k] = 0
      <4>1. k0 \in TokenKeys => DayOf(k0) = c.day
        BY <1>1, CountersOf, Keys, KeysDiffer DEF Bumping
      <4>2. k # k0
        BY <3>1, <3>2, <4>1 DEF Days
      <4> QED
        BY <1>0, <2>4, <3>2, <4>2 DEF DaysPast
    <3> QED
      BY <1>4, <1>6, <3>2 DEF DaysPast
  <2>8. QuestionsCounted' /\ QuestionsCapped'
    BY <1>2, <1>3, <1>4, <2>3, <2>5, QuestionsStay
  <2>9. TokensBounded'
    <3>1. CASE c.at \in {"own", "all"}
      <4>1. k0 \in QuestionKeys
        BY <1>1, <3>1, CountersOf, Keys
      <4>2. \A k \in TokenKeys : n'[k] = n[k]
        BY <2>4, <4>1, Keys
      <4> QED
        BY <1>2, <1>3, <1>4, <4>2, TokensStay
    <3>2. CASE c.at \in {"billOwn", "billAll"}
      <4>1. k0 \in TokenKeys /\ Amount(c) = c.used /\ c.used \in 0..Turn
        BY <1>1, <3>2, CountersOf, Keys DEF Amount, Going
      <4> QED
        BY <1>2, <1>3, <1>4, <2>1, <4>1, TokensCounted
    <3> QED
      BY <1>1, <3>1, <3>2 DEF Bumping
  <2> QED
    BY <2>6, <2>7, <2>8, <2>9 DEF ChatInv
<1> QED
  BY <1>7, <1>8 DEF BumpUnanswered

\* The request is answered, or refused, or ends in an error.
LEMMA LeavesKeeps ==
  ASSUME ChatInv, NEW s \in Requests, Answers(s), UNCHANGED <<window, n, today, asked, sent>>,
         unanswered' = unanswered \/ (unanswered < MaxUnanswered /\ unanswered' = unanswered + 1)
  PROVE  ChatInv'
<1>1. ChatTypeOK'
  BY ChatAssumption, ChatKinds DEF ChatInv, ChatTypeOK, Answers
<1>2. DaysPast'
  BY DEF ChatInv, ChatTypeOK, DaysPast, Answers
<1>3. QuestionsCounted' /\ QuestionsCapped' /\ TokensBounded'
  BY Leaves DEF Answers
<1> QED
  BY <1>1, <1>2, <1>3 DEF ChatInv

LEMMA ReadsKeeps ==
  ASSUME ChatInv, NEW s \in Requests, Reads(s)
  PROVE  ChatInv'
<1> DEFINE c == chat[s]
           d == [c EXCEPT !.at = After[c.at], !.try = 1]
           k0 == CounterOf(c)
<1>0. ChatTypeOK /\ DaysPast
  BY DEF ChatInv
<1>1. c \in Going /\ c.at \in {"ownRead", "allRead"}
  BY <1>0, ChatKinds DEF Reads, Stages, ChatTypeOK
<1>2. CASE Over(k0)
  BY <1>2, LeavesKeeps DEF Reads
<1>3. CASE ~Over(k0)
  <2>1. /\ d \in Going /\ d.at = After[c.at] /\ d.u = c.u /\ d.lane = c.lane /\ d.day = c.day
        /\ d.over = c.over /\ d.used = c.used
    <3>1. After[c.at] \in Stages /\ 1 \in 1..2
      BY <1>1, Steps
    <3> QED
      BY <1>1, <3>1 DEF Going
  <2>2. d \in ChatCalls
    BY <2>1, ChatKinds
  <2>3. chat' = [chat EXCEPT ![s] = d] /\ UNCHANGED <<window, n, today, asked, sent, unanswered>>
    BY <1>3 DEF Reads, Goes
  <2>4. ChatTypeOK'
    BY <1>0, <2>2, <2>3 DEF ChatTypeOK
  <2>5. DaysPast'
    BY <1>0, <1>1, <2>1, <2>3, ChatKinds DEF DaysPast, ChatTypeOK
  <2>6. TokensBounded'
    <3>1. \A k \in TokenKeys : Bills(d, k) => Bills(c, k)
      BY <1>1, <2>1, Steps DEF Bills
    <3> QED
      BY <2>2, <2>3, <3>1, TokensStay
  <2>7. /\ k0 \in QuestionKeys
        /\ \A k : (Bumped(d, k) <=> Bumped(c, k)) /\ (Passed(d, k) <=> Passed(c, k) \/ k = k0)
        /\ Bumped(c, k0)
    BY <1>1, <2>1, Steps, CountersOf, Keys DEF Bumped, Passed
  <2>8. n[k0] <= Cap(k0)
    BY <1>0, <1>3, <2>7, Keys DEF Over, ChatTypeOK
  <2>9. OnlyMoves(chat, chat', s, d)
    BY <1>0, <2>3 DEF ChatTypeOK, OnlyMoves
  <2>10. \A r \in Requests : \A k : Passed(chat'[r], k) => Bumped(chat'[r], k)
    BY DEF Passed, Bumped
  <2> HIDE DEF d
  <2>11. ASSUME NEW k \in QuestionKeys
         PROVE  /\ asked'[k] + Cardinality(Bumpers(chat', k)) <= n'[k]
                /\ asked'[k] + Cardinality(Passers(chat', k)) <= Cap(k)
    <3>1. Cardinality(Bumpers(chat', k)) = Cardinality(Bumpers(chat, k))
      BY <2>7, <2>9, RequestMoves, Marks
    <3>2. /\ asked[k] + Cardinality(Bumpers(chat, k)) <= n[k]
          /\ asked[k] + Cardinality(Passers(chat, k)) <= Cap(k)
      BY DEF ChatInv, QuestionsCounted, QuestionsCapped
    <3>3. /\ Cardinality(Bumpers(chat, k)) \in Nat /\ Cardinality(Passers(chat', k)) \in Nat
          /\ asked[k] \in Nat /\ n[k] \in Nat /\ Cap(k) \in Nat
      BY <1>0, FewRequests, Keys DEF Bumpers, Passers, ChatTypeOK
    <3>4. CASE k = k0
      <4>1. Bumpers(chat', k) \in SUBSET Requests /\ Passers(chat', k) \subseteq Bumpers(chat', k)
        BY <2>10 DEF Bumpers, Passers
      <4>2. Cardinality(Passers(chat', k)) <= Cardinality(Bumpers(chat', k))
        BY <4>1, FewRequests, FS_Subset
      <4> QED
        BY <2>3, <2>8, <3>1, <3>2, <3>3, <3>4, <4>2
    <3>5. CASE k # k0
      <4>1. Cardinality(Passers(chat', k)) = Cardinality(Passers(chat, k))
        BY <2>7, <2>9, <3>5, RequestMoves, Marks
      <4> QED
        BY <2>3, <3>1, <3>2, <4>1
    <3> QED
      BY <3>4, <3>5
  <2>12. QuestionsCounted' /\ QuestionsCapped'
    BY <2>11 DEF QuestionsCounted, QuestionsCapped
  <2> QED
    BY <2>4, <2>5, <2>6, <2>12 DEF ChatInv
<1> QED
  BY <1>2, <1>3

\* One more request is let through to the provider: it is billed where it had counted.
LEMMA AskedKeeps ==
  ASSUME ChatInv, NEW s \in Requests, chat[s] \in Going, chat[s].at = "tokAll",
         NEW d \in ChatCalls, chat' = [chat EXCEPT ![s] = d], d.at = "ask", n' = n,
         asked' = [k \in QuestionKeys |->
           IF k \in {OwnKey(chat[s].lane, chat[s].u, chat[s].day), AllKey(chat[s].lane, chat[s].day)}
           THEN asked[k] + 1 ELSE asked[k]]
  PROVE  QuestionsCounted' /\ QuestionsCapped'
<1> DEFINE c == chat[s]
           billed == {OwnKey(c.lane, c.u, c.day), AllKey(c.lane, c.day)}
<1>0. ChatTypeOK
  BY DEF ChatInv
<1>1. \A k : /\ Bumped(c, k) <=> k \in billed
             /\ Passed(c, k) <=> k \in billed
             /\ ~Bumped(d, k) /\ ~Passed(d, k)
  BY DEF Bumped, Passed
<1>2. OnlyMoves(chat, chat', s, d)
  BY <1>0 DEF ChatTypeOK, OnlyMoves
<1> HIDE DEF billed
<1>3. ASSUME NEW k \in QuestionKeys
      PROVE  /\ asked'[k] + Cardinality(Bumpers(chat', k)) <= n'[k]
             /\ asked'[k] + Cardinality(Passers(chat', k)) <= Cap(k)
  <2>1. /\ asked[k] + Cardinality(Bumpers(chat, k)) <= n[k]
        /\ asked[k] + Cardinality(Passers(chat, k)) <= Cap(k)
    BY DEF ChatInv, QuestionsCounted, QuestionsCapped
  <2>2. /\ Cardinality(Bumpers(chat, k)) \in Nat /\ Cardinality(Passers(chat, k)) \in Nat
        /\ asked[k] \in Nat /\ n[k] \in Nat /\ Cap(k) \in Nat
    BY <1>0, FewRequests, Keys DEF Bumpers, Passers, ChatTypeOK
  <2>3. CASE k \in billed
    <3>1. /\ Cardinality(Bumpers(chat', k)) = Cardinality(Bumpers(chat, k)) - 1
          /\ Cardinality(Passers(chat', k)) = Cardinality(Passers(chat, k)) - 1
      BY <1>1, <1>2, <2>3, RequestMoves, Marks
    <3>2. asked'[k] = asked[k] + 1
      BY <2>3 DEF billed
    <3> QED
      BY <2>1, <2>2, <3>1, <3>2
  <2>4. CASE k \notin billed
    <3>1. /\ Cardinality(Bumpers(chat', k)) = Cardinality(Bumpers(chat, k))
          /\ Cardinality(Passers(chat', k)) = Cardinality(Passers(chat, k))
      BY <1>1, <1>2, <2>4, RequestMoves, Marks
    <3>2. asked'[k] = asked[k]
      BY <2>4 DEF billed
    <3> QED
      BY <2>1, <2>2, <3>1, <3>2
  <2> QED
    BY <2>3, <2>4
<1> QED
  BY <1>3 DEF QuestionsCounted, QuestionsCapped

LEMMA ReadsTokensKeeps ==
  ASSUME ChatInv, NEW s \in Requests, ReadsTokens(s)
  PROVE  ChatInv'
<1> DEFINE c == chat[s]
           k0 == CounterOf(c)
           over == c.over \/ Over(k0)
<1>0. ChatTypeOK /\ DaysPast
  BY DEF ChatInv
<1>1. c \in Going /\ c.at \in {"tok", "tokAll"}
  BY <1>0, ChatKinds DEF ReadsTokens, Stages, ChatTypeOK
<1>2. UNCHANGED <<window, n, today, sent, unanswered>>
  BY DEF ReadsTokens
<1>3. over \in BOOLEAN /\ k0 \in TokenKeys /\ n[k0] \in Nat /\ Cap(k0) \in Nat
      /\ (~over => n[k0] <= Cap(k0) /\ ~c.over)
  BY <1>0, <1>1, CountersOf, Keys DEF Over, ChatTypeOK, Going
<1>4. CASE c.at = "tok" /\ chat' = [chat EXCEPT ![s].at = "tokAll", ![s].over = over] /\ UNCHANGED asked
  <2> DEFINE d == [c EXCEPT !.at = "tokAll", !.over = over]
  <2>1. /\ d \in Going /\ d.at = "tokAll" /\ d.u = c.u /\ d.lane = c.lane /\ d.day = c.day
        /\ d.over = over
    BY <1>1, <1>3 DEF Going, Stages
  <2>2. d \in ChatCalls
    BY <2>1, ChatKinds
  <2>3. chat' = [chat EXCEPT ![s] = d]
    BY <1>0, <1>4 DEF ChatTypeOK
  <2>4. ChatTypeOK'
    BY <1>0, <1>2, <1>4, <2>2, <2>3 DEF ChatTypeOK
  <2>5. DaysPast'
    BY <1>0, <1>1, <1>2, <2>1, <2>3, ChatKinds DEF DaysPast, ChatTypeOK
  <2>6. \A k : (Bumped(d, k) => Bumped(c, k)) /\ (Passed(d, k) => Passed(c, k))
    BY <1>4, <2>1 DEF Bumped, Passed
  <2>7. n' \in [QuestionKeys \cup TokenKeys -> Nat] /\ \A k \in QuestionKeys : n'[k] >= n[k]
    BY <1>0, <1>2 DEF ChatTypeOK
  <2>8. ASSUME NEW k \in TokenKeys, Bills(d, k)
        PROVE  Bills(c, k) \/ n[k] <= Cap(k)
    <3>1. CASE c.day < DayOf(k)
      BY <1>4, <2>1, <2>8, <3>1 DEF Bills
    <3>2. CASE ~(c.day < DayOf(k))
      <4>1. c.day = DayOf(k) /\ ~over /\ k[1] = "tok" /\ k[2] = c.u
        BY <2>1, <2>8, <3>2 DEF Bills
      <4>2. k = TokKey(c.u, c.day)
        BY <4>1 DEF TokenKeys, TokKey, TokAllKey, DayOf
      <4>3. k = k0
        BY <1>1, <1>4, <4>2, CountersOf
      <4> QED
        BY <1>3, <4>1, <4>3
    <3> QED
      BY <3>1, <3>2
  <2> HIDE DEF d
  <2>9. QuestionsCounted' /\ QuestionsCapped'
    BY <1>4, <2>2, <2>3, <2>6, <2>7, QuestionsStay
  <2>10. TokensBounded'
    BY <1>2, <2>2, <2>3, <2>8, TokensStay
  <2> QED
    BY <2>4, <2>5, <2>9, <2>10 DEF ChatInv
<1>5. CASE c.at = "tokAll" /\ over /\ Answers(s) /\ UNCHANGED asked
  BY <1>2, <1>5, LeavesKeeps
<1>6. CASE /\ c.at = "tokAll" /\ ~over /\ Goes(s, "ask")
           /\ asked' = [k \in QuestionKeys |->
                IF k \in {OwnKey(c.lane, c.u, c.day), AllKey(c.lane, c.day)}
                THEN asked[k] + 1 ELSE asked[k]]
  <2> DEFINE d == [c EXCEPT !.at = "ask", !.try = 1]
  <2>1. /\ d \in Going /\ d.at = "ask" /\ d.u = c.u /\ d.lane = c.lane /\ d.day = c.day
    <3>1. "ask" \in Stages /\ 1 \in 1..2
      BY DEF Stages
    <3> QED
      BY <1>1, <3>1 DEF Going
  <2>2. d \in ChatCalls
    BY <2>1, ChatKinds
  <2>3. chat' = [chat EXCEPT ![s] = d]
    BY <1>6 DEF Goes
  <2>4. ChatTypeOK'
    <3>1. asked' \in [QuestionKeys -> Nat]
      BY <1>0, <1>6 DEF ChatTypeOK
    <3> QED
      BY <1>0, <1>2, <2>2, <2>3, <3>1 DEF ChatTypeOK
  <2>5. DaysPast'
    BY <1>0, <1>1, <1>2, <2>1, <2>3, ChatKinds DEF DaysPast, ChatTypeOK
  <2>6. ASSUME NEW k \in TokenKeys, Bills(d, k)
        PROVE  Bills(c, k) \/ n[k] <= Cap(k)
    <3>1. CASE c.day < DayOf(k)
      BY <1>6, <2>1, <2>6, <3>1 DEF Bills
    <3>2. CASE c.day = DayOf(k) /\ k[1] = "tok"
      BY <1>3, <1>6, <2>1, <2>6, <3>2 DEF Bills
    <3>3. CASE c.day = DayOf(k) /\ k[1] = "tokAll"
      <4>1. k = TokAllKey(c.day)
        BY <3>3 DEF TokenKeys, TokKey, TokAllKey, DayOf
      <4>2. k = k0
        BY <1>1, <1>6, <4>1, CountersOf
      <4> QED
        BY <1>3, <1>6, <4>2
    <3> QED
      BY <2>1, <2>6, <3>1, <3>2, <3>3, Keys DEF Bills
  <2> HIDE DEF d
  <2>7. QuestionsCounted' /\ QuestionsCapped'
    BY <1>1, <1>2, <1>6, <2>1, <2>2, <2>3, AskedKeeps
  <2>8. TokensBounded'
    BY <1>2, <2>2, <2>3, <2>6, TokensStay
  <2> QED
    BY <2>4, <2>5, <2>7, <2>8 DEF ChatInv
<1> QED
  BY <1>4, <1>5, <1>6 DEF ReadsTokens

LEMMA AsksKeeps ==
  ASSUME ChatInv, NEW s \in Requests, Asks(s)
  PROVE  ChatInv'
<1> DEFINE c == chat[s]
<1>0. ChatTypeOK /\ DaysPast
  BY DEF ChatInv
<1>1. c \in Going /\ c.at = "ask"
  BY <1>0, ChatKinds DEF Asks, Stages, ChatTypeOK
<1>2. UNCHANGED <<window, n, today, asked, sent, unanswered>>
  BY DEF Asks
<1>3. PICK used \in 0..Turn :
        chat' = [chat EXCEPT ![s].at = IF used > 0 THEN "billOwn" ELSE "store", ![s].try = 1,
                             ![s].used = used, ![s].day = today]
  BY DEF Asks
<1> DEFINE d == [c EXCEPT !.at = IF used > 0 THEN "billOwn" ELSE "store", !.try = 1,
                          !.used = used, !.day = today]
<1>4. /\ d \in Going /\ d.at \in {"billOwn", "store"} /\ d.u = c.u /\ d.day = today
  <2>1. today \in Days /\ 1 \in 1..2
    BY <1>0 DEF ChatTypeOK
  <2>2. (IF used > 0 THEN "billOwn" ELSE "store") \in Stages \cap {"billOwn", "store"}
    BY DEF Stages
  <2> QED
    BY <1>1, <2>1, <2>2 DEF Going
<1>5. d \in ChatCalls
  BY <1>4, ChatKinds
<1>6. chat' = [chat EXCEPT ![s] = d]
  BY <1>0, <1>3 DEF ChatTypeOK
<1>7. ChatTypeOK'
  BY <1>0, <1>2, <1>5, <1>6 DEF ChatTypeOK
<1>8. DaysPast'
  BY <1>0, <1>2, <1>4, <1>6 DEF DaysPast, ChatTypeOK, Days
<1>9. \A k : ~Bumped(d, k) /\ ~Passed(d, k)
  BY <1>4 DEF Bumped, Passed
<1>10. ASSUME NEW k \in TokenKeys, Bills(d, k) PROVE Bills(c, k)
  <2>1. c.day <= today /\ c.day \in Days /\ today \in Days /\ DayOf(k) = today
    BY <1>0, <1>1, <1>4, <1>10, ChatKinds, Keys DEF DaysPast, Bills, ChatTypeOK, Going
  <2>2. c.day < DayOf(k) \/ c.day = DayOf(k)
    BY <2>1 DEF Days
  <2> QED
    BY <1>1, <1>4, <1>10, <2>2 DEF Bills
<1>11. n' \in [QuestionKeys \cup TokenKeys -> Nat] /\ \A k \in QuestionKeys : n'[k] >= n[k]
  BY <1>0, <1>2 DEF ChatTypeOK
<1> HIDE DEF d
<1>12. QuestionsCounted' /\ QuestionsCapped'
  BY <1>2, <1>5, <1>6, <1>9, <1>11, QuestionsStay
<1>13. TokensBounded'
  BY <1>2, <1>5, <1>6, <1>10, TokensStay
<1> QED
  BY <1>7, <1>8, <1>12, <1>13 DEF ChatInv

LEMMA RestartKeeps ==
  ASSUME ChatInv, Restart
  PROVE  ChatInv'
<1>0. ChatTypeOK
  BY DEF ChatInv
<1>1. chat' = [r \in Requests |-> Free] /\ UNCHANGED <<n, today, asked, sent, unanswered>>
  BY DEF Restart
<1>2. ChatTypeOK'
  BY <1>0, <1>1, ChatAssumption, ChatKinds DEF Restart, ChatTypeOK
<1>3. DaysPast'
  BY <1>1 DEF ChatInv, DaysPast
<1>4. \A k : Bumpers(chat', k) = {} /\ Passers(chat', k) = {} /\ Billers(chat', k) = {}
  BY <1>1, OverAndOut DEF Bumpers, Passers, Billers
<1>5. ASSUME NEW k \in QuestionKeys
      PROVE  /\ asked'[k] + Cardinality(Bumpers(chat', k)) <= n'[k]
             /\ asked'[k] + Cardinality(Passers(chat', k)) <= Cap(k)
  <2>1. /\ Cardinality(Bumpers(chat', k)) = 0 /\ Cardinality(Passers(chat', k)) = 0
    BY <1>4, FS_EmptySet
  <2>2. /\ Cardinality(Bumpers(chat, k)) \in Nat /\ Cardinality(Passers(chat, k)) \in Nat
        /\ asked[k] \in Nat /\ n[k] \in Nat /\ Cap(k) \in Nat
    BY <1>0, FewRequests, Keys DEF Bumpers, Passers, ChatTypeOK
  <2>3. /\ asked[k] + Cardinality(Bumpers(chat, k)) <= n[k]
        /\ asked[k] + Cardinality(Passers(chat, k)) <= Cap(k)
    BY DEF ChatInv, QuestionsCounted, QuestionsCapped
  <2> QED
    BY <1>1, <2>1, <2>2, <2>3
<1>6. ASSUME NEW k \in TokenKeys, n'[k] > Cap(k)
      PROVE  n'[k] + Cardinality(Billers(chat', k)) * Turn
               <= Cap(k) + (Cardinality(Requests) + unanswered') * Turn
  <2>1. Cardinality(Billers(chat', k)) = 0 /\ 0 * Turn = 0
    <3>1. 0 * Turn = 0
      BY ChatAssumption
    <3> QED
      BY <1>4, <3>1, FS_EmptySet
  <2>2. /\ n[k] + Cardinality(Billers(chat, k)) * Turn
             <= Cap(k) + (Cardinality(Requests) + unanswered) * Turn
        /\ Cardinality(Billers(chat, k)) \in Nat /\ n[k] \in Nat /\ Cap(k) \in Nat
        /\ Cardinality(Requests) + unanswered \in Nat
    BY <1>0, <1>1, <1>6, FewRequests, Keys DEF ChatInv, TokensBounded, Billers, ChatTypeOK
  <2>3. Cardinality(Billers(chat, k)) * Turn \in Nat
        /\ (Cardinality(Requests) + unanswered) * Turn \in Nat
    BY <2>2, Products
  <2> QED
    BY <1>1, <2>1, <2>2, <2>3
<1> QED
  BY <1>2, <1>3, <1>5, <1>6 DEF ChatInv, QuestionsCounted, QuestionsCapped, TokensBounded

LEMMA ChatSteps == ChatInv /\ [ChatNext]_chatVars => ChatInv'
<1> SUFFICES ASSUME ChatInv, [ChatNext]_chatVars PROVE ChatInv'
  OBVIOUS
<1>0. ChatTypeOK /\ DaysPast
  BY DEF ChatInv
<1>1. CASE UNCHANGED chatVars
  BY <1>0, <1>1, NobodyMoves DEF chatVars, ChatInv, ChatTypeOK, DaysPast
<1>2. ASSUME NEW s \in Requests, Throws(s) PROVE ChatInv'
  BY <1>2, LeavesKeeps DEF Throws
<1>3. ASSUME NEW s \in Requests, Stores(s) PROVE ChatInv'
  BY <1>3, LeavesKeeps DEF Stores
<1>4. ASSUME NEW u \in People, WindowSlides(u) PROVE ChatInv'
  <2>1. window[u] - 1 \in 0..PerMinute
    BY <1>0, <1>4, ChatAssumption DEF WindowSlides, ChatTypeOK
  <2>2. ChatTypeOK' /\ DaysPast'
    BY <1>0, <1>4, <2>1 DEF WindowSlides, ChatTypeOK, DaysPast
  <2> QED
    BY <1>4, <2>2, NobodyMoves DEF WindowSlides, ChatInv
<1>5. CASE Midnight
  <2>1. ChatTypeOK'
    BY <1>0, <1>5, ChatAssumption DEF Midnight, ChatTypeOK, Days
  <2>2. DaysPast'
    <3>1. ASSUME NEW r \in Requests, chat'[r] # Free PROVE chat'[r].day <= today'
      <4>1. chat[r].day <= today /\ chat[r].day \in Days /\ today \in Days
        BY <1>0, <1>5, <3>1, ChatKinds DEF Midnight, DaysPast, ChatTypeOK, Going
      <4> QED
        BY <1>5, <4>1 DEF Midnight, Days
    <3>2. ASSUME NEW k \in TokenKeys, DayOf(k) > today' PROVE n'[k] = 0
      <4>1. DayOf(k) > today
        BY <1>0, <1>5, <3>2, Keys DEF Midnight, ChatTypeOK, Days
      <4> QED
        BY <1>0, <1>5, <4>1 DEF Midnight, DaysPast
    <3> QED
      BY <3>1, <3>2 DEF DaysPast
  <2> QED
    BY <1>5, <2>1, <2>2, NobodyMoves DEF Midnight, ChatInv
<1> QED
  BY <1>1, <1>2, <1>3, <1>4, <1>5, ArrivesKeeps, BumpsKeeps, UnansweredKeeps, ReadsKeeps,
     ReadsTokensKeeps, AsksKeeps, RestartKeeps DEF ChatNext

\* No ceiling of a day is passed, of a person or of everybody, though the count, the
\* comparison and the billed call are separate calls, some of them repeated, and the api
\* restarts in between; and the tokens pass theirs by one turn for each request served at
\* a time and one for each write repeated, for any number of people, requests and days.
THEOREM CeilingsAreKept == ChatSpec => []CeilingsHold
<1>1. ASSUME ChatInv PROVE CapsHold
  <2>1. ASSUME NEW k \in QuestionKeys PROVE asked[k] <= Cap(k)
    <3>1. asked[k] + Cardinality(Passers(chat, k)) <= Cap(k) /\ asked[k] \in Nat
          /\ Cardinality(Passers(chat, k)) \in Nat /\ Cap(k) \in Nat
      BY <1>1, FewRequests, Keys DEF ChatInv, ChatTypeOK, QuestionsCapped, Passers
    <3> QED
      BY <3>1
  <2> QED
    BY <2>1 DEF CapsHold
<1>2. ASSUME ChatInv PROVE OvershootByThoseUnderWay
  <2>1. ASSUME NEW k \in TokenKeys
        PROVE  n[k] <= Cap(k) + (Cardinality(Requests) + unanswered) * Turn
    <3>1. n[k] \in Nat /\ Cap(k) \in Nat /\ unanswered \in Nat /\ Billers(chat, k) \in SUBSET Requests
      BY <1>2, Keys DEF ChatInv, ChatTypeOK, Billers
    <3>2. Cardinality(Billers(chat, k)) \in Nat /\ Cardinality(Requests) + unanswered \in Nat
      BY <3>1, FewRequests
    <3>3. /\ Cardinality(Billers(chat, k)) * Turn \in Nat
          /\ (Cardinality(Requests) + unanswered) * Turn \in Nat
      BY <3>2, Products
    <3>4. n[k] + Cardinality(Billers(chat, k)) * Turn
            <= Cap(k) + (Cardinality(Requests) + unanswered) * Turn
      <4>1. CASE n[k] > Cap(k)
        BY <1>2, <4>1 DEF ChatInv, TokensBounded
      <4>2. CASE n[k] <= Cap(k)
        BY <1>2, <3>1, <4>2, Fits
      <4> QED
        BY <3>1, <4>1, <4>2
    <3> QED
      BY <3>1, <3>3, <3>4
  <2> QED
    BY <2>1 DEF OvershootByThoseUnderWay
<1> QED
  BY <1>1, <1>2, ChatStarts, ChatSteps, PTL DEF ChatSpec, CeilingsHold

-----------------------------------------------------------------------------
(* The data client: where the attempts of a call are, and what its row holds. *)

Outs == [at: {"out"}, kind: Kinds, try: 1..Tries]
Results == [is: {"threw", "answer", "refused", "unreachable"}, saw: Ops \cup {0}]
Dones == [at: {"done"}, kind: Kinds, result: Results]
DataTypeOK ==
  /\ call \in [Ops -> {NotYet} \cup Outs \cup Dones]
  /\ wire \subseteq Ops \X (1..Tries) /\ runs \in [Ops -> Nat] /\ cut \subseteq Ops
  /\ back \subseteq [to: Ops \X (1..Tries), ok: BOOLEAN, saw: Ops \cup {0}]
  /\ table \in Ops \cup {0} /\ secret \in BOOLEAN

Started(c) == call[c] # NotYet
Out(c) == call[c].at = "out"
\* The attempts of a call that are on their way to the service.
OnWire(w, c) == {t \in 1..Tries : <<c, t>> \in w}
\* How often it has been sent, at most.
Sendings(x) == CASE x.at = "no" -> 0 [] x.at = "out" -> x.try
                 [] x.at = "done" -> IF x.result.is = "threw" THEN 0 ELSE Tries

\* The calls of one caller come one after the other.
OneAtATime == \A c, d \in Ops : Started(c) /\ d < c => Done(d)

\* Every attempt was sent, and what was cut off was under way.
AttemptsWereSent ==
  /\ \A r \in wire : Started(r[1]) /\ (Out(r[1]) => r[2] <= call[r[1]].try)
  /\ \A a \in back : Started(a.to[1]) /\ (Out(a.to[1]) => a.to[2] <= call[a.to[1]].try)
  /\ \A c \in cut : Started(c)
  /\ \A c \in Ops : Out(c) /\ c \notin cut => call[c].try = 1

\* An attempt is in one place, and a call that is over has none unless it was cut off.
OnePlace ==
  /\ \A r \in wire, a \in back : a.to # r
  /\ \A a, b \in back : a.to = b.to => a = b
  /\ \A c \in Ops : Done(c) /\ c \notin cut =>
       (\A r \in wire : r[1] # c) /\ (\A a \in back : a.to[1] # c)

\* The service has run a call no more often than it was sent.
RunsCounted ==
  \A c \in Ops :
    /\ runs[c] + Cardinality(OnWire(wire, c)) <= Sendings(call[c])
    /\ c \notin cut => runs[c] + Cardinality(OnWire(wire, c)) <= 1
    /\ Is(c, "answer") => runs[c] > 0
AnsweredRan == \A a \in back : a.ok => runs[a.to[1]] > 0

\* What the row holds, and what an answer saw of it, is a call that has started, and none
\* before the last write that was answered while no write is in doubt.
Fresh(v, c) == \A w \in Ops : Is(w, "answer") /\ call[w].kind = "write" /\ w <= c => w <= v
RowIsFresh ==
  /\ table # 0 => Started(table)
  /\ \A a \in back : a.saw # 0 => Started(a.saw)
  /\ Unsure = {} =>
       /\ \A c \in Ops : Fresh(table, c)
       /\ \A a \in back : a.ok => Fresh(a.saw, a.to[1])
       /\ \A a \in back : a.ok /\ call[a.to[1]].kind = "write" => a.saw = a.to[1] /\ a.to[1] <= table
AnswersAreFresh ==
  Unsure = {} => \A c \in Ops : Is(c, "answer") => Saw(c) <= c /\ Fresh(Saw(c), c)

DataInv ==
  /\ DataTypeOK /\ OneAtATime /\ AttemptsWereSent /\ OnePlace
  /\ RunsCounted /\ AnsweredRan /\ RowIsFresh /\ AnswersAreFresh

\* A call has not begun, is out, or is over, and has the fields of its kind.
LEMMA Shapes ==
  ASSUME DataTypeOK, NEW c \in Ops
  PROVE  \/ call[c] = NotYet /\ call[c].at = "no"
         \/ call[c] \in Outs /\ call[c].at = "out" /\ call[c] # NotYet
         \/ call[c] \in Dones /\ call[c].at = "done" /\ call[c] # NotYet
<1>1. call[c] \in {NotYet} \cup Outs \cup Dones
  BY DEF DataTypeOK
<1> QED
  BY <1>1 DEF NotYet, Outs, Dones

\* The attempts on their way are few, and come and go one at a time.
LEMMA WireCount ==
  ASSUME NEW w, w \subseteq Ops \X (1..Tries), NEW c \in Ops
  PROVE  /\ IsFiniteSet(OnWire(w, c)) /\ Cardinality(OnWire(w, c)) \in Nat
         /\ \A t \in 1..Tries : <<c, t>> \notin w =>
              Cardinality(OnWire(w \cup {<<c, t>>}, c)) = Cardinality(OnWire(w, c)) + 1
         /\ \A t \in 1..Tries : <<c, t>> \in w =>
              Cardinality(OnWire(w \ {<<c, t>>}, c)) = Cardinality(OnWire(w, c)) - 1
         /\ \A r \in Ops \X (1..Tries) : r[1] # c =>
              OnWire(w \cup {r}, c) = OnWire(w, c) /\ OnWire(w \ {r}, c) = OnWire(w, c)
         /\ (\A r \in w : r[1] # c) => Cardinality(OnWire(w, c)) = 0
<1> USE DataAssumption
<1>1. IsFiniteSet(1..Tries)
  BY FS_Interval
<1>2. IsFiniteSet(OnWire(w, c))
  BY <1>1, FS_Subset DEF OnWire
<1>3. Cardinality(OnWire(w, c)) \in Nat
  BY <1>2, FS_CardinalityType
<1>4. ASSUME NEW t \in 1..Tries, <<c, t>> \notin w
      PROVE  Cardinality(OnWire(w \cup {<<c, t>>}, c)) = Cardinality(OnWire(w, c)) + 1
  <2>1. OnWire(w \cup {<<c, t>>}, c) = OnWire(w, c) \cup {t} /\ t \notin OnWire(w, c)
    BY <1>4 DEF OnWire
  <2> QED
    BY <1>2, <2>1, FS_AddElement
<1>5. ASSUME NEW t \in 1..Tries, <<c, t>> \in w
      PROVE  Cardinality(OnWire(w \ {<<c, t>>}, c)) = Cardinality(OnWire(w, c)) - 1
  <2>1. OnWire(w \ {<<c, t>>}, c) = OnWire(w, c) \ {t} /\ t \in OnWire(w, c)
    BY <1>5 DEF OnWire
  <2> QED
    BY <1>2, <2>1, FS_RemoveElement
<1>6. ASSUME NEW r \in Ops \X (1..Tries), r[1] # c
      PROVE  OnWire(w \cup {r}, c) = OnWire(w, c) /\ OnWire(w \ {r}, c) = OnWire(w, c)
  <2>1. \A t : <<c, t>> # r
    BY <1>6
  <2> QED
    BY <2>1 DEF OnWire
<1>7. ASSUME \A r \in w : r[1] # c PROVE Cardinality(OnWire(w, c)) = 0
  <2>1. OnWire(w, c) = {}
    BY <1>7 DEF OnWire
  <2> QED
    BY <2>1, FS_EmptySet
<1> QED
  BY <1>2, <1>3, <1>4, <1>5, <1>6, <1>7

\* No call has begun after the one that is out.
LEMMA Youngest ==
  ASSUME DataInv, NEW c \in Ops, Out(c)
  PROVE  \A d \in Ops : Started(d) => d <= c
<1>1. ASSUME NEW d \in Ops, Started(d), c < d PROVE FALSE
  <2>1. Done(c)
    BY <1>1 DEF DataInv, OneAtATime
  <2> QED
    BY <2>1 DEF Done, Out
<1> QED
  BY <1>1, DataAssumption

LEMMA DataStarts == DataInit => DataInv
<1> SUFFICES ASSUME DataInit PROVE DataInv
  OBVIOUS
<1>1. DataTypeOK
  BY DEF DataInit, DataTypeOK
<1>2. \A c \in Ops : call[c] = NotYet /\ call[c].at = "no" /\ runs[c] = 0
  BY DEF DataInit, NotYet
<1>3. RunsCounted
  <2>1. \A c \in Ops : Cardinality(OnWire(wire, c)) = 0
    BY <1>1, WireCount DEF DataInit, DataTypeOK
  <2> QED
    BY <1>2, <2>1 DEF RunsCounted, Sendings, Is, Done
<1> QED
  BY <1>1, <1>2, <1>3 DEF DataInit, DataInv, OneAtATime, AttemptsWereSent, OnePlace, AnsweredRan,
                          RowIsFresh, AnswersAreFresh, Fresh, Started, Out, Done, Is

\* What a step leaves of the calls but one.
Besides(old, next, c) == \A d \in Ops : d # c => next[d] = old[d]

\* A call is sent for the first time, or never.
LEMMA BeginsKeeps ==
  ASSUME DataInv, NEW c \in Ops, NEW k \in Kinds, NEW i \in BOOLEAN, Begins(c, k, i)
  PROVE  DataInv'
<1> USE DataAssumption
<1> DEFINE first == [at |-> "out", kind |-> k, try |-> 1]
           never == [at |-> "done", kind |-> k, result |-> Result("threw", 0)]
<1>0. DataTypeOK /\ OneAtATime /\ AttemptsWereSent /\ OnePlace
      /\ RunsCounted /\ AnsweredRan /\ RowIsFresh /\ AnswersAreFresh
  BY DEF DataInv
<1>1. first \in Outs /\ never \in Dones /\ first # NotYet /\ never # NotYet
      /\ first.at = "out" /\ first.try = 1 /\ never.at = "done" /\ never.result.is = "threw"
  BY DEF Outs, Dones, Results, Result, NotYet
<1>2. call[c] = NotYet /\ call[c].at = "no" /\ ~Started(c)
  BY DEF Begins, NotYet, Started
<1>3. \/ call'[c] = first /\ call' = [call EXCEPT ![c] = first] /\ wire' = wire \cup {<<c, 1>>}
      \/ call'[c] = never /\ call' = [call EXCEPT ![c] = never] /\ wire' = wire
  BY <1>0 DEF Begins, DataTypeOK
<1>4. Besides(call, call', c) /\ UNCHANGED <<secret, back, table, runs, cut>>
  BY <1>0, <1>3 DEF Begins, Besides, DataTypeOK
<1> HIDE DEF first, never
<1>5. (\A r \in wire : r[1] # c) /\ (\A a \in back : a.to[1] # c) /\ c \notin cut
  BY <1>0, <1>2 DEF AttemptsWereSent
<1>6. DataTypeOK'
  <2>1. call' \in [Ops -> {NotYet} \cup Outs \cup Dones]
    BY <1>0, <1>1, <1>3 DEF DataTypeOK
  <2>2. wire' \subseteq Ops \X (1..Tries)
    BY <1>0, <1>3 DEF DataTypeOK
  <2> QED
    BY <1>0, <1>4, <2>1, <2>2 DEF DataTypeOK
<1>7. OneAtATime'
  <2>1. \A d \in Ops : d < c => Done(d)
    BY DEF Begins
  <2>2. \A d \in Ops \ {c} : Started(d)' = Started(d) /\ Done(d)' = Done(d)
    BY <1>4 DEF Started, Done, Besides
  <2>3. \A d \in Ops : Done(d) => d # c
    BY <1>2 DEF Done
  <2> QED
    BY <1>0, <2>1, <2>2, <2>3 DEF OneAtATime, Done
<1>8. AttemptsWereSent'
  <2>1. \A r \in wire : call'[r[1]] = call[r[1]]
    BY <1>0, <1>4, <1>5 DEF Besides, DataTypeOK
  <2>2. \A a \in back : call'[a.to[1]] = call[a.to[1]]
    BY <1>0, <1>4, <1>5 DEF Besides, DataTypeOK
  <2>3. \A d \in cut : call'[d] = call[d]
    BY <1>0, <1>4, <1>5 DEF Besides, DataTypeOK
  <2>4. call'[c] # NotYet /\ (call'[c].at = "out" => call'[c].try = 1)
    BY <1>1, <1>3
  <2>5. \A r \in wire' : r \in wire \/ r = <<c, 1>>
    BY <1>3
  <2>6. \A d \in Ops : d # c => call'[d] = call[d]
    BY <1>4 DEF Besides
  <2> QED
    BY <1>0, <1>4, <2>1, <2>2, <2>3, <2>4, <2>5, <2>6 DEF AttemptsWereSent, Started, Out
<1>9. OnePlace'
  <2>1. \A r \in wire' : r \in wire \/ (r = <<c, 1>> /\ call'[c].at = "out")
    BY <1>1, <1>3
  <2>2. \A d \in Ops : Done(d)' /\ d # c => Done(d)
    BY <1>4 DEF Besides, Done
  <2>3. \A a \in back : a.to # <<c, 1>>
    BY <1>5
  <2> QED
    BY <1>0, <1>4, <1>5, <2>1, <2>2, <2>3 DEF OnePlace, Done
<1>10. RunsCounted'
  <2>1. ASSUME NEW d \in Ops, d # c
        PROVE  call'[d] = call[d] /\ OnWire(wire', d) = OnWire(wire, d) /\ runs'[d] = runs[d]
    <3>1. OnWire(wire \cup {<<c, 1>>}, d) = OnWire(wire, d)
      <4>1. <<c, 1>> \in Ops \X (1..Tries) /\ <<c, 1>>[1] # d
        BY <2>1
      <4> QED
        BY <1>0, <4>1, WireCount DEF DataTypeOK
    <3> QED
      BY <1>3, <1>4, <2>1, <3>1 DEF Besides
  <2>2. Cardinality(OnWire(wire, c)) = 0 /\ runs[c] = 0
    <3>1. Cardinality(OnWire(wire, c)) = 0
      BY <1>0, <1>5, WireCount DEF DataTypeOK
    <3>2. Sendings(call[c]) = 0 /\ runs[c] \in Nat
      BY <1>0, <1>2 DEF Sendings, DataTypeOK
    <3> QED
      BY <1>0, <3>1, <3>2 DEF RunsCounted
  <2>3. /\ runs'[c] + Cardinality(OnWire(wire', c)) <= Sendings(call'[c])
        /\ runs'[c] + Cardinality(OnWire(wire', c)) <= 1
        /\ ~(Is(c, "answer"))'
    <3>1. <<c, 1>> \notin wire
      BY <1>5
    <3>2. Cardinality(OnWire(wire \cup {<<c, 1>>}, c)) = 1
      BY <1>0, <2>2, <3>1, WireCount DEF DataTypeOK
    <3>3. Sendings(first) = 1 /\ Sendings(never) = 0
      BY <1>1 DEF Sendings
    <3> QED
      BY <1>1, <1>3, <1>4, <2>2, <3>2, <3>3 DEF Is, Done
  <2> QED
    BY <1>0, <1>4, <2>1, <2>3 DEF RunsCounted, Is, Done
<1>11. AnsweredRan'
  BY <1>0, <1>4 DEF AnsweredRan
<1>12. ~(Is(c, "answer"))' /\ \A d \in Ops : d # c => ((Is(d, "answer"))' <=> Is(d, "answer"))
  BY <1>1, <1>3, <1>4 DEF Is, Done, Besides
<1>13. Unsure' = Unsure
  BY <1>0, <1>4, <1>5 DEF Unsure, Besides, DataTypeOK
<1>14. ASSUME NEW v, NEW x, Fresh(v, x) PROVE Fresh(v, x)'
  BY <1>4, <1>12, <1>14 DEF Fresh, Besides
<1>15. RowIsFresh'
  <2>1. \A d \in Ops : Started(d) => Started(d)'
    BY <1>2, <1>4 DEF Started, Besides
  <2>2. \A a \in back : call'[a.to[1]] = call[a.to[1]]
    BY <1>0, <1>4, <1>5 DEF Besides, DataTypeOK
  <2>3. /\ table # 0 => table \in Ops
        /\ \A a \in back : a.saw # 0 => a.saw \in Ops
    BY <1>0 DEF DataTypeOK
  <2> QED
    BY <1>0, <1>4, <1>13, <1>14, <2>1, <2>2, <2>3 DEF RowIsFresh
<1>16. AnswersAreFresh'
  BY <1>0, <1>4, <1>12, <1>13, <1>14 DEF AnswersAreFresh, Besides, Saw
<1> QED
  BY <1>6, <1>7, <1>8, <1>9, <1>10, <1>11, <1>15, <1>16 DEF DataInv

\* The service takes a request off the wire: the count of those on their way falls.
LEMMA Lands ==
  ASSUME DataInv, NEW r \in wire, wire' = wire \ {r}
  PROVE  /\ r[1] \in Ops /\ r[2] \in 1..Tries /\ r = <<r[1], r[2]>> /\ Started(r[1])
         /\ Cardinality(OnWire(wire', r[1])) = Cardinality(OnWire(wire, r[1])) - 1
         /\ \A d \in Ops : d # r[1] => OnWire(wire', d) = OnWire(wire, d)
         /\ \A d \in Ops : Cardinality(OnWire(wire, d)) \in Nat
<1>0. wire \subseteq Ops \X (1..Tries)
  BY DEF DataInv, DataTypeOK
<1>1. r[1] \in Ops /\ r[2] \in 1..Tries /\ r = <<r[1], r[2]>>
  BY <1>0
<1>2. Started(r[1])
  BY DEF DataInv, AttemptsWereSent
<1>3. Cardinality(OnWire(wire \ {r}, r[1])) = Cardinality(OnWire(wire, r[1])) - 1
  <2>1. \A t \in 1..Tries : <<r[1], t>> \in wire =>
          Cardinality(OnWire(wire \ {<<r[1], t>>}, r[1])) = Cardinality(OnWire(wire, r[1])) - 1
    BY <1>0, <1>1, WireCount
  <2> QED
    BY <1>1, <2>1
<1>4. ASSUME NEW d \in Ops PROVE Cardinality(OnWire(wire, d)) \in Nat
  BY <1>0, WireCount
<1>5. ASSUME NEW d \in Ops, d # r[1] PROVE OnWire(wire \ {r}, d) = OnWire(wire, d)
  BY <1>0, <1>1, <1>5, WireCount
<1> QED
  BY <1>1, <1>2, <1>3, <1>4, <1>5

\* While no write is in doubt, no write before one that has begun is still on its way.
LEMMA NoneBehind ==
  ASSUME DataInv, Unsure = {}, NEW r \in wire, call[r[1]].kind = "write"
  PROVE  \A d \in Ops : Started(d) => d <= r[1]
<1>1. r[1] \in Ops
  BY DEF DataInv, DataTypeOK
<1>2. ~Done(r[1])
  BY <1>1 DEF DataInv, OnePlace, Unsure
<1>3. ASSUME NEW d \in Ops, Started(d) PROVE d <= r[1]
  <2>1. ~(r[1] < d)
    BY <1>1, <1>2, <1>3 DEF DataInv, OneAtATime
  <2>2. r[1] \in Nat /\ d \in Nat
    BY <1>1, DataAssumption
  <2> QED
    BY <2>1, <2>2
<1> QED
  BY <1>3

\* The service runs a request.
LEMMA RunsKeeps ==
  ASSUME DataInv, NEW r \in wire, Runs(r)
  PROVE  DataInv'
<1> USE DataAssumption
<1>0. DataTypeOK /\ OneAtATime /\ AttemptsWereSent /\ OnePlace
      /\ RunsCounted /\ AnsweredRan /\ RowIsFresh /\ AnswersAreFresh
  BY DEF DataInv
<1>1. wire' = wire \ {r} /\ UNCHANGED <<secret, call, cut>>
  BY DEF Runs
<1>2. r[1] \in Ops /\ r[2] \in 1..Tries /\ r = <<r[1], r[2]>> /\ Started(r[1])
      /\ Cardinality(OnWire(wire', r[1])) = Cardinality(OnWire(wire, r[1])) - 1
      /\ (\A d \in Ops : d # r[1] => OnWire(wire', d) = OnWire(wire, d))
      /\ \A d \in Ops : Cardinality(OnWire(wire, d)) \in Nat
  BY <1>1, Lands
<1>3. runs'[r[1]] = runs[r[1]] + 1 /\ (\A d \in Ops : d # r[1] => runs'[d] = runs[d])
      /\ runs' \in [Ops -> Nat]
  <2> DEFINE c == r[1]
  <2>1. c \in Ops /\ runs \in [Ops -> Nat]
    BY <1>0, <1>2 DEF DataTypeOK
  <2>2. runs' = [runs EXCEPT ![c] = runs[c] + 1]
    BY DEF Runs
  <2> HIDE DEF c
  <2>3. runs[c] + 1 \in Nat
    BY <2>1
  <2>4. runs'[c] = runs[c] + 1 /\ (\A d \in Ops : d # c => runs'[d] = runs[d])
        /\ runs' \in [Ops -> Nat]
    BY <2>1, <2>2, <2>3
  <2> QED
    BY <2>4 DEF c
<1>4. table' = IF call[r[1]].kind = "write" THEN r[1] ELSE table
  BY DEF Runs
<1>5. PICK b : b = [to |-> r, ok |-> TRUE, saw |-> table'] /\ back' = back \cup {b}
  BY DEF Runs
<1>6. b.to = r /\ b.ok = TRUE /\ b.saw = table'
  BY <1>5
<1>7. DataTypeOK'
  <2>1. table' \in Ops \cup {0}
    BY <1>0, <1>2, <1>4 DEF DataTypeOK
  <2>2. b \in [to: Ops \X (1..Tries), ok: BOOLEAN, saw: Ops \cup {0}]
    BY <1>0, <1>5, <2>1 DEF DataTypeOK
  <2> QED
    BY <1>0, <1>1, <1>3, <1>5, <2>1, <2>2 DEF DataTypeOK
<1>8. OneAtATime'
  BY <1>0, <1>1 DEF OneAtATime, Started, Done
<1>9. AttemptsWereSent'
  BY <1>0, <1>1, <1>5, <1>6 DEF AttemptsWereSent, Started, Out
<1>10. OnePlace'
  <2>1. \A q \in wire', a \in back' : a.to # q
    BY <1>0, <1>1, <1>5, <1>6 DEF OnePlace
  <2>2. \A x, y \in back' : x.to = y.to => x = y
    <3>1. \A a \in back : a.to # r
      BY <1>0 DEF OnePlace
    <3>2. \A x, y \in back : x.to = y.to => x = y
      BY <1>0 DEF OnePlace
    <3>3. back' = back \cup {b}
      BY <1>5
    <3>4. ASSUME NEW x \in back', NEW y \in back', x.to = y.to PROVE x = y
      <4>1. CASE x = b
        BY <1>6, <3>1, <3>3, <3>4, <4>1
      <4>2. CASE y = b
        BY <1>6, <3>1, <3>3, <3>4, <4>2
      <4> QED
        BY <3>2, <3>3, <3>4, <4>1, <4>2
    <3> QED
      BY <3>4
  <2>3. \A d \in Ops : Done(d) /\ d \notin cut =>
          (\A q \in wire' : q[1] # d) /\ (\A a \in back' : a.to[1] # d)
    BY <1>0, <1>1, <1>5, <1>6 DEF OnePlace
  <2> QED
    BY <1>1, <2>1, <2>2, <2>3 DEF OnePlace, Done
<1>11. RunsCounted'
  <2>1. ASSUME NEW d \in Ops
        PROVE  runs'[d] + Cardinality(OnWire(wire', d)) = runs[d] + Cardinality(OnWire(wire, d))
               /\ runs'[d] >= runs[d]
    <3>1. CASE d = r[1]
      BY <1>0, <1>2, <1>3, <3>1 DEF DataTypeOK
    <3>2. CASE d # r[1]
      BY <1>0, <1>2, <1>3, <3>2 DEF DataTypeOK
    <3> QED
      BY <3>1, <3>2
  <2>2. ASSUME NEW d \in Ops PROVE runs'[d] \in Nat /\ runs[d] \in Nat
    BY <1>0, <1>3 DEF DataTypeOK
  <2>3. ASSUME NEW d \in Ops
        PROVE  /\ runs'[d] + Cardinality(OnWire(wire', d)) <= Sendings(call[d])
               /\ d \notin cut => runs'[d] + Cardinality(OnWire(wire', d)) <= 1
    BY <1>0, <2>1 DEF RunsCounted
  <2>4. ASSUME NEW d \in Ops, Is(d, "answer") PROVE runs'[d] > 0
    <3>1. runs[d] > 0
      BY <1>0, <2>4 DEF RunsCounted
    <3> QED
      BY <2>1, <2>2, <3>1
  <2> QED
    BY <1>1, <2>3, <2>4 DEF RunsCounted, Is, Done
<1>12. AnsweredRan'
  <2>1. \A a \in back : a.to[1] \in Ops
    BY <1>0 DEF DataTypeOK
  <2>2. \A d \in Ops : runs[d] \in Nat
    BY <1>0 DEF DataTypeOK
  <2> QED
    BY <1>0, <1>2, <1>3, <1>5, <1>6, <2>1, <2>2 DEF AnsweredRan
<1>13. RowIsFresh'
  <2>1. table' # 0 => Started(table')
    BY <1>0, <1>2, <1>4 DEF RowIsFresh
  <2>2. \A a \in back' : a.saw # 0 => Started(a.saw)
    BY <1>0, <1>5, <1>6, <2>1 DEF RowIsFresh
  <2>3. Unsure' = Unsure
    BY <1>1 DEF Unsure
  <2>4. ASSUME NEW v, NEW x PROVE Fresh(v, x)' <=> Fresh(v, x)
    BY <1>1 DEF Fresh, Is, Done
  <2>5. ASSUME Unsure = {}
        PROVE  /\ \A c \in Ops : Fresh(table', c)
               /\ \A a \in back' : a.ok => Fresh(a.saw, a.to[1])
               /\ \A a \in back' : a.ok /\ call[a.to[1]].kind = "write"
                                      => a.saw = a.to[1] /\ a.to[1] <= table'
    <3>1. CASE call[r[1]].kind = "write"
      <4>1. \A d \in Ops : Started(d) => d <= r[1]
        BY <2>5, <3>1, NoneBehind
      <4>2. table' = r[1]
        BY <1>4, <3>1
      <4>3. \A d \in Ops : Is(d, "answer") => Started(d)
        BY DEF Is, Done, Started, NotYet
      <4>4. \A c \in Ops : Fresh(table', c)
        BY <4>1, <4>2, <4>3 DEF Fresh
      <4>5. \A a \in back : a.to[1] \in Ops /\ Started(a.to[1])
        BY <1>0 DEF AttemptsWereSent, DataTypeOK
      <4>6. r[1] <= r[1]
        BY <1>2
      <4>7. \A a \in back : a.ok /\ call[a.to[1]].kind = "write"
                               => a.saw = a.to[1] /\ a.to[1] <= table'
        BY <1>0, <2>5, <4>1, <4>2, <4>5 DEF RowIsFresh
      <4> QED
        BY <1>0, <1>2, <1>5, <1>6, <2>5, <4>2, <4>4, <4>6, <4>7 DEF RowIsFresh
    <3>2. CASE call[r[1]].kind # "write"
      <4>1. table' = table
        BY <1>4, <3>2
      <4> QED
        BY <1>0, <1>2, <1>5, <1>6, <2>5, <3>2, <4>1 DEF RowIsFresh
    <3> QED
      BY <3>1, <3>2
  <2> QED
    BY <1>1, <2>1, <2>2, <2>3, <2>4, <2>5 DEF RowIsFresh, Started
<1>14. AnswersAreFresh'
  BY <1>0, <1>1 DEF AnswersAreFresh, Unsure, Fresh, Is, Done, Saw
<1> QED
  BY <1>7, <1>8, <1>9, <1>10, <1>11, <1>12, <1>13, <1>14 DEF DataInv

\* A request is refused, or lost, before it runs.
LEMMA LostKeeps ==
  ASSUME DataInv, NEW r \in wire, RefusesIt(r) \/ Drops(r)
  PROVE  DataInv'
<1> USE DataAssumption
<1>0. DataTypeOK /\ OneAtATime /\ AttemptsWereSent /\ OnePlace
      /\ RunsCounted /\ AnsweredRan /\ RowIsFresh /\ AnswersAreFresh
  BY DEF DataInv
<1>1. wire' = wire \ {r} /\ UNCHANGED <<secret, call, cut, table, runs>>
  BY DEF RefusesIt, Drops
<1>2. r[1] \in Ops /\ r[2] \in 1..Tries /\ r = <<r[1], r[2]>> /\ Started(r[1])
      /\ Cardinality(OnWire(wire', r[1])) = Cardinality(OnWire(wire, r[1])) - 1
      /\ (\A d \in Ops : d # r[1] => OnWire(wire', d) = OnWire(wire, d))
      /\ \A d \in Ops : Cardinality(OnWire(wire, d)) \in Nat
  BY <1>1, Lands
<1>3. \A a \in back' : a \in back \/ (a.to = r /\ a.ok = FALSE /\ a.saw = table)
  BY DEF RefusesIt, Drops
<1>4. DataTypeOK'
  <2>1. back' \subseteq [to: Ops \X (1..Tries), ok: BOOLEAN, saw: Ops \cup {0}]
    <3>1. r \in Ops \X (1..Tries) /\ table \in Ops \cup {0}
      BY <1>0 DEF DataTypeOK
    <3>2. [to |-> r, ok |-> FALSE, saw |-> table] \in [to: Ops \X (1..Tries), ok: BOOLEAN, saw: Ops \cup {0}]
      BY <3>1
    <3> QED
      BY <1>0, <3>2 DEF RefusesIt, Drops, DataTypeOK
  <2> QED
    BY <1>0, <1>1, <2>1 DEF DataTypeOK
<1>5. OneAtATime'
  BY <1>0, <1>1 DEF OneAtATime, Started, Done
<1>6. AttemptsWereSent'
  BY <1>0, <1>1, <1>3 DEF AttemptsWereSent, Started, Out
<1>7. OnePlace'
  <2>1. \A a, b \in back' : a.to = b.to => a = b
    <3>1. PICK b : b.to = r /\ back' \subseteq back \cup {b}
      <4>1. CASE RefusesIt(r)
        BY <4>1 DEF RefusesIt
      <4>2. CASE Drops(r)
        <5>1. [to |-> r].to = r
          OBVIOUS
        <5> QED
          BY <4>2, <5>1 DEF Drops
      <4> QED
        BY <4>1, <4>2
    <3>2. \A a \in back : a.to # r
      BY <1>0 DEF OnePlace
    <3> QED
      BY <1>0, <3>1, <3>2 DEF OnePlace
  <2> QED
    BY <1>0, <1>1, <1>2, <1>3, <2>1 DEF OnePlace, Done
<1>8. RunsCounted'
  <2>1. ASSUME NEW d \in Ops
        PROVE  /\ runs[d] + Cardinality(OnWire(wire', d)) <= runs[d] + Cardinality(OnWire(wire, d))
               /\ runs[d] + Cardinality(OnWire(wire', d)) \in Int
               /\ runs[d] + Cardinality(OnWire(wire, d)) \in Int
    <3>1. CASE d = r[1]
      BY <1>0, <1>2, <3>1 DEF DataTypeOK
    <3>2. CASE d # r[1]
      BY <1>0, <1>2, <3>2 DEF DataTypeOK
    <3> QED
      BY <3>1, <3>2
  <2>2. ASSUME NEW d \in Ops PROVE Sendings(call[d]) \in Int
    BY <1>0, Shapes DEF Sendings, Outs, Dones, NotYet
  <2>3. ASSUME NEW d \in Ops
        PROVE  /\ runs[d] + Cardinality(OnWire(wire', d)) <= Sendings(call[d])
               /\ d \notin cut => runs[d] + Cardinality(OnWire(wire', d)) <= 1
    BY <1>0, <2>1, <2>2 DEF RunsCounted
  <2> QED
    BY <1>0, <1>1, <2>3 DEF RunsCounted, Is, Done
<1>9. AnsweredRan'
  BY <1>0, <1>1, <1>3 DEF AnsweredRan
<1>10. RowIsFresh'
  <2>1. \A a \in back' : a.saw # 0 => Started(a.saw)
    BY <1>0, <1>3 DEF RowIsFresh
  <2>2. Unsure' = Unsure
    BY <1>1 DEF Unsure
  <2>3. ASSUME NEW v, NEW x PROVE Fresh(v, x)' <=> Fresh(v, x)
    BY <1>1 DEF Fresh, Is, Done
  <2> QED
    BY <1>0, <1>1, <1>3, <2>1, <2>2, <2>3 DEF RowIsFresh, Started
<1>11. AnswersAreFresh'
  BY <1>0, <1>1 DEF AnswersAreFresh, Unsure, Fresh, Is, Done, Saw
<1> QED
  BY <1>4, <1>5, <1>6, <1>7, <1>8, <1>9, <1>10, <1>11 DEF DataInv

\* An answer returns to the call that waits for it.
LEMMA ReturnsKeeps ==
  ASSUME DataInv, NEW a \in back, Returns(a)
  PROVE  DataInv'
<1> USE DataAssumption
<1> DEFINE c == a.to[1]
           x == [at |-> "done", kind |-> call[c].kind, result |-> Result("answer", a.saw)]
<1>0. DataTypeOK /\ OneAtATime /\ AttemptsWereSent /\ OnePlace
      /\ RunsCounted /\ AnsweredRan /\ RowIsFresh /\ AnswersAreFresh
  BY DEF DataInv
<1>1. c \in Ops /\ a.to = <<a.to[1], a.to[2]>> /\ a.saw \in Ops \cup {0}
  BY <1>0 DEF DataTypeOK
<1>2. call[c] \in Outs /\ call[c].at = "out" /\ call[c].try = a.to[2] /\ Out(c) /\ a.ok
      /\ call[c].kind \in Kinds /\ call[c].try \in 1..Tries
  <2>1. call[c].at = "out" /\ call[c].try = a.to[2] /\ a.ok
    BY DEF Returns, For
  <2>2. call[c] \in Outs
    BY <1>0, <1>1, <2>1, Shapes
  <2> QED
    BY <2>1, <2>2 DEF Outs, Out
<1>3. x \in Dones /\ x # NotYet /\ x.at = "done" /\ x.kind = call[c].kind
      /\ x.result.is = "answer" /\ x.result.saw = a.saw
  BY <1>1, <1>2 DEF Dones, Results, Result, NotYet
<1>4. call' = [call EXCEPT ![c] = x] /\ back' = back \ {a}
      /\ UNCHANGED <<secret, wire, table, runs, cut>>
  BY DEF Returns, Concludes
<1> HIDE DEF c, x
<1>5. call'[c] = x /\ (\A d \in Ops : d # c => call'[d] = call[d])
      /\ call' \in [Ops -> {NotYet} \cup Outs \cup Dones]
  BY <1>0, <1>1, <1>3, <1>4 DEF DataTypeOK
<1>6. \A d \in Ops : Started(d) => d <= c
  BY <1>1, <1>2, Youngest
<1>7. a.to = <<c, call[c].try>>
  BY <1>1, <1>2 DEF c
<1>8. ASSUME c \notin cut
      PROVE  (\A r \in wire : r[1] # c) /\ \A b \in back' : b.to[1] # c
  <2>1. call[c].try = 1
    BY <1>0, <1>1, <1>2, <1>8 DEF AttemptsWereSent
  <2>2. ASSUME NEW r \in wire, r[1] = c PROVE FALSE
    <3>1. r[2] <= 1 /\ r \in Ops \X (1..Tries)
      BY <1>0, <1>2, <2>1, <2>2 DEF AttemptsWereSent, DataTypeOK
    <3>2. r = <<c, 1>>
      BY <2>2, <3>1
    <3> QED
      BY <1>0, <1>7, <2>1, <3>2 DEF OnePlace
  <2>3. ASSUME NEW b \in back', b.to[1] = c PROVE FALSE
    <3>1. b \in back /\ b # a
      BY <1>4
    <3>2. b.to[2] <= 1 /\ b.to \in Ops \X (1..Tries)
      BY <1>0, <1>2, <2>1, <2>3, <3>1 DEF AttemptsWereSent, DataTypeOK
    <3>3. b.to = <<c, 1>>
      BY <2>3, <3>2
    <3> QED
      BY <1>0, <1>7, <2>1, <3>1, <3>3 DEF OnePlace
  <2> QED
    BY <2>2, <2>3
<1>9. DataTypeOK'
  BY <1>0, <1>4, <1>5 DEF DataTypeOK
<1>10. \A d \in Ops : (Started(d) <=> Started(d)') /\ (Out(d)' => Out(d) /\ d # c)
                      /\ (Done(d)' <=> Done(d) \/ d = c) /\ call'[d].kind = call[d].kind
  <2>1. call[c] # NotYet
    BY <1>0, <1>1, <1>2, Shapes
  <2> QED
    BY <1>2, <1>3, <1>5, <2>1 DEF Started, Out, Done
<1>11. OneAtATime'
  BY <1>0, <1>10 DEF OneAtATime
<1>12. AttemptsWereSent'
  <2>1. (\A r \in wire : r[1] \in Ops) /\ \A b \in back : b.to[1] \in Ops
    BY <1>0 DEF DataTypeOK
  <2>2. \A d \in Ops : Out(d)' => call'[d] = call[d]
    BY <1>5, <1>10
  <2> QED
    BY <1>0, <1>4, <1>10, <2>1, <2>2 DEF AttemptsWereSent, DataTypeOK
<1>13. OnePlace'
  BY <1>0, <1>4, <1>8, <1>10 DEF OnePlace
<1>14. RunsCounted'
  <2>1. (Is(c, "answer"))' /\ runs[c] > 0
    BY <1>0, <1>2, <1>3, <1>5 DEF AnsweredRan, Is, Done, c
  <2>2. Sendings(call[c]) <= Sendings(x) /\ Sendings(call[c]) \in Int /\ Sendings(x) \in Int
    BY <1>2, <1>3 DEF Sendings
  <2>3. \A d \in Ops : runs[d] \in Nat /\ Cardinality(OnWire(wire, d)) \in Nat
    BY <1>0, WireCount DEF DataTypeOK
  <2>4. runs[c] + Cardinality(OnWire(wire, c)) <= Sendings(x)
    <3>1. runs[c] + Cardinality(OnWire(wire, c)) <= Sendings(call[c])
      BY <1>0, <1>1 DEF RunsCounted
    <3>2. runs[c] + Cardinality(OnWire(wire, c)) \in Nat
      BY <1>1, <2>3
    <3> QED
      BY <2>2, <3>1, <3>2
  <2> QED
    BY <1>0, <1>4, <1>5, <2>1, <2>4 DEF RunsCounted, Is, Done
<1>15. AnsweredRan'
  BY <1>0, <1>4 DEF AnsweredRan
<1>16. Unsure' = Unsure
  BY <1>0, <1>4, <1>10 DEF Unsure, DataTypeOK
<1>17. \A d \in Ops : (Is(d, "answer"))' <=> Is(d, "answer") \/ d = c
  BY <1>3, <1>5, <1>10 DEF Is
<1>18. ASSUME NEW v, NEW y, Fresh(v, y), c <= y /\ call[c].kind = "write" => c <= v
       PROVE  Fresh(v, y)'
  BY <1>10, <1>17, <1>18 DEF Fresh
<1>19. ASSUME Unsure = {}, call[c].kind = "write" PROVE a.saw = c /\ c <= table /\ c \notin cut
  BY <1>0, <1>1, <1>2, <1>19 DEF RowIsFresh, Unsure, c
<1>20. RowIsFresh'
  <2>1. table # 0 => table \in Ops
    BY <1>0 DEF DataTypeOK
  <2>2. \A b \in back : b.to[1] \in Ops /\ (b.saw # 0 => b.saw \in Ops)
    BY <1>0 DEF DataTypeOK
  <2>3. ASSUME Unsure = {} PROVE \A y \in Ops : Fresh(table, y)'
    BY <1>0, <1>4, <1>18, <1>19, <2>3 DEF RowIsFresh
  <2>4. ASSUME Unsure = {}, NEW b \in back', b.ok PROVE Fresh(b.saw, b.to[1])'
    <3>1. Fresh(b.saw, b.to[1])
      BY <1>0, <1>4, <2>4 DEF RowIsFresh
    <3>2. ASSUME c <= b.to[1], call[c].kind = "write" PROVE FALSE
      <4>1. b.to[1] <= c /\ b.to[1] \in Ops
        BY <1>0, <1>4, <1>6, <2>2 DEF AttemptsWereSent
      <4>2. b.to[1] = c
        <5>1. b.to[1] \in Nat /\ c \in Nat
          BY <1>1, <4>1
        <5> QED
          BY <3>2, <4>1, <5>1
      <4> QED
        BY <1>8, <1>19, <2>4, <3>2, <4>2
    <3> QED
      BY <1>18, <3>1, <3>2
  <2> QED
    BY <1>0, <1>4, <1>10, <1>16, <2>1, <2>2, <2>3, <2>4 DEF RowIsFresh
<1>21. AnswersAreFresh'
  <2>1. ASSUME Unsure = {} PROVE a.saw <= c /\ Fresh(a.saw, c)'
    <3>1. a.saw <= c
      <4>1. CASE a.saw = 0
        BY <1>1, <4>1
      <4>2. CASE a.saw # 0
        BY <1>0, <1>1, <1>6, <4>2 DEF RowIsFresh
      <4> QED
        BY <4>1, <4>2
    <3>2. Fresh(a.saw, c)
      BY <1>0, <1>2, <2>1 DEF RowIsFresh, c
    <3>3. call[c].kind = "write" => c <= a.saw
      <4>1. c <= c
        BY <1>1
      <4> QED
        BY <1>19, <2>1, <4>1
    <3> QED
      BY <1>18, <3>1, <3>2, <3>3
  <2>2. ASSUME Unsure = {}, NEW d \in Ops, Is(d, "answer"), d # c
        PROVE  Saw(d) <= d /\ \A v : v = Saw(d) => Fresh(v, d)'
    <3>1. Saw(d) <= d /\ Fresh(Saw(d), d)
      BY <1>0, <2>2 DEF AnswersAreFresh
    <3>2. ~(c <= d)
      <4>1. Started(d)
        BY <2>2 DEF Is, Done, Started, NotYet
      <4>2. d <= c /\ d \in Nat /\ c \in Nat
        BY <1>1, <1>6, <4>1
      <4> QED
        BY <2>2, <4>2
    <3> QED
      BY <1>18, <3>1, <3>2
  <2>3. Saw(c)' = a.saw /\ \A d \in Ops : d # c => Saw(d)' = Saw(d)
    BY <1>3, <1>5 DEF Saw
  <2> QED
    BY <1>16, <1>17, <2>1, <2>2, <2>3 DEF AnswersAreFresh
<1> QED
  BY <1>9, <1>11, <1>12, <1>13, <1>14, <1>15, <1>20, <1>21 DEF DataInv

\* What was under way of a call that was never cut off is its one attempt.
LEMMA OneOut ==
  ASSUME DataInv, NEW c \in Ops, Out(c), c \notin cut
  PROVE  /\ \A r \in wire : r[1] = c => r = <<c, call[c].try>>
         /\ \A b \in back : b.to[1] = c => b.to = <<c, call[c].try>>
<1> USE DataAssumption
<1>0. DataTypeOK /\ AttemptsWereSent
  BY DEF DataInv
<1>1. call[c].try = 1
  BY <1>0 DEF AttemptsWereSent
<1>2. ASSUME NEW r \in wire, r[1] = c PROVE r = <<c, 1>>
  <2>1. r[2] <= 1 /\ r \in Ops \X (1..Tries)
    BY <1>0, <1>1, <1>2 DEF AttemptsWereSent, DataTypeOK
  <2> QED
    BY <1>2, <2>1
<1>3. ASSUME NEW b \in back, b.to[1] = c PROVE b.to = <<c, 1>>
  <2>1. b.to[2] <= 1 /\ b.to \in Ops \X (1..Tries)
    BY <1>0, <1>1, <1>3 DEF AttemptsWereSent, DataTypeOK
  <2> QED
    BY <1>3, <2>1
<1> QED
  BY <1>1, <1>2, <1>3

\* An attempt ends without an answer: the call is sent again, or is over.
LEMMA GoesOnKeeps ==
  ASSUME DataInv, NEW c \in Ops, Out(c), NEW x \in Outs \cup Dones,
         x # NotYet, x.kind = call[c].kind, call'[c] = x, Besides(call, call', c),
         call' \in [Ops -> {NotYet} \cup Outs \cup Dones],
         \/ /\ x.at = "out" /\ x.try = call[c].try + 1
            /\ wire' = wire \cup {<<c, x.try>>} /\ c \in cut'
         \/ x.at = "done" /\ x.result.is \in {"refused", "unreachable"} /\ wire' = wire,
         back' \subseteq back, cut \subseteq cut', cut' \subseteq cut \cup {c},
         c \notin cut' => (\A r \in wire : r[1] # c) /\ \A b \in back' : b.to[1] # c,
         UNCHANGED <<secret, table, runs>>
  PROVE  DataInv'
<1> USE DataAssumption
<1>0. DataTypeOK /\ OneAtATime /\ AttemptsWereSent /\ OnePlace
      /\ RunsCounted /\ AnsweredRan /\ RowIsFresh /\ AnswersAreFresh
  BY DEF DataInv
<1>1. call[c] \in Outs /\ call[c].at = "out" /\ call[c].try \in 1..Tries
  <2>1. call[c] \in Outs
    BY <1>0, Shapes DEF Out
  <2> QED
    BY <2>1 DEF Outs
<1>2. x.at = "out" => x.try \in 1..Tries
  <2>1. x.at = "out" => x \in Outs
    BY DEF Outs, Dones
  <2> QED
    BY <2>1 DEF Outs
<1>3. \A d \in Ops : d # c => call'[d] = call[d]
  BY DEF Besides
<1>4. \A d \in Ops : (Started(d) <=> Started(d)') /\ (Out(d)' => Out(d))
                     /\ (Done(d)' => Done(d) \/ (d = c /\ x.at = "done")) /\ (Done(d) => Done(d)' /\ d # c)
                     /\ call'[d].kind = call[d].kind
  <2>1. call[c] # NotYet
    BY <1>0, <1>1, Shapes
  <2> QED
    BY <1>1, <1>3, <2>1 DEF Started, Out, Done
<1>5. DataTypeOK'
  BY <1>0, <1>2 DEF DataTypeOK
<1>6. OneAtATime'
  BY <1>0, <1>4 DEF OneAtATime
<1>7. AttemptsWereSent'
  <2>1. (\A r \in wire : r[1] \in Ops /\ r[2] \in 1..Tries)
        /\ \A b \in back : b.to[1] \in Ops /\ b.to[2] \in 1..Tries
    BY <1>0 DEF DataTypeOK
  <2>2. ASSUME NEW d \in Ops, Out(d)', NEW t \in 1..Tries, t <= call[d].try
        PROVE  t <= call'[d].try
    <3>1. CASE d = c
      <4>1. x.at = "out" /\ x.try = call[c].try + 1
        BY <2>2, <3>1 DEF Out
      <4> QED
        BY <1>1, <2>2, <3>1, <4>1
    <3>2. CASE d # c
      BY <1>3, <2>2, <3>2
    <3> QED
      BY <3>1, <3>2
  <2>3. ASSUME NEW r \in wire' PROVE Started(r[1])' /\ (Out(r[1])' => r[2] <= call'[r[1]].try)
    <3>1. CASE r \in wire
      BY <1>0, <1>4, <2>1, <2>2, <3>1 DEF AttemptsWereSent
    <3>2. CASE r \notin wire
      BY <1>2, <1>4, <2>3, <3>2 DEF Started
    <3> QED
      BY <3>1, <3>2
  <2>4. ASSUME NEW b \in back' PROVE Started(b.to[1])' /\ (Out(b.to[1])' => b.to[2] <= call'[b.to[1]].try)
    BY <1>0, <1>4, <2>1, <2>2, <2>4 DEF AttemptsWereSent
  <2>5. \A d \in cut' : Started(d)'
    BY <1>0, <1>4 DEF AttemptsWereSent, DataTypeOK, Started
  <2>6. \A d \in Ops : Out(d)' /\ d \notin cut' => call'[d].try = 1
    BY <1>0, <1>3, <1>4 DEF AttemptsWereSent, Out
  <2> QED
    BY <2>3, <2>4, <2>5, <2>6 DEF AttemptsWereSent
<1>8. OnePlace'
  <2>1. ASSUME NEW r \in wire', NEW b \in back' PROVE b.to # r
    <3>1. CASE r \in wire
      BY <1>0, <3>1 DEF OnePlace
    <3>2. CASE r \notin wire
      <4>1. r[1] = c /\ r[2] = call[c].try + 1
        BY <2>1, <3>2
      <4>2. b.to[1] = c => b.to[2] <= call[c].try /\ b.to[2] \in Nat
        BY <1>0, <2>1 DEF AttemptsWereSent, DataTypeOK
      <4> QED
        BY <1>1, <4>1, <4>2
    <3> QED
      BY <3>1, <3>2
  <2>2. \A a, b \in back' : a.to = b.to => a = b
    BY <1>0 DEF OnePlace
  <2>3. ASSUME NEW d \in Ops, Done(d)', d \notin cut'
        PROVE  (\A r \in wire' : r[1] # d) /\ (\A a \in back' : a.to[1] # d)
    <3>1. CASE d = c
      <4>1. wire' = wire
        BY <2>3, <3>1
      <4> QED
        BY <2>3, <3>1, <4>1
    <3>2. CASE d # c
      <4>1. Done(d) /\ d \notin cut
        BY <1>4, <2>3, <3>2
      <4>2. (\A r \in wire : r[1] # d) /\ (\A a \in back : a.to[1] # d)
        BY <1>0, <4>1 DEF OnePlace
      <4> QED
        BY <3>2, <4>2
    <3> QED
      BY <3>1, <3>2
  <2> QED
    BY <2>1, <2>2, <2>3 DEF OnePlace
<1>9. RunsCounted'
  <2>1. ASSUME NEW d \in Ops PROVE runs[d] \in Nat /\ Cardinality(OnWire(wire, d)) \in Nat
    BY <1>0, WireCount DEF DataTypeOK
  <2>2. ASSUME NEW d \in Ops, d # c PROVE OnWire(wire', d) = OnWire(wire, d)
    <3>1. CASE wire' = wire \cup {<<c, x.try>>} /\ x.try \in 1..Tries
      <4>1. <<c, x.try>> \in Ops \X (1..Tries) /\ <<c, x.try>>[1] # d
        BY <2>2, <3>1
      <4> QED
        BY <1>0, <3>1, <4>1, WireCount DEF DataTypeOK
    <3> QED
      BY <1>2, <3>1
  <2>3. runs[c] + Cardinality(OnWire(wire, c)) <= call[c].try
    <3>1. Sendings(call[c]) = call[c].try
      BY <1>1 DEF Sendings
    <3> QED
      BY <1>0, <3>1 DEF RunsCounted
  <2>4. runs[c] + Cardinality(OnWire(wire', c)) <= Sendings(x)
    <3>1. CASE x.at = "out"
      <4>1. <<c, x.try>> \notin wire
        <5>1. <<c, x.try>> \in wire => x.try <= call[c].try
          BY <1>0 DEF AttemptsWereSent
        <5> QED
          BY <1>1, <3>1, <5>1
      <4>2. Cardinality(OnWire(wire \cup {<<c, x.try>>}, c)) = Cardinality(OnWire(wire, c)) + 1
        <5>1. \A t \in 1..Tries : <<c, t>> \notin wire =>
                Cardinality(OnWire(wire \cup {<<c, t>>}, c)) = Cardinality(OnWire(wire, c)) + 1
          BY <1>0, WireCount DEF DataTypeOK
        <5> QED
          BY <1>2, <3>1, <4>1, <5>1
      <4>3. Sendings(x) = call[c].try + 1
        BY <3>1 DEF Sendings
      <4>4. wire' = wire \cup {<<c, x.try>>}
        BY <3>1
      <4> QED
        BY <1>1, <2>1, <2>3, <4>2, <4>3, <4>4
    <3>2. CASE x.at = "done"
      <4>1. Sendings(x) = Tries /\ wire' = wire
        BY <3>2 DEF Sendings
      <4> QED
        BY <1>1, <2>1, <2>3, <4>1
    <3> QED
      BY <3>1, <3>2
  <2>5. c \notin cut' => runs[c] + Cardinality(OnWire(wire', c)) <= 1
    BY <1>0 DEF RunsCounted
  <2>6. \A d \in Ops : (Is(d, "answer"))' => Is(d, "answer") /\ d # c
    BY <1>3, <1>4 DEF Is, Done
  <2>7. ASSUME NEW d \in Ops, d # c
        PROVE  /\ runs[d] + Cardinality(OnWire(wire', d)) <= Sendings(call'[d])
               /\ d \notin cut' => runs[d] + Cardinality(OnWire(wire', d)) <= 1
    BY <1>0, <1>3, <2>2, <2>7 DEF RunsCounted
  <2>8. \A d \in Ops : Is(d, "answer") => runs[d] > 0
    BY <1>0 DEF RunsCounted
  <2> QED
    BY <2>4, <2>5, <2>6, <2>7, <2>8 DEF RunsCounted
<1>10. AnsweredRan'
  BY <1>0 DEF AnsweredRan
<1>11. Unsure' = {} => Unsure = {}
  BY <1>0, <1>4 DEF Unsure, DataTypeOK
<1>12. \A d \in Ops : ((Is(d, "answer"))' <=> Is(d, "answer")) /\ (Is(d, "answer") => d # c)
  BY <1>3, <1>4 DEF Is, Done
<1>13. ASSUME NEW v, NEW y, Fresh(v, y) PROVE Fresh(v, y)'
  BY <1>4, <1>12, <1>13 DEF Fresh
<1>14. RowIsFresh'
  <2>1. table # 0 => table \in Ops
    BY <1>0 DEF DataTypeOK
  <2>2. \A b \in back : b.to[1] \in Ops /\ (b.saw # 0 => b.saw \in Ops)
    BY <1>0 DEF DataTypeOK
  <2> QED
    BY <1>0, <1>4, <1>11, <1>13, <2>1, <2>2 DEF RowIsFresh
<1>15. AnswersAreFresh'
  <2>1. \A d \in Ops : d # c => Saw(d)' = Saw(d)
    BY <1>3 DEF Saw
  <2> QED
    BY <1>0, <1>11, <1>12, <1>13, <2>1 DEF AnswersAreFresh
<1> QED
  BY <1>5, <1>6, <1>7, <1>8, <1>9, <1>10, <1>14, <1>15 DEF DataInv

\* A bad status ends the call.
LEMMA RefusedKeeps ==
  ASSUME DataInv, NEW a \in back, Refused(a)
  PROVE  DataInv'
<1> USE DataAssumption
<1> DEFINE c == a.to[1]
           x == [at |-> "done", kind |-> call[c].kind, result |-> Result("refused", 0)]
<1>0. DataTypeOK /\ OnePlace
  BY DEF DataInv
<1>1. c \in Ops /\ a.to = <<a.to[1], a.to[2]>> /\ Out(c) /\ call[c].try = a.to[2]
  BY <1>0 DEF Refused, For, DataTypeOK, Out
<1>2. call[c] \in Outs
  BY <1>0, <1>1, Shapes DEF Out
<1>3. x \in Dones /\ x # NotYet /\ x.at = "done" /\ x.kind = call[c].kind
      /\ x.result.is = "refused"
  BY <1>2 DEF Outs, Dones, Results, Result, NotYet
<1>4. call' = [call EXCEPT ![c] = x] /\ wire' = wire /\ back' = back \ {a}
      /\ UNCHANGED <<secret, table, runs, cut>>
  BY DEF Refused, GoesOn, Retries, RefusalIsFinal, Concludes
<1> HIDE DEF c, x
<1>5. call'[c] = x /\ Besides(call, call', c) /\ call' \in [Ops -> {NotYet} \cup Outs \cup Dones]
  BY <1>0, <1>1, <1>3, <1>4 DEF DataTypeOK, Besides
<1>6. c \notin cut' => (\A r \in wire : r[1] # c) /\ \A b \in back' : b.to[1] # c
  <2> SUFFICES ASSUME c \notin cut
               PROVE  (\A r \in wire : r[1] # c) /\ \A b \in back' : b.to[1] # c
    BY <1>4
  <2>1. (\A r \in wire : r[1] = c => r = <<c, call[c].try>>)
        /\ \A b \in back : b.to[1] = c => b.to = <<c, call[c].try>>
    BY <1>1, OneOut
  <2>2. a.to = <<c, call[c].try>>
    BY <1>1 DEF c
  <2> QED
    BY <1>0, <1>4, <2>1, <2>2 DEF OnePlace
<1> QED
  BY <1>1, <1>3, <1>4, <1>5, <1>6, GoesOnKeeps

\* A call is cut off: it is sent once more, or is over.
LEMMA CutOffKeeps ==
  ASSUME DataInv, NEW c \in Ops, CutOff(c)
  PROVE  DataInv'
<1> USE DataAssumption
<1> DEFINE again == [call[c] EXCEPT !.try = call[c].try + 1]
           over == [at |-> "done", kind |-> call[c].kind, result |-> Result("unreachable", 0)]
<1>0. DataTypeOK
  BY DEF DataInv
<1>1. Out(c)
  BY DEF CutOff, Out
<1>2. call[c] \in Outs
  BY <1>0, <1>1, Shapes DEF Out
<1>3. over \in Dones /\ over # NotYet /\ over.at = "done" /\ over.kind = call[c].kind
      /\ over.result.is = "unreachable"
  BY <1>2 DEF Outs, Dones, Results, Result, NotYet
<1>4. cut' = cut \cup {c} /\ back' \subseteq back /\ UNCHANGED <<secret, table, runs>> /\ GoesOn(c, FALSE)
  BY DEF CutOff
<1>5. CASE Retries(c, FALSE)
  <2>1. call[c].try < Attempts(call[c].kind)
    BY <1>5 DEF Retries, RefusalIsFinal, Again
  <2>2. call[c].try \in 1..Tries /\ call[c].try < Tries
    BY <1>2, <2>1 DEF Attempts, Outs
  <2>3. again \in Outs /\ again # NotYet /\ again.at = "out" /\ again.kind = call[c].kind
        /\ again.try = call[c].try + 1
    BY <1>2, <2>2 DEF Outs, NotYet
  <2>4. call' = [call EXCEPT ![c] = again] /\ wire' = wire \cup {<<c, call[c].try + 1>>}
    BY <1>4, <1>5 DEF GoesOn
  <2> HIDE DEF again
  <2>5. call'[c] = again /\ Besides(call, call', c) /\ call' \in [Ops -> {NotYet} \cup Outs \cup Dones]
    BY <1>0, <2>3, <2>4 DEF DataTypeOK, Besides
  <2>6. wire' = wire \cup {<<c, again.try>>}
    BY <2>3, <2>4
  <2> QED
    BY <1>1, <1>4, <2>3, <2>5, <2>6, GoesOnKeeps
<1>6. CASE ~Retries(c, FALSE)
  <2>1. call' = [call EXCEPT ![c] = over] /\ wire' = wire
    BY <1>4, <1>6 DEF GoesOn, Concludes
  <2> HIDE DEF over
  <2>2. call'[c] = over /\ Besides(call, call', c) /\ call' \in [Ops -> {NotYet} \cup Outs \cup Dones]
    BY <1>0, <1>3, <2>1 DEF DataTypeOK, Besides
  <2> QED
    BY <1>1, <1>3, <1>4, <2>1, <2>2, GoesOnKeeps
<1> QED
  BY <1>5, <1>6

LEMMA DataSteps == DataInv /\ [DataNext]_dataVars => DataInv'
<1> SUFFICES ASSUME DataInv, [DataNext]_dataVars PROVE DataInv'
  OBVIOUS
<1>1. CASE UNCHANGED dataVars
  BY <1>1 DEF dataVars, DataInv, DataTypeOK, OneAtATime, AttemptsWereSent, OnePlace, RunsCounted,
              AnsweredRan, RowIsFresh, AnswersAreFresh, Started, Out, Done, Is, Fresh, Unsure, Saw
<1>2. ASSUME NEW c \in Ops, CutOff(c) PROVE DataInv'
  BY <1>2, CutOffKeeps
<1>3. ASSUME NEW c \in Ops, NEW k \in Kinds, NEW i \in BOOLEAN, Begins(c, k, i) PROVE DataInv'
  BY <1>3, BeginsKeeps
<1>4. ASSUME NEW r \in wire, Runs(r) \/ RefusesIt(r) \/ Drops(r) PROVE DataInv'
  BY <1>4, RunsKeeps, LostKeeps
<1>5. ASSUME NEW a \in back, Returns(a) \/ Refused(a) PROVE DataInv'
  BY <1>5, ReturnsKeeps, RefusedKeeps
<1> QED
  BY <1>1, <1>2, <1>3, <1>4, <1>5 DEF DataNext

\* The invariant is stronger than what a caller relies on.
LEMMA StandsByThem == DataInv => AnswersStand
<1> SUFFICES ASSUME DataInv PROVE AnswersStand
  OBVIOUS
<1> USE DataAssumption
<1>0. DataTypeOK /\ RunsCounted /\ AnswersAreFresh
  BY DEF DataInv
<1>1. ASSUME NEW c \in Ops
      PROVE  /\ runs[c] > 1 => c \in cut
             /\ runs[c] <= Tries
             /\ Is(c, "threw") => runs[c] = 0
             /\ Is(c, "answer") => runs[c] > 0
  <2>1. runs[c] \in Nat /\ Cardinality(OnWire(wire, c)) \in Nat
    BY <1>0, WireCount DEF DataTypeOK
  <2>2. /\ Sendings(call[c]) \in Nat /\ Sendings(call[c]) <= Tries
        /\ Is(c, "threw") => Sendings(call[c]) = 0
    BY <1>0, Shapes DEF Sendings, Outs, Is, Done
  <2>3. /\ runs[c] + Cardinality(OnWire(wire, c)) <= Sendings(call[c])
        /\ c \notin cut => runs[c] + Cardinality(OnWire(wire, c)) <= 1
        /\ Is(c, "answer") => runs[c] > 0
    BY <1>0 DEF RunsCounted
  <2> QED
    BY <2>1, <2>2, <2>3
<1>2. ASSUME NEW c \in Ops, NEW w \in Ops, Is(c, "answer"), Is(w, "answer"),
             call[w].kind = "write", w <= c, Unsure = {}
      PROVE  Saw(c) \in w .. c
  <2>1. Saw(c) <= c /\ w <= Saw(c)
    BY <1>0, <1>2 DEF AnswersAreFresh, Fresh
  <2>2. Saw(c) \in Ops \cup {0}
    BY <1>0, <1>2, Shapes DEF Is, Done, Saw, Dones, Results
  <2>3. Saw(c) \in Nat /\ c \in Nat /\ w \in Nat
    <3>1. \A v \in Ops \cup {0} : v \in Nat
      BY DataAssumption
    <3> QED
      BY <2>2, <3>1
  <2> QED
    BY <2>1, <2>3
<1> QED
  BY <1>1, <1>2 DEF AnswersStand

\* What a call was answered stands: no attempt runs it twice unless one was given up, and a
\* read shows the last write that was answered.
THEOREM AnswersAreKept == DataSpec => []AnswersStand
<1>1. DataSpec => []DataInv
  BY DataStarts, DataSteps, PTL DEF DataSpec
<1> QED
  BY <1>1, StandsByThem, PTL

-----------------------------------------------------------------------------
(* From a publish to the services that run it.                               *)

CopyTypes == [of: Publishes, q: Queues, attempt: Nat, from: Queues \cup {"first"}]
TierTypes == [of: Publishes, attempt: Nat, from: Queues \cup {"first"}]

FanTyped ==
  /\ ready \subseteq CopyTypes /\ working \subseteq CopyTypes /\ tiers \subseteq TierTypes
  /\ \A k \in ready \cup working : k.q \in Routed(k.of)
  /\ publish \in [Publishes -> [at: {"new", "link", "send", "confirm", "published", "not"}, on: Nat]]
  /\ links \in Nat /\ shared \in Nat
  /\ claims \in [ClaimStores -> [Publishes -> Queues \cup {Unclaimed, Complete}]]

\* Who holds a claim is at work, and a claim is complete only for what was run.
ClaimsAreWork ==
  \A s \in ClaimStores, c \in Publishes :
    /\ claims[s][c] \in Queues =>
         \E k \in working : k.of = c /\ k.q = claims[s][c] /\ StoreOf(k.q) = s
    /\ claims[s][c] = Complete => SomeOf(s, c, ran)

\* A message that was sent is, for each claim store, in a queue of it, in a delay queue,
\* at work there, run or dead.
Covered(s, c) ==
  \/ \E k \in ready \cup working : k.of = c /\ StoreOf(k.q) = s
  \/ \E t \in tiers : t.of = c
  \/ SomeOf(s, c, ran \cup dead)
SentIsCovered ==
  \A c \in Publishes :
    /\ publish[c].at \in {"confirm", "published"} => \A q \in Routed(c) : Covered(StoreOf(q), c)
    /\ publish[c].at = "published" => Routed(c) # {}

FanInv == FanTyped /\ ClaimsAreWork /\ SentIsCovered

\* Every queue has its claim store.
LEMMA StoresOf == \A q \in Queues : StoreOf(q) \in ClaimStores
BY FanoutAssumption DEF StoreOf, ClaimStores

\* What the exchange makes of a message: a copy in each queue it is bound to.
LEMMA CopiesOf ==
  ASSUME NEW c \in Publishes, NEW tries \in Nat, NEW from \in Queues \cup {"first"}
  PROVE  /\ FanOut(c, tries, from) \subseteq CopyTypes
         /\ \A k \in FanOut(c, tries, from) : k.of = c /\ k.q \in Routed(c)
         /\ \A q \in Routed(c) : \E k \in FanOut(c, tries, from) : k.of = c /\ k.q = q
<1>1. ASSUME NEW q \in Routed(c)
      PROVE  Copy(c, q, tries, from) \in CopyTypes /\ Copy(c, q, tries, from).of = c /\ Copy(c, q, tries, from).q = q
  BY DEF Copy, CopyTypes, Routed
<1>2. \A k \in FanOut(c, tries, from) : \E q \in Routed(c) : k = Copy(c, q, tries, from)
  BY DEF FanOut
<1>3. \A q \in Routed(c) : Copy(c, q, tries, from) \in FanOut(c, tries, from)
  BY DEF FanOut
<1> HIDE DEF Copy
<1> QED
  BY <1>1, <1>2, <1>3

\* Nothing has been published at first.
LEMMA FanStarts == FanInit => FanInv
BY FanoutAssumption DEF FanInit, FanInv, FanTyped, ClaimsAreWork, SentIsCovered, Unclaimed, Complete, ClaimStores

\* What a publisher does before it has sent, or after, changes no copy and no claim.
LEMMA PublisherKeeps ==
  ASSUME FanInv, UNCHANGED <<ready, working, tiers, claims, ran, dead>>,
         publish' \in [Publishes -> [at: {"new", "link", "send", "confirm", "published", "not"}, on: Nat]],
         links' \in Nat, shared' \in Nat,
         \A c \in Publishes :
           /\ publish'[c].at \in {"confirm", "published"} => publish[c].at \in {"confirm", "published"}
           /\ publish'[c].at = "published" => publish[c].at = "published" \/ Routed(c) # {}
  PROVE  FanInv'
<1>1. FanTyped'
  BY DEF FanInv, FanTyped
<1>2. ClaimsAreWork'
  BY DEF FanInv, ClaimsAreWork, SomeOf
<1>3. \A s, c : Covered(s, c)' = Covered(s, c)
  BY DEF Covered, SomeOf
<1>4. SentIsCovered'
  BY <1>3 DEF FanInv, SentIsCovered
<1> QED
  BY <1>1, <1>2, <1>4 DEF FanInv

\* The types of the variables, out of the invariant.
LEMMA Lines ==
  ASSUME FanInv
  PROVE  /\ publish \in [Publishes -> [at: {"new", "link", "send", "confirm", "published", "not"}, on: Nat]]
         /\ links \in Nat /\ shared \in Nat
         /\ ready \subseteq CopyTypes /\ working \subseteq CopyTypes /\ tiers \subseteq TierTypes
         /\ claims \in [ClaimStores -> [Publishes -> Queues \cup {Unclaimed, Complete}]]
BY DEF FanInv, FanTyped

\* A publish that begins, is confirmed, or is given up.
LEMMA PublishesKeep ==
  ASSUME FanInv, NEW c \in Publishes, Publish(c) \/ Confirmed(c) \/ TimesOut(c)
  PROVE  FanInv'
<1>1. CASE Publish(c)
  BY <1>1, Lines, PublisherKeeps DEF Publish
<1>2. CASE Confirmed(c)
  BY <1>2, Lines, PublisherKeeps DEF Confirmed, TakenBy
<1>3. CASE TimesOut(c)
  BY <1>3, Lines, PublisherKeeps DEF TimesOut
<1> QED
  BY <1>1, <1>2, <1>3

\* A link that opens, does not, or is closed.
LEMMA LinksKeep ==
  ASSUME FanInv, Opens \/ OpenFails \/ \E l \in 1..MaxLinks : Closes(l)
  PROVE  FanInv'
<1>1. CASE Opens
  BY <1>1, Lines, PublisherKeeps DEF Opens
<1>2. CASE OpenFails
  BY <1>2, Lines, PublisherKeeps DEF OpenFails
<1>3. CASE \E l \in 1..MaxLinks : Closes(l)
  BY <1>3, Lines, PublisherKeeps DEF Closes
<1> QED
  BY <1>1, <1>2, <1>3

\* A message that is sent is in every queue bound to its key.
LEMMA SendsKeeps == ASSUME FanInv, NEW c \in Publishes, Sends(c) PROVE FanInv'
<1>1. CASE publish[c].on \in gone
  BY <1>1, Lines, PublisherKeeps DEF Sends
<1>2. CASE publish[c].on \notin gone
  <2>1. /\ publish' = [publish EXCEPT ![c].at = "confirm"] /\ ready' = ready \cup FanOut(c, 1, "first")
        /\ UNCHANGED <<shared, links, working, tiers, claims, ran, dead>>
    BY <1>2 DEF Sends
  <2>2. /\ publish' \in [Publishes -> [at: {"new", "link", "send", "confirm", "published", "not"}, on: Nat]]
        /\ publish'[c].at = "confirm" /\ \A d \in Publishes \ {c} : publish'[d] = publish[d]
    BY <2>1, Lines
  <2>3. FanTyped'
    <3>1. /\ FanOut(c, 1, "first") \subseteq CopyTypes
          /\ \A k \in FanOut(c, 1, "first") : k.of = c /\ k.q \in Routed(c)
      BY CopiesOf
    <3> QED
      BY <3>1, <2>1, <2>2 DEF FanInv, FanTyped
  <2>4. ClaimsAreWork'
    BY <2>1 DEF FanInv, ClaimsAreWork, SomeOf
  <2>5. \A s, d : Covered(s, d) => Covered(s, d)'
    BY <2>1 DEF Covered, SomeOf
  <2>6. \A q \in Routed(c) : Covered(StoreOf(q), c)'
    <3> SUFFICES ASSUME NEW q \in Routed(c) PROVE Covered(StoreOf(q), c)'
      OBVIOUS
    <3>1. PICK k \in FanOut(c, 1, "first") : k.of = c /\ k.q = q
      BY CopiesOf
    <3> QED
      BY <3>1, <2>1 DEF Covered
  <2> QED
    BY <2>2, <2>3, <2>4, <2>5, <2>6 DEF FanInv, SentIsCovered
<1> QED
  BY <1>1, <1>2

\* A retry that returns is in every queue bound to the key again.
LEMMA TierKeeps == ASSUME FanInv, NEW t \in tiers, TierEnds(t) PROVE FanInv'
<1>1. /\ t.of \in Publishes /\ t.attempt \in Nat /\ t.from \in Queues \cup {"first"}
  BY Lines DEF TierTypes
<1>2. /\ tiers' = tiers \ {t} /\ ready' = ready \cup FanOut(t.of, t.attempt, t.from)
      /\ UNCHANGED <<publish, shared, links, working, claims, ran, dead>>
  BY DEF TierEnds, Requeued
<1>3. FanTyped'
  BY <1>1, <1>2, CopiesOf DEF FanInv, FanTyped
<1>4. ClaimsAreWork'
  BY <1>2 DEF FanInv, ClaimsAreWork, SomeOf
<1>5. ASSUME NEW c \in Publishes, NEW q \in Routed(c), Covered(StoreOf(q), c) PROVE Covered(StoreOf(q), c)'
  <2>1. CASE t.of = c
    <3>1. PICK k \in FanOut(c, t.attempt, t.from) : k.of = c /\ k.q = q
      BY <1>1, <2>1, CopiesOf
    <3> QED
      BY <3>1, <2>1, <1>2 DEF Covered
  <2>2. CASE t.of # c
    BY <2>2, <1>2, <1>5 DEF Covered, SomeOf
  <2> QED
    BY <2>1, <2>2
<1> QED
  BY <1>2, <1>3, <1>4, <1>5 DEF FanInv, SentIsCovered

\* A claim is written for one message in one store.
LEMMA ClaimSet ==
  ASSUME FanInv, NEW k \in CopyTypes, NEW v \in Queues \cup {Unclaimed, Complete},
         claims' = [claims EXCEPT ![StoreOf(k.q)][k.of] = v]
  PROVE  /\ claims' \in [ClaimStores -> [Publishes -> Queues \cup {Unclaimed, Complete}]]
         /\ claims'[StoreOf(k.q)][k.of] = v
         /\ \A s \in ClaimStores, c \in Publishes :
              s # StoreOf(k.q) \/ c # k.of => claims'[s][c] = claims[s][c]
<1>1. k.of \in Publishes /\ StoreOf(k.q) \in ClaimStores
  BY StoresOf DEF CopyTypes
<1> QED
  BY <1>1, Lines

\* A copy that is acked as a duplicate has left its work to somebody: who holds the claim

\* is at work in the same store, and a claim is complete for what was run.
LEMMA DeliversKeeps == ASSUME FanInv, NEW k \in ready, Delivers(k) PROVE FanInv'
<1> DEFINE s == StoreOf(k.q)
<1>1. k \in CopyTypes /\ k.of \in Publishes /\ k.q \in Queues /\ s \in ClaimStores /\ k.q \in Routed(k.of)
  BY Lines, StoresOf DEF CopyTypes, FanInv, FanTyped
<1>2. ready' = ready \ {k} /\ UNCHANGED <<publish, shared, links, tiers, ran, dead>>
  BY DEF Delivers
<1>3. CASE claims[s][k.of] \in {Unclaimed, k.q}
  <2>1. claims' = [claims EXCEPT ![s][k.of] = k.q] /\ working' = working \cup {k}
    BY <1>3 DEF Delivers, SetClaim
  <2>2. /\ claims' \in [ClaimStores -> [Publishes -> Queues \cup {Unclaimed, Complete}]]
        /\ claims'[s][k.of] = k.q
        /\ \A r \in ClaimStores, c \in Publishes : r # s \/ c # k.of => claims'[r][c] = claims[r][c]
    BY <1>1, <2>1, ClaimSet
  <2>3. FanTyped'
    BY <1>1, <1>2, <2>1, <2>2 DEF FanInv, FanTyped
  <2>4. ClaimsAreWork'
    <3> SUFFICES ASSUME NEW r \in ClaimStores, NEW c \in Publishes
                 PROVE  /\ claims'[r][c] \in Queues =>
                             \E j \in working' : j.of = c /\ j.q = claims'[r][c] /\ StoreOf(j.q) = r
                        /\ claims'[r][c] = Complete => SomeOf(r, c, ran)
      BY <1>2 DEF ClaimsAreWork, SomeOf
    <3>1. CASE r = s /\ c = k.of
      BY <3>1, <1>1, <2>1, <2>2, FanoutAssumption DEF Complete
    <3>2. CASE r # s \/ c # k.of
      BY <3>2, <2>1, <2>2 DEF FanInv, ClaimsAreWork
    <3> QED
      BY <3>1, <3>2
  <2>5. \A r, c : Covered(r, c) => Covered(r, c)'
    BY <1>2, <2>1 DEF Covered, SomeOf
  <2> QED
    BY <1>2, <2>3, <2>4, <2>5 DEF FanInv, SentIsCovered
<1>4. CASE claims[s][k.of] \notin {Unclaimed, k.q}
  <2>1. UNCHANGED <<claims, working>>
    BY <1>4 DEF Delivers
  <2>2. FanTyped'
    BY <1>2, <2>1 DEF FanInv, FanTyped
  <2>3. ClaimsAreWork'
    BY <1>2, <2>1 DEF FanInv, ClaimsAreWork, SomeOf
  <2>4. Covered(s, k.of)'
    <3>1. CASE claims[s][k.of] = Complete
      BY <3>1, <1>1, <1>2 DEF FanInv, ClaimsAreWork, Covered, SomeOf
    <3>2. CASE claims[s][k.of] \in Queues
      BY <3>2, <1>1, <1>2, <2>1 DEF FanInv, ClaimsAreWork, Covered
    <3> QED
      BY <3>1, <3>2, <1>1, <1>4, Lines
  <2>5. \A r, c : Covered(r, c) => Covered(r, c)' \/ (c = k.of /\ r = s)
    BY <1>2, <2>1 DEF Covered, SomeOf
  <2> QED
    BY <1>2, <2>2, <2>3, <2>4, <2>5 DEF FanInv, SentIsCovered
<1> QED
  BY <1>3, <1>4

\* What was run is run for its claim store.
LEMMA SucceedsKeeps == ASSUME FanInv, NEW k \in working, Succeeds(k) PROVE FanInv'
<1> DEFINE s == StoreOf(k.q)
<1>1. k \in CopyTypes /\ k.of \in Publishes /\ k.q \in Queues /\ s \in ClaimStores /\ k.q \in Routed(k.of)
  BY Lines, StoresOf DEF CopyTypes, FanInv, FanTyped
<1>2. /\ working' = working \ {k} /\ ran' = ran \cup {<<k.q, k.of>>}
      /\ claims' = [claims EXCEPT ![s][k.of] = Complete]
      /\ UNCHANGED <<publish, shared, links, ready, tiers, dead>>
  BY DEF Succeeds, SetClaim
<1>3. /\ claims' \in [ClaimStores -> [Publishes -> Queues \cup {Unclaimed, Complete}]]
      /\ claims'[s][k.of] = Complete
      /\ \A r \in ClaimStores, c \in Publishes : r # s \/ c # k.of => claims'[r][c] = claims[r][c]
  BY <1>1, <1>2, ClaimSet
<1>4. FanTyped'
  BY <1>2, <1>3 DEF FanInv, FanTyped
<1>5. SomeOf(s, k.of, ran')
  BY <1>1, <1>2 DEF SomeOf
<1>6. ClaimsAreWork'
  <2> SUFFICES ASSUME NEW r \in ClaimStores, NEW c \in Publishes
               PROVE  /\ claims'[r][c] \in Queues =>
                           \E j \in working' : j.of = c /\ j.q = claims'[r][c] /\ StoreOf(j.q) = r
                      /\ claims'[r][c] = Complete => SomeOf(r, c, ran')
    BY DEF ClaimsAreWork, SomeOf
  <2>1. CASE r = s /\ c = k.of
    BY <2>1, <1>3, <1>5, FanoutAssumption DEF Complete
  <2>2. CASE r # s \/ c # k.of
    <3>1. claims'[r][c] = claims[r][c]
      BY <2>2, <1>3
    <3>2. claims[r][c] \in Queues => \E j \in working : j.of = c /\ j.q = claims[r][c] /\ StoreOf(j.q) = r
      BY DEF FanInv, ClaimsAreWork
    <3>3. claims[r][c] = Complete => SomeOf(r, c, ran')
      BY <1>2 DEF FanInv, ClaimsAreWork, SomeOf
    <3> QED
      BY <3>1, <3>2, <3>3, <2>2, <1>2
  <2> QED
    BY <2>1, <2>2
<1>7. Covered(s, k.of)'
  BY <1>5 DEF Covered, SomeOf
<1>8. \A r, c : Covered(r, c) => Covered(r, c)' \/ (c = k.of /\ r = s)
  BY <1>2 DEF Covered, SomeOf
<1> QED
  BY <1>2, <1>4, <1>6, <1>7, <1>8 DEF FanInv, SentIsCovered

\* A handler that failed frees its claim, and leaves a retry or a dead letter.
LEMMA HandlerFailsKeeps == ASSUME FanInv, NEW k \in working, HandlerFails(k) PROVE FanInv'
<1> DEFINE s == StoreOf(k.q)
           v == IF claims[s][k.of] = k.q THEN Unclaimed ELSE claims[s][k.of]
           t == [of |-> k.of, attempt |-> k.attempt + 1, from |-> k.q]
<1>1. /\ k \in CopyTypes /\ k.of \in Publishes /\ k.q \in Queues /\ s \in ClaimStores
      /\ k.q \in Routed(k.of) /\ k.attempt \in Nat
  BY Lines, StoresOf DEF CopyTypes, FanInv, FanTyped
<1>2. /\ working' = working \ {k} /\ claims' = [claims EXCEPT ![s][k.of] = v]
      /\ UNCHANGED <<publish, shared, links, ready, ran>>
      /\ \/ dead' = dead \cup {<<k.q, k.of>>} /\ tiers' = tiers
         \/ dead' = dead /\ tiers' = tiers \cup {t}
  BY DEF HandlerFails
<1>3. v \in Queues \cup {Unclaimed, Complete} /\ (v \in Queues => v # k.q) /\ (v = Complete => claims[s][k.of] = Complete)
      /\ (v \in Queues => v = claims[s][k.of])
  BY <1>1, Lines, FanoutAssumption DEF Unclaimed, Complete
<1> HIDE DEF v
<1>4. /\ claims' \in [ClaimStores -> [Publishes -> Queues \cup {Unclaimed, Complete}]]
      /\ claims'[s][k.of] = v
      /\ \A r \in ClaimStores, c \in Publishes : r # s \/ c # k.of => claims'[r][c] = claims[r][c]
  BY <1>1, <1>2, <1>3, ClaimSet
<1>5. FanTyped'
  <2>1. t \in TierTypes
    BY <1>1 DEF TierTypes
  <2> HIDE DEF t
  <2> QED
    BY <2>1, <1>2, <1>4 DEF FanInv, FanTyped
<1>6. ClaimsAreWork'
  <2> SUFFICES ASSUME NEW r \in ClaimStores, NEW c \in Publishes
               PROVE  /\ claims'[r][c] \in Queues =>
                           \E j \in working' : j.of = c /\ j.q = claims'[r][c] /\ StoreOf(j.q) = r
                      /\ claims'[r][c] = Complete => SomeOf(r, c, ran)
    BY <1>2 DEF ClaimsAreWork, SomeOf
  <2>1. CASE r = s /\ c = k.of
    BY <2>1, <1>1, <1>2, <1>3, <1>4 DEF FanInv, ClaimsAreWork
  <2>2. CASE r # s \/ c # k.of
    BY <2>2, <1>2, <1>4 DEF FanInv, ClaimsAreWork
  <2> QED
    BY <2>1, <2>2
<1>7. Covered(s, k.of)'
  <2>1. CASE dead' = dead \cup {<<k.q, k.of>>}
    BY <2>1, <1>1 DEF Covered, SomeOf
  <2>2. CASE tiers' = tiers \cup {t}
    <3>1. t \in tiers' /\ t.of = k.of
      BY <2>2
    <3> QED
      BY <3>1 DEF Covered
  <2> QED
    BY <1>2, <2>1, <2>2
<1>8. \A r, c : Covered(r, c) => Covered(r, c)' \/ (c = k.of /\ r = s)
  BY <1>2 DEF Covered, SomeOf
<1> QED
  BY <1>2, <1>5, <1>6, <1>7, <1>8 DEF FanInv, SentIsCovered

\* Every step keeps the invariant.
LEMMA FanKept == ASSUME FanInv, [FanNext]_fanVars PROVE FanInv'
<1>1. CASE UNCHANGED fanVars
  BY <1>1, Lines, PublisherKeeps DEF fanVars
<1>2. CASE FanNext
  BY <1>2, PublishesKeep, LinksKeep, SendsKeeps, TierKeeps, DeliversKeeps, SucceedsKeeps, HandlerFailsKeeps
     DEF FanNext
<1> QED
  BY <1>1, <1>2

\* What was reported as published is in a queue, at work, run or dead, once in each claim

\* store that has a queue bound to its key: for any services, bindings, publishers, links,
\* attempts and failures.
THEOREM PublishedIsAlwaysRun == FanSpec => []PublishedIsRun
<1>1. FanInv => PublishedIsRun
  BY DEF FanInv, SentIsCovered, Covered, PublishedIsRun, Travels
<1> QED
  BY FanStarts, FanKept, <1>1, PTL DEF FanSpec

-----------------------------------------------------------------------------
(* The message store: one thread per person, appended to and purged.        *)

\* A request that remembers a turn.
Holders == [at: {"look", "create", "again", "insert"}, u: Authors, of: 1..MaxMessages,
            role: {"user", "assistant"}, thread: 0..MaxThreads, purged: BOOLEAN]

\* A turn that no purge passed under is in its person's one thread.
TurnsOfTheThread == \A d \in docs : ~d.purged => thread[d.u] # 0 /\ d.thread = thread[d.u]

\* And so is the one about to be inserted.
InsertsAreOfTheThread ==
  \A s \in Chats : At(s, "insert") /\ ~writing[s].purged =>
    thread[writing[s].u] # 0 /\ writing[s].thread = thread[writing[s].u]

ThreadsInv == ThreadsTypeOK /\ TurnsOfTheThread /\ InsertsAreOfTheThread

\* A request that is somewhere has its fields.
LEMMA Working ==
  ASSUME ThreadsTypeOK, NEW s \in Chats, writing[s].at # "none"
  PROVE  writing[s] \in Holders /\ writing[s].u \in Authors
BY DEF ThreadsTypeOK, Holders, Quiet

\* The empty store.
LEMMA ThreadsStarts ==
  ThreadsInit => ThreadsInv
<1> SUFFICES ASSUME ThreadsInit PROVE ThreadsInv
  OBVIOUS
<1>1. ThreadsTypeOK
  BY FS_EmptySet, ThreadsAssumption DEF ThreadsInit, ThreadsTypeOK, Quiet
<1>2. TurnsOfTheThread /\ InsertsAreOfTheThread
  BY DEF ThreadsInit, TurnsOfTheThread, InsertsAreOfTheThread, At, Quiet
<1> QED  BY <1>1, <1>2 DEF ThreadsInv

\* After a turn comes the other one's lookup, or nothing.
LEMMA NextTurns ==
  ASSUME ThreadsTypeOK, NEW s \in Chats, writing[s].at # "none", NextTurn(s)
  PROVE  \E w \in {Quiet} \cup Holders :
           writing' = [writing EXCEPT ![s] = w] /\ w.at \in {"none", "look"}
<1>1. writing[s] \in Holders
  BY Working
<1> DEFINE w == [writing[s] EXCEPT !.at = "look", !.role = "assistant", !.thread = 0, !.purged = FALSE]
<1>0. 0 \in 0..MaxThreads
  BY ThreadsAssumption
<1>2. w \in Holders /\ w.at = "look"
  <2> DEFINE x == [writing[s] EXCEPT !.at = "look", !.role = "assistant"]
  <2>1. x \in Holders /\ x.at = "look"
    BY <1>1 DEF Holders
  <2>2. w = [x EXCEPT !.thread = 0, !.purged = FALSE]
    BY <1>1 DEF Holders
  <2> HIDE DEF x
  <2> QED  BY <1>0, <2>1, <2>2 DEF Holders
<1>3. Quiet.at = "none"
  BY DEF Quiet
<1>4. writing' = [writing EXCEPT ![s] = w] \/ writing' = [writing EXCEPT ![s] = Quiet]
  BY DEF NextTurn, Moves
<1> HIDE DEF w
<1> QED  BY <1>2, <1>3, <1>4

\* A request that moves to another place of its own.
LEMMA MovesKeep ==
  ASSUME ThreadsInv, NEW s \in Chats, NEW w \in {Quiet} \cup Holders,
         writing' = [writing EXCEPT ![s] = w],
         UNCHANGED <<thread, docs, kept, deleting, made>>, messages' \in 0..MaxMessages,
         w.at = "insert" /\ ~w.purged => thread[w.u] # 0 /\ w.thread = thread[w.u]
  PROVE  ThreadsInv'
<1> USE DEF ThreadsInv
<1>1. ThreadsTypeOK'
  BY DEF ThreadsTypeOK, Holders
<1>2. TurnsOfTheThread'
  BY DEF TurnsOfTheThread
<1>3. \A c \in Chats : writing'[c] = IF c = s THEN w ELSE writing[c]
  BY DEF ThreadsTypeOK
<1>4. InsertsAreOfTheThread'
  BY <1>3 DEF InsertsAreOfTheThread, At
<1> QED  BY <1>1, <1>2, <1>4

\* A question looks for its thread first.
LEMMA QuestionKeeps ==
  ASSUME ThreadsInv, NEW s \in Chats, NEW u \in Authors, Question(s, u)
  PROVE  ThreadsInv'
<1> DEFINE w == [at |-> "look", u |-> u, of |-> messages + 1, role |-> "user", thread |-> 0, purged |-> FALSE]
<1>1. messages + 1 \in 1..MaxMessages
  BY ThreadsAssumption DEF Question, ThreadsInv, ThreadsTypeOK
<1>2. w \in Holders /\ w.at = "look"
  BY <1>1, ThreadsAssumption DEF Holders
<1>3. /\ writing' = [writing EXCEPT ![s] = w] /\ messages' \in 0..MaxMessages
      /\ UNCHANGED <<thread, docs, kept, deleting, made>>
  BY <1>1 DEF Question, Moves
<1> HIDE DEF w
<1> QED  BY <1>2, <1>3, MovesKeep

\* A thread found is the person's.
LEMMA LooksKeeps ==
  ASSUME ThreadsInv, NEW s \in Chats, Looks(s) \/ LooksAgain(s)
  PROVE  ThreadsInv'
<1> DEFINE t == thread[writing[s].u]
<1>1. writing[s] \in Holders /\ t \in 0..MaxThreads
  BY Working DEF Looks, LooksAgain, At, ThreadsInv, ThreadsTypeOK
<1>2. messages' \in 0..MaxMessages /\ UNCHANGED <<thread, docs, kept, deleting, made>>
  BY DEF Looks, LooksAgain, ThreadsInv, ThreadsTypeOK
<1>3. CASE Looks(s)
  <2> DEFINE w == [writing[s] EXCEPT !.at = IF t = 0 THEN "create" ELSE "insert", !.thread = t, !.purged = FALSE]
  <2>1. w \in Holders /\ w.u = writing[s].u /\ w.thread = t /\ (w.at = "insert" => t # 0)
    BY <1>1 DEF Holders
  <2>2. writing' = [writing EXCEPT ![s] = w]
    BY <1>3 DEF Looks, Moves
  <2> HIDE DEF w
  <2> QED  BY <2>1, <2>2, <1>2, MovesKeep
<1>4. CASE LooksAgain(s) /\ t = 0
  <2>1. NextTurn(s) /\ writing[s].at # "none"
    BY <1>4 DEF LooksAgain, At
  <2>2. PICK w \in {Quiet} \cup Holders : writing' = [writing EXCEPT ![s] = w] /\ w.at \in {"none", "look"}
    BY <2>1, NextTurns DEF ThreadsInv
  <2> QED  BY <2>2, <1>2, MovesKeep
<1>5. CASE LooksAgain(s) /\ t # 0
  <2> DEFINE w == [writing[s] EXCEPT !.at = "insert", !.thread = t, !.purged = FALSE]
  <2>1. w \in Holders /\ w.u = writing[s].u /\ w.thread = t
    BY <1>1 DEF Holders
  <2>2. writing' = [writing EXCEPT ![s] = w]
    BY <1>5 DEF LooksAgain, Moves
  <2>3. thread[w.u] # 0 /\ w.thread = thread[w.u]
    BY <2>1, <1>5
  <2> HIDE DEF w, t
  <2> QED  BY <2>1, <2>2, <2>3, <1>2, MovesKeep
<1> QED  BY <1>3, <1>4, <1>5

\* A request that is lost holds nothing.
LEMMA LosesKeeps ==
  ASSUME ThreadsInv, NEW s \in Chats, Loses(s)
  PROVE  ThreadsInv'
<1>1. writing' = [writing EXCEPT ![s] = Quiet]
  BY DEF Loses, Moves
<1>2. messages' \in 0..MaxMessages /\ UNCHANGED <<thread, docs, kept, deleting, made>>
  BY DEF Loses, ThreadsInv, ThreadsTypeOK
<1>3. Quiet \in {Quiet} \cup Holders /\ Quiet.at # "insert"
  BY DEF Quiet
<1> HIDE DEF Quiet
<1> QED  BY <1>1, <1>2, <1>3, MovesKeep

\* The thread of a person who has none yet: no turn and no insert of theirs counts on one.
LEMMA CreatesKeeps ==
  ASSUME ThreadsInv, NEW s \in Chats, Creates(s)
  PROVE  ThreadsInv'
<1> DEFINE u == writing[s].u
<1>1. writing[s] \in Holders /\ u \in Authors
  BY Working DEF Creates, At, ThreadsInv
<1>2. CASE thread[u] # 0
  <2> DEFINE w == [writing[s] EXCEPT !.at = "again"]
  <2>1. w \in Holders /\ w.at = "again"
    BY <1>1 DEF Holders
  <2>2. writing' = [writing EXCEPT ![s] = w] /\ UNCHANGED <<thread, made>>
    BY <1>2 DEF Creates, Moves
  <2>3. messages' \in 0..MaxMessages /\ UNCHANGED <<docs, kept, deleting>>
    BY DEF Creates, ThreadsInv, ThreadsTypeOK
  <2> HIDE DEF w
  <2> QED  BY <2>1, <2>2, <2>3, MovesKeep
<1>3. CASE thread[u] = 0
  <2> DEFINE w == [writing[s] EXCEPT !.at = "insert", !.thread = made + 1, !.purged = FALSE]
  <2>1. /\ made' = made + 1 /\ thread' = [thread EXCEPT ![u] = made + 1]
        /\ writing' = [writing EXCEPT ![s] = w]
        /\ UNCHANGED <<docs, kept, deleting, messages>> /\ made < MaxThreads
    BY <1>3 DEF Creates, Moves
  <2>2. made + 1 \in 0..MaxThreads /\ made + 1 # 0
    BY <2>1, ThreadsAssumption DEF ThreadsInv, ThreadsTypeOK
  <2>3. w \in Holders /\ w.u = u /\ w.thread = made + 1
    BY <1>1, <2>2 DEF Holders
  <2> HIDE DEF w, u
  <2>4. \A v \in Authors : thread'[v] = IF v = u THEN made + 1 ELSE thread[v]
    BY <1>1, <2>1 DEF ThreadsInv, ThreadsTypeOK
  <2>5. \A c \in Chats : writing'[c] = IF c = s THEN w ELSE writing[c]
    BY <2>1 DEF ThreadsInv, ThreadsTypeOK
  <2>6. ThreadsTypeOK'
    BY <2>1, <2>2, <2>3, <1>1 DEF ThreadsInv, ThreadsTypeOK, Holders
  <2>7. TurnsOfTheThread'
    BY <1>3, <2>1, <2>4 DEF ThreadsInv, TurnsOfTheThread, ThreadsTypeOK, Turns
  <2>8. InsertsAreOfTheThread'
    <3> SUFFICES ASSUME NEW c \in Chats, writing'[c].at = "insert", ~writing'[c].purged
                 PROVE  thread'[writing'[c].u] # 0 /\ writing'[c].thread = thread'[writing'[c].u]
      BY DEF InsertsAreOfTheThread, At
    <3>1. CASE c = s
      BY <3>1, <2>2, <2>3, <2>4, <2>5, <1>1
    <3>2. CASE c # s
      <4>1. writing'[c] = writing[c]
        BY <3>2, <2>5
      <4>2. writing[c].u \in Authors
        BY <4>1, Working DEF ThreadsInv
      <4>3. thread[writing[c].u] # 0 /\ writing[c].thread = thread[writing[c].u]
        BY <4>1 DEF ThreadsInv, InsertsAreOfTheThread, At
      <4> QED  BY <4>1, <4>2, <4>3, <2>4, <1>3
    <3> QED  BY <3>1, <3>2
  <2> QED  BY <2>6, <2>7, <2>8 DEF ThreadsInv
<1> QED  BY <1>2, <1>3

\* What is inserted was of the thread already, or purged on its way.
LEMMA InsertsKeeps ==
  ASSUME ThreadsInv, NEW s \in Chats, Inserts(s)
  PROVE  ThreadsInv'
<1> DEFINE w == writing[s]
           d == [u |-> w.u, of |-> w.of, role |-> w.role, thread |-> w.thread, purged |-> w.purged,
                 n |-> kept + 1]
<1>1. w \in Holders /\ w.u \in Authors /\ w.at = "insert"
  BY Working DEF Inserts, At, ThreadsInv
<1>2. d \in Turns /\ d.n = kept + 1 /\ d.u = w.u /\ d.purged = w.purged /\ d.thread = w.thread
  BY <1>1 DEF Turns, Holders, ThreadsInv, ThreadsTypeOK
<1>3. docs' = docs \cup {d} /\ kept' = kept + 1 /\ NextTurn(s)
      /\ UNCHANGED <<thread, deleting, made, messages>>
  BY DEF Inserts
<1>4. PICK x \in {Quiet} \cup Holders : writing' = [writing EXCEPT ![s] = x] /\ x.at \in {"none", "look"}
  BY <1>1, <1>3, NextTurns DEF ThreadsInv
<1>5. ~w.purged => thread[w.u] # 0 /\ w.thread = thread[w.u]
  BY <1>1 DEF ThreadsInv, InsertsAreOfTheThread, At
<1> HIDE DEF w, d
<1>6. \A c \in Chats : writing'[c] = IF c = s THEN x ELSE writing[c]
  BY <1>4 DEF ThreadsInv, ThreadsTypeOK
<1>7. /\ thread' \in [Authors -> 0..MaxThreads] /\ made' \in 0..MaxThreads
      /\ writing' \in [Chats -> {Quiet} \cup Holders]
      /\ deleting' \in [Authors -> {"no", "forgotten", "erased"}] /\ messages' \in 0..MaxMessages
  BY <1>3, <1>4 DEF ThreadsInv, ThreadsTypeOK, Holders
<1>8. docs' \subseteq Turns /\ IsFiniteSet(docs') /\ kept' \in Nat
  BY <1>2, <1>3, FS_AddElement DEF ThreadsInv, ThreadsTypeOK
<1>9. \A e \in docs' : e.n <= kept' /\ \A f \in docs' : e.n = f.n => e = f
  BY <1>2, <1>3 DEF ThreadsInv, ThreadsTypeOK, Turns
<1>10. ThreadsTypeOK'
  BY <1>7, <1>8, <1>9 DEF ThreadsTypeOK, Holders
<1>11. TurnsOfTheThread'
  BY <1>2, <1>3, <1>5 DEF ThreadsInv, TurnsOfTheThread
<1>12. InsertsAreOfTheThread'
  BY <1>3, <1>4, <1>6 DEF ThreadsInv, InsertsAreOfTheThread, At
<1> QED  BY <1>10, <1>11, <1>12 DEF ThreadsInv

\* After a purge no turn of the person is left, and every request of theirs knows of it.
LEMMA ForgetsKeeps ==
  ASSUME ThreadsInv, NEW u \in Authors, Forgets(u)
  PROVE  ThreadsInv'
<1>1. /\ docs' = {d \in docs : d.u # u} /\ thread' = [thread EXCEPT ![u] = 0]
      /\ deleting' = [deleting EXCEPT ![u] = "forgotten"] /\ UNCHANGED <<kept, made, messages>>
  BY DEF Forgets
<1>2. \A v \in Authors : thread'[v] = IF v = u THEN 0 ELSE thread[v]
  BY <1>1 DEF ThreadsInv, ThreadsTypeOK
<1>3. \A c \in Chats : /\ writing'[c] \in {Quiet} \cup Holders
                       /\ writing[c] = Quiet \/ writing[c].u # u => writing'[c] = writing[c]
                       /\ writing[c] # Quiet /\ writing[c].u = u => writing'[c].purged
  <2> SUFFICES ASSUME NEW c \in Chats
               PROVE  /\ writing'[c] \in {Quiet} \cup Holders
                      /\ writing[c] = Quiet \/ writing[c].u # u => writing'[c] = writing[c]
                      /\ writing[c] # Quiet /\ writing[c].u = u => writing'[c].purged
    OBVIOUS
  <2>1. writing'[c] = IF writing[c] # Quiet /\ writing[c].u = u
                      THEN [writing[c] EXCEPT !.purged = TRUE] ELSE writing[c]
    BY DEF Forgets
  <2>2. writing[c] \in {Quiet} \cup Holders
    BY DEF ThreadsInv, ThreadsTypeOK, Holders
  <2>3. CASE writing[c] # Quiet /\ writing[c].u = u
    BY <2>1, <2>2, <2>3 DEF Holders
  <2>4. CASE ~(writing[c] # Quiet /\ writing[c].u = u)
    BY <2>1, <2>2, <2>4
  <2> QED  BY <2>3, <2>4
<1>4. writing' = [c \in Chats |-> writing'[c]]
  BY DEF Forgets
<1>5. writing' \in [Chats -> {Quiet} \cup Holders]
  BY <1>3, <1>4
<1>6. docs' \subseteq docs /\ IsFiniteSet(docs')
  BY <1>1, FS_Subset DEF ThreadsInv, ThreadsTypeOK
<1>7. ThreadsTypeOK'
  <2>1. docs' \subseteq Turns /\ kept' \in Nat
    BY <1>1, <1>6 DEF ThreadsInv, ThreadsTypeOK
  <2>2. \A d \in docs' : d.n <= kept' /\ \A e \in docs' : d.n = e.n => d = e
    BY <1>1, <1>6 DEF ThreadsInv, ThreadsTypeOK
  <2>3. /\ thread' \in [Authors -> 0..MaxThreads] /\ made' \in 0..MaxThreads
        /\ deleting' \in [Authors -> {"no", "forgotten", "erased"}] /\ messages' \in 0..MaxMessages
    BY <1>1, ThreadsAssumption DEF ThreadsInv, ThreadsTypeOK
  <2> QED  BY <1>5, <1>6, <2>1, <2>2, <2>3 DEF ThreadsTypeOK, Holders
<1>8. TurnsOfTheThread'
  BY <1>1, <1>2 DEF ThreadsInv, TurnsOfTheThread, ThreadsTypeOK, Turns
<1>9. InsertsAreOfTheThread'
  <2> SUFFICES ASSUME NEW c \in Chats, writing'[c].at = "insert", ~writing'[c].purged
               PROVE  thread'[writing'[c].u] # 0 /\ writing'[c].thread = thread'[writing'[c].u]
    BY DEF InsertsAreOfTheThread, At
  <2>1. writing[c] = Quiet \/ writing[c].u # u
    BY <1>3
  <2>2. writing'[c] = writing[c]
    BY <2>1, <1>3
  <2>3. writing[c] # Quiet /\ writing[c].u \in Authors /\ writing[c].u # u
    BY <2>1, <2>2, Working DEF ThreadsInv, Quiet
  <2> QED  BY <2>2, <2>3, <1>2 DEF ThreadsInv, InsertsAreOfTheThread, At
<1> QED  BY <1>7, <1>8, <1>9 DEF ThreadsInv

\* The account's own row says nothing of the store.
LEMMA ErasesKeeps ==
  ASSUME ThreadsInv, NEW u \in Authors, Erases(u)
  PROVE  ThreadsInv'
<1>1. ThreadsTypeOK'
  BY DEF Erases, ThreadsInv, ThreadsTypeOK
<1>2. TurnsOfTheThread' /\ InsertsAreOfTheThread'
  BY DEF Erases, ThreadsInv, TurnsOfTheThread, InsertsAreOfTheThread, At
<1> QED  BY <1>1, <1>2 DEF ThreadsInv

\* Every step.
LEMMA ThreadsKeeps ==
  ASSUME ThreadsInv, [ThreadsNext]_threadVars
  PROVE  ThreadsInv'
<1>1. CASE UNCHANGED threadVars
  <2>1. ThreadsTypeOK'
    BY <1>1 DEF threadVars, ThreadsInv, ThreadsTypeOK
  <2>2. TurnsOfTheThread' /\ InsertsAreOfTheThread'
    BY <1>1 DEF threadVars, ThreadsInv, TurnsOfTheThread, InsertsAreOfTheThread, At
  <2> QED  BY <2>1, <2>2 DEF ThreadsInv
<1>2. ASSUME NEW s \in Chats, NEW u \in Authors, Question(s, u) PROVE ThreadsInv'
  BY <1>2, QuestionKeeps
<1>3. ASSUME NEW s \in Chats, Looks(s) \/ LooksAgain(s) PROVE ThreadsInv'
  BY <1>3, LooksKeeps
<1>4. ASSUME NEW s \in Chats, Creates(s) PROVE ThreadsInv'
  BY <1>4, CreatesKeeps
<1>5. ASSUME NEW s \in Chats, Inserts(s) PROVE ThreadsInv'
  BY <1>5, InsertsKeeps
<1>6. ASSUME NEW s \in Chats, Loses(s) PROVE ThreadsInv'
  BY <1>6, LosesKeeps
<1>7. ASSUME NEW u \in Authors, Forgets(u) PROVE ThreadsInv'
  BY <1>7, ForgetsKeeps
<1>8. ASSUME NEW u \in Authors, Erases(u) PROVE ThreadsInv'
  BY <1>8, ErasesKeeps
<1> QED  BY <1>1, <1>2, <1>3, <1>4, <1>5, <1>6, <1>7, <1>8 DEF ThreadsNext

\* The place of a turn that is not shown has a full page before it.
LEMMA TurnsAreShown == ASSUME ThreadsInv PROVE StoredIsShown
<1> SUFFICES ASSUME NEW d \in docs, ~d.purged, d \notin History(d.u)
             PROVE  Cardinality(Held(d.u)) > Limit
  BY DEF StoredIsShown
<1> DEFINE earlier == {e \in Held(d.u) : e.n < d.n}
<1>1. d \in Held(d.u)
  BY DEF Held, ThreadsInv, TurnsOfTheThread
<1>2. IsFiniteSet(Held(d.u)) /\ IsFiniteSet(earlier)
  BY FS_Subset DEF Held, ThreadsInv, ThreadsTypeOK
<1>3. Cardinality(earlier) \in Nat /\ Cardinality(Held(d.u)) \in Nat /\ Limit \in Nat
  BY <1>2, FS_CardinalityType, ThreadsAssumption
<1>4. d \notin earlier
  BY DEF ThreadsInv, ThreadsTypeOK, Turns
<1>5. Cardinality(earlier) >= Limit
  BY <1>1, <1>3 DEF History
<1>6. earlier \cup {d} \subseteq Held(d.u)
  BY <1>1
<1>7. Cardinality(earlier \cup {d}) = Cardinality(earlier) + 1
  BY <1>2, <1>4, FS_AddElement
<1>8. Cardinality(earlier \cup {d}) <= Cardinality(Held(d.u))
  BY <1>2, <1>6, FS_Subset
<1> HIDE DEF earlier
<1> QED  BY <1>3, <1>5, <1>7, <1>8

\* One thread for a person, and every turn in it that no purge passed under.
THEOREM ThreadsHold == ThreadsSpec => []ThreadsInv
<1>1. ThreadsInit => ThreadsInv
  BY ThreadsStarts
<1>2. ThreadsInv /\ [ThreadsNext]_threadVars => ThreadsInv'
  BY ThreadsKeeps
<1> QED  BY <1>1, <1>2, PTL DEF ThreadsSpec

\* A stored turn is shown as long as the page has room (Store.turns, messages/src/store.ts):
\* neither two first messages at once nor a purge hides another one.
THEOREM TurnsAreNotLost == ThreadsSpec => []StoredIsShown
<1>1. ThreadsInv => StoredIsShown
  BY TurnsAreShown
<1> QED  BY <1>1, ThreadsHold, PTL
=============================================================================
