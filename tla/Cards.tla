-------------------------------- MODULE Cards --------------------------------
(***************************************************************************)
(* The lane of notices of the web client: toasts (web/src/lib/avisos.ts) and *)
(* unlocked achievements (unlock.ts, labs-client.ts celebrar), which the cat *)
(* walks in one at a time (trazo.ts).  A card's time runs from the moment it *)
(* is issued; its walk starts when the walks before it are over.             *)
(***************************************************************************)
EXTENDS Integers, Sequences, FiniteSets, SequencesExt

CONSTANTS
  Toasts, Unlocks,  \* cards that may be issued
  Key,              \* of a toast
  Life,             \* MS and 5200, in ticks; Forever of the toasts that stay
  Lands, Departs,   \* when the cat puts the card down, and when it has left
  MaxBox, MaxUnlocked   \* the lane's limits, 2 before a toast and 3 after an unlock

Nobody == "nobody"
Off == -1
Forever == -1

ASSUME CardsAssumption ==
  /\ IsFiniteSet(Toasts) /\ IsFiniteSet(Unlocks) /\ Toasts \cap Unlocks = {}
  /\ {Lands, Departs, MaxBox, MaxUnlocked} \subseteq Nat /\ Lands < Departs
  /\ \A c \in Toasts \cup Unlocks :
       c # Nobody /\ Life[c] \in Int /\ (Life[c] = Forever \/ Life[c] > Lands)

VARIABLES
  issued,
  lane,         \* the children of #toasts, the oldest first
  queue,        \* cola: the card being brought and those behind it
  carried,      \* whether the card at the head is with the cat, and not yet put down
  walk,         \* ticks since the head's walk began, Off before
  timer,        \* ticks each card has left; Off where there is no timer
  entry,        \* seen: the card of each key
  spent,        \* ghost: cards whose time is up
  behind,       \* ghost: cards issued while another one was being brought
  slipped       \* ghost: keys whose card was replaced before it was in the lane, or
                \* whose entry a replaced card took away

cardsVars == <<issued, lane, queue, carried, walk, timer, entry, spent, behind, slipped>>

AllCards == Toasts \cup Unlocks
Keys == {Key[c] : c \in Toasts}

CardsInit ==
  /\ issued = {} /\ lane = <<>> /\ queue = <<>> /\ carried = FALSE /\ walk = Off
  /\ timer = [c \in AllCards |-> Off] /\ entry = [k \in Keys |-> Nobody]
  /\ spent = {} /\ behind = {} /\ slipped = {}

\* el.remove(): out of the lane, or out of the cat's hands.
Gone(s, c) ==
  IF c \in Range(s) THEN RemoveAt(s, CHOOSE i \in DOMAIN s : s[i] = c) ELSE s
\* The oldest leave until n are left.
Trim(s, n) == IF Len(s) > n THEN SubSeq(s, Len(s) - n + 1, Len(s)) ELSE s

\* trazoEntregar: behind those that are being brought.
Brings(cs) ==
  /\ queue' = queue \o cs /\ issued' = issued \cup Range(cs)
  /\ timer' = [c \in AllCards |-> IF c \in Range(cs) THEN Life[c] ELSE timer[c]]
  /\ behind' = behind \cup {c \in Range(cs) : queue # <<>> \/ c # cs[1]}

\* Mutant: the card of the same key stays.
ReplacedNot(c) == lane
Replaced(c) == Gone(lane, entry[Key[c]])
\* window.toast: the one of the same key goes, the lane is trimmed, the new one comes.
Toast(c) ==
  /\ c \notin issued /\ Brings(<<c>>)
  /\ LET old == entry[Key[c]]
         kept == Trim(Replaced(c), MaxBox)
     IN /\ lane' = kept
        /\ entry' = [k \in Keys |->
             IF k = Key[c] THEN c
             ELSE IF entry[k] \in Range(lane) \ Range(kept) THEN Nobody ELSE entry[k]]
        /\ slipped' = IF old # Nobody /\ old \notin Range(lane) THEN slipped \cup {Key[c]} ELSE slipped
  /\ UNCHANGED <<carried, walk, spent>>

\* celebrar: the lab that was solved, and what it unlocked, in one go.
Celebrates(cs) ==
  /\ Range(cs) \cap issued = {} /\ Brings(cs)
  /\ UNCHANGED <<lane, carried, walk, entry, spent, slipped>>
-----------------------------------------------------------------------------
\* The walk

\* Its turn over, the next one's comes; an unlock trims the lane when its own is over.
Trimmed(s) == IF queue[1] \in Unlocks THEN Trim(s, MaxUnlocked) ELSE s
TurnOver == queue' = Tail(queue) /\ walk' = Off /\ carried' = FALSE

\* Without motion, or under the tour, the card is put down where it goes.
Plants ==
  /\ queue # <<>> /\ walk = Off /\ TurnOver
  /\ lane' = Trimmed(Append(Gone(lane, queue[1]), queue[1]))
  /\ UNCHANGED <<issued, timer, entry, spent, behind, slipped>>

SetsOut ==
  /\ queue # <<>> /\ walk = Off /\ walk' = 0 /\ carried' = TRUE
  /\ UNCHANGED <<issued, lane, queue, timer, entry, spent, behind, slipped>>

\* dest.append(cargo), whatever became of the card on the way.
PutsDown ==
  /\ carried /\ walk = Lands /\ carried' = FALSE /\ lane' = Append(lane, queue[1])
  /\ UNCHANGED <<issued, queue, walk, timer, entry, spent, behind, slipped>>

Leaves ==
  /\ walk = Departs /\ TurnOver /\ lane' = Trimmed(lane)
  /\ UNCHANGED <<issued, timer, entry, spent, behind, slipped>>
-----------------------------------------------------------------------------
\* The cards

\* The timer of a card: out, and the entry of its key with it, whoever has it now.
Expires(c) ==
  /\ timer[c] = 0 /\ timer' = [timer EXCEPT ![c] = Off] /\ spent' = spent \cup {c}
  /\ lane' = Gone(lane, c)
  /\ entry' = [k \in Keys |-> IF c \in Toasts /\ k = Key[c] THEN Nobody ELSE entry[k]]
  /\ slipped' = IF c \in Toasts /\ entry[Key[c]] \notin {c, Nobody} THEN slipped \cup {Key[c]} ELSE slipped
  /\ UNCHANGED <<issued, queue, carried, walk, behind>>

\* The cross, or the body of a card that leads somewhere.  A toast's timer goes on.
Dismisses(c) ==
  /\ c \in Range(lane) /\ lane' = Gone(lane, c)
  /\ timer' = IF c \in Unlocks THEN [timer EXCEPT ![c] = Off] ELSE timer
  /\ entry' = [k \in Keys |-> IF c \in Toasts /\ k = Key[c] THEN Nobody ELSE entry[k]]
  /\ slipped' = IF c \in Toasts /\ entry[Key[c]] \notin {c, Nobody} THEN slipped \cup {Key[c]} ELSE slipped
  /\ UNCHANGED <<issued, queue, carried, walk, spent, behind>>

\* Nothing that is due waits for the clock.
Due == walk \in {Departs} \/ (carried /\ walk = Lands) \/ (queue # <<>> /\ walk = Off)
       \/ \E c \in AllCards : timer[c] = 0
Passing ==
  /\ ~Due /\ (walk # Off \/ \E c \in AllCards : timer[c] > 0)
  /\ walk' = IF walk = Off THEN Off ELSE walk + 1
  /\ timer' = [c \in AllCards |-> IF timer[c] > 0 THEN timer[c] - 1 ELSE timer[c]]
  /\ UNCHANGED <<issued, lane, queue, carried, entry, spent, behind, slipped>>

CardsNext ==
  \/ \E c \in Toasts : Toast(c)
  \/ \E cs \in SetToSeqs(Unlocks) \cup {<<c>> : c \in Unlocks} : Celebrates(cs)
  \/ Plants \/ SetsOut \/ PutsDown \/ Leaves \/ Passing
  \/ \E c \in AllCards : Expires(c) \/ Dismisses(c)
CardsSpec == CardsInit /\ [][CardsNext]_cardsVars
-----------------------------------------------------------------------------
\* A card whose time is up is not in the lane, and a key has one card there: unless the
\* card was issued behind another one, or the key's card was replaced on its way.
LaneIsTidy ==
  /\ \A c \in Range(lane) : c \in spent => c \in behind
  /\ \A k \in Keys \ slipped :
       Cardinality({c \in Toasts \ spent : c \in Range(lane) /\ Key[c] = k}) <= 1
=============================================================================
