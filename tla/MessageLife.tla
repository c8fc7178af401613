----------------------------- MODULE MessageLife -----------------------------
(***************************************************************************)
(* What the bus promises about one message, without claims, deliveries or   *)
(* attempts: once published it travels until a handler has done its work,   *)
(* or it is parked for an operator, or it is dropped as a duplicate of work *)
(* another replica was believed to be doing.  BusDispatch implements this.  *)
(***************************************************************************)
CONSTANT Msgs

VARIABLES
  life,     \* message -> "unsent", "travelling", "parked" or "settled"
  done,     \* messages whose work a handler has finished
  skipped   \* messages dropped as duplicates of unfinished work

vars == <<life, done, skipped>>

Init ==
  /\ life = [m \in Msgs |-> "unsent"]
  /\ done = {}
  /\ skipped = {}

Move(m, from, to) ==
  /\ life[m] = from
  /\ life' = [life EXCEPT ![m] = to]
  /\ UNCHANGED <<done, skipped>>

\* One handler run can be the work of several messages: those of one key.
Work(S) == done' = done \cup S /\ UNCHANGED <<life, skipped>>
Skip(m) ==
  /\ life[m] # "unsent"
  /\ skipped' = skipped \cup {m}
  /\ UNCHANGED <<life, done>>

\* The broker forgets a message only when its work is done or was skipped.
Settle(m) ==
  /\ m \in done \cup skipped
  /\ Move(m, "travelling", "settled")

\* A goroutine that outlived its connection schedules the retry of a message
\* the broker has already seen settled: it travels once more.
Revive(m) == Move(m, "settled", "travelling")

Next ==
  \/ \E m \in Msgs :
       \/ Move(m, "unsent", "travelling")
       \/ Move(m, "travelling", "parked")
       \/ Move(m, "parked", "travelling")
       \/ Settle(m) \/ Revive(m) \/ Skip(m)
  \/ \E S \in SUBSET Msgs : Work(S)

Spec == Init /\ [][Next]_vars
=============================================================================
