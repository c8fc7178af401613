----------------------------- MODULE BusClaims -----------------------------
(***************************************************************************)
(* The durable idempotency lease.  All three runtimes share it: the row is  *)
(* in api's `jobs` table and the three statements are the data operations   *)
(* bus.claim, bus.complete and bus.release, each one atomic SQL statement.  *)
(* Pruning (bus.prune deletes rows older than thirty days) is left out: the *)
(* model's time is far shorter.                                             *)
(***************************************************************************)
CONSTANTS
  Keys,     \* idempotency keys
  Owners    \* worker identities (BUS_WORKER_ID, by default the hostname)

VARIABLE claim   \* key -> row

NoOwner == "nobody"
Absent == [state |-> "absent", owner |-> NoOwner, stale |-> FALSE]
Rows == [state : {"absent", "running", "done"}, owner : Owners \cup {NoOwner},
         stale : BOOLEAN]

ClaimsTypeOK == claim \in [Keys -> Rows]
ClaimsInit == claim = [k \in Keys |-> Absent]

Running(o) == [state |-> "running", owner |-> o, stale |-> FALSE]
Done(o) == [state |-> "done", owner |-> o, stale |-> FALSE]

\* INSERT ... ON CONFLICT DO UPDATE ... WHERE running AND (ours OR older than
\* the lease) RETURNING: does owner o get the row?
Grants(k, o) ==
  \/ claim[k].state = "absent"
  \/ claim[k].state = "running" /\ (claim[k].owner = o \/ claim[k].stale)

\* The row is running, fresh, and somebody else's.
HeldByOther(k, o) == claim[k].state = "running" /\ ~ Grants(k, o)

Take(k, o) == claim' = [claim EXCEPT ![k] = Running(o)]

\* UPDATE ... WHERE clave = $1: whoever holds the row, and no row is no update.
MarkDone(k, o) ==
  claim' = [claim EXCEPT ![k] = IF @.state = "absent" THEN @ ELSE Done(o)]

\* As a bug would have it: the row of this owner goes, whatever its state.
DropAny(k, o) == claim' = [claim EXCEPT ![k] = IF @.state # "absent" /\ @.owner = o THEN Absent ELSE @]

\* DELETE ... WHERE state = running AND owner = $2.
Drop(k, o) ==
  claim' = [claim EXCEPT ![k] =
              IF @.state = "running" /\ @.owner = o THEN Absent ELSE @]

\* now() passes the row's `at` plus the lease.
Lapse(k) ==
  /\ claim[k].state = "running"
  /\ ~ claim[k].stale
  /\ claim' = [claim EXCEPT ![k].stale = TRUE]
=============================================================================
