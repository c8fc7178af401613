------------------------------ MODULE DataClient ------------------------------
(***************************************************************************)
(* The client of the data service (api/src/data.ts): every read and write of *)
(* the api and its worker is one of its calls.  post sends an operation, and  *)
(* sends it again, once, when anything but an answer with a bad status came   *)
(* of the first time; the descriptive endpoints and the health are asked once. *)
(***************************************************************************)
EXTENDS Naturals, Sequences, FiniteSets

CONSTANTS
  Ops,          \* the calls of one caller, numbered in their order
  Tries         \* attempts of a post

ASSUME DataAssumption == Ops \subseteq Nat /\ Tries \in Nat \ {0}

VARIABLES
  secret,       \* whether DATA_SECRETO is set in this process
  call,         \* of each call: its kind and how it stands
  wire,         \* requests on their way to the service: call and attempt
  back,         \* answers on their way back
  table,        \* the call whose write the row holds, 0 for none
  runs,         \* how often each call has run in the service
  cut           \* ghost: calls an attempt of which was given up unanswered

dataVars == <<secret, call, wire, back, table, runs, cut>>

Kinds == {"write", "read", "get", "health"}
NotYet == [at |-> "no"]
Done(c) == call[c].at = "done"

DataInit ==
  /\ secret \in BOOLEAN /\ call = [c \in Ops |-> NotYet] /\ wire = {} /\ back = {}
  /\ table = 0 /\ runs = [c \in Ops |-> 0] /\ cut = {}

\* authHeaders: without the secret, or for an actor or an authority that is no person's
\* number, nothing is sent.  The health is asked without headers.
Headers(kind, identified) == kind = "health" \/ (secret /\ identified)
\* How often a call of this kind is sent.
Attempts(kind) == IF kind \in {"write", "read"} THEN Tries ELSE 1
Result(is, saw) == [is |-> is, saw |-> saw]
Concludes(c, r) == call' = [call EXCEPT ![c] = [at |-> "done", kind |-> @.kind, result |-> r]]

\* op, opAuthorized, query, plannable, catalog, dataHealth.
Begins(c, kind, identified) ==
  /\ call[c] = NotYet /\ \A d \in Ops : d < c => Done(d)
  /\ IF Headers(kind, identified)
     THEN /\ call' = [call EXCEPT ![c] = [at |-> "out", kind |-> kind, try |-> 1]]
          /\ wire' = wire \cup {<<c, 1>>}
     ELSE /\ call' = [call EXCEPT ![c] = [at |-> "done", kind |-> kind, result |-> Result("threw", 0)]]
          /\ UNCHANGED wire
  /\ UNCHANGED <<secret, back, table, runs, cut>>

\* The service runs it, whether the caller still waits or not, or refuses it.
Runs(r) ==
  /\ r \in wire /\ wire' = wire \ {r} /\ runs' = [runs EXCEPT ![r[1]] = @ + 1]
  /\ table' = IF call[r[1]].kind = "write" THEN r[1] ELSE table
  /\ back' = back \cup {[to |-> r, ok |-> TRUE, saw |-> table']}
  /\ UNCHANGED <<secret, call, cut>>
RefusesIt(r) ==
  /\ r \in wire /\ wire' = wire \ {r}
  /\ back' = back \cup {[to |-> r, ok |-> FALSE, saw |-> table]}
  /\ UNCHANGED <<secret, call, table, runs, cut>>
\* The request is lost on its way.
Drops(r) ==
  /\ r \in wire /\ wire' = wire \ {r}
  /\ UNCHANGED <<secret, call, back, table, runs, cut>>

\* The answer that is waited for.
For(a) == call[a.to[1]].at = "out" /\ call[a.to[1]].try = a.to[2]
Returns(a) ==
  /\ a \in back /\ a.ok /\ For(a) /\ back' = back \ {a}
  /\ Concludes(a.to[1], Result("answer", a.saw))
  /\ UNCHANGED <<secret, wire, table, runs, cut>>

\* The next attempt, or the end.  Mutant: a bad status is sent again too.
Again(c, refused) == call[c].try < Attempts(call[c].kind)
RefusalIsFinal(c, refused) == ~refused /\ Again(c, refused)
Retries(c, refused) == RefusalIsFinal(c, refused)
GoesOn(c, refused) ==
  IF Retries(c, refused)
  THEN /\ call' = [call EXCEPT ![c].try = @ + 1]
       /\ wire' = wire \cup {<<c, call[c].try + 1>>}
  ELSE /\ Concludes(c, Result(IF refused THEN "refused" ELSE "unreachable", 0))
       /\ UNCHANGED wire

\* A bad status: of the service's refusal, or of something between, over an answer that
\* was good.
Refused(a) ==
  /\ a \in back /\ For(a) /\ back' = back \ {a} /\ GoesOn(a.to[1], TRUE)
  /\ UNCHANGED <<secret, table, runs, cut>>
\* The deadline, the connection, or a body that is no JSON.
CutOff(c) ==
  /\ call[c].at = "out" /\ cut' = cut \cup {c} /\ GoesOn(c, FALSE)
  /\ back' = {a \in back : a.to # <<c, call[c].try>>}
  /\ UNCHANGED <<secret, table, runs>>

DataNext ==
  \/ \E c \in Ops : CutOff(c) \/ \E k \in Kinds, i \in BOOLEAN : Begins(c, k, i)
  \/ \E r \in wire : Runs(r) \/ RefusesIt(r) \/ Drops(r)
  \/ \E a \in back : Returns(a) \/ Refused(a)
DataSpec == DataInit /\ [][DataNext]_dataVars
-----------------------------------------------------------------------------
Is(c, is) == Done(c) /\ call[c].result.is = is
Saw(c) == call[c].result.saw
Unsure == {d \in cut : call[d].kind = "write"}
\* What a call was answered stands.  A call runs once unless an attempt of it was given up,
\* as often as it was sent at most, and never when it threw before it was sent; and a
\* read shows the last write that was answered, or a later one, unless an attempt of a
\* write was given up: that one may still land.  (data.ts post, whose comment has a write
\* whose response was lost never sent twice)
AnswersStand ==
  /\ \A c \in Ops :
       /\ runs[c] > 1 => c \in cut
       /\ runs[c] <= Tries
       /\ Is(c, "threw") => runs[c] = 0
       /\ Is(c, "answer") => runs[c] > 0
  /\ \A c, w \in Ops :
       Is(c, "answer") /\ Is(w, "answer") /\ call[w].kind = "write" /\ w <= c /\ Unsure = {}
         => Saw(c) \in w .. c
=============================================================================
