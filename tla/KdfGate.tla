------------------------------ MODULE KdfGate ------------------------------
(***************************************************************************)
(* The gate of the password hash (auth/src/core.ts): withSlot lets LIMIT    *)
(* derivations run and makes the rest wait, in one thread whose callbacks   *)
(* interleave; spendKdf burns one against a decoy that is made once.        *)
(***************************************************************************)
EXTENDS Integers, Sequences, FiniteSets, SequencesExt

CONSTANTS Calls,     \* calls to hashPassword, verifyPassword and spendKdf
          Spends,    \* those of them made by spendKdf
          LIMIT,     \* KDF_MAX_CONCURRENT
          MaxFaults  \* derivations that fail

ASSUME KdfAssumption ==
  /\ Spends \subseteq Calls /\ IsFiniteSet(Calls) /\ "decoy" \notin Calls
  /\ LIMIT \in Nat \ {0} /\ MaxFaults \in Nat

Decoy == "decoy"
Askers == Calls \cup {Decoy}   \* whatever asks for a derivation

VARIABLES running,   \* the counter
          waiting,   \* the queue of resolvers
          at,        \* where each job is
          decoy,     \* the promise of the decoy hash: none, pending, made, rejected
          faults

kdfVars == <<running, waiting, at, decoy, faults>>

KdfInit ==
  /\ running = 0 /\ waiting = <<>>
  /\ at = [j \in Askers |-> "new"]
  /\ decoy = "none" /\ faults = 0

\* The head of withSlot: wait while every slot is taken, else take one.  A job that
\* is woken comes through here again.
EntersWith(j, at0) ==
  IF running >= LIMIT
  THEN /\ waiting' = Append(waiting, j) /\ at' = [at0 EXCEPT ![j] = "waiting"]
       /\ UNCHANGED running
  ELSE /\ running' = running + 1 /\ at' = [at0 EXCEPT ![j] = "running"]
       /\ UNCHANGED waiting

\* hashPassword, or verifyPassword of a row that can be read.
Hashes(j) ==
  /\ j \in Calls \ Spends /\ at[j] = "new"
  /\ EntersWith(j, at)
  /\ UNCHANGED <<decoy, faults>>

\* verifyPassword of a row that cannot: false, and no derivation.
Unreadable(j) ==
  /\ j \in Calls \ Spends /\ at[j] = "new"
  /\ at' = [at EXCEPT ![j] = "done"]
  /\ UNCHANGED <<running, waiting, decoy, faults>>

\* spendKdf: the first of them starts the decoy, all of them wait for it.
Spend(j) ==
  /\ j \in Spends /\ at[j] = "new"
  /\ IF decoy = "none"
     THEN decoy' = "pending" /\ EntersWith(Decoy, [at EXCEPT ![j] = "decoy"])
     ELSE at' = [at EXCEPT ![j] = "decoy"] /\ UNCHANGED <<running, waiting, decoy>>
  /\ UNCHANGED faults

\* The decoy is there: the verification against it asks for a slot of its own.  A
\* rejected promise stays rejected, and so does every call that awaits it.
Against(j) ==
  /\ at[j] = "decoy" /\ decoy \in {"made", "rejected"}
  /\ IF decoy = "made" THEN EntersWith(j, at)
     ELSE at' = [at EXCEPT ![j] = "failed"] /\ UNCHANGED <<running, waiting>>
  /\ UNCHANGED <<decoy, faults>>

\* Mutant: the woken job assumes that its slot is free ("if", not "while").
ResumesTrusting(j) ==
  /\ at[j] = "woken"
  /\ running' = running + 1 /\ at' = [at EXCEPT ![j] = "running"]
  /\ UNCHANGED <<waiting, decoy, faults>>

Resumes(j) ==
  /\ at[j] = "woken"
  /\ EntersWith(j, at)
  /\ UNCHANGED <<decoy, faults>>

\* The derivation ends, well or in an error: the slot is free and the first in the
\* queue is woken; whoever calls before it resumes takes the slot.
Frees(j, ok) ==
  /\ at[j] = "running"
  /\ ok \/ faults < MaxFaults
  /\ faults' = IF ok THEN faults ELSE faults + 1
  /\ running' = running - 1
  /\ LET left == [at EXCEPT ![j] = IF ok THEN "done" ELSE "failed"]
     IN IF waiting = <<>> THEN at' = left /\ UNCHANGED waiting
        ELSE waiting' = Tail(waiting) /\ at' = [left EXCEPT ![Head(waiting)] = "woken"]
  /\ decoy' = IF j = Decoy THEN IF ok THEN "made" ELSE "rejected" ELSE decoy

KdfNext ==
  \E j \in Askers :
    \/ Hashes(j) \/ Unreadable(j) \/ Spend(j)
    \/ Against(j) \/ Resumes(j) \/ \E ok \in BOOLEAN : Frees(j, ok)

\* libuv ends every derivation, the event loop runs every callback.
KdfStep(j) == Against(j) \/ Resumes(j) \/ \E ok \in BOOLEAN : Frees(j, ok)
KdfFairness == \A j \in Askers : WF_kdfVars(KdfStep(j))

KdfSpec == KdfInit /\ [][KdfNext]_kdfVars /\ KdfFairness

-----------------------------------------------------------------------------
In(s) == {j \in Askers : at[j] = s}

KdfTypeOK ==
  /\ running \in Nat /\ waiting \in Seq(Askers) /\ faults \in 0..MaxFaults
  /\ at \in [Askers -> {"new", "decoy", "waiting", "woken", "running", "done", "failed"}]
  /\ decoy \in {"none", "pending", "made", "rejected"}

\* Never more than LIMIT derivations, and the counter is their number, so that no
\* error keeps a slot; and while somebody waits no slot is idle: it runs, or the one
\* it was given to has been woken, though a newcomer may take it first.
GateHolds ==
  /\ running = Cardinality(In("running")) /\ running <= LIMIT
  /\ In("waiting") = ToSet(waiting) /\ IsInjective(waiting)
  /\ waiting # <<>> => running + Cardinality(In("woken")) >= LIMIT

\* Every call is answered, the ones that lost their slot to a newcomer too.
EveryCallEnds == \A j \in Calls : at[j] # "new" ~> at[j] \in {"done", "failed"}
=============================================================================
