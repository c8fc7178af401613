------------------------------- MODULE JobQueue -------------------------------
(***************************************************************************)
(* The Postgres job queue (api/src/jobs.ts and the job.* operations of the  *)
(* data service): several processes poll one table, each for the types it   *)
(* has handlers for.  Each call to the data service may fail before or      *)
(* after its statement ran, and a process may die between two of them.      *)
(***************************************************************************)
EXTENDS Integers, FiniteSets, Sequences, SequencesExt

CONSTANTS Works,        \* pieces of work: (type, key) pairs
          Processes,    \* processes that run worker()
          Handles,      \* process -> the work its registered types cover
          Batch,        \* jobs one pass takes
          MAX_ATTEMPTS, \* 6 in the code
          MaxFaults     \* bound: failed calls and deaths

JobAssumption ==
  /\ IsFiniteSet(Works) /\ \A p \in Processes : Handles[p] \subseteq Works
  /\ Batch \in Nat \ {0} /\ MAX_ATTEMPTS \in Nat \ {0} /\ MaxFaults \in Nat

VARIABLES job,      \* the jobs table
          hands,    \* the batch each process has taken and not finished
          at,       \* where each process is
          pass,     \* what its runBatch has counted
          faults,
          ran,      \* history: times the handler of each ran to its end
          dropped   \* history: jobs whose process died or gave its batch up

jobVars == <<job, hands, at, pass, faults, ran, dropped>>

NoJob == [estado |-> "none", intentos |-> 0, due |-> FALSE]
NoPass == [tomados |-> 0, hechos |-> 0, fallos |-> 0, muertos |-> 0]

JobInit ==
  /\ job = [k \in Works |-> NoJob]
  /\ hands = [p \in Processes |-> <<>>] /\ at = [p \in Processes |-> "idle"]
  /\ pass = [p \in Processes |-> NoPass]
  /\ faults = 0 /\ ran = [k \in Works |-> 0] /\ dropped = {}

Fault == faults < MaxFaults /\ faults' = faults + 1
Head1(p) == Head(hands[p])
To(p, where) == at' = [at EXCEPT ![p] = where]

\* enqueue: a key that is there already stays as it is, done and dead ones too.
Enqueue(k) ==
  /\ job' = [job EXCEPT ![k] =
       IF @ = NoJob THEN [estado |-> "pendiente", intentos |-> 0, due |-> TRUE] ELSE @]
  /\ UNCHANGED <<hands, at, pass, faults, ran, dropped>>

\* backoff: the delay ends.
Due(k) ==
  /\ job[k].estado = "pendiente" /\ ~job[k].due /\ job' = [job EXCEPT ![k].due = TRUE]
  /\ UNCHANGED <<hands, at, pass, faults, ran, dropped>>

Takes(p) == {k \in Handles[p] : job[k].estado = "pendiente" /\ job[k].due}

\* takeBatch: one statement, SKIP LOCKED, so it is one step whoever else polls.
Take(p) ==
  /\ at[p] = "idle"
  /\ \E S \in SUBSET Takes(p) :
       /\ Cardinality(S) = IF Cardinality(Takes(p)) < Batch THEN Cardinality(Takes(p)) ELSE Batch
       /\ S # {}
       /\ job' = [k \in Works |-> IF k \in S
                    THEN [estado |-> "curso", intentos |-> job[k].intentos + 1, due |-> FALSE]
                    ELSE job[k]]
       /\ \/ \E s \in SetToSeqs(S) :
               /\ hands' = [hands EXCEPT ![p] = s] /\ To(p, "run")
               /\ pass' = [pass EXCEPT ![p] = [NoPass EXCEPT !.tomados = Len(s)]]
               /\ UNCHANGED <<faults, dropped>>
          \/ Fault /\ dropped' = dropped \cup S /\ UNCHANGED <<hands, at, pass>>
  /\ UNCHANGED ran

\* The handler of the first job of the batch.
Runs(p, ok) ==
  /\ at[p] = "run"
  /\ ran' = [ran EXCEPT ![Head1(p)] = IF ok THEN @ + 1 ELSE @]
  /\ To(p, IF ok THEN "finish" ELSE "reschedule")
  /\ UNCHANGED <<job, hands, pass, faults, dropped>>

\* The rest of the batch is next; after it the tick sleeps and polls again.
Advance(p, field) ==
  /\ pass' = [pass EXCEPT ![p][field] = @ + 1]
  /\ hands' = [hands EXCEPT ![p] = Tail(@)]
  /\ To(p, IF Len(hands[p]) = 1 THEN "idle" ELSE "run")

Finish(p) ==
  /\ at[p] = "finish"
  /\ job' = [job EXCEPT ![Head1(p)].estado = "hecho"]
  /\ Advance(p, "hechos")
  /\ UNCHANGED <<faults, ran, dropped>>

\* finish is inside the try: when it fails, the job that was done is rescheduled.
FinishFails(p) ==
  /\ at[p] = "finish" /\ Fault /\ To(p, "reschedule")
  /\ \/ job' = [job EXCEPT ![Head1(p)].estado = "hecho"]
     \/ UNCHANGED job
  /\ UNCHANGED <<hands, pass, ran, dropped>>

LastTry(k) == job[k].intentos >= MAX_ATTEMPTS

Rescheduled(k) ==
  IF LastTry(k) THEN [job EXCEPT ![k].estado = "muerto"]
  ELSE [job EXCEPT ![k].estado = "pendiente", ![k].due = FALSE]
Reschedule(p) ==
  /\ at[p] = "reschedule"
  /\ job' = Rescheduled(Head1(p))
  /\ Advance(p, IF LastTry(Head1(p)) THEN "muertos" ELSE "fallos")
  /\ UNCHANGED <<faults, ran, dropped>>

\* reschedule is in the catch: when it fails, runBatch ends in an error, and what it
\* had not run yet is forgotten with it.  The tick only logs that.
RescheduleFails(p) ==
  /\ at[p] = "reschedule" /\ Fault
  /\ \/ job' = Rescheduled(Head1(p))
     \/ UNCHANGED job
  /\ dropped' = dropped \cup ToSet(hands[p])
  /\ hands' = [hands EXCEPT ![p] = <<>>] /\ To(p, "idle") /\ pass' = [pass EXCEPT ![p] = NoPass]
  /\ UNCHANGED ran

\* The process dies; one like it starts.
Dies(p) ==
  /\ hands[p] # <<>> /\ Fault
  /\ dropped' = dropped \cup ToSet(hands[p])
  /\ hands' = [hands EXCEPT ![p] = <<>>] /\ To(p, "idle") /\ pass' = [pass EXCEPT ![p] = NoPass]
  /\ UNCHANGED <<job, ran>>

JobStep(p) ==
  Take(p) \/ (\E ok \in BOOLEAN : Runs(p, ok)) \/ Finish(p) \/ FinishFails(p)
  \/ Reschedule(p) \/ RescheduleFails(p) \/ Dies(p)
JobNext ==
  \/ \E k \in Works : Enqueue(k) \/ Due(k)
  \/ \E p \in Processes : JobStep(p)
JobSpec == JobInit /\ [][JobNext]_jobVars
-----------------------------------------------------------------------------
\* queueState, with what /api/health shows of it.
por == [e \in {"pendiente", "curso", "hecho", "muerto"} |->
          Cardinality({k \in Works : job[k].estado = e})]
huerfanos(p) == {k \in Works \ Handles[p] : job[k].estado = "pendiente"}

HeldBy(k) == {p \in Processes : k \in ToSet(hands[p])}

\* No two processes work on one job; a job in "curso" is in the hands of a process or
\* was dropped by one, and then nobody takes it again; it is given up only after
\* MAX_ATTEMPTS were used, and done only when its handler ran.
TakenOnce ==
  \A k \in Works :
    /\ Cardinality(HeldBy(k)) <= 1
    /\ job[k].estado = "curso" => HeldBy(k) # {} \/ k \in dropped
    /\ job[k].estado = "muerto" => job[k].intentos = MAX_ATTEMPTS
    /\ job[k].estado = "hecho" => ran[k] > 0

\* What nobody dropped comes to an end, if some process has a handler for it.
EveryJobEnds ==
  \A k \in UNION {Handles[p] : p \in Processes} :
    job[k].estado # "none" ~> job[k].estado \in {"hecho", "muerto"} \/ k \in dropped
=============================================================================
