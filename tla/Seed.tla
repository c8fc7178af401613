-------------------------------- MODULE Seed --------------------------------
(***************************************************************************)
(* The seeding of the course (api/src/seed.ts, run by the init container    *)
(* and by every `pnpm dev`): wait for the database, verify the schema that  *)
(* another command applies (api/src/db.ts), then write lessons, labs,       *)
(* texts, the accounts that were asked for and the questions, row by row    *)
(* and in no transaction, over what an earlier release or a run that was    *)
(* cut had left.                                                            *)
(***************************************************************************)
EXTENDS Integers, FiniteSets, Sequences, FiniteSetsExt, SequencesExt

CONSTANTS Procs,      \* runs of the seed
          Releases,   \* of the course, each with its contents
          Script,     \* release -> its rows, in the order they are written
          DraftsOf,   \* release -> labs that are not written yet
          Shuffles,   \* seeds that are tried for an order: 24 for labs, 16 for questions
          Tries,      \* of the wait for the database: 40 in the code
          MaxRuns, MaxFaults

Rows == UNION {Range(Script[r]) : r \in Releases}
Kind(row) == row[1]
\* The steps, or the options, as they were authored: the first is the answer.
Authored == <<"first", "second">>
Orders == {<<"first", "second">>, <<"second", "first">>}

\* Every release has something to write; what may be a draft is a lab.
ASSUME SeedAssumption ==
  /\ Releases \subseteq Nat \ {0}
  /\ \A r \in Releases :
       /\ Script[r] \in Seq({"lesson", "lab", "order", "text", "user", "question"} \X Nat) \ {<<>>}
       /\ \A row \in DraftsOf[r] : Kind(row) \in {"lab", "order"}
  /\ {Shuffles, Tries} \subseteq Nat \ {0} /\ {MaxRuns, MaxFaults} \subseteq Nat

VARIABLES production, \* NODE_ENV
          dice,      \* what each seed of the generator makes of a list
          schema,    \* none, without its CHECKs, or whole
          up,        \* whether the database answers
          table,     \* row -> contents, or None
          account,   \* the row of a demo email: none, a person's, or the seed's
          proc,      \* the runs
          whole,     \* history: the release that was last written, whole and alone
          begun, faults

seedVars == <<production, dice, schema, up, table, account, proc, whole, begun, faults>>

None == [of |-> 0, draft |-> FALSE, order |-> <<>>]
NotRun == [at |-> "none"]

SeedInit ==
  /\ production \in BOOLEAN /\ dice \in [0..(Shuffles - 1) -> Orders]
  /\ schema = "none" /\ up \in BOOLEAN /\ table = [row \in Rows |-> None] /\ account = "none"
  /\ proc = [p \in Procs |-> NotRun] /\ whole = 0 /\ begun = 0 /\ faults = 0
-----------------------------------------------------------------------------
\* What is written

\* The first shuffle that is not refused; if all are, the authored list rotated.
FirstOf(orders) ==
  LET good == {k \in DOMAIN dice : dice[k] \in orders}
  IN  IF good = {} THEN Append(Tail(Authored), Head(Authored)) ELSE dice[Min(good)]

\* Mutant: the first shuffle, whatever it is.
FirstShuffle(row) == IF Kind(row) \in {"order", "question"} THEN dice[0] ELSE <<>>

\* storedPayload refuses the solution; storedOptions an answer that comes first.
Stored(row) ==
  CASE Kind(row) = "order" -> FirstOf(Orders \ {Authored})
    [] Kind(row) = "question" -> FirstOf({xs \in Orders : xs[1] # Authored[1]})
    [] OTHER -> <<>>

\* A lab that is not written is stored as a draft, without a payload.
Contents(r, row) ==
  IF row \in DraftsOf[r] THEN [of |-> r, draft |-> TRUE, order |-> <<>>]
  ELSE [of |-> r, draft |-> FALSE, order |-> Stored(row)]
-----------------------------------------------------------------------------
\* The run

To(p, k) == proc' = [proc EXCEPT ![p] = k]
Active(p) == proc[p].at \in {"ready", "migrate", "writes"}

\* SEED_ROOT_USER is refused before anything is opened; the demo accounts only after the
\* labs and their texts have been written.
Starts(p, r, asks) ==
  /\ proc[p].at \in {"none", "done", "failed"} /\ begun < MaxRuns /\ begun' = begun + 1
  /\ To(p, IF asks = "root" /\ production THEN [at |-> "failed", of |-> r]
           ELSE [at |-> "ready", of |-> r, asks |-> asks, next |-> 1, tries |-> Tries, alone |-> \A q \in Procs \ {p} : ~Active(q)])
  /\ UNCHANGED <<production, dice, schema, up, table, account, whole, faults>>

Fail(p) == To(p, [at |-> "failed", of |-> proc[p].of])

\* ready: SELECT 1, every half second.
Ready(p) ==
  /\ proc[p].at = "ready"
  /\ IF up THEN To(p, [proc[p] EXCEPT !.at = "migrate"])
     ELSE IF proc[p].tries = 1 THEN Fail(p) ELSE To(p, [proc[p] EXCEPT !.tries = @ - 1])
  /\ UNCHANGED <<production, dice, schema, up, table, account, whole, begun, faults>>

\* migrate: it verifies, and creates nothing.
Migrate(p) ==
  /\ proc[p].at = "migrate"
  /\ IF up /\ schema = "whole" THEN To(p, [proc[p] EXCEPT !.at = "writes"]) ELSE Fail(p)
  /\ UNCHANGED <<production, dice, schema, up, table, account, whole, begun, faults>>

\* Others that are under way are no longer alone.
Disturbing(p, k) ==
  [q \in Procs |-> IF q = p THEN k ELSE IF Active(q) THEN [proc[q] EXCEPT !.alone = FALSE] ELSE proc[q]]
Advance(k) == IF k.next = Len(Script[k.of]) THEN [at |-> "done", of |-> k.of] ELSE [k EXCEPT !.next = @ + 1]

\* One upsert.
Writes(p) ==
  LET k == proc[p]  row == Script[k.of][k.next]
  IN  /\ k.at = "writes" /\ up /\ Kind(row) # "user"
      /\ table' = [table EXCEPT ![row] = Contents(k.of, row)]
      /\ proc' = Disturbing(p, Advance(k))
      /\ whole' = IF Advance(k).at = "done" /\ k.alone THEN k.of ELSE 0
      /\ UNCHANGED <<production, dice, schema, up, account, begun, faults>>

\* The accounts: none, those that were asked for, or the end of the run.  A row with the
\* email is made the seed's.
WritesUsers(p) ==
  LET k == proc[p]
  IN  /\ k.at = "writes" /\ up /\ Kind(Script[k.of][k.next]) = "user"
      /\ IF k.asks = "demo" /\ production
         THEN Fail(p) /\ UNCHANGED account
         ELSE /\ proc' = Disturbing(p, Advance(k))
              /\ account' = IF k.asks = "no" THEN account ELSE "seed"
      /\ UNCHANGED <<production, dice, schema, up, table, whole, begun, faults>>

\* A query fails, the container is stopped: the run ends where it was, and what it had
\* written stays.
Breaks(p) ==
  /\ proc[p].at \in {"migrate", "writes"} /\ (up => faults < MaxFaults)
  /\ faults' = IF up THEN faults + 1 ELSE faults
  /\ Fail(p) /\ UNCHANGED <<production, dice, schema, up, table, account, whole, begun>>
-----------------------------------------------------------------------------
\* Meanwhile

\* prisma migrate deploy; a migration that Prisma generates drops the CHECKs.
Deploys(to) ==
  /\ schema # to /\ (to = "unchecked" => schema = "none" /\ faults < MaxFaults)
  /\ schema' = to /\ faults' = IF to = "unchecked" THEN faults + 1 ELSE faults
  /\ UNCHANGED <<production, dice, up, table, account, proc, whole, begun>>
Database ==
  /\ IF up THEN faults < MaxFaults /\ faults' = faults + 1 ELSE UNCHANGED faults
  /\ up' = ~up /\ UNCHANGED <<production, dice, schema, table, account, proc, whole, begun>>
Registers ==
  /\ up /\ schema # "none" /\ account = "none" /\ account' = "person"
  /\ UNCHANGED <<production, dice, schema, up, table, proc, whole, begun, faults>>

SeedNext ==
  \/ \E p \in Procs :
       \/ \E r \in Releases, asks \in {"no", "demo", "root"} : Starts(p, r, asks)
       \/ Ready(p) \/ Migrate(p) \/ Writes(p) \/ WritesUsers(p) \/ Breaks(p)
  \/ \E to \in {"whole", "unchecked"} : Deploys(to)
  \/ Database \/ Registers

SeedSpec == SeedInit /\ [][SeedNext]_seedVars
-----------------------------------------------------------------------------
\* A run that ended well, and that no other one overlapped, leaves its release whole,
\* over whatever runs that were cut, refused or of another release had left; and until
\* another run writes, that is what people see.  (seed.ts:1 "idempotent on purpose".)
WholeRelease ==
  whole # 0 => \A row \in Range(Script[whole]) : Kind(row) # "user" => table[row] = Contents(whole, row)

\* No stored list gives the answer away, whatever the generator makes of it, and a row
\* of one release is always stored alike ("a reboot does not reshuffle every payload").
NothingGivenAway ==
  \A row \in Rows : table[row] # None =>
    /\ table[row] = Contents(table[row].of, row)
    /\ Kind(row) = "order" /\ ~table[row].draft => table[row].order # Authored
    /\ Kind(row) = "question" => table[row].order[1] # Authored[1]

\* A seed that ended alone left its release whole, and none ever gives an answer away.
SeedStands == WholeRelease /\ NothingGivenAway
=============================================================================
