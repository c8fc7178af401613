------------------------------ MODULE OwnTools ------------------------------
(***************************************************************************)
(* What a person is told of their own progress: the agent's tools about the *)
(* streak, the pace, the history and the achievements (api/src/tools/       *)
(* progress.ts) and the state behind the coach of every page (api/src/      *)
(* coach.ts), which reuses their helpers.  Each reads the attempts several  *)
(* times, and the clock once more, while attempts go on in another tab and  *)
(* midnight comes.  Days are those of the course's zone, America/Bogota;    *)
(* from seven in the evening the date in UTC is one ahead of them.          *)
(***************************************************************************)
EXTENDS Integers, FiniteSets, Sequences, FiniteSetsExt, SequencesExt

CONSTANTS Labs,       \* in course order
          LessonOf,   \* lab -> lesson
          Open,       \* lessons open to the person
          LessonGrades, \* LESSON_GRADES: 3 in the code, the labs of a lesson
          WeekDays,   \* 7 in the code
          Shown,      \* weeks that weekly_pace returns: 6 in the code
          Averaged,   \* weeks the mean is of: 4 in the code
          MaxDay, MaxAttempts

LabSet == Range(Labs)
Lessons == {LessonOf[l] : l \in LabSet}
LabsOf(n) == {l \in LabSet : LessonOf[l] = n}

ASSUME OwnAssumption ==
  /\ Labs \in Seq(LabSet) /\ \A i, j \in DOMAIN Labs : Labs[i] = Labs[j] => i = j
  /\ LessonOf \in [LabSet -> Lessons] /\ Open \subseteq Lessons
  /\ \A n \in Lessons : Cardinality(LabsOf(n)) = LessonGrades
  /\ {LessonGrades, WeekDays, Shown, Averaged} \subseteq Nat \ {0} /\ {MaxDay, MaxAttempts} \subseteq Nat

VARIABLES day, evening,  \* the date in the zone, and whether UTC is past midnight
          log,           \* attempts: <<lab, right, day>>
          question       \* the one being answered

ownVars == <<day, evening, log, question>>

NoQuestion == [at |-> "none"]
OwnInit == day = 0 /\ evening = FALSE /\ log = {} /\ question = NoQuestion
-----------------------------------------------------------------------------
\* What the queries return

Solved == {t[1] : t \in {u \in log : u[2]}}

\* The sum of what a function gives.
Tally(f) == Cardinality(UNION {{i} \X (1..f[i]) : i \in DOMAIN f})

\* order by ... desc
Descending(S) ==
  CHOOSE s \in [1..Cardinality(S) -> S] : \A i, j \in 1..Cardinality(S) : i < j => s[i] > s[j]

\* perLesson and completed
PerLesson(solved) == [n \in Lessons |->
  [total |-> Cardinality(LabsOf(n)), solved |-> Cardinality({l \in solved : LessonOf[l] = n})]]
Completed(rows) == Cardinality({n \in Lessons : rows[n].total > 0 /\ rows[n].solved = rows[n].total})

\* progress.active_days, the latest first, and progress.inactivity_gap
ActiveDays == Descending({t[3] : t \in log})
Gap == IF log = {} THEN -1 ELSE day - ActiveDays[1]

\* progress.weekly_pace: the weeks in which something was solved for the first time.
FirstSolved(l) == CHOOSE d \in {t[3] : t \in log} :
                    <<l, TRUE, d>> \in log /\ \A t \in log : t[1] = l /\ t[2] => d <= t[3]
WeeklyPace ==
  LET weekOf == [l \in Solved |-> FirstSolved(l) \div WeekDays]
      weeks == Descending(Range(weekOf))
  IN  [i \in {j \in 1..Shown : j <= Cardinality(Range(weekOf))} |->
         Cardinality({l \in Solved : weekOf[l] = weeks[i]})]

\* progress.history over the last d days, as the instants are
Recent(d) == {t \in log : t[3] > day - d}
-----------------------------------------------------------------------------
\* What is made of them

\* As a bug would have it: the gap between two days may be of more than one.
StreakOfAnyDays(days, today) ==
  [live |-> IF days # <<>> /\ today - days[1] <= 1 THEN Len(days) ELSE 0, best |-> Len(days),
   active |-> Len(days)]

\* computeStreak: one walk for the best run, another for the one that is still alive,
\* which counts from the last day if that is today or yesterday.
RunTo(days) ==
  LET run[i \in DOMAIN days] == IF i > 1 /\ days[i - 1] - days[i] = 1 THEN run[i - 1] + 1 ELSE 1
  IN  run
Lives(days) ==
  LET lives[i \in DOMAIN days] == i = 1 \/ (lives[i - 1] /\ days[i - 1] - days[i] = 1)
  IN  lives
ComputeStreak(days, today) ==
  [live |-> IF days # <<>> /\ today - days[1] <= 1
            THEN Cardinality({i \in DOMAIN days : Lives(days)[i]}) ELSE 0,
   best |-> IF days = <<>> THEN 0 ELSE Max({RunTo(days)[i] : i \in DOMAIN days}),
   active |-> Len(days)]

\* Date.now() in whole days: the date in UTC.
UtcDay == IF evening THEN day + 1 ELSE day

\* mi_ritmo: what is left, and how many weeks that is at the mean of the last ones.
Pace(weeks, done) ==
  LET recent == {i \in DOMAIN weeks : i <= Averaged}
      sum == Tally([i \in recent |-> weeks[i]])
      left == IF done > Len(Labs) THEN 0 ELSE Len(Labs) - done
  IN  [done |-> done, left |-> left, weeks |-> weeks,
       estimate |-> IF sum = 0 THEN -1 ELSE (left * Cardinality(recent) + sum - 1) \div sum]

\* logros_faltantes: every grade above what is solved of its lesson, and every rank
\* above the lessons completed, each with how many are missing.
Missing(rows) ==
  {[code |-> <<"leccion", c[1], c[2]>>, lacks |-> c[2] - rows[c[1]].solved] :
     c \in {d \in Lessons \X (1..LessonGrades) : rows[d[1]].solved < d[2]}}
  \cup {[code |-> <<"rango", k>>, lacks |-> k - Completed(rows)] :
          k \in (Completed(rows) + 1)..Cardinality(Lessons)}
\* mis_logros
Rank(rows) == Completed(rows)

\* nextStep: the first unsolved lab that is open, a lesson to buy, or nothing left.
NextStep(open) ==
  LET queue == {i \in DOMAIN Labs : Labs[i] \notin Solved}
      free == {i \in queue : LessonOf[Labs[i]] \in open}
  IN  IF free # {} THEN <<"lab", Labs[Min(free)]>>
      ELSE IF queue # {} THEN <<"locked", LessonOf[Labs[Min(queue)]]>> ELSE <<"complete">>
-----------------------------------------------------------------------------
\* The questions

Reading(tool) ==
  CASE tool = "streak" -> {"days"} [] tool = "pace" -> {"weeks"}
    [] tool = "achievements" -> {"rows"} [] tool = "history" -> {"history"}
    [] tool = "coach" -> {"rows", "days", "gap"}

Posed(tool) ==
  /\ question.at \in {"none", "said"}
  /\ question' = [at |-> "reads", tool |-> tool, began |-> Solved, crossed |-> FALSE,
                  todo |-> Reading(tool),
                  days |-> <<>>, weeks |-> <<>>, rows |-> <<>>, gap |-> -1, history |-> {}]
  /\ UNCHANGED <<day, evening, log>>

\* The reads of one Promise.all come in any order.
Reads(what) ==
  /\ question.at = "reads" /\ what \in question.todo
  /\ question' = [question EXCEPT
       !.todo = @ \ {what},
       !.at = IF question.todo = {what} THEN "compute" ELSE "reads",
       !.days = IF what = "days" THEN ActiveDays ELSE @,
       !.weeks = IF what = "weeks" THEN WeeklyPace ELSE @,
       !.rows = IF what = "rows" THEN PerLesson(Solved) ELSE @,
       !.gap = IF what = "gap" THEN Gap ELSE @,
       !.history = IF what = "history" THEN Recent(WeekDays) ELSE @]
  /\ UNCHANGED <<day, evening, log>>

\* The tool goes on with what it has; the coach and the pace read once more.
Computes(tool) == question.at = "compute" /\ question.tool = tool
Tells(answer) ==
  /\ question' = [at |-> "said", tool |-> question.tool, began |-> question.began,
                  crossed |-> question.crossed, day |-> day, evening |-> evening,
                  answer |-> answer]
  /\ UNCHANGED <<day, evening, log>>

SaysStreak ==
  /\ Computes("streak")
  /\ Tells([days |-> question.days, streak |-> ComputeStreak(question.days, UtcDay)])
SaysPace == Computes("pace") /\ Tells(Pace(question.weeks, Cardinality(Solved)))
SaysAchievements ==
  /\ Computes("achievements")
  /\ Tells([rows |-> question.rows, missing |-> Missing(question.rows),
            rank |-> Rank(question.rows)])
SaysHistory ==
  /\ Computes("history")
  /\ Tells([tries |-> Cardinality(question.history),
            right |-> Cardinality({t \in question.history : t[2]})])
SaysCoach ==
  /\ Computes("coach")
  /\ Tells([days |-> question.days, streak |-> ComputeStreak(question.days, UtcDay),
            gap |-> question.gap, solved |-> Tally([n \in Lessons |-> question.rows[n].solved]),
            closed |-> Completed(question.rows), next |-> NextStep(Open)])
-----------------------------------------------------------------------------
\* Meanwhile

Crossed == question' = IF question.at \in {"reads", "compute"}
                       THEN [question EXCEPT !.crossed = TRUE] ELSE question

TriesLab(l, right) ==
  /\ LessonOf[l] \in Open /\ Cardinality(log) < MaxAttempts
  /\ log' = log \cup {<<l, right, day>>} /\ Crossed
  /\ UNCHANGED <<day, evening>>
Clock ==
  /\ IF evening THEN day < MaxDay /\ day' = day + 1 /\ evening' = FALSE
                ELSE evening' = TRUE /\ UNCHANGED day
  /\ Crossed /\ UNCHANGED log

Tools == {"streak", "pace", "achievements", "history", "coach"}
OwnNext ==
  \/ \E tool \in Tools : Posed(tool)
  \/ \E what \in {"rows", "days", "gap", "weeks", "history"} : Reads(what)
  \/ SaysStreak \/ SaysPace \/ SaysAchievements \/ SaysHistory \/ SaysCoach
  \/ \E l \in LabSet, right \in BOOLEAN : TriesLab(l, right)
  \/ Clock

OwnSpec == OwnInit /\ [][OwnNext]_ownVars
-----------------------------------------------------------------------------
Replied(tool) == question.at = "said" /\ question.tool = tool

\* The runs of consecutive days, and the one that reaches today or yesterday.
Stretches(days) == {r \in SUBSET Range(days) : r # {} /\ \A d \in Min(r)..Max(r) : d \in r}
Longest(rs) == IF rs = {} THEN 0 ELSE Max({Cardinality(r) : r \in rs})
Reaching(days, today) == {r \in Stretches(days) : Max(r) = days[1] /\ Max(r) >= today - 1}

\* The best streak is the longest run of days, and the live one the run that reaches
\* today or yesterday in the zone (coach.ts: "0 means it has already broken"), except
\* after seven in the evening, when the days are of the zone and today is of UTC: a
\* streak that reaches yesterday is then said to be broken while it can still be kept.
StreakIsTheRun ==
  Replied("streak") \/ Replied("coach") =>
    LET a == question.answer  whole == Longest(Reaching(a.days, question.day))
    IN  /\ a.streak.best = Longest(Stretches(a.days)) /\ a.streak.active = Len(a.days)
        /\ a.streak.live = IF question.evening /\ a.days # <<>> /\ a.days[1] < question.day
                           THEN 0 ELSE whole

\* What a missing achievement is said to lack is the least that would earn it, and what
\* is not missing has been earned.
Earns(rows, code) ==
  IF code[1] = "rango" THEN Completed(rows) >= code[2] ELSE rows[code[2]].solved >= code[3]
Solving(rows, more) ==
  [n \in Lessons |-> [total |-> rows[n].total, solved |-> rows[n].solved + more[n]]]
Ways(rows, code) ==
  {m \in [Lessons -> 0..LessonGrades] :
     (\A n \in Lessons : m[n] <= rows[n].total - rows[n].solved) /\ Earns(Solving(rows, m), code)}
Cost(code, m) == IF code[1] = "rango" THEN Cardinality({n \in Lessons : m[n] # 0}) ELSE Tally(m)
LeastCost(rows, code) == Min({Cost(code, m) : m \in Ways(rows, code)})
Codes == {<<"leccion", c[1], c[2]>> : c \in Lessons \X (1..LessonGrades)}
         \cup {<<"rango", k>> : k \in 1..Cardinality(Lessons)}
MissingIsTheRest ==
  Replied("achievements") =>
    \A code \in Codes :
      IF Earns(question.answer.rows, code)
      THEN \A m \in question.answer.missing : m.code # code
      ELSE [code |-> code, lacks |-> LeastCost(question.answer.rows, code)] \in question.answer.missing

\* Nothing solved before the question is said to be missing or proposed again; and of
\* an answer that no attempt and no midnight crossed, every part says the same.
CoachIsCoherent ==
  /\ Replied("pace") => /\ question.answer.done >= Cardinality(question.began)
                     /\ Tally(question.answer.weeks) <= question.answer.done
  /\ Replied("coach") =>
       LET a == question.answer
       IN  /\ a.solved >= Cardinality(question.began)
           /\ a.next[1] = "lab" => a.next[2] \notin question.began
           /\ ~question.crossed =>
                /\ a.gap = -1 <=> a.days = <<>>
                /\ ~question.evening => (a.streak.live > 0 <=> a.gap \in {0, 1})
                /\ a.next[1] = "complete" <=> a.solved = Len(Labs)
                /\ a.closed = Cardinality(Lessons) <=> a.next[1] = "complete"

\* What a person is told of their streak, their pace and what they lack is so.
OwnToolsTell == StreakIsTheRun /\ MissingIsTheRest /\ CoachIsCoherent
=============================================================================
