------------------------------- MODULE Course -------------------------------
(***************************************************************************)
(* The course as the api serves it (api/src/server.ts): labs and questions *)
(* answered by people whose access comes and goes, their grading, the       *)
(* achievements recomputed after a correct answer, the score of a pack.     *)
(* Every call to the data service is a step of its own; requests overlap,   *)
(* two windows of one person among them.                                    *)
(***************************************************************************)
EXTENDS Integers, FiniteSets, Sequences, SequencesExt, TLC

CONSTANTS Users, Slots,
          Staff,       \* those whose role is not student
          Item,        \* labs and questions: kind, lesson, pack and solution of each
          Answers,     \* what a browser may send
          Drafts,      \* labs that are seeded but not written yet
          QuizOf,      \* lesson -> the pack of its quiz: qNN
          Exams,       \* exam pack -> [from, to], the lessons it covers
          FreeLessons, \* FREE_LESSONS
          MaxRank,     \* MAX_RANK
          MaxRequests, MaxFaults

Items == DOMAIN Item
Labs == {i \in Items : Item[i].pack = "lab"}
Questions == Items \ Labs
Lessons == {Item[i].lesson : i \in Labs}

ASSUME CourseAssumption ==
  /\ FreeLessons \in Nat /\ MaxRank \in Nat /\ MaxRequests \in Nat /\ MaxFaults \in Nat
  /\ Drafts \subseteq Labs /\ Staff \subseteq Users
  /\ IsFiniteSet(Items) /\ IsFiniteSet(DOMAIN Exams) /\ "lab" \notin DOMAIN Exams /\ "none" \notin Items
  /\ \A i \in Items : /\ Item[i].kind \in {"choice", "order", "cut", "build", "knob", "hotcold"}
                       /\ Item[i].lesson \in Nat
  \* A quiz asks about its own lesson, an exam about none after those it covers.
  /\ \A q \in Questions : IF Item[q].pack \in DOMAIN Exams
                           THEN Item[q].lesson <= Exams[Item[q].pack].to
                           ELSE \A n \in Lessons : QuizOf[n] = Item[q].pack => Item[q].lesson = n
  /\ \A n \in Lessons : QuizOf[n] \notin DOMAIN Exams
  /\ \A p \in DOMAIN Exams : Exams[p].to \in Nat

VARIABLES paid,      \* users.paid
          solved,    \* what each person has answered well: MAX(correct) of their attempts
          tried,     \* what each person has attempted
          earned,    \* the achievements table
          req,       \* the request in each slot
          told,      \* history: what was shown or explained, as <<person, item>>
          everPaid,  \* history: who has had access at some time
          missed,    \* history: whose recomputation was cut short and not yet made again
          begun, faults

courseVars == <<paid, solved, tried, earned, req, told, everPaid, missed, begun, faults>>

Free == [at |-> "none"]
\* A request: what it is about, and what it has read so far.
NewReq(u, i) == [at |-> "none", u |-> u, item |-> i, correct |-> FALSE, hint |-> "none", owed |-> {},
                 todo |-> {}, heals |-> FALSE, page |-> {}, shown |-> {}, began |-> {}]

CourseInit ==
  /\ paid = [u \in Users |-> FALSE]
  /\ solved = [u \in Users |-> {}] /\ tried = [u \in Users |-> {}]
  /\ earned = [u \in Users |-> {}]
  /\ req = [s \in Slots |-> Free]
  /\ told = {} /\ everPaid = {} /\ missed = {}
  /\ begun = 0 /\ faults = 0

-----------------------------------------------------------------------------
(* Grading.                                                                 *)

\* norm: a bag of pieces, whatever the order they were sent in.
Norm(xs) == [x \in ToSet(xs) |-> Cardinality({k \in DOMAIN xs : xs[k] = x})]

\* grade, by mechanic.  An answer of another shape is wrong, never an error.
Grade(i, a) ==
  LET sol == Item[i].solution
  IN CASE Item[i].kind = "choice" -> a.is = "text" /\ a.of = sol.of
       [] Item[i].kind = "order" -> a.is = "list" /\ a.of = sol.of
       [] Item[i].kind = "cut" -> a.is = "list" /\ Norm(a.of) = Norm(sol.of)
       [] Item[i].kind = "build" ->
            a.is = "list" /\ \A k \in DOMAIN sol.of : k \in DOMAIN a.of /\ a.of[k] # ""
       [] Item[i].kind = "knob" -> a.is = "number" /\ a.of >= sol.min /\ a.of <= sol.max
       [] Item[i].kind = "hotcold" -> a.is = "number" /\ a.of = sol.of

\* hint: how far, for the mechanic that says so.
Hint(i, a) ==
  IF Item[i].kind # "hotcold" THEN "none"
  ELSE IF a.is # "number" THEN "cold"
  ELSE LET d == a.of - Item[i].solution.of
           err == IF d < 0 THEN -d ELSE d
       IN IF err = 0 THEN "exact" ELSE IF err <= 5 THEN "hot" ELSE IF err <= 20 THEN "warm" ELSE "cold"

-----------------------------------------------------------------------------
(* Achievements and scores.                                                 *)

LabsOf == [n \in Lessons |-> {i \in Labs : Item[i].lesson = n}]

\* achievement.progress_by_lesson
PerLesson(best) == [n \in Lessons |-> [total |-> Cardinality(LabsOf[n]),
                                       solved |-> Cardinality(best \cap LabsOf[n])]]

\* achievementsFor: three grades a lesson, and a rank for each lesson completed.
Completed(p) == Cardinality({n \in Lessons : p[n].total > 0 /\ p[n].solved = p[n].total})
Grades(p) == UNION {{<<"leccion", n, g>> : g \in 1..(IF p[n].solved < 3 THEN p[n].solved ELSE 3)} : n \in Lessons}
Ranks(p) == {<<"rango", k>> : k \in 1..(IF Completed(p) < MaxRank THEN Completed(p) ELSE MaxRank)}
AchievementsFor(p) == Grades(p) \cup Ranks(p)

\* rankLevel
RankLevel(codes) ==
  LET ranks == {c[2] : c \in {d \in codes : d[1] = "rango"}}
  IN IF ranks = {} THEN 0 ELSE CHOOSE k \in ranks : \A j \in ranks : j <= k

Quizzes == {Item[q].pack : q \in Questions} \ DOMAIN Exams
Pack(p) == {q \in Questions : Item[q].pack = p}
\* passMark, rounded up from PASS_RATIO; packScore over the questions of the pack
PassMark(total) == (7 * total + 9) \div 10
PackScore(best, p) == [correct |-> Cardinality(best \cap Pack(p)), total |-> Cardinality(Pack(p)),
                       passed |-> Cardinality(best \cap Pack(p)) >= PassMark(Cardinality(Pack(p)))]

\* GET /api/lessons
LessonView(u, n) == [locked |-> ~(paid[u] \/ u \in Staff \/ n <= FreeLessons)] @@ PerLesson(solved[u])[n]

\* GET /api/exams, and its page
ExamView(u, p) == LET score == PackScore(solved[u], p)
                  IN [locked |-> ~(paid[u] \/ u \in Staff \/ Exams[p].to <= FreeLessons),
                      correct |-> score.correct, total |-> score.total, passed |-> score.passed]

\* GET /api/progress: an exam is passed at the mark, a quiz is done when all of it is.
ProgressView(u) ==
  [labs |-> Cardinality(solved[u] \cap Labs),
   lessons |-> Cardinality({n \in Lessons : LabsOf[n] \subseteq solved[u]}),
   quizzes |-> Cardinality({p \in Quizzes : Pack(p) \subseteq solved[u]}),
   exams |-> Cardinality({p \in DOMAIN Exams : ExamView(u, p).passed})]

-----------------------------------------------------------------------------
(* POST /api/labs/:id/attempt and POST /api/questions/:id/attempt.          *)

\* examGate: an exam opens with the last lesson it covers.
GateLesson(i) == IF Item[i].pack \in DOMAIN Exams THEN Exams[Item[i].pack].to ELSE Item[i].lesson

\* Mutant: a question of an exam is gated by the lesson it is about.
OpenByLesson(u, i) == paid[u] \/ u \in Staff \/ Item[i].lesson <= FreeLessons

HasAccess(u, i) == paid[u] \/ u \in Staff \/ GateLesson(i) <= FreeLessons

\* requireUser, the card, the padlock and the answer's presence, then the grading:
\* what refuses the request changes nothing.
Attempts(s, u, i, a) ==
  /\ req[s] = Free /\ begun < MaxRequests /\ HasAccess(u, i)
  /\ begun' = begun + 1
  /\ req' = [req EXCEPT ![s] = [NewReq(u, i) EXCEPT !.at = "record", !.correct = Grade(i, a),
                                                     !.hint = Hint(i, a)]]
  /\ UNCHANGED <<paid, solved, tried, earned, told, everPaid, missed, faults>>
Begins(s, u, i, a) == i \in Labs \ Drafts /\ Attempts(s, u, i, a)
\* A blank answer to a question is refused too.
BeginsQuestion(s, u, i, a) == i \in Questions /\ ~(a.is = "text" /\ a.of = "") /\ Attempts(s, u, i, a)

Moves(s, r) == req' = [req EXCEPT ![s] = r]

\* Only a correct lab can unlock anything; the answer to a question is explained and the
\* score of its pack read.
After(r) == IF r.item \in Questions THEN "score" ELSE IF r.correct THEN "progress" ELSE "reply"

\* Mutant: the best attempt is the last one.
RecordsLast(s) ==
  /\ req[s].at = "record"
  /\ LET r == req[s]
     IN /\ tried' = [tried EXCEPT ![r.u] = @ \cup {r.item}]
        /\ solved' = [solved EXCEPT ![r.u] = IF r.correct THEN @ \cup {r.item} ELSE @ \ {r.item}]
        /\ Moves(s, [r EXCEPT !.at = After(r)])
  /\ UNCHANGED <<paid, earned, told, everPaid, missed, begun, faults>>

\* attempt.record, qattempt.record
Records(s) ==
  /\ req[s].at = "record"
  /\ LET r == req[s]
     IN /\ tried' = [tried EXCEPT ![r.u] = @ \cup {r.item}]
        /\ solved' = [solved EXCEPT ![r.u] = IF r.correct THEN @ \cup {r.item} ELSE @]
        /\ Moves(s, [r EXCEPT !.at = After(r)])
  /\ UNCHANGED <<paid, earned, told, everPaid, missed, begun, faults>>

\* The reply to a question: its explanation, which is only read now, and the questions of
\* the pack that are solved, those of another window too.
ReadsScore(s) ==
  /\ req[s].at = "score"
  /\ Moves(s, [req[s] EXCEPT !.at = "reply", !.shown = solved[req[s].u] \cap Pack(Item[req[s].item].pack)])
  /\ UNCHANGED <<paid, solved, tried, earned, told, everPaid, missed, begun, faults>>

\* What is solved of the labs and of the questions of a page: publicLab, publicQuestion.
PublicLabs(u, page) == page \cap solved[u] \cap Labs
PublicQuestions(u, page) == page \cap solved[u] \cap Questions

Shows(s, u, at, page) ==
  /\ req[s] = Free /\ begun < MaxRequests /\ begun' = begun + 1
  /\ Moves(s, [NewReq(u, "none") EXCEPT !.at = at, !.page = page, !.began = solved[u] \cap page])
  /\ UNCHANGED <<paid, solved, tried, earned, told, everPaid, missed, faults>>

\* GET /api/lessons/:n and /api/exams/:n: the card and the padlock, then the contents.
OpensLesson(s, u, n) ==
  (paid[u] \/ u \in Staff \/ n <= FreeLessons) /\ Shows(s, u, "labs", LabsOf[n] \cup Pack(QuizOf[n]))
OpensExam(s, u, p) ==
  (paid[u] \/ u \in Staff \/ Exams[p].to <= FreeLessons) /\ Shows(s, u, "questions", Pack(p))

\* The labs and what was solved of them are read first, then the texts, then the questions.
ShowsLabs(s) ==
  /\ req[s].at = "labs"
  /\ Moves(s, [req[s] EXCEPT !.at = "questions", !.shown = PublicLabs(req[s].u, req[s].page)])
  /\ UNCHANGED <<paid, solved, tried, earned, told, everPaid, missed, begun, faults>>
ShowsQuestions(s) ==
  /\ req[s].at = "questions"
  /\ Moves(s, [req[s] EXCEPT !.at = "page", !.shown = @ \cup PublicQuestions(req[s].u, req[s].page)])
  /\ UNCHANGED <<paid, solved, tried, earned, told, everPaid, missed, begun, faults>>
SendsPage(s) ==
  /\ req[s].at = "page"
  /\ told' = told \cup {<<req[s].u, i>> : i \in req[s].page}
  /\ Moves(s, Free)
  /\ UNCHANGED <<paid, solved, tried, earned, everPaid, missed, begun, faults>>

\* GET /api/logros recomputes too.
Visits(s, u) ==
  /\ req[s] = Free /\ begun < MaxRequests
  /\ begun' = begun + 1
  /\ Moves(s, [NewReq(u, "none") EXCEPT !.at = "progress"])
  /\ UNCHANGED <<paid, solved, tried, earned, told, everPaid, missed, faults>>

\* Mutant: the progress is read beside the record of the answer, not after it.
ReadsProgressBeside(s) ==
  /\ req[s].at = "progress"
  /\ Moves(s, [req[s] EXCEPT !.at = "codes", !.heals = TRUE,
                 !.owed = AchievementsFor(PerLesson(solved[req[s].u] \ {req[s].item}))])
  /\ UNCHANGED <<paid, solved, tried, earned, told, everPaid, missed, begun, faults>>

\* syncAchievements: what they are owed, what they have, and the rest one by one.
ReadsProgress(s) ==
  /\ req[s].at = "progress"
  /\ Moves(s, [req[s] EXCEPT !.at = "codes", !.heals = TRUE,
                              !.owed = AchievementsFor(PerLesson(solved[req[s].u]))])
  /\ UNCHANGED <<paid, solved, tried, earned, told, everPaid, missed, begun, faults>>

ReadsCodes(s) ==
  /\ req[s].at = "codes"
  /\ LET new == req[s].owed \ earned[req[s].u]
     IN Moves(s, [req[s] EXCEPT !.at = IF new = {} THEN "reply" ELSE "write",
                                !.todo = new])
  /\ UNCHANGED <<paid, solved, tried, earned, told, everPaid, missed, begun, faults>>

WritesCode(s) ==
  /\ req[s].at = "write"
  /\ LET r == req[s]
         c == CHOOSE c \in r.todo : TRUE
     IN /\ earned' = [earned EXCEPT ![r.u] = @ \cup {c}]
        /\ Moves(s, [r EXCEPT !.todo = @ \ {c}, !.at = IF r.todo = {c} THEN "reply" ELSE "write"])
  /\ UNCHANGED <<paid, solved, tried, told, everPaid, missed, begun, faults>>

\* The answer leaves, with the explanation.
Replies(s) ==
  /\ req[s].at = "reply"
  /\ told' = IF req[s].item = "none" THEN told ELSE told \cup {<<req[s].u, req[s].item>>}
  /\ missed' = IF req[s].heals THEN missed \ {req[s].u} ELSE missed
  /\ Moves(s, Free)
  /\ UNCHANGED <<paid, solved, tried, earned, everPaid, begun, faults>>

\* A call to the data service fails, after it ran or before: the request ends in an error.
Fails(s) ==
  /\ req[s].at \in {"record", "progress", "codes", "write"} /\ faults < MaxFaults
  /\ faults' = faults + 1
  /\ \/ UNCHANGED <<solved, tried, earned>>
     \/ /\ req[s].at = "record"
        /\ tried' = [tried EXCEPT ![req[s].u] = @ \cup {req[s].item}]
        /\ solved' = [solved EXCEPT ![req[s].u] = IF req[s].correct THEN @ \cup {req[s].item} ELSE @]
        /\ UNCHANGED earned
  /\ missed' = missed \cup {req[s].u}
  /\ req' = [t \in Slots |-> IF t = s THEN Free
                           ELSE IF req[t] # Free /\ req[t].u = req[s].u
                           THEN [req[t] EXCEPT !.heals = FALSE] ELSE req[t]]
  /\ UNCHANGED <<paid, told, everPaid, begun>>

ReadFails(s) ==
  /\ req[s].at \in {"score", "labs", "questions"} /\ faults < MaxFaults
  /\ faults' = faults + 1 /\ Moves(s, Free)
  /\ UNCHANGED <<paid, solved, tried, earned, told, everPaid, missed, begun>>

\* A purchase, a lapse, a refund.
Access(u) ==
  /\ paid' = [paid EXCEPT ![u] = ~@]
  /\ everPaid' = everPaid \cup {u}
  /\ UNCHANGED <<solved, tried, earned, req, told, missed, begun, faults>>

CourseNext ==
  \/ \E s \in Slots :
       \/ \E u \in Users :
            \/ Visits(s, u)
            \/ \E i \in Items, a \in Answers : Begins(s, u, i, a) \/ BeginsQuestion(s, u, i, a)
            \/ \E n \in Lessons : OpensLesson(s, u, n)
            \/ \E p \in DOMAIN Exams : OpensExam(s, u, p)
       \/ Records(s) \/ ReadsProgress(s) \/ ReadsCodes(s) \/ WritesCode(s) \/ Replies(s) \/ Fails(s)
       \/ ReadsScore(s) \/ ShowsLabs(s) \/ ShowsQuestions(s) \/ SendsPage(s) \/ ReadFails(s)
  \/ \E u \in Users : Access(u)

CourseSpec == CourseInit /\ [][CourseNext]_courseVars

-----------------------------------------------------------------------------
Codes == {<<"leccion", n, g>> : n \in Lessons, g \in 1..3} \cup {<<"rango", k>> : k \in 1..MaxRank}

\* What the tables and the requests hold.
CourseTypeOK ==
  /\ paid \in [Users -> BOOLEAN]
  /\ \A u \in Users : solved[u] \subseteq tried[u] /\ tried[u] \subseteq Items \ Drafts /\ earned[u] \subseteq Codes
  /\ \A s \in Slots : req[s] # Free =>
       /\ req[s].at \in {"record", "progress", "codes", "write", "reply", "score", "labs", "questions", "page"}
       /\ req[s].u \in Users
       /\ req[s].item \in Items \cup {"none"} /\ req[s].correct \in BOOLEAN
       /\ req[s].hint \in {"none", "exact", "hot", "warm", "cold"}
       /\ req[s].owed \subseteq Codes /\ req[s].todo \subseteq req[s].owed /\ req[s].page \subseteq Items /\ req[s].heals \in BOOLEAN
  /\ told \subseteq Users \X Items /\ everPaid \subseteq Users /\ missed \subseteq Users
  /\ begun \in 0..MaxRequests /\ faults \in 0..MaxFaults

\* Nobody has an achievement they do not deserve; once the requests of a person
\* are over they have all they deserve, however two of them overlapped, unless the
\* recomputation was cut short and none has been made since.
AchievementsFollow ==
  \A u \in Users :
    LET owed == AchievementsFor(PerLesson(solved[u]))
    IN /\ earned[u] \subseteq owed
       /\ u \notin missed /\ (\A s \in Slots : req[s] = Free \/ req[s].u # u) => earned[u] = owed

\* What a page or a reply says is solved, is; a page leaves out nothing that was solved
\* before it was asked for, though its parts are read at different times; and the score
\* that comes with a right answer counts it.
ShownIsSolved ==
  \A s \in Slots :
    /\ req[s] # Free => req[s].shown \subseteq solved[req[s].u]
    /\ req[s] # Free /\ req[s].at = "page" => req[s].began \subseteq req[s].shown
    /\ req[s] # Free /\ req[s].at = "reply" /\ req[s].item \in Questions /\ req[s].correct =>
         req[s].item \in req[s].shown

\* What a purchase opens is shown, attempted and explained only to those who have had
\* access; a question about a free lesson in an exam of paid ones is no exception.
PaidStaysPaid ==
  \A u \in Users \ (Staff \cup everPaid) : \A i \in Items :
    (i \in tried[u] \/ <<u, i>> \in told) =>
      /\ Item[i].lesson <= FreeLessons
      /\ Item[i].pack \in DOMAIN Exams => Exams[Item[i].pack].to <= FreeLessons

\* The two of them: what is shown is true, and shown to whom it may be.
CourseTells == ShownIsSolved /\ PaidStaysPaid

\* Nothing a person has achieved is taken away: not by a wrong answer to what was
\* solved, nor by the end of their access, nor by a call that failed.
NothingIsTakenAway ==
  [][\A u \in Users :
       /\ RankLevel(earned'[u]) >= RankLevel(earned[u])
       /\ \A k \in {"labs", "lessons", "quizzes", "exams"} :
            ProgressView(u)'[k] >= ProgressView(u)[k]]_courseVars
=============================================================================
