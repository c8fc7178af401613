------------------------------ MODULE LessonPage ------------------------------
(***************************************************************************)
(* A lesson in the browser: a lab (web/src/lib/labs-client.ts) and the       *)
(* questions under it (quiz-client.ts).  The answer is collected here and    *)
(* judged by the api, whose verdict comes later.  While it is awaited the     *)
(* lab disables only its check button; a question disables its options too.   *)
(***************************************************************************)
EXTENDS Naturals, Sequences, FiniteSets, SequencesExt

CONSTANTS
  Questions,
  Options,      \* of the lab and of the questions; the right one is Right
  Right,
  Marks,        \* the marks of a slider: numbers
  Target,       \* the one that is right
  MaxClicks     \* bound: what the reader does to the page

ASSUME PageAssumption ==
  Right \in Options /\ Marks \subseteq Nat /\ Target \in Marks /\ MaxClicks \in Nat

VARIABLES
  kind,         \* the lab's
  draft,        \* what its controls show
  answer,       \* what its check would send; <<>> where that is null
  verdict,      \* data-result: none, ok, bad
  tries,        \* lines of hotcold: the number shown and the error beside it
  sent,         \* the lab's request: none, or its answer, before and after it is judged
  racha,        \* labs solved one after the other
  moved,        \* ghost: the controls were used while the last verdict was awaited
  pick, shown,  \* of each question: the option pressed, the verdict
  asked,        \* its request
  solved,       \* the questions the api has recorded as solved
  score,        \* the questions counted in the score on the page
  turn, newest, \* ghosts: how many the api has judged, the last of them that was shown
  crossed,      \* ghost: two answers to questions came back in the other order
  clicks

labVars == <<kind, draft, answer, verdict, tries, sent, racha, moved>>
quizVars == <<pick, shown, asked, solved, score, turn, newest, crossed>>
pageVars == <<labVars, quizVars, clicks>>

Kinds == {"choice", "cut", "order", "build", "knob", "hotcold"}
Sliders == {"knob", "hotcold"}
Idle == [at |-> "idle"]
Null == <<>>
\* The solution in the form each kind has it.
Solution == CASE kind = "choice" -> <<Right>>
              [] kind \in {"cut", "build"} -> <<{Right}>>
              [] kind = "order" -> <<Right>>
              [] OTHER -> <<Target>>
Distance(x) == IF x >= Target THEN x - Target ELSE Target - x

\* What the controls show at first and after a reset.
Blank == CASE kind = "choice" -> Null [] kind = "order" -> Null
           [] kind \in {"cut", "build"} -> <<{}>> [] OTHER -> <<CHOOSE m \in Marks : \A n \in Marks : m <= n>>

\* What is on the controls after one more click on them.
ChoiceEdits == {<<o>> : o \in Options}
\* A cut is put or taken away.
CutEdits == {<<IF o \in draft[1] THEN draft[1] \ {o} ELSE draft[1] \cup {o}>> : o \in Options}
\* A step is added behind those chosen.
OrderEdits == {Append(draft, o) : o \in Options \ Range(draft)}
\* The slot is filled, with another tile than the one it holds; it is never emptied.
BuildEdits == {<<{o}>> : o \in Options \ draft[1]}
SliderEdits == {<<m>> : m \in Marks}
Edits == CASE kind = "choice" -> ChoiceEdits [] kind = "cut" -> CutEdits
           [] kind = "order" -> OrderEdits [] kind = "build" -> BuildEdits [] OTHER -> SliderEdits

PageInit ==
  /\ kind \in Kinds /\ draft = Blank /\ answer = IF kind \in Sliders THEN draft ELSE Null
  /\ verdict = "none" /\ tries = <<>> /\ sent = Idle /\ racha = 0 /\ moved = FALSE
  /\ pick = [q \in Questions |-> Null] /\ shown = [q \in Questions |-> "none"]
  /\ asked = [q \in Questions |-> Idle] /\ solved = {} /\ score = {}
  /\ turn = 0 /\ newest = 0 /\ crossed = FALSE /\ clicks = 0

Click == clicks < MaxClicks /\ clicks' = clicks + 1
-----------------------------------------------------------------------------
\* The lab

\* A control is used: the verdict goes, but for hotcold, whose tries stay too.
Edit ==
  /\ Click
  /\ \E d \in Edits :
       /\ draft' = d /\ answer' = d
       /\ verdict' = IF kind = "hotcold" THEN verdict ELSE "none"
       /\ moved' = (sent # Idle)
  /\ UNCHANGED <<kind, tries, sent, racha, quizVars>>

\* The reset of the kind, and then the one of every lab.  choice and hotcold have none of
\* their own: what was chosen stays.
ResetAnswer == CASE kind = "cut" -> <<{}>> [] kind = "knob" -> Blank
                 [] kind \in {"order", "build"} -> Null [] OTHER -> answer
Reset ==
  /\ Click /\ draft' = IF kind \in {"choice", "hotcold"} THEN draft ELSE Blank
  /\ answer' = ResetAnswer /\ verdict' = "none" /\ moved' = (sent # Idle)
  /\ UNCHANGED <<kind, tries, sent, racha, quizVars>>

\* Check, which asks for an answer first where there is none.
Send ==
  /\ Click /\ sent = Idle /\ answer # Null
  /\ sent' = [at |-> "out", answer |-> answer]
  /\ UNCHANGED <<kind, draft, answer, verdict, tries, racha, moved, quizVars>>

\* Answered: the verdict is shown over what the controls show now.
Judge(right) ==
  /\ verdict' = IF right THEN "ok" ELSE IF kind = "hotcold" THEN verdict ELSE "bad"
  /\ racha' = IF right THEN racha + 1 ELSE 0
Tried ==
  tries' = IF kind = "hotcold" THEN Append(tries, [n |-> draft[1], err |-> Distance(sent.answer[1]), moved |-> moved])
           ELSE tries
Answered ==
  /\ sent # Idle /\ sent' = Idle /\ Judge(sent.answer = Solution) /\ Tried
  /\ UNCHANGED <<kind, draft, answer, moved, quizVars, clicks>>

\* Refused, or not answered: a toast, and the button again.
Lost ==
  /\ sent # Idle /\ sent' = Idle
  /\ UNCHANGED <<kind, draft, answer, verdict, tries, racha, moved, quizVars, clicks>>
-----------------------------------------------------------------------------
\* The questions

\* Mutant: the options can be pressed while an answer is awaited.
PickAnyTime(q) == TRUE
Pressable(q) == asked[q] = Idle

Pick(q, o) ==
  /\ Click /\ Pressable(q)
  /\ pick' = [pick EXCEPT ![q] = <<o>>] /\ shown' = [shown EXCEPT ![q] = "none"]
  /\ UNCHANGED <<labVars, asked, solved, score, turn, newest, crossed>>

ResetPick(q) ==
  /\ Click /\ asked[q] = Idle
  /\ pick' = [pick EXCEPT ![q] = Null] /\ shown' = [shown EXCEPT ![q] = "none"]
  /\ UNCHANGED <<labVars, asked, solved, score, turn, newest, crossed>>

Ask(q) ==
  /\ Click /\ asked[q] = Idle /\ pick[q] # Null
  /\ asked' = [asked EXCEPT ![q] = [at |-> "out", answer |-> pick[q]]]
  /\ UNCHANGED <<labVars, pick, shown, solved, score, turn, newest, crossed>>

\* The api records it and counts the score of the lesson.
Grades(q) ==
  /\ asked[q].at = "out"
  /\ solved' = IF asked[q].answer = <<Right>> THEN solved \cup {q} ELSE solved
  /\ turn' = turn + 1
  /\ asked' = [asked EXCEPT ![q] = [at |-> "back", answer |-> @.answer, score |-> solved', turn |-> turn']]
  /\ UNCHANGED <<labVars, pick, shown, score, newest, crossed, clicks>>

\* Its answer: the verdict, and the score that came with it.
Shows(q) ==
  /\ asked[q].at = "back" /\ asked' = [asked EXCEPT ![q] = Idle]
  /\ shown' = [shown EXCEPT ![q] = IF asked[q].answer = <<Right>> THEN "ok" ELSE "bad"]
  /\ score' = asked[q].score /\ newest' = asked[q].turn
  /\ crossed' = (crossed \/ newest' < newest)
  /\ UNCHANGED <<labVars, pick, solved, turn, clicks>>

\* Lost on its way there or back.
AskLost(q) ==
  /\ asked[q] # Idle /\ asked' = [asked EXCEPT ![q] = Idle]
  /\ UNCHANGED <<labVars, pick, shown, solved, score, turn, newest, crossed, clicks>>

PageNext ==
  \/ Edit \/ Reset \/ Send \/ Answered \/ Lost
  \/ \E q \in Questions :
       \/ ResetPick(q) \/ Ask(q) \/ Grades(q) \/ Shows(q) \/ AskLost(q)
       \/ \E o \in Options : Pick(q, o)

PageSpec == PageInit /\ [][PageNext]_pageVars
-----------------------------------------------------------------------------
\* The page tells what was judged.  The verdict beside an answer is the one of that
\* answer: always for a question, and for a lab unless its controls were used while it
\* was judged (hotcold keeps its verdict when the slider moves on, but each of its lines
\* has its own error).  A question whose verdict is on the page as right is counted in
\* the score beside it, unless two answers crossed.  (labs-client.ts send, the resets;
\* quiz-client.ts check, paint)
PageTells ==
  /\ \A q \in Questions :
       shown[q] # "none" => (shown[q] = "ok") = (pick[q] = <<Right>>)
  /\ kind # "hotcold" /\ verdict # "none" /\ ~moved => (verdict = "ok") = (answer = Solution)
  /\ \A t \in Range(tries) : ~t.moved => t.err = Distance(t.n)
  /\ ~crossed => \A q \in Questions : shown[q] = "ok" => q \in score
=============================================================================
