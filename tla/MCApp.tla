-------------------------------- MODULE MCApp --------------------------------
(* The course as people use it: labs, quizzes and achievements; the weekly     *)
(* leagues; the routes that stand in front of both; the subscription that pays *)
(* for it, the sales reported to Meta and the tools of the agent.  A behaviour  *)
(* is one of the six.                                                           *)
EXTENDS Course, Subscriptions, MetaOutbox, Gateway, AgentTools, Leagues

CONSTANTS ana, ben, s1, s2, i1, c1, c2, p1, w1, w2
Symm == Permutations({s1, s2}) \cup Permutations({w1, w2})

VARIABLE focus

\* The course: three labs, a question and an exam that covers two lessons.
Text(x) == [is |-> "text", of |-> x]
List(x) == [is |-> "list", of |-> x]
Num(x) == [is |-> "number", of |-> x]
MCItem ==
  [l1 |-> [pack |-> "lab", lesson |-> 1, kind |-> "choice", solution |-> Text("x")],
   l2 |-> [pack |-> "lab", lesson |-> 1, kind |-> "cut", solution |-> List(<<"x", "y">>)],
   l3 |-> [pack |-> "lab", lesson |-> 2, kind |-> "hotcold", solution |-> Num(64)],
   q1 |-> [pack |-> "q01", lesson |-> 1, kind |-> "choice", solution |-> Text("x")],
   e1 |-> [pack |-> "e1", lesson |-> 1, kind |-> "choice", solution |-> Text("x")]]
MCAnswers == {Text("x"), List(<<"y", "x">>), Num(64)}
MCExams == [e1 |-> [from |-> 1, to |-> 2]]
MCQuizOf == <<"q01", "q02">>

\* Those who ask at the gateway: nobody, a student who pays and one who does not, a
\* tutor with a cohort, an administrator the defense throttles.
Who(r, p, c, t) == [role |-> r, paid |-> p, cohort |-> c, throttled |-> t]
Asking == {Who("none", FALSE, FALSE, FALSE), Who("student", TRUE, FALSE, FALSE),
           Who("student", FALSE, FALSE, FALSE), Who("tutor", FALSE, TRUE, FALSE),
           Who("admin", FALSE, FALSE, TRUE)}
Spellings == {"v3", "v1", "v9"}
MCLimit == [login |-> 1]

\* Two checkouts of one buyer, the first of which is charged.
MCOwner == [c \in {c1, c2} |-> "buyer"]
MCOf == [c \in {p1} |-> c1]

\* One person talks while another one's call pushes the bus out.
MCLessonOf == [l \in {1, 2} |-> l]
MCLabsInOrder == <<1, 2>>
MCFor == [c \in {c1, c2} |-> IF c = c1 THEN ana ELSE ben]
MCAsked ==
  [c \in {c1, c2} |->
     IF c = c1 THEN {"buscar_en_curso", "mi_siguiente_paso", "cola_siguiente", "mi_progreso",
                     "plan_estudio", "mi_panorama", "mis_errores"}
     ELSE {"foco_volver"}]

AppInit ==
  /\ focus \in {"course", "league", "gate", "subs", "meta", "tools"}
  /\ CourseInit /\ LeaguesInit /\ GatewayInit /\ SubscriptionsInit /\ OutboxInit /\ ToolsInit
  /\ Joined = {} \/ (focus = "league" /\ Joined = Players /\ earlier = {<<ana, ben>>} /\ alias[ana] = 1)
  /\ ~unlocked[ben] /\ (unlocked[ana] => focus = "tools")
\* To keep the graph small: a charge or a failure comes only where the buyer has opened
\* one checkout, the routes that read no counter are asked for before the forms, and one
\* person at a time looks at the league.
AppNext ==
  \/ focus = "course" /\ CourseNext /\ UNCHANGED <<focus, leagueVars, gatewayVars, subVars, outboxVars, toolVars>>
  \/ focus = "league" /\ LeaguesNext
     /\ Cardinality({c \in Seats : calls'[c].at \in {"reads", "said"}}) <= 1
     /\ UNCHANGED <<focus, courseVars, gatewayVars, subVars, outboxVars, toolVars>>
  \/ focus = "gate" /\ (Braked \/ (now = 0 /\ formsLeft = 3 /\ Unbraked))
     /\ UNCHANGED <<focus, courseVars, leagueVars, subVars, outboxVars, toolVars>>
  \/ focus = "subs" /\ SubscriptionsNext
     /\ (charged' # {} \/ failures' # 0 => asked'[c2] = "new")
     /\ UNCHANGED <<focus, courseVars, leagueVars, gatewayVars, outboxVars, toolVars>>
  \/ focus = "meta" /\ OutboxNext /\ UNCHANGED <<focus, courseVars, leagueVars, gatewayVars, subVars, toolVars>>
  \/ focus = "tools" /\ ToolsNext
     /\ UNCHANGED <<focus, courseVars, leagueVars, gatewayVars, subVars, outboxVars>>
AppSpec == AppInit /\ [][AppNext]_<<focus, courseVars, leagueVars, gatewayVars, subVars, outboxVars, toolVars>>

==============================================================================
