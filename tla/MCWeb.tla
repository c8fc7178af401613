-------------------------------- MODULE MCWeb --------------------------------
(* The pages in the browser: the reading aloud of a lesson, its labs and        *)
(* questions, the cards the cat brings, the nudges of the coach, the panel that *)
(* talks, the pickers of a model and the guided walks; what they are told of    *)
(* one's own progress; the launcher that serves them in development and the     *)
(* seed of the course that it runs.  A behaviour is one of the ten: they share  *)
(* the page and none of their state.                                            *)
EXTENDS Narrator, LessonPage, AiPick, DevStart, Seed, PanelChat, Tours, Nudges, Cards, OwnTools,
        TLC

CONSTANTS x, y, q1, q2, t1, t2, u1, u2
\* The two questions are told apart by nothing.
Symm == Permutations({q1, q2})

VARIABLE focus

\* Two toasts of one key, the first of which goes and the second of which stays, and two
\* unlocks that last shorter than a walk.
MCKey == [c \in {t1, t2} |-> "k1"]
MCLife == [c \in {t1, t2, u1, u2} |-> CASE c = t1 -> 5 [] c = t2 -> -1 [] OTHER -> 3]

\* A student who has been away for three days and is one lab short of a lesson: there are
\* several things to say.
Away == [dias |-> 3, racha |-> 0, siguiente |-> "lab", short |-> {1}]
MCStates == {Away}

Fast == [id |-> "deepseek", carril |-> "flash"]
Thinks == [id |-> "sonnet", carril |-> "razon"]
MCLists == {<<>>, <<Thinks>>, <<Fast, Thinks>>}

MCTargets == <<"one", "two">>

\* Two lessons of one lab, weeks of two days.
MCLabs == <<1, 2>>
MCLessonOf == [l \in {1, 2} |-> l]

\* The second release writes the draft of the first and withdraws a question.
Release1 == <<<<"lab", 1>>, <<"order", 1>>, <<"user", 1>>, <<"question", 1>>, <<"question", 2>>>>
Release2 == <<<<"lab", 1>>, <<"order", 1>>, <<"user", 1>>, <<"question", 1>>>>
MCScript == <<Release1, Release2>>
MCDrafts == <<{<<"lab", 1>>}, {}>>

WebInit ==
  /\ focus \in {"narrator", "page", "cards", "nudges", "chat", "pick", "tours", "dev", "own", "seed"}
  /\ NarratorInit /\ PageInit /\ CardsInit /\ NudgesInit /\ ChatInit /\ PickInit
  /\ ToursInit /\ DevInit /\ OwnInit /\ SeedInit
  /\ engine.voices = "own" \/ focus = "narrator"
  /\ kind = "choice" \/ focus = "page"
  /\ ~blocked \/ focus = "pick"
  /\ present = {"one", "two"} \/ focus = "tours"
  /\ dice[0] = Authored /\ (production <=> dice[1] = Authored)
  /\ (up /\ ~production) \/ focus = "seed"
WebNext ==
  \/ focus = "narrator" /\ NarratorNext
     /\ UNCHANGED <<focus, pageVars, cardsVars, nudgesVars, chatVars, pickVars, toursVars, devVars, ownVars, seedVars>>
  \/ focus = "page" /\ PageNext
     /\ UNCHANGED <<focus, narratorVars, cardsVars, nudgesVars, chatVars, pickVars, toursVars, devVars, ownVars, seedVars>>
  \/ focus = "cards" /\ CardsNext
     /\ UNCHANGED <<focus, narratorVars, pageVars, nudgesVars, chatVars, pickVars, toursVars, devVars, ownVars, seedVars>>
  \/ focus = "nudges" /\ NudgesNext
     /\ UNCHANGED <<focus, narratorVars, pageVars, cardsVars, chatVars, pickVars, toursVars, devVars, ownVars, seedVars>>
  \/ focus = "chat" /\ ChatNext
     /\ UNCHANGED <<focus, narratorVars, pageVars, cardsVars, nudgesVars, pickVars, toursVars, devVars, ownVars, seedVars>>
  \/ focus = "pick" /\ PickNext
     /\ UNCHANGED <<focus, narratorVars, pageVars, cardsVars, nudgesVars, chatVars, toursVars, devVars, ownVars, seedVars>>
  \/ focus = "tours" /\ ToursNext
     /\ UNCHANGED <<focus, narratorVars, pageVars, cardsVars, nudgesVars, chatVars, pickVars, devVars, ownVars, seedVars>>
  \/ focus = "dev" /\ DevNext
     \* To keep the graph small: the second run finds of the first no more than web and api.
     /\ (orch'[2].at # "no" => came' = 0)
     /\ (orch[2].at = "no" /\ orch'[2].at # "no" =>
           orch[1].at = "killed" /\ \A n \in {"ia", "messages"} : ~Alive(1, n))
     /\ UNCHANGED <<focus, narratorVars, pageVars, cardsVars, nudgesVars, chatVars, pickVars, toursVars,
                    ownVars, seedVars>>
  \* A behaviour of one's own progress ends with the answer.
  \/ focus = "own" /\ question.at # "said" /\ OwnNext
     /\ UNCHANGED <<focus, narratorVars, pageVars, cardsVars, nudgesVars, chatVars, pickVars, toursVars,
                    devVars, seedVars>>
  \/ focus = "seed" /\ SeedNext
     /\ UNCHANGED <<focus, narratorVars, pageVars, cardsVars, nudgesVars, chatVars, pickVars, toursVars,
                    devVars, ownVars>>
WebSpec ==
  WebInit /\ [][WebNext]_<<focus, narratorVars, pageVars, cardsVars, nudgesVars, chatVars, pickVars,
                          toursVars, devVars, ownVars, seedVars>>
==============================================================================
