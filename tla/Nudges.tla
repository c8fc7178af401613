-------------------------------- MODULE Nudges --------------------------------
(***************************************************************************)
(* The assistant that speaks first (web/src/lib/coach.ts, api/src/coach.ts,  *)
(* components/AiPanel.astro): what it may say of a student, and the budget    *)
(* that keeps it from saying it too often.  The budget of a page is read when *)
(* the page loads; how many it has shown is the tab's, the rest is the         *)
(* device's, and each page writes over the device's what it has in hand.       *)
(***************************************************************************)
EXTENDS Integers, Sequences, FiniteSets, FiniteSetsExt

CONSTANTS
  Tabs,
  States,       \* what the coach may find
  MaxPerSession, MinGap, FirstDelay, RepeatAfter,   \* in ticks
  MaxNow,      \* bound: ticks
  MaxMoves      \* bound: what the student does to the pages

VARIABLES
  now, moves,
  device,       \* localStorage: what was shown last and when, and when each was shown
  session,      \* sessionStorage of each tab: how many it has shown
  page,         \* the page of each tab, Closed without one
  muted,        \* the cookie ai_nudges
  spoken,         \* ghost: what the student was told, asked for or not, in which visit
  visits,       \* ghost: the visit of each tab
  overlapped    \* ghost: two tabs were open at once

nudgesVars == <<now, moves, device, session, page, muted, spoken, visits, overlapped>>

Never == 0
NoPage == [open |-> FALSE]
Ids == {"empezar", "volver", "racha", "cerrar", "retomar", "compra", "completo", "siguiente"}
ByUse == <<"empezar", "volver", "racha", "cerrar", "retomar", "compra", "completo", "siguiente">>
EmptyBudget == [last |-> "none", at |-> Never, seen |-> [n \in Ids |-> Never]]

\* coachState, in what tells one nudge from another: days without activity, days of
\* the streak, the next step, and how many labs the lessons begun are short of.
NoDays == 99
CoachStates ==
  {s \in [dias : {NoDays, 0, 1, 3}, racha : {0, 2}, siguiente : {"lab", "requiere_compra", "curso_completo"},
          short : {{}, {1}, {2}}] :
     /\ s.racha = 2 => s.dias \in {0, 1}
     /\ s.dias = NoDays => s.short = {} /\ s.siguiente = "lab"
     /\ s.siguiente = "curso_completo" => s.short = {}}

\* candidates: what holds of the student, the most useful first.
Fits(id, s) ==
  CASE id = "empezar" -> s.dias = NoDays /\ s.siguiente = "lab"
    [] id = "volver" -> s.dias \notin {NoDays, 0, 1} /\ s.siguiente = "lab"
    [] id = "racha" -> s.racha >= 2 /\ s.dias \notin {NoDays, 0} /\ s.siguiente = "lab"
    [] id = "cerrar" -> 1 \in s.short
    [] id = "retomar" -> \E k \in s.short : k >= 2
    [] id = "compra" -> s.siguiente = "requiere_compra"
    [] id = "completo" -> s.siguiente = "curso_completo"
    [] OTHER -> s.siguiente = "lab"
Candidates(s) == {id \in Ids : Fits(id, s)}
Best(ids) == ByUse[Min({i \in DOMAIN ByUse : ByUse[i] \in ids})]

ASSUME NudgesAssumption ==
  /\ {MaxPerSession, MinGap, FirstDelay, RepeatAfter} \subseteq Nat
  /\ MinGap > 0 /\ RepeatAfter >= MinGap /\ States \subseteq CoachStates

\* withinBudget
WithinBudget(p) ==
  /\ p.shown < MaxPerSession
  /\ now - p.loadedAt >= FirstDelay
  /\ p.at # Never => now - p.at >= MinGap
\* pickNudge: the first that was not the last and is not cooling down.
Allowed(p) ==
  {id \in Candidates(p.state) :
    /\ id # p.last
    /\ p.seen[id] # Never => now - p.seen[id] >= RepeatAfter}

\* Mutant: the cooldown of what was shown is not kept.
SpendOnly(p, id) == [p EXCEPT !.shown = @ + 1, !.last = id, !.at = now]
\* spend and noted: after an interruption, and after an answer.
Spend(p, id) == [p EXCEPT !.shown = @ + 1, !.last = id, !.at = now, !.seen[id] = now]
Noted(p, id) == [p EXCEPT !.last = id, !.seen[id] = now]
\* guardarBudget
Saves(t, p) ==
  /\ page' = [page EXCEPT ![t] = p]
  /\ session' = [session EXCEPT ![t] = p.shown]
  /\ device' = [last |-> p.last, at |-> p.at, seen |-> p.seen]

NudgesInit ==
  /\ now = 1 /\ moves = 0 /\ device = EmptyBudget /\ session = [t \in Tabs |-> 0]
  /\ page = [t \in Tabs |-> NoPage] /\ muted = FALSE
  /\ spoken = <<>> /\ visits = [t \in Tabs |-> 0] /\ overlapped = FALSE

Moves == moves < MaxMoves /\ moves' = moves + 1
OpenTabs == {t \in Tabs : page[t].open}
-----------------------------------------------------------------------------
\* A page of the tab, the first one or the next: the budget and the flags are read.
Load(t, s) ==
  /\ Moves
  /\ page' = [page EXCEPT ![t] =
       [open |-> TRUE, shown |-> session[t], last |-> device.last, at |-> device.at, seen |-> device.seen,
        loadedAt |-> now, state |-> s, mute |-> muted, card |-> FALSE, panel |-> FALSE, greeted |-> FALSE]]
  /\ overlapped' = (overlapped \/ OpenTabs \ {t} # {})
  /\ UNCHANGED <<now, device, session, muted, spoken, visits>>

\* The tab is closed, and what was of its session is forgotten.
Close(t) ==
  /\ Moves /\ t \in OpenTabs /\ page' = [page EXCEPT ![t] = NoPage]
  /\ session' = [session EXCEPT ![t] = 0] /\ visits' = [visits EXCEPT ![t] = @ + 1]
  /\ UNCHANGED <<now, device, muted, spoken, overlapped>>

\* tic, in a tab that is seen and where nobody is typing.
Tic(t) ==
  /\ t \in OpenTabs
  /\ LET p == page[t] IN
     /\ ~p.mute /\ ~p.panel /\ ~p.card /\ WithinBudget(p) /\ Allowed(p) # {}
     /\ LET id == Best(Allowed(p)) IN
        /\ Saves(t, [Spend(p, id) EXCEPT !.card = TRUE])
        /\ spoken' = Append(spoken, [id |-> id, at |-> now, visit |-> <<t, visits[t]>>, asked |-> FALSE])
  /\ UNCHANGED <<now, moves, muted, visits, overlapped>>

\* The card goes: its time is up, or it is put away.
Hide(t) ==
  /\ Moves /\ t \in OpenTabs /\ page[t].card /\ page' = [page EXCEPT ![t].card = FALSE]
  /\ UNCHANGED <<now, device, session, muted, spoken, visits, overlapped>>

\* The panel is opened: by the card, whose nudge is carried in, or by its switch, and
\* then the first time there is nothing to tell but the best candidate.
Opens(t, carried) ==
  /\ Moves /\ t \in OpenTabs /\ ~page[t].panel /\ (carried => page[t].card)
  /\ LET p == [page[t] EXCEPT !.panel = TRUE, !.card = FALSE, !.greeted = TRUE]
         best == Best(Candidates(p.state))
     IN IF carried \/ page[t].greeted \/ Candidates(p.state) = {}
        THEN page' = [page EXCEPT ![t] = p] /\ UNCHANGED <<device, session, spoken>>
        ELSE /\ Saves(t, Noted(p, best))
             /\ spoken' = Append(spoken, [id |-> best, at |-> now, visit |-> <<t, visits[t]>>, asked |-> TRUE])
  /\ UNCHANGED <<now, muted, visits, overlapped>>
Shuts(t) ==
  /\ Moves /\ t \in OpenTabs /\ page[t].panel /\ page' = [page EXCEPT ![t].panel = FALSE]
  /\ UNCHANGED <<now, device, session, muted, spoken, visits, overlapped>>

\* ponerAvisos: the cookie, and the flags of this page.
Mute(t, on) ==
  /\ Moves /\ t \in OpenTabs /\ page[t].mute # on /\ muted' = on
  /\ page' = [page EXCEPT ![t].mute = on, ![t].card = page[t].card /\ ~on]
  /\ UNCHANGED <<now, device, session, spoken, visits, overlapped>>

Tick ==
  /\ now < MaxNow /\ now' = now + 1
  /\ UNCHANGED <<moves, device, session, page, muted, spoken, visits, overlapped>>

NudgesNext ==
  \/ Tick
  \/ \E t \in Tabs :
       \/ Close(t) \/ Tic(t) \/ Hide(t) \/ Shuts(t)
       \/ \E s \in States : Load(t, s)
       \/ \E yes \in BOOLEAN : Opens(t, yes) \/ Mute(t, yes)

NudgesSpec == NudgesInit /\ [][NudgesNext]_nudgesVars
-----------------------------------------------------------------------------
\* A visit is interrupted MaxPerSession times at most, whatever else is open; and, as
\* long as the student has one tab at a time, two interruptions are MinGap apart, none
\* says what was told last nor, within RepeatAfter, what was told before, over reloads
\* and visits (coach.ts, THE BUDGET).
Interruptions == {i \in DOMAIN spoken : ~spoken[i].asked}
BudgetHolds ==
  /\ \A i \in Interruptions :
       Cardinality({j \in Interruptions : spoken[j].visit = spoken[i].visit}) <= MaxPerSession
  /\ ~overlapped =>
       \A j \in Interruptions : \A i \in 1..(j - 1) :
         /\ i \in Interruptions => spoken[j].at - spoken[i].at >= MinGap
         /\ spoken[j].id = spoken[i].id => j # i + 1 /\ spoken[j].at - spoken[i].at >= RepeatAfter
=============================================================================
