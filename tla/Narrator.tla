------------------------------ MODULE Narrator ------------------------------
(***************************************************************************)
(* The voice that reads a lesson aloud (web/src/lib/narrator.ts): one        *)
(* utterance per sentence, each one started by the end of the one before it, *)
(* over a speech engine that calls back late, that may not know how to pause *)
(* and that answers a cancel with an end, an error or nothing.  A generation *)
(* number is to keep the callbacks of an abandoned reading from going on.    *)
(***************************************************************************)
EXTENDS Naturals, Sequences, FiniteSets, SequencesExt

CONSTANTS
  Trozos,       \* how many sentences there are to be said
  MaxTouches,    \* bound: what the reader does to the bar, to the tab or to the page
  MaxSaid       \* bound: utterances handed to the engine

ASSUME NarratorAssumption == Trozos \in Nat \ {0} /\ MaxTouches \in Nat /\ MaxSaid \in Nat

VARIABLES
  i, hablando, pausado, arrancando, gen,
  voz,          \* whether a voice of the language has been found
  marked,       \* the sentence that is highlighted, 0 for none
  engine,       \* its queue of utterances, whether it is paused, the voices it lists
  late,         \* utterances that are over and whose callback has not run
  timers,       \* those whose end was heard and that wait for the breath before the next
  checks,       \* checks of pausa that wait their 60 ms
  said, touches,
  doubled       \* ghost: a pause ended by saying again what was still under way

narratorVars == <<i, hablando, pausado, arrancando, gen, voz, marked, engine, late, timers,
                  checks, said, touches, doubled>>

\* What the engine lists: nothing yet, voices of other languages, or one of this one.
Voices == {"none", "foreign", "own"}

NarratorInit ==
  /\ i = 1 /\ hablando = FALSE /\ pausado = FALSE /\ arrancando = FALSE /\ gen = 0
  /\ marked = 0 /\ late = {} /\ timers = {} /\ checks = 0 /\ said = 0 /\ touches = 0 /\ doubled = FALSE
  /\ engine \in [queue : {<<>>}, paused : {FALSE}, voices : Voices]
  /\ voz = (engine.voices = "own")

\* Mutant: a callback does not look at its generation.
VigenteAnyhow(u) == hablando /\ ~pausado
Vigente(u) == u.gen = gen /\ hablando /\ ~pausado

\* The reading is under way in these, each of which would lead to the next sentence.
Underway == {u \in Range(engine.queue) \cup late \cup timers : u.gen = gen}

\* cancel: the engine drops its queue, and may call back, later, for what it dropped.
Cancels(some) == some \subseteq Range(engine.queue) /\ late' = late \cup some

\* marca: the one before loses its highlight to this one.  limpia: none has it.
Lights(k) == marked' = k
Clears == marked' = 0

\* di: the sentence is highlighted and handed to the engine behind what is in q.
Says(k, g, q) ==
  /\ said < MaxSaid /\ said' = said + 1 /\ i' = k /\ Lights(k)
  /\ engine' = [engine EXCEPT !.queue = Append(q, [n |-> said + 1, k |-> k, gen |-> g])]

\* parar.
Stops ==
  /\ gen' = gen + 1 /\ hablando' = FALSE /\ pausado' = FALSE /\ arrancando' = FALSE /\ i' = 1
  /\ Clears /\ doubled' = FALSE /\ engine' = [engine EXCEPT !.queue = <<>>]
  /\ UNCHANGED <<voz, checks, said>>

\* di(k + 1), called by a callback that is taken out of the late ones or a timer.
Next1(k, rest) ==
  IF k < Trozos
  THEN /\ Says(k + 1, gen, engine.queue) /\ late' = rest
       /\ UNCHANGED <<hablando, pausado, arrancando, gen, voz, checks, touches, doubled>>
  ELSE Stops /\ UNCHANGED touches /\ late' \in {rest \cup some : some \in SUBSET Range(engine.queue)}
-----------------------------------------------------------------------------
\* The engine

\* It lists its voices when it gets to it, and voiceschanged asks again.
VoicesChange(v) ==
  /\ engine.voices = "none" /\ v # "none" /\ engine' = [engine EXCEPT !.voices = v]
  /\ voz' = (v = "own")
  /\ UNCHANGED <<i, hablando, pausado, arrancando, gen, marked, late, timers, checks, said, touches, doubled>>

\* onstart of the sentence at the head.
Begins ==
  /\ engine.queue # <<>> /\ ~engine.paused /\ arrancando
  /\ arrancando' = (engine.queue[1].gen # gen)
  /\ UNCHANGED <<i, hablando, pausado, gen, voz, marked, engine, late, timers, checks, said, touches, doubled>>

\* It is over, said or failed; what is called back comes on its own.
Finishes ==
  /\ engine.queue # <<>> /\ ~engine.paused
  /\ late' = late \cup {engine.queue[1]} /\ engine' = [engine EXCEPT !.queue = Tail(@)]
  /\ UNCHANGED <<i, hablando, pausado, arrancando, gen, voz, marked, timers, checks, said, touches, doubled>>

\* onend: a breath, and then the next one.
Ended(u) ==
  /\ u \in late /\ late' = late \ {u}
  /\ timers' = IF Vigente(u) THEN timers \cup {u} ELSE timers
  /\ UNCHANGED <<i, hablando, pausado, arrancando, gen, voz, marked, engine, checks, said, touches, doubled>>

\* onerror: the next one at once.
Failed(u) ==
  /\ u \in late
  /\ IF Vigente(u) THEN Next1(u.k, late \ {u})
     ELSE /\ late' = late \ {u}
          /\ UNCHANGED <<i, hablando, pausado, arrancando, gen, voz, marked, engine, checks, said, touches, doubled>>
  /\ UNCHANGED timers

Breathed(u) ==
  /\ u \in timers /\ timers' = timers \ {u}
  /\ IF Vigente(u) THEN Next1(u.k, late)
     ELSE UNCHANGED <<i, hablando, pausado, arrancando, gen, voz, marked, engine, late, checks, said, touches, doubled>>
-----------------------------------------------------------------------------
\* The bar

\* The button reads, pauses or goes on by what the bar shows.
Touches == touches < MaxTouches /\ touches' = touches + 1

\* arranca, which looks for a voice once more when there is none.
Arranca ==
  /\ Touches /\ ~hablando /\ voz
  /\ gen' = gen + 1 /\ hablando' = TRUE /\ pausado' = FALSE /\ arrancando' = TRUE
  /\ Says(i, gen + 1, <<>>) /\ \E some \in SUBSET Range(engine.queue) : Cancels(some)
  /\ doubled' = FALSE /\ UNCHANGED <<voz, timers, checks>>

\* pausa, by the bar or because the tab was hidden; engines differ in whether they do.
Pausa(does) ==
  /\ Touches /\ hablando /\ pausado' = TRUE /\ checks' = checks + 1
  /\ engine' = [engine EXCEPT !.paused = does]
  /\ UNCHANGED <<i, hablando, arrancando, gen, voz, marked, late, timers, said, doubled>>
\* 60 ms later, an engine that is not paused is silenced.
Checks ==
  /\ checks > 0 /\ checks' = checks - 1
  /\ IF engine.paused THEN UNCHANGED <<engine, late>>
     ELSE /\ engine' = [engine EXCEPT !.queue = <<>>]
          /\ \E some \in SUBSET Range(engine.queue) : Cancels(some)
  /\ UNCHANGED <<i, hablando, pausado, arrancando, gen, voz, marked, timers, said, touches, doubled>>

\* sigue: what is paused goes on; otherwise the sentence is said again.
Sigue ==
  /\ Touches /\ hablando /\ pausado /\ pausado' = FALSE
  /\ IF engine.paused
     THEN engine' = [engine EXCEPT !.paused = FALSE] /\ UNCHANGED <<i, marked, said, doubled>>
     ELSE Says(i, gen, engine.queue) /\ doubled' = (doubled \/ Underway # {})
  /\ UNCHANGED <<hablando, arrancando, gen, voz, late, timers, checks>>

\* Another voice or speed: the sentence again, in a generation of its own.
Retunes ==
  /\ Touches /\ hablando /\ ~pausado /\ gen' = gen + 1
  /\ Says(i, gen + 1, <<>>) /\ \E some \in SUBSET Range(engine.queue) : Cancels(some)
  /\ doubled' = FALSE /\ UNCHANGED <<hablando, pausado, arrancando, voz, timers, checks>>

\* The stop button, while it reads, and leaving the page, always.
Parar ==
  /\ Touches /\ Stops /\ UNCHANGED timers
  /\ \E some \in SUBSET Range(engine.queue) : Cancels(some)

NarratorNext ==
  \/ \E v \in Voices : VoicesChange(v)
  \/ Begins \/ Finishes \/ Checks \/ Arranca \/ Sigue \/ Retunes \/ Parar
  \/ \E does \in BOOLEAN : Pausa(does)
  \/ \E u \in late : Ended(u) \/ Failed(u)
  \/ \E u \in timers : Breathed(u)

NarratorSpec == NarratorInit /\ [][NarratorNext]_narratorVars
-----------------------------------------------------------------------------
\* One voice: while it was not resumed over something that was still under way, one
\* thing at most leads to the next sentence, the engine has nothing of a reading that
\* was left, and what it says is what is highlighted (narrator.ts, contador de
\* generacion).
OneVoice ==
  /\ \A u \in Range(engine.queue) : u.gen = gen /\ hablando
  /\ ~doubled =>
       /\ Cardinality(Underway) <= 1
       /\ engine.queue # <<>> => engine.queue[1].k = i /\ marked = i
=============================================================================
