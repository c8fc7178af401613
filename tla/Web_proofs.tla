------------------------------ MODULE Web_proofs ------------------------------
(***************************************************************************)
(* What the browser and the scripts beside it keep, for every list of texts,   *)
(* questions, pages, runs and releases: one voice reads one sentence           *)
(* (Narrator), a lesson page shows the verdict of the answer beside it          *)
(* (LessonPage), the pickers of a page agree (AiPick), the chat sends as said    *)
(* what was said (PanelChat), the walks over a page give back its scroll and     *)
(* its keys (Tours), `pnpm dev` takes its processes with it and nobody else's    *)
(* (DevStart), a seed that ends alone leaves its release whole (Seed), the coach *)
(* interrupts within its budget (Nudges), the lane of cards is tidy (Cards), and  *)
(* people are told the truth of their own progress (OwnTools).                    *)
(* Each part states its inductive invariant, that the initial states have it and *)
(* every step keeps it, and the property it implies.                             *)
(***************************************************************************)
EXTENDS Narrator, LessonPage, AiPick, DevStart, Seed, PanelChat, Tours, Nudges, Cards, OwnTools,
        FiniteSetTheorems, SequenceTheorems, WellFoundedInduction, TLAPS

\* Numbers that there are have a least one.
LEMMA Least == ASSUME NEW S \in SUBSET Nat, S # {} PROVE Min(S) \in S /\ \A k \in S : Min(S) <= k
<1> DEFINE R == OpToRel(<, Nat)
<1>1. IsWellFoundedOn(R, Nat)
  BY NatLessThanWellFounded
<1> HIDE DEF R
<1>2. PICK m \in S : \A k \in S : <<k, m>> \notin R
  BY <1>1, WFMin
<1>3. ASSUME NEW k \in S PROVE m <= k
  <2>1. ~(k < m)
    BY <1>2 DEF R, OpToRel
  <2> QED
    BY <2>1
<1> QED
  BY <1>3 DEF Min

-----------------------------------------------------------------------------
(* The narrator: one voice, and the sentence it reads. *)

Utterances == [n : Nat, k : Nat, gen : Nat]

Engines == [queue : Seq(Utterances), paused : BOOLEAN, voices : Voices]

NarratorTyped ==
  /\ i \in Nat /\ gen \in Nat /\ said \in Nat
  /\ engine \in Engines
  /\ late \subseteq Utterances /\ timers \subseteq Utterances

\* The engine has only what is being read; what calls back late is of this reading or of
\* one before it.
OnlyOurs == \A j \in 1..Len(engine.queue) : engine.queue[j].gen = gen /\ hablando
OfBefore == \A u \in late \cup timers : u.gen <= gen

\* The sentence that is under way is in one place, once, and it is the one that is
\* highlighted.
OneThread ==
  ~doubled =>
    /\ Len(engine.queue) <= 1
    /\ engine.queue # <<>> => /\ engine.queue[1].k = i /\ marked = i
                              /\ \A u \in late \cup timers : u.gen # gen
    /\ \A u, v \in late \cup timers : u.gen = gen /\ v.gen = gen => u = v
    /\ \A u \in late : u.gen = gen => u \notin timers

NarratorInv == NarratorTyped /\ OnlyOurs /\ OfBefore /\ OneThread

\* What is in the queue is an utterance at a place of it.
LEMMA InQueue ==
  ASSUME NarratorTyped
  PROVE  /\ engine.queue \in Seq(Utterances)
         /\ \A u \in Range(engine.queue) : u \in Utterances /\ \E j \in 1..Len(engine.queue) : u = engine.queue[j]
<1>1. engine.queue \in Seq(Utterances)
  BY DEF NarratorTyped, Engines
<1> QED
  BY <1>1 DEF Range

\* An engine with another queue.
LEMMA Requeued ==
  ASSUME NEW e \in Engines, NEW q \in Seq(Utterances)
  PROVE  /\ [e EXCEPT !.queue = q] \in Engines /\ [e EXCEPT !.queue = q].queue = q
         /\ [e EXCEPT !.queue = q].paused = e.paused
BY DEF Engines

\* Nothing is read yet.
LEMMA NarratorStarts == NarratorInit => NarratorInv
<1> SUFFICES ASSUME NarratorInit PROVE NarratorInv
  OBVIOUS
<1>1. /\ engine \in Engines
      /\ engine.queue = <<>>
  <2>1. PICK v \in Voices : engine = [queue |-> <<>>, paused |-> FALSE, voices |-> v]
    BY DEF NarratorInit
  <2>2. <<>> \in Seq(Utterances)
    OBVIOUS
  <2> QED
    BY <2>1, <2>2 DEF Engines
<1> QED
  BY <1>1 DEF NarratorInit, NarratorInv, NarratorTyped, OnlyOurs, OfBefore, OneThread

\* A reading that is given up for none or for a new one: nothing of it is of the new
\* generation.
LEMMA Anew ==
  ASSUME NarratorInv, gen' = gen + 1, i' \in Nat, said' \in Nat,
         engine' \in Engines,
         late' \subseteq late \cup Range(engine.queue), timers' \subseteq timers,
         \/ engine'.queue = <<>>
         \/ \E u \in Utterances : /\ engine'.queue = <<u>> /\ u.gen = gen + 1 /\ u.k = i'
                                  /\ marked' = i' /\ hablando'
  PROVE  NarratorInv'
<1>0. NarratorTyped /\ OnlyOurs /\ OfBefore
  BY DEF NarratorInv
<1>1. \A u \in Range(engine.queue) : u \in Utterances /\ u.gen = gen
  BY <1>0, InQueue DEF OnlyOurs
<1>2. late' \subseteq Utterances /\ timers' \subseteq Utterances
  BY <1>0, <1>1 DEF NarratorTyped
<1>3. NarratorTyped'
  BY <1>0, <1>2 DEF NarratorTyped
<1>4. \A u \in late' \cup timers' : u.gen <= gen /\ u.gen \in Nat
  <2>1. \A u \in late \cup timers : u.gen <= gen /\ u.gen \in Nat
    BY <1>0 DEF OfBefore, NarratorTyped, Utterances
  <2>2. \A u \in Range(engine.queue) : u.gen <= gen /\ u.gen \in Nat
    BY <1>0, <1>1 DEF NarratorTyped
  <2> QED
    BY <2>1, <2>2
<1>5. \A u \in late' \cup timers' : u.gen # gen' /\ u.gen <= gen'
  BY <1>0, <1>4 DEF NarratorTyped
<1>6. OfBefore'
  BY <1>5 DEF OfBefore
<1>7. OnlyOurs'
  BY <1>3 DEF OnlyOurs
<1>8. Len(engine'.queue) <= 1 /\ (engine'.queue # <<>> => engine'.queue[1].k = i' /\ marked' = i')
  <2>1. CASE engine'.queue = <<>>
    BY <2>1
  <2>2. ASSUME NEW u \in Utterances, engine'.queue = <<u>>, u.k = i', marked' = i'
        PROVE  Len(engine'.queue) <= 1 /\ engine'.queue[1].k = i' /\ marked' = i'
    BY <2>2
  <2> QED
    BY <2>1, <2>2
<1>9. OneThread'
  BY <1>5, <1>8 DEF OneThread
<1> QED
  BY <1>3, <1>6, <1>7, <1>9 DEF NarratorInv

\* What is said after what is over is the only thing under way.
LEMMA Onward ==
  ASSUME NarratorInv, hablando', gen' = gen,
         NEW k \in Nat, Says(k, gen, engine.queue),
         late' \subseteq late, timers' \subseteq timers,
         ~doubled' => engine.queue = <<>> /\ \A u \in late' \cup timers' : u.gen # gen
  PROVE  NarratorInv'
<1>0. NarratorTyped /\ OnlyOurs /\ OfBefore /\ OneThread
  BY DEF NarratorInv
<1> DEFINE u == [n |-> said + 1, k |-> k, gen |-> gen]
<1>1. u \in Utterances /\ u.gen = gen /\ u.k = k
  BY <1>0 DEF NarratorTyped, Utterances
<1>2. /\ engine'.queue = Append(engine.queue, u) /\ i' = k /\ marked' = k /\ said' \in Nat
      /\ engine' \in Engines
  <2>1. Append(engine.queue, u) \in Seq(Utterances)
    BY <1>0, <1>1, InQueue
  <2>2. engine' = [engine EXCEPT !.queue = Append(engine.queue, u)] /\ i' = k /\ marked' = k /\ said' = said + 1
    BY DEF Says, Lights
  <2>3. said' \in Nat
    BY <1>0, <2>2 DEF NarratorTyped
  <2>4. engine \in Engines
    BY <1>0 DEF NarratorTyped
  <2> HIDE DEF u
  <2>5. engine'.queue = Append(engine.queue, u) /\ engine' \in Engines
    BY <2>1, <2>2, <2>4, Requeued
  <2> QED
    BY <2>2, <2>3, <2>5
<1> HIDE DEF u
<1>3. NarratorTyped'
  BY <1>0, <1>2 DEF NarratorTyped
<1>4. \A j \in 1..Len(engine'.queue) : engine'.queue[j].gen = gen'
  BY <1>0, <1>1, <1>2, InQueue DEF OnlyOurs
<1>5. OnlyOurs' /\ OfBefore'
  BY <1>0, <1>4 DEF OnlyOurs, OfBefore
<1>6. ASSUME ~doubled' PROVE engine'.queue = <<u>> /\ \A v \in late' \cup timers' : v.gen # gen'
  <2>1. engine.queue = <<>> /\ \A v \in late' \cup timers' : v.gen # gen
    BY <1>6
  <2>2. Append(<<>>, u) = <<u>>
    OBVIOUS
  <2> QED
    BY <1>2, <2>1, <2>2
<1>7. OneThread'
  BY <1>1, <1>2, <1>6 DEF OneThread
<1> QED
  BY <1>3, <1>5, <1>7 DEF NarratorInv

\* The end of an utterance, well or badly: the next one is said, or the reading is over.
LEMMA NextKeeps ==
  ASSUME NarratorInv, NEW u \in late \cup timers, u.gen = gen, hablando,
         NEW rest \in SUBSET late, Next1(u.k, rest), timers' \subseteq timers,
         \A v \in rest \cup timers' : v # u \/ doubled
  PROVE  NarratorInv'
<1>0. NarratorTyped /\ OneThread
  BY DEF NarratorInv
<1>1. u \in Utterances /\ u.k \in Nat
  BY <1>0 DEF NarratorTyped, Utterances
<1>2. CASE u.k < Trozos
  <2>1. /\ Says(u.k + 1, gen, engine.queue) /\ late' = rest /\ hablando' = hablando /\ gen' = gen
        /\ doubled' = doubled
    BY <1>2 DEF Next1
  <2>2. ASSUME ~doubled PROVE engine.queue = <<>> /\ \A v \in late' \cup timers' : v.gen # gen
    BY <1>0, <2>1, <2>2 DEF OneThread
  <2> QED
    BY <1>1, <2>1, <2>2, Onward
<1>3. CASE ~(u.k < Trozos)
  <2>1. /\ Stops /\ late' \subseteq late \cup Range(engine.queue)
    BY <1>3 DEF Next1
  <2> QED
    <3>1. engine' = [engine EXCEPT !.queue = <<>>] /\ i' = 1 /\ said' = said /\ gen' = gen + 1
      BY <2>1 DEF Stops
    <3>2. <<>> \in Seq(Utterances)
      OBVIOUS
    <3>3. engine' \in Engines /\ engine'.queue = <<>>
      BY <1>0, <3>1, <3>2, Requeued DEF NarratorTyped
    <3> QED
      BY <1>0, <2>1, <3>1, <3>3, Anew DEF NarratorTyped
<1> QED
  BY <1>2, <1>3

\* An utterance that is over, one whose end is heard, and the breath after it.
LEMMA EngineKeeps ==
  ASSUME NarratorInv, Finishes \/ Begins \/ \E v \in Voices : VoicesChange(v)
  PROVE  NarratorInv'
<1>0. NarratorTyped /\ OnlyOurs /\ OfBefore /\ OneThread
  BY DEF NarratorInv
<1>1. ASSUME Finishes PROVE NarratorInv'
  <2>1. /\ engine.queue \in Seq(Utterances) /\ engine.queue # <<>>
        /\ engine' = [engine EXCEPT !.queue = Tail(engine.queue)] /\ late' = late \cup {engine.queue[1]}
        /\ UNCHANGED <<i, hablando, gen, marked, timers, said, doubled>>
    BY <1>0, <1>1, InQueue DEF Finishes
  <2> DEFINE head == engine.queue[1]
  <2>2. /\ head \in Utterances /\ head.gen = gen /\ hablando
        /\ Len(Tail(engine.queue)) = Len(engine.queue) - 1 /\ Tail(engine.queue) \in Seq(Utterances)
        /\ \A j \in 1..Len(Tail(engine.queue)) : Tail(engine.queue)[j] = engine.queue[j + 1]
    BY <1>0, <2>1 DEF OnlyOurs
  <2>3. engine' \in Engines /\ engine'.queue = Tail(engine.queue)
    BY <1>0, <2>1, <2>2, Requeued DEF NarratorTyped
  <2>4. NarratorTyped'
    BY <1>0, <2>1, <2>2, <2>3 DEF NarratorTyped
  <2>5. OnlyOurs'
    BY <1>0, <2>1, <2>2, <2>3 DEF OnlyOurs
  <2>6. OfBefore'
    BY <1>0, <2>1, <2>2 DEF OfBefore, NarratorTyped
  <2>7. ASSUME ~doubled PROVE Len(engine'.queue) = 0 /\ \A u \in late \cup timers : u.gen # gen
    <3>1. Len(engine.queue) <= 1 /\ \A u \in late \cup timers : u.gen # gen
      BY <1>0, <2>1, <2>7 DEF OneThread
    <3>2. Len(engine.queue) \in Nat /\ Len(engine.queue) > 0
      BY <2>1
    <3> QED
      <4>1. Len(Tail(engine.queue)) = 0
        <5>1. Len(Tail(engine.queue)) = Len(engine.queue) - 1
          BY <2>2
        <5>2. \A n \in Nat : n <= 1 /\ n > 0 => n = 1
          OBVIOUS
        <5>3. Len(engine.queue) = 1
          BY <3>1, <3>2, <5>2
        <5> QED
          BY <5>1, <5>3
      <4> QED
        BY <2>3, <3>1, <4>1
  <2> HIDE DEF head
  <2>8. ASSUME ~doubled PROVE engine'.queue = <<>> /\ \A u \in late' \cup timers' : u.gen = gen => u = head
    BY <2>1, <2>2, <2>3, <2>7, <2>8 DEF head
  <2>9. OneThread'
    BY <2>1, <2>2, <2>7, <2>8 DEF OneThread
  <2> QED
    BY <2>4, <2>5, <2>6, <2>9 DEF NarratorInv
<1>2. ASSUME Begins PROVE NarratorInv'
  BY <1>0, <1>2 DEF Begins, NarratorInv, NarratorTyped, OnlyOurs, OfBefore, OneThread
<1>3. ASSUME NEW v \in Voices, VoicesChange(v) PROVE NarratorInv'
  <2>1. engine' \in Engines /\ engine'.queue = engine.queue
    BY <1>0, <1>3 DEF VoicesChange, NarratorTyped, Engines
  <2> QED
    BY <1>0, <1>3, <2>1 DEF VoicesChange, NarratorInv, NarratorTyped, OnlyOurs, OfBefore, OneThread
<1> QED
  BY <1>1, <1>2, <1>3

\* What the engine calls back, in its time or late.
LEMMA CallbacksKeep ==
  ASSUME NarratorInv, (\E u \in late : Ended(u) \/ Failed(u)) \/ \E u \in timers : Breathed(u)
  PROVE  NarratorInv'
<1>0. NarratorTyped /\ OnlyOurs /\ OfBefore /\ OneThread
  BY DEF NarratorInv
<1>1. ASSUME NEW u \in late, Ended(u) PROVE NarratorInv'
  <2>1. /\ late' = late \ {u} /\ timers' = IF Vigente(u) THEN timers \cup {u} ELSE timers
        /\ UNCHANGED <<i, hablando, gen, engine, marked, said, doubled>>
    BY <1>1 DEF Ended
  <2>2. NarratorTyped' /\ OnlyOurs' /\ OfBefore'
    BY <1>0, <2>1 DEF NarratorTyped, OnlyOurs, OfBefore
  <2>3. OneThread'
    BY <1>0, <2>1 DEF OneThread
  <2> QED
    BY <2>2, <2>3 DEF NarratorInv
<1>2. ASSUME NEW u \in late, Failed(u) PROVE NarratorInv'
  <2>1. CASE Vigente(u)
    <3>1. u.gen = gen /\ hablando /\ Next1(u.k, late \ {u}) /\ timers' = timers
      BY <1>2, <2>1 DEF Failed, Vigente
    <3>2. \A v \in (late \ {u}) \cup timers' : v # u \/ doubled
      BY <1>0, <3>1 DEF OneThread
    <3> QED
      BY <3>1, <3>2, NextKeeps
  <2>2. CASE ~Vigente(u)
    <3>1. late' = late \ {u} /\ UNCHANGED <<i, hablando, gen, engine, marked, said, doubled, timers>>
      BY <1>2, <2>2 DEF Failed
    <3> QED
      BY <1>0, <3>1 DEF NarratorInv, NarratorTyped, OnlyOurs, OfBefore, OneThread
  <2> QED
    BY <2>1, <2>2
<1>3. ASSUME NEW u \in timers, Breathed(u) PROVE NarratorInv'
  <2>1. CASE Vigente(u)
    <3>1. u.gen = gen /\ hablando /\ Next1(u.k, late) /\ timers' = timers \ {u}
      BY <1>3, <2>1 DEF Breathed, Vigente
    <3>2. \A v \in late \cup timers' : v # u \/ doubled
      BY <1>0, <3>1 DEF OneThread
    <3> QED
      BY <3>1, <3>2, NextKeeps
  <2>2. CASE ~Vigente(u)
    <3>1. timers' = timers \ {u} /\ UNCHANGED <<i, hablando, gen, engine, marked, said, doubled, late>>
      BY <1>3, <2>2 DEF Breathed
    <3> QED
      BY <1>0, <3>1 DEF NarratorInv, NarratorTyped, OnlyOurs, OfBefore, OneThread
  <2> QED
    BY <2>1, <2>2
<1> QED
  BY <1>1, <1>2, <1>3

\* What the reader does with the bar: read, pause, go on, jump, change the voice, stop.
LEMMA BarKeeps ==
  ASSUME NarratorInv, Checks \/ Arranca \/ Sigue \/ Retunes \/ Parar \/ \E does \in BOOLEAN : Pausa(does)
  PROVE  NarratorInv'
<1>0. NarratorTyped /\ OnlyOurs /\ OfBefore /\ OneThread
  BY DEF NarratorInv
<1>e. engine \in Engines /\ engine.queue \in Seq(Utterances) /\ <<>> \in Seq(Utterances)
  BY <1>0 DEF NarratorTyped, Engines
<1>1. ASSUME Checks PROVE NarratorInv'
  <2>1. CASE engine.paused
    BY <1>0, <1>1, <2>1 DEF Checks, NarratorInv, NarratorTyped, OnlyOurs, OfBefore, OneThread
  <2>2. CASE ~engine.paused
    <3>1. /\ engine' = [engine EXCEPT !.queue = <<>>]
          /\ \E some \in SUBSET Range(engine.queue) : late' = late \cup some
          /\ UNCHANGED <<i, hablando, gen, marked, timers, said, doubled>>
      BY <1>1, <2>2 DEF Checks, Cancels
    <3>2. engine' \in Engines /\ engine'.queue = <<>>
      BY <1>e, <3>1, Requeued
    <3>3. \A u \in Range(engine.queue) : u \in Utterances /\ u.gen = gen /\ \E j \in 1..Len(engine.queue) : u = engine.queue[j]
      BY <1>0, InQueue DEF OnlyOurs
    <3>4. NarratorTyped' /\ OnlyOurs' /\ OfBefore'
      BY <1>0, <3>1, <3>2, <3>3 DEF NarratorTyped, OnlyOurs, OfBefore
    <3>5. ASSUME ~doubled, NEW u \in Range(engine.queue)
          PROVE  u = engine.queue[1] /\ \A v \in late \cup timers : v.gen # gen
      <4>1. Len(engine.queue) \in Nat /\ Len(engine.queue) <= 1 /\ Len(engine.queue) > 0
        BY <1>0, <1>e, <3>3, <3>5 DEF OneThread
      <4>2. engine.queue # <<>>
        BY <4>1
      <4> QED
        BY <1>0, <3>3, <3>5, <4>1, <4>2 DEF OneThread
    <3>6. OneThread'
      BY <1>0, <3>1, <3>2, <3>5 DEF OneThread
    <3> QED
      BY <3>4, <3>6 DEF NarratorInv
  <2> QED
    BY <2>1, <2>2
<1>2. ASSUME Arranca \/ Retunes PROVE NarratorInv'
  <2> DEFINE u == [n |-> said + 1, k |-> i, gen |-> gen + 1]
  <2>1. /\ gen' = gen + 1 /\ said' = said + 1 /\ i' = i /\ marked' = i /\ timers' = timers /\ hablando'
        /\ engine' = [engine EXCEPT !.queue = Append(<<>>, u)]
        /\ late' \subseteq late \cup Range(engine.queue)
    BY <1>2 DEF Arranca, Retunes, Says, Lights, Cancels
  <2>2. u \in Utterances /\ u.gen = gen + 1 /\ u.k = i
    BY <1>0 DEF NarratorTyped, Utterances
  <2> HIDE DEF u
  <2>3. Append(<<>>, u) = <<u>> /\ <<u>> \in Seq(Utterances)
    BY <2>2
  <2>4. engine' \in Engines /\ engine'.queue = <<u>>
    BY <1>e, <2>1, <2>3, Requeued
  <2>5. said' \in Nat /\ i' \in Nat
    BY <1>0, <2>1 DEF NarratorTyped
  <2> QED
    BY <2>1, <2>2, <2>4, <2>5, Anew
<1>3. ASSUME Parar PROVE NarratorInv'
  <2>1. /\ engine' = [engine EXCEPT !.queue = <<>>] /\ i' = 1 /\ said' = said /\ gen' = gen + 1
        /\ timers' = timers /\ late' \subseteq late \cup Range(engine.queue)
    BY <1>3 DEF Parar, Stops, Cancels
  <2>2. engine' \in Engines /\ engine'.queue = <<>>
    BY <1>e, <2>1, Requeued
  <2> QED
    BY <1>0, <2>1, <2>2, Anew DEF NarratorTyped
<1>4. ASSUME Sigue PROVE NarratorInv'
  <2>1. CASE engine.paused
    <3>1. engine' \in Engines /\ engine'.queue = engine.queue
      BY <1>4, <1>e, <2>1 DEF Sigue, Engines
    <3> QED
      BY <1>0, <1>4, <2>1, <3>1 DEF Sigue, NarratorInv, NarratorTyped, OnlyOurs, OfBefore, OneThread
  <2>2. CASE ~engine.paused
    <3>1. /\ Says(i, gen, engine.queue) /\ hablando' = hablando /\ hablando /\ gen' = gen
          /\ late' = late /\ timers' = timers /\ doubled' = (doubled \/ Underway # {})
      BY <1>4, <2>2 DEF Sigue
    <3>2. ASSUME ~doubled' PROVE engine.queue = <<>> /\ \A v \in late' \cup timers' : v.gen # gen
      <4>1. Underway = {}
        BY <3>1, <3>2
      <4>2. \A j \in 1..Len(engine.queue) : engine.queue[j] \in Underway
        BY <1>0, <1>e DEF OnlyOurs, Underway, Range
      <4> QED
        BY <1>e, <3>1, <4>1, <4>2 DEF Underway
    <3>3. i \in Nat /\ hablando'
      BY <1>0, <3>1 DEF NarratorTyped
    <3> QED
      BY <3>1, <3>2, <3>3, Onward
  <2> QED
    BY <2>1, <2>2
<1>5. ASSUME NEW does \in BOOLEAN, Pausa(does) PROVE NarratorInv'
  <2>1. engine' \in Engines /\ engine'.queue = engine.queue
    BY <1>5, <1>e DEF Pausa, Engines
  <2> QED
    BY <1>0, <1>5, <2>1 DEF Pausa, NarratorInv, NarratorTyped, OnlyOurs, OfBefore, OneThread
<1> QED
  BY <1>1, <1>2, <1>3, <1>4, <1>5

\* Every step of the narrator keeps its invariant.
LEMMA NarratorHolds == NarratorSpec => []NarratorInv
<1>1. ASSUME NarratorInv, UNCHANGED narratorVars PROVE NarratorInv'
  BY <1>1 DEF narratorVars, NarratorInv, NarratorTyped, OnlyOurs, OfBefore, OneThread
<1>2. NarratorInv /\ [NarratorNext]_narratorVars => NarratorInv'
  BY <1>1, EngineKeeps, CallbacksKeep, BarKeeps DEF NarratorNext
<1> QED
  BY <1>2, NarratorStarts, PTL DEF NarratorSpec

\* One voice, however many sentences there are and whatever the reader, the engine and the
\* callbacks of abandoned readings do.
THEOREM OneVoiceReads == NarratorSpec => []OneVoice
<1>1. ASSUME NarratorInv PROVE OneVoice
  <2>0. NarratorTyped /\ OnlyOurs /\ OneThread
    BY <1>1 DEF NarratorInv
  <2>1. \A u \in Range(engine.queue) : u.gen = gen /\ hablando
    BY <2>0, InQueue DEF OnlyOurs
  <2>2. ASSUME ~doubled PROVE \A u, v \in Underway : u = v
    <3>1. ASSUME NEW u \in Underway, NEW v \in Underway, u \in Range(engine.queue) PROVE u = v
      <4>1. Len(engine.queue) <= 1 /\ Len(engine.queue) \in Nat
        BY <2>0, <2>2, InQueue DEF OneThread
      <4>2. u = engine.queue[1] /\ engine.queue # <<>>
        BY <2>0, <3>1, <4>1, InQueue
      <4>3. v \in Range(engine.queue)
        BY <2>0, <2>2, <4>2 DEF OneThread, Underway
      <4> QED
        BY <2>0, <4>1, <4>2, <4>3, InQueue
    <3>2. \A u, v \in Underway : u \notin Range(engine.queue) /\ v \notin Range(engine.queue) => u = v
      BY <2>0, <2>2 DEF OneThread, Underway
    <3> QED
      BY <3>1, <3>2
  <2>3. ASSUME ~doubled PROVE Cardinality(Underway) <= 1
    <3>1. CASE Underway = {}
      BY <3>1, FS_EmptySet
    <3>2. ASSUME NEW u \in Underway PROVE Cardinality(Underway) = 1
      <4>1. Underway = {u}
        BY <2>2, <2>3, <3>2
      <4> QED
        BY <4>1, FS_Singleton
    <3> QED
      BY <3>1, <3>2
  <2> QED
    BY <2>0, <2>1, <2>3 DEF OneVoice, OneThread
<1> QED
  BY <1>1, NarratorHolds, PTL

-----------------------------------------------------------------------------
(* The lesson page: the lab, and the questions under it. *)

Lines == [n : Marks, err : Nat, moved : BOOLEAN]
LabTyped ==
  /\ kind \in Kinds /\ moved \in BOOLEAN /\ tries \in Seq(Lines)
  /\ kind = "hotcold" => draft = answer /\ draft \in {<<m>> : m \in Marks}
  /\ sent # Idle /\ kind = "hotcold" => sent.answer \in {<<m>> : m \in Marks}
\* What is awaited is what the controls show, unless they were used meanwhile.
LabFollows ==
  /\ sent # Idle /\ ~moved => sent.answer = answer
  /\ kind # "hotcold" /\ verdict # "none" /\ ~moved => (verdict = "ok") = (answer = Solution)
  /\ \A k \in 1..Len(tries) : ~tries[k].moved => tries[k].err = Distance(tries[k].n)
Backs == [at : {"back"}, answer : {<<o>> : o \in Options}, score : SUBSET Questions, turn : Nat]
Requests == {Idle} \cup [at : {"out"}, answer : {<<o>> : o \in Options}] \cup Backs
QuizTyped ==
  /\ pick \in [Questions -> {Null} \cup {<<o>> : o \in Options}] /\ shown \in [Questions -> {"none", "ok", "bad"}]
  /\ asked \in [Questions -> Requests] /\ solved \subseteq Questions /\ score \subseteq solved
  /\ turn \in Nat /\ newest \in 0..turn /\ crossed \in BOOLEAN
\* A question's options are not used while it is asked.
QuizFollows ==
  \A q \in Questions :
    /\ asked[q] # Idle => asked[q].answer = pick[q]
    /\ shown[q] # "none" => (shown[q] = "ok") = (pick[q] = <<Right>>)
\* The scores the api gives grow from turn to turn.
ScoresGrow ==
  /\ \A q \in Questions : asked[q].at = "back" =>
       /\ asked[q].turn \in 1..turn /\ asked[q].score \subseteq solved
       /\ asked[q].answer = <<Right>> => q \in asked[q].score
       /\ asked[q].turn >= newest => score \subseteq asked[q].score
       /\ \A p \in Questions : asked[p].at = "back" /\ asked[p].turn <= asked[q].turn
            => asked[p].score \subseteq asked[q].score
  /\ ~crossed => \A q \in Questions : shown[q] = "ok" => q \in score
LabInv == LabTyped /\ LabFollows
QuizInv == QuizTyped /\ QuizFollows /\ ScoresGrow

\* The error of a mark is a number.
LEMMA Apart == ASSUME NEW x \in Marks PROVE Distance(x) \in Nat
BY PageAssumption DEF Distance

\* An untouched lab has no verdict.
LEMMA LabStarts == PageInit => LabInv
<1> SUFFICES ASSUME PageInit PROVE LabInv
  OBVIOUS
<1>1. kind = "hotcold" => draft = answer /\ draft \in {<<m>> : m \in Marks}
  <2>1. Min(Marks) \in Marks /\ \A k \in Marks : Min(Marks) <= k
    BY PageAssumption, Least
  <2>2. (CHOOSE m \in Marks : \A n \in Marks : m <= n) \in Marks
    BY <2>1
  <2>3. kind = "hotcold" => Blank = <<CHOOSE m \in Marks : \A n \in Marks : m <= n>>
    BY DEF Blank
  <2> QED
    BY <2>2, <2>3 DEF PageInit, Sliders
<1>2. LabTyped
  <2>1. <<>> \in Seq(Lines)
    OBVIOUS
  <2>2. tries = <<>> /\ moved = FALSE /\ sent = Idle /\ kind \in Kinds
    BY DEF PageInit
  <2> QED
    BY <1>1, <2>1, <2>2 DEF LabTyped
<1>3. LabFollows
  BY DEF PageInit, LabFollows
<1> QED
  BY <1>2, <1>3 DEF LabInv

\* The controls are used, or the lab is reset.
LEMMA TouchKeeps == ASSUME LabInv, Edit \/ Reset PROVE LabInv'
<1>0. LabTyped /\ LabFollows
  BY DEF LabInv
<1>1. UNCHANGED <<kind, tries, sent>> /\ moved' = (sent # Idle)
  BY DEF Edit, Reset
<1>2. kind = "hotcold" => draft' = answer' /\ draft' \in {<<m>> : m \in Marks}
  <2>1. ASSUME kind = "hotcold", Edit PROVE draft' = answer' /\ draft' \in {<<m>> : m \in Marks}
    <3>1. Edits = SliderEdits
      BY <2>1 DEF Edits
    <3> QED
      BY <2>1, <3>1 DEF Edit, SliderEdits
  <2>2. ASSUME kind = "hotcold", Reset PROVE draft' = answer' /\ draft' \in {<<m>> : m \in Marks}
    <3>1. draft' = draft /\ answer' = answer
      BY <2>2 DEF Reset, ResetAnswer
    <3> QED
      BY <1>0, <2>2, <3>1 DEF LabTyped
  <2> QED
    BY <2>1, <2>2
<1>3. kind # "hotcold" => verdict' = "none"
  BY DEF Edit, Reset
<1>4. LabTyped'
  BY <1>0, <1>1, <1>2 DEF LabTyped
<1>5. LabFollows'
  BY <1>0, <1>1, <1>3 DEF LabFollows, Distance
<1> QED
  BY <1>4, <1>5 DEF LabInv

\* The lab is sent, and lost.
LEMMA SendKeeps == ASSUME LabInv, Send \/ Lost PROVE LabInv'
<1>0. LabTyped /\ LabFollows
  BY DEF LabInv
<1>1. UNCHANGED <<kind, draft, answer, verdict, tries, moved>>
  BY DEF Send, Lost
<1>2. sent' # Idle => sent'.answer = answer
  BY DEF Send, Lost
<1>3. LabTyped'
  BY <1>0, <1>1, <1>2 DEF LabTyped
<1>4. LabFollows'
  BY <1>0, <1>1, <1>2 DEF LabFollows, Distance, Solution
<1> QED
  BY <1>3, <1>4 DEF LabInv

\* The verdict is of what was sent: what the controls show, unless they were used.
LEMMA AnsweredKeeps == ASSUME LabInv, Answered PROVE LabInv'
<1>0. LabTyped /\ LabFollows
  BY DEF LabInv
<1>1. UNCHANGED <<kind, draft, answer, moved>> /\ sent # Idle /\ sent' = Idle /\ Judge(sent.answer = Solution) /\ Tried
  BY DEF Answered
<1>2. Solution' = Solution
  BY <1>1 DEF Solution
<1>3. kind # "hotcold" /\ verdict' # "none" /\ ~moved => (verdict' = "ok") = (answer = Solution)
  BY <1>0, <1>1 DEF Judge, LabFollows
<1>4. CASE kind # "hotcold"
  <2>1. tries' = tries
    BY <1>1, <1>4 DEF Tried
  <2> QED
    BY <1>0, <1>1, <1>2, <1>3, <2>1 DEF LabInv, LabTyped, LabFollows, Distance
<1>5. CASE kind = "hotcold"
  <2> DEFINE line == [n |-> draft[1], err |-> Distance(sent.answer[1]), moved |-> moved]
  <2>1. PICK m \in Marks : draft = <<m>>
    BY <1>0, <1>5 DEF LabTyped
  <2>2. PICK k \in Marks : sent.answer = <<k>>
    BY <1>0, <1>1, <1>5 DEF LabTyped
  <2>3. line.n = m /\ line.err = Distance(k) /\ line.moved = moved
    BY <2>1, <2>2
  <2>4. line \in Lines
    BY <1>0, <2>1, <2>2, Apart DEF Lines, LabTyped
  <2>5. ~moved => m = k
    BY <1>0, <1>1, <1>5, <2>1, <2>2 DEF LabFollows, LabTyped
  <2>6. tries' = Append(tries, line)
    BY <1>1, <1>5 DEF Tried
  <2> HIDE DEF line
  <2>7. /\ tries' \in Seq(Lines) /\ Len(tries') = Len(tries) + 1
        /\ \A j \in 1..Len(tries) : tries'[j] = tries[j]
        /\ tries'[Len(tries) + 1] = line
    BY <1>0, <2>4, <2>6, AppendProperties DEF LabTyped
  <2>8. ASSUME NEW j \in 1..Len(tries'), ~tries'[j].moved PROVE tries'[j].err = Distance(tries'[j].n)
    <3>0. Len(tries) \in Nat
      BY <1>0, LenProperties DEF LabTyped
    <3>1. CASE j = Len(tries) + 1
      BY <2>3, <2>5, <2>7, <2>8, <3>1
    <3>2. CASE j # Len(tries) + 1
      <4>1. j \in 1..Len(tries)
        BY <2>7, <3>0, <3>2
      <4> QED
        BY <1>0, <2>7, <2>8, <4>1 DEF LabFollows
    <3> QED
      BY <3>1, <3>2
  <2>9. LabTyped'
    BY <1>0, <1>1, <2>7 DEF LabTyped
  <2>10. LabFollows'
    BY <1>1, <1>5, <2>8 DEF LabFollows, Distance
  <2> QED
    BY <2>9, <2>10 DEF LabInv
<1> QED
  BY <1>4, <1>5

\* No question is asked yet.
LEMMA QuizStarts == PageInit => QuizInv
<1> SUFFICES ASSUME PageInit PROVE QuizInv
  OBVIOUS
<1>1. QuizTyped
  <2>1. Idle \in Requests
    BY DEF Requests
  <2>2. /\ pick = [q \in Questions |-> Null] /\ shown = [q \in Questions |-> "none"]
        /\ asked = [q \in Questions |-> Idle] /\ solved = {} /\ score = {}
        /\ turn = 0 /\ newest = 0 /\ crossed = FALSE
    BY DEF PageInit
  <2>3. pick \in [Questions -> {Null} \cup {<<o>> : o \in Options}]
    BY <2>2
  <2>4. shown \in [Questions -> {"none", "ok", "bad"}] /\ asked \in [Questions -> Requests]
    BY <2>1, <2>2
  <2>5. solved \subseteq Questions /\ score \subseteq solved
    BY <2>2
  <2>6. turn \in Nat /\ newest \in 0..turn
    BY <2>2
  <2>7. crossed \in BOOLEAN
    BY <2>2
  <2> QED
    BY <2>3, <2>4, <2>5, <2>6, <2>7 DEF QuizTyped
<1>2. QuizFollows
  BY DEF PageInit, QuizFollows
<1>3. ScoresGrow
  BY DEF PageInit, ScoresGrow, Idle
<1> QED
  BY <1>1, <1>2, <1>3 DEF QuizInv

\* An option is pressed, or taken back: its verdict goes.
LEMMA PressKeeps ==
  ASSUME QuizInv, NEW q \in Questions, ResetPick(q) \/ \E o \in Options : Pick(q, o)
  PROVE  QuizInv'
<1>0. QuizTyped /\ QuizFollows /\ ScoresGrow
  BY DEF QuizInv
<1>1. UNCHANGED <<asked, solved, score, turn, newest, crossed>> /\ asked[q] = Idle
  BY DEF ResetPick, Pick, Pressable
<1>2. /\ pick' \in [Questions -> {Null} \cup {<<o>> : o \in Options}] /\ shown' = [shown EXCEPT ![q] = "none"]
      /\ \A p \in Questions \ {q} : pick'[p] = pick[p]
  BY <1>0 DEF ResetPick, Pick, QuizTyped
<1>3. QuizTyped'
  BY <1>0, <1>1, <1>2 DEF QuizTyped
<1>4. shown'[q] = "none" /\ \A p \in Questions \ {q} : shown'[p] = shown[p]
  BY <1>0, <1>2 DEF QuizTyped
<1>5. QuizFollows'
  BY <1>0, <1>1, <1>2, <1>4 DEF QuizFollows
<1>6. ScoresGrow'
  BY <1>0, <1>1, <1>4 DEF ScoresGrow
<1> QED
  BY <1>3, <1>5, <1>6 DEF QuizInv

\* A question is asked, or its request is lost.
LEMMA AskKeeps == ASSUME QuizInv, NEW q \in Questions, Ask(q) \/ AskLost(q) PROVE QuizInv'
<1>0. QuizTyped /\ QuizFollows /\ ScoresGrow
  BY DEF QuizInv
<1>1. UNCHANGED <<pick, shown, solved, score, turn, newest, crossed>>
  BY DEF Ask, AskLost
<1>2. /\ asked' \in [Questions -> Requests] /\ \A p \in Questions \ {q} : asked'[p] = asked[p]
      /\ asked'[q].at # "back" /\ (asked'[q] # Idle => asked'[q].answer = pick[q])
  <2>1. CASE Ask(q)
    <3>1. pick[q] \in {<<o>> : o \in Options}
      BY <1>0, <2>1 DEF Ask, QuizTyped
    <3>2. [at |-> "out", answer |-> pick[q]] \in Requests
      BY <3>1 DEF Requests
    <3> QED
      BY <1>0, <2>1, <3>2 DEF Ask, QuizTyped
  <2>2. CASE AskLost(q)
    BY <1>0, <2>2 DEF AskLost, QuizTyped, Requests, Idle
  <2> QED
    BY <2>1, <2>2
<1>3. QuizTyped'
  BY <1>0, <1>1, <1>2 DEF QuizTyped
<1>4. QuizFollows'
  BY <1>0, <1>1, <1>2 DEF QuizFollows
<1>5. ScoresGrow'
  BY <1>0, <1>1, <1>2 DEF ScoresGrow
<1> QED
  BY <1>3, <1>4, <1>5 DEF QuizInv

\* The api's turn: what it answers has everything it has recorded.
LEMMA GradesKeep == ASSUME QuizInv, NEW q \in Questions, Grades(q) PROVE QuizInv'
<1>0. QuizTyped /\ QuizFollows /\ ScoresGrow
  BY DEF QuizInv
<1>1. /\ UNCHANGED <<pick, shown, score, newest, crossed>> /\ asked[q].at = "out" /\ turn' = turn + 1
      /\ solved' = IF asked[q].answer = <<Right>> THEN solved \cup {q} ELSE solved
  BY DEF Grades
<1> DEFINE back == [at |-> "back", answer |-> asked[q].answer, score |-> solved', turn |-> turn']
<1>2. asked' = [asked EXCEPT ![q] = back]
  BY <1>0 DEF Grades, QuizTyped
<1>3. asked[q] # Idle /\ asked[q].answer \in {<<o>> : o \in Options}
  <2>1. asked[q] \in Requests
    BY <1>0 DEF QuizTyped
  <2> QED
    BY <1>1, <2>1 DEF Requests, Backs, Idle
<1>4. turn \in Nat /\ turn' \in Nat /\ newest \in 0..turn' /\ solved \subseteq solved' /\ solved' \subseteq Questions /\ score \subseteq solved'
  BY <1>0, <1>1 DEF QuizTyped
<1>5. back \in Requests
  BY <1>3, <1>4 DEF Requests, Backs
<1>6. back.at = "back" /\ back.answer = asked[q].answer /\ back.score = solved' /\ back.turn = turn'
  OBVIOUS
<1> HIDE DEF back
<1>7. asked' \in [Questions -> Requests] /\ asked'[q] = back /\ \A p \in Questions \ {q} : asked'[p] = asked[p]
  BY <1>0, <1>2, <1>5 DEF QuizTyped
<1>8. QuizTyped'
  BY <1>0, <1>1, <1>4, <1>7 DEF QuizTyped
<1>9. QuizFollows'
  BY <1>0, <1>1, <1>3, <1>6, <1>7 DEF QuizFollows
<1>10. ASSUME NEW p \in Questions, asked'[p].at = "back"
       PROVE  /\ asked'[p].turn \in 1..turn' /\ asked'[p].score \subseteq solved'
              /\ asked'[p].answer = <<Right>> => p \in asked'[p].score
              /\ asked'[p].turn >= newest => score \subseteq asked'[p].score
              /\ p # q => asked'[p].turn <= turn
  <2>1. CASE p = q
    BY <1>1, <1>4, <1>6, <1>7, <2>1
  <2>2. CASE p # q
    BY <1>0, <1>1, <1>4, <1>7, <1>10, <2>2 DEF ScoresGrow
  <2> QED
    BY <2>1, <2>2
<1>11. ASSUME NEW p \in Questions, asked'[p].at = "back",
              NEW g \in Questions, asked'[g].at = "back", asked'[g].turn <= asked'[p].turn
       PROVE  asked'[g].score \subseteq asked'[p].score
  <2>1. CASE p = q
    BY <1>6, <1>7, <1>10, <1>11, <2>1
  <2>2. CASE p # q
    <3>1. g # q
      BY <1>1, <1>4, <1>6, <1>7, <1>10, <1>11, <2>2
    <3> QED
      BY <1>0, <1>7, <1>11, <2>2, <3>1 DEF ScoresGrow
  <2> QED
    BY <2>1, <2>2
<1>12. ScoresGrow'
  BY <1>0, <1>1, <1>10, <1>11 DEF ScoresGrow
<1> QED
  BY <1>8, <1>9, <1>12 DEF QuizInv

\* An answer is shown: with a later turn than the last one its score holds every question
\* that was right before.
LEMMA ShowsKeep == ASSUME QuizInv, NEW q \in Questions, Shows(q) PROVE QuizInv'
<1>0. QuizTyped /\ QuizFollows /\ ScoresGrow
  BY DEF QuizInv
<1>1. /\ UNCHANGED <<pick, solved, turn>> /\ asked[q].at = "back" /\ asked' = [asked EXCEPT ![q] = Idle]
      /\ shown' = [shown EXCEPT ![q] = IF asked[q].answer = <<Right>> THEN "ok" ELSE "bad"]
      /\ score' = asked[q].score /\ newest' = asked[q].turn /\ crossed' = (crossed \/ newest' < newest)
  BY DEF Shows
<1>2. /\ asked[q].turn \in 1..turn /\ asked[q].score \subseteq solved
      /\ asked[q].answer = <<Right>> => q \in asked[q].score
      /\ asked[q].turn >= newest => score \subseteq asked[q].score
      /\ asked[q] # Idle /\ asked[q].answer = pick[q]
  BY <1>0, <1>1 DEF ScoresGrow, QuizFollows, Idle
<1>3. turn \in Nat /\ newest \in Nat /\ newest' \in 0..turn
  BY <1>0, <1>1, <1>2 DEF QuizTyped
<1>4. /\ asked' \in [Questions -> Requests] /\ asked'[q] = Idle /\ \A p \in Questions \ {q} : asked'[p] = asked[p]
  BY <1>0, <1>1 DEF QuizTyped, Requests
<1>5. /\ shown' \in [Questions -> {"none", "ok", "bad"}] /\ \A p \in Questions \ {q} : shown'[p] = shown[p]
      /\ shown'[q] = IF asked[q].answer = <<Right>> THEN "ok" ELSE "bad"
  BY <1>0, <1>1 DEF QuizTyped
<1>6. QuizTyped'
  BY <1>0, <1>1, <1>2, <1>3, <1>4, <1>5 DEF QuizTyped
<1>7. QuizFollows'
  BY <1>0, <1>1, <1>2, <1>4, <1>5 DEF QuizFollows
<1>8. ASSUME NEW p \in Questions, asked'[p].at = "back"
      PROVE  /\ p # q /\ asked[p].at = "back" /\ asked'[p] = asked[p]
             /\ asked'[p].turn >= newest' => score' \subseteq asked'[p].score
  <2>1. p # q /\ asked[p].at = "back" /\ asked'[p] = asked[p]
    BY <1>4, <1>8 DEF Idle
  <2>2. asked[q].turn <= asked[p].turn => asked[q].score \subseteq asked[p].score
    BY <1>0, <1>1, <2>1 DEF ScoresGrow
  <2>3. asked[p].turn \in Nat
    BY <1>0, <1>3, <2>1 DEF ScoresGrow
  <2> QED
    BY <1>1, <1>2, <1>3, <2>1, <2>2, <2>3
<1>9. ASSUME ~crossed', NEW p \in Questions, shown'[p] = "ok" PROVE p \in score'
  <2>1. score \subseteq score'
    <3>1. ~(newest' < newest)
      BY <1>1, <1>9
    <3> QED
      BY <1>1, <1>2, <1>3, <3>1
  <2>2. CASE p = q
    BY <1>1, <1>2, <1>5, <1>9, <2>2
  <2>3. CASE p # q
    BY <1>0, <1>1, <1>5, <1>9, <2>1, <2>3 DEF ScoresGrow
  <2> QED
    BY <2>2, <2>3
<1>10. ScoresGrow'
  BY <1>0, <1>1, <1>8, <1>9 DEF ScoresGrow
<1> QED
  BY <1>6, <1>7, <1>10 DEF QuizInv

\* Every step of the page keeps both invariants.
LEMMA PageHolds == PageSpec => [](LabInv /\ QuizInv)
<1>1. ASSUME LabInv, QuizInv, [PageNext]_pageVars PROVE LabInv' /\ QuizInv'
  <2>1. ASSUME UNCHANGED labVars PROVE LabInv'
    BY <1>1, <2>1 DEF labVars, LabInv, LabTyped, LabFollows, Solution, Distance
  <2>2. ASSUME UNCHANGED quizVars PROVE QuizInv'
    BY <1>1, <2>2 DEF quizVars, QuizInv, QuizTyped, QuizFollows, ScoresGrow
  <2>3. CASE Edit \/ Reset \/ Send \/ Answered \/ Lost
    <3>1. UNCHANGED quizVars
      BY <2>3 DEF Edit, Reset, Send, Answered, Lost
    <3> QED
      BY <1>1, <2>2, <2>3, <3>1, TouchKeeps, SendKeeps, AnsweredKeeps
  <2>4. ASSUME NEW q \in Questions,
               ResetPick(q) \/ Ask(q) \/ Grades(q) \/ Shows(q) \/ AskLost(q) \/ \E o \in Options : Pick(q, o)
        PROVE  LabInv' /\ QuizInv'
    <3>1. UNCHANGED labVars
      BY <2>4 DEF ResetPick, Ask, Grades, Shows, AskLost, Pick
    <3> QED
      BY <1>1, <2>1, <2>4, <3>1, PressKeeps, AskKeeps, GradesKeep, ShowsKeep
  <2>5. CASE UNCHANGED pageVars
    BY <2>1, <2>2, <2>5 DEF pageVars
  <2> QED
    BY <1>1, <2>3, <2>4, <2>5 DEF PageNext
<1> QED
  BY <1>1, LabStarts, QuizStarts, PTL DEF PageSpec

\* However the reader goes on while the api judges, and however its answers are lost or
\* overtake each other: the verdict beside an answer is the one of that answer, unless the
\* lab's controls were used meanwhile, and what is shown as right is in the score beside
\* it, unless two answers crossed.
THEOREM PageAlwaysTells == PageSpec => []PageTells
<1>1. ASSUME LabInv, QuizInv PROVE PageTells
  <2>1. \A t \in Range(tries) : ~t.moved => t.err = Distance(t.n)
    <3>1. tries \in Seq(Lines) /\ \A k \in 1..Len(tries) : ~tries[k].moved => tries[k].err = Distance(tries[k].n)
      BY <1>1 DEF LabInv, LabTyped, LabFollows
    <3>2. DOMAIN tries = 1..Len(tries)
      BY <3>1, LenProperties
    <3> QED
      BY <3>1, <3>2 DEF Range
  <2> QED
    BY <1>1, <2>1 DEF PageTells, LabInv, LabFollows, QuizInv, QuizFollows, ScoresGrow
<1> QED
  BY <1>1, PageHolds, PTL

-----------------------------------------------------------------------------
(* The choice of model and effort. *)

\* A picker that is mounted.
Mounted == [on : {TRUE}, list : Lists, carril : CARRILES, esfuerzo : ESFUERZOS]
PickTyped ==
  /\ blocked \in BOOLEAN
  /\ stored \in [carril : CARRILES \cup {"none"}, esfuerzo : ESFUERZOS \cup {"none"}]
  /\ pickers \in [Pages -> [Hosts -> Mounted \cup {Unmounted}]]
\* A page nobody wrote beside shows what the device keeps.
ShowsWhatIsKept ==
  \A w \in Pages : ~blocked /\ w \notin foreign => \A h \in Hosts : pickers[w][h].on =>
    pickers[w][h].carril = LeerCarril(stored) /\ pickers[w][h].esfuerzo = LeerEsfuerzo(stored)
PickInv == PickTyped /\ ShowsWhatIsKept

\* What is read is a lane and an effort, whatever is kept.
LEMMA KeptIsRead ==
  ASSUME PickTyped
  PROVE  LeerCarril(stored) \in CARRILES /\ LeerEsfuerzo(stored) \in ESFUERZOS
BY DEF PickTyped, LeerCarril, LeerEsfuerzo, CARRILES, ESFUERZOS

\* What is kept changes, and one page's pickers; those that are mounted on it show what is
\* kept then, and the other pages are foreign to it.
LEMMA OnePage ==
  ASSUME PickInv, NEW w \in Pages, NEW ps \in [Hosts -> Mounted \cup {Unmounted}],
         pickers' = [pickers EXCEPT ![w] = ps], UNCHANGED blocked,
         stored' \in [carril : CARRILES \cup {"none"}, esfuerzo : ESFUERZOS \cup {"none"}],
         \/ UNCHANGED stored /\ foreign \ {w} \subseteq foreign'
         \/ Pages \ {w} \subseteq foreign',
         ~blocked /\ w \notin foreign' => \A h \in Hosts : ps[h].on =>
           ps[h].carril = LeerCarril(stored') /\ ps[h].esfuerzo = LeerEsfuerzo(stored')
  PROVE  PickInv'
<1>0. PickTyped /\ ShowsWhatIsKept
  BY DEF PickInv
<1>1. PickTyped'
  BY <1>0 DEF PickTyped
<1>2. pickers'[w] = ps /\ \A v \in Pages \ {w} : pickers'[v] = pickers[v]
  BY <1>0 DEF PickTyped
<1>3. ASSUME NEW v \in Pages, ~blocked, v \notin foreign', NEW h \in Hosts, pickers'[v][h].on
      PROVE  pickers'[v][h].carril = LeerCarril(stored)' /\ pickers'[v][h].esfuerzo = LeerEsfuerzo(stored)'
  <2>1. CASE v = w
    BY <1>2, <1>3, <2>1 DEF LeerCarril, LeerEsfuerzo
  <2>2. CASE v # w
    <3>1. UNCHANGED stored /\ v \notin foreign /\ pickers'[v] = pickers[v]
      BY <1>2, <1>3, <2>2
    <3> QED
      BY <1>0, <1>3, <3>1 DEF ShowsWhatIsKept, LeerCarril, LeerEsfuerzo
  <2> QED
    BY <2>1, <2>2
<1>4. ShowsWhatIsKept'
  BY <1>3 DEF ShowsWhatIsKept
<1> QED
  BY <1>1, <1>4 DEF PickInv

\* The pickers of a page that read again show what they read.
LEMMA Synced ==
  ASSUME PickTyped, NEW ps \in [Hosts -> Mounted \cup {Unmounted}],
         NEW s \in [carril : CARRILES \cup {"none"}, esfuerzo : ESFUERZOS \cup {"none"}]
  PROVE  /\ Sync(ps, s) \in [Hosts -> Mounted \cup {Unmounted}]
         /\ \A h \in Hosts : Sync(ps, s)[h].on =>
              Sync(ps, s)[h].carril = LeerCarril(s) /\ Sync(ps, s)[h].esfuerzo = LeerEsfuerzo(s)
<1>1. LeerCarril(s) \in CARRILES /\ LeerEsfuerzo(s) \in ESFUERZOS
  BY DEF PickTyped, LeerCarril, LeerEsfuerzo, CARRILES, ESFUERZOS
<1>2. ASSUME NEW h \in Hosts
      PROVE  /\ Sync(ps, s)[h] \in Mounted \cup {Unmounted}
             /\ Sync(ps, s)[h].on => Sync(ps, s)[h].carril = LeerCarril(s) /\ Sync(ps, s)[h].esfuerzo = LeerEsfuerzo(s)
  <2>1. CASE ps[h].on
    <3> DEFINE q == [ps[h] EXCEPT !.carril = LeerCarril(s), !.esfuerzo = LeerEsfuerzo(s)]
    <3>1. ps[h] \in Mounted
      BY <2>1 DEF Unmounted
    <3>2. q \in Mounted /\ q.carril = LeerCarril(s) /\ q.esfuerzo = LeerEsfuerzo(s)
      BY <1>1, <3>1 DEF Mounted
    <3> QED
      BY <2>1, <3>2 DEF Sync
  <2>2. CASE ~ps[h].on
    <3>1. Sync(ps, s)[h] = ps[h]
      BY <2>2 DEF Sync
    <3> QED
      BY <2>2, <3>1
  <2> QED
    BY <2>1, <2>2
<1>3. Sync(ps, s) = [h \in Hosts |-> Sync(ps, s)[h]]
  BY DEF Sync
<1> QED
  BY <1>2, <1>3

\* No picker is mounted yet.
LEMMA PickStarts == PickInit => PickInv
<1> SUFFICES ASSUME PickInit PROVE PickInv
  OBVIOUS
<1>1. PickTyped
  BY DEF PickInit, PickTyped
<1>2. ShowsWhatIsKept
  BY DEF PickInit, ShowsWhatIsKept, Unmounted
<1> QED
  BY <1>1, <1>2 DEF PickInv

\* A lane or an effort is written from a page.
LEMMA WritesHere ==
  ASSUME PickInv, NEW w \in Pages, NEW ps \in [Hosts -> Mounted \cup {Unmounted}], UNCHANGED blocked,
         NEW s \in [carril : CARRILES \cup {"none"}, esfuerzo : ESFUERZOS \cup {"none"}], Escribe(w, s, ps)
  PROVE  PickInv'
<1>0. PickTyped
  BY DEF PickInv
<1>1. stored' \in [carril : CARRILES \cup {"none"}, esfuerzo : ESFUERZOS \cup {"none"}]
  BY <1>0 DEF Escribe, PickTyped
<1> DEFINE qs == Sync(ps, stored')
<1>2. pickers' = [pickers EXCEPT ![w] = qs] /\ Pages \ {w} \subseteq foreign'
  BY DEF Escribe
<1>3. /\ qs \in [Hosts -> Mounted \cup {Unmounted}]
      /\ \A h \in Hosts : qs[h].on => qs[h].carril = LeerCarril(stored') /\ qs[h].esfuerzo = LeerEsfuerzo(stored')
  BY <1>0, <1>1, Synced
<1> HIDE DEF qs
<1> QED
  BY <1>1, <1>2, <1>3, OnePage

\* A lane or an effort is pressed on a picker.
LEMMA PicksKeep ==
  ASSUME PickInv, NEW w \in Pages, NEW h \in Hosts,
         (\E c \in CARRILES : PickLane(w, h, c)) \/ (\E e \in {"medio", "alto"} : PickEffort(w, h, e))
  PROVE  PickInv'
<1>0. PickTyped
  BY DEF PickInv
<1>1. pickers[w] \in [Hosts -> Mounted \cup {Unmounted}]
  BY <1>0 DEF PickTyped
<1>2. ASSUME NEW c \in CARRILES, PickLane(w, h, c) PROVE PickInv'
  <2> DEFINE s == [stored EXCEPT !.carril = c]
             ps == [pickers[w] EXCEPT ![h].carril = c]
  <2>1. s \in [carril : CARRILES \cup {"none"}, esfuerzo : ESFUERZOS \cup {"none"}]
    BY <1>0 DEF PickTyped
  <2>2. pickers[w][h] \in Mounted
    BY <1>1, <1>2 DEF PickLane, Unmounted
  <2>3. [pickers[w][h] EXCEPT !.carril = c] \in Mounted
    BY <2>2 DEF Mounted
  <2>4. ps \in [Hosts -> Mounted \cup {Unmounted}]
    BY <1>1, <2>3
  <2>5. Escribe(w, s, ps) /\ UNCHANGED blocked
    BY <1>2 DEF PickLane, Picks
  <2> HIDE DEF s, ps
  <2> QED
    BY <2>1, <2>4, <2>5, WritesHere
<1>3. ASSUME NEW e \in {"medio", "alto"}, PickEffort(w, h, e) PROVE PickInv'
  <2> DEFINE s == [stored EXCEPT !.esfuerzo = e]
             ps == [pickers[w] EXCEPT ![h].esfuerzo = e]
  <2>0. e \in ESFUERZOS
    BY DEF ESFUERZOS
  <2>1. s \in [carril : CARRILES \cup {"none"}, esfuerzo : ESFUERZOS \cup {"none"}]
    BY <1>0, <2>0 DEF PickTyped
  <2>2. pickers[w][h] \in Mounted
    BY <1>1, <1>3 DEF PickEffort, Unmounted
  <2>3. [pickers[w][h] EXCEPT !.esfuerzo = e] \in Mounted
    BY <2>0, <2>2 DEF Mounted
  <2>4. ps \in [Hosts -> Mounted \cup {Unmounted}]
    BY <1>1, <2>3
  <2>5. Escribe(w, s, ps) /\ UNCHANGED blocked
    BY <1>3 DEF PickEffort, Picks
  <2> HIDE DEF s, ps
  <2> QED
    BY <2>1, <2>4, <2>5, WritesHere
<1> QED
  BY <1>2, <1>3

\* A picker that is mounted shows what is kept, or keeps what it shows.
LEMMA MountKeeps ==
  ASSUME PickInv, NEW w \in Pages, NEW h \in Hosts, NEW list \in Lists, Mount(w, h, list)
  PROVE  PickInv'
<1>0. PickTyped /\ ShowsWhatIsKept
  BY DEF PickInv
<1> DEFINE kept == LeerCarril(stored)
           falls == Vivos(list) # {} /\ kept \notin Vivos(list)
           own == [on |-> TRUE, list |-> list, carril |-> IF falls THEN Primero(list) ELSE kept,
                   esfuerzo |-> LeerEsfuerzo(stored)]
<1>1. own \in Mounted
  BY <1>0, KeptIsRead DEF Primero, CARRILES, Mounted
<1>2. own.carril = (IF falls THEN Primero(list) ELSE kept) /\ own.esfuerzo = LeerEsfuerzo(stored)
  OBVIOUS
<1>3. UNCHANGED blocked
  BY DEF Mount, Picks
<1>4. pickers[w] \in [Hosts -> Mounted \cup {Unmounted}]
  BY <1>0 DEF PickTyped
<1>5. CASE falls
  <2> DEFINE qs == [Sync(pickers[w], stored') EXCEPT ![h] = own]
  <2>1. /\ stored' = IF blocked THEN stored ELSE [stored EXCEPT !.carril = own.carril]
        /\ pickers' = [pickers EXCEPT ![w] = qs]
        /\ Pages \ {w} \subseteq foreign'
    BY <1>0, <1>5 DEF Mount, PickTyped
  <2>2. /\ stored' \in [carril : CARRILES \cup {"none"}, esfuerzo : ESFUERZOS \cup {"none"}]
        /\ ~blocked => stored'.carril = own.carril /\ stored'.esfuerzo = stored.esfuerzo
    <3>1. own.carril \in CARRILES
      BY <1>1 DEF Mounted
    <3> HIDE DEF own
    <3> QED
      BY <1>0, <2>1, <3>1 DEF PickTyped
  <2>3. ~blocked => own.carril = LeerCarril(stored') /\ own.esfuerzo = LeerEsfuerzo(stored')
    <3>1. own.carril \in CARRILES
      BY <1>1 DEF Mounted
    <3> QED
      BY <1>2, <2>2, <3>1 DEF LeerCarril, LeerEsfuerzo
  <2>4. /\ Sync(pickers[w], stored') \in [Hosts -> Mounted \cup {Unmounted}]
        /\ \A g \in Hosts : Sync(pickers[w], stored')[g].on =>
             /\ Sync(pickers[w], stored')[g].carril = LeerCarril(stored')
             /\ Sync(pickers[w], stored')[g].esfuerzo = LeerEsfuerzo(stored')
    BY <1>0, <1>4, <2>2, Synced
  <2> HIDE DEF own
  <2>5. qs \in [Hosts -> Mounted \cup {Unmounted}] /\ qs[h] = own /\ \A g \in Hosts \ {h} : qs[g] = Sync(pickers[w], stored')[g]
    BY <1>1, <2>4
  <2>6. ~blocked => \A g \in Hosts : qs[g].on => qs[g].carril = LeerCarril(stored') /\ qs[g].esfuerzo = LeerEsfuerzo(stored')
    BY <2>3, <2>4, <2>5
  <2> HIDE DEF qs
  <2> QED
    BY <1>3, <2>1, <2>2, <2>5, <2>6, OnePage
<1>6. CASE ~falls
  <2> DEFINE qs == [pickers[w] EXCEPT ![h] = own]
  <2>1. pickers' = [pickers EXCEPT ![w] = qs] /\ UNCHANGED <<stored, foreign>>
    BY <1>0, <1>6 DEF Mount, PickTyped
  <2>2. own.carril = LeerCarril(stored) /\ own.esfuerzo = LeerEsfuerzo(stored)
    BY <1>2, <1>6
  <2> HIDE DEF own
  <2>3. qs \in [Hosts -> Mounted \cup {Unmounted}] /\ qs[h] = own /\ \A g \in Hosts \ {h} : qs[g] = pickers[w][g]
    BY <1>1, <1>4
  <2>4. ~blocked /\ w \notin foreign => \A g \in Hosts : qs[g].on => qs[g].carril = LeerCarril(stored) /\ qs[g].esfuerzo = LeerEsfuerzo(stored)
    BY <1>0, <2>2, <2>3 DEF ShowsWhatIsKept
  <2>5. stored' \in [carril : CARRILES \cup {"none"}, esfuerzo : ESFUERZOS \cup {"none"}] /\ stored' = stored /\ foreign' = foreign
    BY <1>0, <2>1 DEF PickTyped
  <2>6. ~blocked /\ w \notin foreign' => \A g \in Hosts : qs[g].on => qs[g].carril = LeerCarril(stored') /\ qs[g].esfuerzo = LeerEsfuerzo(stored')
    BY <2>4, <2>5
  <2>7. UNCHANGED stored /\ foreign \ {w} \subseteq foreign'
    BY <2>1
  <2> HIDE DEF qs
  <2> QED
    BY <1>3, <2>1, <2>3, <2>5, <2>6, <2>7, OnePage
<1> QED
  BY <1>5, <1>6

\* A page is left: its pickers go, and what is kept stays.
LEMMA LeaveKeeps == ASSUME PickInv, NEW w \in Pages, Leave(w) PROVE PickInv'
<1> DEFINE none == [h \in Hosts |-> Unmounted]
<1>1. none \in [Hosts -> Mounted \cup {Unmounted}] /\ \A h \in Hosts : ~none[h].on
  BY DEF Unmounted
<1>2. /\ pickers' = [pickers EXCEPT ![w] = none] /\ UNCHANGED <<blocked, stored>>
      /\ foreign \ {w} \subseteq foreign'
  BY DEF Leave, Picks
<1>3. stored' \in [carril : CARRILES \cup {"none"}, esfuerzo : ESFUERZOS \cup {"none"}]
  BY <1>2 DEF PickInv, PickTyped
<1> HIDE DEF none
<1> QED
  BY <1>1, <1>2, <1>3, OnePage

\* Every step of the pickers keeps the invariant.
LEMMA PickHolds == PickSpec => []PickInv
<1>1. ASSUME PickInv, [PickNext]_pickVars PROVE PickInv'
  <2>1. CASE PickNext
    BY <1>1, <2>1, PicksKeep, MountKeeps, LeaveKeeps DEF PickNext
  <2>2. CASE UNCHANGED pickVars
    BY <1>1, <2>2 DEF pickVars, PickInv, PickTyped, ShowsWhatIsKept, LeerCarril, LeerEsfuerzo
  <2> QED
    BY <1>1, <2>1, <2>2
<1> QED
  BY <1>1, PickStarts, PTL DEF PickSpec

\* resolver names a provider of the list, in the lane it is asked for.
LEMMA Resolves ==
  ASSUME NEW list \in Lists, NEW c, Resolver(c, list) # "null"
  PROVE  \E k \in DOMAIN list : list[k] = [id |-> Resolver(c, list), carril |-> c]
<1>1. list \in Seq([id : Providers, carril : CARRILES])
  BY PickAssumption
<1> DEFINE at == {k \in DOMAIN list : list[k].carril = c}
<1>2. at # {} /\ Resolver(c, list) = list[Min(at)].id
  BY DEF Resolver
<1>3. at \in SUBSET Nat
  BY <1>1
<1> HIDE DEF at
<1>4. Min(at) \in at
  BY <1>2, <1>3, Least
<1>5. Min(at) \in DOMAIN list /\ list[Min(at)].carril = c
  BY <1>4 DEF at
<1>6. list[Min(at)] \in [id : Providers, carril : CARRILES]
  <2>1. \A k \in DOMAIN list : list[k] \in [id : Providers, carril : CARRILES]
    <3> DEFINE S == [id : Providers, carril : CARRILES]
    <3>1. list \in Seq(S)
      BY <1>1
    <3> HIDE DEF S
    <3>2. \A k \in DOMAIN list : list[k] \in S
      BY <3>1, ElementOfSeq, LenProperties
    <3> QED
      BY <3>2 DEF S
  <2> QED
    BY <1>5, <2>1
<1>7. list[Min(at)] = [id |-> list[Min(at)].id, carril |-> list[Min(at)].carril]
  BY <1>6
<1> QED
  BY <1>2, <1>5, <1>7

\* Whatever is mounted, pressed and left, on however many pages: the pickers of a page
\* nobody wrote beside show what the device keeps, and what is sent is a provider that
\* the picker's own list has in the lane it shows.
THEOREM PickersAlwaysAgree == PickSpec => []PickersAgree
<1>1. ASSUME PickInv PROVE PickersAgree
  <2>1. SUFFICES ASSUME NEW w \in Pages, NEW h \in Hosts, pickers[w][h].on
                 PROVE  LET p == pickers[w][h] IN
                        /\ ~blocked /\ w \notin foreign => p.carril = LeerCarril(stored) /\ p.esfuerzo = LeerEsfuerzo(stored)
                        /\ Sent(p).proveedor # "null" =>
                             \E k \in DOMAIN p.list : p.list[k] = [id |-> Sent(p).proveedor, carril |-> p.carril]
    BY DEF PickersAgree
  <2>2. pickers[w][h].list \in Lists
    <3>1. pickers[w][h] \in Mounted \cup {Unmounted}
      BY <1>1 DEF PickInv, PickTyped
    <3>2. pickers[w][h] \in Mounted
      BY <2>1, <3>1 DEF Unmounted
    <3> QED
      BY <3>2 DEF Mounted
  <2>3. Sent(pickers[w][h]).proveedor = Resolver(pickers[w][h].carril, pickers[w][h].list)
    BY DEF Sent
  <2> QED
    BY <1>1, <2>1, <2>2, <2>3, Resolves DEF PickInv, ShowsWhatIsKept
<1> QED
  BY <1>1, PickHolds, PTL

-----------------------------------------------------------------------------
(* `pnpm dev` and `pnpm stop`. *)

Stages == {"no", "ground", "prep", "ia", "wait", "up", "closing", "closed", "ended", "killed"}
Orchs ==
  [at : Stages, k : 1..3, foreign : BOOLEAN, served : SUBSET Ports, probing : SUBSET Names, excused : SUBSET Names]
Stands == {"no", "young", "on", "detached", "gone"}
DevTyped ==
  /\ orch \in [Runs -> Orchs] /\ kid \in [Runs -> [Names -> Stands]]
  /\ told \subseteq Runs \X Names
  /\ stop \in [at : {"no", "waits", "sweeps", "done"}, k : 1..3, of : SUBSET Runs]
  /\ stop.at \in {"no", "waits"} => stop.k = 1
  /\ \A r \in Runs, n \in Names : kid[r][n] = "detached" => n = "web"
\* A run that has not prepared, or never did, has started nothing.
NothingYet == \A r \in Runs : orch[r].at \in {"no", "ground", "prep", "ended"} => \A n \in Names : ~Alive(r, n)
\* A run that closes has told whatever of it is alive, and starts nothing more.
ToldOfIt == \A r \in Runs : orch[r].at \in {"closing", "closed"} => \A n \in Names : ~Untold(r, n)
\* While a run waits or is up, an end of api or of web is looked into, or excused.
LookedInto ==
  \A r \in Runs, n \in {"api", "web"} :
    orch[r].at \in {"wait", "up"} /\ kid[r][n] \in {"gone", "detached"} => n \in orch[r].probing \cup orch[r].excused
\* Once the stop has waited, the runs it is about are over, and what held no port when its
\* port was swept is the only thing of them it did not tell.
StoppedOnes ==
  /\ \A r \in Runs : orch[r].at = "killed" => r \in killed
  /\ stop.at \in {"sweeps", "done"} => \A r \in stop.of :
       /\ Over(r)
       /\ \A m \in 1..3 : (stop.at = "done" \/ m < stop.k) /\ Untold(r, Order[m]) => <<r, Order[m]>> \in portless
DevInv == DevTyped /\ NothingYet /\ ToldOfIt /\ LookedInto /\ StoppedOnes

\* Who is told is a process of a run.
LEMMA OfRuns ==
  /\ \A k \in 1..3 : Order[k] \in Ports
  /\ Daemons \subseteq Runs \X Names
  /\ \A p \in Ports : Swept(p) \subseteq Runs \X Names
  /\ \A r \in Runs : Told(r) \subseteq Runs \X Names
<1>0. Ports \subseteq Names /\ "web" \in Names
  BY DEF Ports, Names
<1>1. Daemons \subseteq Runs \X Names
  BY <1>0 DEF Daemons
<1>2. ASSUME NEW p \in Ports PROVE Swept(p) \subseteq Runs \X Names
  BY <1>0 DEF Swept, SweptOurs, On, Ours
<1>3. ASSUME NEW r \in Runs PROVE Told(r) \subseteq Runs \X Names
  BY <1>1, <1>3 DEF Told
<1>4. \A k \in 1..3 : Order[k] \in Ports
  BY DEF Order, Ports
<1> QED
  BY <1>1, <1>2, <1>3, <1>4

\* A run that closes tells every process of its own that is alive.
LEMMA TellsAll ==
  ASSUME DevTyped, NEW r \in Runs, NEW n \in Names, Alive(r, n)
  PROVE  <<r, n>> \in Told(r)
<1>1. CASE Child(r, n)
  BY <1>1 DEF Told
<1>2. CASE ~Child(r, n)
  <2>1. n = "web" /\ kid[r]["web"] = "detached"
    BY <1>2 DEF Alive, Child, DevTyped
  <2>2. <<r, "web">> \in Daemons
    BY <2>1 DEF Daemons
  <2> QED
    BY <2>1, <2>2 DEF Told
<1> QED
  BY <1>1, <1>2

\* No run is begun, and nothing is told.
LEMMA DevStarts == DevInit => DevInv
<1> SUFFICES ASSUME DevInit PROVE DevInv
  OBVIOUS
<1>1. \A r \in Runs : orch[r] = At("no") /\ \A n \in Names : kid[r][n] = "no"
  BY DEF DevInit
<1>2. At("no") \in Orchs /\ At("no").at = "no"
  BY DEF At, Orchs, Stages
<1>3. DevTyped
  BY <1>1, <1>2 DEF DevInit, DevTyped, Stands
<1>4. NothingYet /\ ToldOfIt /\ LookedInto /\ StoppedOnes
  BY <1>1, <1>2 DEF DevInit, NothingYet, ToldOfIt, LookedInto, StoppedOnes, Untold, Alive
<1> QED
  BY <1>3, <1>4 DEF DevInv

\* A step of one run and of its processes.
LEMMA OneRun ==
  ASSUME DevInv, NEW r \in Runs, UNCHANGED <<stop, portless>>, killed \subseteq killed',
         orch' \in [Runs -> Orchs], kid' \in [Runs -> [Names -> Stands]], told' \subseteq Runs \X Names,
         \A q \in Runs \ {r} : orch'[q] = orch[q] /\ kid'[q] = kid[q],
         \A n \in Names : kid'[r][n] = "detached" => n = "web",
         \A q \in Runs, n \in Names : <<q, n>> \in told /\ <<q, n>> \notin told' => q = r /\ ~Alive(r, n)',
         orch'[r].at \in {"no", "ground", "prep", "ended"} => \A n \in Names : ~Alive(r, n)',
         orch'[r].at \in {"closing", "closed"} => \A n \in Names : Alive(r, n)' => <<r, n>> \in told',
         \A n \in {"api", "web"} : orch'[r].at \in {"wait", "up"} /\ kid'[r][n] \in {"gone", "detached"}
           => n \in orch'[r].probing \cup orch'[r].excused,
         orch'[r].at = "killed" => r \in killed',
         Over(r) => Over(r)' /\ \A n \in Names : Alive(r, n)' => Alive(r, n)
  PROVE  DevInv'
<1>0. DevTyped /\ NothingYet /\ ToldOfIt /\ LookedInto /\ StoppedOnes
  BY DEF DevInv
<1>1. DevTyped'
  BY <1>0 DEF DevTyped
<1>2. \A q \in Runs \ {r}, n \in Names : (Alive(q, n)' <=> Alive(q, n)) /\ (Untold(q, n)' => Untold(q, n))
  BY DEF Alive, Untold
<1>3. NothingYet'
  BY <1>0, <1>2 DEF NothingYet
<1>4. ToldOfIt'
  BY <1>0, <1>2 DEF ToldOfIt, Untold
<1>5. LookedInto'
  BY <1>0 DEF LookedInto
<1>6. StoppedOnes'
  <2>1. ASSUME NEW q \in Runs, orch'[q].at = "killed" PROVE q \in killed'
    BY <1>0, <2>1 DEF StoppedOnes
  <2>2. ASSUME stop.at \in {"sweeps", "done"}, NEW q \in stop.of
        PROVE  /\ Over(q)'
               /\ \A m \in 1..3 : (stop.at = "done" \/ m < stop.k) /\ Untold(q, Order[m])' => <<q, Order[m]>> \in portless
    <3>1. q \in Runs /\ Over(q) /\ \A m \in 1..3 : (stop.at = "done" \/ m < stop.k) /\ Untold(q, Order[m]) => <<q, Order[m]>> \in portless
      BY <1>0, <2>2 DEF StoppedOnes, DevTyped
    <3>2. Over(q)'
      BY <3>1 DEF Over
    <3>3. \A m \in 1..3 : Order[m] \in Names
      BY OfRuns DEF Names
    <3>4. \A n \in Names : Untold(q, n)' => Untold(q, n)
      BY <1>2, <3>1 DEF Untold
    <3> QED
      BY <3>1, <3>2, <3>3, <3>4
  <2> QED
    BY <2>1, <2>2 DEF StoppedOnes
<1> QED
  BY <1>1, <1>3, <1>4, <1>5, <1>6 DEF DevInv

\* A step of one run, none of its processes beginning or ending.
LEMMA Steers ==
  ASSUME DevInv, NEW r \in Runs, NEW k \in Orchs, orch' = [orch EXCEPT ![r] = k],
         UNCHANGED <<kid, stop, portless>>, killed \subseteq killed', told \subseteq told', told' \subseteq Runs \X Names,
         k.at \in {"no", "ground", "prep", "ended"} => \A n \in Names : ~Alive(r, n),
         k.at \in {"closing", "closed"} => \A n \in Names : Alive(r, n) => <<r, n>> \in told',
         \A n \in {"api", "web"} : k.at \in {"wait", "up"} /\ kid[r][n] \in {"gone", "detached"}
           => n \in k.probing \cup k.excused,
         k.at = "killed" => r \in killed',
         Over(r) => k.at \in {"ended", "closed", "killed"}
  PROVE  DevInv'
<1>1. DevTyped
  BY DEF DevInv
<1>2. orch' \in [Runs -> Orchs] /\ orch'[r] = k /\ \A q \in Runs \ {r} : orch'[q] = orch[q]
  BY <1>1 DEF DevTyped
<1>3. kid' \in [Runs -> [Names -> Stands]] /\ kid' = kid /\ \A n \in Names : kid'[r][n] = "detached" => n = "web"
  BY <1>1 DEF DevTyped
<1>4. \A n \in Names : Alive(r, n)' <=> Alive(r, n)
  BY DEF Alive
<1>5. Over(r) => Over(r)'
  BY <1>2 DEF Over
<1> QED
  BY <1>2, <1>3, <1>4, <1>5, OneRun

\* The sweep of the ground, the preparation, and what ends it.
LEMMA PreparesKeep ==
  ASSUME DevInv, NEW r \in Runs, ClearsGround(r) \/ SweepsGround(r) \/ Fails(r) \/ Interrupted(r)
  PROVE  DevInv'
<1>0. DevTyped /\ NothingYet /\ orch[r] \in Orchs
  BY DEF DevInv, DevTyped
<1>1. orch[r].at \in {"no", "ground", "prep"} /\ ~Over(r)
  BY DEF ClearsGround, SweepsGround, Fails, Interrupted, Over
<1>2. \A n \in Names : ~Alive(r, n)
  BY <1>0, <1>1 DEF NothingYet
<1>3. UNCHANGED <<kid, stop, portless, killed>> /\ told \subseteq told'
  BY DEF ClearsGround, SweepsGround, Fails, Interrupted
<1>4. told' \subseteq Runs \X Names
  <2>1. told \subseteq Runs \X Names /\ orch[r].k \in 1..3
    BY <1>0 DEF DevTyped, Orchs
  <2>2. Order[orch[r].k] \in Ports
    BY <2>1, OfRuns
  <2> QED
    BY <2>1, <2>2, OfRuns DEF ClearsGround, SweepsGround, Fails, Interrupted
<1>5. ASSUME NEW k \in Orchs, orch' = [orch EXCEPT ![r] = k], k.at \in {"ground", "prep", "ended"} PROVE DevInv'
  BY <1>1, <1>2, <1>3, <1>4, <1>5, Steers
<1>6. CASE ClearsGround(r)
  <2> DEFINE k == [orch[r] EXCEPT !.at = "ground"]
  <2>1. k \in Orchs /\ k.at = "ground"
    BY <1>0 DEF Orchs, Stages
  <2>2. orch' = [orch EXCEPT ![r] = k]
    BY <1>0, <1>6 DEF ClearsGround, Go, DevTyped
  <2> HIDE DEF k
  <2> QED
    BY <1>5, <2>1, <2>2
<1>7. CASE SweepsGround(r)
  <2> DEFINE f == orch[r].foreign \/ \E x \in On(Order[orch[r].k]) : ~Ours(x)
             k == [orch[r] EXCEPT !.k = IF orch[r].k = 3 THEN 1 ELSE orch[r].k + 1, !.foreign = f,
                                  !.at = IF orch[r].k < 3 THEN "ground" ELSE IF f THEN "ended" ELSE "prep"]
  <2>1. orch' = [orch EXCEPT ![r] = k]
    BY <1>0, <1>7 DEF SweepsGround, DevTyped
  <2>2. f \in BOOLEAN /\ (IF orch[r].k = 3 THEN 1 ELSE orch[r].k + 1) \in 1..3
    BY <1>0 DEF Orchs
  <2>3. k.at \in {"ground", "prep", "ended"}
    BY <1>0 DEF Orchs
  <2>4. k \in Orchs
    <3> HIDE DEF f
    <3> QED
      BY <1>0, <2>2 DEF Orchs, Stages
  <2> HIDE DEF k
  <2> QED
    BY <1>5, <2>1, <2>3, <2>4
<1>8. CASE Fails(r) \/ Interrupted(r)
  <2>1. orch' = [orch EXCEPT ![r] = At("ended")]
    BY <1>8 DEF Fails, Interrupted
  <2>2. At("ended") \in Orchs /\ At("ended").at = "ended"
    BY DEF At, Orchs, Stages
  <2> QED
    BY <1>5, <2>1, <2>2
<1> QED
  BY <1>6, <1>7, <1>8

\* Processes begin.
LEMMA BeginsKeep == ASSUME DevInv, NEW r \in Runs, StartsIa(r) \/ StartsRest(r) PROVE DevInv'
<1>0. DevTyped /\ NothingYet /\ orch[r] \in Orchs
  BY DEF DevInv, DevTyped
<1>1. UNCHANGED <<told, stop, killed, portless>> /\ ~Over(r) /\ told' \subseteq Runs \X Names
  BY <1>0 DEF StartsIa, StartsRest, Over, DevTyped
<1>2. /\ orch' \in [Runs -> Orchs] /\ orch'[r].at \in {"ia", "wait"}
      /\ \A q \in Runs \ {r} : orch'[q] = orch[q]
  <2>1. \A w \in {"ia", "wait"} : [orch[r] EXCEPT !.at = w] \in Orchs /\ [orch[r] EXCEPT !.at = w].at = w
    BY <1>0 DEF Orchs, Stages
  <2>2. \E w \in {"ia", "wait"} : orch' = [orch EXCEPT ![r] = [orch[r] EXCEPT !.at = w]]
    BY <1>0 DEF StartsIa, StartsRest, Go, DevTyped
  <2> QED
    BY <1>0, <2>1, <2>2 DEF DevTyped
<1>3. /\ kid' \in [Runs -> [Names -> Stands]] /\ \A q \in Runs \ {r} : kid'[q] = kid[q]
      /\ \A n \in Names : kid'[r][n] = "detached" => n = "web"
  BY <1>0 DEF StartsIa, StartsRest, DevTyped, Stands, Names, Ports
<1>4. StartsRest(r) => kid'[r]["api"] = "young" /\ kid'[r]["web"] = "young"
  BY <1>0 DEF StartsRest, DevTyped, Names, Ports
<1>5. StartsIa(r) => orch'[r].at = "ia"
  BY <1>0 DEF StartsIa, Go, DevTyped, Orchs
<1>6. \A n \in {"api", "web"} : ~(orch'[r].at \in {"wait", "up"} /\ kid'[r][n] \in {"gone", "detached"})
  BY <1>4, <1>5
<1> QED
  BY <1>1, <1>2, <1>3, <1>6, OneRun

\* What waits or is up hears from its ports.
LEMMA WatchesKeep ==
  ASSUME DevInv, NEW r \in Runs,
         (\E p \in Ports : Answers(r, p)) \/ Up(r) \/ (\E n \in Names : Excuses(r, n))
  PROVE  DevInv'
<1>0. DevTyped /\ LookedInto /\ orch[r] \in Orchs
  BY DEF DevInv, DevTyped
<1>1. UNCHANGED <<kid, told, stop, killed, portless>> /\ ~Over(r) /\ told' \subseteq Runs \X Names
  BY <1>0 DEF Answers, Up, Excuses, Over, Watching, DevTyped
<1>2. ASSUME NEW k \in Orchs, orch' = [orch EXCEPT ![r] = k], k.at \in {"ia", "wait", "up"},
             k.at \in {"wait", "up"} => orch[r].at \in {"wait", "up"}
                /\ orch[r].probing \cup orch[r].excused \subseteq k.probing \cup k.excused
      PROVE  DevInv'
  <2>1. \A n \in {"api", "web"} : k.at \in {"wait", "up"} /\ kid[r][n] \in {"gone", "detached"}
           => n \in k.probing \cup k.excused
    BY <1>0, <1>2 DEF LookedInto
  <2> QED
    BY <1>1, <1>2, <2>1, Steers
<1>3. ASSUME NEW p \in Ports, Answers(r, p) PROVE DevInv'
  <2> DEFINE k == [orch[r] EXCEPT !.served = @ \cup {p}]
  <2>1. k \in Orchs /\ k.at = orch[r].at /\ k.probing = orch[r].probing /\ k.excused = orch[r].excused
    BY <1>0 DEF Orchs
  <2>2. orch' = [orch EXCEPT ![r] = k] /\ orch[r].at = "wait"
    BY <1>0, <1>3 DEF Answers, DevTyped
  <2> HIDE DEF k
  <2> QED
    BY <1>2, <2>1, <2>2
<1>4. ASSUME Up(r) PROVE DevInv'
  <2> DEFINE k == [orch[r] EXCEPT !.at = "up", !.served = {}]
  <2>1. k \in Orchs /\ k.at = "up" /\ k.probing = orch[r].probing /\ k.excused = orch[r].excused
    BY <1>0 DEF Orchs, Stages
  <2>2. orch' = [orch EXCEPT ![r] = k] /\ orch[r].at = "wait"
    BY <1>0, <1>4 DEF Up, DevTyped
  <2> HIDE DEF k
  <2> QED
    BY <1>2, <2>1, <2>2
<1>5. ASSUME NEW n \in Names, Excuses(r, n) PROVE DevInv'
  <2> DEFINE k == [orch[r] EXCEPT !.probing = @ \ {n}, !.excused = @ \cup {n}]
  <2>1. k \in Orchs /\ k.at = orch[r].at
    BY <1>0 DEF Orchs
  <2>2. k.probing = orch[r].probing \ {n} /\ k.excused = orch[r].excused \cup {n}
    BY <1>0 DEF Orchs
  <2>3. orch' = [orch EXCEPT ![r] = k] /\ orch[r].at \in {"ia", "wait", "up"}
    BY <1>0, <1>5 DEF Excuses, Watching, DevTyped
  <2> HIDE DEF k
  <2> QED
    BY <1>2, <2>1, <2>2, <2>3
<1> QED
  BY <1>3, <1>4, <1>5

\* A run closes, sweeps its ports a last time, or is killed.
LEMMA ClosesKeep ==
  ASSUME DevInv, NEW r \in Runs,
         Closes(r) \/ NotUp(r) \/ (\E n \in Names : NoExcuse(r, n)) \/ SweepsLast(r) \/ Kill(r)
  PROVE  DevInv'
<1>0. DevTyped /\ ToldOfIt /\ orch[r] \in Orchs
  BY DEF DevInv, DevTyped
<1>1. UNCHANGED <<kid, stop, portless>> /\ killed \subseteq killed' /\ told \subseteq told' /\ ~Over(r)
  BY DEF Closes, NotUp, NoExcuse, SweepsLast, Kill, Over, Watching
<1>2. told \subseteq Runs \X Names /\ orch[r].k \in 1..3
  BY <1>0 DEF DevTyped, Orchs
<1>3. Closes(r) \/ SweepsLast(r) \/ Kill(r)
  BY DEF NotUp, NoExcuse
<1>4. CASE Closes(r)
  <2>1. orch' = [orch EXCEPT ![r] = At("closing")] /\ told' = told \cup Told(r)
    BY <1>4 DEF Closes, Closing
  <2>2. At("closing") \in Orchs /\ At("closing").at = "closing"
    BY DEF At, Orchs, Stages
  <2>3. \A n \in Names : Alive(r, n) => <<r, n>> \in told'
    BY <1>0, <2>1, TellsAll
  <2>4. told' \subseteq Runs \X Names
    BY <1>2, <2>1, OfRuns
  <2> QED
    BY <1>1, <2>1, <2>2, <2>3, <2>4, Steers
<1>5. CASE SweepsLast(r)
  <2> DEFINE k == [orch[r] EXCEPT !.k = IF orch[r].k = 3 THEN 1 ELSE orch[r].k + 1,
                                  !.at = IF orch[r].k = 3 THEN "closed" ELSE "closing"]
  <2>1. orch' = [orch EXCEPT ![r] = k] /\ told' = told \cup Swept(Order[orch[r].k]) /\ orch[r].at = "closing"
    BY <1>0, <1>5 DEF SweepsLast, DevTyped
  <2>2. (IF orch[r].k = 3 THEN 1 ELSE orch[r].k + 1) \in 1..3
    BY <1>2
  <2>3. k \in Orchs /\ k.at \in {"closing", "closed"}
    BY <1>0, <2>2 DEF Orchs, Stages
  <2>4. \A n \in Names : Alive(r, n) => <<r, n>> \in told'
    BY <1>0, <1>1, <2>1 DEF ToldOfIt, Untold
  <2>5. told' \subseteq Runs \X Names
    BY <1>2, <2>1, OfRuns
  <2> HIDE DEF k
  <2> QED
    BY <1>1, <2>1, <2>3, <2>4, <2>5, Steers
<1>6. CASE Kill(r)
  <2>1. orch' = [orch EXCEPT ![r] = At("killed")] /\ r \in killed' /\ told' = told
    BY <1>6 DEF Kill
  <2>2. At("killed") \in Orchs /\ At("killed").at = "killed"
    BY DEF At, Orchs, Stages
  <2> QED
    BY <1>1, <1>2, <2>1, <2>2, Steers
<1> QED
  BY <1>3, <1>4, <1>5, <1>6

\* A process takes its port, leaves a daemon, or ends.
LEMMA BindsKeep == ASSUME DevInv, NEW r \in Runs, NEW n \in Names, Binds(r, n) PROVE DevInv'
<1>0. DevTyped /\ NothingYet /\ ToldOfIt /\ LookedInto /\ StoppedOnes
  BY DEF DevInv
<1>1. UNCHANGED <<orch, told, stop, killed, portless>> /\ kid[r][n] = "young" /\ kid' = [kid EXCEPT ![r][n] = "on"]
  BY DEF Binds
<1>2. /\ kid' \in [Runs -> [Names -> Stands]] /\ \A q \in Runs \ {r} : kid'[q] = kid[q]
      /\ kid'[r][n] = "on" /\ \A m \in Names \ {n} : kid'[r][m] = kid[r][m]
  BY <1>0, <1>1 DEF DevTyped, Stands
<1>3. \A m \in Names : Alive(r, m)' <=> Alive(r, m)
  BY <1>1, <1>2 DEF Alive
<1>4. \A m \in Names : kid'[r][m] = "detached" => m = "web"
  BY <1>0, <1>2 DEF DevTyped
<1>5. \A m \in {"api", "web"} : orch'[r].at \in {"wait", "up"} /\ kid'[r][m] \in {"gone", "detached"}
           => m \in orch'[r].probing \cup orch'[r].excused
  BY <1>0, <1>1, <1>2 DEF LookedInto, Names, Ports
<1>6. orch' \in [Runs -> Orchs] /\ told' \subseteq Runs \X Names /\ (orch'[r].at = "killed" => r \in killed') /\ (Over(r) => Over(r)')
  BY <1>0, <1>1 DEF DevTyped, StoppedOnes, Over
<1>7. orch'[r].at \in {"no", "ground", "prep", "ended"} => \A m \in Names : ~Alive(r, m)'
  BY <1>0, <1>1, <1>3 DEF NothingYet
<1>8. orch'[r].at \in {"closing", "closed"} => \A m \in Names : Alive(r, m)' => <<r, m>> \in told'
  BY <1>0, <1>1, <1>3 DEF ToldOfIt, Untold
<1> QED
  BY <1>1, <1>2, <1>3, <1>4, <1>5, <1>6, <1>7, <1>8, OneRun

\* The end of a process is looked into by a run that watches, or closes it.
LEMMA ExitsKeep ==
  ASSUME DevInv, NEW r \in Runs, NEW n \in Names, NEW well \in BOOLEAN, Exits(r, n, well)
  PROVE  DevInv'
<1>0. DevTyped /\ NothingYet /\ ToldOfIt /\ LookedInto /\ StoppedOnes /\ orch[r] \in Orchs
  BY DEF DevInv, DevTyped
<1>1. UNCHANGED <<stop, killed, portless>> /\ kid' = [kid EXCEPT ![r][n] = "gone"] /\ Ends(r, n, well) /\ Alive(r, n)
  BY DEF Exits, Child, Alive
<1>2. /\ kid' \in [Runs -> [Names -> Stands]] /\ \A q \in Runs \ {r} : kid'[q] = kid[q]
      /\ kid'[r][n] = "gone" /\ \A m \in Names \ {n} : kid'[r][m] = kid[r][m]
  BY <1>0, <1>1 DEF DevTyped, Stands
<1>3. ~Alive(r, n)' /\ \A m \in Names : Alive(r, m)' => Alive(r, m) /\ m # n
  BY <1>2 DEF Alive
<1>4. \A m \in Names : kid'[r][m] = "detached" => m = "web"
  BY <1>0, <1>2 DEF DevTyped
<1>5. told \subseteq Runs \X Names /\ Told(r) \subseteq Runs \X Names
  BY <1>0, OfRuns DEF DevTyped
<1>6. CASE ~Watching(r) \/ n = "messages"
  <2>1. orch' = orch /\ told' = told \ {<<r, n>>}
    BY <1>1, <1>6 DEF Ends
  <2>2. \A q \in Runs, m \in Names : <<q, m>> \in told /\ <<q, m>> \notin told' => q = r /\ ~Alive(r, m)'
    BY <1>3, <2>1
  <2>3. orch' \in [Runs -> Orchs] /\ told' \subseteq Runs \X Names /\ (orch'[r].at = "killed" => r \in killed') /\ (Over(r) => Over(r)')
    BY <1>0, <1>1, <1>5, <2>1 DEF DevTyped, StoppedOnes, Over
  <2>4. orch'[r].at \in {"no", "ground", "prep", "ended"} => \A m \in Names : ~Alive(r, m)'
    BY <1>0, <1>3, <2>1 DEF NothingYet
  <2>5. orch'[r].at \in {"closing", "closed"} => \A m \in Names : Alive(r, m)' => <<r, m>> \in told'
    BY <1>0, <1>3, <2>1 DEF ToldOfIt, Untold
  <2>6. \A m \in {"api", "web"} : orch'[r].at \in {"wait", "up"} /\ kid'[r][m] \in {"gone", "detached"}
           => m \in orch'[r].probing \cup orch'[r].excused
    BY <1>0, <1>2, <1>6, <2>1 DEF LookedInto, Watching, Names, Ports
  <2> QED
    BY <1>1, <1>2, <1>3, <1>4, <2>1, <2>2, <2>3, <2>4, <2>5, <2>6, OneRun
<1>7. CASE Watching(r) /\ n # "messages" /\ well
  <2> DEFINE k == [orch[r] EXCEPT !.probing = @ \cup {n}]
  <2>1. orch' = [orch EXCEPT ![r] = k] /\ told' = told \ {<<r, n>>}
    BY <1>0, <1>1, <1>7 DEF Ends, DevTyped
  <2>2. k \in Orchs /\ k.at = orch[r].at /\ k.excused = orch[r].excused /\ k.probing = orch[r].probing \cup {n}
    BY <1>0 DEF Orchs
  <2> HIDE DEF k
  <2>3. orch' \in [Runs -> Orchs] /\ orch'[r] = k /\ \A q \in Runs \ {r} : orch'[q] = orch[q]
    BY <1>0, <2>1, <2>2 DEF DevTyped
  <2>4. \A q \in Runs, m \in Names : <<q, m>> \in told /\ <<q, m>> \notin told' => q = r /\ ~Alive(r, m)'
    BY <1>3, <2>1
  <2>5. \A m \in {"api", "web"} : orch'[r].at \in {"wait", "up"} /\ kid'[r][m] \in {"gone", "detached"}
           => m \in orch'[r].probing \cup orch'[r].excused
    BY <1>0, <1>2, <2>2, <2>3 DEF LookedInto, Names, Ports
  <2>6. k.at \in {"ia", "wait", "up"} /\ ~Over(r)
    BY <1>7, <2>2 DEF Watching, Over
  <2>7. told' \subseteq Runs \X Names
    BY <1>5, <2>1
  <2> QED
    BY <1>1, <1>2, <1>3, <1>4, <2>3, <2>4, <2>5, <2>6, <2>7, OneRun
<1>8. CASE Watching(r) /\ n # "messages" /\ ~well
  <2>1. orch' = [orch EXCEPT ![r] = At("closing")] /\ told' = (told \cup Told(r)) \ {<<r, n>>}
    BY <1>1, <1>8 DEF Ends, Closing
  <2>2. At("closing") \in Orchs /\ At("closing").at = "closing"
    BY DEF At, Orchs, Stages
  <2>3. orch' \in [Runs -> Orchs] /\ orch'[r].at = "closing" /\ \A q \in Runs \ {r} : orch'[q] = orch[q]
    BY <1>0, <2>1, <2>2 DEF DevTyped
  <2>4. \A q \in Runs, m \in Names : <<q, m>> \in told /\ <<q, m>> \notin told' => q = r /\ ~Alive(r, m)'
    BY <1>3, <2>1
  <2>5. \A m \in Names : Alive(r, m)' => <<r, m>> \in told'
    BY <1>0, <1>3, <2>1, TellsAll
  <2>6. told' \subseteq Runs \X Names /\ ~Over(r)
    BY <1>5, <1>8, <2>1 DEF Watching, Over
  <2> QED
    BY <1>1, <1>2, <1>3, <1>4, <2>3, <2>4, <2>5, <2>6, OneRun
<1> QED
  BY <1>6, <1>7, <1>8

\* web leaves a daemon, which is told like a process, or excused like one that ended.
LEMMA DetachesKeep == ASSUME DevInv, NEW r \in Runs, Detaches(r) PROVE DevInv'
<1>0. DevTyped /\ NothingYet /\ ToldOfIt /\ LookedInto /\ StoppedOnes /\ orch[r] \in Orchs /\ "web" \in Names
  BY DEF DevInv, DevTyped, Names, Ports
<1>1. UNCHANGED <<told, stop, killed, portless>> /\ kid[r]["web"] = "on" /\ kid' = [kid EXCEPT ![r]["web"] = "detached"]
  BY DEF Detaches
<1>2. /\ kid' \in [Runs -> [Names -> Stands]] /\ \A q \in Runs \ {r} : kid'[q] = kid[q]
      /\ kid'[r]["web"] = "detached" /\ \A m \in Names \ {"web"} : kid'[r][m] = kid[r][m]
  BY <1>0, <1>1 DEF DevTyped, Stands
<1>3. \A m \in Names : Alive(r, m)' <=> Alive(r, m)
  BY <1>1, <1>2 DEF Alive
<1>4. \A m \in Names : kid'[r][m] = "detached" => m = "web"
  BY <1>0, <1>2 DEF DevTyped
<1>5. told' \subseteq Runs \X Names
  BY <1>0, <1>1 DEF DevTyped
<1>6. CASE Watching(r)
  <2> DEFINE k == [orch[r] EXCEPT !.probing = @ \cup {"web"}]
  <2>1. orch' = [orch EXCEPT ![r] = k]
    BY <1>0, <1>6 DEF Detaches, DevTyped
  <2>2. k \in Orchs /\ k.at = orch[r].at /\ k.excused = orch[r].excused /\ k.probing = orch[r].probing \cup {"web"}
    BY <1>0 DEF Orchs
  <2> HIDE DEF k
  <2>3. orch' \in [Runs -> Orchs] /\ orch'[r] = k /\ \A q \in Runs \ {r} : orch'[q] = orch[q]
    BY <1>0, <2>1, <2>2 DEF DevTyped
  <2>4. \A m \in {"api", "web"} : orch'[r].at \in {"wait", "up"} /\ kid'[r][m] \in {"gone", "detached"}
           => m \in orch'[r].probing \cup orch'[r].excused
    BY <1>0, <1>2, <2>2, <2>3 DEF LookedInto, Names, Ports
  <2>5. k.at \in {"ia", "wait", "up"} /\ ~Over(r)
    BY <1>6, <2>2 DEF Watching, Over
  <2> QED
    BY <1>1, <1>2, <1>3, <1>4, <1>5, <2>3, <2>4, <2>5, OneRun
<1>7. CASE ~Watching(r)
  <2>1. orch' = orch
    BY <1>7 DEF Detaches
  <2>2. orch' \in [Runs -> Orchs] /\ (orch'[r].at = "killed" => r \in killed') /\ (Over(r) => Over(r)')
        /\ orch'[r].at \notin {"wait", "up"}
    BY <1>0, <1>1, <1>7, <2>1 DEF DevTyped, StoppedOnes, Over, Watching
  <2>3. orch'[r].at \in {"no", "ground", "prep", "ended"} => \A m \in Names : ~Alive(r, m)'
    BY <1>0, <1>3, <2>1 DEF NothingYet
  <2>4. orch'[r].at \in {"closing", "closed"} => \A m \in Names : Alive(r, m)' => <<r, m>> \in told'
    BY <1>0, <1>1, <1>3, <2>1 DEF ToldOfIt, Untold
  <2> QED
    BY <1>1, <1>2, <1>3, <1>4, <1>5, <2>1, <2>2, <2>3, <2>4, OneRun
<1> QED
  BY <1>6, <1>7

\* The daemon dies on its own: it was looked into when it was left.
LEMMA DaemonKeeps == ASSUME DevInv, NEW r \in Runs, DaemonDies(r) PROVE DevInv'
<1>0. DevTyped /\ NothingYet /\ ToldOfIt /\ LookedInto /\ StoppedOnes /\ "web" \in Names
  BY DEF DevInv, DevTyped, Names, Ports
<1>1. /\ UNCHANGED <<orch, stop, killed, portless>> /\ kid[r]["web"] = "detached" /\ kid' = [kid EXCEPT ![r]["web"] = "gone"]
      /\ told' = told \ {<<r, "web">>}
  BY DEF DaemonDies
<1>2. /\ kid' \in [Runs -> [Names -> Stands]] /\ \A q \in Runs \ {r} : kid'[q] = kid[q]
      /\ kid'[r]["web"] = "gone" /\ \A m \in Names \ {"web"} : kid'[r][m] = kid[r][m]
  BY <1>0, <1>1 DEF DevTyped, Stands
<1>3. ~Alive(r, "web")' /\ \A m \in Names : Alive(r, m)' => Alive(r, m) /\ m # "web"
  BY <1>2 DEF Alive
<1>4. \A m \in Names : kid'[r][m] = "detached" => m = "web"
  BY <1>0, <1>2 DEF DevTyped
<1>5. \A q \in Runs, m \in Names : <<q, m>> \in told /\ <<q, m>> \notin told' => q = r /\ ~Alive(r, m)'
  BY <1>1, <1>3
<1>6. /\ orch' \in [Runs -> Orchs] /\ told' \subseteq Runs \X Names /\ (orch'[r].at = "killed" => r \in killed')
      /\ (Over(r) => Over(r)')
  BY <1>0, <1>1 DEF DevTyped, StoppedOnes, Over
<1>7. orch'[r].at \in {"no", "ground", "prep", "ended"} => \A m \in Names : ~Alive(r, m)'
  BY <1>0, <1>1, <1>3 DEF NothingYet
<1>8. orch'[r].at \in {"closing", "closed"} => \A m \in Names : Alive(r, m)' => <<r, m>> \in told'
  BY <1>0, <1>1, <1>3 DEF ToldOfIt, Untold
<1>9. \A m \in {"api", "web"} : orch'[r].at \in {"wait", "up"} /\ kid'[r][m] \in {"gone", "detached"}
           => m \in orch'[r].probing \cup orch'[r].excused
  BY <1>0, <1>1, <1>2 DEF LookedInto, Names, Ports
<1> QED
  BY <1>1, <1>2, <1>3, <1>4, <1>5, <1>6, <1>7, <1>8, <1>9, OneRun

\* What the invariant is about does not change.
LEMMA DevFrame == ASSUME DevInv, UNCHANGED <<orch, kid, told, stop, killed, portless>> PROVE DevInv'
<1>1. \A r \in Runs, n \in Names : (Alive(r, n)' <=> Alive(r, n)) /\ (Untold(r, n)' <=> Untold(r, n))
  BY DEF Alive, Untold
<1>2. \A r \in Runs : Over(r)' <=> Over(r)
  BY DEF Over
<1>3. \A m \in 1..3 : Order[m] \in Names
  BY OfRuns DEF Names
<1>4. DevTyped' /\ NothingYet' /\ ToldOfIt' /\ LookedInto'
  BY <1>1 DEF DevInv, DevTyped, NothingYet, ToldOfIt, LookedInto
<1>5. StoppedOnes'
  BY <1>1, <1>2, <1>3 DEF DevInv, DevTyped, StoppedOnes
<1> QED
  BY <1>4, <1>5 DEF DevInv

\* The stop asks for the runs there are.
LEMMA AsksKeep == ASSUME DevInv, Asks PROVE DevInv'
<1>0. DevTyped /\ NothingYet /\ ToldOfIt /\ LookedInto /\ StoppedOnes
  BY DEF DevInv
<1>1. UNCHANGED <<orch, kid, told, killed, portless>>
  BY DEF Asks
<1>2. stop' \in [at : {"waits"}, k : {1}, of : SUBSET Runs]
  <2>1. stop' = [stop EXCEPT !.at = "waits", !.of = {r \in Runs : orch[r].at # "no"}] /\ stop.at = "no"
    BY DEF Asks
  <2> QED
    BY <1>0, <2>1 DEF DevTyped
<1>3. DevTyped'
  BY <1>0, <1>1, <1>2 DEF DevTyped
<1>4. NothingYet' /\ ToldOfIt' /\ LookedInto'
  BY <1>0, <1>1 DEF NothingYet, ToldOfIt, LookedInto, Untold, Alive
<1>5. StoppedOnes'
  BY <1>0, <1>1, <1>2 DEF StoppedOnes
<1> QED
  BY <1>3, <1>4, <1>5 DEF DevInv

\* What has not ended in its time is killed: then all of it is over.
LEMMA WaitedKeeps == ASSUME DevInv, Waited PROVE DevInv'
<1>0. DevTyped /\ NothingYet /\ ToldOfIt /\ LookedInto /\ StoppedOnes
  BY DEF DevInv
<1> DEFINE hung == {r \in stop.of : ~Over(r)}
<1>1. /\ UNCHANGED <<kid, portless>> /\ told' = told \cup Daemons /\ killed' = killed \cup hung /\ stop.at = "waits"
      /\ orch' = [r \in Runs |-> IF r \in hung THEN At("killed") ELSE orch[r]]
      /\ stop' = [stop EXCEPT !.at = "sweeps"]
  BY DEF Waited
<1>2. At("killed") \in Orchs /\ At("killed").at = "killed"
  BY DEF At, Orchs, Stages
<1>3. stop'.at = "sweeps" /\ stop'.k = 1 /\ stop'.of = stop.of /\ stop.of \subseteq Runs
      /\ stop' \in [at : {"no", "waits", "sweeps", "done"}, k : 1..3, of : SUBSET Runs]
  BY <1>0, <1>1 DEF DevTyped
<1>4. told' \subseteq Runs \X Names
  BY <1>0, <1>1, OfRuns DEF DevTyped
<1>5. orch' \in [Runs -> Orchs] /\ \A r \in Runs : IF r \in hung THEN orch'[r] = At("killed") ELSE orch'[r] = orch[r]
  BY <1>0, <1>1, <1>2 DEF DevTyped
<1>6. DevTyped'
  BY <1>0, <1>1, <1>3, <1>4, <1>5 DEF DevTyped
<1>7. \A r \in Runs, n \in Names : (Alive(r, n)' <=> Alive(r, n)) /\ (Untold(r, n)' => Untold(r, n))
  BY <1>1 DEF Alive, Untold
<1>8. \A r \in Runs : r \in stop.of => Over(r)'
  BY <1>2, <1>5 DEF Over
<1> HIDE DEF hung
<1>9. NothingYet' /\ ToldOfIt' /\ LookedInto'
  BY <1>0, <1>1, <1>2, <1>5, <1>7 DEF NothingYet, ToldOfIt, LookedInto
<1>10. StoppedOnes'
  <2>1. \A r \in Runs : orch'[r].at = "killed" => r \in killed'
    BY <1>0, <1>1, <1>5 DEF StoppedOnes
  <2>2. \A m \in 1..3 : ~(stop'.at = "done" \/ m < stop'.k)
    BY <1>3
  <2>3. \A r \in stop'.of : Over(r)'
    BY <1>3, <1>8
  <2> QED
    BY <2>1, <2>2, <2>3 DEF StoppedOnes
<1> QED
  BY <1>6, <1>9, <1>10 DEF DevInv

\* A port is swept: of the runs that are over, who listens there is told, and who does not
\* is known to have held no port.
LEMMA OrphansKeep == ASSUME DevInv, SweepsOrphans PROVE DevInv'
<1>0. DevTyped /\ NothingYet /\ ToldOfIt /\ LookedInto /\ StoppedOnes
  BY DEF DevInv
<1> DEFINE p == Order[stop.k]
<1>1. /\ UNCHANGED <<orch, kid, killed>> /\ told' = told \cup Swept(p) /\ stop.at = "sweeps"
      /\ portless' = portless \cup ({<<r, p>> : r \in {q \in Runs : Alive(q, p)}} \ On(p))
      /\ stop' = IF stop.k = 3 THEN [stop EXCEPT !.at = "done"] ELSE [stop EXCEPT !.k = @ + 1]
  BY DEF SweepsOrphans
<1>2. stop.k \in 1..3 /\ p \in Ports /\ stop.of \subseteq Runs
  BY <1>0, OfRuns DEF DevTyped
<1>3. /\ stop' \in [at : {"no", "waits", "sweeps", "done"}, k : 1..3, of : SUBSET Runs]
      /\ stop'.at \in {"sweeps", "done"} /\ stop'.of = stop.of
      /\ \A m \in 1..3 : stop'.at = "done" \/ m < stop'.k => m < stop.k \/ m = stop.k
  <2>1. CASE stop.k = 3
    BY <1>0, <1>1, <1>2, <2>1 DEF DevTyped
  <2>2. CASE stop.k # 3
    <3>1. stop' = [stop EXCEPT !.k = stop.k + 1] /\ stop.k + 1 \in 1..3
      BY <1>1, <1>2, <2>2
    <3>2. stop'.k = stop.k + 1 /\ stop'.at = "sweeps" /\ stop'.of = stop.of
      BY <1>0, <1>1, <3>1 DEF DevTyped
    <3> QED
      BY <1>0, <1>2, <3>1, <3>2 DEF DevTyped
  <2> QED
    BY <2>1, <2>2
<1>4. told' \subseteq Runs \X Names
  BY <1>0, <1>1, <1>2, OfRuns DEF DevTyped
<1>5. DevTyped'
  BY <1>0, <1>1, <1>3, <1>4 DEF DevTyped
<1>6. \A r \in Runs, n \in Names : (Alive(r, n)' <=> Alive(r, n)) /\ (Untold(r, n)' => Untold(r, n))
  BY <1>1 DEF Alive, Untold
<1>7. NothingYet' /\ ToldOfIt' /\ LookedInto'
  BY <1>0, <1>1, <1>6 DEF NothingYet, ToldOfIt, LookedInto
<1>8. ASSUME NEW r \in Runs, NEW n, n = p, Untold(r, n)' PROVE <<r, n>> \in portless'
  <2>1. Alive(r, n) /\ <<r, n>> \notin told'
    BY <1>1, <1>8 DEF Untold, Alive
  <2>2. <<r, n>> \notin Swept(n)
    BY <1>1, <1>8, <2>1
  <2>3. Ours(<<r, n>>)
    BY DevAssumption DEF Ours
  <2>4. <<r, n>> \notin On(n)
    BY <2>2, <2>3 DEF Swept, SweptOurs
  <2> QED
    BY <1>1, <1>8, <2>1, <2>4
<1>9. StoppedOnes'
  <2>1. \A r \in Runs : orch'[r].at = "killed" => r \in killed'
    BY <1>0, <1>1 DEF StoppedOnes
  <2>2. ASSUME NEW r \in stop.of
        PROVE  /\ Over(r)'
               /\ \A m \in 1..3 : (stop'.at = "done" \/ m < stop'.k) /\ Untold(r, Order[m])' => <<r, Order[m]>> \in portless'
    <3>1. r \in Runs /\ Over(r) /\ \A m \in 1..3 : m < stop.k /\ Untold(r, Order[m]) => <<r, Order[m]>> \in portless
      BY <1>0, <1>1, <1>2 DEF StoppedOnes
    <3>2. Over(r)'
      BY <1>1, <3>1 DEF Over
    <3>3. \A m \in 1..3 : Order[m] \in Names
      BY OfRuns DEF Names
    <3>4. ASSUME NEW m \in 1..3, stop'.at = "done" \/ m < stop'.k, Untold(r, Order[m])'
          PROVE  <<r, Order[m]>> \in portless'
      <4>1. CASE m = stop.k
        BY <1>8, <3>1, <3>4, <4>1
      <4>2. CASE m < stop.k
        <5>1. Untold(r, Order[m])
          BY <1>6, <3>1, <3>3, <3>4
        <5> QED
          BY <1>1, <3>1, <3>4, <4>2, <5>1
      <4> QED
        BY <1>3, <3>4, <4>1, <4>2
    <3> QED
      BY <3>2, <3>4
  <2> QED
    BY <1>3, <2>1, <2>2 DEF StoppedOnes
<1> QED
  BY <1>5, <1>7, <1>9 DEF DevInv

\* Every step of the runs, of the stop and of other projects keeps the invariant.
LEMMA DevHolds == DevSpec => []DevInv
<1>1. ASSUME DevInv, [DevNext]_devVars PROVE DevInv'
  <2>1. ASSUME NEW r \in Runs,
               \/ ClearsGround(r) \/ SweepsGround(r) \/ Fails(r) \/ StartsIa(r) \/ StartsRest(r) \/ Up(r)
               \/ Closes(r) \/ SweepsLast(r) \/ Interrupted(r) \/ NotUp(r) \/ Kill(r)
               \/ Detaches(r) \/ DaemonDies(r)
               \/ \E n \in Names : Binds(r, n) \/ Excuses(r, n) \/ NoExcuse(r, n)
               \/ \E n \in Names, well \in BOOLEAN : Exits(r, n, well)
               \/ \E p \in Ports : Answers(r, p)
        PROVE  DevInv'
    BY <1>1, <2>1, PreparesKeep, BeginsKeep, WatchesKeep, ClosesKeep, BindsKeep, ExitsKeep, DetachesKeep, DaemonKeeps
  <2>2. ASSUME (\E p \in Ports : Comes(p) \/ Goes(p)) \/ UNCHANGED devVars PROVE DevInv'
    BY <1>1, <2>2, DevFrame DEF Comes, Goes, devVars
  <2> QED
    BY <1>1, <2>1, <2>2, AsksKeep, WaitedKeeps, OrphansKeep DEF DevNext
<1> QED
  BY <1>1, DevStarts, PTL DEF DevSpec

\* However many runs are started, killed and stopped, and whoever else comes to the ports:
\* no process of another project is signalled, a run that has closed and a stop leave
\* nothing they did not tell but what they could not know of, and no end of api or of web
\* goes unnoticed while a run says it is up.
THEOREM AllOrNothingStands == DevSpec => []AllOrNothing
<1>1. ASSUME DevInv PROVE AllOrNothing
  <2>0. DevTyped /\ NothingYet /\ ToldOfIt /\ LookedInto /\ StoppedOnes
    BY <1>1 DEF DevInv
  <2>1. \A x \in told : Ours(x)
    BY <2>0, DevAssumption DEF DevTyped, Ours
  <2>2. ASSUME NEW r \in Runs, NEW n \in Names, stop.at = "done", r \in stop.of, Untold(r, n)
        PROVE  r \in killed /\ (n = "messages" \/ <<r, n>> \in portless)
    <3>1. Over(r) /\ \A m \in 1..3 : Untold(r, Order[m]) => <<r, Order[m]>> \in portless
      BY <2>0, <2>2 DEF StoppedOnes
    <3>2. orch[r].at = "killed"
      BY <2>0, <2>2, <3>1 DEF Over, NothingYet, ToldOfIt, Untold
    <3>3. n = "messages" \/ \E m \in 1..3 : n = Order[m]
      <4>1. Order[1] = "api" /\ Order[2] = "web" /\ Order[3] = "ia"
        BY DEF Order
      <4> QED
        BY <4>1 DEF Names, Ports
    <3> QED
      BY <2>0, <2>2, <3>1, <3>2, <3>3 DEF StoppedOnes
  <2>3. ASSUME NEW r \in Runs, NEW n \in Names, orch[r].at = "up", n \in {"api", "web"}, kid[r][n] = "gone"
        PROVE  n \in orch[r].probing \cup orch[r].excused
    BY <2>0, <2>3 DEF LookedInto
  <2>4. ASSUME NEW r \in Runs, NEW n \in Names, orch[r].at = "closed" PROVE ~Untold(r, n)
    BY <2>0, <2>4 DEF ToldOfIt
  <2> QED
    BY <2>1, <2>2, <2>3, <2>4 DEF AllOrNothing
<1> QED
  BY <1>1, DevHolds, PTL

-----------------------------------------------------------------------------
(* The seed. *)

SeedTyped ==
  /\ dice \in [0..(Shuffles - 1) -> Orders]
  /\ table = [row \in Rows |-> table[row]] /\ proc = [p \in Procs |-> proc[p]]
  /\ whole \in Releases \cup {0}
  /\ \A p \in Procs : Active(p) =>
       /\ proc[p].of \in Releases /\ proc[p].next \in 1..Len(Script[proc[p].of])
       /\ proc[p].alone \in BOOLEAN

\* What is stored is what some release says of the row.
StoredIsWritten ==
  \A row \in Rows : table[row] # None =>
    \E r \in Releases : row \in Range(Script[r]) /\ table[row] = Contents(r, row)

\* A run that nobody disturbed has left everything it passed as its release has it.
Wrote(r, n) == \A m \in 1..n : Kind(Script[r][m]) # "user" => table[Script[r][m]] = Contents(r, Script[r][m])
PassedIsWritten ==
  /\ \A p \in Procs : Active(p) /\ proc[p].alone => Wrote(proc[p].of, proc[p].next - 1)
  /\ whole # 0 => Wrote(whole, Len(Script[whole]))

SeedInv == SeedTyped /\ StoredIsWritten /\ PassedIsWritten

\* What is appended to one thing.
LEMMA OfTwo == ASSUME NEW a, NEW b PROVE Append(<<a>>, b) = <<a, b>>
<1> DEFINE s == <<a>>
           S == {a, b}
<1>1. s \in Seq(S) /\ Len(s) = 1 /\ s[1] = a /\ b \in S
  OBVIOUS
<1>2. <<a, b>> \in Seq(S) /\ Len(<<a, b>>) = 2 /\ <<a, b>>[1] = a /\ <<a, b>>[2] = b
  OBVIOUS
<1> HIDE DEF s, S
<1>3. Append(s, b) \in Seq(S) /\ Len(Append(s, b)) = 1 + 1 /\ Append(s,b)[1] = a /\ Append(s,b)[1 + 1] = b
  <2>1. /\ Append(s, b) \in Seq(S)
        /\ Len(Append(s, b)) = Len(s)+1
        /\ \A j \in 1..Len(s) : Append(s, b)[j] = s[j]
        /\ Append(s, b)[Len(s)+1] = b
    <3>1. s \in Seq(S) /\ b \in S
      BY <1>1
    <3> QED
      BY ONLY <3>1, AppendProperties
  <2> QED
    BY <1>1, <2>1
<1>4. \A j \in 1..Len(<<a, b>>) : Append(s, b)[j] = <<a, b>>[j]
  BY <1>2, <1>3
<1>5. Append(s, b) = <<a, b>>
  <2> DEFINE t == <<a, b>>
             u == Append(s, b)
  <2>1. u \in Seq(S) /\ t \in Seq(S) /\ Len(u) = Len(t) /\ \A j \in 1..Len(u) : u[j] = t[j]
    BY <1>2, <1>3, <1>4
  <2> HIDE DEF t, u
  <2>2. u = t
    BY <2>1, SeqEqual
  <2> QED
    BY <2>2 DEF t, u
<1> QED
  BY <1>5 DEF s

\* Nothing is stored in an order that was refused.
LEMMA Refused ==
  ASSUME dice \in [0..(Shuffles - 1) -> Orders], NEW some \in SUBSET Orders, <<"second", "first">> \in some
  PROVE  FirstOf(some) \in some
<1> DEFINE good == {k \in DOMAIN dice : dice[k] \in some}
<1>1. good \subseteq Nat
  OBVIOUS
<1>2. CASE good = {}
  <2>1. FirstOf(some) = Append(Tail(Authored), Head(Authored))
    BY <1>2 DEF FirstOf
  <2>2. Tail(Authored) = <<"second">> /\ Head(Authored) = "first"
    BY DEF Authored
  <2>3. Append(<<"second">>, "first") = <<"second", "first">>
    BY OfTwo
  <2> QED
    BY <2>1, <2>2, <2>3
<1>3. CASE good # {}
  <2>1. FirstOf(some) = dice[Min(good)]
    BY <1>3 DEF FirstOf
  <2> HIDE DEF good
  <2>2. Min(good) \in good
    BY <1>1, <1>3, Least
  <2> QED
    BY <2>1, <2>2 DEF good
<1> QED
  BY <1>2, <1>3

\* What a release says of a row depends on nothing that changes.
LEMMA Alike == dice' = dice => \A r, row : Contents(r, row)' = Contents(r, row)
BY DEF Contents, Stored, FirstOf

\* What a release says of a row is something, and names the release.
LEMMA Written ==
  ASSUME NEW r \in Releases, NEW row
  PROVE  Contents(r, row) # None /\ Contents(r, row).of = r
BY SeedAssumption DEF Contents, None

\* A step of a script is one of the rows.
LEMMA InScript ==
  ASSUME NEW r \in Releases, NEW n \in 1..Len(Script[r])
  PROVE  /\ Script[r][n] \in Range(Script[r]) /\ Script[r][n] \in Rows
         /\ Len(Script[r]) \in Nat /\ Len(Script[r]) >= 1
<1>1. Script[r] \in Seq({"lesson", "lab", "order", "text", "user", "question"} \X Nat) /\ Script[r] # <<>>
  BY SeedAssumption
<1> QED
  BY <1>1 DEF Rows, Range

\* Nothing is written yet.
LEMMA SeedStarts == SeedInit => SeedInv
<1> SUFFICES ASSUME SeedInit PROVE SeedInv
  OBVIOUS
<1>1. SeedTyped
  BY DEF SeedInit, SeedTyped, Active, NotRun
<1>2. StoredIsWritten
  BY DEF SeedInit, StoredIsWritten
<1>3. PassedIsWritten
  BY DEF SeedInit, PassedIsWritten, Active, NotRun
<1> QED
  BY <1>1, <1>2, <1>3 DEF SeedInv

\* A step that writes no row: who goes on alone has written what it passed.
LEMMA NoRowWritten ==
  ASSUME SeedInv, UNCHANGED <<dice, table, whole>>,
         proc' = [p \in Procs |-> proc'[p]],
         \A p \in Procs : Active(p)' =>
           /\ proc'[p].of \in Releases /\ proc'[p].next \in 1..Len(Script[proc'[p].of])
           /\ proc'[p].alone \in BOOLEAN
           /\ proc'[p].alone => Wrote(proc'[p].of, proc'[p].next - 1)
  PROVE  SeedInv'
<1>0. SeedTyped /\ StoredIsWritten /\ PassedIsWritten
  BY DEF SeedInv
<1>1. SeedTyped'
  BY <1>0 DEF SeedTyped
<1>2. StoredIsWritten'
  BY <1>0, Alike DEF StoredIsWritten
<1>3. \A r, n : Wrote(r, n)' <=> Wrote(r, n)
  BY Alike DEF Wrote
<1>4. PassedIsWritten'
  BY <1>0, <1>3 DEF PassedIsWritten
<1> QED
  BY <1>1, <1>2, <1>4 DEF SeedInv

\* A run that ends, is about to begin, or waits.
LEMMA RunKeeps ==
  ASSUME SeedInv, NEW p \in Procs,
         (\E r \in Releases, opts \in {"no", "demo", "root"} : Starts(p, r, opts)) \/ Ready(p) \/ Migrate(p) \/ Breaks(p)
  PROVE  SeedInv'
<1>0. SeedTyped /\ PassedIsWritten
  BY DEF SeedInv
<1> DEFINE Stays(k) == \/ k.at = "failed"
                       \/ /\ k.of \in Releases /\ k.next \in 1..Len(Script[k.of]) /\ k.alone \in BOOLEAN
                          /\ k.alone => Wrote(k.of, k.next - 1)
<1>1. ASSUME NEW k, To(p, k), Stays(k), UNCHANGED <<dice, table, whole>>
      PROVE  SeedInv'
  <2>1. proc' = [q \in Procs |-> proc'[q]] /\ proc'[p] = k /\ \A q \in Procs \ {p} : proc'[q] = proc[q]
    BY <1>0, <1>1 DEF To, SeedTyped
  <2>2. ASSUME NEW q \in Procs, Active(q)'
        PROVE  /\ proc'[q].of \in Releases /\ proc'[q].next \in 1..Len(Script[proc'[q].of])
               /\ proc'[q].alone \in BOOLEAN
               /\ proc'[q].alone => Wrote(proc'[q].of, proc'[q].next - 1)
    <3>1. CASE q = p
      BY <1>1, <2>1, <2>2, <3>1 DEF Active
    <3>2. CASE q # p
      <4>1. proc'[q] = proc[q] /\ Active(q)
        BY <2>1, <2>2, <3>2 DEF Active
      <4> QED
        BY <1>0, <4>1 DEF SeedTyped, PassedIsWritten
    <3> QED
      BY <3>1, <3>2
  <2> QED
    BY <1>1, <2>1, <2>2, NoRowWritten
<1>2. ASSUME NEW r \in Releases, NEW opts \in {"no", "demo", "root"}, Starts(p, r, opts) PROVE SeedInv'
  <2>1. Len(Script[r]) \in Nat /\ Len(Script[r]) >= 1
    BY SeedAssumption
  <2>2. Wrote(r, 0)
    BY DEF Wrote
  <2>3. UNCHANGED <<dice, table, whole>>
    BY <1>2 DEF Starts
  <2>4. CASE opts = "root" /\ production
    <3> DEFINE bad == [at |-> "failed", of |-> r]
    <3>1. To(p, bad)
      BY <1>2, <2>4 DEF Starts
    <3>2. Stays(bad)
      OBVIOUS
    <3> QED
      BY <1>1, <2>3, <3>1, <3>2
  <2>5. CASE ~(opts = "root" /\ production)
    <3> DEFINE fresh == [at |-> "ready", of |-> r, asks |-> opts, next |-> 1, tries |-> Tries,
                         alone |-> \A q \in Procs \ {p} : ~Active(q)]
    <3>1. To(p, fresh)
      BY <1>2, <2>5 DEF Starts
    <3>2. (\A q \in Procs \ {p} : ~Active(q)) \in BOOLEAN
      OBVIOUS
    <3>3. fresh.of = r /\ fresh.next = 1 /\ fresh.alone \in BOOLEAN /\ fresh.next - 1 = 0
      BY <3>2
    <3> HIDE DEF fresh
    <3>4. Stays(fresh)
      BY <2>1, <2>2, <3>3
    <3> QED
      BY <1>1, <2>3, <3>1, <3>4
  <2> QED
    BY <2>4, <2>5
<1>3. ASSUME Ready(p) \/ Migrate(p) \/ Breaks(p) PROVE SeedInv'
  <2>1. Active(p)
    BY <1>3 DEF Ready, Migrate, Breaks, Active
  <2>2. UNCHANGED <<dice, table, whole>>
    BY <1>3 DEF Ready, Migrate, Breaks
  <2>3. /\ proc[p].of \in Releases /\ proc[p].next \in 1..Len(Script[proc[p].of]) /\ proc[p].alone \in BOOLEAN
        /\ proc[p].alone => Wrote(proc[p].of, proc[p].next - 1)
    BY <1>0, <2>1 DEF SeedTyped, PassedIsWritten
  <2>4. \/ Fail(p)
        \/ To(p, [proc[p] EXCEPT !.at = "migrate"])
        \/ To(p, [proc[p] EXCEPT !.at = "writes"])
        \/ To(p, [proc[p] EXCEPT !.tries = @ - 1])
    BY <1>3 DEF Ready, Migrate, Breaks
  <2>5. CASE Fail(p)
    <3> DEFINE bad == [at |-> "failed", of |-> proc[p].of]
    <3>1. To(p, bad) /\ Stays(bad)
      BY <2>5 DEF Fail
    <3> QED
      BY <1>1, <2>2, <3>1
  <2>6. ASSUME NEW k, To(p, k), k.of = proc[p].of, k.next = proc[p].next, k.alone = proc[p].alone
        PROVE  SeedInv'
    <3>1. Stays(k)
      BY <2>3, <2>6
    <3> HIDE DEF Stays
    <3> QED
      BY <1>1, <2>2, <2>6, <3>1
  <2>7. \A w : LET k == [proc[p] EXCEPT !.at = w]
              IN  k.of = proc[p].of /\ k.next = proc[p].next /\ k.alone = proc[p].alone
    OBVIOUS
  <2>8. LET k == [proc[p] EXCEPT !.tries = @ - 1]
        IN  k.of = proc[p].of /\ k.next = proc[p].next /\ k.alone = proc[p].alone
    OBVIOUS
  <2> QED
    BY <2>4, <2>5, <2>6, <2>7, <2>8
<1> QED
  BY <1>2, <1>3

\* The schema is deployed, the database comes and goes, people register.
LEMMA MeanwhileKeeps ==
  ASSUME SeedInv,
         (\E to \in {"whole", "unchecked"} : Deploys(to)) \/ Database \/ Registers
  PROVE  SeedInv'
<1>0. SeedTyped /\ PassedIsWritten
  BY DEF SeedInv
<1>1. UNCHANGED <<dice, table, whole, proc>>
  BY DEF Deploys, Database, Registers
<1>2. \A q \in Procs : Active(q)' <=> Active(q)
  BY <1>1 DEF Active
<1> QED
  BY <1>0, <1>1, <1>2, NoRowWritten DEF SeedTyped, PassedIsWritten

\* One row: it is what its release says of it, and nobody else goes on alone.
LEMMA WritesKeep == ASSUME SeedInv, NEW p \in Procs, Writes(p) PROVE SeedInv'
<1>0. SeedTyped /\ StoredIsWritten /\ PassedIsWritten
  BY DEF SeedInv
<1> DEFINE k == proc[p]
           row == Script[k.of][k.next]
<1>1. /\ k.at = "writes" /\ Kind(row) # "user"
      /\ table' = [table EXCEPT ![row] = Contents(k.of, row)]
      /\ proc' = Disturbing(p, Advance(k))
      /\ whole' = IF Advance(k).at = "done" /\ k.alone THEN k.of ELSE 0
      /\ UNCHANGED dice
  BY DEF Writes
<1>2. /\ k.of \in Releases /\ k.next \in 1..Len(Script[k.of]) /\ k.alone \in BOOLEAN
      /\ k.alone => Wrote(k.of, k.next - 1)
  BY <1>0, <1>1 DEF SeedTyped, PassedIsWritten, Active
<1>3. row \in Range(Script[k.of]) /\ row \in Rows /\ Len(Script[k.of]) \in Nat
  BY <1>2, InScript
<1>4. \A r, x : Contents(r, x)' = Contents(r, x)
  BY <1>1, Alike
<1>5. table'[row] = Contents(k.of, row) /\ \A x \in Rows \ {row} : table'[x] = table[x]
  BY <1>0, <1>1, <1>3 DEF SeedTyped
<1>6. /\ proc' = [q \in Procs |-> proc'[q]] /\ proc'[p] = Advance(k)
      /\ \A q \in Procs \ {p} : proc'[q] = IF Active(q) THEN [proc[q] EXCEPT !.alone = FALSE] ELSE proc[q]
  BY <1>1 DEF Disturbing
<1>7. ASSUME NEW q \in Procs \ {p}, Active(q)'
      PROVE  /\ proc'[q].of \in Releases /\ proc'[q].next \in 1..Len(Script[proc'[q].of])
             /\ proc'[q].alone = FALSE
  <2>1. Active(q)
    BY <1>6, <1>7 DEF Active
  <2>2. proc[q].of \in Releases /\ proc[q].next \in 1..Len(Script[proc[q].of]) /\ proc[q].alone \in BOOLEAN
    BY <1>0, <2>1 DEF SeedTyped
  <2>3. proc'[q] = [proc[q] EXCEPT !.alone = FALSE]
    BY <1>6, <2>1
  <2>4. proc'[q].of = proc[q].of /\ proc'[q].next = proc[q].next
    BY <2>3
  <2>5. proc'[q].alone = FALSE
    BY <2>1, <2>2, <2>3 DEF Active
  <2> QED
    BY <2>2, <2>4, <2>5
\* What it wrote, and what it had written before: the same row twice is the same contents.
<1>8. ASSUME k.alone, NEW m \in 1..k.next, Kind(Script[k.of][m]) # "user"
      PROVE  table'[Script[k.of][m]] = Contents(k.of, Script[k.of][m])
  <2>2. m \in 1..Len(Script[k.of])
    BY <1>2, <1>3
  <2>3. Script[k.of][m] \in Rows
    BY <1>2, <2>2, InScript
  <2>4. CASE Script[k.of][m] = row
    BY <1>5, <2>4
  <2>5. CASE Script[k.of][m] # row
    <3>1. m \in 1..(k.next - 1)
      BY <1>2, <1>3, <2>5
    <3>2. table[Script[k.of][m]] = Contents(k.of, Script[k.of][m])
      BY <1>2, <1>8, <3>1 DEF Wrote
    <3> QED
      BY <1>5, <2>3, <2>5, <3>2
  <2> QED
    BY <2>4, <2>5
<1>9. ASSUME k.next = Len(Script[k.of]) PROVE SeedTyped' /\ PassedIsWritten'
  <2>1. Advance(k) = [at |-> "done", of |-> k.of]
    BY <1>9 DEF Advance
  <2>2. ~Active(p)'
    BY <1>6, <2>1 DEF Active
  <2>3. whole' = IF k.alone THEN k.of ELSE 0
    BY <1>1, <2>1
  <2>4. SeedTyped'
    <3>1. table' = [x \in Rows |-> table'[x]]
      BY <1>0, <1>1 DEF SeedTyped
    <3>2. \A q \in Procs : Active(q)' =>
             /\ proc'[q].of \in Releases /\ proc'[q].next \in 1..Len(Script[proc'[q].of])
             /\ proc'[q].alone \in BOOLEAN
      BY <1>7, <2>2
    <3> QED
      BY <1>0, <1>1, <1>2, <1>6, <2>3, <3>1, <3>2 DEF SeedTyped
  <2>5. PassedIsWritten'
    <3>1. \A q \in Procs : Active(q)' => ~proc'[q].alone
      BY <1>7, <2>2
    <3>2. (whole # 0 => Wrote(whole, Len(Script[whole])))'
      BY <1>4, <1>8, <1>9, <2>3 DEF Wrote
    <3> QED
      BY <3>1, <3>2 DEF PassedIsWritten
  <2> QED
    BY <2>4, <2>5
<1>10. ASSUME k.next # Len(Script[k.of]) PROVE SeedTyped' /\ PassedIsWritten'
  <2> DEFINE after == [k EXCEPT !.next = @ + 1]
  <2>1. Advance(k) = after
    BY <1>10 DEF Advance
  <2>2. after.of = k.of /\ after.alone = k.alone /\ after.at = "writes"
    BY <1>1
  <2>3. after.next = k.next + 1
    BY <1>1, <1>2
  <2> HIDE DEF after
  <2>4. whole' = 0
    BY <1>1, <2>1, <2>2
  <2>5. after.next \in 1..Len(Script[after.of]) /\ after.next - 1 = k.next
    BY <1>2, <1>3, <1>10, <2>2, <2>3
  <2>6. SeedTyped'
    <3>1. table' = [x \in Rows |-> table'[x]]
      BY <1>0, <1>1 DEF SeedTyped
    <3>2. \A q \in Procs : Active(q)' =>
             /\ proc'[q].of \in Releases /\ proc'[q].next \in 1..Len(Script[proc'[q].of])
             /\ proc'[q].alone \in BOOLEAN
      BY <1>2, <1>6, <1>7, <2>1, <2>2, <2>5
    <3> QED
      BY <1>0, <1>1, <1>6, <2>4, <3>1, <3>2 DEF SeedTyped
  <2>7. PassedIsWritten'
    <3>1. ASSUME NEW q \in Procs, Active(q)', proc'[q].alone
          PROVE  Wrote(proc[q].of, proc[q].next - 1)'
      <4>1. q = p /\ proc'[q].of = k.of /\ proc'[q].next - 1 = k.next /\ k.alone
        BY <1>6, <1>7, <2>1, <2>2, <2>5, <3>1
      <4> QED
        BY <1>4, <1>8, <4>1 DEF Wrote
    <3> QED
      BY <2>4, <3>1 DEF PassedIsWritten
  <2> QED
    BY <2>6, <2>7
<1>11. StoredIsWritten'
  <2>1. SUFFICES ASSUME NEW x \in Rows, table'[x] # None
                 PROVE  \E r \in Releases : x \in Range(Script[r]) /\ table'[x] = Contents(r, x)
    BY <1>4 DEF StoredIsWritten
  <2>2. CASE x = row
    BY <1>2, <1>3, <1>5, <2>2
  <2>3. CASE x # row
    BY <1>0, <1>5, <2>1, <2>3 DEF StoredIsWritten
  <2> QED
    BY <2>2, <2>3
<1>12. SeedTyped' /\ PassedIsWritten'
  BY <1>9, <1>10
<1> QED
  BY <1>11, <1>12 DEF SeedInv

\* The accounts: no other row is written.
LEMMA UsersKeep == ASSUME SeedInv, NEW p \in Procs, WritesUsers(p) PROVE SeedInv'
<1>0. SeedTyped /\ PassedIsWritten
  BY DEF SeedInv
<1> DEFINE k == proc[p]
<1>1. k.at = "writes" /\ Kind(Script[k.of][k.next]) = "user" /\ UNCHANGED <<dice, table, whole>>
  BY DEF WritesUsers
<1>2. /\ k.of \in Releases /\ k.next \in 1..Len(Script[k.of]) /\ k.alone \in BOOLEAN
      /\ k.alone => Wrote(k.of, k.next - 1)
  BY <1>0, <1>1 DEF SeedTyped, PassedIsWritten, Active
<1>3. Len(Script[k.of]) \in Nat
  BY <1>2, InScript
<1>4. CASE Fail(p)
  <2>1. proc' = [q \in Procs |-> proc'[q]] /\ proc'[p].at = "failed" /\ \A q \in Procs \ {p} : proc'[q] = proc[q]
    BY <1>0, <1>4 DEF Fail, To, SeedTyped
  <2>2. ASSUME NEW q \in Procs, Active(q)' PROVE Active(q) /\ proc'[q] = proc[q]
    BY <2>1, <2>2 DEF Active
  <2> QED
    BY <1>0, <1>1, <2>1, <2>2, NoRowWritten DEF SeedTyped, PassedIsWritten
<1>5. CASE proc' = Disturbing(p, Advance(k))
  <2>1. /\ proc' = [q \in Procs |-> proc'[q]] /\ proc'[p] = Advance(k)
        /\ \A q \in Procs \ {p} : proc'[q] = IF Active(q) THEN [proc[q] EXCEPT !.alone = FALSE] ELSE proc[q]
    BY <1>5 DEF Disturbing
  <2>2. ASSUME NEW q \in Procs \ {p}, Active(q)'
        PROVE  /\ proc'[q].of \in Releases /\ proc'[q].next \in 1..Len(Script[proc'[q].of])
               /\ proc'[q].alone = FALSE
    <3>1. Active(q)
      BY <2>1, <2>2 DEF Active
    <3>2. proc[q].of \in Releases /\ proc[q].next \in 1..Len(Script[proc[q].of]) /\ proc[q].alone \in BOOLEAN
      BY <1>0, <3>1 DEF SeedTyped
    <3>3. proc'[q] = [proc[q] EXCEPT !.alone = FALSE]
      BY <2>1, <3>1
    <3>4. proc'[q].of = proc[q].of /\ proc'[q].next = proc[q].next
      BY <3>3
    <3>5. proc'[q].alone = FALSE
      BY <3>1, <3>2, <3>3 DEF Active
    <3> QED
      BY <3>2, <3>4, <3>5
  <2>3. ASSUME Active(p)'
        PROVE  /\ proc'[p].of = k.of /\ proc'[p].next = k.next + 1 /\ proc'[p].alone = k.alone
               /\ k.next # Len(Script[k.of])
    BY <1>1, <1>2, <2>1, <2>3 DEF Advance, Active
  <2>4. ASSUME k.alone PROVE Wrote(k.of, k.next)
    <3>1. ASSUME NEW m \in 1..k.next, Kind(Script[k.of][m]) # "user"
          PROVE  table[Script[k.of][m]] = Contents(k.of, Script[k.of][m])
      <4>1. m \in 1..(k.next - 1)
        BY <1>1, <1>2, <1>3, <3>1
      <4> QED
        BY <1>2, <2>4, <3>1, <4>1 DEF Wrote
    <3> QED
      BY <3>1 DEF Wrote
  <2>5. ASSUME Active(p)'
        PROVE  /\ proc'[p].of \in Releases /\ proc'[p].next \in 1..Len(Script[proc'[p].of])
               /\ proc'[p].alone \in BOOLEAN
               /\ proc'[p].alone => Wrote(proc'[p].of, proc'[p].next - 1)
    <3>1. proc'[p].next - 1 = k.next /\ proc'[p].next \in 1..Len(Script[k.of])
      BY <1>2, <1>3, <2>3, <2>5
    <3> QED
      BY <1>2, <2>3, <2>4, <2>5, <3>1
  <2>6. \A q \in Procs : Active(q)' =>
          /\ proc'[q].of \in Releases /\ proc'[q].next \in 1..Len(Script[proc'[q].of])
          /\ proc'[q].alone \in BOOLEAN
          /\ proc'[q].alone => Wrote(proc'[q].of, proc'[q].next - 1)
    BY <2>2, <2>5
  <2> QED
    BY <1>1, <2>1, <2>6, NoRowWritten
<1> QED
  BY <1>4, <1>5 DEF WritesUsers

\* Every step of the seeds, and of what goes on meanwhile, keeps the invariant.
LEMMA SeedHolds == SeedSpec => []SeedInv
<1>1. ASSUME SeedInv, [SeedNext]_seedVars PROVE SeedInv'
  <2>1. CASE SeedNext
    BY <1>1, <2>1, RunKeeps, WritesKeep, UsersKeep, MeanwhileKeeps DEF SeedNext
  <2>2. CASE UNCHANGED seedVars
    <3>1. UNCHANGED <<dice, table, whole, proc>>
      BY <2>2 DEF seedVars
    <3>2. \A q \in Procs : Active(q)' <=> Active(q)
      BY <3>1 DEF Active
    <3> QED
      BY <1>1, <3>1, <3>2, NoRowWritten DEF SeedInv, SeedTyped, PassedIsWritten
  <2> QED
    BY <1>1, <2>1, <2>2
<1> QED
  BY <1>1, SeedStarts, PTL DEF SeedSpec

\* A list is stored in an order that does not give the answer away.
LEMMA GivesNothing ==
  ASSUME SeedTyped, NEW r \in Releases, NEW row
  PROVE  /\ Kind(row) = "order" /\ ~Contents(r, row).draft => Contents(r, row).order # Authored
         /\ Kind(row) = "question" => Contents(r, row).order[1] # Authored[1]
<1>0. dice \in [0..(Shuffles - 1) -> Orders] /\ Authored = <<"first", "second">>
      /\ <<"second", "first">> \in Orders /\ <<"second", "first">> # Authored /\ <<"second", "first">>[1] # Authored[1]
  BY DEF SeedTyped, Authored, Orders
<1>1. FirstOf(Orders \ {Authored}) # Authored
  <2> DEFINE some == Orders \ {Authored}
  <2>1. some \in SUBSET Orders /\ <<"second", "first">> \in some
    BY <1>0
  <2> HIDE DEF some
  <2>2. FirstOf(some) \in some
    BY <1>0, <2>1, Refused
  <2> QED
    BY <2>2 DEF some
<1>2. FirstOf({xs \in Orders : xs[1] # Authored[1]})[1] # Authored[1]
  <2> DEFINE some == {xs \in Orders : xs[1] # Authored[1]}
  <2>1. some \in SUBSET Orders /\ <<"second", "first">> \in some
    BY <1>0
  <2> HIDE DEF some
  <2>2. FirstOf(some) \in some
    BY <1>0, <2>1, Refused
  <2> QED
    BY <2>2 DEF some
<1>3. ASSUME Kind(row) = "order", ~Contents(r, row).draft PROVE Contents(r, row).order # Authored
  <2>1. Contents(r, row).order = Stored(row)
    BY <1>3 DEF Contents
  <2>2. Stored(row) = FirstOf(Orders \ {Authored})
    BY <1>3 DEF Stored
  <2> QED
    BY <1>1, <2>1, <2>2
<1>4. ASSUME Kind(row) = "question" PROVE Contents(r, row).order[1] # Authored[1]
  <2>1. row \notin DraftsOf[r]
    BY <1>4, SeedAssumption
  <2>2. Contents(r, row).order = Stored(row)
    BY <2>1 DEF Contents
  <2>3. Stored(row) = FirstOf({xs \in Orders : xs[1] # Authored[1]})
    BY <1>4 DEF Stored
  <2> QED
    BY <1>2, <2>2, <2>3
<1> QED
  BY <1>3, <1>4

\* Whatever the generator makes of the lists, wherever runs are cut and in whatever order
\* they overlap: a seed that ended alone left its release whole, and no stored list gives
\* its answer away.
THEOREM SeedAlwaysStands == SeedSpec => []SeedStands
<1>1. ASSUME SeedInv PROVE SeedStands
  <2>0. SeedTyped /\ StoredIsWritten /\ PassedIsWritten
    BY <1>1 DEF SeedInv
  <2>1. WholeRelease
    <3>1. SUFFICES ASSUME whole # 0, NEW row \in Range(Script[whole]), Kind(row) # "user"
                   PROVE  table[row] = Contents(whole, row)
      BY DEF WholeRelease
    <3>2. whole \in Releases /\ Wrote(whole, Len(Script[whole]))
      BY <2>0, <3>1 DEF SeedTyped, PassedIsWritten
    <3>3. Script[whole] \in Seq({"lesson", "lab", "order", "text", "user", "question"} \X Nat)
      BY <3>2, SeedAssumption
    <3>4. PICK m \in 1..Len(Script[whole]) : Script[whole][m] = row
      BY <3>3 DEF Range
    <3> QED
      BY <3>1, <3>2, <3>4 DEF Wrote
  <2>2. NothingGivenAway
    <3>1. SUFFICES ASSUME NEW row \in Rows, table[row] # None
                   PROVE  /\ table[row] = Contents(table[row].of, row)
                          /\ Kind(row) = "order" /\ ~table[row].draft => table[row].order # Authored
                          /\ Kind(row) = "question" => table[row].order[1] # Authored[1]
      BY DEF NothingGivenAway
    <3>2. PICK r \in Releases : table[row] = Contents(r, row)
      BY <2>0, <3>1 DEF StoredIsWritten
    <3>3. Contents(r, row).of = r
      BY Written
    <3> QED
      BY <2>0, <3>2, <3>3, GivesNothing
  <2> QED
    BY <2>1, <2>2 DEF SeedStands
<1> QED
  BY <1>1, SeedHolds, PTL

-----------------------------------------------------------------------------
(* The chat of the panel: what it sends as said was said. *)

Said == [role: {"user", "assistant"}, n: Nat]
Among(s, t) == \E k \in 1..Len(s) : s[k] = t

\* The questions under way have numbers that were given out, each its own.
PanelTyped ==
  /\ history \in {"none", "out", "in"} /\ asks \in Nat
  /\ historial \in Seq(Said) /\ truth \in Seq(Said)
  /\ \A f \in flights : f.n \in 1..asks
  /\ \A f, g \in flights : f.n = g.n => f = g
  /\ ~saludado => history = "none"

\* Until the history is in, what was said begins with it and the page holds none of it.
HistoryFirst ==
  history # "in" =>
    /\ Len(History) <= Len(truth) /\ \A k \in 1..Len(History) : truth[k] = History[k]
    /\ \A k \in (Len(History) + 1)..Len(truth) : truth[k].n >= 1
    /\ \A k \in 1..Len(historial) : historial[k].n >= 1

\* A question was asked once, and what is under way has been asked.
AskedOnce ==
  /\ \A k \in 1..Len(truth) : truth[k].n <= asks
  /\ \A j, k \in 1..Len(truth) : truth[j] = truth[k] /\ truth[j].role = "user" => j = k
  /\ \A f \in flights : Among(truth, Asked(f.n))

\* What is missing of what was said, and what there is beside it.
ToCome == IF history = "in" THEN 0 ELSE Len(History)
Balanced ==
  /\ Len(historial) + ToCome = Len(truth)
  /\ \A k \in 1..Len(truth) : truth[k] \in astray \/ Among(historial, truth[k]) \/ k <= ToCome
  /\ \A k \in 1..Len(historial) : Among(truth, historial[k]) \/ \E n \in 1..asks : historial[k] = Asked(n)

\* As long as no turn has gone astray, the page holds what was said; and without an
\* overlap none goes, because the only question under way is the last turn.
Straight ==
  /\ history # "in" /\ "history" \notin overlaps => historial = <<>> /\ truth = History /\ flights = {}
  /\ history = "in" /\ "history" \notin overlaps /\ astray = {} => historial = truth
  /\ overlaps = {} =>
       /\ astray = {} /\ \A f, g \in flights : f = g
       /\ \A f \in flights : Len(truth) > 0 /\ truth[Len(truth)] = Asked(f.n)

\* The inductive invariant of the chat.
PanelInv == PanelTyped /\ HistoryFirst /\ AskedOnce /\ Balanced /\ Straight

\* The history that the server keeps is turns that were said before any question.
LEMMA HistoryIsSaid ==
  /\ History \in Seq(Said) /\ \A k \in 1..Len(History) : History[k].n = 0
  /\ \A j, k \in 1..Len(History) : History[j] = History[k] /\ History[j].role = "user" => j = k
  /\ SubSeq(History, Len(History) + 1, Len(History)) = <<>>
  /\ <<>> \o History = History
<1>1. History \in Seq(Said)
  <2>1. Asked(0) \in Said /\ AnswerTo(0) \in Said
    BY DEF Said, Asked, AnswerTo
  <2> QED
    BY <2>1 DEF History
<1>2. \A k \in 1..Len(History) : History[k].n = 0
  BY DEF History, Asked, AnswerTo
<1>3. SubSeq(History, Len(History) + 1, Len(History)) = <<>>
  BY <1>1
<1>4. <<>> \o History = History
  BY <1>1
<1>5. \A j, k \in 1..Len(History) : History[j] = History[k] /\ History[j].role = "user" => j = k
  BY DEF History, Asked, AnswerTo
<1> QED
  BY <1>1, <1>2, <1>3, <1>4, <1>5

\* Nothing is asked yet.
LEMMA PanelStarts == ChatInit => PanelInv
<1> SUFFICES ASSUME ChatInit PROVE PanelInv
  OBVIOUS
<1>1. /\ saludado = FALSE /\ history = "none" /\ historial = <<>> /\ flights = {} /\ asks = 0
      /\ truth = History /\ overlaps = {} /\ astray = {}
  BY DEF ChatInit
<1>2. PanelTyped /\ HistoryFirst
  BY <1>1, HistoryIsSaid DEF PanelTyped, HistoryFirst
<1>3. AskedOnce
  <2>1. \A k \in 1..Len(truth) : truth[k].n <= asks
    <3> SUFFICES ASSUME NEW k \in 1..Len(truth) PROVE truth[k].n <= asks
      OBVIOUS
    <3>1. truth[k].n = 0
      BY <1>1, HistoryIsSaid
    <3> QED
      BY <3>1, <1>1
  <2> QED
    BY <2>1, <1>1, HistoryIsSaid DEF AskedOnce
<1>4. Balanced
  BY <1>1, HistoryIsSaid DEF Balanced, ToCome
<1>5. Straight
  BY <1>1 DEF Straight
<1> QED
  BY <1>2, <1>3, <1>4, <1>5 DEF PanelInv

\* One more turn goes behind those that there are.
LEMMA TurnsAdded ==
  ASSUME NEW s \in Seq(Said), NEW t \in Said
  PROVE  /\ Append(s, t) \in Seq(Said) /\ Len(Append(s, t)) = Len(s) + 1
         /\ Append(s, t)[Len(s) + 1] = t /\ \A k \in 1..Len(s) : Append(s, t)[k] = s[k]
         /\ \A u : Among(Append(s, t), u) <=> Among(s, u) \/ u = t
<1>1. /\ Append(s, t) \in Seq(Said) /\ Len(Append(s, t)) = Len(s) + 1
      /\ Append(s, t)[Len(s) + 1] = t /\ \A k \in 1..Len(s) : Append(s, t)[k] = s[k]
  OBVIOUS
<1>2. Len(s) \in Nat
  OBVIOUS
<1> DEFINE a == Append(s, t)
<1> HIDE DEF a
<1>3. \A u : Among(a, u) <=> Among(s, u) \/ u = t
  <2>1. Len(a) = Len(s) + 1 /\ a[Len(s) + 1] = t /\ \A k \in 1..Len(s) : a[k] = s[k]
    BY <1>1 DEF a
  <2> QED
    BY <2>1, <1>2 DEF Among
<1> QED
  BY <1>1, <1>3 DEF a

\* All but the last turn.
LEMMA FrontOf ==
  ASSUME NEW s \in Seq(Said), Len(s) > 0
  PROVE  /\ Front(s) \in Seq(Said) /\ Len(Front(s)) = Len(s) - 1
         /\ \A k \in 1..(Len(s) - 1) : Front(s)[k] = s[k]
BY DEF Front

\* All but the question: which stood somewhere, and what was behind it moves up.
LEMMA WithoutIt ==
  ASSUME NEW s \in Seq(Said), NEW t, Among(s, t)
  PROVE  \E k \in 1..Len(s) :
           /\ s[k] = t
           /\ Without(s, t) \in Seq(Said) /\ Len(Without(s, t)) = Len(s) - 1
           /\ \A p \in 1..(Len(s) - 1) : Without(s, t)[p] = IF p < k THEN s[p] ELSE s[p + 1]
<1> DEFINE k == CHOOSE k \in DOMAIN s : s[k] = t
<1>1. k \in 1..Len(s) /\ s[k] = t
  <2>1. \E p \in DOMAIN s : s[p] = t
    BY DEF Among
  <2> QED
    BY <2>1
<1>2. Without(s, t) = SubSeq(s, 1, k - 1) \o SubSeq(s, k + 1, Len(s))
  BY DEF Without, RemoveAt
<1> HIDE DEF k
<1> DEFINE a == SubSeq(s, 1, k - 1)
           b == SubSeq(s, k + 1, Len(s))
<1>3. a \in Seq(Said) /\ Len(a) = k - 1 /\ \A p \in 1..(k - 1) : a[p] = s[p]
  BY <1>1
<1>4. b \in Seq(Said) /\ Len(b) = Len(s) - k /\ \A p \in 1..(Len(s) - k) : b[p] = s[k + p]
  BY <1>1
<1> HIDE DEF a, b
<1>5. /\ a \o b \in Seq(Said) /\ Len(a \o b) = Len(s) - 1
      /\ \A p \in 1..(Len(s) - 1) : (a \o b)[p] = IF p < k THEN s[p] ELSE s[p + 1]
  <2>1. Len(s) \in Nat /\ Len(a \o b) = Len(a) + Len(b) /\ a \o b \in Seq(Said)
    BY <1>3, <1>4
  <2>2. Len(a \o b) = Len(s) - 1
    BY <2>1, <1>1, <1>3, <1>4
  <2>3. ASSUME NEW p \in 1..(Len(s) - 1) PROVE (a \o b)[p] = IF p < k THEN s[p] ELSE s[p + 1]
    <3>1. CASE p < k
      <4>1. p \in 1..Len(a) /\ p \in 1..(k - 1)
        BY <3>1, <1>1, <1>3, <2>1
      <4>2. (a \o b)[p] = a[p]
        BY <4>1, <1>3, <1>4
      <4> QED
        BY <3>1, <4>1, <4>2, <1>3
    <3>2. CASE ~(p < k)
      <4>1. p \in (Len(a) + 1)..(Len(a) + Len(b)) /\ p - Len(a) \in 1..(Len(s) - k) /\ p - Len(a) = p - k + 1
        BY <3>2, <1>1, <1>3, <1>4, <2>1
      <4>2. (a \o b)[p] = b[p - Len(a)]
        BY <4>1, <1>3, <1>4
      <4>3. b[p - Len(a)] = s[k + (p - Len(a))] /\ k + (p - Len(a)) = p + 1
        BY <4>1, <1>1, <1>3, <1>4
      <4> QED
        BY <3>2, <4>2, <4>3
    <3> QED
      BY <3>1, <3>2
  <2> QED
    BY <2>1, <2>2, <2>3
<1> QED
  BY <1>1, <1>2, <1>5 DEF a, b

\* Two conversations with the same turns are the same.
LEMMA SameTurns ==
  ASSUME NEW s \in Seq(Said), NEW t \in Seq(Said), Len(s) = Len(t), \A k \in 1..Len(s) : s[k] = t[k]
  PROVE  s = t
OBVIOUS

\* The history comes, or is refused and the turns of it are not held.
LEMMA HistoryComesKeeps == ASSUME PanelInv, NEW ok \in BOOLEAN, HistoryComes(ok) PROVE PanelInv'
<1> DEFINE L == Len(History)
<1>1. /\ saludado' = saludado /\ history = "out" /\ history' = "in" /\ flights' = flights /\ asks' = asks
      /\ overlaps' = overlaps /\ astray' = astray
      /\ historial' = (IF ok THEN historial \o History ELSE historial)
      /\ truth' = (IF ok THEN truth ELSE SubSeq(truth, L + 1, Len(truth)))
  BY DEF HistoryComes
<1>2. /\ History \in Seq(Said) /\ L \in Nat /\ asks \in Nat
      /\ historial \in Seq(Said) /\ Len(historial) \in Nat /\ truth \in Seq(Said) /\ Len(truth) \in Nat
      /\ \A k \in 1..L : History[k].n = 0
  BY HistoryIsSaid DEF PanelInv, PanelTyped
<1>3. /\ L <= Len(truth) /\ \A k \in 1..L : truth[k] = History[k] /\ truth[k].n = 0
      /\ \A k \in (L + 1)..Len(truth) : truth[k].n >= 1
      /\ \A k \in 1..Len(historial) : historial[k].n >= 1
  BY <1>1, <1>2 DEF PanelInv, HistoryFirst
<1>4. /\ Len(historial) + L = Len(truth)
      /\ \A k \in 1..Len(truth) : truth[k] \in astray \/ Among(historial, truth[k]) \/ k <= L
      /\ \A k \in 1..Len(historial) : Among(truth, historial[k]) \/ \E n \in 1..asks : historial[k] = Asked(n)
  BY <1>1 DEF PanelInv, Balanced, ToCome
<1>5. /\ \A k \in 1..Len(truth) : truth[k].n <= asks
      /\ \A j, k \in 1..Len(truth) : truth[j] = truth[k] /\ truth[j].role = "user" => j = k
      /\ \A f \in flights : Among(truth, Asked(f.n)) /\ f.n \in 1..asks
  BY DEF PanelInv, AskedOnce, PanelTyped
<1>6. "history" \notin overlaps => historial = <<>> /\ truth = History /\ flights = {}
  BY <1>1 DEF PanelInv, Straight
<1>7. "history" \notin overlaps => historial' = truth'
  BY <1>1, <1>6, HistoryIsSaid
<1>8. overlaps = {} => astray = {} /\ flights = {}
  BY <1>6 DEF PanelInv, Straight
<1>9. Straight'
  BY <1>1, <1>7, <1>8 DEF Straight
<1>10. CASE ok
  <2>1. truth' = truth /\ historial' = historial \o History
    BY <1>1, <1>10
  <2>2. /\ historial' \in Seq(Said) /\ Len(historial') = Len(historial) + L
        /\ \A k \in 1..Len(historial) : historial'[k] = historial[k]
        /\ \A k \in 1..L : historial'[Len(historial) + k] = History[k]
    BY <2>1, <1>2
  <2>3. PanelTyped' /\ HistoryFirst'
    BY <1>1, <2>1, <2>2 DEF PanelInv, PanelTyped, HistoryFirst
  <2>4. AskedOnce'
    BY <1>1, <1>5, <2>1 DEF AskedOnce
  <2>5. ASSUME NEW k \in 1..Len(truth) PROVE truth[k] \in astray \/ Among(historial', truth[k])
    <3>1. CASE Among(historial, truth[k])
      BY <3>1, <2>2, <1>2 DEF Among
    <3>2. CASE k <= L
      <4>1. k \in 1..L /\ Len(historial) + k \in 1..Len(historial')
        BY <3>2, <2>2, <1>2
      <4>2. historial'[Len(historial) + k] = truth[k]
        BY <4>1, <2>2, <1>3
      <4> QED
        BY <4>1, <4>2 DEF Among
    <3> QED
      BY <3>1, <3>2, <1>4
  <2>6. ASSUME NEW k \in 1..Len(historial') PROVE Among(truth, historial'[k]) \/ \E n \in 1..asks : historial'[k] = Asked(n)
    <3>1. CASE k <= Len(historial)
      BY <3>1, <2>2, <1>2, <1>4
    <3>2. CASE k > Len(historial)
      <4>1. PICK p \in 1..L : k = Len(historial) + p
        <5>1. k - Len(historial) \in 1..L /\ k = Len(historial) + (k - Len(historial))
          BY <3>2, <2>2, <1>2
        <5> QED
          BY <5>1
      <4>2. historial'[k] = truth[p] /\ p \in 1..Len(truth)
        BY <4>1, <2>2, <1>2, <1>3
      <4> QED
        BY <4>2 DEF Among
    <3> QED
      BY <3>1, <3>2, <1>2, <2>2
  <2>7. Balanced'
    <3>1. ToCome' = 0 /\ truth' = truth /\ astray' = astray /\ asks' = asks
      BY <1>1, <2>1 DEF ToCome
    <3>2. Len(historial') + 0 = Len(truth)
      BY <1>2, <1>4, <2>2
    <3> QED
      BY <3>1, <3>2, <2>5, <2>6 DEF Balanced
  <2> QED
    BY <1>9, <2>3, <2>4, <2>7 DEF PanelInv
<1>11. CASE ~ok
  <2>1. truth' = SubSeq(truth, L + 1, Len(truth)) /\ historial' = historial
    BY <1>1, <1>11
  <2>2. truth' \in Seq(Said) /\ Len(truth') = Len(truth) - L /\ \A k \in 1..(Len(truth) - L) : truth'[k] = truth[L + k]
    BY <2>1, <1>2, <1>3
  <2>3. ASSUME NEW k \in 1..Len(truth') PROVE truth'[k] = truth[L + k] /\ L + k \in (L + 1)..Len(truth) /\ L + k \in 1..Len(truth)
    BY <2>2, <1>2, <1>3
  <2>4. ASSUME NEW t, Among(truth, t), t.n >= 1 PROVE Among(truth', t)
    <3>1. PICK j \in 1..Len(truth) : truth[j] = t
      BY <2>4 DEF Among
    <3>2. ~(j <= L)
      BY <3>1, <2>4, <1>2, <1>3
    <3>3. j - L \in 1..Len(truth') /\ L + (j - L) = j
      BY <3>2, <2>2, <1>2, <1>3
    <3>4. truth'[j - L] = t
      BY <3>1, <3>3, <2>3
    <3> QED
      BY <3>3, <3>4 DEF Among
  <2>5. PanelTyped' /\ HistoryFirst'
    BY <1>1, <2>1, <2>2 DEF PanelInv, PanelTyped, HistoryFirst
  <2>6. AskedOnce'
    <3>1. \A k \in 1..Len(truth') : truth'[k].n <= asks'
      BY <1>1, <1>5, <2>3
    <3>2. \A j, k \in 1..Len(truth') : truth'[j] = truth'[k] /\ truth'[j].role = "user" => j = k
      <4> SUFFICES ASSUME NEW j \in 1..Len(truth'), NEW k \in 1..Len(truth'), truth'[j] = truth'[k], truth'[j].role = "user"
                   PROVE  j = k
        OBVIOUS
      <4>1. L + j = L + k
        BY <2>3, <1>5
      <4> QED
        BY <4>1, <1>2
    <3>3. \A f \in flights' : Among(truth', Asked(f.n))
      <4> SUFFICES ASSUME NEW f \in flights PROVE Among(truth', Asked(f.n))
        BY <1>1
      <4>1. Among(truth, Asked(f.n)) /\ Asked(f.n).n >= 1
        BY <1>5, <1>2 DEF Asked
      <4> QED
        BY <4>1, <2>4
    <3> QED
      BY <3>1, <3>2, <3>3 DEF AskedOnce
  <2>7. ASSUME NEW k \in 1..Len(truth') PROVE truth'[k] \in astray \/ Among(historial, truth'[k])
    <3>1. ~(L + k <= L)
      BY <1>2
    <3> QED
      BY <3>1, <2>3, <1>4
  <2>8. ASSUME NEW k \in 1..Len(historial) PROVE Among(truth', historial[k]) \/ \E n \in 1..asks : historial[k] = Asked(n)
    BY <2>4, <1>3, <1>4
  <2>9. Balanced'
    <3>1. ToCome' = 0 /\ historial' = historial /\ astray' = astray /\ asks' = asks
      BY <1>1, <2>1 DEF ToCome
    <3>2. Len(historial) + 0 = Len(truth')
      BY <1>2, <1>4, <2>2
    <3> QED
      BY <3>1, <3>2, <2>7, <2>8 DEF Balanced
  <2> QED
    BY <1>9, <2>5, <2>6, <2>9 DEF PanelInv
<1> QED
  BY <1>10, <1>11

\* The question that is asked is the last turn, and the only one of its number.
LEMMA SendsKeep == ASSUME PanelInv, Sends PROVE PanelInv'
<1> DEFINE q == Asked(asks + 1)
<1>1. /\ saludado' = saludado /\ history # "none" /\ history' = history /\ asks' = asks + 1 /\ astray' = astray
      /\ historial' = Append(historial, q) /\ truth' = Append(truth, q)
      /\ flights' = flights \cup {[n |-> asks + 1, mensajes |-> historial']}
      /\ "history" \in overlaps' <=> "history" \in overlaps \/ history = "out"
      /\ overlaps' = {} => overlaps = {} /\ flights = {} /\ history # "out"
  BY DEF Sends
<1>2. historial \in Seq(Said) /\ truth \in Seq(Said) /\ asks \in Nat /\ q \in Said /\ q.n = asks + 1 /\ Len(truth) \in Nat /\ Len(historial) \in Nat
  BY DEF PanelInv, PanelTyped, Said, Asked
<1>3. \A f \in flights' : f \in flights \/ f = [n |-> asks + 1, mensajes |-> historial']
  BY <1>1
<1>4. /\ historial' \in Seq(Said) /\ Len(historial') = Len(historial) + 1
      /\ historial'[Len(historial) + 1] = q /\ \A k \in 1..Len(historial) : historial'[k] = historial[k]
      /\ \A u : Among(historial', u) <=> Among(historial, u) \/ u = q
  BY <1>1, <1>2, TurnsAdded
<1>5. /\ truth' \in Seq(Said) /\ Len(truth') = Len(truth) + 1
      /\ truth'[Len(truth) + 1] = q /\ \A k \in 1..Len(truth) : truth'[k] = truth[k]
      /\ \A u : Among(truth', u) <=> Among(truth, u) \/ u = q
  BY <1>1, <1>2, TurnsAdded
<1>6. PanelTyped'
  <2>1. \A f \in flights' : f.n \in 1..asks'
    <3> SUFFICES ASSUME NEW f \in flights' PROVE f.n \in 1..asks'
      OBVIOUS
    <3>1. f \in flights => f.n \in 1..asks
      BY DEF PanelInv, PanelTyped
    <3> QED
      BY <1>1, <1>2, <1>3, <3>1
  <2>2. \A f, g \in flights' : f.n = g.n => f = g
    <3> SUFFICES ASSUME NEW f \in flights', NEW g \in flights', f.n = g.n PROVE f = g
      OBVIOUS
    <3>1. /\ f \in flights => f.n \in 1..asks
          /\ g \in flights => g.n \in 1..asks
          /\ f \in flights /\ g \in flights => f = g
      BY DEF PanelInv, PanelTyped
    <3> QED
      BY <1>2, <1>3, <3>1
  <2>3. saludado' /\ history' \in {"none", "out", "in"} /\ asks' \in Nat
    BY <1>1, <1>2 DEF PanelInv, PanelTyped
  <2> QED
    BY <1>4, <1>5, <2>1, <2>2, <2>3 DEF PanelTyped
<1>7. HistoryFirst'
  <2> SUFFICES ASSUME history # "in" PROVE HistoryFirst'
    BY <1>1 DEF HistoryFirst
  <2>1. /\ Len(History) \in Nat /\ Len(History) <= Len(truth) /\ \A k \in 1..Len(History) : truth[k] = History[k]
        /\ \A k \in (Len(History) + 1)..Len(truth) : truth[k].n >= 1
        /\ \A k \in 1..Len(historial) : historial[k].n >= 1
    BY HistoryIsSaid DEF PanelInv, HistoryFirst
  <2>2. \A k \in 1..Len(History) : truth'[k] = History[k]
    BY <2>1, <1>2, <1>5
  <2>3. ASSUME NEW k \in (Len(History) + 1)..Len(truth') PROVE truth'[k].n >= 1
    <3>1. CASE k = Len(truth) + 1
      BY <3>1, <1>2, <1>5
    <3>2. CASE k # Len(truth) + 1
      BY <3>2, <2>1, <1>2, <1>5
    <3> QED
      BY <3>1, <3>2
  <2>4. ASSUME NEW k \in 1..Len(historial') PROVE historial'[k].n >= 1
    <3>1. CASE k = Len(historial) + 1
      BY <3>1, <1>2, <1>4
    <3>2. CASE k # Len(historial) + 1
      BY <3>2, <2>1, <1>2, <1>4
    <3> QED
      BY <3>1, <3>2
  <2> QED
    BY <1>2, <1>5, <2>1, <2>2, <2>3, <2>4 DEF HistoryFirst
<1>8. AskedOnce'
  <2>1. ASSUME NEW k \in 1..Len(truth) PROVE truth[k].n \in Nat /\ truth[k].n <= asks /\ truth'[k] = truth[k] /\ truth[k] # q
    <3>1. truth[k] \in Said
      BY <1>2
    <3>2. truth[k].n \in Nat /\ truth[k].n <= asks
      BY <3>1 DEF PanelInv, AskedOnce, Said
    <3>3. truth[k].n # q.n
      BY <3>2, <1>2
    <3> QED
      BY <3>2, <3>3, <1>5
  <2>2. ASSUME NEW k \in 1..Len(truth') PROVE k \in 1..Len(truth) \/ k = Len(truth) + 1
    BY <1>2, <1>5
  <2>3. \A k \in 1..Len(truth') : truth'[k].n <= asks'
    <3> SUFFICES ASSUME NEW k \in 1..Len(truth') PROVE truth'[k].n <= asks'
      OBVIOUS
    <3>1. CASE k \in 1..Len(truth)
      BY <3>1, <2>1, <1>1, <1>2
    <3>2. CASE k = Len(truth) + 1
      BY <3>2, <1>1, <1>2, <1>5
    <3> QED
      BY <2>2, <3>1, <3>2
  <2>4. \A j, k \in 1..Len(truth') : truth'[j] = truth'[k] /\ truth'[j].role = "user" => j = k
    <3> SUFFICES ASSUME NEW j \in 1..Len(truth'), NEW k \in 1..Len(truth'), truth'[j] = truth'[k], truth'[j].role = "user"
                 PROVE  j = k
      OBVIOUS
    <3>1. CASE j \in 1..Len(truth) /\ k \in 1..Len(truth)
      <4>1. truth[j] = truth[k] /\ truth[j].role = "user"
        BY <3>1, <2>1
      <4> QED
        BY <3>1, <4>1 DEF PanelInv, AskedOnce
    <3> QED
      BY <3>1, <2>1, <2>2, <1>5
  <2>5. \A f \in flights' : Among(truth', Asked(f.n))
    <3> SUFFICES ASSUME NEW f \in flights' PROVE Among(truth', Asked(f.n))
      OBVIOUS
    <3>1. CASE f \in flights
      BY <3>1, <1>5 DEF PanelInv, AskedOnce
    <3>2. CASE f \notin flights
      <4>1. f.n = asks + 1
        BY <3>2, <1>3
      <4> QED
        BY <4>1, <1>5
    <3> QED
      BY <3>1, <3>2
  <2> QED
    BY <2>3, <2>4, <2>5 DEF AskedOnce
<1>9. Balanced'
  <2>1. ToCome' = ToCome /\ ToCome \in Nat /\ Len(historial) + ToCome = Len(truth)
    BY <1>1, HistoryIsSaid DEF PanelInv, Balanced, ToCome
  <2>2. ASSUME NEW k \in 1..Len(truth') PROVE truth'[k] \in astray' \/ Among(historial', truth'[k]) \/ k <= ToCome'
    <3>1. CASE k = Len(truth) + 1
      BY <3>1, <1>4, <1>5
    <3>2. CASE k # Len(truth) + 1
      <4>1. k \in 1..Len(truth) /\ truth'[k] = truth[k]
        BY <3>2, <1>2, <1>5
      <4> QED
        BY <4>1, <2>1, <1>1, <1>4 DEF PanelInv, Balanced
    <3> QED
      BY <3>1, <3>2
  <2>3. ASSUME NEW k \in 1..Len(historial') PROVE Among(truth', historial'[k]) \/ \E n \in 1..asks' : historial'[k] = Asked(n)
    <3>1. CASE k = Len(historial) + 1
      BY <3>1, <1>4, <1>5
    <3>2. CASE k # Len(historial) + 1
      <4>1. k \in 1..Len(historial) /\ historial'[k] = historial[k]
        BY <3>2, <1>2, <1>4
      <4>2. Among(truth, historial[k]) \/ \E n \in 1..asks : historial[k] = Asked(n)
        BY <4>1 DEF PanelInv, Balanced
      <4>3. \A n \in 1..asks : n \in 1..asks'
        BY <1>1, <1>2
      <4> QED
        BY <4>1, <4>2, <4>3, <1>5
    <3> QED
      BY <3>1, <3>2
  <2>4. Len(historial') + ToCome' = Len(truth')
    <3>1. Len(historial') = Len(historial) + 1 /\ Len(truth') = Len(truth) + 1
      BY <1>4, <1>5
    <3> QED
      BY <3>1, <2>1, <1>2
  <2> QED
    BY <2>2, <2>3, <2>4 DEF Balanced
<1>10. Straight'
  <2>1. history # "in" => "history" \in overlaps'
    BY <1>1 DEF PanelInv, PanelTyped
  <2>2. history = "in" /\ "history" \notin overlaps' /\ astray = {} => historial' = truth'
    <3> SUFFICES ASSUME history = "in", "history" \notin overlaps', astray = {} PROVE historial' = truth'
      OBVIOUS
    <3>1. historial = truth
      BY <1>1 DEF PanelInv, Straight
    <3> QED
      BY <3>1, <1>1
  <2>3. ASSUME overlaps' = {}
        PROVE  /\ astray' = {} /\ \A f, g \in flights' : f = g
               /\ \A f \in flights' : Len(truth') > 0 /\ truth'[Len(truth')] = Asked(f.n)
    <3>1. overlaps = {} /\ flights = {}
      BY <2>3, <1>1
    <3>2. astray' = {}
      BY <3>1, <1>1 DEF PanelInv, Straight
    <3>3. \A f \in flights' : f = [n |-> asks + 1, mensajes |-> historial'] /\ f.n = asks + 1
      BY <3>1, <1>3
    <3>4. Len(truth') > 0 /\ truth'[Len(truth')] = q
      BY <1>2, <1>5
    <3> QED
      BY <3>2, <3>3, <3>4
  <2> QED
    BY <2>1, <2>2, <2>3, <1>1 DEF Straight
<1> QED
  BY <1>6, <1>7, <1>8, <1>9, <1>10 DEF PanelInv

\* An answer goes behind what there is by then, in what was said and in what is held.
LEMMA RepliesKeep == ASSUME PanelInv, NEW f \in flights, Replies(f) PROVE PanelInv'
<1> DEFINE r == AnswerTo(f.n)
<1>1. /\ saludado' = saludado /\ history' = history /\ asks' = asks /\ flights' = flights \ {f}
      /\ overlaps' = overlaps /\ astray' = astray
      /\ historial' = Append(historial, r) /\ truth' = Append(truth, r)
  BY DEF Replies
<1>2. /\ historial \in Seq(Said) /\ truth \in Seq(Said) /\ asks \in Nat /\ f.n \in 1..asks /\ Len(truth) \in Nat /\ Len(historial) \in Nat
      /\ r \in Said /\ r.n = f.n /\ r.role = "assistant"
  BY DEF PanelInv, PanelTyped, Said, AnswerTo
<1>4. /\ historial' \in Seq(Said) /\ Len(historial') = Len(historial) + 1
      /\ historial'[Len(historial) + 1] = r /\ \A k \in 1..Len(historial) : historial'[k] = historial[k]
      /\ \A u : Among(historial', u) <=> Among(historial, u) \/ u = r
  BY <1>1, <1>2, TurnsAdded
<1>5. /\ truth' \in Seq(Said) /\ Len(truth') = Len(truth) + 1
      /\ truth'[Len(truth) + 1] = r /\ \A k \in 1..Len(truth) : truth'[k] = truth[k]
      /\ \A u : Among(truth', u) <=> Among(truth, u) \/ u = r
  BY <1>1, <1>2, TurnsAdded
<1>6. PanelTyped'
  BY <1>1, <1>4, <1>5 DEF PanelInv, PanelTyped
<1>7. HistoryFirst'
  <2> SUFFICES ASSUME history # "in" PROVE HistoryFirst'
    BY <1>1 DEF HistoryFirst
  <2>1. /\ Len(History) \in Nat /\ Len(History) <= Len(truth) /\ \A k \in 1..Len(History) : truth[k] = History[k]
        /\ \A k \in (Len(History) + 1)..Len(truth) : truth[k].n >= 1
        /\ \A k \in 1..Len(historial) : historial[k].n >= 1
    BY HistoryIsSaid DEF PanelInv, HistoryFirst
  <2>2. \A k \in 1..Len(History) : truth'[k] = History[k]
    BY <2>1, <1>2, <1>5
  <2>3. ASSUME NEW k \in (Len(History) + 1)..Len(truth') PROVE truth'[k].n >= 1
    <3>1. CASE k = Len(truth) + 1
      BY <3>1, <1>2, <1>5
    <3>2. CASE k # Len(truth) + 1
      BY <3>2, <2>1, <1>2, <1>5
    <3> QED
      BY <3>1, <3>2
  <2>4. ASSUME NEW k \in 1..Len(historial') PROVE historial'[k].n >= 1
    <3>1. CASE k = Len(historial) + 1
      BY <3>1, <1>2, <1>4
    <3>2. CASE k # Len(historial) + 1
      BY <3>2, <2>1, <1>2, <1>4
    <3> QED
      BY <3>1, <3>2
  <2> QED
    BY <1>2, <1>5, <2>1, <2>2, <2>3, <2>4 DEF HistoryFirst
<1>8. AskedOnce'
  <2>1. ASSUME NEW k \in 1..Len(truth') PROVE k \in 1..Len(truth) \/ k = Len(truth) + 1
    BY <1>2, <1>5
  <2>2. \A k \in 1..Len(truth') : truth'[k].n <= asks'
    <3> SUFFICES ASSUME NEW k \in 1..Len(truth') PROVE truth'[k].n <= asks'
      OBVIOUS
    <3>1. CASE k \in 1..Len(truth)
      BY <3>1, <1>1, <1>5 DEF PanelInv, AskedOnce
    <3>2. CASE k = Len(truth) + 1
      BY <3>2, <1>1, <1>2, <1>5
    <3> QED
      BY <2>1, <3>1, <3>2
  <2>3. \A j, k \in 1..Len(truth') : truth'[j] = truth'[k] /\ truth'[j].role = "user" => j = k
    <3> SUFFICES ASSUME NEW j \in 1..Len(truth'), NEW k \in 1..Len(truth'), truth'[j] = truth'[k], truth'[j].role = "user"
                 PROVE  j = k
      OBVIOUS
    <3>1. j # Len(truth) + 1 /\ k # Len(truth) + 1
      BY <1>2, <1>5
    <3>2. j \in 1..Len(truth) /\ k \in 1..Len(truth)
      BY <3>1, <2>1
    <3>3. truth[j] = truth[k] /\ truth[j].role = "user"
      BY <3>2, <1>5
    <3> QED
      BY <3>2, <3>3 DEF PanelInv, AskedOnce
  <2>4. \A g \in flights' : Among(truth', Asked(g.n))
    BY <1>1, <1>5 DEF PanelInv, AskedOnce
  <2> QED
    BY <2>2, <2>3, <2>4 DEF AskedOnce
<1>9. Balanced'
  <2>1. ToCome' = ToCome /\ ToCome \in Nat /\ Len(historial) + ToCome = Len(truth)
    BY <1>1, HistoryIsSaid DEF PanelInv, Balanced, ToCome
  <2>2. ASSUME NEW k \in 1..Len(truth') PROVE truth'[k] \in astray' \/ Among(historial', truth'[k]) \/ k <= ToCome'
    <3>1. CASE k = Len(truth) + 1
      BY <3>1, <1>4, <1>5
    <3>2. CASE k # Len(truth) + 1
      <4>1. k \in 1..Len(truth) /\ truth'[k] = truth[k]
        BY <3>2, <1>2, <1>5
      <4> QED
        BY <4>1, <2>1, <1>1, <1>4 DEF PanelInv, Balanced
    <3> QED
      BY <3>1, <3>2
  <2>3. ASSUME NEW k \in 1..Len(historial') PROVE Among(truth', historial'[k]) \/ \E n \in 1..asks' : historial'[k] = Asked(n)
    <3>1. CASE k = Len(historial) + 1
      BY <3>1, <1>4, <1>5
    <3>2. CASE k # Len(historial) + 1
      <4>1. k \in 1..Len(historial) /\ historial'[k] = historial[k]
        BY <3>2, <1>2, <1>4
      <4>2. Among(truth, historial[k]) \/ \E n \in 1..asks : historial[k] = Asked(n)
        BY <4>1 DEF PanelInv, Balanced
      <4> QED
        BY <4>1, <4>2, <1>1, <1>5
    <3> QED
      BY <3>1, <3>2
  <2>4. Len(historial') + ToCome' = Len(truth')
    <3>1. Len(historial') = Len(historial) + 1 /\ Len(truth') = Len(truth) + 1
      BY <1>4, <1>5
    <3> QED
      BY <3>1, <2>1, <1>2
  <2> QED
    BY <2>2, <2>3, <2>4 DEF Balanced
<1>10. Straight'
  <2>1. history # "in" => "history" \in overlaps
    BY DEF PanelInv, Straight
  <2>2. history = "in" /\ "history" \notin overlaps /\ astray = {} => historial' = truth'
    <3> SUFFICES ASSUME history = "in", "history" \notin overlaps, astray = {} PROVE historial' = truth'
      OBVIOUS
    <3>1. historial = truth
      BY DEF PanelInv, Straight
    <3> QED
      BY <3>1, <1>1
  <2>3. overlaps = {} => astray = {} /\ flights' = {}
    BY <1>1 DEF PanelInv, Straight
  <2> QED
    BY <2>1, <2>2, <2>3, <1>1 DEF Straight
<1> QED
  BY <1>6, <1>7, <1>8, <1>9, <1>10 DEF PanelInv

\* The last turn that is held goes, and the question that failed is said no more: if they
\* are two, the turn has gone astray.
LEMMA AskFailsKeeps == ASSUME PanelInv, NEW f \in flights, NEW wait \in {0, 1}, AskFails(f, wait) PROVE PanelInv'
<1> DEFINE q == Asked(f.n)
<1>1. /\ saludado' = saludado /\ history' = history /\ asks' = asks /\ flights' = flights \ {f} /\ overlaps' = overlaps
      /\ historial' = DropsLast /\ truth' = Without(truth, q)
      /\ astray' = astray \cup ({Last(historial)} \ {q})
  BY DEF AskFails
<1>2. /\ historial \in Seq(Said) /\ truth \in Seq(Said) /\ asks \in Nat /\ f.n \in 1..asks /\ Len(truth) \in Nat /\ Len(historial) \in Nat
      /\ q \in Said /\ q.n = f.n /\ q.role = "user" /\ Among(truth, q)
  <2>1. f.n \in 1..asks /\ asks \in Nat /\ f.n \in Nat
    BY DEF PanelInv, PanelTyped
  <2>2. q \in Said /\ q.n = f.n /\ q.role = "user"
    BY <2>1 DEF Said, Asked
  <2>3. Among(truth, q)
    BY DEF PanelInv, AskedOnce
  <2>4. historial \in Seq(Said) /\ truth \in Seq(Said) /\ Len(truth) \in Nat /\ Len(historial) \in Nat
    BY DEF PanelInv, PanelTyped
  <2> QED
    BY <2>1, <2>2, <2>3, <2>4
<1>3. PICK m \in 1..Len(truth) :
           /\ truth[m] = q /\ truth' \in Seq(Said) /\ Len(truth') = Len(truth) - 1
           /\ \A p \in 1..(Len(truth) - 1) : truth'[p] = IF p < m THEN truth[p] ELSE truth[p + 1]
  <2> HIDE DEF q
  <2>1. \E m \in 1..Len(truth) :
           /\ truth[m] = q /\ Without(truth, q) \in Seq(Said) /\ Len(Without(truth, q)) = Len(truth) - 1
           /\ \A p \in 1..(Len(truth) - 1) : Without(truth, q)[p] = IF p < m THEN truth[p] ELSE truth[p + 1]
    BY <1>2, WithoutIt
  <2>2. truth' = Without(truth, q)
    BY <1>1
  <2> QED
    BY <2>1, <2>2
<1>4. ToCome \in Nat /\ ToCome' = ToCome /\ Len(historial) + ToCome = Len(truth)
  BY <1>1, HistoryIsSaid DEF PanelInv, Balanced, ToCome
<1>5. m > ToCome
  <2>1. CASE history = "in"
    BY <2>1 DEF ToCome
  <2>2. CASE history # "in"
    <3>1. m \notin 1..Len(History)
      BY <2>2, <1>2, <1>3, HistoryIsSaid DEF PanelInv, HistoryFirst
    <3> QED
      BY <2>2, <3>1, <1>4 DEF ToCome
  <2> QED
    BY <2>1, <2>2
<1>6. /\ Len(historial) > 0 /\ historial' \in Seq(Said) /\ Len(historial') = Len(historial) - 1
      /\ \A k \in 1..(Len(historial) - 1) : historial'[k] = historial[k]
      /\ Last(historial) = historial[Len(historial)]
  <2>1. Len(historial) > 0
    BY <1>2, <1>3, <1>4, <1>5
  <2>2. historial' = Front(historial)
    BY <2>1, <1>1, <1>2 DEF DropsLast
  <2> QED
    BY <2>1, <2>2, <1>2, FrontOf DEF Last
\* What was said is what it was, but for the question.
<1>7. ASSUME NEW p \in 1..Len(truth')
      PROVE  \E j \in 1..Len(truth) : /\ truth'[p] = truth[j] /\ j # m /\ j = (IF p < m THEN p ELSE p + 1)
  <2>1. p \in 1..(Len(truth) - 1) /\ p \in 1..Len(truth) /\ p + 1 \in 1..Len(truth)
    BY <1>2, <1>3
  <2>2. CASE p < m
    BY <2>1, <2>2, <1>3
  <2>3. CASE ~(p < m)
    <3>1. truth'[p] = truth[p + 1] /\ p + 1 # m
      BY <2>1, <2>3, <1>3
    <3> QED
      BY <2>1, <2>3, <3>1
  <2> QED
    BY <2>2, <2>3
<1>8. ASSUME NEW j \in 1..Len(truth), j # m PROVE Among(truth', truth[j])
  <2>1. CASE j < m
    <3>1. j \in 1..Len(truth') /\ truth'[j] = truth[j]
      BY <2>1, <1>2, <1>3
    <3> QED
      BY <3>1 DEF Among
  <2>2. CASE ~(j < m)
    <3>1. j - 1 \in 1..Len(truth') /\ ~(j - 1 < m) /\ (j - 1) + 1 = j /\ Len(truth') = Len(truth) - 1
      BY <2>2, <1>2, <1>3, <1>8
    <3>2. truth'[j - 1] = truth[j]
      BY <3>1, <1>3
    <3> QED
      BY <3>1, <3>2 DEF Among
  <2> QED
    BY <2>1, <2>2
<1>9. ASSUME NEW j \in 1..Len(truth), truth[j] = q PROVE j = m
  BY <1>9, <1>2, <1>3 DEF PanelInv, AskedOnce
<1>10. PanelTyped'
  BY <1>1, <1>3, <1>6 DEF PanelInv, PanelTyped
<1>11. HistoryFirst'
  <2> SUFFICES ASSUME history # "in" PROVE HistoryFirst'
    BY <1>1 DEF HistoryFirst
  <2>1. /\ Len(History) \in Nat /\ Len(History) = ToCome /\ \A k \in 1..Len(History) : truth[k] = History[k]
        /\ \A k \in (Len(History) + 1)..Len(truth) : truth[k].n >= 1
        /\ \A k \in 1..Len(historial) : historial[k].n >= 1
    BY HistoryIsSaid DEF PanelInv, HistoryFirst, ToCome
  <2>2. Len(History) <= Len(truth')
    BY <2>1, <1>2, <1>3, <1>5
  <2>3. \A k \in 1..Len(History) : truth'[k] = History[k]
    <3> SUFFICES ASSUME NEW k \in 1..Len(History) PROVE truth'[k] = History[k]
      OBVIOUS
    <3>1. k < m /\ k \in 1..(Len(truth) - 1)
      BY <2>1, <1>2, <1>5
    <3> QED
      BY <3>1, <2>1, <1>3
  <2>4. ASSUME NEW k \in (Len(History) + 1)..Len(truth') PROVE truth'[k].n >= 1
    <3>0. k \in 1..Len(truth')
      BY <2>1, <1>2, <1>3
    <3>1. PICK j \in 1..Len(truth) : truth'[k] = truth[j] /\ j = (IF k < m THEN k ELSE k + 1)
      BY <3>0, <1>7
    <3>2. j \in (Len(History) + 1)..Len(truth)
      BY <3>1, <2>1, <1>2
    <3> QED
      BY <3>1, <3>2, <2>1
  <2>5. ASSUME NEW k \in 1..Len(historial') PROVE historial'[k].n >= 1
    BY <2>1, <1>2, <1>6
  <2> QED
    BY <2>2, <2>3, <2>4, <2>5 DEF HistoryFirst
<1>12. AskedOnce'
  <2>1. \A k \in 1..Len(truth') : truth'[k].n <= asks'
    <3> SUFFICES ASSUME NEW k \in 1..Len(truth') PROVE truth'[k].n <= asks'
      OBVIOUS
    <3>1. PICK j \in 1..Len(truth) : truth'[k] = truth[j]
      BY <1>7
    <3> QED
      BY <3>1, <1>1 DEF PanelInv, AskedOnce
  <2>2. \A p, k \in 1..Len(truth') : truth'[p] = truth'[k] /\ truth'[p].role = "user" => p = k
    <3> SUFFICES ASSUME NEW p \in 1..Len(truth'), NEW k \in 1..Len(truth'), truth'[p] = truth'[k], truth'[p].role = "user"
                 PROVE  p = k
      OBVIOUS
    <3>1. PICK j \in 1..Len(truth) : truth'[p] = truth[j] /\ j = (IF p < m THEN p ELSE p + 1)
      BY <1>7
    <3>2. PICK l \in 1..Len(truth) : truth'[k] = truth[l] /\ l = (IF k < m THEN k ELSE k + 1)
      BY <1>7
    <3>3. j = l
      BY <3>1, <3>2 DEF PanelInv, AskedOnce
    <3> QED
      BY <3>1, <3>2, <3>3, <1>2, <1>3
  <2>3. \A g \in flights' : Among(truth', Asked(g.n))
    <3> SUFFICES ASSUME NEW g \in flights, g # f PROVE Among(truth', Asked(g.n))
      BY <1>1
    <3>1. g.n # f.n /\ Among(truth, Asked(g.n))
      BY DEF PanelInv, PanelTyped, AskedOnce
    <3>2. PICK j \in 1..Len(truth) : truth[j] = Asked(g.n)
      BY <3>1 DEF Among
    <3>3. Asked(g.n).n # q.n
      BY <3>1 DEF Asked
    <3> QED
      BY <3>2, <3>3, <1>3, <1>8
  <2> QED
    BY <2>1, <2>2, <2>3 DEF AskedOnce
<1>13. Balanced'
  <2>1. ASSUME NEW p \in 1..Len(truth') PROVE truth'[p] \in astray' \/ Among(historial', truth'[p]) \/ p <= ToCome'
    <3>1. PICK j \in 1..Len(truth) : truth'[p] = truth[j] /\ j # m /\ j = (IF p < m THEN p ELSE p + 1)
      BY <1>7
    <3>2. truth[j] \in astray \/ Among(historial, truth[j]) \/ j <= ToCome
      BY DEF PanelInv, Balanced
    <3>3. j <= ToCome => p <= ToCome
      BY <3>1, <1>4, <1>2, <1>3
    <3>4. ASSUME Among(historial, truth[j]) PROVE truth[j] \in astray' \/ Among(historial', truth[j])
      <4>1. PICK l \in 1..Len(historial) : historial[l] = truth[j]
        BY <3>4 DEF Among
      <4>2. CASE l = Len(historial)
        <5>1. Last(historial) = truth[j] /\ truth[j] # q
          BY <4>1, <4>2, <3>1, <1>6, <1>9
        <5> QED
          BY <5>1, <1>1
      <4>3. CASE l # Len(historial)
        <5>1. l \in 1..Len(historial') /\ historial'[l] = truth[j]
          BY <4>1, <4>3, <1>2, <1>6
        <5> QED
          BY <5>1 DEF Among
      <4> QED
        BY <4>2, <4>3
    <3> QED
      BY <3>1, <3>2, <3>3, <3>4, <1>1, <1>4
  <2>2. ASSUME NEW k \in 1..Len(historial') PROVE Among(truth', historial'[k]) \/ \E n \in 1..asks' : historial'[k] = Asked(n)
    <3>1. k \in 1..Len(historial) /\ historial'[k] = historial[k]
      BY <1>2, <1>6
    <3>2. Among(truth, historial[k]) \/ \E n \in 1..asks : historial[k] = Asked(n)
      BY <3>1 DEF PanelInv, Balanced
    <3>3. ASSUME Among(truth, historial[k]), historial[k] # q PROVE Among(truth', historial[k])
      <4>1. PICK j \in 1..Len(truth) : truth[j] = historial[k]
        BY <3>3 DEF Among
      <4>2. j # m
        BY <4>1, <3>3, <1>3
      <4>3. Among(truth', truth[j])
        BY <4>2, <1>8
      <4> QED
        BY <4>1, <4>3
    <3>4. historial[k] = q => \E n \in 1..asks : historial[k] = Asked(n)
      BY <1>2
    <3> QED
      BY <3>1, <3>2, <3>3, <3>4, <1>1
  <2>3. Len(historial') + ToCome' = Len(truth')
    <3>1. Len(historial') = Len(historial) - 1 /\ Len(truth') = Len(truth) - 1
      BY <1>3, <1>6
    <3> QED
      BY <3>1, <1>4, <1>2
  <2> QED
    BY <2>1, <2>2, <2>3 DEF Balanced
<1>14. Straight'
  <2>1. history # "in" => "history" \in overlaps
    BY DEF PanelInv, Straight
  <2>2. ASSUME history = "in", "history" \notin overlaps, astray' = {} PROVE historial' = truth'
    <3>1. astray = {} /\ Last(historial) = q
      BY <2>2, <1>1
    <3>2. historial = truth
      BY <2>2, <3>1 DEF PanelInv, Straight
    <3>3. truth[Len(truth)] = q /\ Len(truth) \in 1..Len(truth)
      BY <3>1, <3>2, <1>2, <1>6
    <3>4. m = Len(truth)
      BY <3>3, <1>9
    <3>5. ASSUME NEW k \in 1..Len(historial') PROVE historial'[k] = truth'[k]
      <4>1. k \in 1..(Len(truth) - 1) /\ k < m /\ historial'[k] = historial[k]
        BY <3>2, <3>4, <1>2, <1>6
      <4> QED
        BY <4>1, <3>2, <1>3
    <3>6. Len(historial') = Len(truth')
      BY <3>2, <1>3, <1>6
    <3> QED
      BY <3>5, <3>6, <1>3, <1>6, SameTurns
  <2>3. ASSUME overlaps = {} PROVE astray' = {} /\ flights' = {}
    <3>1. /\ astray = {} /\ \A g \in flights : g = f
          /\ truth[Len(truth)] = q /\ Len(truth) > 0
      BY <2>3 DEF PanelInv, Straight
    <3>2. "history" \notin overlaps /\ history = "in"
      BY <2>3, <2>1
    <3>3. historial = truth
      BY <3>1, <3>2 DEF PanelInv, Straight
    <3>4. Last(historial) = q
      BY <3>1, <3>3, <1>6
    <3> QED
      BY <3>1, <3>4, <1>1
  <2> QED
    BY <2>1, <2>2, <2>3, <1>1 DEF Straight
<1> QED
  BY <1>10, <1>11, <1>12, <1>13, <1>14 DEF PanelInv

\* Every step of the chat keeps the invariant.
LEMMA PanelKept == PanelInv /\ [ChatNext]_chatVars => PanelInv'
<1> SUFFICES ASSUME PanelInv, [ChatNext]_chatVars PROVE PanelInv'
  OBVIOUS
<1>1. CASE Greets
  <2>1. /\ history = "none" /\ history' = "out" /\ saludado' = TRUE
        /\ UNCHANGED <<historial, flights, asks, truth, overlaps, astray>>
    BY <1>1 DEF Greets, ghosts, PanelInv, PanelTyped
  <2> QED
    BY <2>1 DEF PanelInv, PanelTyped, HistoryFirst, AskedOnce, Balanced, ToCome, Straight
<1>2. CASE \E ok \in BOOLEAN : HistoryComes(ok)
  BY <1>2, HistoryComesKeeps
<1>3. CASE Sends
  BY <1>3, SendsKeep
<1>4. CASE \E f \in flights : Replies(f) \/ \E wait \in {0, 1} : AskFails(f, wait)
  BY <1>4, RepliesKeep, AskFailsKeeps
<1>5. CASE Passes \/ UNCHANGED chatVars
  <2>1. UNCHANGED <<saludado, history, historial, flights, asks, truth, overlaps, astray>>
    BY <1>5 DEF Passes, chatVars, ghosts
  <2> QED
    BY <2>1 DEF PanelInv, PanelTyped, HistoryFirst, AskedOnce, Balanced, ToCome, Straight
<1> QED
  BY <1>1, <1>2, <1>3, <1>4, <1>5 DEF ChatNext

\* However questions overlap: no turn goes missing from what is sent but with a question
\* that failed, nothing beside what was said is sent but questions that failed, and until
\* a turn has gone so what is sent is what was said (AiPanel.astro:468-505).
THEOREM SaidIsAlwaysSent == PanelSpec => []SaidIsSent
<1>1. PanelInv => SaidIsSent
  <2> SUFFICES ASSUME PanelInv, history = "in" PROVE SaidIsSent
    BY DEF SaidIsSent
  <2>1. historial \in Seq(Said) /\ truth \in Seq(Said) /\ Len(historial) \in Nat /\ Len(truth) \in Nat
    BY DEF PanelInv, PanelTyped
  <2>2. /\ Len(historial) = Len(truth)
        /\ \A k \in 1..Len(truth) : truth[k] \in astray \/ Among(historial, truth[k])
        /\ \A k \in 1..Len(historial) : Among(truth, historial[k]) \/ \E n \in 1..asks : historial[k] = Asked(n)
    BY <2>1 DEF PanelInv, Balanced, ToCome
  <2>3. \A s \in Seq(Said) : \A t : t \in Range(s) <=> Among(s, t)
    BY DEF Range, Among
  <2>4. \A t \in Range(truth) : t \in astray \/ t \in Range(historial)
    BY <2>1, <2>2, <2>3 DEF Among
  <2>5. \A t \in Range(historial) : t \in Range(truth) \/ t \in {Asked(n) : n \in 1..asks}
    BY <2>1, <2>2, <2>3 DEF Among
  <2> QED
    BY <2>2, <2>4, <2>5 DEF PanelInv, Straight, SaidIsSent
<1> QED
  BY <1>1, PanelStarts, PanelKept, PTL DEF PanelSpec

-----------------------------------------------------------------------------
(* The walks: who listens, who scrolls, and where the cards are. *)


Walks == {"live", "fading"}
Touring == [at: Walks, i: 0..Pasos]
\* The record of a tutorial that is in the document.
IsTut(o) == o.at \in Walks /\ o = [at |-> o.at, steps |-> o.steps, i |-> o.i]

\* The two walks are what they can be, and a card is a number.
ToursTyped ==
  /\ tut = NoWalk \/ IsTut(tut)
  /\ tour \in {NoWalk} \cup Touring
  /\ drops \subseteq Nat

\* Both are never in the document at once, but for the history that says so.
OneWalk == ~both => ~InDocument(tut) \/ ~InDocument(tour)

\* The keys go to the walks that are open; the page scrolls when none is.
Listening == keys = {k \in {"tutorial"} : Live(tut)} \cup {k \in {"tour"} : Live(tour)}
Scrolling == ~both => scroll = ~(Live(tut) \/ Live(tour))
\* What the tour has called for is on its way or in it.
CardsCalled == Live(tour) => drops \cup placed = 1..tour.i

\* The inductive invariant of the walks.
ToursInv == ToursTyped /\ OneWalk /\ (~left => Listening /\ Scrolling /\ CardsCalled)

\* No walk is open.
LEMMA ToursStart == ToursInit => ToursInv
<1> SUFFICES ASSUME ToursInit PROVE ToursInv
  OBVIOUS
<1>1. /\ tut = NoWalk /\ tour = NoWalk /\ drops = {} /\ scroll = TRUE /\ keys = {} /\ both = FALSE
      /\ ~Live(tut) /\ ~Live(tour) /\ ~InDocument(tut)
  BY DEF ToursInit, NoWalk, Live, InDocument
<1>2. ToursTyped
  BY <1>1 DEF ToursTyped
<1>3. OneWalk /\ Listening /\ Scrolling /\ CardsCalled
  BY <1>1 DEF OneWalk, Listening, Scrolling, CardsCalled
<1> QED
  BY <1>2, <1>3 DEF ToursInv

\* How a press can move the two walks.
TutMoves(t) == t = tut \/ (Live(tut) /\ IsTut(t))
TourMoves(r) == r = tour \/ (Live(tour) /\ r \in Touring /\ tour.i <= r.i)

\* A walk that closes, or stays as it is.
LEMMA ClosedMoves ==
  ASSUME ToursTyped
  PROVE  /\ TutMoves(tut) /\ TutMoves(Closed(tut)) /\ ~Live(Closed(tut))
         /\ TourMoves(tour) /\ TourMoves(Closed(tour)) /\ ~Live(Closed(tour))
<1>1. TutMoves(Closed(tut)) /\ ~Live(Closed(tut))
  <2>1. CASE Live(tut)
    BY <2>1 DEF ToursTyped, TutMoves, Closed, Live, NoWalk, IsTut, Walks
  <2>2. CASE ~Live(tut)
    BY <2>2 DEF TutMoves, Closed
  <2> QED
    BY <2>1, <2>2
<1>2. TourMoves(Closed(tour)) /\ ~Live(Closed(tour))
  <2>1. CASE Live(tour)
    <3>1. tour \in Touring
      BY <2>1 DEF ToursTyped, Live, NoWalk
    <3> QED
      BY <2>1, <3>1, ToursAssumption DEF TourMoves, Closed, Live, Touring, Walks
  <2>2. CASE ~Live(tour)
    BY <2>2 DEF TourMoves, Closed
  <2> QED
    BY <2>1, <2>2
<1> QED
  BY <1>1, <1>2 DEF TutMoves, TourMoves

\* A step on of the tutorial.
LEMMA TutGoesOn ==
  ASSUME ToursTyped
  PROVE  TutMoves(TutForward(tut)) /\ TutMoves(Placed(tut))
<1>1. TutMoves(TutForward(tut))
  <2>1. CASE ~Live(tut)
    BY <2>1 DEF TutMoves, TutForward
  <2>2. CASE Live(tut) /\ Following(tut) = {}
    BY <2>2, ClosedMoves DEF TutForward
  <2>3. CASE Live(tut) /\ Following(tut) # {}
    <3>1. PICK j : TutForward(tut) = [tut EXCEPT !.i = j]
      BY <2>3 DEF TutForward
    <3>2. IsTut(tut)
      BY <2>3 DEF ToursTyped, Live, NoWalk
    <3>3. IsTut([tut EXCEPT !.i = j])
      BY <3>2 DEF IsTut
    <3> QED
      BY <3>1, <3>3, <2>3 DEF TutMoves
  <2> QED
    BY <2>1, <2>2, <2>3
<1> QED
  BY <1>1, ClosedMoves DEF Placed

\* A step on of the tour, and the two of a key on the cat.
LEMMA TourGoesOn ==
  ASSUME ToursTyped
  PROVE  TourMoves(TourForward(tour)) /\ TourMoves(TourForward(TourForward(tour)))
<1>1. CASE ~Live(tour)
  BY <1>1 DEF TourMoves, TourForward
<1>2. CASE Live(tour)
  <2>1. tour \in Touring /\ tour.at = "live"
    BY <1>2 DEF ToursTyped, Live, NoWalk
  <2>2. ASSUME NEW r \in Touring
        PROVE  TourForward(r) \in Touring /\ r.i <= TourForward(r).i
    BY <2>2, ToursAssumption DEF TourForward, Touring, Walks, Closed, Live
  <2>3. TourForward(tour) \in Touring /\ tour.i <= TourForward(tour).i
    BY <2>1, <2>2
  <2>4. TourForward(TourForward(tour)) \in Touring /\ TourForward(tour).i <= TourForward(TourForward(tour)).i
    BY <2>3, <2>2
  <2>5. tour.i \in Nat /\ TourForward(tour).i \in Nat /\ TourForward(TourForward(tour)).i \in Nat
    BY <2>1, <2>3, <2>4, ToursAssumption DEF Touring
  <2> QED
    BY <1>2, <2>3, <2>4, <2>5 DEF TourMoves
<1> QED
  BY <1>1, <1>2

\* Whatever of the two moves: what ends stops listening and frees the scroll, and the
\* cards called for are those up to the one the tour is at.
LEMMA BecomeKeeps ==
  ASSUME ToursInv, ~left, NEW t, NEW r, NEW salir \in BOOLEAN, TutMoves(t), TourMoves(r),
         salir => Live(tour) /\ ~Live(r), Become(t, r, salir)
  PROVE  ToursInv'
<1>1. ToursTyped /\ OneWalk /\ Listening /\ Scrolling /\ CardsCalled
  BY DEF ToursInv
<1> DEFINE called == IF Live(tour) /\ Live(r) THEN (tour.i + 1)..r.i ELSE {}
<1>2. /\ tut' = t /\ tour' = r /\ both' = both /\ placed' = placed /\ drops' = drops \cup called
      /\ scroll' = (scroll \/ (Live(tut) /\ ~Live(t)) \/ (Live(tour) /\ ~Live(r)))
      /\ keys' = keys \ ({k \in {"tutorial"} : Live(tut) /\ ~Live(t)} \cup {k \in {"tour"} : salir})
      /\ left' = (left \/ (Live(tour) /\ ~Live(r) /\ ~salir))
  BY DEF Become
<1>3. (Live(t) => Live(tut)) /\ (Live(r) => Live(tour)) /\ (InDocument(t) <=> InDocument(tut)) /\ (InDocument(r) <=> InDocument(tour))
  BY DEF TutMoves, TourMoves, IsTut, Touring, Walks, InDocument, Live
<1>4. ToursTyped'
  <2>1. t = NoWalk \/ IsTut(t)
    BY <1>1 DEF TutMoves, ToursTyped
  <2>2. r \in {NoWalk} \cup Touring
    BY <1>1 DEF TourMoves, ToursTyped
  <2>3. called \subseteq Nat
    BY <1>1, ToursAssumption DEF ToursTyped, TourMoves, Touring, Live, NoWalk
  <2> QED
    BY <1>1, <1>2, <2>1, <2>2, <2>3 DEF ToursTyped, IsTut
<1>5. OneWalk'
  BY <1>1, <1>2, <1>3 DEF OneWalk, InDocument
<1>6. ~left' => Listening'
  BY <1>1, <1>2, <1>3 DEF Listening, Live
<1>7. ~left' => Scrolling'
  <2>1. ~both => ~Live(tut) \/ ~Live(tour)
    BY <1>1 DEF OneWalk, InDocument, Live
  <2> QED
    BY <2>1, <1>1, <1>2, <1>3 DEF Scrolling, Live
<1>8. CardsCalled'
  <2> SUFFICES ASSUME Live(r) PROVE drops' \cup placed' = 1..r.i
    BY <1>2 DEF CardsCalled, Live
  <2>1. Live(tour) /\ tour \in Touring /\ r \in Touring /\ tour.i <= r.i
    BY <1>1, <1>3 DEF TourMoves, ToursTyped, Live, NoWalk, Touring
  <2>2. drops \cup placed = 1..tour.i /\ called = (tour.i + 1)..r.i /\ tour.i \in Nat /\ r.i \in Nat
    BY <1>1, <2>1, ToursAssumption DEF CardsCalled, Touring
  <2>3. 1..r.i = (1..tour.i) \cup ((tour.i + 1)..r.i)
    BY <2>1, <2>2
  <2> QED
    BY <1>2, <2>2, <2>3
<1> QED
  BY <1>4, <1>5, <1>6, <1>7, <1>8 DEF ToursInv

\* Every button and every key.
LEMMA PressesKeep == ASSUME ToursInv, Presses PROVE ToursInv'
<1>1. ~left /\ ToursTyped /\ Listening
  BY DEF Presses, Press, ToursInv
<1>2. CASE TutNext
  BY <1>1, <1>2, BecomeKeeps, ClosedMoves, TutGoesOn DEF TutNext
<1>3. CASE TutSkip
  BY <1>1, <1>3, BecomeKeeps, ClosedMoves DEF TutSkip
<1>4. CASE Resizes
  BY <1>1, <1>4, BecomeKeeps, ClosedMoves, TutGoesOn DEF Resizes
<1>5. CASE TourNext
  BY <1>1, <1>5, BecomeKeeps, ClosedMoves, TourGoesOn DEF TourNext
<1>6. CASE TourSkip
  BY <1>1, <1>6, BecomeKeeps, ClosedMoves DEF TourSkip
<1>7. CASE CatKey
  BY <1>1, <1>7, BecomeKeeps, ClosedMoves, TutGoesOn, TourGoesOn DEF CatKey
<1>8. CASE Escapes
  <2>1. "tour" \in keys => Live(tour)
    BY <1>1 DEF Listening
  <2>2. PICK t, r :
           /\ t = (IF "tutorial" \in keys THEN Closed(tut) ELSE tut)
           /\ r = (IF "tour" \in keys THEN Closed(tour) ELSE tour)
           /\ ("tour" \in keys /\ Become(t, r, TRUE)) \/ ("tour" \notin keys /\ Become(t, r, FALSE))
    <3>1. CASE "tour" \in keys
      <4>1. ("tour" \in keys) = TRUE
        BY <3>1
      <4> QED
        BY <1>8, <3>1, <4>1 DEF Escapes
    <3>2. CASE "tour" \notin keys
      <4>1. ("tour" \in keys) = FALSE
        BY <3>2
      <4> QED
        BY <1>8, <3>2, <4>1 DEF Escapes
    <3> QED
      BY <3>1, <3>2
  <2>3. TutMoves(t) /\ TourMoves(r) /\ ("tour" \in keys => Live(tour) /\ ~Live(r))
    BY <1>1, <2>1, <2>2, ClosedMoves
  <2> QED
    BY <1>1, <2>2, <2>3, BecomeKeeps
<1>9. CASE Enters
  BY <1>1, <1>9, BecomeKeeps, ClosedMoves, TutGoesOn, TourGoesOn DEF Enters
<1> QED
  BY <1>2, <1>3, <1>4, <1>5, <1>6, <1>7, <1>8, <1>9 DEF Presses

\* The cat is in.
LEMMA ArrivesKeeps == ASSUME ToursInv, Arrives PROVE ToursInv'
<1>1. ~left /\ ToursTyped
  BY DEF Arrives, ToursInv
<1> QED
  BY <1>1, BecomeKeeps, ClosedMoves, TourGoesOn DEF Arrives

\* The tutorial opens, or there is nothing to show.
LEMMA TutorialOpensKeeps == ASSUME ToursInv, OpensTutorial PROVE ToursInv'
<1>1. CASE UNCHANGED <<tut, tour, scroll, keys, both, left, drops, placed>>
  BY <1>1 DEF ToursInv, ToursTyped, OneWalk, Listening, Scrolling, CardsCalled
<1>2. CASE ~UNCHANGED <<tut, tour, scroll, keys, both, left, drops, placed>>
  <2>1. PICK s : /\ tut' = [at |-> "live", steps |-> s, i |-> 1]
                 /\ scroll' = FALSE /\ keys' = keys \cup {"tutorial"} /\ both' = (both \/ InDocument(tour))
                 /\ ~left /\ ~InDocument(tut) /\ UNCHANGED <<tour, drops, placed, left>>
    BY <1>2 DEF OpensTutorial, Press, carriedIn
  <2>2. IsTut(tut')
    BY <2>1 DEF IsTut, Walks
  <2>3. ToursTyped'
    BY <2>1, <2>2 DEF ToursInv, ToursTyped, IsTut
  <2>4. OneWalk'
    BY <2>1 DEF ToursInv, OneWalk, InDocument
  <2>5. Listening' /\ Scrolling' /\ CardsCalled'
    BY <2>1 DEF ToursInv, Listening, Scrolling, CardsCalled, Live, InDocument
  <2> QED
    BY <2>3, <2>4, <2>5 DEF ToursInv
<1> QED
  BY <1>1, <1>2

\* The tour opens with no card called for.
LEMMA TourOpensKeeps == ASSUME ToursInv, OpensTour PROVE ToursInv'
<1>1. /\ tour' = [at |-> "live", i |-> 0] /\ scroll' = FALSE /\ keys' = keys \cup {"tour"}
      /\ both' = (both \/ InDocument(tut)) /\ drops' = {} /\ placed' = {}
      /\ ~left /\ ~InDocument(tour) /\ UNCHANGED <<tut, left>>
  BY DEF OpensTour, Press
<1>2. ToursTyped'
  BY <1>1, ToursAssumption DEF ToursInv, ToursTyped, IsTut, Touring, Walks
<1>3. OneWalk'
  BY <1>1 DEF ToursInv, OneWalk, InDocument
<1>4. Listening /\ Live(tour)' /\ Live(tut)' = Live(tut) /\ ~Live(tour)
  BY <1>1 DEF ToursInv, Live, InDocument
<1>5. Listening'
  BY <1>1, <1>4 DEF Listening, Live
<1>6. Scrolling'
  BY <1>1, <1>4 DEF Scrolling
<1>7. CardsCalled'
  <2>1. 1..0 = {}
    OBVIOUS
  <2>2. tour'.i = 0 /\ drops' \cup placed' = {}
    BY <1>1
  <2> QED
    BY <2>1, <2>2 DEF CardsCalled
<1> QED
  BY <1>2, <1>3, <1>5, <1>6, <1>7 DEF ToursInv

\* A card whose walk ends lies in the tour, held or not.
LEMMA DropsKeeps == ASSUME ToursInv, Drops PROVE ToursInv'
<1>1. PICK c : /\ c = (CHOOSE d \in drops : \A e \in drops : d <= e)
               /\ drops' = drops \ {c} /\ placed' = placed \cup {c} /\ drops # {}
               /\ UNCHANGED <<tut, tour, scroll, keys, left, both>>
  BY DEF Drops, PutDown
<1>2. c \in drops
  <2>1. \E d \in drops : \A e \in drops : d <= e
    BY <1>1, Least DEF ToursInv, ToursTyped
  <2> QED
    BY <1>1, <2>1
<1>3. drops' \cup placed' = drops \cup placed
  BY <1>1, <1>2
<1>4. ToursTyped'
  BY <1>1 DEF ToursInv, ToursTyped, IsTut
<1>5. OneWalk' /\ Listening' = Listening /\ Scrolling' = Scrolling /\ CardsCalled' = CardsCalled
  BY <1>1, <1>3 DEF ToursInv, OneWalk, InDocument, Listening, Scrolling, CardsCalled, Live
<1> QED
  BY <1>1, <1>4, <1>5 DEF ToursInv

\* A walk that faded goes.
LEMMA FadesKeeps == ASSUME ToursInv, Fades PROVE ToursInv'
<1>1. UNCHANGED <<drops, placed, scroll, keys, left, both>>
  BY DEF Fades, carriedIn
<1>2. (tut' = NoWalk /\ tut.at = "fading" /\ tour' = tour) \/ (tour' = NoWalk /\ tour.at = "fading" /\ tut' = tut)
  BY DEF Fades
<1>3. ToursTyped'
  BY <1>1, <1>2 DEF ToursInv, ToursTyped, IsTut
<1>4. Live(tut)' = Live(tut) /\ Live(tour)' = Live(tour)
  BY <1>2 DEF Live, NoWalk
<1>5. OneWalk'
  BY <1>1, <1>2 DEF ToursInv, OneWalk, InDocument, NoWalk
<1>6. CardsCalled => CardsCalled'
  BY <1>1, <1>2, <1>4 DEF CardsCalled, Live, NoWalk
<1> QED
  BY <1>1, <1>3, <1>4, <1>5, <1>6 DEF ToursInv, Listening, Scrolling

\* Every step of the walks keeps the invariant.
LEMMA ToursKept == ToursInv /\ [ToursNext]_toursVars => ToursInv'
<1> SUFFICES ASSUME ToursInv, [ToursNext]_toursVars PROVE ToursInv'
  OBVIOUS
<1>1. CASE UNCHANGED <<tut, tour, scroll, keys, both, left, drops, placed>>
  BY <1>1 DEF ToursInv, ToursTyped, OneWalk, Listening, Scrolling, CardsCalled
<1>2. ASSUME NEW x \in Range(Targets), Changes(x) PROVE ToursInv'
  BY <1>2, <1>1 DEF Changes, carriedIn
<1> QED
  BY <1>1, <1>2, TutorialOpensKeeps, TourOpensKeeps, PressesKeep, ArrivesKeeps, DropsKeeps, FadesKeeps
     DEF ToursNext, toursVars

\* For every list of targets, number of cards and change of the page: while the page
\* stays it scrolls exactly while no walk is open (both at once excepted), the keys go to
\* the walks that are open, and a tour whose cards were all walked in holds each of them
\* (cierra, salir, suelta).
THEOREM WalksAlwaysTell == ToursSpec => []WalksTell
<1>1. ToursInv => WalksTell
  BY DEF ToursInv, Listening, Scrolling, CardsCalled, WalksTell
<1> QED
  BY ToursStart, ToursKept, <1>1, PTL DEF ToursSpec
-----------------------------------------------------------------------------
\* The nudges

Tellings == [id: Ids, at: Nat, visit: Tabs \X Nat, asked: BOOLEAN]
PageFields == {"open", "shown", "last", "at", "seen", "loadedAt", "state", "mute", "card", "panel", "greeted"}
IsPage(p) ==
  DOMAIN p = PageFields /\ p.open = TRUE /\ p.state \in States /\ p.at \in Nat /\ p.seen \in [Ids -> Nat]

NudgesTyped ==
  /\ now \in Nat /\ now >= 1
  /\ DOMAIN page = Tabs /\ session \in [Tabs -> Nat] /\ visits \in [Tabs -> Nat]
  /\ spoken \in Seq(Tellings) /\ overlapped \in BOOLEAN
  /\ device.at \in Nat /\ device.seen \in [Ids -> Nat]

\* A page has the count of its tab; and, while it has been the only one, the budget that is
\* kept.
PagesFollow ==
  \A t \in Tabs :
    \/ page[t] = NoPage
    \/ /\ IsPage(page[t]) /\ page[t].shown = session[t]
       /\ ~overlapped =>
            /\ page[t].last = device.last /\ page[t].at = device.at /\ page[t].seen = device.seen
            /\ \A u \in Tabs \ {t} : page[u] = NoPage

\* The count of a tab is that of the visit it is in.
InVisit(t, v) == {j \in Interruptions : spoken[j].visit = <<t, v>>}
VisitsCounted ==
  \A t \in Tabs, v \in Nat :
    /\ IsFiniteSet(InVisit(t, v)) /\ Cardinality(InVisit(t, v)) <= MaxPerSession
    /\ v = visits[t] => Cardinality(InVisit(t, v)) <= session[t]
    /\ v > visits[t] => InVisit(t, v) = {}

\* The budget that is kept is what was told, in short.
BudgetIsTold ==
  ~overlapped =>
    /\ \A k \in DOMAIN spoken :
         /\ 1 <= spoken[k].at /\ spoken[k].at <= now /\ spoken[k].at <= device.seen[spoken[k].id]
         /\ ~spoken[k].asked => spoken[k].at <= device.at
    /\ spoken # <<>> => device.last = spoken[Len(spoken)].id
Spaced ==
  ~overlapped =>
    \A j \in Interruptions : \A k \in 1..(j - 1) :
      /\ k \in Interruptions => spoken[j].at - spoken[k].at >= MinGap
      /\ spoken[j].id = spoken[k].id => j # k + 1 /\ spoken[j].at - spoken[k].at >= RepeatAfter

NudgesInv == NudgesTyped /\ PagesFollow /\ VisitsCounted /\ BudgetIsTold /\ Spaced

\* The best of some nudges is one of them.
LEMMA BestIsOne == ASSUME NEW S \in SUBSET Ids, S # {} PROVE Best(S) \in S
<1> DEFINE I == {k \in DOMAIN ByUse : ByUse[k] \in S}
<1>1. I # {} /\ I \subseteq Nat
  <2>1. DOMAIN ByUse = 1..8
    BY DEF ByUse
  <2>2. \A id \in Ids : \E k \in 1..8 : ByUse[k] = id
    BY DEF Ids, ByUse
  <2> QED
    BY <2>1, <2>2
<1> HIDE DEF I
<1>2. Min(I) \in I
  BY <1>1, Least
<1> QED
  BY <1>2 DEF Best, I

\* Nothing has been told, and nothing is kept.
LEMMA NudgesStart == NudgesInit => NudgesInv
<1> SUFFICES ASSUME NudgesInit PROVE NudgesInv
  OBVIOUS
<1>1. spoken = <<>> /\ now = 1 /\ overlapped = FALSE /\ session = [t \in Tabs |-> 0] /\ visits = [t \in Tabs |-> 0]
      /\ page = [t \in Tabs |-> NoPage] /\ device.at = 0 /\ device.seen = [n \in Ids |-> 0]
  BY DEF NudgesInit, EmptyBudget, Never
<1>2. Interruptions = {} /\ \A t, v : InVisit(t, v) = {}
  BY <1>1 DEF Interruptions, InVisit
<1>3. VisitsCounted
  <2>1. IsFiniteSet({}) /\ Cardinality({}) = 0 /\ MaxPerSession \in Nat
    BY FS_EmptySet, NudgesAssumption
  <2>2. ASSUME NEW t \in Tabs, NEW v \in Nat
        PROVE  /\ IsFiniteSet(InVisit(t, v)) /\ Cardinality(InVisit(t, v)) <= MaxPerSession
               /\ Cardinality(InVisit(t, v)) <= session[t] /\ InVisit(t, v) = {}
    <3>1. InVisit(t, v) = {} /\ session[t] = 0
      BY <1>1, <1>2
    <3> QED
      BY <2>1, <3>1
  <2> QED
    BY <2>2 DEF VisitsCounted
<1>4. NudgesTyped
  <2>1. spoken \in Seq(Tellings)
    BY <1>1
  <2>2. session \in [Tabs -> Nat] /\ visits \in [Tabs -> Nat] /\ DOMAIN page = Tabs
    BY <1>1
  <2>3. device.at \in Nat /\ device.seen \in [Ids -> Nat]
    BY <1>1
  <2>4. now \in Nat /\ now >= 1
    BY <1>1
  <2>5. overlapped \in BOOLEAN
    BY Zenon DEF NudgesInit
  <2> QED
    BY <2>1, <2>2, <2>3, <2>4, <2>5 DEF NudgesTyped
<1>5. PagesFollow
  BY <1>1 DEF PagesFollow
<1>6. BudgetIsTold /\ Spaced
  BY <1>1, <1>2 DEF BudgetIsTold, Spaced
<1> QED
  BY <1>3, <1>4, <1>5, <1>6 DEF NudgesInv

\* While nothing is told, what was told is spaced as it was, and the visits as they were.
LEMMA QuietKeeps ==
  ASSUME NudgesInv, spoken' = spoken, device' = device, now' \in Nat, now' >= now,
         overlapped' \in BOOLEAN, overlapped => overlapped',
         session' \in [Tabs -> Nat], visits' \in [Tabs -> Nat], DOMAIN page' = Tabs, PagesFollow',
         \A t \in Tabs : (visits'[t] = visits[t] /\ session'[t] = session[t]) \/ visits'[t] = visits[t] + 1
  PROVE  NudgesInv'
<1>1. NudgesTyped'
  BY DEF NudgesInv, NudgesTyped
<1>2. Interruptions' = Interruptions /\ \A t, v : InVisit(t, v)' = InVisit(t, v)
  BY DEF Interruptions, InVisit
<1>3. VisitsCounted'
  <2>1. ASSUME NEW t \in Tabs, NEW v \in Nat
        PROVE  /\ IsFiniteSet(InVisit(t, v)) /\ Cardinality(InVisit(t, v)) <= MaxPerSession
               /\ v = visits'[t] => Cardinality(InVisit(t, v)) <= session'[t]
               /\ v > visits'[t] => InVisit(t, v) = {}
    <3>1. /\ IsFiniteSet(InVisit(t, v)) /\ Cardinality(InVisit(t, v)) <= MaxPerSession
          /\ v = visits[t] => Cardinality(InVisit(t, v)) <= session[t]
          /\ v > visits[t] => InVisit(t, v) = {}
      BY DEF NudgesInv, VisitsCounted
    <3>2. visits[t] \in Nat /\ session'[t] \in Nat
      BY DEF NudgesInv, NudgesTyped
    <3>3. InVisit(t, v) = {} => Cardinality(InVisit(t, v)) = 0
      BY FS_EmptySet
    <3> QED
      BY <3>1, <3>2, <3>3
  <2> QED
    BY <1>2, <2>1 DEF VisitsCounted
<1>4. BudgetIsTold'
  <2>1. \A k \in DOMAIN spoken : spoken[k] \in Tellings
    BY DEF NudgesInv, NudgesTyped
  <2>2. \A k \in DOMAIN spoken : spoken[k].at \in Nat
    BY <2>1 DEF Tellings
  <2>3. now \in Nat
    BY DEF NudgesInv, NudgesTyped
  <2> QED
    BY <2>2, <2>3 DEF NudgesInv, BudgetIsTold
<1>5. Spaced'
  BY <1>2 DEF NudgesInv, Spaced
<1> QED
  BY <1>1, <1>3, <1>4, <1>5 DEF NudgesInv

\* One more is told.
LEMMA OneMoreTold ==
  ASSUME spoken \in Seq(Tellings), NEW e \in Tellings, spoken' = Append(spoken, e)
  PROVE  LET n == Len(spoken) + 1 IN
         /\ n \in Nat /\ n \notin DOMAIN spoken /\ Len(spoken') = n /\ DOMAIN spoken' = DOMAIN spoken \cup {n}
         /\ DOMAIN spoken = 1..(n - 1) /\ spoken'[n] = e /\ \A k \in DOMAIN spoken : spoken'[k] = spoken[k]
         /\ Interruptions' = IF e.asked THEN Interruptions ELSE Interruptions \cup {n}
         /\ \A t, v : InVisit(t, v)' = IF ~e.asked /\ e.visit = <<t, v>> THEN InVisit(t, v) \cup {n} ELSE InVisit(t, v)
<1> DEFINE n == Len(spoken) + 1
<1>1. /\ n \in Nat /\ n \notin DOMAIN spoken /\ Len(spoken') = n /\ DOMAIN spoken' = DOMAIN spoken \cup {n}
      /\ DOMAIN spoken = 1..(n - 1) /\ spoken'[n] = e /\ \A k \in DOMAIN spoken : spoken'[k] = spoken[k]
  OBVIOUS
<1>2. e.asked \in BOOLEAN
  BY DEF Tellings
<1> HIDE DEF n
<1>3. Interruptions' = IF e.asked THEN Interruptions ELSE Interruptions \cup {n}
  BY <1>1, <1>2 DEF Interruptions
<1>4. ASSUME NEW t, NEW v
      PROVE  InVisit(t, v)' = IF ~e.asked /\ e.visit = <<t, v>> THEN InVisit(t, v) \cup {n} ELSE InVisit(t, v)
  <2>1. Interruptions \subseteq DOMAIN spoken
    BY DEF Interruptions
  <2>2. InVisit(t, v)' = {j \in Interruptions' : spoken'[j].visit = <<t, v>>}
    BY DEF InVisit
  <2> QED
    BY <1>1, <1>3, <2>1, <2>2 DEF InVisit
<1> QED
  BY <1>1, <1>3, <1>4 DEF n

\* What a page tells, asked or not, it notes where the next page will look.
LEMMA TellingKeeps ==
  ASSUME NudgesInv, NEW t \in Tabs, page[t] # NoPage, NEW id \in Ids, NEW asking \in BOOLEAN, NEW q, IsPage(q),
         page' = [page EXCEPT ![t] = q], session' = [session EXCEPT ![t] = q.shown],
         device' = [last |-> q.last, at |-> q.at, seen |-> q.seen],
         spoken' = Append(spoken, [id |-> id, at |-> now, visit |-> <<t, visits[t]>>, asked |-> asking]),
         UNCHANGED <<now, visits, overlapped>>,
         q.last = id, q.seen = [page[t].seen EXCEPT ![id] = now],
         asking => q.at = page[t].at /\ q.shown = page[t].shown,
         ~asking => /\ q.at = now /\ q.shown = page[t].shown + 1 /\ page[t].shown < MaxPerSession
                    /\ page[t].at # Never => now - page[t].at >= MinGap
                    /\ id # page[t].last
                    /\ page[t].seen[id] # Never => now - page[t].seen[id] >= RepeatAfter
  PROVE  NudgesInv'
<1> DEFINE e == [id |-> id, at |-> now, visit |-> <<t, visits[t]>>, asked |-> asking]
           n == Len(spoken) + 1
<1>1. NudgesTyped /\ PagesFollow /\ VisitsCounted /\ BudgetIsTold /\ Spaced
  BY DEF NudgesInv
<1>2. /\ now \in Nat /\ now >= 1 /\ DOMAIN page = Tabs /\ session \in [Tabs -> Nat] /\ visits \in [Tabs -> Nat]
      /\ spoken \in Seq(Tellings) /\ overlapped \in BOOLEAN /\ device.at \in Nat /\ device.seen \in [Ids -> Nat]
  BY <1>1 DEF NudgesTyped
<1>3. /\ IsPage(page[t]) /\ page[t].shown = session[t]
      /\ ~overlapped => /\ page[t].last = device.last /\ page[t].at = device.at /\ page[t].seen = device.seen
                        /\ \A u \in Tabs \ {t} : page[u] = NoPage
  BY <1>1 DEF PagesFollow
<1>4. e \in Tellings /\ e.id = id /\ e.at = now /\ e.visit = <<t, visits[t]>> /\ e.asked = asking
  BY <1>2 DEF Tellings
<1> HIDE DEF e
<1>5. /\ n \in Nat /\ n \notin DOMAIN spoken /\ Len(spoken') = n /\ DOMAIN spoken' = DOMAIN spoken \cup {n}
      /\ DOMAIN spoken = 1..(n - 1) /\ spoken'[n] = e /\ \A k \in DOMAIN spoken : spoken'[k] = spoken[k]
      /\ Interruptions' = IF e.asked THEN Interruptions ELSE Interruptions \cup {n}
      /\ \A u, v : InVisit(u, v)' = IF ~e.asked /\ e.visit = <<u, v>> THEN InVisit(u, v) \cup {n} ELSE InVisit(u, v)
  <2>1. spoken' = Append(spoken, e)
    BY DEF e
  <2> QED
    BY <1>2, <1>4, <2>1, OneMoreTold
<1> HIDE DEF n
<1>6. q.shown \in Nat /\ q.at \in Nat /\ q.seen \in [Ids -> Nat]
  BY <1>2, <1>3 DEF IsPage
<1>7. NudgesTyped'
  <2>1. spoken' \in Seq(Tellings)
    BY <1>2, <1>4 DEF e
  <2>2. device'.at = q.at /\ device'.seen = q.seen
    OBVIOUS
  <2> QED
    BY <1>2, <1>6, <2>1, <2>2 DEF NudgesTyped
<1>8. PagesFollow'
  <2>1. device'.last = q.last /\ device'.at = q.at /\ device'.seen = q.seen
    OBVIOUS
  <2>2. page'[t] = q /\ session'[t] = q.shown
    BY <1>2
  <2>3. ASSUME NEW u \in Tabs \ {t} PROVE page'[u] = page[u] /\ session'[u] = session[u]
    BY <1>2
  <2>4. \A p : IsPage(p)' <=> IsPage(p)
    BY DEF IsPage
  <2>5. ~overlapped => \A u \in Tabs \ {t} : page'[u] = NoPage
    BY <1>3, <2>3
  <2>6. ASSUME NEW u \in Tabs \ {t}
        PROVE  page'[u] = NoPage \/ (IsPage(page'[u]) /\ page'[u].shown = session'[u] /\ overlapped)
    BY <1>1, <1>2, <2>3, <2>5 DEF PagesFollow
  <2> QED
    BY <1>2, <2>1, <2>2, <2>4, <2>5, <2>6 DEF PagesFollow
<1>9. VisitsCounted'
  <2>1. ASSUME NEW u \in Tabs, NEW v \in Nat
        PROVE  /\ IsFiniteSet(InVisit(u, v)') /\ Cardinality(InVisit(u, v)') <= MaxPerSession
               /\ v = visits[u] => Cardinality(InVisit(u, v)') <= session'[u]
               /\ v > visits[u] => InVisit(u, v)' = {}
    <3>1. /\ IsFiniteSet(InVisit(u, v)) /\ Cardinality(InVisit(u, v)) <= MaxPerSession
          /\ v = visits[u] => Cardinality(InVisit(u, v)) <= session[u]
          /\ v > visits[u] => InVisit(u, v) = {}
      BY <1>1 DEF VisitsCounted
    <3>2. CASE ~asking /\ e.visit = <<u, v>>
      <4>1. u = t /\ v = visits[t]
        BY <1>4, <3>2
      <4>2. InVisit(u, v)' = InVisit(u, v) \cup {n} /\ n \notin InVisit(u, v)
        BY <1>4, <1>5, <3>2 DEF InVisit, Interruptions
      <4>3. IsFiniteSet(InVisit(u, v)') /\ Cardinality(InVisit(u, v)') = Cardinality(InVisit(u, v)) + 1
        BY <3>1, <4>2, FS_AddElement
      <4>4. session'[u] = session[u] + 1 /\ session[u] < MaxPerSession /\ session[u] \in Nat
        BY <1>2, <1>3, <3>2, <4>1
      <4>5. Cardinality(InVisit(u, v)) \in Nat /\ MaxPerSession \in Nat
        BY <3>1, FS_CardinalityType, NudgesAssumption
      <4> QED
        BY <1>2, <3>1, <4>1, <4>3, <4>4, <4>5
    <3>3. CASE ~(~asking /\ e.visit = <<u, v>>)
      <4>1. InVisit(u, v)' = InVisit(u, v)
        BY <1>4, <1>5, <3>3
      <4>2. session'[u] \in Nat /\ session'[u] >= session[u]
        BY <1>2, <1>3
      <4>3. Cardinality(InVisit(u, v)) \in Nat /\ session[u] \in Nat
        BY <1>2, <3>1, FS_CardinalityType
      <4> QED
        BY <3>1, <4>1, <4>2, <4>3
    <3> QED
      BY <3>2, <3>3
  <2> QED
    BY <2>1 DEF VisitsCounted
<1>10. ASSUME NEW k \in DOMAIN spoken
       PROVE  spoken[k].at \in Nat /\ spoken[k].id \in Ids /\ spoken[k].asked \in BOOLEAN
  <2>1. spoken[k] \in Tellings
    BY <1>2
  <2> QED
    BY <2>1 DEF Tellings
<1>11. BudgetIsTold'
  <2> SUFFICES ASSUME ~overlapped
               PROVE  /\ \A k \in DOMAIN spoken' :
                           /\ 1 <= spoken'[k].at /\ spoken'[k].at <= now /\ spoken'[k].at <= q.seen[spoken'[k].id]
                           /\ ~spoken'[k].asked => spoken'[k].at <= q.at
                      /\ q.last = spoken'[Len(spoken')].id
    BY DEF BudgetIsTold
  <2>1. page[t].seen = device.seen /\ page[t].at = device.at
    BY <1>3
  <2>2. q.seen[id] = now /\ \A x \in Ids \ {id} : q.seen[x] = device.seen[x]
    BY <1>2, <2>1
  <2>3. ASSUME NEW k \in DOMAIN spoken
        PROVE  /\ 1 <= spoken'[k].at /\ spoken'[k].at <= now /\ spoken'[k].at <= q.seen[spoken'[k].id]
               /\ ~spoken'[k].asked => spoken'[k].at <= q.at
    <3>1. /\ 1 <= spoken[k].at /\ spoken[k].at <= now /\ spoken[k].at <= device.seen[spoken[k].id]
          /\ ~spoken[k].asked => spoken[k].at <= device.at
      BY <1>1 DEF BudgetIsTold
    <3>2. q.at = now \/ q.at = device.at
      BY <2>1
    <3> QED
      BY <1>5, <1>10, <2>2, <3>1, <3>2
  <2>4. /\ 1 <= e.at /\ e.at <= now /\ e.at <= q.seen[e.id] /\ (~e.asked => e.at <= q.at) /\ q.last = e.id
    BY <1>2, <1>4, <2>2
  <2> QED
    BY <1>5, <2>3, <2>4
<1>12. Spaced'
  <2> SUFFICES ASSUME ~overlapped, NEW j \in Interruptions', NEW k \in 1..(j - 1)
               PROVE  /\ k \in Interruptions' => spoken'[j].at - spoken'[k].at >= MinGap
                      /\ spoken'[j].id = spoken'[k].id => j # k + 1 /\ spoken'[j].at - spoken'[k].at >= RepeatAfter
    BY DEF Spaced
  <2>1. Interruptions \subseteq DOMAIN spoken
    BY DEF Interruptions
  <2>2. CASE j \in Interruptions
    <3>1. k \in DOMAIN spoken /\ j \in DOMAIN spoken
      BY <1>5, <2>1, <2>2
    <3>2. k \in Interruptions' => k \in Interruptions
      BY <1>5, <3>1
    <3> QED
      BY <1>1, <1>5, <2>2, <3>1, <3>2 DEF Spaced
  <2>3. CASE j \notin Interruptions
    <3>1. j = n /\ ~asking /\ spoken'[j] = e
      BY <1>4, <1>5, <2>3
    <3>2. k \in DOMAIN spoken /\ spoken'[k] = spoken[k]
      BY <1>5, <3>1
    <3>3. /\ 1 <= spoken[k].at /\ spoken[k].at <= now /\ spoken[k].at <= device.seen[spoken[k].id]
          /\ ~spoken[k].asked => spoken[k].at <= device.at
      BY <1>1, <3>2 DEF BudgetIsTold
    <3>4. spoken[k].at \in Nat /\ spoken[k].id \in Ids
      BY <1>10, <3>2
    <3>5. ASSUME k \in Interruptions' PROVE now - spoken[k].at >= MinGap
      <4>1. spoken[k].at <= device.at
        BY <1>5, <3>1, <3>2, <3>3, <3>5 DEF Interruptions
      <4>2. now - device.at >= MinGap
        BY <1>2, <1>3, <3>1, <3>3, <3>4, <4>1 DEF Never
      <4> QED
        BY <1>2, <3>4, <4>1, <4>2, NudgesAssumption
    <3>6. ASSUME spoken[k].id = id PROVE j # k + 1 /\ now - spoken[k].at >= RepeatAfter
      <4>1. now - device.seen[id] >= RepeatAfter
        BY <1>2, <1>3, <3>1, <3>3, <3>4, <3>6 DEF Never
      <4>2. now - spoken[k].at >= RepeatAfter
        BY <1>2, <3>3, <3>4, <3>6, <4>1, NudgesAssumption
      <4>3. id # device.last
        BY <1>3, <3>1
      <4>4. j = k + 1 => k = Len(spoken) /\ spoken # <<>>
        BY <1>2, <3>1, <3>2 DEF n
      <4> QED
        BY <1>1, <3>6, <4>2, <4>3, <4>4 DEF BudgetIsTold
    <3> QED
      BY <1>4, <3>1, <3>2, <3>5, <3>6
  <2> QED
    BY <2>2, <2>3
<1> QED
  BY <1>7, <1>8, <1>9, <1>11, <1>12 DEF NudgesInv

\* What happens to one page while nothing is told, if it keeps its budget.
LEMMA PageKeeps ==
  ASSUME NudgesInv, NEW t \in Tabs, page[t] # NoPage, NEW q, IsPage(q), page' = [page EXCEPT ![t] = q],
         q.shown = page[t].shown, q.last = page[t].last, q.at = page[t].at, q.seen = page[t].seen,
         UNCHANGED <<now, device, session, spoken, visits, overlapped>>
  PROVE  NudgesInv'
<1>1. DOMAIN page = Tabs /\ page'[t] = q /\ \A u \in Tabs \ {t} : page'[u] = page[u]
  BY DEF NudgesInv, NudgesTyped
<1>2. \A p : IsPage(p)' <=> IsPage(p)
  BY DEF IsPage
<1>3. /\ page[t].shown = session[t]
      /\ ~overlapped =>
           /\ page[t].last = device.last /\ page[t].at = device.at /\ page[t].seen = device.seen
           /\ \A u \in Tabs \ {t} : page[u] = NoPage
  BY DEF NudgesInv, PagesFollow
<1>4. ASSUME NEW u \in Tabs \ {t}
      PROVE  page'[u] = NoPage \/ (IsPage(page'[u]) /\ page'[u].shown = session[u] /\ overlapped)
  BY <1>1, <1>3 DEF NudgesInv, PagesFollow
<1>5. PagesFollow'
  BY <1>1, <1>2, <1>3, <1>4 DEF PagesFollow
<1> QED
  BY <1>1, <1>5, QuietKeeps DEF NudgesInv, NudgesTyped

\* A page reads the budget the device keeps (AiPanel.astro, presupuesto).
LEMMA LoadKeeps == ASSUME NudgesInv, NEW t \in Tabs, NEW s \in States, Load(t, s) PROVE NudgesInv'
<1> DEFINE q == [open |-> TRUE, shown |-> session[t], last |-> device.last, at |-> device.at, seen |-> device.seen,
                 loadedAt |-> now, state |-> s, mute |-> muted, card |-> FALSE, panel |-> FALSE, greeted |-> FALSE]
<1>1. NudgesTyped /\ PagesFollow
  BY DEF NudgesInv
<1>2. /\ page' = [page EXCEPT ![t] = q] /\ overlapped' = (overlapped \/ OpenTabs \ {t} # {})
      /\ UNCHANGED <<now, device, session, spoken, visits>>
  BY DEF Load
<1>3. IsPage(q) /\ q.shown = session[t] /\ q.last = device.last /\ q.at = device.at /\ q.seen = device.seen
  BY <1>1 DEF IsPage, PageFields, NudgesTyped
<1> HIDE DEF q
<1>4. page'[t] = q /\ DOMAIN page' = Tabs /\ \A u \in Tabs \ {t} : page'[u] = page[u]
  BY <1>1, <1>2 DEF NudgesTyped
<1>5. overlapped' \in BOOLEAN /\ (overlapped => overlapped')
  BY <1>2
<1>6. ASSUME ~overlapped', NEW u \in Tabs \ {t} PROVE page[u] = NoPage
  <2>1. u \notin OpenTabs
    BY <1>2, <1>6
  <2> QED
    BY <1>1, <2>1 DEF OpenTabs, PagesFollow, IsPage
<1>7. \A p : IsPage(p)' <=> IsPage(p)
  BY DEF IsPage
<1>8. ASSUME NEW u \in Tabs \ {t}
      PROVE  page'[u] = NoPage \/ (IsPage(page'[u]) /\ page'[u].shown = session[u] /\ overlapped')
  BY <1>1, <1>4, <1>6 DEF PagesFollow
<1>9. PagesFollow'
  BY <1>2, <1>3, <1>4, <1>6, <1>7, <1>8 DEF PagesFollow
<1> QED
  BY <1>1, <1>2, <1>4, <1>5, <1>9, QuietKeeps DEF NudgesTyped

\* With the tab goes its count, and what it tells next is of another visit.
LEMMA CloseKeeps == ASSUME NudgesInv, NEW t \in Tabs, Close(t) PROVE NudgesInv'
<1>1. NudgesTyped /\ PagesFollow
  BY DEF NudgesInv
<1>2. /\ page' = [page EXCEPT ![t] = NoPage] /\ session' = [session EXCEPT ![t] = 0]
      /\ visits' = [visits EXCEPT ![t] = visits[t] + 1] /\ UNCHANGED <<now, device, spoken, overlapped>>
  BY DEF Close
<1>3. \A p : IsPage(p)' <=> IsPage(p)
  BY DEF IsPage
<1>4. /\ page'[t] = NoPage /\ DOMAIN page' = Tabs
      /\ \A u \in Tabs \ {t} : page'[u] = page[u] /\ session'[u] = session[u] /\ visits'[u] = visits[u]
      /\ session' \in [Tabs -> Nat] /\ visits' \in [Tabs -> Nat] /\ visits'[t] = visits[t] + 1
  BY <1>1, <1>2 DEF NudgesTyped
<1>5. PagesFollow'
  BY <1>1, <1>2, <1>3, <1>4 DEF PagesFollow
<1> QED
  BY <1>1, <1>2, <1>4, <1>5, QuietKeeps DEF NudgesTyped

\* The coach interrupts within the budget the page has in hand.
LEMMA TicKeeps == ASSUME NudgesInv, NEW t \in Tabs, Tic(t) PROVE NudgesInv'
<1> DEFINE p == page[t]
           id == Best(Allowed(p))
           q == [p EXCEPT !.shown = p.shown + 1, !.last = id, !.at = now, !.seen[id] = now, !.card = TRUE]
<1>1. t \in OpenTabs /\ WithinBudget(p) /\ Allowed(p) # {} /\ UNCHANGED <<now, visits, overlapped>>
  BY DEF Tic
<1>2. page' = [page EXCEPT ![t] = q] /\ session' = [session EXCEPT ![t] = q.shown]
      /\ device' = [last |-> q.last, at |-> q.at, seen |-> q.seen]
      /\ spoken' = Append(spoken, [id |-> id, at |-> now, visit |-> <<t, visits[t]>>, asked |-> FALSE])
  BY DEF Tic, Saves, Spend
<1>3. p # NoPage /\ IsPage(p) /\ now \in Nat
  BY <1>1 DEF NudgesInv, NudgesTyped, PagesFollow, OpenTabs, NoPage
<1>4. id \in Allowed(p) /\ id \in Ids
  <2>1. Allowed(p) \subseteq Ids
    BY DEF Allowed, Candidates
  <2> QED
    BY <1>1, <2>1, BestIsOne
<1>5. id # p.last /\ (p.seen[id] # Never => now - p.seen[id] >= RepeatAfter)
  BY <1>4 DEF Allowed
<1>6. p.shown < MaxPerSession /\ (p.at # Never => now - p.at >= MinGap)
  BY <1>1 DEF WithinBudget
<1> HIDE DEF id
<1>7. /\ IsPage(q) /\ q.last = id /\ q.at = now /\ q.shown = p.shown + 1 /\ q.seen = [p.seen EXCEPT ![id] = now]
  BY <1>3 DEF IsPage, PageFields
<1> HIDE DEF q
<1> QED
  BY <1>1, <1>2, <1>3, <1>4, <1>5, <1>6, <1>7, TellingKeeps

\* The panel greets with the best candidate, and notes it.
LEMMA OpensKeeps == ASSUME NudgesInv, NEW t \in Tabs, NEW yes, Opens(t, yes) PROVE NudgesInv'
<1> DEFINE p == [page[t] EXCEPT !.panel = TRUE, !.card = FALSE, !.greeted = TRUE]
           id == Best(Candidates(p.state))
           q == [p EXCEPT !.last = id, !.seen[id] = now]
<1>1. t \in OpenTabs /\ UNCHANGED <<now, visits, overlapped>>
  BY DEF Opens
<1>2. page[t] # NoPage /\ IsPage(page[t]) /\ now \in Nat
  BY <1>1 DEF NudgesInv, NudgesTyped, PagesFollow, OpenTabs, NoPage
<1>3. /\ IsPage(p) /\ p.shown = page[t].shown /\ p.last = page[t].last /\ p.at = page[t].at
      /\ p.seen = page[t].seen
  BY <1>2 DEF IsPage, PageFields
<1>4. CASE page' = [page EXCEPT ![t] = p] /\ UNCHANGED <<device, session, spoken>>
  <2> HIDE DEF p
  <2> QED
    BY <1>1, <1>2, <1>3, <1>4, PageKeeps
<1>5. CASE /\ Candidates(p.state) # {} /\ Saves(t, q)
           /\ spoken' = Append(spoken, [id |-> id, at |-> now, visit |-> <<t, visits[t]>>, asked |-> TRUE])
  <2>1. id \in Ids
    <3>1. Candidates(p.state) \subseteq Ids
      BY DEF Candidates
    <3> QED
      BY <1>5, <3>1, BestIsOne
  <2> HIDE DEF id, p
  <2>2. /\ IsPage(q) /\ q.last = id /\ q.at = p.at /\ q.shown = p.shown /\ q.seen = [p.seen EXCEPT ![id] = now]
    BY <1>2, <1>3, <2>1 DEF IsPage, PageFields
  <2>3. page' = [page EXCEPT ![t] = q] /\ session' = [session EXCEPT ![t] = q.shown]
        /\ device' = [last |-> q.last, at |-> q.at, seen |-> q.seen]
    BY <1>5 DEF Saves
  <2> HIDE DEF q
  <2> QED
    BY <1>1, <1>2, <1>3, <1>5, <2>1, <2>2, <2>3, TellingKeeps
<1> QED
  BY <1>4, <1>5 DEF Opens, Noted

\* Every step of the nudges keeps the invariant.
LEMMA NudgesKept == NudgesInv /\ [NudgesNext]_nudgesVars => NudgesInv'
<1> SUFFICES ASSUME NudgesInv, [NudgesNext]_nudgesVars PROVE NudgesInv'
  OBVIOUS
<1>1. CASE UNCHANGED nudgesVars
  <2>1. PagesFollow'
    BY <1>1 DEF nudgesVars, NudgesInv, PagesFollow, IsPage
  <2> QED
    BY <1>1, <2>1, QuietKeeps DEF nudgesVars, NudgesInv, NudgesTyped
<1>2. CASE Tick
  <2>1. PagesFollow'
    BY <1>2 DEF Tick, NudgesInv, PagesFollow, IsPage
  <2> QED
    BY <1>2, <2>1, QuietKeeps DEF Tick, NudgesInv, NudgesTyped
<1>3. ASSUME NEW t \in Tabs, Hide(t) \/ Shuts(t) \/ \E on \in BOOLEAN : Mute(t, on)
      PROVE  NudgesInv'
  <2>1. t \in OpenTabs /\ UNCHANGED <<now, device, session, spoken, visits, overlapped>>
    BY <1>3 DEF Hide, Shuts, Mute
  <2>2. page[t] # NoPage /\ IsPage(page[t])
    BY <2>1 DEF NudgesInv, PagesFollow, OpenTabs, NoPage
  <2>3. PICK q : /\ page' = [page EXCEPT ![t] = q] /\ IsPage(q)
                 /\ q.shown = page[t].shown /\ q.last = page[t].last /\ q.at = page[t].at /\ q.seen = page[t].seen
    <3>1. CASE Hide(t)
      <4> DEFINE q == [page[t] EXCEPT !.card = FALSE]
      <4>1. page' = [page EXCEPT ![t] = q]
        BY <3>1 DEF Hide
      <4>3. IsPage(q) /\ q.shown = page[t].shown /\ q.last = page[t].last /\ q.at = page[t].at /\ q.seen = page[t].seen
        BY <2>2 DEF IsPage, PageFields
      <4> HIDE DEF q
      <4> QED
        BY <4>1, <4>3
    <3>2. CASE Shuts(t)
      <4> DEFINE q == [page[t] EXCEPT !.panel = FALSE]
      <4>1. page' = [page EXCEPT ![t] = q]
        BY <3>2 DEF Shuts
      <4>3. IsPage(q) /\ q.shown = page[t].shown /\ q.last = page[t].last /\ q.at = page[t].at /\ q.seen = page[t].seen
        BY <2>2 DEF IsPage, PageFields
      <4> HIDE DEF q
      <4> QED
        BY <4>1, <4>3
    <3>3. CASE \E on \in BOOLEAN : Mute(t, on)
      <4>1. PICK on \in BOOLEAN : Mute(t, on)
        BY <3>3
      <4> DEFINE q == [page[t] EXCEPT !.mute = on, !.card = page[t].card /\ ~on]
      <4>2. page' = [page EXCEPT ![t] = q]
        BY <4>1 DEF Mute
      <4>3. IsPage(q) /\ q.shown = page[t].shown /\ q.last = page[t].last /\ q.at = page[t].at /\ q.seen = page[t].seen
        BY <2>2 DEF IsPage, PageFields
      <4> HIDE DEF q
      <4> QED
        BY <4>2, <4>3
    <3> QED
      BY <1>3, <3>1, <3>2, <3>3
  <2> QED
    BY <2>1, <2>2, <2>3, PageKeeps
<1> QED
  BY <1>1, <1>2, <1>3, LoadKeeps, CloseKeeps, TicKeeps, OpensKeeps DEF NudgesNext

\* Whatever a student does to the pages of however many tabs, a visit is interrupted within
\* its budget; and, while one tab is open at a time, interruptions are apart, and neither
\* repeat what was told last nor, for a while, what was told before (coach.ts, THE BUDGET).
THEOREM BudgetAlwaysHolds == NudgesSpec => []BudgetHolds
<1>1. NudgesInv => BudgetHolds
  <2> SUFFICES ASSUME NudgesInv PROVE BudgetHolds
    OBVIOUS
  <2>1. ASSUME NEW k \in Interruptions
        PROVE  Cardinality({j \in Interruptions : spoken[j].visit = spoken[k].visit}) <= MaxPerSession
    <3>1. spoken[k] \in Tellings
      BY DEF NudgesInv, NudgesTyped, Interruptions
    <3>2. PICK t \in Tabs, v \in Nat : spoken[k].visit = <<t, v>>
      BY <3>1 DEF Tellings
    <3>3. {j \in Interruptions : spoken[j].visit = spoken[k].visit} = InVisit(t, v)
      BY <3>2 DEF InVisit
    <3> QED
      BY <3>3 DEF NudgesInv, VisitsCounted
  <2> QED
    BY <2>1 DEF BudgetHolds, NudgesInv, Spaced
<1> QED
  BY <1>1, NudgesStart, NudgesKept, PTL DEF NudgesSpec

-----------------------------------------------------------------------------
(* The lane of cards: what is in it still has time, and a key has one card. *)

\* A card that goes leaves the others as they were.
LEMMA GoneLeaves ==
  ASSUME NEW S, NEW s \in Seq(S), IsInjective(s), NEW c
  PROVE  Gone(s, c) \in Seq(S) /\ IsInjective(Gone(s, c)) /\ Range(Gone(s, c)) = Range(s) \ {c}
<1>0. Len(s) \in Nat /\ DOMAIN s = 1..Len(s) /\ \A ix \in 1..Len(s) : s[ix] \in S
  BY LenProperties, ElementOfSeq
<1>1. CASE c \notin Range(s)
  BY <1>1 DEF Gone
<1>2. CASE c \in Range(s)
  <2> DEFINE k == CHOOSE ix \in DOMAIN s : s[ix] = c
             one == SubSeq(s, 1, k - 1)
             two == SubSeq(s, k + 1, Len(s))
  <2>1. k \in 1..Len(s) /\ s[k] = c
    BY <1>0, <1>2 DEF Range
  <2>2. Gone(s, c) = one \o two
    BY <1>2 DEF Gone, RemoveAt
  <2> HIDE DEF k
  <2>3. one \in Seq(S) /\ Len(one) = k - 1 /\ \A ix \in 1..k - 1 : one[ix] = s[ix]
    <3>1. \A ix \in 1..k - 1 : s[ix] \in S
      BY <1>0, <2>1
    <3>2. 1 \in Int /\ k - 1 \in Int /\ (k - 1) - 1 + 1 = k - 1 /\ \A ix \in 1..k - 1 : 1 + ix - 1 = ix
      BY <2>1
    <3>3. /\ one \in Seq(S) /\ Len(one) = IF 1 <= k - 1 THEN k - 1 - 1 + 1 ELSE 0
          /\ \A ix \in 1..k - 1 - 1 + 1 : one[ix] = s[1 + ix - 1]
      BY <3>1, <3>2, SubSeqProperties
    <3> QED
      BY <2>1, <3>2, <3>3
  <2>4. two \in Seq(S) /\ Len(two) = Len(s) - k /\ \A ix \in 1..Len(s) - k : two[ix] = s[k + ix]
    <3>1. \A ix \in k + 1..Len(s) : s[ix] \in S
      BY <1>0, <2>1
    <3>2. /\ Len(s) \in Int /\ k + 1 \in Int /\ Len(s) - (k + 1) + 1 = Len(s) - k
          /\ \A ix \in 1..Len(s) - k : (k + 1) + ix - 1 = k + ix
      BY <1>0, <2>1
    <3>3. /\ two \in Seq(S) /\ Len(two) = IF k + 1 <= Len(s) THEN Len(s) - (k + 1) + 1 ELSE 0
          /\ \A ix \in 1..Len(s) - (k + 1) + 1 : two[ix] = s[(k + 1) + ix - 1]
      BY <3>1, <3>2, SubSeqProperties
    <3>4. Len(two) = Len(s) - k
      <4> HIDE DEF two
      <4>1. (k + 1 <= Len(s) /\ Len(s) - (k + 1) + 1 = Len(s) - k) \/ (~(k + 1 <= Len(s)) /\ Len(s) - k = 0)
        <5>1. k \in Int /\ k <= Len(s)
          BY <1>0, <2>1
        <5> DEFINE l == Len(s)
        <5>2. l \in Int
          BY <1>0
        <5> HIDE DEF l
        <5>3. k + 1 <= l \/ l = k
          BY <5>1, <5>2 DEF l
        <5>4. k + 1 <= l => l - (k + 1) + 1 = l - k
          BY <5>1, <5>2
        <5>5. l = k => ~(k + 1 <= l) /\ l - k = 0
          BY <5>1, <5>2
        <5> QED
          BY <5>3, <5>4, <5>5 DEF l
      <4> QED
        BY <3>3, <4>1
    <3>5. \A ix \in 1..Len(s) - k : two[ix] = s[k + ix]
      BY <3>2, <3>3
    <3> QED
      BY <3>3, <3>4, <3>5
  <2> HIDE DEF one, two
  <2> DEFINE g == one \o two
  <2>5. g \in Seq(S) /\ Len(g) = Len(s) - 1 /\ \A ix \in 1..Len(s) - 1 : g[ix] = IF ix < k THEN s[ix] ELSE s[ix + 1]
    <3>1. g \in Seq(S) /\ Len(g) = Len(one) + Len(two)
          /\ \A ix \in 1..Len(one) + Len(two) : g[ix] = IF ix <= Len(one) THEN one[ix] ELSE two[ix - Len(one)]
      BY <2>3, <2>4, ConcatProperties
    <3>2. Len(one) + Len(two) = Len(s) - 1
      BY <1>0, <2>1, <2>3, <2>4
    <3>3. ASSUME NEW ix \in 1..Len(s) - 1
          PROVE  g[ix] = IF ix < k THEN s[ix] ELSE s[ix + 1]
      <4> HIDE DEF g
      <4>1. CASE ix < k
        <5>1. ix <= Len(one) /\ ix \in 1..k - 1
          BY <2>1, <2>3, <4>1
        <5> QED
          BY <2>3, <3>1, <3>2, <4>1, <5>1
      <4>2. CASE ~(ix < k)
        <5>1. ix - Len(one) \in 1..Len(s) - k /\ k + (ix - Len(one)) = ix + 1 /\ ~(ix <= Len(one))
          BY <1>0, <2>1, <2>3, <4>2
        <5> QED
          BY <2>4, <3>1, <3>2, <4>2, <5>1
      <4> QED
        BY <4>1, <4>2
    <3> QED
      BY <3>1, <3>2, <3>3
  <2> HIDE DEF g
  <2>6. DOMAIN g = 1..Len(s) - 1
    BY <2>5, LenProperties
  <2>7. IsInjective(g)
    <3> SUFFICES ASSUME NEW ix \in 1..Len(s) - 1, NEW j \in 1..Len(s) - 1, g[ix] = g[j]
                 PROVE  ix = j
      BY <2>6 DEF IsInjective
    <3> DEFINE h(m) == IF m < k THEN m ELSE m + 1
    <3>1. h(ix) \in DOMAIN s /\ h(j) \in DOMAIN s /\ (h(ix) = h(j) => ix = j)
      BY <1>0, <2>1
    <3>2. s[h(ix)] = s[h(j)]
      BY <2>5
    <3> QED
      BY <3>1, <3>2 DEF IsInjective
  <2>8. Range(g) = Range(s) \ {c}
    <3>1. ASSUME NEW ix \in 1..Len(s) - 1
          PROVE  g[ix] \in Range(s) \ {c}
      <4> DEFINE h == IF ix < k THEN ix ELSE ix + 1
      <4>1. h \in DOMAIN s /\ h # k
        BY <1>0, <2>1
      <4>2. g[ix] = s[h]
        BY <2>5
      <4>3. s[h] # c
        BY <1>0, <2>1, <4>1 DEF IsInjective
      <4> QED
        BY <4>1, <4>2, <4>3 DEF Range
    <3>2. ASSUME NEW m \in 1..Len(s), s[m] # c
          PROVE  \E ix \in 1..Len(s) - 1 : g[ix] = s[m]
      <4>0. m # k
        BY <2>1, <3>2
      <4>1. CASE m < k
        <5>1. m \in 1..Len(s) - 1
          BY <1>0, <2>1, <4>1
        <5> QED
          BY <2>5, <4>1, <5>1
      <4>2. CASE m > k
        <5>1. m - 1 \in 1..Len(s) - 1 /\ ~(m - 1 < k) /\ (m - 1) + 1 = m
          BY <1>0, <2>1, <4>2
        <5>2. g[m - 1] = s[m]
          BY <2>5, <5>1
        <5> QED
          BY <5>1, <5>2
      <4> QED
        BY <1>0, <2>1, <4>0, <4>1, <4>2
    <3> QED
      BY <1>0, <2>6, <3>1, <3>2 DEF Range
  <2> QED
    BY <2>2, <2>5, <2>7, <2>8 DEF g
<1> QED
  BY <1>1, <1>2

\* Trimming takes cards away and adds none.
LEMMA TrimLeaves ==
  ASSUME NEW S, NEW s \in Seq(S), IsInjective(s), NEW n \in Nat
  PROVE  Trim(s, n) \in Seq(S) /\ IsInjective(Trim(s, n)) /\ Range(Trim(s, n)) \subseteq Range(s)
<1>0. Len(s) \in Nat /\ DOMAIN s = 1..Len(s) /\ \A ix \in 1..Len(s) : s[ix] \in S
  BY LenProperties, ElementOfSeq
<1>1. CASE ~(Len(s) > n)
  BY <1>1 DEF Trim
<1>2. CASE Len(s) > n
  <2> DEFINE d == Len(s) - n
             t == SubSeq(s, d + 1, Len(s))
  <2>1. d \in Nat /\ Len(s) = d + n /\ Trim(s, n) = t
    BY <1>0, <1>2 DEF Trim
  <2> HIDE DEF d
  <2>2. t \in Seq(S) /\ Len(t) = n /\ \A ix \in 1..n : t[ix] = s[d + ix]
    <3>1. \A ix \in d + 1..Len(s) : s[ix] \in S
      BY <1>0, <2>1
    <3>2. /\ Len(s) \in Int /\ d + 1 \in Int /\ Len(s) - (d + 1) + 1 = n
          /\ \A ix \in 1..n : (d + 1) + ix - 1 = d + ix
      BY <1>0, <2>1
    <3>3. /\ t \in Seq(S) /\ Len(t) = IF d + 1 <= Len(s) THEN Len(s) - (d + 1) + 1 ELSE 0
          /\ \A ix \in 1..Len(s) - (d + 1) + 1 : t[ix] = s[(d + 1) + ix - 1]
      BY <3>1, <3>2, SubSeqProperties
    <3> QED
      BY <1>0, <2>1, <3>2, <3>3
  <2> HIDE DEF t
  <2>3. DOMAIN t = 1..n /\ \A ix \in 1..n : d + ix \in DOMAIN s
    BY <1>0, <2>1, <2>2, LenProperties
  <2>4. IsInjective(t)
    <3> SUFFICES ASSUME NEW ix \in 1..n, NEW j \in 1..n, t[ix] = t[j]
                 PROVE  ix = j
      BY <2>3 DEF IsInjective
    <3>1. d + ix = d + j
      BY <2>2, <2>3 DEF IsInjective
    <3> QED
      BY <2>1, <3>1
  <2>5. Range(t) \subseteq Range(s)
    BY <2>2, <2>3 DEF Range
  <2> QED
    BY <2>1, <2>2, <2>4, <2>5
<1> QED
  BY <1>1, <1>2

\* A card put down is the last of the lane.
LEMMA AppendAdds ==
  ASSUME NEW S, NEW s \in Seq(S), NEW c \in S
  PROVE  /\ Append(s, c) \in Seq(S) /\ Range(Append(s, c)) = Range(s) \cup {c}
         /\ IsInjective(s) /\ c \notin Range(s) => IsInjective(Append(s, c))
<1>0. Len(s) \in Nat /\ DOMAIN s = 1..Len(s) /\ \A ix \in 1..Len(s) : s[ix] \in S
  BY LenProperties, ElementOfSeq
<1> DEFINE a == Append(s, c)
<1>1. a \in Seq(S) /\ Len(a) = Len(s) + 1 /\ (\A ix \in 1..Len(s) : a[ix] = s[ix]) /\ a[Len(s) + 1] = c
  BY <1>0
<1> HIDE DEF a
<1>2. DOMAIN a = 1..Len(s) + 1
  BY <1>1, LenProperties
<1>3. 1..Len(s) + 1 = 1..Len(s) \cup {Len(s) + 1}
  BY <1>0
<1>4. Range(a) = Range(s) \cup {c}
  BY <1>0, <1>1, <1>2, <1>3 DEF Range
<1>5. IsInjective(s) /\ c \notin Range(s) => IsInjective(a)
  BY <1>0, <1>1, <1>2, <1>3 DEF Range, IsInjective
<1> QED
  BY <1>1, <1>4, <1>5 DEF a

\* Two sequences that share nothing, one behind the other.
LEMMA ConcatJoins ==
  ASSUME NEW S, NEW s \in Seq(S), NEW t \in Seq(S), IsInjective(s), IsInjective(t), Range(s) \cap Range(t) = {}
  PROVE  /\ s \o t \in Seq(S) /\ Len(s \o t) = Len(s) + Len(t) /\ IsInjective(s \o t)
         /\ Range(s \o t) = Range(s) \cup Range(t)
         /\ \A ix \in 1..Len(s) : (s \o t)[ix] = s[ix]
         /\ \A ix \in 1..Len(t) : (s \o t)[Len(s) + ix] = t[ix]
<1> DEFINE a == s \o t
           m == Len(s)
           n == Len(t)
<1>0. m \in Nat /\ DOMAIN s = 1..m /\ n \in Nat /\ DOMAIN t = 1..n
  BY LenProperties
<1>1. a \in Seq(S) /\ Len(a) = m + n /\ \A ix \in 1..m + n : a[ix] = IF ix <= m THEN s[ix] ELSE t[ix - m]
  BY ConcatProperties
<1> HIDE DEF a, m, n
<1>2. DOMAIN a = 1..m + n
  BY <1>1, LenProperties
<1>3. \A ix \in 1..m : ix \in 1..m + n /\ a[ix] = s[ix]
  BY <1>0, <1>1
<1>4. \A ix \in 1..n : m + ix \in 1..m + n /\ a[m + ix] = t[ix]
  <2> SUFFICES ASSUME NEW ix \in 1..n PROVE m + ix \in 1..m + n /\ a[m + ix] = t[ix]
    OBVIOUS
  <2>1. m + ix \in 1..m + n /\ ~(m + ix <= m) /\ (m + ix) - m = ix
    BY <1>0
  <2> QED
    BY <1>1, <2>1
<1>5. \A j \in 1..m + n : j \in 1..m \/ \E ix \in 1..n : j = m + ix
  <2> SUFFICES ASSUME NEW j \in 1..m + n PROVE j \in 1..m \/ \E ix \in 1..n : j = m + ix
    OBVIOUS
  <2>1. CASE j <= m
    BY <1>0, <2>1
  <2>2. CASE ~(j <= m)
    <3>1. j - m \in 1..n /\ j = m + (j - m)
      BY <1>0, <2>2
    <3> QED
      BY <3>1
  <2> QED
    BY <2>1, <2>2
<1>6. Range(a) = Range(s) \cup Range(t)
  <2>1. \A j \in 1..m + n : a[j] \in Range(s) \cup Range(t)
    <3> SUFFICES ASSUME NEW j \in 1..m + n PROVE a[j] \in Range(s) \cup Range(t)
      OBVIOUS
    <3>1. CASE j \in 1..m
      BY <1>0, <1>3, <3>1 DEF Range
    <3>2. CASE \E ix \in 1..n : j = m + ix
      BY <1>0, <1>4, <3>2 DEF Range
    <3> QED
      BY <1>5, <3>1, <3>2
  <2>2. \A ix \in 1..m : s[ix] \in Range(a)
    BY <1>2, <1>3 DEF Range
  <2>3. \A ix \in 1..n : t[ix] \in Range(a)
    BY <1>2, <1>4 DEF Range
  <2>4. Range(a) \subseteq Range(s) \cup Range(t)
    BY <1>2, <2>1 DEF Range
  <2>5. Range(s) \subseteq Range(a) /\ Range(t) \subseteq Range(a)
    BY <1>0, <2>2, <2>3 DEF Range
  <2> QED
    BY <2>4, <2>5
<1>7. IsInjective(a)
  <2> SUFFICES ASSUME NEW ix \in 1..m + n, NEW j \in 1..m + n, a[ix] = a[j] PROVE ix = j
    BY <1>2 DEF IsInjective
  <2>1. ASSUME NEW p \in 1..m, NEW q \in 1..n PROVE a[p] # a[m + q]
    BY <1>0, <1>3, <1>4 DEF Range
  <2>2. CASE ix \in 1..m /\ j \in 1..m
    BY <1>0, <1>3, <2>2 DEF IsInjective
  <2>3. CASE \E p \in 1..n : ix = m + p
    <3> PICK p \in 1..n : ix = m + p
      BY <2>3
    <3>1. j \notin 1..m
      BY <2>1
    <3> PICK q \in 1..n : j = m + q
      BY <1>5, <3>1
    <3> QED
      BY <1>0, <1>4 DEF IsInjective
  <2>4. CASE ix \in 1..m /\ \E q \in 1..n : j = m + q
    BY <2>1, <2>4
  <2> QED
    BY <1>5, <2>2, <2>3, <2>4
<1>8. Len(s) = m /\ Len(t) = n
  BY DEF m, n
<1> QED
  BY <1>1, <1>3, <1>4, <1>6, <1>7, <1>8 DEF a

\* The tail of a sequence has everything but its head.
LEMMA TailLeaves ==
  ASSUME NEW S, NEW s \in Seq(S), s # <<>>, IsInjective(s)
  PROVE  /\ Tail(s) \in Seq(S) /\ Len(s) \in Nat \ {0} /\ Len(Tail(s)) = Len(s) - 1
         /\ IsInjective(Tail(s)) /\ Range(Tail(s)) = Range(s) \ {s[1]}
         /\ Range(Tail(s)) = {s[ix] : ix \in 2..Len(s)}
         /\ \A ix \in 1..Len(s) - 1 : Tail(s)[ix] = s[ix + 1]
<1> DEFINE t == Tail(s)
           m == Len(s)
<1>1. t \in Seq(S) /\ Len(t) = m - 1 /\ \A ix \in 1..m - 1 : t[ix] = s[ix + 1]
  BY HeadTailProperties
<1>2. m \in Nat \ {0} /\ DOMAIN s = 1..m
  BY EmptySeq, LenProperties
<1> HIDE DEF t, m
<1>3. DOMAIN t = 1..m - 1
  BY <1>1, <1>2, LenProperties
<1>4. IsInjective(t)
  <2> SUFFICES ASSUME NEW ix \in 1..m - 1, NEW j \in 1..m - 1, t[ix] = t[j] PROVE ix = j
    BY <1>3 DEF IsInjective
  <2>1. ix + 1 \in 1..m /\ j + 1 \in 1..m /\ (ix + 1 = j + 1 => ix = j)
    BY <1>2
  <2> QED
    BY <1>1, <1>2, <2>1 DEF IsInjective
<1>5. \A j \in 2..m : j \in 1..m /\ j # 1 /\ j - 1 \in 1..m - 1 /\ (j - 1) + 1 = j
  BY <1>2
<1>6. \A ix \in 1..m - 1 : ix + 1 \in 2..m
  BY <1>2
<1>7. Range(t) = {s[ix] : ix \in 2..m}
  <2>1. \A ix \in 1..m - 1 : t[ix] \in {s[j] : j \in 2..m}
    BY <1>1, <1>6
  <2>2. \A j \in 2..m : s[j] = t[j - 1]
    BY <1>1, <1>5
  <2>3. \A j \in 2..m : s[j] \in Range(t)
    BY <1>3, <1>5, <2>2 DEF Range
  <2> QED
    BY <1>3, <2>1, <2>3 DEF Range
<1>8. Range(s) \ {s[1]} = {s[ix] : ix \in 2..m}
  <2>1. \A ix \in 1..m : ix = 1 \/ ix \in 2..m
    BY <1>2
  <2>2. 1 \in 1..m /\ \A ix \in 2..m : s[ix] # s[1]
    BY <1>2, <1>5 DEF IsInjective
  <2> QED
    BY <1>2, <1>5, <2>1, <2>2 DEF Range
<1> QED
  BY <1>1, <1>2, <1>4, <1>7, <1>8 DEF t, m

-----------------------------------------------------------------------------

\* The cards that are yet to be put down.
Coming == {queue[ix] : ix \in (IF walk = Off \/ carried THEN 1 ELSE 2)..Len(queue)}

CardsTyped ==
  /\ issued \subseteq AllCards /\ spent \subseteq issued /\ behind \subseteq issued
  /\ lane \in Seq(AllCards) /\ queue \in Seq(AllCards) /\ carried \in BOOLEAN /\ walk \in Int
  /\ timer \in [AllCards -> Int] /\ entry \in [Keys -> Toasts \cup {Nobody}]
  /\ \A c \in AllCards \ issued : timer[c] = Off

\* There is a walk only for a card, and it is with the cat only until it is put down.
WalkHolds ==
  /\ walk # Off => queue # <<>> /\ walk \in 0..Departs
  /\ carried => walk \in 0..Lands

\* No card is in two places.
CardsApart ==
  /\ IsInjective(lane) /\ IsInjective(queue)
  /\ Range(lane) \cup Range(queue) \subseteq issued
  /\ Range(lane) \cap Coming = {}

\* The card that is being brought has all its time left but what its walk has taken,
\* unless it was issued behind another one; those after it were.
HeadIsFresh ==
  /\ \A ix \in 2..Len(queue) : queue[ix] \in behind
  /\ queue # <<>> /\ (walk = Off \/ carried) /\ queue[1] \notin behind =>
       /\ queue[1] \notin spent
       /\ timer[queue[1]] = IF Life[queue[1]] = Forever THEN Off
                            ELSE IF walk = Off THEN Life[queue[1]] ELSE Life[queue[1]] - walk

LaneIsPrompt == \A c \in Range(lane) : c \in spent => c \in behind

\* The entry of a key is its card, in the lane or on its way, whose time is not up.
EntriesHold ==
  \A c \in Toasts \ spent :
    Key[c] \notin slipped /\ c \in Range(lane) \cup Coming => entry[Key[c]] = c

CardsInv == CardsTyped /\ WalkHolds /\ CardsApart /\ HeadIsFresh /\ LaneIsPrompt /\ EntriesHold

\* Nothing has been issued.
LEMMA CardsStart == CardsInit => CardsInv
<1> SUFFICES ASSUME CardsInit PROVE CardsInv
  OBVIOUS
<1>0. <<>> \in Seq(AllCards) /\ Len(<<>>) = 0 /\ DOMAIN <<>> = 1..0 /\ Range(<<>>) = {} /\ IsInjective(<<>>)
  BY EmptySeq DEF Range, IsInjective
<1>1. CardsTyped
  <2>1. timer \in [AllCards -> Int]
    BY DEF CardsInit, Off
  <2>2. entry \in [Keys -> Toasts \cup {Nobody}]
    BY DEF CardsInit
  <2> QED
    <3>1. lane \in Seq(AllCards) /\ queue \in Seq(AllCards) /\ carried \in BOOLEAN /\ walk \in Int
      <4>1. lane = <<>> /\ queue = <<>> /\ carried = FALSE /\ walk = -1
        BY DEF CardsInit, Off
      <4>2. lane \in Seq(AllCards) /\ queue \in Seq(AllCards)
        BY <1>0, <4>1
      <4>3. carried \in BOOLEAN
        BY <4>1
      <4>4. walk \in Int
        BY <4>1
      <4> QED
        BY <4>2, <4>3, <4>4
    <3>2. issued \subseteq AllCards /\ spent \subseteq issued /\ behind \subseteq issued
      BY DEF CardsInit
    <3>3. \A c \in AllCards \ issued : timer[c] = Off
      BY DEF CardsInit
    <3> QED
      BY <2>1, <2>2, <3>1, <3>2, <3>3 DEF CardsTyped
<1>2. Coming = {}
  BY <1>0 DEF CardsInit, Coming
<1> QED
  BY <1>0, <1>1, <1>2 DEF CardsInit, CardsInv, WalkHolds, CardsApart, HeadIsFresh, LaneIsPrompt, EntriesHold

\* What is issued goes behind what is being brought.
LEMMA BringsKeeps ==
  ASSUME CardsInv, NEW cs \in Seq(AllCards), IsInjective(cs), Range(cs) \cap issued = {},
         Brings(cs), UNCHANGED <<carried, walk, spent>>
  PROVE  /\ queue' \in Seq(AllCards) /\ IsInjective(queue')
         /\ Range(queue') = Range(queue) \cup Range(cs) /\ Coming' = Coming \cup Range(cs)
         /\ issued' = issued \cup Range(cs) /\ issued' \subseteq AllCards /\ behind' \subseteq issued'
         /\ timer' \in [AllCards -> Int] /\ (\A d \in AllCards \ issued' : timer'[d] = Off) /\ WalkHolds' /\ HeadIsFresh' /\ behind \subseteq behind'
<1> USE DEF CardsInv, CardsTyped
<1> DEFINE m == Len(queue)
           n == Len(cs)
<1>0. m \in Nat /\ DOMAIN queue = 1..m /\ n \in Nat /\ DOMAIN cs = 1..n /\ Range(cs) \subseteq AllCards
  BY LenProperties, ElementOfSeq DEF Range
<1>1. /\ queue' \in Seq(AllCards) /\ Len(queue') = m + n /\ IsInjective(queue')
      /\ Range(queue') = Range(queue) \cup Range(cs)
      /\ \A ix \in 1..m : queue'[ix] = queue[ix]
      /\ \A ix \in 1..n : queue'[m + ix] = cs[ix]
  BY ConcatJoins DEF Brings, CardsApart
<1> HIDE DEF m, n
<1>2. m = 0 <=> queue = <<>>
  BY EmptySeq DEF m
<1>3. \A j \in 1..m + n : j \in 1..m \/ \E ix \in 1..n : j = m + ix
  <2> SUFFICES ASSUME NEW j \in 1..m + n, j \notin 1..m PROVE \E ix \in 1..n : j = m + ix
    OBVIOUS
  <2>1. j - m \in 1..n /\ j = m + (j - m)
    BY <1>0
  <2> QED
    BY <2>1
<1>4. \A ix \in 1..n : m + ix \in 1..m + n
  BY <1>0
<1>5. issued' = issued \cup Range(cs) /\ issued' \subseteq AllCards /\ behind' \subseteq issued' /\ behind \subseteq behind'
  BY <1>0 DEF Brings
<1>6. timer' \in [AllCards -> Int] /\ \A d \in AllCards \ issued' : timer'[d] = Off
  <2>1. timer' \in [AllCards -> Int]
    BY CardsAssumption DEF Brings, AllCards
  <2>2. \A d \in AllCards \ issued' : d \notin Range(cs) /\ d \notin issued
    BY DEF Brings
  <2> QED
    BY <2>1, <2>2 DEF Brings
<1>7. queue' # <<>> \/ queue = <<>>
  BY <1>0, <1>1, <1>2, EmptySeq
<1>8. WalkHolds'
  BY <1>7 DEF WalkHolds
<1> DEFINE f == IF walk = Off \/ carried THEN 1 ELSE 2
<1>9. (f = 1 \/ f = 2) /\ (f = 2 => m # 0) /\ f' = f
  BY <1>2 DEF WalkHolds
<1>10. Coming = {queue[ix] : ix \in f..m} /\ Coming' = {queue'[ix] : ix \in f..m + n}
  BY <1>1 DEF Coming, m
<1> HIDE DEF f
<1>11. Coming' = Coming \cup Range(cs)
  <2>1. \A j \in f..m + n : j \in f..m \/ \E ix \in 1..n : j = m + ix
    BY <1>0, <1>3, <1>9
  <2>2. \A ix \in 1..n : m + ix \in f..m + n
    BY <1>0, <1>9
  <2>3. \A ix \in f..m : ix \in f..m + n /\ ix \in 1..m
    BY <1>0, <1>9
  <2>4. Range(cs) = {cs[ix] : ix \in 1..n}
    BY <1>0 DEF Range
  <2> QED
    <3>1. \A j \in f..m + n : queue'[j] \in Coming \cup Range(cs)
      <4> SUFFICES ASSUME NEW j \in f..m + n PROVE queue'[j] \in Coming \cup Range(cs)
        OBVIOUS
      <4>1. CASE j \in f..m
        BY <1>1, <1>10, <2>3, <4>1
      <4>2. CASE \E ix \in 1..n : j = m + ix
        BY <1>1, <2>4, <4>2
      <4> QED
        BY <2>1, <4>1, <4>2
    <3>2. \A ix \in f..m : queue[ix] \in Coming'
      BY <1>1, <1>10, <2>3
    <3>3. \A ix \in 1..n : cs[ix] \in Coming'
      BY <1>1, <1>10, <2>2
    <3>4. Coming' \subseteq Coming \cup Range(cs)
      BY <1>10, <3>1
    <3>5. Coming \subseteq Coming' /\ Range(cs) \subseteq Coming'
      BY <1>10, <2>4, <3>2, <3>3
    <3> QED
      BY <3>4, <3>5
<1>12. \A ix \in 2..m + n : queue'[ix] \in behind'
  <2> SUFFICES ASSUME NEW ix \in 2..m + n PROVE queue'[ix] \in behind'
    OBVIOUS
  <2>1. CASE ix \in 1..m
    <3>1. ix \in 2..m
      BY <1>0, <2>1
    <3> QED
      BY <1>1, <1>5, <2>1, <3>1 DEF HeadIsFresh, m
  <2>2. CASE ix \notin 1..m
    <3>0. ix \in 1..m + n
      BY <1>0
    <3>1. PICK j \in 1..n : ix = m + j
      BY <1>3, <2>2, <3>0
    <3>2. cs[j] \in Range(cs) /\ queue'[ix] = cs[j]
      BY <1>0, <1>1, <3>1 DEF Range
    <3>3. queue # <<>> \/ j # 1
      BY <1>0, <1>2, <3>1
    <3>4. 1 \in 1..n
      BY <1>0
    <3>5. queue # <<>> \/ cs[j] # cs[1]
      BY <1>0, <3>3, <3>4 DEF IsInjective
    <3> QED
      BY <3>2, <3>5 DEF Brings
  <2> QED
    BY <2>1, <2>2
<1>13. ASSUME queue' # <<>>, walk = Off \/ carried, queue'[1] \notin behind'
       PROVE  /\ queue'[1] \notin spent
              /\ timer'[queue'[1]] = IF Life[queue'[1]] = Forever THEN Off
                                     ELSE IF walk = Off THEN Life[queue'[1]] ELSE Life[queue'[1]] - walk
  <2>1. CASE queue # <<>>
    <3>0. 1 \in 1..m
      BY <1>0, <1>2, <2>1
    <3>1. queue'[1] = queue[1] /\ queue[1] \in Range(queue)
      BY <1>0, <1>1, <3>0 DEF Range
    <3>2. queue[1] \in issued /\ queue[1] \in AllCards /\ queue[1] \notin Range(cs) /\ queue[1] \notin behind
      BY <1>5, <1>13, <3>1 DEF CardsApart
    <3>3. timer'[queue[1]] = timer[queue[1]]
      BY <3>2 DEF Brings
    <3> QED
      BY <1>13, <2>1, <3>1, <3>2, <3>3 DEF HeadIsFresh
  <2>2. CASE queue = <<>>
    <3>1. m = 0 /\ walk = Off
      BY <1>2, <2>2 DEF WalkHolds
    <3>2. m + n # 0
      BY <1>1, <1>13, EmptySeq
    <3>3. 1 \in 1..n /\ queue'[1] = cs[1]
      BY <1>0, <1>1, <3>1, <3>2
    <3>4. cs[1] \in Range(cs)
      BY <1>0, <3>3 DEF Range
    <3>5. cs[1] \in AllCards /\ cs[1] \notin spent
      BY <1>0, <3>4
    <3>6. timer'[cs[1]] = Life[cs[1]]
      BY <3>4, <3>5 DEF Brings
    <3> QED
      BY <3>1, <3>3, <3>5, <3>6 DEF Off, Forever
  <2> QED
    BY <2>1, <2>2
<1>14. HeadIsFresh'
  BY <1>1, <1>12, <1>13 DEF HeadIsFresh
<1> QED
  BY <1>1, <1>5, <1>6, <1>8, <1>11, <1>14

\* A toast takes the place of the one of its key, unless that one is still on its way.
LEMMA ToastKeeps == ASSUME CardsInv, NEW c \in Toasts, Toast(c) PROVE CardsInv'
<1> USE DEF CardsInv, CardsTyped
<1> DEFINE kept == Trim(Replaced(c), MaxBox)
           old == entry[Key[c]]
<1>0. c \in AllCards /\ c \notin issued /\ Key[c] \in Keys
  BY DEF Toast, AllCards, Keys
<1>1. <<c>> \in Seq(AllCards) /\ IsInjective(<<c>>) /\ Range(<<c>>) = {c}
  BY <1>0 DEF IsInjective, Range
<1>2. /\ queue' \in Seq(AllCards) /\ IsInjective(queue')
      /\ Range(queue') = Range(queue) \cup {c} /\ Coming' = Coming \cup {c}
      /\ issued' = issued \cup {c} /\ issued' \subseteq AllCards /\ behind' \subseteq issued'
      /\ timer' \in [AllCards -> Int] /\ (\A d \in AllCards \ issued' : timer'[d] = Off) /\ WalkHolds' /\ HeadIsFresh' /\ behind \subseteq behind'
  <2>1. Brings(<<c>>) /\ UNCHANGED <<carried, walk, spent>> /\ Range(<<c>>) \cap issued = {}
    BY <1>0, <1>1 DEF Toast
  <2> QED
    BY <1>1, <2>1, BringsKeeps
<1>3. /\ Gone(lane, old) \in Seq(AllCards) /\ IsInjective(Gone(lane, old))
      /\ Range(Gone(lane, old)) = Range(lane) \ {old}
  BY GoneLeaves DEF CardsApart
<1>4. kept \in Seq(AllCards) /\ IsInjective(kept) /\ Range(kept) \subseteq Range(lane) \ {old}
  <2>1. MaxBox \in Nat
    BY CardsAssumption
  <2> QED
    BY <1>3, <2>1, TrimLeaves DEF Replaced
<1>5. /\ lane' = kept
      /\ entry' = [k \in Keys |->
           IF k = Key[c] THEN c
           ELSE IF entry[k] \in Range(lane) \ Range(kept) THEN Nobody ELSE entry[k]]
      /\ slipped' = IF old # Nobody /\ old \notin Range(lane) THEN slipped \cup {Key[c]} ELSE slipped
      /\ carried' = carried /\ walk' = walk /\ spent' = spent
  BY DEF Toast
<1> HIDE DEF kept
<1>6. entry' \in [Keys -> Toasts \cup {Nobody}]
  BY <1>5
<1>7. CardsTyped'
  BY <1>2, <1>4, <1>5, <1>6
<1>8. CardsApart'
  <2>1. c \notin Range(lane)
    BY <1>0 DEF CardsApart
  <2>2. Range(lane') \cap Coming' = {}
    BY <1>2, <1>4, <1>5, <2>1 DEF CardsApart
  <2> QED
    BY <1>2, <1>4, <1>5, <2>2 DEF CardsApart
<1>9. LaneIsPrompt'
  BY <1>2, <1>4, <1>5 DEF LaneIsPrompt
<1>10. EntriesHold'
  <2> SUFFICES ASSUME NEW d \in Toasts, d \notin spent', Key[d] \notin slipped', d \in Range(lane') \cup Coming'
               PROVE  entry'[Key[d]] = d
    BY DEF EntriesHold
  <2>0. Key[d] \in Keys /\ d \in AllCards /\ d # Nobody /\ d \notin spent /\ Key[d] \notin slipped
    BY <1>5, CardsAssumption DEF Keys, AllCards
  <2>1. CASE d = c
    BY <1>0, <1>5, <2>1
  <2>2. CASE d # c
    <3>1. d \in Range(lane) \cup Coming
      BY <1>2, <1>4, <1>5, <2>2
    <3>2. entry[Key[d]] = d
      BY <2>0, <3>1 DEF EntriesHold
    <3>3. Key[d] # Key[c]
      <4> SUFFICES ASSUME Key[d] = Key[c] PROVE FALSE
        OBVIOUS
      <4>1. old = d
        BY <3>2
      <4>2. d \in Range(lane)
        BY <1>5, <2>0, <4>1
      <4>3. d \notin Range(lane')
        BY <1>4, <1>5, <4>1
      <4>4. d \in Coming
        BY <1>2, <2>2, <4>3
      <4> QED
        BY <4>2, <4>4 DEF CardsApart
    <3>4. d \notin Range(lane) \ Range(kept)
      BY <1>2, <1>5, <2>2 DEF CardsApart
    <3> QED
      BY <1>5, <2>0, <3>2, <3>3, <3>4
  <2> QED
    BY <2>1, <2>2
<1> QED
  BY <1>2, <1>7, <1>8, <1>9, <1>10

\* A card is unlocked once.
LEMMA BatchesAreApart ==
  ASSUME NEW cs \in SetToSeqs(Unlocks) \cup {<<c>> : c \in Unlocks}
  PROVE  cs \in Seq(AllCards) /\ IsInjective(cs) /\ Range(cs) \subseteq Unlocks
<1>1. CASE cs \in SetToSeqs(Unlocks)
  <2> DEFINE n == Cardinality(Unlocks)
  <2>1. n \in Nat
    BY CardsAssumption, FS_CardinalityType
  <2>2. cs \in [1..n -> Unlocks] /\ \A ix, j \in 1..n : ix # j => cs[ix] # cs[j]
    BY <1>1 DEF SetToSeqs
  <2> HIDE DEF n
  <2>3. cs \in Seq(Unlocks) /\ DOMAIN cs = 1..n
    BY <2>1, <2>2, SeqDef
  <2>4. Range(cs) \subseteq Unlocks /\ IsInjective(cs)
    BY <2>2, <2>3 DEF Range, IsInjective
  <2>5. cs \in Seq(AllCards)
    BY <2>3, SeqMonotonic DEF AllCards
  <2> QED
    BY <2>4, <2>5
<1>2. ASSUME NEW c \in Unlocks, cs = <<c>> PROVE cs \in Seq(AllCards) /\ IsInjective(cs) /\ Range(cs) \subseteq Unlocks
  BY <1>2 DEF IsInjective, Range, AllCards
<1> QED
  BY <1>1, <1>2

\* Unlocked cards queue up and touch nothing else.
LEMMA CelebratesKeeps ==
  ASSUME CardsInv, NEW cs \in SetToSeqs(Unlocks) \cup {<<c>> : c \in Unlocks}, Celebrates(cs)
  PROVE  CardsInv'
<1> USE DEF CardsInv, CardsTyped
<1>1. cs \in Seq(AllCards) /\ IsInjective(cs) /\ Range(cs) \subseteq Unlocks
  BY BatchesAreApart
<1>2. /\ Range(cs) \cap issued = {} /\ Brings(cs)
      /\ UNCHANGED <<lane, carried, walk, entry, spent, slipped>>
  BY DEF Celebrates
<1>3. /\ queue' \in Seq(AllCards) /\ IsInjective(queue')
      /\ Range(queue') = Range(queue) \cup Range(cs) /\ Coming' = Coming \cup Range(cs)
      /\ issued' = issued \cup Range(cs) /\ issued' \subseteq AllCards /\ behind' \subseteq issued'
      /\ timer' \in [AllCards -> Int] /\ (\A d \in AllCards \ issued' : timer'[d] = Off) /\ WalkHolds' /\ HeadIsFresh' /\ behind \subseteq behind'
  BY <1>1, <1>2, BringsKeeps
<1>4. CardsTyped'
  BY <1>2, <1>3
<1>5. CardsApart'
  BY <1>2, <1>3 DEF CardsApart
<1>6. LaneIsPrompt'
  BY <1>2, <1>3 DEF LaneIsPrompt
<1>7. \A d \in Toasts : d \notin Range(cs)
  BY <1>1, CardsAssumption
<1>8. EntriesHold'
  BY <1>2, <1>3, <1>7 DEF EntriesHold
<1> QED
  BY <1>3, <1>4, <1>5, <1>6, <1>8

\* The turn of the card at the head is over.
LEMMA TurnOverKeeps ==
  ASSUME CardsInv, queue # <<>>, TurnOver, UNCHANGED <<issued, timer, entry, spent, behind>>
  PROVE  /\ queue' \in Seq(AllCards) /\ IsInjective(queue') /\ Range(queue') \subseteq Range(queue)
         /\ Coming' = {queue[ix] : ix \in 2..Len(queue)} /\ Coming' \subseteq Coming /\ queue[1] \notin Coming'
         /\ queue[1] \in Range(queue) /\ WalkHolds' /\ HeadIsFresh' /\ walk' \in Int /\ carried' \in BOOLEAN
<1> USE DEF CardsInv, CardsTyped
<1> DEFINE m == Len(queue)
<1>1. /\ Tail(queue) \in Seq(AllCards) /\ m \in Nat \ {0} /\ Len(Tail(queue)) = m - 1
      /\ IsInjective(Tail(queue)) /\ Range(Tail(queue)) = Range(queue) \ {queue[1]}
      /\ Range(Tail(queue)) = {queue[ix] : ix \in 2..m}
      /\ \A ix \in 1..m - 1 : Tail(queue)[ix] = queue[ix + 1]
  BY TailLeaves DEF CardsApart
<1>2. queue' = Tail(queue) /\ walk' = -1 /\ carried' = FALSE
  BY DEF TurnOver, Off
<1>3. DOMAIN queue = 1..m
  BY LenProperties
<1> HIDE DEF m
<1>4. DOMAIN queue' = 1..m - 1 /\ Len(queue') = m - 1
  BY <1>1, <1>2, LenProperties
<1>5. Coming' = Range(queue')
  BY <1>2, <1>4 DEF Coming, Range, Off
<1>6. Coming' \subseteq Coming
  <2>1. Coming = {queue[ix] : ix \in (IF walk = Off \/ carried THEN 1 ELSE 2)..m}
    BY DEF Coming, m
  <2>2. \A ix \in 2..m : ix \in (IF walk = Off \/ carried THEN 1 ELSE 2)..m
    BY <1>1
  <2> QED
    BY <1>1, <1>2, <1>5, <2>1, <2>2
<1>7. queue[1] \in Range(queue)
  BY <1>1, <1>3 DEF Range
<1>8. WalkHolds'
  BY <1>2 DEF WalkHolds, Off
<1>9. HeadIsFresh'
  <2>1. \A ix \in 1..m - 1 : queue'[ix] \in behind'
    <3>1. \A ix \in 1..m - 1 : ix + 1 \in 2..m
      BY <1>1
    <3> QED
      BY <1>1, <1>2, <3>1 DEF HeadIsFresh, m
  <2>2. \A ix \in 2..m - 1 : ix \in 1..m - 1
    BY <1>1
  <2>3. queue' # <<>> => 1 \in 1..m - 1
    BY <1>1, <1>2, <1>4, EmptySeq
  <2> QED
    BY <1>4, <2>1, <2>2, <2>3 DEF HeadIsFresh
<1>10. Coming' = {queue[ix] : ix \in 2..Len(queue)}
  BY <1>1, <1>2, <1>5 DEF m
<1>11. walk' \in Int
  BY <1>2
<1>12. carried' \in BOOLEAN
  BY <1>2
<1>13. queue' \in Seq(AllCards) /\ IsInjective(queue') /\ Range(queue') \subseteq Range(queue)
  BY <1>1, <1>2
<1>14. queue[1] \notin Coming'
  BY <1>1, <1>2, <1>5
<1> QED
  BY <1>6, <1>7, <1>8, <1>9, <1>10, <1>11, <1>12, <1>13, <1>14

\* The same of the trim after an unlock.
LEMMA TrimmedLeaves ==
  ASSUME NEW s \in Seq(AllCards), IsInjective(s)
  PROVE  Trimmed(s) \in Seq(AllCards) /\ IsInjective(Trimmed(s)) /\ Range(Trimmed(s)) \subseteq Range(s)
<1>1. MaxUnlocked \in Nat
  BY CardsAssumption
<1> QED
  BY <1>1, TrimLeaves DEF Trimmed

\* The cards of the lane and those on their way, none issued and none forgotten.
LEMMA EntriesStay ==
  ASSUME EntriesHold, UNCHANGED <<entry, spent, slipped>>,
         Range(lane') \cup Coming' \subseteq Range(lane) \cup Coming
  PROVE  EntriesHold'
BY DEF EntriesHold

\* A card planted at once was on its way, and its time was not up.
LEMMA PlantsKeeps == ASSUME CardsInv, Plants PROVE CardsInv'
<1> USE DEF CardsInv, CardsTyped
<1> DEFINE a == Append(Gone(lane, queue[1]), queue[1])
<1>1. /\ queue # <<>> /\ walk = Off /\ TurnOver /\ lane' = Trimmed(a)
      /\ UNCHANGED <<issued, timer, entry, spent, behind, slipped>>
  BY DEF Plants
<1>2. /\ queue' \in Seq(AllCards) /\ IsInjective(queue') /\ Range(queue') \subseteq Range(queue)
      /\ Coming' = {queue[ix] : ix \in 2..Len(queue)} /\ Coming' \subseteq Coming /\ queue[1] \notin Coming'
      /\ queue[1] \in Range(queue) /\ WalkHolds' /\ HeadIsFresh' /\ walk' \in Int /\ carried' \in BOOLEAN
  BY <1>1, TurnOverKeeps
<1>3. queue[1] \in AllCards /\ queue[1] \in Coming
  <2>1. Len(queue) \in Nat \ {0} /\ DOMAIN queue = 1..Len(queue)
    BY <1>1, EmptySeq, LenProperties
  <2>2. 1 \in 1..Len(queue)
    BY <2>1
  <2> QED
    BY <1>1, <2>2, ElementOfSeq DEF Coming
<1>4. /\ Gone(lane, queue[1]) \in Seq(AllCards) /\ IsInjective(Gone(lane, queue[1]))
      /\ Range(Gone(lane, queue[1])) = Range(lane) \ {queue[1]}
  BY GoneLeaves DEF CardsApart
<1>5. a \in Seq(AllCards) /\ IsInjective(a) /\ Range(a) = Range(lane) \cup {queue[1]}
  <2>1. queue[1] \notin Range(Gone(lane, queue[1]))
    BY <1>4
  <2>2. a \in Seq(AllCards) /\ IsInjective(a) /\ Range(a) = Range(Gone(lane, queue[1])) \cup {queue[1]}
    BY <1>3, <1>4, <2>1, AppendAdds
  <2> QED
    BY <1>4, <2>2
<1> HIDE DEF a
<1>6. lane' \in Seq(AllCards) /\ IsInjective(lane') /\ Range(lane') \subseteq Range(lane) \cup {queue[1]}
  BY <1>1, <1>5, TrimmedLeaves
<1>7. CardsTyped'
  BY <1>1, <1>2, <1>6
<1>8. CardsApart'
  BY <1>1, <1>2, <1>6 DEF CardsApart
<1>9. LaneIsPrompt'
  BY <1>1, <1>6 DEF LaneIsPrompt, HeadIsFresh
<1>10. EntriesHold'
  BY <1>1, <1>2, <1>3, <1>6, EntriesStay
<1> QED
  BY <1>2, <1>7, <1>8, <1>9, <1>10

\* The cat sets out with the card.
LEMMA SetsOutKeeps == ASSUME CardsInv, SetsOut PROVE CardsInv'
<1> USE DEF CardsInv, CardsTyped
<1>1. /\ queue # <<>> /\ walk = Off /\ walk' = 0 /\ carried' = TRUE
      /\ UNCHANGED <<issued, lane, queue, timer, entry, spent, behind, slipped>>
  BY DEF SetsOut
<1>2. Coming' = Coming
  BY <1>1 DEF Coming
<1>3. CardsTyped'
  BY <1>1
<1>4. WalkHolds'
  BY <1>1, CardsAssumption DEF WalkHolds
<1>5. CardsApart'
  BY <1>1, <1>2 DEF CardsApart
<1>6. HeadIsFresh'
  <2>0. Len(queue) \in Nat \ {0}
    BY <1>1, EmptySeq
  <2>1. queue[1] \in AllCards
    BY <2>0, ElementOfSeq
  <2>2. Life[queue[1]] \in Int
    BY <2>1, CardsAssumption DEF AllCards
  <2>3. Life[queue[1]] - 0 = Life[queue[1]] /\ 0 # Off
    BY <2>2 DEF Off
  <2>4. \A ix \in 2..Len(queue) : queue'[ix] \in behind'
    BY <1>1 DEF HeadIsFresh
  <2> QED
    BY <1>1, <2>3, <2>4 DEF HeadIsFresh
<1>7. LaneIsPrompt'
  BY <1>1 DEF LaneIsPrompt
<1>8. EntriesHold'
  BY <1>1, <1>2, EntriesStay
<1> QED
  BY <1>3, <1>4, <1>5, <1>6, <1>7, <1>8

\* The card that is put down had more time than its walk takes.
LEMMA PutsDownKeeps == ASSUME CardsInv, PutsDown PROVE CardsInv'
<1> USE DEF CardsInv, CardsTyped
<1>1. /\ carried /\ walk = Lands /\ carried' = FALSE /\ lane' = Append(lane, queue[1])
      /\ UNCHANGED <<issued, queue, walk, timer, entry, spent, behind, slipped>>
  BY DEF PutsDown
<1>2. walk # Off /\ queue # <<>>
  BY <1>1, CardsAssumption DEF WalkHolds, Off
<1>3. Len(queue) \in Nat \ {0} /\ DOMAIN queue = 1..Len(queue)
  BY <1>2, EmptySeq, LenProperties
<1>4. 1 \in 1..Len(queue) /\ queue[1] \in AllCards /\ queue[1] \in Range(queue)
  <2>1. 1 \in 1..Len(queue)
    BY <1>3
  <2>2. queue[1] \in AllCards
    BY <2>1, ElementOfSeq
  <2> QED
    BY <1>3, <2>1, <2>2 DEF Range
<1>5. Coming = {queue[ix] : ix \in 1..Len(queue)} /\ Coming' = {queue[ix] : ix \in 2..Len(queue)}
  BY <1>1, <1>2 DEF Coming
<1>6. Coming' \subseteq Coming /\ queue[1] \in Coming /\ queue[1] \notin Coming'
  <2>1. \A ix \in 2..Len(queue) : ix \in 1..Len(queue) /\ ix # 1
    BY <1>3
  <2>2. \A ix \in 2..Len(queue) : queue[ix] # queue[1]
    BY <1>3, <1>4, <2>1 DEF CardsApart, IsInjective
  <2> QED
    BY <1>4, <1>5, <2>1, <2>2
<1>7. lane' \in Seq(AllCards) /\ IsInjective(lane') /\ Range(lane') = Range(lane) \cup {queue[1]}
  <2>1. queue[1] \notin Range(lane)
    BY <1>6 DEF CardsApart
  <2> QED
    BY <1>1, <1>4, <2>1, AppendAdds DEF CardsApart
<1>8. CardsTyped'
  BY <1>1, <1>7
<1>9. WalkHolds'
  BY <1>1, <1>2 DEF WalkHolds
<1>10. CardsApart'
  BY <1>1, <1>4, <1>6, <1>7 DEF CardsApart
<1>11. HeadIsFresh'
  BY <1>1, <1>2 DEF HeadIsFresh
<1>12. LaneIsPrompt'
  BY <1>1, <1>2, <1>7 DEF LaneIsPrompt, HeadIsFresh
<1>13. EntriesHold'
  BY <1>1, <1>6, <1>7, EntriesStay
<1> QED
  BY <1>8, <1>9, <1>10, <1>11, <1>12, <1>13

\* The cat leaves, and the next card was issued behind this one.
LEMMA LeavesKeeps == ASSUME CardsInv, Leaves PROVE CardsInv'
<1> USE DEF CardsInv, CardsTyped
<1>1. /\ walk = Departs /\ TurnOver /\ lane' = Trimmed(lane)
      /\ UNCHANGED <<issued, timer, entry, spent, behind, slipped>>
  BY DEF Leaves
<1>2. walk # Off /\ queue # <<>>
  BY <1>1, CardsAssumption DEF WalkHolds, Off
<1>3. /\ queue' \in Seq(AllCards) /\ IsInjective(queue') /\ Range(queue') \subseteq Range(queue)
      /\ Coming' \subseteq Coming /\ WalkHolds' /\ HeadIsFresh' /\ walk' \in Int /\ carried' \in BOOLEAN
  BY <1>1, <1>2, TurnOverKeeps
<1>4. lane' \in Seq(AllCards) /\ IsInjective(lane') /\ Range(lane') \subseteq Range(lane)
  BY <1>1, TrimmedLeaves DEF CardsApart
<1>5. CardsTyped'
  BY <1>1, <1>3, <1>4
<1>6. CardsApart'
  BY <1>1, <1>3, <1>4 DEF CardsApart
<1>7. LaneIsPrompt'
  BY <1>1, <1>4 DEF LaneIsPrompt
<1>8. EntriesHold'
  BY <1>1, <1>3, <1>4, EntriesStay
<1> QED
  BY <1>3, <1>5, <1>6, <1>7, <1>8

\* A tick takes as much from the card's time as it adds to its walk.
LEMMA PassingKeeps == ASSUME CardsInv, Passing PROVE CardsInv'
<1> USE DEF CardsInv, CardsTyped
<1>1. /\ ~Due /\ walk' = (IF walk = Off THEN Off ELSE walk + 1)
      /\ timer' = [c \in AllCards |-> IF timer[c] > 0 THEN timer[c] - 1 ELSE timer[c]]
      /\ UNCHANGED <<issued, lane, queue, carried, entry, spent, behind, slipped>>
  BY DEF Passing
<1>2. /\ walk # Departs /\ (carried => walk # Lands) /\ (walk = Off => queue = <<>>)
      /\ \A c \in AllCards : timer[c] # 0
  BY <1>1 DEF Due
<1>3. {Lands, Departs} \subseteq Nat
  BY CardsAssumption
<1>4. walk' \in Int /\ (walk = Off <=> walk' = Off)
  <2>1. CASE walk = Off
    BY <1>1, <2>1
  <2>2. CASE walk # Off
    <3>1. walk \in Nat
      BY <1>3, <2>2 DEF WalkHolds
    <3>2. walk' = walk + 1
      BY <1>1, <2>2
    <3> QED
      BY <2>2, <3>1, <3>2 DEF Off
  <2> QED
    BY <2>1, <2>2
<1>5. Coming' = Coming
  BY <1>1, <1>4 DEF Coming
<1>6. timer' \in [AllCards -> Int] /\ \A c \in AllCards \ issued : timer'[c] = Off
  <2>1. timer' \in [AllCards -> Int]
    BY <1>1
  <2>2. ASSUME NEW c \in AllCards \ issued PROVE timer'[c] = Off
    <3>1. timer[c] = -1
      BY DEF Off
    <3>2. timer'[c] = -1
      BY <1>1, <3>1
    <3> QED
      BY <3>2 DEF Off
  <2> QED
    BY <2>1, <2>2
<1>7. CardsTyped'
  BY <1>1, <1>4, <1>6
<1>8. WalkHolds'
  <2>1. ASSUME walk' # Off PROVE queue' # <<>> /\ walk' \in 0..Departs
    <3>1. walk # Off /\ queue # <<>> /\ walk \in 0..Departs /\ walk' = walk + 1
      BY <1>1, <1>4, <2>1 DEF WalkHolds
    <3> QED
      BY <1>1, <1>2, <1>3, <3>1
  <2>2. ASSUME carried' PROVE walk' \in 0..Lands
    <3>1. walk \in 0..Lands /\ walk # Lands
      BY <1>1, <1>2, <2>2 DEF WalkHolds
    <3>2. walk # Off
      BY <1>3, <3>1 DEF Off
    <3>3. walk' = walk + 1
      BY <1>1, <3>2
    <3> QED
      BY <1>3, <3>1, <3>3
  <2> QED
    BY <2>1, <2>2 DEF WalkHolds
<1>9. CardsApart'
  BY <1>1, <1>5 DEF CardsApart
<1>10. HeadIsFresh'
  <2>1. \A ix \in 2..Len(queue) : queue'[ix] \in behind'
    BY <1>1 DEF HeadIsFresh
  <2>2. ASSUME queue # <<>>, walk' = Off \/ carried, queue[1] \notin behind
        PROVE  /\ queue[1] \notin spent
               /\ timer'[queue[1]] = IF Life[queue[1]] = Forever THEN Off
                                     ELSE IF walk' = Off THEN Life[queue[1]] ELSE Life[queue[1]] - walk'
    <3> DEFINE c == queue[1]
    <3>1. carried /\ walk # Off
      BY <1>2, <1>4, <2>2
    <3>2. Len(queue) \in Nat \ {0}
      BY <2>2, EmptySeq
    <3>3. c \in AllCards
      BY <3>2, ElementOfSeq
    <3>4. c \notin spent /\ timer[c] = IF Life[c] = Forever THEN Off ELSE Life[c] - walk
      BY <2>2, <3>1 DEF HeadIsFresh
    <3>5. walk' = walk + 1 /\ walk' # Off
      BY <1>1, <1>4, <3>1
    <3>6. timer'[c] = IF timer[c] > 0 THEN timer[c] - 1 ELSE timer[c]
      BY <1>1, <3>3
    <3>7. Life[c] \in Int /\ (Life[c] = Forever \/ Life[c] > Lands)
      BY <3>3, CardsAssumption DEF AllCards
    <3>8. walk \in 0..Lands
      BY <3>1 DEF WalkHolds
    <3> HIDE DEF c
    <3>9. CASE Life[c] = Forever
      <4>1. timer[c] = -1
        BY <3>4, <3>9 DEF Off
      <4>2. timer'[c] = -1
        BY <3>6, <4>1
      <4> QED
        BY <3>4, <3>9, <4>2 DEF Off, c
    <3>10. CASE Life[c] # Forever
      <4>1. timer[c] = Life[c] - walk /\ Life[c] > Lands
        BY <3>4, <3>7, <3>10
      <4>2. timer[c] > 0 /\ timer[c] - 1 = Life[c] - (walk + 1)
        BY <1>3, <3>7, <3>8, <4>1
      <4>3. timer'[c] = Life[c] - walk'
        BY <3>5, <3>6, <4>2
      <4> QED
        BY <3>4, <3>5, <3>10, <4>3 DEF c
    <3> QED
      BY <3>9, <3>10
  <2> QED
    BY <1>1, <2>1, <2>2 DEF HeadIsFresh
<1>11. LaneIsPrompt'
  BY <1>1 DEF LaneIsPrompt
<1>12. EntriesHold'
  BY <1>1, <1>5, EntriesStay
<1> QED
  BY <1>7, <1>8, <1>9, <1>10, <1>11, <1>12

\* A card goes, and the entry of its key with it.
LEMMA EntryGoes ==
  ASSUME CardsInv, NEW c \in AllCards,
         entry' = [k \in Keys |-> IF c \in Toasts /\ k = Key[c] THEN Nobody ELSE entry[k]],
         slipped' = IF c \in Toasts /\ entry[Key[c]] \notin {c, Nobody} THEN slipped \cup {Key[c]} ELSE slipped,
         Range(lane') = Range(lane) \ {c}, Coming' = Coming, spent \subseteq spent',
         c \in spent' \/ c \notin Coming
  PROVE  entry' \in [Keys -> Toasts \cup {Nobody}] /\ EntriesHold'
<1> USE DEF CardsInv, CardsTyped
<1>1. entry' \in [Keys -> Toasts \cup {Nobody}]
  OBVIOUS
<1>2. ASSUME NEW d \in Toasts \ spent', Key[d] \notin slipped', d \in Range(lane') \cup Coming'
      PROVE  entry'[Key[d]] = d
  <2>1. d # c /\ d \in AllCards /\ Key[d] \in Keys /\ d # Nobody
    BY <1>2, CardsAssumption DEF AllCards, Keys
  <2>2. entry[Key[d]] = d
    BY <1>2 DEF EntriesHold
  <2>3. ~(c \in Toasts /\ Key[d] = Key[c])
    BY <1>2, <2>1, <2>2
  <2> QED
    BY <2>1, <2>2, <2>3
<1> QED
  BY <1>1, <1>2 DEF EntriesHold

\* The card that expires is not the one that is being brought, unless that one waited.
LEMMA ExpiresKeeps == ASSUME CardsInv, NEW c \in AllCards, Expires(c) PROVE CardsInv'
<1> USE DEF CardsInv, CardsTyped
<1>1. /\ timer[c] = 0 /\ timer' = [timer EXCEPT ![c] = Off] /\ spent' = spent \cup {c}
      /\ lane' = Gone(lane, c)
      /\ entry' = [k \in Keys |-> IF c \in Toasts /\ k = Key[c] THEN Nobody ELSE entry[k]]
      /\ slipped' = IF c \in Toasts /\ entry[Key[c]] \notin {c, Nobody} THEN slipped \cup {Key[c]} ELSE slipped
      /\ UNCHANGED <<issued, queue, carried, walk, behind>>
  BY DEF Expires
<1>2. c \in issued
  BY <1>1 DEF Off
<1>3. lane' \in Seq(AllCards) /\ IsInjective(lane') /\ Range(lane') = Range(lane) \ {c}
  BY <1>1, GoneLeaves DEF CardsApart
<1>4. Coming' = Coming
  BY <1>1 DEF Coming
<1>5. entry' \in [Keys -> Toasts \cup {Nobody}] /\ EntriesHold'
  BY <1>1, <1>3, <1>4, EntryGoes
<1>6. timer' \in [AllCards -> Int] /\ (\A d \in AllCards : d # c => timer'[d] = timer[d]) /\ timer'[c] = Off
  BY <1>1 DEF Off
<1>7. CardsTyped'
  BY <1>1, <1>2, <1>3, <1>5, <1>6
<1>8. WalkHolds'
  BY <1>1 DEF WalkHolds
<1>9. CardsApart'
  BY <1>1, <1>3, <1>4 DEF CardsApart
<1>10. HeadIsFresh'
  <2>1. \A ix \in 2..Len(queue) : queue'[ix] \in behind'
    BY <1>1 DEF HeadIsFresh
  <2>2. ASSUME queue # <<>>, walk = Off \/ carried, queue[1] \notin behind
        PROVE  queue[1] # c /\ queue[1] \in AllCards
    <3>1. Len(queue) \in Nat \ {0}
      BY <2>2, EmptySeq
    <3>2. queue[1] \in AllCards
      BY <3>1, ElementOfSeq
    <3>3. timer[queue[1]] = IF Life[queue[1]] = Forever THEN Off
                            ELSE IF walk = Off THEN Life[queue[1]] ELSE Life[queue[1]] - walk
      BY <2>2 DEF HeadIsFresh
    <3> DEFINE l == Life[queue[1]]
    <3>4. l \in Int /\ (l = Forever \/ l > Lands) /\ Lands \in Nat
      BY <3>2, CardsAssumption DEF AllCards
    <3>5. walk = Off \/ walk \in 0..Lands
      BY <2>2 DEF WalkHolds
    <3> HIDE DEF l
    <3>6. timer[queue[1]] # 0
      <4>1. timer[queue[1]] = IF l = Forever THEN Off ELSE IF walk = Off THEN l ELSE l - walk
        BY <3>3 DEF l
      <4>2. CASE l = Forever
        BY <4>1, <4>2 DEF Off
      <4>3. CASE l # Forever /\ walk = Off
        BY <3>4, <4>1, <4>3
      <4>4. CASE l # Forever /\ walk # Off
        BY <3>4, <3>5, <4>1, <4>4
      <4> QED
        BY <4>2, <4>3, <4>4
    <3> QED
      BY <1>1, <3>2, <3>6
  <2>3. ASSUME queue' # <<>>, walk' = Off \/ carried', queue'[1] \notin behind'
        PROVE  /\ queue'[1] \notin spent'
               /\ timer'[queue'[1]] = IF Life[queue'[1]] = Forever THEN Off
                                      ELSE IF walk' = Off THEN Life[queue'[1]] ELSE Life[queue'[1]] - walk'
    <3>1. queue # <<>> /\ (walk = Off \/ carried) /\ queue[1] \notin behind
      BY <1>1, <2>3
    <3>2. queue[1] # c /\ timer'[queue[1]] = timer[queue[1]]
      BY <1>6, <2>2, <3>1
    <3> QED
      BY <1>1, <3>1, <3>2 DEF HeadIsFresh
  <2> QED
    BY <1>1, <2>1, <2>3 DEF HeadIsFresh
<1>11. LaneIsPrompt'
  BY <1>1, <1>3 DEF LaneIsPrompt
<1> QED
  BY <1>5, <1>7, <1>8, <1>9, <1>10, <1>11

\* A card that is closed was in the lane, so it is not on its way.
LEMMA DismissesKeeps == ASSUME CardsInv, NEW c \in AllCards, Dismisses(c) PROVE CardsInv'
<1> USE DEF CardsInv, CardsTyped
<1>1. /\ c \in Range(lane) /\ lane' = Gone(lane, c)
      /\ timer' = IF c \in Unlocks THEN [timer EXCEPT ![c] = Off] ELSE timer
      /\ entry' = [k \in Keys |-> IF c \in Toasts /\ k = Key[c] THEN Nobody ELSE entry[k]]
      /\ slipped' = IF c \in Toasts /\ entry[Key[c]] \notin {c, Nobody} THEN slipped \cup {Key[c]} ELSE slipped
      /\ UNCHANGED <<issued, queue, carried, walk, spent, behind>>
  BY DEF Dismisses
<1>2. c \in issued /\ c \notin Coming
  BY <1>1 DEF CardsApart
<1>3. lane' \in Seq(AllCards) /\ IsInjective(lane') /\ Range(lane') = Range(lane) \ {c}
  BY <1>1, GoneLeaves DEF CardsApart
<1>4. Coming' = Coming
  BY <1>1 DEF Coming
<1>5. entry' \in [Keys -> Toasts \cup {Nobody}] /\ EntriesHold'
  BY <1>1, <1>2, <1>3, <1>4, EntryGoes
<1>6. timer' \in [AllCards -> Int] /\ \A d \in AllCards : d # c => timer'[d] = timer[d]
  BY <1>1 DEF Off
<1>7. CardsTyped'
  BY <1>1, <1>2, <1>3, <1>5, <1>6
<1>8. WalkHolds'
  BY <1>1 DEF WalkHolds
<1>9. CardsApart'
  BY <1>1, <1>3, <1>4 DEF CardsApart
<1>10. HeadIsFresh'
  <2>1. \A ix \in 2..Len(queue) : queue'[ix] \in behind'
    BY <1>1 DEF HeadIsFresh
  <2>2. ASSUME queue' # <<>>, walk' = Off \/ carried', queue'[1] \notin behind'
        PROVE  /\ queue'[1] \notin spent'
               /\ timer'[queue'[1]] = IF Life[queue'[1]] = Forever THEN Off
                                      ELSE IF walk' = Off THEN Life[queue'[1]] ELSE Life[queue'[1]] - walk'
    <3>1. queue # <<>> /\ (walk = Off \/ carried) /\ queue[1] \notin behind
      BY <1>1, <2>2
    <3>2. Len(queue) \in Nat \ {0}
      BY <3>1, EmptySeq
    <3>3. 1 \in 1..Len(queue)
      BY <3>2
    <3>4. queue[1] \in AllCards /\ queue[1] \in Coming
      BY <3>1, <3>3, ElementOfSeq DEF Coming
    <3>5. timer'[queue[1]] = timer[queue[1]]
      BY <1>2, <1>6, <3>4
    <3> QED
      BY <1>1, <3>1, <3>5 DEF HeadIsFresh
  <2> QED
    BY <1>1, <2>1, <2>2 DEF HeadIsFresh
<1>11. LaneIsPrompt'
  BY <1>1, <1>3 DEF LaneIsPrompt
<1> QED
  BY <1>5, <1>7, <1>8, <1>9, <1>10, <1>11

\* Every step of the lane keeps the invariant.
LEMMA CardsSteps == CardsInv /\ [CardsNext]_cardsVars => CardsInv'
<1> SUFFICES ASSUME CardsInv, [CardsNext]_cardsVars PROVE CardsInv'
  OBVIOUS
<1>1. CASE UNCHANGED cardsVars
  <2>1. Coming' = Coming
    BY <1>1 DEF cardsVars, Coming
  <2> QED
    BY <1>1, <2>1 DEF cardsVars, CardsInv, CardsTyped, WalkHolds, CardsApart, HeadIsFresh,
                      LaneIsPrompt, EntriesHold
<1>2. ASSUME NEW c \in Toasts, Toast(c) PROVE CardsInv'
  BY <1>2, ToastKeeps
<1>3. ASSUME NEW cs \in SetToSeqs(Unlocks) \cup {<<c>> : c \in Unlocks}, Celebrates(cs) PROVE CardsInv'
  BY <1>3, CelebratesKeeps
<1>4. CASE Plants
  BY <1>4, PlantsKeeps
<1>5. CASE SetsOut
  BY <1>5, SetsOutKeeps
<1>6. CASE PutsDown
  BY <1>6, PutsDownKeeps
<1>7. CASE Leaves
  BY <1>7, LeavesKeeps
<1>8. CASE Passing
  BY <1>8, PassingKeeps
<1>9. ASSUME NEW c \in AllCards, Expires(c) PROVE CardsInv'
  BY <1>9, ExpiresKeeps
<1>10. ASSUME NEW c \in AllCards, Dismisses(c) PROVE CardsInv'
  BY <1>10, DismissesKeeps
<1> QED
  BY <1>1, <1>2, <1>3, <1>4, <1>5, <1>6, <1>7, <1>8, <1>9, <1>10 DEF CardsNext

\* The invariant says more than the property.
LEMMA CardsTidy == CardsInv => LaneIsTidy
<1> SUFFICES ASSUME CardsInv PROVE LaneIsTidy
  OBVIOUS
<1>1. \A c \in Range(lane) : c \in spent => c \in behind
  BY DEF CardsInv, LaneIsPrompt
<1>2. ASSUME NEW k \in Keys \ slipped
      PROVE  Cardinality({c \in Toasts \ spent : c \in Range(lane) /\ Key[c] = k}) <= 1
  <2> DEFINE D == {c \in Toasts \ spent : c \in Range(lane) /\ Key[c] = k}
  <2>1. D \subseteq {entry[k]}
    BY DEF CardsInv, EntriesHold
  <2>2. IsFiniteSet({entry[k]}) /\ Cardinality({entry[k]}) = 1
    BY FS_Singleton
  <2> HIDE DEF D
  <2>3. Cardinality(D) <= 1
    BY <2>1, <2>2, FS_Subset
  <2> QED
    BY <2>3 DEF D
<1> QED
  BY <1>1, <1>2 DEF LaneIsTidy

\* For every number of cards and keys and all the limits of the lane: a card whose time is
\* up is in the lane only if it was issued behind another one, and a key has one card
\* there, unless its card was replaced on the way or its entry was taken (toast, trazo).
THEOREM LaneIsAlwaysTidy == CardsSpec => []LaneIsTidy
<1>1. CardsInit => CardsInv
  BY CardsStart
<1>2. CardsInv /\ [CardsNext]_cardsVars => CardsInv'
  BY CardsSteps
<1>3. CardsInv => LaneIsTidy
  BY CardsTidy
<1> QED
  BY <1>1, <1>2, <1>3, PTL DEF CardsSpec

-----------------------------------------------------------------------------
(* What a person is told of their own progress.                             *)

\* A function that tells its arguments apart counts them.
LEMMA Counted ==
  ASSUME NEW S, NEW T, IsFiniteSet(T), NEW f \in [S -> T],
         \A a, b \in S : f[a] = f[b] => a = b
  PROVE  /\ IsFiniteSet(S) /\ Cardinality(S) <= Cardinality(T)
         /\ Cardinality(S) = Cardinality(T) <=> \A t \in T : \E a \in S : f[a] = t
<1>1. f \in Injection(S, T)
  BY DEF Injection, IsInjective
<1>2. f \in Surjection(S, T) <=> \A t \in T : \E a \in S : f[a] = t
  BY DEF Surjection
<1> QED
  BY <1>1, <1>2, FS_Injection

\* Between finite sets of one size such a function misses nothing.
LEMMA Onto ==
  ASSUME NEW S, NEW T, IsFiniteSet(T), NEW f \in [S -> T],
         \A a, b \in S : f[a] = f[b] => a = b, Cardinality(S) = Cardinality(T)
  PROVE  \A t \in T : \E a \in S : f[a] = t
BY Counted

\* As many as there are above.
AboveOf(S, u) == {z \in S : z > u}

\* The greater number has fewer above it.
LEMMA Aboves ==
  ASSUME NEW S \in SUBSET Nat, IsFiniteSet(S), NEW u \in S, NEW v \in S, u < v
  PROVE  /\ Cardinality(AboveOf(S, v)) \in Nat /\ Cardinality(AboveOf(S, u)) \in Nat
         /\ Cardinality(AboveOf(S, v)) < Cardinality(AboveOf(S, u))
<1>1. AboveOf(S, v) \in SUBSET AboveOf(S, u)
  <2>1. \A z \in S : z > v => z > u
    OBVIOUS
  <2> QED
    BY <2>1 DEF AboveOf
<1>2. IsFiniteSet(AboveOf(S, u)) /\ IsFiniteSet(AboveOf(S, v))
  BY FS_Subset DEF AboveOf
<1>3. v \in AboveOf(S, u) /\ v \notin AboveOf(S, v)
  BY DEF AboveOf
<1>4. Cardinality(AboveOf(S, v)) <= Cardinality(AboveOf(S, u))
      /\ Cardinality(AboveOf(S, v)) # Cardinality(AboveOf(S, u))
  BY <1>1, <1>2, <1>3, FS_Subset
<1> QED
  BY <1>2, <1>4, FS_CardinalityType

\* Finitely many numbers have a greatest one.
LEMMA Greatest ==
  ASSUME NEW S \in SUBSET Nat, IsFiniteSet(S), S # {}
  PROVE  Max(S) \in S /\ \A k \in S : k <= Max(S)
<1> DEFINE C == {Cardinality(AboveOf(S, u)) : u \in S}
<1>1. C \in SUBSET Nat /\ C # {}
  <2>1. ASSUME NEW u \in S  PROVE Cardinality(AboveOf(S, u)) \in Nat
    BY FS_Subset, FS_CardinalityType DEF AboveOf
  <2> QED
    BY <2>1
<1> HIDE DEF C
<1>2. Min(C) \in C /\ \A k \in C : Min(C) <= k
  BY <1>1, Least
<1>3. PICK u \in S : Cardinality(AboveOf(S, u)) = Min(C)
  BY <1>2 DEF C
<1>4. ASSUME NEW v \in S, u < v  PROVE FALSE
  <2>1. Cardinality(AboveOf(S, v)) \in C
    BY DEF C
  <2> QED
    BY <1>1, <1>2, <1>3, <1>4, <2>1, Aboves
<1>5. \A v \in S : u >= v
  BY <1>4
<1>6. Max(S) \in S /\ \A v \in S : Max(S) >= v
  BY <1>5 DEF Max
<1> QED
  BY <1>6

\* Finitely many numbers can be put in falling order.
LEMMA Falls ==
  ASSUME NEW S \in SUBSET Nat, IsFiniteSet(S)
  PROVE  /\ Cardinality(S) \in Nat
         /\ Descending(S) \in [1..Cardinality(S) -> S]
         /\ \A w, j \in 1..Cardinality(S) : w < j => Descending(S)[w] > Descending(S)[j]
         /\ \A t \in S : \E w \in 1..Cardinality(S) : Descending(S)[w] = t
<1> DEFINE n == Cardinality(S)
<1>0. n \in Nat
  BY FS_CardinalityType
<1> DEFINE rank == [u \in S |-> 1 + Cardinality(AboveOf(S, u))]
<1>1. rank \in [S -> 1..n]
  <2>1. ASSUME NEW u \in S  PROVE 1 + Cardinality(AboveOf(S, u)) \in 1..n
    <3>1. AboveOf(S, u) \in SUBSET S /\ u \notin AboveOf(S, u)
      BY DEF AboveOf
    <3>2. IsFiniteSet(AboveOf(S, u)) /\ Cardinality(AboveOf(S, u)) <= n
          /\ Cardinality(AboveOf(S, u)) # n
      BY <3>1, FS_Subset
    <3> QED
      BY <1>0, <3>2, FS_CardinalityType
  <2> QED
    BY <2>1
<1>2. \A u, v \in S : u < v => rank[u] > rank[v]
  BY Aboves
<1>3. \A u, v \in S : rank[u] = rank[v] => u = v
  <2> SUFFICES ASSUME NEW u \in S, NEW v \in S, rank[u] = rank[v]  PROVE u = v
    OBVIOUS
  <2> HIDE DEF rank
  <2>1. rank[u] \in Int /\ rank[v] \in Int
    BY <1>0, <1>1
  <2>2. ~(u < v) /\ ~(v < u)
    BY <1>2, <2>1
  <2> QED
    BY <2>2
<1> HIDE DEF rank, n
<1>4. IsFiniteSet(1..n) /\ Cardinality(1..n) = n
  BY <1>0, FS_Interval
<1>5. \A t \in 1..n : \E u \in S : rank[u] = t
  <2> DEFINE ranks == 1..n
  <2>1. Cardinality(S) = Cardinality(ranks)
    BY <1>4 DEF n
  <2>2. IsFiniteSet(ranks)
    BY <1>4
  <2>3. rank \in [S -> ranks]
    BY <1>1
  <2> HIDE DEF ranks
  <2>4. PICK f \in [S -> ranks] : f = rank
    BY <2>3
  <2>5. \A u, v \in S : f[u] = f[v] => u = v
    BY <1>3, <2>4
  <2>6. f \in Injection(S, ranks)
    BY <2>5 DEF Injection, IsInjective
  <2>7. f \in Surjection(S, ranks)
    BY <2>1, <2>2, <2>6, FS_Injection
  <2>8. \A t \in ranks : \E u \in S : f[u] = t
    BY <2>7 DEF Surjection
  <2> QED
    BY <2>4, <2>8 DEF ranks
<1> DEFINE s == [t \in 1..n |-> CHOOSE u \in S : rank[u] = t]
<1>6. \A t \in 1..n : s[t] \in S /\ rank[s[t]] = t
  BY <1>5
<1>7. s \in [1..n -> S]
  BY <1>6
<1>8. \A w, j \in 1..n : w < j => s[w] > s[j]
  <2> SUFFICES ASSUME NEW w \in 1..n, NEW j \in 1..n, w < j  PROVE s[w] > s[j]
    OBVIOUS
  <2>1. s[w] \in S /\ s[j] \in S /\ rank[s[w]] = w /\ rank[s[j]] = j
    BY <1>6
  <2> HIDE DEF s
  <2>2. PICK u, v \in S : u = s[w] /\ v = s[j]
    BY <2>1
  <2>3. w \in Nat /\ j \in Nat /\ u \in Nat /\ v \in Nat
    BY <1>0
  <2>4. ~(u < v)
    BY <1>2, <2>1, <2>2, <2>3
  <2>5. u # v
    BY <2>1, <2>2, <2>3
  <2> QED
    BY <2>2, <2>3, <2>4, <2>5
<1> HIDE DEF s
<1> DEFINE d == Descending(S)
<1>9. d \in [1..n -> S] /\ \A w, j \in 1..n : w < j => d[w] > d[j]
  BY <1>7, <1>8 DEF Descending, n
<1> HIDE DEF d
<1>10. \A w, j \in 1..n : d[w] = d[j] => w = j
  <2> SUFFICES ASSUME NEW w \in 1..n, NEW j \in 1..n, d[w] = d[j]  PROVE w = j
    OBVIOUS
  <2>1. d[w] \in Nat
    BY <1>9
  <2> QED
    BY <1>0, <1>9, <2>1
<1>11. \A t \in S : \E w \in 1..n : d[w] = t
  <2> DEFINE T == 1..n
  <2>1. Cardinality(T) = Cardinality(S) /\ d \in [T -> S]
    BY <1>4, <1>9 DEF n
  <2>2. \A w, j \in T : d[w] = d[j] => w = j
    BY <1>10
  <2> HIDE DEF T
  <2>3. \A t \in S : \E w \in T : d[w] = t
    BY <2>1, <2>2, Onto
  <2> QED
    BY <2>3 DEF T
<1> QED
  BY <1>0, <1>9, <1>11 DEF n, d

-----------------------------------------------------------------------------
(* The streak: what the walk over the days computes. *)

\* Days as the query returns them, the latest first.
Falling(days) ==
  days \in Seq(Nat) /\ \A w, j \in 1..Len(days) : w < j => days[w] > days[j]

\* The walk starts a run at w, and the run that has w started at j.
Restarts(days, w) == w = 1 \/ days[w - 1] - days[w] # 1
From(days, w, j) ==
  j \in 1..w /\ Restarts(days, j) /\ \A k \in (j + 1)..w : ~ Restarts(days, k)

\* Every run of the walk started somewhere.
LEMMA RunStarts ==
  ASSUME NEW days, Falling(days), NEW w \in 1..Len(days)
  PROVE  \E j \in 1..w : From(days, w, j)
<1> DEFINE B == {j \in 1..w : Restarts(days, j)}
<1>0. Len(days) \in Nat
  BY DEF Falling
<1>1. B \in SUBSET Nat /\ 1 \in B
  BY <1>0 DEF Restarts
<1>2. IsFiniteSet(B)
  <2>1. IsFiniteSet(1..w)
    BY <1>0, FS_Interval
  <2> QED
    BY <2>1, FS_Subset
<1> DEFINE m == Max(B)
<1> HIDE DEF B
<1>3. m \in B /\ \A k \in B : k <= m
  BY <1>1, <1>2, Greatest
<1> HIDE DEF m
<1>4. m \in 1..w /\ Restarts(days, m)
  BY <1>3 DEF B
<1>5. \A k \in (m + 1)..w : ~ Restarts(days, k)
  BY <1>0, <1>3, <1>4 DEF B
<1> QED
  BY <1>4, <1>5 DEF From

\* A run has one start.
LEMMA OneStart ==
  ASSUME NEW days, NEW w \in Nat, NEW j \in Nat, NEW k \in Nat,
         From(days, w, j), From(days, w, k)
  PROVE  j = k
BY DEF From

\* The count of the walk, which is defined by itself, satisfies its definition if anything does.
LEMMA RunSolves ==
  ASSUME NEW days, NEW g,
         g = [w \in DOMAIN days |->
                IF w > 1 /\ days[w - 1] - days[w] = 1 THEN g[w - 1] + 1 ELSE 1]
  PROVE  RunTo(days) = [w \in DOMAIN days |->
           IF w > 1 /\ days[w - 1] - days[w] = 1 THEN RunTo(days)[w - 1] + 1 ELSE 1]
<1> DEFINE run == CHOOSE r : r = [w \in DOMAIN days |->
                    IF w > 1 /\ days[w - 1] - days[w] = 1 THEN r[w - 1] + 1 ELSE 1]
<1>1. RunTo(days) = run
  BY DEF RunTo
<1>2. run = [w \in DOMAIN days |->
               IF w > 1 /\ days[w - 1] - days[w] = 1 THEN run[w - 1] + 1 ELSE 1]
  OBVIOUS
<1> QED
  BY <1>1, <1>2

\* The count from the start of the run does, so the count of the walk is what it says.
LEMMA RunWalks ==
  ASSUME NEW days, Falling(days)
  PROVE  RunTo(days) = [w \in DOMAIN days |->
           IF w > 1 /\ days[w - 1] - days[w] = 1 THEN RunTo(days)[w - 1] + 1 ELSE 1]
<1>0. Len(days) \in Nat /\ DOMAIN days = 1..Len(days)
  BY DEF Falling
<1> DEFINE start(w) == CHOOSE j \in 1..w : From(days, w, j)
           g == [w \in DOMAIN days |-> (w - start(w)) + 1]
<1>1. ASSUME NEW w \in 1..Len(days)  PROVE start(w) \in 1..w /\ From(days, w, start(w))
  BY <1>1, RunStarts
<1> HIDE DEF start
<1>2. ASSUME NEW w \in 1..Len(days), w > 1 /\ days[w - 1] - days[w] = 1
      PROVE  g[w] = g[w - 1] + 1
  <2>1. w - 1 \in 1..Len(days)
    BY <1>0, <1>2
  <2>2. start(w - 1) \in 1..(w - 1) /\ From(days, w - 1, start(w - 1))
    BY <1>1, <2>1
  <2>3. ~ Restarts(days, w)
    BY <1>2 DEF Restarts
  <2>4. From(days, w, start(w - 1))
    BY <1>0, <2>2, <2>3 DEF From
  <2>5. start(w) = start(w - 1)
    BY <1>0, <1>1, <2>2, <2>4, OneStart
  <2> QED
    BY <1>0, <1>1, <2>1, <2>5
<1>3. ASSUME NEW w \in 1..Len(days), ~ (w > 1 /\ days[w - 1] - days[w] = 1)
      PROVE  g[w] = 1
  <2>1. From(days, w, w)
    BY <1>0, <1>3 DEF From, Restarts
  <2>2. start(w) = w
    BY <1>0, <1>1, <2>1, OneStart
  <2> QED
    BY <1>0, <2>2
<1>4. DOMAIN g = DOMAIN days
  OBVIOUS
<1>5. g = [w \in DOMAIN days |-> g[w]]
  OBVIOUS
<1> HIDE DEF g
<1>6. g = [w \in DOMAIN days |->
             IF w > 1 /\ days[w - 1] - days[w] = 1 THEN g[w - 1] + 1 ELSE 1]
  BY <1>0, <1>2, <1>3, <1>4, <1>5
<1> QED
  BY <1>6, RunSolves

\* At each place the walk has counted from the start of the run.
LEMMA RunIs ==
  ASSUME NEW days, Falling(days), NEW w \in 1..Len(days)
  PROVE  RunTo(days)[w] \in 1..w /\ From(days, w, (w - RunTo(days)[w]) + 1)
<1>0. Len(days) \in Nat /\ DOMAIN days = 1..Len(days)
  BY DEF Falling
<1> DEFINE run == RunTo(days)
           Counts(k) == run[k] \in 1..k /\ From(days, k, (k - run[k]) + 1)
           Wrong == {k \in 1..Len(days) : ~ Counts(k)}
<1>1. run = [k \in DOMAIN days |->
               IF k > 1 /\ days[k - 1] - days[k] = 1 THEN run[k - 1] + 1 ELSE 1]
  BY RunWalks
<1> HIDE DEF run
<1>2. SUFFICES ASSUME Wrong # {}  PROVE FALSE
  BY DEF run
<1>3. PICK k \in Wrong : \A m \in Wrong : k <= m
  <2>1. Wrong \in SUBSET Nat
    BY <1>0
  <2> HIDE DEF Wrong
  <2> QED
    BY <1>2, <2>1, Least
<1>4. k \in 1..Len(days) /\ ~ Counts(k)
  OBVIOUS
<1>5. CASE k > 1 /\ days[k - 1] - days[k] = 1
  <2>1. run[k] = run[k - 1] + 1
    BY <1>0, <1>1, <1>4, <1>5
  <2>2. k - 1 \in 1..Len(days) /\ k - 1 \notin Wrong
    BY <1>0, <1>3, <1>4, <1>5
  <2>3. Counts(k - 1)
    BY <2>2
  <2>4. ~ Restarts(days, k)
    BY <1>5 DEF Restarts
  <2>5. run[k] \in 1..k /\ (k - run[k]) + 1 = ((k - 1) - run[k - 1]) + 1
    BY <1>0, <1>4, <2>1, <2>3
  <2>6. From(days, k, ((k - 1) - run[k - 1]) + 1)
    BY <1>0, <1>4, <2>3, <2>4 DEF From
  <2> QED
    BY <1>4, <2>5, <2>6
<1>6. CASE ~ (k > 1 /\ days[k - 1] - days[k] = 1)
  <2>1. run[k] = 1
    BY <1>0, <1>1, <1>4, <1>6
  <2>2. From(days, k, k)
    BY <1>0, <1>4, <1>6 DEF From, Restarts
  <2>3. run[k] \in 1..k /\ (k - run[k]) + 1 = k
    BY <1>0, <1>4, <2>1
  <2> QED
    BY <1>4, <2>2, <2>3
<1> QED
  BY <1>5, <1>6

\* The same two facts of the walk that is still alive.
LEMMA LivesSolves ==
  ASSUME NEW days, NEW g,
         g = [w \in DOMAIN days |-> w = 1 \/ (g[w - 1] /\ days[w - 1] - days[w] = 1)]
  PROVE  Lives(days) = [w \in DOMAIN days |->
                          w = 1 \/ (Lives(days)[w - 1] /\ days[w - 1] - days[w] = 1)]
<1> DEFINE lives == CHOOSE r : r = [w \in DOMAIN days |->
                      w = 1 \/ (r[w - 1] /\ days[w - 1] - days[w] = 1)]
<1>1. Lives(days) = lives
  BY DEF Lives
<1>2. lives = [w \in DOMAIN days |->
                 w = 1 \/ (lives[w - 1] /\ days[w - 1] - days[w] = 1)]
  OBVIOUS
<1> QED
  BY <1>1, <1>2

\* A run from the first day goes on by one day at a time.
LEMMA FromOne ==
  ASSUME NEW days, NEW w \in Nat, w > 1
  PROVE  From(days, w, 1) <=> From(days, w - 1, 1) /\ days[w - 1] - days[w] = 1
<1>1. (2..w) = (2..(w - 1)) \cup {w}
  OBVIOUS
<1>2. Restarts(days, w) <=> ~ (days[w - 1] - days[w] = 1)
  BY DEF Restarts
<1> QED
  BY <1>1, <1>2 DEF From

\* The walk that is still alive is what it says.
LEMMA LivesWalks ==
  ASSUME NEW days, Falling(days)
  PROVE  Lives(days) = [w \in DOMAIN days |->
                          w = 1 \/ (Lives(days)[w - 1] /\ days[w - 1] - days[w] = 1)]
<1>0. Len(days) \in Nat /\ DOMAIN days = 1..Len(days)
  BY DEF Falling
<1> DEFINE g == [w \in DOMAIN days |-> From(days, w, 1)]
<1>1. ASSUME NEW w \in DOMAIN days
      PROVE  From(days, w, 1) <=> (w = 1 \/ (g[w - 1] /\ days[w - 1] - days[w] = 1))
  <2>1. CASE w = 1
    <3>1. From(days, 1, 1)
      BY DEF From, Restarts
    <3> QED
      BY <2>1, <3>1
  <2>2. CASE w # 1
    <3>1. w \in Nat /\ w > 1 /\ w - 1 \in DOMAIN days
      BY <1>0, <2>2
    <3>2. From(days, w, 1) <=> From(days, w - 1, 1) /\ days[w - 1] - days[w] = 1
      BY <3>1, FromOne
    <3>3. g[w - 1] <=> From(days, w - 1, 1)
      BY <3>1
    <3> QED
      BY <2>2, <3>2, <3>3
  <2> QED
    BY <2>1, <2>2
<1> DEFINE h == [w \in DOMAIN days |-> w = 1 \/ (g[w - 1] /\ days[w - 1] - days[w] = 1)]
<1>2. ASSUME NEW w \in DOMAIN days  PROVE g[w] = h[w]
  <2>1. CASE From(days, w, 1)
    <3>1. g[w] = TRUE
      BY <2>1
    <3>2. w = 1 \/ (g[w - 1] /\ days[w - 1] - days[w] = 1)
      BY <1>1, <2>1
    <3> HIDE DEF g
    <3>3. h[w] = TRUE
      BY <3>2
    <3> QED
      BY <3>1, <3>3
  <2>2. CASE ~ From(days, w, 1)
    <3>1. g[w] = FALSE
      BY <2>2
    <3>2. ~ (w = 1 \/ (g[w - 1] /\ days[w - 1] - days[w] = 1))
      BY <1>1, <2>2
    <3> HIDE DEF g
    <3>3. h[w] = FALSE
      BY <3>2
    <3> QED
      BY <3>1, <3>3
  <2> QED
    BY <2>1, <2>2
<1>3. DOMAIN g = DOMAIN days /\ DOMAIN h = DOMAIN days
  OBVIOUS
<1>4. g = [w \in DOMAIN days |-> g[w]] /\ h = [w \in DOMAIN days |-> h[w]]
  OBVIOUS
<1>5. g = h
  <2> HIDE DEF g, h
  <2> QED
    BY <1>2, <1>3, <1>4
<1> HIDE DEF g
<1>6. g = [w \in DOMAIN days |-> w = 1 \/ (g[w - 1] /\ days[w - 1] - days[w] = 1)]
  BY <1>5
<1> QED
  BY <1>6, LivesSolves

\* It is alive at the days whose run started at the last one.
LEMMA LivesIs ==
  ASSUME NEW days, Falling(days), NEW w \in 1..Len(days)
  PROVE  Lives(days)[w] <=> From(days, w, 1)
<1>0. Len(days) \in Nat /\ DOMAIN days = 1..Len(days)
  BY DEF Falling
<1> DEFINE lives == Lives(days)
           Wrong == {k \in 1..Len(days) : ~ (lives[k] <=> From(days, k, 1))}
<1>1. lives = [k \in DOMAIN days |-> k = 1 \/ (lives[k - 1] /\ days[k - 1] - days[k] = 1)]
  BY LivesWalks
<1> HIDE DEF lives
<1>2. SUFFICES ASSUME Wrong # {}  PROVE FALSE
  BY DEF lives
<1>3. PICK k \in Wrong : \A m \in Wrong : k <= m
  <2>1. Wrong \in SUBSET Nat
    BY <1>0
  <2> HIDE DEF Wrong
  <2> QED
    BY <1>2, <2>1, Least
<1>4. k \in 1..Len(days) /\ ~ (lives[k] <=> From(days, k, 1))
  OBVIOUS
<1>5. lives[k] <=> (k = 1 \/ (lives[k - 1] /\ days[k - 1] - days[k] = 1))
  BY <1>0, <1>1, <1>4
<1>6. CASE k = 1
  <2>1. From(days, 1, 1)
    BY DEF From, Restarts
  <2> QED
    BY <1>4, <1>5, <1>6, <2>1
<1>7. CASE k # 1
  <2>1. k \in Nat /\ k > 1 /\ k - 1 \in 1..Len(days)
    BY <1>0, <1>4, <1>7
  <2>2. From(days, k, 1) <=> From(days, k - 1, 1) /\ days[k - 1] - days[k] = 1
    BY <2>1, FromOne
  <2>3. k - 1 \notin Wrong
    BY <1>3, <2>1
  <2>4. lives[k - 1] <=> From(days, k - 1, 1)
    BY <2>1, <2>3
  <2> QED
    BY <1>4, <1>5, <1>7, <2>2, <2>4
<1> QED
  BY <1>6, <1>7

\* The places of the days and the days themselves are in opposite order.
LEMMA PlacesFall ==
  ASSUME NEW days, Falling(days), NEW w \in 1..Len(days), NEW j \in 1..Len(days)
  PROVE  /\ days[w] \in Nat /\ days[j] \in Nat
         /\ days[w] > days[j] <=> w < j
         /\ days[w] = days[j] <=> w = j
<1>0. Len(days) \in Nat
  BY DEF Falling
<1>1. days[w] \in Nat /\ days[j] \in Nat
  BY DEF Falling
<1>2. w < j => days[w] > days[j]
  BY DEF Falling
<1>3. j < w => days[j] > days[w]
  BY DEF Falling
<1> QED
  BY <1>0, <1>1, <1>2, <1>3

\* The days are finitely many.
LEMMA DaysAreFinite ==
  ASSUME NEW days, Falling(days)
  PROVE  Range(days) \in SUBSET Nat /\ IsFiniteSet(Range(days))
         /\ \A d \in Range(days) : \E w \in 1..Len(days) : days[w] = d
<1>0. Len(days) \in Nat /\ DOMAIN days = 1..Len(days) /\ days \in [1..Len(days) -> Nat]
  BY DEF Falling
<1>1. days \in Surjection(1..Len(days), Range(days))
  BY <1>0 DEF Surjection, Range
<1>2. IsFiniteSet(1..Len(days))
  BY <1>0, FS_Interval
<1>3. IsFiniteSet(Range(days))
  BY <1>1, <1>2, FS_Surjection
<1> QED
  BY <1>0, <1>3 DEF Range

\* Within a run every place is a day.
LEMMA Spans ==
  ASSUME NEW days, Falling(days), NEW w \in 1..Len(days), NEW s \in 1..w,
         \A k \in (s + 1)..w : ~ Restarts(days, k), NEW k \in s..w
  PROVE  days[k] - days[w] = w - k
<1>0. Len(days) \in Nat
  BY DEF Falling
<1> DEFINE Wrong == {d \in 0..(w - s) : days[w - d] - days[w] # d}
<1>1. SUFFICES ASSUME Wrong # {}  PROVE FALSE
  <2>1. w - k \in 0..(w - s) /\ w - (w - k) = k
    BY <1>0
  <2> QED
    BY <2>1
<1>2. PICK d \in Wrong : \A e \in Wrong : d <= e
  <2>1. Wrong \in SUBSET Nat
    BY <1>0
  <2> HIDE DEF Wrong
  <2> QED
    BY <1>1, <2>1, Least
<1>3. d \in 0..(w - s) /\ days[w - d] - days[w] # d
  OBVIOUS
<1>4. days[w] \in Nat
  BY DEF Falling
<1>5. d # 0
  BY <1>0, <1>3, <1>4
<1>6. d - 1 \in 0..(w - s) /\ d - 1 \notin Wrong
  BY <1>0, <1>2, <1>3, <1>5
<1>7. days[w - (d - 1)] - days[w] = d - 1
  BY <1>6
<1>8. (w - d) + 1 \in (s + 1)..w /\ w - (d - 1) = (w - d) + 1
  BY <1>0, <1>3, <1>5
<1>9. ~ Restarts(days, (w - d) + 1)
  BY <1>8
<1>10. ((w - d) + 1) - 1 = w - d
  BY <1>0, <1>3
<1>11. days[w - d] - days[(w - d) + 1] = 1
  BY <1>9, <1>10 DEF Restarts
<1>12. days[w - d] \in Nat /\ days[(w - d) + 1] \in Nat
  <2>1. w - d \in 1..Len(days) /\ (w - d) + 1 \in 1..Len(days)
    BY <1>0, <1>3, <1>5
  <2> QED
    BY <2>1 DEF Falling
<1> QED
  BY <1>3, <1>4, <1>7, <1>8, <1>11, <1>12

\* The least and the greatest of an interval.
LEMMA Bounds ==
  ASSUME NEW a \in Nat, NEW b \in Nat, a <= b
  PROVE  Min(a..b) = a /\ Max(a..b) = b /\ (a..b) # {} /\ Cardinality(a..b) = (b - a) + 1
<1>1. (a..b) \in SUBSET Nat /\ a \in a..b /\ b \in a..b
  OBVIOUS
<1>2. IsFiniteSet(a..b) /\ Cardinality(a..b) = (b - a) + 1
  BY FS_Interval
<1>3. Min(a..b) \in a..b /\ \A k \in a..b : Min(a..b) <= k
  BY <1>1, Least
<1>4. Max(a..b) \in a..b /\ \A k \in a..b : k <= Max(a..b)
  BY <1>1, <1>2, Greatest
<1>5. Min(a..b) = a
  BY <1>1, <1>3
<1>6. Max(a..b) = b
  BY <1>1, <1>4
<1> QED
  BY <1>1, <1>2, <1>5, <1>6

\* A stretch is all the days from its first to its last.
LEMMA StretchIs ==
  ASSUME NEW days, Falling(days), NEW r \in Stretches(days)
  PROVE  \E w, j \in 1..Len(days) :
           /\ j <= w /\ days[w] = Min(r) /\ days[j] = Max(r) /\ r = days[w]..days[j]
           /\ \A k \in (j + 1)..w : ~ Restarts(days, k)
           /\ Cardinality(r) = (w - j) + 1
<1>0. Len(days) \in Nat
  BY DEF Falling
<1>1. r \in SUBSET Range(days) /\ r # {} /\ \A d \in Min(r)..Max(r) : d \in r
  BY DEF Stretches
<1>2. Range(days) \in SUBSET Nat /\ IsFiniteSet(Range(days))
      /\ \A d \in Range(days) : \E w \in 1..Len(days) : days[w] = d
  BY DaysAreFinite
<1>3. r \in SUBSET Nat /\ IsFiniteSet(r)
  BY <1>1, <1>2, FS_Subset
<1>4. Min(r) \in r /\ \A k \in r : Min(r) <= k
  BY <1>1, <1>3, Least
<1>5. Max(r) \in r /\ \A k \in r : k <= Max(r)
  BY <1>1, <1>3, Greatest
<1>6. PICK w, j \in 1..Len(days) : days[w] = Min(r) /\ days[j] = Max(r)
  BY <1>1, <1>2, <1>4, <1>5
<1>7. r = days[w]..days[j]
  <2>1. r \subseteq Min(r)..Max(r)
    BY <1>3, <1>4, <1>5
  <2>2. Min(r)..Max(r) \subseteq r
    BY <1>1
  <2> QED
    BY <1>6, <2>1, <2>2
<1>8. days[w] \in Nat /\ days[j] \in Nat /\ days[w] <= days[j]
  BY <1>3, <1>4, <1>5, <1>6
<1>9. j <= w
  BY <1>0, <1>8, PlacesFall
<1>10. ASSUME NEW k \in (j + 1)..w  PROVE ~ Restarts(days, k)
  <2>1. k \in 1..Len(days) /\ k - 1 \in 1..Len(days) /\ k # 1 /\ k <= w /\ j <= k - 1 /\ j < k
    BY <1>0, <1>9, <1>10
  <2>2. days[k] \in Nat /\ days[k - 1] \in Nat /\ days[k - 1] > days[k]
        /\ days[k] >= days[w] /\ days[j] > days[k]
    BY <1>0, <1>8, <2>1, PlacesFall
  <2>3. days[k] + 1 \in r
    BY <1>7, <1>8, <2>2
  <2>4. PICK m \in 1..Len(days) : days[m] = days[k] + 1
    BY <1>1, <1>2, <2>3
  <2>5. m < k
    BY <2>1, <2>2, <2>4, PlacesFall
  <2>6. ~ (m < k - 1)
    <3> SUFFICES ASSUME m < k - 1  PROVE FALSE
      OBVIOUS
    <3>1. days[m] > days[k - 1]
      BY <2>1, PlacesFall
    <3> QED
      BY <2>2, <2>4, <3>1
  <2>7. m = k - 1
    BY <1>0, <2>1, <2>5, <2>6
  <2> QED
    BY <2>1, <2>2, <2>4, <2>7 DEF Restarts
<1>11. days[j] - days[w] = w - j
  <2>1. j \in 1..w /\ j \in j..w
    BY <1>0, <1>9
  <2> QED
    BY <1>10, <2>1, Spans
<1>12. Cardinality(r) = (w - j) + 1
  BY <1>7, <1>8, <1>11, Bounds
<1> QED
  BY <1>6, <1>7, <1>9, <1>10, <1>12

\* What the walk has counted at a place is the stretch that ends there.
LEMMA RunIsStretch ==
  ASSUME NEW days, Falling(days), NEW w \in 1..Len(days), NEW s \in 1..w,
         \A k \in (s + 1)..w : ~ Restarts(days, k)
  PROVE  /\ days[w]..days[s] \in Stretches(days)
         /\ Max(days[w]..days[s]) = days[s]
         /\ Cardinality(days[w]..days[s]) = (w - s) + 1
<1>0. Len(days) \in Nat /\ DOMAIN days = 1..Len(days)
  BY DEF Falling
<1>1. s \in 1..Len(days) /\ s \in s..w
  BY <1>0
<1>2. days[w] \in Nat /\ days[s] \in Nat
  BY <1>1, PlacesFall
<1>3. days[s] - days[w] = w - s
  BY <1>1, Spans
<1>4. days[w] <= days[s]
  BY <1>0, <1>2, <1>3
<1> DEFINE r == days[w]..days[s]
<1>5. Min(r) = days[w] /\ Max(r) = days[s] /\ r # {} /\ Cardinality(r) = (w - s) + 1
  BY <1>2, <1>3, <1>4, Bounds
<1>6. ASSUME NEW d \in r  PROVE d \in Range(days)
  <2>1. PICK k \in s..w : k = w - (d - days[w])
    BY <1>0, <1>1, <1>2, <1>3
  <2>2. days[k] - days[w] = w - k /\ k \in 1..Len(days)
    BY <1>0, <1>1, Spans
  <2>3. days[k] \in Nat
    BY <2>2, PlacesFall
  <2>4. days[k] = d
    BY <1>0, <1>2, <2>1, <2>2, <2>3
  <2> QED
    BY <1>0, <2>2, <2>4 DEF Range
<1>7. r \in Stretches(days)
  BY <1>5, <1>6 DEF Stretches
<1> QED
  BY <1>5, <1>7

\* The greatest of the numbers that there are.
LEMMA MaxIs ==
  ASSUME NEW S \in SUBSET Nat, NEW m \in S, \A k \in S : k <= m
  PROVE  Max(S) = m
<1>1. \A k \in S : m >= k
  OBVIOUS
<1>2. Max(S) \in S /\ \A k \in S : Max(S) >= k
  BY <1>1 DEF Max
<1>3. Max(S) >= m /\ m >= Max(S) /\ Max(S) \in Nat
  BY <1>1, <1>2
<1> QED
  BY <1>3

\* The best run of the walk is the longest stretch.
LEMMA BestIsLongest ==
  ASSUME NEW days, Falling(days)
  PROVE  (IF days = <<>> THEN 0 ELSE Max({RunTo(days)[w] : w \in DOMAIN days}))
           = Longest(Stretches(days))
<1>0. Len(days) \in Nat /\ DOMAIN days = 1..Len(days)
  BY DEF Falling
<1>1. CASE days = <<>>
  <2>1. Range(days) = {}
    BY <1>1 DEF Range
  <2>2. Stretches(days) = {}
    BY <2>1 DEF Stretches
  <2> QED
    BY <1>1, <2>2 DEF Longest
<1>2. CASE days # <<>>
  <2> DEFINE runs == {RunTo(days)[w] : w \in DOMAIN days}
             sizes == {Cardinality(r) : r \in Stretches(days)}
  <2>1. \A w \in 1..Len(days) : RunTo(days)[w] \in 1..w
    BY RunIs
  <2>2. runs \in SUBSET (1..Len(days))
    BY <1>0, <2>1
  <2>3. IsFiniteSet(runs)
    <3>1. IsFiniteSet(1..Len(days))
      BY <1>0, FS_Interval
    <3> QED
      BY <2>2, <3>1, FS_Subset
  <2>4. Len(days) # 0
    BY <1>2 DEF Falling
  <2>5. 1 \in DOMAIN days /\ runs # {}
    BY <1>0, <2>4
  <2>6. runs \in SUBSET Nat
    BY <2>2
  <2> HIDE DEF runs
  <2>7. Max(runs) \in runs /\ \A k \in runs : k <= Max(runs)
    BY <2>3, <2>5, <2>6, Greatest
  <2>8. Max(runs) \in sizes
    <3>1. PICK w \in 1..Len(days) : RunTo(days)[w] = Max(runs)
      BY <1>0, <2>7 DEF runs
    <3> DEFINE s == (w - RunTo(days)[w]) + 1
    <3>2. RunTo(days)[w] \in 1..w /\ From(days, w, s)
      BY RunIs
    <3>3. s \in 1..w /\ (\A k \in (s + 1)..w : ~ Restarts(days, k)) /\ (w - s) + 1 = RunTo(days)[w]
      BY <3>2 DEF From
    <3> HIDE DEF s
    <3>4. /\ days[w]..days[s] \in Stretches(days)
          /\ Cardinality(days[w]..days[s]) = (w - s) + 1
      BY <3>3, RunIsStretch
    <3> QED
      BY <3>1, <3>3, <3>4
  <2>9. ASSUME NEW r \in Stretches(days)
        PROVE  Cardinality(r) \in Nat /\ Cardinality(r) <= Max(runs)
    <3>1. PICK w, j \in 1..Len(days) :
            j <= w /\ (\A k \in (j + 1)..w : ~ Restarts(days, k)) /\ Cardinality(r) = (w - j) + 1
      BY StretchIs
    <3> DEFINE s == (w - RunTo(days)[w]) + 1
    <3>2. RunTo(days)[w] \in 1..w /\ From(days, w, s)
      BY RunIs
    <3>3. s \in 1..w /\ Restarts(days, s)
      BY <3>2 DEF From
    <3>4. s <= j
      BY <1>0, <3>1, <3>3
    <3>5. Cardinality(r) \in Nat /\ Cardinality(r) <= RunTo(days)[w]
      BY <1>0, <3>1, <3>2, <3>4
    <3>6. RunTo(days)[w] \in runs
      BY <1>0 DEF runs
    <3>7. RunTo(days)[w] <= Max(runs) /\ RunTo(days)[w] \in Nat /\ Max(runs) \in Nat
      BY <2>6, <2>7, <3>6
    <3> QED
      BY <3>5, <3>7
  <2>10. sizes \in SUBSET Nat /\ \A k \in sizes : k <= Max(runs)
    BY <2>9
  <2>11. Stretches(days) # {}
    BY <2>8
  <2> HIDE DEF sizes
  <2>12. Max(sizes) = Max(runs)
    BY <2>8, <2>10, MaxIs
  <2> QED
    BY <1>2, <2>11, <2>12 DEF Longest, runs, sizes
<1> QED
  BY <1>1, <1>2

\* What is still alive of the walk is the longest stretch that reaches the last day.
LEMMA LiveIsRun ==
  ASSUME NEW days, Falling(days), days # <<>>
  PROVE  LET rs == {r \in Stretches(days) : Max(r) = days[1]}
         IN  /\ Cardinality({w \in DOMAIN days : Lives(days)[w]}) \in Nat \ {0}
             /\ Longest(rs) = Cardinality({w \in DOMAIN days : Lives(days)[w]})
<1>0. Len(days) \in Nat /\ DOMAIN days = 1..Len(days) /\ Len(days) # 0
  BY DEF Falling
<1> DEFINE rs == {r \in Stretches(days) : Max(r) = days[1]}
           L == {w \in DOMAIN days : Lives(days)[w]}
           sizes == {Cardinality(r) : r \in rs}
<1>1. L = {w \in 1..Len(days) : From(days, w, 1)}
  BY <1>0, LivesIs
<1>2. IsFiniteSet(L) /\ L \in SUBSET Nat
  <2>1. IsFiniteSet(1..Len(days))
    BY <1>0, FS_Interval
  <2> QED
    BY <1>0, <1>1, <2>1, FS_Subset
<1>3. 1 \in L
  BY <1>0, <1>1 DEF From, Restarts
<1> HIDE DEF L
<1> DEFINE m == Max(L)
<1>4. m \in L /\ \A k \in L : k <= m
  BY <1>2, <1>3, Greatest
<1> HIDE DEF m
<1>5. m \in 1..Len(days) /\ From(days, m, 1)
  BY <1>1, <1>4
<1>6. \A k \in (1 + 1)..m : ~ Restarts(days, k)
  BY <1>5 DEF From
<1>7. L = 1..m
  <2>1. ASSUME NEW w \in 1..m  PROVE w \in L
    <3>1. From(days, w, 1)
      BY <1>0, <1>5, <1>6 DEF From, Restarts
    <3> QED
      BY <1>0, <1>1, <1>5, <3>1
  <2> QED
    BY <1>1, <1>2, <1>4, <1>5, <2>1
<1>8. Cardinality(L) = m
  BY <1>5, <1>7, FS_Interval
<1>9. m \in sizes
  <2>1. 1 \in 1..m /\ (m - 1) + 1 = m
    BY <1>0, <1>5
  <2>2. /\ days[m]..days[1] \in Stretches(days)
        /\ Max(days[m]..days[1]) = days[1]
        /\ Cardinality(days[m]..days[1]) = (m - 1) + 1
    BY <1>5, <1>6, <2>1, RunIsStretch
  <2> QED
    BY <2>1, <2>2
<1>10. ASSUME NEW r \in rs  PROVE Cardinality(r) \in Nat /\ Cardinality(r) <= m
  <2>1. PICK w, j \in 1..Len(days) :
          /\ j <= w /\ days[j] = Max(r) /\ (\A k \in (j + 1)..w : ~ Restarts(days, k))
          /\ Cardinality(r) = (w - j) + 1
    BY StretchIs
  <2>2. 1 \in 1..Len(days)
    BY <1>0
  <2>3. j = 1
    BY <2>1, <2>2, PlacesFall
  <2>4. From(days, w, 1)
    BY <1>0, <2>1, <2>3 DEF From, Restarts
  <2>5. w <= m
    BY <1>1, <1>4, <2>4
  <2> QED
    BY <1>0, <2>1, <2>3, <2>5
<1>11. sizes \in SUBSET Nat /\ \A k \in sizes : k <= m
  BY <1>10
<1>12. rs # {}
  BY <1>9
<1> HIDE DEF sizes, rs
<1>13. Max(sizes) = m
  BY <1>9, <1>11, MaxIs
<1>14. Longest(rs) = Cardinality(L) /\ Cardinality(L) \in Nat \ {0}
  BY <1>5, <1>8, <1>12, <1>13 DEF Longest, sizes
<1> QED
  BY <1>14 DEF L, rs

\* For all days and every today, late or not: the best, the active and the live streak.
LEMMA StreakRight ==
  ASSUME NEW days, Falling(days), NEW today \in Nat, NEW after \in BOOLEAN
  PROVE  LET a == ComputeStreak(days, IF after THEN today + 1 ELSE today)
         IN  /\ a.best = Longest(Stretches(days)) /\ a.active = Len(days)
             /\ a.live = IF after /\ days # <<>> /\ days[1] < today
                         THEN 0 ELSE Longest(Reaching(days, today))
             /\ ~ after => (a.live > 0 <=> days # <<>> /\ today - days[1] <= 1)
<1> DEFINE utc == IF after THEN today + 1 ELSE today
           a == ComputeStreak(days, utc)
           alive == Cardinality({w \in DOMAIN days : Lives(days)[w]})
           rs == {r \in Stretches(days) : Max(r) = days[1]}
<1>1. a.best = Longest(Stretches(days))
  BY BestIsLongest DEF ComputeStreak
<1>2. a.active = Len(days) /\ a.live = IF days # <<>> /\ utc - days[1] <= 1 THEN alive ELSE 0
  BY DEF ComputeStreak
<1>3. CASE days = <<>>
  <2>1. Range(days) = {}
    BY <1>3 DEF Range
  <2>2. Reaching(days, today) = {}
    BY <2>1 DEF Reaching, Stretches
  <2>3. a.live = 0 /\ Longest(Reaching(days, today)) = 0
    BY <1>2, <1>3, <2>2 DEF Longest
  <2> QED
    BY <1>1, <1>2, <1>3, <2>3
<1>4. CASE days # <<>>
  <2>1. alive \in Nat \ {0} /\ Longest(rs) = alive
    BY <1>4, LiveIsRun
  <2>2. days[1] \in Nat
    BY <1>4 DEF Falling
  <2>3. days[1] >= today - 1 => Reaching(days, today) = rs
    BY DEF Reaching
  <2>4. ~ (days[1] >= today - 1) => Reaching(days, today) = {}
    BY DEF Reaching
  <2>5. Longest(Reaching(days, today)) = IF days[1] >= today - 1 THEN alive ELSE 0
    BY <2>1, <2>3, <2>4 DEF Longest
  <2> HIDE DEF alive, a
  <2>6. a.live = IF after /\ days # <<>> /\ days[1] < today
                 THEN 0 ELSE Longest(Reaching(days, today))
    BY <1>2, <1>4, <2>2, <2>5
  <2>7. ~ after => (a.live > 0 <=> days # <<>> /\ today - days[1] <= 1)
    BY <1>2, <1>4, <2>1
  <2> QED
    BY <1>1, <1>2, <2>6, <2>7 DEF a
<1> QED
  BY <1>3, <1>4

-----------------------------------------------------------------------------
(* The sums, and what is missing. *)

\* The least of the numbers that there are.
LEMMA MinIs ==
  ASSUME NEW S \in SUBSET Nat, NEW m \in S, \A k \in S : m <= k
  PROVE  Min(S) = m
<1>1. Min(S) \in S /\ \A k \in S : Min(S) <= k
  BY Least
<1>2. Min(S) <= m /\ m <= Min(S) /\ Min(S) \in Nat
  BY <1>1
<1> QED
  BY <1>2

\* What a sum counts.
Pairs(f) == UNION {{w} \X (1..f[w]) : w \in DOMAIN f}

\* The pairs of a sum.
LEMMA PairsAre ==
  ASSUME NEW D, NEW f \in [D -> Nat]
  PROVE  \A p : p \in Pairs(f) <=> \E w \in D : \E k \in 1..f[w] : p = <<w, k>>
BY DEF Pairs

\* A sum of finitely many terms is a number.
LEMMA PairsAreFinite ==
  ASSUME NEW D, IsFiniteSet(D), NEW f \in [D -> Nat]
  PROVE  IsFiniteSet(Pairs(f)) /\ Tally(f) = Cardinality(Pairs(f)) /\ Tally(f) \in Nat
<1> DEFINE Part(w) == {w} \X (1..f[w])
           parts == {Part(w) : w \in D}
<1>1. IsFiniteSet(parts)
  <2> DEFINE part == [w \in D |-> Part(w)]
  <2>1. part \in Surjection(D, parts)
    <3> HIDE DEF Part
    <3> QED
      BY DEF Surjection
  <2> HIDE DEF part, parts
  <2> QED
    BY <2>1, FS_Surjection
<1>2. ASSUME NEW w \in D  PROVE IsFiniteSet(Part(w))
  <2>0. f[w] \in Int
    OBVIOUS
  <2>1. IsFiniteSet({w})
    BY FS_Singleton
  <2>2. IsFiniteSet(1..f[w])
    BY <2>0, FS_Interval
  <2> QED
    BY <2>1, <2>2, FS_Product
<1>3. Pairs(f) = UNION parts
  BY DEF Pairs
<1>4. \A T \in parts : IsFiniteSet(T)
  BY <1>2
<1> HIDE DEF parts
<1>5. IsFiniteSet(Pairs(f))
  BY <1>1, <1>3, <1>4, FS_UNION
<1>6. Tally(f) = Cardinality(Pairs(f))
  BY DEF Tally, Pairs
<1> QED
  BY <1>5, <1>6, FS_CardinalityType

\* A sum is at least any of its terms, and the only term there is.
LEMMA TallyOfOne ==
  ASSUME NEW D, IsFiniteSet(D), NEW f \in [D -> Nat], NEW n \in D
  PROVE  /\ f[n] <= Tally(f)
         /\ (\A w \in D : w # n => f[w] = 0) => Tally(f) = f[n]
<1> DEFINE one == {n} \X (1..f[n])
<1>1. IsFiniteSet(one) /\ Cardinality(one) = f[n]
  <2>1. IsFiniteSet({n}) /\ Cardinality({n}) = 1
    BY FS_Singleton
  <2>2. IsFiniteSet(1..f[n]) /\ Cardinality(1..f[n]) = f[n]
    BY FS_Interval
  <2>3. IsFiniteSet(one) /\ Cardinality(one) = Cardinality({n}) * Cardinality(1..f[n])
    BY <2>1, <2>2, FS_Product
  <2>4. 1 * f[n] = f[n]
    OBVIOUS
  <2> QED
    BY <2>1, <2>2, <2>3, <2>4
<1>2. one \in SUBSET Pairs(f)
  BY PairsAre
<1>3. IsFiniteSet(Pairs(f)) /\ Tally(f) = Cardinality(Pairs(f))
  BY PairsAreFinite
<1>4. Cardinality(one) <= Cardinality(Pairs(f))
  BY <1>2, <1>3, FS_Subset
<1>5. ASSUME \A w \in D : w # n => f[w] = 0  PROVE Pairs(f) = one
  <2>1. ASSUME NEW p \in Pairs(f)  PROVE p \in one
    <3>1. PICK w \in D : \E k \in 1..f[w] : p = <<w, k>>
      BY PairsAre
    <3>2. PICK k \in 1..f[w] : p = <<w, k>>
      BY <3>1
    <3>3. w = n
      BY <1>5, <3>2
    <3> QED
      BY <3>2, <3>3
  <2> QED
    BY <1>2, <2>1
<1> QED
  BY <1>1, <1>3, <1>4, <1>5

\* The sum of the sizes of parts that have nothing in common is the size of their union.
LEMMA TallyOfParts ==
  ASSUME NEW T, IsFiniteSet(T), NEW D, IsFiniteSet(D), NEW P \in [D -> SUBSET T],
         \A w, j \in D : w # j => P[w] \cap P[j] = {},
         NEW f \in [D -> Nat], \A w \in D : f[w] = Cardinality(P[w])
  PROVE  /\ Tally(f) <= Cardinality(T)
         /\ (\A t \in T : \E w \in D : t \in P[w]) => Tally(f) = Cardinality(T)
<1> DEFINE Ordering(w) == Bijection(1..f[w], P[w])
           order == [w \in D |-> CHOOSE b : b \in Ordering(w)]
           F == [p \in Pairs(f) |-> order[p[1]][p[2]]]
<1>1. ASSUME NEW w \in D  PROVE order[w] \in Bijection(1..f[w], P[w])
  <2>1. IsFiniteSet(P[w])
    BY FS_Subset
  <2>2. ExistsBijection(1..f[w], P[w])
    BY <2>1, FS_CardinalityType
  <2>3. \E b : b \in Ordering(w)
    BY <2>2 DEF ExistsBijection
  <2> HIDE DEF Ordering
  <2>4. order[w] \in Ordering(w)
    BY <2>3
  <2> QED
    BY <2>4 DEF Ordering
<1> HIDE DEF order
<1>2. ASSUME NEW w \in D
      PROVE  /\ \A k \in 1..f[w] : order[w][k] \in P[w]
             /\ \A k, m \in 1..f[w] : order[w][k] = order[w][m] => k = m
             /\ \A t \in P[w] : \E k \in 1..f[w] : order[w][k] = t
  BY <1>1 DEF Bijection, Injection, IsInjective, Surjection
<1>3. ASSUME NEW p \in Pairs(f)
      PROVE  p[1] \in D /\ p[2] \in 1..f[p[1]] /\ p = <<p[1], p[2]>> /\ F[p] \in P[p[1]]
  <2>1. PICK w \in D : \E k \in 1..f[w] : p = <<w, k>>
    BY PairsAre
  <2>2. PICK k \in 1..f[w] : p = <<w, k>>
    BY <2>1
  <2>3. p[1] = w /\ p[2] = k
    BY <2>2
  <2> QED
    BY <1>2, <2>2, <2>3
<1>4. F \in [Pairs(f) -> T]
  BY <1>3
<1>5. ASSUME NEW a \in Pairs(f), NEW b \in Pairs(f), F[a] = F[b]  PROVE a = b
  <2>1. F[a] \in P[a[1]] /\ F[b] \in P[b[1]] /\ a[1] \in D /\ b[1] \in D
    BY <1>3
  <2>2. a[1] = b[1]
    BY <1>5, <2>1
  <2>3. a[2] = b[2]
    BY <1>2, <1>3, <1>5, <2>2
  <2> QED
    BY <1>3, <2>2, <2>3
<1>6. Tally(f) = Cardinality(Pairs(f))
  BY PairsAreFinite
<1>7. ASSUME \A t \in T : \E w \in D : t \in P[w], NEW t \in T
      PROVE  \E p \in Pairs(f) : F[p] = t
  <2>1. PICK w \in D : t \in P[w]
    BY <1>7
  <2>2. PICK k \in 1..f[w] : order[w][k] = t
    BY <1>2, <2>1
  <2>3. <<w, k>> \in Pairs(f)
    BY PairsAre
  <2>4. F[<<w, k>>] = t
    BY <2>2, <2>3
  <2> QED
    BY <2>3, <2>4
<1> HIDE DEF F
<1>8. /\ Cardinality(Pairs(f)) <= Cardinality(T)
      /\ Cardinality(Pairs(f)) = Cardinality(T) <=> \A t \in T : \E p \in Pairs(f) : F[p] = t
  BY <1>4, <1>5, Counted
<1> QED
  BY <1>6, <1>7, <1>8

\* Of a finite set there are subsets of every size up to its own.
LEMMA SubsetOfSize ==
  ASSUME NEW S, IsFiniteSet(S), NEW k \in Nat, k <= Cardinality(S)
  PROVE  \E T \in SUBSET S : IsFiniteSet(T) /\ Cardinality(T) = k
<1>1. Cardinality(S) \in Nat /\ ExistsBijection(1..Cardinality(S), S)
  BY FS_CardinalityType
<1>2. PICK b : b \in Bijection(1..Cardinality(S), S)
  BY <1>1 DEF ExistsBijection
<1>3. /\ \A w \in 1..k : b[w] \in S
      /\ \A w, j \in 1..k : b[w] = b[j] => w = j
  BY <1>1, <1>2 DEF Bijection, Injection, IsInjective
<1> DEFINE T == {b[w] : w \in 1..k}
           c == [w \in 1..k |-> b[w]]
<1>4. c \in Bijection(1..k, T)
  BY <1>3 DEF Bijection, Injection, IsInjective, Surjection
<1>5. ExistsBijection(1..k, T)
  BY <1>4 DEF ExistsBijection
<1>6. T \in SUBSET S
  BY <1>3
<1> HIDE DEF T
<1>7. Cardinality(T) = k
  BY <1>5, FS_CountingElements
<1> QED
  BY <1>6, <1>7, FS_Subset

\* The course is finite, and its labs are as many as its list is long.
LEMMA LabsAreFinite ==
  /\ IsFiniteSet(LabSet) /\ Cardinality(LabSet) = Len(Labs) /\ Len(Labs) \in Nat
  /\ IsFiniteSet(Lessons) /\ Cardinality(Lessons) \in Nat
  /\ DOMAIN Labs = 1..Len(Labs) /\ \A w \in 1..Len(Labs) : Labs[w] \in LabSet
  /\ \A l \in LabSet : LessonOf[l] \in Lessons /\ \E w \in 1..Len(Labs) : Labs[w] = l
  /\ LessonGrades \in Nat \ {0}
<1>1. /\ Labs \in Seq(LabSet) /\ \A w, j \in DOMAIN Labs : Labs[w] = Labs[j] => w = j
      /\ LessonGrades \in Nat \ {0}
  BY OwnAssumption
<1>2. /\ Len(Labs) \in Nat /\ DOMAIN Labs = 1..Len(Labs)
      /\ \A w \in 1..Len(Labs) : Labs[w] \in LabSet
  BY <1>1
<1>3. \A l \in LabSet : LessonOf[l] \in Lessons /\ \E w \in 1..Len(Labs) : Labs[w] = l
  BY <1>2 DEF LabSet, Range, Lessons
<1>4. Labs \in [1..Len(Labs) -> LabSet]
  BY <1>1
<1>5. Labs \in Bijection(1..Len(Labs), LabSet)
  BY <1>1, <1>2, <1>3, <1>4 DEF Bijection, Injection, IsInjective, Surjection
<1>6. IsFiniteSet(1..Len(Labs)) /\ Cardinality(1..Len(Labs)) = Len(Labs)
  BY <1>2, FS_Interval
<1>7. IsFiniteSet(LabSet) /\ Cardinality(LabSet) = Len(Labs)
  BY <1>5, <1>6, FS_Bijection DEF ExistsBijection
<1> DEFINE lessonOf == [l \in LabSet |-> LessonOf[l]]
<1>8. lessonOf \in Surjection(LabSet, Lessons)
  BY DEF Lessons, Surjection
<1>9. IsFiniteSet(Lessons)
  BY <1>7, <1>8, FS_Surjection
<1>10. Cardinality(Lessons) \in Nat
  BY <1>9, FS_CardinalityType
<1> QED
  BY <1>1, <1>2, <1>3, <1>7, <1>9, <1>10

\* The rows of a table: no lesson has more solved than it has labs, which are as many as
\* its grades.
IsTable(rows) ==
  \A n \in Lessons : rows[n].total = LessonGrades /\ rows[n].solved \in 0..LessonGrades
ClosedLessons(rows) == {n \in Lessons : rows[n].solved = LessonGrades}

\* Of any labs that are solved, the rows are such a table.
LEMMA RowsTell ==
  ASSUME NEW S \in SUBSET LabSet
  PROVE  /\ IsTable(PerLesson(S)) /\ DOMAIN PerLesson(S) = Lessons
         /\ \A n \in Lessons : PerLesson(S)[n].solved = Cardinality({l \in S : LessonOf[l] = n})
         /\ ClosedLessons(PerLesson(S)) = {n \in Lessons : LabsOf(n) \subseteq S}
<1>0. IsFiniteSet(LabSet) /\ LessonGrades \in Nat \ {0}
  BY LabsAreFinite
<1>1. ASSUME NEW n \in Lessons
      PROVE  /\ PerLesson(S)[n].total = LessonGrades
             /\ PerLesson(S)[n].solved = Cardinality({l \in S : LessonOf[l] = n})
             /\ PerLesson(S)[n].solved \in 0..LessonGrades
             /\ PerLesson(S)[n].solved = LessonGrades <=> LabsOf(n) \subseteq S
  <2> DEFINE part == {l \in S : LessonOf[l] = n}
  <2>1. Cardinality(LabsOf(n)) = LessonGrades
    BY OwnAssumption
  <2>2. IsFiniteSet(LabsOf(n))
    BY <1>0, FS_Subset DEF LabsOf
  <2>3. part \in SUBSET LabsOf(n)
    BY DEF LabsOf
  <2>4. /\ PerLesson(S)[n].total = LessonGrades
        /\ PerLesson(S)[n].solved = Cardinality(part)
    BY <2>1 DEF PerLesson
  <2>5. IsFiniteSet(part) /\ Cardinality(part) <= LessonGrades
        /\ (LessonGrades = Cardinality(part) => LabsOf(n) = part)
    BY <2>1, <2>2, <2>3, FS_Subset
  <2>6. Cardinality(part) \in Nat
    BY <2>5, FS_CardinalityType
  <2>7. LabsOf(n) \subseteq S <=> LabsOf(n) = part
    BY <2>3 DEF LabsOf
  <2>8. LabsOf(n) = part => Cardinality(part) = LessonGrades
    BY <2>1
  <2> HIDE DEF part
  <2>9. PerLesson(S)[n].solved \in 0..LessonGrades
    BY <1>0, <2>4, <2>5, <2>6
  <2>10. PerLesson(S)[n].solved = LessonGrades <=> LabsOf(n) \subseteq S
    BY <2>4, <2>5, <2>7, <2>8
  <2> QED
    BY <2>4, <2>9, <2>10 DEF part
<1>2. DOMAIN PerLesson(S) = Lessons
  BY DEF PerLesson
<1> QED
  BY <1>1, <1>2 DEF IsTable, ClosedLessons

\* The lessons completed are those with all their labs.
LEMMA CompletedAre ==
  ASSUME NEW rows, IsTable(rows)
  PROVE  /\ Completed(rows) = Cardinality(ClosedLessons(rows)) /\ Completed(rows) \in Nat
         /\ IsFiniteSet(ClosedLessons(rows)) /\ Completed(rows) <= Cardinality(Lessons)
<1>0. IsFiniteSet(Lessons) /\ LessonGrades \in Nat \ {0}
  BY LabsAreFinite
<1>1. {n \in Lessons : rows[n].total > 0 /\ rows[n].solved = rows[n].total} = ClosedLessons(rows)
  BY <1>0 DEF ClosedLessons, IsTable
<1>2. Completed(rows) = Cardinality(ClosedLessons(rows))
  BY <1>1 DEF Completed
<1>3. ClosedLessons(rows) \in SUBSET Lessons
  BY DEF ClosedLessons
<1>4. IsFiniteSet(ClosedLessons(rows)) /\ Cardinality(ClosedLessons(rows)) <= Cardinality(Lessons)
  BY <1>0, <1>3, FS_Subset
<1> QED
  BY <1>2, <1>4, FS_CardinalityType

\* Solving more makes a table with more.
LEMMA WayIs ==
  ASSUME NEW rows, IsTable(rows), NEW m \in [Lessons -> 0..LessonGrades],
         \A n \in Lessons : m[n] <= LessonGrades - rows[n].solved
  PROVE  /\ IsTable(Solving(rows, m))
         /\ \A n \in Lessons : Solving(rows, m)[n].solved = rows[n].solved + m[n]
<1>0. LessonGrades \in Nat \ {0}
  BY LabsAreFinite
<1>1. \A n \in Lessons : /\ Solving(rows, m)[n].total = rows[n].total
                         /\ Solving(rows, m)[n].solved = rows[n].solved + m[n]
  BY DEF Solving
<1>2. \A n \in Lessons : m[n] \in 0..LessonGrades
  OBVIOUS
<1> QED
  BY <1>0, <1>1, <1>2 DEF IsTable

\* The grade g of a lesson lacks as many labs as there are from what is solved to g.
LEMMA GradeLacks ==
  ASSUME NEW rows, IsTable(rows), NEW n \in Lessons, NEW g \in 1..LessonGrades,
         rows[n].solved < g
  PROVE  LeastCost(rows, <<"leccion", n, g>>) = g - rows[n].solved
<1> DEFINE code == <<"leccion", n, g>>
           s == rows[n].solved
           m0 == [k \in Lessons |-> IF k = n THEN g - s ELSE 0]
           costs == {Cost(code, m) : m \in Ways(rows, code)}
<1>0. /\ LessonGrades \in Nat \ {0} /\ IsFiniteSet(Lessons)
      /\ \A k \in Lessons : rows[k].total = LessonGrades /\ rows[k].solved \in 0..LessonGrades
  BY LabsAreFinite DEF IsTable
<1>1. code[1] # "rango" /\ code[2] = n /\ code[3] = g
  OBVIOUS
<1>2. m0 \in [Lessons -> 0..LessonGrades] /\ m0[n] = g - s
      /\ \A k \in Lessons : k # n => m0[k] = 0
  BY <1>0
<1>3. \A k \in Lessons : m0[k] <= rows[k].total - rows[k].solved
  BY <1>0, <1>2
<1> HIDE DEF m0
<1>4. Solving(rows, m0)[n].solved = s + m0[n]
  BY DEF Solving
<1>5. Solving(rows, m0)[n].solved >= g
  BY <1>0, <1>2, <1>4
<1>6. Earns(Solving(rows, m0), code)
  BY <1>1, <1>5 DEF Earns
<1>7. m0 \in Ways(rows, code)
  BY <1>2, <1>3, <1>6 DEF Ways
<1>8. \A m \in Ways(rows, code) : Cost(code, m) = Tally(m)
  BY <1>1 DEF Cost
<1>9. Tally(m0) = g - s
  <2>1. m0 \in [Lessons -> Nat]
    BY <1>0, <1>2
  <2> QED
    BY <1>0, <1>2, <2>1, TallyOfOne
<1>10. ASSUME NEW m \in Ways(rows, code)  PROVE Tally(m) \in Nat /\ g - s <= Tally(m)
  <2>1. m \in [Lessons -> 0..LessonGrades] /\ Earns(Solving(rows, m), code)
    BY DEF Ways
  <2>2. m \in [Lessons -> Nat]
    BY <1>0, <2>1
  <2>3. Solving(rows, m)[n].solved = s + m[n]
    BY DEF Solving
  <2>4. s + m[n] >= g
    BY <1>1, <2>1, <2>3 DEF Earns
  <2>5. m[n] <= Tally(m) /\ Tally(m) \in Nat /\ m[n] \in Nat
    BY <1>0, <2>2, TallyOfOne, PairsAreFinite
  <2> QED
    BY <1>0, <2>4, <2>5
<1>11. costs \in SUBSET Nat /\ g - s \in costs /\ \A k \in costs : g - s <= k
  <2> HIDE DEF code
  <2> QED
    BY <1>7, <1>8, <1>9, <1>10
<1>12. LeastCost(rows, code) = Min(costs)
  BY DEF LeastCost
<1> HIDE DEF costs
<1>13. Min(costs) = g - s
  BY <1>11, MinIs
<1> QED
  BY <1>12, <1>13

\* A rank lacks as many lessons as there are from those completed to it.
LEMMA RankLacks ==
  ASSUME NEW rows, IsTable(rows), NEW k \in 1..Cardinality(Lessons), Completed(rows) < k
  PROVE  LeastCost(rows, <<"rango", k>>) = k - Completed(rows)
<1> DEFINE code == <<"rango", k>>
           closed == ClosedLessons(rows)
           c == Completed(rows)
           costs == {Cost(code, m) : m \in Ways(rows, code)}
<1>0. /\ LessonGrades \in Nat \ {0} /\ IsFiniteSet(Lessons) /\ Cardinality(Lessons) \in Nat
      /\ \A n \in Lessons : rows[n].total = LessonGrades /\ rows[n].solved \in 0..LessonGrades
  BY LabsAreFinite DEF IsTable
<1>1. code[1] = "rango" /\ code[2] = k
  OBVIOUS
<1>2. c = Cardinality(closed) /\ c \in Nat /\ IsFiniteSet(closed) /\ c <= Cardinality(Lessons)
      /\ closed \in SUBSET Lessons
  BY CompletedAre DEF ClosedLessons
<1>3. k \in Nat /\ c < k /\ k <= Cardinality(Lessons)
  BY <1>0
<1>4. IsFiniteSet(Lessons \ closed) /\ Cardinality(Lessons \ closed) = Cardinality(Lessons) - c
  <2>1. Lessons \cap closed = closed
    BY <1>2
  <2> HIDE DEF closed
  <2>2. IsFiniteSet(Lessons \ closed)
        /\ Cardinality(Lessons \ closed) = Cardinality(Lessons) - Cardinality(Lessons \cap closed)
    BY <1>0, FS_Difference
  <2> QED
    BY <1>2, <2>1, <2>2
<1>5. PICK J \in SUBSET (Lessons \ closed) : IsFiniteSet(J) /\ Cardinality(J) = k - c
  <2>1. k - c \in Nat /\ k - c <= Cardinality(Lessons \ closed)
    BY <1>0, <1>2, <1>3, <1>4
  <2> HIDE DEF c, closed
  <2> QED
    BY <1>4, <2>1, SubsetOfSize
<1> DEFINE m0 == [n \in Lessons |-> IF n \in J THEN LessonGrades - rows[n].solved ELSE 0]
<1>6. /\ m0 \in [Lessons -> 0..LessonGrades]
      /\ \A n \in J : m0[n] = LessonGrades - rows[n].solved
      /\ \A n \in Lessons : n \notin J => m0[n] = 0
  BY <1>0, <1>5
<1>7. \A n \in Lessons : m0[n] <= rows[n].total - rows[n].solved
  BY <1>0, <1>6
<1> HIDE DEF m0, code
<1>8. {n \in Lessons : m0[n] # 0} = J
  BY <1>0, <1>5, <1>6 DEF ClosedLessons
<1>9. m0 \in Ways(rows, code)
  <2>1. /\ IsTable(Solving(rows, m0))
        /\ \A n \in Lessons : Solving(rows, m0)[n].solved = rows[n].solved + m0[n]
    BY <1>0, <1>6, <1>7, WayIs
  <2>2. ClosedLessons(Solving(rows, m0)) = closed \cup J
    BY <1>0, <1>5, <1>6, <2>1 DEF ClosedLessons
  <2>3. closed \cap J = {}
    BY <1>5
  <2>4. Cardinality(closed \cup J) = c + (k - c)
    BY <1>2, <1>3, <1>5, <2>3, FS_Union, FS_EmptySet
  <2>5. Completed(Solving(rows, m0)) = k
    <3>1. Completed(Solving(rows, m0)) = Cardinality(ClosedLessons(Solving(rows, m0)))
      BY <2>1, CompletedAre
    <3> QED
      BY <1>2, <1>3, <2>2, <2>4, <3>1
  <2>6. Earns(Solving(rows, m0), code)
    BY <1>1, <1>3, <2>5 DEF Earns
  <2> QED
    BY <1>6, <1>7, <2>6 DEF Ways
<1>10. \A m \in Ways(rows, code) : Cost(code, m) = Cardinality({n \in Lessons : m[n] # 0})
  BY <1>1 DEF Cost
<1>11. ASSUME NEW m \in Ways(rows, code)
       PROVE  Cost(code, m) \in Nat /\ k - c <= Cost(code, m)
  <2> DEFINE more == {n \in Lessons : m[n] # 0}
  <2>1. /\ m \in [Lessons -> 0..LessonGrades] /\ Earns(Solving(rows, m), code)
        /\ \A n \in Lessons : m[n] <= LessonGrades - rows[n].solved
    BY <1>0 DEF Ways
  <2>2. /\ IsTable(Solving(rows, m))
        /\ \A n \in Lessons : Solving(rows, m)[n].solved = rows[n].solved + m[n]
    BY <2>1, WayIs
  <2>3. ClosedLessons(Solving(rows, m)) \in SUBSET (closed \cup more)
    BY <1>0, <2>1, <2>2 DEF ClosedLessons
  <2>4. IsFiniteSet(more)
    BY <1>0, FS_Subset
  <2>5. Cardinality(more) \in Nat /\ Cardinality(closed \cap more) \in Nat
    BY <1>2, <2>4, FS_CardinalityType, FS_Intersection
  <2> HIDE DEF more
  <2>6. IsFiniteSet(closed \cup more)
        /\ Cardinality(closed \cup more) = c + Cardinality(more) - Cardinality(closed \cap more)
    BY <1>2, <2>4, FS_Union
  <2>7. Completed(Solving(rows, m)) <= Cardinality(closed \cup more)
        /\ Completed(Solving(rows, m)) \in Nat
    BY <2>2, <2>3, <2>6, FS_Subset, CompletedAre
  <2>8. Completed(Solving(rows, m)) >= k
    BY <1>1, <2>1 DEF Earns
  <2>9. k - c <= Cardinality(more)
    BY <1>2, <1>3, <2>5, <2>6, <2>7, <2>8
  <2> QED
    BY <1>10, <2>5, <2>9 DEF more
<1>12. costs \in SUBSET Nat /\ k - c \in costs /\ \A d \in costs : k - c <= d
  BY <1>5, <1>8, <1>9, <1>10, <1>11
<1>13. LeastCost(rows, code) = Min(costs)
  BY DEF LeastCost
<1> HIDE DEF costs
<1>14. Min(costs) = k - c
  BY <1>12, MinIs
<1> QED
  BY <1>13, <1>14 DEF code

\* What is listed as missing is exactly what is not earned, each with the least it lacks.
LEMMA MissingRight ==
  ASSUME NEW rows, IsTable(rows), NEW code \in Codes
  PROVE  IF Earns(rows, code) THEN \A m \in Missing(rows) : m.code # code
         ELSE [code |-> code, lacks |-> LeastCost(rows, code)] \in Missing(rows)
<1>0. /\ LessonGrades \in Nat \ {0} /\ IsFiniteSet(Lessons) /\ Cardinality(Lessons) \in Nat
      /\ \A n \in Lessons : rows[n].total = LessonGrades /\ rows[n].solved \in 0..LessonGrades
      /\ Completed(rows) \in Nat
  BY LabsAreFinite, CompletedAre DEF IsTable
<1>1. ASSUME NEW n \in Lessons, NEW g \in 1..LessonGrades, code = <<"leccion", n, g>>
      PROVE  IF Earns(rows, code) THEN \A m \in Missing(rows) : m.code # code
             ELSE [code |-> code, lacks |-> LeastCost(rows, code)] \in Missing(rows)
  <2>1. Earns(rows, code) <=> rows[n].solved >= g
    BY <1>1 DEF Earns
  <2>2. CASE rows[n].solved >= g
    <3>1. ASSUME NEW m \in Missing(rows), m.code = code  PROVE FALSE
      <4>1. CASE \E d \in Lessons \X (1..LessonGrades) :
                   rows[d[1]].solved < d[2] /\ m.code = <<"leccion", d[1], d[2]>>
        <5>1. PICK d \in Lessons \X (1..LessonGrades) :
                     rows[d[1]].solved < d[2] /\ m.code = <<"leccion", d[1], d[2]>>
          BY <4>1
        <5>2. d[1] = n /\ d[2] = g
          BY <1>1, <3>1, <5>1
        <5> QED
          BY <1>0, <2>2, <5>1, <5>2
      <4>2. CASE \E k \in (Completed(rows) + 1)..Cardinality(Lessons) : m.code = <<"rango", k>>
        BY <1>1, <3>1, <4>2
      <4> QED
        BY <4>1, <4>2 DEF Missing
    <3> QED
      BY <2>1, <2>2, <3>1
  <2>3. CASE ~ (rows[n].solved >= g)
    <3>1. rows[n].solved < g
      BY <1>0, <2>3
    <3>2. LeastCost(rows, code) = g - rows[n].solved
      BY <1>1, <3>1, GradeLacks
    <3>3. <<n, g>> \in {d \in Lessons \X (1..LessonGrades) : rows[d[1]].solved < d[2]}
      BY <3>1
    <3>4. [code |-> code, lacks |-> g - rows[n].solved] \in Missing(rows)
      <4> DEFINE one(d) == [code |-> <<"leccion", d[1], d[2]>>, lacks |-> d[2] - rows[d[1]].solved]
      <4>1. one(<<n, g>>) \in Missing(rows)
        BY <3>3 DEF Missing
      <4>2. one(<<n, g>>) = [code |-> code, lacks |-> g - rows[n].solved]
        BY <1>1
      <4> QED
        BY <4>1, <4>2
    <3> QED
      BY <2>1, <2>3, <3>2, <3>4
  <2> QED
    BY <2>2, <2>3
<1>2. ASSUME NEW k \in 1..Cardinality(Lessons), code = <<"rango", k>>
      PROVE  IF Earns(rows, code) THEN \A m \in Missing(rows) : m.code # code
             ELSE [code |-> code, lacks |-> LeastCost(rows, code)] \in Missing(rows)
  <2>1. Earns(rows, code) <=> Completed(rows) >= k
    BY <1>2 DEF Earns
  <2>2. CASE Completed(rows) >= k
    <3>1. ASSUME NEW m \in Missing(rows), m.code = code  PROVE FALSE
      <4>1. CASE \E d \in Lessons \X (1..LessonGrades) : m.code = <<"leccion", d[1], d[2]>>
        BY <1>2, <3>1, <4>1
      <4>2. CASE \E j \in (Completed(rows) + 1)..Cardinality(Lessons) : m.code = <<"rango", j>>
        <5>1. PICK j \in (Completed(rows) + 1)..Cardinality(Lessons) : m.code = <<"rango", j>>
          BY <4>2
        <5>2. j = k
          BY <1>2, <3>1, <5>1
        <5> QED
          BY <1>0, <2>2, <5>1, <5>2
      <4> QED
        BY <4>1, <4>2 DEF Missing
    <3> QED
      BY <2>1, <2>2, <3>1
  <2>3. CASE ~ (Completed(rows) >= k)
    <3>1. Completed(rows) < k
      BY <1>0, <2>3
    <3>2. LeastCost(rows, code) = k - Completed(rows)
      BY <1>2, <3>1, RankLacks
    <3>3. k \in (Completed(rows) + 1)..Cardinality(Lessons)
      BY <1>0, <3>1
    <3>4. [code |-> code, lacks |-> k - Completed(rows)] \in Missing(rows)
      BY <1>2, <3>3 DEF Missing
    <3> QED
      BY <2>1, <2>3, <3>2, <3>4
  <2> QED
    BY <2>2, <2>3
<1>3. (\E n \in Lessons : \E g \in 1..LessonGrades : code = <<"leccion", n, g>>)
      \/ (\E k \in 1..Cardinality(Lessons) : code = <<"rango", k>>)
  BY DEF Codes
<1> QED
  BY <1>1, <1>2, <1>3

-----------------------------------------------------------------------------
(* What the queries return of the attempts there are. *)

Dates == {t[3] : t \in log}

\* The attempts are of labs of the course, and of days that have come.
LogInv ==
  /\ day \in Nat /\ evening \in BOOLEAN
  /\ IsFiniteSet(log) /\ log \in SUBSET (LabSet \X BOOLEAN \X (0..day))

\* What follows of the days and the labs solved.
LEMMA AttemptsAre ==
  ASSUME LogInv
  PROVE  /\ IsFiniteSet(Dates) /\ Dates \in SUBSET Nat /\ \A d \in Dates : d <= day
         /\ Dates = {} <=> log = {}
         /\ Solved \in SUBSET LabSet /\ IsFiniteSet(Solved) /\ Cardinality(Solved) \in Nat
<1>1. \A t \in log : t[1] \in LabSet /\ t[2] \in BOOLEAN /\ t[3] \in 0..day
  BY DEF LogInv
<1>2. /\ Dates \in SUBSET Nat /\ \A d \in Dates : d <= day
      /\ Dates = {} <=> log = {}
  BY <1>1 DEF Dates, LogInv
<1>3. IsFiniteSet(Dates)
  <2>1. IsFiniteSet(0..day)
    BY FS_Interval DEF LogInv
  <2>2. Dates \in SUBSET (0..day)
    BY <1>1 DEF Dates
  <2> QED
    BY <2>1, <2>2, FS_Subset
<1>4. Solved \in SUBSET LabSet
  BY <1>1 DEF Solved
<1>5. IsFiniteSet(Solved)
  BY <1>4, LabsAreFinite, FS_Subset
<1> QED
  BY <1>2, <1>3, <1>4, <1>5, FS_CardinalityType

\* The days are read in falling order, none after today, and the gap is from the first.
LEMMA DaysAreRead ==
  ASSUME LogInv
  PROVE  /\ Falling(ActiveDays)
         /\ ActiveDays = <<>> <=> log = {}
         /\ ActiveDays # <<>> => ActiveDays[1] \in Nat /\ ActiveDays[1] <= day
         /\ Gap = IF ActiveDays = <<>> THEN -1 ELSE day - ActiveDays[1]
<1> DEFINE n == Cardinality(Dates)
<1>1. IsFiniteSet(Dates) /\ Dates \in SUBSET Nat /\ (\A d \in Dates : d <= day)
      /\ (Dates = {} <=> log = {})
  BY AttemptsAre
<1>2. /\ n \in Nat /\ Descending(Dates) \in [1..n -> Dates]
      /\ \A w, j \in 1..n : w < j => Descending(Dates)[w] > Descending(Dates)[j]
  BY <1>1, Falls
<1>3. n = 0 <=> Dates = {}
  BY <1>1, FS_EmptySet
<1> HIDE DEF n
<1>4. ActiveDays = Descending(Dates)
  BY DEF ActiveDays, Dates
<1>5. ActiveDays \in Seq(Nat) /\ Len(ActiveDays) = n
  <2>1. ActiveDays \in [1..n -> Nat]
    BY <1>1, <1>2, <1>4
  <2> QED
    BY <1>2, <2>1
<1>6. Falling(ActiveDays)
  BY <1>2, <1>4, <1>5 DEF Falling
<1>7. ActiveDays = <<>> <=> log = {}
  BY <1>1, <1>3, <1>5
<1>8. ActiveDays # <<>> => ActiveDays[1] \in Nat /\ ActiveDays[1] <= day
  <2>1. SUFFICES ASSUME n # 0  PROVE ActiveDays[1] \in Nat /\ ActiveDays[1] <= day
    BY <1>1, <1>3, <1>7
  <2>2. ActiveDays[1] \in Dates
    BY <1>2, <1>4, <2>1
  <2> QED
    BY <1>1, <2>2
<1>9. Gap = IF ActiveDays = <<>> THEN -1 ELSE day - ActiveDays[1]
  BY <1>7 DEF Gap
<1> QED
  BY <1>6, <1>7, <1>8, <1>9

\* A lab that is solved was solved first on some day.
LEMMA FirstIsADay ==
  ASSUME LogInv, NEW l \in Solved
  PROVE  FirstSolved(l) \in Nat
<1> DEFINE right == {t \in log : t[1] = l /\ t[2]}
           on == {t[3] : t \in right}
           First(d) == <<l, TRUE, d>> \in log /\ \A t \in log : t[1] = l /\ t[2] => d <= t[3]
<1>1. ASSUME NEW t \in log
      PROVE  /\ t[1] \in LabSet /\ t[2] \in BOOLEAN /\ t[3] \in Nat
             /\ t = <<t[1], t[2], t[3]>>
  <2>1. t \in LabSet \X BOOLEAN \X (0..day)
    BY DEF LogInv
  <2>2. 0..day \in SUBSET Nat
    BY DEF LogInv
  <2> QED
    BY <2>1, <2>2
<1>2. on \in SUBSET Nat /\ on # {}
  BY <1>1 DEF Solved
<1>3. Min(on) \in on /\ \A k \in on : Min(on) <= k
  <2> HIDE DEF on
  <2> QED
    BY <1>2, Least
<1>4. PICK t \in right : t[3] = Min(on)
  BY <1>3
<1>5. t = <<l, TRUE, Min(on)>>
  <2>1. t[2] = TRUE
    BY <1>1, <1>4
  <2> QED
    BY <1>1, <1>4, <2>1
<1>6. Min(on) \in Dates /\ First(Min(on))
  BY <1>3, <1>4, <1>5 DEF Dates
<1>7. FirstSolved(l) = CHOOSE d \in Dates : First(d)
  BY DEF FirstSolved, Dates
<1> HIDE DEF First
<1>8. FirstSolved(l) \in Dates
  BY <1>6, <1>7
<1> QED
  BY <1>8, AttemptsAre

\* The weeks that are told have no more labs than are solved.
IsPace(weeks) ==
  \E D : IsFiniteSet(D) /\ weeks \in [D -> Nat] /\ Tally(weeks) <= Cardinality(Solved)

\* The weeks share out labs that are solved.
LEMMA WeeksAreRead ==
  ASSUME LogInv
  PROVE  IsPace(WeeklyPace)
<1> DEFINE weekOf == [l \in Solved |-> FirstSolved(l) \div WeekDays]
           weeks == Descending(Range(weekOf))
           n == Cardinality(Range(weekOf))
           D == {j \in 1..Shown : j <= n}
           P == [w \in D |-> {l \in Solved : weekOf[l] = weeks[w]}]
           f == [w \in D |-> Cardinality({l \in Solved : weekOf[l] = weeks[w]})]
<1>1. WeeklyPace = f
  BY DEF WeeklyPace
<1>2. WeekDays \in Nat \ {0} /\ Shown \in Nat
  BY OwnAssumption
<1>3. IsFiniteSet(Solved) /\ Cardinality(Solved) \in Nat
  BY AttemptsAre
<1>4. \A l \in Solved : weekOf[l] \in Nat
  BY <1>2, FirstIsADay
<1>5. weekOf \in Surjection(Solved, Range(weekOf))
  BY DEF Surjection, Range
<1>6. IsFiniteSet(Range(weekOf)) /\ Range(weekOf) \in SUBSET Nat
  <2>1. Range(weekOf) \in SUBSET Nat
    BY <1>4 DEF Range
  <2> HIDE DEF weekOf
  <2> QED
    BY <1>3, <1>5, <2>1, FS_Surjection
<1> HIDE DEF weekOf
<1>7. n \in Nat /\ \A w, j \in 1..n : w < j => weeks[w] > weeks[j]
  BY <1>6, Falls
<1>8. \A w \in 1..n : weeks[w] \in Nat
  BY <1>6, Falls
<1> HIDE DEF weeks, n
<1>9. IsFiniteSet(D)
  <2>1. IsFiniteSet(1..Shown)
    BY <1>2, FS_Interval
  <2> QED
    BY <2>1, FS_Subset
<1>10. \A w, j \in D : w # j => weeks[w] # weeks[j]
  BY <1>2, <1>7, <1>8
<1>11. P \in [D -> SUBSET Solved] /\ \A w, j \in D : w # j => P[w] \cap P[j] = {}
  BY <1>10
<1>12. \A w \in D : f[w] = Cardinality(P[w])
  OBVIOUS
<1>13. f \in [D -> Nat]
  <2>1. \A w \in D : Cardinality({l \in Solved : weekOf[l] = weeks[w]}) \in Nat
    BY <1>3, FS_Subset, FS_CardinalityType
  <2> QED
    BY <2>1
<1> HIDE DEF P, f, D
<1>14. Tally(f) <= Cardinality(Solved)
  BY <1>3, <1>9, <1>11, <1>12, <1>13, TallyOfParts
<1> QED
  BY <1>1, <1>9, <1>13, <1>14 DEF IsPace

\* The lessons together have solved what is solved.
LEMMA RowsAddUp ==
  ASSUME NEW S \in SUBSET LabSet
  PROVE  Tally([n \in Lessons |-> PerLesson(S)[n].solved]) = Cardinality(S)
<1> DEFINE f == [n \in Lessons |-> PerLesson(S)[n].solved]
           P == [n \in Lessons |-> {l \in S : LessonOf[l] = n}]
<1>1. IsFiniteSet(S) /\ IsFiniteSet(Lessons)
  BY LabsAreFinite, FS_Subset
<1>2. P \in [Lessons -> SUBSET S] /\ \A w, j \in Lessons : w # j => P[w] \cap P[j] = {}
  OBVIOUS
<1>3. \A n \in Lessons : f[n] = Cardinality(P[n])
  BY RowsTell
<1>4. f \in [Lessons -> Nat]
  <2>1. \A n \in Lessons : PerLesson(S)[n].solved \in Nat
    BY RowsTell, LabsAreFinite DEF IsTable
  <2> QED
    BY <2>1
<1>5. \A t \in S : \E n \in Lessons : t \in P[n]
  BY LabsAreFinite
<1> HIDE DEF P, f
<1>6. Tally(f) = Cardinality(S)
  BY <1>1, <1>2, <1>3, <1>4, <1>5, TallyOfParts
<1> QED
  BY <1>6 DEF f

\* The three ways to say that everything is solved.
LEMMA AllIsAll ==
  ASSUME NEW S \in SUBSET LabSet
  PROVE  /\ Cardinality(S) = Len(Labs) <=> S = LabSet
         /\ Completed(PerLesson(S)) = Cardinality(Lessons) <=> S = LabSet
<1>1. Cardinality(S) = Len(Labs) <=> S = LabSet
  BY LabsAreFinite, FS_Subset
<1>2. /\ Completed(PerLesson(S)) = Cardinality(ClosedLessons(PerLesson(S)))
      /\ ClosedLessons(PerLesson(S)) = {n \in Lessons : LabsOf(n) \subseteq S}
  BY RowsTell, CompletedAre
<1>3. ClosedLessons(PerLesson(S)) = Lessons <=> S = LabSet
  BY <1>2, LabsAreFinite DEF LabsOf
<1>4. ClosedLessons(PerLesson(S)) \in SUBSET Lessons
  BY DEF ClosedLessons
<1>5. Cardinality(ClosedLessons(PerLesson(S))) = Cardinality(Lessons) <=> ClosedLessons(PerLesson(S)) = Lessons
  BY <1>4, LabsAreFinite, FS_Subset
<1> QED
  BY <1>1, <1>2, <1>3, <1>5

\* What is proposed is not solved, and nothing is proposed when everything is.
LEMMA NextIs ==
  ASSUME LogInv, NEW open
  PROVE  /\ NextStep(open)[1] = "lab" => NextStep(open)[2] \notin Solved
         /\ NextStep(open)[1] = "complete" <=> Solved = LabSet
<1> DEFINE toSolve == {w \in DOMAIN Labs : Labs[w] \notin Solved}
           free == {w \in toSolve : LessonOf[Labs[w]] \in open}
<1>1. NextStep(open) = IF free # {} THEN <<"lab", Labs[Min(free)]>>
                       ELSE IF toSolve # {} THEN <<"locked", LessonOf[Labs[Min(toSolve)]]>>
                       ELSE <<"complete">>
  BY DEF NextStep
<1>2. DOMAIN Labs = 1..Len(Labs) /\ Len(Labs) \in Nat
  BY LabsAreFinite
<1>3. free # {} => Min(free) \in free
  <2>1. free \in SUBSET Nat
    BY <1>2
  <2> HIDE DEF free
  <2> QED
    BY <2>1, Least
<1>4. toSolve = {} <=> Solved = LabSet
  BY LabsAreFinite, AttemptsAre
<1>5. CASE free # {}
  <2>1. Labs[Min(free)] \notin Solved /\ toSolve # {}
    BY <1>3, <1>5
  <2> HIDE DEF free, toSolve
  <2> QED
    BY <1>1, <1>4, <1>5, <2>1
<1>6. CASE free = {}
  <2> HIDE DEF free, toSolve
  <2> QED
    BY <1>1, <1>4, <1>6
<1> QED
  BY <1>5, <1>6

-----------------------------------------------------------------------------
(* What has been read for the question that is being answered. *)

Fields == {"at", "tool", "began", "crossed", "todo", "days", "weeks", "rows", "gap", "history"}

\* What was read is of some moment since the question, and of now if nothing crossed it.
Has(q, what) == what \in Reading(q.tool) \ q.todo
TableRead(q) ==
  \E S \in SUBSET LabSet :
    /\ q.began \subseteq S /\ S \subseteq Solved /\ q.rows = PerLesson(S)
    /\ ~ q.crossed => S = Solved
Heard(q) ==
  /\ q.tool \in Tools /\ q.crossed \in BOOLEAN /\ q.began \subseteq Solved
  /\ q.at = "compute" => q.todo = {}
  /\ Has(q, "days") => Falling(q.days) /\ (~ q.crossed => q.days = ActiveDays)
  /\ Has(q, "weeks") => IsPace(q.weeks)
  /\ Has(q, "rows") => TableRead(q)
  /\ Has(q, "gap") => (~ q.crossed => q.gap = Gap)

Asking == question.at \in {"reads", "compute"}
\* A question holds what it has heard of the attempts.
AskInv ==
  /\ question.at \in {"none", "reads", "compute", "said"}
  /\ Asking => DOMAIN question = Fields /\ Heard(question)

OwnInv == LogInv /\ AskInv /\ OwnToolsTell

\* No question has been asked.
LEMMA OwnStarts == OwnInit => OwnInv
<1> SUFFICES ASSUME OwnInit  PROVE OwnInv
  OBVIOUS
<1>1. question.at = "none"
  BY DEF OwnInit, NoQuestion
<1>2. LogInv
  BY FS_EmptySet DEF OwnInit, LogInv
<1>3. OwnToolsTell
  BY <1>1 DEF OwnToolsTell, StreakIsTheRun, MissingIsTheRest, CoachIsCoherent, Replied
<1> QED
  BY <1>1, <1>2, <1>3 DEF OwnInv, AskInv, Asking

\* An answer stays as it was given.
LEMMA AnswerStays ==
  ASSUME OwnInv, question' = question
  PROVE  OwnToolsTell'
BY DEF OwnInv, OwnToolsTell, StreakIsTheRun, MissingIsTheRest, CoachIsCoherent, Replied

\* What was read is still so after an attempt or a midnight, which cross the question.
LEMMA StillHeard ==
  ASSUME OwnInv, Crossed, Solved \subseteq Solved', LogInv'
  PROVE  AskInv' /\ OwnToolsTell'
<1>1. CASE Asking
  <2>1. DOMAIN question = Fields /\ Heard(question) /\ question.at \in {"reads", "compute"}
    BY <1>1 DEF OwnInv, AskInv, Asking
  <2>2. question' = [question EXCEPT !.crossed = TRUE]
    BY <1>1 DEF Crossed, Asking
  <2>3. /\ DOMAIN question' = Fields /\ question'.crossed = TRUE
        /\ question'.at = question.at /\ question'.tool = question.tool
        /\ question'.began = question.began /\ question'.todo = question.todo
        /\ question'.days = question.days /\ question'.weeks = question.weeks
        /\ question'.rows = question.rows
    BY <2>1, <2>2 DEF Fields
  <2>4. Cardinality(Solved) <= Cardinality(Solved')
    <3>1. IsFiniteSet(Solved') /\ IsFiniteSet(Solved)
      <4>1. Solved' \in SUBSET LabSet
        <5>1. \A t \in log' : t[1] \in LabSet
          BY DEF LogInv
        <5> QED
          BY <5>1 DEF Solved
      <4>2. Solved \in SUBSET LabSet
        BY <4>1
      <4> QED
        BY <4>1, <4>2, LabsAreFinite, FS_Subset
    <3> QED
      BY <3>1, FS_Subset
  <2>5. /\ Has(question', "days") <=> Has(question, "days")
        /\ Has(question', "weeks") <=> Has(question, "weeks")
        /\ Has(question', "rows") <=> Has(question, "rows")
    BY <2>3 DEF Has
  <2>6. ASSUME IsPace(question.weeks)  PROVE IsPace(question.weeks)'
    <3>1. PICK D : IsFiniteSet(D) /\ question.weeks \in [D -> Nat]
                   /\ Tally(question.weeks) <= Cardinality(Solved)
      BY <2>6 DEF IsPace
    <3>2. Tally(question.weeks) \in Nat
      BY <3>1, PairsAreFinite
    <3>3. Cardinality(Solved) \in Nat /\ Cardinality(Solved') \in Nat
      <4>1. Solved' \in SUBSET LabSet
        <5>1. \A t \in log' : t[1] \in LabSet
          BY DEF LogInv
        <5> QED
          BY <5>1 DEF Solved
      <4>2. Solved \in SUBSET LabSet
        BY <4>1
      <4> QED
        BY <4>1, <4>2, LabsAreFinite, FS_Subset, FS_CardinalityType
    <3>4. Tally(question.weeks) <= Cardinality(Solved')
      BY <2>4, <3>1, <3>2, <3>3
    <3> QED
      BY <2>3, <3>1, <3>4 DEF IsPace
  <2>7. TableRead(question) => TableRead(question)'
    BY <2>3 DEF TableRead
  <2>8. Heard(question)'
    BY <2>1, <2>3, <2>5, <2>6, <2>7 DEF Heard, Has
  <2>9. AskInv'
    BY <2>1, <2>3, <2>8 DEF AskInv
  <2>10. OwnToolsTell'
    <3>1. ~ Replied("streak")' /\ ~ Replied("coach")' /\ ~ Replied("achievements")' /\ ~ Replied("pace")'
      BY <2>1, <2>3 DEF Replied
    <3> QED
      BY <3>1 DEF OwnToolsTell, StreakIsTheRun, MissingIsTheRest, CoachIsCoherent
  <2> QED
    BY <2>9, <2>10
<1>2. CASE ~ Asking
  <2>1. question' = question
    BY <1>2 DEF Crossed, Asking
  <2>2. AskInv'
    BY <1>2, <2>1 DEF OwnInv, AskInv, Asking
  <2> QED
    BY <2>1, <2>2, AnswerStays
<1> QED
  BY <1>1, <1>2

\* An attempt crosses the question.
LEMMA TriesKeep ==
  ASSUME OwnInv, NEW l \in LabSet, NEW right \in BOOLEAN, TriesLab(l, right)
  PROVE  OwnInv'
<1>1. log' = log \cup {<<l, right, day>>} /\ day' = day /\ evening' = evening /\ Crossed
  BY DEF TriesLab
<1>2. LogInv'
  <2>1. IsFiniteSet(log')
    BY <1>1, FS_AddElement DEF OwnInv, LogInv
  <2>2. <<l, right, day>> \in LabSet \X BOOLEAN \X (0..day)
    BY DEF OwnInv, LogInv
  <2> QED
    BY <1>1, <2>1, <2>2 DEF OwnInv, LogInv
<1>3. Solved \subseteq Solved'
  BY <1>1 DEF Solved
<1> QED
  BY <1>1, <1>2, <1>3, StillHeard DEF OwnInv

\* So does midnight.
LEMMA ClockKeeps ==
  ASSUME OwnInv, Clock
  PROVE  OwnInv'
<1>1. log' = log /\ Crossed /\ day' \in {day, day + 1} /\ evening' \in BOOLEAN
  BY DEF Clock, OwnInv, LogInv
<1>2. LogInv'
  <2>1. day' \in Nat /\ 0..day \subseteq 0..day'
    BY <1>1 DEF OwnInv, LogInv
  <2>2. \A t \in log : t \in LabSet \X BOOLEAN \X (0..day')
    BY <2>1 DEF OwnInv, LogInv
  <2> QED
    BY <1>1, <2>1, <2>2 DEF OwnInv, LogInv
<1>3. Solved' = Solved
  BY <1>1 DEF Solved
<1> QED
  BY <1>1, <1>2, <1>3, StillHeard DEF OwnInv

\* A question starts having read nothing.
LEMMA PosedKeeps ==
  ASSUME OwnInv, NEW tool \in Tools, Posed(tool)
  PROVE  OwnInv'
<1>1. /\ day' = day /\ evening' = evening /\ log' = log
      /\ DOMAIN question' = Fields /\ question'.at = "reads" /\ question'.tool = tool
      /\ question'.began = Solved /\ question'.crossed = FALSE
      /\ question'.todo = Reading(tool)
  BY DEF Posed, Fields
<1>2. LogInv' /\ Solved' = Solved
  BY <1>1 DEF OwnInv, LogInv, Solved
<1>3. \A what : ~ Has(question', what)
  BY <1>1 DEF Has
<1>4. Heard(question)'
  BY <1>1, <1>2, <1>3 DEF Heard, Has
<1>5. ~ Replied("streak")' /\ ~ Replied("coach")' /\ ~ Replied("achievements")' /\ ~ Replied("pace")'
  BY <1>1 DEF Replied
<1>6. OwnToolsTell'
  BY <1>5 DEF OwnToolsTell, StreakIsTheRun, MissingIsTheRest, CoachIsCoherent
<1> QED
  BY <1>1, <1>2, <1>4, <1>6 DEF OwnInv, AskInv

\* Each read is of what there is now.
LEMMA ReadsKeep ==
  ASSUME OwnInv, NEW what \in {"rows", "days", "gap", "weeks", "history"}, Reads(what)
  PROVE  OwnInv'
<1>0. /\ question.at = "reads" /\ what \in question.todo
      /\ day' = day /\ evening' = evening /\ log' = log
  BY DEF Reads
<1>1. DOMAIN question = Fields /\ Heard(question)
  BY <1>0 DEF OwnInv, AskInv, Asking
<1>2. /\ DOMAIN question' = Fields /\ question'.tool = question.tool
      /\ question'.began = question.began /\ question'.crossed = question.crossed
      /\ question'.todo = question.todo \ {what}
      /\ question'.at = IF question.todo = {what} THEN "compute" ELSE "reads"
      /\ question'.days = IF what = "days" THEN ActiveDays ELSE question.days
      /\ question'.weeks = IF what = "weeks" THEN WeeklyPace ELSE question.weeks
      /\ question'.rows = IF what = "rows" THEN PerLesson(Solved) ELSE question.rows
      /\ question'.gap = IF what = "gap" THEN Gap ELSE question.gap
  BY <1>1 DEF Reads, Fields
<1>3. /\ LogInv' /\ Solved' = Solved /\ ActiveDays' = ActiveDays /\ Gap' = Gap
      /\ LogInv
  BY <1>0 DEF OwnInv, LogInv, Solved, ActiveDays, Gap
<1>4. question'.at = "compute" => question'.todo = {}
  BY <1>2
<1>5. \A any : Has(question', any) => any = what \/ Has(question, any)
  BY <1>2 DEF Has
<1>6. Has(question', "days") =>
        Falling(question'.days) /\ (~ question'.crossed => question'.days = ActiveDays)
  <2>1. Falling(ActiveDays)
    BY <1>3, DaysAreRead
  <2>2. CASE what = "days"
    BY <1>2, <2>1, <2>2
  <2>3. CASE what # "days"
    BY <1>1, <1>2, <1>5, <2>3 DEF Heard
  <2> QED
    BY <2>2, <2>3
<1>7. Has(question', "weeks") => IsPace(question'.weeks)
  <2>1. IsPace(WeeklyPace)
    BY <1>3, WeeksAreRead
  <2>2. CASE what = "weeks"
    BY <1>2, <2>1, <2>2
  <2>3. CASE what # "weeks"
    BY <1>1, <1>2, <1>5, <2>3 DEF Heard
  <2> QED
    BY <2>2, <2>3
<1>8. Has(question', "rows") => TableRead(question')
  <2>1. Solved \in SUBSET LabSet
    BY <1>3, AttemptsAre
  <2>2. CASE what = "rows"
    BY <1>1, <1>2, <2>1, <2>2 DEF TableRead, Heard
  <2>3. CASE what # "rows"
    BY <1>1, <1>2, <1>5, <2>3 DEF Heard, TableRead
  <2> QED
    BY <2>2, <2>3
<1>9. Has(question', "gap") => (~ question'.crossed => question'.gap = Gap)
  <2>1. CASE what = "gap"
    BY <1>2, <2>1
  <2>2. CASE what # "gap"
    BY <1>1, <1>2, <1>5, <2>2 DEF Heard
  <2> QED
    BY <2>1, <2>2
<1>10. Heard(question)'
  <2>1. IsPace(question'.weeks) => IsPace(question.weeks)'
    BY <1>3 DEF IsPace
  <2>2. TableRead(question') => TableRead(question)'
    BY <1>3 DEF TableRead
  <2>3. \A any : Has(question', any) <=> Has(question, any)'
    BY DEF Has
  <2> QED
    BY <1>1, <1>2, <1>3, <1>4, <1>6, <1>7, <1>8, <1>9, <2>1, <2>2, <2>3 DEF Heard
<1>11. AskInv'
  BY <1>2, <1>10 DEF AskInv
<1>12. OwnToolsTell'
  <2>1. ~ Replied("streak")' /\ ~ Replied("coach")' /\ ~ Replied("achievements")' /\ ~ Replied("pace")'
    BY <1>2 DEF Replied
  <2> QED
    BY <2>1 DEF OwnToolsTell, StreakIsTheRun, MissingIsTheRest, CoachIsCoherent
<1> QED
  BY <1>3, <1>11, <1>12 DEF OwnInv

\* Of a tool that has read all it reads, the answer and what is known of it.
LEMMA AnswerGiven ==
  ASSUME OwnInv, NEW tool \in Tools, Computes(tool), NEW reply, Tells(reply)
  PROVE  /\ LogInv /\ LogInv' /\ AskInv' /\ Heard(question) /\ question.tool = tool
         /\ \A what \in Reading(tool) : Has(question, what)
         /\ question'.at = "said" /\ question'.tool = tool /\ question'.answer = reply
         /\ question'.began = question.began /\ question'.crossed = question.crossed
         /\ question'.day = day /\ question'.evening = evening
         /\ Cardinality(question.began) \in Nat /\ Cardinality(question.began) <= Cardinality(Solved)
<1>1. /\ question.at = "compute" /\ question.tool = tool
      /\ day' = day /\ evening' = evening /\ log' = log
      /\ question'.at = "said" /\ question'.tool = question.tool /\ question'.answer = reply
      /\ question'.began = question.began /\ question'.crossed = question.crossed
      /\ question'.day = day /\ question'.evening = evening
  BY DEF Computes, Tells
<1>2. LogInv /\ LogInv' /\ Heard(question)
  BY <1>1 DEF OwnInv, LogInv, AskInv, Asking
<1>3. \A what \in Reading(tool) : Has(question, what)
  BY <1>1, <1>2 DEF Heard, Has
<1>4. AskInv'
  BY <1>1 DEF AskInv, Asking
<1>5. question.began \in SUBSET Solved /\ IsFiniteSet(Solved)
  BY <1>2, AttemptsAre DEF Heard
<1>6. Cardinality(question.began) \in Nat /\ Cardinality(question.began) <= Cardinality(Solved)
  BY <1>5, FS_Subset, FS_CardinalityType
<1> QED
  BY <1>1, <1>2, <1>3, <1>4, <1>6

\* What is said of the streak is the run of the days that were read.
LEMMA StreakTold ==
  ASSUME LogInv, NEW days, Falling(days)
  PROVE  LET a == ComputeStreak(days, UtcDay)
         IN  /\ a.best = Longest(Stretches(days)) /\ a.active = Len(days)
             /\ a.live = IF evening /\ days # <<>> /\ days[1] < day
                         THEN 0 ELSE Longest(Reaching(days, day))
             /\ ~ evening => (a.live > 0 <=> days # <<>> /\ day - days[1] <= 1)
<1>1. day \in Nat /\ evening \in BOOLEAN
  BY DEF LogInv
<1>2. UtcDay = IF evening THEN day + 1 ELSE day
  BY DEF UtcDay
<1> QED
  BY <1>1, <1>2, StreakRight

\* mi_racha
LEMMA SaysStreakKeeps == ASSUME OwnInv, SaysStreak PROVE OwnInv'
<1> DEFINE reply == [days |-> question.days, streak |-> ComputeStreak(question.days, UtcDay)]
<1>1. "streak" \in Tools /\ Computes("streak") /\ Tells(reply) /\ "days" \in Reading("streak")
  BY DEF SaysStreak, Tools, Reading
<1>2. reply.days = question.days /\ reply.streak = ComputeStreak(question.days, UtcDay)
  OBVIOUS
<1> HIDE DEF reply
<1>3. /\ LogInv /\ LogInv' /\ AskInv' /\ Heard(question)
      /\ \A what \in Reading("streak") : Has(question, what)
      /\ question'.at = "said" /\ question'.tool = "streak" /\ question'.answer = reply
      /\ question'.day = day /\ question'.evening = evening
  BY <1>1, AnswerGiven
<1>4. Falling(question.days)
  BY <1>1, <1>3 DEF Heard
<1>5. LET a == ComputeStreak(question.days, UtcDay)
      IN  /\ a.best = Longest(Stretches(question.days)) /\ a.active = Len(question.days)
          /\ a.live = IF evening /\ question.days # <<>> /\ question.days[1] < day
                      THEN 0 ELSE Longest(Reaching(question.days, day))
  BY <1>3, <1>4, StreakTold
<1>6. StreakIsTheRun'
  BY <1>2, <1>3, <1>5 DEF StreakIsTheRun
<1>7. ~ Replied("achievements")' /\ ~ Replied("pace")' /\ ~ Replied("coach")'
  BY <1>3 DEF Replied
<1> QED
  BY <1>3, <1>6, <1>7 DEF OwnInv, OwnToolsTell, MissingIsTheRest, CoachIsCoherent

\* mi_ritmo: the count of what is solved is read last, so it covers the weeks.
LEMMA SaysPaceKeeps == ASSUME OwnInv, SaysPace PROVE OwnInv'
<1> DEFINE reply == Pace(question.weeks, Cardinality(Solved))
<1>1. "pace" \in Tools /\ Computes("pace") /\ Tells(reply) /\ "weeks" \in Reading("pace")
  BY DEF SaysPace, Tools, Reading
<1>2. reply.done = Cardinality(Solved) /\ reply.weeks = question.weeks
  BY DEF Pace
<1> HIDE DEF reply
<1>3. /\ LogInv /\ LogInv' /\ AskInv' /\ Heard(question)
      /\ \A what \in Reading("pace") : Has(question, what)
      /\ question'.at = "said" /\ question'.tool = "pace" /\ question'.answer = reply
      /\ question'.began = question.began
      /\ Cardinality(question.began) \in Nat /\ Cardinality(question.began) <= Cardinality(Solved)
  BY <1>1, AnswerGiven
<1>4. Tally(question.weeks) <= Cardinality(Solved)
  BY <1>1, <1>3 DEF Heard, IsPace
<1>5. Cardinality(Solved) \in Nat
  BY <1>3, AttemptsAre
<1>6. ~ Replied("achievements")' /\ ~ Replied("streak")' /\ ~ Replied("coach")'
  BY <1>3 DEF Replied
<1>7. CoachIsCoherent'
  BY <1>2, <1>3, <1>4, <1>5, <1>6 DEF CoachIsCoherent
<1> QED
  BY <1>3, <1>6, <1>7 DEF OwnInv, OwnToolsTell, MissingIsTheRest, StreakIsTheRun

\* logros_faltantes
LEMMA SaysAchievementsKeeps == ASSUME OwnInv, SaysAchievements PROVE OwnInv'
<1> DEFINE reply == [rows |-> question.rows, missing |-> Missing(question.rows),
                      rank |-> Rank(question.rows)]
<1>1. "achievements" \in Tools /\ Computes("achievements") /\ Tells(reply)
      /\ "rows" \in Reading("achievements")
  BY DEF SaysAchievements, Tools, Reading
<1>2. reply.rows = question.rows /\ reply.missing = Missing(question.rows)
  OBVIOUS
<1> HIDE DEF reply
<1>3. /\ LogInv' /\ AskInv' /\ Heard(question)
      /\ \A what \in Reading("achievements") : Has(question, what)
      /\ question'.at = "said" /\ question'.tool = "achievements" /\ question'.answer = reply
  BY <1>1, AnswerGiven
<1>4. IsTable(question.rows)
  BY <1>1, <1>3, RowsTell DEF Heard, TableRead
<1>5. \A code \in Codes :
        IF Earns(question.rows, code) THEN \A m \in Missing(question.rows) : m.code # code
        ELSE [code |-> code, lacks |-> LeastCost(question.rows, code)] \in Missing(question.rows)
  BY <1>4, MissingRight
<1>6. MissingIsTheRest'
  BY <1>2, <1>3, <1>5 DEF MissingIsTheRest
<1>7. ~ Replied("streak")' /\ ~ Replied("pace")' /\ ~ Replied("coach")'
  BY <1>3 DEF Replied
<1> QED
  BY <1>3, <1>6, <1>7 DEF OwnInv, OwnToolsTell, StreakIsTheRun, CoachIsCoherent

\* mi_historial
LEMMA SaysHistoryKeeps == ASSUME OwnInv, SaysHistory PROVE OwnInv'
<1> DEFINE reply == [tries |-> Cardinality(question.history),
                      right |-> Cardinality({t \in question.history : t[2]})]
<1>1. "history" \in Tools /\ Computes("history") /\ Tells(reply)
  BY DEF SaysHistory, Tools
<1> HIDE DEF reply
<1>2. LogInv' /\ AskInv' /\ question'.tool = "history"
  BY <1>1, AnswerGiven
<1>3. /\ ~ Replied("streak")' /\ ~ Replied("pace")' /\ ~ Replied("coach")'
      /\ ~ Replied("achievements")'
  BY <1>2 DEF Replied
<1> QED
  BY <1>2, <1>3
     DEF OwnInv, OwnToolsTell, StreakIsTheRun, MissingIsTheRest, CoachIsCoherent

\* coachState: the next step is read last, so it proposes nothing that the rows have.
LEMMA SaysCoachKeeps == ASSUME OwnInv, SaysCoach PROVE OwnInv'
<1> DEFINE reply ==
      [days |-> question.days, streak |-> ComputeStreak(question.days, UtcDay),
       gap |-> question.gap, solved |-> Tally([n \in Lessons |-> question.rows[n].solved]),
       closed |-> Completed(question.rows), next |-> NextStep(Open)]
<1>1. "coach" \in Tools /\ Computes("coach") /\ Tells(reply)
      /\ "days" \in Reading("coach") /\ "rows" \in Reading("coach") /\ "gap" \in Reading("coach")
  BY DEF SaysCoach, Tools, Reading
<1>2. /\ reply.days = question.days /\ reply.streak = ComputeStreak(question.days, UtcDay)
      /\ reply.gap = question.gap /\ reply.next = NextStep(Open)
      /\ reply.solved = Tally([n \in Lessons |-> question.rows[n].solved])
      /\ reply.closed = Completed(question.rows)
  OBVIOUS
<1> HIDE DEF reply
<1>3. /\ LogInv /\ LogInv' /\ AskInv' /\ Heard(question)
      /\ \A what \in Reading("coach") : Has(question, what)
      /\ question'.at = "said" /\ question'.tool = "coach" /\ question'.answer = reply
      /\ question'.began = question.began /\ question'.crossed = question.crossed
      /\ question'.day = day /\ question'.evening = evening
      /\ Cardinality(question.began) \in Nat
  BY <1>1, AnswerGiven
<1>4. Falling(question.days) /\ (~ question.crossed => question.days = ActiveDays /\ question.gap = Gap)
  BY <1>1, <1>3 DEF Heard
<1>5. PICK S \in SUBSET LabSet :
        /\ question.began \subseteq S /\ S \subseteq Solved /\ question.rows = PerLesson(S)
        /\ ~ question.crossed => S = Solved
  BY <1>1, <1>3 DEF Heard, TableRead
<1>6. LET a == ComputeStreak(question.days, UtcDay)
      IN  /\ a.best = Longest(Stretches(question.days)) /\ a.active = Len(question.days)
          /\ a.live = IF evening /\ question.days # <<>> /\ question.days[1] < day
                      THEN 0 ELSE Longest(Reaching(question.days, day))
          /\ ~ evening => (a.live > 0 <=> question.days # <<>> /\ day - question.days[1] <= 1)
  BY <1>3, <1>4, StreakTold
<1>7. StreakIsTheRun'
  BY <1>2, <1>3, <1>6 DEF StreakIsTheRun
<1>8. reply.solved = Cardinality(S) /\ Cardinality(question.began) <= Cardinality(S)
      /\ Cardinality(S) \in Nat
  <2>1. IsFiniteSet(S)
    BY LabsAreFinite, FS_Subset
  <2>2. Cardinality(question.began) <= Cardinality(S) /\ Cardinality(S) \in Nat
    BY <1>5, <2>1, FS_Subset, FS_CardinalityType
  <2>3. reply.solved = Cardinality(S)
    BY <1>2, <1>5, RowsAddUp
  <2> QED
    BY <2>2, <2>3
<1>9. reply.next[1] = "lab" => reply.next[2] \notin question.began
  BY <1>2, <1>3, <1>5, NextIs
<1>10. ASSUME ~ question.crossed
       PROVE  /\ reply.gap = -1 <=> reply.days = <<>>
              /\ ~ evening => (reply.streak.live > 0 <=> reply.gap \in {0, 1})
              /\ reply.next[1] = "complete" <=> reply.solved = Len(Labs)
              /\ reply.closed = Cardinality(Lessons) <=> reply.next[1] = "complete"
  <2>1. question.days = ActiveDays /\ question.gap = Gap /\ S = Solved
    BY <1>4, <1>5, <1>10
  <2>2. /\ ActiveDays # <<>> => ActiveDays[1] \in Nat /\ ActiveDays[1] <= day
        /\ Gap = IF ActiveDays = <<>> THEN -1 ELSE day - ActiveDays[1]
    BY <1>3, DaysAreRead
  <2>3. day \in Nat
    BY <1>3 DEF LogInv
  <2>4. reply.gap = -1 <=> reply.days = <<>>
    BY <1>2, <2>1, <2>2, <2>3
  <2>5. ~ evening => (reply.streak.live > 0 <=> reply.gap \in {0, 1})
    BY <1>2, <1>6, <2>1, <2>2, <2>3
  <2>6. /\ reply.next[1] = "complete" <=> Solved = LabSet
        /\ Cardinality(S) = Len(Labs) <=> S = LabSet
        /\ Completed(PerLesson(S)) = Cardinality(Lessons) <=> S = LabSet
    BY <1>2, <1>3, NextIs, AllIsAll
  <2> QED
    BY <1>2, <1>5, <1>8, <2>1, <2>4, <2>5, <2>6
<1>11. ~ Replied("pace")' /\ ~ Replied("achievements")'
  BY <1>3 DEF Replied
<1>12. CoachIsCoherent'
  BY <1>3, <1>8, <1>9, <1>10, <1>11 DEF CoachIsCoherent
<1> QED
  BY <1>3, <1>7, <1>11, <1>12 DEF OwnInv, OwnToolsTell, MissingIsTheRest

\* Every step of the question keeps the invariant.
LEMMA OwnSteps == OwnInv /\ [OwnNext]_ownVars => OwnInv'
<1> SUFFICES ASSUME OwnInv, [OwnNext]_ownVars  PROVE OwnInv'
  OBVIOUS
<1>1. CASE \E tool \in Tools : Posed(tool)
  BY <1>1, PosedKeeps
<1>2. CASE \E what \in {"rows", "days", "gap", "weeks", "history"} : Reads(what)
  BY <1>2, ReadsKeep
<1>3. CASE SaysStreak
  BY <1>3, SaysStreakKeeps
<1>4. CASE SaysPace
  BY <1>4, SaysPaceKeeps
<1>5. CASE SaysAchievements
  BY <1>5, SaysAchievementsKeeps
<1>6. CASE SaysHistory
  BY <1>6, SaysHistoryKeeps
<1>7. CASE SaysCoach
  BY <1>7, SaysCoachKeeps
<1>8. CASE \E l \in LabSet, right \in BOOLEAN : TriesLab(l, right)
  BY <1>8, TriesKeep
<1>9. CASE Clock
  BY <1>9, ClockKeeps
<1>10. CASE UNCHANGED ownVars
  <2>1. day' = day /\ evening' = evening /\ log' = log /\ question' = question
    BY <1>10 DEF ownVars
  <2>2. LogInv' /\ OwnToolsTell'
    BY <2>1, AnswerStays DEF OwnInv, LogInv
  <2>3. /\ Solved' = Solved /\ ActiveDays' = ActiveDays /\ Gap' = Gap
    BY <2>1 DEF Solved, ActiveDays, Gap
  <2>4. AskInv'
    BY <2>1, <2>3 DEF OwnInv, AskInv, Asking, Heard, Has, IsPace, TableRead
  <2> QED
    BY <2>2, <2>4 DEF OwnInv
<1> QED
  BY <1>1, <1>2, <1>3, <1>4, <1>5, <1>6, <1>7, <1>8, <1>9, <1>10 DEF OwnNext

\* For every course, zone and number of attempts: the streaks are the longest runs of days,
\* but for the evening hours; a missing achievement lacks the least that would earn it;
\* and the parts of an answer agree (tools/access.ts, tools/progress.ts, coach.ts).
THEOREM OwnToolsAlwaysTell == OwnSpec => []OwnToolsTell
<1>1. OwnInv => OwnToolsTell
  BY DEF OwnInv
<1> QED
  BY OwnStarts, OwnSteps, <1>1, PTL DEF OwnSpec
=============================================================================
