----------------------------- MODULE AgentTools -----------------------------
(***************************************************************************)
(* The tools the agent calls for one person (api/src/tools) and the bus     *)
(* that coordinates them (api/src/agent-bus.ts): a study queue, a stack of  *)
(* focuses and a memo, in the memory of the api process.  A run resolves    *)
(* what the person may open, asks the memo, reads the database between      *)
(* awaits, and leaves its effect on the bus.  Meanwhile the person buys, is *)
(* refunded and solves labs elsewhere, and other people's calls push the    *)
(* bus out.  What a tool answers is abstracted to the lessons whose content *)
(* it shows, the labs it names and the solved labs it counted.              *)
(***************************************************************************)
EXTENDS Naturals, Sequences, FiniteSets, SequencesExt

CONSTANTS
  Students,
  LabsInOrder,          \* the labs of the course, in course order
  LessonOf,      \* lab -> its lesson
  DraftLabs,        \* labs that are drafts
  FreeToAll,   \* lessons open without the purchase: 1 in the code
  AllLessons,
  For,           \* call slot -> the person it is for
  Asked,         \* call slot -> the tools it is used for, of ToolNames
  Active,        \* bound: the people whose rows change meanwhile
  Calls,         \* calls of the bridge that can be under way at once
  MaxSessions, QueueCap, StackCap, MemoCap,   \* 400, 32, 16 and 96 in the code
  MaxChanges     \* bound: purchases, refunds, attempts and failed reads

ToolNames == {"leccion_texto", "buscar_en_curso", "lab_ficha", "examen", "mis_intentos",
              "mis_errores", "mis_pendientes", "mi_acceso", "mi_progreso", "mi_siguiente_paso",
              "mi_panorama", "glosario", "plan_estudio", "cola_siguiente", "cola_encolar",
              "foco_apilar", "foco_volver"}
LabSet == Range(LabsInOrder)

ASSUME ToolsAssumption ==
  /\ LabsInOrder \in Seq(LabSet)
  /\ For \in [Calls -> Students] /\ Asked \in [Calls -> SUBSET ToolNames] /\ Active \subseteq Students
  /\ LessonOf \in [LabSet -> AllLessons] /\ DraftLabs \subseteq LabSet
  /\ FreeToAll \subseteq AllLessons
  /\ {MaxSessions, QueueCap, StackCap, MemoCap} \subseteq Nat \ {0}

VARIABLES
  unlocked, finished, attempted,  \* the person's rows: entitlement, solved labs, labs attempted
  recent,               \* the people who have a bus, from the least recently seen
  bus,                  \* person -> queue, stack and memo
  run,                 \* what each call is doing
  changes

toolVars == <<unlocked, finished, attempted, recent, bus, run, changes>>

EmptyBus == [queue |-> <<>>, stack |-> <<>>, memo |-> <<>>]
NoAnswer == [error |-> FALSE, shows |-> {}, searched |-> {}, labs |-> {}, solved |-> {}]
Error == [NoAnswer EXCEPT !.error = TRUE]
NoCall == [at |-> "idle", u |-> "nobody", tool |-> "none", arg |-> "none", open |-> {}, mine |-> FALSE,
           padlocks |-> {}, item |-> "none", began |-> {}, out |-> NoAnswer]

ToolsInit ==
  /\ unlocked \in [Students -> BOOLEAN]
  /\ finished = [u \in Students |-> {}] /\ attempted = [u \in Students |-> {}]
  /\ recent = <<>> /\ bus = [u \in Students |-> EmptyBus]
  /\ run = [c \in Calls |-> NoCall]
  /\ changes = 0

Change == changes < MaxChanges /\ changes' = changes + 1
-----------------------------------------------------------------------------
\* The registry

Publico == {"leccion_texto", "buscar_en_curso", "glosario"}
Paywalled == {"leccion_texto", "buscar_en_curso", "lab_ficha", "examen", "mis_intentos",
              "mis_errores", "cola_siguiente"}
Uncached == {"plan_estudio", "cola_siguiente", "cola_encolar", "foco_apilar", "foco_volver"}
\* Those that read the person's row before anything else.
ReadsMe == {"mis_pendientes", "mi_acceso", "mi_siguiente_paso", "mi_panorama", "plan_estudio"}

\* The values an argument of the tool takes.
Args(t) ==
  CASE t \in {"leccion_texto", "examen"} -> AllLessons
    [] t \in {"lab_ficha", "mis_intentos", "cola_encolar", "foco_apilar"} -> LabSet
    [] OTHER -> {"none"}

\* hasAccess, for every lesson.
OpenTo(u) == IF unlocked[u] THEN AllLessons ELSE FreeToAll

\* The bridge hands over who asks and nothing else: there is no turn.
NoTurn == "noTurn"
BridgeTurn(u) == NoTurn
-----------------------------------------------------------------------------
\* The bus

\* bus(): whoever has been silent for half an hour is dropped, and the least recently
\* seen while there are too many; then the person's own is found, or made.  `silent`
\* is how many have been.
Kept(silent) ==
  LET over == IF Len(recent) > MaxSessions THEN Len(recent) - MaxSessions ELSE 0
  IN  SubSeq(recent, (IF silent > over THEN silent ELSE over) + 1, Len(recent))
Seen(u, silent) == Append(SelectSeq(Kept(silent), LAMBDA v : v # u), u)
Found(silent) == [v \in Students |-> IF v \in Range(Kept(silent)) THEN bus[v] ELSE EmptyBus]
\* A call whose bus was dropped has lost its memo.
Keeping(u, silent) ==
  [c \in Calls |-> [run[c] EXCEPT !.mine = @ /\ run[c].u \in Range(Kept(silent))]]

\* enqueue: what is there already, and what does not fit, stays out.
Enqueued(q, l) == IF l \in Range(q) \/ Len(q) >= QueueCap THEN q ELSE Append(q, l)
EnqueuedAll(q, ls) ==
  LET put[i \in 0..Len(ls)] == IF i = 0 THEN q ELSE Enqueued(put[i - 1], ls[i])
  IN  put[Len(ls)]

\* push: repeating the top frame pushes nothing, and the bottom one falls off.
Pushed(s, f) ==
  IF s # <<>> /\ s[Len(s)] = f THEN s
  ELSE IF Len(s) >= StackCap THEN Append(Tail(s), f) ELSE Append(s, f)
Popped(s) == IF s = <<>> THEN s ELSE Front(s)

\* Public answers live ten minutes; those about the person within one turn.
Lives(t, turn) == t \in Publico \/ turn # NoTurn

\* Mutant: the memo forgets for whom the answer was fit.
KeyWithoutGate(t, a, open) == <<t, a, {}>>
\* memoKey and, behind the paywall, what is open to the person.
MemoKey(t, a, open) == <<t, a, IF t \in Paywalled THEN open ELSE {}>>

\* memo: the fresh entries that answer the call.
Hits(m, k) ==
  {i \in DOMAIN m : /\ m[i].key = MemoKey(k.tool, k.arg, k.open)
                    /\ Lives(k.tool, BridgeTurn(k.u))
                    /\ k.tool \in Publico \/ m[i].turn = BridgeTurn(k.u)}

\* A Map: a key it has keeps its place, and the first one in goes first.
Remember(m, t, a, open, out, turn) ==
  LET e == [key |-> MemoKey(t, a, open), out |-> out, turn |-> turn]
      at == {i \in DOMAIN m : m[i].key = e.key}
      n == IF at = {} THEN Append(m, e) ELSE [i \in DOMAIN m |-> IF i \in at THEN e ELSE m[i]]
  IN  IF out.error \/ ~Lives(t, turn) THEN m
      ELSE IF Len(n) > MemoCap THEN Tail(n) ELSE n
-----------------------------------------------------------------------------
\* What the tools answer, from the rows as they are when they are read

Unsolved(u) == LabSet \ finished[u]
Stuck(u) == attempted[u] \ finished[u]
LessonsOf(ls) == {LessonOf[l] : l \in ls}
\* The labs of an answer are told in course order.
InOrder(ls) == SelectSeq(LabsInOrder, LAMBDA l : l \in ls)
First(ls) == LabsInOrder[Min({i \in DOMAIN LabsInOrder : LabsInOrder[i] \in ls})]

LessonText(n, open) == IF n \in open THEN [NoAnswer EXCEPT !.shows = {n}] ELSE Error
\* Only what may be read is searched, and the answer says what was.
Search(open) == [NoAnswer EXCEPT !.shows = open, !.searched = open]
LabCard(u, l, open) ==
  IF LessonOf[l] \in open
  THEN [NoAnswer EXCEPT !.shows = {LessonOf[l]}, !.solved = finished[u] \cap {l}] ELSE Error
ExamPaper(gate, open) == IF gate \in open THEN [NoAnswer EXCEPT !.shows = {gate}] ELSE Error
AttemptsAt(u, l, open) == LabCard(u, l, open)
\* The attempts outlive the entitlement; what they were at does not show.
Mistakes(u, open) ==
  LET visible == {l \in Stuck(u) : LessonOf[l] \in open}
  IN  [NoAnswer EXCEPT !.shows = LessonsOf(visible), !.labs = visible]
Pending(u) == [NoAnswer EXCEPT !.labs = Unsolved(u)]
Progress(u) == [NoAnswer EXCEPT !.solved = finished[u]]
\* The first lab that the padlocks, read before, leave open.
Openable(u, padlocks) ==
  {l \in Unsolved(u) \ DraftLabs : LessonOf[l] \in padlocks}
NextStep(u, padlocks) ==
  LET ls == Openable(u, padlocks)
  IN  [NoAnswer EXCEPT !.labs = IF ls = {} THEN {} ELSE {First(ls)}]
PanoramaOf(u, padlocks) == [NextStep(u, padlocks) EXCEPT !.solved = finished[u]]
Plan(u, padlocks) == [NoAnswer EXCEPT !.labs = Openable(u, padlocks)]
\* The head of the queue, resolved.
Handed(u, l, open) == IF LessonOf[l] \in open THEN [LabCard(u, l, open) EXCEPT !.labs = {l}] ELSE Error

Answer(c) ==
  LET u == run[c].u  a == run[c].arg  open == run[c].open  locks == run[c].padlocks
  IN  CASE run[c].tool = "leccion_texto" -> LessonText(a, open)
        [] run[c].tool = "buscar_en_curso" -> Search(open)
        [] run[c].tool = "lab_ficha" -> LabCard(u, a, open)
        [] run[c].tool = "examen" -> ExamPaper(a, open)
        [] run[c].tool = "mis_intentos" -> AttemptsAt(u, a, open)
        [] run[c].tool = "mis_errores" -> Mistakes(u, open)
        [] run[c].tool = "mis_pendientes" -> Pending(u)
        [] run[c].tool = "mi_acceso" -> [NoAnswer EXCEPT !.searched = locks]
        [] run[c].tool = "mi_progreso" -> Progress(u)
        [] run[c].tool = "mi_siguiente_paso" -> NextStep(u, locks)
        [] run[c].tool = "mi_panorama" -> PanoramaOf(u, locks)
        [] run[c].tool = "plan_estudio" -> Plan(u, locks)
        [] run[c].tool = "cola_siguiente" -> Handed(u, run[c].item, open)
        [] OTHER -> NoAnswer

\* What an answer, new or remembered, does to the bus of its person.
Effect(b, u, t, a, out) ==
  CASE t = "leccion_texto" /\ ~out.error -> [b EXCEPT !.stack = Pushed(@, <<"leccion", a>>)]
    [] t = "lab_ficha" /\ ~out.error -> [b EXCEPT !.stack = Pushed(@, <<"lab", a>>)]
    [] t = "cola_siguiente" /\ ~out.error -> [b EXCEPT !.stack = Pushed(@, <<"lab", First(out.labs)>>)]
    [] t \in {"mi_siguiente_paso", "mis_errores", "plan_estudio"} ->
         [b EXCEPT !.queue = EnqueuedAll(@, InOrder(out.labs))]
    [] t = "mi_panorama" /\ ~out.error ->
         [b EXCEPT !.memo = Remember(Remember(@, "mi_progreso", "none", {},
            [out EXCEPT !.labs = {}], BridgeTurn(u)),
            "mi_siguiente_paso", "none", {}, [out EXCEPT !.solved = {}], BridgeTurn(u))]
    [] OTHER -> b
HasEffect(t) == t \in {"leccion_texto", "lab_ficha", "cola_siguiente", "mi_siguiente_paso",
                       "mis_errores", "plan_estudio", "mi_panorama"}
-----------------------------------------------------------------------------
\* The steps of a call

Goes(k, at) == [k EXCEPT !.at = at]
Ends(k, out) == [k EXCEPT !.at = IF HasEffect(k.tool) THEN "effect" ELSE "done", !.out = out]

\* After the gate: the memo answers, unless what it has is too old, or the tool is run.
Consults(k, m, old) ==
  LET hits == IF old THEN {} ELSE Hits(m, k)
  IN  IF k.tool \notin Uncached /\ hits # {} THEN Ends(k, m[CHOOSE i \in hits : TRUE].out)
      ELSE IF k.tool \in ReadsMe THEN Goes(k, "me")
      ELSE IF k.tool \in Uncached THEN Goes(k, "fn")
      ELSE Goes(k, "read")

\* run: whose it is comes from the session, and the arguments are the declared ones.
Begin(c, u, t, a, silent, old) ==
  /\ run[c].at \in {"idle", "done"} /\ silent <= Len(recent)
  /\ LET k == [NoCall EXCEPT !.u = u, !.tool = t, !.arg = a, !.mine = TRUE, !.began = finished[u]]
         b == Found(silent)
     IN  /\ recent' = Seen(u, silent) /\ bus' = b
         /\ run' = [Keeping(u, silent) EXCEPT ![c] =
              IF t \in Paywalled THEN Goes(k, "gate") ELSE Consults(k, b[u].memo, old)]
  /\ UNCHANGED <<unlocked, finished, attempted, changes>>

\* readableLessons, once for the run.
Gate(c, old) ==
  /\ run[c].at = "gate"
  /\ LET u == run[c].u
     IN  run' = [run EXCEPT ![c] =
           Consults([@ EXCEPT !.open = OpenTo(u)], IF @.mine THEN bus[u].memo ELSE <<>>, old)]
  /\ UNCHANGED <<unlocked, finished, attempted, recent, bus, changes>>

\* me(), and the padlocks that are computed from it.
Me(c) ==
  /\ run[c].at = "me"
  /\ run' = [run EXCEPT ![c].padlocks = OpenTo(run[c].u), ![c].at = "read"]
  /\ UNCHANGED <<unlocked, finished, attempted, recent, bus, changes>>

\* The tools that only move the queue or the stack, and cola_siguiente, which takes
\* the head before it reads what goes with it.
Coordinates(c, silent) ==
  LET k == run[c]  b == Found(silent)[k.u]
      moved == CASE k.tool = "cola_siguiente" /\ b.queue # <<>> -> [b EXCEPT !.queue = Tail(@)]
                 [] k.tool = "cola_encolar" -> [b EXCEPT !.queue = Enqueued(@, k.arg)]
                 [] k.tool = "foco_apilar" -> [b EXCEPT !.stack = Pushed(@, <<"lab", k.arg>>)]
                 [] k.tool = "foco_volver" -> [b EXCEPT !.stack = Popped(@)]
                 [] OTHER -> b
  IN  /\ k.at = "fn" /\ silent <= Len(recent)
      /\ recent' = Seen(k.u, silent) /\ bus' = [Found(silent) EXCEPT ![k.u] = moved]
      /\ run' = [Keeping(k.u, silent) EXCEPT ![c] =
           IF k.tool = "cola_siguiente" /\ b.queue # <<>>
           THEN [@ EXCEPT !.item = Head(b.queue), !.at = "read"] ELSE Goes(@, "done")]
      /\ UNCHANGED <<unlocked, finished, attempted, changes>>

\* The reads of the tool, taken at one moment, and the memo of what they gave.
ReadsRows(c) ==
  LET k == run[c]  out == Answer(c)
  IN  /\ k.at = "read"
      /\ run' = [run EXCEPT ![c] = IF out.error THEN [Goes(@, "done") EXCEPT !.out = out] ELSE Ends(@, out)]
      /\ bus' = IF k.mine /\ k.tool \notin Uncached
                THEN [bus EXCEPT ![k.u].memo =
                        Remember(@, k.tool, k.arg, k.open, out, BridgeTurn(k.u))]
                ELSE bus
      /\ UNCHANGED <<unlocked, finished, attempted, recent, changes>>

\* efecto, also over a remembered answer, takes the bus anew.
Effects(c, silent) ==
  LET k == run[c]
  IN  /\ k.at = "effect" /\ silent <= Len(recent)
      /\ recent' = Seen(k.u, silent)
      /\ bus' = [Found(silent) EXCEPT ![k.u] = Effect(@, k.u, k.tool, k.arg, k.out)]
      /\ run' = [Keeping(k.u, silent) EXCEPT ![c] = Goes(@, "done")]
      /\ UNCHANGED <<unlocked, finished, attempted, changes>>

\* A read fails: the run throws, and what left the queue is lost.
ToolFails(c) ==
  /\ run[c].at \in {"gate", "me", "read"} /\ Change
  /\ run' = [run EXCEPT ![c] = [Goes(@, "done") EXCEPT !.out = Error]]
  /\ UNCHANGED <<unlocked, finished, attempted, recent, bus>>

\* Meanwhile: a purchase or a refund, an attempt.
Pays(u) ==
  /\ Change /\ unlocked' = [unlocked EXCEPT ![u] = ~@]
  /\ UNCHANGED <<finished, attempted, recent, bus, run>>
Solves(u, l, right) ==
  /\ Change /\ LessonOf[l] \in OpenTo(u)
  /\ attempted' = [attempted EXCEPT ![u] = @ \cup {l}]
  /\ finished' = IF right THEN [finished EXCEPT ![u] = @ \cup {l}] ELSE finished
  /\ UNCHANGED <<unlocked, recent, bus, run>>

ToolsNext ==
  \/ \E c \in Calls, silent \in 0..Cardinality(Students) :
       \/ \E t \in Asked[c], old \in BOOLEAN : \E a \in Args(t) : Begin(c, For[c], t, a, silent, old)
       \/ Coordinates(c, silent) \/ Effects(c, silent)
  \/ \E c \in Calls : Me(c) \/ ReadsRows(c) \/ ToolFails(c) \/ \E old \in BOOLEAN : Gate(c, old)
  \/ \E u \in Active : Pays(u) \/ \E l \in LabSet, right \in BOOLEAN : Solves(u, l, right)

ToolsSpec == ToolsInit /\ [][ToolsNext]_toolVars
-----------------------------------------------------------------------------
\* What the gate let through is what it found open when this call asked, whether the
\* answer was read or remembered; and a search says it covered just that, so that
\* nothing bought since is still reported closed (tools/index.ts, the memo key).
ServedFitsTheGate ==
  \A c \in Calls : run[c].at = "done" /\ ~run[c].out.error =>
    /\ run[c].tool \in Paywalled => run[c].out.shows \subseteq run[c].open
    /\ run[c].tool = "buscar_en_curso" => run[c].out.searched = run[c].open

\* An answer about the person is never older than the question: what was solved in
\* another tab before it counts, and is not proposed again (agent-bus.ts, "stale
\* progress would be a lie").
OwnAnswersAreCurrent ==
  \A c \in Calls : run[c].at = "done" /\ ~run[c].out.error =>
    /\ run[c].tool \in {"mi_progreso", "mi_panorama"} => run[c].began \subseteq run[c].out.solved
    /\ run[c].tool \in {"mi_siguiente_paso", "mis_pendientes", "mis_errores", "plan_estudio"} =>
         run[c].out.labs \cap run[c].began = {}

\* What a tool of the agent serves is what was open when it asked, and what it says of
\* the person is not older than the question.
ToolsTell == ServedFitsTheGate /\ OwnAnswersAreCurrent
=============================================================================
