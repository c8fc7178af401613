------------------------------- MODULE PanelChat -------------------------------
(***************************************************************************)
(* The conversation of the assistant's panel (components/AiPanel.astro over   *)
(* web/src/lib/chat-client.ts).  The page keeps the turns it has seen and      *)
(* sends all of them with each question.  The key Enter asks even while the    *)
(* answer to another question, or the history, is still to come.               *)
(***************************************************************************)
EXTENDS Naturals, Sequences, SequencesExt

CONSTANTS
  Old,          \* turns the api has of this conversation: none or a question and its answer
  MaxAsks,      \* bound: questions asked
  MaxTime       \* bound: ticks

ASSUME PanelAssumption == Old \in Nat /\ MaxAsks \in Nat /\ MaxTime \in Nat

VARIABLES
  saludado,     \* whether the panel has greeted
  history,      \* the request for it: none, out, in
  historial,    \* the turns the page holds
  flights,      \* questions under way, each with the turns that went with it
  frenoHasta,   \* until when no question is sent
  hora, asks,
  truth,        \* ghost: what has been said and answered, in the order it was
  overlaps,     \* ghost: what was still to come when a question was asked
  astray        \* ghost: turns that went when a question failed, and were not that question

ghosts == <<truth, overlaps, astray>>
chatVars == <<saludado, history, historial, flights, frenoHasta, hora, asks, ghosts>>

Asked(n) == [role |-> "user", n |-> n]
AnswerTo(n) == [role |-> "assistant", n |-> n]
History == IF Old = 0 THEN <<>> ELSE <<Asked(0), AnswerTo(0)>>

ChatInit ==
  /\ saludado = FALSE /\ history = "none" /\ historial = <<>> /\ flights = {}
  /\ frenoHasta = 0 /\ hora = 0 /\ asks = 0 /\ truth = History
  /\ overlaps = {} /\ astray = {}

\* saludar, when the panel opens: it has greeted before the history is there.
Greets ==
  /\ ~saludado /\ saludado' = TRUE /\ history' = "out"
  /\ UNCHANGED <<historial, flights, frenoHasta, hora, asks, ghosts>>

\* cargarHistorial: its turns go behind those the page has by then; refused, there are none.
HistoryComes(ok) ==
  /\ history = "out" /\ history' = "in"
  /\ historial' = IF ok THEN historial \o History ELSE historial
  /\ truth' = IF ok THEN truth ELSE SubSeq(truth, Len(History) + 1, Len(truth))
  /\ UNCHANGED <<saludado, flights, frenoHasta, hora, asks, overlaps, astray>>

\* enviar, while no brake is on.
Sends ==
  /\ history # "none" /\ asks < MaxAsks /\ frenoHasta <= hora
  /\ asks' = asks + 1 /\ historial' = Append(historial, Asked(asks'))
  /\ flights' = flights \cup {[n |-> asks', mensajes |-> historial']}
  /\ truth' = Append(truth, Asked(asks'))
  /\ overlaps' = overlaps \cup {x \in {"question", "history"} :
                                   IF x = "question" THEN flights # {} ELSE history = "out"}
  /\ UNCHANGED <<saludado, history, frenoHasta, hora, astray>>

\* Its answer is added behind whatever the page has by then.
Replies(f) ==
  /\ f \in flights /\ flights' = flights \ {f}
  /\ historial' = Append(historial, AnswerTo(f.n)) /\ truth' = Append(truth, AnswerTo(f.n))
  /\ UNCHANGED <<saludado, history, frenoHasta, hora, asks, overlaps, astray>>

Without(turns, t) == RemoveAt(turns, CHOOSE k \in DOMAIN turns : turns[k] = t)

\* Mutant: what was not answered stays in the conversation.
KeepsQuestion == historial
DropsLast == IF historial = <<>> THEN <<>> ELSE Front(historial)
\* Refused or lost: the last turn the page has goes.
AskFails(f, wait) ==
  /\ f \in flights /\ flights' = flights \ {f}
  /\ historial' = DropsLast /\ frenoHasta' = IF wait > 0 THEN hora + wait ELSE frenoHasta
  /\ truth' = Without(truth, Asked(f.n))
  /\ astray' = astray \cup ({Last(historial)} \ {Asked(f.n)})
  /\ UNCHANGED <<saludado, history, hora, asks, overlaps>>

Passes ==
  /\ hora < MaxTime /\ hora' = hora + 1
  /\ UNCHANGED <<saludado, history, historial, flights, frenoHasta, asks, ghosts>>

ChatNext ==
  \/ Greets \/ Sends \/ Passes
  \/ \E ok \in BOOLEAN : HistoryComes(ok)
  \/ \E f \in flights : Replies(f) \/ \E wait \in {0, 1} : AskFails(f, wait)

PanelSpec == ChatInit /\ [][ChatNext]_chatVars
-----------------------------------------------------------------------------
\* What the page holds goes with the next question, and should be what was said.  When
\* questions overlap, one that fails may take the turn of another with it (enviar pops
\* the last turn, whichever it is).  However they overlap: no turn goes missing but so,
\* the only turns that were not said are questions that failed, one for each that is
\* missing; and as long as none has gone so, which takes a question asked while another
\* or the history was to come, the page holds exactly what was said, in its order.
SaidIsSent ==
  history = "in" =>
    /\ Range(truth) \ Range(historial) \subseteq astray
    /\ Range(historial) \ Range(truth) \subseteq {Asked(n) : n \in 1..asks}
    /\ Len(historial) = Len(truth)
    /\ overlaps = {} => astray = {}
    /\ astray = {} /\ "history" \notin overlaps => historial = truth
=============================================================================
