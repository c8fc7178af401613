--------------------------- MODULE ConsumerSession ---------------------------
(***************************************************************************)
(* The life of a bus consumer around its deliveries: connect, declare,      *)
(* consume, reconnect, and the SIGTERM path.  Run, session and Stop of      *)
(* queue/broker/consumer.go with main.go; startWorker and its stop() in     *)
(* api/src/bus.ts with worker.ts; Worker.run and stop of course_ai/bus.py   *)
(* with worker.py.  Each has two threads of control -- the run loop and the *)
(* shutdown -- that meet in the shared fields link and handle.              *)
(*                                                                          *)
(* What a job does with its delivery is BusDispatch; here it only runs.     *)
(***************************************************************************)
EXTENDS Naturals, FiniteSets

CONSTANTS
  Runtimes,    \* the runtimes considered, of "go", "node", "python"
  Jobs,        \* deliveries that can be in hand at once
  MaxSessions  \* bound: connections ever opened

ASSUME SessionAssumption ==
  /\ Runtimes \subseteq {"go", "node", "python"}
  /\ MaxSessions \in Nat \ {0}

VARIABLES
  runtime,
  loop,       \* where the run loop is
  n,          \* connections opened so far; the newest is n
  conns,      \* connection -> its state
  consuming,  \* the connection a consumer was started on, 0 for none
  link,       \* the connection the shutdown would close, 0 for none
  handle,     \* the consumer the shutdown would cancel and drain, 0 for none
  cancelled,  \* connections whose consumer was cancelled
  asked,      \* the signal has arrived
  told,       \* Go: c.stop is closed; Node: onStop has been called
  main,       \* where the shutdown is
  taken,      \* the handle the shutdown captured
  expired,    \* the drain deadline has passed
  hand,       \* what each job is doing
  late,       \* history: connections opened after the signal
  refused,    \* history: connections that opened and were refused a channel
  cut         \* history: jobs in hand at the signal whose delivery this
              \* process let go of before they ended and before the deadline

loopVars == <<loop, n, consuming, link, handle>>
stopVars == <<asked, told, main, taken, expired>>
vars == <<runtime, loopVars, conns, cancelled, stopVars, hand, late, refused, cut>>

Sessions == 1..MaxSessions
Idle == [state |-> "idle", on |-> 0, early |-> FALSE]
Hands == [state : {"idle", "running", "orphan"}, on : 0..MaxSessions, early : BOOLEAN]
Phases == {"top", "dial", "channel", "setup", "consuming", "park", "after", "rest", "returned"}
Stages == {"serving", "http", "cancel", "drain", "close", "join", "stopped", "exited"}

TypeOK ==
  /\ runtime \in Runtimes
  /\ loop \in Phases /\ main \in Stages
  /\ {n, consuming, link, handle, taken} \subseteq 0..n /\ n <= MaxSessions
  /\ conns \in [Sessions -> {"none", "open", "closed"}]
  /\ \A s \in Sessions : conns[s] = "none" <=> s > n
  /\ cancelled \subseteq Sessions
  /\ {asked, told, expired} \subseteq BOOLEAN
  /\ hand \in [Jobs -> Hands]
  /\ late \in 0..MaxSessions /\ refused \subseteq 1..n /\ cut \subseteq Jobs

Init ==
  /\ runtime \in Runtimes
  /\ loop = "top" /\ main = "serving"
  /\ n = 0 /\ consuming = 0 /\ link = 0 /\ handle = 0 /\ taken = 0 /\ late = 0
  /\ conns = [s \in Sessions |-> "none"]
  /\ asked = FALSE /\ told = FALSE /\ expired = FALSE
  /\ hand = [j \in Jobs |-> Idle]
  /\ cancelled = {} /\ refused = {} /\ cut = {}

Busy(j) == hand[j].state # "idle"
RunningOn(s) == {j \in Jobs : hand[j].state = "running" /\ hand[j].on = s}
Early(S) == {j \in S : hand[j].early}

\* Connection s ends: the jobs on it go on, but the broker has their deliveries
\* back.  Ours, when this process closes it.
Ends(s, ours) ==
  /\ conns' = [conns EXCEPT ![s] = "closed"]
  /\ hand' = [j \in Jobs |-> IF j \in RunningOn(s)
                             THEN [hand[j] EXCEPT !.state = "orphan"] ELSE hand[j]]
  /\ cut' = IF ours /\ ~ expired THEN cut \cup Early(RunningOn(s)) ELSE cut

Close(s) ==
  IF s # 0 /\ conns[s] = "open" THEN Ends(s, TRUE) ELSE UNCHANGED <<conns, hand, cut>>
-----------------------------------------------------------------------------
\* The run loop

Top ==
  /\ loop = "top"
  /\ loop' = IF asked THEN "returned" ELSE "dial"
  /\ UNCHANGED <<runtime, n, consuming, link, handle, conns, cancelled, stopVars, hand, late, refused, cut>>

\* What the loop closes when a step before consuming fails.  Go's deferred function
\* holds the connection that was opened, mine.  The others close the one the shared
\* field names; Python not when stopping, which stop() is trusted to do.
Salvages(mine) ==
  IF runtime = "python" /\ asked
  THEN UNCHANGED <<link, conns, hand, cut>>
  ELSE link' = 0 /\ Close(IF runtime = "go" THEN mine ELSE link)

\* Only Python has the new connection in the shared field at once.
Connects ==
  /\ loop = "dial" /\ n < MaxSessions
  /\ n' = n + 1
  /\ conns' = [conns EXCEPT ![n + 1] = "open"]
  /\ link' = IF runtime = "python" THEN n + 1 ELSE link
  /\ late' = IF asked THEN late + 1 ELSE late
  /\ loop' = "channel"
  /\ UNCHANGED <<runtime, consuming, handle, cancelled, stopVars, hand, refused, cut>>

DialFails ==
  /\ loop = "dial"
  /\ loop' = "after"
  /\ Salvages(0)
  /\ UNCHANGED <<runtime, n, consuming, handle, cancelled, stopVars, late, refused>>

\* Node names connection and channel together, once it has both; Go when it consumes.
OpensChannel ==
  /\ loop = "channel" /\ conns[n] = "open"
  /\ loop' = "setup"
  /\ link' = IF runtime = "node" THEN n ELSE link
  /\ UNCHANGED <<runtime, n, consuming, handle, conns, cancelled, stopVars, hand, late, refused, cut>>

\* The connection is up and the channel is refused, or the connection has gone.
ChannelFails ==
  /\ loop = "channel"
  /\ loop' = "after"
  /\ refused' = refused \cup {n}
  /\ Salvages(n)
  /\ UNCHANGED <<runtime, n, consuming, handle, cancelled, stopVars, late>>

\* As a bug would have it: what was half-opened is left open.
SetupFailsOpen ==
  /\ loop = "setup"
  /\ loop' = "after"
  /\ UNCHANGED <<runtime, n, consuming, link, handle, conns, cancelled, stopVars, hand, late, refused, cut>>

\* A declaration, or the call that starts the consumer, fails.
SetupFails ==
  /\ loop = "setup"
  /\ loop' = "after"
  /\ Salvages(n)
  /\ UNCHANGED <<runtime, n, consuming, handle, cancelled, stopVars, late, refused>>

Consume ==
  /\ loop = "setup" /\ conns[n] = "open"
  /\ consuming' = n
  /\ IF runtime = "go"
     THEN loop' = "consuming" /\ UNCHANGED handle
     ELSE loop' = "park" /\ handle' = n
  /\ UNCHANGED <<runtime, n, link, conns, cancelled, stopVars, hand, late, refused, cut>>

\* Go, under the mutex: c.ch, c.conn, c.tag.
Register ==
  /\ loop = "consuming"
  /\ link' = n /\ handle' = n
  /\ loop' = "park"
  /\ UNCHANGED <<runtime, n, consuming, conns, cancelled, stopVars, hand, late, refused, cut>>

\* As a bug would have it: the parked loop waits for the connection alone.
WokenByClose == conns[n] = "closed"

\* What wakes the parked loop.  In Go the stream of deliveries also ends when
\* the consumer is cancelled; Node parks until stop() has drained.
Woken ==
  \/ conns[n] = "closed"
  \/ runtime = "go" /\ (asked \/ n \in cancelled)
  \/ runtime = "node" /\ told
  \/ runtime = "python" /\ asked

\* Go's deferred function clears the fields and closes the connection.  Node
\* forgets the connection without closing it, Python leaves it to stop().
Leave ==
  /\ loop = "park" /\ Woken
  /\ loop' = "after"
  /\ IF runtime = "go" THEN Close(n) ELSE UNCHANGED <<conns, hand, cut>>
  /\ link' = IF runtime = "python" THEN link ELSE 0
  /\ handle' = IF runtime = "python" /\ asked THEN handle ELSE 0
  /\ UNCHANGED <<runtime, n, consuming, cancelled, stopVars, late, refused>>

After ==
  /\ loop = "after"
  /\ loop' = IF asked THEN "returned" ELSE "rest"
  /\ UNCHANGED <<runtime, n, consuming, link, handle, conns, cancelled, stopVars, hand, late, refused, cut>>

\* The backoff ends, or stop() cuts it short.
Rest ==
  /\ loop = "rest"
  /\ loop' = "top"
  /\ UNCHANGED <<runtime, n, consuming, link, handle, conns, cancelled, stopVars, hand, late, refused, cut>>
-----------------------------------------------------------------------------
\* Deliveries and the connection

\* Go takes deliveries in the parked loop, whose select may prefer them to the
\* stop; the others are called back for as long as the consumer lives.
Take(j) ==
  /\ ~ Busy(j)
  /\ n # 0 /\ consuming = n /\ conns[n] = "open" /\ n \notin cancelled
  /\ runtime = "go" => loop = "park"
  /\ main # "exited"
  /\ hand' = [hand EXCEPT ![j] = [state |-> "running", on |-> n, early |-> FALSE]]
  /\ UNCHANGED <<runtime, loopVars, conns, cancelled, stopVars, late, refused, cut>>

Finish(j) ==
  /\ Busy(j)
  /\ hand' = [hand EXCEPT ![j] = Idle]
  /\ UNCHANGED <<runtime, loopVars, conns, cancelled, stopVars, late, refused, cut>>

Drop(s) ==
  /\ conns[s] = "open"
  /\ Ends(s, FALSE)
  /\ UNCHANGED <<runtime, loopVars, cancelled, stopVars, late, refused>>
-----------------------------------------------------------------------------
\* The shutdown

\* SIGTERM.  In Node and Python stop() captures the consumer in the same turn;
\* in Go the signal only cancels the context, and HTTP is shut down first.
Ask ==
  /\ main = "serving"
  /\ asked' = TRUE
  /\ hand' = [j \in Jobs |-> [hand[j] EXCEPT !.early = hand[j].state = "running"]]
  /\ IF runtime = "go"
     THEN main' = "http" /\ UNCHANGED taken
     ELSE main' = "cancel" /\ taken' = handle
  /\ UNCHANGED <<runtime, loopVars, conns, cancelled, told, expired, late, refused, cut>>

\* Stop: close(c.stop), then read the fields under the mutex.
Capture ==
  /\ main = "http"
  /\ told' = TRUE
  /\ taken' = handle
  /\ main' = "cancel"
  /\ UNCHANGED <<runtime, loopVars, conns, cancelled, asked, expired, hand, late, refused, cut>>

Cancel ==
  /\ main = "cancel"
  /\ cancelled' = IF taken # 0 /\ conns[taken] = "open" THEN cancelled \cup {taken}
                                                         ELSE cancelled
  /\ main' = "drain"
  /\ UNCHANGED <<runtime, loopVars, conns, asked, told, taken, expired, hand, late, refused, cut>>

\* As a bug would have it: stop() closes at once what is still in hand.
AwaitedNone == {}

\* Go waits for every job it ever started, the others for the jobs of the
\* consumer they captured, if there was one.
Awaited ==
  IF runtime = "go" THEN {j \in Jobs : Busy(j)}
  ELSE {j \in Jobs : Busy(j) /\ taken # 0 /\ hand[j].on = taken}

Drained ==
  /\ main = "drain"
  /\ Awaited = {}
  /\ main' = "close"
  /\ UNCHANGED <<runtime, loopVars, conns, cancelled, asked, told, taken, expired, hand, late, refused, cut>>

Expire ==
  /\ main = "drain"
  /\ Awaited # {}
  /\ expired' = TRUE
  /\ main' = "close"
  /\ UNCHANGED <<runtime, loopVars, conns, cancelled, asked, told, taken, hand, late, refused, cut>>

StopCloses ==
  /\ main = "close"
  /\ Close(IF runtime = "go" THEN taken ELSE link)
  /\ told' = TRUE
  /\ link' = IF runtime = "go" THEN link ELSE 0
  /\ main' = "join"
  /\ UNCHANGED <<runtime, loop, n, consuming, handle, cancelled, asked, taken, expired, late, refused>>

\* main.go waits for consumerDone, Node's stop() for its loop.
Join ==
  /\ main = "join"
  /\ runtime # "python" => loop = "returned"
  /\ main' = "stopped"
  /\ UNCHANGED <<runtime, loopVars, conns, cancelled, asked, told, taken, expired, hand, late, refused, cut>>

\* The process ends, and with it what still runs.  In Python it ends when the
\* run loop returns: asyncio.run then cancels every other task, the shutdown
\* and the handlers among them.
Exit ==
  /\ IF runtime = "python" THEN loop = "returned" /\ main # "exited" ELSE main = "stopped"
  /\ main' = "exited"
  /\ cut' = IF expired THEN cut
            ELSE cut \cup Early({j \in Jobs : hand[j].state = "running"})
  /\ hand' = [j \in Jobs |-> Idle]
  /\ conns' = [s \in Sessions |-> IF conns[s] = "open" THEN "closed" ELSE conns[s]]
  /\ UNCHANGED <<runtime, loopVars, cancelled, asked, told, taken, expired, late, refused>>
-----------------------------------------------------------------------------
LoopStep ==
  \/ Top \/ Connects \/ DialFails \/ OpensChannel \/ ChannelFails \/ SetupFails
  \/ Consume \/ Register \/ Leave \/ After \/ Rest
StopStep == Capture \/ Cancel \/ Drained \/ Expire \/ StopCloses \/ Join \/ Exit

Next ==
  \/ LoopStep /\ main # "exited"
  \/ \E j \in Jobs : Take(j) \/ Finish(j)
  \/ \E s \in Sessions : Drop(s)
  \/ Ask \/ StopStep

Spec == Init /\ [][Next]_vars

\* The run loop, the shutdown and the handlers are scheduled; dialling and the
\* declarations answer or fail; handlers have a deadline.
Fairness ==
  /\ WF_vars(LoopStep /\ main # "exited")
  /\ WF_vars(StopStep)
  /\ \A j \in Jobs : WF_vars(Finish(j))

LiveSpec == Spec /\ Fairness
-----------------------------------------------------------------------------
\* Node opens the connection and then the channel, and names them together: a channel
\* that is refused leaves a connection that nothing names and nothing closes.
Stranded == IF runtime = "node" THEN refused ELSE {}

\* Otherwise a failing broker costs one connection, not one per retry, wherever the
\* failure and the signal fall (consumer.go:162, bus.ts startWorker, bus.py run:
\* "leaks one connection per retry").
OneConnection == Cardinality({s \in Sessions : conns[s] = "open"} \ Stranded) <= 1

\* A stop during reconnection opens at most the connection already being dialled.
LateDialOnce == late <= 1

\* The drain: what was in hand when the signal came is let finish and be acked,
\* unless the drain deadline passes or the broker goes away.
DrainsInHand == cut = {}

\* Node's order of shutdown does it.
NodeDrains == runtime = "node" => DrainsInHand

\* A signal ends the process, wherever connection and reconnection stand.
StopEnds == asked ~> main = "exited"
=============================================================================
