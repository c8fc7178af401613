------------------------------- MODULE DevStart -------------------------------
(***************************************************************************)
(* `pnpm dev` and `pnpm stop` (scripts/dev.mjs): a run clears the three ports, *)
(* prepares, starts the processes and waits for api and web; one that falls    *)
(* takes the others with it; and what is on a port and is not of this          *)
(* repository is left alone.  Several runs may be started, and one be killed   *)
(* outright.                                                                   *)
(***************************************************************************)
EXTENDS Naturals, Sequences, FiniteSets

CONSTANTS
  Runs,         \* runs of `pnpm dev`
  Uv,           \* runs that find uv: without it there is no ia
  Mail,         \* runs that find messages/.env: without it there is no messages
  MaxForeign    \* bound: processes of other projects that come to a port

ASSUME DevAssumption ==
  Runs \subseteq Nat \ {0} /\ Uv \subseteq Runs /\ Mail \subseteq Runs /\ MaxForeign \in Nat

VARIABLES
  orch,         \* of each run: where it is, the next port of its sweep, what it has seen
  kid,          \* of each run's processes: how it stands
  others,       \* ports a process of another project listens on
  told,         \* processes that were sent a signal; <<0, p>> is the foreign one on p
  stop,         \* `pnpm stop`: where it is, its next port and the runs it is about
  killed,       \* ghost: runs ended outright
  portless,     \* ghost: processes that held no port when the stop swept theirs
  came          \* foreign processes that have come

devVars == <<orch, kid, others, told, stop, killed, portless, came>>

Ports == {"api", "web", "ia"}
Order == <<"api", "web", "ia">>
Names == Ports \cup {"messages"}

At(at) ==
  [at |-> at, k |-> 1, foreign |-> FALSE, served |-> {}, probing |-> {}, excused |-> {}]
DevInit ==
  /\ orch = [r \in Runs |-> At("no")]
  /\ kid = [r \in Runs |-> [n \in Names |-> "no"]] /\ others = {} /\ told = {}
  /\ stop = [at |-> "no", k |-> 1, of |-> {}]
  /\ killed = {} /\ portless = {} /\ came = 0

Alive(r, n) == kid[r][n] \in {"young", "on", "detached"}
Child(r, n) == kid[r][n] \in {"young", "on"}
Daemons == {<<r, "web">> : r \in {q \in Runs : kid[q]["web"] = "detached"}}
Over(r) == orch[r].at \in {"ended", "closed", "killed"}
Watching(r) == orch[r].at \in {"ia", "wait", "up"}

\* ocupando: who listens on a port.  esNuestro: whether it runs in this repository.
On(p) == {<<r, p>> : r \in {q \in Runs : kid[q][p] \in {"on", "detached"}}}
           \cup {<<0, p>> : q \in others \cap {p}}
Ours(x) == x[1] # 0
\* What a sweep signals on a port.  Mutant: whatever listens there.
SweptAll(p) == On(p)
SweptOurs(p) == {x \in On(p) : Ours(x)}
Swept(p) == SweptOurs(p)

Go(r, at) == orch' = [orch EXCEPT ![r].at = at]

\* The daemon of Astro is told first, then the three ports are swept; the run ends if
\* another project is on one.
ClearsGround(r) ==
  /\ orch[r].at = "no" /\ Go(r, "ground") /\ told' = told \cup Daemons
  /\ UNCHANGED <<kid, others, stop, killed, portless, came>>
SweepsGround(r) ==
  /\ orch[r].at = "ground"
  /\ LET k == orch[r].k
         f == orch[r].foreign \/ \E x \in On(Order[k]) : ~Ours(x)
     IN  /\ told' = told \cup Swept(Order[k])
         /\ orch' = [orch EXCEPT ![r] = [@ EXCEPT !.k = IF k = 3 THEN 1 ELSE k + 1, !.foreign = f,
                                           !.at = IF k < 3 THEN "ground" ELSE IF f THEN "ended" ELSE "prep"]]
  /\ UNCHANGED <<kid, others, stop, killed, portless, came>>

\* Database, ontology, schema and seed: any of them that fails ends the run, nothing of
\* it being started; the broker and the database of the messages only warn.
Fails(r) ==
  /\ orch[r].at = "prep" /\ orch' = [orch EXCEPT ![r] = At("ended")]
  /\ UNCHANGED <<kid, others, told, stop, killed, portless, came>>
StartsIa(r) ==
  /\ orch[r].at = "prep" /\ Go(r, "ia")
  /\ kid' = [kid EXCEPT ![r]["ia"] = IF r \in Uv THEN "young" ELSE "no"]
  /\ UNCHANGED <<others, told, stop, killed, portless, came>>
\* Once ia answered on its port, or did not in time.
StartsRest(r) ==
  /\ orch[r].at = "ia" /\ Go(r, "wait")
  /\ kid' = [kid EXCEPT ![r] = [@ EXCEPT !["messages"] = IF r \in Mail THEN "young" ELSE "no",
                                         !["api"] = "young", !["web"] = "young"]]
  /\ UNCHANGED <<others, told, stop, killed, portless, came>>
\* sirve: anything that takes the connection will do.
Answers(r, p) ==
  /\ orch[r].at = "wait" /\ p \in {"api", "web"} \ orch[r].served /\ On(p) # {}
  /\ orch' = [orch EXCEPT ![r].served = @ \cup {p}]
  /\ UNCHANGED <<kid, others, told, stop, killed, portless, came>>
Up(r) ==
  /\ orch[r].at = "wait" /\ orch[r].served = {"api", "web"}
  /\ orch' = [orch EXCEPT ![r] = [@ EXCEPT !.at = "up", !.served = {}]]
  /\ UNCHANGED <<kid, others, told, stop, killed, portless, came>>

\* cerrar: the children, the daemon, then the ports; it happens once, and hears nothing.
Closing(r) == orch' = [orch EXCEPT ![r] = At("closing")]
Told(r) == {<<r, n>> : n \in {m \in Names : Child(r, m)}} \cup Daemons
Closes(r) ==
  /\ Watching(r)
  /\ Closing(r) /\ told' = told \cup Told(r)
  /\ UNCHANGED <<kid, others, stop, killed, portless, came>>
SweepsLast(r) ==
  /\ orch[r].at = "closing"
  /\ LET k == orch[r].k
     IN  /\ told' = told \cup Swept(Order[k])
         /\ orch' = [orch EXCEPT ![r].k = IF k = 3 THEN 1 ELSE k + 1,
                                 ![r].at = IF k = 3 THEN "closed" ELSE "closing"]
  /\ UNCHANGED <<kid, others, stop, killed, portless, came>>

\* SIGINT or SIGTERM before the handlers are there; a port that never answered.  A signal
\* once they are there is Closes.
Interrupted(r) ==
  /\ orch[r].at \in {"ground", "prep"} /\ orch' = [orch EXCEPT ![r] = At("ended")]
  /\ UNCHANGED <<kid, others, told, stop, killed, portless, came>>
NotUp(r) ==
  /\ orch[r].at = "wait" /\ \E p \in {"api", "web"} \ orch[r].served : On(p) = {}
  /\ Closes(r)
\* kill -9, or the terminal that is closed.
Kill(r) ==
  /\ orch[r].at \notin {"no"} /\ ~Over(r) /\ orch' = [orch EXCEPT ![r] = At("killed")] /\ killed' = killed \cup {r}
  /\ UNCHANGED <<kid, others, told, stop, portless, came>>

\* A process takes its port; ends, well or badly; web's leaves a daemon and ends well.
Binds(r, n) ==
  /\ n \in Ports /\ kid[r][n] = "young" /\ On(n) = {} /\ kid' = [kid EXCEPT ![r][n] = "on"]
  /\ UNCHANGED <<orch, others, told, stop, killed, portless, came>>
Ends(r, n, well) ==
  IF ~Watching(r) \/ n = "messages" THEN UNCHANGED orch /\ told' = told \ {<<r, n>>}
  ELSE IF well THEN orch' = [orch EXCEPT ![r].probing = @ \cup {n}] /\ told' = told \ {<<r, n>>}
  ELSE Closing(r) /\ told' = (told \cup Told(r)) \ {<<r, n>>}
Exits(r, n, well) ==
  /\ Child(r, n) /\ kid' = [kid EXCEPT ![r][n] = "gone"] /\ Ends(r, n, well)
  /\ UNCHANGED <<others, stop, killed, portless, came>>
Detaches(r) ==
  /\ kid[r]["web"] = "on" /\ kid' = [kid EXCEPT ![r]["web"] = "detached"] /\ UNCHANGED told
  /\ IF Watching(r) THEN orch' = [orch EXCEPT ![r].probing = @ \cup {"web"}] ELSE UNCHANGED orch
  /\ UNCHANGED <<others, stop, killed, portless, came>>
DaemonDies(r) ==
  /\ kid[r]["web"] = "detached" /\ kid' = [kid EXCEPT ![r]["web"] = "gone"]
  /\ told' = told \ {<<r, "web">>}
  /\ UNCHANGED <<orch, others, stop, killed, portless, came>>
\* The exit handler after code 0: while anything answers on the port, it goes on.
Excuses(r, n) ==
  /\ Watching(r) /\ n \in orch[r].probing /\ On(n) # {}
  /\ orch' = [orch EXCEPT ![r].probing = @ \ {n}, ![r].excused = @ \cup {n}]
  /\ UNCHANGED <<kid, others, told, stop, killed, portless, came>>
NoExcuse(r, n) == n \in orch[r].probing /\ On(n) = {} /\ Closes(r)

Comes(p) ==
  /\ On(p) = {} /\ came < MaxForeign /\ others' = others \cup {p} /\ came' = came + 1
  /\ UNCHANGED <<orch, kid, told, stop, killed, portless>>
Goes(p) ==
  /\ p \in others /\ others' = others \ {p}
  /\ UNCHANGED <<orch, kid, told, stop, killed, portless, came>>

\* `pnpm stop`: the runs there are get SIGTERM and 10 s, then SIGKILL; then the daemon
\* and the ports.
Asks ==
  /\ stop.at = "no" /\ stop' = [stop EXCEPT !.at = "waits", !.of = {r \in Runs : orch[r].at # "no"}]
  /\ UNCHANGED <<orch, kid, others, told, killed, portless, came>>
Waited ==
  /\ stop.at = "waits"
  /\ LET hung == {r \in stop.of : ~Over(r)}
     IN  /\ orch' = [r \in Runs |-> IF r \in hung THEN At("killed") ELSE orch[r]]
         /\ killed' = killed \cup hung
  /\ stop' = [stop EXCEPT !.at = "sweeps"] /\ told' = told \cup Daemons
  /\ UNCHANGED <<kid, others, portless, came>>
SweepsOrphans ==
  /\ stop.at = "sweeps"
  /\ LET p == Order[stop.k]
     IN  /\ told' = told \cup Swept(p)
         /\ portless' = portless \cup ({<<r, p>> : r \in {q \in Runs : Alive(q, p)}} \ On(p))
  /\ stop' = IF stop.k = 3 THEN [stop EXCEPT !.at = "done"] ELSE [stop EXCEPT !.k = @ + 1]
  /\ UNCHANGED <<orch, kid, others, killed, came>>

DevNext ==
  \/ \E r \in Runs :
       \/ ClearsGround(r) \/ SweepsGround(r) \/ Fails(r) \/ StartsIa(r) \/ StartsRest(r) \/ Up(r)
       \/ Closes(r) \/ SweepsLast(r) \/ Interrupted(r) \/ NotUp(r) \/ Kill(r)
       \/ Detaches(r) \/ DaemonDies(r)
       \/ \E n \in Names : Binds(r, n) \/ Excuses(r, n) \/ NoExcuse(r, n)
       \/ \E n \in Names, well \in BOOLEAN : Exits(r, n, well)
       \/ \E p \in Ports : Answers(r, p)
  \/ \E p \in Ports : Comes(p) \/ Goes(p)
  \/ Asks \/ Waited \/ SweepsOrphans

DevSpec == DevInit /\ [][DevNext]_devVars
-----------------------------------------------------------------------------
Untold(r, n) == Alive(r, n) /\ <<r, n>> \notin told
\* All of the application or nothing of it, and nothing else.  No process of another
\* project is ever signalled.  A run that has closed leaves no process of its own that was
\* not told to end, nor does a stop, but for those of a run killed outright that held no
\* port: messages, which has none, and those that were not listening yet.  And while a run
\* says it is up, the end of api or of web is being looked into, or was excused because
\* something still answered on the port.  (dev.mjs 63-80, 102-104, 127-130, 305, 318-320)
AllOrNothing ==
  /\ \A x \in told : Ours(x)
  /\ \A r \in Runs, n \in Names :
       /\ orch[r].at = "closed" => ~Untold(r, n)
       /\ stop.at = "done" /\ r \in stop.of /\ Untold(r, n)
            => r \in killed /\ (n = "messages" \/ <<r, n>> \in portless)
       /\ orch[r].at = "up" /\ n \in {"api", "web"} /\ kid[r][n] = "gone"
            => n \in orch[r].probing \cup orch[r].excused
=============================================================================
