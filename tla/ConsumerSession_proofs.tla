----------------------- MODULE ConsumerSession_proofs -----------------------
(***************************************************************************)
(* Proofs about ConsumerSession, for any number of deliveries and           *)
(* connections.                                                             *)
(***************************************************************************)
EXTENDS ConsumerSession, FiniteSetTheorems, TLAPS

Opened == {s \in Sessions : conns[s] = "open"}

Held == Opened \ Stranded

\* Of those somebody can still close, only the newest connection can be open, and only
\* while the run loop uses it or has left it to a shutdown under way.
NewestOnly ==
  /\ Held \subseteq {n}
  /\ Held # {} => \/ loop \in {"channel", "setup", "consuming", "park"}
                  \/ asked /\ loop \in {"after", "returned"}

\* Whoever has to close the connection that is being set up finds it in the field.
Named ==
  /\ loop = "channel" => n # 0
  /\ runtime = "python" /\ ~ asked /\ loop \in {"channel", "setup"} => link = n
  /\ runtime = "node" /\ loop = "setup" => link = n \/ conns[n] # "open"

\* The shutdown runs, and the loop returns, only after the signal.
Signalled == main # "serving" \/ told \/ loop = "returned" => asked

\* After the signal the loop dials at most once more.
LateOnce ==
  late = 0 \/ (late = 1 /\ asked /\ loop \in {"channel", "setup", "consuming", "park", "after", "returned"})

LoopInv == TypeOK /\ NewestOnly /\ Named /\ Signalled /\ LateOnce
-----------------------------------------------------------------------------
\* What the end of connection s leaves: every other connection, every job that
\* was not running on it, and a running job is one that was running elsewhere.
LEMMA Ended ==
  ASSUME TypeOK, NEW s \in Sessions, NEW ours \in BOOLEAN, conns[s] = "open", Ends(s, ours)
  PROVE  /\ conns' \in [Sessions -> {"none", "open", "closed"}]
         /\ \A t \in Sessions : conns'[t] = "none" <=> t > n
         /\ conns'[s] = "closed" /\ \A t \in Sessions : t # s => conns'[t] = conns[t]
         /\ hand' \in [Jobs -> Hands]
         /\ \A j \in Jobs : hand'[j].state = "running" => hand'[j] = hand[j] /\ hand[j].on # s
         /\ cut' = cut \/ (~ expired /\ cut' = cut \cup Early(RunningOn(s)))
         /\ cut' \subseteq Jobs
<1>1. \A t \in Sessions : t # s => conns'[t] = conns[t]  BY DEF TypeOK, Ends
<1>2. conns'[s] = "closed"  BY DEF TypeOK, Ends
<1>3. hand' \in [Jobs -> Hands]  BY DEF TypeOK, Ends, Hands
<1>4. \A j \in Jobs : hand'[j].state = "running" => hand'[j] = hand[j] /\ hand[j].on # s
  BY DEF TypeOK, Ends, RunningOn, Hands
<1>5. cut' = cut \/ (~ expired /\ cut' = cut \cup Early(RunningOn(s)))  BY DEF Ends
<1>6. cut' \subseteq Jobs  BY <1>5 DEF TypeOK, Early, RunningOn
<1> QED  BY <1>1, <1>2, <1>3, <1>4, <1>5, <1>6 DEF TypeOK, Ends

\* The same of Close, which does nothing to what is not open.
LEMMA Closed ==
  ASSUME TypeOK, NEW s \in 0..n, Close(s)
  PROVE  /\ conns' \in [Sessions -> {"none", "open", "closed"}]
         /\ \A t \in Sessions : conns'[t] = "none" <=> t > n
         /\ \A t \in Sessions : t # s => conns'[t] = conns[t]
         /\ s # 0 => s \in Sessions /\ conns'[s] # "open"
         /\ hand' \in [Jobs -> Hands]
         /\ \A j \in Jobs : hand'[j].state = "running" =>
              hand'[j] = hand[j] /\ (hand[j].on = s => conns[s] # "open" \/ s = 0)
         /\ cut' = cut \/ (~ expired /\ cut' = cut \cup Early(RunningOn(s)))
         /\ cut' \subseteq Jobs
<1>0. s # 0 => s \in Sessions  BY SessionAssumption DEF TypeOK, Sessions
<1>1. CASE s # 0 /\ conns[s] = "open"
  BY <1>0, <1>1, Ended DEF Close
<1>2. CASE ~ (s # 0 /\ conns[s] = "open")  BY <1>0, <1>2 DEF Close, TypeOK
<1> QED  BY <1>1, <1>2

-----------------------------------------------------------------------------
\* Every step of the loop, the broker, the jobs and the shutdown keeps the types.
LEMMA TypeStep ==
  ASSUME LoopInv, [Next]_vars
  PROVE  TypeOK'
<1> USE SessionAssumption DEF Phases, Stages
<1>0. TypeOK /\ n \in Nat /\ MaxSessions \in Nat /\ n <= MaxSessions /\ 0 <= n
  BY DEF TypeOK, LoopInv
<1>1. CASE Top \/ After \/ Rest
  BY <1>0, <1>1 DEF TypeOK, Top, After, Rest, stopVars
<1>2. CASE Connects
  <2>1. n + 1 \in Sessions /\ n' = n + 1 /\ conns' = [conns EXCEPT ![n + 1] = "open"]
    BY <1>0, <1>2 DEF Connects, Sessions
  <2>2. conns' \in [Sessions -> {"none", "open", "closed"}]  BY <1>0, <2>1 DEF TypeOK
  <2>3. \A t \in Sessions : conns'[t] = "none" <=> t > n'
    BY <1>0, <2>1 DEF TypeOK, Sessions
  <2>4. 0..n \subseteq 0..n' /\ 1..n \subseteq 1..n'  BY <1>0, <2>1
  <2>5. {n', consuming, link', handle, taken} \subseteq 0..n' /\ n' <= MaxSessions
    <3>1. link' \in {link, n + 1} /\ n' = n + 1 /\ n < MaxSessions
          /\ UNCHANGED <<consuming, handle, taken>>
      BY <1>2 DEF Connects, stopVars
    <3>2. n + 1 \in 0..n' /\ n' <= MaxSessions  BY <1>0, <3>1
    <3>3. {consuming, link, handle, taken} \subseteq 0..n  BY <1>0 DEF TypeOK
    <3> QED  BY <2>4, <3>1, <3>2, <3>3
  <2>6. late = 0  BY <1>2 DEF LoopInv, LateOnce, Connects
  <2>7. late' \in 0..MaxSessions  BY <1>0, <1>2, <2>6 DEF Connects
  <2>8. refused' \subseteq 1..n'  BY <1>0, <1>2, <2>4 DEF TypeOK, Connects
  <2> QED  BY <1>0, <1>2, <2>2, <2>3, <2>5, <2>7, <2>8 DEF TypeOK, Connects, stopVars
<1>3. CASE DialFails \/ ChannelFails \/ SetupFails
  <2>0. PICK mine \in 0..n : Salvages(mine)
    BY <1>0, <1>3 DEF DialFails, ChannelFails, SetupFails
  <2>1. refused' \subseteq 1..n'
    <3>1. CASE ChannelFails
      <4>1. n \in 1..n  BY <1>0, <3>1 DEF LoopInv, Named, TypeOK, ChannelFails
      <4> QED  BY <1>0, <3>1, <4>1 DEF TypeOK, ChannelFails
    <3>2. CASE DialFails \/ SetupFails  BY <1>0, <3>2 DEF TypeOK, DialFails, SetupFails
    <3> QED  BY <1>3, <3>1, <3>2
  <2>2. /\ UNCHANGED <<runtime, n, consuming, handle, cancelled, stopVars, late>>
        /\ loop' = "after"
    BY <1>3 DEF DialFails, ChannelFails, SetupFails
  <2>3. CASE runtime = "python" /\ asked
    BY <1>0, <2>0, <2>1, <2>2, <2>3 DEF TypeOK, Salvages, stopVars
  <2>4. CASE ~ (runtime = "python" /\ asked)
    <3>1. link' = 0 /\ \E s \in 0..n : Close(s)
      BY <1>0, <2>0, <2>4 DEF TypeOK, Salvages
    <3>2. PICK s \in 0..n : Close(s)  BY <3>1
    <3> QED  BY <1>0, <2>1, <2>2, <3>1, <3>2, Closed DEF TypeOK, stopVars
  <2> QED  BY <2>3, <2>4
<1>4. CASE OpensChannel \/ Consume \/ Register
  BY <1>0, <1>4 DEF TypeOK, OpensChannel, Consume, Register, stopVars
<1>5. CASE Leave
  <2>1. CASE runtime = "go"
    <3>1. Close(n) /\ n \in 0..n  BY <1>0, <1>5, <2>1 DEF Leave
    <3> QED  BY <1>0, <1>5, <3>1, Closed DEF TypeOK, Leave, stopVars
  <2>2. CASE runtime # "go"
    BY <1>0, <1>5, <2>2 DEF TypeOK, Leave, stopVars
  <2> QED  BY <2>1, <2>2
<1>6. ASSUME NEW j \in Jobs, Take(j) \/ Finish(j)
      PROVE  TypeOK'
  <2>1. hand \in [Jobs -> Hands] /\ n \in 0..MaxSessions  BY <1>0 DEF TypeOK
  <2>2. [state |-> "running", on |-> n, early |-> FALSE] \in Hands /\ Idle \in Hands
    BY <1>0, <2>1 DEF Hands, Idle
  <2>3. hand' \in [Jobs -> Hands]  BY <1>6, <2>1, <2>2 DEF Take, Finish
  <2>4. UNCHANGED <<runtime, loopVars, conns, cancelled, stopVars, late, refused, cut>>
    BY <1>6 DEF Take, Finish
  <2> QED  BY <1>0, <2>3, <2>4 DEF TypeOK, loopVars, stopVars
<1>7. ASSUME NEW s \in Sessions, Drop(s)
      PROVE  TypeOK'
  BY <1>0, <1>7, Ended DEF TypeOK, Drop, loopVars, stopVars
<1>8. CASE Ask
  <2>1. hand' \in [Jobs -> Hands]  BY <1>0, <1>8 DEF TypeOK, Ask, Hands
  <2> QED  BY <1>0, <1>8, <2>1 DEF TypeOK, Ask, loopVars
<1>9. CASE Capture \/ Cancel \/ Drained \/ Expire \/ Join
  <2>1. CASE Capture  BY <1>0, <2>1 DEF TypeOK, Capture, loopVars
  <2>2. CASE Cancel
    <3>0. cancelled' = cancelled \/ (taken # 0 /\ cancelled' = cancelled \cup {taken})
      BY <2>2 DEF Cancel
    <3>1. taken # 0 => taken \in Sessions  BY <1>0 DEF TypeOK, Sessions
    <3>2. cancelled \subseteq Sessions  BY <1>0 DEF TypeOK
    <3>3. cancelled' \subseteq Sessions  BY <3>0, <3>1, <3>2
    <3> QED  BY <1>0, <2>2, <3>3 DEF TypeOK, Cancel, loopVars
  <2>3. CASE Drained \/ Join  BY <1>0, <2>3 DEF TypeOK, Drained, Join, loopVars
  <2>4. CASE Expire  BY <1>0, <2>4 DEF TypeOK, Expire, loopVars
  <2> QED  BY <1>9, <2>1, <2>2, <2>3, <2>4
<1>10. CASE StopCloses
  <2>1. PICK s \in 0..n : Close(s)  BY <1>0, <1>10 DEF TypeOK, StopCloses
  <2> QED  BY <1>0, <1>10, <2>1, Closed DEF TypeOK, StopCloses
<1>11. CASE Exit
  <2>1. hand' \in [Jobs -> Hands]  BY <1>0, <1>11 DEF Exit, Hands, Idle
  <2>2. conns' \in [Sessions -> {"none", "open", "closed"}]
        /\ \A t \in Sessions : conns'[t] = "none" <=> t > n
    BY <1>0, <1>11 DEF TypeOK, Exit
  <2>3. cut' \subseteq Jobs  BY <1>0, <1>11 DEF TypeOK, Exit, Early
  <2> QED  BY <1>0, <1>11, <2>1, <2>2, <2>3 DEF TypeOK, Exit, loopVars
<1>12. CASE UNCHANGED vars
  BY <1>0, <1>12 DEF TypeOK, vars, loopVars, stopVars
<1> QED
  BY <1>1, <1>2, <1>3, <1>4, <1>5, <1>6, <1>7, <1>8, <1>9, <1>10, <1>11, <1>12
  DEF Next, LoopStep, StopStep

\* The connections.
LEMMA NewestStep ==
  ASSUME LoopInv, [Next]_vars
  PROVE  NewestOnly'
<1> USE SessionAssumption
<1>0. TypeOK /\ n \in Nat /\ n \in 0..n  BY DEF TypeOK, LoopInv
<1>1. ASSUME Held' \subseteq Held, n' = n, asked => asked',
             loop' \in {"channel", "setup", "consuming", "park"} \/ loop' = loop
             \/ (asked' /\ loop' \in {"after", "returned"}) \/ Held' = {}
      PROVE  NewestOnly'
  BY <1>1 DEF LoopInv, NewestOnly
<1>2. ASSUME NEW s \in 0..n, Close(s), Stranded' = Stranded
      PROVE  Held' \subseteq Held /\ (s = n => Held' = {})
  <2>1. /\ \A t \in Sessions : t # s => conns'[t] = conns[t]
        /\ s # 0 => s \in Sessions /\ conns'[s] # "open"
    BY <1>0, <1>2, Closed
  <2>2. Opened' \subseteq Opened  BY <2>1 DEF Opened, Sessions
  <2>3. s = n => n \notin Opened'  BY <2>1 DEF Opened, Sessions
  <2>4. Held' \subseteq Held  BY <1>2, <2>2 DEF Held
  <2> QED  BY <2>3, <2>4 DEF Held, LoopInv, NewestOnly
<1>3. CASE Top \/ After \/ Rest
  <2>1. Held' = Held /\ n' = n /\ asked' = asked
    BY <1>3 DEF Top, After, Rest, Held, Opened, Stranded, stopVars
  <2> QED  BY <1>3, <2>1 DEF Top, After, Rest, LoopInv, NewestOnly
<1>4. CASE Connects
  <2>1. Held = {}  BY <1>4 DEF Connects, LoopInv, NewestOnly
  <2>2. n' = n + 1 /\ conns' = [conns EXCEPT ![n + 1] = "open"] /\ loop' = "channel"
        /\ Stranded' = Stranded
    BY <1>4 DEF Connects, Stranded
  <2>3. Opened' \subseteq Opened \cup {n'}  BY <1>0, <2>2 DEF Opened, TypeOK
  <2>4. Held' \subseteq {n'}  BY <2>1, <2>2, <2>3 DEF Held
  <2> QED  BY <2>2, <2>4 DEF NewestOnly
<1>5. CASE DialFails \/ ChannelFails \/ SetupFails
  <2>0. n' = n /\ asked' = asked /\ runtime' = runtime /\ loop' = "after"
    BY <1>5 DEF DialFails, ChannelFails, SetupFails, stopVars
  <2>1. Stranded' = IF ChannelFails /\ runtime = "node" THEN refused \cup {n} ELSE Stranded
    BY <1>5, <2>0 DEF DialFails, ChannelFails, SetupFails, Stranded
  <2>2. PICK mine \in 0..n : Salvages(mine) /\ (DialFails \/ mine = n)
    BY <1>0, <1>5 DEF DialFails, ChannelFails, SetupFails
  <2>3. CASE runtime = "python" /\ asked
    <3>1. Opened' = Opened /\ Stranded' = Stranded
      BY <2>0, <2>1, <2>2, <2>3 DEF Salvages, Opened
    <3> QED  BY <1>1, <2>0, <2>3, <3>1 DEF Held
  <2>4. CASE ~ (runtime = "python" /\ asked)
    <3>1. PICK s \in 0..n : Close(s) /\ s = (IF runtime = "go" THEN mine ELSE link)
      BY <1>0, <2>2, <2>4 DEF Salvages, TypeOK
    <3>2. Opened' \subseteq Opened
      <4>1. \A t \in Sessions : t # s => conns'[t] = conns[t]  BY <1>0, <3>1, Closed
      <4>2. s # 0 => conns'[s] # "open"  BY <1>0, <3>1, Closed
      <4> QED  BY <4>1, <4>2 DEF Opened, Sessions
    <3>3. CASE ChannelFails /\ runtime = "node"
      <4>1. Held' \subseteq Held /\ n \notin Held'
        BY <2>1, <3>2, <3>3 DEF Held, Stranded
      <4>2. Held' = {}  BY <4>1 DEF LoopInv, NewestOnly
      <4> QED  BY <1>1, <2>0, <4>2
    <3>4. CASE ~ (ChannelFails /\ runtime = "node")
      <4>1. Stranded' = Stranded  BY <2>1, <3>4
      <4>2. Held' \subseteq Held /\ (s = n => Held' = {})  BY <1>2, <3>1, <4>1
      <4>3. Held' = {}
        <5>1. CASE DialFails
          <6>1. Held = {}  BY <5>1 DEF DialFails, LoopInv, NewestOnly
          <6> QED  BY <4>2, <6>1
        <5>2. CASE ~ DialFails /\ runtime = "go"
          BY <2>2, <3>1, <4>2, <5>2
        <5>3. CASE ~ DialFails /\ runtime = "python"
          <6>1. link = n
            BY <1>5, <2>4, <5>3 DEF ChannelFails, SetupFails, LoopInv, Named
          <6> QED  BY <3>1, <4>2, <5>3, <6>1
        <5>4. CASE ~ DialFails /\ runtime = "node"
          <6>1. loop = "setup"  BY <1>5, <3>4, <5>4 DEF SetupFails
          <6>2. link = n \/ conns[n] # "open"  BY <5>4, <6>1 DEF LoopInv, Named
          <6>3. conns[n] # "open" => Held = {}
            BY DEF Held, Opened, LoopInv, NewestOnly
          <6> QED  BY <3>1, <4>2, <5>4, <6>2, <6>3
        <5> QED  BY <1>0, <5>1, <5>2, <5>3, <5>4 DEF TypeOK
      <4> QED  BY <1>1, <2>0, <4>3
    <3> QED  BY <3>3, <3>4
  <2> QED  BY <2>3, <2>4
<1>6. CASE OpensChannel \/ Consume \/ Register
  <2>1. /\ Held' = Held /\ n' = n /\ asked' = asked
        /\ loop' \in {"setup", "consuming", "park"}
    BY <1>6 DEF OpensChannel, Consume, Register, Held, Opened, Stranded, stopVars
  <2> QED  BY <2>1, <1>1
<1>7. CASE Leave
  <2>0. Stranded' = Stranded  BY <1>7 DEF Leave, Stranded
  <2>1. CASE runtime = "go"
    BY <1>0, <1>7, <2>0, <2>1, <1>1, <1>2 DEF Leave, stopVars
  <2>2. CASE runtime # "go"
    <3>1. Held' = Held /\ n' = n /\ asked' = asked /\ loop' = "after"
      BY <1>7, <2>0, <2>2 DEF Leave, Held, Opened, stopVars
    <3>2. conns[n] = "closed" \/ asked
      BY <1>7, <2>2 DEF Leave, Woken, LoopInv, Signalled
    <3>3. conns[n] = "closed" => Held = {}
      BY DEF Held, Opened, LoopInv, NewestOnly
    <3> QED  BY <1>1, <3>1, <3>2, <3>3
  <2> QED  BY <2>1, <2>2
<1>8. ASSUME NEW j \in Jobs, Take(j) \/ Finish(j)
      PROVE  NewestOnly'
  <2>1. UNCHANGED <<runtime, loopVars, conns, stopVars, refused>>  BY <1>8 DEF Take, Finish
  <2> QED  BY <1>1, <2>1 DEF Held, Opened, Stranded, loopVars, stopVars
<1>9. ASSUME NEW s \in Sessions, Drop(s)
      PROVE  NewestOnly'
  <2>1. Opened' \subseteq Opened  BY <1>0, <1>9, Ended DEF Drop, Opened
  <2>2. UNCHANGED <<runtime, loopVars, stopVars, refused>>  BY <1>9 DEF Drop
  <2> QED  BY <2>1, <2>2, <1>1 DEF Held, Stranded, loopVars, stopVars
<1>10. CASE Ask \/ Capture \/ Cancel \/ Drained \/ Expire \/ Join
  <2>1. Held' = Held /\ n' = n /\ loop' = loop /\ (asked => asked')
    BY <1>10 DEF Ask, Capture, Cancel, Drained, Expire, Join, Held, Opened, Stranded, loopVars
  <2> QED  BY <2>1, <1>1
<1>11. CASE StopCloses
  <2>1. PICK s \in 0..n : Close(s)  BY <1>0, <1>11 DEF TypeOK, StopCloses
  <2>2. Stranded' = Stranded  BY <1>11 DEF StopCloses, Stranded
  <2> QED  BY <1>2, <1>11, <2>1, <2>2, <1>1 DEF StopCloses
<1>12. CASE Exit
  <2>1. Held' = {}  BY <1>12 DEF Exit, Held, Opened
  <2> QED  BY <2>1 DEF NewestOnly
<1>13. CASE UNCHANGED vars
  BY <1>13, <1>1 DEF vars, loopVars, stopVars, Held, Opened, Stranded
<1> QED
  BY <1>3, <1>4, <1>5, <1>6, <1>7, <1>8, <1>9, <1>10, <1>11, <1>12, <1>13
  DEF Next, LoopStep, StopStep

\* What the shared field names.
LEMMA NamedStep ==
  ASSUME LoopInv, [Next]_vars
  PROVE  Named'
<1> USE SessionAssumption
<1>0. TypeOK /\ n \in Nat /\ n \in 0..n  BY DEF TypeOK, LoopInv
<1>1. CASE LoopStep
  <2>1. CASE Connects
    <3>1. n' = n + 1 /\ loop' = "channel" /\ (runtime = "python" => link' = n')
          /\ runtime' = runtime
      BY <2>1 DEF Connects
    <3>2. n' # 0  BY <1>0, <3>1
    <3> QED  BY <3>1, <3>2 DEF Named
  <2>2. CASE OpensChannel
    BY <2>2 DEF OpensChannel, LoopInv, Named, stopVars
  <2>3. CASE ~ Connects /\ ~ OpensChannel
    <3>1. loop' \notin {"channel", "setup"}
      BY <1>1, <2>3 DEF LoopStep, Top, DialFails, ChannelFails, SetupFails, Consume, Register,
        Leave, After, Rest
    <3> QED  BY <3>1 DEF Named
  <2> QED  BY <2>1, <2>2, <2>3
<1>2. ASSUME NEW s \in Sessions, Drop(s)
      PROVE  Named'
  <2>1. conns'[n] = "open" => conns[n] = "open"
    BY <1>0, <1>2, Ended DEF Drop, TypeOK, Ends
  <2> QED  BY <1>2, <2>1 DEF Drop, LoopInv, Named, loopVars, stopVars
<1>3. CASE StopCloses
  <2>1. asked  BY <1>3 DEF StopCloses, LoopInv, Signalled
  <2>2. PICK s \in 0..n : Close(s) /\ (runtime = "node" => s = link)
    BY <1>0, <1>3 DEF TypeOK, StopCloses
  <2>3. ASSUME n # 0
        PROVE  /\ conns'[n] = "open" => conns[n] = "open"
               /\ s = n => conns'[n] # "open"
    <3>1. n \in Sessions  BY <1>0, <2>3 DEF TypeOK, Sessions
    <3>2. /\ \A t \in Sessions : t # s => conns'[t] = conns[t]
          /\ s # 0 => conns'[s] # "open"
      BY <1>0, <2>2, Closed
    <3> QED  BY <2>3, <3>1, <3>2
  <2>4. CASE n = 0
    <3>1. link = 0 /\ Close(link) => UNCHANGED conns  BY DEF Close
    <3>2. link = 0  BY <1>0, <2>4 DEF TypeOK
    <3> QED  BY <1>3, <2>1, <2>2, <2>4, <3>1, <3>2 DEF StopCloses, LoopInv, Named
  <2> QED  BY <1>3, <2>1, <2>2, <2>3, <2>4 DEF StopCloses, LoopInv, Named
<1>4. ASSUME \/ \E j \in Jobs : Take(j) \/ Finish(j)
             \/ Ask \/ Capture \/ Cancel \/ Drained \/ Expire \/ Join
             \/ UNCHANGED vars
      PROVE  Named'
  <2>1. UNCHANGED <<runtime, loopVars, conns>> /\ (asked => asked')
    BY <1>4 DEF Take, Finish, Ask, Capture, Cancel, Drained, Expire, Join, vars, stopVars
  <2> QED  BY <2>1 DEF LoopInv, Named, loopVars
<1>5. CASE Exit
  <2>1. UNCHANGED <<runtime, loopVars, asked>> /\ conns' = [s \in Sessions |-> IF conns[s] = "open" THEN "closed" ELSE conns[s]]
    BY <1>5 DEF Exit
  <2>2. n \in Sessions => conns'[n] # "open"  BY <2>1
  <2>3. n = 0 => link = 0  BY <1>0 DEF TypeOK
  <2>4. n = 0 \/ n \in Sessions  BY <1>0 DEF TypeOK, Sessions
  <2> QED  BY <2>1, <2>2, <2>3, <2>4 DEF LoopInv, Named, loopVars
<1> QED  BY <1>1, <1>2, <1>3, <1>4, <1>5 DEF Next, StopStep

\* The signal, and the last dial.
LEMMA SignalStep ==
  ASSUME LoopInv, [Next]_vars
  PROVE  Signalled' /\ LateOnce'
<1>1. CASE LoopStep
  <2>1. Signalled'
    BY <1>1 DEF LoopStep, Top, Connects, DialFails, OpensChannel, ChannelFails, SetupFails, Consume, Register, Leave, After, Rest,
      LoopInv, Signalled, stopVars
  <2>2. LateOnce'
    BY <1>1 DEF LoopStep, Top, Connects, DialFails, OpensChannel, ChannelFails, SetupFails, Consume, Register, Leave, After, Rest,
      LoopInv, LateOnce, stopVars, TypeOK
  <2> QED  BY <2>1, <2>2
<1>2. ASSUME \/ \E j \in Jobs : Take(j) \/ Finish(j)
             \/ \E s \in Sessions : Drop(s)
             \/ UNCHANGED vars
      PROVE  Signalled' /\ LateOnce'
  <2>1. UNCHANGED <<loopVars, stopVars, late>>  BY <1>2 DEF Take, Finish, Drop, vars
  <2> QED  BY <2>1 DEF loopVars, stopVars, LoopInv, Signalled, LateOnce
<1>3. CASE Ask
  BY <1>3 DEF Ask, loopVars, LoopInv, Signalled, LateOnce
<1>4. CASE StopStep
  <2>1. main # "serving" \/ Exit
    BY <1>4 DEF StopStep, Capture, Cancel, Drained, Expire, StopCloses, Join
  <2>2. CASE Exit
    <3>1. asked  BY <2>2 DEF Exit, LoopInv, Signalled
    <3> QED  BY <2>2, <3>1 DEF Exit, loopVars, LoopInv, Signalled, LateOnce
  <2>3. CASE ~ Exit
    BY <1>4, <2>1, <2>3 DEF StopStep, Capture, Cancel, Drained, Expire, StopCloses, Join,
      loopVars, LoopInv, Signalled, LateOnce
  <2> QED  BY <2>2, <2>3
<1> QED  BY <1>1, <1>2, <1>3, <1>4 DEF Next

\* The first state has no connection.
LEMMA LoopInit ==
  ASSUME Init
  PROVE  LoopInv
<1> USE SessionAssumption DEF Init
<1>1. hand \in [Jobs -> Hands]  BY DEF Idle, Hands
<1>2. TypeOK
  <2>1. {asked, told, expired} \subseteq BOOLEAN  OBVIOUS
  <2>2. {n, consuming, link, handle, taken} \subseteq 0..n /\ n <= MaxSessions
        /\ late \in 0..MaxSessions
    OBVIOUS
  <2>3. /\ conns \in [Sessions -> {"none", "open", "closed"}]
        /\ \A s \in Sessions : conns[s] = "none" <=> s > n
    BY DEF Sessions
  <2>4. cancelled \subseteq Sessions /\ refused \subseteq 1..n /\ cut \subseteq Jobs  OBVIOUS
  <2> QED  BY <1>1, <2>1, <2>2, <2>3, <2>4 DEF TypeOK, Phases, Stages
<1>3. Held = {}  BY DEF Held, Opened
<1> QED  BY <1>2, <1>3 DEF LoopInv, NewestOnly, Named, Signalled, LateOnce

\* The invariant of the run loop.
LEMMA LoopInvariant == Spec => []LoopInv
<1>1. LoopInv /\ [Next]_vars => LoopInv'  BY TypeStep, NewestStep, NamedStep, SignalStep DEF LoopInv
<1> QED  BY <1>1, LoopInit, PTL DEF Spec

\* Types are kept in the three runtimes, for any number of connections and jobs.
THEOREM SessionTypes == Spec => []TypeOK
<1>1. LoopInv => TypeOK  BY DEF LoopInv
<1> QED  BY <1>1, LoopInvariant, PTL

\* A failing broker costs one connection at a time, however often the loop
\* reconnects, whichever step fails and whenever the signal arrives; but in Node one
\* more is left for each channel that is refused.
THEOREM NeverTwoConnections == Spec => []OneConnection
<1>1. LoopInv => OneConnection
  <2> SUFFICES ASSUME LoopInv PROVE Cardinality(Held) <= 1
    BY DEF OneConnection, Held, Opened
  <2>1. Held \subseteq {n}  BY DEF LoopInv, NewestOnly
  <2>2. IsFiniteSet({n}) /\ Cardinality({n}) = 1  BY FS_Singleton
  <2>3. Cardinality(Held) <= Cardinality({n})  BY <2>1, <2>2, FS_Subset
  <2> QED  BY <2>2, <2>3
<1> QED  BY <1>1, LoopInvariant, PTL

\* A stop during reconnection opens at most the connection being dialled.
THEOREM OneLateDial == Spec => []LateDialOnce
<1>1. LoopInv => LateDialOnce  BY DEF LoopInv, LateOnce, LateDialOnce
<1> QED  BY <1>1, LoopInvariant, PTL
-----------------------------------------------------------------------------
\* Why Node drains.  A job runs only on the newest connection while it is open
\* and consumed; until the signal the handle is its consumer, so stop() captures
\* it, and by the time stop() closes anything the job has ended or the deadline
\* has passed.
RunsOnNewest ==
  \A j \in Jobs : hand[j].state = "running" =>
    n # 0 /\ hand[j].on = n /\ consuming = n /\ conns[n] = "open"
FreshSetup ==
  /\ loop \in {"channel", "setup"} => consuming # n /\ n \notin refused
  /\ n \in refused => consuming # n
Handled ==
  runtime = "node" /\ n # 0 /\ consuming = n /\ conns[n] = "open" /\ ~ asked => handle = n
Captured ==
  runtime = "node" => \A j \in Jobs : hand[j].state = "running" /\ hand[j].early =>
    asked /\ hand[j].on = taken /\ (expired \/ main \in {"cancel", "drain"})
Order == (main = "serving" => ~ asked) /\ (main = "http" => runtime = "go")

DrainInv == LoopInv /\ RunsOnNewest /\ FreshSetup /\ Handled /\ Captured /\ Order /\ NodeDrains

\* A step that leaves connections, consumer, signal and jobs alone.
LEMMA DrainQuiet ==
  ASSUME DrainInv, LoopInv',
         UNCHANGED <<runtime, n, conns, consuming, asked, taken, expired, hand, cut, main>>,
         handle' = handle \/ conns[n] # "open" \/ asked,
         refused' = refused \/ (refused' = refused \cup {n} /\ consuming # n /\ loop' = "after"),
         loop' \in {"channel", "setup"} => loop \in {"channel", "setup"}
  PROVE  DrainInv'
BY DEF DrainInv, RunsOnNewest, FreshSetup, Handled, Captured, Order, NodeDrains, DrainsInHand

\* Connection s ends, whoever ends it, in a step that moves the shutdown no
\* further than early jobs allow.
LEMMA DrainClosed ==
  ASSUME DrainInv, LoopInv', NEW s \in 0..n, Close(s),
         UNCHANGED <<runtime, n, consuming, asked, taken, expired>>,
         main' = main \/ (main = "close" /\ main' = "join"),
         handle' = handle \/ asked \/ s = n,
         refused' = refused \/ (refused' = refused \cup {n} /\ consuming # n /\ loop' = "after"),
         loop' \in {"channel", "setup"} => loop \in {"channel", "setup"},
         runtime = "node" => Early(RunningOn(s)) = {} \/ expired
  PROVE  DrainInv'
<1>0. TypeOK /\ n \in Nat  BY DEF DrainInv, LoopInv, TypeOK
<1>1. /\ \A t \in Sessions : t # s => conns'[t] = conns[t]
      /\ s # 0 => s \in Sessions /\ conns'[s] # "open"
      /\ \A j \in Jobs : hand'[j].state = "running" =>
           hand'[j] = hand[j] /\ (hand[j].on = s => conns[s] # "open" \/ s = 0)
      /\ cut' = cut \/ (~ expired /\ cut' = cut \cup Early(RunningOn(s)))
  BY <1>0, Closed
<1>2. n # 0 => n \in Sessions  BY <1>0, SessionAssumption DEF TypeOK, Sessions
<1>3. RunsOnNewest'  BY <1>1, <1>2 DEF DrainInv, RunsOnNewest
<1>4. FreshSetup' /\ Order'  BY DEF DrainInv, FreshSetup, Order
<1>5. Handled'  BY <1>1, <1>2 DEF DrainInv, Handled
<1>6. Captured'  BY <1>1 DEF DrainInv, Captured
<1>7. NodeDrains'  BY <1>1 DEF DrainInv, NodeDrains, DrainsInHand
<1> QED  BY <1>3, <1>4, <1>5, <1>6, <1>7 DEF DrainInv

\* Every step keeps what makes Node drain.
LEMMA DrainStep ==
  ASSUME DrainInv, LoopInv', [Next]_vars
  PROVE  DrainInv'
<1>0. TypeOK /\ n \in Nat /\ n \in 0..n  BY DEF DrainInv, LoopInv, TypeOK
<1>1. CASE Top \/ After \/ Rest
  BY <1>1, DrainQuiet DEF Top, After, Rest, stopVars
<1>2. CASE Connects
  <2>1. Held = {}  BY <1>2 DEF Connects, DrainInv, LoopInv, NewestOnly
  <2>2. ASSUME NEW j \in Jobs, hand[j].state = "running" PROVE FALSE
    <3>1. n # 0 /\ consuming = n /\ conns[n] = "open"  BY <2>2 DEF DrainInv, RunsOnNewest
    <3>2. n \in Sessions /\ n \notin refused
      BY <1>0, <3>1 DEF TypeOK, Sessions, DrainInv, FreshSetup
    <3> QED  BY <2>1, <3>1, <3>2 DEF Held, Opened, Stranded
  <2>3. consuming # n' /\ n' \notin refused  BY <1>0, <1>2 DEF TypeOK, Connects
  <2> QED
    BY <1>2, <2>2, <2>3 DEF Connects, stopVars, DrainInv, RunsOnNewest, FreshSetup, Handled,
      Captured, Order, NodeDrains, DrainsInHand
<1>3. CASE DialFails \/ ChannelFails \/ SetupFails
  <2>0. /\ UNCHANGED <<runtime, n, consuming, handle, stopVars>>
        /\ loop' = "after"
        /\ refused' = refused \/ (refused' = refused \cup {n} /\ consuming # n)
        /\ consuming # n \/ DialFails
    BY <1>3 DEF DialFails, ChannelFails, SetupFails, DrainInv, FreshSetup
  <2>1. PICK mine \in 0..n : Salvages(mine)
    BY <1>0, <1>3 DEF DialFails, ChannelFails, SetupFails
  <2>2. \A j \in Jobs : hand[j].state # "running"
    <3>1. CASE DialFails
      <4>1. Held = {}  BY <3>1 DEF DialFails, DrainInv, LoopInv, NewestOnly
      <4>2. ASSUME NEW j \in Jobs, hand[j].state = "running" PROVE FALSE
        <5>1. n # 0 /\ consuming = n /\ conns[n] = "open"  BY <4>2 DEF DrainInv, RunsOnNewest
        <5>2. n \in Sessions /\ n \notin refused
          BY <1>0, <5>1, SessionAssumption DEF TypeOK, Sessions, DrainInv, FreshSetup
        <5> QED  BY <4>1, <5>1, <5>2 DEF Held, Opened, Stranded
      <4> QED  BY <4>2
    <3>2. CASE ~ DialFails  BY <2>0, <3>2 DEF DrainInv, RunsOnNewest
    <3> QED  BY <3>1, <3>2
  <2>3. CASE runtime = "python" /\ asked
    BY <2>0, <2>1, <2>3, DrainQuiet DEF Salvages, stopVars
  <2>4. CASE ~ (runtime = "python" /\ asked)
    <3>1. PICK s \in 0..n : Close(s)  BY <1>0, <2>1, <2>4 DEF Salvages, TypeOK
    <3>2. Early(RunningOn(s)) = {}  BY <2>2 DEF Early, RunningOn
    <3> QED  BY <2>0, <3>1, <3>2, DrainClosed DEF stopVars
  <2> QED  BY <2>3, <2>4
<1>3b. CASE OpensChannel
  BY <1>3b, DrainQuiet DEF OpensChannel, stopVars
<1>4. CASE Consume
  <2>1. \A j \in Jobs : hand[j].state # "running"
    BY <1>4 DEF Consume, DrainInv, RunsOnNewest, FreshSetup
  <2> QED
    BY <1>4, <2>1 DEF Consume, stopVars, DrainInv, RunsOnNewest, FreshSetup, Handled, Captured,
      Order, NodeDrains, DrainsInHand
<1>5. CASE Register
  BY <1>5 DEF Register, stopVars, DrainInv, RunsOnNewest, FreshSetup, Handled, Captured,
    Order, NodeDrains, DrainsInHand
<1>6. CASE Leave
  <2>1. CASE runtime = "go"
    BY <1>0, <1>6, <2>1, DrainClosed DEF Leave, stopVars
  <2>2. CASE runtime # "go"
    <3>1. conns[n] # "open" \/ asked
      BY <1>6, <2>2 DEF Leave, Woken, DrainInv, LoopInv, Signalled
    <3> QED  BY <1>6, <2>2, <3>1, DrainQuiet DEF Leave, stopVars
  <2> QED  BY <2>1, <2>2
<1>7. ASSUME NEW j \in Jobs, Take(j)
      PROVE  DrainInv'
  <2>1. hand'[j] = [state |-> "running", on |-> n, early |-> FALSE]
        /\ \A i \in Jobs : i # j => hand'[i] = hand[i]
    BY <1>0, <1>7 DEF Take, TypeOK
  <2>2. UNCHANGED <<runtime, loopVars, conns, cancelled, stopVars, late, refused, cut>>
        /\ n # 0 /\ consuming = n /\ conns[n] = "open"
    BY <1>7 DEF Take
  <2> QED
    BY <2>1, <2>2 DEF loopVars, stopVars, DrainInv, RunsOnNewest, FreshSetup, Handled,
      Captured, Order, NodeDrains, DrainsInHand
<1>8. ASSUME NEW j \in Jobs, Finish(j)
      PROVE  DrainInv'
  <2>1. hand'[j] = Idle /\ \A i \in Jobs : i # j => hand'[i] = hand[i]
    BY <1>0, <1>8 DEF Finish, TypeOK
  <2>2. UNCHANGED <<runtime, loopVars, conns, cancelled, stopVars, late, refused, cut>>
    BY <1>8 DEF Finish
  <2> QED
    BY <2>1, <2>2 DEF Idle, loopVars, stopVars, DrainInv, RunsOnNewest, FreshSetup, Handled,
      Captured, Order, NodeDrains, DrainsInHand
<1>9. ASSUME NEW s \in Sessions, Drop(s)
      PROVE  DrainInv'
  <2>1. /\ conns'[s] = "closed" /\ \A t \in Sessions : t # s => conns'[t] = conns[t]
        /\ \A j \in Jobs : hand'[j].state = "running" => hand'[j] = hand[j] /\ hand[j].on # s
    BY <1>0, <1>9, Ended DEF Drop
  <2>2. cut' = cut /\ UNCHANGED <<runtime, loopVars, cancelled, stopVars, late, refused>>
    BY <1>9 DEF Drop, Ends
  <2>3. n # 0 => n \in Sessions  BY <1>0, SessionAssumption DEF TypeOK, Sessions
  <2> QED
    BY <2>1, <2>2, <2>3 DEF loopVars, stopVars, DrainInv, RunsOnNewest, FreshSetup, Handled,
      Captured, Order, NodeDrains, DrainsInHand
<1>10. CASE Ask
  <2>1. \A j \in Jobs : hand'[j].state = hand[j].state /\ hand'[j].on = hand[j].on
    BY <1>0, <1>10 DEF Ask, TypeOK, Hands
  <2>2. ~ asked  BY <1>10 DEF Ask, DrainInv, Order
  <2>3. ASSUME runtime = "node", NEW j \in Jobs, hand[j].state = "running"
        PROVE  hand[j].on = taken' /\ main' = "cancel"
    BY <1>10, <2>2, <2>3 DEF Ask, DrainInv, RunsOnNewest, Handled
  <2>4. UNCHANGED <<runtime, loopVars, conns, refused, cut>> /\ asked' /\ main' \in {"http", "cancel"}
        /\ (main' = "http" => runtime = "go")
    BY <1>10 DEF Ask
  <2>5. RunsOnNewest'  BY <2>1, <2>4 DEF DrainInv, RunsOnNewest, loopVars
  <2>6. Captured'  BY <2>1, <2>3, <2>4 DEF Captured
  <2> QED
    BY <2>4, <2>5, <2>6 DEF loopVars, DrainInv, FreshSetup, Handled, Order, NodeDrains, DrainsInHand
<1>11. CASE Capture
  BY <1>11 DEF Capture, loopVars, DrainInv, RunsOnNewest, FreshSetup, Handled, Captured, Order,
    LoopInv, Signalled, NodeDrains, DrainsInHand
<1>12. CASE Cancel
  BY <1>12 DEF Cancel, loopVars, DrainInv, RunsOnNewest, FreshSetup, Handled, Captured, Order,
    NodeDrains, DrainsInHand
<1>13. CASE Drained
  <2>1. ASSUME runtime = "node", NEW j \in Jobs, hand[j].state = "running", hand[j].early
        PROVE  FALSE
    BY <1>13, <2>1 DEF Drained, Awaited, Busy, DrainInv, RunsOnNewest, Captured
  <2> QED
    BY <1>13, <2>1 DEF Drained, loopVars, DrainInv, RunsOnNewest, FreshSetup, Handled, Captured,
      Order, NodeDrains, DrainsInHand
<1>14. CASE Expire
  BY <1>14 DEF Expire, loopVars, DrainInv, RunsOnNewest, FreshSetup, Handled, Captured, Order,
    NodeDrains, DrainsInHand
<1>15. CASE StopCloses
  <2>1. runtime = "node" => \A j \in Jobs :
          hand[j].state = "running" /\ hand[j].early => expired
    BY <1>15 DEF StopCloses, DrainInv, Captured
  <2>2. PICK s \in 0..n : Close(s)  BY <1>0, <1>15 DEF TypeOK, StopCloses
  <2>3. runtime = "node" => Early(RunningOn(s)) = {} \/ expired
    BY <2>1 DEF Early, RunningOn
  <2> QED  BY <1>15, <2>2, <2>3, DrainClosed DEF StopCloses
<1>16. CASE Join
  BY <1>16 DEF Join, loopVars, DrainInv, RunsOnNewest, FreshSetup, Handled, Captured, Order,
    NodeDrains, DrainsInHand
<1>17. CASE Exit
  <2>1. \A j \in Jobs : hand'[j].state # "running"  BY <1>17 DEF Exit, Idle
  <2>2. runtime = "node" => cut' = {}
    BY <1>17 DEF Exit, DrainInv, Captured, NodeDrains, DrainsInHand, Early
  <2>3. \A s \in Sessions : conns'[s] # "open"  BY <1>17 DEF Exit
  <2>4. n # 0 => n \in Sessions  BY <1>0, SessionAssumption DEF TypeOK, Sessions
  <2> QED
    BY <1>17, <2>1, <2>2, <2>3, <2>4 DEF Exit, loopVars, DrainInv, RunsOnNewest, FreshSetup, Handled,
      Captured, Order, NodeDrains, DrainsInHand
<1>18. CASE UNCHANGED vars
  BY <1>18, DrainQuiet DEF vars, loopVars, stopVars
<1> QED
  BY <1>1, <1>2, <1>3, <1>3b, <1>4, <1>5, <1>6, <1>7, <1>8, <1>9, <1>10, <1>11, <1>12, <1>13, <1>14,
    <1>15, <1>16, <1>17, <1>18
  DEF Next, LoopStep, StopStep

\* At first nothing is in hand.
LEMMA DrainInit ==
  ASSUME Init
  PROVE  DrainInv
BY LoopInit DEF Init, Idle, DrainInv, RunsOnNewest, FreshSetup, Handled, Captured, Order,
  NodeDrains, DrainsInHand

\* In Node whatever was in hand at the signal ends before this process lets go
\* of its delivery, unless the drain deadline passes or the connection is lost.
THEOREM NodeAlwaysDrains == Spec => []NodeDrains
<1>1. LoopInv /\ [Next]_vars => LoopInv'  BY TypeStep, NewestStep, NamedStep, SignalStep DEF LoopInv
<1>2. DrainInv /\ [Next]_vars => DrainInv'  BY <1>1, DrainStep DEF DrainInv
<1>3. DrainInv => NodeDrains  BY DEF DrainInv
<1> QED  BY <1>2, <1>3, DrainInit, PTL DEF Spec
=============================================================================
