-------------------------------- MODULE MCApi --------------------------------
(* What one person's requests to the api do to accounts, to the counters of    *)
(* the chat, to its stored conversation and to users.paid; the gate of the     *)
(* password hash; what is published for other services; and the calls to the    *)
(* data service: a behaviour is one of the seven.                               *)
EXTENDS Accounts, KdfGate, Access, ChatSpend, DataClient, BusFanout, Threads, TLC

CONSTANTS a, b, s1, s2, g1, g2, e1, e2, k1, k2, qa, qq, qi
Roster == (a :> "root") @@ (b :> "none")
Symm == Permutations({s1, s2}) \cup Permutations({g1, g2}) \cup Permutations({e1, e2})
Own == [free |-> 1, paid |-> 2]
All == [free |-> 1, paid |-> 3]

VARIABLE focus

\* An echo that every service is bound to, and a key that none is.  The api worker
\* and the queue service claim in the jobs table.
MCKeyOf == [c \in {k1, k2} |-> IF c = k1 THEN "bus.echo" ELSE "none"]
MCBound == [x \in {qa, qq, qi} |-> {"bus.echo"}]

ApiInit ==
  /\ focus \in {"accounts", "chat", "thread", "access", "kdf", "fan", "data"}
  /\ Init /\ ChatInit /\ ThreadsInit /\ AccessInit /\ KdfInit /\ FanInit
  /\ DataInit /\ (focus # "data" => secret)
  /\ (focus # "access" => ~ paid)
ApiNext ==
  \/ focus = "accounts" /\ Next
     /\ UNCHANGED <<focus, chatVars, threadVars, accessVars, kdfVars, fanVars, dataVars>>
  \/ focus = "chat" /\ ChatNext
     /\ UNCHANGED <<focus, vars, threadVars, accessVars, kdfVars, fanVars, dataVars>>
  \/ focus = "thread" /\ ThreadsNext
     /\ UNCHANGED <<focus, vars, chatVars, accessVars, kdfVars, fanVars, dataVars>>
  \/ focus = "access" /\ AccessNext
     /\ UNCHANGED <<focus, vars, chatVars, threadVars, kdfVars, fanVars, dataVars>>
  \/ focus = "kdf" /\ KdfNext
     /\ UNCHANGED <<focus, vars, chatVars, threadVars, accessVars, fanVars, dataVars>>
  \/ focus = "fan" /\ FanNext
     /\ UNCHANGED <<focus, vars, chatVars, threadVars, accessVars, kdfVars, dataVars>>
  \/ focus = "data" /\ DataNext
     /\ UNCHANGED <<focus, vars, chatVars, threadVars, accessVars, kdfVars, fanVars>>
ApiSpec == ApiInit /\ [][ApiNext]_<<focus, vars, chatVars, threadVars, accessVars,
                                   kdfVars, fanVars, dataVars>>

==============================================================================
