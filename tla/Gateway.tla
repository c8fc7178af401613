------------------------------ MODULE Gateway ------------------------------
(***************************************************************************)
(* The front of the api (api/src/server.ts): the version prefixes that name *)
(* one handler, the hooks every request goes through, and what each route   *)
(* answers to whom, the gateway to payments and the bridge of the internal  *)
(* services among them.  The handlers that change tables have modules of    *)
(* their own; what is stateful here is the count of each prefix and the     *)
(* brake of the forms (api/src/brake.ts).                                   *)
(***************************************************************************)
EXTENDS Integers, FiniteSets

CONSTANTS Ips,
          Versions,    \* what may stand before the path; "v9" was never published
          Callers,     \* those who ask, Nobody among them
          Limit,       \* AUTH_LIMITS: how many POSTs of each form in a window
          Window,      \* 60_000 ms, in ticks
          SweepAt,     \* the size past which the map of counters is swept
          MaxTime, MaxForms, MaxHits

Forms == DOMAIN Limit

ASSUME GatewayAssumption ==
  /\ \A f \in Forms : Limit[f] \in Nat \ {0}
  /\ Window \in Nat \ {0} /\ SweepAt \in Nat /\ MaxTime \in Nat /\ MaxForms \in Nat /\ MaxHits \in Nat

Windows == 0..(MaxTime \div Window)

VARIABLES now,
          counters,  \* memoryBrakeCounters: <<form, ip, bucket>> -> count
          hits,      \* of the deprecated prefixes
          legacy,    \* legacyHits
          answer,    \* the answer to the last request
          passed,    \* history: how many of each form were let through from each ip in each window
          formsLeft       \* forms to come

gatewayVars == <<now, counters, hits, legacy, answer, passed, formsLeft>>

\* Who asks: nobody, or a person with a role, a purchase, a cohort, a throttle.
Nobody == [role |-> "none", paid |-> FALSE, cohort |-> FALSE, throttled |-> FALSE]
People == [role: {"student", "tutor", "admin", "root"}, paid: BOOLEAN, cohort: BOOLEAN, throttled: BOOLEAN]

GatewayInit ==
  /\ now = 0 /\ counters = <<>> /\ hits = [v \in {"v1", "v2"} |-> 0] /\ legacy = 0
  /\ answer = [status |-> 0, shows |-> "nothing", to |-> "nobody"]
  /\ passed = [k \in Forms \X Ips \X Windows |-> 0] /\ formsLeft = MaxForms

-----------------------------------------------------------------------------
(* The prefixes: rewriteUrl, and the count it keeps of the deprecated ones.   *)

Known(v) == v # "v9"
\* The surface without a version is v2.
Marked(v) == IF v = "plain" THEN "v2" ELSE v
Counts(v) ==
  IF Known(v) /\ v # "v3"
  THEN hits' = [hits EXCEPT ![Marked(v)] = @ + 1] /\ legacy' = legacy + 1 /\ legacy < MaxHits
  ELSE UNCHANGED <<hits, legacy>>

AnswersTo(a, x) == answer' = [status |-> a.status, shows |-> a.shows, to |-> x]
Reply(a) == AnswersTo(a, "browser")
Says(n) == [status |-> n, shows |-> "nothing"]
Showing(x) == [status |-> 200, shows |-> x]

-----------------------------------------------------------------------------
(* The brake of the forms.                                                  *)

Bucket == now \div Window

\* Mutant: the prefix is part of the key.
PrefixedKey(v, f, ip) == <<<<v, f>>, ip, Bucket>>

\* slidingWindowKey: every prefix of a path is the same path.
Key(v, f, ip) == <<f, ip, Bucket>>

\* countWindow: counted, then swept of the buckets that are over, then compared.
Before(k) == IF k \in DOMAIN counters THEN counters[k] ELSE 0
Counted(k) == [j \in DOMAIN counters \cup {k} |-> IF j = k THEN Before(k) + 1 ELSE counters[j]]
Swept(m) == IF Cardinality(DOMAIN m) > SweepAt
            THEN [k \in {j \in DOMAIN m : j[3] >= Bucket} |-> m[k]] ELSE m

Form(v, f, ip) ==
  LET k == Key(v, f, ip)
      m == Counted(k)
  IN /\ counters' = Swept(m)
     /\ IF m[k] > Limit[f]
        THEN Reply(Says(429)) /\ UNCHANGED passed
        ELSE /\ Reply(IF Known(v) THEN Showing("form") ELSE Says(404))
             /\ passed' = [passed EXCEPT ![<<f, ip, Bucket>>] = @ + 1]
  /\ Counts(v) /\ formsLeft > 0 /\ formsLeft' = formsLeft - 1
  /\ UNCHANGED now

-----------------------------------------------------------------------------
(* What each route answers.                                                 *)

\* satisface: root contains every role, the others are flat.
Satisfies(who, roles) == who.role = "root" \/ who.role \in roles

\* requireUser, with the throttle of the defense service, and requireRole.
ForUser(who, a) == IF who = Nobody THEN Says(401) ELSE IF who.throttled THEN Says(429) ELSE a
ForRole(who, roles, a) == ForUser(who, IF Satisfies(who, roles) THEN a ELSE Says(403))

\* GET /api/tutor/cohort: a tutor without a cohort sees nobody.
Cohort(who) ==
  ForRole(who, {"tutor", "admin"},
          Showing(IF Satisfies(who, {"admin"}) THEN "everyone" ELSE IF who.cohort THEN "cohort" ELSE "nobody"))

\* callPayments and relay: what is down, or not configured, is a 503 and never an error.
Relay(up, x) == IF up THEN Showing(x) ELSE Says(503)

\* The routes that change nothing here; up: what is behind them answers.
RouteAnswer(r, who, up) ==
  CASE r = "pdf" -> ForUser(who, IF who.paid THEN Relay(up, "course") ELSE Says(402))
    [] r = "cohort" -> Cohort(who)
    [] r = "timeline" -> ForRole(who, {"admin"}, Showing("a student"))
    [] r = "solved" -> ForRole(who, {"root"}, Showing("platform"))
    [] r = "chatState" -> ForUser(who, Showing("providers"))
    [] r = "history" -> ForUser(who, Relay(up, "own turns"))
    [] r = "checkout" -> ForUser(who, Relay(up, "checkout"))
    [] r = "subscription" -> ForUser(who, Relay(up, "own subscription"))
    [] r = "adminPayments" -> ForRole(who, {"admin"}, Relay(up, "payments"))
    [] r = "paymentsState" -> Showing(IF up THEN "available" ELSE "unavailable")
    [] r = "webhook" -> Relay(up, "received")
    [] r = "alerts" -> IF up THEN Showing("calm") ELSE Says(503)
    [] r = "version" -> Showing("hits")

Routes == {"pdf", "cohort", "timeline", "solved", "chatState", "history", "checkout",
           "subscription", "adminPayments", "paymentsState", "webhook", "alerts", "version"}

Route(v, r, who, up) ==
  /\ Reply(IF Known(v) THEN RouteAnswer(r, who, up) ELSE Says(404))
  /\ Counts(v)
  /\ UNCHANGED <<now, counters, passed, formsLeft>>

\* OPTIONS is answered by a hook, whatever the route.
Preflight(v) ==
  /\ Reply(Says(204))
  /\ Counts(v)
  /\ UNCHANGED <<now, counters, passed, formsLeft>>

-----------------------------------------------------------------------------
(* The internal routes: for the services, and not through the tunnel.        *)

Secrets == {"none", "ai", "queue", "payments"}

\* Mutant: the edge is closed under the current prefix only.
EdgeOfV3(v) == v \in {"plain", "v3"}

\* The path is compared without its prefix, whichever it is.
Edge(v) == TRUE

\* Which secrets each accepts; the tool also wants the session it is for.
AcceptsSecret == [claim |-> {"queue", "ai"}, tool |-> {"ai"}, catalogue |-> {"ai"}, entitlements |-> {"payments"}]

Internal(v, r, tunnel, secret, session) ==
  /\ AnswersTo(IF (tunnel /\ Edge(v)) \/ ~Known(v) THEN Says(404)
                  ELSE IF secret \notin AcceptsSecret[r] \/ (r = "tool" /\ ~session) THEN Says(401)
                  ELSE Showing(r), IF tunnel THEN "tunnel" ELSE secret)
  /\ Counts(v)
  /\ UNCHANGED <<now, counters, passed, formsLeft>>

Tick == now < MaxTime /\ now' = now + 1
        /\ UNCHANGED <<counters, hits, legacy, answer, passed, formsLeft>>

\* The forms and the clock; everything else, which neither reads.
Braked == Tick \/ \E v \in Versions, f \in Forms, ip \in Ips : Form(v, f, ip)
Unbraked ==
  \E v \in Versions :
    \/ \E r \in Routes, who \in Callers, up \in BOOLEAN : Route(v, r, who, up)
    \/ Preflight(v)
    \/ \E r \in DOMAIN AcceptsSecret, t \in BOOLEAN, x \in Secrets, session \in BOOLEAN : Internal(v, r, t, x, session)
GatewayNext == Braked \/ Unbraked

GatewaySpec == GatewayInit /\ [][GatewayNext]_gatewayVars

-----------------------------------------------------------------------------
GatewayTypeOK ==
  /\ now \in 0..MaxTime /\ formsLeft \in 0..MaxForms /\ legacy = hits["v1"] + hits["v2"]
  /\ \A k \in DOMAIN counters : k[3] <= Bucket /\ counters[k] \in 1..MaxForms
  /\ answer.status \in {200, 0, 204, 401, 402, 403, 404, 429, 503}

\* Whatever prefix a request came in by and whatever was swept meanwhile, a window
\* lets through no more than the limit of the form, and the internal routes answer
\* to the services that hold a secret of theirs and never to the tunnel.
EveryPrefixIsGuarded ==
  /\ \A f \in Forms, ip \in Ips, b \in Windows : passed[<<f, ip, b>>] <= Limit[f]
  /\ answer.shows \in DOMAIN AcceptsSecret => answer.to \in AcceptsSecret[answer.shows]
=============================================================================
