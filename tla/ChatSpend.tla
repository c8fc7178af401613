----------------------------- MODULE ChatSpend -----------------------------
(***************************************************************************)
(* POST /api/chat (api/src/server.ts): the brake in front of the billed     *)
(* call and the tokens counted after it.  The counters live in Postgres,    *)
(* behind the data client (api/src/data.ts), which repeats a call once when *)
(* no answer came; the minute window lives in the api process.              *)
(***************************************************************************)
EXTENDS Naturals, FiniteSets

CONSTANTS People, Requests, \* people; requests the api serves at the same time
          PerMinute,      \* CHAT_PER_MINUTE
          OwnCap, AllCap, \* questions a day by lane: of one person, of everybody
          TokCap, TokAll, \* tokens a day: of one person, of everybody
          Turn,           \* the most tokens one turn spends
          MaxDays, MaxSent, MaxUnanswered

Lanes == {"free", "paid"}
Days == 1..MaxDays

ASSUME ChatAssumption ==
  /\ OwnCap \in [Lanes -> Nat] /\ AllCap \in [Lanes -> Nat]
  /\ TokCap \in Nat /\ TokAll \in Nat /\ Turn \in Nat /\ PerMinute \in Nat
  /\ MaxDays \in Nat \ {0} /\ MaxSent \in Nat /\ MaxUnanswered \in Nat
  /\ IsFiniteSet(Requests)

VARIABLES window,    \* windows: messages of each person in the last minute
          n,         \* the counters of the jobs table, by key
          today,
          chat,      \* each request on its way
          asked,     \* history: billed turns that were let through, by question key
          sent,      \* requests that have started
          unanswered \* calls to the data service that got no answer

chatVars == <<window, n, today, chat, asked, sent, unanswered>>

\* chatDayKey, chatGlobalKey, chatFreeDayKey, chatFreeGlobalKey
OwnKey(lane, u, d) == <<"own", lane, u, d>>
AllKey(lane, d) == <<"all", lane, d>>
\* chatTokDayKey, chatTokGlobalKey
TokKey(u, d) == <<"tok", u, d>>
TokAllKey(d) == <<"tokAll", d>>

QuestionKeys == {OwnKey(l, u, d) : l \in Lanes, u \in People, d \in Days}
                \cup {AllKey(l, d) : l \in Lanes, d \in Days}
TokenKeys == {TokKey(u, d) : u \in People, d \in Days} \cup {TokAllKey(d) : d \in Days}

Cap(k) == CASE k[1] = "own" -> OwnCap[k[2]] [] k[1] = "all" -> AllCap[k[2]]
            [] k[1] = "tok" -> TokCap [] k[1] = "tokAll" -> TokAll

Free == [at |-> "none"]

ChatInit ==
  /\ window = [u \in People |-> 0]
  /\ n = [k \in QuestionKeys \cup TokenKeys |-> 0]
  /\ today = 1
  /\ chat = [s \in Requests |-> Free]
  /\ asked = [k \in QuestionKeys |-> 0]
  /\ sent = 0 /\ unanswered = 0

Goes(s, at) == chat' = [chat EXCEPT ![s].at = at, ![s].try = 1]
Answers(s) == chat' = [chat EXCEPT ![s] = Free]

\* minuteBucket, then the lane and the day the whole brake uses.
Arrives(s, u, lane) ==
  /\ chat[s] = Free /\ sent < MaxSent
  /\ sent' = sent + 1
  /\ IF window[u] >= PerMinute
     THEN UNCHANGED <<window, chat>>
     ELSE /\ window' = [window EXCEPT ![u] = @ + 1]
          /\ chat' = [chat EXCEPT ![s] =
               [at |-> "own", try |-> 1, u |-> u, lane |-> lane, day |-> today,
                over |-> FALSE, used |-> 0]]
  /\ UNCHANGED <<n, today, asked, unanswered>>

WindowSlides(u) ==
  /\ window[u] > 0
  /\ window' = [window EXCEPT ![u] = @ - 1]
  /\ UNCHANGED <<n, today, chat, asked, sent, unanswered>>

-----------------------------------------------------------------------------
(* increment(): counter.bump, which is one statement, then counter.read.    *)

\* The key the request is about to bump or read at each place.
CounterOf(c) == CASE c.at \in {"own", "ownRead"} -> OwnKey(c.lane, c.u, c.day)
              [] c.at \in {"all", "allRead"} -> AllKey(c.lane, c.day)
              [] c.at \in {"tok", "billOwn"} -> TokKey(c.u, c.day)
              [] c.at \in {"tokAll", "billAll"} -> TokAllKey(c.day)
\* What comes after each call that got its answer.
After == [own |-> "ownRead", ownRead |-> "all", all |-> "allRead", allRead |-> "tok",
          tok |-> "tokAll", tokAll |-> "ask", billOwn |-> "billAll", billAll |-> "store"]
Bumping == {"own", "all", "billOwn", "billAll"}
Amount(c) == IF c.at \in {"billOwn", "billAll"} THEN c.used ELSE 1

Counted(s) == n' = [n EXCEPT ![CounterOf(chat[s])] = @ + Amount(chat[s])]

Bumps(s) ==
  /\ chat[s].at \in Bumping
  /\ Counted(s) /\ Goes(s, After[chat[s].at])
  /\ UNCHANGED <<window, today, asked, sent, unanswered>>

\* No answer: the statement ran or it did not.  One more attempt, then
\* DataUnreachable, and the request ends with an error.
BumpUnanswered(s) ==
  /\ chat[s].at \in Bumping /\ unanswered < MaxUnanswered
  /\ Counted(s) \/ UNCHANGED n
  /\ IF chat[s].try = 1 THEN chat' = [chat EXCEPT ![s].try = 2] ELSE Answers(s)
  /\ unanswered' = unanswered + 1
  /\ UNCHANGED <<window, today, asked, sent>>

Throws(s) ==
  /\ chat[s].at \in DOMAIN After /\ unanswered < MaxUnanswered
  /\ Answers(s) /\ unanswered' = unanswered + 1
  /\ UNCHANGED <<window, n, today, asked, sent>>

\* chatBrake and tokenCeiling compare alike: past the cap, not at it.
Over(k) == n[k] > Cap(k)

\* The counter is read, in a call of its own, and the message goes on or is refused.
Reads(s) ==
  /\ chat[s].at \in {"ownRead", "allRead"}
  /\ IF Over(CounterOf(chat[s])) THEN Answers(s) ELSE Goes(s, After[chat[s].at])
  /\ UNCHANGED <<window, n, today, asked, sent, unanswered>>

\* readCounter twice, then tokenCeiling; the request that passes goes to the provider.
ReadsTokens(s) ==
  /\ chat[s].at \in {"tok", "tokAll"}
  /\ LET c == chat[s]
         over == c.over \/ Over(CounterOf(c))
         billed == {OwnKey(c.lane, c.u, c.day), AllKey(c.lane, c.day)}
     IN \/ /\ c.at = "tok"
           /\ chat' = [chat EXCEPT ![s].at = "tokAll", ![s].over = over]
           /\ UNCHANGED asked
        \/ c.at = "tokAll" /\ over /\ Answers(s) /\ UNCHANGED asked
        \/ /\ c.at = "tokAll" /\ ~over
           /\ Goes(s, "ask")
           /\ asked' = [k \in QuestionKeys |-> IF k \in billed THEN asked[k] + 1 ELSE asked[k]]
  /\ UNCHANGED <<window, n, today, sent, unanswered>>

-----------------------------------------------------------------------------
\* talkToAi never throws: a turn that failed, or that was not awaited longer than
\* the timeout, has no trace, and counts as no tokens.  The day is read again.
Asks(s) ==
  /\ chat[s].at = "ask"
  /\ \E used \in 0..Turn :
       chat' = [chat EXCEPT ![s].at = IF used > 0 THEN "billOwn" ELSE "store", ![s].try = 1,
                            ![s].used = used, ![s].day = today]
  /\ UNCHANGED <<window, n, today, asked, sent, unanswered>>

\* rememberTurn never throws; the answer leaves.
Stores(s) ==
  /\ chat[s].at = "store"
  /\ Answers(s)
  /\ UNCHANGED <<window, n, today, asked, sent, unanswered>>

Midnight ==
  /\ today < MaxDays
  /\ today' = today + 1
  /\ UNCHANGED <<window, n, chat, asked, sent, unanswered>>

\* Mutant: the daily counters are a Map of the process, like the minute window.
RestartForgets ==
  /\ window' = [u \in People |-> 0] /\ chat' = [s \in Requests |-> Free]
  /\ n' = [k \in DOMAIN n |-> 0]
  /\ UNCHANGED <<today, asked, sent, unanswered>>

\* The api restarts (a deploy): the window and the requests are gone.
Restart ==
  /\ window' = [u \in People |-> 0] /\ chat' = [s \in Requests |-> Free]
  /\ UNCHANGED <<n, today, asked, sent, unanswered>>

ChatNext ==
  \/ \E s \in Requests :
       \/ \E u \in People, lane \in Lanes : Arrives(s, u, lane)
       \/ Bumps(s) \/ BumpUnanswered(s) \/ Throws(s)
       \/ Reads(s) \/ ReadsTokens(s) \/ Asks(s) \/ Stores(s)
  \/ \E u \in People : WindowSlides(u)
  \/ Midnight
  \/ Restart

ChatSpec == ChatInit /\ [][ChatNext]_chatVars

-----------------------------------------------------------------------------
ChatCalls == {Free} \cup
  [at: {"own", "ownRead", "all", "allRead", "tok", "tokAll", "ask", "billOwn", "billAll", "store"},
   try: 1..2, u: People, lane: Lanes, day: Days, over: BOOLEAN, used: 0..Turn]

\* What the process and the jobs table hold.
ChatTypeOK ==
  /\ window \in [People -> 0..PerMinute]
  /\ n \in [QuestionKeys \cup TokenKeys -> Nat]
  /\ today \in Days
  /\ chat \in [Requests -> ChatCalls]
  /\ asked \in [QuestionKeys -> Nat]
  /\ sent \in 0..MaxSent /\ unanswered \in 0..MaxUnanswered

\* No day sees more billed questions than its ceilings, of a person or of the
\* platform, though the count and the comparison are two calls, some of them
\* repeated, and the api restarts in between.
CapsHold == \A k \in QuestionKeys : asked[k] <= Cap(k)

\* The tokens counted for a day pass the ceiling by no more than one turn for
\* each request the api serves at a time, and one for each write repeated.
OvershootByThoseUnderWay ==
  \A k \in TokenKeys : n[k] <= Cap(k) + (Cardinality(Requests) + unanswered) * Turn

\* Both: the caps of the questions and the ceilings of the tokens.  (server.ts chat,
\* chat-ceiling.ts)
CeilingsHold == CapsHold /\ OvershootByThoseUnderWay
=============================================================================
