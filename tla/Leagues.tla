------------------------------ MODULE Leagues ------------------------------
(***************************************************************************)
(* The weekly leagues (api/src/leagues.ts) and the public ranking they are  *)
(* drawn from: people opt in under an alias, solve labs, ask for the table  *)
(* on its page or through the agent (api/src/tools/progress.ts), and the    *)
(* week is closed by the cron, by an administrator or by the bus, all       *)
(* through closeWeek.  Every call to the data service is a step.            *)
(***************************************************************************)
EXTENDS Integers, FiniteSets, FiniteSetsExt

CONSTANTS Players, Seats,
          Aliases,     \* what people ask to be called, in their order: numbers
          MinLeague,   \* MIN_LEAGUE
          AllLabs,     \* 36: whoever solved them all is in the salon
          OnPage, OnTool, \* rows of the ranking: 50 of the query, 20 of the tool
          MaxWeek, MaxCalls

ASSUME LeaguesAssumption ==
  /\ IsFiniteSet(Players) /\ Aliases \subseteq Nat \ {0} /\ MinLeague \in Nat \ {0} /\ AllLabs \in Nat \ {0}
  /\ {OnPage, OnTool} \subseteq Nat \ {0} /\ MaxWeek \in Nat /\ MaxCalls \in Nat

Weeks == 0..MaxWeek
None == 0
NoPlace == [metal |-> "none", estado |-> "none", puesto |-> 0, caudal |-> 0]

VARIABLES week,      \* date_trunc('week', now())
          bought,      \* users.bought
          alias,     \* ranking_optin: alias of each person, None when out of it
          earlier,   \* joined_at: the pairs of people in it, the one who came first before
          first,     \* labs solved for the first time in each week, by person
          rows,      \* league_week: the row of each person and week, or NoPlace
          calls,     \* the request, or the close, in each slot
          promoted,  \* history: the promotions shown
          overdue,   \* history: rows written by a close that Monday crossed
          togo       \* requests to come

leagueVars == <<week, bought, alias, earlier, first, rows, calls, promoted, overdue, togo>>

Waiting == [at |-> "none"]

Joined == {u \in Players : alias[u] # None}
\* Of two people who opted in, one came first, and nobody before themselves.
Lined(e) == /\ \A u, v \in Joined : u # v => (<<u, v>> \in e <=> <<v, u>> \notin e)
            /\ \A u, v, w \in Joined : <<u, v>> \in e /\ <<v, w>> \in e => <<u, w>> \in e /\ u # w

LeaguesInit ==
  /\ week = 0 /\ bought = Players
  \* Some opted in before.
  /\ alias \in [Players -> Aliases \cup {None}]
  /\ \A u, v \in Players : alias[u] = alias[v] => u = v \/ alias[u] = None
  /\ earlier \in {e \in SUBSET (Joined \X Joined) : Lined(e)}
  /\ first = [u \in Players |-> [w \in Weeks |-> 0]]
  /\ rows = [u \in Players |-> [w \in Weeks |-> NoPlace]]
  /\ calls = [c \in Seats |-> Waiting]
  /\ promoted = {} /\ overdue = {} /\ togo = MaxCalls

-----------------------------------------------------------------------------
(* The calculation.                                                         *)

InAll(labs) == MapThenSumSet(LAMBDA w : labs[w], Weeks)
Total(u) == InAll(first[u])
\* league.flow: who opted in and has paid, with what they solved this week and in all.
Flow == [u \in {v \in bought : alias[v] # None} |->
          [alias |-> alias[u], caudal |-> first[u][week], total |-> Total(u)]]

\* ORDER BY caudal DESC, alias ASC
Place(flow, u) ==
  1 + Cardinality({v \in DOMAIN flow : \/ flow[v].caudal > flow[u].caudal
                                       \/ flow[v].caudal = flow[u].caudal /\ flow[v].alias < flow[u].alias})

\* Math.ceil(n * k / 3)
Cut(n, k) == (n * k + 2) \div 3

\* assignMetals: the third one lands in, and the salon for those who finished.
Standing(flow, u) ==
  LET n == Cardinality(DOMAIN flow)
      salon == flow[u].total >= AllLabs
      place == Place(flow, u)
  IN [metal |-> IF salon \/ place <= Cut(n, 1) THEN "oro"
                ELSE IF place <= Cut(n, 2) THEN "plata" ELSE "bronce",
      estado |-> IF salon THEN "salon" ELSE "activo",
      puesto |-> place, caudal |-> flow[u].caudal]

MetalOrder == [bronce |-> 1, plata |-> 2, oro |-> 3]

\* league.previous: the last week closed for this person before the current one.
Previous(u) == LET past == {w \in Weeks : w < week /\ rows[u][w] # NoPlace}
               IN {w \in past : \A v \in past : v <= w}

-----------------------------------------------------------------------------
(* The public ranking.                                                      *)

\* ranking.table: everybody who opted in, paid or not, by what they solved (lessons and
\* labs, here one figure) and then by who came first.
RankOf(u) == 1 + Cardinality({v \in Joined : \/ Total(v) > Total(u)
                                           \/ (Total(v) = Total(u) /\ <<v, u>> \in earlier)})
Ranking == {[alias |-> alias[u], labs |-> Total(u), place |-> RankOf(u)] :
              u \in {v \in Joined : RankOf(v) <= OnPage}}

\* table.findIndex(...) + 1, of the row with one's alias
Position(table, mine) ==
  LET own == {row.place : row \in {x \in table : mine # None /\ x.alias = mine}}
  IN  IF own = {} THEN 0 ELSE Min(own)

\* The page looks for one's alias in the whole table, ranking_publico in what it shows.
RankingPage(got) == [table |-> got.table, me |-> got.mine, place |-> Position(got.table, got.mine)]
RankingTool(got) ==
  LET table == {row \in got.table : row.place <= OnTool}
  IN  [table |-> table, me |-> got.mine, place |-> Position(table, got.mine)]

-----------------------------------------------------------------------------
(* What a person is shown of the league.                                    *)

Enough(flow) == Cardinality(DOMAIN flow) >= MinLeague
Mine(flow, u) == IF u \in DOMAIN flow THEN Standing(flow, u) ELSE NoPlace
Listed(flow) == {[alias |-> flow[u].alias, row |-> Standing(flow, u)] : u \in DOMAIN flow}

\* leaguesState, but for the promotion: GET /api/ligas.
LeaguePage(got, u) ==
  [active |-> Enough(got.flow), lunes |-> got.week,
   table |-> IF Enough(got.flow) THEN Listed(got.flow) ELSE {},
   me |-> IF Enough(got.flow) THEN Mine(got.flow, u) ELSE NoPlace]

\* leagueFor and mi_liga: the first thing that is missing, or one's place.
LeagueTool(got, u) ==
  LET lacks == IF ~got.me THEN "requiere_compra" ELSE IF got.mine = None THEN "sin_alias"
               ELSE IF ~Enough(got.flow) THEN "cohorte_insuficiente" ELSE "nothing"
  IN  [active |-> lacks = "nothing", lacks |-> lacks, lunes |-> got.week,
       me |-> IF lacks = "nothing" THEN Mine(got.flow, u) ELSE NoPlace]

\* ligas_tabla
LeagueTable(got) ==
  IF Enough(got.flow)
  THEN [active |-> TRUE, lunes |-> got.week, table |-> Listed(got.flow), mine |-> got.mine]
  ELSE [active |-> FALSE, lunes |-> got.week, table |-> {}, mine |-> None]

-----------------------------------------------------------------------------
(* The people.                                                              *)

\* A change under a request that is being answered, and after one that was.
Touched ==
  [c \in Seats |-> CASE calls[c].at = "reads" -> [calls[c] EXCEPT !.crossed = TRUE]
                     [] calls[c].at = "said" -> Waiting
                     [] OTHER -> calls[c]]

SolvesLab(u) ==
  /\ Total(u) < AllLabs
  /\ first' = [first EXCEPT ![u][week] = @ + 1] /\ calls' = Touched
  /\ UNCHANGED <<week, bought, alias, earlier, rows, promoted, overdue, togo>>

Buys(u) ==
  /\ bought' = IF u \in bought THEN bought \ {u} ELSE bought \cup {u}
  /\ togo > 0 /\ togo' = togo - 1 /\ calls' = Touched
  /\ UNCHANGED <<week, alias, earlier, first, rows, promoted, overdue>>

Monday ==
  /\ week < MaxWeek
  /\ week' = week + 1 /\ calls' = Touched
  /\ UNCHANGED <<bought, alias, earlier, first, rows, promoted, overdue, togo>>

-----------------------------------------------------------------------------
(* POST and DELETE /api/ranking/optin.                                      *)

Starts(c, r) ==
  /\ calls[c].at \in {"none", "said"} /\ togo > 0
  /\ togo' = togo - 1
  /\ calls' = [calls EXCEPT ![c] = r]

\* ranking.alias_clash: somebody else's alias is refused.
OptIn(c, u, x) ==
  /\ \A v \in Players \ {u} : alias[v] # x
  /\ Starts(c, [at |-> "upsert", u |-> u, alias |-> x])
  /\ UNCHANGED <<week, bought, alias, earlier, first, rows, promoted, overdue>>

\* ranking.upsert: the alias may have been taken meanwhile; the unique index says so.
Enters(c) ==
  /\ calls[c].at = "upsert"
  /\ LET u == calls[c].u
         x == calls[c].alias
         taken == \E v \in Players \ {u} : alias[v] = x
     IN /\ alias' = IF taken THEN alias ELSE [alias EXCEPT ![u] = x]
        /\ earlier' = IF taken \/ alias[u] # None THEN earlier ELSE earlier \cup (Joined \X {u})
  /\ calls' = [Touched EXCEPT ![c] = Waiting]
  /\ UNCHANGED <<week, bought, first, rows, promoted, overdue, togo>>

OptOut(u) ==
  /\ alias[u] # None /\ togo > 0 /\ togo' = togo - 1
  /\ alias' = [alias EXCEPT ![u] = None] /\ earlier' = {p \in earlier : u \notin {p[1], p[2]}}
  /\ calls' = Touched
  /\ UNCHANGED <<week, bought, first, rows, promoted, overdue>>

-----------------------------------------------------------------------------
(* GET /api/ligas, GET /api/ranking, mi_liga, ligas_tabla, ranking_publico. *)

\* What each reads, and what it reads before that.
Reading(kind) ==
  CASE kind = "ligas" -> [flow |-> {}, week |-> {"flow"}, previous |-> {"flow", "week"}]
    [] kind = "mi_liga" -> [me |-> {}, flow |-> {"me"}, week |-> {"me"}, mine |-> {"me", "flow", "week"}]
    [] kind = "ligas_tabla" -> [flow |-> {}, week |-> {}, mine |-> {"flow", "week"}]
    [] kind \in {"ranking", "ranking_publico"} -> [table |-> {}, mine |-> {}]
Kinds == {"ligas", "mi_liga", "ligas_tabla", "ranking", "ranking_publico"}

Asks(c, u, kind) ==
  /\ Starts(c, [at |-> "reads", kind |-> kind, u |-> u, got |-> <<>>, crossed |-> FALSE])
  /\ UNCHANGED <<week, bought, alias, earlier, first, rows, promoted, overdue>>

\* What is left is not read when the table is not there, or one is not on it.
ReadAll(r, got) ==
  \/ DOMAIN got = DOMAIN Reading(r.kind)
  \/ {"flow", "week"} \subseteq DOMAIN got
     /\ \/ r.kind = "ligas_tabla" /\ ~Enough(got.flow)
        \/ r.kind = "ligas" /\ LeaguePage(got, r.u).me = NoPlace

Tells(r, got) ==
  [at |-> "said", kind |-> r.kind, u |-> r.u, crossed |-> r.crossed, answer |->
     CASE r.kind = "ligas" -> LeaguePage(got, r.u) [] r.kind = "mi_liga" -> LeagueTool(got, r.u)
       [] r.kind = "ligas_tabla" -> LeagueTable(got) [] r.kind = "ranking" -> RankingPage(got)
       [] r.kind = "ranking_publico" -> RankingTool(got)]

Value(what, u) ==
  CASE what = "flow" -> Flow [] what = "week" -> week [] what = "mine" -> alias[u]
    [] what = "me" -> u \in bought [] what = "table" -> Ranking [] what = "previous" -> Previous(u)

\* The promotion, against the last closed week.
Promotions(got, u) ==
  LET to == LeaguePage(got, u).me.metal
  IN  {[u |-> u, from |-> rows[u][w].metal, to |-> to, week |-> w, on |-> week] :
         w \in {x \in got.previous : MetalOrder[to] > MetalOrder[rows[u][x].metal]}}

\* One call to the data service.
ReadsOne(c, what) ==
  /\ calls[c].at = "reads" /\ what \in DOMAIN Reading(calls[c].kind) \ DOMAIN calls[c].got
  /\ Reading(calls[c].kind)[what] \subseteq DOMAIN calls[c].got
  /\ LET r == calls[c]
         got == [x \in DOMAIN r.got \cup {what} |-> IF x = what THEN Value(what, r.u) ELSE r.got[x]]
     IN /\ calls' = [calls EXCEPT ![c] = IF ReadAll(r, got) THEN Tells(r, got) ELSE [r EXCEPT !.got = got]]
        /\ promoted' = promoted \cup (IF what = "previous" THEN Promotions(got, r.u) ELSE {})
  /\ UNCHANGED <<week, bought, alias, earlier, first, rows, overdue, togo>>

-----------------------------------------------------------------------------
(* closeWeek, from the cron, POST /api/ligas/cerrar or league.week.close.   *)

Closes(c) ==
  /\ Enough(Flow)
  /\ Starts(c, [at |-> "week", flow |-> Flow, of |-> week])
  /\ UNCHANGED <<week, bought, alias, earlier, first, rows, promoted, overdue>>

\* league.current_week is read after the flow.
ReadsWeek(c) ==
  /\ calls[c].at = "week"
  /\ calls' = [calls EXCEPT ![c] = [at |-> "rows", flow |-> @.flow, of |-> @.of, todo |-> DOMAIN @.flow,
                                    lunes |-> week]]
  /\ UNCHANGED <<week, bought, alias, earlier, first, rows, promoted, overdue, togo>>

\* Mutant: the row of a week already closed takes the new figures.
RecordedAgain(old, new) == new

\* ON CONFLICT DO NOTHING: a row of a week, once written, stays.
Recorded(old, new) == IF old = NoPlace THEN new ELSE old

\* league.record, row by row in the order of the table.
RecordsRow(c) ==
  /\ calls[c].at = "rows"
  /\ LET r == calls[c]
     IN \E u \in r.todo :
          /\ \A v \in r.todo : Place(r.flow, u) <= Place(r.flow, v)
          /\ rows' = [rows EXCEPT ![u][r.lunes] = Recorded(@, Standing(r.flow, u))]
          /\ overdue' = IF r.of # r.lunes /\ rows[u][r.lunes] = NoPlace
                        THEN overdue \cup {<<u, r.lunes>>} ELSE overdue
          /\ calls' = [calls EXCEPT ![c] = IF r.todo = {u} THEN Waiting ELSE [r EXCEPT !.todo = @ \ {u}]]
  /\ UNCHANGED <<week, bought, alias, earlier, first, promoted, togo>>

\* The process that closes dies, or a call fails: what it recorded stays.
CloseDies(c) ==
  /\ calls[c].at \in {"week", "rows"}
  /\ calls' = [calls EXCEPT ![c] = Waiting]
  /\ UNCHANGED <<week, bought, alias, earlier, first, rows, promoted, overdue, togo>>

LeaguesNext ==
  \/ Monday
  \/ \E u \in Players : SolvesLab(u) \/ Buys(u) \/ OptOut(u)
  \/ \E c \in Seats :
       \/ \E u \in Players : (\E kind \in Kinds : Asks(c, u, kind)) \/ \E x \in Aliases : OptIn(c, u, x)
       \/ \E what \in {"flow", "week", "previous", "me", "mine", "table"} : ReadsOne(c, what)
       \/ Enters(c) \/ Closes(c) \/ ReadsWeek(c) \/ RecordsRow(c) \/ CloseDies(c)

LeaguesSpec == LeaguesInit /\ [][LeaguesNext]_leagueVars

-----------------------------------------------------------------------------
Places == [metal: {"none"} \cup DOMAIN MetalOrder, estado: {"none", "salon", "activo"}, puesto: Nat,
           caudal: Nat]

LeaguesTypeOK ==
  /\ week \in Weeks /\ bought \subseteq Players /\ togo \in 0..MaxCalls
  /\ alias \in [Players -> Aliases \cup {None}]
  /\ \A u, v \in Players : alias[u] = alias[v] => u = v \/ alias[u] = None
  /\ earlier \subseteq Joined \X Joined
  /\ first \in [Players -> [Weeks -> Nat]] /\ rows \in [Players -> [Weeks -> Places]]
  /\ overdue \subseteq Players \X Weeks
  /\ \A c \in Seats : calls[c].at \in {"none", "upsert", "reads", "said", "week", "rows"}

\* A promotion that was shown stays true: the row it was measured against is of an
\* earlier week and still says what it said, whatever closes were under way, died or
\* were made again since.
PromotionsStand ==
  \A p \in promoted :
    /\ p.week < p.on /\ MetalOrder[p.to] > MetalOrder[p.from]
    /\ rows[p.u][p.week].metal = p.from

\* What is kept of a week is the work of that week, unless Monday came between the two
\* reads of the close (the row of the new week then stays as the old one was).
RowsAreOfTheirWeek ==
  \A u \in Players, w \in Weeks :
    rows[u][w] # NoPlace /\ <<u, w>> \notin overdue => rows[u][w].caudal <= first[u][w]

\* The page, the tools and the close are of one table (leagues.ts: with two copies "the
\* table you see and the table that gets closed do not match"): an answer that nothing
\* crossed says what the table is, to those who are on it their place, and to those who
\* are not what they lack; and one that was crossed at least agrees with itself.
Agrees(r) ==
  LET x == r.answer  u == r.u
  IN  CASE r.kind \in {"ranking", "ranking_publico"} ->
             /\ x.place > 0 => \E row \in x.table : row.place = x.place /\ row.alias = x.me
             /\ ~r.crossed =>
                  /\ x.place > 0 => /\ alias[u] = x.me /\ x.me # None
                                    /\ \A row \in x.table : row.alias = x.me => row.labs = Total(u)
                  /\ alias[u] # None /\ x.place = 0 => Cardinality(x.table) < Cardinality(Joined)
        [] r.kind \in {"ligas", "mi_liga"} ->
             /\ x.me # NoPlace => x.active
             /\ ~r.crossed =>
                  /\ x.lunes = week
                  /\ x.me = IF Enough(Flow) THEN Mine(Flow, u) ELSE NoPlace
                  /\ r.kind = "mi_liga" => (x.lacks = "nothing" <=> x.me # NoPlace)
        [] r.kind = "ligas_tabla" ->
             ~r.crossed => /\ x.lunes = week /\ x.table = IF Enough(Flow) THEN Listed(Flow) ELSE {}
                           /\ x.active => x.mine = alias[u]
AnswersAgree == \A c \in Seats : calls[c].at = "said" => Agrees(calls[c])

\* A promotion that was shown stays as it was written, a row is of its week, and what is
\* shown of the leagues and of the ranking agrees.
LeaguesTell == PromotionsStand /\ RowsAreOfTheirWeek /\ AnswersAgree
=============================================================================
