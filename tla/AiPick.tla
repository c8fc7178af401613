-------------------------------- MODULE AiPick --------------------------------
(***************************************************************************)
(* The choice of model and effort (web/src/lib/ai-pick.ts): the lane and the  *)
(* effort are the device's, kept in localStorage; each picker mounted on a     *)
(* page holds a copy, with the list of providers the api gave it, and every     *)
(* write has the pickers of its own page read again.                            *)
(***************************************************************************)
EXTENDS Naturals, Sequences, FiniteSetsExt

CONSTANTS
  Providers,    \* that the api may serve
  Pages,        \* open pages of the student's device
  Hosts,        \* where a picker may be mounted on a page: the panel, the composer
  Lists,        \* what /api/chat/estado may answer: providers with their lane
  MaxPicks      \* bound: mounts and clicks

CARRILES == {"flash", "razon"}
ESFUERZOS == {"bajo", "medio", "alto"}
ASSUME PickAssumption ==
  Lists \subseteq Seq([id : Providers, carril : CARRILES]) /\ "null" \notin Providers

VARIABLES
  blocked,      \* whether the browser refuses localStorage
  stored,       \* ia.carril and ia.esfuerzo; "none" where nothing is kept
  pickers,      \* on each page, at each host: none, or its copy and its list
  picks,
  foreign       \* ghost: pages whose pickers have not read since another page wrote

pickVars == <<blocked, stored, pickers, picks, foreign>>
Unmounted == [on |-> FALSE]

\* leerCarril and leerEsfuerzo: what is kept, or what there is by default.
LeerCarril(s) == IF blocked \/ s.carril \notin CARRILES THEN "flash" ELSE s.carril
LeerEsfuerzo(s) == IF blocked \/ s.esfuerzo \notin ESFUERZOS THEN "medio" ELSE s.esfuerzo
\* carrilesVivos, and resolver: the first provider of the lane.
Vivos(list) == {list[k].carril : k \in DOMAIN list}
Primero(list) == IF "flash" \in Vivos(list) THEN "flash" ELSE "razon"
Resolver(carril, list) ==
  LET at == {k \in DOMAIN list : list[k].carril = carril}
  IN IF at = {} THEN "null" ELSE list[Min(at)].id

\* Mutant: only the pickers of the other kind read again.
SyncNone(ps, s) == ps
\* sync, of every picker that is mounted on the page.
Sync(ps, s) ==
  [h \in Hosts |-> IF ps[h].on THEN [ps[h] EXCEPT !.carril = LeerCarril(s), !.esfuerzo = LeerEsfuerzo(s)]
                   ELSE ps[h]]
\* escribirPick, from page w: kept if that can be, and every picker of w reads again.
Escribe(w, s, ps) ==
  /\ stored' = IF blocked THEN stored ELSE s
  /\ pickers' = [pickers EXCEPT ![w] = Sync(ps, stored')]
  /\ foreign' = (foreign \cup (Pages \ {w})) \ {w}

PickInit ==
  /\ blocked \in BOOLEAN /\ stored = [carril |-> "none", esfuerzo |-> "none"]
  /\ pickers = [w \in Pages |-> [h \in Hosts |-> Unmounted]] /\ picks = 0 /\ foreign = {}

Picks == picks < MaxPicks /\ picks' = picks + 1 /\ UNCHANGED blocked
-----------------------------------------------------------------------------
\* montarPick: the lane that is kept, or the first that is served where it is not.
\* The new picker reads again only with what is written after it was mounted.
Mount(w, h, list) ==
  /\ Picks /\ ~pickers[w][h].on
  /\ LET kept == LeerCarril(stored)
         falls == Vivos(list) # {} /\ kept \notin Vivos(list)
         own == [on |-> TRUE, list |-> list, carril |-> IF falls THEN Primero(list) ELSE kept,
                 esfuerzo |-> LeerEsfuerzo(stored)]
     IN IF falls
        THEN /\ stored' = IF blocked THEN stored ELSE [stored EXCEPT !.carril = own.carril]
             /\ pickers' = [pickers EXCEPT ![w] = [Sync(@, stored') EXCEPT ![h] = own]]
             /\ foreign' = (foreign \cup Pages) \ {w}
        ELSE pickers' = [pickers EXCEPT ![w][h] = own] /\ UNCHANGED <<stored, foreign>>

\* A lane is pressed: its button is enabled where the picker's list serves it.
PickLane(w, h, c) ==
  /\ Picks /\ pickers[w][h].on /\ c \in Vivos(pickers[w][h].list)
  /\ Escribe(w, [stored EXCEPT !.carril = c], [pickers[w] EXCEPT ![h].carril = c])

\* An effort, by its button or its slider.
PickEffort(w, h, e) ==
  /\ Picks /\ pickers[w][h].on
  /\ Escribe(w, [stored EXCEPT !.esfuerzo = e], [pickers[w] EXCEPT ![h].esfuerzo = e])

\* The page is left for another one of the tab.
Leave(w) ==
  /\ Picks /\ \E h \in Hosts : pickers[w][h].on
  /\ pickers' = [pickers EXCEPT ![w] = [h \in Hosts |-> Unmounted]]
  /\ foreign' = foreign \ {w} /\ UNCHANGED stored

PickNext ==
  \E w \in Pages :
    \/ Leave(w)
    \/ \E h \in Hosts :
         \/ \E l \in Lists : Mount(w, h, l)
         \/ \E c \in CARRILES : PickLane(w, h, c)
         \/ \E e \in {"medio", "alto"} : PickEffort(w, h, e)

PickSpec == PickInit /\ [][PickNext]_pickVars
-----------------------------------------------------------------------------
\* What a page sends: the provider of its picker's lane, if its list has one.
Sent(p) == [proveedor |-> Resolver(p.carril, p.list), esfuerzo |-> p.esfuerzo]

\* Where the device keeps what is picked, the pickers of a page show what it keeps, so
\* that both send the same lane and effort, unless another page has written since; and
\* what is sent is a provider its own list has, in the lane it shows.
PickersAgree ==
  \A w \in Pages : \A h \in Hosts : pickers[w][h].on =>
    LET p == pickers[w][h] IN
    /\ ~blocked /\ w \notin foreign => p.carril = LeerCarril(stored) /\ p.esfuerzo = LeerEsfuerzo(stored)
    /\ Sent(p).proveedor # "null" =>
         \E k \in DOMAIN p.list : p.list[k] = [id |-> Sent(p).proveedor, carril |-> p.carril]
=============================================================================
