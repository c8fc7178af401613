-------------------------- MODULE Accounts_proofs --------------------------
(***************************************************************************)
(* Proofs about Accounts, for any accounts, passwords, links and handlers.  *)
(***************************************************************************)
EXTENDS Accounts, FiniteSetTheorems, TLAPS

\* What keeps an old copy of an account harmless: the row has moved on from it, or
\* still has the password and the role of the copy.
Matches(r, c) ==
  /\ r.made /\ c.ver <= r.ver
  /\ c.ver = r.ver => c.pass = r.pass /\ c.role = r.role

\* Whatever a handler will sign from matches, and it works for an account and a link
\* that were made.
HandlerOK(r, rows, links) ==
  /\ r.op \in {"login", "recover", "reset"} => rows[r.id].made
  /\ r.op = "login" \/ (r.op = "reset" /\ r.at # "write") => Matches(rows[r.id], r.seen)
  /\ r.op = "reset" => links[r.link].state # "unmade"
HandlersOK == \A s \in Slots : HandlerOK(req[s], row, link)
LinksAreOwned == \A k \in Links : link[k].state # "unmade" => row[link[k].for].made
SessionsMatch == \A t \in sessions : Matches(row[t.sub], t)

SessionInv == TypeOK /\ HandlersOK /\ LinksAreOwned /\ SessionsMatch

\* How a row may change: never back to unmade or to an earlier version, and never to
\* another password or role under the same version.
Forward(r, n) ==
  /\ r.made => n.made
  /\ r.ver <= n.ver
  /\ r.made /\ n.ver = r.ver => n.pass = r.pass /\ n.role = r.role

-----------------------------------------------------------------------------
Logins == [op: {"login"}, at: {"verify", "sign"}, id: Users, pw: Passwords, seen: Row]
Recovers == [op: {"recover"}, at: {"create"}, id: Users]
Lookups == [op: {"reset"}, at: {"write"}, id: Users, link: Links, pw: Passwords]
Resets == [op: {"reset"}, at: {"mark", "invalidate"}, id: Users, link: Links, seen: Row]
Deletes == [op: {"delete"}, at: {"count", "erase"}, id: Users, seen: Row]
Asks == [op: {"role"}, at: {"target"}, id: Users, by: Users, byRole: Roles, to: Roles]
Changes == [op: {"role"}, at: {"count", "write", "audit"}, id: Users, to: Roles]

\* A handler of a kind has that kind's fields.
LEMMA Kinds ==
  ASSUME TypeOK, NEW s \in Slots
  PROVE  /\ req[s].op = "login" => req[s] \in Logins
         /\ req[s].op = "recover" => req[s] \in Recovers
         /\ Running(s, "reset", "write") => req[s] \in Lookups
         /\ req[s].op = "reset" /\ req[s].at # "write" => req[s] \in Resets
         /\ req[s].op = "delete" => req[s] \in Deletes
         /\ Running(s, "role", "target") => req[s] \in Asks
         /\ req[s].op = "role" /\ req[s].at # "target" => req[s] \in Changes
<1>1. req[s] \in Request
  BY DEF TypeOK
<1> QED
  BY <1>1 DEF Request, Idle, Running, Logins, Recovers, Lookups, Resets, Deletes, Asks, Changes

LEMMA AllKinds ==
  /\ Idle \in Request /\ Logins \subseteq Request /\ Recovers \subseteq Request
  /\ Lookups \subseteq Request /\ Resets \subseteq Request /\ Deletes \subseteq Request
  /\ Asks \subseteq Request /\ Changes \subseteq Request
BY DEF Request, Idle, Logins, Recovers, Lookups, Resets, Deletes, Asks, Changes

LEMMA BecomesTyped ==
  ASSUME TypeOK, NEW s \in Slots, NEW r \in Request, Becomes(s, r)
  PROVE  req' \in [Slots -> Request]
BY DEF TypeOK, Becomes

LEMMA EndsTyped ==
  ASSUME TypeOK, NEW s \in Slots, Ends(s)
  PROVE  req' \in [Slots -> Request]
BY AllKinds, BecomesTyped DEF Ends

LEMMA StartsTyped ==
  ASSUME TypeOK, NEW s \in Slots, NEW r \in Request, Starts(s, r)
  PROVE  req' \in [Slots -> Request] /\ started' \in 0..MaxRequests
BY BecomesTyped, AccountsAssumption DEF Starts, TypeOK

LEMMA RowTyped ==
  ASSUME TypeOK, NEW u \in Users
  PROVE  row[u] \in Row
BY DEF TypeOK

\* The tables of one row, rewritten, are tables.
LEMMA RowWritten ==
  ASSUME TypeOK, NEW u \in Users, NEW r \in Row, row' = [row EXCEPT ![u] = r]
  PROVE  row' \in [Users -> Row]
BY DEF TypeOK

LinkRows == [state: {"unmade"}]
            \cup [state: {"unused", "used"}, for: Users, age: {"fresh", "expired", "old"}]

MadeLinks == [state: {"unused", "used"}, for: Users, age: {"fresh", "expired", "old"}]

LEMMA LinkMade ==
  ASSUME TypeOK, NEW k \in Links, link[k].state # "unmade"
  PROVE  link[k] \in MadeLinks
BY DEF TypeOK, MadeLinks

LEMMA MarkTyped ==
  ASSUME TypeOK, NEW k \in Links, link[k].state # "unmade",
         link' = [link EXCEPT ![k].state = "used"]
  PROVE  link' \in [Links -> LinkRows]
<1>1. [link[k] EXCEPT !.state = "used"] \in LinkRows
  BY LinkMade DEF MadeLinks, LinkRows
<1> QED BY <1>1 DEF TypeOK, LinkRows

LEMMA TypeInit == Init => TypeOK
<1> SUFFICES ASSUME Init PROVE TypeOK
  OBVIOUS
<1> USE AccountsAssumption
<1>1. row \in [Users -> Row]
  <2> SUFFICES ASSUME NEW u \in Users
               PROVE [made |-> Seed[u] # "none", gone |-> FALSE, pass |-> FirstPass,
               role |-> IF Seed[u] = "none" THEN "student" ELSE Seed[u],
               ver |-> 0, failed |-> 0, locked |-> FALSE] \in Row
    BY DEF Init
  <2>1. Seed[u] \in Roles \cup {"none"}
    OBVIOUS
  <2>2. (IF Seed[u] = "none" THEN "student" ELSE Seed[u]) \in Roles
    BY <2>1 DEF Roles
  <2>3. (Seed[u] # "none") \in BOOLEAN
    OBVIOUS
  <2>4. 0 \in 0..MaxVersion /\ 0 \in 0..MaxFailed
    OBVIOUS
  <2> QED BY <2>2, <2>3, <2>4 DEF Row
<1>2. link \in [Links -> LinkRows]
  BY DEF Init, LinkRows
<1>3. req \in [Slots -> Request]
  BY AllKinds DEF Init
<1>4. started \in 0..MaxRequests
  BY DEF Init
<1>5. overlapped \in BOOLEAN
  BY DEF Init
<1>6. sessions = {}
  BY DEF Init
<1> QED BY <1>1, <1>2, <1>3, <1>4, <1>5, <1>6, Zenon DEF TypeOK, LinkRows

LEMMA TypeNext == TypeOK /\ HandlersOK /\ [Next]_vars => TypeOK'
<1> SUFFICES ASSUME TypeOK, HandlersOK, [Next]_vars PROVE TypeOK'
  OBVIOUS
<1> USE AccountsAssumption
<1>0. CASE UNCHANGED vars
  BY <1>0 DEF vars, TypeOK
<1>1. ASSUME NEW s \in Slots, NEW u \in Users, NEW pw \in Passwords, LoginReads(s, u, pw)
      PROVE TypeOK'
  <2>1. [op |-> "login", at |-> "verify", id |-> u, pw |-> pw, seen |-> row[u]] \in Request
    BY RowTyped, AllKinds DEF Logins
  <2>2. req' \in [Slots -> Request] /\ started' \in 0..MaxRequests
    BY <1>1, <2>1, StartsTyped DEF LoginReads
  <2> QED BY <1>1, <2>2 DEF LoginReads, TypeOK
<1>2. ASSUME NEW s \in Slots, LoginFails(s) PROVE TypeOK'
  <2>1. req[s] \in Logins
    BY <1>2, Kinds DEF LoginFails, Running
  <2> DEFINE id == req[s].id
             failed == IF req[s].seen.failed < MaxFailed THEN req[s].seen.failed + 1 ELSE MaxFailed
  <2>2. id \in Users /\ failed \in 0..MaxFailed
    BY <2>1 DEF Logins, Row
  <2>3. row' = row \/ row' = [row EXCEPT ![id].failed = failed, ![id].locked = failed >= MaxFailed]
    BY <1>2 DEF LoginFails
  <2>4. row' \in [Users -> Row]
    <3> HIDE DEF failed, id
    <3>1. row[id] \in Row
      BY <2>2, RowTyped
    <3> DEFINE locked == failed >= MaxFailed
    <3>2. locked \in BOOLEAN
      OBVIOUS
    <3> HIDE DEF locked
    <3>3. [row[id] EXCEPT !.failed = failed, !.locked = locked] \in Row
      BY <3>1, <3>2, <2>2 DEF Row
    <3>4. row' = row \/ row' = [row EXCEPT ![id].failed = failed, ![id].locked = locked]
      BY <2>3 DEF locked
    <3> QED BY <2>2, <3>3, <3>4 DEF TypeOK
  <2>5. req' \in [Slots -> Request]
    BY <1>2, EndsTyped DEF LoginFails
  <2> QED BY <1>2, <2>4, <2>5 DEF LoginFails, TypeOK
<1>3. ASSUME NEW s \in Slots, LoginClears(s) PROVE TypeOK'
  <2>1. req[s] \in Logins
    BY <1>3, Kinds DEF LoginClears, Running
  <2>2. row' \in [Users -> Row]
    <3>1. row[req[s].id] \in Row /\ req[s].id \in Users
      BY <2>1, RowTyped DEF Logins
    <3>0. 0 \in 0..MaxFailed
      OBVIOUS
    <3>2. [row[req[s].id] EXCEPT !.failed = 0, !.locked = FALSE] \in Row
      BY <3>0, <3>1 DEF Row
    <3> QED BY <1>3, <3>1, <3>2 DEF LoginClears, TypeOK
  <2>3. [req[s] EXCEPT !.at = "sign"] \in Request
    BY <2>1, AllKinds DEF Logins
  <2>4. req' \in [Slots -> Request]
    BY <1>3, <2>3, BecomesTyped, EndsTyped DEF LoginClears
  <2> QED BY <1>3, <2>2, <2>4 DEF LoginClears, TypeOK
<1>4. ASSUME NEW s \in Slots, LoginSigns(s) PROVE TypeOK'
  <2>1. req[s] \in Logins
    BY <1>4, Kinds DEF LoginSigns, Running
  <2>2. Sign(req[s].id, req[s].seen) \in [sub: Users, role: Roles, ver: 0..MaxVersion, pass: Passwords]
    BY <2>1 DEF Logins, Row, Sign
  <2>3. req' \in [Slots -> Request]
    BY <1>4, EndsTyped DEF LoginSigns
  <2> QED BY <1>4, <2>2, <2>3 DEF LoginSigns, TypeOK
<1>5. ASSUME NEW u \in Users, LockLapses(u) PROVE TypeOK'
  <2>1. [row[u] EXCEPT !.locked = FALSE] \in Row
    BY RowTyped DEF Row
  <2>2. row' \in [Users -> Row]
    BY <1>5, <2>1 DEF LockLapses, TypeOK
  <2> QED BY <1>5, <2>2 DEF LockLapses, TypeOK
<1>6. ASSUME NEW u \in Users, Revoke(u) PROVE TypeOK'
  <2>1. row[u] \in Row /\ row[u].ver < MaxVersion
    BY <1>6, RowTyped DEF Revoke
  <2>2. row[u].ver + 1 \in 0..MaxVersion
    BY <2>1 DEF Row
  <2>3. [row[u] EXCEPT !.ver = @ + 1] \in Row
    BY <2>1, <2>2 DEF Row
  <2>4. row' \in [Users -> Row]
    BY <1>6, <2>3 DEF Revoke, TypeOK
  <2> QED BY <1>6, <2>4 DEF Revoke, TypeOK
<1>7. ASSUME NEW u \in Users, NEW pw \in Passwords, Register(u, pw) PROVE TypeOK'
  <2>1. [row[u] EXCEPT !.made = TRUE, !.pass = pw] \in Row
    BY RowTyped DEF Row
  <2>2. row' \in [Users -> Row] /\ row'[u] \in Row
    BY <1>7, <2>1 DEF Register, TypeOK
  <2>3. Sign(u, row'[u]) \in [sub: Users, role: Roles, ver: 0..MaxVersion, pass: Passwords]
    BY <2>2 DEF Row, Sign
  <2>4. sessions' = sessions \cup {Sign(u, row'[u])}
    BY <1>7 DEF Register
  <2> QED BY <1>7, <2>2, <2>3, <2>4 DEF Register, TypeOK
<1>8. ASSUME NEW s \in Slots, NEW u \in Users, RecoverCounts(s, u) PROVE TypeOK'
  <2>1. [op |-> "recover", at |-> "create", id |-> u] \in Request
    BY AllKinds DEF Recovers
  <2>2. req' \in [Slots -> Request] /\ started' \in 0..MaxRequests
    BY <1>8, <2>1, StartsTyped DEF RecoverCounts
  <2> QED BY <1>8, <2>2 DEF RecoverCounts, TypeOK
<1>9. ASSUME NEW s \in Slots, NEW k \in Links, RecoverCreates(s, k) PROVE TypeOK'
  <2>1. req[s] \in Recovers
    BY <1>9, Kinds DEF RecoverCreates, Running
  <2>2. [state |-> "unused", for |-> req[s].id, age |-> "fresh"] \in LinkRows
    BY <2>1 DEF Recovers, LinkRows
  <2>3. link' \in [Links -> LinkRows]
    BY <1>9, <2>2 DEF RecoverCreates, TypeOK, LinkRows
  <2>4. req' \in [Slots -> Request]
    BY <1>9, EndsTyped DEF RecoverCreates
  <2> QED BY <1>9, <2>3, <2>4 DEF RecoverCreates, TypeOK, LinkRows
<1>10. ASSUME NEW k \in Links, LinkAges(k) PROVE TypeOK'
  <2>1. link[k] \in MadeLinks
    BY <1>10, LinkMade DEF LinkAges
  <2>2. [link[k] EXCEPT !.age = IF @ = "fresh" THEN "expired" ELSE "old"] \in LinkRows
    BY <2>1 DEF MadeLinks, LinkRows
  <2>3. link' \in [Links -> LinkRows]
    BY <1>10, <2>2 DEF LinkAges, TypeOK, LinkRows
  <2> QED BY <1>10, <2>3 DEF LinkAges, TypeOK, LinkRows
<1>11. ASSUME NEW s \in Slots, NEW k \in Links, NEW pw \in Passwords, ResetLooksUp(s, k, pw)
       PROVE TypeOK'
  <2>1. link[k] \in MadeLinks
    BY <1>11, LinkMade DEF ResetLooksUp
  <2>2. [op |-> "reset", at |-> "write", id |-> link[k].for, link |-> k, pw |-> pw] \in Request
    BY <2>1, AllKinds DEF MadeLinks, Lookups
  <2>3. req' \in [Slots -> Request] /\ started' \in 0..MaxRequests
    BY <1>11, <2>2, StartsTyped DEF ResetLooksUp
  <2> QED BY <1>11, <2>3 DEF ResetLooksUp, TypeOK
<1>12. ASSUME NEW s \in Slots, ResetWrites(s) PROVE TypeOK'
  <2>1. req[s] \in Lookups
    BY <1>12, Kinds DEF ResetWrites
  <2> DEFINE id == req[s].id
  <2>2. id \in Users /\ req[s].pw \in Passwords /\ req[s].link \in Links
    BY <2>1 DEF Lookups
  <2>3. row[id] \in Row /\ row[id].ver < MaxVersion
    BY <1>12, <2>2, RowTyped DEF ResetWrites
  <2>4. row[id].ver + 1 \in 0..MaxVersion
    BY <2>3 DEF Row
  <2> DEFINE new == [row[id] EXCEPT !.pass = req[s].pw, !.ver = row[id].ver + 1,
                                    !.failed = 0, !.locked = FALSE]
  <2>0. 0 \in 0..MaxFailed
    OBVIOUS
  <2>5. new \in Row
    BY <2>0, <2>2, <2>3, <2>4 DEF Row
  <2>6. row' \in [Users -> Row]
    <3>1. row' = [row EXCEPT ![id] = new]
      BY <1>12 DEF ResetWrites
    <3> HIDE DEF id, new
    <3> QED BY <3>1, <2>2, <2>5, RowWritten
  <2>7. [op |-> "reset", at |-> "mark", id |-> id, link |-> req[s].link, seen |-> row'[id]] \in Request
    BY <2>2, <2>6, AllKinds DEF Resets
  <2>8. req' \in [Slots -> Request]
    BY <1>12, <2>7, BecomesTyped DEF ResetWrites
  <2> QED BY <1>12, <2>6, <2>8 DEF ResetWrites, TypeOK
<1>13. ASSUME NEW s \in Slots, ResetMarks(s) PROVE TypeOK'
  <2>1. req[s] \in Resets
    BY <1>13, Kinds DEF ResetMarks, Running
  <2>2. link' \in [Links -> LinkRows]
    BY <1>13, <2>1, MarkTyped DEF ResetMarks, Resets, Running, HandlersOK, HandlerOK
  <2>3. [req[s] EXCEPT !.at = "invalidate"] \in Request
    BY <2>1, AllKinds DEF Resets
  <2>4. req' \in [Slots -> Request]
    BY <1>13, <2>3, BecomesTyped DEF ResetMarks
  <2> QED BY <1>13, <2>2, <2>4 DEF ResetMarks, TypeOK, LinkRows
<1>14. ASSUME NEW s \in Slots, ResetSigns(s) PROVE TypeOK'
  <2>1. req[s] \in Resets
    BY <1>14, Kinds DEF ResetSigns, Running
  <2>2. link' \in [Links -> LinkRows]
    <3> SUFFICES ASSUME NEW k \in Links, k \in LinksOf(req[s].id)
                 PROVE  [link[k] EXCEPT !.state = "used"] \in LinkRows
      BY <1>14 DEF ResetSigns, TypeOK, LinkRows
    <3>1. link[k] \in MadeLinks
      BY LinkMade DEF LinksOf
    <3> QED BY <3>1 DEF MadeLinks, LinkRows
  <2>3. Sign(req[s].id, req[s].seen) \in [sub: Users, role: Roles, ver: 0..MaxVersion, pass: Passwords]
    BY <2>1 DEF Resets, Row, Sign
  <2>4. req' \in [Slots -> Request]
    BY <1>14, EndsTyped DEF ResetSigns
  <2> QED BY <1>14, <2>2, <2>3, <2>4 DEF ResetSigns, TypeOK, LinkRows
<1>15. ASSUME NEW s \in Slots, NEW t \in sessions, DeleteStarts(s, t) PROVE TypeOK'
  <2>1. [op |-> "delete", at |-> "count", id |-> t.sub, seen |-> row[t.sub]] \in Request
    BY RowTyped, AllKinds DEF TypeOK, Deletes
  <2>2. req' \in [Slots -> Request] /\ started' \in 0..MaxRequests
    BY <1>15, <2>1, StartsTyped DEF DeleteStarts
  <2>3. overlapped' \in BOOLEAN
    BY <1>15 DEF DeleteStarts, Overlaps
  <2> QED BY <1>15, <2>2, <2>3 DEF DeleteStarts, TypeOK
<1>16. ASSUME NEW s \in Slots, DeleteCounts(s) PROVE TypeOK'
  <2>1. req[s] \in Deletes
    BY <1>16, Kinds DEF DeleteCounts, Running
  <2>2. [req[s] EXCEPT !.at = "erase"] \in Request
    BY <2>1, AllKinds DEF Deletes
  <2>3. req' \in [Slots -> Request]
    BY <1>16, <2>2, BecomesTyped, EndsTyped DEF DeleteCounts
  <2> QED BY <1>16, <2>3 DEF DeleteCounts, TypeOK
<1>17. ASSUME NEW s \in Slots, DeleteErases(s) PROVE TypeOK'
  <2>1. req[s] \in Deletes
    BY <1>17, Kinds DEF DeleteErases, Running
  <2> DEFINE id == req[s].id
  <2>2. id \in Users
    BY <2>1 DEF Deletes
  <2>3. row[id] \in Row /\ row[id].ver < MaxVersion
    BY <1>17, <2>2, RowTyped DEF DeleteErases
  <2>4. row[id].ver + 1 \in 0..MaxVersion
    BY <2>3 DEF Row
  <2> DEFINE new == [row[id] EXCEPT !.gone = TRUE, !.ver = row[id].ver + 1]
  <2>5. new \in Row
    BY <2>3, <2>4 DEF Row
  <2>6. row' \in [Users -> Row]
    <3>1. row' = [row EXCEPT ![id] = new]
      BY <1>17 DEF DeleteErases
    <3> HIDE DEF id, new
    <3> QED BY <3>1, <2>2, <2>5, RowWritten
  <2>7. req' \in [Slots -> Request]
    BY <1>17, EndsTyped DEF DeleteErases
  <2> QED BY <1>17, <2>6, <2>7 DEF DeleteErases, TypeOK
<1>18. ASSUME NEW s \in Slots, NEW t \in sessions, NEW u \in Users, NEW to \in Assigned,
              RoleStarts(s, t, u, to)
       PROVE TypeOK'
  <2>1. t.sub \in Users /\ to \in Roles /\ row[t.sub].role \in Roles
    BY RowTyped DEF TypeOK, Row
  <2>2. [op |-> "role", at |-> "target", by |-> t.sub, byRole |-> row[t.sub].role,
         id |-> u, to |-> to] \in Request
    BY <2>1, AllKinds DEF Asks
  <2>3. req' \in [Slots -> Request] /\ started' \in 0..MaxRequests
    BY <1>18, <2>2, StartsTyped DEF RoleStarts
  <2>4. overlapped' \in BOOLEAN
    BY <1>18 DEF RoleStarts, Overlaps
  <2> QED BY <1>18, <2>3, <2>4 DEF RoleStarts, TypeOK
<1>19. ASSUME NEW s \in Slots, RoleReads(s) PROVE TypeOK'
  <2>1. req[s] \in Asks
    BY <1>19, Kinds DEF RoleReads
  <2>2. \A at \in {"count", "write"} :
          [op |-> "role", at |-> at, id |-> req[s].id, to |-> req[s].to] \in Request
    BY <2>1, AllKinds DEF Asks, Changes
  <2>3. \/ Ends(s)
        \/ \E at \in {"count", "write"} :
             Becomes(s, [op |-> "role", at |-> at, id |-> req[s].id, to |-> req[s].to])
    BY <1>19 DEF RoleReads
  <2>4. req' \in [Slots -> Request]
    BY <2>2, <2>3, BecomesTyped, EndsTyped
  <2> QED BY <1>19, <2>4 DEF RoleReads, TypeOK
<1>20. ASSUME NEW s \in Slots, RoleCounts(s) PROVE TypeOK'
  <2>1. req[s] \in Changes
    BY <1>20, Kinds DEF RoleCounts, Running
  <2>2. [req[s] EXCEPT !.at = "write"] \in Request
    BY <2>1, AllKinds DEF Changes
  <2>3. req' \in [Slots -> Request]
    BY <1>20, <2>2, BecomesTyped, EndsTyped DEF RoleCounts
  <2> QED BY <1>20, <2>3 DEF RoleCounts, TypeOK
<1>21. ASSUME NEW s \in Slots, RoleWrites(s) PROVE TypeOK'
  <2>1. req[s] \in Changes
    BY <1>21, Kinds DEF RoleWrites, Running
  <2> DEFINE id == req[s].id
  <2>2. id \in Users /\ req[s].to \in Roles
    BY <2>1 DEF Changes
  <2>3. row[id] \in Row /\ row[id].ver < MaxVersion
    BY <1>21, <2>2, RowTyped DEF RoleWrites
  <2>4. row[id].ver + 1 \in 0..MaxVersion
    BY <2>3 DEF Row
  <2> DEFINE new == [row[id] EXCEPT !.role = req[s].to, !.ver = row[id].ver + 1]
  <2>5. new \in Row
    BY <2>2, <2>3, <2>4 DEF Row
  <2>6. row' \in [Users -> Row]
    <3>1. row' = [row EXCEPT ![id] = new]
      BY <1>21 DEF RoleWrites
    <3> HIDE DEF id, new
    <3> QED BY <3>1, <2>2, <2>5, RowWritten
  <2>7. [req[s] EXCEPT !.at = "audit"] \in Request
    BY <2>1, AllKinds DEF Changes
  <2>8. req' \in [Slots -> Request]
    BY <1>21, <2>7, BecomesTyped DEF RoleWrites
  <2> QED BY <1>21, <2>6, <2>8 DEF RoleWrites, TypeOK
<1>22. ASSUME NEW s \in Slots, RoleAudits(s) PROVE TypeOK'
  BY <1>22, EndsTyped DEF RoleAudits, TypeOK
<1>23. ASSUME NEW s \in Slots, Aborts(s) PROVE TypeOK'
  BY <1>23, EndsTyped DEF Aborts, TypeOK
<1>24. ASSUME NEW s \in Slots, Step(s) PROVE TypeOK'
  BY <1>24, <1>1, <1>2, <1>3, <1>4, <1>8, <1>9, <1>11, <1>12, <1>13, <1>14, <1>15, <1>16,
     <1>17, <1>18, <1>19, <1>20, <1>21, <1>22, <1>23 DEF Step
<1> QED
  BY <1>0, <1>24, <1>5, <1>6, <1>7, <1>10 DEF Next
-----------------------------------------------------------------------------
\* Rows only go forward.
LEMMA RowsGoForward ==
  ASSUME TypeOK, TypeOK', [Next]_vars, NEW u \in Users
  PROVE  Forward(row[u], row'[u])
<1> USE AccountsAssumption
<1>1. row[u] \in Row /\ row'[u] \in Row
  BY DEF TypeOK
<1>2. CASE row' = row
  BY <1>1, <1>2 DEF Forward, Row
<1>3. ASSUME NEW s \in Slots, LoginFails(s) PROVE Forward(row[u], row'[u])
  <2>1. req[s] \in Logins
    BY <1>3, Kinds DEF LoginFails, Running
  <2>2. row'[u].made = row[u].made /\ row'[u].ver = row[u].ver
        /\ row'[u].pass = row[u].pass /\ row'[u].role = row[u].role
    BY <1>1, <1>3, <2>1 DEF LoginFails, TypeOK, Row, Logins
  <2> QED BY <1>1, <2>2 DEF Forward, Row
<1>4. ASSUME NEW s \in Slots, LoginClears(s) PROVE Forward(row[u], row'[u])
  <2>1. req[s] \in Logins
    BY <1>4, Kinds DEF LoginClears, Running
  <2>2. row'[u].made = row[u].made /\ row'[u].ver = row[u].ver
        /\ row'[u].pass = row[u].pass /\ row'[u].role = row[u].role
    BY <1>1, <1>4, <2>1 DEF LoginClears, TypeOK, Row, Logins
  <2> QED BY <1>1, <2>2 DEF Forward, Row
<1>5. ASSUME NEW v \in Users, LockLapses(v) PROVE Forward(row[u], row'[u])
  <2>1. row'[u].made = row[u].made /\ row'[u].ver = row[u].ver
        /\ row'[u].pass = row[u].pass /\ row'[u].role = row[u].role
    BY <1>1, <1>5 DEF LockLapses, TypeOK, Row
  <2> QED BY <1>1, <2>1 DEF Forward, Row
<1>6. ASSUME NEW v \in Users, Revoke(v) PROVE Forward(row[u], row'[u])
  <2>1. row' = [row EXCEPT ![v].ver = @ + 1]
    BY <1>6 DEF Revoke
  <2>2. CASE u = v
    <3>1. row'[u].made = row[u].made /\ row'[u].ver = row[u].ver + 1
      BY <1>1, <2>1, <2>2 DEF TypeOK, Row
    <3> QED BY <1>1, <3>1 DEF Forward, Row
  <2>3. CASE u # v
    BY <1>1, <2>1, <2>3 DEF TypeOK, Forward, Row
  <2> QED BY <2>2, <2>3
<1>7. ASSUME NEW v \in Users, NEW pw \in Passwords, Register(v, pw)
      PROVE  Forward(row[u], row'[u])
  <2>1. row' = [row EXCEPT ![v] = [row[v] EXCEPT !.made = TRUE, !.pass = pw]] /\ ~row[v].made
    BY <1>7 DEF Register
  <2>2. CASE u = v
    <3>1. ~row[u].made /\ row'[u].ver = row[u].ver
      BY <1>1, <2>1, <2>2 DEF TypeOK, Row
    <3> QED BY <1>1, <3>1 DEF Forward, Row
  <2>3. CASE u # v
    BY <1>1, <2>1, <2>3 DEF TypeOK, Forward, Row
  <2> QED BY <2>2, <2>3
<1>8. ASSUME NEW s \in Slots, ResetWrites(s) PROVE Forward(row[u], row'[u])
  <2> DEFINE id == req[s].id
  <2>1. req[s] \in Lookups
    BY <1>8, Kinds DEF ResetWrites
  <2>2. row' = [row EXCEPT ![id].pass = req[s].pw, ![id].ver = @ + 1,
                           ![id].failed = 0, ![id].locked = FALSE]
    BY <1>8 DEF ResetWrites
  <2>3. id \in Users
    BY <2>1 DEF Lookups
  <2> HIDE DEF id
  <2>4. CASE u = id
    <3>1. row'[u].made = row[u].made /\ row'[u].ver = row[u].ver + 1
      BY <1>1, <2>2, <2>3, <2>4 DEF TypeOK, Row
    <3> QED BY <1>1, <3>1 DEF Forward, Row
  <2>5. CASE u # id
    BY <1>1, <2>2, <2>5 DEF TypeOK, Forward, Row
  <2> QED BY <2>4, <2>5
<1>9. ASSUME NEW s \in Slots, DeleteErases(s) PROVE Forward(row[u], row'[u])
  <2> DEFINE id == req[s].id
  <2>1. req[s] \in Deletes
    BY <1>9, Kinds DEF DeleteErases, Running
  <2>2. row' = [row EXCEPT ![id].gone = TRUE, ![id].ver = @ + 1]
    BY <1>9 DEF DeleteErases
  <2>3. id \in Users
    BY <2>1 DEF Deletes
  <2> HIDE DEF id
  <2>4. CASE u = id
    <3>1. row'[u].made = row[u].made /\ row'[u].ver = row[u].ver + 1
      BY <1>1, <2>2, <2>3, <2>4 DEF TypeOK, Row
    <3> QED BY <1>1, <3>1 DEF Forward, Row
  <2>5. CASE u # id
    BY <1>1, <2>2, <2>5 DEF TypeOK, Forward, Row
  <2> QED BY <2>4, <2>5
<1>10. ASSUME NEW s \in Slots, RoleWrites(s) PROVE Forward(row[u], row'[u])
  <2> DEFINE id == req[s].id
  <2>1. req[s] \in Changes
    BY <1>10, Kinds DEF RoleWrites, Running
  <2>2. row' = [row EXCEPT ![id].role = req[s].to, ![id].ver = @ + 1]
    BY <1>10 DEF RoleWrites
  <2>3. id \in Users
    BY <2>1 DEF Changes
  <2> HIDE DEF id
  <2>4. CASE u = id
    <3>1. row'[u].made = row[u].made /\ row'[u].ver = row[u].ver + 1
      BY <1>1, <2>2, <2>3, <2>4 DEF TypeOK, Row
    <3> QED BY <1>1, <3>1 DEF Forward, Row
  <2>5. CASE u # id
    BY <1>1, <2>2, <2>5 DEF TypeOK, Forward, Row
  <2> QED BY <2>4, <2>5
<1>11. ASSUME NEW s \in Slots, Step(s) PROVE Forward(row[u], row'[u])
  BY <1>11, <1>2, <1>3, <1>4, <1>8, <1>9, <1>10
  DEF Step, LoginReads, LoginSigns, RecoverCounts, RecoverCreates, ResetLooksUp, ResetMarks,
      ResetSigns, DeleteStarts, DeleteCounts, RoleStarts, RoleReads, RoleCounts, RoleAudits, Aborts
<1> QED
  BY <1>2, <1>5, <1>6, <1>7, <1>11 DEF Next, LinkAges, vars

\* A link that was made stays made, for the same account.
LEMMA LinksStay ==
  ASSUME TypeOK, HandlersOK, [Next]_vars, NEW k \in Links, link[k].state # "unmade"
  PROVE  link'[k].state # "unmade" /\ link'[k].for = link[k].for
<1>1. link[k] \in MadeLinks
  BY LinkMade
<1>2. CASE UNCHANGED link
  BY <1>2
<1>3. ASSUME NEW s \in Slots, NEW i \in Links, RecoverCreates(s, i)
      PROVE  link'[k] = link[k]
  BY <1>3 DEF RecoverCreates, TypeOK
<1>4. ASSUME NEW i \in Links, LinkAges(i)
      PROVE  link'[k].state = link[k].state /\ link'[k].for = link[k].for
  BY <1>1, <1>4 DEF LinkAges, TypeOK, MadeLinks
<1>5. ASSUME NEW s \in Slots, ResetMarks(s)
      PROVE  link'[k].state # "unmade" /\ link'[k].for = link[k].for
  BY <1>1, <1>5 DEF ResetMarks, TypeOK, MadeLinks
<1>6. ASSUME NEW s \in Slots, ResetSigns(s)
      PROVE  link'[k].state # "unmade" /\ link'[k].for = link[k].for
  BY <1>1, <1>6 DEF ResetSigns, TypeOK, MadeLinks
<1>7. ASSUME NEW s \in Slots, Step(s)
      PROVE  link'[k].state # "unmade" /\ link'[k].for = link[k].for
  BY <1>1, <1>7, <1>2, <1>3, <1>5, <1>6
  DEF Step, LoginReads, LoginFails, LoginClears, LoginSigns, RecoverCounts, ResetLooksUp,
      ResetWrites, DeleteStarts, DeleteCounts, DeleteErases, RoleStarts, RoleReads, RoleCounts,
      RoleWrites, RoleAudits, Aborts
<1> QED
  BY <1>2, <1>4, <1>7 DEF Next, LockLapses, Revoke, Register, vars

LEMMA MatchesKept ==
  ASSUME NEW r \in Row, NEW n \in Row, NEW c, c.ver \in Nat, Forward(r, n), Matches(r, c)
  PROVE  Matches(n, c)
BY DEF Forward, Matches, Row

\* What is true of a handler stays true of it while it waits.
LEMMA HandlerKept ==
  ASSUME TypeOK, TypeOK', HandlersOK, [Next]_vars, NEW r \in Request, HandlerOK(r, row, link)
  PROVE  HandlerOK(r, row', link')
<1> USE AccountsAssumption
<1>1. ASSUME r.op \in {"login", "recover", "reset"} PROVE row'[r.id].made
  <2>1. r.id \in Users
    BY <1>1 DEF Request, Idle
  <2> QED BY <1>1, <2>1, RowsGoForward DEF HandlerOK, Forward
<1>2. ASSUME r.op = "login" \/ (r.op = "reset" /\ r.at # "write")
      PROVE  Matches(row'[r.id], r.seen)
  <2>1. r.id \in Users /\ r.seen \in Row
    BY <1>2 DEF Request, Idle
  <2>2. row[r.id] \in Row /\ row'[r.id] \in Row /\ r.seen.ver \in Nat
    BY <2>1 DEF TypeOK, Row
  <2> QED BY <1>2, <2>1, <2>2, RowsGoForward, MatchesKept DEF HandlerOK
<1>3. ASSUME r.op = "reset" PROVE link'[r.link].state # "unmade"
  <2>1. r.link \in Links
    BY <1>3 DEF Request, Idle
  <2> QED BY <1>3, <2>1, LinksStay DEF HandlerOK
<1> QED BY <1>1, <1>2, <1>3 DEF HandlerOK

\* A step that leaves one handler as it should be leaves all of them so.
LEMMA HandlersKept ==
  ASSUME TypeOK, TypeOK', HandlersOK, [Next]_vars, NEW s \in Slots,
         NEW r \in Request, Becomes(s, r), HandlerOK(r, row', link')
  PROVE  HandlersOK'
<1> SUFFICES ASSUME NEW z \in Slots PROVE HandlerOK(req'[z], row', link')
  BY DEF HandlersOK
<1>1. CASE z = s
  BY <1>1 DEF Becomes, TypeOK
<1>2. CASE z # s
  <2>1. req'[z] = req[z] /\ req[z] \in Request /\ HandlerOK(req[z], row, link)
    BY <1>2 DEF Becomes, TypeOK, HandlersOK
  <2> QED BY <2>1, HandlerKept
<1> QED BY <1>1, <1>2

LEMMA HandlersWait ==
  ASSUME TypeOK, TypeOK', HandlersOK, [Next]_vars, UNCHANGED req
  PROVE  HandlersOK'
<1> SUFFICES ASSUME NEW z \in Slots PROVE HandlerOK(req'[z], row', link')
  BY DEF HandlersOK
<1>1. req'[z] = req[z] /\ req[z] \in Request /\ HandlerOK(req[z], row, link)
  BY DEF TypeOK, HandlersOK
<1> QED BY <1>1, HandlerKept

\* Handlers that will sign nothing.
LEMMA NothingToSign ==
  ASSUME NEW r, r.op \in {"none", "delete", "role"}
  PROVE  HandlerOK(r, row', link')
BY DEF HandlerOK

\* A handler that ends leaves the others as they should be.
LEMMA EndsWell ==
  ASSUME TypeOK, TypeOK', HandlersOK, [Next]_vars, NEW s \in Slots, Ends(s)
  PROVE  HandlersOK'
<1>1. Idle \in Request /\ Idle.op = "none"
  BY AllKinds DEF Idle
<1>2. HandlerOK(Idle, row', link')
  BY <1>1, NothingToSign
<1> QED BY <1>1, <1>2, HandlersKept DEF Ends

LEMMA HandlersNext == TypeOK /\ TypeOK' /\ HandlersOK /\ LinksAreOwned /\ [Next]_vars => HandlersOK'
<1> SUFFICES ASSUME TypeOK, TypeOK', HandlersOK, LinksAreOwned, [Next]_vars PROVE HandlersOK'
  OBVIOUS
<1> USE AccountsAssumption
<1>1. CASE UNCHANGED req
  BY <1>1, HandlersWait
<1>2. ASSUME NEW s \in Slots, NEW u \in Users, NEW pw \in Passwords, LoginReads(s, u, pw)
      PROVE  HandlersOK'
  <2> DEFINE r == [op |-> "login", at |-> "verify", id |-> u, pw |-> pw, seen |-> row[u]]
  <2>1. r \in Request /\ row[u] \in Row
    BY RowTyped, AllKinds DEF Logins
  <2>2. Becomes(s, r) /\ Live(u) /\ row' = row
    BY <1>2 DEF LoginReads, Starts
  <2>3. HandlerOK(r, row', link')
    BY <2>1, <2>2 DEF HandlerOK, Matches, Live, Row
  <2> QED BY <2>1, <2>2, <2>3, HandlersKept
<1>3. ASSUME NEW s \in Slots, LoginClears(s) PROVE HandlersOK'
  <2>1. CASE Ends(s)
    BY <2>1, EndsWell
  <2> DEFINE r == [req[s] EXCEPT !.at = "sign"]
  <2>2. CASE Becomes(s, r)
    <3>1. req[s] \in Logins /\ HandlerOK(req[s], row, link)
      BY <1>3, Kinds DEF LoginClears, Running, HandlersOK
    <3>2. HandlerOK(req[s], row', link')
      BY <3>1, AllKinds, HandlerKept
    <3>3. r \in Request /\ HandlerOK(r, row', link')
      BY <3>1, <3>2, AllKinds DEF Logins, HandlerOK
    <3> QED BY <2>2, <3>3, HandlersKept
  <2> QED BY <1>3, <2>1, <2>2 DEF LoginClears
<1>4. ASSUME NEW s \in Slots, NEW u \in Users, RecoverCounts(s, u) PROVE HandlersOK'
  <2> DEFINE r == [op |-> "recover", at |-> "create", id |-> u]
  <2>1. r \in Request
    BY AllKinds DEF Recovers
  <2>2. Becomes(s, r) /\ Live(u) /\ row' = row
    BY <1>4 DEF RecoverCounts, Starts
  <2>3. HandlerOK(r, row', link')
    BY <2>2 DEF HandlerOK, Live
  <2> QED BY <2>1, <2>2, <2>3, HandlersKept
<1>5. ASSUME NEW s \in Slots, NEW k \in Links, NEW pw \in Passwords, ResetLooksUp(s, k, pw)
      PROVE  HandlersOK'
  <2> DEFINE r == [op |-> "reset", at |-> "write", id |-> link[k].for, link |-> k, pw |-> pw]
  <2>1. link[k] \in MadeLinks /\ row[link[k].for].made
    BY <1>5, LinkMade DEF ResetLooksUp, LinksAreOwned
  <2>2. r \in Request
    BY <2>1, AllKinds DEF MadeLinks, Lookups
  <2>3. Becomes(s, r) /\ row' = row /\ link' = link /\ link[k].state = "unused"
    BY <1>5 DEF ResetLooksUp, Starts
  <2>4. HandlerOK(r, row', link')
    BY <2>1, <2>3 DEF HandlerOK
  <2> QED BY <2>2, <2>3, <2>4, HandlersKept
<1>6. ASSUME NEW s \in Slots, ResetWrites(s) PROVE HandlersOK'
  <2> DEFINE id == req[s].id
             r == [op |-> "reset", at |-> "mark", id |-> id, link |-> req[s].link, seen |-> row'[id]]
  <2>1. req[s] \in Lookups /\ HandlerOK(req[s], row, link)
    BY <1>6, Kinds DEF ResetWrites, HandlersOK
  <2>2. HandlerOK(req[s], row', link')
    BY <2>1, AllKinds, HandlerKept
  <2>3. id \in Users /\ req[s].link \in Links /\ row'[id] \in Row
    BY <2>1 DEF Lookups, TypeOK
  <2>4. row'[id].made /\ link'[req[s].link].state # "unmade"
    BY <2>1, <2>2 DEF HandlerOK, Lookups
  <2>5. Becomes(s, r)
    BY <1>6 DEF ResetWrites
  <2>6. r \in Request
    BY <2>3, AllKinds DEF Resets
  <2>7. HandlerOK(r, row', link')
    BY <2>3, <2>4 DEF HandlerOK, Matches, Row
  <2> QED BY <2>5, <2>6, <2>7, HandlersKept
<1>7. ASSUME NEW s \in Slots, ResetMarks(s) PROVE HandlersOK'
  <2> DEFINE r == [req[s] EXCEPT !.at = "invalidate"]
  <2>1. req[s] \in Resets /\ HandlerOK(req[s], row, link)
    BY <1>7, Kinds DEF ResetMarks, Running, HandlersOK
  <2>2. HandlerOK(req[s], row', link')
    BY <2>1, AllKinds, HandlerKept
  <2>3. r \in Request /\ HandlerOK(r, row', link')
    BY <2>1, <2>2, AllKinds DEF Resets, HandlerOK
  <2>4. Becomes(s, r)
    BY <1>7 DEF ResetMarks
  <2> QED BY <2>3, <2>4, HandlersKept
<1>8. ASSUME NEW s \in Slots, NEW t \in sessions, DeleteStarts(s, t) PROVE HandlersOK'
  <2> DEFINE r == [op |-> "delete", at |-> "count", id |-> t.sub, seen |-> row[t.sub]]
  <2>1. r \in Request
    BY RowTyped, AllKinds DEF TypeOK, Deletes
  <2>2. Becomes(s, r) /\ HandlerOK(r, row', link')
    BY <1>8, NothingToSign DEF DeleteStarts, Starts
  <2> QED BY <2>1, <2>2, HandlersKept
<1>9. ASSUME NEW s \in Slots, DeleteCounts(s) PROVE HandlersOK'
  <2> DEFINE r == [req[s] EXCEPT !.at = "erase"]
  <2>1. req[s] \in Deletes
    BY <1>9, Kinds DEF DeleteCounts, Running
  <2>2. r \in Request /\ HandlerOK(r, row', link')
    BY <2>1, AllKinds, NothingToSign DEF Deletes
  <2>3. Ends(s) \/ Becomes(s, r)
    BY <1>9 DEF DeleteCounts
  <2> QED BY <2>2, <2>3, HandlersKept, EndsWell
<1>10. ASSUME NEW s \in Slots, NEW t \in sessions, NEW u \in Users, NEW to \in Assigned,
              RoleStarts(s, t, u, to)
       PROVE  HandlersOK'
  <2> DEFINE r == [op |-> "role", at |-> "target", by |-> t.sub, byRole |-> row[t.sub].role,
                   id |-> u, to |-> to]
  <2>1. t.sub \in Users /\ to \in Roles /\ row[t.sub].role \in Roles
    BY RowTyped DEF TypeOK, Row
  <2>2. r \in Request
    BY <2>1, AllKinds DEF Asks
  <2>3. Becomes(s, r) /\ HandlerOK(r, row', link')
    BY <1>10, NothingToSign DEF RoleStarts, Starts
  <2> QED BY <2>2, <2>3, HandlersKept
<1>11. ASSUME NEW s \in Slots, RoleReads(s) PROVE HandlersOK'
  <2>1. req[s] \in Asks
    BY <1>11, Kinds DEF RoleReads
  <2>2. ASSUME NEW at \in {"count", "write"},
               Becomes(s, [op |-> "role", at |-> at, id |-> req[s].id, to |-> req[s].to])
        PROVE  HandlersOK'
    <3> DEFINE r == [op |-> "role", at |-> at, id |-> req[s].id, to |-> req[s].to]
    <3>1. r \in Request /\ HandlerOK(r, row', link')
      BY <2>1, AllKinds, NothingToSign DEF Asks, Changes
    <3> QED BY <2>2, <3>1, HandlersKept
  <2>3. \/ Ends(s)
        \/ \E at \in {"count", "write"} :
             Becomes(s, [op |-> "role", at |-> at, id |-> req[s].id, to |-> req[s].to])
    BY <1>11 DEF RoleReads
  <2> QED BY <2>2, <2>3, EndsWell
<1>12. ASSUME NEW s \in Slots, NEW at \in {"write", "audit"}, req[s].op = "role",
              req[s].at # "target", Becomes(s, [req[s] EXCEPT !.at = at])
       PROVE  HandlersOK'
  <2> DEFINE r == [req[s] EXCEPT !.at = at]
  <2>1. req[s] \in Changes
    BY <1>12, Kinds
  <2>2. r \in Request /\ HandlerOK(r, row', link')
    BY <2>1, AllKinds, NothingToSign DEF Changes
  <2> QED BY <1>12, <2>2, HandlersKept
<1>13. ASSUME NEW s \in Slots, RoleCounts(s) \/ RoleWrites(s) PROVE HandlersOK'
  BY <1>12, <1>13, EndsWell DEF RoleCounts, RoleWrites, Running
<1>14. ASSUME NEW s \in Slots, Step(s) PROVE HandlersOK'
  BY <1>14, <1>2, <1>3, <1>4, <1>5, <1>6, <1>7, <1>8, <1>9, <1>10, <1>11, <1>13, EndsWell
  DEF Step, LoginFails, LoginSigns, RecoverCreates, ResetSigns, DeleteErases, RoleAudits, Aborts
<1> QED
  BY <1>1, <1>14 DEF Next, LockLapses, Revoke, Register, LinkAges, vars

LEMMA LinksNext == SessionInv /\ TypeOK' /\ [Next]_vars => LinksAreOwned'
<1> SUFFICES ASSUME SessionInv, TypeOK', [Next]_vars, NEW k \in Links, link'[k].state # "unmade"
             PROVE  row'[link'[k].for].made
  BY DEF LinksAreOwned
<1> USE AccountsAssumption DEF SessionInv
<1>1. CASE link[k].state # "unmade"
  <2>1. link'[k].for = link[k].for /\ link[k].for \in Users /\ row[link[k].for].made
    BY <1>1, LinkMade, LinksStay DEF MadeLinks, LinksAreOwned
  <2> QED BY <2>1, RowsGoForward DEF Forward
<1>2. CASE link[k].state = "unmade"
  <2>1. ASSUME NEW s \in Slots, NEW i \in Links, RecoverCreates(s, i)
        PROVE  row'[link'[k].for].made
    <3>1. k = i
      BY <1>2, <2>1 DEF RecoverCreates, TypeOK
    <3>2. link'[k].for = req[s].id /\ row' = row /\ req[s].op = "recover"
      BY <2>1, <3>1 DEF RecoverCreates, Running, TypeOK
    <3> QED BY <3>2 DEF HandlersOK, HandlerOK
  <2>2. ASSUME NEW s \in Slots, ResetMarks(s) PROVE FALSE
    <3>1. req[s].link # k
      BY <1>2, <2>2 DEF ResetMarks, Running, HandlersOK, HandlerOK
    <3> QED BY <1>2, <2>2, <3>1 DEF ResetMarks, TypeOK
  <2>3. ASSUME NEW s \in Slots, ResetSigns(s) PROVE FALSE
    BY <1>2, <2>3 DEF ResetSigns, LinksOf
  <2>4. ASSUME NEW i \in Links, LinkAges(i) PROVE FALSE
    <3>1. i # k
      BY <1>2, <2>4 DEF LinkAges
    <3> QED BY <1>2, <2>4, <3>1 DEF LinkAges, TypeOK
  <2>5. CASE UNCHANGED link
    BY <1>2, <2>5
  <2>6. ASSUME NEW s \in Slots, Step(s) PROVE row'[link'[k].for].made
    BY <2>1, <2>2, <2>3, <2>5, <2>6
    DEF Step, LoginReads, LoginFails, LoginClears, LoginSigns, RecoverCounts, ResetLooksUp,
        ResetWrites, DeleteStarts, DeleteCounts, DeleteErases, RoleStarts, RoleReads, RoleCounts,
        RoleWrites, RoleAudits, Aborts
  <2> QED BY <2>4, <2>5, <2>6 DEF Next, LockLapses, Revoke, Register, vars
<1> QED BY <1>1, <1>2

\* What is signed now matches the row now.
LEMMA SessionsNext == SessionInv /\ TypeOK' /\ [Next]_vars => SessionsMatch'
<1> SUFFICES ASSUME SessionInv, TypeOK', [Next]_vars, NEW t \in sessions'
             PROVE  Matches(row'[t.sub], t)
  BY DEF SessionsMatch
<1> USE AccountsAssumption DEF SessionInv
<1>1. CASE t \in sessions
  <2>1. t.sub \in Users /\ t.ver \in Nat /\ Matches(row[t.sub], t)
    BY <1>1 DEF TypeOK, SessionsMatch
  <2>2. row[t.sub] \in Row /\ row'[t.sub] \in Row
    BY <2>1 DEF TypeOK
  <2> QED BY <2>1, <2>2, RowsGoForward, MatchesKept
<1>2. ASSUME NEW s \in Slots, row' = row, req[s] \in Logins \/ req[s] \in Resets,
             HandlerOK(req[s], row, link), t = Sign(req[s].id, req[s].seen)
      PROVE  Matches(row'[t.sub], t)
  <2>1. Matches(row[req[s].id], req[s].seen)
    BY <1>2 DEF Logins, Resets, HandlerOK
  <2> QED BY <1>2, <2>1 DEF Sign, Matches
<1>3. ASSUME NEW s \in Slots, LoginSigns(s), t \notin sessions PROVE Matches(row'[t.sub], t)
  <2>1. req[s] \in Logins
    BY <1>3, Kinds DEF LoginSigns, Running
  <2> QED BY <1>2, <1>3, <2>1 DEF LoginSigns, HandlersOK
<1>4. ASSUME NEW s \in Slots, ResetSigns(s), t \notin sessions PROVE Matches(row'[t.sub], t)
  <2>1. req[s] \in Resets
    BY <1>4, Kinds DEF ResetSigns, Running
  <2> QED BY <1>2, <1>4, <2>1 DEF ResetSigns, HandlersOK
<1>5. ASSUME NEW u \in Users, NEW pw \in Passwords, Register(u, pw), t \notin sessions
      PROVE  Matches(row'[t.sub], t)
  <2>1. t = Sign(u, row'[u]) /\ row' = [row EXCEPT ![u] = [row[u] EXCEPT !.made = TRUE, !.pass = pw]]
    BY <1>5 DEF Register
  <2>2. row[u] \in Row /\ row'[u] \in Row
    BY DEF TypeOK
  <2>3. row'[u].made
    BY <2>1, <2>2 DEF TypeOK, Row
  <2> QED BY <2>1, <2>2, <2>3 DEF Sign, Matches, Row
<1>6. ASSUME NEW s \in Slots, Step(s), t \notin sessions PROVE Matches(row'[t.sub], t)
  BY <1>3, <1>4, <1>6
  DEF Step, LoginReads, LoginFails, LoginClears, RecoverCounts, RecoverCreates, ResetLooksUp,
      ResetWrites, ResetMarks, DeleteStarts, DeleteCounts, DeleteErases, RoleStarts, RoleReads,
      RoleCounts, RoleWrites, RoleAudits, Aborts
<1> QED BY <1>1, <1>5, <1>6 DEF Next, LockLapses, Revoke, LinkAges, vars

LEMMA SessionInit == Init => SessionInv
<1> SUFFICES ASSUME Init PROVE SessionInv
  OBVIOUS
<1>1. TypeOK
  BY TypeInit
<1>2. HandlersOK
  BY DEF Init, HandlersOK, HandlerOK, Idle
<1>3. LinksAreOwned /\ SessionsMatch
  BY DEF Init, LinksAreOwned, SessionsMatch
<1> QED BY <1>1, <1>2, <1>3 DEF SessionInv

LEMMA SessionStep == SessionInv /\ [Next]_vars => SessionInv'
<1> SUFFICES ASSUME SessionInv, [Next]_vars PROVE SessionInv'
  OBVIOUS
<1>1. TypeOK'
  BY TypeNext DEF SessionInv
<1>2. HandlersOK'
  BY <1>1, HandlersNext DEF SessionInv
<1>3. LinksAreOwned' /\ SessionsMatch'
  BY <1>1, LinksNext, SessionsNext
<1> QED BY <1>1, <1>2, <1>3 DEF SessionInv

LEMMA SessionAlways == Spec => []SessionInv
BY SessionInit, SessionStep, PTL DEF Spec

\* Rows, links, cookies and handlers keep their types; a reset marks a link that was
\* made, which needs the handlers' invariant.
THEOREM TypeCorrect == Spec => []TypeOK
<1>1. SessionInv => TypeOK
  BY DEF SessionInv
<1> QED BY <1>1, SessionAlways, PTL

\* A session that opens an account has the account's password and role of today,
\* whatever logins, resets, revocations and changes of role ran beside its signing.
\* (resolveSession, sign)
THEOREM SessionsStayCurrent == Spec => []SessionsAreCurrent
<1>1. SessionInv => SessionsAreCurrent
  BY DEF SessionInv, SessionsMatch, SessionsAreCurrent, Matches, Resolves
<1> QED BY <1>1, SessionAlways, PTL

\* No step takes an account back: not to an earlier version of its token, and not to
\* another password or role under the same version.
THEOREM RowsOnlyGoForward == Spec => [][\A u \in Users : Forward(row[u], row'[u])]_vars
<1>1. TypeOK /\ TypeOK' /\ [Next]_vars => [\A u \in Users : Forward(row[u], row'[u])]_vars
  BY RowsGoForward
<1> QED BY <1>1, TypeCorrect, PTL DEF Spec
-----------------------------------------------------------------------------
\* What makes the count in front of a deletion and of a demotion enough, as long as
\* nobody else is changing who commands: what was counted is still so when it is used.
Alone == \A s, z \in Changing : s = z
Counted(s) ==
  /\ Running(s, "delete", "count") => req[s].seen.role = row[req[s].id].role
  /\ Running(s, "delete", "erase") => Admins \ {req[s].id} # {}
  /\ Running(s, "role", "write") /\ ~Commands(req[s].to) => Admins \ {req[s].id} # {}
CommandInv == ~overlapped => Admins # {} /\ Alone /\ \A s \in Slots : Counted(s)

\* The steps that take the command from nobody.
Keeps(r, n) == (r.made => n.made) /\ n.gone = r.gone /\ n.role = r.role
Quiet ==
  /\ overlapped' = overlapped
  /\ \A u \in Users : Keeps(row[u], row'[u])
  /\ \A z \in Slots : req'[z] = req[z] \/ req'[z].op \notin {"role", "delete"}

LEMMA AdminsStay ==
  ASSUME \A u \in Users : Keeps(row[u], row'[u])
  PROVE  Admins \subseteq Admins'
BY DEF Admins, Live, Keeps

LEMMA QuietKeeps ==
  ASSUME TypeOK, CommandInv, Quiet
  PROVE  CommandInv'
<1> SUFFICES ASSUME ~overlapped' PROVE Admins' # {} /\ Alone' /\ \A s \in Slots : Counted(s)'
  BY DEF CommandInv
<1>1. ~overlapped /\ Admins # {} /\ Alone /\ \A s \in Slots : Counted(s)
  BY DEF Quiet, CommandInv
<1>2. Admins \subseteq Admins'
  BY AdminsStay DEF Quiet
<1>3. Alone'
  BY <1>1 DEF Alone, Changing, Quiet
<1>4. ASSUME NEW s \in Slots PROVE Counted(s)'
  <2>1. CASE req'[s] = req[s]
    <3>1. req[s].op = "delete" => req[s].id \in Users
      BY Kinds DEF Deletes
    <3>2. Running(s, "delete", "count") => row'[req[s].id].role = row[req[s].id].role
      BY <3>1 DEF Running, Quiet, Keeps
    <3> QED BY <1>1, <1>2, <2>1, <3>2 DEF Counted, Running
  <2>2. CASE req'[s].op \notin {"role", "delete"}
    BY <2>2 DEF Counted, Running
  <2> QED BY <2>1, <2>2 DEF Quiet
<1> QED BY <1>1, <1>2, <1>3, <1>4

LEMMA Replaced ==
  ASSUME TypeOK, NEW s \in Slots, NEW r, Becomes(s, r)
  PROVE  req'[s] = r /\ \A z \in Slots \ {s} : req'[z] = req[z]
BY DEF TypeOK, Becomes

\* A handler that becomes something that commands nothing, over rows that keep who commands.
LEMMA QuietMove ==
  ASSUME TypeOK, NEW s \in Slots, NEW r, Becomes(s, r), r.op \notin {"role", "delete"},
         overlapped' = overlapped, \A u \in Users : Keeps(row[u], row'[u])
  PROVE  Quiet
BY Replaced DEF Quiet

LEMMA QuietEnd ==
  ASSUME TypeOK, NEW s \in Slots, Ends(s),
         overlapped' = overlapped, \A u \in Users : Keeps(row[u], row'[u])
  PROVE  Quiet
<1>1. Idle.op = "none"
  BY DEF Idle
<1> QED BY <1>1, QuietMove DEF Ends

LEMMA RowsKept ==
  ASSUME UNCHANGED row
  PROVE  \A u \in Users : Keeps(row[u], row'[u])
BY DEF Keeps

\* Taking one account out of a set of more than one leaves somebody.
LEMMA SomebodyElse ==
  ASSUME NEW u, ~(Cardinality(Admins) <= 1)
  PROVE  Admins \ {u} # {}
<1> SUFFICES ASSUME Admins \subseteq {u} PROVE FALSE
  OBVIOUS
<1>1. IsFiniteSet({u}) /\ Cardinality({u}) = 1
  BY FS_Singleton
<1>2. Cardinality(Admins) <= 1
  BY <1>1, FS_Subset
<1> QED BY <1>2

\* The steps of a handler that changes who commands: it is the only one of its kind, so
\* it is enough to look at it.
LEMMA LoneMove ==
  ASSUME TypeOK, NEW s \in Slots, NEW r, Becomes(s, r), Admins' # {}, Counted(s)',
         \A z \in Changing : z = s
  PROVE  Admins' # {} /\ Alone' /\ \A z \in Slots : Counted(z)'
<1>1. \A z \in Slots \ {s} : req'[z] = req[z] /\ req[z].op \notin {"role", "delete"}
  BY Replaced DEF Changing
<1>2. Alone'
  BY <1>1 DEF Alone, Changing
<1>3. \A z \in Slots \ {s} : Counted(z)'
  BY <1>1 DEF Counted, Running
<1> QED BY <1>2, <1>3

LEMMA CommandStarts ==
  ASSUME TypeOK, CommandInv, NEW s \in Slots, NEW r, Starts(s, r), Overlaps, UNCHANGED row,
         r.op = "delete" => r.at = "count" /\ r.seen.role = row[r.id].role,
         r.op = "role" => r.at = "target"
  PROVE  CommandInv'
<1> SUFFICES ASSUME ~overlapped' PROVE Admins' # {} /\ Alone' /\ \A z \in Slots : Counted(z)'
  BY DEF CommandInv
<1>1. ~overlapped /\ Changing = {} /\ Admins # {}
  BY DEF Overlaps, CommandInv
<1>2. Becomes(s, r) /\ req'[s] = r
  BY Replaced DEF Starts
<1>3. Admins' = Admins
  BY DEF Admins, Live
<1>4. Counted(s)'
  BY <1>2 DEF Counted, Running
<1> QED BY <1>1, <1>2, <1>3, <1>4, LoneMove

LEMMA CommandNext == TypeOK /\ TypeOK' /\ CommandInv /\ [Next]_vars => CommandInv'
<1> SUFFICES ASSUME TypeOK, TypeOK', CommandInv, [Next]_vars PROVE CommandInv'
  OBVIOUS
<1> USE AccountsAssumption
<1>1. CASE UNCHANGED vars
  <2>1. Quiet
    BY <1>1, RowsKept DEF vars, Quiet
  <2> QED BY <2>1, QuietKeeps
<1>2. ASSUME NEW s \in Slots, NEW u \in Users, NEW pw \in Passwords, LoginReads(s, u, pw)
      PROVE  CommandInv'
  BY <1>2, RowsKept, QuietMove, QuietKeeps DEF LoginReads, Starts
<1>3. ASSUME NEW s \in Slots, LoginFails(s) PROVE CommandInv'
  <2>1. req[s] \in Logins
    BY <1>3, Kinds DEF LoginFails, Running
  <2>2. \A u \in Users : Keeps(row[u], row'[u])
    BY <1>3, <2>1 DEF LoginFails, TypeOK, Row, Logins, Keeps
  <2> QED BY <1>3, <2>2, QuietEnd, QuietKeeps DEF LoginFails
<1>4. ASSUME NEW s \in Slots, LoginClears(s) PROVE CommandInv'
  <2>1. req[s] \in Logins
    BY <1>4, Kinds DEF LoginClears, Running
  <2>2. \A u \in Users : Keeps(row[u], row'[u])
    BY <1>4, <2>1 DEF LoginClears, TypeOK, Row, Logins, Keeps
  <2>3. [req[s] EXCEPT !.at = "sign"].op = "login"
    BY <2>1 DEF Logins
  <2>4. Ends(s) \/ Becomes(s, [req[s] EXCEPT !.at = "sign"])
    BY <1>4 DEF LoginClears
  <2> QED BY <1>4, <2>2, <2>3, <2>4, QuietEnd, QuietMove, QuietKeeps DEF LoginClears
<1>5. ASSUME NEW s \in Slots, Ends(s), UNCHANGED <<row, overlapped>> PROVE CommandInv'
  BY <1>5, RowsKept, QuietEnd, QuietKeeps
<1>6. ASSUME NEW v \in Users, LockLapses(v) \/ Revoke(v) PROVE CommandInv'
  <2>1. \A u \in Users : Keeps(row[u], row'[u])
    BY <1>6 DEF LockLapses, Revoke, TypeOK, Row, Keeps
  <2> QED BY <1>6, <2>1, QuietKeeps DEF LockLapses, Revoke, Quiet
<1>7. ASSUME NEW v \in Users, NEW pw \in Passwords, Register(v, pw) PROVE CommandInv'
  <2>1. \A u \in Users : Keeps(row[u], row'[u])
    BY <1>7 DEF Register, TypeOK, Row, Keeps
  <2> QED BY <1>7, <2>1, QuietKeeps DEF Register, Quiet
<1>8. ASSUME NEW s \in Slots, NEW u \in Users, RecoverCounts(s, u) PROVE CommandInv'
  BY <1>8, RowsKept, QuietMove, QuietKeeps DEF RecoverCounts, Starts
<1>9. ASSUME NEW s \in Slots, NEW k \in Links, NEW pw \in Passwords, ResetLooksUp(s, k, pw)
      PROVE  CommandInv'
  BY <1>9, RowsKept, QuietMove, QuietKeeps DEF ResetLooksUp, Starts
<1>10. ASSUME NEW s \in Slots, ResetWrites(s) PROVE CommandInv'
  <2>1. req[s] \in Lookups
    BY <1>10, Kinds DEF ResetWrites
  <2> DEFINE id == req[s].id
             r == [op |-> "reset", at |-> "mark", id |-> id, link |-> req[s].link, seen |-> row'[id]]
  <2>2. row' = [row EXCEPT ![id].pass = req[s].pw, ![id].ver = @ + 1,
                           ![id].failed = 0, ![id].locked = FALSE]
    BY <1>10 DEF ResetWrites
  <2>3. \A u \in Users : Keeps(row[u], row'[u])
    BY <2>1, <2>2 DEF Lookups, TypeOK, Row, Keeps
  <2>4. Becomes(s, r) /\ overlapped' = overlapped
    BY <1>10 DEF ResetWrites
  <2> QED BY <2>3, <2>4, QuietMove, QuietKeeps
<1>11. ASSUME NEW s \in Slots, ResetMarks(s) PROVE CommandInv'
  <2>1. [req[s] EXCEPT !.at = "invalidate"].op = "reset"
    BY <1>11, Kinds DEF ResetMarks, Running, Resets
  <2> QED BY <1>11, <2>1, RowsKept, QuietMove, QuietKeeps DEF ResetMarks
<1>12. ASSUME NEW s \in Slots, NEW t \in sessions, DeleteStarts(s, t) PROVE CommandInv'
  BY <1>12, CommandStarts DEF DeleteStarts
<1>13. ASSUME NEW s \in Slots, NEW t \in sessions, NEW u \in Users, NEW to \in Assigned,
              RoleStarts(s, t, u, to)
       PROVE  CommandInv'
  BY <1>13, CommandStarts DEF RoleStarts
<1>14. ASSUME NEW s \in Slots, req[s].op \in {"role", "delete"}, ~overlapped
       PROVE  Admins # {} /\ Counted(s) /\ \A z \in Changing : z = s
  BY <1>14 DEF CommandInv, Alone, Changing
<1>15. ASSUME NEW s \in Slots, NEW r, req[s].op \in {"role", "delete"}, Becomes(s, r),
              UNCHANGED <<row, overlapped>>, ~overlapped => Counted(s)'
       PROVE  CommandInv'
  <2> SUFFICES ASSUME ~overlapped' PROVE Admins' # {} /\ Alone' /\ \A z \in Slots : Counted(z)'
    BY DEF CommandInv
  <2>1. Admins' = Admins
    BY <1>15 DEF Admins, Live
  <2> QED BY <1>14, <1>15, <2>1, LoneMove
<1>16. ASSUME NEW s \in Slots, DeleteCounts(s) PROVE CommandInv'
  <2>1. req[s] \in Deletes
    BY <1>16, Kinds DEF DeleteCounts, Running
  <2> DEFINE r == [req[s] EXCEPT !.at = "erase"]
  <2>2. CASE Ends(s)
    BY <1>5, <1>16, <2>2 DEF DeleteCounts
  <2>3. CASE Becomes(s, r) /\ ~(Commands(req[s].seen.role) /\ Cardinality(Admins) <= 1)
    <3>1. req'[s] = r /\ r.op = "delete" /\ r.at = "erase" /\ r.id = req[s].id
      BY <2>1, <2>3, Replaced DEF Deletes
    <3>2. row' = row /\ Admins' = Admins /\ Running(s, "delete", "count")
      BY <1>16 DEF DeleteCounts, Admins, Live
    <3>3. ASSUME ~overlapped PROVE Admins \ {req[s].id} # {}
      <4>1. Admins # {} /\ Counted(s)
        BY <1>14, <2>1, <3>3 DEF Deletes
      <4>2. CASE ~(Cardinality(Admins) <= 1)
        BY <4>2, SomebodyElse
      <4>3. CASE ~Commands(req[s].seen.role)
        <5>1. ~Commands(row[req[s].id].role)
          BY <3>2, <4>1, <4>3 DEF Counted
        <5> QED BY <4>1, <5>1 DEF Admins
      <4> QED BY <2>3, <4>2, <4>3
    <3>4. ~overlapped => Counted(s)'
      BY <3>1, <3>2, <3>3 DEF Counted, Running
    <3> QED BY <1>15, <1>16, <2>1, <2>3, <3>4 DEF DeleteCounts, Deletes
  <2> QED BY <1>16, <2>2, <2>3 DEF DeleteCounts
<1>17. ASSUME NEW s \in Slots, DeleteErases(s) PROVE CommandInv'
  <2> SUFFICES ASSUME ~overlapped' PROVE Admins' # {} /\ Alone' /\ \A z \in Slots : Counted(z)'
    BY DEF CommandInv
  <2>1. req[s] \in Deletes /\ ~overlapped /\ Running(s, "delete", "erase")
    BY <1>17, Kinds DEF DeleteErases, Running
  <2>2. Admins \ {req[s].id} # {} /\ \A z \in Changing : z = s
    BY <1>14, <2>1 DEF Counted, Running
  <2>3. \A u \in Users \ {req[s].id} : row'[u] = row[u]
    BY <1>17 DEF DeleteErases, TypeOK
  <2>4. Admins' # {}
    BY <2>2, <2>3 DEF Admins, Live
  <2>5. Becomes(s, Idle) /\ req'[s] = Idle
    BY <1>17, Replaced DEF DeleteErases, Ends
  <2>6. Counted(s)'
    BY <2>5 DEF Counted, Running, Idle
  <2> QED BY <2>2, <2>4, <2>5, <2>6, LoneMove
<1>18. ASSUME NEW s \in Slots, RoleReads(s) PROVE CommandInv'
  <2>1. req[s] \in Asks /\ row' = row /\ overlapped' = overlapped
    BY <1>18, Kinds DEF RoleReads
  <2>2. CASE Ends(s)
    BY <1>5, <2>1, <2>2
  <2> DEFINE lowers == Commands(row[req[s].id].role) /\ ~Commands(req[s].to)
             at == IF lowers THEN "count" ELSE "write"
             r == [op |-> "role", at |-> at, id |-> req[s].id, to |-> req[s].to]
  <2>3. CASE Becomes(s, r)
    <3>1. req'[s] = r
      BY <2>3, Replaced
    <3>2. Admins' = Admins
      BY <2>1 DEF Admins, Live
    <3>3. ~overlapped => Admins # {}
      BY DEF CommandInv
    <3>4. ~lowers /\ ~Commands(req[s].to) => Admins \ {req[s].id} = Admins
      BY DEF Admins
    <3>5. ~overlapped => Counted(s)'
      <4>1. at = "write" => ~lowers
        OBVIOUS
      <4> HIDE DEF lowers, at
      <4>2. ~overlapped /\ at = "write" /\ ~Commands(req[s].to) => Admins' \ {req[s].id} # {}
        BY <3>2, <3>3, <3>4, <4>1
      <4> QED BY <3>1, <4>2 DEF Counted, Running
    <3> QED BY <1>15, <2>1, <2>3, <3>5 DEF Asks
  <2>4. Ends(s) \/ Becomes(s, r)
    BY <1>18 DEF RoleReads
  <2> QED BY <2>2, <2>3, <2>4
<1>19. ASSUME NEW s \in Slots, RoleCounts(s) PROVE CommandInv'
  <2>1. req[s] \in Changes /\ row' = row /\ overlapped' = overlapped
    BY <1>19, Kinds DEF RoleCounts, Running
  <2>2. CASE Ends(s)
    BY <1>5, <2>1, <2>2
  <2> DEFINE r == [req[s] EXCEPT !.at = "write"]
  <2>3. CASE Becomes(s, r) /\ ~(Cardinality(Admins) <= 1)
    <3>1. req'[s] = r /\ r.op = "role" /\ r.at = "write" /\ r.id = req[s].id
      BY <2>1, <2>3, Replaced DEF Changes
    <3>2. Admins' = Admins
      BY <2>1 DEF Admins, Live
    <3>3. Admins' \ {req[s].id} # {}
      BY <2>3, <3>2, SomebodyElse
    <3>4. Counted(s)'
      BY <3>1, <3>3 DEF Counted, Running
    <3> QED BY <1>15, <2>1, <2>3, <3>4 DEF Changes
  <2> QED BY <1>19, <2>2, <2>3 DEF RoleCounts
<1>20. ASSUME NEW s \in Slots, RoleWrites(s) PROVE CommandInv'
  <2> SUFFICES ASSUME ~overlapped' PROVE Admins' # {} /\ Alone' /\ \A z \in Slots : Counted(z)'
    BY DEF CommandInv
  <2> DEFINE id == req[s].id
             r == [req[s] EXCEPT !.at = "audit"]
  <2>1. req[s] \in Changes /\ ~overlapped /\ Running(s, "role", "write")
    BY <1>20, Kinds DEF RoleWrites, Running
  <2>2. Admins # {} /\ Counted(s) /\ \A z \in Changing : z = s
    BY <1>14, <2>1 DEF Running
  <2>3. row' = [row EXCEPT ![id].role = req[s].to, ![id].ver = @ + 1] /\ id \in Users
    BY <1>20, <2>1 DEF RoleWrites, Changes
  <2>4. \A u \in Users \ {id} : row'[u] = row[u]
    BY <2>3 DEF TypeOK
  <2>5. Admins' # {}
    <3>1. CASE ~Commands(req[s].to)
      BY <2>1, <2>2, <2>4, <3>1 DEF Counted, Admins, Live
    <3>2. CASE Commands(req[s].to)
      <4>1. row'[id].role = req[s].to /\ row'[id].made = row[id].made /\ row'[id].gone = row[id].gone
        <5> HIDE DEF id
        <5> QED BY <2>3 DEF TypeOK, Row
      <4>2. Admins \subseteq Admins'
        BY <2>4, <3>2, <4>1 DEF Admins, Live
      <4> QED BY <2>2, <4>2
    <3> QED BY <3>1, <3>2
  <2>6. Becomes(s, r) /\ req'[s] = r /\ r.op = "role" /\ r.at = "audit"
    BY <1>20, <2>1, Replaced DEF RoleWrites, Changes
  <2>7. Counted(s)'
    BY <2>6 DEF Counted, Running
  <2> QED BY <2>2, <2>5, <2>6, <2>7, LoneMove
<1>21. ASSUME NEW s \in Slots, Step(s) PROVE CommandInv'
  BY <1>21, <1>2, <1>3, <1>4, <1>5, <1>8, <1>9, <1>10, <1>11, <1>12, <1>13, <1>16, <1>17, <1>18,
     <1>19, <1>20
  DEF Step, LoginSigns, RecoverCreates, ResetSigns, RoleAudits, Aborts
<1>22. ASSUME NEW k \in Links, LinkAges(k) PROVE CommandInv'
  BY <1>22, RowsKept, QuietKeeps DEF LinkAges, Quiet
<1> QED
  BY <1>1, <1>6, <1>7, <1>21, <1>22 DEF Next

LEMMA CommandInit == Init => CommandInv
<1> SUFFICES ASSUME Init PROVE Admins # {} /\ Alone /\ \A s \in Slots : Counted(s)
  BY DEF CommandInv
<1>1. PICK u \in Users : Seed[u] \in {"admin", "root"}
  BY AccountsAssumption
<1>2. row[u].made /\ ~row[u].gone /\ row[u].role = Seed[u]
  BY <1>1 DEF Init
<1>3. u \in Admins
  BY <1>1, <1>2 DEF Admins, Live, Commands, Satisfies
<1>4. \A s \in Slots : req[s].op = "none"
  BY DEF Init, Idle
<1> QED BY <1>3, <1>4 DEF Alone, Changing, Counted, Running

\* Somebody can administer the platform after any logins, resets, deletions and changes
\* of role, unless two of the last two ran at once.  (auth.admin_count in front of both)
THEOREM OnlyOverlap == Spec => []OnlyOverlapOrphans
<1>1. CommandInv => OnlyOverlapOrphans
  BY DEF CommandInv, OnlyOverlapOrphans
<1>2. TypeOK /\ TypeOK' /\ CommandInv /\ [Next]_vars => CommandInv'
  BY CommandNext
<1> QED BY <1>1, <1>2, CommandInit, TypeCorrect, PTL DEF Spec
=============================================================================
