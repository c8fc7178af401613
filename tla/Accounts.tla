------------------------------ MODULE Accounts ------------------------------
(***************************************************************************)
(* The identity service (auth/src): accounts, signed sessions, recovery    *)
(* links and roles.  A request is a handler running at the api: each call  *)
(* it makes to the data service is a step of its own, and between two of   *)
(* them any other request may run.  What a handler read is kept in its     *)
(* request record, because later steps use the copy and not the row.       *)
(***************************************************************************)
EXTENDS Naturals, FiniteSets

CONSTANTS Users,       \* account ids
          Passwords,   \* what a password is told apart by
          Slots,       \* handlers that may run at the same time
          Links,       \* recovery links that can be created
          Assigned,    \* roles an administrator may pick
          Seed,        \* Seed[u]: the role u is deployed with, or "none"
          FirstPass,   \* the password of the accounts deployed
          MaxFailed,   \* MAX_FAILED, after which an account is locked
          ResetRate,   \* links one account may ask for in an hour
          MaxVersion,  \* bound on token_version
          MaxRequests  \* bound on the handlers that start

Roles == {"student", "tutor", "admin", "root"}

ASSUME AccountsAssumption ==
  /\ IsFiniteSet(Users)
  /\ Seed \in [Users -> Roles \cup {"none"}]
  /\ \E u \in Users : Seed[u] \in {"admin", "root"}   \* bootstrap-root.ts
  /\ FirstPass \in Passwords
  /\ Assigned \subseteq Roles
  /\ MaxFailed \in Nat \ {0} /\ ResetRate \in Nat
  /\ MaxVersion \in Nat /\ MaxRequests \in Nat

VARIABLES row,         \* users: one row per account
          link,        \* reset_tokens, by link
          sessions,    \* every session ever signed
          req,         \* the handler in each slot
          started,     \* how many handlers have started
          overlapped   \* history: two requests that change who commands have run at once

vars == <<row, link, sessions, req, started, overlapped>>

Row == [made: BOOLEAN, gone: BOOLEAN, pass: Passwords, role: Roles,
        ver: 0..MaxVersion, failed: 0..MaxFailed, locked: BOOLEAN]
Idle == [op |-> "none"]

\* CONTIENE, satisface and mandaPlataforma: root satisfies every demand, the
\* other roles only their own.
Satisfies(role, wanted) == role = "root" \/ role \in wanted
Commands(role) == Satisfies(role, {"admin"})

\* auth.user and auth.user_by_email see an account until it is deleted.
Live(u) == row[u].made /\ ~row[u].gone
\* auth.admin_count
Admins == {u \in Users : Live(u) /\ Commands(row[u].role)}

\* sign(): the claims come from the copy of the row the handler holds.  "pass"
\* is not in the cookie: it records which password that row had.
Sign(u, seen) == [sub |-> u, role |-> seen.role, ver |-> seen.ver, pass |-> seen.pass]
\* resolveSession: the account is live and its version is still the signed one.
Resolves(t) == Live(t.sub) /\ t.ver = row[t.sub].ver

Becomes(s, r) == req' = [req EXCEPT ![s] = r]
Ends(s) == Becomes(s, Idle)
Starts(s, r) ==
  /\ req[s] = Idle /\ started < MaxRequests
  /\ Becomes(s, r) /\ started' = started + 1
Running(s, op, at) == req[s].op = op /\ req[s].at = at
\* Requests that may take the command of the platform from somebody.
Changing == {s \in Slots : req[s].op \in {"role", "delete"}}

Init ==
  /\ row = [u \in Users |->
              [made |-> Seed[u] # "none", gone |-> FALSE, pass |-> FirstPass,
               role |-> IF Seed[u] = "none" THEN "student" ELSE Seed[u],
               ver |-> 0, failed |-> 0, locked |-> FALSE]]
  /\ link = [k \in Links |-> [state |-> "unmade"]]
  /\ sessions = {}
  /\ req = [s \in Slots |-> Idle]
  /\ started = 0
  /\ overlapped = FALSE

-----------------------------------------------------------------------------
(* POST /api/auth/login: one read, the derivation, then one write. *)

LoginReads(s, u, pw) ==
  /\ Live(u)
  /\ Starts(s, [op |-> "login", at |-> "verify", id |-> u, pw |-> pw, seen |-> row[u]])
  /\ UNCHANGED <<row, link, sessions, overlapped>>

\* auth.login_failure writes the count this request computed from its own copy,
\* and with it the lock, set or cleared.  Counts above MaxFailed are not told apart.
LoginFails(s) ==
  /\ Running(s, "login", "verify") /\ req[s].pw # req[s].seen.pass
  /\ LET seen == req[s].seen
         failed == IF seen.failed < MaxFailed THEN seen.failed + 1 ELSE MaxFailed
     IN row' = IF seen.locked THEN row
               ELSE [row EXCEPT ![req[s].id].failed = failed,
                                ![req[s].id].locked = failed >= MaxFailed]
  /\ Ends(s)
  /\ UNCHANGED <<link, sessions, started, overlapped>>

\* The right password: a locked account answers 423, any other is cleared.
LoginClears(s) ==
  /\ Running(s, "login", "verify") /\ req[s].pw = req[s].seen.pass
  /\ IF req[s].seen.locked
     THEN Ends(s) /\ UNCHANGED row
     ELSE /\ Becomes(s, [req[s] EXCEPT !.at = "sign"])
          /\ row' = [row EXCEPT ![req[s].id].failed = 0, ![req[s].id].locked = FALSE]
  /\ UNCHANGED <<link, sessions, started, overlapped>>

LoginSigns(s) ==
  /\ Running(s, "login", "sign")
  /\ sessions' = sessions \cup {Sign(req[s].id, req[s].seen)}
  /\ Ends(s)
  /\ UNCHANGED <<row, link, started, overlapped>>

LockLapses(u) ==
  /\ row[u].locked
  /\ row' = [row EXCEPT ![u].locked = FALSE]
  /\ UNCHANGED <<link, sessions, req, started, overlapped>>

\* POST /api/auth/register: the insert of a taken address fails on the unique
\* index whatever the check before it saw, so one step stands for both.
Register(u, pw) ==
  /\ ~row[u].made
  /\ row' = [row EXCEPT ![u] = [@ EXCEPT !.made = TRUE, !.pass = pw]]
  /\ sessions' = sessions \cup {Sign(u, row'[u])}
  /\ UNCHANGED <<link, req, started, overlapped>>

\* POST /api/auth/logout with todos, and the revoke_session of applyDefenseAction.
Revoke(u) ==
  /\ row[u].made /\ row[u].ver < MaxVersion
  /\ row' = [row EXCEPT ![u].ver = @ + 1]
  /\ UNCHANGED <<link, sessions, req, started, overlapped>>

-----------------------------------------------------------------------------
(* POST /api/auth/recover and POST /api/auth/reset. *)

LinksOf(u) == {k \in Links : link[k].state # "unmade" /\ link[k].for = u}

RecoverCounts(s, u) ==
  /\ Live(u)
  /\ Cardinality({k \in LinksOf(u) : link[k].age # "old"}) < ResetRate
  /\ Starts(s, [op |-> "recover", at |-> "create", id |-> u])
  /\ UNCHANGED <<row, link, sessions, overlapped>>

RecoverCreates(s, k) ==
  /\ Running(s, "recover", "create") /\ link[k].state = "unmade"
  /\ link' = [link EXCEPT ![k] = [state |-> "unused", for |-> req[s].id, age |-> "fresh"]]
  /\ Ends(s)
  /\ UNCHANGED <<row, sessions, started, overlapped>>

\* TOKEN_MINUTES pass, and then the hour reset_rate looks back.
LinkAges(k) ==
  /\ link[k].state # "unmade" /\ link[k].age # "old"
  /\ link' = [link EXCEPT ![k].age = IF @ = "fresh" THEN "expired" ELSE "old"]
  /\ UNCHANGED <<row, sessions, req, started, overlapped>>

ResetLooksUp(s, k, pw) ==
  /\ link[k].state = "unused" /\ link[k].age = "fresh"
  /\ Starts(s, [op |-> "reset", at |-> "write", id |-> link[k].for, link |-> k, pw |-> pw])
  /\ UNCHANGED <<row, link, sessions, overlapped>>

\* Mutant: the new password leaves token_version alone.
ResetKeepsVersion(s) ==
  /\ Running(s, "reset", "write")
  /\ row' = [row EXCEPT ![req[s].id] = [@ EXCEPT !.pass = req[s].pw, !.failed = 0, !.locked = FALSE]]
  /\ Becomes(s, [op |-> "reset", at |-> "mark", id |-> req[s].id, link |-> req[s].link,
                 seen |-> row'[req[s].id]])
  /\ UNCHANGED <<link, sessions, started, overlapped>>

\* auth.password_reset returns the row it wrote; the cookie is signed from that.
ResetWrites(s) ==
  /\ Running(s, "reset", "write") /\ row[req[s].id].ver < MaxVersion
  /\ LET id == req[s].id
     IN row' = [row EXCEPT ![id].pass = req[s].pw, ![id].ver = @ + 1,
                           ![id].failed = 0, ![id].locked = FALSE]
  /\ Becomes(s, [op |-> "reset", at |-> "mark", id |-> req[s].id, link |-> req[s].link,
                 seen |-> row'[req[s].id]])
  /\ UNCHANGED <<link, sessions, started, overlapped>>

ResetMarks(s) ==
  /\ Running(s, "reset", "mark")
  /\ link' = [link EXCEPT ![req[s].link].state = "used"]
  /\ Becomes(s, [req[s] EXCEPT !.at = "invalidate"])
  /\ UNCHANGED <<row, sessions, started, overlapped>>

ResetSigns(s) ==
  /\ Running(s, "reset", "invalidate")
  /\ link' = [k \in Links |-> IF k \in LinksOf(req[s].id)
                              THEN [link[k] EXCEPT !.state = "used"] ELSE link[k]]
  /\ sessions' = sessions \cup {Sign(req[s].id, req[s].seen)}
  /\ Ends(s)
  /\ UNCHANGED <<row, started, overlapped>>

-----------------------------------------------------------------------------
(* POST /api/account/delete and PATCH /api/admin/users/:id/role. *)

Overlaps == overlapped' = (overlapped \/ Changing # {})

DeleteStarts(s, t) ==
  /\ Resolves(t)
  /\ Starts(s, [op |-> "delete", at |-> "count", id |-> t.sub, seen |-> row[t.sub]])
  /\ Overlaps
  /\ UNCHANGED <<row, link, sessions>>

\* Mutant: the account that leaves is not counted.
DeleteCountsNobody(s) ==
  /\ Running(s, "delete", "count")
  /\ IF Commands(req[s].seen.role) /\ Cardinality(Admins) < 1
     THEN Ends(s)
     ELSE Ends(s) \/ Becomes(s, [req[s] EXCEPT !.at = "erase"])
  /\ UNCHANGED <<row, link, sessions, started, overlapped>>

\* The last one in command may not leave.  Then forgetTurns, which may fail and
\* end the request with nothing erased.
DeleteCounts(s) ==
  /\ Running(s, "delete", "count")
  /\ IF Commands(req[s].seen.role) /\ Cardinality(Admins) <= 1
     THEN Ends(s)
     ELSE Ends(s) \/ Becomes(s, [req[s] EXCEPT !.at = "erase"])
  /\ UNCHANGED <<row, link, sessions, started, overlapped>>

DeleteErases(s) ==
  /\ Running(s, "delete", "erase") /\ row[req[s].id].ver < MaxVersion
  /\ row' = [row EXCEPT ![req[s].id].gone = TRUE, ![req[s].id].ver = @ + 1]
  /\ Ends(s)
  /\ UNCHANGED <<link, sessions, started, overlapped>>

RoleStarts(s, t, u, to) ==
  /\ Resolves(t) /\ Commands(row[t.sub].role)
  /\ Starts(s, [op |-> "role", at |-> "target", by |-> t.sub, byRole |-> row[t.sub].role,
                 id |-> u, to |-> to])
  /\ Overlaps
  /\ UNCHANGED <<row, link, sessions>>

\* Only root gives or takes the root role; nobody takes their own command away.
RoleReads(s) ==
  /\ Running(s, "role", "target")
  /\ LET r == req[s]
         seen == row[r.id]
         lowers == Commands(seen.role) /\ ~Commands(r.to)
         refused == \/ ~Live(r.id)
                    \/ "root" \in {r.to, seen.role} /\ ~Satisfies(r.byRole, {"root"})
                    \/ lowers /\ r.id = r.by
     IN IF refused THEN Ends(s)
        ELSE Becomes(s, [op |-> "role", at |-> IF lowers THEN "count" ELSE "write",
                         id |-> r.id, to |-> r.to])
  /\ UNCHANGED <<row, link, sessions, started, overlapped>>

RoleCounts(s) ==
  /\ Running(s, "role", "count")
  /\ IF Cardinality(Admins) <= 1 THEN Ends(s) ELSE Becomes(s, [req[s] EXCEPT !.at = "write"])
  /\ UNCHANGED <<row, link, sessions, started, overlapped>>

RoleWrites(s) ==
  /\ Running(s, "role", "write") /\ row[req[s].id].ver < MaxVersion
  /\ row' = [row EXCEPT ![req[s].id].role = req[s].to, ![req[s].id].ver = @ + 1]
  /\ Becomes(s, [req[s] EXCEPT !.at = "audit"])
  /\ UNCHANGED <<link, sessions, started, overlapped>>

\* auth.role_audit writes who did it; nothing here reads that table.
RoleAudits(s) ==
  /\ Running(s, "role", "audit")
  /\ Ends(s)
  /\ UNCHANGED <<row, link, sessions, started, overlapped>>

\* A call to the data service throws, or the api restarts: the rest is not done.
Aborts(s) ==
  /\ req[s] # Idle
  /\ Ends(s)
  /\ UNCHANGED <<row, link, sessions, started, overlapped>>

Step(s) ==
  \/ \E u \in Users, pw \in Passwords : LoginReads(s, u, pw)
  \/ LoginFails(s) \/ LoginClears(s) \/ LoginSigns(s)
  \/ \E u \in Users : RecoverCounts(s, u)
  \/ \E k \in Links : RecoverCreates(s, k)
  \/ \E k \in Links, pw \in Passwords : ResetLooksUp(s, k, pw)
  \/ ResetWrites(s) \/ ResetMarks(s) \/ ResetSigns(s)
  \/ \E t \in sessions : DeleteStarts(s, t)
  \/ DeleteCounts(s) \/ DeleteErases(s)
  \/ \E t \in sessions, u \in Users, to \in Assigned : RoleStarts(s, t, u, to)
  \/ RoleReads(s) \/ RoleCounts(s) \/ RoleWrites(s) \/ RoleAudits(s)
  \/ Aborts(s)

Next ==
  \/ \E s \in Slots : Step(s)
  \/ \E u \in Users : LockLapses(u) \/ Revoke(u)
  \/ \E u \in Users, pw \in Passwords : Register(u, pw)
  \/ \E k \in Links : LinkAges(k)

Spec == Init /\ [][Next]_vars

-----------------------------------------------------------------------------
Request ==
  {Idle}
  \cup [op: {"login"}, at: {"verify", "sign"}, id: Users, pw: Passwords, seen: Row]
  \cup [op: {"recover"}, at: {"create"}, id: Users]
  \cup [op: {"reset"}, at: {"write"}, id: Users, link: Links, pw: Passwords]
  \cup [op: {"reset"}, at: {"mark", "invalidate"}, id: Users, link: Links, seen: Row]
  \cup [op: {"delete"}, at: {"count", "erase"}, id: Users, seen: Row]
  \cup [op: {"role"}, at: {"target"}, id: Users, by: Users, byRole: Roles, to: Roles]
  \cup [op: {"role"}, at: {"count", "write", "audit"}, id: Users, to: Roles]

\* What the tables, the cookies and the running handlers hold.
TypeOK ==
  /\ row \in [Users -> Row]
  /\ link \in [Links -> [state: {"unmade"}]
                \cup [state: {"unused", "used"}, for: Users, age: {"fresh", "expired", "old"}]]
  /\ sessions \subseteq [sub: Users, role: Roles, ver: 0..MaxVersion, pass: Passwords]
  /\ req \in [Slots -> Request]
  /\ started \in 0..MaxRequests
  /\ overlapped \in BOOLEAN

\* A session that resolves was signed from a row with today's password and
\* today's role: a login or a reset that was under way while the password or
\* the role changed cannot leave a cookie that still opens the account.
SessionsAreCurrent ==
  \A t \in sessions : Resolves(t) =>
    t.pass = row[t.sub].pass /\ t.role = row[t.sub].role

\* Somebody can always administer the platform (admin_count in front of a
\* deletion and of a demotion; the catalog says that they cannot remove the last one),
\* as long as no two of those requests overlap: both would count two.
OnlyOverlapOrphans == overlapped \/ Admins # {}
=============================================================================
