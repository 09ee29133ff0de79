---------------------------- MODULE AuthSessions ----------------------------
(***************************************************************************)
(* Users, their roles and their refresh tokens: registration, login,       *)
(* refresh, the request for the organizer role and the role change by an   *)
(* admin.  A handler is a few statements or short transactions, and other  *)
(* handlers run between them; each of them is one action here.  The two    *)
(* longer transactions lock the row of the user first (RotateRefreshToken  *)
(* by SELECT ... FOR UPDATE, UpdateUserRole by its UPDATE), so that they   *)
(* take effect one after the other, and single statements before or after. *)
(* The user's row and its user_roles are read by two statements; the active *)
(* roles depend on the second one only, as there always is an active row.   *)
(***************************************************************************)
EXTENDS Integers, FiniteSets

CONSTANTS
  Users,      \* accounts, by e-mail address
  Tokens,     \* jti of refresh tokens; bounds how many are ever issued
  Reqs,       \* handlers that run at once
  None,       \* no value
  MaxChanges  \* bound of the role changes of one user

Roles == {"student", "organizer", "admin"}

ASSUME NoneIsNoId == None \notin Users \cup Tokens \cup Roles
ASSUME ChangesBound == MaxChanges \in Nat

VARIABLES
  role,   \* role[u]: users.role, None before the registration
  rows,   \* rows[u]: status of each user_roles row, "absent" when there is none
  token,  \* token[t]: the row of table refresh_tokens, and what its JWT says
  era,    \* era[u]: how many role changes of u were completed (history)
  req     \* req[r]: the handler r

vars == <<role, rows, token, era, req>>

RowStatus == {"absent", "pending", "active"}

\* "parent" is the token it was issued for in a refresh, None after a login or a
\* registration.  History: "era" is the era in which the handler that issued it read
\* the roles, "late" says that a role change overlapped that handler, "raced" that a
\* login overlapped it or one of its ancestors.
Token == [state : {"absent", "live", "revoked"}, expired : BOOLEAN,
          user : Users \cup {None}, roles : SUBSET Roles,
          parent : Tokens \cup {None}, era : 0 .. MaxChanges,
          late : BOOLEAN, raced : BOOLEAN]

NoToken == [state |-> "absent", expired |-> FALSE, user |-> None, roles |-> {},
            parent |-> None, era |-> 0, late |-> FALSE, raced |-> FALSE]

Request == [pc : {"idle", "read", "insert", "rotate", "consume", "change", "ensure"},
            user : Users \cup {None}, old : Tokens \cup {None}, new : Tokens \cup {None},
            roles : SUBSET Roles, role : Roles \cup {None}, era : 0 .. MaxChanges,
            raced : BOOLEAN]

Idle == [pc |-> "idle", user |-> None, old |-> None, new |-> None, roles |-> {},
         role |-> None, era |-> 0, raced |-> FALSE]

Init ==
  /\ role = [u \in Users |-> None]
  /\ rows = [u \in Users |-> [x \in Roles |-> "absent"]]
  /\ token = [t \in Tokens |-> NoToken]
  /\ era = [u \in Users |-> 0]
  /\ req = [r \in Reqs |-> Idle]

\* The active rows, or users.role when there is none.
ActiveRoles(u) ==
  LET active == {x \in Roles : rows[u][x] = "active"} IN
  IF active = {} THEN {role[u]} ELSE active

Live(u) == {t \in Tokens : token[t].user = u /\ token[t].state = "live"}

\* A jti nobody else generates.
Fresh(t) == token[t].state = "absent" /\ \A r \in Reqs : req[r].new # t

Begin(r, request) == req[r] = Idle /\ req' = [req EXCEPT ![r] = request]

End(r) == req' = [req EXCEPT ![r] = Idle]

Issued(r) == [state |-> "live", expired |-> FALSE, user |-> req[r].user, roles |-> req[r].roles,
              parent |-> req[r].old, era |-> req[r].era,
              late |-> \/ era[req[r].user] # req[r].era
                       \/ \E q \in Reqs : req[q].pc = "change" /\ req[q].user = req[r].user,
              raced |-> req[r].raced]

\* UPDATE refresh_tokens ... WHERE user_id = u AND revoked_at IS NULL.
Revoked(u) ==
  [t \in Tokens |-> IF t \in Live(u) THEN [token[t] EXCEPT !.state = "revoked"] ELSE token[t]]

-----------------------------------------------------------------------------
\* CreateUser commits the user and the row of the role student.
Register(r, u, t) ==
  /\ role[u] = None
  /\ Fresh(t)
  /\ Begin(r, [Idle EXCEPT !.pc = "read", !.user = u, !.new = t])
  /\ role' = [role EXCEPT ![u] = "student"]
  /\ rows' = [rows EXCEPT ![u]["student"] = "active"]
  /\ UNCHANGED <<token, era>>

\* ... and reads the roles afterwards, for the token.
RegisterRead(r) ==
  LET u == req[r].user IN
  /\ req[r].pc = "read"
  /\ req' = [req EXCEPT ![r] = [@ EXCEPT !.pc = "insert", !.roles = ActiveRoles(u), !.era = era[u]]]
  /\ UNCHANGED <<role, rows, token, era>>

\* InsertRefreshToken, the last step of a registration and of a refresh.
Insert(r) ==
  /\ req[r].pc = "insert"
  /\ token' = [token EXCEPT ![req[r].new] = Issued(r)]
  /\ End(r)
  /\ UNCHANGED <<role, rows, era>>

-----------------------------------------------------------------------------
\* The login reads the user and signs the tokens,
Login(r, u, t) ==
  /\ role[u] # None
  /\ Fresh(t)
  /\ Begin(r, [Idle EXCEPT !.pc = "rotate", !.user = u, !.new = t,
                           !.roles = ActiveRoles(u), !.era = era[u]])
  /\ UNCHANGED <<role, rows, token, era>>

\* A login of the user ends: the handlers that still run for the user overlapped it.
Raced(r) == [q \in Reqs |-> IF q = r THEN Idle
                            ELSE IF req[q].user = req[r].user THEN [req[q] EXCEPT !.raced = TRUE]
                            ELSE req[q]]

\* Mutant: a login keeps the sessions of other devices.
RotateKeepsOthers(r) ==
  /\ req[r].pc = "rotate"
  /\ token' = [token EXCEPT ![req[r].new] = Issued(r)]
  /\ req' = Raced(r)
  /\ UNCHANGED <<role, rows, era>>

\* ... then revokes all refresh tokens of the user and inserts the new one.
Rotate(r) ==
  /\ req[r].pc = "rotate"
  /\ token' = [Revoked(req[r].user) EXCEPT ![req[r].new] = Issued(r)]
  /\ req' = Raced(r)
  /\ UNCHANGED <<role, rows, era>>

-----------------------------------------------------------------------------
\* Mutant: the roles in the token are not compared with the user's.
RefreshAnyRoles(r, p, t) ==
  LET u == token[p].user IN
  /\ token[p].state # "absent" /\ ~token[p].expired
  /\ Fresh(t)
  /\ Begin(r, [Idle EXCEPT !.pc = "consume", !.user = u, !.old = p, !.new = t,
                           !.roles = ActiveRoles(u), !.era = era[u],
                           !.raced = token[p].raced])
  /\ UNCHANGED <<role, rows, token, era>>

\* A refresh accepts a signed token that has not expired and whose roles are the
\* user's; the table is not consulted yet.
Refresh(r, p, t) ==
  LET u == token[p].user IN
  /\ token[p].state # "absent" /\ ~token[p].expired
  /\ token[p].roles = ActiveRoles(u)
  /\ Fresh(t)
  /\ Begin(r, [Idle EXCEPT !.pc = "consume", !.user = u, !.old = p, !.new = t,
                           !.roles = ActiveRoles(u), !.era = era[u],
                           !.raced = token[p].raced])
  /\ UNCHANGED <<role, rows, token, era>>

\* Mutant: the UPDATE has no "AND revoked_at IS NULL".
ConsumeRevoked(r) ==
  LET p == req[r].old IN
  /\ req[r].pc = "consume"
  /\ ~token[p].expired
  /\ token' = [token EXCEPT ![p].state = "revoked"]
  /\ req' = [req EXCEPT ![r].pc = "insert"]
  /\ UNCHANGED <<role, rows, era>>

\* ConsumeRefreshToken: one UPDATE checks and revokes the token, or matches no row.
Consume(r) ==
  LET p == req[r].old
      good == token[p].state = "live" /\ ~token[p].expired
  IN
  /\ req[r].pc = "consume"
  /\ \/ /\ good
        /\ token' = [token EXCEPT ![p] = [@ EXCEPT !.state = "revoked"]]
        /\ req' = [req EXCEPT ![r] = [@ EXCEPT !.pc = "insert"]]
     \/ ~good /\ End(r) /\ UNCHANGED token
  /\ UNCHANGED <<role, rows, era>>

-----------------------------------------------------------------------------
\* Mutant: the role change does not revoke.
ChangeKeepsTokens(r, u, x) ==
  /\ role[u] # None
  /\ era[u] < MaxChanges
  /\ Begin(r, [Idle EXCEPT !.pc = "change", !.user = u, !.role = x])
  /\ UNCHANGED <<role, rows, token, era>>

\* Mutant: the role in the body of the request is not validated.
ChangeUnvalidated(r, u, x) ==
  /\ role[u] # None
  /\ era[u] < MaxChanges
  /\ Begin(r, [Idle EXCEPT !.pc = "change", !.user = u, !.role = "guest"])
  /\ token' = Revoked(u)
  /\ UNCHANGED <<role, rows, era>>

\* UpdateUserRole revokes the tokens in a statement of its own,
Change(r, u, x) ==
  /\ role[u] # None
  /\ era[u] < MaxChanges
  /\ Begin(r, [Idle EXCEPT !.pc = "change", !.user = u, !.role = x])
  /\ token' = Revoked(u)
  /\ UNCHANGED <<role, rows, era>>

\* syncUserRolesInTx: the rows of user_roles that go, and those that become active.
Dropped == [student |-> {"organizer", "admin"}, organizer |-> {"admin"}, admin |-> Roles]
Granted == [student |-> {"student"}, organizer |-> {"student", "organizer"}, admin |-> {"admin"}]

Synced(old, x) == [y \in Roles |-> IF y \in Granted[x] THEN "active"
                                   ELSE IF y \in Dropped[x] THEN "absent" ELSE old[y]]

\* Mutant: a demotion to student leaves the row of the organizer.
ChangeCommitKeepsRows(r) ==
  LET u == req[r].user
      x == req[r].role
  IN
  /\ req[r].pc = "change"
  /\ era[u] < MaxChanges
  /\ role' = [role EXCEPT ![u] = x]
  /\ rows' = [rows EXCEPT ![u] = [y \in Roles |-> IF y \in Granted[x] THEN "active" ELSE rows[u][y]]]
  /\ era' = [era EXCEPT ![u] = @ + 1]
  /\ End(r)
  /\ UNCHANGED token

\* ... and changes the role in a transaction.
ChangeCommit(r) ==
  LET u == req[r].user
      x == req[r].role
  IN
  /\ req[r].pc = "change"
  /\ era[u] < MaxChanges
  /\ role' = [role EXCEPT ![u] = x]
  /\ rows' = [rows EXCEPT ![u] = Synced(rows[u], x)]
  /\ era' = [era EXCEPT ![u] = @ + 1]
  /\ End(r)
  /\ UNCHANGED token

\* RequestOrganizerRole looks at the roles first,
Ask(r, u) ==
  /\ role[u] # None
  /\ "student" \in ActiveRoles(u)
  /\ rows[u]["organizer"] = "absent"
  /\ Begin(r, [Idle EXCEPT !.pc = "ensure", !.user = u])
  /\ UNCHANGED <<role, rows, token, era>>

\* Mutant: the upsert overwrites the status.
EnsureOverwrites(r) ==
  /\ req[r].pc = "ensure"
  /\ rows' = [rows EXCEPT ![req[r].user]["organizer"] = "pending"]
  /\ End(r)
  /\ UNCHANGED <<role, token, era>>

\* ... then inserts the pending role, unless it has become active meanwhile.
Ensure(r) ==
  /\ req[r].pc = "ensure"
  /\ rows' = [rows EXCEPT ![req[r].user]["organizer"] = IF @ = "active" THEN @ ELSE "pending"]
  /\ End(r)
  /\ UNCHANGED <<role, token, era>>

-----------------------------------------------------------------------------
\* A handler ends early: timeout, database error, process killed.
Abort(r) == req[r] # Idle /\ End(r) /\ UNCHANGED <<role, rows, token, era>>

\* expires_at passes, for the row and for the JWT alike.
Expire(t) ==
  /\ token[t].state # "absent" /\ ~token[t].expired
  /\ token' = [token EXCEPT ![t].expired = TRUE]
  /\ UNCHANGED <<role, rows, era, req>>

Start(r) ==
  \/ \E u \in Users, t \in Tokens : Register(r, u, t) \/ Login(r, u, t)
  \/ \E p, t \in Tokens : Refresh(r, p, t)
  \/ \E u \in Users, x \in Roles : Change(r, u, x)
  \/ \E u \in Users : Ask(r, u)

Step(r) ==
  \/ RegisterRead(r) \/ Insert(r) \/ Rotate(r) \/ Consume(r)
  \/ ChangeCommit(r) \/ Ensure(r)

Next ==
  \/ \E r \in Reqs : Start(r) \/ Step(r) \/ Abort(r)
  \/ \E t \in Tokens : Expire(t)

Spec == Init /\ [][Next]_vars

-----------------------------------------------------------------------------
(* What the code is meant to guarantee *)

TypeOK ==
  /\ role \in [Users -> Roles \cup {None}]
  /\ rows \in [Users -> [Roles -> RowStatus]]
  /\ token \in [Tokens -> Token]
  /\ era \in [Users -> 0 .. MaxChanges]
  /\ req \in [Reqs -> Request]

\* A refresh token is exchanged once at most, also by two refreshes at the same
\* time: no two tokens have one parent, and a parent is not live any more.
SingleUse ==
  \A t \in Tokens : token[t].parent # None =>
    /\ token[token[t].parent].state = "revoked"
    /\ \A s \in Tokens : token[s].parent = token[t].parent => s = t

\* A session keeps the roles it began with: a refresh neither adds nor drops one,
\* whatever role changes it overlaps.
SessionRolesConstant ==
  \A t \in Tokens : token[t].parent # None => token[t].roles = token[token[t].parent].roles

\* The active rows of user_roles are those of users.role, whatever requests for the
\* organizer role overlap the changes of an admin.
RoleRowsMatch ==
  \A u \in Users : role[u] # None => {x \in Roles : rows[u][x] = "active"} = Granted[role[u]]

\* A login ends the other sessions of the user: two tokens of a user are live at the
\* same time only if a refresh or the registration behind one overlapped a login.
OneSession ==
  \A s, t \in Tokens :
    /\ token[s].state = "live" /\ token[t].state = "live"
    /\ token[s].user = token[t].user
    /\ ~token[s].raced /\ ~token[t].raced
    => s = t

\* SetUserRole revokes every token that was issued before it: a live token from before
\* the last role change was inserted by a handler the change overlapped.
OldSessionsOverlapped ==
  \A t \in Tokens :
    token[t].state = "live" /\ token[t].era # era[token[t].user] => token[t].late

\* SetUserRole ends the sessions: a refresh that begins after the role change does
\* not accept a token whose roles were read before it.
RoleChangeEndsSessions ==
  [][\A r \in Reqs : (req[r].pc = "consume" /\ req'[r].pc = "insert") =>
       token[req[r].old].era = req[r].era]_vars

-----------------------------------------------------------------------------
(* The inductive invariant of the proofs *)

\* What a handler holds at each position.
Positions ==
  \A r \in Reqs :
    /\ req[r].pc = "idle" => req[r] = Idle
    /\ req[r].pc # "idle" => req[r].user # None /\ role[req[r].user] # None
    /\ req[r].pc \in {"read", "insert", "rotate", "consume"} <=> req[r].new # None
    /\ req[r].pc \notin {"insert", "consume"} => req[r].old = None
    /\ req[r].pc = "consume" => req[r].old # None
    /\ req[r].pc = "change" => req[r].role # None

\* A generated jti is in no other hands and not in the table yet.
NewUnused ==
  \A r \in Reqs : req[r].new # None =>
    /\ token[req[r].new].state = "absent"
    /\ \A q \in Reqs : req[q].new = req[r].new => q = r

\* Rows belong to registered users.
Owned ==
  /\ \A t \in Tokens :
       IF token[t].state = "absent" THEN token[t] = NoToken
       ELSE token[t].user # None /\ role[token[t].user] # None
  /\ \A u \in Users : role[u] = None => rows[u] = [x \in Roles |-> "absent"]

\* A refresh exchanges a token of its user and roles; once it consumed the token,
\* the token is revoked, and nothing else descends from it.
Exchanges ==
  \A r \in Reqs : req[r].old # None =>
    LET p == req[r].old IN
    /\ token[p].state # "absent"
    /\ token[p].user = req[r].user
    /\ token[p].roles = req[r].roles
    /\ ~req[r].raced => ~token[p].raced
    /\ req[r].pc = "insert" =>
         /\ token[p].state = "revoked"
         /\ \A t \in Tokens : token[t].parent # p
         /\ \A q \in Reqs : req[q].pc = "insert" /\ req[q].old = p => q = r

\* While a role change runs, every live token was inserted after its revocation.
ChangesRevoked ==
  \A r \in Reqs, t \in Tokens :
    req[r].pc = "change" /\ token[t].state = "live" /\ token[t].user = req[r].user => token[t].late

\* No login overlapped a handler about to insert: it is the user's only session.
OneHolder ==
  \A r \in Reqs : req[r].pc \in {"read", "insert"} /\ ~req[r].raced =>
    /\ \A q \in Reqs :
         /\ req[q].pc \in {"read", "insert"} /\ ~req[q].raced
         /\ req[q].user = req[r].user
         => q = r
    /\ \A t \in Tokens : token[t].state = "live" /\ token[t].user = req[r].user => token[t].raced

IInv ==
  /\ TypeOK /\ Positions /\ NewUnused /\ Owned /\ Exchanges /\ ChangesRevoked /\ OneHolder
  /\ SingleUse /\ SessionRolesConstant /\ RoleRowsMatch /\ OneSession /\ OldSessionsOverlapped
=============================================================================
