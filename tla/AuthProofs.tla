----------------------------- MODULE AuthProofs -----------------------------
(* Theorems about AuthSessions, for any number of users, tokens and handlers. *)
EXTENDS AuthSessions, TLAPS

LEMMA InitInv == Init => IInv
<1> SUFFICES ASSUME Init PROVE IInv
  OBVIOUS
<1>1. TypeOK
  BY ChangesBound DEF Init, TypeOK, Token, NoToken, Request, Idle, RowStatus
<1>2. Positions /\ NewUnused /\ Exchanges /\ ChangesRevoked /\ OneHolder
  BY DEF Init, Positions, NewUnused, Exchanges, ChangesRevoked, OneHolder, Idle
<1>3. Owned /\ SingleUse /\ SessionRolesConstant /\ OneSession /\ OldSessionsOverlapped
  BY DEF Init, Owned, SingleUse, SessionRolesConstant, OneSession, OldSessionsOverlapped,
     NoToken
<1>4. RoleRowsMatch
  BY DEF Init, RoleRowsMatch
<1> QED BY <1>1, <1>2, <1>3, <1>4 DEF IInv

LEMMA IdleType == Idle \in Request
  BY ChangesBound DEF Idle, Request

\* A handler begins with a well-formed request.
LEMMA BeginType ==
  ASSUME TypeOK, NEW r \in Reqs, NEW x \in Request, Begin(r, x)
  PROVE  /\ req' \in [Reqs -> Request]
         /\ req[r] = Idle /\ req'[r] = x
         /\ \A q \in Reqs : q # r => req'[q] = req[q]
  BY DEF TypeOK, Begin

\* The end of a handler.
LEMMA EndType ==
  ASSUME TypeOK, NEW r \in Reqs, End(r)
  PROVE  /\ req' \in [Reqs -> Request]
         /\ req'[r] = Idle
         /\ \A q \in Reqs : q # r => req'[q] = req[q]
  BY IdleType DEF TypeOK, End

LEMMA ActiveRolesType ==
  ASSUME TypeOK, NEW u \in Users, role[u] # None
  PROVE  ActiveRoles(u) \in SUBSET Roles
  BY DEF TypeOK, ActiveRoles

LEMMA RevokedType ==
  ASSUME TypeOK, NEW u \in Users \cup {None}
  PROVE  Revoked(u) \in [Tokens -> Token]
<1>1. \A t \in Tokens : token[t] \in Token
  BY DEF TypeOK
<1>2. \A x \in Token : [x EXCEPT !.state = "revoked"] \in Token
  BY DEF Token
<1> QED BY <1>1, <1>2 DEF Revoked

\* The row of a token that a handler is about to insert.
LEMMA IssuedType ==
  ASSUME TypeOK, NEW r \in Reqs
  PROVE  Issued(r) \in Token
<1>1. req[r] \in Request
  BY DEF TypeOK
<1> QED BY <1>1 DEF Issued, Token, Request

LEMMA RegisterInv ==
  ASSUME IInv, NEW r \in Reqs, NEW u \in Users, NEW t \in Tokens, Register(r, u, t)
  PROVE  IInv'
<1>1. UNCHANGED <<token, era>> /\ role[u] = None /\ Fresh(t)
      /\ Begin(r, [Idle EXCEPT !.pc = "read", !.user = u, !.new = t])
  BY DEF Register
<1>2. PICK x \in Request :
        Begin(r, x) /\ x.pc = "read" /\ x.user = u /\ x.new = t /\ x.old = None
  <2> DEFINE y == [Idle EXCEPT !.pc = "read", !.user = u, !.new = t]
  <2>1. y \in Request
    BY IdleType DEF Request
  <2>2. y.pc = "read" /\ y.user = u /\ y.new = t /\ y.old = None
    BY DEF Idle
  <2>3. Begin(r, y)
    BY <1>1
  <2> HIDE DEF y
  <2> QED BY <2>1, <2>2, <2>3
<1>3. /\ req' \in [Reqs -> Request]
      /\ req[r] = Idle
      /\ req'[r] = x
      /\ \A q \in Reqs : q # r => req'[q] = req[q]
  BY <1>2, BeginType DEF IInv
<1>4. TypeOK'
  BY <1>3 DEF IInv, TypeOK, Register, Roles, RowStatus
<1>5. Positions'
  BY <1>2, <1>3, NoneIsNoId DEF IInv, TypeOK, Register, Positions, Roles
<1>6. Owned'
  BY NoneIsNoId DEF IInv, TypeOK, Register, Owned, Roles, Token
<1>7. NewUnused'
  BY DEF Register, Begin, Fresh, IInv, NewUnused
<1>8. Exchanges'
  BY DEF Register, Begin, IInv, Exchanges, Idle
<1>9. ChangesRevoked'
  BY DEF Register, Begin, IInv, ChangesRevoked
<1>10. OneHolder'
  BY DEF Register, Begin, IInv, OneHolder, Positions, Owned
<1>11. SingleUse'
  BY DEF Register, IInv, SingleUse
<1>12. SessionRolesConstant'
  BY DEF Register, IInv, SessionRolesConstant
<1>13. RoleRowsMatch'
  BY DEF Register, IInv, TypeOK, RoleRowsMatch, Owned, Granted, Roles
<1>14. OneSession'
  BY DEF Register, IInv, OneSession
<1>15. OldSessionsOverlapped'
  BY DEF Register, IInv, OldSessionsOverlapped
<1> QED BY <1>4, <1>5, <1>6, <1>7, <1>8, <1>9, <1>10, <1>11, <1>12, <1>13, <1>14, <1>15 DEF IInv

LEMMA RegisterReadInv ==
  ASSUME IInv, NEW r \in Reqs, RegisterRead(r)
  PROVE  IInv'
<1>1. /\ ActiveRoles(req[r].user) \in SUBSET Roles
      /\ era[req[r].user] \in 0 .. MaxChanges
      /\ req[r].user \in Users
  BY ActiveRolesType DEF IInv, TypeOK, Positions, RegisterRead, Request
<1>2. /\ req[r] \in Request
      /\ [req[r] EXCEPT !.pc = "insert", !.roles = ActiveRoles(req[r].user),
                        !.era = era[req[r].user]] \in Request
  <2>1. req[r] \in Request
    BY DEF IInv, TypeOK
  <2> QED BY <1>1, <2>1 DEF Request
<1>3. TypeOK'
  BY <1>2 DEF IInv, TypeOK, RegisterRead
<1>4. Positions'
  BY DEF RegisterRead, IInv, Positions
<1>5. NewUnused'
  BY DEF RegisterRead, IInv, NewUnused
<1>6. Owned'
  BY DEF RegisterRead, IInv, Owned
<1>7. Exchanges'
  BY DEF RegisterRead, IInv, Exchanges, Positions
<1>8. ChangesRevoked'
  BY DEF RegisterRead, IInv, ChangesRevoked
<1>9. OneHolder'
  BY DEF RegisterRead, IInv, OneHolder
<1>10. SingleUse'
  BY DEF RegisterRead, IInv, SingleUse
<1>11. SessionRolesConstant'
  BY DEF RegisterRead, IInv, SessionRolesConstant
<1>12. RoleRowsMatch'
  BY DEF RegisterRead, IInv, RoleRowsMatch
<1>13. OneSession'
  BY DEF RegisterRead, IInv, OneSession
<1>14. OldSessionsOverlapped'
  BY DEF RegisterRead, IInv, OldSessionsOverlapped
<1> QED BY <1>3, <1>4, <1>5, <1>6, <1>7, <1>8, <1>9, <1>10, <1>11, <1>12, <1>13, <1>14 DEF IInv

LEMMA InsertInv ==
  ASSUME IInv, NEW r \in Reqs, Insert(r)
  PROVE  IInv'
<1>1. /\ End(r)
      /\ token' = [token EXCEPT ![req[r].new] = Issued(r)]
      /\ UNCHANGED <<role, rows, era>>
  BY DEF Insert
<1>2. TypeOK'
  BY <1>1, EndType, IssuedType DEF IInv, TypeOK
<1>3. \A t \in Tokens : token'[t] = IF t = req[r].new THEN Issued(r) ELSE token[t]
  BY <1>1 DEF IInv, TypeOK
<1>4. \A t \in Tokens : token[t].parent # req[r].new
  BY DEF IInv, Insert, Positions, NewUnused, SingleUse
<1>5. /\ Issued(r).parent = req[r].old
      /\ Issued(r).roles = req[r].roles
      /\ req[r].old # None =>
           /\ req[r].old \in Tokens /\ req[r].old # req[r].new
           /\ token[req[r].old].roles = req[r].roles
  BY DEF IInv, TypeOK, Request, Issued, Exchanges, NewUnused, Positions, Insert
<1>6. SessionRolesConstant'
  BY <1>3, <1>4, <1>5 DEF IInv, SessionRolesConstant, TypeOK, Token
<1>7. Positions'
  BY DEF Insert, End, IInv, TypeOK, Positions, Idle
<1>8. NewUnused'
  BY DEF Insert, End, IInv, TypeOK, NewUnused, Idle
<1>9. Owned'
  BY DEF Insert, Issued, IInv, Owned, Positions
<1>10. Exchanges'
  BY DEF Insert, Issued, End, IInv, TypeOK, Exchanges, Idle, NewUnused
<1>11. ChangesRevoked'
  BY DEF Insert, Issued, End, IInv, ChangesRevoked, Idle
<1>12. OneHolder'
  BY DEF Insert, Issued, End, IInv, TypeOK, OneHolder, Idle
<1>13. SingleUse'
  BY DEF Insert, Issued, IInv, SingleUse, NewUnused, Exchanges
<1>14. RoleRowsMatch'
  BY DEF Insert, IInv, RoleRowsMatch
<1>15. OneSession'
  BY DEF Insert, Issued, IInv, OneSession, OneHolder
<1>16. OldSessionsOverlapped'
  BY DEF Insert, Issued, IInv, OldSessionsOverlapped
<1> QED BY <1>2, <1>6, <1>7, <1>8, <1>9, <1>10, <1>11, <1>12, <1>13, <1>14, <1>15, <1>16 DEF
           IInv

LEMMA LoginInv ==
  ASSUME IInv, NEW r \in Reqs, NEW u \in Users, NEW t \in Tokens, Login(r, u, t)
  PROVE  IInv'
<1>1. ActiveRoles(u) \in SUBSET Roles /\ era[u] \in 0 .. MaxChanges
  BY ActiveRolesType DEF IInv, TypeOK, Login
<1>2. req' \in [Reqs -> Request]
  BY <1>1, BeginType, [Idle EXCEPT !.pc = "rotate", !.user = u, !.new = t, !.roles =
     ActiveRoles(u), !.era = era[u]] \in Request DEF IInv, Login, Request, Idle
<1>3. TypeOK'
  BY <1>2 DEF IInv, TypeOK, Login
<1>4. Positions'
  BY NoneIsNoId DEF Login, Begin, IInv, Positions, Idle
<1>5. NewUnused'
  BY DEF Login, Begin, Fresh, IInv, NewUnused
<1>6. Owned'
  BY DEF Login, IInv, Owned
<1>7. Exchanges'
  BY DEF Login, Begin, IInv, Exchanges, Idle
<1>8. ChangesRevoked'
  BY DEF Login, Begin, IInv, ChangesRevoked
<1>9. OneHolder'
  BY DEF Login, Begin, IInv, OneHolder
<1>10. SingleUse'
  BY DEF Login, IInv, SingleUse
<1>11. SessionRolesConstant'
  BY DEF Login, IInv, SessionRolesConstant
<1>12. RoleRowsMatch'
  BY DEF Login, IInv, RoleRowsMatch
<1>13. OneSession'
  BY DEF Login, IInv, OneSession
<1>14. OldSessionsOverlapped'
  BY DEF Login, IInv, OldSessionsOverlapped
<1> QED BY <1>3, <1>4, <1>5, <1>6, <1>7, <1>8, <1>9, <1>10, <1>11, <1>12, <1>13, <1>14 DEF IInv

LEMMA RotateInv ==
  ASSUME IInv, NEW r \in Reqs, Rotate(r)
  PROVE  IInv'
<1>1. /\ req[r].pc = "rotate"
      /\ req[r].user \in Users
      /\ req[r].new \in Tokens
      /\ req[r].old = None
      /\ role[req[r].user] # None
      /\ token[req[r].new].state = "absent" /\ UNCHANGED <<role, rows, era>>
  BY DEF IInv, TypeOK, Rotate, Positions, NewUnused, Request
<1>2. /\ req' = Raced(r) /\ Idle \in Request
      /\ token' = [Revoked(req[r].user) EXCEPT ![req[r].new] = Issued(r)]
  BY ChangesBound DEF Rotate, Idle, Request
<1>3. /\ req' \in [Reqs -> Request] /\ token' \in [Tokens -> Token]
      /\ req'[r] = Idle /\ token'[req[r].new] = Issued(r)
  <2>1. Raced(r) \in [Reqs -> Request] /\ Raced(r)[r] = Idle
    <3>1. \A q \in Reqs : req[q] \in Request
      BY DEF IInv, TypeOK
    <3>2. \A x \in Request : [x EXCEPT !.raced = TRUE] \in Request
      BY DEF Request
    <3> QED BY <1>2, <3>1, <3>2 DEF Raced
  <2>2. Revoked(req[r].user) \in [Tokens -> Token]
    BY <1>1, RevokedType DEF IInv
  <2> QED BY <1>1, <1>2, <2>1, <2>2, IssuedType DEF IInv
<1>4. TypeOK'
  BY <1>1, <1>3 DEF IInv, TypeOK
<1>5. \A q \in Reqs : q # r =>
        /\ req'[q].pc = req[q].pc
        /\ req'[q].user = req[q].user
        /\ req'[q].old = req[q].old
        /\ req'[q].new = req[q].new
        /\ req'[q].roles = req[q].roles
        /\ req'[q].role = req[q].role
        /\ req'[q].era = req[q].era
        /\ req[q].user # req[r].user => req'[q] = req[q]
        /\ req[q].user = req[r].user => req'[q].raced
        /\ req[q].raced => req'[q].raced
  BY <1>2 DEF IInv, TypeOK, Request, Raced
<1>6. \A t \in Tokens : t # req[r].new =>
        /\ token'[t].user = token[t].user
        /\ token'[t].roles = token[t].roles
        /\ token'[t].parent = token[t].parent
        /\ token'[t].era = token[t].era
        /\ token'[t].late = token[t].late
        /\ token'[t].raced = token[t].raced
        /\ token[t].state = "absent" => token'[t] = token[t]
        /\ token[t].state # "absent" => token'[t].state # "absent"
        /\ token[t].state = "revoked" => token'[t].state = "revoked"
        /\ token'[t].state = "live" => token[t].state = "live" /\ token[t].user # req[r].user
  BY <1>1, <1>2 DEF IInv, TypeOK, Token, Revoked, Live
<1>7. /\ Issued(r).state = "live" /\ Issued(r).user = req[r].user /\ Issued(r).parent = None
      /\ Issued(r).roles = req[r].roles /\ Issued(r).era = req[r].era
      /\ era[req[r].user] # req[r].era => Issued(r).late
      /\ \A q \in Reqs : req[q].pc = "change" /\ req[q].user = req[r].user => Issued(r).late
  BY <1>1 DEF Issued
<1>8. Positions'
  BY <1>1, <1>3, <1>5, NoneIsNoId DEF IInv, TypeOK, Positions, Idle, Request
<1>9. NewUnused'
  BY <1>1, <1>3, <1>5, <1>6 DEF IInv, TypeOK, NewUnused, Idle, Request
<1>10. Owned'
  BY <1>1, <1>3, <1>6, <1>7, NoneIsNoId DEF IInv, TypeOK, Owned
<1>11. \A t \in Tokens : token[t].parent # req[r].new
  BY <1>1, NoneIsNoId DEF IInv, TypeOK, SingleUse
<1>12. Exchanges'
  <2>1. \A q \in Reqs : req'[q].old # None =>
          q # r /\ req'[q].old # req[r].new /\ req'[q].old \in Tokens
    BY <1>1, <1>3, <1>5 DEF IInv, TypeOK, Exchanges, Idle, Request
  <2>2. \A q, s \in Reqs :
          q # r /\ req'[q].old # None /\ req'[s].pc = "insert" /\ req'[s].old = req'[q].old => s # r
    BY <1>3 DEF Idle
  <2>3. \A t \in Tokens : token'[t].parent # None =>
          t # req[r].new /\ token'[t].parent = token[t].parent
    BY <1>3, <1>6, <1>7
  <2>4. \A q \in Reqs : req'[q].old # None =>
          \A t \in Tokens : token'[t].parent = req'[q].old =>
            token[t].parent = req'[q].old
    BY <2>3
  <2> QED BY <1>5, <1>6, <2>1, <2>2, <2>4 DEF IInv, Exchanges
<1>13. ChangesRevoked'
  BY <1>1, <1>3, <1>5, <1>6, <1>7 DEF IInv, TypeOK, ChangesRevoked, Idle
<1>14. OneHolder'
  <2>1. \A q \in Reqs : req'[q].pc \in {"read", "insert"} /\ ~req'[q].raced =>
          q # r /\ req[q].user # req[r].user /\ req'[q] = req[q]
    BY <1>3, <1>5 DEF Idle
  <2> QED BY <1>1, <1>3, <1>6, <1>7, <2>1 DEF IInv, TypeOK, OneHolder
<1>15. SingleUse' /\ SessionRolesConstant'
  <2>1. \A t \in Tokens : token'[t].parent # None =>
          /\ t # req[r].new /\ token'[t].parent = token[t].parent
          /\ token[t].parent \in Tokens /\ token[t].parent # req[r].new
    BY <1>3, <1>6, <1>7, <1>11 DEF IInv, TypeOK, Token
  <2> QED BY <1>6, <2>1 DEF IInv, SingleUse, SessionRolesConstant
<1>16. OneSession'
  BY <1>1, <1>3, <1>6, <1>7 DEF IInv, TypeOK, OneSession
<1>17. OldSessionsOverlapped'
  BY <1>1, <1>3, <1>6, <1>7 DEF IInv, TypeOK, OldSessionsOverlapped
<1>18. RoleRowsMatch'
  BY DEF Rotate, IInv, RoleRowsMatch
<1> QED BY <1>4, <1>8, <1>9, <1>10, <1>12, <1>13, <1>14, <1>15, <1>16, <1>17, <1>18 DEF IInv

LEMMA RefreshInv ==
  ASSUME IInv, NEW r \in Reqs, NEW p \in Tokens, NEW t \in Tokens, Refresh(r, p, t)
  PROVE  IInv'
<1>1. /\ token[p].user \in Users
      /\ role[token[p].user] # None
      /\ token[p].state # "absent"
      /\ token[p].roles = ActiveRoles(token[p].user)
  BY DEF IInv, TypeOK, Refresh, Owned, Token
<1>2. /\ ActiveRoles(token[p].user) \in SUBSET Roles
      /\ era[token[p].user] \in 0 .. MaxChanges
      /\ token[p].raced \in BOOLEAN
  BY <1>1, ActiveRolesType DEF IInv, TypeOK, Token
<1>3. PICK x \in Request :
        /\ Begin(r, x) /\ x.pc = "consume" /\ x.user = token[p].user /\ x.old = p /\ x.new = t
        /\ x.roles = ActiveRoles(token[p].user) /\ x.raced = token[p].raced
  <2> DEFINE y == [Idle EXCEPT !.pc = "consume", !.user = token[p].user, !.old = p, !.new = t,
                               !.roles = ActiveRoles(token[p].user), !.era = era[token[p].user],
                               !.raced = token[p].raced]
  <2>1. y \in Request
    BY <1>1, <1>2, IdleType DEF Request
  <2>2. /\ y.pc = "consume" /\ y.user = token[p].user /\ y.old = p /\ y.new = t
        /\ y.roles = ActiveRoles(token[p].user) /\ y.raced = token[p].raced
    BY DEF Idle
  <2>3. Begin(r, y)
    BY DEF Refresh
  <2> HIDE DEF y
  <2> QED BY <2>1, <2>2, <2>3
<1>4. /\ req' \in [Reqs -> Request]
      /\ req[r] = Idle
      /\ req'[r] = x
      /\ \A q \in Reqs : q # r => req'[q] = req[q]
  BY <1>3, BeginType DEF IInv
<1>5. UNCHANGED <<role, rows, token, era>> /\ Fresh(t)
  BY DEF Refresh
<1>6. TypeOK'
  BY <1>4, <1>5 DEF IInv, TypeOK
<1>7. Positions'
  BY <1>1, <1>3, <1>4, <1>5, NoneIsNoId DEF IInv, TypeOK, Positions
<1>8. NewUnused'
  BY DEF Refresh, Begin, Fresh, IInv, NewUnused
<1>9. Owned'
  BY DEF Refresh, IInv, Owned
<1>10. Exchanges'
  BY DEF Refresh, Begin, IInv, Exchanges
<1>11. ChangesRevoked'
  BY DEF Refresh, Begin, IInv, ChangesRevoked
<1>12. OneHolder'
  BY DEF Refresh, Begin, IInv, OneHolder
<1>13. SingleUse'
  BY DEF Refresh, IInv, SingleUse
<1>14. SessionRolesConstant'
  BY DEF Refresh, IInv, SessionRolesConstant
<1>15. RoleRowsMatch'
  BY DEF Refresh, IInv, RoleRowsMatch
<1>16. OneSession'
  BY DEF Refresh, IInv, OneSession
<1>17. OldSessionsOverlapped'
  BY DEF Refresh, IInv, OldSessionsOverlapped
<1> QED BY <1>6, <1>7, <1>8, <1>9, <1>10, <1>11, <1>12, <1>13, <1>14, <1>15, <1>16, <1>17 DEF
           IInv

LEMMA ConsumeInv ==
  ASSUME IInv, NEW r \in Reqs, Consume(r), ~(End(r) /\ UNCHANGED token)
  PROVE  IInv'
<1>1. /\ req[r].pc = "consume"
      /\ req[r].old \in Tokens
      /\ req[r].new \in Tokens
      /\ req[r].old # req[r].new
      /\ token[req[r].old].user = req[r].user /\ token[req[r].old].roles = req[r].roles
      /\ (~req[r].raced => ~token[req[r].old].raced)
      /\ token[req[r].old].state = "live"
      /\ UNCHANGED <<role, rows, era>>
  <2>1. /\ req[r].pc = "consume"
        /\ token[req[r].old].state = "live"
        /\ UNCHANGED <<role, rows, era>>
    BY DEF Consume
  <2>2. req[r].old \in Tokens \cup {None} /\ req[r].new \in Tokens
    BY <2>1 DEF IInv, TypeOK, Request, Positions
  <2>3. req[r].old # None
    BY <2>1 DEF IInv, Positions
  <2> QED BY <2>1, <2>2, <2>3 DEF IInv, Exchanges, NewUnused
<1>2. /\ token' = [token EXCEPT ![req[r].old] = [@ EXCEPT !.state = "revoked"]]
      /\ req' = [req EXCEPT ![r] = [@ EXCEPT !.pc = "insert"]]
  BY DEF Consume
<1>3. /\ req' \in [Reqs -> Request]
      /\ req'[r].pc = "insert"
      /\ \A q \in Reqs : q # r => req'[q] = req[q]
      /\ \A q \in Reqs :
           /\ req'[q].user = req[q].user
           /\ req'[q].old = req[q].old
           /\ req'[q].new = req[q].new
           /\ req'[q].roles = req[q].roles
           /\ req'[q].role = req[q].role
           /\ req'[q].era = req[q].era
           /\ req'[q].raced = req[q].raced
  <2>1. req[r] \in Request /\ [req[r] EXCEPT !.pc = "insert"] \in Request
    <3>1. req[r] \in Request
      BY DEF IInv, TypeOK
    <3> QED BY <3>1 DEF Request
  <2>2. /\ req' \in [Reqs -> Request] /\ req'[r] = [req[r] EXCEPT !.pc = "insert"]
        /\ \A q \in Reqs : q # r => req'[q] = req[q]
    BY <1>2, <2>1 DEF IInv, TypeOK
  <2> QED BY <2>1, <2>2 DEF Request
<1>4. /\ token' \in [Tokens -> Token]
      /\ token'[req[r].old].state = "revoked"
      /\ \A t \in Tokens : t # req[r].old => token'[t] = token[t]
      /\ \A t \in Tokens : /\ token'[t].user = token[t].user /\ token'[t].roles = token[t].roles
                           /\ token'[t].parent = token[t].parent /\ token'[t].era = token[t].era
                           /\ token'[t].late = token[t].late /\ token'[t].raced = token[t].raced
  <2>1. token[req[r].old] \in Token
    BY <1>1 DEF IInv, TypeOK
  <2>2. [token[req[r].old] EXCEPT !.state = "revoked"] \in Token
    BY <2>1 DEF Token
  <2>3. /\ token' \in [Tokens -> Token]
        /\ token'[req[r].old] = [token[req[r].old] EXCEPT !.state = "revoked"]
        /\ \A t \in Tokens : t # req[r].old => token'[t] = token[t]
    BY <1>1, <1>2, <2>2 DEF IInv, TypeOK
  <2> QED BY <2>1, <2>3 DEF Token
<1>5. TypeOK'
  BY <1>1, <1>3, <1>4 DEF IInv, TypeOK
<1>6. Positions'
  BY <1>1, <1>3, NoneIsNoId DEF IInv, TypeOK, Positions, Request, Idle
<1>7. NewUnused'
  BY <1>1, <1>3, <1>4 DEF IInv, TypeOK, NewUnused, Request
<1>8. Owned'
  BY <1>1, <1>4 DEF IInv, TypeOK, Owned
<1>9. Exchanges'
  <2>1. \A t \in Tokens : token[t].parent # req[r].old
    BY <1>1, NoneIsNoId DEF IInv, TypeOK, SingleUse, Token
  <2>2. \A q \in Reqs : req[q].pc = "insert" => req[q].old # req[r].old
    BY <1>1, NoneIsNoId DEF IInv, TypeOK, Exchanges, Request
  <2>3. \A t \in Tokens : token[t].state # "absent" => token'[t].state # "absent"
    BY <1>4
  <2>4. \A q \in Reqs : req[q].old # None => req[q].old \in Tokens
    BY DEF IInv, TypeOK, Request
  <2> SUFFICES ASSUME NEW q \in Reqs, req'[q].old # None
               PROVE  LET p == req'[q].old IN
                      /\ token'[p].state # "absent"
                      /\ token'[p].user = req'[q].user
                      /\ token'[p].roles = req'[q].roles
                      /\ ~req'[q].raced => ~token'[p].raced
                      /\ req'[q].pc = "insert" =>
                           /\ token'[p].state = "revoked"
                           /\ \A t \in Tokens : token'[t].parent # p
                           /\ \A s \in Reqs : req'[s].pc = "insert" /\ req'[s].old = p => s = q
    BY DEF Exchanges
  <2>5. CASE q = r
    BY <1>1, <1>3, <1>4, <2>1, <2>2, <2>5
  <2>6. CASE q # r
    BY <1>1, <1>3, <1>4, <2>2, <2>3, <2>4, <2>6 DEF IInv, Exchanges
  <2> QED BY <2>5, <2>6
<1>10. ChangesRevoked' /\ OldSessionsOverlapped'
  <2>1. \A t \in Tokens : token'[t].state = "live" => token[t].state = "live"
    BY <1>4
  <2>2. \A q \in Reqs : req'[q].pc = "change" => req[q].pc = "change"
    BY <1>3
  <2> QED BY <1>1, <1>3, <1>4, <2>1, <2>2 DEF IInv, ChangesRevoked, OldSessionsOverlapped
<1>11. OneHolder'
  <2>1. ~req[r].raced =>
          \A t \in Tokens : t # req[r].old /\ token[t].state = "live" /\ token[t].user = req[r].user =>
            token[t].raced
    BY <1>1 DEF IInv, OneSession
  <2>2. ~req[r].raced =>
          \A q \in Reqs : req[q].pc \in {"read", "insert"} /\ req[q].user = req[r].user =>
            req[q].raced
    BY <1>1 DEF IInv, OneHolder
  <2>3. \A t \in Tokens : token'[t].state = "live" => token[t].state = "live" /\ t # req[r].old
    BY <1>4
  <2> SUFFICES ASSUME NEW q \in Reqs, req'[q].pc \in {"read", "insert"}, ~req'[q].raced
               PROVE  /\ \A s \in Reqs :
                           /\ req'[s].pc \in {"read", "insert"} /\ ~req'[s].raced
                           /\ req'[s].user = req'[q].user
                           => s = q
                      /\ \A t \in Tokens :
                           token'[t].state = "live" /\ token'[t].user = req'[q].user => token'[t].raced
    BY DEF OneHolder
  <2>4. CASE q = r
    BY <1>3, <1>4, <2>1, <2>2, <2>3, <2>4
  <2>5. CASE q # r
    BY <1>3, <1>4, <2>2, <2>3, <2>5 DEF IInv, OneHolder
  <2> QED BY <2>4, <2>5
<1>12. SingleUse' /\ SessionRolesConstant'
  BY <1>1, <1>4, NoneIsNoId DEF IInv, TypeOK, SingleUse, SessionRolesConstant, Token
<1>13. RoleRowsMatch'
  BY <1>1 DEF IInv, RoleRowsMatch
<1>14. OneSession'
  BY <1>1, <1>4 DEF IInv, TypeOK, OneSession
<1> QED BY <1>5, <1>6, <1>7, <1>8, <1>9, <1>10, <1>11, <1>12, <1>13, <1>14 DEF IInv

LEMMA ChangeInv ==
  ASSUME IInv, NEW r \in Reqs, NEW u \in Users, NEW x \in Roles, Change(r, u, x)
  PROVE  IInv'
<1>1. /\ req' \in [Reqs -> Request] /\ req[r] = Idle
      /\ req'[r].pc = "change"
      /\ req'[r].user = u
      /\ req'[r].role = x
      /\ req'[r].new = None
      /\ req'[r].old = None
      /\ \A q \in Reqs : q # r => req'[q] = req[q]
  <2> DEFINE y == [Idle EXCEPT !.pc = "change", !.user = u, !.role = x]
  <2>1. y \in Request
    BY IdleType DEF Request
  <2>2. y.pc = "change" /\ y.user = u /\ y.role = x /\ y.new = None /\ y.old = None
    BY DEF Idle
  <2>3. Begin(r, y)
    BY DEF Change
  <2> HIDE DEF y
  <2> QED BY <2>1, <2>2, <2>3, BeginType DEF IInv
<1>2. token' \in [Tokens -> Token]
  BY RevokedType DEF IInv, Change
<1>3. \A t \in Tokens :
        /\ token'[t].user = token[t].user /\ token'[t].roles = token[t].roles
        /\ token'[t].parent = token[t].parent /\ token'[t].era = token[t].era
        /\ token'[t].late = token[t].late /\ token'[t].raced = token[t].raced
        /\ token[t].state = "absent" => token'[t] = token[t]
        /\ token[t].state # "absent" => token'[t].state # "absent"
        /\ token[t].state = "revoked" => token'[t].state = "revoked"
        /\ token'[t].state = "live" => token[t].state = "live" /\ token[t].user # u
  BY DEF IInv, TypeOK, Change, Revoked, Live, Token
<1>4. UNCHANGED <<role, rows, era>> /\ role[u] # None
  BY DEF Change
<1>5. TypeOK'
  BY <1>1, <1>2, <1>4 DEF IInv, TypeOK
<1>6. Positions'
  BY <1>1, <1>4, NoneIsNoId DEF IInv, TypeOK, Positions, Roles
<1>7. \A q \in Reqs : req'[q].new # None \/ req'[q].old # None \/ req'[q].pc \in {"read", "insert"} =>
        /\ q # r /\ req'[q] = req[q] /\ req[q].user \in Users \cup {None}
        /\ req[q].new \in Tokens \cup {None} /\ req[q].old \in Tokens \cup {None}
  BY <1>1 DEF IInv, TypeOK, Request
<1>8. NewUnused'
  BY <1>3, <1>7 DEF IInv, NewUnused
<1>9. Owned'
  BY <1>3, <1>4 DEF IInv, Owned
<1>10. Exchanges'
  BY <1>3, <1>7 DEF IInv, Exchanges
<1>11. ChangesRevoked'
  BY <1>1, <1>3 DEF IInv, TypeOK, ChangesRevoked
<1>12. OneHolder'
  BY <1>3, <1>7 DEF IInv, OneHolder
<1>13. SingleUse' /\ SessionRolesConstant'
  BY <1>3 DEF IInv, TypeOK, SingleUse, SessionRolesConstant, Token
<1>14. OneSession'
  BY <1>3 DEF IInv, OneSession
<1>15. OldSessionsOverlapped'
  BY <1>3, <1>4 DEF IInv, OldSessionsOverlapped
<1>16. RoleRowsMatch'
  BY DEF Change, IInv, RoleRowsMatch
<1> QED BY <1>5, <1>6, <1>8, <1>9, <1>10, <1>11, <1>12, <1>13, <1>14, <1>15, <1>16 DEF IInv

LEMMA ChangeCommitInv ==
  ASSUME IInv, NEW r \in Reqs, ChangeCommit(r)
  PROVE  IInv'
<1>1. req[r].user \in Users /\ req[r].role \in Roles /\ role[req[r].user] # None
  BY DEF IInv, TypeOK, ChangeCommit, Positions, Request
<1>2. Synced(rows[req[r].user], req[r].role) \in [Roles -> RowStatus]
  BY <1>1 DEF IInv, TypeOK, Synced, RowStatus
<1>3. TypeOK'
  BY <1>1, <1>2, EndType, ChangesBound DEF IInv, TypeOK, ChangeCommit
<1>4. /\ {y \in Roles : Synced(rows[req[r].user], req[r].role)[y] = "active"} = Granted[req[r].role]
  BY <1>1 DEF Synced, Granted, Dropped, Roles
<1>5. RoleRowsMatch'
  BY <1>1, <1>4 DEF IInv, TypeOK, ChangeCommit, RoleRowsMatch
<1>6. Positions'
  BY DEF ChangeCommit, End, IInv, TypeOK, Positions, Idle
<1>7. NewUnused'
  BY DEF ChangeCommit, End, IInv, NewUnused, Idle
<1>8. Owned'
  BY DEF ChangeCommit, IInv, Owned, Positions
<1>9. Exchanges'
  BY DEF ChangeCommit, End, IInv, Exchanges, Idle
<1>10. ChangesRevoked'
  BY DEF ChangeCommit, End, IInv, ChangesRevoked, Idle
<1>11. OneHolder'
  BY DEF ChangeCommit, End, IInv, OneHolder, Idle
<1>12. SingleUse'
  BY DEF ChangeCommit, IInv, SingleUse
<1>13. SessionRolesConstant'
  BY DEF ChangeCommit, IInv, SessionRolesConstant
<1>14. OneSession'
  BY DEF ChangeCommit, IInv, OneSession
<1>15. OldSessionsOverlapped'
  BY DEF ChangeCommit, IInv, OldSessionsOverlapped, ChangesRevoked
<1> QED BY <1>3, <1>5, <1>6, <1>7, <1>8, <1>9, <1>10, <1>11, <1>12, <1>13, <1>14, <1>15 DEF IInv

LEMMA AskInv ==
  ASSUME IInv, NEW r \in Reqs, NEW u \in Users, Ask(r, u)
  PROVE  IInv'
<1>1. TypeOK'
  BY DEF Ask, Begin, IInv, TypeOK, Request, Idle
<1>2. Positions'
  BY NoneIsNoId DEF Ask, Begin, IInv, Positions, Idle
<1>3. NewUnused'
  BY DEF Ask, Begin, IInv, NewUnused
<1>4. Owned'
  BY DEF Ask, IInv, Owned
<1>5. Exchanges'
  BY DEF Ask, Begin, IInv, Exchanges, Idle
<1>6. ChangesRevoked'
  BY DEF Ask, Begin, IInv, ChangesRevoked
<1>7. OneHolder'
  BY DEF Ask, Begin, IInv, OneHolder
<1>8. SingleUse'
  BY DEF Ask, IInv, SingleUse
<1>9. SessionRolesConstant'
  BY DEF Ask, IInv, SessionRolesConstant
<1>10. RoleRowsMatch'
  BY DEF Ask, IInv, RoleRowsMatch
<1>11. OneSession'
  BY DEF Ask, IInv, OneSession
<1>12. OldSessionsOverlapped'
  BY DEF Ask, IInv, OldSessionsOverlapped
<1> QED BY <1>1, <1>2, <1>3, <1>4, <1>5, <1>6, <1>7, <1>8, <1>9, <1>10, <1>11, <1>12 DEF IInv

LEMMA EnsureInv ==
  ASSUME IInv, NEW r \in Reqs, Ensure(r)
  PROVE  IInv'
<1>1. rows' \in [Users -> [Roles -> RowStatus]] /\ UNCHANGED <<role, token, era>>
  BY DEF IInv, TypeOK, Ensure, RowStatus
<1>2. TypeOK'
  BY <1>1, EndType DEF IInv, TypeOK, Ensure
<1>3. Positions'
  BY DEF Ensure, End, IInv, TypeOK, Positions, Idle
<1>4. NewUnused'
  BY DEF Ensure, End, IInv, NewUnused, Idle
<1>5. Owned'
  BY DEF Ensure, IInv, Owned, Positions
<1>6. Exchanges'
  BY DEF Ensure, End, IInv, Exchanges, Idle
<1>7. ChangesRevoked'
  BY DEF Ensure, End, IInv, ChangesRevoked, Idle
<1>8. OneHolder'
  BY DEF Ensure, End, IInv, OneHolder, Idle
<1>9. SingleUse'
  BY DEF Ensure, IInv, SingleUse
<1>10. SessionRolesConstant'
  BY DEF Ensure, IInv, SessionRolesConstant
<1>11. RoleRowsMatch'
  BY DEF Ensure, IInv, RoleRowsMatch
<1>12. OneSession'
  BY DEF Ensure, IInv, OneSession
<1>13. OldSessionsOverlapped'
  BY DEF Ensure, IInv, OldSessionsOverlapped
<1> QED BY <1>2, <1>3, <1>4, <1>5, <1>6, <1>7, <1>8, <1>9, <1>10, <1>11, <1>12, <1>13 DEF IInv

LEMMA AbortInv ==
  ASSUME IInv, NEW r \in Reqs, Abort(r)
  PROVE  IInv'
<1>1. TypeOK'
  BY EndType DEF IInv, TypeOK, Abort
<1>2. Positions'
  BY DEF Abort, End, IInv, TypeOK, Positions, Idle
<1>3. NewUnused'
  BY DEF Abort, End, IInv, NewUnused, Idle
<1>4. Owned'
  BY DEF Abort, IInv, Owned
<1>5. Exchanges'
  BY DEF Abort, End, IInv, Exchanges, Idle
<1>6. ChangesRevoked'
  BY DEF Abort, End, IInv, ChangesRevoked, Idle
<1>7. OneHolder'
  BY DEF Abort, End, IInv, OneHolder, Idle
<1>8. SingleUse'
  BY DEF Abort, IInv, SingleUse
<1>9. SessionRolesConstant'
  BY DEF Abort, IInv, SessionRolesConstant
<1>10. RoleRowsMatch'
  BY DEF Abort, IInv, RoleRowsMatch
<1>11. OneSession'
  BY DEF Abort, IInv, OneSession
<1>12. OldSessionsOverlapped'
  BY DEF Abort, IInv, OldSessionsOverlapped
<1> QED BY <1>1, <1>2, <1>3, <1>4, <1>5, <1>6, <1>7, <1>8, <1>9, <1>10, <1>11, <1>12 DEF IInv

LEMMA ExpireInv ==
  ASSUME IInv, NEW t \in Tokens, Expire(t)
  PROVE  IInv'
<1>1. /\ token' \in [Tokens -> Token] /\ UNCHANGED <<role, rows, era, req>>
      /\ \A s \in Tokens : s # t => token'[s] = token[s]
      /\ token[t].state # "absent"
      /\ token'[t].state = token[t].state
      /\ token'[t].user = token[t].user
  <2>1. token[t] \in Token
    BY DEF IInv, TypeOK
  <2>2. [token[t] EXCEPT !.expired = TRUE] \in Token
    BY <2>1 DEF Token
  <2> QED BY <2>1, <2>2 DEF IInv, TypeOK, Expire
<1>2. TypeOK'
  BY <1>1 DEF IInv, TypeOK
<1>3. Owned'
  BY <1>1 DEF IInv, Owned
<1>4. Positions'
  BY DEF Expire, IInv, Positions
<1>5. NewUnused'
  BY DEF Expire, IInv, NewUnused
<1>6. Exchanges'
  BY DEF Expire, IInv, Exchanges
<1>7. ChangesRevoked'
  BY DEF Expire, IInv, ChangesRevoked
<1>8. OneHolder'
  BY DEF Expire, IInv, OneHolder
<1>9. SingleUse'
  BY DEF Expire, IInv, SingleUse
<1>10. SessionRolesConstant'
  BY DEF Expire, IInv, SessionRolesConstant
<1>11. RoleRowsMatch'
  BY DEF Expire, IInv, RoleRowsMatch
<1>12. OneSession'
  BY DEF Expire, IInv, OneSession
<1>13. OldSessionsOverlapped'
  BY DEF Expire, IInv, OldSessionsOverlapped
<1> QED BY <1>2, <1>3, <1>4, <1>5, <1>6, <1>7, <1>8, <1>9, <1>10, <1>11, <1>12, <1>13 DEF IInv

\* The invariant holds in every reachable state.
THEOREM Invariance == Spec => []IInv
<1>1. IInv /\ [Next]_vars => IInv'
  <2> SUFFICES ASSUME IInv, [Next]_vars PROVE IInv'
    OBVIOUS
  <2>1. CASE UNCHANGED vars
    BY <2>1 DEF vars, IInv, TypeOK, Positions, NewUnused, Owned, Exchanges, ChangesRevoked,
       OneHolder,
                SingleUse, SessionRolesConstant, RoleRowsMatch, OneSession, OldSessionsOverlapped
  <2>2. ASSUME NEW r \in Reqs, Start(r) PROVE IInv'
    BY <2>2, RegisterInv, LoginInv, RefreshInv, ChangeInv, AskInv DEF Start
  <2>3. ASSUME NEW r \in Reqs, Consume(r) PROVE IInv'
    <3>1. CASE End(r) /\ UNCHANGED token
      <4>1. Abort(r)
        BY <2>3, <3>1 DEF Consume, Abort, Idle
      <4> QED BY <4>1, AbortInv
    <3> QED BY <2>3, <3>1, ConsumeInv
  <2>4. ASSUME NEW r \in Reqs, Step(r) PROVE IInv'
    BY <2>3, <2>4, RegisterReadInv, InsertInv, RotateInv, ChangeCommitInv, EnsureInv DEF Step
  <2>5. ASSUME NEW r \in Reqs, Abort(r) PROVE IInv'
    BY <2>5, AbortInv
  <2>6. ASSUME NEW t \in Tokens, Expire(t) PROVE IInv'
    BY <2>6, ExpireInv
  <2> QED BY <2>1, <2>2, <2>4, <2>5, <2>6 DEF Next
<1> QED BY InitInv, <1>1, PTL DEF Spec

\* Every variable keeps its type.
THEOREM TypeCorrect == Spec => []TypeOK
<1>1. IInv => TypeOK
  BY DEF IInv
<1> QED BY Invariance, <1>1, PTL

\* A refresh token is exchanged once at most, however many refreshes present it at once.
THEOREM UsedOnce == Spec => []SingleUse
<1>1. IInv => SingleUse
  BY DEF IInv
<1> QED BY Invariance, <1>1, PTL

\* A refresh neither adds nor drops a role, whatever role changes it overlaps.
THEOREM RolesStay == Spec => []SessionRolesConstant
<1>1. IInv => SessionRolesConstant
  BY DEF IInv
<1> QED BY Invariance, <1>1, PTL

\* The active rows of user_roles are those of users.role.
THEOREM RowsMatch == Spec => []RoleRowsMatch
<1>1. IInv => RoleRowsMatch
  BY DEF IInv
<1> QED BY Invariance, <1>1, PTL

\* A login leaves no other session, up to handlers it overlaps.
THEOREM LoginEndsSessions == Spec => []OneSession
<1>1. IInv => OneSession
  BY DEF IInv
<1> QED BY Invariance, <1>1, PTL

\* SetUserRole leaves no token from before it, up to handlers it overlaps.
THEOREM RoleChangeRevokes == Spec => []OldSessionsOverlapped
<1>1. IInv => OldSessionsOverlapped
  BY DEF IInv
<1> QED BY Invariance, <1>1, PTL

=============================================================================
