---------------------------- MODULE Entitlements ----------------------------
(***************************************************************************)
(* Who may change what.  An access token carries the roles its user had when *)
(* a login or a refresh read them; it is not stored and cannot be taken      *)
(* back.  The middleware believes its claims until it expires, so a request   *)
(* runs with roles that may have been withdrawn since: by a change of role    *)
(* while the token was being signed, while it was valid, or while the        *)
(* request itself was running.                                              *)
(***************************************************************************)
EXTENDS EventDesk

CONSTANTS
  AccessTokens,  \* bounds how many access tokens are in use at once
  Calls,         \* requests of staff that run at once
  AccessTTL      \* JWT_ACCESS_TTL, 15 minutes in the code

ASSUME EntitlementAssumption == AccessTTL \in Nat \ {0}

VARIABLES
  granted,  \* granted[u]: the active rows of user_roles
  access,   \* access[k]: an access token, or the login that is about to sign it
  call,     \* call[c]: the request c with the claims of its token
  lapsed    \* lapsed[u][x]: how long ago u had role x, at most Grace (history)

evars == <<granted, access, call, lapsed>>

Roles == {"student", "organizer", "admin"}
Ops == {"create", "edit", "delete", "setrole"}

\* How long a withdrawn role still counts: a token signed by a request that read it
\* at the last moment, used at its last moment, by a request that takes all its time.
Grace == AccessTTL + 2 * RequestTime

\* The roles each route admits.
Allowed == [create |-> {"organizer", "admin"}, edit |-> {"organizer", "admin"},
            delete |-> {"organizer", "admin"}, setrole |-> {"admin"}]

Access == [state : {"none", "draft", "signed"}, user : Staff \cup {None},
           roles : SUBSET Roles, until : Nat]

Call == [pc : {"idle", "run"}, user : Staff \cup {None}, roles : SUBSET Roles,
         op : Ops \cup {"none"}, event : Events \cup {None}, until : Nat]

NoAccess == [state |-> "none", user |-> None, roles |-> {}, until |-> 0]
NoCall == [pc |-> "idle", user |-> None, roles |-> {}, op |-> "none", event |-> None, until |-> 0]

\* syncUserRolesInTx
RolesAfter(old, x) ==
  CASE x = "student" -> {"student"}
    [] x = "organizer" -> (old \ {"admin"}) \cup {"student", "organizer"}
    [] OTHER -> {"admin"}

EInit ==
  /\ DeskInit
  /\ granted \in [Staff -> {{"student"}, {"student", "organizer"}, {"admin"}}]
  /\ access = [k \in AccessTokens |-> NoAccess]
  /\ call = [c \in Calls |-> NoCall]
  /\ lapsed = [u \in Staff |-> [x \in Roles |-> IF x \in granted[u] THEN 0 ELSE Grace]]

-----------------------------------------------------------------------------
(* Tokens *)

\* A login or a refresh reads the roles,
ReadRoles(k, u) ==
  /\ access[k].state # "draft"
  /\ access' = [access EXCEPT ![k] = [state |-> "draft", user |-> u, roles |-> granted[u],
                                      until |-> now + RequestTime]]
  /\ UNCHANGED <<granted, call, lapsed, desk>>

\* ... and GenerateAccessToken signs them: sorted, each once.
Sign(k) ==
  /\ access[k].state = "draft"
  /\ access' = [access EXCEPT ![k] = [@ EXCEPT !.state = "signed", !.until = now + AccessTTL]]
  /\ UNCHANGED <<granted, call, lapsed, desk>>

\* Mutant: the expiry of the token is not looked at.
AcceptsExpired(k) == access[k].state = "signed" /\ access[k].roles # {}

\* ParseAccessToken: signed by this server, not expired, with at least one role.
Accepts(k) == access[k].state = "signed" /\ now < access[k].until /\ access[k].roles # {}

-----------------------------------------------------------------------------
(* Requests *)

\* RequireRole: one of the token's roles is enough.
RequireRole(roles, op) == roles \cap Allowed[op] # {}

\* Mutant: every organizer may change every event.
MayTouchAny(u, roles, e) == TRUE

\* An organizer who is no administrator changes only what is theirs.
MayTouch(u, roles, e) ==
  ("organizer" \in roles /\ "admin" \notin roles) => Owner[e] = u

\* AuthMiddleware, RequireRole, and the handler up to its UPDATE or DELETE: GetByID
\* and the owner.
Arrive(c, k, op, e) ==
  LET u == access[k].user
      roles == access[k].roles
  IN
  /\ call[c] = NoCall
  /\ Accepts(k)
  /\ RequireRole(roles, op)
  /\ op \in {"edit", "delete"} => Exists(e) /\ MayTouch(u, roles, e)
  /\ op = "create" => Owner[e] = u
  /\ call' = [call EXCEPT ![c] = [pc |-> "run", user |-> u, roles |-> roles, op |-> op,
                                  event |-> e, until |-> now + RequestTime]]
  /\ UNCHANGED <<granted, access, lapsed, desk>>

Finish(c) == call' = [call EXCEPT ![c] = NoCall]

\* The creator becomes the organizer of the event.
RunCreate(c, n) ==
  /\ call[c].op = "create"
  /\ Announce(call[c].event, n)
  /\ Finish(c)
  /\ UNCHANGED <<granted, access, lapsed, faults, now>>

RunEdit(c, n) ==
  /\ call[c].op = "edit"
  /\ Recount(call[c].event, n)
  /\ Finish(c)
  /\ UNCHANGED <<granted, access, lapsed, faults, now>>

RunDelete(c) ==
  /\ call[c].op = "delete"
  /\ Close(call[c].event)
  /\ Finish(c)
  /\ UNCHANGED <<granted, access, lapsed, faults, now>>

RunSetRole(c, u, x) ==
  LET new == RolesAfter(granted[u], x) IN
  /\ call[c].op = "setrole"
  /\ granted' = [granted EXCEPT ![u] = new]
  /\ lapsed' = [lapsed EXCEPT ![u] = [y \in Roles |-> IF y \in new THEN 0 ELSE @[y]]]
  /\ Finish(c)
  /\ UNCHANGED <<access, desk>>

\* The event is gone, or the request fails.
Refuse(c) ==
  /\ call[c].pc = "run"
  /\ Finish(c)
  /\ UNCHANGED <<granted, access, lapsed, desk>>

\* Time passes; a request that is still running at its deadline ends.
Pass ==
  /\ Tick
  /\ access' = [k \in AccessTokens |->
       IF access[k].state = "draft" /\ access[k].until < now' THEN NoAccess ELSE access[k]]
  /\ call' = [c \in Calls |-> IF call[c].until < now' THEN NoCall ELSE call[c]]
  /\ lapsed' = [u \in Staff |-> [x \in Roles |->
       IF x \in granted[u] \/ lapsed[u][x] = Grace THEN lapsed[u][x] ELSE lapsed[u][x] + 1]]
  /\ UNCHANGED <<granted, faults, lvars>>

ENext ==
  \/ \E k \in AccessTokens :
       \/ \E u \in Staff : ReadRoles(k, u)
       \/ Sign(k)
       \/ \E c \in Calls, op \in Ops, e \in Events : Arrive(c, k, op, e)
  \/ \E c \in Calls :
       \/ \E n \in Sizes : RunCreate(c, n) \/ RunEdit(c, n)
       \/ \E u \in Staff, x \in Roles : RunSetRole(c, u, x)
       \/ RunDelete(c) \/ Refuse(c)
  \/ Pass

ESpec == EInit /\ [][ENext]_<<desk, evars>>

-----------------------------------------------------------------------------
EntitlementsTypeOK ==
  /\ granted \in [Staff -> SUBSET Roles]
  /\ access \in [AccessTokens -> Access]
  /\ call \in [Calls -> Call]
  /\ lapsed \in [Staff -> [Roles -> 0 .. Grace]]

Recently(u, x) == lapsed[u][x] < Grace

\* A request changes an event only for its organizer, who had that role a moment
\* ago, or for somebody who was administrator a moment ago; only the latter change
\* roles.  So it is however logins, role changes and requests overlap.
OnlyEntitledChange ==
  [][/\ \A c \in Calls, e \in Events :
          LET u == call[c].user IN
          (/\ call[c].pc = "run" /\ call'[c].pc = "idle"
           /\ phase'[e] # phase[e] \/ total'[e] # total[e]) =>
            Recently(u, "admin") \/ (Recently(u, "organizer") /\ Owner[e] = u)
     /\ granted' # granted =>
          \E c \in Calls : call[c].op = "setrole" /\ call'[c].pc = "idle"
                           /\ Recently(call[c].user, "admin")]_<<desk, evars>>
=============================================================================
