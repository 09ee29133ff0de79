------------------------- MODULE EntitlementsProofs -------------------------
(* Theorems about Entitlements, for any staff, events, tokens, requests and lifetimes. *)
EXTENDS Entitlements, TLAPS

\* In the predicates l stands for lapsed and t for the clock.  A role of the token,
\* or of the login that signs it, is not gone for longer than it was read.
AccessFine(a, l, t) ==
  /\ a.state \in {"draft", "signed"} => a.user \in Staff
  /\ a.state = "draft" =>
       /\ t <= a.until /\ a.until <= t + RequestTime
       /\ \A x \in a.roles : l[a.user][x] + a.until <= t + RequestTime
  /\ a.state = "signed" =>
       /\ a.until <= t + AccessTTL
       /\ \A x \in a.roles : l[a.user][x] + a.until <= t + AccessTTL + RequestTime

\* A request that runs was let in, with roles that are not gone for long.
CallFine(c, l, t) ==
  /\ c.pc = "idle" => c.op = "none"
  /\ c.pc = "run" =>
       /\ c.user \in Staff /\ c.event \in Events /\ c.op \in Ops
       /\ t <= c.until /\ c.until <= t + RequestTime
       /\ \A x \in c.roles : l[c.user][x] + c.until < t + Grace
       /\ RequireRole(c.roles, c.op)
       /\ c.op \in {"edit", "delete"} => MayTouch(c.user, c.roles, c.event)
       /\ c.op = "create" => Owner[c.event] = c.user

EntInv ==
  /\ EntitlementsTypeOK
  /\ now \in Nat
  /\ \A u \in Staff : \A x \in granted[u] : lapsed[u][x] = 0
  /\ \A k \in AccessTokens : AccessFine(access[k], lapsed, now)
  /\ \A c \in Calls : CallFine(call[c], lapsed, now)

-----------------------------------------------------------------------------
LEMMA Bounds ==
  /\ AccessTTL \in Nat /\ AccessTTL >= 1 /\ RequestTime \in Nat
  /\ Grace \in Nat /\ Grace = AccessTTL + 2 * RequestTime
  BY EntitlementAssumption, DeskAssumption DEF Grace

LEMMA RolesStay ==
  ASSUME NEW old \in SUBSET Roles, NEW x \in Roles
  PROVE  RolesAfter(old, x) \in SUBSET Roles
  BY DEF RolesAfter, Roles

LEMMA NoneFine ==
  ASSUME NEW l, NEW t
  PROVE  /\ NoAccess \in Access /\ AccessFine(NoAccess, l, t)
         /\ NoCall \in Call /\ CallFine(NoCall, l, t)
  BY DEF NoAccess, NoCall, Access, Call, AccessFine, CallFine

LEMMA EntStart == EInit => EntInv
<1> SUFFICES ASSUME EInit PROVE EntInv
  OBVIOUS
<1>1. granted \in [Staff -> SUBSET Roles]
  BY DEF EInit, Roles
<1>2. lapsed = [u \in Staff |-> [x \in Roles |-> IF x \in granted[u] THEN 0 ELSE Grace]]
  BY DEF EInit
<1>3. lapsed \in [Staff -> [Roles -> 0 .. Grace]]
  BY <1>2, Bounds
<1>4. \A u \in Staff : \A x \in granted[u] : lapsed[u][x] = 0
  BY <1>1, <1>2
<1>5. access \in [AccessTokens -> Access] /\ call \in [Calls -> Call] /\ now \in Nat
  BY NoneFine DEF EInit, DeskInit
<1>6. \A k \in AccessTokens : AccessFine(access[k], lapsed, now)
  BY NoneFine DEF EInit
<1>7. \A c \in Calls : CallFine(call[c], lapsed, now)
  BY NoneFine DEF EInit
<1> QED BY <1>1, <1>3, <1>4, <1>5, <1>6, <1>7 DEF EntInv, EntitlementsTypeOK

-----------------------------------------------------------------------------
(* Steps that leave the clock alone *)

\* A request ends and the tokens and roles stand.
LEMMA FinishKeeps ==
  ASSUME EntInv, NEW c \in Calls, Finish(c), UNCHANGED <<granted, access, lapsed, now>>
  PROVE  EntInv'
<1>1. call' \in [Calls -> Call]
  BY NoneFine DEF Finish, EntInv, EntitlementsTypeOK
<1>2. \A d \in Calls : call'[d] = NoCall \/ call'[d] = call[d]
  BY DEF Finish, EntInv, EntitlementsTypeOK
<1>3. \A d \in Calls : CallFine(call'[d], lapsed, now)
  BY <1>2, NoneFine DEF EntInv
<1> QED BY <1>1, <1>3 DEF EntInv, EntitlementsTypeOK

\* A token becomes a.
LEMMA AccessKeeps ==
  ASSUME EntInv, NEW k \in AccessTokens, NEW a \in Access, AccessFine(a, lapsed, now),
         access' = [access EXCEPT ![k] = a], UNCHANGED <<granted, call, lapsed, now>>
  PROVE  EntInv'
<1>1. access' \in [AccessTokens -> Access]
  BY DEF EntInv, EntitlementsTypeOK
<1>2. \A j \in AccessTokens : access'[j] = a \/ access'[j] = access[j]
  BY DEF EntInv, EntitlementsTypeOK
<1>3. \A j \in AccessTokens : AccessFine(access'[j], lapsed, now)
  BY <1>2 DEF EntInv
<1> QED BY <1>1, <1>3 DEF EntInv, EntitlementsTypeOK

LEMMA ReadRolesStep ==
  ASSUME EntInv, NEW k \in AccessTokens, NEW u \in Staff, ReadRoles(k, u) PROVE EntInv'
<1> DEFINE a == [state |-> "draft", user |-> u, roles |-> granted[u], until |-> now + RequestTime]
<1>1. access' = [access EXCEPT ![k] = a] /\ UNCHANGED <<granted, call, lapsed, now>>
  BY DEF ReadRoles, desk
<1>2. a \in Access
  BY Bounds DEF Access, EntInv, EntitlementsTypeOK
<1>3. AccessFine(a, lapsed, now)
  BY Bounds DEF AccessFine, EntInv, EntitlementsTypeOK
<1> HIDE DEF a
<1> QED BY <1>1, <1>2, <1>3, AccessKeeps

LEMMA SignStep == ASSUME EntInv, NEW k \in AccessTokens, Sign(k) PROVE EntInv'
<1> DEFINE a == [access[k] EXCEPT !.state = "signed", !.until = now + AccessTTL]
<1>1. /\ access[k].state = "draft" /\ access' = [access EXCEPT ![k] = a]
      /\ UNCHANGED <<granted, call, lapsed, now>>
  BY DEF Sign, desk
<1>2. access[k] \in Access /\ AccessFine(access[k], lapsed, now)
  BY DEF EntInv, EntitlementsTypeOK
<1>3. /\ a \in Access /\ a.state = "signed" /\ a.user = access[k].user
      /\ a.roles = access[k].roles /\ a.until = now + AccessTTL
  <2>1. now + AccessTTL \in Nat
    BY Bounds DEF EntInv
  <2> QED BY <1>2, <2>1 DEF Access
<1>4. AccessFine(a, lapsed, now)
  <2>1. a.user \in Staff
    BY <1>1, <1>2, <1>3 DEF AccessFine
  <2>2. a.until <= now + AccessTTL
    BY <1>3, Bounds DEF EntInv
  <2>3. ASSUME NEW x \in a.roles PROVE lapsed[a.user][x] + a.until <= now + AccessTTL + RequestTime
    <3>1. lapsed[a.user][x] + access[k].until <= now + RequestTime
      BY <1>1, <1>2, <1>3, <2>3 DEF AccessFine
    <3>2. lapsed[a.user][x] \in Nat
      <4>1. x \in Roles /\ lapsed \in [Staff -> [Roles -> 0 .. Grace]]
        BY <1>2, <1>3, <2>3 DEF Access, EntInv, EntitlementsTypeOK
      <4> QED BY <2>1, <4>1, Bounds
    <3>3. access[k].until \in Nat /\ now \in Nat /\ now <= access[k].until
      BY <1>1, <1>2 DEF Access, AccessFine, EntInv
    <3>4. lapsed[a.user][x] <= RequestTime
      <4> HIDE DEF a
      <4> QED BY <3>1, <3>2, <3>3, Bounds
    <3> QED BY <1>3, <3>2, <3>3, <3>4, Bounds
  <2> HIDE DEF a
  <2> QED BY <1>3, <2>1, <2>2, <2>3 DEF AccessFine
<1> HIDE DEF a
<1> QED BY <1>1, <1>3, <1>4, AccessKeeps

\* The middleware lets in what was signed at most AccessTTL ago.
LEMMA ArriveStep ==
  ASSUME EntInv, NEW c \in Calls, NEW k \in AccessTokens, NEW op \in Ops, NEW e \in Events,
         Arrive(c, k, op, e)
  PROVE  EntInv'
<1> DEFINE u == access[k].user
           roles == access[k].roles
           r == [pc |-> "run", user |-> u, roles |-> roles, op |-> op, event |-> e,
                 until |-> now + RequestTime]
<1>1. /\ access[k].state = "signed" /\ now < access[k].until
      /\ RequireRole(roles, op)
      /\ op \in {"edit", "delete"} => MayTouch(u, roles, e)
      /\ op = "create" => Owner[e] = u
      /\ call' = [call EXCEPT ![c] = r] /\ UNCHANGED <<granted, access, lapsed, now>>
  BY DEF Arrive, Accepts, desk
<1>2. /\ access[k] \in Access /\ AccessFine(access[k], lapsed, now) /\ now \in Nat
      /\ call \in [Calls -> Call] /\ lapsed \in [Staff -> [Roles -> 0 .. Grace]]
  BY DEF EntInv, EntitlementsTypeOK
<1>3. u \in Staff /\ roles \in SUBSET Roles
  BY <1>1, <1>2 DEF AccessFine, Access
<1>4. r \in Call
  <2>1. now + RequestTime \in Nat
    BY <1>2, Bounds
  <2> QED BY <1>3, <2>1 DEF Call
<1>5. ASSUME NEW x \in roles PROVE lapsed[u][x] + (now + RequestTime) < now + Grace
  <2>1. lapsed[u][x] + access[k].until <= now + AccessTTL + RequestTime
    BY <1>1, <1>2, <1>5 DEF AccessFine
  <2>2. lapsed[u][x] \in Nat
    BY <1>2, <1>3, <1>5, Bounds
  <2>3. access[k].until \in Nat
    BY <1>2 DEF Access
  <2> HIDE DEF u, roles
  <2>4. lapsed[u][x] < AccessTTL + RequestTime
    BY <1>1, <1>2, <2>1, <2>2, <2>3, Bounds
  <2> QED BY <1>2, <2>2, <2>4, Bounds
<1>6. CallFine(r, lapsed, now)
  <2>1. now <= now + RequestTime /\ now + RequestTime <= now + RequestTime
    BY <1>2, Bounds
  <2>2. /\ r.pc = "run" /\ r.user = u /\ r.roles = roles /\ r.op = op /\ r.event = e
        /\ r.until = now + RequestTime
    OBVIOUS
  <2> HIDE DEF u, roles, r
  <2>3. \A x \in r.roles : lapsed[r.user][x] + r.until < now + Grace
    BY <1>5, <2>2
  <2> QED BY <1>1, <1>3, <2>1, <2>2, <2>3 DEF CallFine
<1>7. call' \in [Calls -> Call] /\ \A d \in Calls : call'[d] = r \/ call'[d] = call[d]
  <2> HIDE DEF r
  <2> QED BY <1>1, <1>2, <1>4
<1>8. \A d \in Calls : CallFine(call'[d], lapsed, now)
  BY <1>6, <1>7 DEF EntInv
<1> QED BY <1>1, <1>7, <1>8 DEF EntInv, EntitlementsTypeOK

\* A role that is given is gone for no time; one that is taken begins to lapse.
LEMMA SetRoleStep ==
  ASSUME EntInv, NEW c \in Calls, NEW u \in Staff, NEW x \in Roles, RunSetRole(c, u, x)
  PROVE  EntInv'
<1> DEFINE new == RolesAfter(granted[u], x)
<1>1. /\ granted' = [granted EXCEPT ![u] = new]
      /\ lapsed' = [lapsed EXCEPT ![u] = [y \in Roles |-> IF y \in new THEN 0 ELSE @[y]]]
      /\ Finish(c) /\ UNCHANGED <<access, now>>
  BY DEF RunSetRole, desk
<1>2. /\ granted \in [Staff -> SUBSET Roles] /\ lapsed \in [Staff -> [Roles -> 0 .. Grace]]
      /\ access \in [AccessTokens -> Access] /\ call \in [Calls -> Call] /\ now \in Nat
  BY DEF EntInv, EntitlementsTypeOK
<1>3. new \in SUBSET Roles
  BY <1>2, RolesStay
<1> HIDE DEF new
<1>4. granted' \in [Staff -> SUBSET Roles]
  BY <1>1, <1>2, <1>3
<1>5. \A y \in Roles : lapsed'[u][y] = IF y \in new THEN 0 ELSE lapsed[u][y]
  BY <1>1, <1>2
<1>6. \A w \in Staff \ {u} : lapsed'[w] = lapsed[w] /\ granted'[w] = granted[w]
  BY <1>1, <1>2
<1>7. lapsed' \in [Staff -> [Roles -> 0 .. Grace]]
  <2>1. [y \in Roles |-> IF y \in new THEN 0 ELSE lapsed[u][y]] \in [Roles -> 0 .. Grace]
    BY <1>2, Bounds
  <2> QED BY <1>1, <1>2, <2>1
<1>8. \A w \in Staff, y \in Roles : lapsed'[w][y] = 0 \/ lapsed'[w][y] = lapsed[w][y]
  BY <1>5, <1>6
<1>9. \A w \in Staff : \A y \in granted'[w] : lapsed'[w][y] = 0
  <2> TAKE w \in Staff
  <2> TAKE y \in granted'[w]
  <2>1. CASE w = u
    BY <1>1, <1>2, <1>3, <1>5, <2>1
  <2>2. CASE w # u
    BY <1>6, <2>2 DEF EntInv
  <2> QED BY <2>1, <2>2
<1>10. ASSUME NEW k \in AccessTokens PROVE AccessFine(access[k], lapsed', now)
  <2>1. access[k] \in Access /\ AccessFine(access[k], lapsed, now)
    BY <1>2 DEF EntInv
  <2>2. access[k].roles \in SUBSET Roles /\ access[k].until \in Nat
    BY <2>1 DEF Access
  <2>3. access[k].state \in {"draft", "signed"} => access[k].user \in Staff
    BY <2>1 DEF AccessFine
  <2>4. now + RequestTime \in Nat /\ now + AccessTTL \in Nat
        /\ now + AccessTTL <= now + AccessTTL + RequestTime
    BY <1>2, Bounds
  <2>5. access[k].state = "draft" => \A y \in access[k].roles :
          lapsed'[access[k].user][y] + access[k].until <= now + RequestTime
    BY <1>8, <2>1, <2>2, <2>3, <2>4 DEF AccessFine
  <2>6. access[k].state = "signed" => \A y \in access[k].roles :
          lapsed'[access[k].user][y] + access[k].until <= now + AccessTTL + RequestTime
    <3> SUFFICES ASSUME access[k].state = "signed", NEW y \in access[k].roles
                 PROVE  lapsed'[access[k].user][y] + access[k].until
                          <= now + AccessTTL + RequestTime
      OBVIOUS
    <3>1. CASE lapsed'[access[k].user][y] = 0
      <4>1. access[k].until <= now + AccessTTL
        BY <2>1 DEF AccessFine
      <4> QED BY <1>2, <2>2, <3>1, <4>1, Bounds
    <3>2. CASE lapsed'[access[k].user][y] = lapsed[access[k].user][y]
      BY <2>1, <3>2 DEF AccessFine
    <3> QED BY <1>8, <2>2, <2>3, <3>1, <3>2
  <2> QED BY <2>1, <2>5, <2>6 DEF AccessFine
<1>11. ASSUME NEW d \in Calls PROVE CallFine(call'[d], lapsed', now)
  <2>1. call'[d] = NoCall \/ call'[d] = call[d]
    BY <1>1, <1>2 DEF Finish
  <2>2. CASE call'[d] = NoCall
    BY <2>2, NoneFine
  <2>3. CASE call'[d] = call[d] /\ call[d].pc = "run"
    <3>1. call[d] \in Call /\ CallFine(call[d], lapsed, now)
      BY <1>2 DEF EntInv
    <3>2. call[d].roles \in SUBSET Roles /\ call[d].until \in Nat
      BY <3>1 DEF Call
    <3>3. call[d].user \in Staff /\ call[d].until <= now + RequestTime
      BY <2>3, <3>1 DEF CallFine
    <3>4. ASSUME NEW y \in call[d].roles
          PROVE  lapsed'[call[d].user][y] + call[d].until < now + Grace
      <4>1. CASE lapsed'[call[d].user][y] = 0
        BY <1>2, <3>2, <3>3, <4>1, Bounds
      <4>2. CASE lapsed'[call[d].user][y] = lapsed[call[d].user][y]
        BY <2>3, <3>1, <4>2 DEF CallFine
      <4> QED BY <1>8, <3>2, <3>3, <4>1, <4>2
    <3> QED BY <2>3, <3>1, <3>4 DEF CallFine
  <2>4. CASE call'[d] = call[d] /\ call[d].pc # "run"
    BY <1>2, <2>4 DEF EntInv, CallFine
  <2> QED BY <2>1, <2>2, <2>3, <2>4
<1>12. call' \in [Calls -> Call]
  BY <1>1, <1>2, NoneFine DEF Finish
<1> QED BY <1>1, <1>2, <1>4, <1>7, <1>9, <1>10, <1>11, <1>12 DEF EntInv, EntitlementsTypeOK

\* Roles that were withdrawn are gone for one instant more, and what is over ends.
LEMMA PassingStep == ASSUME EntInv, Pass PROVE EntInv'
<1>1. /\ now' = now + 1 /\ UNCHANGED granted
      /\ access' = [k \in AccessTokens |->
           IF access[k].state = "draft" /\ access[k].until < now' THEN NoAccess ELSE access[k]]
      /\ call' = [c \in Calls |-> IF call[c].until < now' THEN NoCall ELSE call[c]]
      /\ lapsed' = [u \in Staff |-> [x \in Roles |->
           IF x \in granted[u] \/ lapsed[u][x] = Grace THEN lapsed[u][x] ELSE lapsed[u][x] + 1]]
  BY DEF Pass, Tick
<1>2. /\ granted \in [Staff -> SUBSET Roles] /\ lapsed \in [Staff -> [Roles -> 0 .. Grace]]
      /\ access \in [AccessTokens -> Access] /\ call \in [Calls -> Call] /\ now \in Nat
  BY DEF EntInv, EntitlementsTypeOK
<1>0. now' = now + 1 /\ now \in Nat
  BY <1>1, <1>2
<1>3. \A u \in Staff, x \in Roles : lapsed'[u][x] =
        IF x \in granted[u] \/ lapsed[u][x] = Grace THEN lapsed[u][x] ELSE lapsed[u][x] + 1
  BY <1>1
<1>4. \A u \in Staff, x \in Roles : lapsed[u][x] \in 0 .. Grace
  BY <1>2
<1>5. \A u \in Staff, x \in Roles :
        lapsed'[u][x] \in 0 .. Grace /\ lapsed'[u][x] <= lapsed[u][x] + 1
  BY <1>3, <1>4, Bounds
<1>6. lapsed' \in [Staff -> [Roles -> 0 .. Grace]]
  BY <1>1, <1>3, <1>5
<1>7. \A u \in Staff : \A x \in granted'[u] : lapsed'[u][x] = 0
  BY <1>1, <1>2, <1>3 DEF EntInv
<1>8. access' \in [AccessTokens -> Access] /\ call' \in [Calls -> Call]
  BY <1>1, <1>2, NoneFine
<1>9. ASSUME NEW k \in AccessTokens PROVE AccessFine(access'[k], lapsed', now')
  <2>1. access[k] \in Access /\ AccessFine(access[k], lapsed, now)
    BY <1>2 DEF EntInv
  <2>2. CASE access'[k] = NoAccess
    BY <2>2, NoneFine
  <2>3. CASE access'[k] # NoAccess
    <3>1. access'[k] = access[k] /\ ~(access[k].state = "draft" /\ access[k].until < now')
      BY <1>1, <2>3
    <3>2. access[k].roles \in SUBSET Roles /\ access[k].until \in Nat
      BY <2>1 DEF Access
    <3>3. CASE access[k].state = "draft"
      <4>1. access[k].user \in Staff /\ access[k].until <= now' + RequestTime
            /\ now' <= access[k].until
        BY <1>1, <1>2, <2>1, <3>1, <3>2, <3>3, Bounds DEF AccessFine
      <4>2. ASSUME NEW x \in access[k].roles
            PROVE  lapsed'[access[k].user][x] + access[k].until <= now' + RequestTime
        <5>1. lapsed[access[k].user][x] + access[k].until <= now + RequestTime
          BY <2>1, <3>3 DEF AccessFine
        <5>2. /\ lapsed'[access[k].user][x] \in Nat /\ lapsed[access[k].user][x] \in Nat
              /\ lapsed'[access[k].user][x] <= lapsed[access[k].user][x] + 1
          BY <1>4, <1>5, <3>2, <4>1, Bounds
        <5> QED BY <1>0, <3>2, <5>1, <5>2, Bounds
      <4> QED BY <3>1, <3>3, <4>1, <4>2 DEF AccessFine
    <3>4. CASE access[k].state = "signed"
      <4>1. access[k].user \in Staff /\ access[k].until <= now' + AccessTTL
        BY <1>1, <1>2, <2>1, <3>2, <3>4, Bounds DEF AccessFine
      <4>2. ASSUME NEW x \in access[k].roles
            PROVE  lapsed'[access[k].user][x] + access[k].until <= now' + AccessTTL + RequestTime
        <5>1. lapsed[access[k].user][x] + access[k].until <= now + AccessTTL + RequestTime
          BY <2>1, <3>4 DEF AccessFine
        <5>2. /\ lapsed'[access[k].user][x] \in Nat /\ lapsed[access[k].user][x] \in Nat
              /\ lapsed'[access[k].user][x] <= lapsed[access[k].user][x] + 1
          BY <1>4, <1>5, <3>2, <4>1, Bounds
        <5> QED BY <1>0, <3>2, <5>1, <5>2, Bounds
      <4> QED BY <3>1, <3>4, <4>1, <4>2 DEF AccessFine
    <3>5. CASE access[k].state \notin {"draft", "signed"}
      BY <3>1, <3>5 DEF AccessFine
    <3> QED BY <3>3, <3>4, <3>5
  <2> QED BY <2>2, <2>3
<1>10. ASSUME NEW c \in Calls PROVE CallFine(call'[c], lapsed', now')
  <2>1. call[c] \in Call /\ CallFine(call[c], lapsed, now)
    BY <1>2 DEF EntInv
  <2>2. CASE call'[c] = NoCall
    BY <2>2, NoneFine
  <2>3. CASE call'[c] # NoCall /\ call[c].pc = "run"
    <3>1. call'[c] = call[c] /\ ~(call[c].until < now')
      BY <1>1, <2>3
    <3>2. call[c].roles \in SUBSET Roles /\ call[c].until \in Nat
      BY <2>1 DEF Call
    <3>3. call[c].user \in Staff /\ now' <= call[c].until /\ call[c].until <= now' + RequestTime
      BY <1>1, <1>2, <2>1, <2>3, <3>1, <3>2, Bounds DEF CallFine
    <3>4. ASSUME NEW x \in call[c].roles
          PROVE  lapsed'[call[c].user][x] + call[c].until < now' + Grace
      <4>1. lapsed[call[c].user][x] + call[c].until < now + Grace
        BY <2>1, <2>3 DEF CallFine
      <4>2. /\ lapsed'[call[c].user][x] \in Nat /\ lapsed[call[c].user][x] \in Nat
            /\ lapsed'[call[c].user][x] <= lapsed[call[c].user][x] + 1
        BY <1>4, <1>5, <3>2, <3>3, Bounds
      <4> QED BY <1>0, <3>2, <4>1, <4>2, Bounds
    <3> QED BY <2>1, <2>3, <3>1, <3>3, <3>4 DEF CallFine
  <2>4. CASE call'[c] # NoCall /\ call[c].pc # "run"
    <3>1. call'[c] = call[c]
      BY <1>1, <2>4
    <3> QED BY <2>1, <2>4, <3>1 DEF CallFine
  <2> QED BY <2>2, <2>3, <2>4
<1>11. now' \in Nat
  BY <1>1, <1>2
<1> QED BY <1>1, <1>2, <1>6, <1>7, <1>8, <1>9, <1>10, <1>11 DEF EntInv, EntitlementsTypeOK

LEMMA EntStep == EntInv /\ [ENext]_<<desk, evars>> => EntInv'
<1> SUFFICES ASSUME EntInv, [ENext]_<<desk, evars>> PROVE EntInv'
  OBVIOUS
<1>1. ASSUME NEW k \in AccessTokens, NEW u \in Staff, ReadRoles(k, u) PROVE EntInv'
  BY <1>1, ReadRolesStep
<1>2. ASSUME NEW k \in AccessTokens, Sign(k) PROVE EntInv'
  BY <1>2, SignStep
<1>3. ASSUME NEW c \in Calls, NEW k \in AccessTokens, NEW op \in Ops, NEW e \in Events,
             Arrive(c, k, op, e)
      PROVE  EntInv'
  BY <1>3, ArriveStep
<1>4. ASSUME NEW c \in Calls, NEW n \in Sizes, RunCreate(c, n) \/ RunEdit(c, n) PROVE EntInv'
  BY <1>4, FinishKeeps DEF RunCreate, RunEdit
<1>5. ASSUME NEW c \in Calls, NEW u \in Staff, NEW x \in Roles, RunSetRole(c, u, x) PROVE EntInv'
  BY <1>5, SetRoleStep
<1>6. ASSUME NEW c \in Calls, RunDelete(c) \/ Refuse(c) PROVE EntInv'
  BY <1>6, FinishKeeps DEF RunDelete, Refuse, desk
<1>7. CASE Pass
  BY <1>7, PassingStep
<1>8. CASE UNCHANGED <<desk, evars>>
  BY <1>8 DEF desk, evars, EntInv, EntitlementsTypeOK
<1> QED BY <1>1, <1>2, <1>3, <1>4, <1>5, <1>6, <1>7, <1>8 DEF ENext

-----------------------------------------------------------------------------
(* What a step may change *)

\* A role a running request has in its claims was held a moment ago.
LEMMA ClaimsRecent ==
  ASSUME EntInv, NEW c \in Calls, call[c].pc = "run", NEW x \in call[c].roles
  PROVE  Recently(call[c].user, x)
<1>1. /\ call[c] \in Call /\ CallFine(call[c], lapsed, now) /\ now \in Nat
      /\ lapsed \in [Staff -> [Roles -> 0 .. Grace]]
  BY DEF EntInv, EntitlementsTypeOK
<1>2. /\ x \in Roles /\ call[c].until \in Nat /\ call[c].user \in Staff /\ now <= call[c].until
      /\ lapsed[call[c].user][x] + call[c].until < now + Grace
  BY <1>1 DEF Call, CallFine
<1>3. lapsed[call[c].user][x] \in Nat
  BY <1>1, <1>2, Bounds
<1> QED BY <1>1, <1>2, <1>3, Bounds DEF Recently

\* A request that creates, edits or deletes an event does so by right.
LEMMA EventByRight ==
  ASSUME EntInv, NEW c \in Calls, call[c].op \in {"create", "edit", "delete"}
  PROVE  LET u == call[c].user IN
         Recently(u, "admin") \/ (Recently(u, "organizer") /\ Owner[call[c].event] = u)
<1>1. CallFine(call[c], lapsed, now) /\ call[c] \in Call
  BY DEF EntInv, EntitlementsTypeOK
<1>2. call[c].pc = "run"
  BY <1>1 DEF CallFine, Call
<1>3. /\ call[c].roles \cap {"organizer", "admin"} # {}
      /\ call[c].op # "create" => MayTouch(call[c].user, call[c].roles, call[c].event)
      /\ call[c].op = "create" => Owner[call[c].event] = call[c].user
  BY <1>1, <1>2 DEF CallFine, RequireRole, Allowed
<1>4. CASE "admin" \in call[c].roles
  BY <1>2, <1>4, ClaimsRecent
<1>5. CASE "admin" \notin call[c].roles
  <2>1. "organizer" \in call[c].roles
    BY <1>3, <1>5
  <2>2. Recently(call[c].user, "organizer")
    BY <1>2, <2>1, ClaimsRecent
  <2>3. Owner[call[c].event] = call[c].user
    BY <1>3, <1>5, <2>1 DEF MayTouch
  <2> QED BY <2>2, <2>3
<1> QED BY <1>4, <1>5

\* Every event has a phase and a size.
EventsListed == DOMAIN phase = Events /\ DOMAIN total = Events

\* What Announce, Recount and Close do to the phases and the sizes.
LEMMA EventWrites ==
  ASSUME EventsListed, NEW f, NEW n, Announce(f, n) \/ Recount(f, n) \/ Close(f)
  PROVE  EventsListed' /\ \A e \in Events : e # f => phase'[e] = phase[e] /\ total'[e] = total[e]
<1>1. CASE Announce(f, n)
  BY <1>1 DEF Announce, EventsListed
<1>2. CASE Recount(f, n)
  BY <1>2 DEF Recount, Resize, EventsListed
<1>3. CASE Close(f)
  BY <1>3 DEF Close, EventsListed
<1> QED BY <1>1, <1>2, <1>3

\* Only RunCreate, RunEdit and RunDelete change an event.
LEMMA EventStep ==
  ASSUME [ENext]_<<desk, evars>>, ~UNCHANGED <<phase, total>>
  PROVE  \E d \in Calls : /\ Finish(d) /\ call[d].op \in {"create", "edit", "delete"}
                         /\ \E n : \/ Announce(call[d].event, n) \/ Recount(call[d].event, n)
                                   \/ Close(call[d].event)
<1>1. PICK d \in Calls : RunDelete(d) \/ \E n \in Sizes : RunCreate(d, n) \/ RunEdit(d, n)
  BY DEF ENext, ReadRoles, Sign, Arrive, RunSetRole, Refuse, Pass, desk, lvars
<1> QED BY <1>1 DEF RunDelete, RunCreate, RunEdit

LEMMA EventsListedStep == EventsListed /\ [ENext]_<<desk, evars>> => EventsListed'
<1> SUFFICES ASSUME EventsListed, [ENext]_<<desk, evars>> PROVE EventsListed'
  OBVIOUS
<1>1. CASE UNCHANGED <<phase, total>>
  BY <1>1 DEF EventsListed
<1>2. CASE ~UNCHANGED <<phase, total>>
  <2>1. PICK f, n : Announce(f, n) \/ Recount(f, n) \/ Close(f)
    BY <1>2, EventStep
  <2> QED BY <2>1, EventWrites
<1> QED BY <1>1, <1>2

\* The request that ends is the one that changed the event, and the event is its own.
LEMMA EventByItsRequest ==
  ASSUME EntInv, EventsListed, [ENext]_<<desk, evars>>, NEW c \in Calls, NEW e \in Events,
         call[c].pc = "run", call'[c].pc = "idle", phase'[e] # phase[e] \/ total'[e] # total[e]
  PROVE  call[c].op \in {"create", "edit", "delete"} /\ call[c].event = e
<1>1. PICK d \in Calls : /\ Finish(d) /\ call[d].op \in {"create", "edit", "delete"}
                         /\ \E n : \/ Announce(call[d].event, n) \/ Recount(call[d].event, n)
                                   \/ Close(call[d].event)
  BY EventStep
<1>2. d = c
  <2>1. \A b \in Calls \ {d} : call'[b] = call[b]
    BY <1>1 DEF Finish, EntInv, EntitlementsTypeOK
  <2> QED BY <2>1
<1>3. call[c].event = e
  BY <1>1, <1>2, EventWrites
<1> QED BY <1>1, <1>2, <1>3

\* Only an administrator's request changes roles.
LEMMA RoleStep ==
  ASSUME EntInv, [ENext]_<<desk, evars>>, granted' # granted
  PROVE  \E c \in Calls : call[c].op = "setrole" /\ call'[c].pc = "idle"
                         /\ Recently(call[c].user, "admin")
<1>1. PICK c \in Calls : \E u \in Staff, x \in Roles : RunSetRole(c, u, x)
  BY DEF ENext, ReadRoles, Sign, Arrive, RunCreate, RunEdit, RunDelete, Refuse, Pass, evars
<1>2. call[c].op = "setrole" /\ Finish(c)
  BY <1>1 DEF RunSetRole
<1>3. CallFine(call[c], lapsed, now) /\ call \in [Calls -> Call]
  BY DEF EntInv, EntitlementsTypeOK
<1>4. call[c].pc = "run" /\ call[c].roles \cap {"admin"} # {}
  <2>1. call[c].pc = "run"
    BY <1>2, <1>3 DEF CallFine, Call
  <2> QED BY <1>2, <1>3, <2>1 DEF CallFine, RequireRole, Allowed
<1>5. Recently(call[c].user, "admin")
  BY <1>4, ClaimsRecent
<1>6. call'[c].pc = "idle"
  BY <1>2, <1>3 DEF Finish, NoCall
<1> QED BY <1>2, <1>5, <1>6

-----------------------------------------------------------------------------
\* The invariant of tokens, requests and withdrawn roles.
THEOREM EntitlementsInvariance == ESpec => []EntInv
  BY EntStart, EntStep, PTL DEF ESpec

\* An event is changed for its organizer or an administrator, roles for an
\* administrator, who had that role no longer ago than Grace.
THEOREM OnlyTheEntitledChange == ESpec => OnlyEntitledChange
<1>1. EntInv /\ EventsListed /\ [ENext]_<<desk, evars>> =>
       [/\ \A c \in Calls, e \in Events :
              LET u == call[c].user IN
              (/\ call[c].pc = "run" /\ call'[c].pc = "idle"
               /\ phase'[e] # phase[e] \/ total'[e] # total[e]) =>
                Recently(u, "admin") \/ (Recently(u, "organizer") /\ Owner[e] = u)
        /\ granted' # granted =>
              \E c \in Calls : call[c].op = "setrole" /\ call'[c].pc = "idle"
                               /\ Recently(call[c].user, "admin")]_<<desk, evars>>
  BY EventByItsRequest, EventByRight, RoleStep
<1>2. EInit => EventsListed
  BY DEF EInit, DeskInit, LInit, EventsListed
<1> QED BY <1>1, <1>2, EventsListedStep, EntitlementsInvariance, PTL DEF ESpec, OnlyEntitledChange
=============================================================================
