-------------------------- MODULE BackOfficeProofs --------------------------
(* Theorems about Process, for any number of requests, faults and instants,  *)
(* and about the components of MCBackOffice together.                       *)
EXTENDS MCBackOffice, DeskProofs, RedisProofs, EntitlementsProofs

-----------------------------------------------------------------------------
(* The process *)

\* What the process has open at each place of main.
OpenAt ==
  /\ stage \in {"start", "exited"} => open = {}
  /\ stage = "redis" => open = {"db"}
  /\ stage = "storage" => open = {"db", "redis"}
  /\ stage \in {"serve", "drain", "closing storage"} => {"db", "redis"} \subseteq open
  /\ stage = "closing redis" => open = {"db", "redis"}
  /\ stage = "closing db" => open = {"db"}

\* Requests run while the process serves or drains, none beyond its deadline, and
\* a shutdown waits longer than the deadline of each.
DeadlinesKept ==
  \A h \in Requests : running[h] # None =>
    /\ stage \in {"serve", "drain"}
    /\ now <= running[h]
    /\ stage = "serve" => running[h] <= now + RequestTime
    /\ stage = "drain" => running[h] < patience

ProcInv == ProcessTypeOK /\ now \in Nat /\ OpenAt /\ DeadlinesKept

LEMMA ProcStart == ProcInit => ProcInv
  BY DEF ProcInit, DeskInit, ProcInv, ProcessTypeOK, Stages, OpenAt, DeadlinesKept

LEMMA ProcStep == ProcInv /\ [ProcNext]_<<desk, procvars>> => ProcInv'
<1> SUFFICES ASSUME ProcInv, [ProcNext]_<<desk, procvars>> PROVE ProcInv'
  OBVIOUS
<1> USE DrainAssumption, DeskAssumption
<1> USE DEF ProcInv, ProcessTypeOK, Stages
<1>1. CASE ConnectDb
  BY <1>1 DEF ConnectDb, Go, Fault, OpenAt, DeadlinesKept
<1>2. CASE ConnectRedis
  BY <1>2 DEF ConnectRedis, Go, Fault, OpenAt, DeadlinesKept
<1>3. CASE ConnectStorage
  BY <1>3 DEF ConnectStorage, Go, desk, OpenAt, DeadlinesKept
<1>4. CASE Signal
  BY <1>4 DEF Signal, Go, desk, OpenAt, DeadlinesKept
<1>5. CASE Drained
  <2>1. \A h \in Requests : running[h] = None
    <3>1. CASE now >= patience
      <4>1. ASSUME NEW h \in Requests, running[h] # None PROVE FALSE
        <5>1. running[h] \in Nat /\ now <= running[h] /\ running[h] < patience
          BY <1>5, <4>1 DEF Drained, Go, DeadlinesKept
        <5>2. now \in Nat /\ patience \in Nat
          OBVIOUS
        <5> HIDE DEF ProcInv, ProcessTypeOK
        <5> QED BY <5>1, <5>2, <3>1
      <4> QED BY <4>1
    <3> QED BY <1>5, <3>1 DEF Drained
  <2>2. stage = "drain" /\ stage' = "closing storage" /\ consumer' = "told"
        /\ UNCHANGED <<open, running, patience, now>>
    BY <1>5 DEF Drained, Go, desk
  <2>3. OpenAt'
    BY <2>2 DEF OpenAt
  <2>4. DeadlinesKept'
    BY <2>1, <2>2 DEF DeadlinesKept
  <2> QED BY <2>2, <2>3, <2>4
<1>6. CASE CloseAll
  <2>1. stage \in {"closing storage", "closing redis", "closing db"}
    BY <1>6 DEF CloseAll
  <2>2. \A h \in Requests : running[h] = None
    BY <2>1 DEF DeadlinesKept
  <2>3. UNCHANGED <<running, patience, consumer, now>>
    BY <1>6 DEF CloseAll, CloseClient, desk
  <2>4. OpenAt' /\ stage' \in Stages /\ open' \subseteq {"db", "redis", "storage"}
    <3>1. CASE stage = "closing storage"
      <4>1. stage' = "closing redis" /\ open' = open \ {"storage"}
        BY <1>6, <3>1 DEF CloseAll, CloseClient
      <4>2. open' = {"db", "redis"}
        BY <3>1, <4>1 DEF OpenAt
      <4> QED BY <4>1, <4>2 DEF OpenAt
    <3>2. CASE stage = "closing redis"
      <4>1. stage' = "closing db" /\ open' = open \ {"redis"}
        BY <1>6, <3>2 DEF CloseAll, CloseClient
      <4>2. open' = {"db"}
        BY <3>2, <4>1 DEF OpenAt
      <4> QED BY <4>1, <4>2 DEF OpenAt
    <3>3. CASE stage = "closing db"
      <4>1. stage' = "exited" /\ open' = open \ {"db"}
        BY <1>6, <3>3 DEF CloseAll, CloseClient
      <4>2. open' = {}
        BY <3>3, <4>1 DEF OpenAt
      <4> QED BY <4>1, <4>2 DEF OpenAt
    <3> QED BY <2>1, <3>1, <3>2, <3>3
  <2>5. DeadlinesKept'
    BY <2>2, <2>3 DEF DeadlinesKept
  <2> QED BY <2>3, <2>4, <2>5
<1>7. CASE WorkerEnds
  BY <1>7 DEF WorkerEnds, desk, OpenAt, DeadlinesKept
<1>8. CASE Killed
  BY <1>8 DEF Killed, Fault, OpenAt, DeadlinesKept
<1>9. CASE Again
  BY <1>9 DEF Again, Go, Fault, OpenAt, DeadlinesKept
<1>10. ASSUME NEW h \in Requests, Serve(h) PROVE ProcInv'
  BY <1>10 DEF Serve, desk, OpenAt, DeadlinesKept
<1>11. ASSUME NEW h \in Requests, Answered(h) PROVE ProcInv'
  BY <1>11 DEF Answered, desk, OpenAt, DeadlinesKept
<1>12. CASE ProcTick
  <2>1. now' = now + 1 /\ UNCHANGED <<stage, open, patience, consumer>>
    BY <1>12 DEF ProcTick, Tick
  <2>2. running' = [h \in Requests |->
          IF running[h] # None /\ running[h] < now' THEN None ELSE running[h]]
    BY <1>12 DEF ProcTick
  <2>3. OpenAt'
    BY <2>1 DEF OpenAt
  <2>4. ASSUME NEW h \in Requests, running'[h] # None
        PROVE  /\ stage' \in {"serve", "drain"}
               /\ now' <= running'[h]
               /\ stage' = "serve" => running'[h] <= now' + RequestTime
               /\ stage' = "drain" => running'[h] < patience'
    <3>1. running'[h] = running[h] /\ running[h] \in Nat /\ ~(running[h] < now')
      BY <2>2, <2>4
    <3>2. /\ stage \in {"serve", "drain"}
          /\ now <= running[h]
          /\ stage = "serve" => running[h] <= now + RequestTime
          /\ stage = "drain" => running[h] < patience
      BY <2>4, <3>1 DEF DeadlinesKept
    <3>3. now \in Nat /\ RequestTime \in Nat
      OBVIOUS
    <3> HIDE DEF ProcInv, ProcessTypeOK
    <3> QED BY <2>1, <3>1, <3>2, <3>3
  <2>5. DeadlinesKept'
    BY <2>4 DEF DeadlinesKept
  <2>6. running' \in [Requests -> Nat \cup {None}]
    <3>1. \A h \in Requests : running[h] \in Nat \cup {None}
      OBVIOUS
    <3>2. \A h \in Requests : running'[h] \in Nat \cup {None}
      BY <2>2, <3>1
    <3> HIDE DEF ProcInv, ProcessTypeOK
    <3> QED BY <2>2, <3>2
  <2>7. now' \in Nat
    <3>1. now \in Nat
      OBVIOUS
    <3> HIDE DEF ProcInv, ProcessTypeOK
    <3> QED BY <2>1, <3>1
  <2>8. ProcessTypeOK'
    BY <2>1, <2>6
  <2> QED BY <2>3, <2>5, <2>7, <2>8
<1>13. CASE UNCHANGED <<desk, procvars>>
  BY <1>13 DEF desk, procvars, OpenAt, DeadlinesKept
<1> QED BY <1>1, <1>2, <1>3, <1>4, <1>5, <1>6, <1>7, <1>8, <1>9, <1>10, <1>11, <1>12, <1>13
        DEF ProcNext

\* The invariant of the process: what is open, and which requests still run, is
\* decided by where main is and by the deadlines.
THEOREM ProcessInvariance == ProcSpec => []ProcInv
  BY ProcStart, ProcStep, PTL DEF ProcSpec

\* No request ever finds the database or Redis closed under it.
THEOREM RequestsKeepClients == ProcSpec => []ClientsOutliveRequests
<1>1. ProcInv => ClientsOutliveRequests
  BY DEF ProcInv, OpenAt, DeadlinesKept, ClientsOutliveRequests
<1> QED BY <1>1, ProcessInvariance, PTL

-----------------------------------------------------------------------------
(* The components together: each keeps its invariant in the work on it *)

BackInv ==
  /\ workload = "covers" => CoverInv
  /\ workload = "moderation" => ModInv /\ ModerationTypeOK
  /\ workload = "lists" => PassInv
  /\ workload = "rights" => EntInv
  /\ workload = "statistics" => StatInv /\ FigInv
  /\ workload = "limiter" => LimInv
  /\ workload = "process" => ProcInv

backvars == <<workload, desk, cvars, mvars, listvars, evars, svars, rvars, procvars>>

LEMMA BackOfficeStarts == BackOfficeInit => BackInv
  BY CoverStarts, ModerationStarts, TrailStarts, PassStart, EntStart, StatStart, FigStart, LimStart, ProcStart
     DEF BackOfficeInit, BackInv

LEMMA BackOfficeSteps == BackInv /\ [BackOfficeNext]_backvars => BackInv'
<1> SUFFICES ASSUME BackInv, [BackOfficeNext]_backvars PROVE BackInv'
  OBVIOUS
<1>1. workload' = workload
  BY DEF BackOfficeNext, backvars
<1>2. workload = "covers" => [CNext]_<<desk, cvars>>
  BY DEF BackOfficeNext, backvars
<1>3. workload = "moderation" => [MNext]_<<desk, mvars>>
  BY DEF BackOfficeNext, backvars
<1>4. workload = "lists" => [ListNext]_<<desk, listvars>>
  BY DEF BackOfficeNext, backvars
<1>5. workload = "rights" => [ENext]_<<desk, evars>>
  BY DEF BackOfficeNext, backvars
<1>6. workload = "statistics" => [SNext]_<<desk, svars>>
  BY DEF BackOfficeNext, backvars
<1>7. workload = "limiter" => [RNext]_<<desk, rvars>>
  BY DEF BackOfficeNext, backvars
<1>8. workload = "process" => [ProcNext]_<<desk, procvars>>
  BY DEF BackOfficeNext, backvars
<1>9. workload = "covers" => CoverInv'
  BY <1>2, CoverSteps DEF BackInv
<1>10. workload = "moderation" => (ModInv /\ ModerationTypeOK)'
  BY <1>3, ModerationSteps, TrailTyped DEF BackInv
<1>11. workload = "lists" => PassInv'
  BY <1>4, ListingsStep DEF BackInv
<1>12. workload = "rights" => EntInv'
  BY <1>5, EntStep DEF BackInv
<1>13. workload = "statistics" => (StatInv /\ FigInv)'
  BY <1>6, StatStep, FigStep DEF BackInv
<1>14. workload = "limiter" => LimInv'
  BY <1>7, LimStep DEF BackInv
<1>15. workload = "process" => ProcInv'
  BY <1>8, ProcStep DEF BackInv
<1> QED BY <1>1, <1>9, <1>10, <1>11, <1>12, <1>13, <1>14, <1>15 DEF BackInv

\* Each component keeps its invariant beside the others, and with it its types.
THEOREM BackOfficeTyped == BackOfficeSpec => []BackOfficeTypeOK
<1>1. BackInv => BackOfficeTypeOK
  BY DEF BackInv, BackOfficeTypeOK, CoverInv, PassInv, EntInv, FigInv, LimInv, ProcInv
<1> QED BY <1>1, BackOfficeStarts, BackOfficeSteps, PTL DEF BackOfficeSpec, backvars
=============================================================================
