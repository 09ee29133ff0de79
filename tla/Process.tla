------------------------------ MODULE Process ------------------------------
(***************************************************************************)
(* The life of a server process: it connects to PostgreSQL, Redis and the    *)
(* object storage, serves, and on a signal drains its requests, cancels the   *)
(* email worker without waiting for it and closes what it opened.  Requests   *)
(* end at their deadline, which is shorter than the time they get to drain.   *)
(***************************************************************************)
EXTENDS EventDesk

CONSTANTS
  Requests,   \* requests that run at once
  DrainTime   \* how long a shutdown waits for them, 30 seconds in the code

ASSUME DrainAssumption == DrainTime \in Nat /\ RequestTime < DrainTime

VARIABLES
  stage,     \* where main is
  open,      \* the clients that were connected and not closed
  running,   \* running[h]: the deadline of request h, None when it does not run
  patience,  \* the instant at which a shutdown stops waiting
  consumer   \* the email worker: "off", "on", or "told" to stop

procvars == <<stage, open, running, patience, consumer>>

Stages == {"start", "redis", "storage", "serve", "drain", "closing storage", "closing redis",
           "closing db", "exited"}

ProcInit ==
  /\ DeskInit
  /\ stage = "start"
  /\ open = {}
  /\ running = [h \in Requests |-> None]
  /\ patience = 0
  /\ consumer = "off"

Go(from, to) == stage = from /\ stage' = to

-----------------------------------------------------------------------------
(* main *)

\* db.Connect; without the database the process panics.
ConnectDb ==
  /\ \/ Go("start", "redis") /\ open' = open \cup {"db"} /\ UNCHANGED faults
     \/ Go("start", "exited") /\ Fault /\ UNCHANGED open
  /\ UNCHANGED <<running, patience, consumer, now, lvars>>

\* Without Redis the database is closed again, and it panics.
ConnectRedis ==
  /\ \/ Go("redis", "storage") /\ open' = open \cup {"redis"} /\ UNCHANGED faults
     \/ Go("redis", "exited") /\ Fault /\ open' = open \ {"db"}
  /\ UNCHANGED <<running, patience, consumer, now, lvars>>

\* Without the object storage it serves all the same; NewRouter starts the worker.
ConnectStorage ==
  /\ Go("storage", "serve")
  /\ open' \in {open, open \cup {"storage"}}
  /\ consumer' = "on"
  /\ UNCHANGED <<running, patience, desk>>

\* SIGINT, SIGTERM or an error of the listener.
Signal ==
  /\ Go("serve", "drain")
  /\ patience' = now + DrainTime
  /\ UNCHANGED <<open, running, consumer, desk>>

\* Mutant: Close in place of Shutdown.
DrainedAtOnce ==
  /\ Go("drain", "closing storage")
  /\ consumer' = "told"
  /\ UNCHANGED <<open, running, patience, desk>>

\* Shutdown returns when all requests have ended or its time is over; workerCancel.
Drained ==
  /\ Go("drain", "closing storage")
  /\ (\A h \in Requests : running[h] = None) \/ now >= patience
  /\ consumer' = "told"
  /\ UNCHANGED <<open, running, patience, desk>>

CloseClient(what, to) ==
  /\ open' = open \ {what}
  /\ stage' = to
  /\ UNCHANGED <<running, patience, consumer, desk>>

\* The object storage first, the database last; main returns.
CloseAll ==
  \/ stage = "closing storage" /\ CloseClient("storage", "closing redis")
  \/ stage = "closing redis" /\ CloseClient("redis", "closing db")
  \/ stage = "closing db" /\ CloseClient("db", "exited")

\* The worker notices that its context is done.
WorkerEnds ==
  /\ consumer = "told"
  /\ consumer' = "off"
  /\ UNCHANGED <<stage, open, running, patience, desk>>

\* The process is killed; its connections and requests end with it.
Killed ==
  /\ stage # "exited"
  /\ Fault
  /\ stage' = "exited"
  /\ open' = {} /\ consumer' = "off" /\ running' = [h \in Requests |-> None]
  /\ UNCHANGED <<patience, now, lvars>>

\* A new process takes its place.
Again ==
  /\ Go("exited", "start")
  /\ Fault
  /\ open' = {} /\ consumer' = "off" /\ running' = [h \in Requests |-> None]
  /\ UNCHANGED <<patience, now, lvars>>

-----------------------------------------------------------------------------
(* Requests *)

\* A new request gets its deadline; none is accepted after the signal.
Serve(h) ==
  /\ stage = "serve"
  /\ running[h] = None
  /\ running' = [running EXCEPT ![h] = now + RequestTime]
  /\ UNCHANGED <<stage, open, patience, consumer, desk>>

\* It is answered, or it panics and Recovery answers.
Answered(h) ==
  /\ running[h] # None
  /\ running' = [running EXCEPT ![h] = None]
  /\ UNCHANGED <<stage, open, patience, consumer, desk>>

\* Time passes; statements fail once the deadline is over, and the request ends.
ProcTick ==
  /\ Tick
  /\ running' = [h \in Requests |->
       IF running[h] # None /\ running[h] < now' THEN None ELSE running[h]]
  /\ UNCHANGED <<stage, open, patience, consumer, faults, lvars>>

ProcNext ==
  \/ ConnectDb \/ ConnectRedis \/ ConnectStorage
  \/ Signal \/ Drained \/ CloseAll \/ WorkerEnds \/ Killed \/ Again
  \/ \E h \in Requests : Serve(h) \/ Answered(h)
  \/ ProcTick

ProcSpec == ProcInit /\ [][ProcNext]_<<desk, procvars>>

-----------------------------------------------------------------------------
ProcessTypeOK ==
  /\ stage \in Stages
  /\ open \subseteq {"db", "redis", "storage"}
  /\ running \in [Requests -> Nat \cup {None}]
  /\ patience \in Nat
  /\ consumer \in {"off", "on", "told"}

\* No request finds a client closed under it: a shutdown outlasts the requests it
\* waits for, because their deadline is the shorter one.
ClientsOutliveRequests ==
  \A h \in Requests : running[h] # None => {"db", "redis"} \subseteq open
=============================================================================
