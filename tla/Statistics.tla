----------------------------- MODULE Statistics -----------------------------
(***************************************************************************)
(* Statistics for organizers and administrators.  Seats and passes are read  *)
(* in one snapshot, and the figures are kept in Redis for a while under a key *)
(* that says who asked for what.  Queries overlap each other and the sale; a  *)
(* query that computed its figures early may be the last to store them.      *)
(***************************************************************************)
EXTENDS EventDesk, FiniteSetsExt, Functions

CONSTANTS
  Asks,        \* what is asked: by whom, with which of their roles, for one event or
               \* (None) for all in scope
  Queries,     \* requests for statistics that run at once
  CacheTTL,    \* lifetime of a cached answer, 30 seconds in the code
  LastAsk      \* bound of the clock while statistics are asked for

ASSUME StatisticsAssumption ==
  /\ Asks \subseteq [user : Staff, admin : BOOLEAN, event : Events \cup {None}]
  /\ CacheTTL \in Nat \ {0}
  /\ LastAsk \in Nat
  /\ IsFiniteSet(Events \cup Passes) /\ Sizes \subseteq Nat

VARIABLES
  cache,   \* the keys Redis holds, with the figures stored under them until they expire
  query    \* query[q]: the request q

svars == <<cache, query>>

NoAsk == [user |-> None, admin |-> FALSE, event |-> None]

\* Mutant: the key says what is asked and not by whom.
KeyOfScope(ask) == [ask EXCEPT !.user = None]

\* cacheKey: the totals of the platform are the same for every administrator.
CacheKey(ask) ==
  IF ask.admin /\ ask.event = None THEN [ask EXCEPT !.user = None] ELSE ask

Keyring == [user : Staff \cup {None}, admin : BOOLEAN, event : Events \cup {None}]

\* The events an answer is about.
InScope(ask) ==
  {e \in Events : /\ Exists(e)
                  /\ IF ask.event = None THEN ask.admin \/ Owner[e] = ask.user
                                         ELSE e = ask.event}

\* An event that is not there answers 404, one of somebody else 403.
MayAsk(ask) == ask.event # None => Exists(ask.event) /\ (ask.admin \/ Owner[ask.event] = ask.user)

NoFigures == [about |-> NoAsk, total |-> 0, registered |-> 0, over |-> FALSE,
              asof |-> 0]

Figures == [about : Asks \cup {NoAsk}, total : Nat, registered : Nat, over : BOOLEAN,
            asof : Nat]

\* remainingCapacityDerived
Remaining(f) == Left(f.total, f.registered)

Entry == [figures : Figures, garbled : BOOLEAN, until : Nat]

Query == [pc : {"idle", "look", "count", "sum", "store", "answer"}, ask : Asks \cup {NoAsk},
          figures : Figures, until : Nat]

NoQuery == [pc |-> "idle", ask |-> NoAsk, figures |-> NoFigures, until |-> 0]

SInit ==
  /\ DeskInit
  /\ cache = [k \in {} |-> 0]
  /\ query = [q \in Queries |-> NoQuery]

-----------------------------------------------------------------------------
(* The ticket office *)

\* A check-in changes no figure: passes that are used count like active ones.
Trade(e) ==
  /\ \/ \E n \in Sizes : Announce(e, n) \/ Recount(e, n)
     \/ Close(e)
     \/ \E p \in Passes : Return(e, p)
     \/ \E s \in Students, p \in Passes : Sell(e, s, p)
  /\ UNCHANGED <<cache, query, faults, now>>

-----------------------------------------------------------------------------
(* GET /analytics/events/stats *)

\* The middleware lets organizers and administrators in.
AskStats(q, ask) ==
  /\ query[q].pc = "idle"
  /\ query' = [query EXCEPT ![q] = [NoQuery EXCEPT !.pc = "look", !.ask = ask,
                                                   !.until = now + RequestTime]]
  /\ UNCHANGED <<cache, desk>>

Without(keys) == Restrict(cache, DOMAIN cache \ keys)

\* GET: the cached figures, ...
LookHit(q) ==
  LET k == CacheKey(query[q].ask) IN
  /\ query[q].pc = "look"
  /\ k \in DOMAIN cache /\ ~cache[k].garbled
  /\ query' = [query EXCEPT ![q] = [@ EXCEPT !.pc = "answer", !.figures = cache[k].figures]]
  /\ UNCHANGED <<cache, desk>>

\* ... or none, or something that is not JSON and is removed, or Redis is away.
LookMiss(q) ==
  LET k == CacheKey(query[q].ask) IN
  /\ query[q].pc = "look"
  /\ query' = [query EXCEPT ![q] = [@ EXCEPT !.pc = "count"]]
  /\ \/ UNCHANGED cache
     \/ k \in DOMAIN cache /\ cache[k].garbled /\ cache' = Without({k})
  /\ UNCHANGED desk

Passed(ask) == UNION {held[e] : e \in InScope(ask)}

\* The snapshot of the transaction, REPEATABLE READ, is that of its first statement:
\* what the later ones find in it is fixed here.
Count(q) ==
  LET ask == query[q].ask IN
  /\ query[q].pc = "count"
  /\ \/ ~MayAsk(ask) /\ query' = [query EXCEPT ![q] = NoQuery]
     \/ /\ MayAsk(ask)
        /\ query' = [query EXCEPT ![q] = [@ EXCEPT !.pc = "sum", !.figures =
             [about |-> ask, total |-> MapThenSumSet(LAMBDA e : total[e], InScope(ask)),
              registered |-> Cardinality(Passed(ask)),
              over |-> \E e \in InScope(ask) : Cardinality(held[e]) > total[e], asof |-> now]]]
  /\ UNCHANGED <<cache, desk>>

\* Mutant: the tickets are counted at READ COMMITTED, after the seats.
SumLater(q) ==
  /\ query[q].pc = "sum"
  /\ query' = [query EXCEPT ![q] = [@ EXCEPT !.pc = "store",
                 !.figures.registered = Cardinality(Passed(query[q].ask))]]
  /\ UNCHANGED <<cache, desk>>

\* The registrations of the snapshot, and the COMMIT.
Summarize(q) ==
  /\ query[q].pc = "sum"
  /\ query' = [query EXCEPT ![q] = [@ EXCEPT !.pc = "store"]]
  /\ UNCHANGED <<cache, desk>>

\* Mutant: SET without a lifetime.
LifetimeEndless == MaxNow + 1

Lifetime == CacheTTL

\* SET with the lifetime; a failure is passed over.
Store(q) ==
  LET k == CacheKey(query[q].ask)
      entry == [figures |-> query[q].figures, garbled |-> FALSE, until |-> now + Lifetime]
  IN
  /\ query[q].pc = "store"
  /\ query' = [query EXCEPT ![q] = [@ EXCEPT !.pc = "answer"]]
  /\ \/ cache' = [j \in DOMAIN cache \cup {k} |-> IF j = k THEN entry ELSE cache[j]]
     \/ UNCHANGED cache
  /\ UNCHANGED desk

\* 200, or the request is cut off.
EndStats(q) ==
  /\ query[q].pc # "idle"
  /\ query' = [query EXCEPT ![q] = NoQuery]
  /\ UNCHANGED <<cache, desk>>

\* Another release of the program wrote the entry.
Garble(k) ==
  /\ k \in DOMAIN cache
  /\ cache' = [cache EXCEPT ![k] = [@ EXCEPT !.figures = NoFigures, !.garbled = TRUE]]
  /\ UNCHANGED <<query, desk>>

\* Entries expire, and requests end at their deadline.
StatsPass ==
  /\ now < LastAsk
  /\ Tick
  /\ cache' = Without({k \in DOMAIN cache : cache[k].until <= now'})
  /\ query' = [q \in Queries |-> IF query[q].until < now' THEN NoQuery ELSE query[q]]
  /\ UNCHANGED <<faults, lvars>>

QueryStep(q) == LookHit(q) \/ LookMiss(q) \/ Count(q) \/ Summarize(q) \/ Store(q) \/ EndStats(q)

SNext ==
  \/ \E e \in Events : Trade(e)
  \/ \E q \in Queries : QueryStep(q) \/ \E ask \in Asks : AskStats(q, ask)
  \/ \E k \in DOMAIN cache : Garble(k)
  \/ StatsPass

SSpec == SInit /\ [][SNext]_<<desk, svars>>

-----------------------------------------------------------------------------
StatisticsTypeOK ==
  /\ DOMAIN cache \subseteq Keyring
  /\ \A k \in DOMAIN cache : cache[k] \in Entry
  /\ query \in [Queries -> Query]

Answering(q) == query[q].pc = "answer"

\* When somebody asks, the figures they get are younger than the lifetime of the cache
\* and the one request together that computed them, also when an older computation
\* overwrote a newer one in the cache.
AnswersAreFresh ==
  \A q \in Queries : Answering(q) =>
    (query[q].until - RequestTime) - query[q].figures.asof < CacheTTL + RequestTime

\* Nobody is shown figures of an event or of a set of events that is not theirs: the
\* snapshot was taken for the same question by the same person, or for the platform.
AnswersAreOwn ==
  \A q \in Queries : Answering(q) =>
    LET ask == query[q].ask
        for == query[q].figures.about
    IN /\ for.event = ask.event /\ for.admin = ask.admin
       /\ for.user = ask.user \/ (ask.admin /\ ask.event = None)
       /\ (ask.event # None /\ ~ask.admin) => Owner[ask.event] = ask.user

\* The figures of an answer belong together: every seat is registered or remaining,
\* unless an event in scope had been cut below its passes.
FiguresAgree ==
  \A q \in Queries : Answering(q) =>
    LET f == query[q].figures IN
    ~f.over => f.total = f.registered + Remaining(f)
=============================================================================
