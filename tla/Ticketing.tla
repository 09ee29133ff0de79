------------------------------ MODULE Ticketing ------------------------------
(***************************************************************************)
(* The rows of the tables "events" and "tickets" and the HTTP requests     *)
(* that change them: register, cancel, check in (ticketing/), create,      *)
(* edit, delete, moderate (events/, admin/).  Every request is a           *)
(* transaction of PostgreSQL at READ COMMITTED, cut at the statements that *)
(* can wait for a row lock, so that requests interleave between them.  A   *)
(* transaction's own writes appear at its commit: until then the row locks *)
(* it holds hide them from every statement of the model that would notice. *)
(***************************************************************************)
EXTENDS Integers, FiniteSets

CONSTANTS
  Users,      \* students
  Events,     \* ids of events
  Tickets,    \* ids of tickets (one per generated QR payload); bounds registrations
  Reqs,       \* requests in flight at once: one database connection each
  None,       \* "no value": SQL NULL, a free lock, an unused field
  NewEvents,  \* the events an organizer may create: [total, starts, ends]
  Patches,    \* the bodies of PUT /events/{id}: [total, status, starts, ends]
  MaxClock    \* bound of the wall clock

EventStatus == {"draft", "published", "cancelled"}
SeatStatus  == {"active", "used"}
TicketStatus == SeatStatus \cup {"cancelled"}

NewEventType == [total : Nat \ {0}, starts : Nat, ends : Nat \cup {None}]
PatchType == [total  : (Nat \ {0}) \cup {None}, status : EventStatus \cup {None},
              starts : Nat \cup {None},         ends   : Nat \cup {None}]

\* The end of an event, when it has one, lies after its start.
ValidWindow(starts, ends) == ends # None => ends > starts

ASSUME FiniteIds == /\ IsFiniteSet(Tickets)
                    /\ None \notin Users \cup Events \cup Tickets \cup Reqs
ASSUME NoneIsNoValue == None \notin Nat \cup EventStatus
ASSUME BodiesTyped == NewEvents \subseteq NewEventType /\ Patches \subseteq PatchType
ASSUME BodiesValidated == \A n \in NewEvents : ValidWindow(n.starts, n.ends)
ASSUME ClockBound == MaxClock \in Nat

VARIABLES
  event,   \* event[e]: the row of table events, status "absent" or "deleted" outside the table
  ticket,  \* ticket[t]: the row of table tickets
  evLock,  \* evLock[e]: the request that holds the row lock of event e, or None
  tkLock,  \* tkLock[t]: the same for ticket t
  req,     \* req[r]: the handler that runs on connection r
  clock    \* wall clock of the server

vars == <<event, ticket, evLock, tkLock, req, clock>>

-----------------------------------------------------------------------------
(* Rows and requests *)

EventRow == [status : EventStatus \cup {"absent", "deleted"},
             mod : {"pending", "approved", "rejected"},
             total : Nat, avail : Nat, starts : Nat, ends : Nat \cup {None}]

TicketRow == [status : TicketStatus \cup {"absent", "deleted"},
              event : Events \cup {None}, user : Users \cup {None}]

Ops == {"none", "register", "cancel", "refund", "use", "update", "delete"}

\* Where a request stands: "ticket"/"event" - about to lock that row;
\* "statement" - about to start the UPDATE of PUT; "recount" - about to run the
\* recount of the seats; "cascade" - locking the tickets an event deletion takes
\* along; "commit" - about to write and commit.
Pcs == {"idle", "ticket", "event", "statement", "recount", "cascade", "commit"}

Request == [op : Ops, pc : Pcs, user : Users \cup {None}, event : Events \cup {None},
            ticket : Tickets \cup {None}, now : Nat, count : Nat,
            patch : Patches \cup {None}]

Idle == [op |-> "none", pc |-> "idle", user |-> None, event |-> None,
         ticket |-> None, now |-> 0, count |-> 0, patch |-> None]

NoEventRow  == [status |-> "absent", mod |-> "pending", total |-> 0, avail |-> 0,
                starts |-> 0, ends |-> None]
NoTicketRow == [status |-> "absent", event |-> None, user |-> None]

Exists(e) == event[e].status \in EventStatus

\* tickets t WHERE t.event_id = e AND t.status IN ('active','used')
Occupied(e) == {t \in Tickets : ticket[t].event = e /\ ticket[t].status \in SeatStatus}

\* tickets t WHERE t.event_id = e
RowsOf(e) == {t \in Tickets : ticket[t].event = e /\ ticket[t].status \in TicketStatus}

\* Mutant: no GREATEST.
SeatsLeftUnclamped(total, n) == total - n

\* GREATEST(0, total - n)
SeatsLeft(total, n) == IF total >= n THEN total - n ELSE 0

\* COALESCE(end_at, starts_at)
EndInstant(e) == IF event[e].ends = None THEN event[e].starts ELSE event[e].ends

Init ==
  /\ event = [e \in Events |-> NoEventRow]
  /\ ticket = [t \in Tickets |-> NoTicketRow]
  /\ evLock = [e \in Events |-> None]
  /\ tkLock = [t \in Tickets |-> None]
  /\ req = [r \in Reqs |-> Idle]
  /\ clock = 0

At(r, ops, pc) == req[r].op \in ops /\ req[r].pc = pc

\* A handler starts on a free connection.
Begin(r, request) == req[r] = Idle /\ req' = [req EXCEPT ![r] = request]

Goto(r, pc) == req' = [req EXCEPT ![r].pc = pc]

\* SELECT COUNT(*): the handler keeps how many tickets it saw.
Counted(r, pc, tickets) ==
  req' = [req EXCEPT ![r] = [@ EXCEPT !.pc = pc, !.count = Cardinality(tickets)]]

LockEvent(r, e)  == evLock' = [evLock EXCEPT ![e] = r]
LockTicket(r, t) == tkLock' = [tkLock EXCEPT ![t] = r]

\* COMMIT or ROLLBACK: the locks go, the connection is free again.
End(r) ==
  /\ evLock' = [e \in Events |-> IF evLock[e] = r THEN None ELSE evLock[e]]
  /\ tkLock' = [t \in Tickets |-> IF tkLock[t] = r THEN None ELSE tkLock[t]]
  /\ req' = [req EXCEPT ![r] = Idle]

\* Mutant: an early return that forgets to end the transaction.
RefuseWithoutRollback(r) == req' = [req EXCEPT ![r] = Idle] /\ UNCHANGED <<event, ticket, evLock, tkLock, clock>>

\* The handler returns an error: ROLLBACK, no row changes.
Refuse(r) == End(r) /\ UNCHANGED <<event, ticket, clock>>

-----------------------------------------------------------------------------
(* POST /tickets/register *)

\* The QR payload, hence the ticket, is generated and "now" is read before the
\* transaction opens.  No two requests generate the same payload.
RegisterStart(r, u, e, t) ==
  /\ ticket[t].status = "absent"
  /\ \A s \in Reqs : req[s].op = "register" => req[s].ticket # t
  /\ event[e].status # "absent"
  /\ Begin(r, [Idle EXCEPT !.op = "register", !.pc = "event", !.user = u,
                           !.event = e, !.ticket = t, !.now = clock])
  /\ UNCHANGED <<event, ticket, evLock, tkLock, clock>>

RegistrationOpen(e, now) ==
  /\ event[e].status = "published"
  /\ event[e].mod = "approved"
  /\ event[e].starts > now
  /\ event[e].avail > 0

\* Mutant: SELECT without FOR UPDATE.
RegisterLockWithoutLock(r) ==
  LET e == req[r].event IN
  /\ At(r, {"register"}, "event")
  /\ \/ RegistrationOpen(e, req[r].now) /\ Goto(r, "commit") /\ UNCHANGED <<event, ticket, evLock, tkLock, clock>>
     \/ ~RegistrationOpen(e, req[r].now) /\ Refuse(r)

\* SELECT ... FOR UPDATE on the event, then the checks.
RegisterLock(r) ==
  LET e == req[r].event IN
  /\ At(r, {"register"}, "event")
  /\ evLock[e] = None
  /\ \/ /\ RegistrationOpen(e, req[r].now)
        /\ LockEvent(r, e)
        /\ Goto(r, "commit")
        /\ UNCHANGED <<event, ticket, tkLock, clock>>
     \/ ~RegistrationOpen(e, req[r].now) /\ Refuse(r)

\* Mutant: the unique index covers active passes only.
HasActiveSeat(u, e) == \E t \in Occupied(e) : ticket[t].user = u /\ ticket[t].status = "active"

\* tickets_event_user_active_used_uidx: the user already has a seat at the event.
HasSeat(u, e) == \E t \in Occupied(e) : ticket[t].user = u

\* INSERT ... ON CONFLICT DO NOTHING, UPDATE ... WHERE capacity_available > 0, COMMIT.
RegisterCommit(r) ==
  LET e == req[r].event
      u == req[r].user
      t == req[r].ticket
  IN
  /\ At(r, {"register"}, "commit")
  /\ \/ /\ ~HasSeat(u, e) /\ event[e].avail > 0
        /\ ticket' = [ticket EXCEPT ![t] = [status |-> "active", event |-> e, user |-> u]]
        /\ event' = [event EXCEPT ![e].avail = @ - 1]
        /\ End(r)
        /\ UNCHANGED clock
     \/ (HasSeat(u, e) \/ event[e].avail = 0) /\ Refuse(r)

-----------------------------------------------------------------------------
(* POST /tickets/{id}/cancel, and the cancellation a failed payment asks for *)

Cancels == {"cancel", "refund"}

\* "refund" is the call with allowAfterEventStart = true.
CancelStart(r, op, u, t) ==
  /\ ticket[t].status # "absent"
  /\ Begin(r, [Idle EXCEPT !.op = op, !.pc = "ticket", !.user = u,
                           !.ticket = t, !.now = clock])
  /\ UNCHANGED <<event, ticket, evLock, tkLock, clock>>

\* SELECT ... WHERE id AND user_id FOR UPDATE: no such row, an already cancelled
\* one, or the lock of the row.
CancelLockTicket(r) ==
  LET t == req[r].ticket
      found == ticket[t].status \in TicketStatus /\ ticket[t].user = req[r].user
  IN
  /\ At(r, Cancels, "ticket")
  /\ found => tkLock[t] = None
  /\ \/ /\ found /\ ticket[t].status # "cancelled"
        /\ LockTicket(r, t)
        /\ req' = [req EXCEPT ![r] = [@ EXCEPT !.pc = "event", !.event = ticket[t].event]]
        /\ UNCHANGED <<event, ticket, evLock, clock>>
     \/ (~found \/ ticket[t].status = "cancelled") /\ Refuse(r)

\* Mutant: the event is read without FOR UPDATE.
CancelReadEvent(r) ==
  LET allowed == req[r].op = "refund" \/ event[req[r].event].starts > req[r].now IN
  /\ At(r, Cancels, "event")
  /\ \/ allowed /\ Goto(r, "recount") /\ UNCHANGED <<event, ticket, evLock, tkLock, clock>>
     \/ ~allowed /\ Refuse(r)

CancelLockEvent(r) ==
  LET e == req[r].event
      allowed == req[r].op = "refund" \/ event[e].starts > req[r].now
  IN
  /\ At(r, Cancels, "event")
  /\ evLock[e] = None
  /\ \/ /\ allowed
        /\ LockEvent(r, e)
        /\ Goto(r, "recount")
        /\ UNCHANGED <<event, ticket, tkLock, clock>>
     \/ ~allowed /\ Refuse(r)

\* Mutant: UPDATE tickets without AND status = 'active'.
CancelAnyStatus(r) ==
  /\ At(r, Cancels, "recount")
  /\ Counted(r, "commit", Occupied(req[r].event) \ {req[r].ticket})
  /\ UNCHANGED <<event, ticket, evLock, tkLock, clock>>

\* UPDATE tickets ... WHERE status = 'active' (a used pass matches no row and is
\* reported as already cancelled); then the recount reads the tickets.
CancelRecount(r) ==
  LET t == req[r].ticket IN
  /\ At(r, Cancels, "recount")
  /\ \/ /\ ticket[t].status = "active"
        /\ Counted(r, "commit", Occupied(req[r].event) \ {t})
        /\ UNCHANGED <<event, ticket, evLock, tkLock, clock>>
     \/ ticket[t].status # "active" /\ Refuse(r)

\* Mutant: the seat is given back by counting up instead of recounting.
CancelCountsUp(r) ==
  /\ At(r, Cancels, "commit")
  /\ ticket' = [ticket EXCEPT ![req[r].ticket].status = "cancelled"]
  /\ event' = [event EXCEPT ![req[r].event].avail = @ + 1]
  /\ End(r)
  /\ UNCHANGED clock

\* The recounted capacity_available and the cancelled ticket become visible.
CancelCommit(r) ==
  LET e == req[r].event IN
  /\ At(r, Cancels, "commit")
  /\ ticket' = [ticket EXCEPT ![req[r].ticket].status = "cancelled"]
  /\ event' = [event EXCEPT ![e].avail = SeatsLeft(event[e].total, req[r].count)]
  /\ End(r)
  /\ UNCHANGED clock

-----------------------------------------------------------------------------
(* POST /tickets/use *)

UseStart(r, t) ==
  /\ ticket[t].status # "absent"
  /\ Begin(r, [Idle EXCEPT !.op = "use", !.pc = "ticket", !.ticket = t, !.now = clock])
  /\ UNCHANGED <<event, ticket, evLock, tkLock, clock>>

\* Mutant: a check-in locks the event before the ticket.
UseLockEventFirst(r) ==
  LET t == req[r].ticket
      e == ticket[t].event
  IN
  /\ At(r, {"use"}, "ticket")
  /\ \/ /\ ticket[t].status = "active"
        /\ \/ evLock[e] = None /\ LockEvent(r, e) /\ UNCHANGED <<event, ticket, tkLock, req, clock>>
           \/ /\ evLock[e] = r /\ tkLock[t] = None
              /\ LockTicket(r, t)
              /\ req' = [req EXCEPT ![r] = [@ EXCEPT !.pc = "recount", !.event = e]]
              /\ UNCHANGED <<event, ticket, evLock, clock>>
     \/ ticket[t].status # "active" /\ Refuse(r)

UseLockTicket(r) ==
  LET t == req[r].ticket
      found == ticket[t].status \in TicketStatus
  IN
  /\ At(r, {"use"}, "ticket")
  /\ found => tkLock[t] = None
  /\ \/ /\ ticket[t].status = "active"
        /\ LockTicket(r, t)
        /\ req' = [req EXCEPT ![r] = [@ EXCEPT !.pc = "event", !.event = ticket[t].event]]
        /\ UNCHANGED <<event, ticket, evLock, clock>>
     \/ ticket[t].status # "active" /\ Refuse(r)

CheckInOpen(e, now) ==
  /\ event[e].status # "cancelled"
  /\ event[e].starts <= now
  /\ now <= EndInstant(e)

UseLockEvent(r) ==
  LET e == req[r].event IN
  /\ At(r, {"use"}, "event")
  /\ evLock[e] = None
  /\ \/ /\ CheckInOpen(e, req[r].now)
        /\ LockEvent(r, e)
        /\ Goto(r, "recount")
        /\ UNCHANGED <<event, ticket, tkLock, clock>>
     \/ ~CheckInOpen(e, req[r].now) /\ Refuse(r)

\* Mutant: the recount takes the pass just used for a free seat.
UseRecountActiveOnly(r) ==
  /\ At(r, {"use"}, "recount")
  /\ Counted(r, "commit", {t \in Occupied(req[r].event) \ {req[r].ticket} : ticket[t].status = "active"})
  /\ UNCHANGED <<event, ticket, evLock, tkLock, clock>>

UseRecount(r) ==
  /\ At(r, {"use"}, "recount")
  /\ Counted(r, "commit", Occupied(req[r].event))
  /\ UNCHANGED <<event, ticket, evLock, tkLock, clock>>

UseCommit(r) ==
  LET e == req[r].event
      t == req[r].ticket
  IN
  /\ At(r, {"use"}, "commit")
  /\ ticket' = [ticket EXCEPT ![t].status = IF @ = "active" THEN "used" ELSE @]
  /\ event' = [event EXCEPT ![e].avail = SeatsLeft(event[e].total, req[r].count)]
  /\ End(r)
  /\ UNCHANGED clock

-----------------------------------------------------------------------------
(* POST /events, and the decision of an admin on an event *)

Create(e, n) ==
  /\ event[e].status = "absent"
  /\ event' = [event EXCEPT ![e] =
       [status |-> "published", mod |-> "pending", total |-> n.total, avail |-> n.total,
        starts |-> n.starts, ends |-> n.ends]]
  /\ UNCHANGED <<ticket, evLock, tkLock, req, clock>>

\* One UPDATE: it waits for the row lock, then writes its own columns only.
Moderate(e, decision) ==
  /\ Exists(e)
  /\ evLock[e] = None
  /\ event' = [event EXCEPT ![e].mod = decision]
  /\ UNCHANGED <<ticket, evLock, tkLock, req, clock>>

-----------------------------------------------------------------------------
(* PUT /events/{id} *)

Patched(old, new) == IF new = None THEN old ELSE new

\* The handler reads the event and validates the patch against what it read.
UpdateStart(r, e, p) ==
  /\ Exists(e)
  /\ ValidWindow(Patched(event[e].starts, p.starts), Patched(event[e].ends, p.ends))
  /\ Begin(r, [Idle EXCEPT !.op = "update", !.pc = "statement", !.event = e, !.patch = p])
  /\ UNCHANGED <<event, ticket, evLock, tkLock, clock>>

\* The UPDATE takes its snapshot when it starts; the subquery that counts the
\* tickets keeps it, also when the statement then waits for the row lock.
UpdateSnapshot(r) ==
  /\ At(r, {"update"}, "statement")
  /\ Counted(r, "event", Occupied(req[r].event))
  /\ UNCHANGED <<event, ticket, evLock, tkLock, clock>>

\* With the lock, the statement re-reads the event row, not the tickets.
UpdateApply(r) ==
  LET e == req[r].event
      p == req[r].patch
      row == event[e]
  IN
  /\ At(r, {"update"}, "event")
  /\ evLock[e] = None
  /\ \/ /\ Exists(e)
        /\ event' = [event EXCEPT ![e] =
             [status |-> Patched(row.status, p.status), mod |-> row.mod,
              total |-> Patched(row.total, p.total),
              avail |-> IF p.total = None THEN row.avail ELSE SeatsLeft(p.total, req[r].count),
              starts |-> Patched(row.starts, p.starts), ends |-> Patched(row.ends, p.ends)]]
        /\ End(r)
        /\ UNCHANGED <<ticket, clock>>
     \/ ~Exists(e) /\ Refuse(r)

-----------------------------------------------------------------------------
(* DELETE /events/{id} *)

DeleteStart(r, e) ==
  /\ Exists(e)
  /\ Begin(r, [Idle EXCEPT !.op = "delete", !.pc = "event", !.event = e])
  /\ UNCHANGED <<event, ticket, evLock, tkLock, clock>>

\* Mutant: the tickets are collected before the event is locked.
DeleteWithoutLock(r) ==
  LET e == req[r].event IN
  /\ At(r, {"delete"}, "event")
  /\ \/ Exists(e) /\ Goto(r, "cascade") /\ UNCHANGED <<event, ticket, evLock, tkLock, clock>>
     \/ ~Exists(e) /\ Refuse(r)

DeleteLock(r) ==
  LET e == req[r].event IN
  /\ At(r, {"delete"}, "event")
  /\ evLock[e] = None
  /\ \/ Exists(e) /\ LockEvent(r, e) /\ Goto(r, "cascade")
        /\ UNCHANGED <<event, ticket, tkLock, clock>>
     \/ ~Exists(e) /\ Refuse(r)

\* ON DELETE CASCADE takes the ticket rows one at a time, in no set order.
DeleteCascade(r, t) ==
  /\ At(r, {"delete"}, "cascade")
  /\ t \in RowsOf(req[r].event)
  /\ tkLock[t] = None
  /\ LockTicket(r, t)
  /\ UNCHANGED <<event, ticket, evLock, req, clock>>

DeleteCommit(r) ==
  LET e == req[r].event IN
  /\ At(r, {"delete"}, "cascade")
  /\ \A t \in RowsOf(e) : tkLock[t] = r
  /\ event' = [event EXCEPT ![e].status = "deleted"]
  /\ ticket' = [t \in Tickets |->
       IF t \in RowsOf(e) THEN [ticket[t] EXCEPT !.status = "deleted"] ELSE ticket[t]]
  /\ End(r)
  /\ UNCHANGED clock

-----------------------------------------------------------------------------
(* Failures, the deadlock detector and time *)

\* The transaction ends without COMMIT: request timeout, client gone, connection
\* lost, process killed.
Abort(r) == req[r] # Idle /\ Refuse(r)

\* The requests that hold a row lock request r waits for.
Blockers(r) ==
  (CASE req[r].pc = "ticket"  -> {tkLock[req[r].ticket]}
     [] req[r].pc = "event"   -> {evLock[req[r].event]}
     [] req[r].pc = "cascade" -> {tkLock[t] : t \in RowsOf(req[r].event)}
     [] OTHER -> {}) \ {None, r}

\* PostgreSQL aborts one transaction of a wait cycle.
DetectDeadlock(r) ==
  /\ \E s \in Blockers(r) : r \in Blockers(s)
  /\ Refuse(r)

Tick == clock < MaxClock /\ clock' = clock + 1 /\ UNCHANGED <<event, ticket, evLock, tkLock, req>>

-----------------------------------------------------------------------------
Start(r) ==
  \/ \E u \in Users, e \in Events, t \in Tickets : RegisterStart(r, u, e, t)
  \/ \E op \in Cancels, u \in Users, t \in Tickets : CancelStart(r, op, u, t)
  \/ \E t \in Tickets : UseStart(r, t)
  \/ \E e \in Events, p \in Patches : UpdateStart(r, e, p)
  \/ \E e \in Events : DeleteStart(r, e)

\* A step of a handler that runs.
Step(r) ==
  \/ RegisterLock(r)     \/ RegisterCommit(r)
  \/ CancelLockTicket(r) \/ CancelLockEvent(r) \/ CancelRecount(r) \/ CancelCommit(r)
  \/ UseLockTicket(r)    \/ UseLockEvent(r)    \/ UseRecount(r)    \/ UseCommit(r)
  \/ UpdateSnapshot(r)   \/ UpdateApply(r)
  \/ DeleteLock(r)       \/ (\E t \in Tickets : DeleteCascade(r, t)) \/ DeleteCommit(r)
  \/ DetectDeadlock(r)

Next ==
  \/ \E r \in Reqs : Start(r) \/ Step(r) \/ Abort(r)
  \/ \E e \in Events, n \in NewEvents : Create(e, n)
  \/ \E e \in Events, d \in {"approved", "rejected"} : Moderate(e, d)
  \/ Tick

Spec == Init /\ [][Next]_vars

\* Row locks are queued first come, first served: a request that can get its lock
\* again and again gets it.  Nothing makes a client send a request.
FairSpec == Spec /\ \A r \in Reqs : SF_vars(Step(r))

-----------------------------------------------------------------------------
(* GET /tickets/my *)

\* Mutant: a pass expires at the start of its event.
ShownStatusByStart(t, now) ==
  IF ticket[t].status = "active" /\ now > event[ticket[t].event].starts
  THEN "expired" ELSE ticket[t].status

ShownStatus(t, now) ==
  IF ticket[t].status = "active" /\ now > EndInstant(ticket[t].event)
  THEN "expired" ELSE ticket[t].status

MyTickets(u, now) ==
  {[ticket |-> t, status |-> ShownStatus(t, now)] :
     t \in {s \in Tickets : ticket[s].user = u /\ ticket[s].status \in SeatStatus}}

-----------------------------------------------------------------------------
(* What the code is meant to guarantee *)

\* The seats as the ledger sees them: the rows, without the requests under way.
Ledger == INSTANCE SeatLedger WITH
  Students <- Users, Passes <- Tickets,
  Sizes <- {n.total : n \in NewEvents} \cup {p.total : p \in Patches},
  phase <- [e \in Events |-> CASE event[e].status = "absent" -> "none"
                               [] event[e].status = "deleted" -> "closed"
                               [] OTHER -> "open"],
  total <- [e \in Events |-> event[e].total],
  avail <- [e \in Events |-> event[e].avail],
  held <- [e \in Events |-> Occupied(e)],
  owner <- [t \in Tickets |-> IF ticket[t].status \in SeatStatus THEN ticket[t].user ELSE None],
  admitted <- {t \in Tickets : ticket[t].status = "used"}

\* The tables change as the ledger allows: each request takes effect at one
\* instant (its commit) or not at all.
ImplementsLedger == Ledger!LSpec

TypeOK ==
  /\ event \in [Events -> EventRow]
  /\ ticket \in [Tickets -> TicketRow]
  /\ evLock \in [Events -> Reqs \cup {None}]
  /\ tkLock \in [Tickets -> Reqs \cup {None}]
  /\ req \in [Reqs -> Request]
  /\ clock \in 0 .. MaxClock

\* capacity_available of an event is its capacity_total less the passes that
\* hold a seat, never below zero.
Exact(e) == event[e].avail = SeatsLeft(event[e].total, Cardinality(Occupied(e)))

\* The seat counter of every event agrees with the tickets (RegisterTicket counts
\* down, CancelTicket, UseTicketByQRHash and Update recount).
SeatsExact == \A e \in Events : Exists(e) => Exact(e)

\* No event has more active and used passes than seats.
NeverOversold ==
  \A e \in Events : Exists(e) => Cardinality(Occupied(e)) <= event[e].total

\* A student holds at most one active or used pass for an event, also when
\* re-registering after a cancellation races a registration.
OnePassPerStudent ==
  \A e \in Events : \A s, t \in Occupied(e) : ticket[s].user = ticket[t].user => s = t

\* Every ticket row belongs to an event row: a deletion takes along the tickets
\* that requests running meanwhile register, cancel or check in.
NoOrphanTicket ==
  \A t \in Tickets : ticket[t].status \in TicketStatus =>
    ticket[t].event \in Events /\ Exists(ticket[t].event)

\* Every commit still finds what the handler checked before: a pass is sold while
\* its event is published, approved and, at the time the request came in, not
\* started; an attendee cancels only before the start; a pass is checked in only
\* within the window of an event that is not cancelled.
CommitsHonourChecks ==
  [][\A r \in Reqs, t \in Tickets :
       (req[r].ticket = t /\ req[r].pc = "commit" /\ ticket'[t] # ticket[t]) =>
         LET e == req[r].event
             now == req[r].now
         IN
         /\ req[r].op = "register" =>
              event[e].status = "published" /\ event[e].mod = "approved" /\ now < event[e].starts
         /\ req[r].op = "cancel" => ticket[t].user = req[r].user /\ now < event[e].starts
         /\ req[r].op = "use" =>
              event[e].status # "cancelled" /\ event[e].starts <= now /\ now <= EndInstant(e)]_vars

\* A check-in admits only a pass that "my tickets" of its holder, read at the
\* time of the check-in, shows as active: the two places that compute the expiry agree.
AdmitsOnlyShownActive ==
  [][\A t \in Tickets : (ticket[t].status = "active" /\ ticket'[t].status = "used") =>
       \E r \in Reqs : /\ req[r].op = "use" /\ req[r].ticket = t
                       /\ [ticket |-> t, status |-> "active"] \in MyTickets(ticket[t].user, req[r].now)]_vars

\* A pass that was used or cancelled stays so; only the deletion of its event removes it.
PassesAreFinal ==
  [][\A t \in Tickets : ticket[t].status \in {"used", "cancelled", "deleted"} =>
       \/ ticket'[t] = ticket[t]
       \/ ticket'[t].status = "deleted" /\ ~Exists(ticket[t].event)']_vars

\* The UPDATE of a PUT that changes the capacity commits, with a count of the
\* tickets that is older than the row it writes to.
StalePut(r, e) ==
  /\ req[r].op = "update" /\ req[r].event = e /\ req[r].pc = "event" /\ req'[r] = Idle
  /\ req[r].patch.total # None
  /\ req[r].count # Cardinality(Occupied(e))
  /\ event'[e].avail = SeatsLeft(req[r].patch.total, req[r].count)

\* The seat counter of an event goes wrong in one way only: the step that breaks it
\* is the commit of a PUT that changes the capacity and whose count is outdated.
OnlyStalePutBreaksSeats ==
  [][\A e \in Events : (Exists(e) /\ Exact(e) /\ Exists(e)' /\ ~Exact(e)') =>
       \E r \in Reqs : StalePut(r, e)]_vars

\* Whatever happened before, every cancellation and every check-in that commits
\* leaves the seat counter of its event right.
RecountHeals ==
  [][\A r \in Reqs, e \in Events :
       (/\ req[r].op \in Cancels \cup {"use"} /\ req[r].pc = "commit" /\ req[r].event = e
        /\ ticket' # ticket /\ req'[r] = Idle) => Exact(e)']_vars

\* Requests wait for each other in a circle only when one of them deletes an
\* event (it locks the event first, then the tickets; all others the reverse).
DeadlockNeedsDelete ==
  \A r, s \in Reqs : (s \in Blockers(r) /\ r \in Blockers(s)) =>
    "delete" \in {req[r].op, req[s].op}

\* end_at stays after starts_at, whatever sequence of PUTs edits the event.
WindowsValid ==
  \A e \in Events : Exists(e) => ValidWindow(event[e].starts, event[e].ends)

\* Every request gets its answer: no lock is kept for ever and no wait is endless.
RequestsEnd == \A r \in Reqs : (req[r] # Idle) ~> (req[r] = Idle)

-----------------------------------------------------------------------------
(* Why it holds: the inductive invariant *)

Redeems == Cancels \cup {"use"}

\* The positions in which a handler holds the row lock of an event or of a ticket.
HoldsEvent(r, e) == req[r].event = e /\ req[r].pc \in {"recount", "cascade", "commit"}

HoldsTicket(r, t) ==
  /\ req[r].op \in Redeems /\ req[r].ticket = t
  /\ req[r].pc \in {"event", "recount", "commit"}

Cascading(r, t) ==
  /\ req[r].op = "delete" /\ req[r].pc = "cascade"
  /\ ticket[t].status \in TicketStatus /\ ticket[t].event = req[r].event

\* Each operation visits its own positions, with the arguments it needs.
RequestsFormed ==
  \A r \in Reqs :
    /\ req[r].op = "none" => req[r] = Idle
    /\ req[r].op = "register" =>
         /\ req[r].pc \in {"event", "commit"}
         /\ req[r].event \in Events /\ req[r].user \in Users /\ req[r].ticket \in Tickets
    /\ req[r].op \in Redeems =>
         /\ req[r].pc \in {"ticket", "event", "recount", "commit"}
         /\ req[r].ticket \in Tickets /\ (req[r].pc # "ticket" => req[r].event \in Events)
    /\ req[r].op = "update" =>
         /\ req[r].pc \in {"statement", "event"}
         /\ req[r].event \in Events /\ req[r].patch \in Patches
    /\ req[r].op = "delete" =>
         req[r].pc \in {"event", "cascade"} /\ req[r].event \in Events

\* A row lock is held by exactly the request whose position says so.
LocksMatchRequests ==
  /\ \A r \in Reqs, e \in Events : evLock[e] = r <=> HoldsEvent(r, e)
  /\ \A r \in Reqs, t \in Tickets : HoldsTicket(r, t) => tkLock[t] = r
  /\ \A r \in Reqs, t \in Tickets : tkLock[t] = r => HoldsTicket(r, t) \/ Cascading(r, t)

\* Under its lock a ticket keeps its event, its holder and the status the handler read.
LockedTicketsKept ==
  \A r \in Reqs, t \in Tickets : HoldsTicket(r, t) =>
    /\ ticket[t].event = req[r].event
    /\ req[r].op \in Cancels => ticket[t].user = req[r].user
    /\ ticket[t].status \in IF req[r].op = "use" \/ req[r].pc = "commit"
                            THEN {"active"} ELSE SeatStatus

\* A registration under way owns its payload.
PayloadsReserved ==
  \A r \in Reqs : req[r].op = "register" =>
    /\ ticket[req[r].ticket].status = "absent"
    /\ \A s \in Reqs : req[s].op = "register" /\ req[s].ticket = req[r].ticket => s = r

\* Between its recount and its commit, no other request changes what was counted.
CountsCurrent ==
  \A r \in Reqs, e \in Events : HoldsEvent(r, e) /\ req[r].pc = "commit" =>
    /\ req[r].op \in Cancels => req[r].count = Cardinality(Occupied(e) \ {req[r].ticket})
    /\ req[r].op = "use" => req[r].count = Cardinality(Occupied(e))

\* Under the lock of its event, what a handler checked stays true.
ChecksCurrent ==
  \A r \in Reqs, e \in Events : HoldsEvent(r, e) =>
    /\ Exists(e)
    /\ req[r].op = "register" => /\ event[e].status = "published" /\ event[e].mod = "approved"
                                 /\ event[e].starts > req[r].now
    /\ req[r].op = "cancel" => event[e].starts > req[r].now
    /\ req[r].op = "use" => CheckInOpen(e, req[r].now)

IInv == /\ TypeOK /\ RequestsFormed /\ LocksMatchRequests /\ LockedTicketsKept
        /\ PayloadsReserved /\ CountsCurrent /\ ChecksCurrent /\ NoOrphanTicket

=============================================================================
