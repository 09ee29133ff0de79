--------------------------- MODULE TicketingProofs ---------------------------
(***************************************************************************)
(* Theorems about Ticketing, for every number of students, events,         *)
(* tickets and connections, every set of patches and every clock bound.    *)
(***************************************************************************)
EXTENDS Ticketing, FiniteSetTheorems, TLAPS

-----------------------------------------------------------------------------
(* Types *)

LEMMA IdleTyped == Idle \in Request
  BY DEF Idle, Request, Ops, Pcs

LEMMA OccupiedFinite ==
  ASSUME NEW S \in SUBSET Tickets
  PROVE  IsFiniteSet(S) /\ Cardinality(S) \in Nat
  BY FiniteIds, FS_Subset, FS_CardinalityType

LEMMA OccupiedCount ==
  ASSUME NEW e, NEW t
  PROVE  /\ Cardinality(Occupied(e)) \in Nat
         /\ Cardinality(Occupied(e) \ {t}) \in Nat
  BY OccupiedFinite DEF Occupied

LEMMA SeatsLeftTyped ==
  ASSUME NEW n \in Nat, NEW k \in Nat
  PROVE  SeatsLeft(n, k) \in Nat /\ SeatsLeft(n, k) <= n
  BY DEF SeatsLeft

\* Releasing the locks of a request keeps the lock tables and the requests typed.
LEMMA EndTyped ==
  ASSUME TypeOK, NEW r \in Reqs, End(r)
  PROVE  /\ evLock' \in [Events -> Reqs \cup {None}]
         /\ tkLock' \in [Tickets -> Reqs \cup {None}]
         /\ req' \in [Reqs -> Request]
  BY IdleTyped DEF TypeOK, End

LEMMA RefuseTyped ==
  ASSUME TypeOK, NEW r \in Reqs, Refuse(r)
  PROVE  TypeOK'
  BY EndTyped DEF Refuse, TypeOK

\* A handler that moves on keeps the requests typed.
LEMMA CountedTyped ==
  ASSUME TypeOK, NEW r \in Reqs, NEW pc \in Pcs, NEW S \in SUBSET Tickets,
         Counted(r, pc, S), UNCHANGED <<event, ticket, evLock, tkLock, clock>>
  PROVE  TypeOK'
<1>1. Cardinality(S) \in Nat
  BY OccupiedFinite
<1>2. [req[r] EXCEPT !.pc = pc, !.count = Cardinality(S)] \in Request
  BY <1>1 DEF TypeOK, Request
<1> QED BY <1>2 DEF TypeOK, Counted

LEMMA AdvanceTyped ==
  ASSUME TypeOK, NEW r \in Reqs, NEW e, NEW pc \in Pcs,
         LockEvent(r, e), Goto(r, pc), UNCHANGED <<event, ticket, tkLock, clock>>
  PROVE  TypeOK'
<1>1. [req[r] EXCEPT !.pc = pc] \in Request
  BY DEF TypeOK, Request
<1>2. req' \in [Reqs -> Request]
  BY <1>1 DEF TypeOK, Goto
<1>3. evLock' \in [Events -> Reqs \cup {None}]
  BY DEF TypeOK, LockEvent
<1> QED BY <1>2, <1>3 DEF TypeOK

LEMMA StartTyped ==
  ASSUME TypeOK, NEW r \in Reqs, Start(r)
  PROVE  TypeOK'
<1>1. ASSUME NEW q \in Request, Begin(r, q), UNCHANGED <<event, ticket, evLock, tkLock, clock>>
      PROVE  TypeOK'
  BY <1>1 DEF TypeOK, Begin
<1>2. clock \in Nat
  BY ClockBound DEF TypeOK
<1>3. ASSUME NEW u \in Users, NEW e \in Events, NEW t \in Tickets, RegisterStart(r, u, e, t)
      PROVE  TypeOK'
  <2>1. [Idle EXCEPT !.op = "register", !.pc = "event", !.user = u,
                     !.event = e, !.ticket = t, !.now = clock] \in Request
    BY <1>2 DEF Idle, Request, Ops, Pcs
  <2> QED BY <1>1, <1>3, <2>1 DEF RegisterStart
<1>4. ASSUME NEW op \in Cancels, NEW u \in Users, NEW t \in Tickets, CancelStart(r, op, u, t)
      PROVE  TypeOK'
  <2>1. [Idle EXCEPT !.op = op, !.pc = "ticket", !.user = u,
                     !.ticket = t, !.now = clock] \in Request
    BY <1>2 DEF Idle, Request, Ops, Pcs, Cancels
  <2> QED BY <1>1, <1>4, <2>1 DEF CancelStart
<1>5. ASSUME NEW t \in Tickets, UseStart(r, t) PROVE TypeOK'
  <2>1. [Idle EXCEPT !.op = "use", !.pc = "ticket", !.ticket = t, !.now = clock] \in Request
    BY <1>2 DEF Idle, Request, Ops, Pcs
  <2> QED BY <1>1, <1>5, <2>1 DEF UseStart
<1>6. ASSUME NEW e \in Events, NEW p \in Patches, UpdateStart(r, e, p) PROVE TypeOK'
  <2>1. [Idle EXCEPT !.op = "update", !.pc = "statement", !.event = e, !.patch = p] \in Request
    BY DEF Idle, Request, Ops, Pcs
  <2> QED BY <1>1, <1>6, <2>1 DEF UpdateStart
<1>7. ASSUME NEW e \in Events, DeleteStart(r, e) PROVE TypeOK'
  <2>1. [Idle EXCEPT !.op = "delete", !.pc = "event", !.event = e] \in Request
    BY DEF Idle, Request, Ops, Pcs
  <2> QED BY <1>1, <1>7, <2>1 DEF DeleteStart
<1> QED BY <1>3, <1>4, <1>5, <1>6, <1>7 DEF Start

LEMMA RegisterTyped ==
  ASSUME TypeOK, RequestsFormed, NEW r \in Reqs, RegisterLock(r) \/ RegisterCommit(r)
  PROVE  TypeOK'
<1>1. CASE RegisterLock(r)
  <2>1. "commit" \in Pcs
    BY DEF Pcs
  <2> QED BY <1>1, <2>1, AdvanceTyped, RefuseTyped DEF RegisterLock
<1>2. CASE RegisterCommit(r)
  <2> DEFINE e == req[r].event
             t == req[r].ticket
  <2>1. e \in Events /\ t \in Tickets /\ req[r].user \in Users
    BY <1>2 DEF RegisterCommit, RequestsFormed, At
  <2>2. CASE ~HasSeat(req[r].user, e) /\ event[e].avail > 0 /\ ~Refuse(r)
    <3>1. event' \in [Events -> EventRow]
      <4>1. event' = [event EXCEPT ![e].avail = @ - 1]
        BY <1>2, <2>2 DEF RegisterCommit
      <4>2. event[e] \in EventRow /\ event[e].avail - 1 \in Nat
        BY <2>1, <2>2 DEF TypeOK, EventRow
      <4>3. [event[e] EXCEPT !.avail = @ - 1] \in EventRow
        BY <4>2 DEF EventRow
      <4> QED BY <2>1, <4>1, <4>3 DEF TypeOK
    <3>2. ticket' \in [Tickets -> TicketRow]
      BY <1>2, <2>1, <2>2 DEF RegisterCommit, TypeOK, TicketRow, TicketStatus, SeatStatus
    <3> QED BY <1>2, <2>2, <3>1, <3>2, EndTyped DEF RegisterCommit, TypeOK
  <2> QED BY <1>2, <2>2, RefuseTyped DEF RegisterCommit
<1> QED BY <1>1, <1>2

LEMMA RedeemTyped ==
  ASSUME TypeOK, RequestsFormed, NEW r \in Reqs,
         \/ CancelLockTicket(r) \/ CancelLockEvent(r) \/ CancelRecount(r) \/ CancelCommit(r)
         \/ UseLockTicket(r) \/ UseLockEvent(r) \/ UseRecount(r) \/ UseCommit(r)
  PROVE  TypeOK'
<1> DEFINE e == req[r].event
           t == req[r].ticket
<1>1. req[r].op \in Redeems => t \in Tickets /\ (req[r].pc # "ticket" => e \in Events)
  BY DEF RequestsFormed
<1>2. CASE CancelLockTicket(r) \/ UseLockTicket(r)
  <2>1. t \in Tickets
    BY <1>1, <1>2 DEF CancelLockTicket, UseLockTicket, At, Redeems, Cancels
  <2>2. ticket[t].event \in Events \cup {None}
    BY <2>1 DEF TypeOK, TicketRow
  <2>3. CASE /\ req' = [req EXCEPT ![r] = [@ EXCEPT !.pc = "event", !.event = ticket[t].event]]
             /\ LockTicket(r, t) /\ UNCHANGED <<event, ticket, evLock, clock>>
    <3>1. req[r] \in Request
      BY DEF TypeOK
    <3>2. [req[r] EXCEPT !.pc = "event", !.event = ticket[t].event] \in Request
      BY <2>2, <3>1 DEF Request, Pcs
    <3> QED BY <2>3, <3>2 DEF TypeOK, LockTicket
  <2> QED BY <1>2, <2>3, RefuseTyped DEF CancelLockTicket, UseLockTicket
<1>3. CASE CancelLockEvent(r) \/ UseLockEvent(r)
  <2>1. "recount" \in Pcs
    BY DEF Pcs
  <2> QED BY <1>3, <2>1, AdvanceTyped, RefuseTyped DEF CancelLockEvent, UseLockEvent
<1>4. CASE CancelRecount(r) \/ UseRecount(r)
  <2>1. "commit" \in Pcs /\ Occupied(e) \in SUBSET Tickets /\ Occupied(e) \ {t} \in SUBSET Tickets
    BY DEF Occupied, Pcs
  <2> QED BY <1>4, <2>1, CountedTyped, RefuseTyped DEF CancelRecount, UseRecount
<1>5. CASE CancelCommit(r) \/ UseCommit(r)
  <2>1. t \in Tickets /\ e \in Events
    BY <1>1, <1>5 DEF CancelCommit, UseCommit, At, Redeems, Cancels
  <2>2. ticket' \in [Tickets -> TicketRow]
    <3>1. ASSUME NEW s \in TicketStatus, ticket' = [ticket EXCEPT ![t].status = s]
          PROVE  ticket' \in [Tickets -> TicketRow]
      BY <2>1, <3>1 DEF TypeOK, TicketRow
    <3>2. CASE CancelCommit(r)
      BY <3>1, <3>2 DEF CancelCommit, TicketStatus
    <3>3. CASE UseCommit(r)
      <4>2. ticket' = [ticket EXCEPT ![t].status = "used"] \/ ticket' = ticket
        BY <2>1, <3>3 DEF UseCommit, TypeOK, TicketRow
      <4> QED BY <3>1, <4>2 DEF TypeOK, TicketStatus, SeatStatus
    <3> QED BY <1>5, <3>2, <3>3
  <2>3. SeatsLeft(event[e].total, req[r].count) \in Nat
    BY <2>1, SeatsLeftTyped DEF TypeOK, EventRow, Request
  <2>4. event' \in [Events -> EventRow]
    <3>1. event' = [event EXCEPT ![e].avail = SeatsLeft(event[e].total, req[r].count)]
      BY <1>5 DEF CancelCommit, UseCommit
    <3>2. event[e] \in EventRow
      BY <2>1 DEF TypeOK
    <3>3. [event[e] EXCEPT !.avail = SeatsLeft(event[e].total, req[r].count)] \in EventRow
      BY <2>3, <3>2 DEF EventRow
    <3> QED BY <2>1, <3>1, <3>3 DEF TypeOK
  <2> QED BY <1>5, <2>2, <2>4, EndTyped DEF CancelCommit, UseCommit, TypeOK
<1> QED BY <1>2, <1>3, <1>4, <1>5

LEMMA UpdateTyped ==
  ASSUME TypeOK, RequestsFormed, NEW r \in Reqs, UpdateSnapshot(r) \/ UpdateApply(r)
  PROVE  TypeOK'
<1>1. CASE UpdateSnapshot(r)
  <2>1. "event" \in Pcs /\ Occupied(req[r].event) \in SUBSET Tickets
    BY DEF Occupied, Pcs
  <2> QED BY <1>1, <2>1, CountedTyped DEF UpdateSnapshot
<1>2. CASE UpdateApply(r)
  <2> DEFINE e == req[r].event
             p == req[r].patch
  <2>1. e \in Events /\ p \in Patches
    BY <1>2 DEF UpdateApply, At, RequestsFormed
  <2>2. p \in PatchType
    BY <2>1, BodiesTyped
  <2>3. event[e] \in EventRow /\ req[r].count \in Nat
    BY <2>1 DEF TypeOK, Request
  <2>4. p.total # None => SeatsLeft(p.total, req[r].count) \in Nat
    BY <2>2, <2>3, SeatsLeftTyped DEF PatchType
  <2>5. [status |-> Patched(event[e].status, p.status), mod |-> event[e].mod,
         total |-> Patched(event[e].total, p.total),
         avail |-> IF p.total = None THEN event[e].avail ELSE SeatsLeft(p.total, req[r].count),
         starts |-> Patched(event[e].starts, p.starts),
         ends |-> Patched(event[e].ends, p.ends)] \in EventRow
    BY <2>2, <2>3, <2>4 DEF PatchType, EventRow, Patched
  <2> QED BY <1>2, <2>1, <2>5, EndTyped, RefuseTyped DEF UpdateApply, TypeOK
<1> QED BY <1>1, <1>2

LEMMA DeleteTyped ==
  ASSUME TypeOK, RequestsFormed, NEW r \in Reqs,
         DeleteLock(r) \/ (\E t \in Tickets : DeleteCascade(r, t)) \/ DeleteCommit(r)
  PROVE  TypeOK'
<1>1. CASE DeleteLock(r)
  <2>1. "cascade" \in Pcs
    BY DEF Pcs
  <2> QED BY <1>1, <2>1, AdvanceTyped, RefuseTyped DEF DeleteLock
<1>2. ASSUME NEW t \in Tickets, DeleteCascade(r, t) PROVE TypeOK'
  BY <1>2 DEF DeleteCascade, TypeOK, LockTicket
<1>3. CASE DeleteCommit(r)
  <2>1. event' \in [Events -> EventRow]
    <3>1. req[r].event \in Events
      BY <1>3 DEF DeleteCommit, At, RequestsFormed
    <3> QED BY <1>3, <3>1 DEF DeleteCommit, TypeOK, EventRow
  <2>2. ticket' \in [Tickets -> TicketRow]
    <3>1. \A t \in Tickets : [ticket[t] EXCEPT !.status = "deleted"] \in TicketRow
      BY DEF TypeOK, TicketRow
    <3> QED BY <1>3, <3>1 DEF DeleteCommit, TypeOK
  <2> QED BY <1>3, <2>1, <2>2, EndTyped DEF DeleteCommit, TypeOK
<1> QED BY <1>1, <1>2, <1>3

LEMMA TablesTyped ==
  ASSUME TypeOK,
         \/ \E e \in Events, n \in NewEvents : Create(e, n)
         \/ \E e \in Events, d \in {"approved", "rejected"} : Moderate(e, d)
         \/ Tick
  PROVE  TypeOK'
<1>1. ASSUME NEW e \in Events, NEW n \in NewEvents, Create(e, n) PROVE TypeOK'
  <2>1. n \in NewEventType
    BY BodiesTyped
  <2> QED BY <1>1, <2>1 DEF Create, TypeOK, EventRow, NewEventType, EventStatus
<1>2. ASSUME NEW e \in Events, NEW d \in {"approved", "rejected"}, Moderate(e, d) PROVE TypeOK'
  BY <1>2 DEF Moderate, TypeOK, EventRow
<1>3. CASE Tick
  BY <1>3, ClockBound DEF Tick, TypeOK
<1> QED BY <1>1, <1>2, <1>3

LEMMA NextTyped ==
  ASSUME TypeOK, RequestsFormed, [Next]_vars
  PROVE  TypeOK'
<1>1. ASSUME NEW r \in Reqs, Step(r) PROVE TypeOK'
  BY <1>1, RegisterTyped, RedeemTyped, UpdateTyped, DeleteTyped, RefuseTyped
     DEF Step, DetectDeadlock
<1>2. ASSUME NEW r \in Reqs, Abort(r) PROVE TypeOK'
  BY <1>2, RefuseTyped DEF Abort
<1>3. CASE UNCHANGED vars
  BY <1>3 DEF vars, TypeOK
<1> QED BY <1>1, <1>2, <1>3, StartTyped, TablesTyped DEF Next

-----------------------------------------------------------------------------
(* The inductive invariant *)

LEMMA InitInv == Init => IInv
<1> SUFFICES ASSUME Init PROVE IInv
  OBVIOUS
<1>1. TypeOK
  BY IdleTyped, ClockBound
     DEF Init, TypeOK, EventRow, TicketRow, NoEventRow, NoTicketRow
<1>2. /\ RequestsFormed /\ LocksMatchRequests /\ LockedTicketsKept /\ PayloadsReserved
      /\ CountsCurrent /\ ChecksCurrent
  BY FiniteIds DEF Init, Idle, RequestsFormed, LocksMatchRequests, LockedTicketsKept, PayloadsReserved,
     CountsCurrent, ChecksCurrent, HoldsEvent, HoldsTicket, Cascading, Redeems, Cancels
<1>3. NoOrphanTicket
  BY DEF Init, NoOrphanTicket, NoTicketRow, TicketStatus, SeatStatus
<1> QED BY <1>1, <1>2, <1>3 DEF IInv

\* What does not touch the tickets of an event does not change its count.
LEMMA SameSeats ==
  ASSUME UNCHANGED ticket
  PROVE  \A e : Occupied(e)' = Occupied(e)
  BY DEF Occupied

\* A handler that gives up leaves the invariant to the others.
LEMMA RefuseInv ==
  ASSUME IInv, NEW r \in Reqs, Refuse(r)
  PROVE  IInv'
<1>1. TypeOK'
  BY RefuseTyped DEF IInv
<1>2. RequestsFormed'
  BY DEF IInv, TypeOK, RequestsFormed, Refuse, End, Idle, Redeems, Cancels
<1>3. LocksMatchRequests'
  <2> USE FiniteIds DEF IInv, TypeOK, Refuse, End, Idle
  <2>1. \A s \in Reqs, e \in Events : (evLock[e] = s <=> HoldsEvent(s, e))'
    BY DEF LocksMatchRequests, HoldsEvent
  <2>2. \A s \in Reqs, t \in Tickets : (HoldsTicket(s, t) => tkLock[t] = s)'
    BY DEF LocksMatchRequests, HoldsTicket, Redeems, Cancels
  <2>3. \A s \in Reqs, t \in Tickets : (tkLock[t] = s => HoldsTicket(s, t) \/ Cascading(s, t))'
    BY DEF LocksMatchRequests, HoldsTicket, Cascading
  <2> QED BY <2>1, <2>2, <2>3 DEF LocksMatchRequests
<1>4. LockedTicketsKept' /\ PayloadsReserved'
  BY DEF IInv, TypeOK, LockedTicketsKept, PayloadsReserved, Refuse, End, Idle, HoldsTicket,
         Redeems, Cancels
<1>5. CountsCurrent'
  <2>1. req'[r].pc = "idle" /\ \A s \in Reqs : s # r => req'[s] = req[s]
    BY DEF IInv, TypeOK, Refuse, End, Idle
  <2>2. \A e : Occupied(e)' = Occupied(e)
    BY SameSeats DEF Refuse
  <2> QED BY <2>1, <2>2 DEF IInv, CountsCurrent, HoldsEvent
<1>6. ChecksCurrent' /\ NoOrphanTicket'
  BY DEF IInv, TypeOK, ChecksCurrent, NoOrphanTicket, Refuse, End, Idle, HoldsEvent, Exists,
         CheckInOpen, EndInstant
<1> QED BY <1>1, <1>2, <1>3, <1>4, <1>5, <1>6 DEF IInv

\* A handler that starts holds no lock and has counted and checked nothing yet.
LEMMA BeginInv ==
  ASSUME IInv, NEW r \in Reqs, NEW q \in Request, Begin(r, q),
         UNCHANGED <<event, ticket, evLock, tkLock, clock>>,
         q.pc \in {"ticket", "event", "statement"},
         q.op \in Redeems => q.pc = "ticket"
  PROVE  LocksMatchRequests' /\ LockedTicketsKept' /\ CountsCurrent' /\ ChecksCurrent'
         /\ NoOrphanTicket'
<1>1. req[r] = Idle /\ req' = [req EXCEPT ![r] = q]
  BY DEF Begin
<1>2. LocksMatchRequests'
  <2> USE <1>1 DEF IInv, TypeOK, Idle
  <2>1. \A s \in Reqs, e \in Events : (evLock[e] = s <=> HoldsEvent(s, e))'
    BY DEF LocksMatchRequests, HoldsEvent
  <2>2. \A s \in Reqs, t \in Tickets : (HoldsTicket(s, t) => tkLock[t] = s)'
    BY DEF LocksMatchRequests, HoldsTicket
  <2>3. \A s \in Reqs, t \in Tickets : (tkLock[t] = s => HoldsTicket(s, t) \/ Cascading(s, t))'
    BY DEF LocksMatchRequests, HoldsTicket, Cascading, Redeems, Cancels
  <2> QED BY <2>1, <2>2, <2>3 DEF LocksMatchRequests
<1>3. LockedTicketsKept'
  BY <1>1 DEF IInv, TypeOK, LockedTicketsKept, HoldsTicket
<1>4. CountsCurrent'
  <2>1. req'[r].pc # "commit" /\ \A s \in Reqs : s # r => req'[s] = req[s]
    BY <1>1 DEF IInv, TypeOK
  <2>2. \A e : Occupied(e)' = Occupied(e)
    BY SameSeats
  <2> QED BY <2>1, <2>2 DEF IInv, CountsCurrent, HoldsEvent
<1>5. ChecksCurrent' /\ NoOrphanTicket'
  BY <1>1 DEF IInv, TypeOK, ChecksCurrent, NoOrphanTicket, HoldsEvent, Exists, CheckInOpen,
     EndInstant
<1> QED BY <1>2, <1>3, <1>4, <1>5

LEMMA StartInv ==
  ASSUME IInv, NEW r \in Reqs, Start(r)
  PROVE  IInv'
<1>1. TypeOK'
  BY StartTyped DEF IInv
<1>2. clock \in Nat
  BY ClockBound DEF IInv, TypeOK
<1>3. ASSUME NEW u \in Users, NEW e \in Events, NEW t \in Tickets, RegisterStart(r, u, e, t)
      PROVE  IInv'
  <2> DEFINE q == [Idle EXCEPT !.op = "register", !.pc = "event", !.user = u,
                               !.event = e, !.ticket = t, !.now = clock]
  <2>1. q \in Request /\ q.pc = "event" /\ q.op = "register" /\ q.op \notin Redeems
    BY <1>2 DEF Idle, Request, Ops, Pcs, Redeems, Cancels
  <2>2. Begin(r, q) /\ UNCHANGED <<event, ticket, evLock, tkLock, clock>>
    BY <1>3 DEF RegisterStart
  <2>3. RequestsFormed' /\ PayloadsReserved'
    BY <1>3 DEF RegisterStart, Begin, IInv, TypeOK, RequestsFormed, PayloadsReserved, Idle,
       Redeems, Cancels
  <2> QED BY <1>1, <2>1, <2>2, <2>3, BeginInv DEF IInv
<1>4. ASSUME NEW op \in Cancels, NEW u \in Users, NEW t \in Tickets, CancelStart(r, op, u, t)
      PROVE  IInv'
  <2> DEFINE q == [Idle EXCEPT !.op = op, !.pc = "ticket", !.user = u,
                               !.ticket = t, !.now = clock]
  <2>1. q \in Request /\ q.pc = "ticket" /\ q.op = op
    BY <1>2 DEF Idle, Request, Ops, Pcs, Cancels
  <2>2. Begin(r, q) /\ UNCHANGED <<event, ticket, evLock, tkLock, clock>>
    BY <1>4 DEF CancelStart
  <2>3. RequestsFormed' /\ PayloadsReserved'
    BY <1>4 DEF CancelStart, Begin, IInv, TypeOK, RequestsFormed, PayloadsReserved, Idle,
       Redeems, Cancels
  <2> QED BY <1>1, <2>1, <2>2, <2>3, BeginInv DEF IInv
<1>5. ASSUME NEW t \in Tickets, UseStart(r, t) PROVE IInv'
  <2> DEFINE q == [Idle EXCEPT !.op = "use", !.pc = "ticket", !.ticket = t, !.now = clock]
  <2>1. q \in Request /\ q.pc = "ticket" /\ q.op = "use"
    BY <1>2 DEF Idle, Request, Ops, Pcs
  <2>2. Begin(r, q) /\ UNCHANGED <<event, ticket, evLock, tkLock, clock>>
    BY <1>5 DEF UseStart
  <2>3. RequestsFormed' /\ PayloadsReserved'
    BY <1>5 DEF UseStart, Begin, IInv, TypeOK, RequestsFormed, PayloadsReserved, Idle,
       Redeems, Cancels
  <2> QED BY <1>1, <2>1, <2>2, <2>3, BeginInv DEF IInv
<1>6. ASSUME NEW e \in Events, NEW p \in Patches, UpdateStart(r, e, p) PROVE IInv'
  <2> DEFINE q == [Idle EXCEPT !.op = "update", !.pc = "statement", !.event = e, !.patch = p]
  <2>1. q \in Request /\ q.pc = "statement" /\ q.op = "update" /\ q.op \notin Redeems
    BY DEF Idle, Request, Ops, Pcs, Redeems, Cancels
  <2>2. Begin(r, q) /\ UNCHANGED <<event, ticket, evLock, tkLock, clock>>
    BY <1>6 DEF UpdateStart
  <2>3. RequestsFormed' /\ PayloadsReserved'
    BY <1>6 DEF UpdateStart, Begin, IInv, TypeOK, RequestsFormed, PayloadsReserved, Idle,
       Redeems, Cancels
  <2> QED BY <1>1, <2>1, <2>2, <2>3, BeginInv DEF IInv
<1>7. ASSUME NEW e \in Events, DeleteStart(r, e) PROVE IInv'
  <2> DEFINE q == [Idle EXCEPT !.op = "delete", !.pc = "event", !.event = e]
  <2>1. q \in Request /\ q.pc = "event" /\ q.op = "delete" /\ q.op \notin Redeems
    BY DEF Idle, Request, Ops, Pcs, Redeems, Cancels
  <2>2. Begin(r, q) /\ UNCHANGED <<event, ticket, evLock, tkLock, clock>>
    BY <1>7 DEF DeleteStart
  <2>3. RequestsFormed' /\ PayloadsReserved'
    BY <1>7 DEF DeleteStart, Begin, IInv, TypeOK, RequestsFormed, PayloadsReserved, Idle,
       Redeems, Cancels
  <2> QED BY <1>1, <2>1, <2>2, <2>3, BeginInv DEF IInv
<1> QED BY <1>3, <1>4, <1>5, <1>6, <1>7 DEF Start

\* A request that takes a free lock: nobody held it, so the other positions stand.
LEMMA RegisterLockInv ==
  ASSUME IInv, NEW r \in Reqs, RegisterLock(r)
  PROVE  IInv'
<1> DEFINE e == req[r].event
<1>1. CASE Refuse(r)
  BY <1>1, RefuseInv
<1>2. CASE /\ RegistrationOpen(e, req[r].now) /\ LockEvent(r, e) /\ Goto(r, "commit")
           /\ UNCHANGED <<event, ticket, tkLock, clock>>
  <2>1. /\ e \in Events /\ evLock[e] = None /\ req[r].op = "register" /\ req[r].pc = "event"
        /\ evLock' = [evLock EXCEPT ![e] = r] /\ req' = [req EXCEPT ![r].pc = "commit"]
    BY <1>2 DEF RegisterLock, At, IInv, RequestsFormed, LockEvent, Goto
  <2>2. TypeOK'
    BY RegisterTyped DEF IInv
  <2>3. RequestsFormed' /\ PayloadsReserved'
    BY <1>2, <2>1 DEF IInv, TypeOK, RequestsFormed, PayloadsReserved, Request, Redeems, Cancels, Idle
  <2>4. LocksMatchRequests'
    BY <1>2, <2>1, FiniteIds DEF IInv, TypeOK, Request, LocksMatchRequests, HoldsEvent, HoldsTicket, Cascading,
       Redeems, Cancels
  <2>5. LockedTicketsKept'
    BY <1>2, <2>1 DEF IInv, TypeOK, Request, LockedTicketsKept, HoldsTicket, Redeems, Cancels
  <2>6. CountsCurrent'
    <3>1. \A s \in Reqs \ {r} : req'[s] = req[s]
      BY <2>1 DEF IInv, TypeOK
    <3>2. req'[r].op = "register"
      BY <2>1 DEF IInv, TypeOK, Request
    <3> QED BY <1>2, <3>1, <3>2, SameSeats DEF IInv, CountsCurrent, HoldsEvent, Cancels
  <2>7. ChecksCurrent' /\ NoOrphanTicket'
    BY <1>2, <2>1 DEF IInv, TypeOK, Request, ChecksCurrent, NoOrphanTicket, HoldsEvent, Exists,
       CheckInOpen, EndInstant, RegistrationOpen, EventStatus
  <2> QED BY <2>2, <2>3, <2>4, <2>5, <2>6, <2>7 DEF IInv
<1> QED BY <1>1, <1>2 DEF RegisterLock

\* End releases the locks of its request and no other.
LEMMA EndLocks ==
  ASSUME IInv, NEW r \in Reqs, End(r)
  PROVE  /\ \A s \in Reqs, e \in Events : evLock'[e] = s <=> s # r /\ evLock[e] = s
         /\ \A s \in Reqs, t \in Tickets : tkLock'[t] = s <=> s # r /\ tkLock[t] = s
         /\ \A s \in Reqs \ {r} : req'[s] = req[s]
         /\ req'[r] = Idle
  BY FiniteIds DEF End, IInv, TypeOK

\* The new pass takes an absent id, so no lock and no count of another event is about it.
LEMMA RegisterCommitInv ==
  ASSUME IInv, NEW r \in Reqs, RegisterCommit(r)
  PROVE  IInv'
<1> DEFINE e == req[r].event
           t == req[r].ticket
           u == req[r].user
<1>1. CASE Refuse(r)
  BY <1>1, RefuseInv
<1>2. CASE /\ ticket' = [ticket EXCEPT ![t] = [status |-> "active", event |-> e, user |-> u]]
           /\ event' = [event EXCEPT ![e].avail = @ - 1]
           /\ End(r) /\ UNCHANGED clock
  <2>1. /\ e \in Events /\ t \in Tickets /\ u \in Users
        /\ req[r].op = "register" /\ req[r].pc = "commit"
        /\ HoldsEvent(r, e) /\ evLock[e] = r /\ ticket[t].status = "absent"
    BY DEF RegisterCommit, At, IInv, RequestsFormed, HoldsEvent, LocksMatchRequests,
       PayloadsReserved
  <2>2. /\ \A s \in Reqs \ {r} : req'[s] = req[s]
        /\ req'[r] = Idle
        /\ \A x \in Tickets \ {t} : ticket'[x] = ticket[x]
        /\ ticket'[t] = [status |-> "active", event |-> e, user |-> u]
        /\ \A f \in Events : /\ event'[f].status = event[f].status
                             /\ event'[f].mod = event[f].mod
                             /\ event'[f].starts = event[f].starts
                             /\ event'[f].ends = event[f].ends
    BY <1>2, <2>1 DEF End, IInv, TypeOK, EventRow
  <2>3. TypeOK'
    BY RegisterTyped DEF IInv
  <2>4. RequestsFormed'
    BY <2>2 DEF IInv, RequestsFormed, Idle, Redeems, Cancels
  <2>5. LocksMatchRequests'
    <3>1. \A s \in Reqs : tkLock[t] # s
      BY <2>1 DEF IInv, LocksMatchRequests, LockedTicketsKept, Cascading, TicketStatus, SeatStatus
    <3>2. \A s \in Reqs, f \in Events : HoldsEvent(s, f)' <=> s # r /\ HoldsEvent(s, f)
      BY <2>2 DEF HoldsEvent, Idle
    <3>3. \A s \in Reqs, x \in Tickets : HoldsTicket(s, x)' <=> s # r /\ HoldsTicket(s, x)
      BY <2>1, <2>2 DEF HoldsTicket, Idle, Redeems, Cancels
    <3>4. \A s \in Reqs, x \in Tickets \ {t} : s # r /\ Cascading(s, x) => Cascading(s, x)'
      BY <2>2 DEF Cascading
    <3> QED BY <1>2, <3>1, <3>2, <3>3, <3>4, EndLocks DEF IInv, LocksMatchRequests
  <2>6. LockedTicketsKept'
    <3>1. ASSUME NEW s \in Reqs, HoldsTicket(s, t) PROVE FALSE
      BY <3>1, <2>1 DEF IInv, LockedTicketsKept, SeatStatus
    <3> QED BY <2>2, <3>1 DEF IInv, LockedTicketsKept, HoldsTicket, Idle, Redeems, Cancels
  <2>7. PayloadsReserved'
    <3>1. ASSUME NEW s \in Reqs, req'[s].op = "register"
          PROVE  s # r /\ req[s] = req'[s] /\ req'[s].ticket # t /\ req'[s].ticket \in Tickets
      BY <3>1, <2>1, <2>2 DEF Idle, IInv, PayloadsReserved, RequestsFormed
    <3> QED BY <3>1, <2>2 DEF IInv, PayloadsReserved
  <2>8. \A f \in Events : f # e => Occupied(f)' = Occupied(f)
    BY <2>1, <2>2 DEF Occupied, SeatStatus
  <2>9. CountsCurrent'
    <3>1. ASSUME NEW s \in Reqs, NEW f \in Events, HoldsEvent(s, f)'
          PROVE  s # r /\ f # e /\ HoldsEvent(s, f)
      BY <3>1, <2>1, <2>2 DEF HoldsEvent, Idle, IInv, LocksMatchRequests
    <3> QED BY <3>1, <2>2, <2>8 DEF IInv, CountsCurrent
  <2>10. Exists(e)
    BY <2>1 DEF IInv, ChecksCurrent
  <2>11. \A f \in Events : Exists(f)' = Exists(f)
    BY <2>2 DEF Exists
  <2>12. ChecksCurrent'
    <3>1. ASSUME NEW s \in Reqs, NEW f \in Events, HoldsEvent(s, f)'
          PROVE  s # r /\ HoldsEvent(s, f)
      BY <3>1, <2>2 DEF HoldsEvent, Idle
    <3>2. \A f \in Events : \A now : CheckInOpen(f, now)' = CheckInOpen(f, now)
      BY <2>2 DEF CheckInOpen, EndInstant
    <3> QED BY <3>1, <3>2, <2>2, <2>11 DEF IInv, ChecksCurrent
  <2>13. NoOrphanTicket'
    BY <2>1, <2>2, <2>10, <2>11 DEF IInv, NoOrphanTicket
  <2> QED BY <2>3, <2>4, <2>5, <2>6, <2>7, <2>9, <2>12, <2>13 DEF IInv
<1> QED BY <1>1, <1>2 DEF RegisterCommit

LEMMA LockTicketInv ==
  ASSUME IInv, NEW r \in Reqs, CancelLockTicket(r) \/ UseLockTicket(r)
  PROVE  IInv'
<1> DEFINE t == req[r].ticket
<1>1. CASE Refuse(r)
  BY <1>1, RefuseInv
<1>2. CASE ~Refuse(r)
  <2>1. /\ t \in Tickets /\ req[r].op \in Redeems /\ req[r].pc = "ticket"
        /\ tkLock[t] = None
        /\ ticket[t].status \in SeatStatus
        /\ req[r].op = "use" => ticket[t].status = "active"
        /\ req[r].op \in Cancels => ticket[t].user = req[r].user
        /\ tkLock' = [tkLock EXCEPT ![t] = r]
        /\ req' = [req EXCEPT ![r] = [@ EXCEPT !.pc = "event", !.event = ticket[t].event]]
        /\ UNCHANGED <<event, ticket, evLock, clock>>
    BY <1>2 DEF CancelLockTicket, UseLockTicket, At, IInv, RequestsFormed, LockTicket, Redeems,
       Cancels, TicketStatus, SeatStatus
  <2>2. TypeOK'
    BY RedeemTyped DEF IInv
  <2>3. ticket[t].event \in Events
    BY <2>1 DEF IInv, NoOrphanTicket, TicketStatus
  <2>4. /\ \A s \in Reqs \ {r} : req'[s] = req[s]
        /\ req'[r].pc = "event" /\ req'[r].event = ticket[t].event
        /\ req'[r].op = req[r].op /\ req'[r].ticket = t /\ req'[r].user = req[r].user
    BY <2>1 DEF IInv, TypeOK, Request
  <2>5. RequestsFormed'
    BY <2>1, <2>3, <2>4 DEF IInv, RequestsFormed, Redeems, Cancels
  <2>6. LocksMatchRequests'
    BY <2>1, <2>4, FiniteIds DEF IInv, TypeOK, LocksMatchRequests, HoldsEvent, HoldsTicket,
       Cascading, Redeems, Cancels
  <2>7. LockedTicketsKept' /\ PayloadsReserved'
    BY <2>1, <2>4 DEF IInv, LockedTicketsKept, PayloadsReserved, HoldsTicket, Redeems, Cancels
  <2>8. CountsCurrent'
    BY <2>1, <2>4, SameSeats DEF IInv, CountsCurrent, HoldsEvent
  <2>9. ChecksCurrent' /\ NoOrphanTicket'
    BY <2>1, <2>4 DEF IInv, ChecksCurrent, NoOrphanTicket, HoldsEvent, Exists, CheckInOpen,
       EndInstant
  <2> QED BY <2>2, <2>5, <2>6, <2>7, <2>8, <2>9 DEF IInv
<1> QED BY <1>1, <1>2

LEMMA RedeemLockEventInv ==
  ASSUME IInv, NEW r \in Reqs, CancelLockEvent(r) \/ UseLockEvent(r)
  PROVE  IInv'
<1> DEFINE e == req[r].event
           t == req[r].ticket
<1>1. CASE Refuse(r)
  BY <1>1, RefuseInv
<1>2. CASE ~Refuse(r)
  <2>1. /\ t \in Tickets /\ e \in Events /\ req[r].op \in Redeems /\ req[r].pc = "event"
        /\ evLock[e] = None
        /\ req[r].op = "cancel" => event[e].starts > req[r].now
        /\ req[r].op = "use" => CheckInOpen(e, req[r].now)
        /\ evLock' = [evLock EXCEPT ![e] = r]
        /\ req' = [req EXCEPT ![r].pc = "recount"]
        /\ UNCHANGED <<event, ticket, tkLock, clock>>
    BY <1>2 DEF CancelLockEvent, UseLockEvent, At, IInv, RequestsFormed, LockEvent, Goto, Redeems,
       Cancels
  <2>2. TypeOK'
    BY RedeemTyped DEF IInv
  <2>3. HoldsTicket(r, t) /\ ticket[t].event = e /\ Exists(e)
    BY <2>1 DEF HoldsTicket, IInv, LockedTicketsKept, NoOrphanTicket, TicketStatus, SeatStatus
  <2>4. /\ \A s \in Reqs \ {r} : req'[s] = req[s]
        /\ req'[r].pc = "recount" /\ req'[r].event = e /\ req'[r].now = req[r].now
        /\ req'[r].op = req[r].op /\ req'[r].ticket = t
    BY <2>1 DEF IInv, TypeOK, Request
  <2>5. RequestsFormed'
    BY <2>1, <2>4 DEF IInv, RequestsFormed, Redeems, Cancels
  <2>6. LocksMatchRequests'
    BY <2>1, <2>4, FiniteIds DEF IInv, TypeOK, LocksMatchRequests, HoldsEvent, HoldsTicket,
       Cascading, Redeems, Cancels
  <2>7. LockedTicketsKept' /\ PayloadsReserved'
    BY <2>1, <2>3, <2>4 DEF IInv, LockedTicketsKept, PayloadsReserved, HoldsTicket, Redeems,
       Cancels
  <2>8. CountsCurrent'
    BY <2>1, <2>4, SameSeats DEF IInv, CountsCurrent, HoldsEvent
  <2>9. ChecksCurrent' /\ NoOrphanTicket'
    BY <2>1, <2>3, <2>4 DEF IInv, ChecksCurrent, NoOrphanTicket, HoldsEvent, Exists, CheckInOpen,
       EndInstant, Redeems, Cancels
  <2> QED BY <2>2, <2>5, <2>6, <2>7, <2>8, <2>9 DEF IInv
<1> QED BY <1>1, <1>2

\* The recount is exact when it is taken.
LEMMA RecountInv ==
  ASSUME IInv, NEW r \in Reqs, CancelRecount(r) \/ UseRecount(r)
  PROVE  IInv'
<1> DEFINE e == req[r].event
           t == req[r].ticket
<1>1. CASE Refuse(r)
  BY <1>1, RefuseInv
<1>2. CASE ~Refuse(r)
  <2> DEFINE S == IF req[r].op = "use" THEN Occupied(e) ELSE Occupied(e) \ {t}
  <2>1. /\ t \in Tickets /\ e \in Events /\ req[r].op \in Redeems /\ req[r].pc = "recount"
        /\ req[r].op # "use" => ticket[t].status = "active"
        /\ Counted(r, "commit", S)
        /\ UNCHANGED <<event, ticket, evLock, tkLock, clock>>
    BY <1>2 DEF CancelRecount, UseRecount, At, IInv, RequestsFormed, Redeems, Cancels
  <2>2. TypeOK'
    BY RedeemTyped DEF IInv
  <2>3. HoldsTicket(r, t) /\ HoldsEvent(r, e)
    BY <2>1 DEF HoldsTicket, HoldsEvent
  <2>4. /\ \A s \in Reqs \ {r} : req'[s] = req[s]
        /\ req'[r].pc = "commit" /\ req'[r].event = e /\ req'[r].now = req[r].now
        /\ req'[r].op = req[r].op /\ req'[r].ticket = t /\ req'[r].count = Cardinality(S)
        /\ req'[r].user = req[r].user
    BY <2>1 DEF Counted, IInv, TypeOK, Request
  <2> HIDE DEF S
  <2>5. RequestsFormed'
    BY <2>1, <2>4 DEF IInv, RequestsFormed, Redeems, Cancels
  <2>6. LocksMatchRequests'
    BY <2>1, <2>4 DEF IInv, TypeOK, LocksMatchRequests, HoldsEvent, HoldsTicket,
       Cascading, Redeems, Cancels
  <2>7. LockedTicketsKept' /\ PayloadsReserved'
    BY <2>1, <2>3, <2>4 DEF IInv, LockedTicketsKept, PayloadsReserved, HoldsTicket, Redeems,
       Cancels
  <2>8. CountsCurrent'
    <3>1. req[r].op = "use" => S = Occupied(e)
      BY DEF S
    <3>2. req[r].op \in Cancels => S = Occupied(e) \ {t}
      BY DEF S, Cancels
    <3> QED BY <2>1, <2>4, <3>1, <3>2, SameSeats DEF IInv, CountsCurrent, HoldsEvent
  <2>9. ChecksCurrent' /\ NoOrphanTicket'
    BY <2>1, <2>3, <2>4 DEF IInv, ChecksCurrent, NoOrphanTicket, HoldsEvent, Exists, CheckInOpen,
       EndInstant, Redeems, Cancels
  <2> QED BY <2>2, <2>5, <2>6, <2>7, <2>8, <2>9 DEF IInv
<1> QED BY <1>1, <1>2

\* The commit of a cancellation or a check-in touches one locked pass and one locked event.
LEMMA RedeemCommitInv ==
  ASSUME IInv, NEW r \in Reqs, CancelCommit(r) \/ UseCommit(r)
  PROVE  IInv'
<1> DEFINE e == req[r].event
           t == req[r].ticket
           new == IF req[r].op = "use" THEN "used" ELSE "cancelled"
<1>1. /\ e \in Events /\ t \in Tickets /\ req[r].op \in Redeems /\ req[r].pc = "commit"
  BY DEF CancelCommit, UseCommit, At, IInv, RequestsFormed, Redeems, Cancels
<1>2. /\ HoldsEvent(r, e) /\ evLock[e] = r /\ HoldsTicket(r, t) /\ tkLock[t] = r
      /\ ticket[t].status = "active" /\ ticket[t].event = e
  BY <1>1 DEF HoldsEvent, HoldsTicket, IInv, LocksMatchRequests, LockedTicketsKept
<1>3. /\ End(r) /\ UNCHANGED clock
      /\ ticket' = [ticket EXCEPT ![t].status = new]
      /\ event' = [event EXCEPT ![e].avail = SeatsLeft(event[e].total, req[r].count)]
  <2>1. CASE CancelCommit(r)
    BY <2>1 DEF CancelCommit, At, Cancels
  <2>2. CASE UseCommit(r)
    <3>1. ticket' = [ticket EXCEPT ![t].status = "used"]
      BY <2>2, <1>1, <1>2 DEF UseCommit, IInv, TypeOK
    <3> QED BY <2>2, <3>1 DEF UseCommit, At
  <2> QED BY <2>1, <2>2
<1>4. TypeOK'
  BY RedeemTyped DEF IInv
<1>5. /\ \A x \in Tickets \ {t} : ticket'[x] = ticket[x]
      /\ ticket'[t].status = new /\ ticket'[t].event = e
      /\ \A f \in Events : /\ event'[f].status = event[f].status
                           /\ event'[f].mod = event[f].mod
                           /\ event'[f].starts = event[f].starts
                           /\ event'[f].ends = event[f].ends
  BY <1>1, <1>2, <1>3 DEF IInv, TypeOK, EventRow, TicketRow
<1>6. new \in TicketStatus /\ new # "absent"
  BY DEF TicketStatus, SeatStatus
<1> HIDE DEF new
<1>7. RequestsFormed'
  BY <1>3, EndLocks DEF IInv, RequestsFormed, Idle, Redeems, Cancels
<1>8. /\ \A s \in Reqs, f \in Events : HoldsEvent(s, f)' <=> s # r /\ HoldsEvent(s, f)
      /\ \A s \in Reqs, x \in Tickets : HoldsTicket(s, x)' <=> s # r /\ HoldsTicket(s, x)
  BY <1>3, EndLocks DEF HoldsEvent, HoldsTicket, Idle, Redeems, Cancels
<1>9. LocksMatchRequests'
  <2>1. \A s \in Reqs, x \in Tickets : s # r /\ Cascading(s, x) => Cascading(s, x)'
    BY <1>2, <1>3, <1>5, <1>6, EndLocks DEF Cascading
  <2> QED BY <1>3, <1>8, <2>1, EndLocks DEF IInv, LocksMatchRequests
<1>10. LockedTicketsKept'
  <2>1. \A s \in Reqs : s # r => ~HoldsTicket(s, t)
    BY <1>1, <1>2 DEF IInv, LocksMatchRequests
  <2> QED BY <1>3, <1>5, <1>8, <2>1, EndLocks DEF IInv, LockedTicketsKept
<1>11. PayloadsReserved'
  <2>1. ASSUME NEW s \in Reqs, req'[s].op = "register"
        PROVE  s # r /\ req[s] = req'[s] /\ req'[s].ticket # t /\ req'[s].ticket \in Tickets
    BY <1>2, <1>3, <2>1, EndLocks DEF Idle, IInv, PayloadsReserved, RequestsFormed
  <2> QED BY <2>1, <1>5 DEF IInv, PayloadsReserved
<1>12. CountsCurrent'
  <2>1. \A f \in Events : f # e => Occupied(f)' = Occupied(f)
    BY <1>2, <1>5 DEF Occupied
  <2>2. ASSUME NEW s \in Reqs, NEW f \in Events, HoldsEvent(s, f)'
        PROVE  s # r /\ f # e /\ HoldsEvent(s, f) /\ req'[s] = req[s]
    <3>1. s # r /\ HoldsEvent(s, f)
      BY <2>2, <1>8
    <3>2. evLock[f] = s
      BY <3>1 DEF IInv, LocksMatchRequests
    <3> QED BY <3>1, <3>2, <1>2, <1>3, EndLocks
  <2> QED BY <2>1, <2>2 DEF IInv, CountsCurrent
<1>13. \A f \in Events : /\ Exists(f)' = Exists(f)
                         /\ \A now : CheckInOpen(f, now)' = CheckInOpen(f, now)
  BY <1>5 DEF Exists, CheckInOpen, EndInstant
<1>14. ChecksCurrent'
  BY <1>3, <1>5, <1>8, <1>13, EndLocks DEF IInv, ChecksCurrent
<1>15. NoOrphanTicket'
  BY <1>1, <1>2, <1>5, <1>13 DEF IInv, NoOrphanTicket, TicketStatus, SeatStatus
<1> QED BY <1>4, <1>7, <1>9, <1>10, <1>11, <1>12, <1>14, <1>15 DEF IInv

LEMMA UpdateSnapshotInv ==
  ASSUME IInv, NEW r \in Reqs, UpdateSnapshot(r)
  PROVE  IInv'
<1>1. TypeOK'
  BY UpdateTyped DEF IInv
<1>2. /\ \A s \in Reqs \ {r} : req'[s] = req[s]
      /\ req[r].op = "update" /\ req'[r].op = "update"
      /\ req[r].pc = "statement" /\ req'[r].pc = "event"
      /\ req'[r].event = req[r].event /\ req'[r].patch = req[r].patch
      /\ UNCHANGED <<event, ticket, evLock, tkLock, clock>>
  BY DEF UpdateSnapshot, At, Counted, IInv, TypeOK, Request
<1>3. RequestsFormed' /\ PayloadsReserved' /\ LockedTicketsKept'
  BY <1>2 DEF IInv, RequestsFormed, PayloadsReserved, LockedTicketsKept, HoldsTicket, Redeems,
     Cancels
<1>4. LocksMatchRequests'
  BY <1>2 DEF IInv, LocksMatchRequests, HoldsEvent, HoldsTicket, Cascading, Redeems, Cancels
<1>5. CountsCurrent'
  BY <1>2, SameSeats DEF IInv, CountsCurrent, HoldsEvent
<1>6. ChecksCurrent' /\ NoOrphanTicket'
  BY <1>2 DEF IInv, ChecksCurrent, NoOrphanTicket, HoldsEvent, Exists, CheckInOpen, EndInstant
<1> QED BY <1>1, <1>3, <1>4, <1>5, <1>6 DEF IInv

\* A PUT writes the event only while nobody holds its lock.
LEMMA UpdateApplyInv ==
  ASSUME IInv, NEW r \in Reqs, UpdateApply(r)
  PROVE  IInv'
<1> DEFINE e == req[r].event
           p == req[r].patch
<1>1. CASE Refuse(r)
  BY <1>1, RefuseInv
<1>2. CASE ~Refuse(r)
  <2>1. /\ e \in Events /\ p \in PatchType /\ evLock[e] = None /\ Exists(e)
        /\ End(r) /\ UNCHANGED <<ticket, clock>>
        /\ \A f \in Events \ {e} : event'[f] = event[f]
        /\ event'[e].status = Patched(event[e].status, p.status)
    BY <1>2, BodiesTyped DEF UpdateApply, At, IInv, RequestsFormed, TypeOK
  <2>2. TypeOK'
    BY UpdateTyped DEF IInv
  <2>3. \A f \in Events : Exists(f)' = Exists(f)
    BY <2>1 DEF Exists, Patched, PatchType
  <2>4. RequestsFormed' /\ PayloadsReserved'
    BY <2>1, EndLocks DEF IInv, RequestsFormed, PayloadsReserved, Idle, Redeems, Cancels
  <2>5. /\ \A s \in Reqs, f \in Events : HoldsEvent(s, f)' <=> s # r /\ HoldsEvent(s, f)
        /\ \A s \in Reqs, x \in Tickets : HoldsTicket(s, x)' <=> s # r /\ HoldsTicket(s, x)
        /\ \A s \in Reqs, x \in Tickets : s # r /\ Cascading(s, x) => Cascading(s, x)'
    BY <2>1, EndLocks DEF HoldsEvent, HoldsTicket, Cascading, Idle, Redeems, Cancels
  <2>6. LocksMatchRequests' /\ LockedTicketsKept'
    BY <2>1, <2>5, EndLocks DEF IInv, LocksMatchRequests, LockedTicketsKept
  <2>7. CountsCurrent'
    BY <2>1, <2>5, EndLocks, SameSeats DEF IInv, CountsCurrent
  <2>8. ChecksCurrent'
    <3>1. ASSUME NEW s \in Reqs, NEW f \in Events, HoldsEvent(s, f)'
          PROVE  s # r /\ f # e /\ HoldsEvent(s, f)
      BY <3>1, <2>1, <2>5, FiniteIds DEF IInv, LocksMatchRequests
    <3>2. \A f \in Events \ {e} : \A now : CheckInOpen(f, now)' = CheckInOpen(f, now)
      BY <2>1 DEF CheckInOpen, EndInstant
    <3> QED BY <2>1, <2>3, <3>1, <3>2, EndLocks DEF IInv, ChecksCurrent
  <2>9. NoOrphanTicket'
    BY <2>1, <2>3 DEF IInv, NoOrphanTicket
  <2> QED BY <2>2, <2>4, <2>6, <2>7, <2>8, <2>9 DEF IInv
<1> QED BY <1>1, <1>2

LEMMA DeleteLockInv ==
  ASSUME IInv, NEW r \in Reqs, DeleteLock(r)
  PROVE  IInv'
<1> DEFINE e == req[r].event
<1>1. CASE Refuse(r)
  BY <1>1, RefuseInv
<1>2. CASE ~Refuse(r)
  <2>1. /\ e \in Events /\ req[r].op = "delete" /\ req[r].pc = "event"
        /\ evLock[e] = None /\ Exists(e)
        /\ evLock' = [evLock EXCEPT ![e] = r]
        /\ req' = [req EXCEPT ![r].pc = "cascade"]
        /\ UNCHANGED <<event, ticket, tkLock, clock>>
    BY <1>2 DEF DeleteLock, At, IInv, RequestsFormed, LockEvent, Goto
  <2>2. TypeOK'
    BY DeleteTyped DEF IInv
  <2>3. /\ \A s \in Reqs \ {r} : req'[s] = req[s]
        /\ req'[r].pc = "cascade" /\ req'[r].event = e /\ req'[r].op = "delete"
    BY <2>1 DEF IInv, TypeOK, Request
  <2>4. RequestsFormed' /\ PayloadsReserved' /\ LockedTicketsKept'
    BY <2>1, <2>3 DEF IInv, RequestsFormed, PayloadsReserved, LockedTicketsKept, HoldsTicket,
       Redeems, Cancels
  <2>5. LocksMatchRequests'
    BY <2>1, <2>3, FiniteIds DEF IInv, TypeOK, LocksMatchRequests, HoldsEvent, HoldsTicket,
       Cascading, Redeems, Cancels
  <2>6. CountsCurrent'
    BY <2>1, <2>3, SameSeats DEF IInv, CountsCurrent, HoldsEvent
  <2>7. ChecksCurrent' /\ NoOrphanTicket'
    BY <2>1, <2>3 DEF IInv, ChecksCurrent, NoOrphanTicket, HoldsEvent, Exists, CheckInOpen,
       EndInstant
  <2> QED BY <2>2, <2>4, <2>5, <2>6, <2>7 DEF IInv
<1> QED BY <1>1, <1>2

LEMMA DeleteCascadeInv ==
  ASSUME IInv, NEW r \in Reqs, NEW t \in Tickets, DeleteCascade(r, t)
  PROVE  IInv'
<1>1. /\ Cascading(r, t) /\ tkLock[t] = None /\ tkLock' = [tkLock EXCEPT ![t] = r]
      /\ UNCHANGED <<event, ticket, evLock, req, clock>>
  BY DEF DeleteCascade, At, LockTicket, Cascading, RowsOf
<1>2. TypeOK'
  BY DeleteTyped DEF IInv
<1>3. RequestsFormed' /\ PayloadsReserved' /\ LockedTicketsKept'
  BY <1>1 DEF IInv, RequestsFormed, PayloadsReserved, LockedTicketsKept, HoldsTicket
<1>4. LocksMatchRequests'
  <2>1. /\ \A s \in Reqs, e \in Events : HoldsEvent(s, e)' = HoldsEvent(s, e)
        /\ \A s \in Reqs, x \in Tickets : HoldsTicket(s, x)' = HoldsTicket(s, x)
        /\ \A s \in Reqs, x \in Tickets : Cascading(s, x)' = Cascading(s, x)
    BY <1>1 DEF HoldsEvent, HoldsTicket, Cascading
  <2>2. \A s \in Reqs : ~HoldsTicket(s, t)
    BY <1>1, FiniteIds DEF IInv, LocksMatchRequests
  <2> QED BY <1>1, <2>1, <2>2 DEF IInv, TypeOK, LocksMatchRequests
<1>5. CountsCurrent'
  BY <1>1, SameSeats DEF IInv, CountsCurrent, HoldsEvent
<1>6. ChecksCurrent' /\ NoOrphanTicket'
  BY <1>1 DEF IInv, ChecksCurrent, NoOrphanTicket, HoldsEvent, Exists, CheckInOpen, EndInstant
<1> QED BY <1>2, <1>3, <1>4, <1>5, <1>6 DEF IInv

\* A deletion commits only with the lock of every pass of its event, hence while no
\* request is between the lock of such a pass and its commit.
LEMMA DeleteCommitInv ==
  ASSUME IInv, NEW r \in Reqs, DeleteCommit(r)
  PROVE  IInv'
<1> DEFINE e == req[r].event
<1>1. /\ e \in Events /\ req[r].op = "delete" /\ req[r].pc = "cascade" /\ HoldsEvent(r, e)
      /\ evLock[e] = r /\ End(r) /\ UNCHANGED clock
      /\ \A x \in RowsOf(e) : tkLock[x] = r
      /\ event' = [event EXCEPT ![e].status = "deleted"]
      /\ ticket' = [x \in Tickets |->
           IF x \in RowsOf(e) THEN [ticket[x] EXCEPT !.status = "deleted"] ELSE ticket[x]]
  BY DEF DeleteCommit, At, HoldsEvent, IInv, RequestsFormed, LocksMatchRequests
<1>2. TypeOK'
  BY DeleteTyped DEF IInv
<1>3. /\ \A x \in Tickets \ RowsOf(e) : ticket'[x] = ticket[x]
      /\ \A x \in Tickets : x \in RowsOf(e) => ticket'[x].status = "deleted" /\ ticket'[x].event = e
      /\ \A f \in Events \ {e} : event'[f] = event[f]
  BY <1>1 DEF IInv, TypeOK, TicketRow, RowsOf
<1>4. /\ \A s \in Reqs, f \in Events : HoldsEvent(s, f)' <=> s # r /\ HoldsEvent(s, f)
      /\ \A s \in Reqs, x \in Tickets : HoldsTicket(s, x)' <=> s # r /\ HoldsTicket(s, x)
  BY <1>1, EndLocks DEF HoldsEvent, HoldsTicket, Idle, Redeems, Cancels
<1>5. \A s \in Reqs, x \in RowsOf(e) : s # r => tkLock[x] # s /\ ~HoldsTicket(s, x)
  BY <1>1 DEF IInv, LocksMatchRequests, RowsOf
<1>6. RequestsFormed'
  BY <1>1, EndLocks DEF IInv, RequestsFormed, Idle, Redeems, Cancels
<1>7. LocksMatchRequests'
  <2>1. \A s \in Reqs, x \in Tickets \ RowsOf(e) : s # r /\ Cascading(s, x) => Cascading(s, x)'
    BY <1>1, <1>3, EndLocks DEF Cascading
  <2> QED BY <1>1, <1>4, <1>5, <2>1, EndLocks DEF IInv, LocksMatchRequests
<1>8. LockedTicketsKept'
  BY <1>1, <1>3, <1>4, <1>5, EndLocks DEF IInv, LockedTicketsKept
<1>9. PayloadsReserved'
  <2>1. ASSUME NEW s \in Reqs, req'[s].op = "register"
        PROVE  /\ s # r /\ req[s] = req'[s] /\ req'[s].ticket \in Tickets
               /\ req'[s].ticket \notin RowsOf(e)
    BY <1>1, <2>1, EndLocks
       DEF Idle, IInv, PayloadsReserved, RequestsFormed, RowsOf, TicketStatus, SeatStatus
  <2> QED BY <2>1, <1>3 DEF IInv, PayloadsReserved
<1>10. ASSUME NEW s \in Reqs, NEW f \in Events, HoldsEvent(s, f)'
       PROVE  s # r /\ f # e /\ HoldsEvent(s, f) /\ req'[s] = req[s]
  <2>1. s # r /\ HoldsEvent(s, f)
    BY <1>4, <1>10
  <2>2. evLock[f] = s
    BY <2>1 DEF IInv, LocksMatchRequests
  <2> QED BY <1>1, <2>1, <2>2, EndLocks
<1>11. CountsCurrent'
  <2>1. \A f \in Events : f # e => Occupied(f)' = Occupied(f)
    BY <1>3 DEF Occupied, RowsOf, TicketStatus, SeatStatus
  <2> QED BY <1>10, <2>1 DEF IInv, CountsCurrent
<1>12. \A f \in Events \ {e} : /\ Exists(f)' = Exists(f)
                               /\ \A now : CheckInOpen(f, now)' = CheckInOpen(f, now)
  BY <1>3 DEF Exists, CheckInOpen, EndInstant
<1>13. ChecksCurrent'
  BY <1>1, <1>3, <1>10, <1>12, EndLocks DEF IInv, ChecksCurrent
<1>14. NoOrphanTicket'
  <2>1. ASSUME NEW x \in Tickets, ticket'[x].status \in TicketStatus
        PROVE  x \notin RowsOf(e) /\ ticket'[x] = ticket[x] /\ ticket[x].event # e
    BY <1>3, <2>1 DEF RowsOf, TicketStatus, SeatStatus
  <2> QED BY <1>12, <2>1 DEF IInv, NoOrphanTicket
<1> QED BY <1>2, <1>6, <1>7, <1>8, <1>9, <1>11, <1>13, <1>14 DEF IInv

LEMMA TablesInv ==
  ASSUME IInv,
         \/ \E e \in Events, n \in NewEvents : Create(e, n)
         \/ \E e \in Events, d \in {"approved", "rejected"} : Moderate(e, d)
         \/ Tick
  PROVE  IInv'
<1>1. TypeOK'
  BY TablesTyped DEF IInv
<1>2. UNCHANGED <<ticket, evLock, tkLock, req>>
  BY DEF Create, Moderate, Tick
<1>3. RequestsFormed' /\ PayloadsReserved' /\ LockedTicketsKept' /\ LocksMatchRequests'
  BY <1>2 DEF IInv, RequestsFormed, PayloadsReserved, LockedTicketsKept, LocksMatchRequests,
     HoldsEvent, HoldsTicket, Cascading
<1>4. CountsCurrent'
  BY <1>2, SameSeats DEF IInv, CountsCurrent, HoldsEvent
<1>5. ASSUME NEW e \in Events,
             ~Exists(e) \/ evLock[e] = None,
             Exists(e) => Exists(e)',
             \A f \in Events \ {e} : event'[f] = event[f]
      PROVE  ChecksCurrent' /\ NoOrphanTicket'
  <2>1. \A f \in Events : Exists(f) => Exists(f)'
    BY <1>5 DEF Exists
  <2>2. \A s \in Reqs, f \in Events : HoldsEvent(s, f)' = HoldsEvent(s, f)
    BY <1>2 DEF HoldsEvent
  <2>3. \A s \in Reqs : ~HoldsEvent(s, e)
    BY <1>5, FiniteIds DEF IInv, LocksMatchRequests, ChecksCurrent
  <2>4. \A f \in Events \ {e} : \A now : CheckInOpen(f, now)' = CheckInOpen(f, now)
    BY <1>5 DEF CheckInOpen, EndInstant
  <2> QED BY <1>2, <1>5, <2>1, <2>2, <2>3, <2>4 DEF IInv, ChecksCurrent, NoOrphanTicket
<1>6. ASSUME NEW e \in Events, NEW n \in NewEvents, Create(e, n)
      PROVE  ChecksCurrent' /\ NoOrphanTicket'
  BY <1>5, <1>6 DEF Create, Exists, EventStatus, IInv, TypeOK
<1>7. ASSUME NEW e \in Events, NEW d \in {"approved", "rejected"}, Moderate(e, d)
      PROVE  ChecksCurrent' /\ NoOrphanTicket'
  <2>1. Exists(e) /\ evLock[e] = None /\ event'[e].status = event[e].status
        /\ \A f \in Events \ {e} : event'[f] = event[f]
    BY <1>7 DEF Moderate, IInv, TypeOK, EventRow
  <2>2. Exists(e)'
    BY <2>1 DEF Exists
  <2> QED BY <1>5, <2>1, <2>2
<1>8. CASE Tick
  <2>1. UNCHANGED <<event, ticket, req>>
    BY <1>8 DEF Tick
  <2>2. ChecksCurrent' /\ NoOrphanTicket'
    BY <2>1 DEF IInv, ChecksCurrent, NoOrphanTicket, HoldsEvent, Exists, CheckInOpen, EndInstant
  <2> QED BY <1>1, <1>3, <1>4, <2>2 DEF IInv
<1> QED BY <1>1, <1>3, <1>4, <1>6, <1>7, <1>8 DEF IInv

LEMMA NextInv ==
  ASSUME IInv, [Next]_vars
  PROVE  IInv'
<1>1. ASSUME NEW r \in Reqs, Step(r) PROVE IInv'
  BY <1>1, RegisterLockInv, RegisterCommitInv, LockTicketInv, RedeemLockEventInv, RecountInv,
     RedeemCommitInv, UpdateSnapshotInv, UpdateApplyInv, DeleteLockInv, DeleteCascadeInv,
     DeleteCommitInv, RefuseInv DEF Step, DetectDeadlock
<1>2. ASSUME NEW r \in Reqs, Abort(r) PROVE IInv'
  BY <1>2, RefuseInv DEF Abort
<1>3. CASE UNCHANGED vars
  <2>1. UNCHANGED <<event, ticket, evLock, tkLock, req, clock>>
    BY <1>3 DEF vars
  <2>2. CountsCurrent'
    BY <2>1, SameSeats DEF IInv, CountsCurrent, HoldsEvent
  <2>3. TypeOK' /\ RequestsFormed' /\ PayloadsReserved' /\ LocksMatchRequests'
    BY <2>1 DEF IInv, TypeOK, RequestsFormed, PayloadsReserved, LocksMatchRequests, HoldsEvent,
       HoldsTicket, Cascading
  <2>4. LockedTicketsKept' /\ ChecksCurrent' /\ NoOrphanTicket'
    BY <2>1 DEF IInv, LockedTicketsKept, ChecksCurrent, NoOrphanTicket, HoldsTicket, HoldsEvent,
       Exists, CheckInOpen, EndInstant
  <2> QED BY <2>2, <2>3, <2>4 DEF IInv
<1> QED BY <1>1, <1>2, <1>3, StartInv, TablesInv DEF Next

\* The invariant holds in every reachable state, whatever the constants.
THEOREM Invariance == Spec => []IInv
<1> QED BY InitInv, NextInv, PTL DEF Spec

\* Every table and every request has its type in every reachable state.
THEOREM TypeCorrect == Spec => []TypeOK
<1> QED BY Invariance, PTL DEF IInv

\* A deletion never leaves a pass behind, whatever runs beside it.
THEOREM NoOrphans == Spec => []NoOrphanTicket
<1> QED BY Invariance, PTL DEF IInv

-----------------------------------------------------------------------------
(* The seat counter *)

\* The steps that write neither table.
LEMMA QuietSteps ==
  ASSUME NEW r \in Reqs, Start(r) \/ Step(r) \/ Abort(r),
         ~RegisterCommit(r), ~CancelCommit(r), ~UseCommit(r), ~UpdateApply(r), ~DeleteCommit(r)
  PROVE  UNCHANGED <<event, ticket>>
  BY DEF Start, Step, Abort, Refuse, RegisterStart, CancelStart, UseStart, UpdateStart,
     DeleteStart, RegisterLock, CancelLockTicket, CancelLockEvent, CancelRecount,
     UseLockTicket, UseLockEvent, UseRecount, UpdateSnapshot, DeleteLock, DeleteCascade,
     DetectDeadlock

\* A recount is written exactly, whatever the counter said before.
LEMMA RedeemCommitExact ==
  ASSUME IInv, NEW r \in Reqs, CancelCommit(r) \/ UseCommit(r),
         NEW e \in Events, e = req[r].event
  PROVE  Exact(e)'
<1> DEFINE t == req[r].ticket
<1>1. /\ t \in Tickets /\ req[r].op \in Redeems /\ req[r].pc = "commit"
      /\ req[r].op = "use" <=> UseCommit(r)
  BY DEF CancelCommit, UseCommit, At, IInv, RequestsFormed, Redeems, Cancels
<1>2. HoldsEvent(r, e) /\ ticket[t].status = "active" /\ ticket[t].event = e
  BY <1>1 DEF HoldsEvent, HoldsTicket, IInv, LockedTicketsKept
<1>3. event'[e].avail = SeatsLeft(event[e].total, req[r].count) /\ event'[e].total = event[e].total
  BY DEF CancelCommit, UseCommit, IInv, TypeOK, EventRow
<1>4. req[r].count = Cardinality(Occupied(e)')
  <2>1. CASE CancelCommit(r)
    <3>1. Occupied(e)' = Occupied(e) \ {t}
      BY <1>1, <2>1 DEF CancelCommit, Occupied, SeatStatus, IInv, TypeOK, TicketRow
    <3> QED BY <1>1, <1>2, <2>1, <3>1 DEF CancelCommit, At, IInv, CountsCurrent
  <2>2. CASE UseCommit(r)
    <3>1. Occupied(e)' = Occupied(e)
      BY <1>1, <1>2, <2>2 DEF UseCommit, Occupied, SeatStatus, IInv, TypeOK, TicketRow
    <3> QED BY <1>1, <1>2, <2>2, <3>1 DEF IInv, CountsCurrent
  <2> QED BY <2>1, <2>2
<1> QED BY <1>3, <1>4 DEF Exact, SeatsLeft

\* A sale takes one seat and adds one pass.
LEMMA RegisterCommitExact ==
  ASSUME IInv, NEW r \in Reqs, RegisterCommit(r), NEW e \in Events, Exact(e)
  PROVE  Exact(e)'
<1> DEFINE t == req[r].ticket
<1>1. CASE Refuse(r) \/ e # req[r].event
  <2>1. event'[e] = event[e] /\ Occupied(e)' = Occupied(e)
    <3>1. CASE Refuse(r)
      BY <3>1 DEF Refuse, Occupied
    <3>2. CASE ~Refuse(r) /\ e # req[r].event
      <4>1. t \in Tickets /\ ticket[t].status = "absent"
        BY DEF RegisterCommit, At, IInv, RequestsFormed, PayloadsReserved
      <4>2. ticket' = [ticket EXCEPT ![t] = [status |-> "active", event |-> req[r].event,
                                             user |-> req[r].user]]
            /\ event'[e] = event[e]
        BY <3>2 DEF RegisterCommit, IInv, TypeOK
      <4> QED BY <3>2, <4>1, <4>2 DEF Occupied, SeatStatus, IInv, TypeOK
    <3> QED BY <1>1, <3>1, <3>2
  <2> QED BY <2>1 DEF Exact
<1>2. CASE ~Refuse(r) /\ e = req[r].event
  <2>1. /\ t \in Tickets /\ ticket[t].status = "absent"
        /\ ticket' = [ticket EXCEPT ![t] = [status |-> "active", event |-> e, user |-> req[r].user]]
        /\ event[e].avail > 0
        /\ event' = [event EXCEPT ![e].avail = @ - 1]
    BY <1>2 DEF RegisterCommit, At, IInv, RequestsFormed, PayloadsReserved
  <2>2. t \notin Occupied(e) /\ Occupied(e)' = Occupied(e) \cup {t}
    BY <2>1 DEF Occupied, SeatStatus, IInv, TypeOK
  <2>3. IsFiniteSet(Occupied(e)) /\ Cardinality(Occupied(e)) \in Nat
    BY OccupiedFinite DEF Occupied
  <2>4. Cardinality(Occupied(e)') = Cardinality(Occupied(e)) + 1
    BY <2>2, <2>3, FS_AddElement
  <2>5. /\ event'[e].avail = event[e].avail - 1 /\ event'[e].total = event[e].total
        /\ event[e].total \in Nat /\ event[e].avail \in Nat
    BY <2>1 DEF IInv, TypeOK, EventRow
  <2> QED BY <2>1, <2>3, <2>4, <2>5 DEF Exact, SeatsLeft
<1> QED BY <1>1, <1>2

LEMMA StepExact ==
  ASSUME IInv, [Next]_vars, NEW e \in Events, Exists(e), Exact(e), Exists(e)',
         \A r \in Reqs : ~StalePut(r, e)
  PROVE  Exact(e)'
<1>1. ASSUME event'[e].avail = event[e].avail, event'[e].total = event[e].total,
             Occupied(e)' = Occupied(e)
      PROVE  Exact(e)'
  BY <1>1 DEF Exact
<1>2. ASSUME NEW r \in Reqs, Start(r) \/ Step(r) \/ Abort(r) PROVE Exact(e)'
  <2>1. CASE RegisterCommit(r)
    BY <2>1, RegisterCommitExact
  <2>2. CASE CancelCommit(r) \/ UseCommit(r)
    <3>1. CASE e = req[r].event
      BY <2>2, <3>1, RedeemCommitExact
    <3>2. CASE e # req[r].event
      <4>1. ticket[req[r].ticket].event # e /\ req[r].ticket \in Tickets
        BY <2>2, <3>2 DEF CancelCommit, UseCommit, At, IInv, RequestsFormed, LockedTicketsKept,
           HoldsTicket, Redeems, Cancels
      <4>2. event'[e] = event[e]
        BY <2>2, <3>2 DEF CancelCommit, UseCommit, IInv, TypeOK
      <4>3. \A t \in Tickets : t # req[r].ticket => ticket'[t] = ticket[t]
        BY <2>2 DEF CancelCommit, UseCommit, IInv, TypeOK
      <4>4. ticket'[req[r].ticket].event = ticket[req[r].ticket].event
        BY <2>2, <4>1 DEF CancelCommit, UseCommit, IInv, TypeOK, TicketRow
      <4>5. Occupied(e)' = Occupied(e)
        BY <4>1, <4>3, <4>4 DEF Occupied
      <4> QED BY <1>1, <4>2, <4>5
    <3> QED BY <3>1, <3>2
  <2>3. CASE UpdateApply(r)
    <3>1. Occupied(e)' = Occupied(e)
      BY <2>3, SameSeats DEF UpdateApply, Refuse
    <3>2. CASE Refuse(r) \/ e # req[r].event
      BY <1>1, <2>3, <3>1, <3>2 DEF UpdateApply, Refuse, IInv, TypeOK
    <3>3. CASE ~Refuse(r) /\ e = req[r].event
      <4> DEFINE p == req[r].patch
      <4>1. /\ req[r].op = "update"
            /\ event'[e].total = Patched(event[e].total, p.total)
            /\ event'[e].avail = IF p.total = None THEN event[e].avail
                                 ELSE SeatsLeft(p.total, req[r].count)
        BY <2>3, <3>3 DEF UpdateApply, At, IInv, TypeOK
      <4>2. CASE p.total = None
        BY <1>1, <3>1, <4>1, <4>2 DEF Patched
      <4>3. CASE p.total # None
        <5>1. req[r].pc = "event" /\ req'[r] = Idle
          BY <2>3, <3>3 DEF UpdateApply, At, End, IInv, TypeOK
        <5>2. req[r].count = Cardinality(Occupied(e))
          BY <3>3, <4>1, <4>3, <5>1 DEF StalePut
        <5> QED BY <3>1, <4>1, <4>3, <5>2 DEF Exact, Patched
      <4> QED BY <4>2, <4>3
    <3> QED BY <3>2, <3>3
  <2>4. CASE DeleteCommit(r)
    <3>1. req[r].event \in Events /\ e # req[r].event
      BY <2>4 DEF DeleteCommit, At, IInv, RequestsFormed, Exists, TypeOK, EventRow, EventStatus
    <3>2. event'[e] = event[e] /\ Occupied(e)' = Occupied(e)
      BY <2>4, <3>1 DEF DeleteCommit, Occupied, RowsOf, IInv, TypeOK, TicketRow
    <3> QED BY <1>1, <3>2
  <2>5. CASE UNCHANGED <<event, ticket>>
    BY <1>1, <2>5, SameSeats
  <2> QED BY <1>2, <2>1, <2>2, <2>3, <2>4, <2>5, QuietSteps
<1>3. ASSUME NEW f \in Events, NEW n \in NewEvents, Create(f, n) PROVE Exact(e)'
  BY <1>1, <1>3, SameSeats DEF Create, Exists, EventStatus, IInv, TypeOK
<1>4. ASSUME NEW f \in Events, NEW d \in {"approved", "rejected"}, Moderate(f, d) PROVE Exact(e)'
  BY <1>1, <1>4, SameSeats DEF Moderate, IInv, TypeOK, EventRow
<1>5. CASE Tick \/ UNCHANGED vars
  BY <1>1, <1>5, SameSeats DEF Tick, vars
<1> QED BY <1>2, <1>3, <1>4, <1>5 DEF Next

\* The step that breaks the seat counter is the commit of a capacity PUT with an
\* outdated count.
THEOREM SeatsBreakOnlyByStalePut == Spec => OnlyStalePutBreaksSeats
<1>1. IInv /\ [Next]_vars =>
        [\A e \in Events : (Exists(e) /\ Exact(e) /\ Exists(e)' /\ ~Exact(e)') =>
           \E r \in Reqs : StalePut(r, e)]_vars
  BY StepExact
<1> QED BY <1>1, Invariance, PTL DEF Spec, OnlyStalePutBreaksSeats

-----------------------------------------------------------------------------
(* The passes *)

\* The steps that change a ticket, and how.
Sold(r, t) ==
  /\ RegisterCommit(r) /\ t = req[r].ticket /\ ticket[t].status = "absent"
  /\ req[r].event \in Events /\ ~HasSeat(req[r].user, req[r].event) /\ event[req[r].event].avail > 0
  /\ ticket' = [ticket EXCEPT ![t] = [status |-> "active", event |-> req[r].event, user |-> req[r].user]]

Redeemed(r, t) ==
  /\ t = req[r].ticket /\ ticket[t].status = "active"
  /\ \/ CancelCommit(r) /\ ticket' = [ticket EXCEPT ![t].status = "cancelled"]
     \/ UseCommit(r) /\ ticket' = [ticket EXCEPT ![t].status = "used"]

Removed(r, t) ==
  /\ DeleteCommit(r) /\ ticket[t].event = req[r].event /\ ~Exists(ticket[t].event)'
  /\ ticket'[t] = [ticket[t] EXCEPT !.status = "deleted"]

LEMMA TicketChanges ==
  ASSUME IInv, [Next]_vars, NEW t \in Tickets, ticket'[t] # ticket[t]
  PROVE  \E r \in Reqs : Sold(r, t) \/ Redeemed(r, t) \/ Removed(r, t)
<1>1. ticket' # ticket
  OBVIOUS
<1>2. PICK r \in Reqs : Start(r) \/ Step(r) \/ Abort(r)
  BY <1>1 DEF Next, Create, Moderate, Tick, vars
<1>3. CASE RegisterCommit(r)
  <2>1. ~Refuse(r)
    BY <1>1 DEF Refuse
  <2>2. /\ req[r].ticket \in Tickets /\ req[r].event \in Events
        /\ ticket[req[r].ticket].status = "absent"
    BY <1>3 DEF RegisterCommit, At, IInv, RequestsFormed, PayloadsReserved
  <2>3. /\ ~HasSeat(req[r].user, req[r].event) /\ event[req[r].event].avail > 0
        /\ ticket' = [ticket EXCEPT ![req[r].ticket] =
                        [status |-> "active", event |-> req[r].event, user |-> req[r].user]]
    BY <1>3, <2>1 DEF RegisterCommit
  <2>4. t = req[r].ticket
    BY <2>2, <2>3 DEF IInv, TypeOK
  <2> QED BY <1>3, <2>2, <2>3, <2>4 DEF Sold
<1>4. CASE CancelCommit(r) \/ UseCommit(r)
  <2> DEFINE s == req[r].ticket
  <2>1. s \in Tickets /\ HoldsTicket(r, s) /\ req[r].pc = "commit"
    BY <1>4 DEF CancelCommit, UseCommit, At, IInv, RequestsFormed, HoldsTicket, Redeems, Cancels
  <2>2. ticket[s].status = "active"
    BY <2>1 DEF IInv, LockedTicketsKept
  <2>3. \/ CancelCommit(r) /\ ticket' = [ticket EXCEPT ![s].status = "cancelled"]
        \/ UseCommit(r) /\ ticket' = [ticket EXCEPT ![s].status = "used"]
    <3>1. CASE CancelCommit(r)
      BY <3>1 DEF CancelCommit
    <3>2. CASE UseCommit(r)
      BY <2>1, <2>2, <3>2 DEF UseCommit
    <3> QED BY <1>4, <3>1, <3>2
  <2>4. t = s
    BY <2>1, <2>3 DEF IInv, TypeOK
  <2> QED BY <2>2, <2>3, <2>4 DEF Redeemed
<1>5. CASE DeleteCommit(r)
  <2>1. req[r].event \in Events
    BY <1>5 DEF DeleteCommit, At, IInv, RequestsFormed
  <2>2. /\ ticket' = [s \in Tickets |-> IF s \in RowsOf(req[r].event)
                                        THEN [ticket[s] EXCEPT !.status = "deleted"] ELSE ticket[s]]
        /\ event' = [event EXCEPT ![req[r].event].status = "deleted"]
    BY <1>5 DEF DeleteCommit
  <2>3. t \in RowsOf(req[r].event) /\ ticket'[t] = [ticket[t] EXCEPT !.status = "deleted"]
    BY <2>2
  <2>4. event'[req[r].event].status = "deleted"
    BY <2>1, <2>2 DEF IInv, TypeOK
  <2>5. ticket[t].event = req[r].event
    BY <2>3 DEF RowsOf
  <2>6. ~Exists(ticket[t].event)'
    <3>1. ticket'[t].event = req[r].event
      BY <2>3, <2>5 DEF IInv, TypeOK, TicketRow
    <3> QED BY <2>4, <3>1 DEF Exists, EventStatus
  <2> QED BY <1>5, <2>3, <2>5, <2>6 DEF Removed
<1>6. CASE UNCHANGED <<event, ticket>>
  BY <1>1, <1>6
<1>7. CASE UpdateApply(r)
  BY <1>1, <1>7 DEF UpdateApply, Refuse
<1> QED BY <1>2, <1>3, <1>4, <1>5, <1>6, <1>7, QuietSteps

\* A pass that holds a seat held it before, unless it was just sold.
LEMMA SeatsAppear ==
  ASSUME IInv, [Next]_vars, NEW e \in Events, NEW t \in Occupied(e)'
  PROVE  \/ t \in Occupied(e) /\ ticket'[t].user = ticket[t].user
         \/ \E r \in Reqs : Sold(r, t) /\ req[r].event = e
<1>1. t \in Tickets /\ ticket'[t].event = e /\ ticket'[t].status \in SeatStatus
  BY DEF Occupied
<1>2. CASE ticket'[t] = ticket[t]
  BY <1>1, <1>2 DEF Occupied
<1>3. CASE ticket'[t] # ticket[t]
  <2>1. PICK r \in Reqs : Sold(r, t) \/ Redeemed(r, t) \/ Removed(r, t)
    BY <1>1, <1>3, TicketChanges
  <2>2. CASE Sold(r, t)
    BY <1>1, <2>2 DEF Sold, IInv, TypeOK
  <2>3. CASE Redeemed(r, t)
    BY <1>1, <2>3 DEF Redeemed, Occupied, SeatStatus, IInv, TypeOK, TicketRow
  <2>4. CASE Removed(r, t)
    BY <1>1, <2>4 DEF Removed, SeatStatus, IInv, TypeOK, TicketRow
  <2> QED BY <2>1, <2>2, <2>3, <2>4
<1> QED BY <1>2, <1>3

\* A used or cancelled pass changes only by going with its event.
THEOREM UsedAndCancelledStay == Spec => PassesAreFinal
<1>1. ASSUME IInv, [Next]_vars, NEW t \in Tickets,
             ticket[t].status \in {"used", "cancelled", "deleted"}, ticket'[t] # ticket[t]
      PROVE  ticket'[t].status = "deleted" /\ ~Exists(ticket[t].event)'
  <2>1. PICK r \in Reqs : Sold(r, t) \/ Redeemed(r, t) \/ Removed(r, t)
    BY <1>1, TicketChanges
  <2>2. Removed(r, t)
    BY <1>1, <2>1 DEF Sold, Redeemed
  <2> QED BY <1>1, <2>2 DEF Removed, IInv, TypeOK, TicketRow
<1>2. IInv /\ [Next]_vars =>
        [\A t \in Tickets : ticket[t].status \in {"used", "cancelled", "deleted"} =>
           \/ ticket'[t] = ticket[t]
           \/ ticket'[t].status = "deleted" /\ ~Exists(ticket[t].event)']_vars
  BY <1>1
<1> QED BY <1>2, Invariance, PTL DEF Spec, PassesAreFinal

\* At its commit a handler still finds what it checked.
THEOREM ChecksHonoured == Spec => CommitsHonourChecks
<1>1. ASSUME IInv, NEW r \in Reqs, NEW t \in Tickets, req[r].ticket = t, req[r].pc = "commit"
      PROVE  LET e == req[r].event
                 now == req[r].now
             IN
             /\ req[r].op = "register" =>
                  event[e].status = "published" /\ event[e].mod = "approved" /\ now < event[e].starts
             /\ req[r].op = "cancel" => ticket[t].user = req[r].user /\ now < event[e].starts
             /\ req[r].op = "use" =>
                  event[e].status # "cancelled" /\ event[e].starts <= now /\ now <= EndInstant(e)
  <2> DEFINE e == req[r].event
  <2>1. req[r].op \in {"register", "cancel", "use"} => e \in Events /\ HoldsEvent(r, e)
    BY <1>1 DEF IInv, RequestsFormed, HoldsEvent, Redeems, Cancels
  <2>2. req[r].op = "cancel" => ticket[t].user = req[r].user
    BY <1>1 DEF IInv, LockedTicketsKept, HoldsTicket, Redeems, Cancels
  <2>3. e \in Events => event[e].starts \in Nat
    BY <1>1 DEF IInv, TypeOK, EventRow
  <2>4. req[r].now \in Nat
    BY <1>1 DEF IInv, TypeOK, Request
  <2> QED BY <1>1, <2>1, <2>2, <2>3, <2>4 DEF IInv, ChecksCurrent, CheckInOpen
<1>2. IInv /\ [Next]_vars =>
        [\A r \in Reqs, t \in Tickets :
           (req[r].ticket = t /\ req[r].pc = "commit" /\ ticket'[t] # ticket[t]) =>
             LET e == req[r].event
                 now == req[r].now
             IN
             /\ req[r].op = "register" =>
                  event[e].status = "published" /\ event[e].mod = "approved" /\ now < event[e].starts
             /\ req[r].op = "cancel" => ticket[t].user = req[r].user /\ now < event[e].starts
             /\ req[r].op = "use" =>
                  event[e].status # "cancelled" /\ event[e].starts <= now /\ now <= EndInstant(e)]_vars
  BY <1>1
<1> QED BY <1>2, Invariance, PTL DEF Spec, CommitsHonourChecks

\* Every redeemed pass leaves an exact counter behind.
THEOREM RecountsHeal == Spec => RecountHeals
<1>1. ASSUME IInv, [Next]_vars, NEW r \in Reqs, NEW e \in Events,
             req[r].op \in Redeems, req[r].pc = "commit", req[r].event = e,
             ticket' # ticket, req'[r] = Idle
      PROVE  Exact(e)'
  <2>1. TypeOK /\ TypeOK'
    BY <1>1, NextInv DEF IInv
  <2>2. PICK t \in Tickets : ticket'[t] # ticket[t]
    BY <1>1, <2>1 DEF TypeOK
  <2>3. PICK s \in Reqs : Sold(s, t) \/ Redeemed(s, t) \/ Removed(s, t)
    BY <1>1, <2>2, TicketChanges
  <2>4. End(s)
    <3>1. CASE Sold(s, t)
      BY <2>2, <3>1 DEF Sold, RegisterCommit, Refuse
    <3>2. CASE Redeemed(s, t)
      BY <3>2 DEF Redeemed, CancelCommit, UseCommit
    <3>3. CASE Removed(s, t)
      BY <3>3 DEF Removed, DeleteCommit
    <3> QED BY <2>3, <3>1, <3>2, <3>3
  <2>5. s = r
    <3>1. \A q \in Reqs : q # s => req'[q] = req[q]
      BY <2>1, <2>4 DEF End, TypeOK
    <3> QED BY <1>1, <3>1 DEF Idle
  <2>6. CancelCommit(r) \/ UseCommit(r)
    BY <1>1, <2>3, <2>5 DEF Sold, Redeemed, Removed, RegisterCommit, DeleteCommit, At, Redeems, Cancels
  <2> QED BY <1>1, <2>6, RedeemCommitExact
<1>2. IInv /\ [Next]_vars =>
        [\A r \in Reqs, e \in Events :
           (/\ req[r].op \in Cancels \cup {"use"} /\ req[r].pc = "commit" /\ req[r].event = e
            /\ ticket' # ticket /\ req'[r] = Idle) => Exact(e)']_vars
  BY <1>1 DEF Redeems
<1> QED BY <1>2, Invariance, PTL DEF Spec, RecountHeals

\* No sequence of cancellations and registrations gives a student two passes.
THEOREM OnePassEach == Spec => []OnePassPerStudent
<1>1. Init => OnePassPerStudent
  BY DEF Init, OnePassPerStudent, Occupied, NoTicketRow, SeatStatus
<1>2. ASSUME IInv, OnePassPerStudent, [Next]_vars PROVE OnePassPerStudent'
  <2>1. ASSUME NEW e \in Events, NEW t \in Occupied(e)'
        PROVE  \/ t \in Occupied(e) /\ ticket'[t].user = ticket[t].user
               \/ \E r \in Reqs : Sold(r, t) /\ req[r].event = e
    BY <1>2, SeatsAppear
  <2>2. ASSUME NEW e \in Events, NEW s \in Occupied(e)', NEW t \in Occupied(e)',
               ticket'[s].user = ticket'[t].user, NEW r \in Reqs, Sold(r, t), e = req[r].event
        PROVE  s = t
    <3>1. t \in Tickets /\ ticket'[t].user = req[r].user /\ ticket'[t] # ticket[t]
      BY <1>2, <2>2 DEF Occupied, Sold, IInv, TypeOK
    <3>2. CASE s \in Occupied(e)
      <4>1. ticket'[s] = ticket[s] \/ s = t
        BY <1>2, <2>2, <3>2 DEF Sold, Occupied, IInv, TypeOK
      <4> QED BY <2>2, <3>1, <3>2, <4>1 DEF Sold, HasSeat
    <3>3. CASE s \notin Occupied(e)
      BY <1>2, <2>1, <2>2, <3>3 DEF Sold, Occupied, IInv, TypeOK
    <3> QED BY <3>2, <3>3
  <2> QED BY <1>2, <2>1, <2>2 DEF OnePassPerStudent
<1> QED BY <1>1, <1>2, Invariance, PTL DEF Spec

-----------------------------------------------------------------------------
(* Without a change of capacity *)

\* The assumption under which the seat counter is always exact: no PUT patches capacity_total.
FixedCapacity == \A p \in Patches : p.total = None

\* An event appears only by its creation.
LEMMA EventAppears ==
  ASSUME IInv, [Next]_vars, NEW e \in Events, ~Exists(e), Exists(e)'
  PROVE  \E n \in NewEvents : Create(e, n)
<1>1. ASSUME NEW r \in Reqs, Start(r) \/ Step(r) \/ Abort(r) PROVE FALSE
  <2>1. event' # event
    BY DEF Exists
  <2>2. CASE RegisterCommit(r) \/ CancelCommit(r) \/ UseCommit(r)
    BY <2>1, <2>2 DEF RegisterCommit, CancelCommit, UseCommit, Refuse, Exists, IInv, TypeOK, EventRow
  <2>3. CASE UpdateApply(r)
    BY <2>1, <2>3 DEF UpdateApply, Refuse, Exists, IInv, TypeOK
  <2>4. CASE DeleteCommit(r)
    BY <2>1, <2>4 DEF DeleteCommit, Exists, EventStatus, IInv, TypeOK, EventRow
  <2> QED BY <1>1, <2>1, <2>2, <2>3, <2>4, QuietSteps
<1>2. ASSUME NEW f \in Events, NEW d \in {"approved", "rejected"}, Moderate(f, d) PROVE FALSE
  BY <1>2 DEF Moderate, Exists, IInv, TypeOK, EventRow
<1>3. CASE Tick \/ UNCHANGED vars
  BY <1>3 DEF Tick, vars, Exists
<1>4. ASSUME NEW f \in Events, NEW n \in NewEvents, Create(f, n) PROVE f = e
  BY <1>4 DEF Create, Exists, IInv, TypeOK
<1> QED BY <1>1, <1>2, <1>3, <1>4 DEF Next

LEMMA CreatedExact ==
  ASSUME IInv, NEW e \in Events, ~Exists(e), NEW n \in NewEvents, Create(e, n)
  PROVE  Exact(e)' /\ Occupied(e)' = {}
<1>1. Occupied(e)' = {}
  BY DEF Create, Occupied, IInv, NoOrphanTicket, TicketStatus
<1>2. event'[e].total = n.total /\ event'[e].avail = n.total /\ n.total \in Nat
  BY BodiesTyped DEF Create, IInv, TypeOK, NewEventType
<1>3. Cardinality(Occupied(e)') = 0
  BY <1>1, FS_EmptySet
<1> QED BY <1>1, <1>2, <1>3 DEF Exact, SeatsLeft

LEMMA FixedCapacityStep ==
  ASSUME FixedCapacity, IInv, SeatsExact, [Next]_vars
  PROVE  SeatsExact'
<1>1. ASSUME NEW e \in Events, Exists(e)' PROVE Exact(e)'
  <2>1. CASE Exists(e)
    <3>1. \A r \in Reqs : req[r].op = "update" => req[r].patch.total = None
      BY DEF FixedCapacity, IInv, RequestsFormed
    <3> QED BY <1>1, <2>1, <3>1, StepExact DEF SeatsExact, StalePut
  <2>2. CASE ~Exists(e)
    BY <1>1, <2>2, EventAppears, CreatedExact
  <2> QED BY <2>1, <2>2
<1> QED BY <1>1 DEF SeatsExact

\* As long as no PUT changes a capacity, the counter agrees with the passes at
\* all times, whatever else happens.
THEOREM FixedCapacityExact ==
  ASSUME FixedCapacity
  PROVE  Spec => []SeatsExact
<1>1. Init => SeatsExact
  BY DEF Init, SeatsExact, Exists, NoEventRow, EventStatus
<1>2. FixedCapacity /\ IInv /\ SeatsExact /\ [Next]_vars => SeatsExact'
  BY FixedCapacityStep
<1> QED BY <1>1, <1>2, Invariance, PTL DEF Spec

\* The capacity of an event that stays does not change.
LEMMA TotalKept ==
  ASSUME FixedCapacity, IInv, [Next]_vars, NEW e \in Events, Exists(e)
  PROVE  event'[e].total = event[e].total
<1>1. ASSUME NEW r \in Reqs, Start(r) \/ Step(r) \/ Abort(r) PROVE event'[e].total = event[e].total
  <2>1. CASE RegisterCommit(r) \/ CancelCommit(r) \/ UseCommit(r)
    BY <2>1 DEF RegisterCommit, CancelCommit, UseCommit, Refuse, IInv, TypeOK, EventRow
  <2>2. CASE UpdateApply(r)
    <3>1. req[r].patch.total = None
      BY <2>2 DEF UpdateApply, At, FixedCapacity, IInv, RequestsFormed
    <3> QED BY <2>2, <3>1 DEF UpdateApply, Refuse, Patched, IInv, TypeOK
  <2>3. CASE DeleteCommit(r)
    BY <2>3 DEF DeleteCommit, IInv, TypeOK, EventRow
  <2> QED BY <1>1, <2>1, <2>2, <2>3, QuietSteps
<1>2. ASSUME NEW f \in Events, NEW n \in NewEvents, Create(f, n) PROVE event'[e].total = event[e].total
  BY <1>2 DEF Create, Exists, EventStatus, IInv, TypeOK
<1>3. ASSUME NEW f \in Events, NEW d \in {"approved", "rejected"}, Moderate(f, d)
      PROVE  event'[e].total = event[e].total
  BY <1>3 DEF Moderate, IInv, TypeOK, EventRow
<1>4. CASE Tick \/ UNCHANGED vars
  BY <1>4 DEF Tick, vars
<1> QED BY <1>1, <1>2, <1>3, <1>4 DEF Next

\* The same for overselling: a sale needs a counter above zero, hence a free seat.
THEOREM FixedCapacityNeverOversold ==
  ASSUME FixedCapacity
  PROVE  Spec => []NeverOversold
<1>1. Init => NeverOversold
  BY DEF Init, NeverOversold, Exists, NoEventRow, EventStatus
<1>2. FixedCapacity /\ IInv /\ SeatsExact /\ NeverOversold /\ [Next]_vars => NeverOversold'
  <2> SUFFICES ASSUME FixedCapacity, IInv, SeatsExact, NeverOversold, [Next]_vars,
                      NEW e \in Events, Exists(e)'
               PROVE  (Cardinality(Occupied(e)) <= event[e].total)'
    BY DEF NeverOversold
  <2>1. IsFiniteSet(Occupied(e)) /\ Cardinality(Occupied(e)) \in Nat
    BY OccupiedFinite DEF Occupied
  <2>2. CASE ~Exists(e)
    <3>1. PICK n \in NewEvents : Create(e, n)
      BY <2>2, EventAppears
    <3>2. Cardinality(Occupied(e)') = 0
      BY <2>2, <3>1, CreatedExact, FS_EmptySet
    <3>3. event'[e].total \in Nat
      BY NextInv DEF IInv, TypeOK, EventRow
    <3> QED BY <3>2, <3>3
  <2>3. CASE Exists(e)
    <3>1. event'[e].total = event[e].total /\ event[e].total \in Nat /\ event[e].avail \in Nat
      BY <2>3, TotalKept DEF IInv, TypeOK, EventRow
    <3>2. CASE \E r \in Reqs, t \in Tickets : Sold(r, t) /\ req[r].event = e
      <4>1. PICK r \in Reqs, t \in Tickets : Sold(r, t) /\ req[r].event = e
        BY <3>2
      <4>2. Occupied(e)' = Occupied(e) \cup {t} /\ t \notin Occupied(e) /\ event[e].avail > 0
        BY <4>1 DEF Sold, Occupied, SeatStatus, IInv, TypeOK
      <4>3. Cardinality(Occupied(e)') = Cardinality(Occupied(e)) + 1
        BY <2>1, <4>2, FS_AddElement
      <4>4. Cardinality(Occupied(e)) < event[e].total
        BY <2>1, <2>3, <3>1, <4>2 DEF SeatsExact, Exact, SeatsLeft
      <4> QED BY <2>1, <3>1, <4>3, <4>4
    <3>3. CASE ~ \E r \in Reqs, t \in Tickets : Sold(r, t) /\ req[r].event = e
      <4>1. ASSUME NEW t \in Occupied(e)'
            PROVE  t \in Occupied(e)
        <5>1. t \in Tickets
          BY DEF Occupied
        <5>2. t \in Occupied(e) \/ \E r \in Reqs : Sold(r, t) /\ req[r].event = e
          BY SeatsAppear
        <5> QED BY <3>3, <5>1, <5>2
      <4>2. Cardinality(Occupied(e)') <= Cardinality(Occupied(e)) /\ Cardinality(Occupied(e)') \in Nat
        <5>1. Occupied(e)' \subseteq Occupied(e)
          BY <4>1
        <5> QED BY <2>1, <5>1, FS_Subset, FS_CardinalityType
      <4> QED BY <2>1, <2>3, <3>1, <4>2 DEF NeverOversold
    <3> QED BY <3>2, <3>3
  <2> QED BY <2>2, <2>3
<1> QED BY <1>1, <1>2, Invariance, FixedCapacityExact, PTL DEF Spec

-----------------------------------------------------------------------------
(* Waiting requests, and the two places that compute the expiry *)

\* What a request waits for: a ticket, an event, or the tickets of an event that goes.
LEMMA WaitsFor ==
  ASSUME IInv, NEW r \in Reqs, NEW s, s \in Blockers(r)
  PROVE  /\ s # r
         /\ \/ req[r].pc = "ticket" /\ req[r].ticket \in Tickets /\ tkLock[req[r].ticket] = s
            \/ req[r].pc = "event" /\ req[r].event \in Events /\ evLock[req[r].event] = s
            \/ req[r].op = "delete"
<1>1. req[r] \in Request
  BY DEF IInv, TypeOK
<1>2. /\ s # r
      /\ \/ req[r].pc = "ticket" /\ tkLock[req[r].ticket] = s
         \/ req[r].pc = "event" /\ evLock[req[r].event] = s
         \/ req[r].pc = "cascade"
  BY <1>1 DEF Blockers, Request, Pcs
<1>3. /\ req[r].pc = "ticket" => req[r].ticket \in Tickets
      /\ req[r].pc = "event" => req[r].event \in Events
      /\ req[r].pc = "cascade" => req[r].op = "delete"
  BY <1>1 DEF IInv, RequestsFormed, Request, Ops, Redeems, Cancels, Idle
<1> QED BY <1>2, <1>3

\* Two requests that wait for each other: one of them deletes an event, as long as
\* tickets are locked before their event by all others.
THEOREM CirclesNeedDelete == Spec => []DeadlockNeedsDelete
<1>1. ASSUME IInv, NEW r \in Reqs, NEW s \in Reqs, s \in Blockers(r), r \in Blockers(s),
             "delete" \notin {req[r].op, req[s].op}
      PROVE  FALSE
  <2>1. ASSUME NEW a \in Reqs, NEW b \in Reqs, b \in Blockers(a), a \in Blockers(b),
               req[a].op # "delete", req[b].op # "delete"
        PROVE  req[a].pc # "event"
    <3>1. SUFFICES ASSUME req[a].pc = "event" PROVE FALSE
      OBVIOUS
    <3>2. req[a].event \in Events /\ evLock[req[a].event] = b
      BY <1>1, <2>1, <3>1, WaitsFor
    <3>3. req[b].pc \in {"recount", "cascade", "commit"}
      BY <1>1, <3>2 DEF IInv, LocksMatchRequests, HoldsEvent
    <3> QED BY <1>1, <2>1, <3>3, WaitsFor
  <2>2. req[r].pc = "ticket" /\ req[s].pc = "ticket"
    BY <1>1, <2>1, WaitsFor
  <2>3. req[r].ticket \in Tickets /\ tkLock[req[r].ticket] = s
    BY <1>1, <2>2, WaitsFor
  <2> QED BY <1>1, <2>2, <2>3 DEF IInv, LocksMatchRequests, HoldsTicket, Cascading
<1>2. IInv => DeadlockNeedsDelete
  BY <1>1 DEF DeadlockNeedsDelete
<1> QED BY <1>2, Invariance, PTL

\* The door admits a pass only while the holder's list shows it as active.
THEOREM DoorAgreesWithList == Spec => AdmitsOnlyShownActive
<1>1. ASSUME IInv, [Next]_vars, NEW t \in Tickets,
             ticket[t].status = "active", ticket'[t].status = "used"
      PROVE  \E r \in Reqs : /\ req[r].op = "use" /\ req[r].ticket = t
                             /\ [ticket |-> t, status |-> "active"] \in
                                  MyTickets(ticket[t].user, req[r].now)
  <2>1. PICK r \in Reqs : Sold(r, t) \/ Redeemed(r, t) \/ Removed(r, t)
    BY <1>1, TicketChanges
  <2>2. ticket[t] \in TicketRow
    BY <1>1 DEF IInv, TypeOK
  <2>3. UseCommit(r) /\ t = req[r].ticket
    <3>1. ~Sold(r, t) /\ ~Removed(r, t)
      BY <1>1, <2>2 DEF Sold, Removed, TicketRow
    <3>2. CASE CancelCommit(r) /\ ticket' = [ticket EXCEPT ![t].status = "cancelled"]
      BY <1>1, <2>2, <3>2 DEF IInv, TypeOK, TicketRow
    <3> QED BY <2>1, <3>1, <3>2 DEF Redeemed
  <2>4. /\ req[r].op = "use" /\ HoldsTicket(r, t) /\ HoldsEvent(r, req[r].event)
        /\ req[r].event \in Events
    BY <1>1, <2>3 DEF UseCommit, At, IInv, RequestsFormed, HoldsTicket, HoldsEvent, Redeems
  <2>5. ticket[t].event = req[r].event /\ CheckInOpen(req[r].event, req[r].now)
    BY <1>1, <2>4 DEF IInv, LockedTicketsKept, ChecksCurrent
  <2>6. req[r].now \in Nat /\ EndInstant(req[r].event) \in Nat
    <3>1. event[req[r].event] \in EventRow /\ req[r] \in Request
      BY <1>1, <2>4 DEF IInv, TypeOK
    <3> QED BY <3>1 DEF EventRow, Request, EndInstant
  <2>7. ShownStatus(t, req[r].now) = "active"
    BY <1>1, <2>5, <2>6 DEF CheckInOpen, ShownStatus
  <2>8. [ticket |-> t, status |-> "active"] \in MyTickets(ticket[t].user, req[r].now)
    BY <1>1, <2>7 DEF MyTickets, SeatStatus
  <2> QED BY <2>3, <2>4, <2>8
<1>2. IInv /\ [Next]_vars =>
        [\A t \in Tickets : (ticket[t].status = "active" /\ ticket'[t].status = "used") =>
           \E r \in Reqs : /\ req[r].op = "use" /\ req[r].ticket = t
                           /\ [ticket |-> t, status |-> "active"] \in
                                MyTickets(ticket[t].user, req[r].now)]_vars
  BY <1>1
<1> QED BY <1>2, Invariance, PTL DEF Spec, AdmitsOnlyShownActive

-----------------------------------------------------------------------------
(* The ledger: each step of the tables is one operation of SeatLedger or none *)

\* The variables of SeatLedger, as Ticketing maps them.
PhaseOf(e) == CASE event[e].status = "absent" -> "none"
                [] event[e].status = "deleted" -> "closed"
                [] OTHER -> "open"
OwnerOf(t) == IF ticket[t].status \in SeatStatus THEN ticket[t].user ELSE None
Admitted == {t \in Tickets : ticket[t].status = "used"}

\* A step that leaves each event and ticket as the ledger sees them is none of the ledger's.
LEMMA LedgerStutters ==
  ASSUME \A e \in Events : /\ PhaseOf(e)' = PhaseOf(e)
                           /\ event'[e].total = event[e].total /\ event'[e].avail = event[e].avail,
         UNCHANGED ticket
  PROVE  UNCHANGED Ledger!lvars
<1>1. UNCHANGED [e \in Events |-> PhaseOf(e)]
  OBVIOUS
<1>2. UNCHANGED <<[e \in Events |-> event[e].total], [e \in Events |-> event[e].avail]>>
  OBVIOUS
<1>3. UNCHANGED [e \in Events |-> Occupied(e)]
  BY SameSeats
<1>4. UNCHANGED <<[t \in Tickets |-> OwnerOf(t)], Admitted>>
  BY DEF OwnerOf, Admitted
<1> QED BY <1>1, <1>2, <1>3, <1>4 DEF Ledger!lvars, PhaseOf, OwnerOf, Admitted

LEMMA LedgerStarts == Init => Ledger!LInit
<1> SUFFICES ASSUME Init PROVE Ledger!LInit
  OBVIOUS
<1>1. \A e \in Events : /\ event[e].status = "absent" /\ event[e].total = 0 /\ event[e].avail = 0
                        /\ Occupied(e) = {}
  BY DEF Init, NoEventRow, NoTicketRow, Occupied, SeatStatus
<1>2. \A t \in Tickets : ticket[t].status = "absent"
  BY DEF Init, NoTicketRow
<1> QED BY <1>1, <1>2 DEF Ledger!LInit, SeatStatus

LEMMA SaleIsSell ==
  ASSUME IInv, NEW r \in Reqs, NEW t \in Tickets, Sold(r, t)
  PROVE  Ledger!Sell(req[r].event, req[r].user, t)
<1> DEFINE e == req[r].event
           u == req[r].user
<1>1. /\ RegisterCommit(r) /\ e \in Events /\ u \in Users /\ ticket[t].status = "absent"
      /\ ~HasSeat(u, e) /\ event[e].avail > 0 /\ event[e].avail \in Nat
  BY DEF Sold, RegisterCommit, At, IInv, RequestsFormed, TypeOK, EventRow
<1>2. /\ ticket' = [ticket EXCEPT ![t] = [status |-> "active", event |-> e, user |-> u]]
      /\ event' = [event EXCEPT ![e].avail = @ - 1]
  BY <1>1 DEF Sold, RegisterCommit, Refuse, IInv, TypeOK
<1>3. Exists(e)
  BY <1>1 DEF RegisterCommit, At, IInv, ChecksCurrent, HoldsEvent
<1>4. PhaseOf(e) = "open" /\ \A f \in Events : PhaseOf(f)' = PhaseOf(f)
  BY <1>1, <1>2, <1>3 DEF PhaseOf, Exists, EventStatus, IInv, TypeOK, EventRow
<1>5. \A f \in Events : /\ event'[f].total = event[f].total
                        /\ event'[f].avail = IF f = e THEN event[f].avail - 1 ELSE event[f].avail
  BY <1>1, <1>2 DEF IInv, TypeOK, EventRow
<1>6. \A f \in Events : Occupied(f)' = IF f = e THEN Occupied(f) \cup {t} ELSE Occupied(f)
  BY <1>1, <1>2 DEF Occupied, SeatStatus, IInv, TypeOK
<1>7. OwnerOf(t) = None /\ \A q \in Tickets : OwnerOf(q)' = IF q = t THEN u ELSE OwnerOf(q)
  BY <1>1, <1>2 DEF OwnerOf, SeatStatus, IInv, TypeOK
<1>8. \A q \in Occupied(e) : OwnerOf(q) # u
  BY <1>1 DEF HasSeat, OwnerOf, Occupied
<1>9. UNCHANGED Admitted
  BY <1>1, <1>2 DEF Admitted, IInv, TypeOK
<1>10. [f \in Events |-> Occupied(f)]' = [[f \in Events |-> Occupied(f)] EXCEPT ![e] = @ \cup {t}]
  BY <1>1, <1>6
<1>11. [q \in Tickets |-> OwnerOf(q)]' = [[q \in Tickets |-> OwnerOf(q)] EXCEPT ![t] = u]
  BY <1>7
<1>12. [f \in Events |-> event[f].avail]' = [[f \in Events |-> event[f].avail] EXCEPT ![e] = @ - 1]
  BY <1>1, <1>5
<1>13. UNCHANGED <<[f \in Events |-> PhaseOf(f)], [f \in Events |-> event[f].total]>>
  BY <1>4, <1>5
<1> QED BY <1>1, <1>4, <1>7, <1>8, <1>9, <1>10, <1>11, <1>12, <1>13
        DEF Ledger!Sell, PhaseOf, OwnerOf, Admitted, Occupied

\* The ledger counts as the tables do.
LEMMA LedgerCard == ASSUME NEW S PROVE Ledger!Cardinality(S) = Cardinality(S)
  BY DEF Ledger!Cardinality, Cardinality

\* What cancelling and checking in have in common: the recount of one event.
LEMMA RecountSeen ==
  ASSUME IInv, NEW r \in Reqs, CancelCommit(r) \/ UseCommit(r)
  PROVE  LET e == req[r].event
             t == req[r].ticket
         IN /\ e \in Events /\ t \in Tickets /\ t \in Occupied(e) /\ ticket[t].status = "active"
            /\ req[r].op \in Redeems /\ HoldsEvent(r, e) /\ req[r].pc = "commit"
            /\ \A f \in Events : PhaseOf(f)' = PhaseOf(f) /\ event'[f].total = event[f].total
            /\ [f \in Events |-> event[f].avail]' =
                 [[f \in Events |-> event[f].avail] EXCEPT ![e] = SeatsLeft(event[e].total, req[r].count)]
<1> DEFINE e == req[r].event
           t == req[r].ticket
<1>1. /\ t \in Tickets /\ e \in Events /\ req[r].op \in Redeems /\ req[r].pc = "commit"
      /\ HoldsTicket(r, t) /\ HoldsEvent(r, e)
  BY DEF CancelCommit, UseCommit, At, IInv, RequestsFormed, HoldsTicket, HoldsEvent, Redeems, Cancels
<1>2. ticket[t].status = "active" /\ ticket[t].event = e
  BY <1>1 DEF IInv, LockedTicketsKept
<1>3. event' = [event EXCEPT ![e].avail = SeatsLeft(event[e].total, req[r].count)]
  BY DEF CancelCommit, UseCommit
<1>4. \A f \in Events : /\ event'[f].status = event[f].status /\ event'[f].total = event[f].total
                        /\ event'[f].avail = IF f = e THEN SeatsLeft(event[e].total, req[r].count)
                                             ELSE event[f].avail
  BY <1>1, <1>3 DEF IInv, TypeOK, EventRow
<1>5. [f \in Events |-> event[f].avail]' =
        [[f \in Events |-> event[f].avail] EXCEPT ![e] = SeatsLeft(event[e].total, req[r].count)]
  BY <1>1, <1>4
<1> QED BY <1>1, <1>2, <1>4, <1>5 DEF PhaseOf, Occupied, SeatStatus

LEMMA CancelIsReturn ==
  ASSUME IInv, NEW r \in Reqs, CancelCommit(r), NEW e, NEW t, e = req[r].event, t = req[r].ticket
  PROVE  Ledger!Return(e, t)
<1>1. /\ e \in Events /\ t \in Tickets /\ t \in Occupied(e) /\ ticket[t].status = "active"
      /\ HoldsEvent(r, e) /\ req[r].pc = "commit" /\ req[r].op \in Cancels
  BY RecountSeen DEF CancelCommit, At
<1>2. /\ \A f \in Events : PhaseOf(f)' = PhaseOf(f) /\ event'[f].total = event[f].total
      /\ [f \in Events |-> event[f].avail]' =
           [[f \in Events |-> event[f].avail] EXCEPT ![e] = SeatsLeft(event[e].total, req[r].count)]
  BY RecountSeen
<1>3. req[r].count = Cardinality(Occupied(e) \ {t})
  BY <1>1 DEF IInv, CountsCurrent
<1>4. ticket' = [ticket EXCEPT ![t].status = "cancelled"]
  BY DEF CancelCommit
<1>5. \A q \in Tickets : /\ q # t => ticket'[q] = ticket[q]
                         /\ ticket'[q].status = IF q = t THEN "cancelled" ELSE ticket[q].status
                         /\ ticket'[q].event = ticket[q].event /\ ticket'[q].user = ticket[q].user
  BY <1>1, <1>4 DEF IInv, TypeOK, TicketRow
<1>6. \A f \in Events : Occupied(f)' = IF f = e THEN Occupied(f) \ {t} ELSE Occupied(f)
  BY <1>1, <1>5 DEF Occupied, SeatStatus
<1>7. \A q \in Tickets : OwnerOf(q)' = IF q = t THEN None ELSE OwnerOf(q)
  BY <1>5 DEF OwnerOf, SeatStatus
<1>8. UNCHANGED Admitted /\ t \notin Admitted
  BY <1>1, <1>5 DEF Admitted
<1>9. [f \in Events |-> Occupied(f)]' = [[f \in Events |-> Occupied(f)] EXCEPT ![e] = @ \ {t}]
  BY <1>1, <1>6
<1>10. [q \in Tickets |-> OwnerOf(q)]' = [[q \in Tickets |-> OwnerOf(q)] EXCEPT ![t] = None]
  BY <1>7
<1>11. UNCHANGED <<[f \in Events |-> PhaseOf(f)], [f \in Events |-> event[f].total]>>
  BY <1>2
<1>12. [f \in Events |-> event[f].avail]' =
         [[f \in Events |-> event[f].avail] EXCEPT
            ![e] = Ledger!Left(event[e].total, Cardinality(Occupied(e) \ {t}))]
  BY <1>2, <1>3 DEF SeatsLeft, Ledger!Left
<1>13. /\ [f \in Events |-> event[f].total][e] = event[e].total
       /\ [f \in Events |-> Occupied(f)][e] = Occupied(e)
  BY <1>1
<1>14. Ledger!Cardinality(Occupied(e) \ {t}) = Cardinality(Occupied(e) \ {t})
  BY LedgerCard
<1> QED BY <1>1, <1>8, <1>9, <1>10, <1>11, <1>12, <1>13, <1>14
        DEF Ledger!Return, PhaseOf, OwnerOf, Admitted

LEMMA UseIsAdmit ==
  ASSUME IInv, NEW r \in Reqs, UseCommit(r), NEW e, NEW t, e = req[r].event, t = req[r].ticket
  PROVE  Ledger!Admit(e, t)
<1>1. /\ e \in Events /\ t \in Tickets /\ t \in Occupied(e) /\ ticket[t].status = "active"
      /\ HoldsEvent(r, e) /\ req[r].pc = "commit" /\ req[r].op = "use"
  BY RecountSeen DEF UseCommit, At
<1>2. /\ \A f \in Events : PhaseOf(f)' = PhaseOf(f) /\ event'[f].total = event[f].total
      /\ [f \in Events |-> event[f].avail]' =
           [[f \in Events |-> event[f].avail] EXCEPT ![e] = SeatsLeft(event[e].total, req[r].count)]
  BY RecountSeen
<1>3. req[r].count = Cardinality(Occupied(e))
  BY <1>1 DEF IInv, CountsCurrent
<1>4. ticket' = [ticket EXCEPT ![t].status = IF @ = "active" THEN "used" ELSE @]
  BY DEF UseCommit
<1>5. \A q \in Tickets : /\ ticket'[q].status = IF q = t THEN "used" ELSE ticket[q].status
                         /\ ticket'[q].event = ticket[q].event /\ ticket'[q].user = ticket[q].user
  BY <1>1, <1>4 DEF IInv, TypeOK, TicketRow
<1>6. \A f \in Events : Occupied(f)' = Occupied(f)
  BY <1>1, <1>5 DEF Occupied, SeatStatus
<1>7. \A q \in Tickets : OwnerOf(q)' = OwnerOf(q)
  BY <1>1, <1>5 DEF OwnerOf, SeatStatus
<1>8. Admitted' = Admitted \cup {t} /\ t \notin Admitted
  BY <1>1, <1>5 DEF Admitted
<1>9. UNCHANGED <<[f \in Events |-> PhaseOf(f)], [f \in Events |-> event[f].total],
                  [f \in Events |-> Occupied(f)], [q \in Tickets |-> OwnerOf(q)]>>
  BY <1>2, <1>6, <1>7
<1>10. [f \in Events |-> event[f].avail]' =
         [[f \in Events |-> event[f].avail] EXCEPT
            ![e] = Ledger!Left(event[e].total, Cardinality(Occupied(e)))]
  BY <1>2, <1>3 DEF SeatsLeft, Ledger!Left
<1>11. /\ [f \in Events |-> event[f].total][e] = event[e].total
       /\ [f \in Events |-> Occupied(f)][e] = Occupied(e)
  BY <1>1
<1>12. Ledger!Cardinality(Occupied(e)) = Cardinality(Occupied(e))
  BY LedgerCard
<1> QED BY <1>1, <1>8, <1>9, <1>10, <1>11, <1>12
        DEF Ledger!Admit, PhaseOf, OwnerOf, Admitted

LEMMA PutIsResize ==
  ASSUME IInv, NEW r \in Reqs, UpdateApply(r), ~Refuse(r), NEW e, NEW p, e = req[r].event, p = req[r].patch
  PROVE  Ledger!Resize(e, p.total) \/ UNCHANGED Ledger!lvars
<1>1. e \in Events /\ p \in Patches /\ p \in PatchType /\ Exists(e) /\ req[r].count \in Nat
  BY BodiesTyped DEF UpdateApply, At, IInv, RequestsFormed, TypeOK, Request
<1>2. /\ UNCHANGED ticket
      /\ \A f \in Events : f # e => event'[f] = event[f]
      /\ event'[e].status = Patched(event[e].status, p.status)
      /\ event'[e].total = Patched(event[e].total, p.total)
      /\ event'[e].avail = IF p.total = None THEN event[e].avail ELSE SeatsLeft(p.total, req[r].count)
  BY <1>1 DEF UpdateApply, IInv, TypeOK
<1>3. /\ PhaseOf(e) = "open" /\ \A f \in Events : PhaseOf(f)' = PhaseOf(f)
  BY <1>1, <1>2 DEF PhaseOf, Exists, EventStatus, Patched, PatchType
<1>4. CASE p.total = None
  <2>1. \A f \in Events : /\ PhaseOf(f)' = PhaseOf(f)
                          /\ event'[f].total = event[f].total /\ event'[f].avail = event[f].avail
    BY <1>2, <1>3, <1>4 DEF Patched
  <2> QED BY <1>2, <2>1, LedgerStutters
<1>5. CASE p.total # None
  <2>0. p.total \in Nat
    BY <1>1, <1>5 DEF PatchType
  <2>1. SeatsLeft(p.total, req[r].count) \in 0 .. p.total
    BY <1>1, <2>0 DEF SeatsLeft
  <2>2. [f \in Events |-> event[f].total]' = [[f \in Events |-> event[f].total] EXCEPT ![e] = p.total]
    BY <1>1, <1>2, <1>5 DEF Patched
  <2>3. [f \in Events |-> event[f].avail]' =
          [[f \in Events |-> event[f].avail] EXCEPT ![e] = SeatsLeft(p.total, req[r].count)]
    BY <1>1, <1>2, <1>5
  <2>4. UNCHANGED <<[f \in Events |-> PhaseOf(f)], [f \in Events |-> Occupied(f)],
                    [q \in Tickets |-> OwnerOf(q)], Admitted>>
    BY <1>2, <1>3, SameSeats DEF OwnerOf, Admitted
  <2> QED BY <1>1, <1>3, <2>1, <2>2, <2>3, <2>4
          DEF Ledger!Resize, PhaseOf, OwnerOf, Admitted, Occupied
<1> QED BY <1>4, <1>5

LEMMA DeleteIsClose ==
  ASSUME IInv, NEW r \in Reqs, DeleteCommit(r), NEW e, e = req[r].event
  PROVE  Ledger!Close(e)
<1>1. e \in Events /\ Exists(e)
  BY DEF DeleteCommit, At, IInv, RequestsFormed, ChecksCurrent, HoldsEvent
<1>2. /\ \A f \in Events : /\ event'[f].status = IF f = e THEN "deleted" ELSE event[f].status
                           /\ event'[f].total = event[f].total /\ event'[f].avail = event[f].avail
  BY <1>1 DEF DeleteCommit, IInv, TypeOK, EventRow
<1>3. \A q \in Tickets : /\ ticket'[q].status = IF q \in RowsOf(e) THEN "deleted" ELSE ticket[q].status
                         /\ ticket'[q].event = ticket[q].event /\ ticket'[q].user = ticket[q].user
  BY DEF DeleteCommit, IInv, TypeOK, TicketRow
<1>4. \A q \in Tickets : q \in RowsOf(e) <=> (ticket[q].event = e /\ ticket[q].status \in TicketStatus)
  BY DEF RowsOf
<1>5. PhaseOf(e) = "open" /\ \A f \in Events : PhaseOf(f)' = IF f = e THEN "closed" ELSE PhaseOf(f)
  BY <1>1, <1>2 DEF PhaseOf, Exists, EventStatus
<1>6. \A f \in Events : Occupied(f)' = IF f = e THEN {} ELSE Occupied(f)
  BY <1>3, <1>4 DEF Occupied, SeatStatus, TicketStatus
<1>7. \A q \in Tickets : OwnerOf(q)' = IF q \in Occupied(e) THEN None ELSE OwnerOf(q)
  BY <1>3, <1>4 DEF OwnerOf, Occupied, SeatStatus, TicketStatus
<1>8. Admitted' = Admitted \ Occupied(e)
  BY <1>3, <1>4 DEF Admitted, Occupied, SeatStatus, TicketStatus
<1>9. [f \in Events |-> PhaseOf(f)]' = [[f \in Events |-> PhaseOf(f)] EXCEPT ![e] = "closed"]
  BY <1>1, <1>5
<1>10. [f \in Events |-> Occupied(f)]' = [[f \in Events |-> Occupied(f)] EXCEPT ![e] = {}]
  BY <1>1, <1>6
<1>11. [q \in Tickets |-> OwnerOf(q)]' =
         [q \in Tickets |-> IF q \in Occupied(e) THEN None ELSE OwnerOf(q)]
  BY <1>7
<1>12. UNCHANGED <<[f \in Events |-> event[f].total], [f \in Events |-> event[f].avail]>>
  BY <1>2
<1> QED BY <1>1, <1>5, <1>8, <1>9, <1>10, <1>11, <1>12
        DEF Ledger!Close, PhaseOf, OwnerOf, Admitted, Occupied

LEMMA CreateIsAnnounce ==
  ASSUME IInv, NEW e \in Events, NEW n \in NewEvents, Create(e, n)
  PROVE  Ledger!Announce(e, n.total)
<1>1. /\ event[e].status = "absent" /\ UNCHANGED ticket
      /\ \A f \in Events : f # e => event'[f] = event[f]
      /\ event'[e].status = "published" /\ event'[e].total = n.total /\ event'[e].avail = n.total
  BY DEF Create, IInv, TypeOK
<1>2. PhaseOf(e) = "none" /\ \A f \in Events : PhaseOf(f)' = IF f = e THEN "open" ELSE PhaseOf(f)
  BY <1>1 DEF PhaseOf
<1>3. [f \in Events |-> PhaseOf(f)]' = [[f \in Events |-> PhaseOf(f)] EXCEPT ![e] = "open"]
  BY <1>2
<1>4. /\ [f \in Events |-> event[f].total]' = [[f \in Events |-> event[f].total] EXCEPT ![e] = n.total]
      /\ [f \in Events |-> event[f].avail]' = [[f \in Events |-> event[f].avail] EXCEPT ![e] = n.total]
  BY <1>1
<1>5. UNCHANGED <<[f \in Events |-> Occupied(f)], [q \in Tickets |-> OwnerOf(q)], Admitted>>
  BY <1>1, SameSeats DEF OwnerOf, Admitted
<1> QED BY <1>2, <1>3, <1>4, <1>5 DEF Ledger!Announce, PhaseOf, OwnerOf, Admitted, Occupied

\* Every step of the tables is one operation of the ledger or none.
LEMMA LedgerSteps == IInv /\ [Next]_vars => [Ledger!LNext]_(Ledger!lvars)
<1> SUFFICES ASSUME IInv, [Next]_vars PROVE Ledger!LNext \/ UNCHANGED Ledger!lvars
  OBVIOUS
<1>1. ASSUME NEW r \in Reqs, Start(r) \/ Step(r) \/ Abort(r)
      PROVE  Ledger!LNext \/ UNCHANGED Ledger!lvars
  <2>1. CASE UNCHANGED <<event, ticket>>
    BY <2>1, LedgerStutters DEF PhaseOf
  <2>2. CASE RegisterCommit(r) /\ ~Refuse(r)
    <3>1. Sold(r, req[r].ticket) /\ req[r].ticket \in Tickets /\ req[r].event \in Events /\ req[r].user \in Users
      BY <2>2 DEF Sold, RegisterCommit, At, IInv, RequestsFormed, PayloadsReserved
    <3> QED BY <3>1, SaleIsSell DEF Ledger!LNext
  <2>3. CASE CancelCommit(r) \/ UseCommit(r)
    <3>1. PICK e \in Events, t \in Tickets : e = req[r].event /\ t = req[r].ticket
      BY <2>3, RecountSeen
    <3>2. Ledger!Return(e, t) \/ Ledger!Admit(e, t)
      BY <2>3, <3>1, CancelIsReturn, UseIsAdmit
    <3> QED BY <3>2 DEF Ledger!LNext
  <2>4. CASE UpdateApply(r) /\ ~Refuse(r)
    <3>1. PICK e \in Events, p \in Patches : e = req[r].event /\ p = req[r].patch
      BY <2>4 DEF UpdateApply, At, IInv, RequestsFormed
    <3>2. Ledger!Resize(e, p.total) \/ UNCHANGED Ledger!lvars
      BY <2>4, <3>1, PutIsResize
    <3> QED BY <3>2 DEF Ledger!LNext
  <2>5. CASE DeleteCommit(r)
    <3>1. PICK e \in Events : e = req[r].event
      BY <2>5 DEF DeleteCommit, At, IInv, RequestsFormed
    <3>2. Ledger!Close(e)
      BY <2>5, <3>1, DeleteIsClose
    <3> QED BY <3>2 DEF Ledger!LNext
  <2> QED BY <1>1, <2>1, <2>2, <2>3, <2>4, <2>5, QuietSteps DEF Refuse
<1>2. ASSUME NEW e \in Events, NEW n \in NewEvents, Create(e, n) PROVE Ledger!LNext
  BY <1>2, CreateIsAnnounce DEF Ledger!LNext
<1>3. ASSUME NEW e \in Events, NEW d \in {"approved", "rejected"}, Moderate(e, d)
      PROVE  UNCHANGED Ledger!lvars
  BY <1>3, LedgerStutters DEF Moderate, PhaseOf, IInv, TypeOK, EventRow
<1>4. CASE Tick \/ UNCHANGED vars
  BY <1>4, LedgerStutters DEF Tick, vars, PhaseOf
<1> QED BY <1>1, <1>2, <1>3, <1>4 DEF Next

\* The tables implement the ledger: each request takes effect at one instant or not at all.
THEOREM TicketingImplementsLedger == Spec => ImplementsLedger
  BY LedgerStarts, LedgerSteps, Invariance, PTL DEF Spec, ImplementsLedger, Ledger!LSpec

=============================================================================
