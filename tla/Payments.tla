------------------------------ MODULE Payments ------------------------------
(***************************************************************************)
(* Payments for passes: a student initiates a payment, the provider reports *)
(* its outcome by webhooks, and a payment that failed gives the seat back.  *)
(* The provider repeats a report until it is answered 200, may repeat it    *)
(* after that, and reports overtake each other.  A webhook writes the row   *)
(* of the payment, looks the pass up and cancels it in three separate steps *)
(* without a transaction around them.  The seats are those of SeatLedger,    *)
(* which the tables of Ticketing implement.                                 *)
(***************************************************************************)
EXTENDS EventDesk

CONSTANTS
  Refs,      \* provider_ref of payments; bounds how many are initiated
  Hooks,     \* webhook handlers that run at once
  Reports    \* what the provider may report, "other" for a status nobody knows

PayStatus == {"pending", "succeeded", "failed", "canceled"}
Releasing == {"failed", "canceled"}

ASSUME NoneIsNoRef == None \notin Refs
ASSUME ReportsKnown == Reports \subseteq PayStatus \cup {"other"}

VARIABLES
  store,    \* the payment repository: "postgres", or the "stub" the router wires
  payment,  \* payment[f]: the row with provider_ref f
  told,     \* told[f][x]: "no", x was "sent" by the provider, or "answered" with 200
  hook,     \* hook[h]: the webhook handler h
  issued,   \* the passes registered so far: their ids are never used again
  cleared   \* cleared[f]: passes registered when a failure of f that was answered
            \* 200 wrote the row (history)

pvars == <<store, payment, told, hook, issued, cleared>>

Payment == [status : PayStatus \cup {"absent", "deleted"},
            user : Students \cup {None}, event : Events \cup {None}]

Hook == [pc : {"idle", "update", "lookup", "cancel", "answer"}, ref : Refs \cup {None},
         status : Reports \cup {None}, pass : Passes \cup {None},
         known : SUBSET Passes]

\* History: "known" are the passes registered when the row was written.
NoHook == [pc |-> "idle", ref |-> None, status |-> None, pass |-> None,
           known |-> {}]

PInit ==
  /\ DeskInit
  /\ store \in {"postgres", "stub"}
  /\ payment = [f \in Refs |-> [status |-> "absent", user |-> None, event |-> None]]
  /\ told = [f \in Refs |-> [x \in Reports |-> "no"]]
  /\ hook = [h \in Hooks |-> NoHook]
  /\ issued = {}
  /\ cleared = [f \in Refs |-> {}]

HasRow(f) == payment[f].status \in PayStatus

\* tickets WHERE event_id AND user_id AND status IN ('active', 'used')
PassesOf(s, e) == {p \in held[e] : owner[p] = s}

-----------------------------------------------------------------------------
(* The ticket office *)

Open(e, n) == Announce(e, n) /\ UNCHANGED <<pvars, faults, now>>

Register(e, s, p) ==
  /\ p \notin issued
  /\ Sell(e, s, p)
  /\ issued' = issued \cup {p}
  /\ UNCHANGED <<store, payment, told, hook, cleared, faults, now>>

GiveBack(e, p) == Return(e, p) /\ UNCHANGED <<pvars, faults, now>>

CheckIn(e, p) == Admit(e, p) /\ UNCHANGED <<pvars, faults, now>>

\* payments.event_id ON DELETE CASCADE
Remove(e) ==
  /\ Close(e)
  /\ payment' = [f \in Refs |-> IF payment[f].event = e /\ HasRow(f)
                                THEN [payment[f] EXCEPT !.status = "deleted"] ELSE payment[f]]
  /\ UNCHANGED <<store, told, hook, issued, cleared, faults, now>>

-----------------------------------------------------------------------------
(* POST /payments/initiate *)

\* No pass is asked for, and a student may pay more than once for an event.
Initiate(f, s, e) ==
  /\ store = "postgres"
  /\ payment[f].status = "absent"
  /\ phase[e] = "open"
  /\ payment' = [payment EXCEPT ![f] = [status |-> "pending", user |-> s, event |-> e]]
  /\ UNCHANGED <<store, told, hook, issued, cleared, desk>>

-----------------------------------------------------------------------------
(* POST /payments/webhook *)

\* The provider reports x for the payment f, once or again, in any order; the
\* signature of the body is the provider's.
Deliver(h, f, x) ==
  /\ hook[h] = NoHook
  /\ payment[f].status # "absent"
  /\ told' = [told EXCEPT ![f][x] = IF @ = "no" THEN "sent" ELSE @]
  /\ hook' = [hook EXCEPT ![h] = [NoHook EXCEPT !.pc = "update", !.ref = f, !.status = x]]
  /\ UNCHANGED <<store, payment, issued, cleared, desk>>

\* Mutant: every answered report releases, the good one too.
AfterUpdateAlways(x) == IF x \in PayStatus THEN "lookup" ELSE "answer"

\* Only a failure goes on to the pass.
AfterUpdate(x) == IF x \in Releasing THEN "lookup" ELSE "answer"

\* No 200: 404 without a row, 500 for a status the CHECK of the column refuses, 501
\* from the stub.
Fruitless(h) ==
  /\ hook' = [hook EXCEPT ![h] = NoHook]
  /\ UNCHANGED <<store, payment, told, issued, cleared, desk>>

\* Mutant: a payment that already has the reported status is answered at once.
UpdateOnce(h) ==
  LET f == hook[h].ref
      x == hook[h].status
  IN
  /\ hook[h].pc = "update"
  /\ HasRow(f) /\ x \in PayStatus
  /\ hook' = [hook EXCEPT ![h] = [@ EXCEPT !.pc = IF payment[f].status = x THEN "answer"
                                                  ELSE AfterUpdate(x), !.known = issued]]
  /\ payment' = [payment EXCEPT ![f].status = x]
  /\ UNCHANGED <<store, told, issued, cleared, desk>>

\* Mutant: only a failure is written.
UpdateFailuresOnly(h) ==
  LET f == hook[h].ref
      x == hook[h].status
  IN
  /\ hook[h].pc = "update"
  /\ HasRow(f) /\ x \in PayStatus
  /\ hook' = [hook EXCEPT ![h] = [@ EXCEPT !.pc = AfterUpdate(x), !.known = issued]]
  /\ payment' = [payment EXCEPT ![f].status = IF x \in Releasing THEN x ELSE @]
  /\ UNCHANGED <<store, told, issued, cleared, desk>>

\* UPDATE payments ... WHERE provider_ref, whatever the status was before.
UpdateStatus(h) ==
  LET f == hook[h].ref
      x == hook[h].status
  IN
  /\ hook[h].pc = "update"
  /\ \/ /\ HasRow(f) /\ x \in PayStatus
        /\ hook' = [hook EXCEPT ![h] = [@ EXCEPT !.pc = AfterUpdate(x), !.known = issued]]
        /\ payment' = [payment EXCEPT ![f].status = x]
        /\ UNCHANGED <<store, told, issued, cleared, desk>>
     \/ ~(HasRow(f) /\ x \in PayStatus) /\ Fruitless(h)

\* GetByEventAndUser: the student has no pass, or the one to cancel.
Lookup(h) ==
  LET found == PassesOf(payment[hook[h].ref].user, payment[hook[h].ref].event) IN
  /\ hook[h].pc = "lookup"
  /\ \/ /\ found = {}
        /\ hook' = [hook EXCEPT ![h] = [@ EXCEPT !.pc = "answer"]]
     \/ \E p \in found : hook' = [hook EXCEPT ![h] = [@ EXCEPT !.pc = "cancel", !.pass = p]]
  /\ UNCHANGED <<store, payment, told, issued, cleared, desk>>

\* CancelTicket: the pass goes; it is used or cancelled already, which counts as
\* done; or its event was deleted with it, which is an error.
CancelPass(h) ==
  LET e == payment[hook[h].ref].event
      p == hook[h].pass
      done == [hook EXCEPT ![h] = [@ EXCEPT !.pc = "answer"]]
  IN
  /\ hook[h].pc = "cancel"
  /\ \/ /\ Return(e, p)
        /\ hook' = done
        /\ UNCHANGED <<store, payment, told, issued, cleared, faults, now>>
     \/ /\ phase[e] = "open" /\ p \notin held[e] \ admitted
        /\ hook' = done
        /\ UNCHANGED <<store, payment, told, issued, cleared, desk>>
     \/ phase[e] = "closed" /\ Fruitless(h)

\* 200
Answer(h) ==
  LET f == hook[h].ref IN
  /\ hook[h].pc = "answer"
  /\ told' = [told EXCEPT ![f][hook[h].status] = "answered"]
  /\ cleared' = [cleared EXCEPT ![f] = IF hook[h].status \in Releasing
                                       THEN @ \cup hook[h].known ELSE @]
  /\ hook' = [hook EXCEPT ![h] = NoHook]
  /\ UNCHANGED <<store, payment, issued, desk>>

\* The handler is cut off, or its answer lost, between any two steps: a failing
\* statement, the request timeout, a lost connection, a killed process.
CutOff(h) ==
  /\ hook[h] # NoHook
  /\ Fault
  /\ hook' = [hook EXCEPT ![h] = NoHook]
  /\ UNCHANGED <<store, payment, told, issued, cleared, now, lvars>>

-----------------------------------------------------------------------------
Handle(h) == UpdateStatus(h) \/ Lookup(h) \/ CancelPass(h) \/ Answer(h)

Office ==
  \E e \in Events :
    \/ \E n \in Sizes : Open(e, n)
    \/ \E s \in Students, p \in Passes : Register(e, s, p)
    \/ \E p \in Passes : GiveBack(e, p) \/ CheckIn(e, p)
    \/ Remove(e)

PNext ==
  \/ Office
  \/ \E f \in Refs, s \in Students, e \in Events : Initiate(f, s, e)
  \/ \E f \in Refs, x \in Reports : \E h \in Hooks : Deliver(h, f, x)
  \/ \E h \in Hooks : Handle(h) \/ CutOff(h)

PSpec == PInit /\ [][PNext]_<<desk, pvars>>

\* The provider delivers a report again and again until it is answered 200; a
\* handler that is not cut off runs on.  Nobody has to pay or to come.
Retry(f, x) == told[f][x] = "sent" /\ \E h \in Hooks : Deliver(h, f, x)

PFair ==
  /\ \A f \in Refs, x \in Reports : SF_<<desk, pvars>>(Retry(f, x))
  /\ \A h \in Hooks : WF_<<desk, pvars>>(Handle(h))

-----------------------------------------------------------------------------
(* What the code is meant to guarantee *)

PaymentsTypeOK ==
  /\ store \in {"postgres", "stub"}
  /\ payment \in [Refs -> Payment]
  /\ told \in [Refs -> [Reports -> {"no", "sent", "answered"}]]
  /\ hook \in [Hooks -> Hook]
  /\ issued \subseteq Passes
  /\ cleared \in [Refs -> SUBSET Passes]

\* Once a webhook that reports a failure is answered 200, no pass the student had
\* when it came in keeps a seat, unless it was used; also when the handler was cut
\* off after writing the row and the provider had to repeat the report.
AnsweredReleases ==
  \A f \in Refs :
    LET e == payment[f].event IN
    e \in Events => PassesOf(payment[f].user, e) \cap cleared[f] \subseteq admitted

\* A payment with one reported outcome keeps it from the first 200 on, however
\* often the webhook is repeated and whatever happens to other payments.
OutcomeRecorded ==
  \A f \in Refs, x \in Reports :
    (/\ HasRow(f) /\ told[f][x] = "answered"
     /\ \A y \in Reports \ {x} : told[f][y] = "no") => payment[f].status = x

\* A seat is given back only for a failure: while all reports of a student's
\* payments for an event are good ones, no webhook touches the student's pass.
GoodReportsKeepSeats ==
  [][\A h \in Hooks, e \in Events :
       (hook[h].pc = "cancel" /\ hook'[h].pc = "answer" /\ held'[e] # held[e]) =>
         \E f \in Refs, p \in held[e] \ held'[e] :
           /\ payment[f].event = e /\ payment[f].user = owner[p]
           /\ \E x \in {"failed", "canceled"} \cap Reports : told[f][x] # "no"]_<<desk, pvars>>

\* The seat of a failed payment is free in the end (or the pass was used): the
\* provider repeats its report, and every repetition does the whole work again.
\* A handler that wrote the row may look the pass up before it is bought: none has.
FailureReleases ==
  \A f \in Refs, p \in Passes, x \in Releasing \cap Reports :
    (/\ HasRow(f) /\ told[f][x] = "sent"
     /\ \A h \in Hooks : hook[h].ref = f => hook[h].pc = "update"
     /\ p \in PassesOf(payment[f].user, payment[f].event)) ~>
    (p \in admitted \/ \A e \in Events : p \notin held[e])
=============================================================================
