--------------------------- MODULE PaymentsProofs ---------------------------
(* Theorems about Payments, for any students, events, payments, reports and hooks. *)
EXTENDS Payments, TLAPS

\* A pass in a seat was issued, to a student who has no other one for the event,
\* and for one event.
SeatsFine ==
  /\ held \in [Events -> SUBSET Passes]
  /\ owner \in [Passes -> Students \cup {None}]
  /\ \A e \in Events : \A p \in held[e] : p \in issued /\ owner[p] \in Students
  /\ \A e \in Events : \A p, q \in held[e] : owner[p] = owner[q] => p = q
  /\ \A d, e \in Events : \A p \in held[d] \cap held[e] : d = e

\* Mine(f): the pass that the payment f is about, if there is one.
Mine(f) == PassesOf(payment[f].user, payment[f].event)

Only(f, x) == \A y \in Reports \ {x} : told[f][y] = "no"

\* A row that was never there has no reports; one that was keeps its outcome, and
\* what an answered failure had to release is released.
RefFine(f) ==
  /\ payment[f].status = "absent" => cleared[f] = {} /\ \A y \in Reports : told[f][y] = "no"
  /\ payment[f].status # "absent" => payment[f].user \in Students /\ payment[f].event \in Events
  /\ cleared[f] \subseteq issued
  /\ payment[f].event \in Events => Mine(f) \cap cleared[f] \subseteq admitted
  /\ \A x \in Reports :
       (HasRow(f) /\ told[f][x] = "answered" /\ Only(f, x)) => payment[f].status = x

\* How far a handler has come: what is written, what is left to release.
HookFine(h) ==
  LET r == hook[h]
      f == hook[h].ref
  IN
  /\ r.known \subseteq issued
  /\ r.pc # "idle" => /\ f \in Refs /\ r.status \in Reports
                      /\ told[f][r.status] # "no" /\ payment[f].status # "absent"
  /\ r.pc \in {"lookup", "cancel", "answer"} =>
       (HasRow(f) /\ Only(f, r.status) => payment[f].status = r.status)
  /\ r.pc \in {"lookup", "cancel"} => r.status \in Releasing
  /\ r.pc = "cancel" =>
       /\ r.pass \in issued
       /\ r.pass \in held[payment[f].event] => owner[r.pass] = payment[f].user
       /\ Mine(f) \cap r.known \subseteq admitted \cup {r.pass}
  /\ r.pc = "answer" /\ r.status \in Releasing => Mine(f) \cap r.known \subseteq admitted

PayInv ==
  /\ PaymentsTypeOK
  /\ SeatsFine
  /\ \A f \in Refs : RefFine(f)
  /\ \A h \in Hooks : HookFine(h)

-----------------------------------------------------------------------------
(* Seats *)

\* No step gives an issued pass a seat, another owner, or takes its admission back.
NothingBack ==
  /\ issued \subseteq issued'
  /\ \A e \in Events, p \in issued : p \in held'[e] =>
       /\ p \in held[e] /\ owner'[p] = owner[p]
       /\ p \in admitted => p \in admitted'

LEMMA SeatsStand ==
  ASSUME SeatsFine, UNCHANGED <<held, owner, admitted, issued>>
  PROVE  SeatsFine' /\ NothingBack
  BY DEF SeatsFine, NothingBack

LEMMA SellSeats ==
  ASSUME SeatsFine, NEW e \in Events, NEW s \in Students, NEW p \in Passes,
         Sell(e, s, p), p \notin issued, issued' = issued \cup {p}
  PROVE  SeatsFine' /\ NothingBack
<1>1. /\ held' = [held EXCEPT ![e] = @ \cup {p}] /\ owner' = [owner EXCEPT ![p] = s]
      /\ admitted' = admitted /\ owner[p] = None /\ \A q \in held[e] : owner[q] # s
  BY DEF Sell
<1>2. held' \in [Events -> SUBSET Passes] /\ owner' \in [Passes -> Students \cup {None}]
  BY <1>1 DEF SeatsFine
<1>3. \A d \in Events, q \in Passes : q \in held'[d] <=> q \in held[d] \/ (d = e /\ q = p)
  BY <1>1 DEF SeatsFine
<1>4. owner'[p] = s /\ \A q \in Passes \ {p} : owner'[q] = owner[q]
  BY <1>1 DEF SeatsFine
<1>5. \A d \in Events : p \notin held[d]
  BY DEF SeatsFine
<1>6. \A d \in Events : held'[d] \subseteq Passes /\ held[d] \subseteq Passes
  BY <1>2 DEF SeatsFine
<1>7. NothingBack
  BY <1>1, <1>3, <1>4, <1>5, <1>6 DEF NothingBack
<1>8. \A d \in Events : \A q \in held'[d] : q \in issued' /\ owner'[q] \in Students
  BY <1>3, <1>4, <1>6 DEF SeatsFine
<1>9. \A d \in Events : \A q, o \in held'[d] : owner'[q] = owner'[o] => q = o
  BY <1>1, <1>3, <1>4, <1>5, <1>6 DEF SeatsFine
<1>10. \A c, d \in Events : \A q \in held'[c] \cap held'[d] : c = d
  BY <1>3, <1>5, <1>6 DEF SeatsFine
<1> QED BY <1>2, <1>7, <1>8, <1>9, <1>10 DEF SeatsFine

LEMMA ReturnSeats ==
  ASSUME SeatsFine, NEW e \in Events, NEW p \in Passes, Return(e, p), issued' = issued
  PROVE  SeatsFine' /\ NothingBack /\ p \in held[e] \ admitted
         /\ held' = [held EXCEPT ![e] = @ \ {p}]
<1>1. /\ held' = [held EXCEPT ![e] = @ \ {p}] /\ owner' = [owner EXCEPT ![p] = None]
      /\ admitted' = admitted /\ p \in held[e] \ admitted
  BY DEF Return
<1>2. held' \in [Events -> SUBSET Passes] /\ owner' \in [Passes -> Students \cup {None}]
  BY <1>1 DEF SeatsFine
<1>3. \A d \in Events, q \in Passes : q \in held'[d] <=> q \in held[d] /\ q # p
  BY <1>1 DEF SeatsFine
<1>4. \A q \in Passes \ {p} : owner'[q] = owner[q]
  BY <1>1 DEF SeatsFine
<1>5. \A d \in Events : held'[d] \subseteq held[d] /\ p \notin held'[d] /\ held[d] \subseteq Passes
  BY <1>2, <1>3 DEF SeatsFine
<1>6. \A d \in Events : \A q \in held'[d] : q \in held[d] /\ owner'[q] = owner[q]
  BY <1>4, <1>5
<1>7. NothingBack
  BY <1>1, <1>6 DEF NothingBack
<1>8. SeatsFine'
  BY <1>2, <1>6 DEF SeatsFine
<1> QED BY <1>1, <1>7, <1>8

LEMMA AdmitSeats ==
  ASSUME SeatsFine, NEW e \in Events, NEW p \in Passes, Admit(e, p), issued' = issued
  PROVE  SeatsFine' /\ NothingBack
  BY DEF Admit, SeatsFine, NothingBack

LEMMA CloseSeats ==
  ASSUME SeatsFine, NEW e \in Events, Close(e), issued' = issued
  PROVE  SeatsFine' /\ NothingBack
<1>1. /\ held' = [held EXCEPT ![e] = {}]
      /\ owner' = [p \in Passes |-> IF p \in held[e] THEN None ELSE owner[p]]
      /\ admitted' = admitted \ held[e]
  BY DEF Close
<1>2. held' \in [Events -> SUBSET Passes] /\ owner' \in [Passes -> Students \cup {None}]
  BY <1>1 DEF SeatsFine
<1>3. \A d \in Events : \A q \in held'[d] : q \in held[d] /\ q \notin held[e] /\ q \in Passes
  BY <1>1 DEF SeatsFine
<1>4. \A d \in Events : \A q \in held'[d] : owner'[q] = owner[q]
  BY <1>1, <1>3
<1>5. NothingBack
  BY <1>1, <1>3, <1>4 DEF NothingBack
<1>6. SeatsFine'
  BY <1>2, <1>3, <1>4 DEF SeatsFine
<1> QED BY <1>5, <1>6

\* What was released stays released.
LEMMA ReleasedStays ==
  ASSUME SeatsFine, NothingBack, NEW s \in Students, NEW e \in Events,
         NEW K \in SUBSET issued, NEW A, PassesOf(s, e) \cap K \subseteq admitted \cup A
  PROVE  PassesOf(s, e)' \cap K \subseteq admitted' \cup A
<1> SUFFICES ASSUME NEW p \in held'[e], owner'[p] = s, p \in K PROVE p \in admitted' \cup A
  BY DEF PassesOf
<1>1. p \in issued /\ p \in held[e] /\ owner[p] = s /\ (p \in admitted => p \in admitted')
  BY DEF NothingBack
<1> QED BY <1>1 DEF PassesOf

-----------------------------------------------------------------------------
(* Payments and handlers that a step leaves alone *)

\* The row of f stands, or a report that was made is written over it, or it goes;
\* reports are only added, and answered by Answer alone.
RowKept(f) ==
  /\ payment'[f].user = payment[f].user /\ payment'[f].event = payment[f].event
  /\ payment'[f].status = "absent" <=> payment[f].status = "absent"
  /\ HasRow(f)' => /\ HasRow(f)
                   /\ \/ payment'[f].status = payment[f].status
                      \/ /\ payment'[f].status \in Reports
                         /\ told[f][payment'[f].status] # "no"
  /\ \A y \in Reports : told[f][y] # "no" => told'[f][y] # "no"

LEMMA RowStands ==
  ASSUME NEW f \in Refs, payment'[f] = payment[f], told'[f] = told[f]
  PROVE  RowKept(f)
  BY DEF RowKept, HasRow

LEMMA RefKeeps ==
  ASSUME SeatsFine, NothingBack, NEW f \in Refs, RefFine(f), RowKept(f),
         cleared'[f] = cleared[f],
         payment[f].status = "absent" => told'[f] = told[f],
         \A y \in Reports : told'[f][y] = "answered" => told[f][y] = "answered"
  PROVE  RefFine(f)'
<1>1. payment'[f].status = "absent" =>
        cleared'[f] = {} /\ \A y \in Reports : told'[f][y] = "no"
  BY DEF RefFine, RowKept
<1>2. payment'[f].status # "absent" =>
        payment'[f].user \in Students /\ payment'[f].event \in Events
  BY DEF RefFine, RowKept
<1>3. cleared'[f] \subseteq issued'
  BY DEF RefFine, NothingBack
<1>4. payment'[f].event \in Events => Mine(f)' \cap cleared'[f] \subseteq admitted'
  <2> SUFFICES ASSUME payment'[f].event \in Events PROVE Mine(f)' \cap cleared'[f] \subseteq admitted'
    OBVIOUS
  <2>1. CASE payment[f].status = "absent"
    BY <1>1, <2>1 DEF RowKept
  <2>2. CASE payment[f].status # "absent"
    <3>1. /\ payment[f].user \in Students /\ payment[f].event \in Events
          /\ payment'[f].user = payment[f].user /\ payment'[f].event = payment[f].event
          /\ PassesOf(payment[f].user, payment[f].event) \cap cleared[f] \subseteq admitted \cup {}
          /\ cleared[f] \in SUBSET issued
      BY <2>2 DEF RefFine, RowKept, Mine
    <3>2. \A s \in Students, e \in Events :
            (s = payment[f].user /\ e = payment[f].event) =>
              PassesOf(s, e)' \cap cleared[f] \subseteq admitted' \cup {}
      BY <3>1, ReleasedStays
    <3>3. PassesOf(payment[f].user, payment[f].event)' =
            {p \in held'[payment[f].event] : owner'[p] = payment[f].user}
      BY <3>1 DEF PassesOf
    <3> QED BY <3>1, <3>2, <3>3 DEF Mine, PassesOf
  <2> QED BY <2>1, <2>2
<1>5. ASSUME NEW x \in Reports, HasRow(f)', told'[f][x] = "answered", Only(f, x)'
      PROVE  payment'[f].status = x
  <2>1. HasRow(f) /\ told[f][x] = "answered" /\ Only(f, x)
    BY <1>5 DEF RowKept, Only
  <2>2. payment[f].status = x
    BY <2>1 DEF RefFine
  <2> QED BY <1>5, <2>1, <2>2 DEF RowKept, Only
<1> QED BY <1>1, <1>2, <1>3, <1>4, <1>5 DEF RefFine

LEMMA MineKeeps ==
  ASSUME SeatsFine, NothingBack, NEW f \in Refs, RowKept(f), RefFine(f),
         payment[f].status # "absent", NEW K \in SUBSET issued, NEW A,
         Mine(f) \cap K \subseteq admitted \cup A
  PROVE  Mine(f)' \cap K \subseteq admitted' \cup A
<1>1. /\ payment[f].user \in Students /\ payment[f].event \in Events
      /\ payment'[f].user = payment[f].user /\ payment'[f].event = payment[f].event
  BY DEF RefFine, RowKept
<1> SUFFICES ASSUME NEW p \in held'[payment[f].event], owner'[p] = payment[f].user, p \in K
             PROVE  p \in admitted' \cup A
  BY <1>1 DEF Mine, PassesOf
<1>2. /\ p \in issued /\ p \in held[payment[f].event] /\ owner[p] = payment[f].user
      /\ p \in admitted => p \in admitted'
  BY <1>1 DEF NothingBack
<1> QED BY <1>2 DEF Mine, PassesOf

\* A handler that does nothing stays fine.
LEMMA HookKeeps ==
  ASSUME SeatsFine, NothingBack, NEW g \in Hooks, HookFine(g), hook'[g] = hook[g],
         hook[g].pc # "idle" => RefFine(hook[g].ref) /\ RowKept(hook[g].ref)
  PROVE  HookFine(g)'
<1>0. PICK r : r = hook[g] /\ r = hook'[g]
  OBVIOUS
<1> DEFINE f == r.ref
<1>1. r.known \subseteq issued'
  BY <1>0 DEF HookFine, NothingBack
<1>2. CASE r.pc = "idle"
  BY <1>0, <1>1, <1>2 DEF HookFine
<1>3. CASE r.pc # "idle"
  <2>1. /\ f \in Refs /\ r.status \in Reports /\ told[f][r.status] # "no"
        /\ payment[f].status # "absent" /\ RefFine(f) /\ RowKept(f)
    BY <1>0, <1>3 DEF HookFine
  <2>2. told'[f][r.status] # "no" /\ payment'[f].status # "absent"
    BY <2>1 DEF RowKept
  <2>3. ASSUME r.pc \in {"lookup", "cancel", "answer"}, HasRow(f)', Only(f, r.status)'
        PROVE  payment'[f].status = r.status
    <3>1. HasRow(f) /\ Only(f, r.status)
      BY <2>1, <2>3 DEF RowKept, Only
    <3>2. payment[f].status = r.status
      BY <1>0, <2>3, <3>1 DEF HookFine
    <3> QED BY <2>1, <2>3, <3>1, <3>2 DEF RowKept, Only
  <2>4. ASSUME r.pc = "cancel"
        PROVE  /\ r.pass \in issued'
               /\ r.pass \in held'[payment'[f].event] => owner'[r.pass] = payment'[f].user
               /\ Mine(f)' \cap r.known \subseteq admitted' \cup {r.pass}
    <3>1. /\ r.pass \in issued
          /\ r.pass \in held[payment[f].event] => owner[r.pass] = payment[f].user
          /\ Mine(f) \cap r.known \subseteq admitted \cup {r.pass}
      BY <1>0, <2>4 DEF HookFine
    <3>2. r.known \in SUBSET issued
      BY <1>0 DEF HookFine
    <3>3. Mine(f)' \cap r.known \subseteq admitted' \cup {r.pass}
      <4>1. PICK A : A = {r.pass}
        OBVIOUS
      <4>2. Mine(f) \cap r.known \subseteq admitted \cup A
        BY <3>1, <4>1
      <4> HIDE DEF f
      <4>3. Mine(f)' \cap r.known \subseteq admitted' \cup A
        BY <2>1, <3>2, <4>2, MineKeeps
      <4> QED BY <4>1, <4>3
    <3>4. payment[f].event \in Events /\ payment'[f].event = payment[f].event
          /\ payment'[f].user = payment[f].user
      BY <2>1 DEF RefFine, RowKept
    <3> QED BY <3>1, <3>3, <3>4 DEF NothingBack
  <2>5. ASSUME r.pc = "answer", r.status \in Releasing
        PROVE  Mine(f)' \cap r.known \subseteq admitted'
    <3>1. r.known \in SUBSET issued /\ Mine(f) \cap r.known \subseteq admitted \cup {}
      BY <1>0, <2>5 DEF HookFine
    <3>2. Mine(f)' \cap r.known \subseteq admitted' \cup {}
      <4> HIDE DEF f
      <4> QED BY <2>1, <3>1, MineKeeps
    <3> QED BY <3>2
  <2>6. r.pc \in {"lookup", "cancel"} => r.status \in Releasing
    BY <1>0 DEF HookFine
  <2> QED BY <1>0, <1>1, <2>1, <2>2, <2>3, <2>4, <2>5, <2>6 DEF HookFine
<1> QED BY <1>2, <1>3

-----------------------------------------------------------------------------
(* How a step of each kind keeps the whole *)

LEMMA PayStart == PInit => PayInv
<1> SUFFICES ASSUME PInit PROVE PayInv
  OBVIOUS
<1>1. PaymentsTypeOK
  BY DEF PInit, PaymentsTypeOK, Payment, PayStatus, Hook, NoHook
<1>2. SeatsFine
  BY DEF PInit, DeskInit, LInit, SeatsFine
<1>3. \A f \in Refs : RefFine(f)
  BY DeskAssumption DEF PInit, RefFine, HasRow, PayStatus
<1>4. \A h \in Hooks : HookFine(h)
  BY DEF PInit, HookFine, NoHook
<1> QED BY <1>1, <1>2, <1>3, <1>4 DEF PayInv

\* A step of the ticket office, or of nobody.
LEMMA OfficeKeeps ==
  ASSUME PayInv, SeatsFine', NothingBack, UNCHANGED <<store, told, hook, cleared>>,
         payment' \in [Refs -> Payment], issued' \subseteq Passes,
         \A f \in Refs : RowKept(f)
  PROVE  PayInv'
<1>1. \A f \in Refs : RefFine(f)'
  BY RefKeeps DEF PayInv
<1>2. ASSUME NEW h \in Hooks PROVE HookFine(h)'
  <2>1. HookFine(h) /\ hook'[h] = hook[h] /\ SeatsFine
    BY DEF PayInv
  <2>2. hook[h].pc # "idle" => RefFine(hook[h].ref) /\ RowKept(hook[h].ref)
    BY <2>1 DEF HookFine, PayInv
  <2> QED BY <2>1, <2>2, HookKeeps
<1>3. PaymentsTypeOK'
  BY DEF PayInv, PaymentsTypeOK
<1> QED BY <1>1, <1>2, <1>3 DEF PayInv

\* A step of the handler h, which becomes r.
LEMMA HandlerKeeps ==
  ASSUME PayInv, SeatsFine', NothingBack, UNCHANGED <<store, issued>>,
         NEW h \in Hooks, NEW r \in Hook, hook' = [hook EXCEPT ![h] = r], HookFine(h)',
         payment' \in [Refs -> Payment],
         told' \in [Refs -> [Reports -> {"no", "sent", "answered"}]],
         cleared' \in [Refs -> SUBSET Passes],
         \A f \in Refs : RowKept(f) /\ RefFine(f)'
  PROVE  PayInv'
<1>1. ASSUME NEW g \in Hooks, g # h PROVE HookFine(g)'
  <2>1. HookFine(g) /\ hook'[g] = hook[g] /\ SeatsFine
    BY <1>1 DEF PayInv, PaymentsTypeOK
  <2>2. hook[g].pc # "idle" => RefFine(hook[g].ref) /\ RowKept(hook[g].ref)
    BY <2>1 DEF HookFine, PayInv
  <2> QED BY <2>1, <2>2, HookKeeps
<1>2. PaymentsTypeOK'
  BY DEF PayInv, PaymentsTypeOK
<1> QED BY <1>1, <1>2 DEF PayInv

LEMMA QuietRefs ==
  ASSUME PayInv, NothingBack, UNCHANGED <<payment, told, cleared>>
  PROVE  \A f \in Refs : RowKept(f) /\ RefFine(f)'
<1>1. \A f \in Refs : RowKept(f)
  BY RowStands
<1> QED BY <1>1, RefKeeps DEF PayInv

\* A handler that stops, whatever its request did.
LEMMA StopKeeps ==
  ASSUME PayInv, NEW h \in Hooks, hook' = [hook EXCEPT ![h] = NoHook],
         UNCHANGED <<store, payment, told, issued, cleared, held, owner, admitted>>
  PROVE  PayInv'
<1>1. SeatsFine' /\ NothingBack
  BY SeatsStand DEF PayInv
<1>2. \A f \in Refs : RowKept(f) /\ RefFine(f)'
  BY <1>1, QuietRefs
<1>3. NoHook \in Hook
  BY DEF NoHook, Hook
<1>4. hook'[h] = NoHook
  BY DEF PayInv, PaymentsTypeOK
<1>5. HookFine(h)'
  BY <1>4 DEF HookFine, NoHook
<1>6. PaymentsTypeOK
  BY DEF PayInv
<1> QED BY <1>1, <1>2, <1>3, <1>5, <1>6, HandlerKeeps DEF PaymentsTypeOK

-----------------------------------------------------------------------------
(* Steps of the ticket office *)

LEMMA OfficeStep == ASSUME PayInv, Office PROVE PayInv'
<1>1. SeatsFine /\ PaymentsTypeOK
  BY DEF PayInv
<1>2. ASSUME SeatsFine', NothingBack, UNCHANGED <<store, payment, told, hook, cleared>>,
             issued' \subseteq Passes
      PROVE  PayInv'
  <2>1. \A f \in Refs : RowKept(f)
    BY <1>2, RowStands
  <2> QED BY <1>1, <1>2, <2>1, OfficeKeeps DEF PaymentsTypeOK
<1>3. ASSUME NEW e \in Events, NEW n \in Sizes, Open(e, n) PROVE PayInv'
  <2>1. UNCHANGED <<held, owner, admitted, issued>> /\ UNCHANGED pvars
    BY <1>3 DEF Open, Announce, pvars
  <2>2. SeatsFine' /\ NothingBack
    BY <1>1, <2>1, SeatsStand
  <2> QED BY <1>1, <1>2, <2>1, <2>2 DEF pvars, PaymentsTypeOK
<1>4. ASSUME NEW e \in Events, NEW s \in Students, NEW p \in Passes, Register(e, s, p)
      PROVE  PayInv'
  <2>1. /\ Sell(e, s, p) /\ p \notin issued /\ issued' = issued \cup {p}
        /\ UNCHANGED <<store, payment, told, hook, cleared>>
    BY <1>4 DEF Register
  <2>2. SeatsFine' /\ NothingBack
    BY <1>1, <2>1, SellSeats
  <2> QED BY <1>1, <1>2, <2>1, <2>2 DEF PaymentsTypeOK
<1>5. ASSUME NEW e \in Events, NEW p \in Passes, GiveBack(e, p) PROVE PayInv'
  <2>1. Return(e, p) /\ UNCHANGED pvars
    BY <1>5 DEF GiveBack
  <2>2. SeatsFine' /\ NothingBack
    BY <1>1, <2>1, ReturnSeats DEF pvars
  <2> QED BY <1>1, <1>2, <2>1, <2>2 DEF pvars, PaymentsTypeOK
<1>6. ASSUME NEW e \in Events, NEW p \in Passes, CheckIn(e, p) PROVE PayInv'
  <2>1. Admit(e, p) /\ UNCHANGED pvars
    BY <1>6 DEF CheckIn
  <2>2. SeatsFine' /\ NothingBack
    BY <1>1, <2>1, AdmitSeats DEF pvars
  <2> QED BY <1>1, <1>2, <2>1, <2>2 DEF pvars, PaymentsTypeOK
<1>7. ASSUME NEW e \in Events, Remove(e) PROVE PayInv'
  <2>1. /\ Close(e) /\ UNCHANGED <<store, told, hook, issued, cleared>>
        /\ payment' = [f \in Refs |-> IF payment[f].event = e /\ HasRow(f)
                                      THEN [payment[f] EXCEPT !.status = "deleted"]
                                      ELSE payment[f]]
    BY <1>7 DEF Remove
  <2>2. SeatsFine' /\ NothingBack
    BY <1>1, <2>1, CloseSeats
  <2>3. \A f \in Refs : payment[f] \in Payment
    BY <1>1 DEF PaymentsTypeOK
  <2>4. ASSUME NEW f \in Refs PROVE RowKept(f) /\ payment'[f] \in Payment
    <3>1. CASE payment[f].event = e /\ HasRow(f)
      <4>1. payment'[f] = [payment[f] EXCEPT !.status = "deleted"]
        BY <2>1, <3>1
      <4> QED BY <2>1, <2>3, <3>1, <4>1 DEF RowKept, HasRow, Payment, PayStatus
    <3>2. CASE ~(payment[f].event = e /\ HasRow(f))
      <4>1. payment'[f] = payment[f]
        BY <2>1, <3>2
      <4> QED BY <2>1, <2>3, <4>1, RowStands
    <3> QED BY <3>1, <3>2
  <2>5. payment' \in [Refs -> Payment]
    BY <2>1, <2>4
  <2> QED BY <1>1, <2>1, <2>2, <2>4, <2>5, OfficeKeeps DEF PaymentsTypeOK
<1> QED BY <1>3, <1>4, <1>5, <1>6, <1>7 DEF Office

LEMMA InitiateStep ==
  ASSUME PayInv, NEW f \in Refs, NEW s \in Students, NEW e \in Events, Initiate(f, s, e)
  PROVE  PayInv'
<1>1. /\ payment[f].status = "absent" /\ UNCHANGED <<store, told, hook, issued, cleared>>
      /\ UNCHANGED <<held, owner, admitted>>
      /\ payment' = [payment EXCEPT ![f] = [status |-> "pending", user |-> s, event |-> e]]
  BY DEF Initiate, desk, lvars
<1>2. SeatsFine' /\ NothingBack /\ SeatsFine /\ PaymentsTypeOK
  BY <1>1, SeatsStand DEF PayInv
<1>3. payment' \in [Refs -> Payment] /\ payment'[f] = [status |-> "pending", user |-> s, event |-> e]
      /\ \A g \in Refs \ {f} : payment'[g] = payment[g]
  BY <1>1, <1>2 DEF PaymentsTypeOK, Payment, PayStatus
<1>4. ASSUME NEW g \in Refs PROVE RefFine(g)'
  <2>1. CASE g = f
    <3>1. cleared[f] = {} /\ \A y \in Reports : told[f][y] = "no"
      BY <1>1 DEF PayInv, RefFine
    <3> QED BY <1>1, <1>3, <2>1, <3>1 DEF RefFine
  <2>2. CASE g # f
    <3>1. RowKept(g)
      BY <1>1, <1>3, <2>2, RowStands
    <3> QED BY <1>1, <1>2, <3>1, RefKeeps DEF PayInv
  <2> QED BY <2>1, <2>2
<1>5. ASSUME NEW h \in Hooks PROVE HookFine(h)'
  <2>1. HookFine(h) /\ hook'[h] = hook[h]
    BY <1>1 DEF PayInv
  <2>2. hook[h].pc # "idle" => hook[h].ref \in Refs /\ hook[h].ref # f
    BY <1>1, <2>1 DEF HookFine
  <2>3. hook[h].pc # "idle" => RefFine(hook[h].ref) /\ RowKept(hook[h].ref)
    BY <1>1, <1>3, <2>2, RowStands DEF PayInv
  <2> QED BY <1>2, <2>1, <2>3, HookKeeps
<1>6. PaymentsTypeOK'
  BY <1>1, <1>2, <1>3 DEF PaymentsTypeOK
<1> QED BY <1>2, <1>4, <1>5, <1>6 DEF PayInv

-----------------------------------------------------------------------------
(* Steps of a webhook *)

LEMMA DeliverStep ==
  ASSUME PayInv, NEW h \in Hooks, NEW f \in Refs, NEW x \in Reports, Deliver(h, f, x)
  PROVE  PayInv'
<1> DEFINE r == [NoHook EXCEPT !.pc = "update", !.ref = f, !.status = x]
<1>1. /\ payment[f].status # "absent" /\ hook' = [hook EXCEPT ![h] = r]
      /\ told' = [told EXCEPT ![f][x] = IF @ = "no" THEN "sent" ELSE @]
      /\ UNCHANGED <<store, payment, issued, cleared>> /\ UNCHANGED <<held, owner, admitted>>
  BY DEF Deliver, desk, lvars
<1>2. SeatsFine' /\ NothingBack /\ SeatsFine /\ PaymentsTypeOK
  BY <1>1, SeatsStand DEF PayInv
<1>3. told \in [Refs -> [Reports -> {"no", "sent", "answered"}]]
  BY <1>2 DEF PaymentsTypeOK
<1>4. \A g \in Refs \ {f} : told'[g] = told[g]
  BY <1>1, <1>3
<1>5. /\ told'[f] \in [Reports -> {"no", "sent", "answered"}]
      /\ told'[f][x] # "no"
      /\ \A y \in Reports : /\ told[f][y] # "no" => told'[f][y] # "no"
                            /\ told'[f][y] = "answered" => told[f][y] = "answered"
  <2>1. told[f] \in [Reports -> {"no", "sent", "answered"}]
    BY <1>3
  <2>2. told'[f] = [y \in Reports |-> IF y = x /\ told[f][y] = "no" THEN "sent" ELSE told[f][y]]
    BY <1>1, <1>3
  <2> QED BY <2>1, <2>2
<1>6. told' \in [Refs -> [Reports -> {"no", "sent", "answered"}]]
  BY <1>1, <1>3, <1>4, <1>5
<1>7. ASSUME NEW g \in Refs PROVE RowKept(g) /\ RefFine(g)'
  <2>1. RowKept(g)
    <3>1. CASE g = f
      BY <1>1, <1>5, <3>1 DEF RowKept, HasRow
    <3>2. CASE g # f
      BY <1>1, <1>4, <3>2, RowStands
    <3> QED BY <3>1, <3>2
  <2>2. /\ payment[g].status = "absent" => told'[g] = told[g]
        /\ \A y \in Reports : told'[g][y] = "answered" => told[g][y] = "answered"
    BY <1>1, <1>4, <1>5
  <2> QED BY <1>1, <1>2, <2>1, <2>2, RefKeeps DEF PayInv
<1>8. r \in Hook /\ r.pc = "update" /\ r.ref = f /\ r.status = x /\ r.known = {}
  BY DEF NoHook, Hook
<1>9. hook'[h] = r
  BY <1>1, <1>2 DEF PaymentsTypeOK
<1> HIDE DEF r
<1>10. HookFine(h)'
  BY <1>1, <1>5, <1>8, <1>9 DEF HookFine
<1> QED BY <1>1, <1>2, <1>6, <1>7, <1>8, <1>10, HandlerKeeps DEF PaymentsTypeOK

LEMMA UpdateStep == ASSUME PayInv, NEW h \in Hooks, UpdateStatus(h) PROVE PayInv'
<1>1. CASE Fruitless(h)
  BY <1>1, StopKeeps DEF Fruitless, desk, lvars
<1>2. CASE ~Fruitless(h)
  <2>1. PICK f, x : f = hook[h].ref /\ x = hook[h].status
    OBVIOUS
  <2> DEFINE r == [hook[h] EXCEPT !.pc = AfterUpdate(x), !.known = issued]
  <2>2. /\ hook[h].pc = "update" /\ HasRow(f) /\ x \in PayStatus
        /\ hook' = [hook EXCEPT ![h] = r] /\ payment' = [payment EXCEPT ![f].status = x]
        /\ UNCHANGED <<store, told, issued, cleared>> /\ UNCHANGED <<held, owner, admitted>>
    BY <1>2, <2>1 DEF UpdateStatus, desk, lvars
  <2>3. SeatsFine' /\ NothingBack /\ SeatsFine /\ PaymentsTypeOK
    BY <2>2, SeatsStand DEF PayInv
  <2>4. f \in Refs /\ x \in Reports /\ told[f][x] # "no" /\ hook[h] \in Hook
    BY <2>1, <2>2, <2>3 DEF PayInv, HookFine, PaymentsTypeOK
  <2>5. /\ payment[f] \in Payment /\ payment'[f] = [payment[f] EXCEPT !.status = x]
        /\ \A g \in Refs \ {f} : payment'[g] = payment[g]
    BY <2>2, <2>3, <2>4 DEF PaymentsTypeOK
  <2>6. /\ payment'[f].status = x /\ payment'[f].user = payment[f].user
        /\ payment'[f].event = payment[f].event /\ payment'[f] \in Payment
    BY <2>2, <2>5 DEF Payment
  <2>7. payment' \in [Refs -> Payment]
    BY <2>2, <2>3, <2>6 DEF PaymentsTypeOK
  <2>8. payment[f].status # "absent" /\ x # "absent"
    BY <2>2 DEF HasRow, PayStatus
  <2>9. ASSUME NEW g \in Refs PROVE RowKept(g) /\ RefFine(g)'
    <3>1. RowKept(g)
      <4>1. CASE g = f
        BY <2>2, <2>4, <2>6, <2>8, <4>1 DEF RowKept
      <4>2. CASE g # f
        BY <2>2, <2>5, <4>2, RowStands
      <4> QED BY <4>1, <4>2
    <3> QED BY <2>2, <2>3, <3>1, RefKeeps DEF PayInv
  <2>10. /\ r \in Hook /\ r.pc = AfterUpdate(x) /\ r.ref = f /\ r.status = x /\ r.known = issued
    BY <2>1, <2>3, <2>4 DEF Hook, AfterUpdate, PaymentsTypeOK
  <2>11. hook'[h] = r
    BY <2>2, <2>3 DEF PaymentsTypeOK
  <2>12. HookFine(h)'
    <3> HIDE DEF r
    <3>1. (r.pc = "lookup" /\ x \in Releasing) \/ (r.pc = "answer" /\ x \notin Releasing)
      BY <2>10 DEF AfterUpdate
    <3> QED BY <2>2, <2>4, <2>6, <2>8, <2>10, <2>11, <3>1 DEF HookFine
  <2> HIDE DEF r
  <2> QED BY <2>2, <2>3, <2>7, <2>9, <2>10, <2>12, HandlerKeeps DEF PaymentsTypeOK
<1> QED BY <1>1, <1>2

LEMMA LookupStep == ASSUME PayInv, NEW h \in Hooks, Lookup(h) PROVE PayInv'
<1>1. /\ hook[h].pc = "lookup" /\ UNCHANGED <<store, payment, told, issued, cleared>>
      /\ UNCHANGED <<held, owner, admitted>>
  BY DEF Lookup, desk, lvars
<1>2. SeatsFine' /\ NothingBack /\ SeatsFine /\ PaymentsTypeOK
  BY <1>1, SeatsStand DEF PayInv
<1>3. \A g \in Refs : RowKept(g) /\ RefFine(g)'
  BY <1>1, <1>2, QuietRefs
<1>4. PICK f : f = hook[h].ref
  OBVIOUS
<1>5. HookFine(h) /\ hook[h] \in Hook /\ f \in Refs /\ RefFine(f)
      /\ payment[f].status # "absent"
  BY <1>1, <1>2, <1>4 DEF PayInv, HookFine, PaymentsTypeOK
<1>6. payment[f].event \in Events
  BY <1>5 DEF RefFine
<1>7. CASE Mine(f) = {}
  <2> DEFINE r == [hook[h] EXCEPT !.pc = "answer"]
  <2>1. hook' = [hook EXCEPT ![h] = r]
    BY <1>4, <1>7 DEF Lookup, Mine
  <2>2. /\ r \in Hook /\ r.pc = "answer" /\ r.ref = f /\ r.status = hook[h].status
        /\ r.known = hook[h].known
    BY <1>4, <1>5 DEF Hook
  <2>3. hook'[h] = r
    BY <1>2, <2>1 DEF PaymentsTypeOK
  <2>4. Mine(f)' = {}
    BY <1>1, <1>7 DEF Mine, PassesOf
  <2>5. HookFine(h)'
    <3> HIDE DEF r
    <3>1. HasRow(f)' = HasRow(f) /\ \A y : Only(f, y)' = Only(f, y)
      BY <1>1 DEF HasRow, Only
    <3> QED BY <1>1, <1>4, <1>5, <2>2, <2>3, <2>4, <3>1 DEF HookFine
  <2> HIDE DEF r
  <2> QED BY <1>1, <1>2, <1>3, <2>1, <2>2, <2>5, HandlerKeeps DEF PaymentsTypeOK
<1>8. CASE Mine(f) # {}
  <2>1. PICK p \in Mine(f) :
          hook' = [hook EXCEPT ![h] = [@ EXCEPT !.pc = "cancel", !.pass = p]]
    BY <1>4, <1>8 DEF Lookup, Mine
  <2> DEFINE r == [hook[h] EXCEPT !.pc = "cancel", !.pass = p]
  <2>2. /\ p \in Passes /\ p \in issued /\ owner[p] = payment[f].user /\ Mine(f) \subseteq {p}
    BY <1>2, <1>6, <2>1 DEF Mine, PassesOf, SeatsFine
  <2>3. /\ r \in Hook /\ r.pc = "cancel" /\ r.ref = f /\ r.status = hook[h].status
        /\ r.known = hook[h].known /\ r.pass = p
    BY <1>4, <1>5, <2>2 DEF Hook
  <2>4. hook'[h] = r
    BY <1>2, <2>1 DEF PaymentsTypeOK
  <2>5. Mine(f)' = Mine(f)
    BY <1>1 DEF Mine, PassesOf
  <2>6. HookFine(h)'
    <3> HIDE DEF r
    <3>1. HasRow(f)' = HasRow(f) /\ \A y : Only(f, y)' = Only(f, y)
      BY <1>1 DEF HasRow, Only
    <3> QED BY <1>1, <1>4, <1>5, <2>2, <2>3, <2>4, <2>5, <3>1 DEF HookFine
  <2>7. hook' = [hook EXCEPT ![h] = r]
    BY <2>1
  <2> HIDE DEF r
  <2> QED BY <1>1, <1>2, <1>3, <2>3, <2>6, <2>7, HandlerKeeps DEF PaymentsTypeOK
<1> QED BY <1>7, <1>8

LEMMA CancelStep == ASSUME PayInv, NEW h \in Hooks, CancelPass(h) PROVE PayInv'
<1>1. CASE Fruitless(h)
  BY <1>1, StopKeeps DEF Fruitless, desk, lvars
<1>2. CASE ~Fruitless(h)
  <2>1. PICK f, p : f = hook[h].ref /\ p = hook[h].pass
    OBVIOUS
  <2> DEFINE e == payment[f].event
             r == [hook[h] EXCEPT !.pc = "answer"]
  <2>2. /\ hook[h].pc = "cancel" /\ hook' = [hook EXCEPT ![h] = r]
        /\ UNCHANGED <<store, payment, told, issued, cleared>>
        /\ \/ Return(e, p)
           \/ p \notin held[e] \ admitted /\ UNCHANGED <<held, owner, admitted>>
    BY <1>2, <2>1 DEF CancelPass, desk, lvars
  <2>3. SeatsFine /\ PaymentsTypeOK /\ HookFine(h) /\ hook[h] \in Hook
    BY DEF PayInv, PaymentsTypeOK
  <2>4. f \in Refs /\ RefFine(f) /\ payment[f].status # "absent"
    BY <2>1, <2>2, <2>3 DEF PayInv, HookFine
  <2>5. e \in Events
    BY <2>4 DEF RefFine
  <2>6. /\ p \in issued /\ hook[h].known \in SUBSET issued
        /\ Mine(f) \cap hook[h].known \subseteq admitted \cup {p}
        /\ hook[h].status \in Reports /\ told[f][hook[h].status] # "no"
        /\ HasRow(f) /\ Only(f, hook[h].status) => payment[f].status = hook[h].status
    BY <2>1, <2>2, <2>3 DEF HookFine
  <2>7. p \in Passes
    BY <2>3, <2>6 DEF PaymentsTypeOK
  <2>8. SeatsFine' /\ NothingBack
    <3>1. CASE Return(e, p)
      <4> HIDE DEF e
      <4> QED BY <2>2, <2>3, <2>5, <2>7, <3>1, ReturnSeats
    <3>2. CASE UNCHANGED <<held, owner, admitted>>
      BY <2>2, <2>3, <3>2, SeatsStand
    <3> QED BY <2>2, <3>1, <3>2
  <2>9. \A g \in Refs : RowKept(g) /\ RefFine(g)'
    BY <2>2, <2>8, QuietRefs
  <2>10. Mine(f)' \cap hook[h].known \subseteq admitted'
    <3>1. ASSUME NEW q \in held'[e], owner'[q] = payment[f].user, q \in hook[h].known
          PROVE  q \in admitted'
      <4>1. /\ q \in issued /\ q \in held[e] /\ owner[q] = payment[f].user
            /\ q \in admitted => q \in admitted'
        BY <2>5, <2>6, <2>8, <3>1 DEF NothingBack
      <4>2. q \in admitted \cup {p}
        BY <2>6, <3>1, <4>1 DEF Mine, PassesOf
      <4>3. CASE q = p
        <5>1. CASE Return(e, p)
          BY <2>3, <2>5, <3>1, <4>3, <5>1 DEF Return, SeatsFine
        <5>2. CASE p \notin held[e] \ admitted
          BY <4>1, <4>3, <5>2
        <5> QED BY <2>2, <5>1, <5>2
      <4> QED BY <4>1, <4>2, <4>3
    <3> QED BY <2>2, <3>1 DEF Mine, PassesOf
  <2>11. /\ r \in Hook /\ r.pc = "answer" /\ r.ref = f /\ r.status = hook[h].status
         /\ r.known = hook[h].known
    BY <2>1, <2>3 DEF Hook
  <2>12. hook'[h] = r
    BY <2>2, <2>3 DEF PaymentsTypeOK
  <2>13. HookFine(h)'
    <3> HIDE DEF r, e
    <3>1. HasRow(f)' = HasRow(f) /\ \A y : Only(f, y)' = Only(f, y)
      BY <2>2 DEF HasRow, Only
    <3> QED BY <2>2, <2>4, <2>6, <2>8, <2>10, <2>11, <2>12, <3>1 DEF HookFine
  <2> HIDE DEF r, e
  <2> QED BY <2>2, <2>3, <2>8, <2>9, <2>11, <2>13, HandlerKeeps DEF PaymentsTypeOK
<1> QED BY <1>1, <1>2

\* The answer is given when the work is done: what was to be released is released,
\* and the outcome is the row's.
LEMMA AnswerStep == ASSUME PayInv, NEW h \in Hooks, Answer(h) PROVE PayInv'
<1>1. PICK f, x : f = hook[h].ref /\ x = hook[h].status
  OBVIOUS
<1>2. /\ hook[h].pc = "answer" /\ hook' = [hook EXCEPT ![h] = NoHook]
      /\ told' = [told EXCEPT ![f][x] = "answered"]
      /\ cleared' = [cleared EXCEPT ![f] = IF x \in Releasing THEN @ \cup hook[h].known ELSE @]
      /\ UNCHANGED <<store, payment, issued>> /\ UNCHANGED <<held, owner, admitted>>
  BY <1>1 DEF Answer, desk, lvars
<1>3. SeatsFine' /\ NothingBack /\ SeatsFine /\ PaymentsTypeOK /\ HookFine(h)
  BY <1>2, SeatsStand DEF PayInv
<1>4. /\ f \in Refs /\ x \in Reports /\ told[f][x] # "no" /\ payment[f].status # "absent"
      /\ HasRow(f) /\ Only(f, x) => payment[f].status = x
      /\ x \in Releasing => Mine(f) \cap hook[h].known \subseteq admitted
      /\ hook[h].known \subseteq issued
  BY <1>1, <1>2, <1>3 DEF HookFine
<1>5. /\ told \in [Refs -> [Reports -> {"no", "sent", "answered"}]]
      /\ cleared \in [Refs -> SUBSET Passes] /\ issued \subseteq Passes
  BY <1>3 DEF PaymentsTypeOK
<1>6. /\ \A g \in Refs \ {f} : told'[g] = told[g] /\ cleared'[g] = cleared[g]
      /\ told'[f][x] = "answered" /\ \A y \in Reports \ {x} : told'[f][y] = told[f][y]
      /\ cleared'[f] = IF x \in Releasing THEN cleared[f] \cup hook[h].known ELSE cleared[f]
  BY <1>2, <1>4, <1>5
<1>7. told' \in [Refs -> [Reports -> {"no", "sent", "answered"}]]
  BY <1>2, <1>4, <1>5
<1>8. cleared' \in [Refs -> SUBSET Passes]
  BY <1>2, <1>4, <1>5
<1>9. ASSUME NEW g \in Refs PROVE RowKept(g) /\ RefFine(g)'
  <2>1. CASE g # f
    <3>1. RowKept(g)
      BY <1>2, <1>6, <2>1, RowStands
    <3> QED BY <1>2, <1>3, <1>6, <2>1, <3>1, RefKeeps DEF PayInv
  <2>2. CASE g = f
    <3>1. RefFine(f)
      BY <1>4 DEF PayInv
    <3>2. RowKept(f)
      BY <1>2, <1>4, <1>6 DEF RowKept, HasRow
    <3>3. cleared'[f] \subseteq issued'
      BY <1>2, <1>4, <1>6, <3>1 DEF RefFine
    <3>4. payment'[f].event \in Events => Mine(f)' \cap cleared'[f] \subseteq admitted'
      <4>1. Mine(f)' = Mine(f)
        BY <1>2 DEF Mine, PassesOf
      <4>2. payment[f].event \in Events => Mine(f) \cap cleared[f] \subseteq admitted
        BY <3>1 DEF RefFine
      <4> QED BY <1>2, <1>4, <1>6, <4>1, <4>2
    <3>5. ASSUME NEW y \in Reports, HasRow(f)', told'[f][y] = "answered", Only(f, y)'
          PROVE  payment'[f].status = y
      <4>1. y = x
        BY <1>4, <1>6, <3>5 DEF Only
      <4>2. HasRow(f) /\ Only(f, x)
        BY <1>2, <1>6, <3>5, <4>1 DEF HasRow, Only
      <4> QED BY <1>2, <1>4, <4>1, <4>2
    <3>6. payment'[f].status # "absent" /\ payment'[f].user \in Students
          /\ payment'[f].event \in Events
      BY <1>2, <1>4, <3>1 DEF RefFine
    <3> QED BY <2>2, <3>2, <3>3, <3>4, <3>5, <3>6 DEF RefFine
  <2> QED BY <2>1, <2>2
<1>10. NoHook \in Hook /\ hook'[h] = NoHook
  BY <1>2, <1>3 DEF NoHook, Hook, PaymentsTypeOK
<1>11. HookFine(h)'
  BY <1>10 DEF HookFine, NoHook
<1>12. payment' \in [Refs -> Payment]
  BY <1>2, <1>3 DEF PaymentsTypeOK
<1> QED BY <1>2, <1>3, <1>7, <1>8, <1>9, <1>10, <1>11, <1>12, HandlerKeeps

LEMMA PayStep == PayInv /\ [PNext]_<<desk, pvars>> => PayInv'
<1> SUFFICES ASSUME PayInv, [PNext]_<<desk, pvars>> PROVE PayInv'
  OBVIOUS
<1>1. CASE Office
  BY <1>1, OfficeStep
<1>2. ASSUME NEW f \in Refs, NEW s \in Students, NEW e \in Events, Initiate(f, s, e) PROVE PayInv'
  BY <1>2, InitiateStep
<1>3. ASSUME NEW h \in Hooks, NEW f \in Refs, NEW x \in Reports, Deliver(h, f, x) PROVE PayInv'
  BY <1>3, DeliverStep
<1>4. ASSUME NEW h \in Hooks, Handle(h) PROVE PayInv'
  BY <1>4, UpdateStep, LookupStep, CancelStep, AnswerStep DEF Handle
<1>5. ASSUME NEW h \in Hooks, CutOff(h) PROVE PayInv'
  BY <1>5, StopKeeps DEF CutOff, lvars
<1>6. CASE UNCHANGED <<desk, pvars>>
  <2>1. UNCHANGED <<held, owner, admitted, issued, store, payment, told, hook, cleared>>
    BY <1>6 DEF desk, lvars, pvars
  <2>2. SeatsFine' /\ NothingBack /\ PaymentsTypeOK
    BY <2>1, SeatsStand DEF PayInv
  <2>3. \A f \in Refs : RowKept(f)
    BY <2>1, RowStands
  <2> QED BY <2>1, <2>2, <2>3, OfficeKeeps DEF PaymentsTypeOK
<1> QED BY <1>1, <1>2, <1>3, <1>4, <1>5, <1>6 DEF PNext

-----------------------------------------------------------------------------
\* The invariant of payments, reports, handlers and seats.
THEOREM PaymentsInvariance == PSpec => []PayInv
  BY PayStart, PayStep, PTL DEF PSpec

\* After a failure was answered 200 no pass the student had when it came in keeps a
\* seat, unless it was used.
THEOREM FailuresRelease == PSpec => []AnsweredReleases
<1>1. PayInv => AnsweredReleases
  BY DEF PayInv, RefFine, Mine, AnsweredReleases
<1> QED BY <1>1, PaymentsInvariance, PTL

\* The only outcome the provider reported is the outcome of the row from the first
\* answer on.
THEOREM OutcomesStand == PSpec => []OutcomeRecorded
<1>1. PayInv => OutcomeRecorded
  BY DEF PayInv, RefFine, Only, OutcomeRecorded
<1> QED BY <1>1, PaymentsInvariance, PTL

\* The handler that gives a seat back does so for a failure of a payment of the
\* student who had the seat.
LEMMA SeatGoesForFailure ==
  ASSUME PayInv, [PNext]_<<desk, pvars>>, NEW h \in Hooks, NEW e \in Events,
         hook[h].pc = "cancel", hook'[h].pc = "answer", held'[e] # held[e]
  PROVE  \E f \in Refs, p \in held[e] \ held'[e] :
           /\ payment[f].event = e /\ payment[f].user = owner[p]
           /\ \E x \in {"failed", "canceled"} \cap Reports : told[f][x] # "no"
<1>1. SeatsFine /\ hook \in [Hooks -> Hook] /\ HookFine(h) /\ hook'[h] # hook[h]
  BY DEF PayInv, PaymentsTypeOK
<1>2. CancelPass(h)
  <2>1. ~Office /\ ~UNCHANGED <<desk, pvars>>
    BY <1>1 DEF Office, Open, Register, GiveBack, CheckIn, Remove, pvars
  <2>2. ASSUME NEW f \in Refs, NEW s \in Students, NEW d \in Events, Initiate(f, s, d) PROVE FALSE
    BY <1>1, <2>2 DEF Initiate
  <2>3. ASSUME NEW g \in Hooks, NEW f \in Refs, NEW x \in Reports, Deliver(g, f, x) PROVE FALSE
    BY <1>1, <2>3 DEF Deliver, NoHook
  <2>4. ASSUME NEW g \in Hooks, CutOff(g) PROVE FALSE
    BY <1>1, <2>4 DEF CutOff, NoHook
  <2>5. ASSUME NEW g \in Hooks, Handle(g), g # h PROVE FALSE
    BY <1>1, <2>5 DEF Handle, UpdateStatus, Fruitless, Lookup, CancelPass, Answer
  <2>6. Handle(h)
    BY <2>1, <2>2, <2>3, <2>4, <2>5 DEF PNext
  <2> QED BY <2>6 DEF Handle, UpdateStatus, Lookup, Answer
<1>3. PICK f, p : f = hook[h].ref /\ p = hook[h].pass
  OBVIOUS
<1>4. Return(payment[f].event, p)
  BY <1>2, <1>3 DEF CancelPass, Fruitless, desk, lvars
<1>5. /\ f \in Refs /\ told[f][hook[h].status] # "no"
      /\ hook[h].status \in Releasing \cap Reports
      /\ p \in held[payment[f].event] => owner[p] = payment[f].user
  BY <1>1, <1>3 DEF HookFine
<1>6. payment[f].event = e
  BY <1>1, <1>4 DEF Return, SeatsFine
<1>7. p \in held[e] \ held'[e]
  BY <1>1, <1>4, <1>6 DEF Return, SeatsFine
<1> QED BY <1>5, <1>6, <1>7 DEF Releasing

\* While all reports for a student's payments are good ones no webhook touches the
\* student's pass.
THEOREM SeatsOfGoodPaymentsStay == PSpec => GoodReportsKeepSeats
<1>1. PayInv /\ [PNext]_<<desk, pvars>> =>
        [\A h \in Hooks, e \in Events :
          (hook[h].pc = "cancel" /\ hook'[h].pc = "answer" /\ held'[e] # held[e]) =>
            \E f \in Refs, p \in held[e] \ held'[e] :
              /\ payment[f].event = e /\ payment[f].user = owner[p]
              /\ \E x \in {"failed", "canceled"} \cap Reports : told[f][x] # "no"]_<<desk, pvars>>
  BY SeatGoesForFailure
<1> QED BY <1>1, PaymentsInvariance, PTL DEF PSpec, GoodReportsKeepSeats
=============================================================================
