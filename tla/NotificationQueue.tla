-------------------------- MODULE NotificationQueue --------------------------
(***************************************************************************)
(* The table "notifications_queue" and the e-mail workers that empty it.   *)
(* A worker claims a batch of queued rows in one statement, sends the      *)
(* mails one by one and writes down after each what came of it.  The claim *)
(* commits before the first mail leaves, so a worker that stops leaves     *)
(* rows behind that only it knew about.                                    *)
(***************************************************************************)
EXTENDS Integers, FiniteSets

CONSTANTS
  Notes,      \* ids of notifications
  Workers,    \* e-mail workers: one goroutine in each server process
  BatchSize,  \* LIMIT of a claim
  None,       \* no note
  Faults      \* the faults that may happen, a subset of FaultKinds

\* "stop": a server process ends; "claim": a claim commits and its answer is lost;
\* "mark": the UPDATE after a mail fails.
FaultKinds == {"stop", "claim", "mark"}

ASSUME NoneIsNoNote == None \notin Notes
ASSUME BatchNotEmpty == BatchSize \in Nat \ {0}
ASSUME FaultsKnown == Faults \subseteq FaultKinds

VARIABLES
  row,     \* row[n]: status and retry_count; "absent" before the INSERT
  worker,  \* worker[w]: its position, the claimed notes it has not settled yet, the
           \* note whose outcome it has to write down, the retry counts it claimed
  smtp     \* smtp[n]: how many attempts to send n had each outcome (history)

vars == <<row, worker, smtp>>

Status == {"queued", "processing", "sent", "failed"}
Settled == {"sent", "failed"}

\* An attempt to send: the server took the mail, or did not, or took it and the
\* answer was lost, which the worker cannot tell from a refusal.
Outcomes == {"ok", "refused", "lost"}

MaxRetries == 3

Row == [status : Status \cup {"absent"}, retry : 0 .. MaxRetries]

Worker == [pc : {"down", "poll", "send", "sent", "refused"}, todo : SUBSET Notes,
           note : Notes \cup {None}, seen : [Notes -> 0 .. MaxRetries]]

Polling == [pc |-> "poll", todo |-> {}, note |-> None, seen |-> [n \in Notes |-> 0]]

Queued == {n \in Notes : row[n].status = "queued"}

Tries(n) == smtp[n]["ok"] + smtp[n]["refused"] + smtp[n]["lost"]

Init ==
  /\ row = [n \in Notes |-> [status |-> "absent", retry |-> 0]]
  /\ worker = [w \in Workers |-> Polling]
  /\ smtp = [n \in Notes |-> [o \in Outcomes |-> 0]]

\* INSERT ... 'queued'.
Enqueue(n) ==
  /\ row[n].status = "absent"
  /\ row' = [row EXCEPT ![n] = [@ EXCEPT !.status = "queued"]]
  /\ UNCHANGED <<worker, smtp>>

SetProcessing(batch) ==
  row' = [n \in Notes |-> IF n \in batch THEN [row[n] EXCEPT !.status = "processing"] ELSE row[n]]

\* Queued rows, at most BatchSize.  created_at is read before the INSERT and SKIP
\* LOCKED passes over rows of a claim that may fail: any of them can come first.
IsBatch(batch) == batch # {} /\ batch \subseteq Queued /\ Cardinality(batch) <= BatchSize

\* The batch as the claim returned it.
Take(w, batch) ==
  worker' = [worker EXCEPT ![w] =
    [pc |-> "send", todo |-> batch, note |-> None,
     seen |-> [n \in Notes |-> IF n \in batch THEN row[n].retry ELSE 0]]]

\* Mutant: rows that another worker processes are claimed as well.
ClaimProcessingToo(w, batch) ==
  /\ worker[w].pc = "poll"
  /\ batch # {} /\ Cardinality(batch) <= BatchSize
  /\ \A n \in batch : row[n].status \in {"queued", "processing"}
  /\ SetProcessing(batch)
  /\ Take(w, batch)
  /\ UNCHANGED smtp

\* One statement claims the rows and returns them.
Claim(w, batch) ==
  /\ worker[w].pc = "poll"
  /\ IsBatch(batch)
  /\ SetProcessing(batch)
  /\ Take(w, batch)
  /\ UNCHANGED smtp

\* The claim commits, reading its rows fails: the worker logs it and polls again.
ClaimLost(w, batch) ==
  /\ "claim" \in Faults
  /\ worker[w].pc = "poll"
  /\ IsBatch(batch)
  /\ SetProcessing(batch)
  /\ UNCHANGED <<worker, smtp>>

\* SendEmail.
Send(w, n, outcome) ==
  /\ worker[w].pc = "send"
  /\ n \in worker[w].todo
  /\ smtp' = [smtp EXCEPT ![n][outcome] = @ + 1]
  /\ worker' = [worker EXCEPT ![w] =
       [@ EXCEPT !.pc = IF outcome = "ok" THEN "sent" ELSE "refused", !.note = n]]
  /\ UNCHANGED row

\* Mutant: after a note the worker leaves its batch instead of going on.
BreakOff(w) == worker' = [worker EXCEPT ![w] = Polling]

\* The worker is done with its note and goes on with the batch.
Proceed(w) ==
  LET rest == worker[w].todo \ {worker[w].note} IN
  worker' = [worker EXCEPT ![w] =
    IF rest = {} THEN Polling ELSE [@ EXCEPT !.pc = "send", !.todo = rest, !.note = None]]

MarkSent(w) ==
  /\ worker[w].pc = "sent"
  /\ row' = [row EXCEPT ![worker[w].note] = [@ EXCEPT !.status = "sent"]]
  /\ Proceed(w)
  /\ UNCHANGED smtp

\* Mutant: one retry too many.
RequeueOnceMore(w) ==
  LET n == worker[w].note
      tried == worker[w].seen[n]
  IN
  /\ worker[w].pc = "refused"
  /\ tried <= MaxRetries
  /\ row' = [row EXCEPT ![n] = [status |-> "queued", retry |-> tried + 1]]
  /\ Proceed(w)
  /\ UNCHANGED smtp

\* Mutant: the retry count is not written.
RequeueUncounted(w) ==
  LET n == worker[w].note
      tried == worker[w].seen[n]
  IN
  /\ worker[w].pc = "refused"
  /\ tried < MaxRetries
  /\ row' = [row EXCEPT ![n] = [status |-> "queued", retry |-> tried]]
  /\ Proceed(w)
  /\ UNCHANGED smtp

\* RequeueAfterFailure writes the count that came with the claim, plus one.
Requeue(w) ==
  LET n == worker[w].note
      tried == worker[w].seen[n]
  IN
  /\ worker[w].pc = "refused"
  /\ tried < MaxRetries
  /\ row' = [row EXCEPT ![n] = [status |-> "queued", retry |-> tried + 1]]
  /\ Proceed(w)
  /\ UNCHANGED smtp

\* Mutant: no "continue" after the row was marked 'failed'.
MarkFailedFallsThrough(w) ==
  /\ worker[w].pc = "refused"
  /\ worker[w].seen[worker[w].note] >= MaxRetries
  /\ row' = [row EXCEPT ![worker[w].note] = [@ EXCEPT !.status = "sent"]]
  /\ Proceed(w)
  /\ UNCHANGED smtp

MarkFailed(w) ==
  /\ worker[w].pc = "refused"
  /\ worker[w].seen[worker[w].note] >= MaxRetries
  /\ row' = [row EXCEPT ![worker[w].note] = [@ EXCEPT !.status = "failed"]]
  /\ Proceed(w)
  /\ UNCHANGED smtp

\* Mutant: a row whose UPDATE failed goes back to the queue.
MarkLostRequeues(w) ==
  /\ "mark" \in Faults
  /\ worker[w].pc \in {"sent", "refused"}
  /\ row' = [row EXCEPT ![worker[w].note] = [@ EXCEPT !.status = "queued"]]
  /\ Proceed(w)
  /\ UNCHANGED smtp

\* The UPDATE fails: it is logged and the worker goes on.
MarkLost(w) ==
  /\ "mark" \in Faults
  /\ worker[w].pc \in {"sent", "refused"}
  /\ Proceed(w)
  /\ UNCHANGED <<row, smtp>>

\* Mutant: a process that stops hands its batch back.
StopHandsBack(w) ==
  /\ "stop" \in Faults
  /\ worker[w].pc # "down"
  /\ row' = [n \in Notes |-> IF n \in worker[w].todo THEN [row[n] EXCEPT !.status = "queued"] ELSE row[n]]
  /\ worker' = [worker EXCEPT ![w] = [Polling EXCEPT !.pc = "down"]]
  /\ UNCHANGED smtp

\* A crash, or a shutdown: it cancels the context, after which neither a mail nor an
\* UPDATE gets through, and leaves without waiting for the worker.
Stop(w) ==
  /\ "stop" \in Faults
  /\ worker[w].pc # "down"
  /\ worker' = [worker EXCEPT ![w] = [Polling EXCEPT !.pc = "down"]]
  /\ UNCHANGED <<row, smtp>>

\* A new process starts with an empty hand; nothing looks for rows left 'processing'.
Start(w) ==
  /\ worker[w].pc = "down"
  /\ worker' = [worker EXCEPT ![w] = Polling]
  /\ UNCHANGED <<row, smtp>>

Work(w) ==
  \/ \E batch \in SUBSET Notes : Claim(w, batch)
  \/ \E n \in Notes, outcome \in Outcomes : Send(w, n, outcome)
  \/ MarkSent(w) \/ Requeue(w) \/ MarkFailed(w)
  \/ Start(w)

Fault(w) ==
  \/ \E batch \in SUBSET Notes : ClaimLost(w, batch)
  \/ MarkLost(w)
  \/ Stop(w)

Next ==
  \/ \E n \in Notes : Enqueue(n)
  \/ \E w \in Workers : Work(w) \/ Fault(w)

Spec == Init /\ [][Next]_vars

\* The poll ticker keeps firing, every call of the worker returns, and a process
\* that ended is started again.
Fairness == \A w \in Workers : WF_vars(Work(w))

FairSpec == Spec /\ Fairness

-----------------------------------------------------------------------------
(* What the code is meant to guarantee *)

TypeOK ==
  /\ row \in [Notes -> Row]
  /\ worker \in [Workers -> Worker]
  /\ smtp \in [Notes -> [Outcomes -> Nat]]

\* A row is in the hands of one worker at most, and is 'processing' as long as it
\* is: DequeueBatch hands no row out twice, also when a row comes back to the queue.
OneWorkerPerRow ==
  \A w \in Workers : \A n \in worker[w].todo :
    /\ row[n].status = "processing"
    /\ \A v \in Workers : n \in worker[v].todo => v = w

\* The table tells how often a mail was tried: retry_count more than none for a
\* queued one, four times for one given up, so at most four times in all.
TriesCounted ==
  \A n \in Notes :
    /\ Tries(n) <= MaxRetries + 1
    /\ row[n].status = "queued" => Tries(n) = row[n].retry
    /\ row[n].status = "failed" => Tries(n) = MaxRetries + 1 /\ smtp[n]["ok"] = 0

\* A row says 'sent' only when the mail server confirmed the mail.
SentIsConfirmed == \A n \in Notes : row[n].status = "sent" => smtp[n]["ok"] = 1

\* A mail the server confirmed is never sent again, whatever stops, restarts or
\* fails to be written down: a second copy takes a lost answer of the server.
ConfirmedIsLast ==
  [][\A n \in Notes : smtp[n]["ok"] > 0 => smtp'[n] = smtp[n]]_vars

\* Every row is queued, settled, or in the hands of a worker.
NothingForgotten ==
  \A n \in Notes : row[n].status = "processing" => \E w \in Workers : n \in worker[w].todo

\* "Enqueue into persistent notifications_queue; async worker will deliver." (the
\* comment in service.go): the mail server gets every notification that was accepted,
\* unless all attempts are used up.
EveryMailed ==
  \A n \in Notes :
    (row[n].status = "queued") ~>
      (smtp[n]["ok"] + smtp[n]["lost"] > 0 \/ row[n].status = "failed")

\* Every notification that was accepted is settled in the table, as sent or given up.
EverySettles ==
  \A n \in Notes : (row[n].status = "queued") ~> (row[n].status \in Settled)

-----------------------------------------------------------------------------
(* Why it holds: the inductive invariant *)

\* A worker holds notes while it sends, and one of them is the note it settles.
WorkersFormed ==
  \A w \in Workers :
    /\ worker[w].pc \in {"down", "poll"} => worker[w].todo = {}
    /\ worker[w].pc \in {"sent", "refused"} => worker[w].note \in worker[w].todo

\* The retry count a worker claimed is still the one in the row.
CountsFresh ==
  \A w \in Workers : \A n \in worker[w].todo : worker[w].seen[n] = row[n].retry

Tried(w, n) == worker[w].pc \in {"sent", "refused"} /\ worker[w].note = n

\* The attempts and confirmations of each note, by where the note is.
TriesMatch ==
  \A n \in Notes :
    /\ row[n].status = "absent" => row[n].retry = 0
    /\ row[n].status \in {"absent", "queued"} => Tries(n) = row[n].retry /\ smtp[n]["ok"] = 0
    /\ row[n].status = "processing" => Tries(n) \in {row[n].retry, row[n].retry + 1}
    /\ row[n].status = "sent" => Tries(n) <= MaxRetries + 1 /\ smtp[n]["ok"] = 1
    /\ row[n].status = "failed" => Tries(n) = MaxRetries + 1 /\ smtp[n]["ok"] = 0

HeldMatch ==
  \A w \in Workers : \A n \in worker[w].todo :
    /\ Tries(n) = row[n].retry + IF Tried(w, n) THEN 1 ELSE 0
    /\ smtp[n]["ok"] = IF Tried(w, n) /\ worker[w].pc = "sent" THEN 1 ELSE 0

IInv == /\ TypeOK /\ OneWorkerPerRow /\ WorkersFormed /\ CountsFresh
        /\ TriesMatch /\ HeldMatch

=============================================================================
