------------------------- MODULE NotificationProofs -------------------------
(* Theorems about NotificationQueue, for any number of notes and workers. *)
EXTENDS NotificationQueue, TLAPS

USE DEF MaxRetries

LEMMA InitInv == Init => IInv
<1> SUFFICES ASSUME Init PROVE IInv
  OBVIOUS
<1>1. TypeOK
  BY DEF Init, TypeOK, Row, Worker, Polling, Outcomes
<1>2. OneWorkerPerRow /\ WorkersFormed /\ CountsFresh /\ HeldMatch
  BY DEF Init, OneWorkerPerRow, WorkersFormed, CountsFresh, HeldMatch, Polling
<1>3. TriesMatch
  BY DEF Init, TriesMatch, Tries, Outcomes
<1> QED BY <1>1, <1>2, <1>3 DEF IInv

\* What a worker knows of the rows in its hands.
LEMMA InHand ==
  ASSUME IInv, NEW w \in Workers, NEW n \in worker[w].todo
  PROVE  /\ n \in Notes /\ row[n].status = "processing" /\ row[n].retry \in 0 .. 3
         /\ worker[w].seen[n] = row[n].retry
         /\ \A v \in Workers : n \in worker[v].todo => v = w
         /\ Tries(n) = row[n].retry + IF Tried(w, n) THEN 1 ELSE 0
         /\ smtp[n]["ok"] = IF Tried(w, n) /\ worker[w].pc = "sent" THEN 1 ELSE 0
<1>1. n \in Notes
  BY DEF IInv, TypeOK, Worker
<1>2. row[n].status = "processing" /\ row[n].retry \in 0 .. 3 /\ worker[w].seen[n] = row[n].retry
  BY <1>1 DEF IInv, TypeOK, Row, OneWorkerPerRow, CountsFresh
<1>3. \A v \in Workers : n \in worker[v].todo => v = w
  BY DEF IInv, OneWorkerPerRow
<1> QED BY <1>1, <1>2, <1>3 DEF IInv, HeldMatch

\* The counts of a note change only with its attempts.
LEMMA TriesType ==
  ASSUME TypeOK, NEW n \in Notes
  PROVE  Tries(n) \in Nat /\ smtp[n]["ok"] \in Nat
  BY DEF TypeOK, Tries, Outcomes

LEMMA EnqueueInv ==
  ASSUME IInv, NEW n \in Notes, Enqueue(n)
  PROVE  IInv'
<1>1. /\ row' = [row EXCEPT ![n] = [@ EXCEPT !.status = "queued"]]
      /\ row[n].status = "absent" /\ worker' = worker /\ smtp' = smtp
  BY DEF Enqueue
<1>2. TypeOK'
  BY <1>1 DEF IInv, TypeOK, Row, Status
<1>3. \A m \in Notes : m # n => row'[m] = row[m]
  BY <1>1 DEF IInv, TypeOK
<1>4. row'[n].status = "queued" /\ row'[n].retry = row[n].retry
  BY <1>1 DEF IInv, TypeOK, Row
<1>5. \A m \in Notes : Tries(m)' = Tries(m)
  BY <1>1 DEF Tries
<1>6. \A w \in Workers : \A m \in worker[w].todo : m \in Notes /\ m # n
  BY <1>1, InHand
<1>7. OneWorkerPerRow'
  BY <1>1, <1>3, <1>6 DEF IInv, OneWorkerPerRow
<1>8. WorkersFormed' /\ CountsFresh'
  BY <1>1, <1>3, <1>6 DEF IInv, WorkersFormed, CountsFresh
<1>9. TriesMatch'
  BY <1>1, <1>3, <1>4, <1>5 DEF IInv, TriesMatch
<1>10. HeldMatch'
  BY <1>1, <1>3, <1>5, <1>6 DEF IInv, HeldMatch, Tried
<1> QED BY <1>2, <1>7, <1>8, <1>9, <1>10 DEF IInv

\* The rows of a claimed batch become 'processing', nothing else changes in the table.
LEMMA BatchRows ==
  ASSUME IInv, NEW batch \in SUBSET Notes, IsBatch(batch), SetProcessing(batch)
  PROVE  /\ row' \in [Notes -> Row]
         /\ \A n \in batch : /\ row[n].status = "queued" /\ row'[n].status = "processing"
                             /\ row'[n].retry = row[n].retry
         /\ \A n \in Notes \ batch : row'[n] = row[n]
         /\ \A w \in Workers : worker[w].todo \cap batch = {}
<1>1. \A n \in batch : row[n].status = "queued"
  BY DEF IsBatch, Queued
<1>2. row' = [n \in Notes |-> IF n \in batch THEN [row[n] EXCEPT !.status = "processing"] ELSE row[n]]
  BY DEF SetProcessing
<1>3. \A n \in batch : row'[n].status = "processing" /\ row'[n].retry = row[n].retry
  BY <1>2 DEF IInv, TypeOK, Row
<1>4. row' \in [Notes -> Row]
  BY <1>2 DEF IInv, TypeOK, Row, Status
<1>5. \A w \in Workers : worker[w].todo \cap batch = {}
  BY <1>1, InHand
<1> QED BY <1>1, <1>2, <1>3, <1>4, <1>5

LEMMA ClaimInv ==
  ASSUME IInv, NEW w \in Workers, NEW batch \in SUBSET Notes,
         Claim(w, batch) \/ ClaimLost(w, batch)
  PROVE  IInv'
<1>1. /\ worker[w].pc = "poll" /\ IsBatch(batch) /\ SetProcessing(batch) /\ smtp' = smtp
      /\ Take(w, batch) \/ worker' = worker
  BY DEF Claim, ClaimLost
<1>2. /\ row' \in [Notes -> Row]
      /\ \A n \in batch : /\ row[n].status = "queued" /\ row'[n].status = "processing"
                          /\ row'[n].retry = row[n].retry
      /\ \A n \in Notes \ batch : row'[n] = row[n]
      /\ \A v \in Workers : worker[v].todo \cap batch = {}
  BY <1>1, BatchRows
<1>3. \A n \in Notes : Tries(n)' = Tries(n)
  BY <1>1 DEF Tries
<1>4. TypeOK'
  <2>1. [pc |-> "send", todo |-> batch, note |-> None,
         seen |-> [n \in Notes |-> IF n \in batch THEN row[n].retry ELSE 0]] \in Worker
    BY DEF IInv, TypeOK, Worker, Row
  <2>2. worker' \in [Workers -> Worker]
    BY <1>1, <2>1 DEF IInv, TypeOK, Take
  <2> QED BY <1>1, <1>2, <2>2 DEF IInv, TypeOK
<1>5. worker'[w] = worker[w] \/
      worker'[w] = [pc |-> "send", todo |-> batch, note |-> None,
                    seen |-> [n \in Notes |-> IF n \in batch THEN row[n].retry ELSE 0]]
  BY <1>1 DEF Take, IInv, TypeOK
<1>6. \A v \in Workers : v # w => worker'[v] = worker[v]
  BY <1>1 DEF Take, IInv, TypeOK
<1>7. \A v \in Workers : worker[v].todo \subseteq Notes
  BY DEF IInv, TypeOK, Worker
<1>8. worker[w].todo = {}
  BY <1>1 DEF IInv, WorkersFormed
<1>9. OneWorkerPerRow'
  BY <1>2, <1>5, <1>6, <1>7, <1>8 DEF IInv, OneWorkerPerRow
<1>10. WorkersFormed'
  BY <1>5, <1>6 DEF IInv, WorkersFormed
<1>11. CountsFresh'
  BY <1>2, <1>5, <1>6, <1>7, <1>8 DEF IInv, CountsFresh
<1>12. TriesMatch'
  <2> SUFFICES ASSUME NEW n \in Notes
               PROVE  (/\ row[n].status = "absent" => row[n].retry = 0
                       /\ row[n].status \in {"absent", "queued"} => Tries(n) = row[n].retry /\ smtp[n]["ok"] = 0
                       /\ row[n].status = "processing" => Tries(n) \in {row[n].retry, row[n].retry + 1}
                       /\ row[n].status = "sent" => Tries(n) <= MaxRetries + 1 /\ smtp[n]["ok"] = 1
                       /\ row[n].status = "failed" => Tries(n) = MaxRetries + 1 /\ smtp[n]["ok"] = 0)'
    BY DEF TriesMatch
  <2>1. CASE n \in batch
    BY <1>1, <1>2, <1>3, <2>1 DEF IInv, TriesMatch
  <2>2. CASE n \notin batch
    BY <1>1, <1>2, <1>3, <2>2 DEF IInv, TriesMatch
  <2> QED BY <2>1, <2>2
<1>13. HeldMatch'
  <2> SUFFICES ASSUME NEW v \in Workers, NEW n \in worker'[v].todo
               PROVE  /\ Tries(n)' = row'[n].retry + IF Tried(v, n)' THEN 1 ELSE 0
                      /\ smtp'[n]["ok"] = IF Tried(v, n)' /\ worker'[v].pc = "sent" THEN 1 ELSE 0
    BY DEF HeldMatch
  <2>1. CASE worker'[v] = worker[v]
    <3>1. n \in Notes \ batch /\ n \in worker[v].todo
      BY <1>2, <1>7, <2>1
    <3>2. Tried(v, n)' = Tried(v, n)
      BY <2>1 DEF Tried
    <3> QED BY <1>1, <1>2, <1>3, <2>1, <3>1, <3>2 DEF IInv, HeldMatch
  <2>2. CASE worker'[v] # worker[v]
    <3>1. v = w /\ n \in batch /\ worker'[v].pc = "send"
      BY <1>5, <1>6, <2>2
    <3>2. ~Tried(v, n)' /\ row[n].retry \in 0 .. 3
      BY <3>1 DEF Tried, IInv, TypeOK, Row
    <3> QED BY <1>1, <1>2, <1>3, <3>1, <3>2 DEF IInv, TriesMatch
  <2> QED BY <2>1, <2>2
<1> QED BY <1>4, <1>9, <1>10, <1>11, <1>12, <1>13 DEF IInv

LEMMA SendInv ==
  ASSUME IInv, NEW w \in Workers, NEW n \in Notes, NEW outcome \in Outcomes,
         Send(w, n, outcome)
  PROVE  IInv'
<1>1. /\ worker[w].pc = "send" /\ n \in worker[w].todo /\ row' = row
      /\ smtp' = [smtp EXCEPT ![n][outcome] = @ + 1]
      /\ worker' = [worker EXCEPT ![w] =
           [@ EXCEPT !.pc = IF outcome = "ok" THEN "sent" ELSE "refused", !.note = n]]
  BY DEF Send
<1>2. TypeOK'
  <2>1. smtp' \in [Notes -> [Outcomes -> Nat]]
    BY <1>1 DEF IInv, TypeOK
  <2>2. worker' \in [Workers -> Worker]
    <3>1. worker[w] \in Worker
      BY DEF IInv, TypeOK
    <3>2. [worker[w] EXCEPT !.pc = IF outcome = "ok" THEN "sent" ELSE "refused", !.note = n] \in Worker
      BY <3>1 DEF Worker
    <3> QED BY <1>1, <3>2 DEF IInv, TypeOK
  <2> QED BY <1>1, <2>1, <2>2 DEF IInv, TypeOK
<1>3. /\ worker'[w].pc = (IF outcome = "ok" THEN "sent" ELSE "refused")
      /\ worker'[w].note = n /\ worker'[w].todo = worker[w].todo /\ worker'[w].seen = worker[w].seen
      /\ \A v \in Workers : v # w => worker'[v] = worker[v]
  BY <1>1 DEF IInv, TypeOK, Worker
<1>4. /\ row[n].retry \in 0 .. 3 /\ row[n].status = "processing"
      /\ \A v \in Workers : n \in worker[v].todo => v = w
      /\ Tries(n) = row[n].retry /\ smtp[n]["ok"] = 0
  BY <1>1, InHand DEF Tried
<1>5. \A m \in Notes : m # n => smtp'[m] = smtp[m]
  BY <1>1 DEF IInv, TypeOK
<1>6. \A m \in Notes : m # n => Tries(m)' = Tries(m)
  BY <1>5 DEF Tries
<1>7. /\ Tries(n)' = Tries(n) + 1
      /\ smtp'[n]["ok"] = smtp[n]["ok"] + IF outcome = "ok" THEN 1 ELSE 0
  <2>1. smtp'[n] = [smtp[n] EXCEPT ![outcome] = @ + 1] /\ smtp[n] \in [Outcomes -> Nat]
    BY <1>1 DEF IInv, TypeOK
  <2>2. CASE outcome = "ok"
    BY <2>1, <2>2 DEF Tries, Outcomes
  <2>3. CASE outcome = "refused"
    BY <2>1, <2>3 DEF Tries, Outcomes
  <2>4. CASE outcome = "lost"
    BY <2>1, <2>4 DEF Tries, Outcomes
  <2> QED BY <2>2, <2>3, <2>4 DEF Outcomes
<1>8. OneWorkerPerRow' /\ WorkersFormed' /\ CountsFresh'
  BY <1>1, <1>3 DEF IInv, OneWorkerPerRow, WorkersFormed, CountsFresh
<1>9. TriesMatch'
  BY <1>1, <1>4, <1>5, <1>6, <1>7 DEF IInv, TriesMatch
<1>10. HeldMatch'
  <2> SUFFICES ASSUME NEW v \in Workers, NEW m \in worker'[v].todo
               PROVE  /\ Tries(m)' = row'[m].retry + IF Tried(v, m)' THEN 1 ELSE 0
                      /\ smtp'[m]["ok"] = IF Tried(v, m)' /\ worker'[v].pc = "sent" THEN 1 ELSE 0
    BY DEF HeldMatch
  <2>1. m \in worker[v].todo /\ m \in Notes
    BY <1>3, InHand
  <2>2. CASE m = n
    <3>1. v = w /\ Tried(v, m)'
      BY <1>3, <1>4, <2>1, <2>2 DEF Tried
    <3> QED BY <1>1, <1>3, <1>4, <1>7, <2>2, <3>1
  <2>3. CASE m # n
    <3>1. /\ Tries(m) = row[m].retry + IF Tried(v, m) THEN 1 ELSE 0
          /\ smtp[m]["ok"] = IF Tried(v, m) /\ worker[v].pc = "sent" THEN 1 ELSE 0
      BY <2>1 DEF IInv, HeldMatch
    <3>2. Tried(v, m)' = Tried(v, m) /\ (Tried(v, m) => v # w)
      BY <1>1, <1>3, <2>3 DEF Tried
    <3> QED BY <1>1, <1>3, <1>5, <1>6, <2>1, <2>3, <3>1, <3>2
  <2> QED BY <2>2, <2>3
<1> QED BY <1>2, <1>8, <1>9, <1>10 DEF IInv

\* What TriesMatch says of one note.
NoteMatches(n) ==
  /\ row[n].status = "absent" => row[n].retry = 0
  /\ row[n].status \in {"absent", "queued"} => Tries(n) = row[n].retry /\ smtp[n]["ok"] = 0
  /\ row[n].status = "processing" => Tries(n) \in {row[n].retry, row[n].retry + 1}
  /\ row[n].status = "sent" => Tries(n) <= MaxRetries + 1 /\ smtp[n]["ok"] = 1
  /\ row[n].status = "failed" => Tries(n) = MaxRetries + 1 /\ smtp[n]["ok"] = 0

LEMMA ProceedFacts ==
  ASSUME IInv, NEW w \in Workers, worker[w].pc \in {"sent", "refused"}, Proceed(w)
  PROVE  /\ worker' \in [Workers -> Worker]
         /\ worker[w].note \in worker[w].todo
         /\ \A v \in Workers : v # w => worker'[v] = worker[v]
         /\ worker'[w].todo = worker[w].todo \ {worker[w].note}
         /\ worker'[w].pc \in {"poll", "send"}
         /\ worker'[w].pc = "poll" => worker'[w].todo = {}
         /\ \A n \in worker'[w].todo : worker'[w].seen[n] = worker[w].seen[n]
<1> DEFINE rest == worker[w].todo \ {worker[w].note}
           next == IF rest = {} THEN Polling
                   ELSE [worker[w] EXCEPT !.pc = "send", !.todo = rest, !.note = None]
<1>1. worker' = [worker EXCEPT ![w] = next]
  BY DEF Proceed
<1>2. worker[w] \in Worker /\ worker \in [Workers -> Worker]
  BY DEF IInv, TypeOK
<1>3. Polling \in Worker
  BY DEF Polling, Worker
<1>4. [worker[w] EXCEPT !.pc = "send", !.todo = rest, !.note = None] \in Worker
  BY <1>2 DEF Worker
<1>5. next \in Worker
  BY <1>3, <1>4
<1>6. worker' \in [Workers -> Worker] /\ worker'[w] = next
  BY <1>1, <1>2, <1>5
<1>7. \A v \in Workers : v # w => worker'[v] = worker[v]
  BY <1>1, <1>2
<1>8. worker[w].note \in worker[w].todo
  BY DEF IInv, WorkersFormed
<1>9. /\ next.todo = rest /\ next.pc \in {"poll", "send"}
      /\ next.pc = "poll" => rest = {}
      /\ \A n \in rest : next.seen[n] = worker[w].seen[n]
  <2>1. CASE rest = {}
    BY <2>1 DEF Polling
  <2>2. CASE rest # {}
    BY <1>2, <2>2 DEF Worker
  <2> QED BY <2>1, <2>2
<1> QED BY <1>6, <1>7, <1>8, <1>9

\* A worker that is done with a note lets go of it.
LEMMA SettleInv ==
  ASSUME IInv, NEW w \in Workers, worker[w].pc \in {"sent", "refused"}, Proceed(w), smtp' = smtp,
         NEW n \in Notes, n = worker[w].note,
         row' \in [Notes -> Row], \A m \in Notes : m # n => row'[m] = row[m],
         NoteMatches(n)'
  PROVE  IInv'
<1>1. /\ worker' \in [Workers -> Worker] /\ n \in worker[w].todo
      /\ \A v \in Workers : v # w => worker'[v] = worker[v]
      /\ worker'[w].todo = worker[w].todo \ {n}
      /\ worker'[w].pc \in {"poll", "send"}
      /\ worker'[w].pc = "poll" => worker'[w].todo = {}
      /\ \A m \in worker'[w].todo : worker'[w].seen[m] = worker[w].seen[m]
  BY ProceedFacts
<1>2. \A m \in Notes : Tries(m)' = Tries(m)
  BY DEF Tries
<1>3. TypeOK'
  BY <1>1 DEF IInv, TypeOK
<1>4. ASSUME NEW v \in Workers, NEW m \in worker'[v].todo
      PROVE  m \in worker[v].todo /\ m # n /\ m \in Notes /\ row'[m] = row[m]
  <2>1. m \in worker[v].todo
    BY <1>1, <1>4
  <2>2. m \in Notes /\ \A u \in Workers : m \in worker[u].todo => u = v
    BY <2>1, InHand
  <2>3. m # n
    BY <1>1, <1>4, <2>1, <2>2
  <2> QED BY <2>1, <2>2, <2>3
<1>5. OneWorkerPerRow'
  BY <1>4 DEF IInv, OneWorkerPerRow
<1>6. WorkersFormed'
  BY <1>1 DEF IInv, WorkersFormed
<1>7. CountsFresh'
  BY <1>1, <1>4 DEF IInv, CountsFresh
<1>8. TriesMatch'
  <2>1. \A m \in Notes : m # n => NoteMatches(m)'
    BY <1>2 DEF IInv, TriesMatch, NoteMatches
  <2>2. \A m \in Notes : NoteMatches(m)'
    BY <2>1
  <2> QED BY <2>2 DEF TriesMatch, NoteMatches
<1>9. HeldMatch'
  <2> SUFFICES ASSUME NEW v \in Workers, NEW m \in worker'[v].todo
               PROVE  /\ Tries(m)' = row'[m].retry + IF Tried(v, m)' THEN 1 ELSE 0
                      /\ smtp'[m]["ok"] = IF Tried(v, m)' /\ worker'[v].pc = "sent" THEN 1 ELSE 0
    BY DEF HeldMatch
  <2>1. m \in worker[v].todo /\ m # n /\ m \in Notes /\ row'[m] = row[m]
    BY <1>4
  <2>2. /\ Tries(m) = row[m].retry + IF Tried(v, m) THEN 1 ELSE 0
        /\ smtp[m]["ok"] = IF Tried(v, m) /\ worker[v].pc = "sent" THEN 1 ELSE 0
    BY <2>1 DEF IInv, HeldMatch
  <2>3. CASE v = w
    <3>1. ~Tried(v, m) /\ ~Tried(v, m)'
      BY <1>1, <2>1, <2>3 DEF Tried
    <3> QED BY <1>2, <2>1, <2>2, <3>1
  <2>4. CASE v # w
    <3>1. worker'[v] = worker[v] /\ Tried(v, m)' = Tried(v, m)
      BY <1>1, <2>4 DEF Tried
    <3> QED BY <1>2, <2>1, <2>2, <3>1
  <2> QED BY <2>3, <2>4
<1> QED BY <1>3, <1>5, <1>6, <1>7, <1>8, <1>9 DEF IInv

LEMMA MarkInv ==
  ASSUME IInv, NEW w \in Workers,
         MarkSent(w) \/ Requeue(w) \/ MarkFailed(w) \/ MarkLost(w)
  PROVE  IInv'
<1>1. worker[w].pc \in {"sent", "refused"} /\ Proceed(w) /\ smtp' = smtp
  BY DEF MarkSent, Requeue, MarkFailed, MarkLost
<1>n. PICK n \in worker[w].todo : n = worker[w].note
  BY <1>1 DEF IInv, WorkersFormed
<1>2. n \in worker[w].todo /\ Tried(w, n)
  BY <1>1, <1>n DEF Tried
<1>3. /\ n \in Notes /\ row[n].status = "processing" /\ row[n].retry \in 0 .. 3
      /\ worker[w].seen[n] = row[n].retry
      /\ Tries(n) = row[n].retry + 1
      /\ smtp[n]["ok"] = IF worker[w].pc = "sent" THEN 1 ELSE 0
  BY <1>2, InHand
<1>4. Tries(n)' = Tries(n)
  BY <1>1 DEF Tries
<1>5. row \in [Notes -> Row]
  BY DEF IInv, TypeOK
<1>6. CASE MarkSent(w)
  <2>1. row' = [row EXCEPT ![n] = [@ EXCEPT !.status = "sent"]] /\ worker[w].pc = "sent"
    BY <1>n, <1>6 DEF MarkSent
  <2>2. row' \in [Notes -> Row] /\ row'[n].status = "sent" /\ \A m \in Notes : m # n => row'[m] = row[m]
    BY <1>3, <1>5, <2>1 DEF Row, Status
  <2>3. NoteMatches(n)'
    BY <1>1, <1>3, <1>4, <2>1, <2>2 DEF NoteMatches
  <2> QED BY <1>n, <1>3, <1>1, <2>2, <2>3, SettleInv
<1>7. CASE Requeue(w)
  <2>1. /\ row' = [row EXCEPT ![n] = [status |-> "queued", retry |-> row[n].retry + 1]]
        /\ worker[w].pc = "refused" /\ row[n].retry < 3
    BY <1>n, <1>3, <1>7 DEF Requeue
  <2>2. [status |-> "queued", retry |-> row[n].retry + 1] \in Row
    BY <1>3, <2>1 DEF Row, Status
  <2>3. /\ row' \in [Notes -> Row] /\ row'[n].status = "queued" /\ row'[n].retry = row[n].retry + 1
        /\ \A m \in Notes : m # n => row'[m] = row[m]
    BY <1>3, <1>5, <2>1, <2>2
  <2>4. NoteMatches(n)'
    BY <1>1, <1>3, <1>4, <2>1, <2>3 DEF NoteMatches
  <2> QED BY <1>n, <1>3, <1>1, <2>3, <2>4, SettleInv
<1>8. CASE MarkFailed(w)
  <2>1. /\ row' = [row EXCEPT ![n] = [@ EXCEPT !.status = "failed"]]
        /\ worker[w].pc = "refused" /\ row[n].retry = 3
    BY <1>n, <1>3, <1>8 DEF MarkFailed
  <2>2. row' \in [Notes -> Row] /\ row'[n].status = "failed" /\ \A m \in Notes : m # n => row'[m] = row[m]
    BY <1>3, <1>5, <2>1 DEF Row, Status
  <2>3. NoteMatches(n)'
    BY <1>1, <1>3, <1>4, <2>1, <2>2 DEF NoteMatches
  <2> QED BY <1>n, <1>3, <1>1, <2>2, <2>3, SettleInv
<1>9. CASE MarkLost(w)
  <2>1. row' = row
    BY <1>9 DEF MarkLost
  <2>2. NoteMatches(n)'
    BY <1>3, <1>4, <2>1 DEF NoteMatches
  <2> QED BY <1>n, <1>3, <1>1, <1>5, <2>1, <2>2, SettleInv
<1> QED BY <1>6, <1>7, <1>8, <1>9

LEMMA StopStartInv ==
  ASSUME IInv, NEW w \in Workers, Stop(w) \/ Start(w)
  PROVE  IInv'
<1>1. row' = row /\ smtp' = smtp
  BY DEF Stop, Start
<1>2. PICK pc \in {"down", "poll"} : worker' = [worker EXCEPT ![w] = [Polling EXCEPT !.pc = pc]]
  <2>1. Polling = [Polling EXCEPT !.pc = "poll"]
    BY DEF Polling
  <2>2. CASE Stop(w)
    BY <2>2 DEF Stop
  <2>3. CASE Start(w)
    BY <2>1, <2>3 DEF Start
  <2> QED BY <2>2, <2>3
<1>3. [Polling EXCEPT !.pc = pc] \in Worker /\ [Polling EXCEPT !.pc = pc].todo = {}
      /\ [Polling EXCEPT !.pc = pc].pc = pc
  BY DEF Polling, Worker
<1>4. worker' \in [Workers -> Worker]
  BY <1>2, <1>3 DEF IInv, TypeOK
<1>5. worker'[w].todo = {} /\ worker'[w].pc \in {"down", "poll"}
  BY <1>2, <1>3 DEF IInv, TypeOK
<1>6. \A v \in Workers : v # w => worker'[v] = worker[v]
  BY <1>2 DEF IInv, TypeOK
<1>7. TypeOK'
  BY <1>1, <1>4 DEF IInv, TypeOK
<1>8. OneWorkerPerRow' /\ WorkersFormed' /\ CountsFresh'
  BY <1>1, <1>5, <1>6 DEF IInv, OneWorkerPerRow, WorkersFormed, CountsFresh
<1>9. TriesMatch'
  BY <1>1 DEF IInv, TriesMatch, Tries
<1>10. HeldMatch'
  <2> SUFFICES ASSUME NEW v \in Workers, NEW m \in worker'[v].todo
               PROVE  /\ Tries(m)' = row'[m].retry + IF Tried(v, m)' THEN 1 ELSE 0
                      /\ smtp'[m]["ok"] = IF Tried(v, m)' /\ worker'[v].pc = "sent" THEN 1 ELSE 0
    BY DEF HeldMatch
  <2>1. worker'[v] = worker[v] /\ m \in worker[v].todo /\ Tried(v, m)' = Tried(v, m)
    BY <1>5, <1>6 DEF Tried
  <2>2. Tries(m)' = Tries(m)
    BY <1>1 DEF Tries
  <2> QED BY <1>1, <2>1, <2>2 DEF IInv, HeldMatch
<1> QED BY <1>7, <1>8, <1>9, <1>10 DEF IInv

\* Every step keeps the invariant.
LEMMA NextInv ==
  ASSUME IInv, [Next]_vars
  PROVE  IInv'
<1>1. ASSUME NEW n \in Notes, Enqueue(n) PROVE IInv'
  BY <1>1, EnqueueInv
<1>2. ASSUME NEW w \in Workers, Work(w) PROVE IInv'
  BY <1>2, ClaimInv, SendInv, MarkInv, StopStartInv DEF Work
<1>3. ASSUME NEW w \in Workers, Fault(w) PROVE IInv'
  BY <1>3, ClaimInv, MarkInv, StopStartInv DEF Fault
<1>4. CASE UNCHANGED vars
  <2>1. row' = row /\ worker' = worker /\ smtp' = smtp
    BY <1>4 DEF vars
  <2> QED BY <2>1 DEF IInv, TypeOK, OneWorkerPerRow, WorkersFormed, CountsFresh, TriesMatch,
                      HeldMatch, Tries, Tried
<1> QED BY <1>1, <1>2, <1>3, <1>4 DEF Next

-----------------------------------------------------------------------------
(* The theorems *)

\* Rows, workers and attempts agree in every reachable state, whatever stops or fails.
THEOREM Invariance == Spec => []IInv
BY InitInv, NextInv, PTL DEF Spec

\* Every variable keeps its type, so no row is retried more than three times.
THEOREM TypeCorrect == Spec => []TypeOK
<1>1. IInv => TypeOK
  BY DEF IInv
<1> QED BY <1>1, Invariance, PTL

\* DequeueBatch never gives a row to a second worker.
THEOREM OneWorker == Spec => []OneWorkerPerRow
<1>1. IInv => OneWorkerPerRow
  BY DEF IInv
<1> QED BY <1>1, Invariance, PTL

\* The table counts the attempts, and four are the most.
THEOREM AttemptsCounted == Spec => []TriesCounted
<1>1. ASSUME IInv PROVE TriesCounted
  <2> SUFFICES ASSUME NEW n \in Notes
               PROVE  /\ Tries(n) <= MaxRetries + 1
                      /\ row[n].status = "queued" => Tries(n) = row[n].retry
                      /\ row[n].status = "failed" => Tries(n) = MaxRetries + 1 /\ smtp[n]["ok"] = 0
    BY DEF TriesCounted
  <2>1. row[n].retry \in 0 .. 3 /\ row[n].status \in Status \cup {"absent"}
    BY <1>1 DEF IInv, TypeOK, Row
  <2> QED BY <1>1, <2>1 DEF IInv, TriesMatch, Status
<1> QED BY <1>1, Invariance, PTL

\* 'sent' is written only after the confirmation of the mail server.
THEOREM SentConfirmed == Spec => []SentIsConfirmed
<1>1. IInv => SentIsConfirmed
  BY DEF IInv, TriesMatch, SentIsConfirmed
<1> QED BY <1>1, Invariance, PTL

\* No stop, restart or failed UPDATE makes a worker send a confirmed mail again.
THEOREM NoSecondCopy == Spec => ConfirmedIsLast
<1>1. ASSUME IInv, [Next]_vars, NEW n \in Notes, smtp[n]["ok"] > 0
      PROVE  smtp'[n] = smtp[n]
  <2>1. CASE smtp' = smtp
    BY <2>1
  <2>2. ASSUME NEW w \in Workers, NEW m \in Notes, NEW outcome \in Outcomes, Send(w, m, outcome)
        PROVE  smtp'[n] = smtp[n]
    <3>1. worker[w].pc = "send" /\ m \in worker[w].todo /\ smtp' = [smtp EXCEPT ![m][outcome] = @ + 1]
      BY <2>2 DEF Send
    <3>2. smtp[m]["ok"] = 0
      BY <1>1, <3>1, InHand DEF Tried
    <3>3. m # n
      BY <1>1, <3>2
    <3> QED BY <1>1, <3>1, <3>3 DEF IInv, TypeOK
  <2>3. smtp' = smtp \/ \E w \in Workers, m \in Notes, outcome \in Outcomes : Send(w, m, outcome)
    BY <1>1 DEF Next, Work, Fault, vars, Enqueue, Claim, ClaimLost, MarkSent, Requeue, MarkFailed,
                MarkLost, Stop, Start
  <2> QED BY <2>1, <2>2, <2>3
<1>2. IInv /\ [Next]_vars => [\A n \in Notes : smtp[n]["ok"] > 0 => smtp'[n] = smtp[n]]_vars
  BY <1>1
<1> QED BY <1>2, Invariance, PTL DEF Spec, ConfirmedIsLast

\* Without faults no row is left behind: 'processing' means that a worker has it.
THEOREM NothingLost ==
  ASSUME Faults = {}
  PROVE  Spec => []NothingForgotten
<1>1. Init => NothingForgotten
  BY DEF Init, NothingForgotten
<1>2. IInv /\ NothingForgotten /\ [Next]_vars => NothingForgotten'
  <2> SUFFICES ASSUME IInv, NothingForgotten, [Next]_vars,
                      NEW n \in Notes, row'[n].status = "processing"
               PROVE  \E v \in Workers : n \in worker'[v].todo
    BY DEF NothingForgotten
  <2> USE DEF NothingForgotten
  <2>1. ASSUME NEW m \in Notes, Enqueue(m) PROVE \E v \in Workers : n \in worker'[v].todo
    BY <2>1 DEF Enqueue, IInv, TypeOK, Row
  <2>2. ASSUME NEW w \in Workers, NEW batch \in SUBSET Notes, Claim(w, batch)
        PROVE  \E v \in Workers : n \in worker'[v].todo
    <3>1. worker[w].pc = "poll" /\ IsBatch(batch) /\ SetProcessing(batch) /\ Take(w, batch)
      BY <2>2 DEF Claim
    <3>2. worker'[w].todo = batch /\ \A v \in Workers : v # w => worker'[v] = worker[v]
      BY <3>1 DEF Take, IInv, TypeOK
    <3>3. worker[w].todo = {}
      BY <3>1 DEF IInv, WorkersFormed
    <3>4. n \in batch \/ row'[n] = row[n]
      BY <3>1, BatchRows
    <3> QED BY <3>2, <3>3, <3>4
  <2>3. ASSUME NEW w \in Workers, NEW m \in Notes, NEW outcome \in Outcomes, Send(w, m, outcome)
        PROVE  \E v \in Workers : n \in worker'[v].todo
    <3>1. row' = row
      BY <2>3 DEF Send
    <3>2. \A v \in Workers : worker'[v].todo = worker[v].todo
      BY <2>3 DEF Send, IInv, TypeOK, Worker
    <3> QED BY <3>1, <3>2
  <2>4. ASSUME NEW w \in Workers, MarkSent(w) \/ Requeue(w) \/ MarkFailed(w)
        PROVE  \E v \in Workers : n \in worker'[v].todo
    <3>1. worker[w].pc \in {"sent", "refused"} /\ Proceed(w)
      BY <2>4 DEF MarkSent, Requeue, MarkFailed
    <3>2. /\ worker[w].note \in worker[w].todo
          /\ \A v \in Workers : v # w => worker'[v] = worker[v]
          /\ worker'[w].todo = worker[w].todo \ {worker[w].note}
      BY <3>1, ProceedFacts
    <3>3. worker[w].note \in Notes
      BY <3>2, InHand
    <3>4. row'[worker[w].note].status # "processing"
      BY <2>4, <3>3 DEF MarkSent, Requeue, MarkFailed, IInv, TypeOK, Row
    <3>5. n # worker[w].note /\ row'[n] = row[n]
      BY <2>4, <3>4 DEF MarkSent, Requeue, MarkFailed, IInv, TypeOK
    <3> QED BY <3>2, <3>5
  <2>5. ASSUME NEW w \in Workers, Start(w)
        PROVE  \E v \in Workers : n \in worker'[v].todo
    <3>1. worker[w].todo = {} /\ row' = row
      BY <2>5 DEF Start, IInv, WorkersFormed
    <3>2. \A v \in Workers : v # w => worker'[v] = worker[v]
      BY <2>5 DEF Start, IInv, TypeOK
    <3> QED BY <3>1, <3>2
  <2>6. CASE UNCHANGED vars
    BY <2>6 DEF vars
  <2>7. ASSUME NEW w \in Workers, Fault(w) PROVE FALSE
    BY <2>7 DEF Fault, ClaimLost, MarkLost, Stop
  <2> QED BY <2>1, <2>2, <2>3, <2>4, <2>5, <2>6, <2>7 DEF Next, Work
<1> QED BY <1>1, <1>2, Invariance, PTL DEF Spec

=============================================================================
