------------------------ MODULE MCNotificationQueue ------------------------
(***************************************************************************)
(* Instances of NotificationQueue for TLC.  In a behaviour processes and the *)
(* database may fail, or only the mail server does.                         *)
(***************************************************************************)
EXTENDS NotificationQueue

CONSTANTS n1, n2, w1, w2,
          Modes  \* "reliable": only the mail server may fail; "failing": the rest as well

VARIABLE mode

QueueInit == Init /\ mode \in Modes

QueueNext ==
  /\ UNCHANGED mode
  /\ \/ \E n \in Notes : Enqueue(n)
     \/ \E w \in Workers : Work(w)
     \/ mode = "failing" /\ \E w \in Workers : Fault(w)

QueueSpec ==
  QueueInit /\ [][QueueNext]_<<vars, mode>> /\ Fairness

\* As long as processes and the database do not fail, every notification that was
\* accepted is settled in the table, whatever the mail server does: EverySettles.
SettlesWhenReliable == mode = "reliable" => EverySettles
=============================================================================
