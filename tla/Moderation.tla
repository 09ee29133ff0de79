----------------------------- MODULE Moderation -----------------------------
(***************************************************************************)
(* Moderation of events and its audit log.  A decision reads the event,      *)
(* writes moderation_status, inserts a row of the log and, for a rejection,  *)
(* queues a mail for the organizer: four steps without a transaction, in     *)
(* which a failing insert or mail is passed over.  Decisions on an event      *)
(* overlap, and the event may be deleted under them.  A change of a user's    *)
(* role, which AuthSessions models, leaves a row without an event.            *)
(***************************************************************************)
EXTENDS EventDesk

CONSTANTS Decisions  \* requests to moderate an event or to change a role

ASSUME NoneIsNoDecision == None \notin Decisions
ASSUME DecisionsFinite == IsFiniteSet(Decisions)

VARIABLES
  ruling,   \* ruling[e]: the decision moderation_status and moderated_by come
            \* from; None while the event is pending
  stamp,    \* stamp[d]: place of d's row in the log by created_at, 0 without a row
  task,     \* task[d]: the handler of decision d
  mailed,   \* rejections whose mail was put into the notification queue
  applied,  \* decisions whose UPDATE was applied (history)
  lost,     \* decisions that could not write their row or their mail (history)
  crossed   \* crossed[e]: ruling[e] was written while another decision on e had
            \* its row still to insert (history)

mvars == <<ruling, stamp, task, mailed, applied, lost, crossed>>

Task == [pc : {"new", "update", "log", "mail", "done"}, event : Events \cup {None},
         action : {"approve", "reject", "role", "none"}]

MInit ==
  /\ DeskInit
  /\ ruling = [e \in Events |-> None]
  /\ stamp = [d \in Decisions |-> 0]
  /\ task = [d \in Decisions |-> [pc |-> "new", event |-> None, action |-> "none"]]
  /\ mailed = {} /\ applied = {} /\ lost = {}
  /\ crossed = [e \in Events |-> FALSE]

Goto(d, pc) == task' = [task EXCEPT ![d] = [@ EXCEPT !.pc = pc]]

\* The log's foreign key: an event that is there, or none.
Loggable(d) == task[d].event \in Events => Exists(task[d].event)

Writing(e) == {d \in Decisions : task[d].event = e /\ task[d].pc = "log"}

-----------------------------------------------------------------------------
Submit(e, n) == Announce(e, n) /\ UNCHANGED <<mvars, faults, now>>

\* The rows of the log go with the event.
Withdraw(e) ==
  /\ Close(e)
  /\ stamp' = [d \in Decisions |-> IF task[d].event = e THEN 0 ELSE stamp[d]]
  /\ UNCHANGED <<ruling, task, mailed, applied, lost, crossed, faults, now>>

\* GetByID, for the organizer and the title; an unknown action or event is refused.
Receive(d, e, action) ==
  /\ task[d].pc = "new"
  /\ Exists(e)
  /\ task' = [task EXCEPT ![d] = [pc |-> "update", event |-> e, action |-> action]]
  /\ UNCHANGED <<ruling, stamp, mailed, applied, lost, crossed, desk>>

\* SetUserRole, once the role was changed.
ChangeRole(d) ==
  /\ task[d].pc = "new"
  /\ task' = [task EXCEPT ![d] = [pc |-> "log", event |-> None, action |-> "role"]]
  /\ applied' = applied \cup {d}
  /\ UNCHANGED <<ruling, stamp, mailed, lost, crossed, desk>>

\* Mutant: UPDATE ... AND moderation_status = 'pending', whose row count is ignored.
DecidePending(d) ==
  LET e == task[d].event IN
  /\ task[d].pc = "update"
  /\ Exists(e)
  /\ ruling' = [ruling EXCEPT ![e] = IF @ = None THEN d ELSE @]
  /\ crossed' = [crossed EXCEPT ![e] = Writing(e) # {}]
  /\ applied' = applied \cup {d}
  /\ Goto(d, "log")
  /\ UNCHANGED <<stamp, mailed, lost, desk>>

\* Mutant: a decision that changes nothing is answered without a row in the log.
DecideOnce(d) ==
  LET e == task[d].event IN
  /\ task[d].pc = "update"
  /\ Exists(e)
  /\ ruling' = [ruling EXCEPT ![e] = d]
  /\ crossed' = [crossed EXCEPT ![e] = Writing(e) # {}]
  /\ applied' = applied \cup {d}
  /\ Goto(d, IF ruling[e] # None /\ task[ruling[e]].action = task[d].action
             THEN "done" ELSE "log")
  /\ UNCHANGED <<stamp, mailed, lost, desk>>

\* UpdateModeration; 404 when the event is gone.
Decide(d) ==
  LET e == task[d].event IN
  /\ task[d].pc = "update"
  /\ \/ /\ Exists(e)
        /\ ruling' = [ruling EXCEPT ![e] = d]
        /\ crossed' = [crossed EXCEPT ![e] = Writing(e) # {}]
        /\ applied' = applied \cup {d}
        /\ Goto(d, "log")
     \/ ~Exists(e) /\ Goto(d, "done") /\ UNCHANGED <<ruling, crossed, applied>>
  /\ UNCHANGED <<stamp, mailed, lost, desk>>

AfterLog(d) == IF task[d].action = "reject" /\ Owner[task[d].event] # None THEN "mail" ELSE "done"

\* InsertModerationLog, created_at DEFAULT now().
Record(d) ==
  /\ task[d].pc = "log"
  /\ Loggable(d)
  /\ \E n \in 1 .. Cardinality(Decisions) :
       /\ \A b \in Decisions : stamp[b] < n
       /\ n > 1 => \E b \in Decisions : stamp[b] = n - 1
       /\ stamp' = [stamp EXCEPT ![d] = n]
  /\ Goto(d, AfterLog(d))
  /\ UNCHANGED <<ruling, mailed, applied, lost, crossed, desk>>

\* The insert fails, for want of the event or otherwise: logged and passed over.
RecordFails(d) ==
  /\ task[d].pc = "log"
  /\ \/ ~Loggable(d) /\ UNCHANGED faults
     \/ Fault
  /\ lost' = lost \cup {d}
  /\ Goto(d, AfterLog(d))
  /\ UNCHANGED <<ruling, stamp, mailed, applied, crossed, now, lvars>>

\* GetUserByID and Send, of the title read in the first step; the answer is 200.
Tell(d) ==
  /\ task[d].pc = "mail"
  /\ Goto(d, "done")
  /\ \/ mailed' = mailed \cup {d} /\ UNCHANGED <<lost, faults>>
     \/ Fault /\ lost' = lost \cup {d} /\ UNCHANGED mailed
  /\ UNCHANGED <<ruling, stamp, applied, crossed, now, lvars>>

\* The request is cut off between two steps, or the answer of its UPDATE is lost.
CutShort(d) ==
  /\ task[d].pc \in {"update", "log", "mail"}
  /\ Fault
  /\ lost' = lost \cup {d}
  /\ Goto(d, "done")
  /\ \/ UNCHANGED <<ruling, applied>>
     \/ /\ task[d].pc = "update" /\ Exists(task[d].event)
        /\ ruling' = [ruling EXCEPT ![task[d].event] = d]
        /\ applied' = applied \cup {d}
  /\ UNCHANGED <<stamp, mailed, crossed, now, lvars>>

MNext ==
  \/ \E e \in Events :
       \/ \E n \in Sizes : Submit(e, n)
       \/ Withdraw(e)
       \/ \E d \in Decisions, action \in {"approve", "reject"} : Receive(d, e, action)
  \/ \E d \in Decisions : ChangeRole(d) \/ Decide(d) \/ Record(d) \/ RecordFails(d) \/ Tell(d) \/ CutShort(d)

MSpec == MInit /\ [][MNext]_<<desk, mvars>>

-----------------------------------------------------------------------------
ModerationTypeOK ==
  /\ ruling \in [Events -> Decisions \cup {None}]
  /\ stamp \in [Decisions -> 0 .. Cardinality(Decisions)]
  /\ task \in [Decisions -> Task]
  /\ mailed \subseteq Decisions /\ applied \subseteq Decisions /\ lost \subseteq Decisions
  /\ crossed \in [Events -> BOOLEAN]

\* Every decision and role change that was applied is in the log, that of an event
\* as long as the event, and a rejected organizer gets a mail, unless a step of it
\* failed; also when decisions overtake each other.
TrailComplete ==
  \A d \in applied \ lost : Loggable(d) =>
    /\ task[d].pc = "log" \/ stamp[d] > 0
    /\ (task[d].pc = "done" /\ AfterLog(d) = "mail") => d \in mailed

\* The newest row of an event's log is the decision its status comes from, unless
\* decisions overlapped or the row could not be written: an administrator who reads
\* the log of a quiet event sees why it is hidden or shown.
NewestRowRules ==
  \A e \in Events :
    LET r == ruling[e] IN
    (Exists(e) /\ r # None /\ Writing(e) = {} /\ ~crossed[e] /\ r \notin lost) =>
      \A d \in Decisions : task[d].event = e => stamp[d] <= stamp[r]
=============================================================================
