------------------------------ MODULE Listings ------------------------------
(***************************************************************************)
(* The paged lists: public events, an organizer's events, the moderation     *)
(* queue, users and the moderation log.  A page is one query with ORDER BY,  *)
(* LIMIT and OFFSET over the rows as they are at that moment; a reader asks   *)
(* for page after page while rows come, go and change.  Rows with equal keys *)
(* come in any order, each time anew.                                       *)
(***************************************************************************)
EXTENDS EventDesk

CONSTANTS
  Rows,         \* rows of the table that is listed
  Keys,         \* values of the column it is sorted by
  Limits,       \* limits a reader asks for, 0 when it gives none
  DefaultLimit  \* rows of a page without a limit, 20 in the code

ASSUME ListingAssumption ==
  /\ Keys \subseteq Nat /\ Limits \subseteq Nat /\ DefaultLimit \in Nat \ {0}
  /\ IsFiniteSet(Rows)

VARIABLES
  view,     \* what the reader asks for: the list, its filter and the limit
  row,      \* row[x]: whether x exists, its key and the column the list filters by
  reader,   \* the reader: next offset, rows it was shown, once or twice, and
            \* whether it came to the end
  stayed,   \* rows listed all through the pass with one key (history)
  shrunk,   \* a row left the list or moved in it during the pass (history)
  grown     \* a row joined the list or moved in it during the pass (history)

listvars == <<view, row, reader, stayed, shrunk, grown>>

Status == {"pending", "approved", "rejected"}
EventLists == {"public", "mine", "queue"}

\* GET /events
PublicView == [list : {"public"}, pick : {None}, limit : Limits]

\* GET /events/mine: of the caller; an administrator picks an organizer or none.
MineView == [list : {"mine"}, pick : Staff \cup {None}, limit : Limits]

\* GET /admin/events: pending when no status is given.
QueueView == [list : {"queue"}, pick : Status, limit : Limits]

\* GET /admin/users
UsersView == [list : {"users"}, pick : {None}, limit : Limits]

\* GET /admin/moderation-logs: of one administrator or of all.
LogsView == [list : {"logs"}, pick : Staff \cup {None}, limit : Limits]

View == UNION {PublicView, MineView, QueueView, UsersView, LogsView}

Row == [is : {"no", "here", "gone"}, key : Keys \cup {0}, tag : Status \cup Staff \cup {None}]

\* Events are created pending; the other tags are a row's organizer or administrator.
Tags == CASE view.list \in {"public", "queue"} -> {"pending"}
          [] view.list \in {"mine", "logs"} -> Staff
          [] OTHER -> {None}

Fits(r) ==
  /\ r.is = "here"
  /\ view.list = "public" => r.tag = "approved"
  /\ (view.list # "public" /\ view.pick # None) => r.tag = view.pick

Listed(rows) == {x \in Rows : Fits(rows[x])}

ReaderAtStart == [offset |-> 0, seen |-> {}, twice |-> {}, over |-> FALSE]

ListInit ==
  /\ DeskInit
  /\ view \in View
  /\ row = [x \in Rows |-> [is |-> "no", key |-> 0, tag |-> None]]
  /\ reader = ReaderAtStart
  /\ stayed = {} /\ shrunk = FALSE /\ grown = FALSE

-----------------------------------------------------------------------------
(* The rows change *)

Write(x, r) ==
  LET new == [row EXCEPT ![x] = r]
      out == (x \in Listed(row) /\ x \notin Listed(new)) \/ row[x].key # r.key
      in  == (x \notin Listed(row) /\ x \in Listed(new)) \/ row[x].key # r.key
  IN
  /\ row' = new
  /\ IF reader.offset > 0
     THEN /\ stayed' = IF out THEN stayed \ {x} ELSE stayed
          /\ shrunk' = (shrunk \/ (out /\ x \in Listed(row)))
          /\ grown' = (grown \/ (in /\ x \in Listed(new)))
     ELSE UNCHANGED <<stayed, shrunk, grown>>
  /\ UNCHANGED <<view, reader, desk>>

\* An email is UNIQUE; created_at of a log row is later than all before.
Insert(x, k, tag) ==
  /\ row[x].is = "no"
  /\ tag \in Tags
  /\ \A y \in Rows : row[y].is = "here" =>
       /\ view.list = "users" => row[y].key # k
       /\ view.list = "logs" => row[y].key < k
  /\ Write(x, [is |-> "here", key |-> k, tag |-> tag])

Judge(x, st) ==
  /\ view.list \in {"public", "queue"}
  /\ row[x].is = "here"
  /\ Write(x, [row[x] EXCEPT !.tag = st])

\* PUT of starts_at.
Reschedule(x, k) ==
  /\ view.list \in EventLists
  /\ row[x].is = "here"
  /\ Write(x, [row[x] EXCEPT !.key = k])

\* An event is deleted, log rows with their event; nobody deletes users.
Drop(x) ==
  /\ view.list # "users"
  /\ row[x].is = "here"
  /\ Write(x, [is |-> "gone", key |-> 0, tag |-> None])

-----------------------------------------------------------------------------
(* A page *)

PageSize(limit) == IF limit = 0 THEN DefaultLimit ELSE limit

\* ORDER BY email ASC, starts_at DESC, created_at DESC.
Precedes(x, y) == IF view.list = "users" THEN row[x].key < row[y].key ELSE row[x].key > row[y].key

Heads(set, n) ==
  {A \in SUBSET set :
     /\ Cardinality(A) = IF n < Cardinality(set) THEN n ELSE Cardinality(set)
     /\ \A x \in A, y \in set \ A : ~Precedes(y, x)}

\* Mutant: LIMIT and OFFSET change places.
PagesSwapped(offset, limit) ==
  UNION {Heads(Listed(row) \ A, offset) : A \in Heads(Listed(row), limit)}

\* Mutant: without ORDER BY.
PagesUnsorted(offset, limit) ==
  {S \in SUBSET Listed(row) :
     LET left == Cardinality(Listed(row)) - offset IN
     Cardinality(S) = IF left <= 0 THEN 0 ELSE IF left < limit THEN left ELSE limit}

\* What the query may answer.
Pages(offset, limit) ==
  UNION {Heads(Listed(row) \ A, limit) : A \in Heads(Listed(row), offset)}

\* The reader counts on; a page that is not full is the last one.
ReadPage ==
  /\ \E S \in Pages(reader.offset, PageSize(view.limit)) :
       reader' = [offset |-> reader.offset + PageSize(view.limit), seen |-> reader.seen \cup S,
                  twice |-> reader.twice \cup (reader.seen \cap S),
                  over |-> Cardinality(S) < PageSize(view.limit)]
  /\ IF reader.offset = 0 THEN stayed' = Listed(row) /\ shrunk' = FALSE /\ grown' = FALSE
                          ELSE UNCHANGED <<stayed, shrunk, grown>>
  /\ UNCHANGED <<view, row, desk>>

\* One pass of one reader: a behaviour ends with it.
ListNext ==
  /\ ~reader.over
  /\ \/ \E x \in Rows :
          \/ \E k \in Keys : (\E tag \in Tags : Insert(x, k, tag)) \/ Reschedule(x, k)
          \/ \E st \in Status : Judge(x, st)
          \/ Drop(x)
     \/ ReadPage

ListSpec == ListInit /\ [][ListNext]_<<desk, listvars>>

-----------------------------------------------------------------------------
ListingsTypeOK ==
  /\ view \in View
  /\ row \in [Rows -> Row]
  /\ reader \in [offset : Nat, seen : SUBSET Rows, twice : SUBSET Rows, over : BOOLEAN]
  /\ stayed \subseteq Rows
  /\ shrunk \in BOOLEAN /\ grown \in BOOLEAN

Ties(x) == \E y \in Listed(row) \ {x} : row[y].key = row[x].key

\* A reader who came to the end saw every row that was in the list all the time,
\* unless a row left or moved under it (an administrator who decides while paging
\* the queue), or the row has the same key as another (two events that start at one
\* time).  Users and, while no event is deleted, log rows are never skipped.  No row
\* is shown twice unless one joined or moved, or it has the key of another.
PassExplained ==
  [][/\ (~reader.over /\ reader'.over) =>
          (shrunk' \/ \A x \in stayed' \ reader'.seen : Ties(x))
     /\ \A x \in reader'.twice \ reader.twice : grown \/ Ties(x)]_<<desk, listvars>>
=============================================================================
