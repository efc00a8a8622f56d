------------------------------- MODULE AdminApi -------------------------------
(***************************************************************************)
(* The groups API of src/admin_server.py over the GroupRepository of       *)
(* src/db_config.py: all its requests and the reconcile loop's reads share *)
(* one SQLite connection, whose worker thread runs one call at a time, and *)
(* another program may write to the same file.  A request awaits every     *)
(* call, so the calls of several requests interleave.                      *)
(*                                                                         *)
(* SQLite itself is modelled from how GroupRepository uses it: the file is *)
(* in WAL mode, and Python's sqlite3 opens a deferred transaction before   *)
(* the first write, which lasts until the next commit().  No code calls    *)
(* rollback().  list_rows counts as one call.                              *)
(***************************************************************************)
EXTENDS FiniteSets

CONSTANTS
    Ids,            \* row ids (AUTOINCREMENT: a deleted one is not used again)
    Names, Secrets, \* what the columns may hold
    Requests,       \* the requests in progress at a time
    NewRows,        \* the rows that a POST may create
    Bodies,         \* the bodies that a PUT may have
    Unused, Deleted,
    Blank,          \* a field that a PUT leaves out or sends empty
    OtherPrograms   \* whether another program writes to the file

Rows == [name : Names, secret : Secrets, enabled : BOOLEAN]

Tables == [Ids -> Rows \cup {Unused, Deleted}]

AllBodies ==
    [name : Names \cup {Blank}, secret : Secrets \cup {Blank},
     enabled : BOOLEAN \cup {Blank}]

ASSUME AdminApiAssumption ==
    /\ NewRows \subseteq Rows /\ Bodies \subseteq AllBodies
    /\ Unused # Deleted
    /\ Unused \notin Rows /\ Deleted \notin Rows
    /\ Blank \notin Names \cup Secrets \cup {"create", "put", "toggle", "delete"}
    /\ OtherPrograms \in BOOLEAN

VARIABLES
    file,       \* the committed table
    txn,        \* the connection: "none", or in a transaction that was only begun,
                \* has read a snapshot ("reading"), or holds the write lock
    view,       \* the table as the connection sees it
    stale,      \* the snapshot was read before the last commit of the other program
    uncommitted,\* the requests whose write is in the view and not in the file
    req,        \* request |-> what its handler knows
    other,      \* the other program: "idle", or "writing": it has the write lock
    seen        \* the rows of the reconcile loop's last list_rows

vars == <<file, txn, view, stale, uncommitted, req, other, seen>>

connection == <<txn, view, stale, uncommitted>>

\* The row of a table under an id, and the names of the other rows.
HasRow(t, i) == t[i] \notin {Unused, Deleted}

TakenNames(t, i) == {t[j].name : j \in {k \in Ids \ {i} : HasRow(t, k)}}

-----------------------------------------------------------------------------
(* The connection.                                                         *)

\* SELECT: the first one in a begun transaction fixes its snapshot.
Select ==
    /\ txn' = IF txn = "begun" THEN "reading" ELSE txn
    /\ UNCHANGED <<view, stale, uncommitted>>

\* INSERT, UPDATE or DELETE by request r, when the connection can have the lock: no
\* other program has it, and the snapshot is not stale.
CanWrite == other # "writing" /\ ~ (txn = "reading" /\ stale)

Write(r, t) ==
    /\ txn' = "writing"
    /\ view' = t
    /\ uncommitted' = uncommitted \cup {r}
    /\ UNCHANGED stale

\* The statement violates UNIQUE: it is undone, the transaction is not.
WriteRefused ==
    /\ txn' = "writing"
    /\ UNCHANGED <<view, stale, uncommitted>>

\* The statement is not executed at all: "database is locked", or a value that SQLite
\* cannot store.  The transaction is begun before either is noticed.
WriteFailed ==
    /\ txn' = IF txn = "none" THEN "begun" ELSE txn
    /\ UNCHANGED <<view, stale, uncommitted>>

\* commit() ends whatever transaction there is, with the writes of all requests.
\* A view that is only read is the file, if it is not stale.
Commit ==
    /\ file' = IF txn = "writing" THEN view ELSE file
    /\ view' = file'
    /\ txn' = "none"
    /\ stale' = FALSE
    /\ uncommitted' = {}

-----------------------------------------------------------------------------
(* The handlers.  `target` and `row` are what the write will do, `found`   *)
(* whether it matched a row (rowcount > 0).  Authentication, validation    *)
(* and their 4xx answers touch nothing and are left out.                   *)

Idle == [pc |-> "idle", kind |-> Blank, target |-> Blank, row |-> Blank,
         body |-> Blank, found |-> TRUE]

Request(kind, i, row) ==
    [Idle EXCEPT !.pc = "write", !.kind = kind, !.target = i, !.row = row]

Set(r, q) == req' = [req EXCEPT ![r] = q]

Receive(r) ==
    /\ req[r].pc = "idle"
    /\ \/ \E row \in NewRows : Set(r, Request("create", Blank, row))
       \/ \E i \in Ids, body \in Bodies :
             Set(r, [Request("put", i, Blank) EXCEPT !.pc = "list", !.body = body])
       \/ \E i \in Ids, e \in BOOLEAN :
             Set(r, [Request("toggle", i, Blank) EXCEPT !.body = e])
       \/ \E i \in Ids : Set(r, Request("delete", i, Blank))
    /\ UNCHANGED <<file, connection, other, seen>>

\* Mutant: no fallback to the stored value.
ValueOnly(value, current) == value

ValueOrCurrent(value, current) == IF value = Blank THEN current ELSE value

\* PUT fills the blank fields from the row it lists, and later writes all of them.
Merged(body, row) ==
    [name |-> ValueOrCurrent(body.name, row.name),
     secret |-> ValueOrCurrent(body.secret, row.secret),
     enabled |-> ValueOrCurrent(body.enabled, row.enabled)]

ListRows(r) ==
    /\ req[r].pc = "list"
    /\ Select
    /\ IF HasRow(view, req[r].target)
       THEN Set(r, [req[r] EXCEPT !.pc = "write",
                                  !.row = Merged(req[r].body, view[req[r].target])])
       ELSE Set(r, Idle)   \* 404
    /\ UNCHANGED <<file, other, seen>>

\* The next AUTOINCREMENT id, which ids are being alike.
NewId == CHOOSE i \in Ids : view[i] = Unused

Target(r) == IF req[r].kind = "create" THEN NewId ELSE req[r].target

\* What the statement makes of the row under its id.
Written(r) ==
    LET old == view[Target(r)]
    IN  CASE req[r].kind = "create" -> req[r].row
          [] req[r].kind = "put"    -> req[r].row
          [] req[r].kind = "toggle" -> [old EXCEPT !.enabled = req[r].body]
          [] req[r].kind = "delete" -> Deleted

Matches(r) == req[r].kind = "create" \/ HasRow(view, Target(r))

\* The bound on ids, not the code, keeps a create from going on.
CanTarget(r) == req[r].kind = "create" => \E i \in Ids : view[i] = Unused

\* Mutant: the names are only compared when a row is inserted.
UniqueOnInsert(r) ==
    req[r].kind = "create" => req[r].row.name \notin TakenNames(view, Target(r))

Unique(r) ==
    req[r].kind \in {"create", "put"} => req[r].row.name \notin TakenNames(view, Target(r))

\* Mutant: answers before the commit.
AnsweredEarly(r) ==
    /\ req[r].pc = "write"
    /\ CanTarget(r)
    /\ CanWrite
    /\ Matches(r) /\ Unique(r)
    /\ Write(r, [view EXCEPT ![Target(r)] = Written(r)])
    /\ Set(r, Idle)
    /\ UNCHANGED <<file, other, seen>>

\* The statement is executed; commit() is another call.
Execute(r) ==
    /\ req[r].pc = "write"
    /\ CanTarget(r)
    /\ CanWrite
    /\ \/ /\ Matches(r) /\ Unique(r)
          /\ Write(r, [view EXCEPT ![Target(r)] = Written(r)])
          /\ Set(r, [req[r] EXCEPT !.pc = "commit"])
       \/ /\ ~ Matches(r)
          /\ WriteRefused
          /\ Set(r, [req[r] EXCEPT !.pc = "commit", !.found = FALSE])
    /\ UNCHANGED <<file, other, seen>>

\* IntegrityError: 409.
ExecuteConflict(r) ==
    /\ req[r].pc = "write"
    /\ CanTarget(r)
    /\ CanWrite
    /\ Matches(r) /\ ~ Unique(r)
    /\ WriteRefused
    /\ Set(r, Idle)
    /\ UNCHANGED <<file, other, seen>>

\* OperationalError, after the busy timeout or at once: 500.
ExecuteLocked(r) ==
    /\ req[r].pc = "write"
    /\ ~ CanWrite
    /\ WriteFailed
    /\ Set(r, Idle)
    /\ UNCHANGED <<file, other, seen>>

\* A value that passed validation cannot be bound, e.g. an integer of more than 64 bits:
\* 500.
ExecuteUnbindable(r) ==
    /\ req[r].pc = "write"
    /\ req[r].kind \in {"create", "put"}
    /\ WriteFailed
    /\ Set(r, Idle)
    /\ UNCHANGED <<file, other, seen>>

\* 201 or 204 and a reload, or 404 if no row matched.
CommitAndAnswer(r) ==
    /\ req[r].pc = "commit"
    /\ Commit
    /\ Set(r, Idle)
    /\ UNCHANGED <<other, seen>>

\* GET /api/groups.
ListGroups ==
    /\ Select
    /\ UNCHANGED <<file, req, other, seen>>

\* The reconcile loop's list_rows, every interval and after every reload.
LoopReads ==
    /\ Select
    /\ seen' = view
    /\ UNCHANGED <<file, req, other>>

\* The process dies and is started again: it reads the table before anything else.
Restart ==
    /\ txn' = "none" /\ view' = file /\ stale' = FALSE /\ uncommitted' = {}
    /\ req' = [r \in Requests |-> Idle]
    /\ seen' = file
    /\ UNCHANGED <<file, other>>

-----------------------------------------------------------------------------
(* Another program, e.g. the sqlite3 shell, with a transaction of its own. *)

OtherBegins ==
    /\ OtherPrograms
    /\ other = "idle" /\ txn # "writing"
    /\ other' = "writing"
    /\ UNCHANGED <<file, connection, req, seen>>

OtherCommits ==
    /\ other = "writing"
    /\ other' = "idle"
    /\ \E i \in Ids, row \in Rows \cup {Deleted} :
          /\ file[i] # Deleted
          /\ IF row = Deleted THEN HasRow(file, i) ELSE row.name \notin TakenNames(file, i)
          /\ file' = [file EXCEPT ![i] = row]
    /\ view' = IF txn = "reading" THEN view ELSE file'
    /\ stale' = (txn = "reading")
    /\ UNCHANGED <<txn, uncommitted, req, seen>>

OtherRollsBack ==
    /\ other = "writing"
    /\ other' = "idle"
    /\ UNCHANGED <<file, connection, req, seen>>

-----------------------------------------------------------------------------
Init ==
    /\ \E i \in Ids, row \in Rows :
          file = [j \in Ids |-> IF j = i THEN row ELSE Unused]
    /\ txn = "none" /\ view = file /\ stale = FALSE /\ uncommitted = {}
    /\ req = [r \in Requests |-> Idle]
    /\ other = "idle"
    /\ seen = file

Handle(r) ==
    \/ ListRows(r)
    \/ Execute(r) \/ ExecuteConflict(r) \/ ExecuteLocked(r) \/ ExecuteUnbindable(r)
    \/ CommitAndAnswer(r)

Other == OtherBegins \/ OtherCommits \/ OtherRollsBack

Next ==
    \/ \E r \in Requests : Receive(r) \/ Handle(r)
    \/ ListGroups \/ LoopReads
    \/ Restart
    \/ Other

\* The loop reads every interval, and handlers run on.  Nobody has to send a request, and
\* the other program may do as it likes.
Fairness ==
    /\ WF_vars(LoopReads)
    /\ \A r \in Requests : WF_vars(Handle(r))

Spec == Init /\ [][Next]_vars /\ Fairness

-----------------------------------------------------------------------------
IsRequest(q) ==
    /\ q.pc \in {"idle", "list", "write", "commit"}
    /\ q.kind \in {"create", "put", "toggle", "delete", Blank}
    /\ q.target \in Ids \cup {Blank}
    /\ q.row \in Rows \cup {Blank}
    /\ CASE q.kind = "put"    -> q.body \in Bodies
         [] q.kind = "toggle" -> q.body \in BOOLEAN
         [] OTHER             -> q.body = Blank
    /\ q.found \in BOOLEAN

\* Only a transaction with a snapshot sees another table than the file, and only one
\* that reads can be behind it.
TypeOK ==
    /\ file \in Tables /\ seen \in Tables /\ view \in Tables
    /\ txn \in {"none", "begun", "reading", "writing"}
    /\ stale \in BOOLEAN
    /\ uncommitted \subseteq Requests
    /\ \A r \in Requests : IsRequest(req[r])
    /\ other \in {"idle", "writing"}
    /\ stale => txn = "reading"
    /\ view # file => stale \/ txn = "writing"

\* Whatever a request was answered, its write is in the file or nowhere: a 201 or 204
\* survives a crash, and a 4xx or 500 does not take effect with a later commit.
AnsweredIsDecided == \A r \in uncommitted : req[r].pc = "commit"

\* No two rows share a name, although a PUT takes it from a row it read one call
\* before it writes.
NamesAreUnique ==
    \A i \in Ids : HasRow(view, i) => view[i].name \notin TakenNames(view, i)

NoRequests == \A r \in Requests : req[r].pc = "idle"

\* "The running process re-reads the table every interval and converges": what the
\* loop reads becomes, and stays, what the file holds once nobody writes to it.
LoopSeesTheFile ==
    \A t \in Tables : <>[](file = t /\ NoRequests) => <>[](seen = t)
=============================================================================
