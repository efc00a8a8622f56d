---------------------------- MODULE ReconcileLoop ----------------------------
(***************************************************************************)
(* src/group_manager.py, reconcile_loop(), over the GroupManager it drives *)
(* and the table it reads: rows_to_desired of src/db_config.py, the writes *)
(* of the admin UI (commit, then request_reload) and of other programs     *)
(* (commit only), and the way _run_database stops the loop.                *)
(***************************************************************************)
EXTENDS GroupManager

CONSTANT MaxWriters     \* bound on the admin handlers past their commit

VARIABLES
    db,             \* the committed table: group |-> row or Absent
    loop,           \* where reconcile_loop is suspended
    snapshot,       \* the rows list_rows fetched
    reload_event,   \* the asyncio.Event
    writers,        \* admin handlers that committed and did not yet set it
    unread          \* what became of the admin writes that are not read yet

loopVars == <<db, loop, snapshot, reload_event, writers, unread>>

\* `unread`, which the code does not keep: "no" admin write was committed after the
\* last SELECT that succeeded; the last one is "new"; the event was cleared since,
\* so that the read that follows is "due" to fetch it; that read has been "tried",
\* and failed.
Unread == {"no", "new", "due", "tried"}

\* `valid`: validate_group_fields accepts the row.  Only writers other than the
\* admin UI can leave a row that it does not.
Rows == [config : Configs, enabled : BOOLEAN, valid : BOOLEAN]

Tables == [Groups -> Rows \cup {Absent}]

Valid(rows) == \A g \in Groups : rows[g] # Absent => rows[g].valid

\* The enabled rows; for a table with an invalid row, disabled or not, the code
\* raises instead.
RowsToDesired(rows) ==
    [g \in Groups |->
        IF rows[g] # Absent /\ rows[g].enabled THEN rows[g].config ELSE Absent]

-----------------------------------------------------------------------------
(* The loop.  It is suspended in list_rows ("reading", then "read" when    *)
(* the rows are fetched) and in asyncio.wait ("waiting", then "woken").    *)

ReadRows ==
    /\ loop = "reading"
    /\ loop' = "read"
    /\ snapshot' = db
    /\ unread' = "no"
    /\ UNCHANGED <<db, reload_event, writers>>
    /\ UNCHANGED vars

\* The database cannot be read: keep the last-known configuration until the next
\* cycle.  A write that this read was to fetch stays unread.
ReadFails ==
    /\ loop = "reading"
    /\ loop' = "waiting"
    /\ unread' = IF unread = "due" THEN "tried" ELSE unread
    /\ UNCHANGED <<db, snapshot, reload_event, writers>>
    /\ UNCHANGED vars

\* Mutant: clears the event before the wait, not after it.
ApplyRowsAndClear ==
    /\ loop = "read"
    /\ loop' = "waiting"
    /\ IF Valid(snapshot) THEN Apply(RowsToDesired(snapshot)) ELSE UNCHANGED vars
    /\ reload_event' = FALSE
    /\ UNCHANGED <<db, snapshot, writers, unread>>

\* Invalid rows keep it too.
ApplyRows ==
    /\ loop = "read"
    /\ loop' = "waiting"
    /\ IF Valid(snapshot) THEN Apply(RowsToDesired(snapshot)) ELSE UNCHANGED vars
    /\ UNCHANGED <<db, snapshot, reload_event, writers, unread>>

WakeByReload ==
    /\ loop = "waiting"
    /\ reload_event
    /\ loop' = "woken"
    /\ UNCHANGED <<db, snapshot, reload_event, writers, unread>>
    /\ UNCHANGED vars

\* Mutant: a wait without the interval.
WakeByEventOnly ==
    /\ loop = "waiting"
    /\ reload_event
    /\ loop' = "woken"
    /\ UNCHANGED <<db, snapshot, reload_event, writers, unread>>
    /\ UNCHANGED vars

WakeByTimeout ==
    /\ loop = "waiting"
    /\ loop' = "woken"
    /\ UNCHANGED <<db, snapshot, reload_event, writers, unread>>
    /\ UNCHANGED vars

ClearReload ==
    /\ loop = "woken"
    /\ reload_event' = FALSE
    /\ loop' = "reading"
    /\ unread' = IF unread = "no" THEN "no" ELSE "due"
    /\ UNCHANGED <<db, snapshot, writers>>
    /\ UNCHANGED vars

\* The process is told to stop: reload_task.cancel(), at any suspension.
CancelLoop ==
    /\ loop # "stopped"
    /\ loop' = "stopped"
    /\ UNCHANGED <<db, snapshot, reload_event, writers, unread>>
    /\ UNCHANGED vars

-----------------------------------------------------------------------------
(* The writers of the table.                                               *)

\* An admin handler's commit ...
AdminCommit(g, row) ==
    /\ writers < MaxWriters
    /\ row # Absent => row.valid
    /\ row # db[g]
    /\ db' = [db EXCEPT ![g] = row]
    /\ writers' = writers + 1
    /\ unread' = "new"
    /\ UNCHANGED <<loop, snapshot, reload_event>>
    /\ UNCHANGED vars

\* ... and, when its coroutine goes on, request_reload().
RequestReload ==
    /\ writers > 0
    /\ reload_event' = TRUE
    /\ writers' = writers - 1
    /\ UNCHANGED <<db, loop, snapshot, unread>>
    /\ UNCHANGED vars

\* Another program edits the table.
SqlWrite(g, row) ==
    /\ row # db[g]
    /\ db' = [db EXCEPT ![g] = row]
    /\ UNCHANGED <<loop, snapshot, reload_event, writers, unread>>
    /\ UNCHANGED vars

-----------------------------------------------------------------------------
LoopInit ==
    /\ Init
    /\ db \in Tables
    /\ Valid(db)
    /\ applied = RowsToDesired(db)
    /\ snapshot = db
    /\ loop = "reading"
    /\ reload_event = FALSE
    /\ writers = 0
    /\ unread = "no"

LoopStep ==
    ReadRows \/ ReadFails \/ ApplyRows \/ WakeByReload \/ WakeByTimeout
      \/ ClearReload \/ CancelLoop

WriterStep ==
    \/ RequestReload
    \/ \E g \in Groups, row \in Rows \cup {Absent} :
          AdminCommit(g, row) \/ SqlWrite(g, row)

\* Mutant: shutdown() without waiting for the cancelled loop.
ManagerStepEarly ==
    /\ TaskStep \/ Shutdown
    /\ UNCHANGED loopVars

\* What the GroupManager does beside apply(), its sessions left out: _run_database
\* awaits the cancelled loop before it calls shutdown().
ManagerStep ==
    /\ TaskStep \/ (loop = "stopped" /\ Shutdown)
    /\ UNCHANGED loopVars

LoopNext == LoopStep \/ WriterStep \/ ManagerStep

\* The event loop runs what is ready and timers fire; a table that can be read
\* again and again is read in the end; connects return or raise.  Nothing is
\* assumed of the writers (beyond finishing what they began) or of the users.
LoopFairness ==
    /\ SF_<<vars, loopVars>>(ReadRows)
    /\ WF_<<vars, loopVars>>(ReadRows \/ ReadFails)
    /\ WF_<<vars, loopVars>>(ApplyRows)
    /\ WF_<<vars, loopVars>>(WakeByReload \/ WakeByTimeout)
    /\ WF_<<vars, loopVars>>(ClearReload)
    /\ WF_<<vars, loopVars>>(RequestReload)
    /\ WF_<<vars, loopVars>>(TaskStep /\ UNCHANGED loopVars)

LoopSpec == LoopInit /\ [][LoopNext]_<<vars, loopVars>> /\ LoopFairness

-----------------------------------------------------------------------------
\* A write of the admin UI waits for the interval only if a read that began after
\* its reload was honored has failed: while a write is not read, the loop does not
\* sleep on a clear event, unless the writer that will set it has not gone on or
\* that read was tried.  "The reload event is cleared after waiting, so a write that
\* lands while apply is still running is honored on the very next iteration".
NoLostWakeup ==
    loop = "waiting" /\ unread # "no" => reload_event \/ writers > 0 \/ unread = "tried"

\* The bound on the clients made, not the code, keeps apply() from going on.
Exhausted ==
    /\ loop = "read"
    /\ Valid(snapshot)
    /\ \E g \in Started(RowsToDesired(snapshot)) : born[g] = MaxClients

\* Whatever happened before (failed reads, invalid rows, failed connects), once
\* the table is valid and is left alone the process converges on it.
Converges ==
    \A rows \in {t \in Tables : Valid(t)} :
        <>[](db = rows) =>
            <>[](applied = RowsToDesired(rows) \/ loop = "stopped" \/ Exhausted)

\* "A group whose WeCom connection keeps failing is retried on every cycle until
\* it connects or is removed".
FailedIsRetried ==
    \A g \in Groups :
        <>[](Valid(db)) =>
            []( applied[g] # Absent /\ g \notin Live
                  => <>(\/ g \in Live
                        \/ applied[g] = Absent
                        \/ loop = "stopped"
                        \/ Exhausted) )

\* Once shutdown() is over no client is registered, and none is connected or may
\* still connect, although the loop that makes them may have been told to stop at
\* any moment; but for the clients that shutdown() cannot find, whose pending tasks
\* the late callback of an older task had taken off _connect_tasks.
NothingRunsWhenDown ==
    phase = "down" =>
        \A g \in Groups :
            /\ g \notin Live
            /\ \A n \in Numbers : MayAnswer(made[g][n]) => made[g][n].unlisted
=============================================================================
