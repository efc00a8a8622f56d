----------------------------- MODULE GroupManager -----------------------------
(***************************************************************************)
(* src/group_manager.py, class GroupManager: the live WeCom client of each *)
(* group, its detached connect task, and the two registries the message    *)
(* handler reads (GroupStore and the pools of SessionManager).             *)
(*                                                                         *)
(* apply() has no await, so it is one action; shutdown() awaits once, in   *)
(* gather(), so it is two.  Connect tasks and their done callbacks run     *)
(* between any two of those.  The n-th client made for a group, with its   *)
(* connect task, is made[g][n]; `current` and `tasks` hold such numbers    *)
(* where the code's _clients and _connect_tasks hold references.           *)
(***************************************************************************)
EXTENDS Naturals

CONSTANTS
    Groups,     \* group names
    Creds,      \* (wecom_robot_id, wecom_robot_secret) pairs
    Keys,       \* Dify API keys
    Ttls,       \* values of session_ttl_seconds
    Caps,       \* values of session_max_total
    Absent,     \* "no entry under this name"
    MaxClients  \* bound on the clients made per group

Limits == [session_ttl_seconds : Ttls, session_max_total : Caps]

Configs == [creds : Creds, dify_api_key : Keys, limits : Limits]

\* A pool: its limits, and how many sessions it holds (GroupPool has which).
Pools == {p \in [limits : Limits, sessions : Nat] : p.sessions <= p.limits.session_max_total}

\* A connection as a reader of the code's promise sees it (HotReload).
Connections == [creds : Creds, up : BOOLEAN]

ASSUME GroupManagerAssumption ==
    /\ Caps \subseteq Nat \ {0}
    /\ Absent \notin Configs /\ Absent \notin Pools /\ Absent \notin Connections
    /\ MaxClients \in Nat \ {0}

VARIABLES
    applied,    \* the last desired state given to apply()
    store,      \* GroupStore: group |-> config or Absent
    pools,      \* SessionManager: group |-> [limits, sessions] or Absent
    current,    \* _clients: group |-> number of its client, 0 if none
    tasks,      \* _connect_tasks: group |-> number of the task, 0 if none
    born,       \* how many clients were made for the group
    made,       \* group |-> number |-> client
    phase,      \* "running", "stopping" (in gather), "down"
    awaited     \* what gather() waits for, as `tasks`

vars == <<applied, store, pools, current, tasks, born, made, phase, awaited>>

Numbers == 1..MaxClients

NoPool(p) == p = Absent

NewPool(c) == [limits |-> c.limits, sessions |-> 0]

\* The connect task of a client: "none" (not made), "pending", "cancelling"
\* (cancel() was called, not yet delivered), or how it finished.  `reported`
\* is set once its done callback ran.  `closed`: disconnect() was called, and no
\* connection came up since.  `unlisted`, which the code does not keep: the task
\* was pending when the callback of another one took it off _connect_tasks.
Unborn ==
    [creds |-> Absent, connect |-> "none", closed |-> FALSE, reported |-> FALSE,
     unlisted |-> FALSE]

NewClient(c) ==
    [creds |-> c.creds, connect |-> "pending", closed |-> FALSE, reported |-> FALSE,
     unlisted |-> FALSE]

Finished == {"ok", "failed", "cancelled"}

Cancel(connect) == IF connect = "pending" THEN "cancelling" ELSE connect

\* The client has a connection, or may still get one.
MayAnswer(c) == c.connect = "pending" \/ (c.connect = "ok" /\ ~ c.closed)

AtMost(n, bound) == IF n > bound THEN bound ELSE n

-----------------------------------------------------------------------------
(* compute_group_diff: the four disjoint parts of a desired state d.       *)

Live == {g \in Groups : current[g] # 0}

Removed(d) == {g \in Live : d[g] = Absent}

\* Mutants: a diff against the last-known configuration instead of the live
\* clients, and one that takes any change for an update.
AddedIfUnknown(d) == {g \in Groups \ Live : d[g] # Absent /\ store[g] = Absent}

RestartedIfUnknown(d) == {g \in Live : d[g] # Absent /\ store[g] = Absent}

Added(d) == {g \in Groups \ Live : d[g] # Absent}

\* Mutant: a restart for a change of the key or the limits too.
RestartedOnAnyChange(d) == {g \in Live : d[g] # Absent /\ store[g] # d[g]}

Restarted(d) ==
    {g \in Live : d[g] # Absent /\ (store[g] = Absent \/ store[g].creds # d[g].creds)}

Updated(d) ==
    {g \in Live \ Restarted(d) : d[g] # Absent /\ store[g] # d[g]}

Started(d) == Restarted(d) \cup Added(d)

Dropped(d) == Restarted(d) \cup Removed(d)

\* Mutant: _disconnect without task.cancel().
DisconnectedUncancelled(g) ==
    [n \in Numbers |-> [made[g][n] EXCEPT !.closed = @ \/ n = current[g]]]

\* _disconnect: cancel the connect task registered under the name, close the
\* client that was live.
Disconnected(g) ==
    [n \in Numbers |->
        [made[g][n] EXCEPT
            !.connect = IF n = tasks[g] THEN Cancel(@) ELSE @,
            !.closed  = @ \/ n = current[g]]]

\* Mutants: ensure_pool that replaces the pool it finds, set_max_total that leaves
\* the sessions over the new cap to the next message.
EnsurePoolAnew(p, c) == NewPool(c)

UpdatePoolLater(p, c) == [limits |-> c.limits, sessions |-> p.sessions]

\* ensure_pool and update_pool; set_max_total evicts the sessions over the new cap
\* at once.  update_pool raises for an unknown group; apply calls it for live
\* groups only, which all have a pool (LiveIsConfigured).
EnsurePool(p, c) == IF NoPool(p) THEN NewPool(c) ELSE p

UpdatePool(p, c) ==
    [limits |-> c.limits, sessions |-> AtMost(p.sessions, c.limits.session_max_total)]

\* What apply leaves in the two registries and of the clients.
StoreAfter(d) ==
    [g \in Groups |->
        IF g \in Removed(d) THEN Absent
        ELSE IF g \in Started(d) \cup Updated(d) THEN d[g]
        ELSE store[g]]

\* Mutant: removal without remove_pool.
PoolsAfterNoRemove(d) ==
    [g \in Groups |->
        IF g \in Started(d) THEN EnsurePool(pools[g], d[g])
        ELSE IF g \in Updated(d) THEN UpdatePool(pools[g], d[g])
        ELSE pools[g]]

PoolsAfter(d) ==
    [g \in Groups |->
        IF g \in Removed(d) THEN Absent
        ELSE IF g \in Started(d) THEN EnsurePool(pools[g], d[g])
        ELSE IF g \in Updated(d) THEN UpdatePool(pools[g], d[g])
        ELSE pools[g]]

MadeAfter(d) ==
    [g \in Groups |-> [n \in Numbers |->
        IF g \in Started(d) /\ n = born[g] + 1 THEN NewClient(d[g])
        ELSE IF g \in Dropped(d) THEN Disconnected(g)[n]
        ELSE made[g][n]]]

\* _clients, and likewise _connect_tasks: a new number, none, or the old one.
NumbersAfter(d, old) ==
    [g \in Groups |->
        IF g \in Started(d) THEN born[g] + 1
        ELSE IF g \in Removed(d) THEN 0
        ELSE old[g]]

Apply(d) ==
    /\ \A g \in Started(d) : born[g] < MaxClients
    /\ applied' = d
    /\ store' = StoreAfter(d)
    /\ pools' = PoolsAfter(d)
    /\ born' = [g \in Groups |-> IF g \in Started(d) THEN born[g] + 1 ELSE born[g]]
    /\ current' = NumbersAfter(d, current)
    /\ tasks' = NumbersAfter(d, tasks)
    /\ made' = MadeAfter(d)
    /\ UNCHANGED <<phase, awaited>>

-----------------------------------------------------------------------------
(* Connect tasks, their callbacks, and the messages of connected clients.  *)

\* client.connect() returns or raises.  An earlier disconnect() does not keep a
\* connect that goes on from coming up.
ConnectEnds(g, n) ==
    /\ made[g][n].connect = "pending"
    /\ \E outcome \in {"ok", "failed"} :
          made' = [made EXCEPT ![g][n].connect = outcome,
                               ![g][n].closed  = @ /\ outcome # "ok"]
    /\ UNCHANGED <<applied, store, pools, current, tasks, born, phase, awaited>>

CancelDelivered(g, n) ==
    /\ made[g][n].connect = "cancelling"
    /\ made' = [made EXCEPT ![g][n].connect = "cancelled"]
    /\ UNCHANGED <<applied, store, pools, current, tasks, born, phase, awaited>>

\* The done callback: unregister the task under this name, whichever it is, and
\* drop the client if it failed and is still the group's client.
Done(g, n) ==
    /\ made[g][n].connect \in Finished
    /\ ~ made[g][n].reported
    /\ made' = [made EXCEPT ![g] = [m \in Numbers |->
                  [made[g][m] EXCEPT
                     !.reported = @ \/ m = n,
                     !.unlisted = @ \/ (m = tasks[g] /\ made[g][m].connect = "pending")]]]
    /\ tasks' = [tasks EXCEPT ![g] = 0]
    /\ current' = [current EXCEPT
                     ![g] = IF made[g][n].connect = "failed" /\ @ = n THEN 0 ELSE @]
    /\ UNCHANGED <<applied, store, pools, born, phase, awaited>>

\* A message that arrived on a connected client of g (perhaps one closed since)
\* reaches get_or_create: a session is found or made, and others may have expired
\* or be evicted for it.
Message(g) ==
    /\ phase # "down"
    /\ \E n \in Numbers : made[g][n].connect = "ok"
    /\ store[g] # Absent
    /\ ~ NoPool(pools[g])
    /\ \E n \in 1..AtMost(pools[g].sessions + 1, pools[g].limits.session_max_total) :
          pools' = [pools EXCEPT ![g].sessions = n]
    /\ UNCHANGED <<applied, store, current, tasks, born, made, phase, awaited>>

\* Sessions of g expire or are reset.
SessionsGone(g) ==
    /\ ~ NoPool(pools[g])
    /\ \E n \in 0..pools[g].sessions : pools' = [pools EXCEPT ![g].sessions = n]
    /\ UNCHANGED <<applied, store, current, tasks, born, made, phase, awaited>>

-----------------------------------------------------------------------------
(* shutdown().  No apply() follows: the reconcile loop, its only caller,   *)
(* was cancelled and awaited before (ReconcileLoop has this in detail).    *)

\* Disconnect every client that is left, after _connect_tasks.clear().
CloseAll ==
    /\ made' = [g \in Groups |-> [n \in Numbers |->
                  [made[g][n] EXCEPT !.closed = @ \/ n = current[g]]]]
    /\ current' = [g \in Groups |-> 0]
    /\ tasks' = [g \in Groups |-> 0]
    /\ phase' = "down"

\* Cancel the registered connects and wait for them ...
ShutdownBegin ==
    /\ phase = "running"
    /\ \E g \in Groups : tasks[g] # 0
    /\ made' = [g \in Groups |-> [n \in Numbers |->
                  [made[g][n] EXCEPT !.connect = IF n = tasks[g] THEN Cancel(@) ELSE @]]]
    /\ awaited' = tasks
    /\ phase' = "stopping"
    /\ UNCHANGED <<applied, store, pools, current, tasks, born>>

\* ... gather() returns when their callbacks have run ...
ShutdownEnd ==
    /\ phase = "stopping"
    /\ \A g \in Groups : awaited[g] # 0 => made[g][awaited[g]].reported
    /\ CloseAll
    /\ UNCHANGED <<applied, store, pools, born, awaited>>

\* ... and with no connect registered there is no await at all.
ShutdownAtOnce ==
    /\ phase = "running"
    /\ \A g \in Groups : tasks[g] = 0
    /\ CloseAll
    /\ UNCHANGED <<applied, store, pools, born, awaited>>

-----------------------------------------------------------------------------
Desired == [Groups -> Configs \cup {Absent}]

\* _run_database builds the store and the pools from the rows it starts with and
\* calls apply with the same rows, all without an await: every group is started.
Init ==
    /\ applied \in Desired
    /\ store = applied
    /\ pools = [g \in Groups |-> IF store[g] = Absent THEN Absent ELSE NewPool(store[g])]
    /\ born = [g \in Groups |-> IF store[g] = Absent THEN 0 ELSE 1]
    /\ current = born
    /\ tasks = born
    /\ made = [g \in Groups |-> [n \in Numbers |->
                 IF n = born[g] THEN NewClient(store[g]) ELSE Unborn]]
    /\ phase = "running"
    /\ awaited = [g \in Groups |-> 0]

TaskStep ==
    \E g \in Groups, n \in Numbers :
        ConnectEnds(g, n) \/ CancelDelivered(g, n) \/ Done(g, n)

UserStep == \E g \in Groups : Message(g) \/ SessionsGone(g)

Shutdown == ShutdownBegin \/ ShutdownEnd \/ ShutdownAtOnce

Next ==
    \/ phase = "running" /\ \E d \in Desired : Apply(d)
    \/ TaskStep
    \/ UserStep
    \/ Shutdown

Spec == Init /\ [][Next]_vars

-----------------------------------------------------------------------------
Clients ==
    [creds : Creds \cup {Absent}, connect : {"none", "pending", "cancelling"} \cup Finished,
     closed : BOOLEAN, reported : BOOLEAN, unlisted : BOOLEAN]

\* Every registry has its type, and what is registered was made.
TypeOK ==
    /\ applied \in Desired /\ store \in Desired
    /\ pools \in [Groups -> Pools \cup {Absent}]
    /\ born \in [Groups -> 0..MaxClients]
    /\ current \in [Groups -> 0..MaxClients]
    /\ tasks \in [Groups -> 0..MaxClients]
    /\ awaited \in [Groups -> 0..MaxClients]
    /\ made \in [Groups -> [Numbers -> Clients]]
    /\ phase \in {"running", "stopping", "down"}
    /\ \A g \in Groups, n \in Numbers : made[g][n].connect = "none" <=> n > born[g]

\* The handler's two lookups, GroupStore.get and then the session pool, agree: a
\* message never finds a group in one registry and a KeyError in the other, and a
\* live client always finds both.
LiveIsConfigured ==
    \A g \in Groups :
        /\ store[g] = Absent <=> NoPool(pools[g])
        /\ g \in Live => store[g] # Absent

\* The registered client is the newest one, and any other client of the group that
\* is connected, or may still connect, is one whose pending task the late callback
\* of an older task had taken off _connect_tasks: that way to two connections that
\* both answer (NothingConnectsAfterShutdown shows it) is the only one.
NoClientLeftBehind ==
    \A g \in Groups :
        /\ current[g] \in {0, born[g]}
        /\ \A n \in Numbers \ {current[g]} :
             MayAnswer(made[g][n]) => made[g][n].unlisted

\* What runs is what was last applied: the configuration of a desired group is in
\* the store, its client has the credentials stored and is not closed; a desired
\* group has no client only when its newest connect failed; no other group is live.
RunsWhatWasApplied ==
    phase # "down" =>
        \A g \in Groups :
            IF applied[g] = Absent THEN g \notin Live
            ELSE /\ store[g] = applied[g]
                 /\ g \in Live =>
                      /\ made[g][current[g]].creds = store[g].creds
                      /\ ~ made[g][current[g]].closed
                 /\ g \notin Live =>
                      /\ made[g][born[g]].connect = "failed"
                      /\ made[g][born[g]].reported

\* A reload ends no session of a group it keeps, whether it leaves the group's
\* client alone, restarts it or tries again after a failed connect, but those over
\* a cap that it lowers in place.  (README.md says "live sessions survive";
\* set_max_total evicts "LRU sessions immediately when it shrinks".)
SessionsSurviveReload ==
    [][ \A g \in Groups :
          (applied' # applied \/ born' # born) /\ applied[g] # Absent /\ applied'[g] # Absent =>
             /\ ~ NoPool(pools[g]) /\ ~ NoPool(pools'[g])
             /\ \/ pools'[g].sessions = pools[g].sessions
                \/ /\ born'[g] = born[g]
                   /\ pools[g].sessions > applied'[g].limits.session_max_total
                   /\ pools'[g].sessions = applied'[g].limits.session_max_total ]_vars

\* "enabled = false or DELETE: the group's client disconnects; its sessions are
\* dropped".  A group that is not configured any more has no sessions.
RemovedHasNoSessions ==
    \A g \in Groups : applied[g] = Absent => NoPool(pools[g]) \/ pools[g].sessions = 0

\* "session_max_total / session_ttl_seconds changed: applied in place".  The
\* limits of a pool are those of the group's configuration.
PoolFollowsStore ==
    \A g \in Groups :
        store[g] # Absent /\ ~ NoPool(pools[g]) => pools[g].limits = store[g].limits

\* shutdown(): "Cancel pending connects and disconnect every client".
NothingConnectsAfterShutdown ==
    phase = "down" =>
        \A g \in Groups, n \in Numbers : made[g][n].connect # "pending"

-----------------------------------------------------------------------------
\* The connection of g as a reader of the code's promise sees it: which task it is
\* and whether its callback has run is hidden.
Connection(g) ==
    IF current[g] = 0 THEN Absent
    ELSE [creds |-> made[g][current[g]].creds, up |-> made[g][current[g]].connect = "ok"]

Reload == INSTANCE HotReload WITH
    config  <- store,
    conn    <- [g \in Groups |-> Connection(g)],
    talking <- [g \in Groups |-> IF NoPool(pools[g]) THEN 0 ELSE pools[g].sessions],
    stopped <- phase = "down"

\* Behind tasks that are cancelled, fail late and report late, every run of the
\* manager is a run of HotReload: connections change only with their credentials,
\* a connection that came up stays until its group's credentials change, the group
\* goes or the process stops, and a reload ends no conversation of a group it keeps
\* but those over a lowered cap.
ImplementsHotReload == Reload!Spec
=============================================================================
