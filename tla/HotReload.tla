------------------------------- MODULE HotReload -------------------------------
(***************************************************************************)
(* What hot reload promises (src/group_manager.py, class GroupManager),    *)
(* without client objects, connect tasks, their cancellation and their     *)
(* callbacks: each group has a configuration, at most one connection that  *)
(* counts, and a number of users in a conversation.  A reload touches a    *)
(* connection only when the group's credentials changed, and sessions only *)
(* when the group goes or its cap is lowered below them.  GroupManager     *)
(* implements it.                                                          *)
(***************************************************************************)
EXTENDS Naturals

CONSTANTS
    Groups,     \* group names
    Configs,    \* configurations: `creds`, `limits.session_max_total` and more
    Absent      \* no configuration, no connection

VARIABLES
    config,     \* the configuration messages are handled with
    conn,       \* Absent, or the connection's [creds, up]
    talking,    \* how many sessions the group has
    stopped     \* shutdown() has returned

vars == <<config, conn, talking, stopped>>

On(g) == conn[g] # Absent

Connecting(c) == [creds |-> c.creds, up |-> FALSE]

Up(c) == [creds |-> c.creds, up |-> TRUE]

\* apply() under the desired state d.  A group that is not wanted any more loses
\* everything, unless its connection had failed before: then it is not noticed.
ConfigUnder(d) ==
    [g \in Groups |-> IF d[g] = Absent /\ ~ On(g) THEN config[g] ELSE d[g]]

ConnUnder(d) ==
    [g \in Groups |->
        IF d[g] = Absent THEN Absent
        ELSE IF On(g) /\ conn[g].creds = d[g].creds THEN conn[g]
        ELSE Connecting(d[g])]

AtMost(n, bound) == IF n > bound THEN bound ELSE n

\* A configuration that changed under a connection that stays has its cap applied;
\* a group that is connected anew keeps its sessions, and their cap.
TalkingUnder(d) ==
    [g \in Groups |->
        IF ~ On(g) THEN talking[g]
        ELSE IF d[g] = Absent THEN 0
        ELSE IF conn[g].creds = d[g].creds /\ config[g] # d[g]
             THEN AtMost(talking[g], d[g].limits.session_max_total)
        ELSE talking[g]]

-----------------------------------------------------------------------------
Init ==
    /\ config \in [Groups -> Configs \cup {Absent}]
    /\ conn = [g \in Groups |->
                 IF config[g] = Absent THEN Absent ELSE Connecting(config[g])]
    /\ talking = [g \in Groups |-> 0]
    /\ stopped = FALSE

Reload(d) ==
    /\ ~ stopped
    /\ config' = ConfigUnder(d)
    /\ conn' = ConnUnder(d)
    /\ talking' = TalkingUnder(d)
    /\ UNCHANGED stopped

\* The connection of g comes up, or is given up until the next reload.
Connect(g) ==
    /\ On(g) /\ ~ conn[g].up
    /\ \/ conn' = [conn EXCEPT ![g] = Up(@)]
       \/ conn' = [conn EXCEPT ![g] = Absent]
    /\ UNCHANGED <<config, talking, stopped>>

\* A user of g opens a session or goes on with one; sessions expire or are reset.
Talk(g) ==
    /\ ~ stopped
    /\ config[g] # Absent
    /\ \E n \in 1..(talking[g] + 1) : talking' = [talking EXCEPT ![g] = n]
    /\ UNCHANGED <<config, conn, stopped>>

FallSilent(g) ==
    /\ \E n \in 0..talking[g] : talking' = [talking EXCEPT ![g] = n]
    /\ UNCHANGED <<config, conn, stopped>>

Stop ==
    /\ conn' = [g \in Groups |-> Absent]
    /\ stopped' = TRUE
    /\ UNCHANGED <<config, talking>>

Next ==
    \/ \E d \in [Groups -> Configs \cup {Absent}] : Reload(d)
    \/ \E g \in Groups : Connect(g) \/ Talk(g) \/ FallSilent(g)
    \/ Stop

Spec == Init /\ [][Next]_vars
=============================================================================
