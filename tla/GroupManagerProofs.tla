-------------------------- MODULE GroupManagerProofs --------------------------
(***************************************************************************)
(* The registries and the clients of GroupManager, for every set of groups *)
(* and configurations and every number of clients: what the handlers look  *)
(* up agrees, no client is left behind but those whose pending tasks a     *)
(* late callback unregistered, what runs is what was applied, and the      *)
(* manager implements HotReload.                                           *)
(***************************************************************************)
EXTENDS GroupManager, TLAPS

\* A desired group had a client, and every client that was made has credentials.
MadeFromConfigs ==
    \A g \in Groups :
        /\ applied[g] # Absent => born[g] # 0
        /\ \A n \in Numbers : n <= born[g] => made[g][n].creds \in Creds

\* A connect that is under way is registered, unless a late callback took its task off
\* _connect_tasks: what _disconnect and shutdown() do not find is that, and no more.
ConnectsAreListed ==
    \A g \in Groups, n \in Numbers :
        n = current[g] /\ made[g][n].connect = "pending" =>
            n = tasks[g] \/ made[g][n].unlisted

\* Within gather() no registered connect goes on.
StoppingCancels ==
    phase = "stopping" =>
        \A g \in Groups, n \in Numbers : n = tasks[g] => made[g][n].connect # "pending"

IInv ==
    /\ TypeOK
    /\ MadeFromConfigs
    /\ LiveIsConfigured
    /\ NoClientLeftBehind
    /\ RunsWhatWasApplied
    /\ ConnectsAreListed
    /\ StoppingCancels

\* What the client m may be made of once it was made: nothing brings a connect back, and
\* no connection comes up but by a connect.
Progress(m, c) ==
    /\ c \in Clients
    /\ c.creds = m.creds
    /\ c.connect = "none" <=> m.connect = "none"
    /\ c.connect = "pending" => m.connect = "pending"
    /\ MayAnswer(c) => MayAnswer(m)
    /\ m.connect = "failed" /\ m.reported => c.connect = "failed" /\ c.reported
    /\ m.unlisted => c.unlisted

-----------------------------------------------------------------------------
\* What a new client and a new pool are.
LEMMA NewClientIsAClient ==
    ASSUME NEW c \in Configs
    PROVE  /\ NewClient(c) \in Clients
           /\ NewClient(c).creds = c.creds
           /\ NewClient(c).connect = "pending"
           /\ ~ NewClient(c).closed
           /\ ~ NewClient(c).unlisted
<1>1. c.creds \in Creds
  BY DEF Configs
<1>. QED  BY <1>1 DEF NewClient, Clients

LEMMA PoolIsAPool ==
    ASSUME NEW limits \in Limits, NEW n \in Nat, n <= limits.session_max_total
    PROVE  [limits |-> limits, sessions |-> n] \in Pools
BY DEF Pools

\* The caps are positive numbers.
LEMMA CapOfLimits ==
    ASSUME NEW limits \in Limits
    PROVE  limits.session_max_total \in Nat \ {0}
BY GroupManagerAssumption DEF Limits

LEMMA NewPoolIsAPool ==
    ASSUME NEW c \in Configs
    PROVE  NewPool(c) \in Pools /\ NewPool(c).sessions = 0
<1>1. c.limits \in Limits
  BY DEF Configs
<1>2. 0 <= c.limits.session_max_total
  BY <1>1, CapOfLimits
<1>. QED  BY <1>1, <1>2, PoolIsAPool DEF NewPool

LEMMA InitIInv == Init => IInv
<1>. SUFFICES ASSUME Init PROVE IInv
  OBVIOUS
<1>. USE GroupManagerAssumption
<1>1. \A g \in Groups : /\ applied[g] \in Configs \cup {Absent}
                        /\ store[g] = applied[g]
                        /\ store[g] # Absent =>
                             /\ store[g].creds \in Creds
                             /\ NewPool(store[g]) \in Pools
                             /\ NewClient(store[g]) \in Clients
                             /\ NewClient(store[g]).creds = store[g].creds
                             /\ NewClient(store[g]).connect = "pending"
                             /\ ~ NewClient(store[g]).closed
  <2>1. \A c \in Configs : c.creds \in Creds
    BY DEF Configs
  <2>. QED  BY <2>1, NewPoolIsAPool, NewClientIsAClient DEF Init, Desired
<1>2. Unborn \in Clients
  BY DEF Unborn, Clients
<1>3. \A g \in Groups :
        /\ store[g] = Absent => born[g] = 0 /\ pools[g] = Absent
        /\ store[g] # Absent => born[g] = 1 /\ pools[g] = NewPool(store[g])
  BY DEF Init
<1>4. \A g \in Groups, n \in Numbers :
        made[g][n] = IF n = born[g] THEN NewClient(store[g]) ELSE Unborn
  BY DEF Init
<1>5. TypeOK
  <2>1. applied \in Desired /\ store \in Desired
    BY DEF Init
  <2>2. pools \in [Groups -> Pools \cup {Absent}]
    BY <1>1, <1>3 DEF Init
  <2>3. /\ born \in [Groups -> 0..MaxClients] /\ current = born /\ tasks = born
        /\ awaited \in [Groups -> 0..MaxClients]
        /\ phase = "running"
    BY DEF Init
  <2>4. made \in [Groups -> [Numbers -> Clients]]
    <3>1. \A g \in Groups, n \in Numbers :
            (IF n = born[g] THEN NewClient(store[g]) ELSE Unborn) \in Clients
      BY <1>1, <1>2, <1>3 DEF Numbers
    <3>. QED  BY <3>1 DEF Init
  <2>5. \A g \in Groups, n \in Numbers : made[g][n].connect = "none" <=> n > born[g]
    <3>. SUFFICES ASSUME NEW g \in Groups, NEW n \in Numbers
                  PROVE  made[g][n].connect = "none" <=> n > born[g]
      OBVIOUS
    <3>1. CASE n = born[g]
      <4>1. made[g][n] = NewClient(store[g])
        BY <1>4, <3>1
      <4>2. n \in Nat /\ store[g] # Absent
        BY <1>1, <1>3, <3>1 DEF Numbers
      <4>. QED  BY <1>1, <3>1, <4>1, <4>2
    <3>2. CASE n # born[g]
      <4>1. made[g][n].connect = "none"
        BY <1>4, <3>2 DEF Unborn
      <4>2. n > born[g]
        BY <1>3, <3>2 DEF Numbers
      <4>. QED  BY <4>1, <4>2
    <3>. QED  BY <3>1, <3>2
  <2>. QED  BY <2>1, <2>2, <2>3, <2>4, <2>5 DEF TypeOK
<1>6. MadeFromConfigs
  <2>. SUFFICES ASSUME NEW g \in Groups
                PROVE  /\ applied[g] # Absent => born[g] # 0
                       /\ \A n \in Numbers : n <= born[g] => made[g][n].creds \in Creds
    BY DEF MadeFromConfigs
  <2>1. applied[g] # Absent => born[g] # 0
    BY <1>1, <1>3
  <2>2. \A n \in Numbers : n <= born[g] => n = born[g] /\ store[g] # Absent
    BY <1>1, <1>3 DEF Numbers
  <2>. QED  BY <1>1, <1>4, <2>1, <2>2
<1>7. LiveIsConfigured
  BY <1>1, <1>3 DEF LiveIsConfigured, Live, NoPool, Init
<1>8. NoClientLeftBehind
  BY <1>3, <1>4 DEF NoClientLeftBehind, MayAnswer, Unborn, Init
<1>9. RunsWhatWasApplied
  <2>1. \A g \in Groups : store[g] = Absent => g \notin Live
    BY <1>3 DEF Live, Init
  <2>2. \A g \in Groups : store[g] # Absent => current[g] = 1 /\ 1 \in Numbers /\ g \in Live
    BY <1>3 DEF Live, Numbers, Init
  <2>3. \A g \in Groups : store[g] # Absent =>
          made[g][1] = NewClient(store[g])
    BY <1>3, <1>4, <2>2
  <2>4. \A g \in Groups : store[g] # Absent =>
          made[g][1].creds = store[g].creds /\ ~ made[g][1].closed
    BY <1>1, <2>3
  <2>. QED  BY <1>1, <2>1, <2>2, <2>4 DEF RunsWhatWasApplied
<1>10. ConnectsAreListed /\ StoppingCancels
  BY DEF ConnectsAreListed, StoppingCancels, Init
<1>. QED  BY <1>5, <1>6, <1>7, <1>8, <1>9, <1>10 DEF IInv

-----------------------------------------------------------------------------
\* What apply() leaves of a group, in each of the four parts of the diff.

LEMMA PartsAreDisjoint ==
    ASSUME NEW d \in Desired, NEW g \in Groups
    PROVE  /\ g \in Removed(d) => g \in Live /\ d[g] = Absent
           /\ g \in Started(d) => d[g] # Absent /\ g \notin Removed(d) /\ g \notin Updated(d)
           /\ g \in Updated(d) => d[g] # Absent /\ g \in Live /\ g \notin Removed(d)
           /\ g \in Dropped(d) => g \in Live /\ (g \in Removed(d) \/ g \in Started(d))
           /\ g \in Started(d) /\ g \notin Dropped(d) => g \notin Live
           /\ g \notin Removed(d) /\ g \notin Started(d) =>
                \/ d[g] = Absent /\ g \notin Live
                \/ /\ g \in Live /\ store[g] # Absent /\ store[g].creds = d[g].creds
                   /\ g \in Updated(d) \/ store[g] = d[g]
BY DEF Removed, Started, Updated, Dropped, Restarted, Added

\* _disconnect: the registered connect is cancelled, the live client closed.
LEMMA DisconnectedClient ==
    ASSUME NEW g \in Groups, NEW n \in Numbers, made[g][n] \in Clients
    PROVE  /\ Progress(made[g][n], Disconnected(g)[n])
           /\ n = tasks[g] => Disconnected(g)[n].connect # "pending"
           /\ n = current[g] => Disconnected(g)[n].closed
<1>. DEFINE c == made[g][n]
            status == IF n = tasks[g] THEN Cancel(c.connect) ELSE c.connect
            closed == c.closed \/ n = current[g]
<1>1. Disconnected(g)[n] = [c EXCEPT !.connect = status, !.closed = closed]
  BY DEF Disconnected
<1>2. /\ c \in Clients
      /\ status \in {"none", "pending", "cancelling"} \cup Finished
      /\ status = "none" <=> c.connect = "none"
      /\ status \in {"pending", "ok", "failed"} => c.connect = status
      /\ c.connect = "failed" => status = "failed"
      /\ n = tasks[g] => status # "pending"
      /\ closed \in BOOLEAN
      /\ c.closed => closed
      /\ n = current[g] => closed
  BY DEF Clients, Cancel, Finished
<1>. HIDE DEF status, closed
<1>. QED  BY <1>1, <1>2 DEF Clients, Progress, MayAnswer

LEMMA ClientsAfter ==
    ASSUME NEW d \in Desired, Apply(d), NEW g \in Groups, NEW n \in Numbers
    PROVE  /\ g \in Started(d) /\ n = born[g] + 1 => made'[g][n] = NewClient(d[g])
           /\ ~ (g \in Started(d) /\ n = born[g] + 1) =>
                /\ g \in Dropped(d) => made'[g][n] = Disconnected(g)[n]
                /\ g \notin Dropped(d) => made'[g][n] = made[g][n]
BY DEF Apply, MadeAfter

LEMMA RegistriesAfter ==
    ASSUME NEW d \in Desired, Apply(d), NEW g \in Groups
    PROVE  /\ g \in Started(d) =>
                /\ born[g] < MaxClients
                /\ born'[g] = born[g] + 1
                /\ current'[g] = born[g] + 1 /\ tasks'[g] = born[g] + 1
                /\ store'[g] = d[g]
                /\ pools'[g] = EnsurePool(pools[g], d[g])
           /\ g \in Removed(d) =>
                /\ born'[g] = born[g]
                /\ current'[g] = 0 /\ tasks'[g] = 0
                /\ store'[g] = Absent
                /\ pools'[g] = Absent
           /\ g \notin Started(d) /\ g \notin Removed(d) =>
                /\ born'[g] = born[g]
                /\ current'[g] = current[g] /\ tasks'[g] = tasks[g]
                /\ g \in Updated(d) =>
                     /\ store'[g] = d[g]
                     /\ pools'[g] = UpdatePool(pools[g], d[g])
                /\ g \notin Updated(d) => store'[g] = store[g] /\ pools'[g] = pools[g]
BY PartsAreDisjoint DEF Apply, StoreAfter, PoolsAfter, NumbersAfter

\* Pools: what apply() makes of one is a pool, and how many sessions are left in it.
LEMMA PoolOperations ==
    ASSUME NEW c \in Configs, NEW p \in Pools \cup {Absent}
    PROVE  /\ EnsurePool(p, c) \in Pools
           /\ p # Absent => EnsurePool(p, c) = p
           /\ p # Absent =>
                /\ UpdatePool(p, c) \in Pools
                /\ UpdatePool(p, c).sessions = AtMost(p.sessions, c.limits.session_max_total)
           /\ NewPool(c) \in Pools /\ NewPool(c).sessions = 0
           /\ p = Absent => EnsurePool(p, c) = NewPool(c)
<1>1. c.limits \in Limits /\ c.limits.session_max_total \in Nat
  <2>1. c.limits \in Limits
    BY DEF Configs
  <2>. QED  BY <2>1, CapOfLimits
<1>2. p # Absent =>
        /\ UpdatePool(p, c) \in Pools
        /\ UpdatePool(p, c).sessions = AtMost(p.sessions, c.limits.session_max_total)
  <2>. SUFFICES ASSUME p # Absent
                PROVE  /\ UpdatePool(p, c) \in Pools
                       /\ UpdatePool(p, c).sessions
                            = AtMost(p.sessions, c.limits.session_max_total)
    OBVIOUS
  <2>. DEFINE n == AtMost(p.sessions, c.limits.session_max_total)
  <2>1. p.sessions \in Nat
    BY DEF Pools
  <2>2. n \in Nat /\ n <= c.limits.session_max_total
    BY <1>1, <2>1 DEF AtMost
  <2>3. UpdatePool(p, c) = [limits |-> c.limits, sessions |-> n]
    BY DEF UpdatePool
  <2>. HIDE DEF n
  <2>4. [limits |-> c.limits, sessions |-> n] \in Pools
    BY <1>1, <2>2, PoolIsAPool
  <2>5. UpdatePool(p, c).sessions = n
    BY <2>3
  <2>. QED  BY <2>3, <2>4, <2>5 DEF n
<1>. QED  BY <1>2, NewPoolIsAPool DEF EnsurePool, NoPool

-----------------------------------------------------------------------------
LEMMA ApplyIInv ==
    ASSUME IInv, phase = "running", NEW d \in Desired, Apply(d)
    PROVE  IInv'
<1>. USE GroupManagerAssumption
<1>0. /\ TypeOK /\ MadeFromConfigs /\ LiveIsConfigured /\ NoClientLeftBehind
      /\ RunsWhatWasApplied /\ ConnectsAreListed
  BY DEF IInv
<1>1. \A g \in Groups :
        /\ d[g] \in Configs \cup {Absent}
        /\ d[g] # Absent => d[g] \in Configs
        /\ d[g] # Absent => d[g].creds \in Creds
        /\ store[g] \in Configs \cup {Absent}
        /\ pools[g] \in Pools \cup {Absent}
        /\ born[g] \in Nat /\ born[g] <= MaxClients
        /\ current[g] \in 0..MaxClients /\ tasks[g] \in 0..MaxClients
  <2>1. \A g \in Groups : d[g] \in Configs \cup {Absent}
    BY DEF Desired
  <2>2. \A c \in Configs : c.creds \in Creds
    BY DEF Configs
  <2>3. \A g \in Groups : /\ store[g] \in Configs \cup {Absent}
                          /\ pools[g] \in Pools \cup {Absent}
    <3>1. \A g \in Groups : store[g] \in Configs \cup {Absent}
      BY <1>0 DEF TypeOK, Desired
    <3>2. \A g \in Groups : pools[g] \in Pools \cup {Absent}
      BY <1>0 DEF TypeOK
    <3>. QED  BY <3>1, <3>2
  <2>4. \A g \in Groups : /\ born[g] \in Nat /\ born[g] <= MaxClients
                          /\ current[g] \in 0..MaxClients /\ tasks[g] \in 0..MaxClients
    <3>1. \A g \in Groups : /\ born[g] \in 0..MaxClients
                            /\ current[g] \in 0..MaxClients /\ tasks[g] \in 0..MaxClients
      BY <1>0 DEF TypeOK
    <3>2. \A k \in 0..MaxClients : k \in Nat /\ k <= MaxClients
      OBVIOUS
    <3>. QED  BY <3>1, <3>2
  <2>. QED  BY <2>1, <2>2, <2>3, <2>4
<1>2. \A g \in Groups, n \in Numbers : n \in Nat /\ made[g][n] \in Clients
  BY <1>0 DEF TypeOK, Numbers
<1>3. TypeOK'
  <2>1. applied' \in Desired
    BY DEF Apply
  <2>2. store' \in Desired
    <3>1. \A g \in Groups : store'[g] \in Configs \cup {Absent}
      BY <1>1, RegistriesAfter
    <3>2. store' = [g \in Groups |-> store'[g]]
      BY DEF Apply, StoreAfter
    <3>. QED  BY <3>1, <3>2 DEF Desired
  <2>3. pools' \in [Groups -> Pools \cup {Absent}]
    <3>1. \A g \in Groups : pools'[g] \in Pools \cup {Absent}
      <4>. SUFFICES ASSUME NEW g \in Groups PROVE pools'[g] \in Pools \cup {Absent}
        OBVIOUS
      <4>1. g \in Updated(d) => pools[g] # Absent /\ d[g] \in Configs
        BY <1>0, <1>1, PartsAreDisjoint DEF LiveIsConfigured, NoPool
      <4>2. g \in Started(d) => d[g] \in Configs
        BY <1>1, PartsAreDisjoint
      <4>3. /\ g \in Updated(d) => UpdatePool(pools[g], d[g]) \in Pools
            /\ g \in Started(d) => EnsurePool(pools[g], d[g]) \in Pools
        BY <1>1, <4>1, <4>2, PoolOperations
      <4>. QED  BY <1>1, <4>3, RegistriesAfter
    <3>2. pools' = [g \in Groups |-> pools'[g]]
      BY DEF Apply, PoolsAfter
    <3>. QED  BY <3>1, <3>2
  <2>4. /\ born' \in [Groups -> 0..MaxClients]
        /\ current' \in [Groups -> 0..MaxClients]
        /\ tasks' \in [Groups -> 0..MaxClients]
    <3>1. \A g \in Groups : /\ born'[g] \in 0..MaxClients
                            /\ current'[g] \in 0..MaxClients
                            /\ tasks'[g] \in 0..MaxClients
      BY <1>1, RegistriesAfter, PartsAreDisjoint
    <3>2. /\ born' = [g \in Groups |-> born'[g]]
          /\ current' = [g \in Groups |-> current'[g]]
          /\ tasks' = [g \in Groups |-> tasks'[g]]
      BY DEF Apply, NumbersAfter
    <3>. QED  BY <3>1, <3>2
  <2>5. made' \in [Groups -> [Numbers -> Clients]]
    <3>1. \A g \in Groups, n \in Numbers : made'[g][n] \in Clients
      <4>. SUFFICES ASSUME NEW g \in Groups, NEW n \in Numbers PROVE made'[g][n] \in Clients
        OBVIOUS
      <4>1. g \in Started(d) => NewClient(d[g]) \in Clients
        BY <1>1, PartsAreDisjoint, NewClientIsAClient
      <4>2. Disconnected(g)[n] \in Clients
        BY <1>2, DisconnectedClient DEF Progress
      <4>. QED  BY <1>2, <4>1, <4>2, ClientsAfter
    <3>2. made' = [g \in Groups |-> [n \in Numbers |-> made'[g][n]]]
      BY DEF Apply, MadeAfter
    <3>. QED  BY <3>1, <3>2
  <2>6. \A g \in Groups, n \in Numbers : made'[g][n].connect = "none" <=> n > born'[g]
    <3>. SUFFICES ASSUME NEW g \in Groups, NEW n \in Numbers
                  PROVE  made'[g][n].connect = "none" <=> n > born'[g]
      OBVIOUS
    <3>1. made[g][n].connect = "none" <=> n > born[g]
      BY <1>0 DEF TypeOK
    <3>2. CASE g \in Started(d) /\ n = born[g] + 1
      <4>1. made'[g][n] = NewClient(d[g]) /\ born'[g] = n
        BY <3>2, ClientsAfter, RegistriesAfter
      <4>2. made'[g][n].connect = "pending"
        BY <1>1, <3>2, <4>1, PartsAreDisjoint, NewClientIsAClient
      <4>. QED  BY <1>2, <4>1, <4>2
    <3>3. CASE ~ (g \in Started(d) /\ n = born[g] + 1)
      <4>1. made'[g][n].connect = "none" <=> made[g][n].connect = "none"
        <5>1. Disconnected(g)[n].connect = "none" <=> made[g][n].connect = "none"
          BY <1>2, DisconnectedClient DEF Progress
        <5>. QED  BY <3>3, <5>1, ClientsAfter
      <4>2. n > born'[g] <=> n > born[g]
        BY <1>1, <1>2, <3>3, RegistriesAfter
      <4>. QED  BY <3>1, <4>1, <4>2
    <3>. QED  BY <3>2, <3>3
  <2>7. awaited' \in [Groups -> 0..MaxClients] /\ phase' \in {"running", "stopping", "down"}
    BY <1>0 DEF Apply, TypeOK
  <2>. QED  BY <2>1, <2>2, <2>3, <2>4, <2>5, <2>6, <2>7 DEF TypeOK
\* What a client that was there before keeps.
<1>4. \A g \in Groups, n \in Numbers : n <= born[g] =>
        /\ Progress(made[g][n], made'[g][n])
        /\ g \in Dropped(d) =>
             /\ n = tasks[g] => made'[g][n].connect # "pending"
             /\ n = current[g] => made'[g][n].closed
        /\ g \notin Dropped(d) => made'[g][n] = made[g][n]
  <2>. SUFFICES ASSUME NEW g \in Groups, NEW n \in Numbers, n <= born[g]
                PROVE  /\ Progress(made[g][n], made'[g][n])
                       /\ g \in Dropped(d) =>
                            /\ n = tasks[g] => made'[g][n].connect # "pending"
                            /\ n = current[g] => made'[g][n].closed
                       /\ g \notin Dropped(d) => made'[g][n] = made[g][n]
    OBVIOUS
  <2>1. n # born[g] + 1
    BY <1>1, <1>2
  <2>2. CASE g \in Dropped(d)
    <3>1. made'[g][n] = Disconnected(g)[n]
      BY <2>1, <2>2, ClientsAfter
    <3>. QED  BY <1>2, <2>2, <3>1, DisconnectedClient
  <2>3. CASE g \notin Dropped(d)
    <3>1. made'[g][n] = made[g][n]
      BY <2>1, <2>3, ClientsAfter
    <3>. QED  BY <1>2, <2>3, <3>1 DEF Progress
  <2>. QED  BY <2>2, <2>3
\* The client that was made.
<1>5. \A g \in Started(d) :
        /\ born[g] + 1 \in Numbers
        /\ made'[g][born[g] + 1].creds = d[g].creds
        /\ made'[g][born[g] + 1].closed = FALSE
  <2>. SUFFICES ASSUME NEW g \in Started(d)
                PROVE  /\ born[g] + 1 \in Numbers
                       /\ made'[g][born[g] + 1].creds = d[g].creds
                       /\ made'[g][born[g] + 1].closed = FALSE
    OBVIOUS
  <2>1. g \in Groups
    BY DEF Started, Restarted, Added, Live
  <2>2. born[g] + 1 \in Numbers
    BY <1>1, <2>1, RegistriesAfter DEF Numbers
  <2>3. made'[g][born[g] + 1] = NewClient(d[g]) /\ d[g] \in Configs
    BY <1>1, <2>1, <2>2, ClientsAfter, PartsAreDisjoint
  <2>. QED  BY <2>2, <2>3, NewClientIsAClient
<1>6. MadeFromConfigs'
  <2>0. \A g \in Groups : d[g] # Absent => born'[g] # 0
    <3>. SUFFICES ASSUME NEW g \in Groups, d[g] # Absent PROVE born'[g] # 0
      OBVIOUS
    <3>1. CASE g \in Started(d)
      BY <1>1, <3>1, RegistriesAfter
    <3>2. CASE g \notin Started(d)
      <4>1. g \in Live /\ g \notin Removed(d)
        BY <3>2, PartsAreDisjoint
      <4>. QED  BY <1>0, <3>2, <4>1, RegistriesAfter DEF NoClientLeftBehind, Live
    <3>. QED  BY <3>1, <3>2
  <2>. SUFFICES ASSUME NEW g \in Groups, NEW n \in Numbers, n <= born'[g]
                PROVE  made'[g][n].creds \in Creds
    BY <2>0 DEF MadeFromConfigs, Apply
  <2>1. CASE n <= born[g]
    BY <1>0, <1>4, <2>1 DEF MadeFromConfigs, Progress
  <2>2. CASE ~ (n <= born[g])
    <3>1. g \in Started(d) /\ n = born[g] + 1
      BY <1>1, <1>2, <2>2, RegistriesAfter
    <3>. QED  BY <1>1, <1>5, <3>1, PartsAreDisjoint
  <2>. QED  BY <2>1, <2>2
<1>7. LiveIsConfigured'
  <2>. SUFFICES ASSUME NEW g \in Groups
                PROVE  /\ store'[g] = Absent <=> pools'[g] = Absent
                       /\ current'[g] # 0 => store'[g] # Absent
    BY DEF LiveIsConfigured, Live, NoPool
  <2>1. /\ store[g] = Absent <=> pools[g] = Absent
        /\ g \in Live => store[g] # Absent
        /\ g \in Live <=> current[g] # 0
    BY <1>0 DEF LiveIsConfigured, NoPool, Live
  <2>2. CASE g \in Started(d)
    <3>1. d[g] \in Configs /\ d[g] # Absent
      BY <1>1, <2>2, PartsAreDisjoint
    <3>2. EnsurePool(pools[g], d[g]) \in Pools
      BY <1>1, <3>1, PoolOperations
    <3>. QED  BY <2>2, <3>1, <3>2, RegistriesAfter
  <2>3. CASE g \in Updated(d)
    <3>1. d[g] \in Configs /\ d[g] # Absent /\ g \in Live
      BY <1>1, <2>3, PartsAreDisjoint
    <3>2. UpdatePool(pools[g], d[g]) \in Pools
      BY <1>1, <2>1, <3>1, PoolOperations
    <3>. QED  BY <2>3, <3>1, <3>2, RegistriesAfter, PartsAreDisjoint
  <2>4. CASE g \notin Started(d) /\ g \notin Updated(d)
    BY <2>1, <2>4, RegistriesAfter
  <2>. QED  BY <2>2, <2>3, <2>4
<1>8. NoClientLeftBehind'
  <2>. SUFFICES ASSUME NEW g \in Groups
                PROVE  /\ current'[g] \in {0, born'[g]}
                       /\ \A n \in Numbers \ {current'[g]} :
                            MayAnswer(made'[g][n]) => made'[g][n].unlisted
    BY DEF NoClientLeftBehind, MayAnswer
  <2>1. /\ current[g] \in {0, born[g]}
        /\ \A n \in Numbers \ {current[g]} : MayAnswer(made[g][n]) => made[g][n].unlisted
    BY <1>0 DEF NoClientLeftBehind
  <2>2. current'[g] \in {0, born'[g]}
    BY <2>1, RegistriesAfter
  <2>3. ASSUME NEW n \in Numbers, n # current'[g], MayAnswer(made'[g][n])
        PROVE  made'[g][n].unlisted
    <3>1. n <= born'[g]
      <4>1. made'[g][n].connect = "none" <=> n > born'[g]
        BY <1>3 DEF TypeOK
      <4>2. born'[g] \in Nat
        BY <1>3 DEF TypeOK
      <4>. QED  BY <1>2, <2>3, <4>1, <4>2 DEF MayAnswer
    <3>2. n <= born[g]
      BY <1>1, <1>2, <2>3, <3>1, RegistriesAfter
    <3>3. /\ MayAnswer(made[g][n])
          /\ made[g][n].unlisted => made'[g][n].unlisted
          /\ made'[g][n].connect = "pending" => made[g][n].connect = "pending"
      BY <1>4, <2>3, <3>2 DEF Progress
    <3>4. CASE n # current[g]
      BY <2>1, <3>3, <3>4
    <3>5. CASE n = current[g]
      <4>1. g \in Live
        BY <1>1, <1>2, <3>5 DEF Live, Numbers
      <4>2. g \in Dropped(d)
        BY <2>3, <3>5, <4>1, RegistriesAfter DEF Dropped, Started, Added
      <4>3. made'[g][n].connect = "pending" /\ n # tasks[g]
        BY <1>4, <2>3, <3>2, <3>5, <4>2 DEF MayAnswer
      <4>. QED  BY <1>0, <3>3, <3>5, <4>3 DEF ConnectsAreListed
    <3>. QED  BY <3>4, <3>5
  <2>. QED  BY <2>2, <2>3
<1>9. RunsWhatWasApplied'
  <2>0. applied' = d /\ phase' = "running"
    BY DEF Apply
  <2>. SUFFICES ASSUME NEW g \in Groups
                PROVE  IF d[g] = Absent THEN current'[g] = 0
                       ELSE /\ store'[g] = d[g]
                            /\ current'[g] # 0 =>
                                 /\ made'[g][current'[g]].creds = store'[g].creds
                                 /\ ~ made'[g][current'[g]].closed
                            /\ current'[g] = 0 =>
                                 /\ made'[g][born'[g]].connect = "failed"
                                 /\ made'[g][born'[g]].reported
    BY <2>0 DEF RunsWhatWasApplied, Live
  <2>1. g \in Live <=> current[g] # 0
    BY DEF Live
  <2>2. CASE d[g] = Absent
    <3>1. g \notin Started(d) /\ (g \in Removed(d) \/ current[g] = 0)
      BY <2>1, <2>2, PartsAreDisjoint DEF Removed
    <3>. QED  BY <2>2, <3>1, RegistriesAfter
  <2>3. CASE g \in Started(d)
    <3>1. d[g] # Absent
      BY <2>3, PartsAreDisjoint
    <3>2. /\ store'[g] = d[g] /\ current'[g] = born[g] + 1
          /\ current'[g] # 0
      BY <1>1, <2>3, RegistriesAfter
    <3>. QED  BY <1>5, <2>3, <3>1, <3>2
  <2>4. CASE d[g] # Absent /\ g \notin Started(d)
    <3>1. g \notin Removed(d)
      BY <2>4, PartsAreDisjoint
    <3>2. /\ g \in Live /\ store[g] # Absent /\ store[g].creds = d[g].creds
          /\ g \in Updated(d) \/ store[g] = d[g]
      BY <2>4, <3>1, PartsAreDisjoint
    <3>3. /\ store'[g] = d[g] /\ current'[g] = current[g]
      BY <2>4, <3>1, <3>2, RegistriesAfter
    <3>4. g \notin Dropped(d)
      BY <2>4, <3>1, PartsAreDisjoint
    <3>5. current[g] = born[g] /\ current[g] \in Numbers
      BY <1>0, <1>1, <2>1, <3>2 DEF NoClientLeftBehind, Numbers
    <3>6. made'[g][current[g]] = made[g][current[g]]
      BY <1>1, <1>4, <3>4, <3>5
    <3>7. made[g][current[g]].creds = store[g].creds /\ ~ made[g][current[g]].closed
      BY <1>0, <3>2 DEF RunsWhatWasApplied
    <3>. QED  BY <2>1, <2>4, <3>2, <3>3, <3>6, <3>7
  <2>. QED  BY <2>2, <2>3, <2>4
<1>10. ConnectsAreListed'
  <2>. SUFFICES ASSUME NEW g \in Groups, NEW n \in Numbers,
                       n = current'[g], made'[g][n].connect = "pending"
                PROVE  n = tasks'[g] \/ made'[g][n].unlisted
    BY DEF ConnectsAreListed
  <2>1. n # 0
    BY DEF Numbers
  <2>2. CASE g \in Started(d)
    BY <2>2, RegistriesAfter
  <2>3. CASE g \notin Started(d)
    <3>1. g \notin Removed(d)
      BY <2>1, RegistriesAfter
    <3>2. /\ g \notin Dropped(d)
          /\ current'[g] = current[g] /\ tasks'[g] = tasks[g]
      BY <2>3, <3>1, RegistriesAfter, PartsAreDisjoint
    <3>3. n <= born[g]
      BY <1>0, <1>1, <2>1, <3>2 DEF NoClientLeftBehind
    <3>4. made'[g][n] = made[g][n]
      BY <1>4, <3>2, <3>3
    <3>. QED  BY <1>0, <3>2, <3>4 DEF ConnectsAreListed
  <2>. QED  BY <2>2, <2>3
<1>11. StoppingCancels'
  BY DEF Apply, StoppingCancels
<1>. QED  BY <1>3, <1>6, <1>7, <1>8, <1>9, <1>10, <1>11 DEF IInv

-----------------------------------------------------------------------------
\* The steps of tasks: clients make progress, a failed one may be dropped, a task may be
\* unregistered.
LEMMA TasksIInv ==
    ASSUME IInv,
           made' \in [Groups -> [Numbers -> Clients]],
           \A g \in Groups, n \in Numbers :
             Progress(made[g][n], made'[g][n]) /\ (made'[g][n].closed => made[g][n].closed),
           current' \in [Groups -> 0..MaxClients],
           \A g \in Groups : current'[g] \in {0, current[g]},
           \A g \in Groups, n \in Numbers :
             n = current[g] /\ n # current'[g] =>
               made'[g][n].connect = "failed" /\ made'[g][n].reported,
           tasks' \in [Groups -> 0..MaxClients],
           \A g \in Groups : tasks'[g] \in {0, tasks[g]},
           \A g \in Groups, n \in Numbers :
             n = tasks[g] /\ n # tasks'[g] /\ made'[g][n].connect = "pending" =>
               made'[g][n].unlisted,
           UNCHANGED <<applied, store, pools, born, phase, awaited>>
    PROVE  IInv'
<1>. USE GroupManagerAssumption
<1>0. /\ TypeOK /\ MadeFromConfigs /\ LiveIsConfigured /\ NoClientLeftBehind
      /\ RunsWhatWasApplied /\ ConnectsAreListed /\ StoppingCancels
  BY DEF IInv
<1>1. \A g \in Groups :
        /\ current[g] \in 0..MaxClients /\ born[g] \in 0..MaxClients
        /\ current[g] # 0 => current[g] \in Numbers
        /\ born[g] # 0 => born[g] \in Numbers
  <2>1. \A k \in 0..MaxClients : k # 0 => k \in Numbers
    BY DEF Numbers
  <2>. QED  BY <1>0, <2>1 DEF TypeOK
<1>2. \A n \in Numbers : n # 0
  BY DEF Numbers
<1>3. TypeOK'
  <2>1. \A g \in Groups, n \in Numbers : made'[g][n].connect = "none" <=> n > born'[g]
    BY <1>0 DEF TypeOK, Progress
  <2>. QED  BY <1>0, <2>1 DEF TypeOK
<1>4. MadeFromConfigs'
  BY <1>0 DEF MadeFromConfigs, Progress
<1>5. LiveIsConfigured'
  BY <1>0 DEF LiveIsConfigured, Live, NoPool
<1>6. NoClientLeftBehind'
  <2>. SUFFICES ASSUME NEW g \in Groups
                PROVE  /\ current'[g] \in {0, born[g]}
                       /\ \A n \in Numbers \ {current'[g]} :
                            MayAnswer(made'[g][n]) => made'[g][n].unlisted
    BY DEF NoClientLeftBehind, MayAnswer
  <2>1. current'[g] \in {0, born[g]}
    BY <1>0 DEF NoClientLeftBehind
  <2>2. ASSUME NEW n \in Numbers, n # current'[g], MayAnswer(made'[g][n])
        PROVE  made'[g][n].unlisted
    <3>1. n # current[g]
      BY <2>2 DEF MayAnswer
    <3>2. MayAnswer(made[g][n]) /\ (made[g][n].unlisted => made'[g][n].unlisted)
      BY <2>2 DEF Progress
    <3>. QED  BY <1>0, <3>1, <3>2 DEF NoClientLeftBehind
  <2>. QED  BY <2>1, <2>2
<1>7. RunsWhatWasApplied'
  <2>. SUFFICES ASSUME phase # "down", NEW g \in Groups
                PROVE  IF applied[g] = Absent THEN current'[g] = 0
                       ELSE /\ store[g] = applied[g]
                            /\ current'[g] # 0 =>
                                 /\ made'[g][current'[g]].creds = store[g].creds
                                 /\ ~ made'[g][current'[g]].closed
                            /\ current'[g] = 0 =>
                                 /\ made'[g][born[g]].connect = "failed"
                                 /\ made'[g][born[g]].reported
    BY DEF RunsWhatWasApplied, Live
  <2>1. IF applied[g] = Absent THEN current[g] = 0
        ELSE /\ store[g] = applied[g]
             /\ current[g] # 0 =>
                  /\ made[g][current[g]].creds = store[g].creds
                  /\ ~ made[g][current[g]].closed
             /\ current[g] = 0 =>
                  /\ made[g][born[g]].connect = "failed"
                  /\ made[g][born[g]].reported
    BY <1>0 DEF RunsWhatWasApplied, Live
  <2>2. CASE applied[g] = Absent
    BY <2>1, <2>2
  <2>3. CASE applied[g] # Absent /\ current'[g] # 0
    <3>1. current'[g] = current[g] /\ current[g] \in Numbers
      BY <1>1, <2>3
    <3>2. /\ made'[g][current[g]].creds = made[g][current[g]].creds
          /\ made'[g][current[g]].closed => made[g][current[g]].closed
      BY <3>1 DEF Progress
    <3>. QED  BY <2>1, <2>3, <3>1, <3>2
  <2>4. CASE applied[g] # Absent /\ current'[g] = 0
    <3>1. born[g] \in Numbers
      BY <1>0, <1>1, <2>4 DEF MadeFromConfigs
    <3>2. CASE current[g] = 0
      BY <2>1, <2>4, <3>1, <3>2 DEF Progress
    <3>3. CASE current[g] # 0
      <4>1. current[g] = born[g]
        BY <1>0, <3>3 DEF NoClientLeftBehind
      <4>. QED  BY <1>2, <2>1, <2>4, <3>1, <4>1
    <3>. QED  BY <3>2, <3>3
  <2>. QED  BY <2>2, <2>3, <2>4
<1>8. ConnectsAreListed'
  <2>. SUFFICES ASSUME NEW g \in Groups, NEW n \in Numbers,
                       n = current'[g], made'[g][n].connect = "pending"
                PROVE  n = tasks'[g] \/ made'[g][n].unlisted
    BY DEF ConnectsAreListed
  <2>1. n = current[g]
    BY <1>2
  <2>2. /\ made[g][n].connect = "pending"
        /\ made[g][n].unlisted => made'[g][n].unlisted
    BY DEF Progress
  <2>. QED  BY <1>0, <2>1, <2>2 DEF ConnectsAreListed
<1>9. StoppingCancels'
  <2>. SUFFICES ASSUME phase = "stopping", NEW g \in Groups, NEW n \in Numbers, n = tasks'[g]
                PROVE  made'[g][n].connect # "pending"
    BY DEF StoppingCancels
  <2>1. n = tasks[g]
    BY <1>2
  <2>. QED  BY <1>0, <2>1 DEF StoppingCancels, Progress
<1>. QED  BY <1>3, <1>4, <1>5, <1>6, <1>7, <1>8, <1>9 DEF IInv

\* A connect that ends, or learns that it is cancelled, is one client's progress.
LEMMA ConnectEndsProgress ==
    ASSUME IInv, NEW g \in Groups, NEW n \in Numbers, ConnectEnds(g, n) \/ CancelDelivered(g, n)
    PROVE  /\ made' \in [Groups -> [Numbers -> Clients]]
           /\ \A h \in Groups, m \in Numbers :
                /\ Progress(made[h][m], made'[h][m])
                /\ made'[h][m].closed => made[h][m].closed
                /\ ~ (h = g /\ m = n) => made'[h][m] = made[h][m]
<1>1. made \in [Groups -> [Numbers -> Clients]] /\ made[g][n] \in Clients
  BY DEF IInv, TypeOK
<1>2. \E c : /\ made' = [made EXCEPT ![g] = [@ EXCEPT ![n] = c]]
             /\ Progress(made[g][n], c)
             /\ c.closed => made[g][n].closed
  <2>. DEFINE m == made[g][n]
  <2>1. CASE ConnectEnds(g, n)
    <3>1. m.connect = "pending"
      BY <2>1 DEF ConnectEnds
    <3>2. PICK outcome \in {"ok", "failed"} :
            made' = [made EXCEPT ![g][n].connect = outcome,
                                 ![g][n].closed  = @ /\ outcome # "ok"]
      BY <2>1 DEF ConnectEnds
    <3>. DEFINE closed == m.closed /\ outcome # "ok"
                c == [m EXCEPT !.connect = outcome, !.closed = closed]
    <3>3. made' = [made EXCEPT ![g] = [@ EXCEPT ![n] = c]]
      BY <1>1, <3>2
    <3>4. closed \in BOOLEAN /\ (closed => m.closed)
      BY <1>1 DEF Clients
    <3>5. Progress(m, c) /\ c.closed = closed
      <4>. HIDE DEF closed
      <4>. QED  BY <1>1, <3>1, <3>4 DEF Clients, Finished, Progress, MayAnswer
    <3>. QED  BY <3>3, <3>4, <3>5
  <2>2. CASE CancelDelivered(g, n)
    <3>. DEFINE c == [m EXCEPT !.connect = "cancelled"]
    <3>1. m.connect = "cancelling"
      BY <2>2 DEF CancelDelivered
    <3>2. made' = [made EXCEPT ![g] = [@ EXCEPT ![n] = c]]
      BY <2>2 DEF CancelDelivered
    <3>3. Progress(m, c) /\ c.closed = m.closed
      BY <1>1, <3>1 DEF Clients, Finished, Progress, MayAnswer
    <3>. QED  BY <3>2, <3>3
  <2>. QED  BY <2>1, <2>2
<1>3. PICK c : /\ made' = [made EXCEPT ![g] = [@ EXCEPT ![n] = c]]
               /\ Progress(made[g][n], c)
               /\ c.closed => made[g][n].closed
  BY <1>2
<1>4. c \in Clients
  BY <1>3 DEF Progress
<1>5. \A h \in Groups, m \in Numbers :
        made[h][m] \in Clients /\ Progress(made[h][m], made[h][m])
  BY <1>1 DEF Progress
<1>6. \A h \in Groups, m \in Numbers :
        made'[h][m] = IF h = g /\ m = n THEN c ELSE made[h][m]
  BY <1>1, <1>3
<1>7. made' \in [Groups -> [Numbers -> Clients]]
  BY <1>1, <1>3, <1>4
<1>. QED  BY <1>3, <1>5, <1>6, <1>7

LEMMA ConnectEndsIInv ==
    ASSUME IInv, NEW g \in Groups, NEW n \in Numbers, ConnectEnds(g, n) \/ CancelDelivered(g, n)
    PROVE  IInv'
<1>1. UNCHANGED <<applied, store, pools, current, tasks, born, phase, awaited>>
  BY DEF ConnectEnds, CancelDelivered
<1>2. current \in [Groups -> 0..MaxClients] /\ tasks \in [Groups -> 0..MaxClients]
  BY DEF IInv, TypeOK
<1>. QED  BY <1>1, <1>2, ConnectEndsProgress, TasksIInv

\* What a done callback leaves of the clients: the one it reports, and the one whose task
\* it takes off the registry.
LEMMA DoneProgress ==
    ASSUME IInv, NEW g \in Groups, NEW n \in Numbers, Done(g, n)
    PROVE  /\ made' \in [Groups -> [Numbers -> Clients]]
           /\ \A h \in Groups, m \in Numbers :
                /\ Progress(made[h][m], made'[h][m])
                /\ made'[h][m].connect = made[h][m].connect
                /\ made'[h][m].closed = made[h][m].closed
                /\ h = g /\ m = n => made'[h][m].reported
                /\ h = g /\ m = tasks[g] /\ made[h][m].connect = "pending" =>
                     made'[h][m].unlisted
<1>. DEFINE reported(m) == made[g][m].reported \/ m = n
            unlisted(m) == \/ made[g][m].unlisted
                           \/ m = tasks[g] /\ made[g][m].connect = "pending"
            c(m) == [made[g][m] EXCEPT !.reported = reported(m), !.unlisted = unlisted(m)]
<1>1. made \in [Groups -> [Numbers -> Clients]]
  BY DEF IInv, TypeOK
<1>2. made' = [made EXCEPT ![g] = [m \in Numbers |-> c(m)]]
  BY DEF Done
<1>3. \A m \in Numbers : /\ reported(m) \in BOOLEAN /\ unlisted(m) \in BOOLEAN
                         /\ made[g][m].reported => reported(m)
                         /\ made[g][m].unlisted => unlisted(m)
                         /\ made[g][m] \in Clients
  BY <1>1 DEF Clients
<1>4. \A m \in Numbers : /\ Progress(made[g][m], c(m))
                         /\ c(m).connect = made[g][m].connect
                         /\ c(m).closed = made[g][m].closed
                         /\ c(m).reported = reported(m) /\ c(m).unlisted = unlisted(m)
  <2>. HIDE DEF reported, unlisted
  <2>. QED  BY <1>3 DEF Clients, Progress, MayAnswer
<1>5. reported(n)
  OBVIOUS
<1>6. \A m \in Numbers : m = tasks[g] /\ made[g][m].connect = "pending" => unlisted(m)
  OBVIOUS
<1>. HIDE DEF c, reported, unlisted
<1>7. \A h \in Groups, m \in Numbers : made'[h][m] = IF h = g THEN c(m) ELSE made[h][m]
  BY <1>1, <1>2
<1>8. \A h \in Groups, m \in Numbers :
        made[h][m] \in Clients /\ Progress(made[h][m], made[h][m])
  BY <1>1 DEF Progress
<1>9. made' \in [Groups -> [Numbers -> Clients]]
  <2>1. [m \in Numbers |-> c(m)] \in [Numbers -> Clients]
    BY <1>4 DEF Progress
  <2>. QED  BY <1>1, <1>2, <2>1
<1>. QED  BY <1>4, <1>5, <1>6, <1>7, <1>8, <1>9

LEMMA DoneIInv ==
    ASSUME IInv, NEW g \in Groups, NEW n \in Numbers, Done(g, n)
    PROVE  IInv'
<1>1. /\ tasks \in [Groups -> 0..MaxClients] /\ current \in [Groups -> 0..MaxClients]
      /\ 0 \in 0..MaxClients
  BY GroupManagerAssumption DEF IInv, TypeOK
<1>2. \A m \in Numbers : m # 0
  BY DEF Numbers
<1>3. /\ tasks' \in [Groups -> 0..MaxClients]
      /\ tasks' = [tasks EXCEPT ![g] = 0]
  BY <1>1 DEF Done
<1>4. /\ current' \in [Groups -> 0..MaxClients]
      /\ \A h \in Groups : current'[h] \in {0, current[h]}
      /\ \A h \in Groups, m \in Numbers :
           m = current[h] /\ m # current'[h] =>
             made'[h][m].connect = "failed" /\ made'[h][m].reported
  <2>1. CASE made[g][n].connect = "failed" /\ current[g] = n
    <3>1. current' = [current EXCEPT ![g] = 0]
      BY <2>1 DEF Done
    <3>2. made'[g][n].connect = "failed" /\ made'[g][n].reported
      BY <2>1, DoneProgress
    <3>. QED  BY <1>1, <2>1, <3>1, <3>2
  <2>2. CASE ~ (made[g][n].connect = "failed" /\ current[g] = n)
    <3>1. current' = [current EXCEPT ![g] = current[g]]
      BY <2>2 DEF Done
    <3>2. current' = current
      BY <1>1, <3>1
    <3>. QED  BY <1>1, <3>2
  <2>. QED  BY <2>1, <2>2
<1>5. /\ made' \in [Groups -> [Numbers -> Clients]]
      /\ \A h \in Groups, m \in Numbers :
           /\ Progress(made[h][m], made'[h][m])
           /\ made'[h][m].closed => made[h][m].closed
  BY DoneProgress
<1>6. /\ \A h \in Groups : tasks'[h] \in {0, tasks[h]}
      /\ \A h \in Groups, m \in Numbers :
           m = tasks[h] /\ m # tasks'[h] /\ made'[h][m].connect = "pending" =>
             made'[h][m].unlisted
  <2>1. \A h \in Groups : tasks'[h] = IF h = g THEN 0 ELSE tasks[h]
    BY <1>1, <1>3
  <2>2. \A m \in Numbers : m = tasks[g] /\ made'[g][m].connect = "pending" =>
          made'[g][m].unlisted
    BY DoneProgress
  <2>. QED  BY <2>1, <2>2
<1>7. UNCHANGED <<applied, store, pools, born, phase, awaited>>
  BY DEF Done
<1>. QED  BY <1>3, <1>4, <1>5, <1>6, <1>7, TasksIInv

-----------------------------------------------------------------------------
\* A change of the pools that keeps them pools.
LEMMA PoolsIInv ==
    ASSUME IInv, NEW g \in Groups, NEW p \in Pools, pools[g] # Absent,
           pools' = [pools EXCEPT ![g] = p],
           UNCHANGED <<applied, store, current, tasks, born, made, phase, awaited>>
    PROVE  IInv'
<1>1. pools' \in [Groups -> Pools \cup {Absent}] /\ pools'[g] = p
  BY DEF IInv, TypeOK
<1>2. \A h \in Groups : pools'[h] = Absent <=> pools[h] = Absent
  BY <1>1, GroupManagerAssumption DEF IInv, TypeOK
<1>3. TypeOK'
  BY <1>1 DEF IInv, TypeOK
<1>4. MadeFromConfigs'
  BY DEF IInv, MadeFromConfigs
<1>5. LiveIsConfigured'
  BY <1>2 DEF IInv, LiveIsConfigured, NoPool, Live
<1>6. NoClientLeftBehind'
  BY DEF IInv, NoClientLeftBehind, MayAnswer
<1>7. RunsWhatWasApplied'
  BY DEF IInv, RunsWhatWasApplied, Live
<1>8. ConnectsAreListed' /\ StoppingCancels'
  BY DEF IInv, ConnectsAreListed, StoppingCancels
<1>. QED  BY <1>3, <1>4, <1>5, <1>6, <1>7, <1>8 DEF IInv

\* Messages and expiry change how many sessions a pool holds, within its cap.
LEMMA UserPools ==
    ASSUME IInv, NEW g \in Groups, Message(g) \/ SessionsGone(g)
    PROVE  \E n \in Nat :
             /\ \/ Message(g) /\ n \in 1..(pools[g].sessions + 1)
                \/ SessionsGone(g) /\ n \in 0..pools[g].sessions
             /\ [limits |-> pools[g].limits, sessions |-> n] \in Pools
             /\ pools' = [pools EXCEPT ![g] = [limits |-> pools[g].limits, sessions |-> n]]
<1>. DEFINE p == pools[g]
            cap == p.limits.session_max_total
<1>1. p # Absent
  BY DEF Message, SessionsGone, NoPool
<1>2. /\ p \in [limits : Limits, sessions : Nat]
      /\ p.limits \in Limits /\ p.sessions \in Nat /\ p.sessions <= cap
  BY <1>1 DEF IInv, TypeOK, Pools
<1>3. cap \in Nat
  BY <1>2, CapOfLimits
<1>4. \A n : pools' = [pools EXCEPT ![g].sessions = n] =>
               pools' = [pools EXCEPT ![g] = [limits |-> p.limits, sessions |-> n]]
  <2>1. \A n : [p EXCEPT !.sessions = n] = [limits |-> p.limits, sessions |-> n]
    BY <1>2
  <2>. QED  BY <2>1
<1>. HIDE DEF cap
<1>5. CASE Message(g)
  <2>1. PICK n \in 1..AtMost(p.sessions + 1, cap) : pools' = [pools EXCEPT ![g].sessions = n]
    BY <1>5 DEF Message, cap
  <2>2. n \in Nat /\ n \in 1..(p.sessions + 1) /\ n <= cap
    BY <1>2, <1>3, <2>1 DEF AtMost
  <2>3. [limits |-> p.limits, sessions |-> n] \in Pools
    BY <1>2, <2>2, PoolIsAPool DEF cap
  <2>. QED  BY <1>4, <1>5, <2>1, <2>2, <2>3
<1>6. CASE SessionsGone(g)
  <2>1. PICK n \in 0..p.sessions : pools' = [pools EXCEPT ![g].sessions = n]
    BY <1>6 DEF SessionsGone
  <2>2. n \in Nat /\ n <= cap
    BY <1>2, <1>3, <2>1
  <2>3. [limits |-> p.limits, sessions |-> n] \in Pools
    BY <1>2, <2>2, PoolIsAPool DEF cap
  <2>. QED  BY <1>4, <1>6, <2>1, <2>2, <2>3
<1>. QED  BY <1>5, <1>6

LEMMA UserIInv ==
    ASSUME IInv, NEW g \in Groups, Message(g) \/ SessionsGone(g)
    PROVE  IInv'
<1>1. PICK p \in Pools : pools' = [pools EXCEPT ![g] = p]
  BY UserPools
<1>2. pools[g] # Absent
  BY DEF Message, SessionsGone, NoPool
<1>3. UNCHANGED <<applied, store, current, tasks, born, made, phase, awaited>>
  BY DEF Message, SessionsGone
<1>. QED  BY <1>1, <1>2, <1>3, PoolsIInv

-----------------------------------------------------------------------------
\* shutdown() cancels the registered connects.
LEMMA ShutdownBeginProgress ==
    ASSUME IInv, ShutdownBegin
    PROVE  /\ made' \in [Groups -> [Numbers -> Clients]]
           /\ \A g \in Groups, n \in Numbers :
                /\ Progress(made[g][n], made'[g][n])
                /\ made'[g][n].closed = made[g][n].closed
                /\ (made'[g][n].connect = "ok") = (made[g][n].connect = "ok")
                /\ n = tasks[g] => made'[g][n].connect # "pending"
<1>. DEFINE status(g, n) == IF n = tasks[g] THEN Cancel(made[g][n].connect) ELSE made[g][n].connect
            c(g, n) == [made[g][n] EXCEPT !.connect = status(g, n)]
<1>1. made' = [g \in Groups |-> [n \in Numbers |-> c(g, n)]]
  BY DEF ShutdownBegin
<1>2. \A g \in Groups, n \in Numbers : made[g][n] \in Clients
  BY DEF IInv, TypeOK
<1>3. \A g \in Groups, n \in Numbers :
        /\ Progress(made[g][n], c(g, n))
        /\ c(g, n).closed = made[g][n].closed
        /\ (c(g, n).connect = "ok") = (made[g][n].connect = "ok")
        /\ n = tasks[g] => c(g, n).connect # "pending"
  <2>. SUFFICES ASSUME NEW g \in Groups, NEW n \in Numbers
                PROVE  /\ Progress(made[g][n], c(g, n))
                       /\ c(g, n).closed = made[g][n].closed
                       /\ (c(g, n).connect = "ok") = (made[g][n].connect = "ok")
                       /\ n = tasks[g] => c(g, n).connect # "pending"
    OBVIOUS
  <2>. DEFINE m == made[g][n]
              st == status(g, n)
  <2>1. /\ m \in Clients
        /\ st \in {"none", "pending", "cancelling"} \cup Finished
        /\ st = "none" <=> m.connect = "none"
        /\ st \in {"pending", "ok", "failed"} => m.connect = st
        /\ m.connect \in {"failed", "ok"} => st = m.connect
        /\ n = tasks[g] => st # "pending"
    BY <1>2 DEF Clients, Cancel, Finished
  <2>2. c(g, n) = [m EXCEPT !.connect = st]
    OBVIOUS
  <2>. HIDE DEF c, st
  <2>3. (st = "ok") = (m.connect = "ok")
    BY <2>1
  <2>. QED  BY <2>1, <2>2, <2>3 DEF Clients, Progress, MayAnswer
<1>. HIDE DEF c
<1>4. \A g \in Groups, n \in Numbers : made'[g][n] = c(g, n)
  BY <1>1
<1>5. made' \in [Groups -> [Numbers -> Clients]]
  BY <1>1, <1>3 DEF Progress
<1>. QED  BY <1>3, <1>4, <1>5

LEMMA ShutdownBeginIInv ==
    ASSUME IInv, ShutdownBegin
    PROVE  IInv'
<1>0. /\ TypeOK /\ MadeFromConfigs /\ LiveIsConfigured /\ NoClientLeftBehind
      /\ RunsWhatWasApplied /\ ConnectsAreListed
  BY DEF IInv
<1>1. /\ UNCHANGED <<applied, store, pools, current, tasks, born>>
      /\ awaited' = tasks /\ phase = "running" /\ phase' = "stopping"
  BY DEF ShutdownBegin
<1>2. /\ made' \in [Groups -> [Numbers -> Clients]]
      /\ \A g \in Groups, n \in Numbers :
           /\ Progress(made[g][n], made'[g][n])
           /\ made'[g][n].closed = made[g][n].closed
           /\ n = tasks[g] => made'[g][n].connect # "pending"
  BY ShutdownBeginProgress
<1>3. TypeOK'
  BY <1>0, <1>1, <1>2 DEF TypeOK, Progress
<1>4. MadeFromConfigs'
  BY <1>0, <1>1, <1>2 DEF MadeFromConfigs, Progress
<1>5. LiveIsConfigured'
  BY <1>0, <1>1 DEF LiveIsConfigured, NoPool, Live
<1>6. NoClientLeftBehind'
  <2>1. \A g \in Groups, n \in Numbers :
          /\ MayAnswer(made'[g][n]) => MayAnswer(made[g][n])
          /\ made[g][n].unlisted => made'[g][n].unlisted
    BY <1>2 DEF Progress
  <2>. QED  BY <1>0, <1>1, <2>1 DEF NoClientLeftBehind, MayAnswer
<1>7. RunsWhatWasApplied'
  <2>1. \A g \in Groups : /\ current[g] # 0 => current[g] \in Numbers
                          /\ born[g] # 0 => born[g] \in Numbers
    <3>1. \A g \in Groups : current[g] \in 0..MaxClients /\ born[g] \in 0..MaxClients
      BY <1>0 DEF TypeOK
    <3>2. \A k \in 0..MaxClients : k # 0 => k \in Numbers
      BY GroupManagerAssumption DEF Numbers
    <3>. QED  BY <3>1, <3>2
  <2>2. \A g \in Groups, n \in Numbers :
          /\ made'[g][n].creds = made[g][n].creds
          /\ made'[g][n].closed = made[g][n].closed
          /\ made[g][n].connect = "failed" /\ made[g][n].reported =>
               made'[g][n].connect = "failed" /\ made'[g][n].reported
    BY <1>2 DEF Progress
  <2>. QED  BY <1>0, <1>1, <2>1, <2>2 DEF MadeFromConfigs, RunsWhatWasApplied, Live
<1>8. ConnectsAreListed' /\ StoppingCancels'
  BY <1>0, <1>1, <1>2 DEF ConnectsAreListed, StoppingCancels, Progress
<1>. QED  BY <1>3, <1>4, <1>5, <1>6, <1>7, <1>8 DEF IInv

\* What is registered is closed.  That no registered connect goes on, in gather() or
\* because none is registered, leaves those that a late callback unregistered.
LEMMA CloseAllIInv ==
    ASSUME IInv, CloseAll, UNCHANGED <<applied, store, pools, born, awaited>>,
           phase = "stopping" \/ \A g \in Groups : tasks[g] = 0
    PROVE  IInv'
<1>. DEFINE c(g, n) == [made[g][n] EXCEPT !.closed = @ \/ n = current[g]]
<1>1. made' = [g \in Groups |-> [n \in Numbers |-> c(g, n)]]
  BY DEF CloseAll
<1>2. \A g \in Groups, n \in Numbers : made[g][n] \in Clients
  BY DEF IInv, TypeOK
<1>3. \A g \in Groups, n \in Numbers :
        /\ Progress(made[g][n], c(g, n))
        /\ c(g, n).connect = made[g][n].connect
        /\ n = current[g] => c(g, n).closed
  <2>. SUFFICES ASSUME NEW g \in Groups, NEW n \in Numbers
                PROVE  /\ Progress(made[g][n], c(g, n))
                       /\ c(g, n).connect = made[g][n].connect
                       /\ n = current[g] => c(g, n).closed
    OBVIOUS
  <2>. DEFINE m == made[g][n]
              closed == m.closed \/ n = current[g]
  <2>1. c(g, n) = [m EXCEPT !.closed = closed]
    OBVIOUS
  <2>2. /\ m \in Clients /\ closed \in BOOLEAN
        /\ m.closed => closed
        /\ n = current[g] => closed
    BY <1>2 DEF Clients
  <2>. HIDE DEF c, closed
  <2>. QED  BY <2>1, <2>2 DEF Clients, Progress, MayAnswer
<1>. HIDE DEF c
<1>4. \A g \in Groups, n \in Numbers : made'[g][n] = c(g, n)
  BY <1>1
<1>5. /\ current' = [g \in Groups |-> 0] /\ tasks' = [g \in Groups |-> 0]
      /\ phase' = "down"
  BY DEF CloseAll
<1>6. TypeOK'
  <2>1. made' \in [Groups -> [Numbers -> Clients]]
    BY <1>1, <1>3 DEF Progress
  <2>2. current' \in [Groups -> 0..MaxClients] /\ tasks' \in [Groups -> 0..MaxClients]
    BY <1>5, GroupManagerAssumption
  <2>3. \A g \in Groups, n \in Numbers : made'[g][n].connect = "none" <=> n > born'[g]
    BY <1>3, <1>4 DEF IInv, TypeOK, Progress
  <2>. QED  BY <1>5, <2>1, <2>2, <2>3 DEF IInv, TypeOK
<1>7. MadeFromConfigs'
  BY <1>3, <1>4 DEF IInv, MadeFromConfigs, Progress
<1>8. LiveIsConfigured'
  BY <1>5 DEF IInv, LiveIsConfigured, NoPool, Live
<1>9. NoClientLeftBehind'
  <2>. SUFFICES ASSUME NEW g \in Groups, NEW n \in Numbers, MayAnswer(made'[g][n])
                PROVE  current'[g] = 0 /\ made'[g][n].unlisted
    BY <1>5 DEF NoClientLeftBehind, MayAnswer
  <2>1. /\ MayAnswer(made[g][n])
        /\ made'[g][n].connect = made[g][n].connect
        /\ made[g][n].unlisted => made'[g][n].unlisted
        /\ n = current[g] => made'[g][n].closed
    BY <1>3, <1>4 DEF Progress
  <2>2. made[g][n].unlisted
    <3>1. CASE n # current[g]
      BY <2>1, <3>1 DEF IInv, NoClientLeftBehind
    <3>2. CASE n = current[g]
      <4>1. made[g][n].connect = "pending"
        BY <2>1, <3>2 DEF MayAnswer
      <4>2. n # tasks[g]
        BY <4>1 DEF IInv, StoppingCancels, Numbers
      <4>. QED  BY <3>2, <4>1, <4>2 DEF IInv, ConnectsAreListed
    <3>. QED  BY <3>1, <3>2
  <2>. QED  BY <1>5, <2>1, <2>2
<1>10. RunsWhatWasApplied' /\ StoppingCancels'
  BY <1>5 DEF RunsWhatWasApplied, StoppingCancels
<1>11. ConnectsAreListed'
  BY <1>5 DEF ConnectsAreListed, Numbers
<1>. QED  BY <1>6, <1>7, <1>8, <1>9, <1>10, <1>11 DEF IInv

-----------------------------------------------------------------------------
LEMMA NextIInv == IInv /\ [Next]_vars => IInv'
<1>. SUFFICES ASSUME IInv, [Next]_vars PROVE IInv'
  OBVIOUS
<1>1. CASE phase = "running" /\ \E d \in Desired : Apply(d)
  BY <1>1, ApplyIInv
<1>2. CASE TaskStep
  BY <1>2, ConnectEndsIInv, DoneIInv DEF TaskStep
<1>3. CASE UserStep
  BY <1>3, UserIInv DEF UserStep
<1>4. CASE Shutdown
  BY <1>4, ShutdownBeginIInv, CloseAllIInv DEF Shutdown, ShutdownEnd, ShutdownAtOnce
<1>5. CASE UNCHANGED vars
  BY <1>5 DEF vars, IInv, TypeOK, MadeFromConfigs, LiveIsConfigured, NoPool, Live,
              NoClientLeftBehind, MayAnswer, RunsWhatWasApplied, ConnectsAreListed,
              StoppingCancels
<1>. QED  BY <1>1, <1>2, <1>3, <1>4, <1>5 DEF Next

\* The inductive invariant: after any sequence of reloads, connects that end and
\* callbacks that come late, in any order.
THEOREM Invariance == Spec => []IInv
<1>. QED  BY InitIInv, NextIInv, PTL DEF Spec

\* Every registry keeps its type.
THEOREM TypeCorrect == Spec => []TypeOK
<1>1. IInv => TypeOK
  BY DEF IInv
<1>. QED  BY <1>1, Invariance, PTL

\* A message never finds its group in one registry and not in the other.
THEOREM LiveAreConfigured == Spec => []LiveIsConfigured
<1>1. IInv => LiveIsConfigured
  BY DEF IInv
<1>. QED  BY <1>1, Invariance, PTL

\* The only client besides the registered one that may ever answer is one whose pending
\* task a late callback had unregistered.
THEOREM NoneLeftBehind == Spec => []NoClientLeftBehind
<1>1. IInv => NoClientLeftBehind
  BY DEF IInv
<1>. QED  BY <1>1, Invariance, PTL

\* The store and the clients are those of the last desired state, but for groups
\* whose last connect failed.
THEOREM RunsTheApplied == Spec => []RunsWhatWasApplied
<1>1. IInv => RunsWhatWasApplied
  BY DEF IInv
<1>. QED  BY <1>1, Invariance, PTL

-----------------------------------------------------------------------------
\* A reload ends no session of a group that it keeps but those over a cap that it lowers
\* in place; a restart and a new attempt to connect end none.
THEOREM SessionsSurvive == Spec => SessionsSurviveReload
<1>. DEFINE Kept(g) ==
              /\ ~ NoPool(pools[g]) /\ ~ NoPool(pools'[g])
              /\ \/ pools'[g].sessions = pools[g].sessions
                 \/ /\ born'[g] = born[g]
                    /\ pools[g].sessions > applied'[g].limits.session_max_total
                    /\ pools'[g].sessions = applied'[g].limits.session_max_total
            Survives(g) ==
              (applied' # applied \/ born' # born) /\ applied[g] # Absent /\ applied'[g] # Absent
                => Kept(g)
<1>1. ASSUME IInv, [Next]_vars PROVE \A g \in Groups : Survives(g)
  <2>1. CASE applied' = applied /\ born' = born
    BY <2>1
  <2>2. CASE ~ (applied' = applied /\ born' = born)
    <3>1. PICK d \in Desired : Apply(d) /\ phase = "running"
      BY <1>1, <2>2 DEF Next, vars, TaskStep, ConnectEnds, CancelDelivered, Done, UserStep,
                        Message, SessionsGone, Shutdown, ShutdownBegin, ShutdownEnd,
                        ShutdownAtOnce
    <3>. SUFFICES ASSUME NEW g \in Groups, applied[g] # Absent, d[g] # Absent
                  PROVE  Kept(g)
      BY <3>1 DEF Apply
    <3>2. applied'[g] = d[g]
      BY <3>1 DEF Apply
    <3>3. /\ d[g] \in Configs
          /\ pools[g] # Absent /\ pools[g] \in Pools
          /\ pools[g].sessions \in Nat
          /\ d[g].limits.session_max_total \in Nat
      <4>1. d[g] \in Configs
        BY DEF Desired
      <4>2. pools[g] # Absent /\ pools[g] \in Pools
        BY <1>1, <3>1 DEF IInv, TypeOK, RunsWhatWasApplied, LiveIsConfigured, NoPool
      <4>3. d[g].limits \in Limits /\ pools[g].sessions \in Nat
        BY <4>1, <4>2 DEF Configs, Pools
      <4>. QED  BY <4>1, <4>2, <4>3, CapOfLimits
    <3>4. g \notin Removed(d)
      BY PartsAreDisjoint
    <3>5. /\ EnsurePool(pools[g], d[g]) = pools[g]
          /\ UpdatePool(pools[g], d[g]) \in Pools
          /\ UpdatePool(pools[g], d[g]).sessions
               = AtMost(pools[g].sessions, d[g].limits.session_max_total)
      BY <3>3, PoolOperations
    <3>6. CASE g \notin Updated(d)
      <4>1. pools'[g] = pools[g]
        BY <3>1, <3>4, <3>5, <3>6, RegistriesAfter
      <4>. QED  BY <3>3, <4>1 DEF NoPool
    <3>7. CASE g \in Updated(d)
      <4>1. g \notin Started(d)
        BY <3>7, PartsAreDisjoint
      <4>2. pools'[g] = UpdatePool(pools[g], d[g]) /\ born'[g] = born[g]
        BY <3>1, <3>4, <3>7, <4>1, RegistriesAfter
      <4>3. pools'[g] # Absent
        BY <3>5, <4>2, GroupManagerAssumption
      <4>. QED  BY <3>2, <3>3, <3>5, <4>2, <4>3 DEF NoPool, AtMost
    <3>. QED  BY <3>6, <3>7
  <2>. QED  BY <2>1, <2>2
<1>. QED  BY <1>1, Invariance, PTL DEF Spec, SessionsSurviveReload

-----------------------------------------------------------------------------
(* Refinement of HotReload.  `conn` and `talking` are what the mapping     *)
(* makes of the clients and the pools.                                     *)

conn == [g \in Groups |-> Connection(g)]

talking == [g \in Groups |-> IF NoPool(pools[g]) THEN 0 ELSE pools[g].sessions]

\* A group is on in HotReload when it is live, with the credentials stored.
LEMMA ConnectionIsLive ==
    ASSUME IInv, NEW g \in Groups
    PROVE  /\ Reload!On(g) <=> current[g] # 0
           /\ current[g] # 0 =>
                /\ current[g] \in Numbers /\ current[g] = born[g]
                /\ conn[g] = [creds |-> made[g][current[g]].creds,
                              up |-> made[g][current[g]].connect = "ok"]
           /\ current[g] # 0 => conn[g] \in Connections
           /\ current[g] = 0 => conn[g] = Absent
           /\ current[g] # 0 /\ phase # "down" =>
                /\ applied[g] # Absent /\ store[g] # Absent
                /\ made[g][current[g]].creds = store[g].creds
<1>1. current[g] # 0 => current[g] \in Numbers /\ current[g] = born[g]
  <2>1. current[g] \in 0..MaxClients
    BY DEF IInv, TypeOK
  <2>2. \A k \in 0..MaxClients : k # 0 => k \in Numbers
    BY GroupManagerAssumption DEF Numbers
  <2>. QED  BY <2>1, <2>2 DEF IInv, NoClientLeftBehind
<1>2. current[g] # 0 => made[g][current[g]].creds \in Creds
  <2>1. current[g] # 0 => current[g] <= born[g]
    <3>1. born[g] \in 0..MaxClients
      BY DEF IInv, TypeOK
    <3>. QED  BY <1>1, <3>1
  <2>. QED  BY <1>1, <2>1 DEF IInv, MadeFromConfigs
<1>3. current[g] # 0 => Connection(g) \in Connections
  BY <1>2 DEF Connection, Connections
<1>4. /\ conn[g] = Connection(g)
      /\ current[g] = 0 => Connection(g) = Absent
      /\ current[g] # 0 =>
           Connection(g) = [creds |-> made[g][current[g]].creds,
                            up |-> made[g][current[g]].connect = "ok"]
  BY DEF conn, Connection
<1>5. Reload!On(g) <=> Connection(g) # Absent
  BY DEF Reload!On
<1>6. current[g] # 0 /\ phase # "down" =>
        /\ applied[g] # Absent /\ store[g] # Absent
        /\ made[g][current[g]].creds = store[g].creds
  BY DEF IInv, RunsWhatWasApplied, LiveIsConfigured, Live
<1>. QED  BY <1>1, <1>3, <1>4, <1>5, <1>6, GroupManagerAssumption

LEMMA InitReload == Init => Reload!Init
<1>. SUFFICES ASSUME Init PROVE Reload!Init
  OBVIOUS
<1>1. store \in [Groups -> Configs \cup {Absent}]
  BY DEF Init, Desired
<1>2. \A g \in Groups :
        Connection(g) = IF store[g] = Absent THEN Absent ELSE Reload!Connecting(store[g])
  <2>. SUFFICES ASSUME NEW g \in Groups
                PROVE  Connection(g) = IF store[g] = Absent THEN Absent
                                       ELSE Reload!Connecting(store[g])
    OBVIOUS
  <2>1. CASE store[g] = Absent
    BY <2>1 DEF Init, Connection
  <2>2. CASE store[g] # Absent
    <3>1. current[g] = 1 /\ 1 \in Numbers
      BY <2>2, GroupManagerAssumption DEF Init, Numbers
    <3>2. made[g][1] = NewClient(store[g])
      BY <2>2, <3>1 DEF Init
    <3>3. NewClient(store[g]).creds = store[g].creds /\ NewClient(store[g]).connect # "ok"
      BY <1>1, <2>2, NewClientIsAClient
    <3>4. /\ made[g][current[g]].creds = store[g].creds
          /\ (made[g][current[g]].connect = "ok") = FALSE
      BY <3>1, <3>2, <3>3
    <3>5. current[g] # 0
      BY <3>1
    <3>. QED  BY <2>2, <3>4, <3>5 DEF Connection, Reload!Connecting
  <2>. QED  BY <2>1, <2>2
<1>3. \A g \in Groups : (IF NoPool(pools[g]) THEN 0 ELSE pools[g].sessions) = 0
  BY <1>1, NewPoolIsAPool DEF Init, NoPool
<1>4. (phase = "down") = FALSE
  BY DEF Init
<1>. QED  BY <1>1, <1>2, <1>3, <1>4 DEF Reload!Init

LEMMA ApplyReload ==
    ASSUME IInv, phase = "running", NEW d \in Desired, Apply(d)
    PROVE  Reload!Reload(d)
<1>0. /\ (phase = "down") = FALSE
      /\ phase' = phase
  BY DEF Apply
<1>1. store' = Reload!ConfigUnder(d)
  <2>1. \A g \in Groups :
          store'[g] = IF d[g] = Absent /\ ~ Reload!On(g) THEN store[g] ELSE d[g]
    <3>. SUFFICES ASSUME NEW g \in Groups
                  PROVE  store'[g] = IF d[g] = Absent /\ current[g] = 0 THEN store[g] ELSE d[g]
      BY ConnectionIsLive
    <3>1. CASE g \in Removed(d)
      BY <3>1, RegistriesAfter, PartsAreDisjoint DEF Live
    <3>2. CASE g \in Started(d)
      BY <3>2, RegistriesAfter, PartsAreDisjoint
    <3>3. CASE g \notin Removed(d) /\ g \notin Started(d)
      BY <3>3, RegistriesAfter, PartsAreDisjoint DEF Live
    <3>. QED  BY <3>1, <3>2, <3>3
  <2>2. store' = [g \in Groups |-> store'[g]]
    BY DEF Apply, StoreAfter
  <2>. QED  BY <2>1, <2>2 DEF Reload!ConfigUnder
<1>2. \A g \in Groups :
        Connection(g)' = IF d[g] = Absent THEN Absent
                         ELSE IF Reload!On(g) /\ conn[g].creds = d[g].creds THEN conn[g]
                         ELSE Reload!Connecting(d[g])
  <2>. SUFFICES ASSUME NEW g \in Groups
                PROVE  Connection(g)' =
                         IF d[g] = Absent THEN Absent
                         ELSE IF current[g] # 0 /\ conn[g].creds = d[g].creds THEN conn[g]
                         ELSE Reload!Connecting(d[g])
    BY ConnectionIsLive
  <2>1. Connection(g)' = IF current'[g] = 0 THEN Absent
                         ELSE [creds |-> made'[g][current'[g]].creds,
                               up |-> made'[g][current'[g]].connect = "ok"]
    BY DEF Connection
  <2>2. current[g] # 0 => /\ current[g] \in Numbers /\ current[g] = born[g]
                          /\ conn[g] = [creds |-> made[g][current[g]].creds,
                                        up |-> made[g][current[g]].connect = "ok"]
                          /\ made[g][current[g]].creds = store[g].creds
                          /\ store[g] # Absent
    BY ConnectionIsLive
  <2>3. CASE g \in Removed(d) \/ (d[g] = Absent /\ g \notin Live)
    BY <2>1, <2>3, RegistriesAfter, PartsAreDisjoint DEF Live
  <2>4. CASE g \in Started(d)
    <3>1. born[g] \in 0..MaxClients
      BY DEF IInv, TypeOK
    <3>2. /\ born[g] + 1 \in Numbers
          /\ current'[g] = born[g] + 1 /\ current'[g] # 0
      BY <2>4, <3>1, RegistriesAfter, GroupManagerAssumption DEF Numbers
    <3>3. made'[g][current'[g]] = NewClient(d[g])
      BY <2>4, <3>2, ClientsAfter
    <3>4. NewClient(d[g]).creds = d[g].creds /\ NewClient(d[g]).connect # "ok"
      BY <2>4, PartsAreDisjoint, NewClientIsAClient DEF Desired
    <3>5. ~ (current[g] # 0 /\ conn[g].creds = d[g].creds)
      BY <2>2, <2>4 DEF Started, Restarted, Added, Live
    <3>6. d[g] # Absent
      BY <2>4, PartsAreDisjoint
    <3>. QED  BY <2>1, <3>2, <3>3, <3>4, <3>5, <3>6 DEF Reload!Connecting
  <2>5. CASE g \notin Removed(d) /\ g \notin Started(d) /\ ~ (d[g] = Absent /\ g \notin Live)
    <3>1. /\ current[g] # 0 /\ store[g].creds = d[g].creds
          /\ g \notin Dropped(d) /\ d[g] # Absent
      BY <2>5, PartsAreDisjoint DEF Live, Removed
    <3>2. current'[g] = current[g]
      BY <2>5, RegistriesAfter
    <3>3. made'[g][current[g]] = made[g][current[g]]
      BY <2>2, <2>5, <3>1, ClientsAfter
    <3>. QED  BY <2>1, <2>2, <3>1, <3>2, <3>3
  <2>. QED  BY <2>3, <2>4, <2>5
<1>3. talking' = Reload!TalkingUnder(d)
  <2>. SUFFICES ASSUME NEW g \in Groups
                PROVE  talking'[g] = IF ~ Reload!On(g) THEN talking[g]
                                     ELSE IF d[g] = Absent THEN 0
                                     ELSE IF conn[g].creds = d[g].creds /\ store[g] # d[g]
                                          THEN Reload!AtMost(talking[g],
                                                             d[g].limits.session_max_total)
                                     ELSE talking[g]
    <3>1. talking' = [g \in Groups |-> talking'[g]]
      BY DEF talking
    <3>. QED  BY <3>1 DEF Reload!TalkingUnder, talking, conn
  <2>0. /\ talking[g] = IF pools[g] = Absent THEN 0 ELSE pools[g].sessions
        /\ talking'[g] = IF pools'[g] = Absent THEN 0 ELSE pools'[g].sessions
    BY DEF talking, NoPool
  <2>1. /\ d[g] \in Configs \cup {Absent} /\ pools[g] \in Pools \cup {Absent}
        /\ store[g] = Absent <=> pools[g] = Absent
        /\ current[g] # 0 => store[g] # Absent /\ conn[g].creds = store[g].creds
        /\ Reload!On(g) <=> current[g] # 0
        /\ g \in Live <=> current[g] # 0
    <3>1. /\ current[g] # 0 => conn[g].creds = store[g].creds
          /\ Reload!On(g) <=> current[g] # 0
      <4>1. /\ current[g] # 0 =>
                 /\ conn[g] = [creds |-> made[g][current[g]].creds,
                               up |-> made[g][current[g]].connect = "ok"]
                 /\ made[g][current[g]].creds = store[g].creds
            /\ Reload!On(g) <=> current[g] # 0
        BY ConnectionIsLive
      <4>2. current[g] # 0 => conn[g].creds = made[g][current[g]].creds
        BY <4>1
      <4>. QED  BY <4>1, <4>2
    <3>2. d[g] \in Configs \cup {Absent} /\ pools[g] \in Pools \cup {Absent}
      BY DEF IInv, TypeOK, Desired
    <3>. QED  BY <3>1, <3>2 DEF IInv, LiveIsConfigured, NoPool, Live
  <2>2. CASE g \in Removed(d)
    BY <2>0, <2>1, <2>2, RegistriesAfter, PartsAreDisjoint
  <2>3. CASE g \in Started(d)
    <3>1. d[g] \in Configs /\ d[g] # Absent
      BY <2>1, <2>3, PartsAreDisjoint
    <3>2. /\ pools[g] # Absent => EnsurePool(pools[g], d[g]) = pools[g]
          /\ pools[g] = Absent => EnsurePool(pools[g], d[g]) = NewPool(d[g])
          /\ NewPool(d[g]).sessions = 0
      BY <2>1, <3>1, PoolOperations
    <3>3. pools'[g] = EnsurePool(pools[g], d[g])
      BY <2>3, RegistriesAfter
    <3>4. talking'[g] = talking[g]
      BY <2>0, <3>2, <3>3
    <3>5. current[g] # 0 => store[g].creds # d[g].creds
      BY <2>1, <2>3 DEF Started, Restarted, Added, Live
    <3>. QED  BY <2>1, <3>1, <3>4, <3>5
  <2>4. CASE g \in Updated(d)
    <3>1. /\ d[g] \in Configs /\ d[g] # Absent /\ pools[g] # Absent /\ pools[g] \in Pools
          /\ g \notin Started(d) /\ g \notin Removed(d) /\ g \in Live
      BY <2>1, <2>4, PartsAreDisjoint
    <3>2. /\ UpdatePool(pools[g], d[g]) \in Pools
          /\ UpdatePool(pools[g], d[g]).sessions
               = AtMost(pools[g].sessions, d[g].limits.session_max_total)
      BY <3>1, PoolOperations
    <3>3. pools'[g] = UpdatePool(pools[g], d[g]) /\ pools'[g] # Absent
      BY <2>4, <3>1, <3>2, RegistriesAfter, GroupManagerAssumption
    <3>4. store[g] # d[g] /\ store[g].creds = d[g].creds
      BY <2>4, <3>1, PartsAreDisjoint DEF Updated
    <3>. QED  BY <2>0, <2>1, <3>1, <3>2, <3>3, <3>4 DEF AtMost, Reload!AtMost
  <2>5. CASE g \notin Removed(d) /\ g \notin Started(d) /\ g \notin Updated(d)
    <3>1. pools'[g] = pools[g]
      BY <2>5, RegistriesAfter
    <3>2. \/ d[g] = Absent /\ g \notin Live
          \/ g \in Live /\ store[g] = d[g] /\ d[g] # Absent
      BY <2>1, <2>5, PartsAreDisjoint
    <3>. QED  BY <2>0, <2>1, <3>1, <3>2
  <2>. QED  BY <2>2, <2>3, <2>4, <2>5
<1>. QED  BY <1>0, <1>1, <1>2, <1>3 DEF Reload!Reload, Reload!ConnUnder, conn, talking

LEMMA ConnectEndsReload ==
    ASSUME IInv, NEW g \in Groups, NEW n \in Numbers, ConnectEnds(g, n) \/ CancelDelivered(g, n)
    PROVE  Reload!Connect(g) \/ UNCHANGED Reload!vars
<1>0. n # 0
  BY DEF Numbers
<1>2. /\ UNCHANGED <<store, pools, current, phase>>
      /\ made[g][n].connect \in {"pending", "cancelling"}
  BY DEF ConnectEnds, CancelDelivered
<1>4. \A h \in Groups, m \in Numbers :
        /\ made'[h][m].creds = made[h][m].creds
        /\ ~ (h = g /\ m = n) => made'[h][m] = made[h][m]
  BY ConnectEndsProgress DEF Progress
<1>5. \A h \in Groups : Connection(h)' = IF current[h] = 0 THEN Absent
                                        ELSE [creds |-> made'[h][current[h]].creds,
                                              up |-> made'[h][current[h]].connect = "ok"]
  BY <1>2 DEF Connection
<1>6. \A h \in Groups : ~ (h = g /\ current[g] = n) => Connection(h)' = Connection(h)
  <2>1. \A h \in Groups : current[h] # 0 => current[h] \in Numbers
    BY ConnectionIsLive
  <2>. SUFFICES ASSUME NEW h \in Groups, ~ (h = g /\ current[g] = n)
                PROVE  Connection(h)' = Connection(h)
    OBVIOUS
  <2>2. CASE current[h] = 0
    BY <1>5, <2>2 DEF Connection
  <2>3. CASE current[h] # 0
    <3>1. made'[h][current[h]] = made[h][current[h]]
      BY <1>4, <2>1, <2>3
    <3>. QED  BY <1>5, <2>3, <3>1 DEF Connection
  <2>. QED  BY <2>2, <2>3
<1>7. UNCHANGED <<store, talking, phase>>
  BY <1>2 DEF talking
<1>8. CASE current[g] = n /\ made'[g][n].connect = "ok"
  <2>1. current[g] # 0 /\ (made[g][n].connect = "ok") = FALSE
    BY <1>0, <1>2, <1>8
  <2>2. Connection(g) = [creds |-> made[g][n].creds, up |-> FALSE]
    BY <1>8, <2>1 DEF Connection
  <2>3. Connection(g)' = [creds |-> made[g][n].creds, up |-> TRUE]
    BY <1>4, <1>5, <1>8, <2>1
  <2>4. Connection(g)' = Reload!Up(Connection(g))
    <3>1. Connection(g).creds = made[g][n].creds
      BY <2>2
    <3>. QED  BY <2>3, <3>1 DEF Reload!Up
  <2>5. conn' = [conn EXCEPT ![g] = Reload!Up(@)]
    BY <1>6, <2>4 DEF conn
  <2>6. Reload!On(g) /\ ~ conn[g].up
    BY <2>1, <2>2, ConnectionIsLive DEF conn
  <2>. QED  BY <1>7, <2>5, <2>6 DEF Reload!Connect, conn, talking
<1>9. CASE ~ (current[g] = n /\ made'[g][n].connect = "ok")
  <2>1. Connection(g)' = Connection(g)
    <3>1. CASE current[g] = n
      <4>1. (made'[g][n].connect = "ok") = (made[g][n].connect = "ok")
        BY <1>2, <1>9, <3>1
      <4>. QED  BY <1>4, <1>5, <3>1, <4>1 DEF Connection
    <3>2. CASE current[g] # n
      BY <1>6, <3>2
    <3>. QED  BY <3>1, <3>2
  <2>2. conn' = conn
    BY <1>6, <2>1 DEF conn
  <2>. QED  BY <1>7, <2>2 DEF Reload!vars, conn, talking
<1>. QED  BY <1>8, <1>9

LEMMA DoneReload ==
    ASSUME IInv, NEW g \in Groups, NEW n \in Numbers, Done(g, n)
    PROVE  Reload!Connect(g) \/ UNCHANGED Reload!vars
<1>1. made \in [Groups -> [Numbers -> Clients]] /\ current \in [Groups -> 0..MaxClients]
  BY DEF IInv, TypeOK
<1>2. UNCHANGED <<store, pools, phase>>
  BY DEF Done
<1>3. \A h \in Groups, m \in Numbers :
        made'[h][m].creds = made[h][m].creds /\ made'[h][m].connect = made[h][m].connect
  BY DoneProgress DEF Progress
<1>4. UNCHANGED <<store, talking, phase>>
  BY <1>2 DEF talking
<1>5. \A h \in Groups : current'[h] = current[h] => Connection(h)' = Connection(h)
  <2>1. \A h \in Groups : current[h] # 0 => current[h] \in Numbers
    BY ConnectionIsLive
  <2>. QED  BY <1>3, <2>1 DEF Connection
<1>6. CASE made[g][n].connect = "failed" /\ current[g] = n
  <2>0. n # 0
    BY DEF Numbers
  <2>1. current' = [current EXCEPT ![g] = 0] /\ current[g] # 0
    BY <1>6, <2>0 DEF Done
  <2>2. Connection(g)' = Absent
    BY <1>1, <2>1 DEF Connection
  <2>3. conn' = [conn EXCEPT ![g] = Absent]
    BY <1>1, <1>5, <2>1, <2>2 DEF conn
  <2>4. Reload!On(g) /\ ~ conn[g].up
    <3>1. conn[g] = [creds |-> made[g][n].creds, up |-> made[g][n].connect = "ok"]
      BY <1>6, <2>1, ConnectionIsLive
    <3>2. Reload!On(g)
      BY <2>1, ConnectionIsLive
    <3>3. (made[g][n].connect = "ok") = FALSE
      BY <1>6
    <3>4. conn[g] = [creds |-> made[g][n].creds, up |-> FALSE]
      BY <3>1, <3>3
    <3>. QED  BY <3>2, <3>4
  <2>. QED  BY <1>4, <2>3, <2>4 DEF Reload!Connect, conn, talking
<1>7. CASE ~ (made[g][n].connect = "failed" /\ current[g] = n)
  <2>1. current' = current
    <3>1. current' = [current EXCEPT ![g] = current[g]]
      BY <1>7 DEF Done
    <3>. QED  BY <1>1, <3>1
  <2>2. conn' = conn
    BY <1>5, <2>1 DEF conn
  <2>. QED  BY <1>4, <2>2 DEF Reload!vars, conn, talking
<1>. QED  BY <1>6, <1>7

\* `current` is gone and what it had been is closed: nothing is on any more.
LEMMA CloseAllReload ==
    ASSUME CloseAll, UNCHANGED <<store, pools>>
    PROVE  Reload!Stop
<1>1. \A g \in Groups : Connection(g)' = Absent
  BY DEF CloseAll, Connection
<1>2. (phase' = "down") = TRUE
  BY DEF CloseAll
<1>3. UNCHANGED <<store, talking>>
  BY DEF talking
<1>. QED  BY <1>1, <1>2, <1>3 DEF Reload!Stop, talking

LEMMA ShutdownBeginReload ==
    ASSUME IInv, ShutdownBegin
    PROVE  UNCHANGED Reload!vars
<1>1. /\ UNCHANGED <<store, pools, current>>
      /\ (phase = "down") = FALSE /\ (phase' = "down") = FALSE
  BY DEF ShutdownBegin
<1>2. \A g \in Groups, n \in Numbers :
        /\ made'[g][n].creds = made[g][n].creds
        /\ (made'[g][n].connect = "ok") = (made[g][n].connect = "ok")
  BY ShutdownBeginProgress DEF Progress
<1>3. \A g \in Groups : Connection(g)' = Connection(g)
  <2>. SUFFICES ASSUME NEW g \in Groups PROVE Connection(g)' = Connection(g)
    OBVIOUS
  <2>1. current[g] # 0 => current[g] \in Numbers
    BY ConnectionIsLive
  <2>2. Connection(g)' = IF current[g] = 0 THEN Absent
                         ELSE [creds |-> made'[g][current[g]].creds,
                               up |-> made'[g][current[g]].connect = "ok"]
    BY <1>1 DEF Connection
  <2>. QED  BY <1>2, <2>1, <2>2 DEF Connection
<1>4. conn' = conn /\ talking' = talking
  BY <1>1, <1>3 DEF conn, talking
<1>. QED  BY <1>1, <1>4 DEF Reload!vars, conn, talking

LEMMA UserReload ==
    ASSUME IInv, NEW g \in Groups, Message(g) \/ SessionsGone(g)
    PROVE  Reload!Talk(g) \/ Reload!FallSilent(g)
<1>1. /\ UNCHANGED <<store, current, made, phase>>
      /\ pools[g] # Absent /\ pools[g] \in Pools
  BY DEF Message, SessionsGone, NoPool, IInv, TypeOK
<1>2. conn' = conn
  BY <1>1 DEF conn, Connection
<1>3. ASSUME NEW n \in Nat, [limits |-> pools[g].limits, sessions |-> n] \in Pools,
             pools' = [pools EXCEPT ![g] = [limits |-> pools[g].limits, sessions |-> n]]
      PROVE  talking' = [talking EXCEPT ![g] = n]
  <2>1. /\ \A h \in Groups \ {g} : pools'[h] = pools[h]
        /\ pools'[g] = [limits |-> pools[g].limits, sessions |-> n]
    BY <1>3 DEF IInv, TypeOK
  <2>2. ~ NoPool(pools'[g]) /\ pools'[g].sessions = n
    BY <1>3, <2>1, GroupManagerAssumption DEF NoPool
  <2>. QED  BY <2>1, <2>2 DEF talking
<1>4. talking[g] = pools[g].sessions
  BY <1>1 DEF talking, NoPool
<1>5. PICK n \in Nat :
        /\ \/ Message(g) /\ n \in 1..(talking[g] + 1)
           \/ SessionsGone(g) /\ n \in 0..talking[g]
        /\ talking' = [talking EXCEPT ![g] = n]
  BY <1>3, <1>4, UserPools
<1>6. CASE Message(g) /\ n \in 1..(talking[g] + 1)
  <2>1. (phase = "down") = FALSE /\ store[g] # Absent
    BY <1>6 DEF Message
  <2>. QED  BY <1>1, <1>2, <1>5, <1>6, <2>1 DEF Reload!Talk, conn, talking
<1>7. CASE SessionsGone(g) /\ n \in 0..talking[g]
  BY <1>1, <1>2, <1>5, <1>7 DEF Reload!FallSilent, conn, talking
<1>. QED  BY <1>5, <1>6, <1>7

LEMMA StepReload == IInv /\ [Next]_vars => [Reload!Next]_(Reload!vars)
<1>. SUFFICES ASSUME IInv, [Next]_vars PROVE Reload!Next \/ UNCHANGED Reload!vars
  OBVIOUS
<1>1. CASE phase = "running" /\ \E d \in Desired : Apply(d)
  BY <1>1, ApplyReload DEF Reload!Next, Desired
<1>2. CASE TaskStep
  BY <1>2, ConnectEndsReload, DoneReload DEF TaskStep, Reload!Next
<1>3. CASE UserStep
  BY <1>3, UserReload DEF UserStep, Reload!Next
<1>4. CASE Shutdown
  BY <1>4, ShutdownBeginReload, CloseAllReload DEF Shutdown, ShutdownEnd, ShutdownAtOnce,
     Reload!Next
<1>5. CASE UNCHANGED vars
  BY <1>5 DEF vars, Reload!vars, Connection
<1>. QED  BY <1>1, <1>2, <1>3, <1>4, <1>5 DEF Next

\* Every run of the manager, with its tasks and their late callbacks, is a run of
\* HotReload.
THEOREM ManagerImplementsHotReload == Spec => ImplementsHotReload
<1>. QED  BY InitReload, StepReload, Invariance, PTL DEF Spec, ImplementsHotReload, Reload!Spec
=============================================================================
