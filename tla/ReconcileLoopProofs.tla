------------------------- MODULE ReconcileLoopProofs -------------------------
(***************************************************************************)
(* The reconcile loop of ReconcileLoop with its writers, for every set of  *)
(* groups and configurations and any number of writers: the loop over the  *)
(* table is a run of the manager of GroupManager, so that all theorems of  *)
(* GroupManagerProofs hold of it; it misses no reload; and when it is      *)
(* stopped it leaves nothing behind but what a late callback unregistered. *)
(***************************************************************************)
EXTENDS ReconcileLoop, GroupManagerProofs

\* What the loop reads is a table, and it was cancelled before shutdown() began.
LoopIsInOrder ==
    /\ db \in Tables /\ snapshot \in Tables
    /\ writers \in Nat
    /\ phase # "running" => loop = "stopped"

\* NoLostWakeup, wherever the loop is: the event is set, or will be, as long as it was not
\* cleared after the last write; once it was, the loop is at the read that is due.
ReloadIsComing ==
    /\ unread \in Unread
    /\ unread = "new" => reload_event \/ writers > 0
    /\ unread = "due" => loop \in {"reading", "stopped"}

\* After shutdown() no client is registered.
DownHasNoClient == phase = "down" => \A g \in Groups : current[g] = 0

LoopIInv == LoopIsInOrder /\ ReloadIsComing /\ DownHasNoClient

-----------------------------------------------------------------------------
\* What the rows of a table ask for is a desired state.
LEMMA RowsGiveDesired == ASSUME NEW rows \in Tables PROVE RowsToDesired(rows) \in Desired
<1>1. \A g \in Groups : rows[g] # Absent => rows[g].config \in Configs
  BY DEF Tables, Rows
<1>. QED  BY <1>1 DEF RowsToDesired, Desired

\* One changed row.
LEMMA OneRowChanged ==
    ASSUME NEW rows \in Tables, NEW g \in Groups, NEW row \in Rows \cup {Absent}
    PROVE  [rows EXCEPT ![g] = row] \in Tables
BY DEF Tables

\* Whatever the loop, the writers and the tasks do is, for the manager, one of its own
\* steps or none; shutdown() comes after the loop only.
LEMMA StepOfManager ==
    ASSUME LoopIInv, [LoopNext]_<<vars, loopVars>>
    PROVE  [Next]_vars
<1>1. CASE ApplyRows
  <2>1. phase = "running" /\ RowsToDesired(snapshot) \in Desired
    BY <1>1, RowsGiveDesired DEF ApplyRows, LoopIInv, LoopIsInOrder
  <2>2. Apply(RowsToDesired(snapshot)) \/ UNCHANGED vars
    BY <1>1 DEF ApplyRows
  <2>. QED  BY <2>1, <2>2 DEF Next
<1>2. CASE ReadRows \/ ReadFails \/ WakeByReload \/ WakeByTimeout \/ ClearReload \/ CancelLoop
  BY <1>2 DEF ReadRows, ReadFails, WakeByReload, WakeByTimeout, ClearReload, CancelLoop
<1>3. CASE WriterStep
  BY <1>3 DEF WriterStep, RequestReload, AdminCommit, SqlWrite
<1>4. CASE ManagerStep
  BY <1>4 DEF ManagerStep, Next
<1>5. CASE UNCHANGED <<vars, loopVars>>
  BY <1>5
<1>. QED  BY <1>1, <1>2, <1>3, <1>4, <1>5 DEF LoopNext, LoopStep

\* Only shutdown() changes the phase, and nothing registers a client after it.
LEMMA PhaseOfManager ==
    ASSUME IInv, DownHasNoClient, [Next]_vars
    PROVE  /\ DownHasNoClient'
           /\ phase' # phase => Shutdown
<1>0. current \in [Groups -> 0..MaxClients]
  BY DEF IInv, TypeOK
<1>1. CASE phase = "running" /\ \E d \in Desired : Apply(d)
  BY <1>1 DEF Apply, DownHasNoClient
<1>2. CASE TaskStep
  <2>1. PICK g \in Groups, n \in Numbers :
           ConnectEnds(g, n) \/ CancelDelivered(g, n) \/ Done(g, n)
    BY <1>2 DEF TaskStep
  <2>2. phase' = phase
    BY <2>1 DEF ConnectEnds, CancelDelivered, Done
  <2>3. \A h \in Groups : current'[h] \in {0, current[h]}
    BY <1>0, <2>1 DEF ConnectEnds, CancelDelivered, Done
  <2>. QED  BY <2>2, <2>3 DEF DownHasNoClient
<1>3. CASE UserStep
  BY <1>3 DEF UserStep, Message, SessionsGone, DownHasNoClient
<1>4. CASE Shutdown
  BY <1>4 DEF Shutdown, ShutdownBegin, ShutdownEnd, ShutdownAtOnce, CloseAll, DownHasNoClient
<1>5. CASE UNCHANGED vars
  BY <1>5 DEF vars, DownHasNoClient
<1>. QED  BY <1>1, <1>2, <1>3, <1>4, <1>5 DEF Next

\* The loop starts with the table it was started from.
LEMMA InitLoopIInv == LoopInit => LoopIInv
BY DEF LoopInit, Init, LoopIInv, LoopIsInOrder, ReloadIsComing, Unread, DownHasNoClient

\* A step of the loop.
LEMMA LoopStepIInv ==
    ASSUME LoopIInv, LoopStep, phase' = phase
    PROVE  LoopIsInOrder' /\ ReloadIsComing'
<1>1. db' = db /\ writers' = writers /\ snapshot' \in {snapshot, db}
  BY DEF LoopStep, ReadRows, ReadFails, ApplyRows, WakeByReload, WakeByTimeout, ClearReload,
         CancelLoop
<1>2. loop # "stopped"
  BY DEF LoopStep, ReadRows, ReadFails, ApplyRows, WakeByReload, WakeByTimeout, ClearReload,
         CancelLoop
<1>3. LoopIsInOrder'
  BY <1>1, <1>2 DEF LoopIInv, LoopIsInOrder
<1>4. ReloadIsComing'
  <2>1. CASE ReadRows \/ ReadFails
    BY <2>1 DEF ReadRows, ReadFails, LoopIInv, ReloadIsComing, Unread
  <2>2. CASE ApplyRows
    BY <1>1, <2>2 DEF ApplyRows, LoopIInv, ReloadIsComing
  <2>3. CASE WakeByReload \/ WakeByTimeout \/ ClearReload \/ CancelLoop
    BY <2>3 DEF WakeByReload, WakeByTimeout, ClearReload, CancelLoop, LoopIInv, ReloadIsComing,
                Unread
  <2>. QED  BY <2>1, <2>2, <2>3 DEF LoopStep
<1>. QED  BY <1>3, <1>4

\* A step of a writer: the reload that its commit calls for is its own to ask for.
LEMMA WriterStepIInv ==
    ASSUME LoopIInv, WriterStep, phase' = phase
    PROVE  LoopIsInOrder' /\ ReloadIsComing'
<1>0. db \in Tables /\ writers \in Nat
  BY DEF LoopIInv, LoopIsInOrder
<1>1. CASE RequestReload
  BY <1>0, <1>1 DEF RequestReload, LoopIInv, LoopIsInOrder, ReloadIsComing
<1>2. ASSUME NEW g \in Groups, NEW row \in Rows \cup {Absent}, AdminCommit(g, row)
      PROVE  LoopIsInOrder' /\ ReloadIsComing'
  <2>1. db' \in Tables
    BY <1>0, <1>2, OneRowChanged DEF AdminCommit
  <2>. QED  BY <1>0, <1>2, <2>1 DEF AdminCommit, LoopIInv, LoopIsInOrder, ReloadIsComing, Unread
<1>3. ASSUME NEW g \in Groups, NEW row \in Rows \cup {Absent}, SqlWrite(g, row)
      PROVE  LoopIsInOrder' /\ ReloadIsComing'
  <2>1. db' \in Tables
    BY <1>0, <1>3, OneRowChanged DEF SqlWrite
  <2>. QED  BY <1>3, <2>1 DEF SqlWrite, LoopIInv, LoopIsInOrder, ReloadIsComing
<1>. QED  BY <1>1, <1>2, <1>3 DEF WriterStep

\* One step of anyone.
LEMMA LoopNextIInv ==
    ASSUME IInv, LoopIInv, [LoopNext]_<<vars, loopVars>>
    PROVE  LoopIInv'
<1>1. DownHasNoClient' /\ (phase' # phase => Shutdown)
  BY StepOfManager, PhaseOfManager DEF LoopIInv
<1>2. CASE LoopStep
  <2>1. phase' = phase
    BY <1>2 DEF LoopStep, ReadRows, ReadFails, ApplyRows, WakeByReload, WakeByTimeout,
                ClearReload, CancelLoop, vars, Apply
  <2>. QED  BY <1>1, <1>2, <2>1, LoopStepIInv DEF LoopIInv
<1>3. CASE WriterStep
  <2>1. phase' = phase
    BY <1>3 DEF WriterStep, RequestReload, AdminCommit, SqlWrite, vars
  <2>. QED  BY <1>1, <1>3, <2>1, WriterStepIInv DEF LoopIInv
<1>4. CASE ManagerStep
  <2>1. UNCHANGED <<db, loop, snapshot, reload_event, writers, unread>>
    BY <1>4 DEF ManagerStep, loopVars
  <2>2. phase' = phase \/ loop = "stopped"
    <3>1. CASE TaskStep
      BY <3>1 DEF TaskStep, ConnectEnds, CancelDelivered, Done
    <3>2. CASE loop = "stopped"
      BY <3>2
    <3>. QED  BY <1>4, <3>1, <3>2 DEF ManagerStep
  <2>. QED  BY <1>1, <2>1, <2>2 DEF LoopIInv, LoopIsInOrder, ReloadIsComing
<1>5. CASE UNCHANGED <<vars, loopVars>>
  BY <1>1, <1>5 DEF vars, loopVars, LoopIInv, LoopIsInOrder, ReloadIsComing
<1>. QED  BY <1>2, <1>3, <1>4, <1>5 DEF LoopNext

-----------------------------------------------------------------------------
\* The inductive invariant: that of the manager, and that of the loop.
THEOREM LoopInvariance == LoopSpec => [](IInv /\ LoopIInv)
<1>1. LoopInit => IInv /\ LoopIInv
  BY InitIInv, InitLoopIInv DEF LoopInit
<1>2. IInv /\ LoopIInv /\ [LoopNext]_<<vars, loopVars>> => IInv' /\ LoopIInv'
  BY StepOfManager, NextIInv, LoopNextIInv
<1>. QED  BY <1>1, <1>2, PTL DEF LoopSpec

\* The loop over the table is a run of the manager: it applies desired states only, one
\* at a time, and never after shutdown() began.
THEOREM LoopImplementsManager == LoopSpec => Spec
<1>1. LoopInit => Init
  BY DEF LoopInit
<1>2. LoopIInv /\ [LoopNext]_<<vars, loopVars>> => [Next]_vars
  BY StepOfManager
<1>. QED  BY <1>1, <1>2, LoopInvariance, PTL DEF LoopSpec, Spec

\* So is all that was proved of the manager: what runs with the loop is HotReload ...
THEOREM LoopImplementsHotReload == LoopSpec => ImplementsHotReload
BY LoopImplementsManager, ManagerImplementsHotReload

\* ... no client is left behind but those whose pending tasks a late callback unregistered,
\* what runs is what was applied last, and the registries agree.
THEOREM LoopKeepsTheManagersInvariants ==
    LoopSpec => [](NoClientLeftBehind /\ RunsWhatWasApplied /\ LiveIsConfigured)
<1>1. IInv => NoClientLeftBehind /\ RunsWhatWasApplied /\ LiveIsConfigured
  BY DEF IInv
<1>. QED  BY <1>1, LoopInvariance, PTL

\* The loop does not sleep on a clear event while a write of the admin UI is not read,
\* unless the writer that will set it has not gone on, or a read that began after the
\* write's reload was honored has failed.
THEOREM NoWakeupIsLost == LoopSpec => []NoLostWakeup
<1>1. LoopIInv => NoLostWakeup
  BY DEF LoopIInv, ReloadIsComing, Unread, NoLostWakeup
<1>. QED  BY <1>1, LoopInvariance, PTL

\* Once shutdown() is over no client is registered, and none is connected or may still
\* connect, but for those whose pending tasks a late callback had unregistered.
THEOREM NothingRunsAfterShutdown == LoopSpec => []NothingRunsWhenDown
<1>1. IInv /\ LoopIInv => NothingRunsWhenDown
  <2>. SUFFICES ASSUME IInv, LoopIInv, phase = "down", NEW g \in Groups
                PROVE  /\ g \notin Live
                       /\ \A n \in Numbers : MayAnswer(made[g][n]) => made[g][n].unlisted
    BY DEF NothingRunsWhenDown
  <2>1. current[g] = 0
    BY DEF LoopIInv, DownHasNoClient
  <2>2. \A n \in Numbers : n # current[g]
    BY <2>1, GroupManagerAssumption DEF Numbers
  <2>. QED  BY <2>1, <2>2 DEF Live, IInv, NoClientLeftBehind
<1>. QED  BY <1>1, LoopInvariance, PTL
=============================================================================
