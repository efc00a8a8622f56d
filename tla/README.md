# Verification of wecom-forward-plus

TLA+ models of the bridge between WeCom robots and Dify apps, checked with TLC, and
proofs about them checked with TLAPS. Paths are relative to the repository, whose
root is `src/`; the Python sources are `src/src/*.py`.

## The system

One process, one asyncio event loop, one sweeper thread. A *group* pairs a WeCom robot
with a Dify app. In database mode the groups are rows of a SQLite table that the
process re-reads; an admin web UI and operators with SQL write to it.

| Component | State | Operations | Interacts with |
| --- | --- | --- | --- |
| `session_manager.py` `GroupPool` | TTL, cap, `OrderedDict` user → `Session` | `get_or_create`, `reset`, `sweep_expired`, `set_ttl_seconds`, `set_max_total`; each under a lock | the event loop and the sweeper thread |
| `session_manager.py` `SessionManager` | group → pool | `ensure_pool`, `update_pool`, `remove_pool`, sweep | group manager, message handler |
| `config_store.py` `GroupStore` | group → configuration | `get`, `put`, `remove`, `snapshot` | group manager writes, message handler reads |
| `group_manager.py` `GroupManager` | live clients, connect tasks | `apply`, `shutdown`, the connect task's done callback | diff of `db_config.py`, store, pools, WeCom clients |
| `group_manager.py` `reconcile_loop`, `main.py` | where the loop is, the reload event | read, apply, wait, clear; start and stop | repository, group manager, admin API |
| `message_handler.py`, `wecom_client.py` | one coroutine per message | download, session lookup, upload, chat, reply with retries | store, pools, Dify, WeCom |
| `dify_client.py` | one response stream per call | collect events, accumulate | message handler |
| `admin_server.py` groups API, `db_config.py` `GroupRepository` | one SQLite connection | list, insert, update, delete, each an `execute` and a `commit` | reconcile loop (same connection), other programs (same file) |
| `config.py` | - | `load_config` | environment, `main.py` |
| `main.py` | which parts are up, what is left of the stop | start and stop in both modes, exit code | every other part, Ctrl-C |
| `admin_server.py` login | failed-login times, lockout, session tokens | login, session check, logout | admin API |

What is hard here, and what a test would hardly reach: callbacks of connect tasks that
arrive after their group got another client; answers that arrive after a reset or an
eviction; a wakeup lost between a commit and `reload_event.clear()`; the coroutines that
share one SQLite connection; limits and clocks at their edges. `PROJECT.json` lists each hazard at its
line with the properties that cover it.

What makes each component correct, in a sentence:

* a pool never exceeds its cap, evicts the right session, and never revives an expired one;
* the group manager runs what was last applied, leaves no client behind that is connected
  or may still connect (but for one defect, `group_manager_shutdown` below), and keeps
  sessions through every reload their group survives, up to a cap that the reload lowers;
* an admin write does not wait for the interval unless the read that should fetch it
  fails, and the reconcile loop converges on the table;
* a message continues only a conversation of its own user and of the time after the
  last reset, is forwarded with all its files or not at all, and refers to them under the
  key they were uploaded with;
* the answer is the last version of what Dify streamed;
* an answered admin request is decided, and the loop sees what the file holds;
* the configuration is what the variables or the rows say or an error; a process that is up has all
  its parts, stops them in the order of their use, and tells a failure by its exit code;
* failed logins are limited, lockouts have a reason, and invalid tokens stay invalid.

## Modules

| Module | Models | Correspondence |
| --- | --- | --- |
| `GroupPool` | the data structure of `GroupPool` | constant operators on a pool record: `sessions` (a function on the users present), `older` (the order of the `OrderedDict` as a relation), the two limits. `GetOrCreate`, `Reset`, `EvictExpired`, `SetTtlSeconds`, `SetMaxTotal` are the methods |
| `SessionPool` | a pool at work | `clock` and `pool`; one action per method, as each holds the lock for its whole body. `obj` names the `Session` object |
| `SessionPoolProofs` | - | lemmas and theorems about both, and that `SessionPool` implements `SessionCache` |
| `SessionCache` | what a pool promises: a bounded cache with a TTL and least-recent-use eviction | no order is kept; `Open` and `SetCap` leave any `Recent` choice. `SessionPool` implements it |
| `GroupManager` | `GroupManager`, `compute_group_diff`, `GroupStore`, the registry of pools | `Apply(d)` is the whole of `apply` (it never suspends); the n-th client of a group and its connect task are `made[g][n]`, `current` and `tasks` are `_clients` and `_connect_tasks`; `ConnectEnds`, `CancelDelivered` and `Done` are the task and its callback; `shutdown` is split at its `gather`; a pool is its limits and the number of its sessions. A client's `unlisted` is history: its task was pending when another task's callback took it off `_connect_tasks` |
| `HotReload` | what hot reload promises: a configuration, at most one connection and a number of sessions per group | `Reload(d)` is `apply`, without diff, clients, tasks and callbacks. `GroupManager` implements it |
| `GroupManagerProofs` | - | theorems about `GroupManager`, and that it implements `HotReload` |
| `ReconcileLoop` | `reconcile_loop`, the table and its writers, `_run_database` | extends `GroupManager`; `loop` is the place the coroutine is suspended at; an admin handler is its commit (`AdminCommit`) and what follows (`RequestReload`); `unread` is history: whether an admin write is not read yet, and whether the read that should fetch it is due or has failed |
| `ReconcileLoopProofs` | - | extends `GroupManagerProofs`; theorems about the loop, and that it is a run of `GroupManager` |
| `Conversation` | `MessageHandler.handle`, `WeComClient._route*`, `_send_reply` | one record per message with what its handler keeps across awaits; a `Session` object is named by the message that made it, a Dify conversation by the message that opened it; eviction, key rotation and removal of groups happen in between |
| `ConversationProofs` | - | theorems about it |
| `DifyStream` | `send_chat_message`, `accumulate_stream` | events are collected one by one, then passed over (`Accumulated`); an answer is the sequence of its non-empty texts |
| `DifyStreamProofs` | - | theorems about it |
| `AdminApi` | the groups API, `GroupRepository`, the loop's reads | `file` is what is committed, `txn`/`view`/`stale` the state of the shared connection, `req` what each handler knows between two calls |
| `AdminApiProofs` | - | theorems about it |
| `AdminLogin` | `LoginRateLimiter`, the session tokens | `guesses` is history: the times of the wrong passwords compared since the last success; `failures`, those that still count, are places in it |
| `AdminLoginProofs` | - | theorems about it |
| `EnvConfig` | `load_config` | `Scan` is the pass of `_parse_groups` over the indices, the recursive function `Pass` of `ScanIndex`; group names are told apart by the index whose default they are; every other variable is unset, good or bad |
| `GroupTable` | `rows_to_desired` | a pass of `MapRow` over the rows, which are told apart by their name, whether spaces surround it, and whether their fields are good |
| `Process` | `main`, `_run_env`, `_run_database` | extends `EnvConfig` and `GroupTable`; `main` is where the main coroutine is suspended, `todo` what is left of its cleanup; connects, the loop, requests and Ctrl-C happen in between. The parts it starts and stops are one variable each; their inner life is in their own modules, and the clients here are those of the start |
| `ProcessProofs` | - | theorems about `EnvConfig`, `GroupTable` and `Process` |

`MC*` modules add the symmetry sets and the larger constants of the runs; `ReconcileLoop`
and `AdminLogin` are run as they are. Definitions commented `Mutant:` are not
part of any specification: each is a definition with a plausible bug, and some property
of some run fails when it takes the place of the real one.

Outside code is modelled from how `src/` uses it. Python's `sqlite3` begins a deferred
transaction before the first write and keeps it until `commit()`, also when the
statement fails; in WAL mode a transaction reads from the snapshot of its first read,
one connection writes at a time, and writing on an old snapshot fails at once. The
WeCom SDK's calls return or raise. Dify knows a conversation under the app of the key
it was opened with. `asyncio.run` of Python 3.11 and later (the Dockerfile has 3.12) turns
Ctrl-C into a cancellation of the main coroutine. aiohttp's `cleanup()` closes the
listener, then waits for the handlers for a while and cancels the rest.

### Refinements

`Cache` in `SessionPool` maps `pool.ttl_seconds`, `pool.max_total` and `pool.sessions` to
the variables of `SessionCache`; the order `older` is what the mapping forgets.
`ImplementsCache` says that the order only ever decides among choices the cache leaves.

`Reload` in `GroupManager` maps the store to `config`, the registered client and how its
connect ended to `conn` (none, connecting, or up), the number of sessions of a pool to
`talking`.
`ImplementsHotReload` says that whatever tasks are cancelled, fail late and report late,
a reload changes a connection only when the credentials of its group changed, and the
number of sessions only when the group goes or its cap is lowered in place. In that case
`set_max_total` evicts at once, as its docstring says; "live sessions survive"
(`src/README.md:175`) and "sessions are kept" (`SessionManager.update_pool`) hold of the
sessions up to the cap.

## Runs

Instances that must hold:

| Run | Shows | Bounds |
| --- | --- | --- |
| `session_pool` | types, order = age, cap, right evictions, no revival; expired sessions are dropped; it implements `SessionCache` | 3 users, caps 1-3, TTLs 1-2, clock to 5: more users than places, and time for sessions to expire, be touched and expire again |
| `group_manager` | registries agree, no client left behind but by a late callback, runs what was applied, sessions survive up to a lowered cap; it implements `HotReload` | 1 group, 2 credentials, 2 keys, caps 1-2: every kind of change, and a cap below the sessions there are; 3 clients: the late callback of the first unregisters the second, which the third replaces |
| `reconcile_loop` | no wakeup is lost but to a failed read, nothing runs after the stop but what a late callback unregistered, convergence, retries of failed connects | 1 group with 1 configuration that is added, disabled, made invalid and removed; 2 writers between commit and request, 2 clients |
| `conversation` | conversations are private, a reset forgets, all files or none under one key | 3 messages of 2 users, of up to 2 files: an old answer, a reset, a new message; 2 keys; the group removed once |
| `dify_stream` | the answer, the id and the errors of a stream | all responses of up to 3 events, 2 texts, 2 ids |
| `admin_api` | answered requests are decided, names unique | 2 requests of any kind at a time, 2 rows, 2 names, another program on the file; new rows are enabled, PUT bodies are the three shapes of `MCAdminApi`, in which every field is given once and blank once |
| `process` | the configuration is what was written, the groups are what is stored, a process that is up is whole, nothing is used after its end, exit code 0 means a clean stop, it stops when told, it starts or fails | every numbering of 3 indices with names that collide with a default, each other or nothing; all values of 2 settings and the switches in both modes; every table of 2 rows that are bad in each way, disabled, or the same but for spaces; 2 requests in progress |
| `admin_login` | few guesses, lockouts with a reason, no revived token | 3 failures, window 4, lockout 2, clock to 8: two lockouts and all edges |

The scaled clocks keep the order of the code's constants (lockout < window). Runs with
`CHECK_DEADLOCK FALSE` have an end: the process is down, all messages are answered, the
response has ended, or the clock of `admin_login` is at its bound. `MaxClients` bounds the clients ever made for a group; where it
stops the reconcile loop (`Exhausted`) the liveness properties ask nothing. The groups
of one manager share nothing but the pass of `apply()` and of `shutdown()`, so one group
shows what can go wrong within one, and symmetry is used only in runs without liveness.

Instances that are violated, each a disagreement of the code with its documentation
(quoted in `PROJECT.json`, "findings"):

* `group_manager_shutdown` - `_done` unregisters the connect task of a newer client, which
  `shutdown()` then does not cancel. A restart or a removal does not cancel it either: the
  client that was replaced comes up after all, and two clients of the group answer.
  `NoClientLeftBehind` and `NothingRunsWhenDown` say that this is the only way a client is
  left behind.
* `group_manager_limits` - limits changed together with the credentials never reach the pool.
* `group_manager_leak` - a group removed after its connect failed keeps its pool and sessions.
* `admin_api_stuck` - a write that fails with "database is locked", or on a value that SQLite
  cannot store, leaves the connection in a
  transaction; the loop reads one old snapshot for ever.

### Fairness

`SessionPool`: the sweeper is a loop in a daemon thread, so its sweep happens again and
again. `ReconcileLoop`: what is ready runs, timers fire, connects return or raise, and a
table that can be read in every cycle is read in the end (strong fairness of `ReadRows`,
as reads may also fail); writers finish what they began, and nobody has to write.
`AdminApi`: the loop reads every interval and handlers run on. `Process`: the main
coroutine goes on when what it awaits is there, local files answer, `cleanup()` gives up on
handlers after its timeout, and a cancellation is delivered; a connect may hang for ever,
so `StartsOrFails` is about database mode, where nobody awaits one. The other modules
state safety only. Users, admins, other programs and failures are never assumed to act.

## Proofs

`SessionPoolProofs` proves for every finite set of users, every set of positive limits and
every clock bound the type invariant and the safety properties that `session_pool` checks:
`TypeCorrect`, `LruOrderIsByAge`, `CapAlwaysRespected`, `NeverRevives`,
`EvictsTheRightOnes`. The only assumption is `SessionPoolAssumption`.

The state properties are not inductive one by one: the cap after an eviction needs
`Newest(p, n)` to have n elements, which needs `older` to be a strict total order, as the
order of an `OrderedDict` is (`Ordered`); that a touch keeps the order in step with age
needs that no session is younger than the clock. So `Invariance` proves their conjunction. The operators have lemmas of their own
(`KeepWellFormed`, `NewestSize`, `TrimToWellFormed`, `PutLastWellFormed`,
`GetOrCreateWellFormed`, `GetOrCreateEvicts`), each saying that a well-formed pool stays
well formed; `NewestSize`, the cardinality of the suffix of a total order, is the heart of
the argument. `NextIInv` then has one step per action. The action properties follow from
the invariant and the same lemmas.

`PoolImplementsCache`: for the same constants, a pool implements the cache. Each step of the
pool maps to a step of the cache of the same kind; two need an argument: a new session when
the pool is full and a smaller cap, where the suffix of the `OrderedDict` must be a `Recent`
choice. Its size is `NewestSize`, and that it is the most recently used part is the agreement
of order and age, so the proof uses the inductive invariant of `Invariance`.

`GroupManagerProofs` proves, from `GroupManagerAssumption` (the value for "nothing" is none
of the others, caps are positive, and at least one client can be made), the type invariant and every safety
property that `group_manager` checks, for every set of groups, credentials, keys and limits.
`Invariance` needs the type invariant, `LiveIsConfigured`, `NoClientLeftBehind` and
`RunsWhatWasApplied` together, as which registry an entry leaves in `apply` depends on what
the diff finds in the others, and three facts more: `MadeFromConfigs` (a desired group had a
client, and a client that was made has credentials), `ConnectsAreListed` (the pending
connect of a registered client is in `_connect_tasks` unless a late callback took it off, so
that dropping the client cancels it) and `StoppingCancels` (so does `shutdown()`). The parts of a diff exclude one another
(`PartsAreDisjoint`), so `ClientsAfter` and `RegistriesAfter` say per part what a reload
leaves behind; a connect that ends, a cancellation that arrives and a late callback each
only move clients on as the relation `Progress` allows, and `TasksIInv` states the step once
for all of them.
`ManagerImplementsHotReload` maps each step: a reload to a reload, a connect that ends to one
that ends if its client is still registered, everything else about tasks to a stutter. That
only the registered client's end is seen is `ConnectionIsLive`.

`ConversationProofs` proves, from `ConversationAssumption`, the type invariant and the three
safety properties of `conversation`, for any number of messages in flight. Privacy is not
inductive: an answer comes back into a session object that may have been evicted, reset or
dropped long ago, so one must know whom every object speaks for, not only those in the
pools. `IInv` says so by `Speaks`: the session and the conversation a handler has, the session
of an account and the conversation of a session are those of messages of the same account
and of the same time (`forgets`). A reset only raises the time of accounts without a session
(`SessionsGo`), and an answer leaves with the conversation it was sent or one of its own
(`ChatReturnsIInv`). `Coherent` is what a handler's record says at each of its awaits, which
`FilesGoTogether` needs.

`ReconcileLoopProofs` adds no assumption. Whatever the loop, its writers and the tasks do is one
step of the manager or none (`StepOfManager`): the loop only applies what rows ask for, which is
a desired state (`RowsGiveDesired`), and it has stopped before `shutdown()` begins. So
`LoopImplementsManager`, and with it every theorem about the manager, `HotReload` included,
holds of the loop (`LoopImplementsHotReload`, `LoopKeepsTheManagersInvariants`).
`NoWakeupIsLost` is not inductive where the loop waits: a write must not be lost between the
loop's read and its wait either, which `ReloadIsComing` adds: a new write has its event or
its writer still to come, and once the event was cleared the loop is at the read that is due.
`NothingRunsAfterShutdown` needs that the loop was cancelled first (`LoopIsInOrder`), that no
client is registered after `shutdown()` (`DownHasNoClient`), and the manager's
`NoClientLeftBehind` for the clients that are not.

`AdminLoginProofs` proves, from `AdminLoginAssumption` (positive limits, and the lockout no longer
than the window, as in the code), the three invariants and `NoTokenRevives`. That few guesses fit
into one window is not inductive: failures are forgotten when they are old, on a lockout and on a
success, and one must know that a guess that counts no more is forgotten for one of these reasons
(`ForgottenForAReason`). Failures are named by their place in `guesses` so that the two can be
compared even when several fall on one tick. `LoginWrongIInv` is the heart: the guesses of a window
that ends now are among the failures that count, and there are fewer of those than
`MaxFailures`.

`AdminApiProofs` proves, from `AdminApiAssumption` (the values for "nothing" are none of the
others), the type invariant, `AnswersAreDecided` and `NamesStayUnique`, with or without another
program on the file. `IInv` is `TablesOK` (names are unique in the file and in the transaction's
view of it), `ConnectionOK` (SQLite's lock: there is one writer, and the view differs from the file
only after a write or when the snapshot is old) and `RequestsOK` (`Coherent`, what a handler knows
at each of its awaits, and the answered requests).

`ProcessProofs` proves, from the assumptions of `EnvConfig`, `GroupTable` and `Process` (the values
for an error or "nothing" are no configuration and no list of groups; tables have unique names),
all six properties that `process` checks at every step, for any number of indices, rows, groups
and requests. `LoadConfigIs` and `RowsToDesiredIs` say what the two passes make of every
environment and every table, by induction over how far the pass has come. `IInv` says where the
process can be: before or after a refused configuration, in environment mode, or in database
mode in one of `Opening`, `Serving`, `Failed`, `Stopping` and `Gone`. `Stopping` relates what is
left of the stop, a suffix of `StopOrder`, to what is closed already; with it,
`StopsInOrder` and `ExitCodesAreRight` follow.

`DifyStreamProofs` proves, from `DifyStreamAssumption`, what the answer, the conversation id and an
error are, for a response of any number of events and texts. `PassSays` says it of the first n
events: the answer is the texts since it was last started anew, the id the last that came.
`MoreText` is the lemma about one more event.

`ProcessProofs` and `DifyStreamProofs` need induction over how far a pass has come. The induction
theorems of the library take an operator, which these provers cannot instantiate; so the claim is
a set of numbers, and `SetInduction` derives from `WFMin` and `NatLessThanWellFounded`, that the
naturals have no number outside a set that contains 0 and every successor: the
least one outside would have a predecessor inside. The passes are recursive functions, and that
there is a function with the recursion's equation is proved first, by the same induction
(`PassExists`, `RowPassExists`).

Proving changed the models where they could not be reasoned about, and once where a property
said too little. `LastIdWins` held of a result without an id whatever the events were; it now says
that there is none only if no event had one. `ScanIndex` and `MapRow` were `CASE` expressions whose
guards overlapped, so that the definition left the choice open which the code's order of checks
makes; they are `IF` chains in that order. `AdminApiAssumption` did not say that the blank value is no
kind of request.

Only model-checked: the liveness properties `ExpiredAreDropped`, `Converges`, `FailedIsRetried`,
`StopsWhenTold` and `StartsOrFails`, as fairness and `ENABLED` are out of the prover's reach, and
the four violations. Every other property of a run is a theorem.

## Not modelled

* Two clock reads within one `get_or_create` or one login count as one.
* The sweeper's list of pools may contain one that was just removed; sweeping it is unseen.
* `ReconcileLoop` leaves out the sessions (they are in `GroupManager`), and a rename, which
  changes two names in one commit. Its rows are valid or not; `GroupTable` has the rules.
* Message texts, media kinds, the wording of replies; empty messages, which are dropped.
* That a 409 leaves SQLite's write lock held until a later admin write commits is in the
  model (`WriteRefused`), but no property speaks of the other programs it locks out.
* That every message ends: handlers await calls that have timeouts and retry a bounded
  number of times; `Conversation` has these steps and states no liveness.
* `list_rows` counts as one call, `commit()` never fails, validation answers are left out.
* `Process`: SIGTERM and kill, a second Ctrl-C, groups that the loop starts later (a
  connect that `shutdown()` misses is `group_manager_shutdown`'s subject), parts of the
  cleanup that raise in database mode.
* `EnvConfig`: reset keywords, paths and addresses, the floor of the reload interval; indices
  beyond `_MAX_GROUP_INDEX` are ignored by the code and do not exist in the model.
* A PUT writes back values that another request may have changed since it listed the row:
  the interleaving is in `AdminApi`, no property speaks of it.
* The shared aiohttp session of `DifyClient`, the web page, logging, packaging.

## Plan

1. Done: `GroupPool`/`SessionPool` with proofs, `GroupManager`, `ReconcileLoop`,
   `Conversation`, `DifyStream`, `AdminApi`, `AdminLogin`, `EnvConfig`/`GroupTable`/`Process`; the abstract
   specifications `SessionCache` and `HotReload`; the type invariant, every safety
   and action property and both implementations proved.
2. `Conversation` over `SessionPool`'s pools, so that eviction follows the LRU order instead
   of happening at any moment.
3. `ReconcileLoop` with the connection of `AdminApi` instead of an always consistent table;
   failing commits and `list_rows` in its several calls; renames.
4. Proofs of what a step of one component means for another: that the environments and tables
   `Process` starts with give what `GroupManager` and `ReconcileLoop` take as desired states, and
   that a request of `AdminApi` that is answered is a commit of `ReconcileLoop`.
