------------------------------ MODULE AdminLogin ------------------------------
(***************************************************************************)
(* Logging in to the admin UI (src/admin_server.py): the global limiter of *)
(* failed logins and the in-memory session tokens.  A login handler awaits *)
(* its body first; from the limiter's check on it has no await, so it is   *)
(* one action.  Reading the clock twice in a handler counts as once.       *)
(***************************************************************************)
EXTENDS Naturals, Sequences, Functions, FiniteSets

CONSTANTS
    Tokens,         \* what secrets.token_urlsafe may return: never the same twice
    MaxFailures,    \* _LOGIN_MAX_FAILURES
    Window,         \* _LOGIN_WINDOW_SECONDS
    Lockout,        \* _LOGIN_LOCKOUT_SECONDS
    SessionTtl,     \* _SESSION_TTL_SECONDS
    MaxTime         \* bound on the clock

ASSUME AdminLoginAssumption ==
    /\ {MaxFailures, Window, Lockout, SessionTtl} \subseteq Nat \ {0}
    /\ Lockout <= Window
    /\ MaxTime \in Nat

VARIABLES
    clock,          \* time.monotonic()
    failures,       \* _failures: the failed logins that still count, by their place in
                    \* `guesses`
    lockout_until,  \* _lockout_until
    sessions,       \* _sessions: token |-> expiry
    issued,         \* the tokens given out so far
    guesses         \* the times of all wrong passwords compared since the last success

vars == <<clock, failures, lockout_until, sessions, issued, guesses>>

Blocked == clock < lockout_until

Tick ==
    /\ clock < MaxTime
    /\ clock' = clock + 1
    /\ UNCHANGED <<failures, lockout_until, sessions, issued, guesses>>

\* Mutant: old failures are never forgotten.
PruneNothing(numbers, times) == numbers

\* What of a list of failures is within the window; `times` has when each was.
Prune(numbers, times) == {n \in numbers : clock - times[n] < Window}

\* The failures with one more, now.
Counted == Prune(failures \cup {Len(guesses) + 1}, Append(guesses, clock))

\* Mutant: one failure too many.
RecordFailureLate ==
    IF Cardinality(Counted) > MaxFailures
    THEN failures' = {} /\ lockout_until' = clock + Lockout
    ELSE failures' = Counted /\ UNCHANGED lockout_until

\* Mutant: the failures that led to a lockout keep counting.
RecordFailureKeeps ==
    /\ failures' = Counted
    /\ lockout_until' =
         IF Cardinality(Counted) >= MaxFailures THEN clock + Lockout ELSE lockout_until

RecordFailure ==
    IF Cardinality(Counted) >= MaxFailures
    THEN failures' = {} /\ lockout_until' = clock + Lockout
    ELSE failures' = Counted /\ UNCHANGED lockout_until

\* While blocked even the right password is answered 429, uncompared.
LoginWrong ==
    /\ ~ Blocked
    /\ RecordFailure
    /\ guesses' = Append(guesses, clock)
    /\ UNCHANGED <<clock, sessions, issued>>

Login(token) ==
    /\ ~ Blocked
    /\ token \notin issued
    /\ failures' = {}
    /\ lockout_until' = 0
    /\ sessions' = [t \in DOMAIN sessions \cup {token} |->
                      IF t = token THEN clock + SessionTtl ELSE sessions[t]]
    /\ issued' = issued \cup {token}
    /\ guesses' = << >>
    /\ UNCHANGED clock

Valid(token) == token \in DOMAIN sessions /\ clock < sessions[token]

\* Mutant: a request prolongs its session, expired or not.
RequestProlongs(token) ==
    /\ token \in DOMAIN sessions
    /\ sessions' = [sessions EXCEPT ![token] = clock + SessionTtl]
    /\ UNCHANGED <<clock, failures, lockout_until, issued, guesses>>

\* A request with an expired token removes it, and is answered 401.
Request(token) ==
    /\ token \in DOMAIN sessions
    /\ ~ Valid(token)
    /\ sessions' = Restrict(sessions, DOMAIN sessions \ {token})
    /\ UNCHANGED <<clock, failures, lockout_until, issued, guesses>>

\* The logout route is behind the session check.
Logout(token) ==
    /\ Valid(token)
    /\ sessions' = Restrict(sessions, DOMAIN sessions \ {token})
    /\ UNCHANGED <<clock, failures, lockout_until, issued, guesses>>

Init ==
    /\ clock = 0
    /\ failures = {}
    /\ lockout_until = 0
    /\ sessions = << >>
    /\ issued = {}
    /\ guesses = << >>

Next ==
    \/ Tick
    \/ LoginWrong
    \/ \E token \in Tokens : Login(token) \/ Request(token) \/ Logout(token)

Spec == Init /\ [][Next]_vars

-----------------------------------------------------------------------------
\* How many wrong passwords were compared from time t on, for n time units.
GuessesDuring(t, n) == Cardinality({i \in DOMAIN guesses : guesses[i] \in t..(t + n - 1)})

\* The counter stays below its limit and holds only failures that count.
TypeOK ==
    /\ clock \in 0..MaxTime
    /\ guesses \in Seq(0..clock)
    /\ failures \subseteq DOMAIN guesses
    /\ Cardinality(failures) < MaxFailures
    /\ lockout_until \in 0..(MaxTime + Lockout)
    /\ DOMAIN sessions \subseteq issued
    /\ \A token \in DOMAIN sessions : sessions[token] \in 0..(MaxTime + SessionTtl)
    /\ issued \subseteq Tokens

\* "5 failures per 10 minutes -> 60s lockout": no more than MaxFailures passwords can
\* be tried within any lockout period, however they are spread around its start.
FewGuesses == \A t \in 0..clock : GuessesDuring(t, Lockout) <= MaxFailures

\* A lockout always had its reason: MaxFailures failures within one window, the last
\* of which began it.  Failures further apart never add up.
LockoutHasReason ==
    Blocked =>
        /\ guesses # << >>
        /\ lockout_until = guesses[Len(guesses)] + Lockout
        /\ \E t \in 0..clock : GuessesDuring(t, Window) >= MaxFailures

\* "8h expiry": a token that was issued and is not valid is never valid again.
NoTokenRevives ==
    [][ \A token \in issued : Valid(token)' => Valid(token) ]_vars
=============================================================================
