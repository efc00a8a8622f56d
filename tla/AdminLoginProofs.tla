--------------------------- MODULE AdminLoginProofs ---------------------------
(***************************************************************************)
(* The login limiter and the session tokens of AdminLogin, for every limit,*)
(* window, lockout and set of tokens.                                      *)
(***************************************************************************)
EXTENDS AdminLogin, SequenceTheorems, FiniteSetTheorems, TLAPS

\* A wrong password that does not count as a failure any more fell out of the window or
\* led to, or came before, the last lockout.
ForgottenForAReason ==
    \A n \in DOMAIN guesses \ failures :
        guesses[n] + Window <= clock \/ guesses[n] + Lockout <= lockout_until

IInv ==
    /\ TypeOK
    /\ ForgottenForAReason
    /\ FewGuesses
    /\ LockoutHasReason

-----------------------------------------------------------------------------
\* The wrong passwords from time t on, for n time units.
During(times, t, n) == {i \in DOMAIN times : times[i] \in t..(t + n - 1)}

LEMMA GuessesAre ==
    \A t, n : /\ GuessesDuring(t, n) = Cardinality(During(guesses, t, n))
             /\ GuessesDuring(t, n)' = Cardinality(During(guesses', t, n))
BY DEF GuessesDuring, During

LEMMA SubsetSize ==
    ASSUME NEW S, NEW T, IsFiniteSet(T), S \subseteq T
    PROVE  IsFiniteSet(S) /\ Cardinality(S) \in Nat /\ Cardinality(T) \in Nat
           /\ Cardinality(S) <= Cardinality(T)
BY FS_Subset, FS_CardinalityType

LEMMA OneMoreSize ==
    ASSUME NEW S, NEW x, NEW T, IsFiniteSet(S), T \subseteq S \cup {x}
    PROVE  IsFiniteSet(T) /\ Cardinality(T) \in Nat /\ Cardinality(S) \in Nat
           /\ Cardinality(T) <= Cardinality(S) + 1
<1>. DEFINE U == S \cup {x}
<1>1. IsFiniteSet(U) /\ Cardinality(U) = IF x \in S THEN Cardinality(S) ELSE Cardinality(S) + 1
  BY FS_AddElement
<1>. HIDE DEF U
<1>2. Cardinality(S) \in Nat
  BY FS_CardinalityType
<1>3. IsFiniteSet(T) /\ Cardinality(T) \in Nat /\ Cardinality(T) <= Cardinality(U)
  BY <1>1, SubsetSize DEF U
<1>4. Cardinality(U) <= Cardinality(S) + 1
  BY <1>1, <1>2
<1>5. Cardinality(U) \in Nat
  BY <1>1, FS_CardinalityType
<1>. QED  BY <1>2, <1>3, <1>4, <1>5

SessionsTyped ==
    /\ DOMAIN sessions \subseteq issued /\ issued \subseteq Tokens
    /\ \A token \in DOMAIN sessions : sessions[token] \in 0..(MaxTime + SessionTtl)

\* All that is assumed of the constants, and what a state of IInv is.
LEMMA Types ==
    ASSUME IInv
    PROVE  /\ MaxFailures \in Nat /\ MaxFailures >= 1
           /\ Window \in Nat /\ Lockout \in Nat /\ Lockout >= 1 /\ SessionTtl \in Nat
           /\ Lockout <= Window
           /\ clock \in Nat /\ lockout_until \in Nat /\ Len(guesses) \in Nat
           /\ guesses \in Seq(0..clock)
           /\ DOMAIN guesses = 1..Len(guesses)
           /\ \A n \in DOMAIN guesses : guesses[n] \in Nat /\ guesses[n] <= clock
           /\ IsFiniteSet(failures) /\ Cardinality(failures) \in Nat
           /\ Cardinality(failures) < MaxFailures
           /\ failures \subseteq DOMAIN guesses
<1>1. guesses \in Seq(0..clock) /\ clock \in 0..MaxTime /\ failures \subseteq DOMAIN guesses
      /\ lockout_until \in 0..(MaxTime + Lockout) /\ Cardinality(failures) < MaxFailures
  BY DEF IInv, TypeOK
<1>2. DOMAIN guesses = 1..Len(guesses) /\ Len(guesses) \in Nat
  BY <1>1, LenProperties
<1>3. IsFiniteSet(failures) /\ Cardinality(failures) \in Nat
  <2>1. IsFiniteSet(1..Len(guesses)) /\ failures \subseteq 1..Len(guesses)
    BY <1>1, <1>2, FS_Interval
  <2>. QED  BY <2>1, SubsetSize
<1>4. \A n \in DOMAIN guesses : guesses[n] \in 0..clock
  BY <1>1
<1>. QED  BY <1>1, <1>2, <1>3, <1>4, AdminLoginAssumption

LEMMA InitIInv == Init => IInv
<1>. SUFFICES ASSUME Init PROVE IInv
  OBVIOUS
<1>1. /\ clock = 0 /\ failures = {} /\ lockout_until = 0 /\ sessions = << >>
      /\ issued = {} /\ guesses = << >> /\ DOMAIN guesses = {}
  BY DEF Init
<1>2. Cardinality({}) = 0
  BY FS_EmptySet
<1>3. TypeOK
  BY <1>1, <1>2, AdminLoginAssumption DEF TypeOK
<1>4. FewGuesses
  <2>. SUFFICES ASSUME NEW t \in 0..clock PROVE GuessesDuring(t, Lockout) <= MaxFailures
    BY DEF FewGuesses
  <2>1. {i \in DOMAIN guesses : guesses[i] \in t..(t + Lockout - 1)} = {}
    BY <1>1
  <2>. QED  BY <2>1, <1>2, AdminLoginAssumption DEF GuessesDuring
<1>. QED  BY <1>1, <1>3, <1>4 DEF IInv, ForgottenForAReason, LockoutHasReason, Blocked

\* Time goes on: nothing comes back into the window, and the lockout ends.
LEMMA TickIInv == ASSUME IInv, Tick PROVE IInv'
<1>0. /\ clock' = clock + 1 /\ clock' \in 0..MaxTime
      /\ UNCHANGED <<failures, lockout_until, sessions, issued, guesses>>
  <2>1. clock \in 0..MaxTime /\ clock < MaxTime /\ clock' = clock + 1
    BY DEF Tick, IInv, TypeOK
  <2>. QED  BY <2>1, AdminLoginAssumption DEF Tick
<1>1. TypeOK'
  <2>1. 0..clock \subseteq 0..clock'
    BY <1>0, Types
  <2>2. guesses' \in Seq(0..clock')
    BY <1>0, <2>1, Types, SeqMonotonic
  <2>. QED  BY <1>0, <2>2 DEF IInv, TypeOK
<1>2. ForgottenForAReason'
  <2>. SUFFICES ASSUME NEW n \in DOMAIN guesses \ failures
                PROVE guesses[n] + Window <= clock' \/ guesses[n] + Lockout <= lockout_until
    BY <1>0 DEF ForgottenForAReason
  <2>. QED  BY <1>0, Types DEF IInv, ForgottenForAReason
<1>3. FewGuesses'
  <2>. SUFFICES ASSUME NEW t \in 0..clock' PROVE GuessesDuring(t, Lockout) <= MaxFailures
    BY <1>0 DEF FewGuesses, GuessesDuring
  <2>1. CASE t \in 0..clock
    BY <2>1 DEF IInv, FewGuesses
  <2>2. CASE t \notin 0..clock
    <3>1. t = clock + 1
      BY <1>0, <2>2, Types
    <3>2. During(guesses, t, Lockout) = {}
      <4>1. \A i \in DOMAIN guesses : guesses[i] \in Nat /\ guesses[i] < t
        BY <3>1, Types
      <4>. QED  BY <4>1 DEF During
    <3>3. GuessesDuring(t, Lockout) = 0
      BY <3>2, FS_EmptySet, GuessesAre
    <3>. QED  BY <3>3, Types
  <2>. QED  BY <2>1, <2>2
<1>4. LockoutHasReason'
  <2>. SUFFICES ASSUME clock' < lockout_until
                PROVE  /\ guesses # << >>
                       /\ lockout_until = guesses[Len(guesses)] + Lockout
                       /\ \E t \in 0..clock' : GuessesDuring(t, Window) >= MaxFailures
    BY <1>0 DEF LockoutHasReason, Blocked, GuessesDuring
  <2>1. Blocked
    BY <1>0, Types DEF Blocked
  <2>2. 0..clock \subseteq 0..clock'
    BY <1>0, Types
  <2>. QED  BY <2>1, <2>2 DEF IInv, LockoutHasReason
<1>. QED  BY <1>1, <1>2, <1>3, <1>4 DEF IInv

-----------------------------------------------------------------------------
\* One more wrong password, now.
LEMMA OneMore ==
    ASSUME IInv, guesses' = Append(guesses, clock)
    PROVE  /\ guesses' \in Seq(0..clock)
           /\ Len(guesses') = Len(guesses) + 1
           /\ DOMAIN guesses' = DOMAIN guesses \cup {Len(guesses) + 1}
           /\ \A n \in DOMAIN guesses : guesses'[n] = guesses[n]
           /\ guesses'[Len(guesses) + 1] = clock
<1>1. guesses \in Seq(0..clock) /\ clock \in 0..clock /\ Len(guesses) \in Nat
      /\ DOMAIN guesses = 1..Len(guesses)
  BY Types
<1>2. /\ guesses' \in Seq(0..clock)
      /\ Len(guesses') = Len(guesses) + 1
      /\ \A n \in 1..Len(guesses) : guesses'[n] = guesses[n]
      /\ guesses'[Len(guesses) + 1] = clock
  BY <1>1, AppendProperties
<1>3. DOMAIN guesses' = 1..(Len(guesses) + 1)
  BY <1>2, LenProperties
<1>. QED  BY <1>1, <1>2, <1>3

\* Whatever still counts after that was a failure before, or is that one; whatever does
\* not count is too old.
LEMMA CountedIs ==
    ASSUME IInv, guesses' = Append(guesses, clock)
    PROVE  /\ Counted \subseteq failures \cup {Len(guesses) + 1}
           /\ Len(guesses) + 1 \in Counted
           /\ Counted \subseteq DOMAIN guesses'
           /\ \A n \in Counted : clock - guesses'[n] < Window
           /\ \A n \in failures \ Counted : guesses[n] + Window <= clock
           /\ IsFiniteSet(Counted) /\ Cardinality(Counted) \in Nat
           /\ Cardinality(Counted) <= Cardinality(failures) + 1
<1>1. /\ DOMAIN guesses' = DOMAIN guesses \cup {Len(guesses) + 1}
      /\ \A n \in DOMAIN guesses : guesses'[n] = guesses[n]
      /\ guesses'[Len(guesses) + 1] = clock
  BY OneMore
<1>2. Counted = {n \in failures \cup {Len(guesses) + 1} : clock - guesses'[n] < Window}
  BY DEF Counted, Prune
<1>4. Window >= 1
  BY AdminLoginAssumption
<1>5. Counted \subseteq failures \cup {Len(guesses) + 1}
  BY <1>2
<1>6. IsFiniteSet(Counted) /\ Cardinality(Counted) \in Nat
      /\ Cardinality(Counted) <= Cardinality(failures) + 1
  BY <1>5, Types, OneMoreSize
<1>7. Len(guesses) + 1 \in Counted
  BY <1>1, <1>2, <1>4, Types
<1>8. \A n \in failures \ Counted : guesses[n] + Window <= clock
  BY <1>1, <1>2, Types
<1>9. Counted \subseteq DOMAIN guesses'
  BY <1>1, <1>5, Types
<1>10. \A n \in Counted : clock - guesses'[n] < Window
  BY <1>2
<1>. QED  BY <1>5, <1>6, <1>7, <1>8, <1>9, <1>10

\* FewGuesses after one more: those of a period that reaches until now were failures that
\* still counted, and there were not too many of them.
LEMMA FewWithOneMore ==
    ASSUME IInv, ~ Blocked, guesses' = Append(guesses, clock), clock' = clock
    PROVE  FewGuesses'
<1>. SUFFICES ASSUME NEW t \in 0..clock
              PROVE  Cardinality(During(guesses', t, Lockout)) <= MaxFailures
  BY GuessesAre DEF FewGuesses
<1>1. /\ DOMAIN guesses' = DOMAIN guesses \cup {Len(guesses) + 1}
      /\ \A n \in DOMAIN guesses : guesses'[n] = guesses[n]
      /\ guesses'[Len(guesses) + 1] = clock
  BY OneMore
<1>2. CASE t + Lockout <= clock
  <2>1. During(guesses', t, Lockout) = During(guesses, t, Lockout)
    BY <1>1, <1>2, Types DEF During
  <2>2. Cardinality(During(guesses, t, Lockout)) <= MaxFailures
    BY GuessesAre DEF IInv, FewGuesses
  <2>. QED  BY <2>1, <2>2
<1>3. CASE ~ (t + Lockout <= clock)
  <2>1. During(guesses', t, Lockout) \subseteq failures \cup {Len(guesses) + 1}
    <3>. SUFFICES ASSUME NEW n \in DOMAIN guesses, guesses[n] >= t, n \notin failures
                  PROVE  FALSE
      BY <1>1, Types DEF During
    <3>1. guesses[n] + Window <= clock \/ guesses[n] + Lockout <= lockout_until
      BY DEF IInv, ForgottenForAReason
    <3>2. lockout_until <= clock
      BY Types DEF Blocked
    <3>. QED  BY <1>3, <3>1, <3>2, Types
  <2>2. Cardinality(During(guesses', t, Lockout)) <= Cardinality(failures) + 1
        /\ Cardinality(During(guesses', t, Lockout)) \in Nat
    BY <2>1, Types, OneMoreSize
  <2>. QED  BY <2>2, Types
<1>. QED  BY <1>2, <1>3

\* The window that ends now, or the first if none has ended yet: where it begins, and
\* that it covers what is less than `w` old.
WindowStart(c, w) == IF c + 1 >= w THEN c + 1 - w ELSE 0

LEMMA WindowCovers ==
    ASSUME NEW c \in Nat, NEW w \in Nat, w >= 1
    PROVE  /\ WindowStart(c, w) \in 0..c
           /\ \A x \in 0..c : c - x < w => x \in WindowStart(c, w)..(WindowStart(c, w) + w - 1)
BY DEF WindowStart

\* All failures that still count lie within the window that ends now.
LEMMA WindowHolds ==
    ASSUME IInv, guesses' = Append(guesses, clock), Cardinality(Counted) >= MaxFailures
    PROVE  \E t \in 0..clock : Cardinality(During(guesses', t, Window)) >= MaxFailures
<1>. DEFINE t == WindowStart(clock, Window)
<1>1. /\ t \in 0..clock
      /\ \A x \in 0..clock : clock - x < Window => x \in t..(t + Window - 1)
  <2>1. Window >= 1
    BY AdminLoginAssumption
  <2>. QED  BY <2>1, Types, WindowCovers
<1>. HIDE DEF t
<1>2. guesses' \in Seq(0..clock) /\ DOMAIN guesses' = 1..Len(guesses') /\ Len(guesses') \in Nat
  BY OneMore, LenProperties
<1>3. Counted \subseteq During(guesses', t, Window)
  <2>. SUFFICES ASSUME NEW n \in Counted
                PROVE  n \in DOMAIN guesses' /\ guesses'[n] \in t..(t + Window - 1)
    BY DEF During
  <2>1. n \in DOMAIN guesses' /\ clock - guesses'[n] < Window
    BY CountedIs
  <2>2. guesses'[n] \in 0..clock
    BY <1>2, <2>1, ElementOfSeq
  <2>. QED  BY <1>1, <2>1, <2>2
<1>4. IsFiniteSet(During(guesses', t, Window))
  <2>1. IsFiniteSet(1..Len(guesses')) /\ During(guesses', t, Window) \subseteq 1..Len(guesses')
    BY <1>2, FS_Interval DEF During
  <2>. QED  BY <2>1, SubsetSize
<1>5. Cardinality(Counted) <= Cardinality(During(guesses', t, Window))
      /\ Cardinality(Counted) \in Nat /\ Cardinality(During(guesses', t, Window)) \in Nat
  BY <1>3, <1>4, SubsetSize
<1>6. Cardinality(During(guesses', t, Window)) >= MaxFailures
  BY <1>5, Types
<1>. QED  BY <1>1, <1>6

LEMMA LoginWrongIInv == ASSUME IInv, LoginWrong PROVE IInv'
<1>0. /\ ~ Blocked /\ RecordFailure /\ guesses' = Append(guesses, clock)
      /\ UNCHANGED <<clock, sessions, issued>>
  BY DEF LoginWrong
<1>1. FewGuesses'
  BY <1>0, FewWithOneMore
<1>2. CASE Cardinality(Counted) >= MaxFailures
  <2>1. failures' = {} /\ lockout_until' = clock + Lockout
    BY <1>0, <1>2 DEF RecordFailure
  <2>2. TypeOK'
    <3>1. Cardinality({}) = 0
      BY FS_EmptySet
    <3>2. clock \in 0..MaxTime /\ SessionsTyped
      BY DEF IInv, TypeOK, SessionsTyped
    <3>3. lockout_until' \in 0..(MaxTime + Lockout)
      BY <2>1, <3>2, AdminLoginAssumption, Types
    <3>. QED  BY <1>0, <2>1, <3>1, <3>2, <3>3, OneMore, Types DEF TypeOK, SessionsTyped
  <2>3. ForgottenForAReason'
    <3>. SUFFICES ASSUME NEW n \in DOMAIN guesses'
                  PROVE  guesses'[n] + Lockout <= clock + Lockout
      BY <1>0, <2>1 DEF ForgottenForAReason
    <3>1. guesses'[n] \in Nat /\ guesses'[n] <= clock
      BY <1>0, OneMore, Types
    <3>. QED  BY <3>1, Types
  <2>4. LockoutHasReason'
    <3>1. guesses' # << >> /\ guesses'[Len(guesses')] = clock
      <4>1. guesses'[Len(guesses')] = clock /\ Len(guesses') = Len(guesses) + 1
        BY <1>0, OneMore
      <4>. QED  BY <4>1, Types
    <3>2. \E t \in 0..clock : GuessesDuring(t, Window)' >= MaxFailures
      BY <1>0, <1>2, WindowHolds, GuessesAre
    <3>. QED  BY <1>0, <2>1, <3>1, <3>2 DEF LockoutHasReason
  <2>. QED  BY <1>1, <2>2, <2>3, <2>4 DEF IInv
<1>3. CASE ~ (Cardinality(Counted) >= MaxFailures)
  <2>1. failures' = Counted /\ lockout_until' = lockout_until
    BY <1>0, <1>3 DEF RecordFailure
  <2>2. TypeOK'
    <3>1. Cardinality(Counted) < MaxFailures /\ Counted \subseteq DOMAIN guesses'
      BY <1>0, <1>3, CountedIs, Types
    <3>2. /\ clock \in 0..MaxTime /\ SessionsTyped
          /\ lockout_until \in 0..(MaxTime + Lockout)
      BY DEF IInv, TypeOK, SessionsTyped
    <3>. QED  BY <1>0, <2>1, <3>1, <3>2, OneMore DEF TypeOK, SessionsTyped
  <2>3. ForgottenForAReason'
    <3>. SUFFICES ASSUME NEW n \in DOMAIN guesses' \ Counted
                  PROVE  \/ guesses'[n] + Window <= clock
                         \/ guesses'[n] + Lockout <= lockout_until
      BY <1>0, <2>1 DEF ForgottenForAReason
    <3>1. n \in DOMAIN guesses /\ guesses'[n] = guesses[n]
      BY <1>0, OneMore, CountedIs
    <3>2. CASE n \in failures
      BY <1>0, <3>1, <3>2, CountedIs
    <3>3. CASE n \notin failures
      BY <3>1, <3>3 DEF IInv, ForgottenForAReason
    <3>. QED  BY <3>2, <3>3
  <2>4. LockoutHasReason'
    BY <1>0, <2>1 DEF LockoutHasReason, Blocked
  <2>. QED  BY <1>1, <2>2, <2>3, <2>4 DEF IInv
<1>. QED  BY <1>2, <1>3

-----------------------------------------------------------------------------
LEMMA LoginIInv == ASSUME IInv, NEW token \in Tokens, Login(token) PROVE IInv'
<1>0. /\ failures' = {} /\ lockout_until' = 0 /\ guesses' = << >> /\ clock' = clock
      /\ issued' = issued \cup {token}
      /\ DOMAIN sessions' = DOMAIN sessions \cup {token}
  BY DEF Login
<1>1. Cardinality({}) = 0
  BY FS_EmptySet
<1>2. TypeOK'
  <2>1. clock \in 0..MaxTime /\ clock \in Nat /\ SessionsTyped
    BY Types DEF IInv, TypeOK, SessionsTyped
  <2>2. lockout_until' \in 0..(MaxTime + Lockout) /\ 0 < MaxFailures
    BY <1>0, AdminLoginAssumption
  <2>3. SessionsTyped'
    <3>1. DOMAIN sessions' \subseteq issued' /\ issued' \subseteq Tokens
      BY <1>0, <2>1 DEF SessionsTyped
    <3>. SUFFICES ASSUME NEW other \in DOMAIN sessions'
                  PROVE  sessions'[other] \in 0..(MaxTime + SessionTtl)
      BY <3>1 DEF SessionsTyped
    <3>2. CASE other = token
      <4>1. sessions'[other] = clock + SessionTtl
        BY <3>2 DEF Login
      <4>. QED  BY <2>1, <4>1, Types, AdminLoginAssumption
    <3>3. CASE other # token
      BY <3>3, <2>1 DEF Login, SessionsTyped
    <3>. QED  BY <3>2, <3>3
  <2>. QED  BY <1>0, <1>1, <2>1, <2>2, <2>3 DEF TypeOK, SessionsTyped
<1>3. FewGuesses'
  <2>1. \A t : During(guesses', t, Lockout) = {}
    BY <1>0 DEF During
  <2>2. \A t : GuessesDuring(t, Lockout)' = 0
    BY <1>1, <2>1, GuessesAre
  <2>. QED  BY <2>2, Types DEF FewGuesses
<1>. QED  BY <1>0, <1>2, <1>3, Types DEF IInv, ForgottenForAReason, LockoutHasReason, Blocked

LEMMA SessionIInv ==
    ASSUME IInv, NEW token \in Tokens, Request(token) \/ Logout(token)
    PROVE  IInv'
<1>1. /\ UNCHANGED <<clock, failures, lockout_until, issued, guesses>>
      /\ sessions' = [t \in DOMAIN sessions \ {token} |-> sessions[t]]
  BY DEF Request, Logout, Restrict
<1>2. SessionsTyped'
  BY <1>1 DEF IInv, TypeOK, SessionsTyped
<1>. QED  BY <1>1, <1>2 DEF IInv, TypeOK, SessionsTyped, ForgottenForAReason, FewGuesses,
                       LockoutHasReason, Blocked, GuessesDuring

LEMMA NextIInv == ASSUME IInv, [Next]_vars PROVE IInv'
<1>1. CASE UNCHANGED vars
  BY <1>1 DEF vars, IInv, TypeOK, ForgottenForAReason, FewGuesses, LockoutHasReason,
              Blocked, GuessesDuring
<1>. QED  BY <1>1, TickIInv, LoginWrongIInv, LoginIInv, SessionIInv DEF Next

\* The inductive invariant: types, why a failure does not count any more, few guesses,
\* and lockouts for a reason.
THEOREM Invariance == Spec => []IInv
<1>1. IInv /\ [Next]_vars => IInv'
  BY NextIInv
<1>. QED  BY <1>1, InitIInv, PTL DEF Spec

\* The counter stays below its limit and holds only failures that happened.
THEOREM TypeCorrect == Spec => []TypeOK
<1>1. IInv => TypeOK
  BY DEF IInv
<1>. QED  BY <1>1, Invariance, PTL

\* Never are more than MaxFailures wrong passwords compared within a lockout period.
THEOREM GuessesAreFew == Spec => []FewGuesses
<1>1. IInv => FewGuesses
  BY DEF IInv
<1>. QED  BY <1>1, Invariance, PTL

\* Every lockout began with the last of MaxFailures failures within one window.
THEOREM LockoutsHaveReasons == Spec => []LockoutHasReason
<1>1. IInv => LockoutHasReason
  BY DEF IInv
<1>. QED  BY <1>1, Invariance, PTL

\* No step makes a token valid that was issued before and is not: expired or logged out,
\* it stays so.
THEOREM TokensStayDead == Spec => NoTokenRevives
<1>1. ASSUME IInv, [Next]_vars, NEW token \in issued, Valid(token)'
      PROVE  Valid(token)
  <2>. DEFINE Same == clock' = clock /\ sessions' = sessions
  <2>1. CASE Same
    BY <1>1, <2>1 DEF Valid
  <2>2. CASE Tick
    <3>1. clock' = clock + 1 /\ sessions' = sessions
      BY <2>2 DEF Tick
    <3>2. token \in DOMAIN sessions /\ clock + 1 < sessions[token]
      BY <1>1, <3>1 DEF Valid
    <3>3. sessions[token] \in Nat /\ clock \in Nat
      BY <1>1, <3>2, Types, AdminLoginAssumption DEF IInv, TypeOK
    <3>. QED  BY <3>2, <3>3 DEF Valid
  <2>3. CASE \E other \in Tokens : Login(other)
    <3>1. PICK other \in Tokens : Login(other)
      BY <2>3
    <3>2. other # token
      BY <1>1, <3>1 DEF Login
    <3>3. clock' = clock /\ token \in DOMAIN sessions'
      BY <1>1, <3>1 DEF Valid, Login
    <3>4. token \in DOMAIN sessions /\ sessions'[token] = sessions[token]
      BY <3>1, <3>2, <3>3 DEF Login
    <3>. QED  BY <1>1, <3>3, <3>4 DEF Valid
  <2>4. CASE \E other \in Tokens : Request(other) \/ Logout(other)
    <3>1. PICK other \in Tokens : Request(other) \/ Logout(other)
      BY <2>4
    <3>2. clock' = clock
          /\ sessions' = [t \in DOMAIN sessions \ {other} |-> sessions[t]]
      BY <3>1 DEF Request, Logout, Restrict
    <3>3. token \in DOMAIN sessions' /\ clock < sessions'[token]
      BY <1>1, <3>2 DEF Valid
    <3>4. token \in DOMAIN sessions /\ sessions'[token] = sessions[token]
      BY <3>2, <3>3
    <3>. QED  BY <3>3, <3>4 DEF Valid
  <2>5. LoginWrong => Same
    BY DEF LoginWrong
  <2>6. UNCHANGED vars => Same
    BY DEF vars
  <2>. HIDE DEF Same
  <2>. QED  BY <1>1, <2>1, <2>2, <2>3, <2>4, <2>5, <2>6 DEF Next
<1>2. IInv /\ [Next]_vars => [\A token \in issued : Valid(token)' => Valid(token)]_vars
  BY <1>1
<1>. QED  BY <1>2, Invariance, PTL DEF Spec, NoTokenRevives
=============================================================================
