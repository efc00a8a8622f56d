--------------------------- MODULE DifyStreamProofs ---------------------------
(***************************************************************************)
(* What accumulate_stream() makes of a response, for any number of events, *)
(* texts and conversation ids.                                             *)
(***************************************************************************)
EXTENDS DifyStream, SequenceTheorems, WellFoundedInduction, TLAPS

\* Induction, on a set: the least number outside of it has a predecessor in it.
LEMMA SetInduction ==
    ASSUME NEW S, 0 \in S, \A n \in Nat : n \in S => n + 1 \in S
    PROVE  Nat \subseteq S
<1>. SUFFICES ASSUME Nat \ S # {} PROVE FALSE
  OBVIOUS
<1>1. PICK n \in Nat \ S : \A m \in Nat \ S : ~ (<<m, n>> \in OpToRel(<, Nat))
  <2>. DEFINE T == Nat \ S
  <2>1. T # {} /\ T \subseteq Nat
    OBVIOUS
  <2>. HIDE DEF T
  <2>2. \E n \in T : \A m \in T : ~ (<<m, n>> \in OpToRel(<, Nat))
    BY <2>1, NatLessThanWellFounded, WFMin
  <2>. QED  BY <2>2 DEF T
<1>2. n # 0 /\ n - 1 \in Nat /\ (n - 1) + 1 = n
  OBVIOUS
<1>3. n - 1 \notin S
  BY <1>2
<1>4. <<n - 1, n>> \in OpToRel(<, Nat)
  BY <1>2 DEF OpToRel
<1>. QED  BY <1>1, <1>2, <1>3, <1>4

-----------------------------------------------------------------------------
(* The pass over the events.                                               *)

\* The recursion equation of the pass over the first n events.
IsPass(f, s, n) ==
    f = [i \in 0..n |-> IF i = 0 THEN Start ELSE Step(f[i - 1], s[i])]

\* A pass can be made one event longer.
LEMMA PassGoesOn ==
    ASSUME NEW s, NEW n \in Nat, NEW f, IsPass(f, s, n)
    PROVE  \E g : IsPass(g, s, n + 1)
<1>. DEFINE g == [i \in 0..(n + 1) |-> IF i = n + 1 THEN Step(f[n], s[n + 1]) ELSE f[i]]
<1>1. \A i \in 0..n : f[i] = IF i = 0 THEN Start ELSE Step(f[i - 1], s[i])
  BY DEF IsPass
<1>2. \A i \in 0..(n + 1) : g[i] = IF i = 0 THEN Start ELSE Step(g[i - 1], s[i])
  <2>. SUFFICES ASSUME NEW i \in 0..(n + 1)
                PROVE  g[i] = IF i = 0 THEN Start ELSE Step(g[i - 1], s[i])
    OBVIOUS
  <2>1. CASE i = n + 1
    BY <2>1
  <2>2. CASE i \in 0..n /\ i # 0
    <3>1. g[i] = f[i] /\ g[i - 1] = f[i - 1]
      BY <2>2
    <3>. QED  BY <1>1, <2>2, <3>1
  <2>3. CASE i = 0
    BY <1>1, <2>3
  <2>. QED  BY <2>1, <2>2, <2>3
<1>3. g = [i \in 0..(n + 1) |-> g[i]]
  OBVIOUS
<1>. HIDE DEF g
<1>4. IsPass(g, s, n + 1)
  BY <1>2, <1>3 DEF IsPass
<1>. QED  BY <1>4

\* So there is one over any number of events, and Accumulated is one.
LEMMA PassExists ==
    ASSUME NEW s, Len(s) \in Nat
    PROVE  IsPass(Accumulated(s), s, Len(s))
<1>. DEFINE S == {n \in Nat : \E f : IsPass(f, s, n)}
<1>1. 0 \in S
  <2>1. IsPass([i \in 0..0 |-> Start], s, 0)
    BY DEF IsPass
  <2>. QED  BY <2>1
<1>2. \A n \in Nat : n \in S => n + 1 \in S
  BY PassGoesOn
<1>. HIDE DEF S
<1>3. Nat \subseteq S
  BY <1>1, <1>2, SetInduction
<1>4. \E f : IsPass(f, s, Len(s))
  BY <1>3 DEF S
<1>5. Accumulated(s) = CHOOSE f : IsPass(f, s, Len(s))
  BY DEF Accumulated, IsPass
<1>. QED  BY <1>4, <1>5

-----------------------------------------------------------------------------
(* The texts of an answer and their places.                                *)

\* No event, no text.
LEMMA NoText == ASSUME NEW s, NEW i \in Nat, NEW n \in Nat, n < i
                PROVE  IsTextOf(<< >>, s, i, n)
<1>. DEFINE place == [k \in {} |-> 0]
<1>1. DOMAIN << >> = {} /\ i..n = {}
  BY EmptySeq
<1>2. place \in [{} -> i..n] /\ Range(place) = {}
  BY DEF Range
<1>3. {m \in i..n : Carries(s[m])} = {}
  BY <1>1
<1>. QED  BY <1>1, <1>2, <1>3 DEF IsTextOf

\* An event that carries no text leaves the answer.
LEMMA SameText ==
    ASSUME NEW s, NEW i \in Nat, NEW n \in Nat, i <= n + 1, NEW answer \in Seq(Texts),
           IsTextOf(answer, s, i, n), ~ Carries(s[n + 1])
    PROVE  IsTextOf(answer, s, i, n + 1)
<1>1. PICK place \in [DOMAIN answer -> i..n] :
        /\ \A k, l \in DOMAIN answer : k < l => place[k] < place[l]
        /\ Range(place) = {m \in i..n : Carries(s[m])}
        /\ \A k \in DOMAIN answer : answer[k] = s[place[k]].answer
  BY DEF IsTextOf
<1>2. i..(n + 1) = (i..n) \cup {n + 1}
  OBVIOUS
<1>3. {m \in i..(n + 1) : Carries(s[m])} = {m \in i..n : Carries(s[m])}
  BY <1>2
<1>4. place \in [DOMAIN answer -> i..(n + 1)]
  BY <1>2
<1>. QED  BY <1>1, <1>3, <1>4 DEF IsTextOf

\* One that carries a text adds it at the end.
LEMMA MoreText ==
    ASSUME NEW s, NEW i \in Nat, NEW n \in Nat, i <= n + 1, NEW answer \in Seq(Texts),
           IsTextOf(answer, s, i, n), Carries(s[n + 1]), s[n + 1].answer \in Texts
    PROVE  IsTextOf(Append(answer, s[n + 1].answer), s, i, n + 1)
<1>. DEFINE len == Len(answer)
<1>1. PICK place \in [DOMAIN answer -> i..n] :
        /\ \A k, l \in DOMAIN answer : k < l => place[k] < place[l]
        /\ Range(place) = {m \in i..n : Carries(s[m])}
        /\ \A k \in DOMAIN answer : answer[k] = s[place[k]].answer
  BY DEF IsTextOf
<1>2. len \in Nat /\ DOMAIN answer = 1..len
  BY LenProperties
<1>3. PICK more : more = Append(answer, s[n + 1].answer)
  OBVIOUS
<1>4. /\ DOMAIN more = 1..(len + 1)
      /\ \A k \in 1..len : more[k] = answer[k]
      /\ more[len + 1] = s[n + 1].answer
  <2>1. /\ more \in Seq(Texts) /\ Len(more) = len + 1
        /\ \A k \in 1..len : more[k] = answer[k]
        /\ more[len + 1] = s[n + 1].answer
    BY <1>3, AppendProperties
  <2>. QED  BY <2>1, LenProperties
<1>. HIDE DEF len
<1>5. PICK there : there = [k \in 1..(len + 1) |-> IF k = len + 1 THEN n + 1 ELSE place[k]]
  OBVIOUS
<1>6. /\ DOMAIN there = 1..(len + 1) /\ there[len + 1] = n + 1
      /\ \A k \in 1..len : k \in 1..(len + 1) /\ there[k] = place[k] /\ place[k] \in i..n
      /\ \A k \in 1..(len + 1) : k = len + 1 \/ k \in 1..len
      /\ n + 1 \in i..(n + 1) /\ len + 1 \in 1..(len + 1)
  BY <1>2, <1>5
<1>7. there \in [1..(len + 1) -> i..(n + 1)]
  BY <1>2, <1>5, <1>6
<1>8. \A k, l \in 1..(len + 1) : k < l => there[k] < there[l]
  <2>. SUFFICES ASSUME NEW k \in 1..(len + 1), NEW l \in 1..(len + 1), k < l
                PROVE  there[k] < there[l]
    OBVIOUS
  <2>1. k \in 1..len /\ there[k] = place[k] /\ place[k] \in i..n
    <3>1. k # len + 1
      BY <1>2
    <3>. QED  BY <1>6, <3>1
  <2>2. CASE l = len + 1
    <3>1. there[l] = n + 1
      BY <1>6, <2>2
    <3>. QED  BY <2>1, <3>1
  <2>3. CASE l \in 1..len
    <3>1. there[l] = place[l]
      BY <1>6, <2>3
    <3>2. place[k] < place[l]
      BY <1>1, <1>2, <2>1, <2>3
    <3>. QED  BY <2>1, <3>1, <3>2
  <2>. QED  BY <1>6, <2>2, <2>3
<1>9. Range(there) = {m \in i..(n + 1) : Carries(s[m])}
  <2>1. Range(there) = Range(place) \cup {n + 1}
    <3>1. ASSUME NEW m \in Range(there) PROVE m \in Range(place) \cup {n + 1}
      <4>1. PICK k \in 1..(len + 1) : m = there[k]
        BY <1>6 DEF Range
      <4>. QED  BY <1>2, <1>6, <4>1 DEF Range
    <3>2. ASSUME NEW m \in Range(place) PROVE m \in Range(there)
      <4>1. PICK k \in 1..len : m = place[k]
        BY <1>2 DEF Range
      <4>. QED  BY <1>6, <4>1 DEF Range
    <3>3. n + 1 \in Range(there)
      BY <1>6 DEF Range
    <3>. QED  BY <3>1, <3>2, <3>3
  <2>2. i..(n + 1) = (i..n) \cup {n + 1}
    OBVIOUS
  <2>. QED  BY <1>1, <2>1, <2>2
<1>10. \A k \in 1..(len + 1) : more[k] = s[there[k]].answer
  BY <1>1, <1>2, <1>4, <1>6
<1>11. IsTextOf(more, s, i, n + 1)
  BY <1>4, <1>7, <1>8, <1>9, <1>10 DEF IsTextOf
<1>. QED  BY <1>3, <1>11

-----------------------------------------------------------------------------
(* What is known after the first n events.                                 *)

\* The answer is the text since the last of them that starts it anew.
AnswerSays(answer, s, n) ==
    \E i \in {1} \cup {k \in 1..n : StartsAnew(s, k)} :
        /\ \A j \in (i + 1)..n : ~ StartsAnew(s, j)
        /\ IsTextOf(answer, s, i, n)

\* The id is the last one.
IdSays(id, s, n) ==
    /\ \A i \in 1..n : s[i].conversation_id \notin {Empty, id} =>
         \E j \in (i + 1)..n : s[j].conversation_id = id
    /\ id = Empty => \A i \in 1..n : s[i].conversation_id = Empty

PassSays(acc, s, n) ==
    /\ acc.answer \in Seq(Texts)
    /\ acc.saw_agent_message <=> \E j \in 1..n : s[j].event = "agent_message"
    /\ AnswerSays(acc.answer, s, n)
    /\ IdSays(acc.conversation_id, s, n)

\* An event, seen from the answer: whether it starts it anew, and whether it adds to it.
LEMMA StepIs ==
    ASSUME NEW s \in Seq(Events), NEW n \in Nat, n + 1 \in 1..Len(s),
           NEW acc, PassSays(acc, s, n)
    PROVE  LET e == s[n + 1]
               base == IF StartsAnew(s, n + 1) THEN << >> ELSE acc.answer
           IN  /\ Parts(acc, e) = IF Carries(e) THEN Append(base, e.answer) ELSE base
               /\ Carries(e) => e.answer \in Texts
<1>. DEFINE e == s[n + 1]
<1>1. e \in Events
  BY ElementOfSeq
<1>2. e.event \in Types /\ e.answer \in Texts \cup {Empty}
  BY <1>1 DEF Events
<1>3. StartsAnew(s, n + 1) <=>
        e.event = "message_replace" \/ (e.event = "message" /\ acc.saw_agent_message)
  <2>1. (n + 1) - 1 = n
    OBVIOUS
  <2>. QED  BY <2>1 DEF StartsAnew, PassSays
<1>4. Carries(e) => e.answer \in Texts
  BY <1>2 DEF Carries
<1>. HIDE DEF e
<1>5. CASE StartsAnew(s, n + 1)
  <2>1. Parts(acc, e) = Joined(<< >>, e.answer)
    BY <1>3, <1>5 DEF Parts
  <2>2. Carries(e) <=> e.answer # Empty
    BY <1>3, <1>5 DEF Carries
  <2>. QED  BY <1>4, <1>5, <2>1, <2>2 DEF Joined, e
<1>6. CASE ~ StartsAnew(s, n + 1) /\ e.event \in {"message", "agent_message"}
  <2>1. Parts(acc, e) = Joined(acc.answer, e.answer)
    BY <1>3, <1>6 DEF Parts
  <2>2. Carries(e) <=> e.answer # Empty
    BY <1>6 DEF Carries
  <2>. QED  BY <1>4, <1>6, <2>1, <2>2 DEF Joined, e
<1>7. CASE ~ StartsAnew(s, n + 1) /\ e.event \notin {"message", "agent_message"}
  <2>1. Parts(acc, e) = acc.answer /\ ~ Carries(e)
    BY <1>3, <1>7 DEF Parts, Carries
  <2>. QED  BY <1>4, <1>7, <2>1 DEF e
<1>. QED  BY <1>5, <1>6, <1>7

\* What is known stays so from event to event.
LEMMA PassStep ==
    ASSUME NEW s \in Seq(Events), NEW n \in Nat, n + 1 \in 1..Len(s),
           NEW acc, PassSays(acc, s, n)
    PROVE  PassSays(Step(acc, s[n + 1]), s, n + 1)
<1>. DEFINE e == s[n + 1]
            anew == StartsAnew(s, n + 1)
            base == IF anew THEN << >> ELSE acc.answer
            answer == Parts(acc, e)
            id == ConversationId(acc, e)
<1>1. /\ answer = IF Carries(e) THEN Append(base, e.answer) ELSE base
      /\ Carries(e) => e.answer \in Texts
      /\ base \in Seq(Texts)
  BY StepIs, EmptySeq DEF PassSays
<1>2. 1..(n + 1) = (1..n) \cup {n + 1}
  OBVIOUS
<1>3. /\ Step(acc, e).answer = answer
      /\ Step(acc, e).conversation_id = id
      /\ Step(acc, e).saw_agent_message <=> acc.saw_agent_message \/ e.event = "agent_message"
  BY DEF Step
<1>. HIDE DEF answer, id
<1>4. answer \in Seq(Texts)
  BY <1>1, AppendProperties
<1>5. (acc.saw_agent_message \/ e.event = "agent_message")
        <=> \E j \in 1..(n + 1) : s[j].event = "agent_message"
  BY <1>2 DEF PassSays
<1>6. AnswerSays(answer, s, n + 1)
  <2>1. ASSUME NEW i \in 1..(n + 1), IsTextOf(base, s, i, n)
        PROVE  IsTextOf(answer, s, i, n + 1)
    <3>1. i \in Nat /\ i <= n + 1 /\ base \in Seq(Texts)
      BY <1>1
    <3>. HIDE DEF base
    <3>2. CASE Carries(e)
      <4>1. IsTextOf(Append(base, e.answer), s, i, n + 1)
        BY <1>1, <2>1, <3>1, <3>2, MoreText
      <4>. QED  BY <1>1, <3>2, <4>1
    <3>3. CASE ~ Carries(e)
      <4>1. IsTextOf(base, s, i, n + 1)
        BY <2>1, <3>1, <3>3, SameText
      <4>. QED  BY <1>1, <3>3, <4>1
    <3>. QED  BY <3>2, <3>3
  <2>2. CASE anew
    <3>1. IsTextOf(<< >>, s, n + 1, n)
      BY NoText
    <3>2. n + 1 \in 1..(n + 1) /\ base = << >>
      BY <2>2
    <3>3. IsTextOf(answer, s, n + 1, n + 1)
      BY <2>1, <3>1, <3>2
    <3>4. ((n + 1) + 1)..(n + 1) = {}
      OBVIOUS
    <3>. QED  BY <2>2, <3>2, <3>3, <3>4 DEF AnswerSays
  <2>3. CASE ~ anew
    <3>1. PICK i \in {1} \cup {k \in 1..n : StartsAnew(s, k)} :
            /\ \A j \in (i + 1)..n : ~ StartsAnew(s, j)
            /\ IsTextOf(acc.answer, s, i, n)
      BY DEF PassSays, AnswerSays
    <3>2. i \in 1..(n + 1) /\ i \in {1} \cup {k \in 1..(n + 1) : StartsAnew(s, k)}
      BY <1>2
    <3>3. IsTextOf(answer, s, i, n + 1)
      BY <2>1, <2>3, <3>1, <3>2
    <3>4. \A j \in (i + 1)..(n + 1) : j \in (i + 1)..n \/ j = n + 1
      BY <3>2
    <3>5. \A j \in (i + 1)..(n + 1) : ~ StartsAnew(s, j)
      BY <2>3, <3>1, <3>4
    <3>. QED  BY <3>2, <3>3, <3>5 DEF AnswerSays
  <2>. QED  BY <2>2, <2>3
<1>7. IdSays(id, s, n + 1)
  <2>1. id = IF e.conversation_id = Empty THEN acc.conversation_id ELSE e.conversation_id
    BY DEF id, ConversationId, Or
  <2>2. IdSays(acc.conversation_id, s, n)
    BY DEF PassSays
  <2>3. CASE e.conversation_id = Empty
    <3>1. \A i \in 1..n : \A j \in (i + 1)..n : j \in (i + 1)..(n + 1)
      OBVIOUS
    <3>. QED  BY <1>2, <2>1, <2>2, <2>3, <3>1 DEF IdSays
  <2>4. CASE e.conversation_id # Empty
    <3>1. \A i \in 1..n : n + 1 \in (i + 1)..(n + 1)
      OBVIOUS
    <3>. QED  BY <1>2, <2>1, <2>4, <3>1 DEF IdSays
  <2>. QED  BY <2>3, <2>4
<1>. QED  BY <1>3, <1>4, <1>5, <1>6, <1>7 DEF PassSays

\* The whole pass.
LEMMA AccumulateStreamIs ==
    ASSUME NEW s \in Seq(Events)
    PROVE  LET made == AccumulateStream(s)
           IN  AnswerSays(made.answer, s, Len(s)) /\ IdSays(made.conversation_id, s, Len(s))
<1>. DEFINE acc == Accumulated(s)
            S == {n \in Nat : n <= Len(s) => PassSays(acc[n], s, n)}
<1>1. /\ Len(s) \in Nat
      /\ \A i \in 0..Len(s) : acc[i] = IF i = 0 THEN Start ELSE Step(acc[i - 1], s[i])
  <2>1. Len(s) \in Nat
    BY LenProperties
  <2>2. IsPass(acc, s, Len(s))
    BY <2>1, PassExists
  <2>. HIDE DEF acc
  <2>. QED  BY <2>1, <2>2 DEF IsPass
<1>. HIDE DEF acc
<1>2. 0 \in S
  <2>1. acc[0] = Start
    BY <1>1
  <2>2. IsTextOf(<< >>, s, 1, 0)
    BY NoText
  <2>3. << >> \in Seq(Texts) /\ 1..0 = {} /\ (1 + 1)..0 = {}
    BY EmptySeq
  <2>4. AnswerSays(<< >>, s, 0) /\ IdSays(Empty, s, 0)
    BY <2>2, <2>3 DEF AnswerSays, IdSays
  <2>5. PassSays(Start, s, 0)
    BY <2>3, <2>4 DEF PassSays, Start
  <2>. QED  BY <2>1, <2>5
<1>3. \A n \in Nat : n \in S => n + 1 \in S
  <2>. SUFFICES ASSUME NEW n \in Nat, n \in S, n + 1 <= Len(s)
                PROVE  PassSays(acc[n + 1], s, n + 1)
    OBVIOUS
  <2>1. n + 1 \in 1..Len(s) /\ n <= Len(s)
    BY <1>1
  <2>2. acc[n + 1] = Step(acc[n], s[n + 1])
    BY <1>1, <2>1
  <2>. QED  BY <2>1, <2>2, PassStep
<1>. HIDE DEF S
<1>4. Len(s) \in S
  BY <1>1, <1>2, <1>3, SetInduction
<1>5. PassSays(acc[Len(s)], s, Len(s))
  BY <1>1, <1>4 DEF S
<1>6. /\ AccumulateStream(s).answer = acc[Len(s)].answer
      /\ AccumulateStream(s).conversation_id = acc[Len(s)].conversation_id
  BY DEF AccumulateStream, acc
<1>. QED  BY <1>5, <1>6 DEF PassSays

-----------------------------------------------------------------------------
(* The call.                                                               *)

\* What was collected does not change after the response has ended, and a result is what
\* the pass makes of it.
IInv ==
    /\ status \in {"open", "result", "DifyError"}
    /\ events \in Seq(Events)
    /\ status = "result" => ~ Fails(events) /\ result = AccumulateStream(events)
    /\ status # "result" => result = NoResult

LEMMA InitIInv == Init => IInv
BY EmptySeq DEF Init, IInv

LEMMA NextIInv == IInv /\ [Next]_vars => IInv'
<1>. SUFFICES ASSUME IInv, [Next]_vars PROVE IInv'
  OBVIOUS
<1>1. ASSUME NEW e \in Events, Receive(e) PROVE IInv'
  <2>1. Append(events, e) \in Seq(Events)
    BY AppendProperties DEF IInv
  <2>. QED  BY <1>1, <2>1 DEF IInv, Receive
<1>2. CASE ResponseEnds
  BY <1>2 DEF IInv, ResponseEnds
<1>3. CASE CallFails
  BY <1>3 DEF IInv, CallFails
<1>4. CASE UNCHANGED vars
  BY <1>4 DEF IInv, vars
<1>. QED  BY <1>1, <1>2, <1>3, <1>4 DEF Next

\* The inductive invariant holds.
THEOREM Invariance == Spec => []IInv
<1>. QED  BY InitIInv, NextIInv, PTL DEF Spec

LEMMA ResultsHold == IInv => AnswerIsTheLastVersion /\ LastIdWins /\ ErrorsAreNotAnswers
<1>. SUFFICES ASSUME IInv
              PROVE  AnswerIsTheLastVersion /\ LastIdWins /\ ErrorsAreNotAnswers
  OBVIOUS
<1>1. events \in Seq(Events) /\ DOMAIN events = 1..Len(events)
  BY LenProperties DEF IInv
<1>2. ASSUME status = "result"
      PROVE  /\ AnswerSays(result.answer, events, Len(events))
             /\ IdSays(result.conversation_id, events, Len(events))
             /\ ~ Fails(events)
  BY <1>1, <1>2, AccumulateStreamIs DEF IInv
<1>3. AnswerIsTheLastVersion
  BY <1>1, <1>2 DEF AnswerSays, AnswerIsTheLastVersion
<1>4. LastIdWins
  BY <1>1, <1>2 DEF IdSays, LastIdWins
<1>5. ErrorsAreNotAnswers
  BY <1>2 DEF IInv, ErrorsAreNotAnswers, Fails
<1>. QED  BY <1>3, <1>4, <1>5

\* accumulate_stream() loses, repeats and reorders nothing of the answer, and keeps of it
\* what came since the last event that starts it anew, whatever the events are.
THEOREM AnswersAreWhole == Spec => []AnswerIsTheLastVersion
<1>. QED  BY Invariance, ResultsHold, PTL

\* The conversation_id of a result is the last one that was sent, whatever the events are.
THEOREM IdsAreTheLast == Spec => []LastIdWins
<1>. QED  BY Invariance, ResultsHold, PTL

\* An error event anywhere makes the call a failure, and a failed call has no result.
THEOREM FailuresHaveNoAnswer == Spec => []ErrorsAreNotAnswers
<1>. QED  BY Invariance, ResultsHold, PTL

=============================================================================
