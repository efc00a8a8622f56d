------------------------------ MODULE DifyStream ------------------------------
(***************************************************************************)
(* One streaming chat call (src/dify_client.py): the events of the         *)
(* response are collected as they arrive, and accumulate_stream turns them *)
(* into the answer and the conversation_id once the response has ended.    *)
(*                                                                         *)
(* An event is [event, answer, conversation_id]; Empty stands for an       *)
(* absent or empty field.  Keep-alives, empty and malformed lines, which   *)
(* the parser skips, are "other" events without fields.                    *)
(***************************************************************************)
EXTENDS Naturals, Sequences, Functions

CONSTANTS
    Texts, Ids,     \* answer fragments and conversation ids
    Empty,
    MaxEvents       \* bound on the events of a response

ASSUME DifyStreamAssumption == Empty \notin Texts \cup Ids /\ MaxEvents \in Nat

Types == {"message", "agent_message", "message_replace", "error", "other"}

Events ==
    [event : Types, answer : Texts \cup {Empty}, conversation_id : Ids \cup {Empty}]

VARIABLES
    status,     \* "open" while the response goes on, then "result" or "DifyError"
    events,     \* what was collected
    result      \* the DifyStreamResult

vars == <<status, events, result>>

-----------------------------------------------------------------------------
(* accumulate_stream, one event at a time.  An answer is the sequence of   *)
(* the texts in it, to which an empty one adds nothing.                    *)

Start == [answer |-> << >>, conversation_id |-> Empty, saw_agent_message |-> FALSE]

Or(value, default) == IF value = Empty THEN default ELSE value

Joined(answer, text) == IF text = Empty THEN answer ELSE Append(answer, text)

\* Mutant: a message is always appended.
PartsAppended(acc, e) ==
    IF e.event \in {"message", "agent_message"} THEN Joined(acc.answer, e.answer)
    ELSE IF e.event = "message_replace" THEN Joined(<< >>, e.answer)
    ELSE acc.answer

Parts(acc, e) ==
    IF e.event = "agent_message" \/ (e.event = "message" /\ ~ acc.saw_agent_message)
    THEN Joined(acc.answer, e.answer)
    ELSE IF e.event \in {"message", "message_replace"} THEN Joined(<< >>, e.answer)
    ELSE acc.answer

\* Mutant: the first conversation_id wins.
ConversationIdFirst(acc, e) == Or(acc.conversation_id, e.conversation_id)

ConversationId(acc, e) == Or(e.conversation_id, acc.conversation_id)

Step(acc, e) ==
    [answer |-> Parts(acc, e),
     conversation_id |-> ConversationId(acc, e),
     saw_agent_message |-> acc.saw_agent_message \/ e.event = "agent_message"]

\* Mutant: an error event is skipped like an unknown one.
FailsNever(s) == FALSE

\* accumulate_stream raises on the first error event.
Fails(s) == \E i \in DOMAIN s : s[i].event = "error"

\* What it has after each of the events, and in the end.
Accumulated(s) ==
    LET acc[n \in 0..Len(s)] == IF n = 0 THEN Start ELSE Step(acc[n - 1], s[n])
    IN  acc

AccumulateStream(s) ==
    LET acc == Accumulated(s)[Len(s)]
    IN  [answer |-> acc.answer, conversation_id |-> acc.conversation_id]

-----------------------------------------------------------------------------
NoResult == [answer |-> << >>, conversation_id |-> Empty]

Init ==
    /\ status = "open"
    /\ events = << >>
    /\ result = NoResult

Receive(e) ==
    /\ status = "open"
    /\ Len(events) < MaxEvents
    /\ events' = Append(events, e)
    /\ UNCHANGED <<status, result>>

\* The response ends, be it complete or not.
ResponseEnds ==
    /\ status = "open"
    /\ status' = IF Fails(events) THEN "DifyError" ELSE "result"
    /\ result' = IF Fails(events) THEN NoResult ELSE AccumulateStream(events)
    /\ UNCHANGED events

\* Not 200, a timeout, a lost connection: what was collected is dropped.
CallFails ==
    /\ status = "open"
    /\ status' = "DifyError"
    /\ UNCHANGED <<events, result>>

Next == (\E e \in Events : Receive(e)) \/ ResponseEnds \/ CallFails

Spec == Init /\ [][Next]_vars

-----------------------------------------------------------------------------
Carries(e) ==
    e.event \in {"message", "agent_message", "message_replace"} /\ e.answer # Empty

\* The answer has the texts of the events i..j, each in its place: `place` is where they
\* come from.
IsTextOf(answer, s, i, j) ==
    \E place \in [DOMAIN answer -> i..j] :
        /\ \A k, l \in DOMAIN answer : k < l => place[k] < place[l]
        /\ Range(place) = {n \in i..j : Carries(s[n])}
        /\ \A k \in DOMAIN answer : answer[k] = s[place[k]].answer

\* Event i starts the answer anew: a replacement, or a message that repeats what an
\* agent has said in fragments.
StartsAnew(s, i) ==
    \/ s[i].event = "message_replace"
    \/ /\ s[i].event = "message"
       /\ \E j \in 1..(i - 1) : s[j].event = "agent_message"

\* The answer is the text since the last event that starts it anew, none of it lost,
\* repeated or out of order ("concatenated in order", "used verbatim instead of being
\* appended", "replaces the answer accumulated so far").
AnswerIsTheLastVersion ==
    status = "result" =>
        \E i \in {1} \cup {k \in DOMAIN events : StartsAnew(events, k)} :
            /\ \A j \in (i + 1)..Len(events) : ~ StartsAnew(events, j)
            /\ IsTextOf(result.answer, events, i, Len(events))

\* "The last non-empty value wins": no event after the one that brought the id has
\* another, and there is no id only if no event had one.
LastIdWins ==
    status = "result" =>
        /\ \A i \in DOMAIN events :
             events[i].conversation_id \notin {Empty, result.conversation_id} =>
                 \E j \in (i + 1)..Len(events) :
                     events[j].conversation_id = result.conversation_id
        /\ result.conversation_id = Empty =>
             \A i \in DOMAIN events : events[i].conversation_id = Empty

\* "An error event ends the stream in failure", wherever it comes; and a failed call
\* gives neither an answer nor an id.
ErrorsAreNotAnswers ==
    /\ status = "result" => \A i \in DOMAIN events : events[i].event # "error"
    /\ status # "result" => result = NoResult
=============================================================================
