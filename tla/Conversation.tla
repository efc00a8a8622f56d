----------------------------- MODULE Conversation -----------------------------
(***************************************************************************)
(* Messages in flight: src/message_handler.py between the WeCom client     *)
(* that delivers a message and sends its reply (src/wecom_client.py) and   *)
(* the Dify calls it awaits (src/dify_client.py).                          *)
(*                                                                         *)
(* A handler keeps, across its awaits, the key it read and the Session     *)
(* object it got; meanwhile other messages of the same user are handled,   *)
(* sessions expire, keys rotate, groups go.  A Session object is named by  *)
(* the message whose get_or_create made it, and a Dify conversation by the *)
(* message whose chat call opened it.  How the pool chooses what to evict  *)
(* is SessionPool's subject: here a session may go at any moment.          *)
(***************************************************************************)
EXTENDS Naturals, Functions

CONSTANTS
    Groups, Users,
    Keys,           \* Dify API keys, each of an app of its own
    Messages,
    None,
    MaxForgets,     \* bound on the times a group is removed
    MaxFiles        \* bound on the files of a message

ASSUME ConversationAssumption ==
    None \notin Messages \cup Keys /\ MaxForgets \in Nat /\ MaxFiles \in Nat

\* _SEND_RETRY_ATTEMPTS
SendRetryAttempts == 3

Accounts == Groups \X Users

VARIABLES
    key,        \* GroupStore: group |-> its dify_api_key, or None if not configured
    sess,       \* the pools: account |-> Session object, for the live sessions
    conv,       \* Session object |-> conversation_id
    msg,        \* message |-> what its handler knows
    forgets     \* how often an account's session was reset or dropped on purpose

vars == <<key, sess, conv, msg, forgets>>

\* A message nobody sent yet.  `obj` is the handler's session, `upload_key` and `key`
\* are what its two calls used, `sent` is the conversation_id the chat call carried,
\* `since` the account's `forgets` when the handler got its session.  Of its `files`,
\* `left` are still to be downloaded or uploaded, and `refs` were uploaded.
Unsent ==
    [pc |-> "unsent", account |-> None, obj |-> None, upload_key |-> None,
     key |-> None, sent |-> None, since |-> 0, failures |-> 0,
     files |-> 0, left |-> 0, refs |-> 0]

Group(a) == a[1]

\* handle() has returned a reply: its locals are gone, what is history stays.  The
\* texts of the replies are not told apart.
Reply(r) == [Unsent EXCEPT !.pc = "reply", !.account = r.account,
                           !.key = r.key, !.since = r.since]

Ended(m) == [msg[m] EXCEPT !.pc = "ended", !.failures = 0]

SetMsg(m, r) == msg' = [msg EXCEPT ![m] = r]

Forget(S) == [a \in Accounts |-> IF a \in S THEN forgets[a] + 1 ELSE forgets[a]]

Without(S) == Restrict(sess, DOMAIN sess \ S)

-----------------------------------------------------------------------------
(* MessageHandler.handle, up to its first await.                           *)

\* Mutant: one session for all users of a group.
SessionOfGroup(m, a) ==
    IF \E b \in DOMAIN sess : Group(b) = Group(a)
    THEN sess[CHOOSE b \in DOMAIN sess : Group(b) = Group(a)] ELSE m

\* The Session object of account a, made for message m if it has none.
SessionOf(m, a) == IF a \in DOMAIN sess THEN sess[a] ELSE m

GetOrCreate(m, a) ==
    sess' = [b \in DOMAIN sess \cup {a} |-> IF b = a THEN SessionOf(m, a) ELSE sess[b]]

\* What a message of account a knows once it has its session.
Handled(m, a) ==
    [msg[m] EXCEPT !.account = a, !.obj = SessionOf(m, a), !.since = forgets[a]]

\* The chat call: its arguments are read when it is made.
Chat(m, r, k, id) == SetMsg(m, [r EXCEPT !.pc = "chat", !.key = k, !.sent = id])

\* The group is gone from the store: the generic error text.
HandleUnknownGroup(m, a) ==
    /\ key[Group(a)] = None
    /\ SetMsg(m, [Reply(msg[m]) EXCEPT !.account = a])
    /\ UNCHANGED <<key, sess, conv, forgets>>

ReceiveText(m, a) ==
    /\ msg[m].pc = "unsent"
    /\ \/ HandleUnknownGroup(m, a)
       \/ /\ key[Group(a)] # None
          /\ GetOrCreate(m, a)
          /\ Chat(m, Handled(m, a), key[Group(a)], conv[SessionOf(m, a)])
          /\ UNCHANGED <<key, conv, forgets>>

\* A reset keyword without attachments never reaches Dify.  Without a pool
\* reset() raises KeyError, which _route answers with the error text.
ReceiveReset(m, a) ==
    /\ msg[m].pc = "unsent"
    /\ \/ HandleUnknownGroup(m, a)
       \/ /\ key[Group(a)] # None
          /\ sess' = Without({a})
          /\ forgets' = Forget({a})
          /\ SetMsg(m, [Reply(msg[m]) EXCEPT !.account = a])
          /\ UNCHANGED <<key, conv>>

-----------------------------------------------------------------------------
(* Images, files and mixed messages: download, then handle, then upload.   *)

\* A mixed message without an image is a text.
ReceiveMedia(m, a) ==
    /\ msg[m].pc = "unsent"
    /\ \E n \in 1..MaxFiles :
          SetMsg(m, [msg[m] EXCEPT !.pc = "download", !.account = a, !.files = n, !.left = n])
    /\ UNCHANGED <<key, sess, conv, forgets>>

\* One file that cannot be downloaded ends the message, whatever else it holds.
DownloadFails(m) ==
    /\ msg[m].pc = "download"
    /\ SetMsg(m, Reply(msg[m]))
    /\ UNCHANGED <<key, sess, conv, forgets>>

OneDownloaded(m) ==
    /\ msg[m].pc = "download"
    /\ msg[m].left > 1
    /\ SetMsg(m, [msg[m] EXCEPT !.left = @ - 1])
    /\ UNCHANGED <<key, sess, conv, forgets>>

\* With the last file the handler gets its session, then refuses an empty or too large
\* file or begins to upload.
Downloaded(m) ==
    /\ msg[m].pc = "download"
    /\ msg[m].left = 1
    /\ LET a == msg[m].account
       IN  \/ HandleUnknownGroup(m, a)
           \/ /\ key[Group(a)] # None
              /\ GetOrCreate(m, a)
              /\ \/ SetMsg(m, [Handled(m, a) EXCEPT !.pc = "upload", !.left = msg[m].files,
                                                   !.upload_key = key[Group(a)]])
                 \/ SetMsg(m, Reply(Handled(m, a)))
              /\ UNCHANGED <<key, conv, forgets>>

UploadFails(m) ==
    /\ msg[m].pc = "upload"
    /\ SetMsg(m, Reply(msg[m]))
    /\ UNCHANGED <<key, sess, conv, forgets>>

\* What the message knows with one more file uploaded.
WithUpload(r) == [r EXCEPT !.left = @ - 1, !.refs = @ + 1]

OneUploaded(m) ==
    /\ msg[m].pc = "upload"
    /\ msg[m].left > 1
    /\ SetMsg(m, WithUpload(msg[m]))
    /\ UNCHANGED <<key, sess, conv, forgets>>

\* Mutant: a chat call with the group looked up again after the upload.
UploadedThenLookup(m) ==
    /\ msg[m].pc = "upload"
    /\ msg[m].left = 1
    /\ key[Group(msg[m].account)] # None
    /\ Chat(m, WithUpload(msg[m]), key[Group(msg[m].account)], conv[msg[m].obj])
    /\ UNCHANGED <<key, sess, conv, forgets>>

\* The last file is uploaded, under the key and to the user read before.
Uploaded(m) ==
    /\ msg[m].pc = "upload"
    /\ msg[m].left = 1
    /\ Chat(m, WithUpload(msg[m]), msg[m].upload_key, conv[msg[m].obj])
    /\ UNCHANGED <<key, sess, conv, forgets>>

-----------------------------------------------------------------------------
(* The answer of Dify, and the reply.                                      *)

\* DifyError: an HTTP error, an error event, a timeout, a lost connection.  No
\* session is touched, so the conversation_id stays even if Dify refused it.
ChatFails(m) ==
    /\ msg[m].pc = "chat"
    /\ SetMsg(m, Reply(msg[m]))
    /\ UNCHANGED <<key, sess, conv, forgets>>

\* Dify continues the conversation it was sent, which it knows only under the key
\* it was opened with, or opens one.
ConversationOf(m) == IF msg[m].sent = None THEN m ELSE msg[m].sent

KnowsConversation(m) ==
    msg[m].sent # None => msg[msg[m].sent].key = msg[m].key

\* Mutant: looks the session up again, so that a reset during the call is undone.
RememberedByLookup(m, id) ==
    IF id = None \/ msg[m].account \notin DOMAIN sess THEN conv
    ELSE [conv EXCEPT ![sess[msg[m].account]] = id]

\* The id goes into the object the handler holds; if the stream carried none,
\* nothing does.
Remembered(m, id) == IF id = None THEN conv ELSE [conv EXCEPT ![msg[m].obj] = id]

\* An empty answer is an error for the user, but its conversation is kept.
ChatReturns(m) ==
    /\ msg[m].pc = "chat"
    /\ KnowsConversation(m)
    /\ \E id \in {None, ConversationOf(m)} : conv' = Remembered(m, id)
    /\ SetMsg(m, Reply(msg[m]))
    /\ UNCHANGED <<key, sess, forgets>>

ReplySent(m) ==
    /\ msg[m].pc = "reply"
    /\ SetMsg(m, Ended(m))
    /\ UNCHANGED <<key, sess, conv, forgets>>

\* A failed send is repeated after a delay, up to the number of attempts.
ReplyFails(m) ==
    /\ msg[m].pc = "reply"
    /\ SetMsg(m, IF msg[m].failures + 1 = SendRetryAttempts THEN Ended(m)
                 ELSE [msg[m] EXCEPT !.failures = @ + 1])
    /\ UNCHANGED <<key, sess, conv, forgets>>

-----------------------------------------------------------------------------
(* What other parts of the program do meanwhile.                           *)

\* GroupManager.apply: a new dify_api_key in place, or a new group.
SetKey(g, k) ==
    /\ key' = [key EXCEPT ![g] = k]
    /\ UNCHANGED <<sess, conv, msg, forgets>>

\* Mutant: forgets to remove the pool.
RemoveGroupOnly(g) ==
    /\ key[g] # None
    /\ \A a \in {g} \X Users : forgets[a] < MaxForgets
    /\ key' = [key EXCEPT ![g] = None]
    /\ UNCHANGED <<sess, conv, msg, forgets>>

\* GroupManager.apply: the group and its pool go.
RemoveGroup(g) ==
    /\ key[g] # None
    /\ \A a \in {g} \X Users : forgets[a] < MaxForgets
    /\ key' = [key EXCEPT ![g] = None]
    /\ sess' = Without({g} \X Users)
    /\ forgets' = Forget({g} \X Users)
    /\ UNCHANGED <<conv, msg>>

\* TTL or LRU.
Evict(a) ==
    /\ a \in DOMAIN sess
    /\ sess' = Without({a})
    /\ UNCHANGED <<key, conv, msg, forgets>>

-----------------------------------------------------------------------------
Init ==
    /\ key \in [Groups -> Keys]
    /\ sess = << >>
    /\ conv = [m \in Messages |-> None]
    /\ msg = [m \in Messages |-> Unsent]
    /\ forgets = [a \in Accounts |-> 0]

Receive(m) == \E a \in Accounts : ReceiveText(m, a) \/ ReceiveReset(m, a) \/ ReceiveMedia(m, a)

Download(m) == OneDownloaded(m) \/ Downloaded(m) \/ DownloadFails(m)
Upload(m) == OneUploaded(m) \/ Uploaded(m) \/ UploadFails(m)
Answer(m) == ChatReturns(m) \/ ChatFails(m)
Send(m) == ReplySent(m) \/ ReplyFails(m)

Environment ==
    \/ \E g \in Groups : RemoveGroup(g) \/ \E k \in Keys : SetKey(g, k)
    \/ \E a \in Accounts : Evict(a)

Next ==
    \/ \E m \in Messages : Receive(m) \/ Download(m) \/ Upload(m) \/ Answer(m) \/ Send(m)
    \/ Environment

Spec == Init /\ [][Next]_vars

-----------------------------------------------------------------------------
MessageRecords ==
    [pc : {"unsent", "download", "upload", "chat", "reply", "ended"},
     account : Accounts \cup {None}, obj : Messages \cup {None},
     upload_key : Keys \cup {None}, key : Keys \cup {None}, sent : Messages \cup {None},
     since : Nat, failures : 0..SendRetryAttempts - 1,
     files : 0..MaxFiles, left : 0..MaxFiles, refs : 0..MaxFiles]

IsMessage(r) ==
    /\ r.left <= r.files /\ r.refs <= r.files
    /\ r.pc \in {"upload", "chat"} <=> r.obj # None
    /\ r.pc \in {"download", "upload"} <=> r.left > 0

\* Sessions are of configured groups only, and a handler holds one exactly while
\* it awaits Dify.
TypeOK ==
    /\ key \in [Groups -> Keys \cup {None}]
    /\ DOMAIN sess \subseteq {a \in Accounts : key[Group(a)] # None}
    /\ \A a \in DOMAIN sess : sess[a] \in Messages
    /\ conv \in [Messages -> Messages \cup {None}]
    /\ forgets \in [Accounts -> Nat]
    /\ msg \in [Messages -> MessageRecords]
    /\ \A m \in Messages : IsMessage(msg[m])

Continues(m) == msg[m].sent # None

\* "each user keeps their own conversation history": a chat call continues only a
\* conversation that was opened for the same user of the same group, even if
\* sessions were evicted, reset and made again while calls were in flight.
ConversationIsPrivate ==
    \A m \in Messages :
        Continues(m) => msg[msg[m].sent].account = msg[m].account

\* "Keywords that start a new conversation": what was said before a reset (or the
\* removal of the group) is never continued by a message handled after it, however
\* late the answers of the earlier messages come in.
ResetForgets ==
    \A m \in Messages :
        Continues(m) => msg[msg[m].sent].since = msg[m].since

\* "partial forwarding of a mixed message would be more confusing than useful", "both
\* calls must carry the same identity": what Dify is asked about has all the files of
\* the message, whichever of their downloads and uploads failed, and they were uploaded
\* under the key of the call, although it may rotate in between.
FilesGoTogether ==
    \A m \in Messages :
        msg[m].pc = "chat" =>
            /\ msg[m].refs = msg[m].files
            /\ msg[m].files > 0 => msg[m].upload_key = msg[m].key
=============================================================================
