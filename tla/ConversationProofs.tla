-------------------------- MODULE ConversationProofs --------------------------
(***************************************************************************)
(* The properties of Conversation, for every set of groups, users, keys    *)
(* and messages: whatever answers come late and whatever was reset,        *)
(* evicted, rotated or removed meanwhile.                                  *)
(***************************************************************************)
EXTENDS Conversation, TLAPS

\* A message that got its session, or was answered without one: its account and the
\* time of its account do not change any more.
Past(r) == r.pc \notin {"unsent", "download"}

\* Message o spoke for the account and the time that r speaks for.
Speaks(r, o) == o \in Messages /\ Past(msg[o]) /\ msg[o].account = r.account /\ msg[o].since = r.since

\* What a handler has done so far.
Coherent(r) ==
    /\ r \in MessageRecords
    /\ IsMessage(r)
    /\ r.pc = "unsent" => r = Unsent
    /\ r.pc = "download" => r.refs = 0 /\ r.account \in Accounts
    /\ r.pc = "upload" => r.refs + r.left = r.files
    /\ r.pc = "chat" => r.refs = r.files /\ (r.files > 0 => r.upload_key = r.key)
    /\ r.sent # None => r.pc = "chat"

\* The session a message has and the conversation it continues are of its account and
\* of its time.
Linked(r) ==
    /\ r.obj # None => Speaks(r, r.obj)
    /\ r.sent # None => Speaks(r, r.sent)

\* So is the session an account has, and the conversation a session has.
SessionsSpeak ==
    \A a \in DOMAIN sess : Speaks([account |-> a, since |-> forgets[a]], sess[a])

ConversationsSpeak ==
    \A o \in Messages : conv[o] # None => Past(msg[o]) /\ Speaks(msg[o], conv[o])

IInv ==
    /\ TypeOK
    /\ \A m \in Messages : Coherent(msg[m]) /\ Linked(msg[m])
    /\ SessionsSpeak
    /\ ConversationsSpeak

-----------------------------------------------------------------------------
LEMMA UnsentIsCoherent == Coherent(Unsent) /\ Unsent.pc = "unsent" /\ Unsent.sent = None
<1>1. Unsent \in MessageRecords
  BY ConversationAssumption DEF Unsent, MessageRecords, SendRetryAttempts
<1>. QED  BY <1>1 DEF Unsent, Coherent, IsMessage

LEMMA InitIInv == Init => IInv
<1>. SUFFICES ASSUME Init PROVE IInv
  OBVIOUS
<1>1. \A m \in Messages : msg[m] = Unsent /\ conv[m] = None
  BY DEF Init
<1>2. DOMAIN sess = {}
  BY DEF Init
<1>3. \A m \in Messages : Coherent(msg[m]) /\ Linked(msg[m])
  <2>1. Unsent.obj = None /\ Unsent.sent = None
    BY DEF Unsent
  <2>. QED  BY <1>1, <2>1, UnsentIsCoherent DEF Linked
<1>4. TypeOK
  <2>1. key \in [Groups -> Keys \cup {None}] /\ conv \in [Messages -> Messages \cup {None}]
        /\ forgets \in [Accounts -> Nat]
    BY DEF Init
  <2>2. msg \in [Messages -> MessageRecords] /\ \A m \in Messages : IsMessage(msg[m])
    BY <1>1, UnsentIsCoherent DEF Init, Coherent
  <2>. QED  BY <1>2, <2>1, <2>2 DEF TypeOK
<1>. QED  BY <1>1, <1>2, <1>3, <1>4 DEF IInv, SessionsSpeak, ConversationsSpeak

-----------------------------------------------------------------------------
\* A step of the handler of one message, whatever becomes of sessions and conversations:
\* those of the past keep their account and time, and records stay coherent and linked.
LEMMA MessageStep ==
    ASSUME IInv, NEW m \in Messages, NEW r, SetMsg(m, r),
           Coherent(r),
           Past(msg[m]) => Past(r) /\ r.account = msg[m].account /\ r.since = msg[m].since,
           r.obj # None => Speaks(r, r.obj) \/ (r.obj = m /\ Past(r)),
           r.sent # None => Speaks(r, r.sent)
    PROVE  /\ msg' \in [Messages -> MessageRecords]
           /\ \A n \in Messages : Coherent(msg[n])' /\ Linked(msg[n])'
           /\ \A q, o : Speaks(q, o) => Speaks(q, o)'
           /\ \A n \in Messages : n # m => msg'[n] = msg[n]
           /\ msg'[m] = r
<1>1. msg \in [Messages -> MessageRecords]
  BY DEF IInv, TypeOK
<1>2. /\ \A n \in Messages : n # m => msg'[n] = msg[n]
      /\ msg'[m] = r
      /\ r \in MessageRecords
      /\ msg' \in [Messages -> MessageRecords]
  BY <1>1 DEF SetMsg, Coherent
<1>3. \A q, o : Speaks(q, o) => o \in Messages /\ Past(msg'[o]) /\ msg'[o].account = q.account
                                /\ msg'[o].since = q.since
  BY <1>2 DEF Speaks
<1>4. \A n \in Messages : Coherent(msg'[n])
  BY <1>2 DEF IInv
<1>5. \A n \in Messages : Linked(msg[n])'
  <2>. SUFFICES ASSUME NEW n \in Messages
                PROVE  /\ msg'[n].obj # None =>
                            /\ msg'[n].obj \in Messages
                            /\ Past(msg'[msg'[n].obj])
                            /\ msg'[msg'[n].obj].account = msg'[n].account
                            /\ msg'[msg'[n].obj].since = msg'[n].since
                       /\ msg'[n].sent # None =>
                            /\ msg'[n].sent \in Messages
                            /\ Past(msg'[msg'[n].sent])
                            /\ msg'[msg'[n].sent].account = msg'[n].account
                            /\ msg'[msg'[n].sent].since = msg'[n].since
    BY DEF Linked, Speaks, Past
  <2>1. CASE n # m
    BY <1>2, <1>3, <2>1 DEF IInv, Linked
  <2>2. CASE n = m
    BY <1>2, <1>3, <2>2
  <2>. QED  BY <2>1, <2>2
<1>6. \A q, o : Speaks(q, o) => Speaks(q, o)'
  BY <1>3 DEF Speaks, Past
<1>7. \A n \in Messages : Coherent(msg[n])'
  BY <1>4 DEF Coherent, IsMessage
<1>. QED  BY <1>2, <1>5, <1>6, <1>7

\* ... while sessions and conversations stay as they are.
LEMMA QuietStep ==
    ASSUME IInv, NEW m \in Messages, NEW r, SetMsg(m, r),
           Coherent(r),
           Past(msg[m]) => Past(r) /\ r.account = msg[m].account /\ r.since = msg[m].since,
           r.obj # None => Speaks(r, r.obj) \/ (r.obj = m /\ Past(r)),
           r.sent # None => Speaks(r, r.sent),
           UNCHANGED <<key, sess, conv, forgets>>
    PROVE  IInv'
<1>1. /\ msg' \in [Messages -> MessageRecords]
      /\ \A n \in Messages : Coherent(msg[n])' /\ Linked(msg[n])'
      /\ \A q, o : Speaks(q, o) => Speaks(q, o)'
      /\ \A n \in Messages : n # m => msg'[n] = msg[n]
      /\ msg'[m] = r
  BY MessageStep
<1>2. TypeOK'
  BY <1>1 DEF IInv, TypeOK, Coherent
<1>3. SessionsSpeak'
  BY <1>1 DEF IInv, SessionsSpeak
<1>4. ConversationsSpeak'
  <2>. SUFFICES ASSUME NEW o \in Messages, conv[o] # None
                PROVE  Past(msg'[o]) /\ Speaks(msg[o], conv[o])'
    BY DEF ConversationsSpeak, Past
  <2>1. Past(msg[o]) /\ Speaks(msg[o], conv[o])
    BY DEF IInv, ConversationsSpeak
  <2>2. Past(msg'[o]) /\ msg'[o].account = msg[o].account /\ msg'[o].since = msg[o].since
    BY <1>1, <2>1
  <2>. QED  BY <1>1, <2>1, <2>2 DEF Speaks
<1>. QED  BY <1>1, <1>2, <1>3, <1>4 DEF IInv

-----------------------------------------------------------------------------
\* The records a handler goes through.

LEMMA ReplyRecord ==
    ASSUME NEW r, r \in MessageRecords, NEW a \in Accounts \cup {None}
    PROVE  /\ Coherent(Reply(r)) /\ Past(Reply(r))
           /\ Reply(r).obj = None /\ Reply(r).sent = None
           /\ Reply(r).account = r.account /\ Reply(r).since = r.since
           /\ Coherent([Reply(r) EXCEPT !.account = a])
           /\ Past([Reply(r) EXCEPT !.account = a])
           /\ [Reply(r) EXCEPT !.account = a].obj = None
           /\ [Reply(r) EXCEPT !.account = a].sent = None
<1>1. r \in MessageRecords
  OBVIOUS
<1>2. /\ Reply(r) \in MessageRecords
      /\ Reply(r).pc = "reply" /\ Reply(r).obj = None /\ Reply(r).sent = None
      /\ Reply(r).account = r.account /\ Reply(r).since = r.since
      /\ Reply(r).left = 0 /\ Reply(r).refs = 0 /\ Reply(r).files = 0
  <2>1. Unsent \in MessageRecords
    BY UnsentIsCoherent DEF Coherent
  <2>2. /\ Unsent.obj = None /\ Unsent.sent = None
        /\ Unsent.left = 0 /\ Unsent.refs = 0 /\ Unsent.files = 0
    BY DEF Unsent
  <2>3. /\ r.account \in Accounts \cup {None} /\ r.key \in Keys \cup {None}
        /\ r.since \in Nat
    BY <1>1 DEF MessageRecords
  <2>. QED  BY <2>1, <2>2, <2>3 DEF Reply, MessageRecords
<1>3. ASSUME NEW q, q \in MessageRecords, q.pc = "reply", q.obj = None, q.sent = None,
             q.left = 0, q.refs = 0, q.files = 0
      PROVE  Coherent(q) /\ Past(q)
  BY <1>3 DEF Coherent, IsMessage, Past
<1>. DEFINE q == [Reply(r) EXCEPT !.account = a]
<1>4. /\ q \in MessageRecords
      /\ q.pc = "reply" /\ q.obj = None /\ q.sent = None
      /\ q.left = 0 /\ q.refs = 0 /\ q.files = 0
  BY <1>2 DEF MessageRecords
<1>. HIDE DEF q
<1>5. Coherent(q) /\ Past(q) /\ Coherent(Reply(r)) /\ Past(Reply(r))
  BY <1>2, <1>3, <1>4
<1>. QED  BY <1>2, <1>4, <1>5 DEF q

LEMMA CoherentMessage ==
    ASSUME IInv, NEW m \in Messages
    PROVE  Coherent(msg[m]) /\ Linked(msg[m]) /\ msg[m] \in MessageRecords /\ IsMessage(msg[m])
BY DEF IInv, Coherent

-----------------------------------------------------------------------------
LEMMA UnknownGroupIInv ==
    ASSUME IInv, NEW m \in Messages, NEW a \in Accounts, HandleUnknownGroup(m, a),
           ~ Past(msg[m])
    PROVE  IInv'
BY CoherentMessage, ReplyRecord, QuietStep DEF HandleUnknownGroup

LEMMA FailIInv ==
    ASSUME IInv, NEW m \in Messages, DownloadFails(m) \/ UploadFails(m) \/ ChatFails(m)
    PROVE  IInv'
<1>1. SetMsg(m, Reply(msg[m])) /\ UNCHANGED <<key, sess, conv, forgets>>
  BY DEF DownloadFails, UploadFails, ChatFails
<1>2. /\ Coherent(Reply(msg[m])) /\ Past(Reply(msg[m]))
      /\ Reply(msg[m]).obj = None /\ Reply(msg[m]).sent = None
      /\ Reply(msg[m]).account = msg[m].account /\ Reply(msg[m]).since = msg[m].since
  BY CoherentMessage, ReplyRecord
<1>. QED  BY <1>1, <1>2, QuietStep

LEMMA MediaIInv ==
    ASSUME IInv, NEW m \in Messages, NEW a \in Accounts, ReceiveMedia(m, a)
    PROVE  IInv'
<1>1. PICK n \in 1..MaxFiles :
        SetMsg(m, [msg[m] EXCEPT !.pc = "download", !.account = a, !.files = n, !.left = n])
  BY DEF ReceiveMedia
<1>. DEFINE r == [msg[m] EXCEPT !.pc = "download", !.account = a, !.files = n, !.left = n]
<1>2. Coherent(msg[m]) /\ msg[m] = Unsent
  BY CoherentMessage DEF ReceiveMedia, Coherent
<1>3. /\ r \in MessageRecords
      /\ r.pc = "download" /\ r.files = n /\ r.left = n
      /\ r.obj = None /\ r.sent = None /\ r.refs = 0 /\ r.account = a
  <2>1. msg[m] \in MessageRecords
    BY <1>2 DEF Coherent
  <2>2. msg[m].obj = None /\ msg[m].sent = None /\ msg[m].refs = 0
    BY <1>2 DEF Unsent
  <2>3. n \in 0..MaxFiles
    BY ConversationAssumption
  <2>. QED  BY <2>1, <2>2, <2>3 DEF MessageRecords
<1>. HIDE DEF r
<1>4. Coherent(r)
  BY <1>3, ConversationAssumption DEF Coherent, IsMessage
<1>5. ~ Past(msg[m])
  BY DEF ReceiveMedia, Past
<1>6. SetMsg(m, r) /\ UNCHANGED <<key, sess, conv, forgets>>
  BY <1>1 DEF ReceiveMedia, r
<1>. QED  BY <1>3, <1>4, <1>5, <1>6, QuietStep

LEMMA FilesIInv ==
    ASSUME IInv, NEW m \in Messages, OneDownloaded(m) \/ OneUploaded(m) \/ Uploaded(m)
    PROVE  IInv'
<1>0. /\ Coherent(msg[m]) /\ Linked(msg[m]) /\ msg[m] \in MessageRecords /\ IsMessage(msg[m])
      /\ msg[m].left \in Nat /\ msg[m].refs \in Nat /\ msg[m].files \in Nat
      /\ msg[m].files <= MaxFiles
  <2>1. msg[m] \in MessageRecords
    BY CoherentMessage
  <2>2. msg[m].left \in 0..MaxFiles /\ msg[m].refs \in 0..MaxFiles /\ msg[m].files \in 0..MaxFiles
    BY <2>1 DEF MessageRecords
  <2>. QED  BY <2>2, CoherentMessage, ConversationAssumption
<1>1. CASE OneDownloaded(m)
  <2>. DEFINE r == [msg[m] EXCEPT !.left = @ - 1]
  <2>1. /\ msg[m].pc = "download" /\ msg[m].left > 1 /\ msg[m].refs = 0
        /\ msg[m].obj = None /\ msg[m].sent = None /\ msg[m].left <= msg[m].files
        /\ msg[m].account \in Accounts
    BY <1>0, <1>1 DEF OneDownloaded, Coherent, IsMessage
  <2>2. /\ r \in MessageRecords
        /\ r.pc = "download" /\ r.left = msg[m].left - 1 /\ r.files = msg[m].files
        /\ r.refs = 0 /\ r.obj = None /\ r.sent = None
        /\ r.account = msg[m].account
    <3>1. msg[m].left - 1 \in 0..MaxFiles
      BY <1>0, <2>1, ConversationAssumption
    <3>. QED  BY <1>0, <2>1, <3>1 DEF MessageRecords
  <2>3. SetMsg(m, r) /\ UNCHANGED <<key, sess, conv, forgets>> /\ ~ Past(msg[m])
    BY <1>1 DEF OneDownloaded, Past
  <2>. HIDE DEF r
  <2>4. Coherent(r)
    BY <1>0, <2>1, <2>2 DEF Coherent, IsMessage
  <2>. QED  BY <2>2, <2>3, <2>4, QuietStep
<1>2. CASE OneUploaded(m) \/ Uploaded(m)
  <2>. DEFINE w == WithUpload(msg[m])
              r == [w EXCEPT !.pc = "chat", !.key = msg[m].upload_key,
                             !.sent = conv[msg[m].obj]]
  <2>1. /\ msg[m].pc = "upload" /\ msg[m].obj # None /\ msg[m].sent = None
        /\ msg[m].refs + msg[m].left = msg[m].files /\ msg[m].left > 0
        /\ Past(msg[m])
    BY <1>0, <1>2 DEF OneUploaded, Uploaded, Coherent, IsMessage, Past
  <2>2. /\ w \in MessageRecords
        /\ w.pc = "upload" /\ w.left = msg[m].left - 1 /\ w.refs = msg[m].refs + 1
        /\ w.files = msg[m].files /\ w.obj = msg[m].obj /\ w.sent = None
        /\ w.account = msg[m].account /\ w.since = msg[m].since
        /\ w.upload_key = msg[m].upload_key
    <3>1. msg[m].left - 1 \in 0..MaxFiles /\ msg[m].refs + 1 \in 0..MaxFiles
      BY <1>0, <2>1, ConversationAssumption
    <3>. QED  BY <1>0, <2>1, <3>1 DEF MessageRecords, WithUpload
  <2>3. Speaks(w, w.obj)
    BY <1>0, <2>1, <2>2 DEF Linked, Speaks
  <2>4. CASE OneUploaded(m)
    <3>1. SetMsg(m, w) /\ UNCHANGED <<key, sess, conv, forgets>> /\ msg[m].left > 1
      BY <2>4 DEF OneUploaded
    <3>. HIDE DEF w
    <3>2. Coherent(w)
      BY <1>0, <2>1, <2>2, <3>1 DEF Coherent, IsMessage
    <3>. QED  BY <2>1, <2>2, <2>3, <3>1, <3>2, QuietStep DEF Past
  <2>5. CASE Uploaded(m)
    <3>1. SetMsg(m, r) /\ UNCHANGED <<key, sess, conv, forgets>> /\ msg[m].left = 1
      BY <2>5 DEF Uploaded, Chat
    <3>2. msg[m].obj \in Messages /\ conv[msg[m].obj] \in Messages \cup {None}
          /\ msg[m].upload_key \in Keys \cup {None}
      BY <1>0, <2>1 DEF Linked, Speaks, IInv, TypeOK, MessageRecords
    <3>. HIDE DEF w
    <3>3. /\ r \in MessageRecords
          /\ r.pc = "chat" /\ r.left = 0 /\ r.refs = msg[m].files /\ r.files = msg[m].files
          /\ r.obj = msg[m].obj /\ r.sent = conv[msg[m].obj]
          /\ r.key = r.upload_key
          /\ r.account = msg[m].account /\ r.since = msg[m].since
      <4>1. w.left = 0 /\ w.refs = msg[m].files
        BY <1>0, <2>1, <2>2, <3>1
      <4>. QED  BY <2>2, <3>2, <4>1 DEF MessageRecords
    <3>. HIDE DEF r
    <3>4. Coherent(r) /\ Past(r)
      BY <1>0, <2>1, <3>3 DEF Coherent, IsMessage, Past
    <3>5. Speaks(r, r.obj)
      BY <2>2, <2>3, <3>3 DEF Speaks
    <3>6. r.sent # None => Speaks(r, r.sent)
      BY <3>2, <3>3, <3>5 DEF IInv, ConversationsSpeak, Speaks
    <3>. QED  BY <3>1, <3>3, <3>4, <3>5, <3>6, QuietStep
  <2>. QED  BY <1>2, <2>4, <2>5
<1>. QED  BY <1>1, <1>2

LEMMA SendIInv ==
    ASSUME IInv, NEW m \in Messages, Send(m)
    PROVE  IInv'
<1>0. /\ Coherent(msg[m]) /\ Linked(msg[m]) /\ msg[m] \in MessageRecords /\ IsMessage(msg[m])
  BY CoherentMessage
<1>1. /\ msg[m].pc = "reply" /\ Past(msg[m])
      /\ msg[m].obj = None /\ msg[m].sent = None
      /\ UNCHANGED <<key, sess, conv, forgets>>
  BY <1>0 DEF Send, ReplySent, ReplyFails, Coherent, IsMessage, Past
<1>2. PICK pc \in {"reply", "ended"}, f \in 0..SendRetryAttempts - 1 :
        SetMsg(m, [msg[m] EXCEPT !.pc = pc, !.failures = f])
  <2>1. CASE SetMsg(m, Ended(m))
    BY <2>1 DEF Ended, SendRetryAttempts
  <2>2. CASE ReplyFails(m) /\ msg[m].failures + 1 # SendRetryAttempts
    <3>1. msg[m].failures + 1 \in 0..SendRetryAttempts - 1
      BY <1>0, <2>2 DEF MessageRecords, SendRetryAttempts
    <3>2. SetMsg(m, [msg[m] EXCEPT !.failures = msg[m].failures + 1])
      BY <2>2 DEF ReplyFails
    <3>3. [msg[m] EXCEPT !.failures = msg[m].failures + 1]
            = [msg[m] EXCEPT !.pc = "reply", !.failures = msg[m].failures + 1]
      BY <1>0, <1>1 DEF MessageRecords
    <3>. QED  BY <3>1, <3>2, <3>3
  <2>. QED  BY <2>1, <2>2 DEF Send, ReplySent, ReplyFails
<1>. DEFINE r == [msg[m] EXCEPT !.pc = pc, !.failures = f]
<1>3. /\ r \in MessageRecords /\ r.pc = pc
      /\ r.obj = None /\ r.sent = None /\ r.account = msg[m].account /\ r.since = msg[m].since
      /\ r.left = msg[m].left /\ r.refs = msg[m].refs /\ r.files = msg[m].files
  BY <1>0, <1>1 DEF MessageRecords
<1>. HIDE DEF r
<1>4. Coherent(r) /\ Past(r)
  BY <1>0, <1>1, <1>3 DEF Coherent, IsMessage, Past
<1>5. SetMsg(m, r)
  BY <1>2 DEF r
<1>. QED  BY <1>1, <1>3, <1>4, <1>5, QuietStep

-----------------------------------------------------------------------------
\* get_or_create: the account has a session, that of an earlier message or a new one
\* named m, which has no conversation yet.
LEMMA GetOrCreateStep ==
    ASSUME IInv, NEW m \in Messages, NEW a \in Accounts, key[Group(a)] # None,
           ~ Past(msg[m]), GetOrCreate(m, a),
           NEW r, SetMsg(m, r), Coherent(r), Past(r),
           r.account = a, r.since = forgets[a],
           r.obj \in {None, SessionOf(m, a)},
           r.sent # None => r.sent = conv[SessionOf(m, a)],
           UNCHANGED <<key, conv, forgets>>
    PROVE  IInv'
<1>1. /\ SessionOf(m, a) \in Messages
      /\ SessionOf(m, a) = m \/ Speaks(r, SessionOf(m, a))
  <2>1. CASE a \in DOMAIN sess
    BY <2>1 DEF IInv, SessionsSpeak, SessionOf, Speaks
  <2>2. CASE a \notin DOMAIN sess
    BY <2>2 DEF SessionOf
  <2>. QED  BY <2>1, <2>2
<1>2. conv[m] = None
  BY DEF IInv, ConversationsSpeak
<1>3. r.obj # None => Speaks(r, r.obj) \/ (r.obj = m /\ Past(r))
  BY <1>1
<1>4. r.sent # None => Speaks(r, r.sent)
  <2>. SUFFICES ASSUME r.sent # None PROVE Speaks(r, r.sent)
    OBVIOUS
  <2>1. SessionOf(m, a) # m
    BY <1>2
  <2>2. Speaks(r, SessionOf(m, a)) /\ Speaks(msg[SessionOf(m, a)], r.sent)
    BY <1>1, <2>1 DEF IInv, ConversationsSpeak
  <2>. QED  BY <2>2 DEF Speaks
<1>5. /\ msg' \in [Messages -> MessageRecords]
      /\ \A n \in Messages : Coherent(msg[n])' /\ Linked(msg[n])'
      /\ \A q, o : Speaks(q, o) => Speaks(q, o)'
      /\ \A n \in Messages : n # m => msg'[n] = msg[n]
      /\ msg'[m] = r
  BY <1>3, <1>4, MessageStep
<1>6. /\ DOMAIN sess' = DOMAIN sess \cup {a}
      /\ sess'[a] = SessionOf(m, a)
      /\ \A b \in DOMAIN sess : sess'[b] = sess[b]
  BY DEF GetOrCreate, SessionOf
<1>7. TypeOK'
  <2>1. \A b \in DOMAIN sess' : sess'[b] \in Messages
    BY <1>1, <1>6 DEF IInv, TypeOK
  <2>2. DOMAIN sess' \subseteq {b \in Accounts : key[Group(b)] # None}
    BY <1>6 DEF IInv, TypeOK
  <2>. QED  BY <1>5, <2>1, <2>2 DEF IInv, TypeOK, Coherent
<1>8. SessionsSpeak'
  <2>. SUFFICES ASSUME NEW b \in DOMAIN sess'
                PROVE  /\ sess'[b] \in Messages /\ Past(msg'[sess'[b]])
                       /\ msg'[sess'[b]].account = b /\ msg'[sess'[b]].since = forgets[b]
    BY DEF SessionsSpeak, Speaks, Past
  <2>1. CASE b \in DOMAIN sess
    <3>1. sess'[b] = sess[b]
      BY <1>6, <2>1
    <3>2. /\ sess[b] \in Messages /\ Past(msg[sess[b]])
          /\ msg[sess[b]].account = b /\ msg[sess[b]].since = forgets[b]
      BY <2>1 DEF IInv, SessionsSpeak, Speaks
    <3>3. sess[b] # m
      BY <3>2
    <3>. QED  BY <1>5, <3>1, <3>2, <3>3
  <2>2. CASE b \notin DOMAIN sess
    <3>1. b = a /\ sess'[b] = m
      BY <1>6, <2>2 DEF SessionOf
    <3>. QED  BY <1>5, <3>1
  <2>. QED  BY <2>1, <2>2
<1>9. ConversationsSpeak'
  <2>. SUFFICES ASSUME NEW o \in Messages, conv[o] # None
                PROVE  Past(msg'[o]) /\ Speaks(msg[o], conv[o])'
    BY DEF ConversationsSpeak, Past
  <2>1. Past(msg[o]) /\ Speaks(msg[o], conv[o])
    BY DEF IInv, ConversationsSpeak
  <2>2. msg'[o] = msg[o]
    BY <1>2, <1>5
  <2>. QED  BY <1>5, <2>1, <2>2 DEF Speaks
<1>. QED  BY <1>5, <1>7, <1>8, <1>9 DEF IInv

LEMMA ReceiveTextIInv ==
    ASSUME IInv, NEW m \in Messages, NEW a \in Accounts, ReceiveText(m, a)
    PROVE  IInv'
<1>0. Coherent(msg[m]) /\ msg[m] = Unsent /\ ~ Past(msg[m])
  BY CoherentMessage DEF ReceiveText, Coherent, Past
<1>1. CASE HandleUnknownGroup(m, a)
  BY <1>0, <1>1, UnknownGroupIInv
<1>2. CASE ~ HandleUnknownGroup(m, a)
  <2>. DEFINE id == conv[SessionOf(m, a)]
              h == Handled(m, a)
              r == [h EXCEPT !.pc = "chat", !.key = key[Group(a)], !.sent = id]
  <2>1. /\ key[Group(a)] # None /\ GetOrCreate(m, a) /\ SetMsg(m, r)
        /\ UNCHANGED <<key, conv, forgets>>
    BY <1>2 DEF ReceiveText, Chat
  <2>2. /\ SessionOf(m, a) \in Messages /\ SessionOf(m, a) # None
        /\ id \in Messages \cup {None} /\ key[Group(a)] \in Keys \cup {None}
        /\ forgets[a] \in Nat
    <3>1. SessionOf(m, a) \in Messages
      BY DEF SessionOf, IInv, TypeOK
    <3>2. Group(a) \in Groups
      BY DEF Accounts, Group
    <3>. QED  BY <3>1, <3>2, ConversationAssumption DEF IInv, TypeOK
  <2>. HIDE DEF id
  <2>3. /\ r \in MessageRecords
        /\ r.pc = "chat" /\ r.account = a /\ r.since = forgets[a]
        /\ r.obj = SessionOf(m, a) /\ r.sent = id
        /\ r.left = 0 /\ r.files = 0 /\ r.refs = 0
    <3>1. /\ msg[m] \in MessageRecords
          /\ msg[m].left = 0 /\ msg[m].files = 0 /\ msg[m].refs = 0
      BY <1>0 DEF Coherent, Unsent
    <3>2. /\ h \in MessageRecords
          /\ h.account = a /\ h.since = forgets[a] /\ h.obj = SessionOf(m, a)
          /\ h.left = 0 /\ h.files = 0 /\ h.refs = 0
      BY <2>2, <3>1 DEF MessageRecords, Handled
    <3>. HIDE DEF h
    <3>. QED  BY <2>2, <3>2 DEF MessageRecords
  <2>. HIDE DEF r
  <2>4. Coherent(r) /\ Past(r)
    BY <2>2, <2>3 DEF Coherent, IsMessage, Past
  <2>5. r.sent # None => r.sent = conv[SessionOf(m, a)]
    BY <2>3 DEF id
  <2>. QED  BY <1>0, <2>1, <2>3, <2>4, <2>5, GetOrCreateStep
<1>. QED  BY <1>1, <1>2

LEMMA DownloadedIInv ==
    ASSUME IInv, NEW m \in Messages, Downloaded(m)
    PROVE  IInv'
<1>. DEFINE a == msg[m].account
<1>0. /\ Coherent(msg[m]) /\ msg[m] \in MessageRecords /\ ~ Past(msg[m])
      /\ msg[m].pc = "download" /\ msg[m].left = 1
      /\ msg[m].refs = 0 /\ msg[m].sent = None /\ msg[m].obj = None
      /\ msg[m].files \in Nat /\ msg[m].files >= 1 /\ msg[m].files \in 0..MaxFiles
  <2>1. /\ Coherent(msg[m]) /\ msg[m] \in MessageRecords /\ ~ Past(msg[m])
        /\ msg[m].pc = "download" /\ msg[m].left = 1
    BY CoherentMessage DEF Downloaded, Past
  <2>2. msg[m].files \in 0..MaxFiles
    BY <2>1 DEF MessageRecords
  <2>3. msg[m].refs = 0 /\ msg[m].sent = None /\ msg[m].obj = None /\ msg[m].left <= msg[m].files
    BY <2>1 DEF Coherent, IsMessage
  <2>. QED  BY <2>1, <2>2, <2>3
<1>1. a \in Accounts
  BY <1>0 DEF Coherent
<1>2. CASE HandleUnknownGroup(m, a)
  BY <1>0, <1>1, <1>2, UnknownGroupIInv
<1>3. CASE ~ HandleUnknownGroup(m, a)
  <2>. DEFINE h == Handled(m, a)
              u == [h EXCEPT !.pc = "upload", !.left = msg[m].files,
                             !.upload_key = key[Group(a)]]
  <2>1. /\ key[Group(a)] # None /\ GetOrCreate(m, a)
        /\ SetMsg(m, u) \/ SetMsg(m, Reply(h))
        /\ UNCHANGED <<key, conv, forgets>>
    BY <1>3 DEF Downloaded
  <2>2. /\ SessionOf(m, a) \in Messages /\ SessionOf(m, a) # None
        /\ key[Group(a)] \in Keys \cup {None}
        /\ forgets[a] \in Nat
    <3>1. SessionOf(m, a) \in Messages
      BY DEF SessionOf, IInv, TypeOK
    <3>2. Group(a) \in Groups
      BY <1>1 DEF Accounts, Group
    <3>. QED  BY <1>1, <3>1, <3>2, ConversationAssumption DEF IInv, TypeOK
  <2>. HIDE DEF a
  <2>3. /\ h \in MessageRecords
        /\ h.account = a /\ h.since = forgets[a] /\ h.obj = SessionOf(m, a)
        /\ h.refs = 0 /\ h.files = msg[m].files /\ h.sent = None
    BY <1>0, <1>1, <2>2 DEF MessageRecords, Handled
  <2>. HIDE DEF h
  <2>4. CASE SetMsg(m, u)
    <3>1. /\ u \in MessageRecords
          /\ u.pc = "upload" /\ u.account = a /\ u.since = forgets[a]
          /\ u.obj = SessionOf(m, a) /\ u.sent = None
          /\ u.left = msg[m].files /\ u.files = msg[m].files /\ u.refs = 0
      BY <1>0, <2>2, <2>3 DEF MessageRecords
    <3>. HIDE DEF u
    <3>2. Coherent(u) /\ Past(u)
      BY <1>0, <2>2, <3>1 DEF Coherent, IsMessage, Past
    <3>. QED  BY <1>0, <1>1, <2>1, <2>4, <3>1, <3>2, GetOrCreateStep
  <2>5. CASE SetMsg(m, Reply(h))
    <3>1. /\ Coherent(Reply(h)) /\ Past(Reply(h))
          /\ Reply(h).account = a /\ Reply(h).since = forgets[a]
          /\ Reply(h).obj = None /\ Reply(h).sent = None
      BY <1>1, <2>3, ReplyRecord
    <3>. QED  BY <1>0, <1>1, <2>1, <2>5, <3>1, GetOrCreateStep
  <2>. QED  BY <2>1, <2>4, <2>5
<1>. QED  BY <1>2, <1>3

-----------------------------------------------------------------------------
\* Sessions go, and with some the time of their accounts: what is left speaks as before.
LEMMA SessionsGo ==
    ASSUME IInv, NEW S, NEW F, F \subseteq S,
           sess' = Without(S), forgets' = Forget(F),
           \A o \in Messages : Past(msg[o]) =>
               /\ Past(msg'[o])
               /\ msg'[o].account = msg[o].account /\ msg'[o].since = msg[o].since
    PROVE  /\ SessionsSpeak'
           /\ DOMAIN sess' = DOMAIN sess \ S
           /\ \A b \in DOMAIN sess' : sess'[b] \in Messages
           /\ forgets' \in [Accounts -> Nat]
<1>1. /\ DOMAIN sess' = DOMAIN sess \ S
      /\ \A b \in DOMAIN sess' : sess'[b] = sess[b]
  BY DEF Without, Restrict
<1>2. DOMAIN sess \subseteq Accounts /\ \A b \in DOMAIN sess : sess[b] \in Messages
  BY DEF IInv, TypeOK
<1>3. forgets' \in [Accounts -> Nat]
  <2>1. forgets \in [Accounts -> Nat]
    BY DEF IInv, TypeOK
  <2>. QED  BY <2>1 DEF Forget
<1>4. \A b \in DOMAIN sess' : forgets'[b] = forgets[b]
  BY <1>1, <1>2 DEF Forget
<1>5. SessionsSpeak'
  <2>. SUFFICES ASSUME NEW b \in DOMAIN sess'
                PROVE  /\ sess'[b] \in Messages /\ Past(msg'[sess'[b]])
                       /\ msg'[sess'[b]].account = b /\ msg'[sess'[b]].since = forgets'[b]
    BY DEF SessionsSpeak, Speaks, Past
  <2>. DEFINE s == sess[b]
  <2>1. s \in Messages /\ Past(msg[s]) /\ msg[s].account = b /\ msg[s].since = forgets[b]
    BY <1>1 DEF IInv, SessionsSpeak, Speaks
  <2>2. sess'[b] = s /\ forgets'[b] = forgets[b]
    BY <1>1, <1>4
  <2>. QED  BY <2>1, <2>2
<1>. QED  BY <1>1, <1>2, <1>3, <1>5

LEMMA ReceiveResetIInv ==
    ASSUME IInv, NEW m \in Messages, NEW a \in Accounts, ReceiveReset(m, a)
    PROVE  IInv'
<1>0. Coherent(msg[m]) /\ msg[m] \in MessageRecords /\ ~ Past(msg[m])
  BY CoherentMessage DEF ReceiveReset, Past
<1>1. CASE HandleUnknownGroup(m, a)
  BY <1>0, <1>1, UnknownGroupIInv
<1>2. CASE ~ HandleUnknownGroup(m, a)
  <2>. DEFINE r == [Reply(msg[m]) EXCEPT !.account = a]
  <2>1. /\ sess' = Without({a}) /\ forgets' = Forget({a}) /\ SetMsg(m, r)
        /\ UNCHANGED <<key, conv>>
    BY <1>2 DEF ReceiveReset
  <2>2. Coherent(r) /\ r.obj = None /\ r.sent = None
    BY <1>0, ReplyRecord
  <2>. HIDE DEF r
  <2>3. /\ msg' \in [Messages -> MessageRecords]
        /\ \A n \in Messages : Coherent(msg[n])' /\ Linked(msg[n])'
        /\ \A q, o : Speaks(q, o) => Speaks(q, o)'
        /\ \A n \in Messages : n # m => msg'[n] = msg[n]
        /\ \A n \in Messages : Past(msg[n]) => msg'[n] = msg[n]
    BY <1>0, <2>1, <2>2, MessageStep
  <2>4. /\ SessionsSpeak'
        /\ DOMAIN sess' = DOMAIN sess \ {a}
        /\ \A b \in DOMAIN sess' : sess'[b] \in Messages
        /\ forgets' \in [Accounts -> Nat]
    BY <2>1, <2>3, SessionsGo
  <2>5. TypeOK'
    BY <2>1, <2>3, <2>4 DEF IInv, TypeOK, Coherent
  <2>6. ConversationsSpeak'
    <3>. SUFFICES ASSUME NEW o \in Messages, conv[o] # None
                  PROVE  Past(msg'[o]) /\ Speaks(msg[o], conv[o])'
      BY <2>1 DEF ConversationsSpeak, Past
    <3>1. Past(msg[o]) /\ Speaks(msg[o], conv[o])
      BY DEF IInv, ConversationsSpeak
    <3>2. msg'[o] = msg[o]
      BY <1>0, <2>3, <3>1
    <3>. QED  BY <2>1, <2>3, <3>1, <3>2 DEF Speaks
  <2>. QED  BY <2>3, <2>4, <2>5, <2>6 DEF IInv
<1>. QED  BY <1>1, <1>2

\* Outside the handlers.
LEMMA SetKeyIInv ==
    ASSUME IInv, NEW g \in Groups, NEW k \in Keys, SetKey(g, k)
    PROVE  IInv'
<1>1. /\ UNCHANGED <<sess, conv, msg, forgets>>
      /\ key' \in [Groups -> Keys \cup {None}]
      /\ \A h \in Groups : key[h] # None => key'[h] # None
  BY ConversationAssumption DEF SetKey, IInv, TypeOK
<1>2. TypeOK'
  <2>1. \A a \in Accounts : Group(a) \in Groups
    BY DEF Accounts, Group
  <2>. QED  BY <1>1, <2>1 DEF IInv, TypeOK, IsMessage
<1>3. \A n \in Messages : Coherent(msg[n])' /\ Linked(msg[n])'
  BY <1>1 DEF IInv, Coherent, IsMessage, Linked, Speaks, Past
<1>. QED  BY <1>1, <1>2, <1>3 DEF IInv, SessionsSpeak, ConversationsSpeak, Speaks, Past

LEMMA EnvironmentIInv ==
    ASSUME IInv, NEW S, NEW F, F \subseteq S,
           sess' = Without(S), forgets' = Forget(F), UNCHANGED <<conv, msg>>,
           key' \in [Groups -> Keys \cup {None}],
           \A a \in Accounts \ S : key[Group(a)] # None => key'[Group(a)] # None
    PROVE  IInv'
<1>1. /\ SessionsSpeak'
      /\ DOMAIN sess' = DOMAIN sess \ S
      /\ \A b \in DOMAIN sess' : sess'[b] \in Messages
      /\ forgets' \in [Accounts -> Nat]
  BY SessionsGo DEF IInv, TypeOK
<1>2. DOMAIN sess' \subseteq {a \in Accounts : key'[Group(a)] # None}
  BY <1>1 DEF IInv, TypeOK
<1>3. TypeOK'
  BY <1>1, <1>2 DEF IInv, TypeOK, IsMessage
<1>4. \A n \in Messages : Coherent(msg[n])' /\ Linked(msg[n])'
  BY DEF IInv, Coherent, IsMessage, Linked, Speaks, Past
<1>. QED  BY <1>1, <1>3, <1>4 DEF IInv, ConversationsSpeak, Speaks, Past

LEMMA RemoveGroupIInv ==
    ASSUME IInv, NEW g \in Groups, RemoveGroup(g)
    PROVE  IInv'
<1>1. \A a \in Accounts \ ({g} \X Users) : Group(a) \in Groups /\ Group(a) # g
  BY DEF Accounts, Group
<1>2. /\ key' \in [Groups -> Keys \cup {None}]
      /\ \A h \in Groups : h # g => key'[h] = key[h]
  BY DEF RemoveGroup, IInv, TypeOK
<1>. QED  BY <1>1, <1>2, EnvironmentIInv DEF RemoveGroup

LEMMA EvictIInv ==
    ASSUME IInv, NEW a \in Accounts, Evict(a)
    PROVE  IInv'
<1>1. forgets' = Forget({})
  BY DEF Evict, Forget, IInv, TypeOK
<1>2. key' \in [Groups -> Keys \cup {None}]
  BY DEF Evict, IInv, TypeOK
<1>. QED  BY <1>1, <1>2, EnvironmentIInv DEF Evict

\* The answer goes into the handler's own session, whether or not that is still live:
\* its conversation is the one the call continued, or opened.
LEMMA ChatReturnsIInv ==
    ASSUME IInv, NEW m \in Messages, ChatReturns(m)
    PROVE  IInv'
<1>. DEFINE r == Reply(msg[m])
            s == msg[m].obj
<1>1. PICK id \in {None, ConversationOf(m)} : conv' = Remembered(m, id)
  BY DEF ChatReturns
<1>2. /\ SetMsg(m, r) /\ UNCHANGED <<key, sess, forgets>>
      /\ msg[m].pc = "chat" /\ Past(msg[m])
      /\ Coherent(msg[m]) /\ msg[m] \in MessageRecords /\ Linked(msg[m]) /\ IsMessage(msg[m])
  BY CoherentMessage DEF ChatReturns, Past
<1>3. /\ Coherent(r) /\ Past(r) /\ r.obj = None /\ r.sent = None
      /\ r.account = msg[m].account /\ r.since = msg[m].since
  BY <1>2, ReplyRecord
<1>. HIDE DEF r
<1>4. /\ msg' \in [Messages -> MessageRecords]
      /\ \A n \in Messages : Coherent(msg[n])' /\ Linked(msg[n])'
      /\ \A q, o : Speaks(q, o) => Speaks(q, o)'
      /\ \A n \in Messages : n # m => msg'[n] = msg[n]
      /\ msg'[m] = r
  BY <1>2, <1>3, MessageStep
<1>5. s \in Messages /\ Speaks(msg[m], s)
  BY <1>2 DEF IsMessage, Linked, Speaks
<1>6. ConversationOf(m) \in Messages /\ Speaks(msg[m], ConversationOf(m))
  BY <1>2 DEF ConversationOf, Linked, Speaks
<1>7. /\ conv' \in [Messages -> Messages \cup {None}]
      /\ \A o \in Messages : conv'[o] # None =>
            \/ conv'[o] = conv[o]
            \/ o = s /\ conv'[o] = ConversationOf(m)
  <2>1. conv \in [Messages -> Messages \cup {None}]
    BY DEF IInv, TypeOK
  <2>2. CASE id = None
    BY <1>1, <2>1, <2>2 DEF Remembered
  <2>3. CASE id # None
    BY <1>1, <1>5, <1>6, <2>1, <2>3 DEF Remembered
  <2>. QED  BY <2>2, <2>3
<1>8. \A o \in Messages : Past(msg[o]) =>
          Past(msg'[o]) /\ msg'[o].account = msg[o].account /\ msg'[o].since = msg[o].since
  BY <1>3, <1>4
<1>9. ConversationsSpeak'
  <2>. SUFFICES ASSUME NEW o \in Messages, conv'[o] # None
                PROVE  /\ Past(msg'[o]) /\ conv'[o] \in Messages /\ Past(msg'[conv'[o]])
                       /\ msg'[conv'[o]].account = msg'[o].account
                       /\ msg'[conv'[o]].since = msg'[o].since
    BY DEF ConversationsSpeak, Past, Speaks
  <2>1. Past(msg[o]) /\ Speaks(msg[o], conv'[o])
    <3>1. CASE conv'[o] = conv[o]
      BY <3>1 DEF IInv, ConversationsSpeak
    <3>2. CASE o = s /\ conv'[o] = ConversationOf(m)
      BY <1>5, <1>6, <3>2 DEF Speaks
    <3>. QED  BY <1>7, <3>1, <3>2
  <2>. DEFINE p == conv'[o]
  <2>2. Past(msg'[o]) /\ p \in Messages
        /\ Past(msg'[p]) /\ msg'[p].account = msg'[o].account
        /\ msg'[p].since = msg'[o].since
    BY <1>8, <2>1 DEF Speaks
  <2>. QED  BY <2>2
<1>10. SessionsSpeak'
  BY <1>2, <1>4 DEF IInv, SessionsSpeak
<1>11. TypeOK'
  BY <1>2, <1>4, <1>7 DEF IInv, TypeOK, Coherent
<1>. QED  BY <1>4, <1>9, <1>10, <1>11 DEF IInv

-----------------------------------------------------------------------------
LEMMA NextIInv == ASSUME IInv, [Next]_vars PROVE IInv'
<1>1. CASE \E m \in Messages : Receive(m) \/ Download(m) \/ Upload(m) \/ Answer(m) \/ Send(m)
  <2>. PICK m \in Messages : Receive(m) \/ Download(m) \/ Upload(m) \/ Answer(m) \/ Send(m)
    BY <1>1
  <2>1. CASE Receive(m)
    BY <2>1, ReceiveTextIInv, ReceiveResetIInv, MediaIInv DEF Receive
  <2>2. CASE Download(m)
    BY <2>2, FilesIInv, DownloadedIInv, FailIInv DEF Download
  <2>3. CASE Upload(m)
    BY <2>3, FilesIInv, FailIInv DEF Upload
  <2>4. CASE Answer(m)
    BY <2>4, ChatReturnsIInv, FailIInv DEF Answer
  <2>5. CASE Send(m)
    BY <2>5, SendIInv
  <2>. QED  BY <2>1, <2>2, <2>3, <2>4, <2>5
<1>2. CASE Environment
  BY <1>2, RemoveGroupIInv, SetKeyIInv, EvictIInv DEF Environment
<1>3. CASE UNCHANGED vars
  BY <1>3 DEF vars, IInv, TypeOK, Coherent, IsMessage, Linked, SessionsSpeak,
              ConversationsSpeak, Speaks, Past
<1>. QED  BY <1>1, <1>2, <1>3 DEF Next

\* The inductive invariant: every session and every conversation, in the pools and in
\* the hands of the handlers, speaks for the account and the time of its holder.
THEOREM Invariance == Spec => []IInv
<1>1. Init => IInv
  BY InitIInv
<1>2. IInv /\ [Next]_vars => IInv'
  BY NextIInv
<1>. QED  BY <1>1, <1>2, PTL DEF Spec

\* Sessions are of configured groups only, and a handler holds one exactly while it
\* awaits Dify.
THEOREM TypeCorrect == Spec => []TypeOK
<1>1. IInv => TypeOK
  BY DEF IInv
<1>. QED  BY <1>1, Invariance, PTL

\* A chat call continues only a conversation that was opened for the same user of the
\* same group, whatever was evicted, reset and made again while calls were in flight.
THEOREM ConversationsArePrivate == Spec => []ConversationIsPrivate
<1>1. IInv => ConversationIsPrivate
  BY DEF IInv, Linked, Speaks, ConversationIsPrivate, Continues
<1>. QED  BY <1>1, Invariance, PTL

\* What was said before a reset or the removal of the group is never continued by a
\* message handled after it.
THEOREM ResetsForget == Spec => []ResetForgets
<1>1. IInv => ResetForgets
  BY DEF IInv, Linked, Speaks, ResetForgets, Continues
<1>. QED  BY <1>1, Invariance, PTL

\* Dify is asked about all the files of a message, uploaded under the key of the call.
THEOREM FilesStayTogether == Spec => []FilesGoTogether
<1>1. IInv => FilesGoTogether
  BY DEF IInv, Coherent, FilesGoTogether
<1>. QED  BY <1>1, Invariance, PTL
=============================================================================
