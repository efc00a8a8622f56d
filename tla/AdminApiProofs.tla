---------------------------- MODULE AdminApiProofs ----------------------------
(***************************************************************************)
(* The requests and the shared connection of AdminApi, for any number of   *)
(* requests, rows and names, with or without another program.              *)
(***************************************************************************)
EXTENDS AdminApi, TLAPS

\* All that a request may look like, and what belongs together in it: what a handler that
\* has come so far knows.
AnyRequest ==
    [pc : {"idle", "list", "write", "commit"},
     kind : {"create", "put", "toggle", "delete", Blank},
     target : Ids \cup {Blank}, row : Rows \cup {Blank},
     body : Bodies \cup BOOLEAN \cup {Blank}, found : BOOLEAN]

Coherent(q) ==
    /\ IsRequest(q)
    /\ q.pc = "idle" => q = Idle
    /\ q.pc = "list" => q.kind = "put"
    /\ q.pc # "idle" => q.kind # Blank
    /\ q.pc # "idle" /\ q.kind # "create" => q.target \in Ids
    /\ q.pc \in {"write", "commit"} /\ q.kind \in {"create", "put"} => q.row \in Rows

\* NamesAreUnique of any table, row by row.
Distinct(t) ==
    \A i, j \in Ids : i # j /\ HasRow(t, i) /\ HasRow(t, j) => t[i].name # t[j].name

TablesOK ==
    /\ file \in Tables /\ seen \in Tables /\ view \in Tables
    /\ Distinct(file) /\ Distinct(view)

\* One writer at a time: SQLite's lock.
ConnectionOK ==
    /\ txn \in {"none", "begun", "reading", "writing"}
    /\ stale \in BOOLEAN
    /\ other \in {"idle", "writing"}
    /\ stale => txn = "reading"
    /\ view # file => stale \/ txn = "writing"
    /\ ~ (other = "writing" /\ txn = "writing")

RequestsOK ==
    /\ req \in [Requests -> AnyRequest]
    /\ \A r \in Requests : Coherent(req[r])
    /\ uncommitted \subseteq Requests
    /\ AnsweredIsDecided

IInv == TablesOK /\ ConnectionOK /\ RequestsOK

-----------------------------------------------------------------------------
\* The reading of NamesAreUnique that the proofs use.
LEMMA DistinctNames ==
    ASSUME NEW t
    PROVE  Distinct(t) <=> \A i \in Ids : HasRow(t, i) => t[i].name \notin TakenNames(t, i)
BY DEF Distinct, TakenNames

\* A row whose name the others have not, or none, keeps a table's names distinct.
LEMMA OneRowChanged ==
    ASSUME NEW t \in Tables, Distinct(t), NEW i \in Ids, NEW row \in Rows \cup {Deleted},
           row \in Rows => row.name \notin TakenNames(t, i)
    PROVE  [t EXCEPT ![i] = row] \in Tables /\ Distinct([t EXCEPT ![i] = row])
<1>. DEFINE u == [t EXCEPT ![i] = row]
<1>1. u \in Tables
  BY DEF Tables
<1>2. u[i] = row /\ \A j \in Ids \ {i} : u[j] = t[j]
  BY DEF Tables
<1>3. \A j \in Ids \ {i} : HasRow(t, j) /\ row \in Rows => t[j].name # row.name
  BY DEF TakenNames
<1>4. HasRow(u, i) => row \in Rows
  BY <1>2 DEF HasRow
<1>5. \A j \in Ids \ {i} : HasRow(u, j) <=> HasRow(t, j)
  BY <1>2 DEF HasRow
<1>. HIDE DEF u
<1>6. Distinct(u)
  BY <1>2, <1>3, <1>4, <1>5 DEF Distinct
<1>. QED  BY <1>1, <1>6 DEF u

\* No request.
LEMMA IdleIsCoherent == Idle \in AnyRequest /\ Coherent(Idle) /\ Idle.pc = "idle"
BY AdminApiAssumption DEF Idle, AnyRequest, Coherent, IsRequest

\* Reading and failing leave the tables and the writes alone.
LEMMA ReadingKeeps ==
    ASSUME IInv, Select \/ WriteFailed, UNCHANGED <<file, other>>
    PROVE  /\ ConnectionOK'
           /\ UNCHANGED <<file, view, uncommitted>>
<1>1. UNCHANGED <<file, view, stale, uncommitted, other>>
  BY DEF Select, WriteFailed
<1>2. /\ txn' \in {"none", "begun", "reading", "writing"}
      /\ txn = "reading" => txn' = "reading"
      /\ txn' = "writing" <=> txn = "writing"
  BY DEF Select, WriteFailed, IInv, ConnectionOK
<1>. QED  BY <1>1, <1>2 DEF IInv, ConnectionOK

\* One request changes, and what it is agrees with whether its write is uncommitted.
LEMMA OneRequestChanged ==
    ASSUME RequestsOK, NEW r \in Requests, NEW q \in AnyRequest, Coherent(q), Set(r, q),
           uncommitted' \subseteq uncommitted \cup {r},
           r \in uncommitted' => q.pc = "commit"
    PROVE  RequestsOK'
<1>1. req' = [req EXCEPT ![r] = q] /\ req' \in [Requests -> AnyRequest]
  BY DEF Set, RequestsOK
<1>2. req'[r] = q /\ \A s \in Requests \ {r} : req'[s] = req[s]
  BY <1>1 DEF RequestsOK
<1>3. \A s \in Requests : Coherent(req'[s])
  BY <1>2 DEF RequestsOK
<1>4. uncommitted' \subseteq Requests /\ \A s \in uncommitted' : req'[s].pc = "commit"
  BY <1>2 DEF RequestsOK, AnsweredIsDecided
<1>. QED  BY <1>1, <1>3, <1>4 DEF RequestsOK, AnsweredIsDecided

-----------------------------------------------------------------------------
\* The initial table has one row.
LEMMA InitIInv == Init => IInv
<1>. SUFFICES ASSUME Init PROVE IInv
  OBVIOUS
<1>1. PICK i \in Ids, row \in Rows : file = [j \in Ids |-> IF j = i THEN row ELSE Unused]
  BY DEF Init
<1>2. file \in Tables
  BY <1>1 DEF Tables
<1>3. \A j \in Ids : HasRow(file, j) => j = i
  BY <1>1 DEF HasRow
<1>4. TablesOK
  BY <1>2, <1>3 DEF Init, TablesOK, Distinct
<1>5. RequestsOK
  BY IdleIsCoherent DEF Init, RequestsOK, AnsweredIsDecided
<1>6. ConnectionOK
  BY DEF Init, ConnectionOK
<1>. QED  BY <1>4, <1>5, <1>6 DEF IInv

\* A new request.
LEMMA ReceiveIInv == ASSUME IInv, NEW r \in Requests, Receive(r) PROVE IInv'
<1>1. PICK q : q \in AnyRequest /\ Coherent(q) /\ Set(r, q)
  <2>1. ASSUME NEW row \in NewRows, Set(r, Request("create", Blank, row))
        PROVE  \E q : q \in AnyRequest /\ Coherent(q) /\ Set(r, q)
    <3>1. /\ Request("create", Blank, row) \in AnyRequest
          /\ Coherent(Request("create", Blank, row))
      BY AdminApiAssumption DEF Request, Idle, AnyRequest, Coherent, IsRequest
    <3>. QED  BY <2>1, <3>1
  <2>2. ASSUME NEW i \in Ids, NEW body \in Bodies,
               Set(r, [Request("put", i, Blank) EXCEPT !.pc = "list", !.body = body])
        PROVE  \E q : q \in AnyRequest /\ Coherent(q) /\ Set(r, q)
    <3>. DEFINE q == [Request("put", i, Blank) EXCEPT !.pc = "list", !.body = body]
    <3>1. q \in AnyRequest /\ Coherent(q)
      BY AdminApiAssumption DEF Request, Idle, AnyRequest, Coherent, IsRequest
    <3>. QED  BY <2>2, <3>1
  <2>3. ASSUME NEW i \in Ids, NEW e \in BOOLEAN,
               Set(r, [Request("toggle", i, Blank) EXCEPT !.body = e])
        PROVE  \E q : q \in AnyRequest /\ Coherent(q) /\ Set(r, q)
    <3>. DEFINE q == [Request("toggle", i, Blank) EXCEPT !.body = e]
    <3>1. q \in AnyRequest /\ Coherent(q)
      BY AdminApiAssumption DEF Request, Idle, AnyRequest, Coherent, IsRequest
    <3>. QED  BY <2>3, <3>1
  <2>4. ASSUME NEW i \in Ids, Set(r, Request("delete", i, Blank))
        PROVE  \E q : q \in AnyRequest /\ Coherent(q) /\ Set(r, q)
    <3>1. /\ Request("delete", i, Blank) \in AnyRequest
          /\ Coherent(Request("delete", i, Blank))
      BY AdminApiAssumption DEF Request, Idle, AnyRequest, Coherent, IsRequest
    <3>. QED  BY <2>4, <3>1
  <2>. QED  BY <2>1, <2>2, <2>3, <2>4 DEF Receive
<1>2. UNCHANGED <<file, txn, view, stale, uncommitted, other, seen>> /\ r \notin uncommitted
  BY DEF Receive, connection, IInv, RequestsOK, AnsweredIsDecided
<1>3. RequestsOK'
  BY <1>1, <1>2, OneRequestChanged DEF IInv
<1>. QED  BY <1>2, <1>3 DEF IInv, TablesOK, ConnectionOK

\* A PUT has found the row that it fills the blanks from, or has not.
LEMMA ListRowsIInv == ASSUME IInv, NEW r \in Requests, ListRows(r) PROVE IInv'
<1>1. ConnectionOK' /\ UNCHANGED <<file, view, uncommitted, seen>>
  BY ReadingKeeps DEF ListRows
<1>2. /\ req[r] \in AnyRequest /\ Coherent(req[r]) /\ req[r].pc = "list"
      /\ r \notin uncommitted /\ RequestsOK
  BY DEF ListRows, IInv, RequestsOK, AnsweredIsDecided
<1>3. req[r].kind = "put" /\ req[r].body \in AllBodies /\ req[r].target \in Ids
  BY <1>2, AdminApiAssumption DEF Coherent, IsRequest
<1>4. CASE HasRow(view, req[r].target)
  <2>. DEFINE row == Merged(req[r].body, view[req[r].target])
              q == [req[r] EXCEPT !.pc = "write", !.row = row]
  <2>1. view[req[r].target] \in Rows
    BY <1>3, <1>4 DEF HasRow, IInv, TablesOK, Tables
  <2>2. row \in Rows
    BY <1>3, <2>1 DEF Merged, ValueOrCurrent, AllBodies, Rows
  <2>. HIDE DEF row
  <2>3. q \in AnyRequest
    BY <1>2, <2>2 DEF AnyRequest
  <2>4. /\ q.pc = "write" /\ q.row = row /\ q.kind = "put" /\ q.target = req[r].target
        /\ q.body = req[r].body /\ q.found = req[r].found
    BY <1>2, <1>3 DEF AnyRequest
  <2>5. Coherent(q)
    BY <1>2, <1>3, <2>2, <2>4, AdminApiAssumption DEF Coherent, IsRequest
  <2>6. Set(r, q)
    BY <1>4 DEF ListRows, row
  <2>. HIDE DEF q
  <2>7. RequestsOK'
    BY <1>1, <1>2, <2>3, <2>5, <2>6, OneRequestChanged
  <2>. QED  BY <1>1, <2>7 DEF IInv, TablesOK
<1>5. CASE ~ HasRow(view, req[r].target)
  <2>1. RequestsOK'
    BY <1>1, <1>2, <1>5, IdleIsCoherent, OneRequestChanged DEF ListRows
  <2>. QED  BY <1>1, <2>1 DEF IInv, TablesOK
<1>. QED  BY <1>4, <1>5

\* A request whose statement was executed, or matched no row, goes on to commit().
LEMMA ExecutedIsCoherent ==
    ASSUME IInv, NEW r \in Requests, req[r].pc = "write", NEW f \in BOOLEAN
    PROVE  /\ [req[r] EXCEPT !.pc = "commit", !.found = f] \in AnyRequest
           /\ Coherent([req[r] EXCEPT !.pc = "commit", !.found = f])
<1>. DEFINE q == [req[r] EXCEPT !.pc = "commit", !.found = f]
<1>1. req[r] \in AnyRequest /\ Coherent(req[r])
  BY DEF IInv, RequestsOK
<1>2. q \in AnyRequest
  BY <1>1 DEF AnyRequest
<1>3. /\ q.pc = "commit" /\ q.found = f /\ q.row = req[r].row /\ q.kind = req[r].kind
      /\ q.target = req[r].target /\ q.body = req[r].body
  BY <1>1 DEF AnyRequest
<1>4. Coherent(q)
  BY <1>1, <1>3 DEF Coherent, IsRequest
<1>. QED  BY <1>2, <1>4

\* What a statement writes is a row that the table can take.
LEMMA WrittenIsARow ==
    ASSUME IInv, NEW r \in Requests, req[r].pc = "write", CanTarget(r), Matches(r), Unique(r)
    PROVE  /\ Target(r) \in Ids
           /\ Written(r) \in Rows \cup {Deleted}
           /\ Written(r) \in Rows => Written(r).name \notin TakenNames(view, Target(r))
<1>1. Coherent(req[r]) /\ req[r].kind \in {"create", "put", "toggle", "delete"}
  BY DEF IInv, RequestsOK, Coherent, IsRequest
<1>2. Target(r) \in Ids
  BY <1>1 DEF Target, NewId, CanTarget, Coherent
<1>3. CASE req[r].kind \in {"create", "put"}
  <2>1. Written(r) = req[r].row /\ req[r].row \in Rows
    BY <1>1, <1>3 DEF Written, Coherent
  <2>. QED  BY <1>2, <1>3, <2>1 DEF Unique
<1>4. CASE req[r].kind = "toggle"
  <2>. DEFINE old == view[Target(r)]
  <2>1. HasRow(view, Target(r)) /\ old \in Rows
    BY <1>2, <1>4 DEF Matches, HasRow, IInv, TablesOK, Tables
  <2>2. Written(r) = [old EXCEPT !.enabled = req[r].body] /\ req[r].body \in BOOLEAN
    BY <1>1, <1>4 DEF Written, Coherent, IsRequest
  <2>3. Written(r) \in Rows /\ Written(r).name = old.name
    BY <2>1, <2>2 DEF Rows
  <2>4. old.name \notin TakenNames(view, Target(r))
    BY <1>2, <2>1, DistinctNames DEF IInv, TablesOK
  <2>. QED  BY <1>2, <2>3, <2>4
<1>5. CASE req[r].kind = "delete"
  <2>1. Written(r) = Deleted
    BY <1>5 DEF Written
  <2>. QED  BY <1>2, <2>1, AdminApiAssumption
<1>. QED  BY <1>1, <1>3, <1>4, <1>5

\* The statement has been executed.
LEMMA ExecuteIInv == ASSUME IInv, NEW r \in Requests, Execute(r) PROVE IInv'
<1>1. /\ req[r].pc = "write" /\ CanTarget(r) /\ CanWrite
      /\ UNCHANGED <<file, other, seen>> /\ RequestsOK
  BY DEF Execute, IInv
<1>2. CASE /\ Matches(r) /\ Unique(r)
           /\ Write(r, [view EXCEPT ![Target(r)] = Written(r)])
           /\ Set(r, [req[r] EXCEPT !.pc = "commit"])
  <2>. DEFINE t == [view EXCEPT ![Target(r)] = Written(r)]
  <2>1. t \in Tables /\ Distinct(t)
    <3>1. view \in Tables /\ Distinct(view)
      BY DEF IInv, TablesOK
    <3>. QED  BY <1>1, <1>2, <3>1, WrittenIsARow, OneRowChanged
  <2>. HIDE DEF t
  <2>2. /\ txn' = "writing" /\ view' = t /\ stale' = stale
        /\ uncommitted' = uncommitted \cup {r}
    BY <1>2 DEF Write, t
  <2>3. TablesOK'
    BY <1>1, <2>1, <2>2 DEF IInv, TablesOK
  <2>4. ConnectionOK'
    BY <1>1, <2>2 DEF IInv, ConnectionOK, CanWrite
  <2>5. [req[r] EXCEPT !.pc = "commit"] = [req[r] EXCEPT !.pc = "commit", !.found = req[r].found]
        /\ req[r].found \in BOOLEAN
    BY DEF IInv, RequestsOK, AnyRequest
  <2>6. /\ [req[r] EXCEPT !.pc = "commit"] \in AnyRequest
        /\ Coherent([req[r] EXCEPT !.pc = "commit"])
    BY <1>1, <2>5, ExecutedIsCoherent
  <2>7. [req[r] EXCEPT !.pc = "commit"].pc = "commit"
    BY DEF IInv, RequestsOK, AnyRequest
  <2>8. RequestsOK'
    BY <1>1, <1>2, <2>2, <2>6, <2>7, OneRequestChanged
  <2>. QED  BY <2>3, <2>4, <2>8 DEF IInv
<1>3. CASE /\ ~ Matches(r)
           /\ WriteRefused
           /\ Set(r, [req[r] EXCEPT !.pc = "commit", !.found = FALSE])
  <2>1. txn' = "writing" /\ UNCHANGED <<view, stale, uncommitted>>
    BY <1>3 DEF WriteRefused
  <2>2. ConnectionOK' /\ TablesOK'
    BY <1>1, <2>1 DEF IInv, ConnectionOK, CanWrite, TablesOK
  <2>3. [req[r] EXCEPT !.pc = "commit", !.found = FALSE].pc = "commit"
    BY DEF IInv, RequestsOK, AnyRequest
  <2>4. RequestsOK'
    BY <1>1, <1>3, <2>1, <2>3, ExecutedIsCoherent, OneRequestChanged
  <2>. QED  BY <2>2, <2>4 DEF IInv
<1>. QED  BY <1>2, <1>3 DEF Execute

\* The request ends with its write undone or not executed.
LEMMA RefusedIInv ==
    ASSUME IInv, NEW r \in Requests,
           ExecuteConflict(r) \/ ExecuteLocked(r) \/ ExecuteUnbindable(r)
    PROVE  IInv'
<1>1. /\ req[r].pc = "write" /\ Set(r, Idle)
      /\ UNCHANGED <<file, other, seen>> /\ RequestsOK
  BY DEF ExecuteConflict, ExecuteLocked, ExecuteUnbindable, IInv
<1>2. ConnectionOK' /\ UNCHANGED <<view, uncommitted>>
  <2>1. CASE WriteFailed
    BY <1>1, <2>1, ReadingKeeps
  <2>2. CASE CanWrite /\ WriteRefused
    BY <1>1, <2>2 DEF WriteRefused, CanWrite, IInv, ConnectionOK
  <2>. QED  BY <2>1, <2>2 DEF ExecuteConflict, ExecuteLocked, ExecuteUnbindable
<1>3. r \notin uncommitted
  BY <1>1 DEF RequestsOK, AnsweredIsDecided
<1>4. RequestsOK'
  BY <1>1, <1>2, <1>3, IdleIsCoherent, OneRequestChanged
<1>. QED  BY <1>1, <1>2, <1>4 DEF IInv, TablesOK

\* All that was written is in the file.
LEMMA CommitIInv == ASSUME IInv, NEW r \in Requests, CommitAndAnswer(r) PROVE IInv'
<1>1. /\ Set(r, Idle) /\ RequestsOK /\ UNCHANGED <<other, seen>>
      /\ file' \in {file, view} /\ view' = file' /\ txn' = "none" /\ stale' = FALSE
      /\ uncommitted' = {}
  BY DEF CommitAndAnswer, Commit, IInv
<1>2. RequestsOK'
  BY <1>1, IdleIsCoherent, OneRequestChanged
<1>. QED  BY <1>1, <1>2 DEF IInv, TablesOK, ConnectionOK

\* Reads of the administrator and of the loop.
LEMMA ReadIInv == ASSUME IInv, ListGroups \/ LoopReads PROVE IInv'
<1>1. ConnectionOK' /\ UNCHANGED <<file, view, uncommitted, req>> /\ seen' \in {seen, view}
  BY ReadingKeeps DEF ListGroups, LoopReads
<1>. QED  BY <1>1 DEF IInv, TablesOK, RequestsOK, AnsweredIsDecided

\* The process starts again from the file.
LEMMA RestartIInv == ASSUME IInv, Restart PROVE IInv'
<1>1. RequestsOK'
  BY IdleIsCoherent DEF Restart, RequestsOK, AnsweredIsDecided
<1>. QED  BY <1>1 DEF Restart, IInv, TablesOK, ConnectionOK

\* The other program writes to the file while the connection holds no lock.
LEMMA OtherIInv == ASSUME IInv, Other PROVE IInv'
<1>1. UNCHANGED <<uncommitted, req, seen, txn>>
  BY DEF Other, OtherBegins, OtherCommits, OtherRollsBack, connection
<1>2. RequestsOK'
  BY <1>1 DEF IInv, RequestsOK, AnsweredIsDecided
<1>3. CASE OtherBegins \/ OtherRollsBack
  <2>1. UNCHANGED <<file, view, stale>> /\ other' \in {"idle", "writing"}
        /\ (other' = "writing" => txn # "writing")
    BY <1>3 DEF OtherBegins, OtherRollsBack, connection
  <2>. QED  BY <1>1, <1>2, <2>1 DEF IInv, TablesOK, ConnectionOK
<1>4. CASE OtherCommits
  <2>1. /\ other = "writing" /\ other' = "idle" /\ stale' = (txn = "reading")
        /\ view' = IF txn = "reading" THEN view ELSE file'
    BY <1>4 DEF OtherCommits
  <2>2. file' \in Tables /\ Distinct(file')
    <3>1. PICK i \in Ids, row \in Rows \cup {Deleted} :
             /\ row # Deleted => row.name \notin TakenNames(file, i)
             /\ file' = [file EXCEPT ![i] = row]
      BY <1>4 DEF OtherCommits
    <3>2. row \in Rows => row # Deleted
      BY AdminApiAssumption
    <3>. QED  BY <3>1, <3>2, OneRowChanged DEF IInv, TablesOK
  <2>. QED  BY <1>1, <1>2, <2>1, <2>2 DEF IInv, TablesOK, ConnectionOK
<1>. QED  BY <1>3, <1>4 DEF Other

\* One step of anyone.
LEMMA NextIInv == ASSUME IInv, [Next]_vars PROVE IInv'
<1>1. CASE UNCHANGED vars
  BY <1>1 DEF vars, IInv, TablesOK, ConnectionOK, RequestsOK, AnsweredIsDecided
<1>. QED  BY <1>1, ReceiveIInv, ListRowsIInv, ExecuteIInv, RefusedIInv, CommitIInv,
             ReadIInv, RestartIInv, OtherIInv DEF Next, Handle

-----------------------------------------------------------------------------
\* The inductive invariant: distinct names in the file and in the view, one writer,
\* requests that know what they need, and no answer before the commit.
THEOREM Invariance == Spec => []IInv
<1>1. IInv /\ [Next]_vars => IInv'
  BY NextIInv
<1>. QED  BY <1>1, InitIInv, PTL DEF Spec

\* Only a transaction with a snapshot sees another table than the file.
THEOREM TypeCorrect == Spec => []TypeOK
<1>1. IInv => TypeOK
  BY DEF IInv, TablesOK, ConnectionOK, RequestsOK, Coherent, TypeOK
<1>. QED  BY <1>1, Invariance, PTL

\* No request is answered while its write is in the view and not in the file.
THEOREM AnswersAreDecided == Spec => []AnsweredIsDecided
<1>1. IInv => AnsweredIsDecided
  BY DEF IInv, RequestsOK
<1>. QED  BY <1>1, Invariance, PTL

\* No two rows share a name, in the file as in the view of the connection.
THEOREM NamesStayUnique == Spec => [](NamesAreUnique /\ Distinct(file))
<1>1. IInv => NamesAreUnique /\ Distinct(file)
  BY DistinctNames DEF IInv, TablesOK, NamesAreUnique
<1>. QED  BY <1>1, Invariance, PTL
=============================================================================
