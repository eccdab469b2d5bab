------------------------------ MODULE AsyncProofs ------------------------------
(***************************************************************************)
(* What AsyncRequest guarantees for every number of requests, SURLs,       *)
(* protocols, crashes and lost connections: its type, that no path of a    *)
(* handler leaves a transaction open, and what a client without a token    *)
(* may have left in the database (StoreProofs ends that argument).         *)
(***************************************************************************)
EXTENDS AsyncRequest, TLAPS

(* everything the session could still commit, or has *)
Rows == committed \cup work \cup saved

(* every use of the session but an INSERT that is executed *)
Statement == \/ StartTr \/ EndTr \/ AbortTr \/ SetSavepoint \/ RollbackToSavepoint
             \/ StatementFails \/ PingAnswers \/ PingFails
             \/ ConnectionDrops \/ SessionDies \/ UNCHANGED sessionVars

(* a transaction is open on a live connection only *)
Tidy == /\ link \in Links
        /\ inTrans \in BOOLEAN
        /\ link # "up" => ~inTrans

LEMMA TidyInit == SessionInit => Tidy
BY DEF SessionInit, Tidy, Links

LEMMA NotReachedTidy == ASSUME Tidy, NotReached PROVE Tidy' /\ ~inTrans /\ ~inTrans'
BY DEF Tidy, NotReached, Links

LEMMA StatementTidy == ASSUME Tidy, Statement PROVE Tidy'
<1>1. CASE NotReached
  BY <1>1, NotReachedTidy
<1>2. CASE Reached /\ inTrans' \in BOOLEAN
  BY <1>2 DEF Tidy, Reached, Links
<1>3. CASE ConnectionDrops
  BY <1>3 DEF Tidy, ConnectionDrops, Links
<1>4. CASE SessionDies
  BY <1>4 DEF Tidy, SessionDies, Links
<1>5. CASE UNCHANGED sessionVars
  BY <1>5 DEF Tidy, sessionVars
<1>6. inTrans \in BOOLEAN
  BY DEF Tidy
<1>7. QED
  BY <1>1, <1>2, <1>3, <1>4, <1>5, <1>6, Zenon
     DEF Statement, StartTr, EndTr, AbortTr, SetSavepoint, RollbackToSavepoint,
         StatementFails, PingAnswers, PingFails

(* an INSERT that is executed, though perhaps it throws *)
Inserts(row) == Insert(row) \/ ReplyLost(row)

LEMMA InsertTidy == ASSUME Tidy, NEW row, Inserts(row) PROVE Tidy'
<1>1. CASE Insert(row)
  BY <1>1 DEF Tidy, Insert, Reached, Links
<1>2. CASE ReplyLost(row)
  BY <1>2 DEF Tidy, ReplyLost, Links
<1> QED BY <1>1, <1>2 DEF Inserts

LEMMA StatementRows == ASSUME Statement PROVE Rows' \subseteq Rows
<1>1. CASE StartTr
  BY <1>1 DEF StartTr, Seen, Rows, NotReached
<1>2. CASE EndTr
  BY <1>2 DEF EndTr, Seen, Rows, NotReached
<1>3. CASE AbortTr
  BY <1>3 DEF AbortTr, Rows, NotReached
<1>4. CASE SetSavepoint
  BY <1>4 DEF SetSavepoint, Rows, NotReached
<1>5. CASE RollbackToSavepoint
  BY <1>5 DEF RollbackToSavepoint, Rows, NotReached
<1>6. CASE StatementFails \/ PingAnswers \/ PingFails
  BY <1>6 DEF StatementFails, PingAnswers, PingFails, Rows, NotReached
<1>7. CASE ConnectionDrops \/ SessionDies
  BY <1>7 DEF ConnectionDrops, SessionDies, Rows
<1>8. CASE UNCHANGED sessionVars
  BY <1>8 DEF sessionVars, Rows
<1>9. QED
  BY <1>1, <1>2, <1>3, <1>4, <1>5, <1>6, <1>7, <1>8 DEF Statement

LEMMA InsertRows == ASSUME NEW row, Inserts(row) PROVE Rows' \subseteq Rows \cup {row}
<1>1. CASE Insert(row)
  BY <1>1 DEF Insert, Rows
<1>2. CASE ReplyLost(row)
  BY <1>2 DEF ReplyLost, Rows
<1> QED BY <1>1, <1>2 DEF Inserts

------------------------------------------------------------------------------
(* The session under a step of the worker.                                 *)

(* where the worker is once it has inserted a row, and keeps its token *)
Stored == {"savepoint", "fileRow", "statusRow", "rollback", "abortAll", "protocolRows"}

(* a row is inserted: it is one of the request being handled *)
InsertsOwn == /\ pc # "idle"
              /\ pc' \in Stored
              /\ UNCHANGED <<n, replies>>
              /\ \E row : row[2] = n /\ Inserts(row)

(* the row of request_queue is inserted, and the request refused all the   *)
(* same                                                                    *)
QueueRowLost == /\ pc = "queueRow"
                /\ UNCHANGED <<n, replies>>
                /\ ReplyLost(<<"request_queue", n, 0>>)

LEMMA SessionUse == Next => Statement \/ InsertsOwn \/ QueueRowLost
<1> SUFFICES ASSUME Next PROVE Statement \/ InsertsOwn \/ QueueRowLost
  OBVIOUS
<1>1. CASE Receive \/ Decline \/ BlacklistUnknown \/ Blacklisted \/ AssignToken
           \/ CheckProtocols \/ ProtocolsDone \/ Respond
  BY <1>1 DEF Statement, Receive, Decline, BlacklistUnknown, Blacklisted,
              AssignToken, CheckProtocols, ProtocolsDone, Respond
<1>2. CASE Ping
  BY <1>2 DEF Statement, Ping
<1>3. CASE Begin \/ Commit \/ Savepoint
  BY <1>3 DEF Statement, Begin, Commit, Savepoint, Silently
<1>4. CASE InsertRequest
  <2>1. CASE Insert(<<"request_queue", n, 0>>) /\ pc' = "savepoint"
    BY <1>4, <2>1 DEF InsertRequest, InsertsOwn, Inserts, Stored
  <2>2. CASE ReplyLost(<<"request_queue", n, 0>>)
    BY <1>4, <2>2 DEF InsertRequest, QueueRowLost
  <2>3. QED
    BY <1>4, <2>1, <2>2 DEF InsertRequest, InsertFails, Statement
<1>5. CASE AbortRequest \/ RollbackSurl \/ AbortAll
  BY <1>5 DEF Statement, AbortRequest, RollbackSurl, AbortAll
<1>6. CASE InsertDirOption
  <2>1. CASE Insert(<<"request_DirOption", n, i>>) /\ pc' = "fileRow"
    BY <1>6, <2>1 DEF InsertDirOption, InsertsOwn, Inserts, Stored
  <2>2. CASE SurlFails(ReplyLost(<<"request_DirOption", n, i>>))
    BY <1>6, <2>2 DEF InsertDirOption, SurlFails, InsertsOwn, Inserts, Stored
  <2>3. QED
    BY <1>6, <2>1, <2>2 DEF InsertDirOption, SurlFails, InsertFails, Statement
<1>7. CASE InsertFile
  <2>1. CASE Insert(<<"request_file", n, i>>) /\ pc' = "statusRow"
    BY <1>7, <2>1 DEF InsertFile, InsertsOwn, Inserts, Stored
  <2>2. CASE SurlFails(ReplyLost(<<"request_file", n, i>>))
    BY <1>7, <2>2 DEF InsertFile, SurlFails, InsertsOwn, Inserts, Stored
  <2>3. QED
    BY <1>7, <2>1, <2>2 DEF InsertFile, SurlFails, InsertFails, Statement
<1>8. CASE InsertStatus
  <2>1. CASE Insert(<<"status_file", n, i>>) /\ NextSurl(surlStatus)
    BY <1>8, <2>1 DEF InsertStatus, NextSurl, InsertsOwn, Inserts, Stored
  <2>2. CASE SurlFails(ReplyLost(<<"status_file", n, i>>))
    BY <1>8, <2>2 DEF InsertStatus, SurlFails, InsertsOwn, Inserts, Stored
  <2>3. QED
    BY <1>8, <2>1, <2>2 DEF InsertStatus, SurlFails, InsertFails, Statement
<1>9. CASE InsertProtocol
  <2>1. PICK p \in unsent :
          Inserts(<<"request_TransferProtocols", n, p>>) \/ StatementFails
    BY <1>9 DEF InsertProtocol, InsertFails, Inserts
  <2>2. CASE Inserts(<<"request_TransferProtocols", n, p>>)
    BY <1>9, <2>2 DEF InsertProtocol, InsertsOwn, Stored
  <2>3. QED
    BY <2>1, <2>2 DEF Statement
<1>10. CASE Drop \/ Crash
  BY <1>10 DEF Drop, Crash, Statement
<1>11. CASE Done
  BY <1>11 DEF Done, vars, Statement
<1>12. QED
  BY <1>1, <1>2, <1>3, <1>4, <1>5, <1>6, <1>7, <1>8, <1>9, <1>10, <1>11 DEF Next

LEMMA TidyStep == ASSUME Tidy, [Next]_vars PROVE Tidy'
<1>1. Statement \/ InsertsOwn \/ QueueRowLost
  BY SessionUse DEF vars, Statement
<1>2. CASE Statement
  BY <1>2, StatementTidy
<1>3. CASE InsertsOwn \/ QueueRowLost
  BY <1>3, InsertTidy DEF InsertsOwn, QueueRowLost, Inserts
<1>4. QED
  BY <1>1, <1>2, <1>3

------------------------------------------------------------------------------
(* Types.                                                                  *)

(* what AsyncTypeOK says of the worker *)
WorkerOK ==
  /\ pc \in AsyncPc
  /\ n \in 0 .. MaxRequests
  /\ kind \in Kinds /\ dirs \subseteq Surls /\ protocols \subseteq Protocols
  /\ token \in BOOLEAN /\ status \in Statuses
  /\ surlStatus \in [Surls -> Statuses]
  /\ i \in Surls /\ unsent \subseteq Protocols
  /\ crashes \in 0 .. MaxCrashes

LEMMA EachSurlOK == ASSUME NEW s \in Statuses PROVE EachSurl(s) \in [Surls -> Statuses]
BY DEF EachSurl

LEMMA WorkerInit == AsyncInit => WorkerOK
<1>1. "REQUEST_QUEUED" \in Statuses
  BY DEF Statuses
<1>2. EachSurl("REQUEST_QUEUED") \in [Surls -> Statuses]
  BY <1>1, EachSurlOK
<1> SUFFICES ASSUME AsyncInit PROVE WorkerOK
  OBVIOUS
<1>3. pc \in AsyncPc /\ kind \in Kinds
  BY DEF AsyncInit, AsyncPc, Kinds
<1>4. n \in 0 .. MaxRequests /\ i \in Surls /\ crashes \in 0 .. MaxCrashes
  BY AsyncAssumption DEF AsyncAssumption, AsyncInit, Surls
<1>5. QED
  BY <1>1, <1>2, <1>3, <1>4 DEF AsyncInit, WorkerOK

(* the checks of the handler *)
LEMMA WorkerChecks ==
  ASSUME WorkerOK,
         Receive \/ Decline \/ BlacklistUnknown \/ Blacklisted \/ AssignToken
         \/ Ping \/ CheckProtocols
  PROVE  WorkerOK'
<1> USE AsyncAssumption DEF AsyncAssumption
<1>0. /\ EachSurl("REQUEST_QUEUED") \in [Surls -> Statuses]
      /\ EachSurl("AUTHORIZATION_FAILURE") \in [Surls -> Statuses]
      /\ EachSurl("FAILURE") \in [Surls -> Statuses]
  BY EachSurlOK DEF Statuses
<1>1. CASE Receive
  <2>1. n' \in 0 .. MaxRequests /\ i' \in Surls
    BY <1>1 DEF WorkerOK, Receive, Surls
  <2>2. kind' \in Kinds /\ dirs' \subseteq Surls /\ protocols' \subseteq Protocols
    BY <1>1 DEF Receive
  <2>3. pc' \in AsyncPc /\ status' \in Statuses /\ token' \in BOOLEAN
    BY <1>1 DEF Receive, AsyncPc, Statuses
  <2>4. surlStatus' \in [Surls -> Statuses] /\ unsent' \subseteq Protocols
    BY <1>0, <1>1 DEF Receive
  <2>5. crashes' \in 0 .. MaxCrashes
    BY <1>1 DEF WorkerOK, Receive
  <2>6. QED
    BY <2>1, <2>2, <2>3, <2>4, <2>5 DEF WorkerOK
<1>2. CASE Decline
  BY <1>2 DEF WorkerOK, Decline, requestVars
<1>3. CASE BlacklistUnknown
  BY <1>0, <1>3 DEF WorkerOK, BlacklistUnknown, requestVars, AsyncPc, Statuses
<1>4. CASE Blacklisted
  BY <1>0, <1>4 DEF WorkerOK, Blacklisted, requestVars, AsyncPc, Statuses
<1>5. CASE AssignToken
  BY <1>5 DEF WorkerOK, AssignToken, requestVars, AsyncPc
<1>6. CASE Ping
  BY <1>6 DEF WorkerOK, Ping, requestVars, AsyncPc, Statuses
<1>7. CASE CheckProtocols
  BY <1>0, <1>7 DEF WorkerOK, CheckProtocols, AsyncPc, Statuses
<1>8. QED
  BY <1>1, <1>2, <1>3, <1>4, <1>5, <1>6, <1>7

(* the loop moves on *)
LEMMA NextSurlOK ==
  ASSUME WorkerOK, NextSurl(surlStatus)
  PROVE  i' \in Surls /\ pc' \in AsyncPc /\ unsent' \subseteq Protocols
<1>1. i' \in Surls
  BY AsyncAssumption DEF AsyncAssumption, NextSurl, WorkerOK, Surls
<1>2. pc' \in AsyncPc /\ unsent' \subseteq Protocols
  BY DEF NextSurl, WorkerOK, AsyncPc
<1>3. QED
  BY <1>1, <1>2

(* a SURL fails *)
LEMMA SurlFailsOK ==
  ASSUME WorkerOK, NEW ACTION failure, SurlFails(failure)
  PROVE  /\ i' \in Surls /\ pc' \in AsyncPc /\ unsent' \subseteq Protocols
         /\ surlStatus' \in [Surls -> Statuses]
<1>1. "FAILURE" \in Statuses
  BY DEF Statuses
<1>2. QED
  BY <1>1 DEF WorkerOK, SurlFails, AsyncPc

(* insertIntoDB *)
LEMMA WorkerInserts ==
  ASSUME WorkerOK,
         Begin \/ InsertRequest \/ AbortRequest
         \/ Savepoint \/ InsertDirOption \/ InsertFile \/ InsertStatus
         \/ RollbackSurl \/ AbortAll \/ InsertProtocol \/ ProtocolsDone \/ Commit
  PROVE  WorkerOK'
<1>0. EachSurl("FAILURE") \in [Surls -> Statuses]
  BY EachSurlOK DEF Statuses
<1>1. CASE Begin \/ Savepoint \/ Commit
  BY <1>1 DEF WorkerOK, Begin, Savepoint, Commit, Silently, requestVars, AsyncPc
<1>2. CASE InsertRequest
  BY <1>2 DEF WorkerOK, InsertRequest, requestVars, AsyncPc
<1>3. CASE AbortRequest
  BY <1>0, <1>3 DEF WorkerOK, AbortRequest, requestVars, AsyncPc, Statuses
<1>4. CASE InsertDirOption
  BY <1>4, SurlFailsOK DEF WorkerOK, InsertDirOption, requestVars, AsyncPc
<1>5. CASE InsertFile
  BY <1>5, SurlFailsOK DEF WorkerOK, InsertFile, requestVars, AsyncPc
<1>6. CASE InsertStatus
  BY <1>6, SurlFailsOK, NextSurlOK DEF WorkerOK, InsertStatus, requestVars
<1>7. CASE RollbackSurl
  BY <1>7, NextSurlOK DEF WorkerOK, RollbackSurl, requestVars
<1>8. CASE AbortAll
  BY <1>8 DEF WorkerOK, AbortAll, requestVars, AsyncPc, Statuses
<1>9. CASE InsertProtocol
  BY <1>9 DEF WorkerOK, InsertProtocol, requestVars
<1>10. CASE ProtocolsDone
  BY <1>10 DEF WorkerOK, ProtocolsDone, requestVars, AsyncPc
<1>11. QED
  BY <1>1, <1>2, <1>3, <1>4, <1>5, <1>6, <1>7, <1>8, <1>9, <1>10

LEMMA WorkerStep == ASSUME WorkerOK, [Next]_vars PROVE WorkerOK'
<1>1. CASE Respond
  BY <1>1 DEF WorkerOK, Respond, requestVars, AsyncPc
<1>2. CASE Drop
  BY <1>2 DEF WorkerOK, Drop, asyncVars
<1>3. CASE Crash
  BY <1>3, AsyncAssumption DEF AsyncAssumption, WorkerOK, Crash, requestVars, AsyncPc
<1>4. CASE Done \/ UNCHANGED vars
  BY <1>4 DEF WorkerOK, Done, vars, asyncVars
<1>5. QED
  BY <1>1, <1>2, <1>3, <1>4, WorkerChecks, WorkerInserts DEF Next

(* The worker's variables and its session's keep their types: no request   *)
(* has another outcome than the six statuses, and the loop of insertIntoDB *)
(* never leaves m_surls.                                                   *)
THEOREM TypeCorrect == Spec => []AsyncTypeOK
<1>1. AsyncInit => WorkerOK /\ Tidy
  BY WorkerInit, TidyInit DEF AsyncInit
<1>2. WorkerOK /\ Tidy /\ [Next]_vars => WorkerOK' /\ Tidy'
  BY WorkerStep, TidyStep
<1>3. WorkerOK /\ Tidy => AsyncTypeOK
  BY DEF WorkerOK, Tidy, AsyncTypeOK
<1>4. QED
  BY <1>1, <1>2, <1>3, PTL DEF Spec

------------------------------------------------------------------------------
(* Transactions.                                                           *)

LEMMA AbortTidy == ASSUME Tidy, AbortTr \/ EndTr PROVE ~inTrans'
BY NotReachedTidy, Zenon DEF AbortTr, EndTr

(* where TransactionsClosed wants none open *)
Closed == {"idle", "checking", "ping", "protocols", "respond"}

(* into these the worker comes from another of them, by a COMMIT, by a     *)
(* ROLLBACK or by a crash                                                  *)
LEMMA ClosedStep ==
  ASSUME Tidy, TransactionsClosed, Next, pc' \in Closed
  PROVE  ~inTrans'
<1>0. inTrans \in BOOLEAN /\ (pc \in Closed => ~inTrans)
  BY DEF Tidy, TransactionsClosed, Closed
<1>1. CASE Receive \/ Decline \/ BlacklistUnknown \/ Blacklisted \/ AssignToken
           \/ CheckProtocols \/ Respond
  BY <1>0, <1>1 DEF Closed, sessionVars, Receive, Decline, BlacklistUnknown, Blacklisted,
                    AssignToken, CheckProtocols, Respond
<1>2. CASE Ping
  BY <1>0, <1>2 DEF Closed, Ping, PingAnswers, PingFails, NotReached
<1>3. CASE AbortRequest \/ Commit
  BY <1>3, AbortTidy DEF AbortRequest, Commit, Silently
<1>4. CASE Crash \/ Drop
  BY <1>4 DEF Crash, SessionDies, Drop, ConnectionDrops
<1>5. CASE Done
  BY <1>0, <1>5 DEF Closed, Done, vars, sessionVars
<1>6. ~(Begin \/ Savepoint)
  BY DEF Closed, Begin, Savepoint, Silently
<1>7. ~(InsertRequest \/ AbortAll \/ InsertProtocol \/ ProtocolsDone)
  BY DEF Closed, InsertRequest, AbortAll, InsertProtocol, ProtocolsDone
<1>8. ~(InsertDirOption \/ InsertFile \/ InsertStatus \/ RollbackSurl)
  BY DEF Closed, InsertDirOption, InsertFile, InsertStatus, RollbackSurl,
         SurlFails, NextSurl
<1>9. QED
  BY <1>1, <1>2, <1>3, <1>4, <1>5, <1>6, <1>7, <1>8 DEF Next

(* However connections drop and processes die, the thread serves its next  *)
(* request with no transaction of the last one open: its rows are in the   *)
(* database for good, or gone.                                             *)
THEOREM NoOpenTransaction == Spec => []TransactionsClosed
<1>1. AsyncInit => Tidy /\ TransactionsClosed
  BY TidyInit DEF AsyncInit, SessionInit, TransactionsClosed
<1>2. Tidy /\ TransactionsClosed /\ [Next]_vars => Tidy' /\ TransactionsClosed'
  <2> SUFFICES ASSUME Tidy, TransactionsClosed, [Next]_vars
               PROVE  TransactionsClosed'
    BY TidyStep
  <2>1. CASE Next
    BY <2>1, ClosedStep DEF TransactionsClosed, Closed
  <2>2. CASE UNCHANGED vars
    BY <2>2 DEF TransactionsClosed, vars, sessionVars, asyncVars
  <2>3. QED
    BY <2>1, <2>2
<1>3. QED
  BY <1>1, <1>2, PTL DEF Spec

------------------------------------------------------------------------------
(* Requests without a token.                                               *)

Replies == [1 .. MaxRequests -> [status : Statuses \cup {"none"}, token : BOOLEAN,
                                 surls : [Surls -> Statuses \cup {"none"}]]]

(* a request is answered once, after its number is given to it *)
AnsweredOnce ==
  /\ replies \in Replies
  /\ pc # "idle" => n # 0
  /\ \A r \in 1 .. MaxRequests :
       r > n \/ (r = n /\ pc # "idle") => replies[r].status = "none"

(* the handler keeps its token but for AbortRequest *)
TokenKept == pc \notin {"idle", "checking", "respond"} => token

(* nothing is stored yet *)
Fresh == {"checking", "ping", "protocols", "begin", "queueRow", "abortRequest"}

(* r has not come yet, has nothing stored yet, or has or will be answered  *)
(* without a token                                                         *)
Unserved(r) == \/ r > n
               \/ r = n /\ pc \in Fresh
               \/ r = n /\ pc = "respond" /\ ~token
               \/ replies[r].status # "none" /\ ~replies[r].token

(* at most its row of request_queue is there *)
Quiet(r) == \A row \in Rows : row[2] = r => row = <<"request_queue", r, 0>>

UnservedQuiet == \A r \in 1 .. MaxRequests : Unserved(r) => Quiet(r)

ServedInv == WorkerOK /\ AnsweredOnce /\ TokenKept /\ UnservedQuiet

LEMMA NoReplyOK ==
  ASSUME NEW s \in Statuses
  PROVE  /\ [NoReply EXCEPT !.status = s].token = FALSE
         /\ [NoReply EXCEPT !.status = s] \in
              [status : Statuses \cup {"none"}, token : BOOLEAN,
               surls : [Surls -> Statuses \cup {"none"}]]
BY DEF NoReply, EachSurl

LEMMA ServedInit == AsyncInit => ServedInv
<1> SUFFICES ASSUME AsyncInit PROVE ServedInv
  OBVIOUS
<1>1. WorkerOK
  BY WorkerInit
<1>2. EachSurl("none") \in [Surls -> Statuses \cup {"none"}]
  BY DEF EachSurl
<1>3. replies \in Replies
  BY <1>2 DEF AsyncInit, NoReply, Replies
<1>4. \A r \in 1 .. MaxRequests : replies[r].status = "none"
  BY DEF AsyncInit, NoReply
<1>5. AnsweredOnce /\ TokenKept
  BY <1>3, <1>4 DEF AsyncInit, AnsweredOnce, TokenKept
<1>6. Rows = {}
  BY DEF AsyncInit, SessionInit, Rows
<1>7. UnservedQuiet
  BY <1>6 DEF UnservedQuiet, Quiet
<1>8. QED
  BY <1>1, <1>5, <1>7 DEF ServedInv

(* every action but the three that number or answer a request *)
LEMMA OthersKeepReplies ==
  ASSUME Next, ~Receive, ~Decline, ~Respond
  PROVE  /\ UNCHANGED <<n, replies>>
         /\ pc' = "idle" \/ pc # "idle"
BY DEF Next, BlacklistUnknown, Blacklisted, AssignToken, Ping, CheckProtocols, Begin,
       InsertRequest, AbortRequest, Savepoint, Silently, InsertDirOption, InsertFile,
       InsertStatus, RollbackSurl, AbortAll, InsertProtocol, ProtocolsDone, Commit,
       Drop, Crash, Done, vars, asyncVars

LEMMA AnsweredOnceStep ==
  ASSUME WorkerOK, AnsweredOnce, [Next]_vars
  PROVE  AnsweredOnce'
<1>0. n \in Nat /\ n \in 0 .. MaxRequests /\ MaxRequests \in Nat
  BY AsyncAssumption DEF AsyncAssumption, WorkerOK
<1>1. CASE Receive
  BY <1>0, <1>1 DEF Receive, AnsweredOnce
<1>2. CASE Decline
  <2>1. PICK s \in {"INVALID_REQUEST", "NOT_SUPPORTED"} :
          replies' = [replies EXCEPT ![n + 1] = [NoReply EXCEPT !.status = s]]
    BY <1>2 DEF Decline
  <2>2. s \in Statuses
    BY DEF Statuses
  <2>3. replies' \in Replies
    BY <2>1, <2>2, NoReplyOK DEF AnsweredOnce, Replies
  <2>4. \A r \in 1 .. MaxRequests : r # n + 1 => replies'[r] = replies[r]
    BY <2>1 DEF AnsweredOnce, Replies
  <2>5. n' = n + 1 /\ pc' = "idle"
    BY <1>2 DEF Decline
  <2>6. QED
    BY <1>0, <2>3, <2>4, <2>5 DEF AnsweredOnce
<1>3. CASE Respond
  <2>1. replies' \in Replies
    BY <1>3 DEF Respond, AnsweredOnce, Replies, WorkerOK
  <2>2. \A r \in 1 .. MaxRequests : r # n => replies'[r] = replies[r]
    BY <1>3 DEF Respond, AnsweredOnce, Replies
  <2>3. n' = n /\ pc' = "idle"
    BY <1>3 DEF Respond
  <2>4. QED
    BY <1>0, <2>1, <2>2, <2>3 DEF AnsweredOnce
<1>4. CASE Next /\ ~Receive /\ ~Decline /\ ~Respond
  BY <1>4, OthersKeepReplies DEF AnsweredOnce
<1>5. CASE UNCHANGED vars
  BY <1>5 DEF AnsweredOnce, vars, asyncVars
<1>6. QED
  BY <1>1, <1>2, <1>3, <1>4, <1>5

LEMMA TokenKeptStep ==
  ASSUME TokenKept, [Next]_vars
  PROVE  TokenKept'
<1>1. CASE Receive \/ Decline \/ BlacklistUnknown \/ Blacklisted \/ AbortRequest
           \/ Commit \/ Respond \/ Crash
  BY <1>1 DEF TokenKept, Receive, Decline, BlacklistUnknown, Blacklisted,
              AbortRequest, Commit, Silently, Respond, Crash
<1>2. CASE AssignToken
  BY <1>2 DEF TokenKept, AssignToken
<1>3. CASE Ping \/ CheckProtocols \/ Begin \/ Savepoint \/ InsertRequest
  BY <1>3 DEF TokenKept, Ping, CheckProtocols, Begin, Savepoint, Silently, InsertRequest
<1>4. CASE InsertDirOption \/ InsertFile \/ InsertStatus \/ RollbackSurl
  BY <1>4 DEF TokenKept, InsertDirOption, InsertFile, InsertStatus, RollbackSurl
<1>5. CASE AbortAll \/ InsertProtocol \/ ProtocolsDone
  BY <1>5 DEF TokenKept, AbortAll, InsertProtocol, ProtocolsDone
<1>6. CASE Drop \/ Done \/ UNCHANGED vars
  BY <1>6 DEF TokenKept, Drop, Done, vars, asyncVars
<1>7. QED
  BY <1>1, <1>2, <1>3, <1>4, <1>5, <1>6 DEF Next

(* no step makes a request unserved that was served *)
LEMMA UnservedBefore ==
  ASSUME WorkerOK, AnsweredOnce, TokenKept, Next,
         NEW r \in 1 .. MaxRequests, Unserved(r)'
  PROVE  Unserved(r)
<1>0. n \in Nat /\ r \in Nat
  BY AsyncAssumption DEF AsyncAssumption, WorkerOK
<1>1. CASE Receive
  BY <1>0, <1>1 DEF Unserved, Receive, Fresh
<1>2. CASE Decline
  <2>1. CASE r > n
    BY <2>1 DEF Unserved
  <2>2. CASE r <= n
    <3>1. replies'[r] = replies[r]
      BY <1>0, <1>2, <2>2 DEF Decline, AnsweredOnce, Replies
    <3>2. pc' = "idle" /\ n' = n + 1
      BY <1>2 DEF Decline
    <3>3. QED
      BY <1>0, <2>2, <3>1, <3>2 DEF Unserved, Fresh
  <2>3. QED
    BY <1>0, <2>1, <2>2
<1>3. CASE Respond
  <2>1. CASE r = n
    <3>1. replies'[n].token = token
      BY <1>3, <2>1 DEF Respond, AnsweredOnce, Replies
    <3>2. n' = n /\ pc = "respond" /\ pc' = "idle"
      BY <1>3 DEF Respond
    <3>3. QED
      BY <1>0, <2>1, <3>1, <3>2 DEF Unserved, Fresh
  <2>2. CASE r # n
    <3>1. replies'[r] = replies[r] /\ n' = n
      BY <1>3, <2>2 DEF Respond, AnsweredOnce, Replies
    <3>2. QED
      BY <2>2, <3>1 DEF Unserved
  <2>3. QED
    BY <2>1, <2>2
<1>4. CASE BlacklistUnknown \/ Blacklisted \/ AssignToken
  BY <1>4 DEF Unserved, Fresh, BlacklistUnknown, Blacklisted, AssignToken
<1>5. CASE Ping \/ CheckProtocols \/ Begin
  BY <1>5 DEF Unserved, Fresh, Ping, CheckProtocols, Begin, Silently
<1>6. CASE InsertRequest \/ AbortRequest
  BY <1>6 DEF Unserved, Fresh, InsertRequest, AbortRequest
<1>7. CASE Savepoint \/ InsertDirOption \/ InsertFile
  BY <1>7 DEF Unserved, Fresh, Savepoint, Silently, InsertDirOption, InsertFile,
              SurlFails
<1>8. CASE InsertStatus \/ RollbackSurl
  BY <1>8 DEF Unserved, Fresh, InsertStatus, RollbackSurl, SurlFails, NextSurl
<1>9. CASE AbortAll \/ InsertProtocol \/ ProtocolsDone
  BY <1>9 DEF Unserved, Fresh, AbortAll, InsertProtocol, ProtocolsDone
<1>10. CASE Commit
  BY <1>10 DEF Unserved, Fresh, Commit, Silently, TokenKept
<1>11. CASE Drop \/ Crash \/ Done
  BY <1>11 DEF Unserved, Fresh, Drop, Crash, Done, vars, asyncVars
<1>12. QED
  BY <1>1, <1>2, <1>3, <1>4, <1>5, <1>6, <1>7, <1>8, <1>9, <1>10, <1>11 DEF Next

(* and a request a row of which is inserted is served *)
LEMMA InsertServes ==
  ASSUME WorkerOK, AnsweredOnce, InsertsOwn
  PROVE  ~Unserved(n)'
<1>1. n \in 1 .. MaxRequests /\ replies'[n].status = "none"
  BY AsyncAssumption DEF AsyncAssumption, WorkerOK, AnsweredOnce, InsertsOwn
<1>2. n' = n /\ pc' \notin Fresh /\ pc' # "respond"
  BY DEF InsertsOwn, Stored, Fresh
<1>3. QED
  BY <1>1, <1>2 DEF Unserved

LEMMA UnservedQuietStep ==
  ASSUME ServedInv, Next
  PROVE  UnservedQuiet'
<1> SUFFICES ASSUME NEW r \in 1 .. MaxRequests, Unserved(r)'
             PROVE  Quiet(r)'
  BY DEF UnservedQuiet
<1>1. Quiet(r)
  BY UnservedBefore DEF ServedInv, UnservedQuiet
<1>2. CASE Statement
  BY <1>1, <1>2, StatementRows DEF Quiet
<1>3. CASE InsertsOwn
  <2>1. PICK row : row[2] = n /\ Inserts(row)
    BY <1>3 DEF InsertsOwn
  <2>2. Rows' \subseteq Rows \cup {row}
    BY <2>1, InsertRows
  <2>3. r # n
    <3>1. n' = n /\ ~Unserved(n)'
      BY <1>3, InsertServes DEF ServedInv, InsertsOwn
    <3>2. QED
      BY <3>1 DEF Unserved
  <2>4. QED
    BY <1>1, <2>1, <2>2, <2>3 DEF Quiet
<1>4. CASE QueueRowLost
  <2>1. Rows' \subseteq Rows \cup {<<"request_queue", n, 0>>}
    BY <1>4, InsertRows DEF QueueRowLost, Inserts
  <2> QED BY <1>1, <2>1 DEF Quiet
<1>5. QED
  BY <1>2, <1>3, <1>4, SessionUse

LEMMA ServedStep == ASSUME ServedInv, [Next]_vars PROVE ServedInv'
<1>1. CASE Next
  BY <1>1, WorkerStep, AnsweredOnceStep, TokenKeptStep, UnservedQuietStep DEF ServedInv
<1>2. CASE UNCHANGED vars
  <2>1. UNCHANGED <<n, pc, token, replies, Rows>>
    BY <1>2 DEF vars, asyncVars, sessionVars, Rows
  <2>2. AnsweredOnce' /\ TokenKept' /\ WorkerOK'
    BY <1>2, WorkerStep, AnsweredOnceStep, TokenKeptStep DEF ServedInv
  <2>3. UnservedQuiet'
    BY <2>1 DEF ServedInv, UnservedQuiet, Unserved, Quiet
  <2> QED BY <2>2, <2>3 DEF ServedInv
<1> QED BY <1>1, <1>2

==============================================================================
