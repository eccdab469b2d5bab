----------------------------- MODULE AsyncRequest -----------------------------
(***************************************************************************)
(* srmPrepareToPut, srmPrepareToGet, srmBringOnline and srmCopy            *)
(* (src/frontend/asynch.cpp) on one worker thread: the checks, the token,  *)
(* __process_file_request (filerequest_template.hpp), insertIntoDB of the  *)
(* PtpRequest, PtgRequest and BolRequest, and the response.  What the      *)
(* request writes goes through the thread's Session; the backend picks the *)
(* requests up from the committed rows.                                    *)
(*                                                                         *)
(* Requests are numbered in order of arrival, the SURLs of a request by    *)
(* position.  Rows are <<table, request, item>>.                           *)
(***************************************************************************)
EXTENDS Session

CONSTANTS MaxRequests,  \* bound: requests in one behaviour
          NSurls,       \* SURLs of a request
          Protocols,    \* transfer protocols a request may ask for
          Supported,    \* those ProtocolChecker knows
          MaxCrashes    \* bound: crashes of the process

ASSUME AsyncAssumption == /\ MaxRequests \in Nat
                          /\ NSurls \in Nat \ {0}
                          /\ Supported \subseteq Protocols
                          /\ Protocols \subseteq Nat
                          /\ MaxCrashes \in Nat

VARIABLES pc,         \* where the worker is
          n,          \* the request it handles, 0 before the first
          kind,       \* its type
          dirs,       \* m_surls: those with a dirOption
          protocols,  \* m_protocols
          token,      \* m_requestToken is not empty
          status,     \* m_status
          surlStatus, \* status of each of m_surls
          i,          \* the SURL insertIntoDB is at
          unsent,     \* protocols still to insert
          replies,    \* what the client of each request was answered
          crashes

requestVars == <<kind, dirs, protocols>>
asyncVars == <<pc, n, kind, dirs, protocols, token, status, surlStatus, i,
               unsent, replies, crashes>>
vars == <<sessionVars, asyncVars>>

Surls == 1 .. NSurls
Kinds == {"PTP", "PTG", "BOL"}
Statuses == {"REQUEST_QUEUED", "FAILURE", "AUTHORIZATION_FAILURE",
             "INTERNAL_ERROR", "NOT_SUPPORTED", "INVALID_REQUEST"}
AsyncPc == {"idle", "checking", "ping", "protocols", "begin", "queueRow",
            "abortRequest", "savepoint", "dirRow", "fileRow", "statusRow",
            "rollback", "abortAll", "protocolRows", "commit", "respond"}

EachSurl(s) == [k \in Surls |-> s]
NoReply == [status |-> "none", token |-> FALSE, surls |-> EachSurl("none")]

AsyncInit == /\ SessionInit
             /\ pc = "idle"
             /\ n = 0
             /\ kind = "PTP" /\ dirs = {} /\ protocols = {}
             /\ token = FALSE
             /\ status = "REQUEST_QUEUED"
             /\ surlStatus = EachSurl("REQUEST_QUEUED")
             /\ i = 1 /\ unsent = {}
             /\ replies = [r \in 1 .. MaxRequests |-> NoReply]
             /\ crashes = 0

------------------------------------------------------------------------------
(* The checks of the handler.                                              *)

(* the request is loaded *)
Receive ==
  /\ pc = "idle"
  /\ n < MaxRequests
  /\ n' = n + 1
  /\ \E k \in Kinds, d \in SUBSET Surls, p \in SUBSET Protocols :
       /\ k = "PTP" => d = {}
       /\ kind' = k /\ dirs' = d /\ protocols' = p
  /\ token' = FALSE
  /\ status' = "REQUEST_QUEUED"
  /\ surlStatus' = EachSurl("REQUEST_QUEUED")
  /\ i' = 1 /\ unsent' = {}
  /\ pc' = "checking"
  /\ UNCHANGED <<sessionVars, replies, crashes>>

(* load() throws invalid_request, or srmCopy is not supported: an answer   *)
(* without a token and without SURLs                                       *)
Decline ==
  /\ pc = "idle"
  /\ n < MaxRequests
  /\ n' = n + 1
  /\ \E s \in {"INVALID_REQUEST", "NOT_SUPPORTED"} :
       replies' = [replies EXCEPT ![n + 1] = [NoReply EXCEPT !.status = s]]
  /\ UNCHANGED <<sessionVars, pc, requestVars, token, status, surlStatus, i,
                 unsent, crashes>>

(* is_blacklisted throws authorization_error: srmBringOnline alone marks   *)
(* the SURLs                                                               *)
BlacklistUnknown ==
  /\ pc = "checking"
  /\ token' = FALSE
  /\ surlStatus' = IF kind = "BOL" THEN EachSurl("AUTHORIZATION_FAILURE") ELSE surlStatus
  /\ status' = "FAILURE"
  /\ pc' = "respond"
  /\ UNCHANGED <<sessionVars, n, requestVars, i, unsent, replies, crashes>>

(* is_blacklisted is true: here srmBringOnline alone does not mark them    *)
Blacklisted ==
  /\ pc = "checking"
  /\ token' = FALSE
  /\ surlStatus' = IF kind = "BOL" THEN surlStatus ELSE EachSurl("AUTHORIZATION_FAILURE")
  /\ status' = "AUTHORIZATION_FAILURE"
  /\ pc' = "respond"
  /\ UNCHANGED <<sessionVars, n, requestVars, i, unsent, replies, crashes>>

(* the request gets its token *)
AssignToken ==
  /\ pc = "checking"
  /\ token' = TRUE
  /\ pc' = "ping"
  /\ UNCHANGED <<sessionVars, n, requestVars, status, surlStatus, i, unsent,
                 replies, crashes>>

Ping ==
  /\ pc = "ping"
  /\ \/ /\ PingAnswers
        /\ pc' = "protocols"
        /\ UNCHANGED status
     \/ /\ PingFails
        /\ status' = "INTERNAL_ERROR"
        /\ pc' = "respond"
  /\ UNCHANGED <<n, requestVars, token, surlStatus, i, unsent, replies, crashes>>

CheckProtocols ==
  /\ pc = "protocols"
  /\ \/ /\ protocols \subseteq Supported
        /\ pc' = "begin"
        /\ UNCHANGED <<protocols, status, surlStatus>>
     \/ /\ ~(protocols \subseteq Supported)
        /\ protocols \cap Supported # {}
        /\ protocols' = protocols \cap Supported
        /\ pc' = "begin"
        /\ UNCHANGED <<status, surlStatus>>
     \/ /\ protocols # {}
        /\ protocols \cap Supported = {}
        /\ surlStatus' = EachSurl("FAILURE")
        /\ status' = "NOT_SUPPORTED"
        /\ pc' = "respond"
        /\ UNCHANGED protocols
  /\ UNCHANGED <<sessionVars, n, kind, dirs, token, i, unsent, replies, crashes>>

------------------------------------------------------------------------------
(* insertIntoDB.                                                           *)

(* a statement whose result is ignored *)
Silently(statement, from, to) ==
  /\ pc = from
  /\ statement
  /\ pc' = to
  /\ UNCHANGED <<n, requestVars, token, status, surlStatus, i, unsent, replies,
                 crashes>>

Begin == Silently(StartTr, "begin", "queueRow")

InsertRequest ==
  /\ pc = "queueRow"
  /\ \/ /\ Insert(<<"request_queue", n, 0>>)
        /\ pc' = "savepoint"
        /\ UNCHANGED <<token, status, surlStatus>>
     \/ /\ InsertFails(<<"request_queue", n, 0>>)
        /\ pc' = "abortRequest"
        /\ UNCHANGED <<token, status, surlStatus>>
  /\ UNCHANGED <<n, requestVars, i, unsent, replies, crashes>>

(* storm_abort_tr, failRequest, and the handler of the exception: no token *)
AbortRequest ==
  /\ pc = "abortRequest"
  /\ AbortTr
  /\ surlStatus' = EachSurl("FAILURE")
  /\ token' = FALSE
  /\ status' = "INTERNAL_ERROR"
  /\ pc' = "respond"
  /\ UNCHANGED <<n, requestVars, i, unsent, replies, crashes>>

Savepoint ==
  Silently(SetSavepoint, "savepoint", IF i \in dirs THEN "dirRow" ELSE "fileRow")

AllFailed(s) == \A k \in Surls : s[k] = "FAILURE"

(* mutant: the loop runs one SURL too far *)
NextSurlOver(s) ==
  \/ i <= NSurls /\ i' = i + 1 /\ pc' = "savepoint" /\ UNCHANGED unsent
  \/ /\ i > NSurls
     /\ UNCHANGED i
     /\ pc' = "protocolRows" /\ unsent' = protocols

(* where the loop goes after the SURL at i *)
NextSurl(s) ==
  \/ i < NSurls /\ i' = i + 1 /\ pc' = "savepoint" /\ UNCHANGED unsent
  \/ /\ i = NSurls
     /\ UNCHANGED i
     /\ \/ AllFailed(s) /\ pc' = "abortAll" /\ UNCHANGED unsent
        \/ ~AllFailed(s) /\ pc' = "protocolRows" /\ unsent' = protocols

(* an INSERT of the loop throws: the SURL fails *)
SurlFails(failure) ==
  /\ failure
  /\ surlStatus' = [surlStatus EXCEPT ![i] = "FAILURE"]
  /\ pc' = "rollback"
  /\ UNCHANGED <<i, unsent>>

(* the INSERT of BolRequest lacks its last value, which is appended to     *)
(* another stream: it always throws                                        *)
InsertDirOption ==
  /\ pc = "dirRow"
  /\ \/ /\ kind # "BOL"
        /\ Insert(<<"request_DirOption", n, i>>)
        /\ pc' = "fileRow"
        /\ UNCHANGED <<surlStatus, i, unsent>>
     \/ kind # "BOL" /\ SurlFails(InsertFails(<<"request_DirOption", n, i>>))
     \/ kind = "BOL" /\ SurlFails(StatementFails)
  /\ UNCHANGED <<n, requestVars, token, status, replies, crashes>>

InsertFile ==
  /\ pc = "fileRow"
  /\ \/ /\ Insert(<<"request_file", n, i>>)
        /\ pc' = "statusRow"
        /\ UNCHANGED <<surlStatus, i, unsent>>
     \/ SurlFails(InsertFails(<<"request_file", n, i>>))
  /\ UNCHANGED <<n, requestVars, token, status, replies, crashes>>

InsertStatus ==
  /\ pc = "statusRow"
  /\ \/ /\ Insert(<<"status_file", n, i>>)
        /\ NextSurl(surlStatus)
        /\ UNCHANGED surlStatus
     \/ SurlFails(InsertFails(<<"status_file", n, i>>))
  /\ UNCHANGED <<n, requestVars, token, status, replies, crashes>>

(* rollback_to_savepoint and continue *)
RollbackSurl ==
  /\ pc = "rollback"
  /\ RollbackToSavepoint
  /\ NextSurl(surlStatus)
  /\ UNCHANGED <<n, requestVars, token, status, surlStatus, replies, crashes>>

(* failedCount reached the number of SURLs: the token stays *)
AbortAll ==
  /\ pc = "abortAll"
  /\ AbortTr
  /\ status' = "FAILURE"
  /\ pc' = "commit"
  /\ UNCHANGED <<n, requestVars, token, surlStatus, i, unsent, replies, crashes>>

(* mutant: a failure to store a protocol refuses the request *)
InsertProtocolOrRefuse ==
  /\ pc = "protocolRows"
  /\ \E p \in unsent :
       /\ unsent' = unsent \ {p}
       /\ \/ Insert(<<"request_TransferProtocols", n, p>>) /\ UNCHANGED <<pc, token>>
          \/ /\ InsertFails(<<"request_TransferProtocols", n, p>>)
             /\ pc' = "commit" /\ token' = FALSE
  /\ UNCHANGED <<n, requestVars, status, surlStatus, i, replies, crashes>>

(* one row per protocol; a failure is only logged *)
InsertProtocol ==
  /\ pc = "protocolRows"
  /\ \E p \in unsent :
       /\ unsent' = unsent \ {p}
       /\ LET row == <<"request_TransferProtocols", n, p>> IN
            Insert(row) \/ InsertFails(row)
  /\ UNCHANGED <<pc, n, requestVars, token, status, surlStatus, i, replies, crashes>>

ProtocolsDone ==
  /\ pc = "protocolRows"
  /\ unsent = {}
  /\ pc' = "commit"
  /\ UNCHANGED <<sessionVars, n, requestVars, token, status, surlStatus, i,
                 unsent, replies, crashes>>

Commit == Silently(EndTr, "commit", "respond")

------------------------------------------------------------------------------

(* buildResponse, and the thread is free for the next request *)
Respond ==
  /\ pc = "respond"
  /\ replies' = [replies EXCEPT ![n] = [status |-> status, token |-> token,
                                        surls |-> surlStatus]]
  /\ pc' = "idle"
  /\ UNCHANGED <<sessionVars, n, requestVars, token, status, surlStatus, i,
                 unsent, crashes>>

Drop == ConnectionDrops /\ UNCHANGED asyncVars

Crash ==
  /\ crashes < MaxCrashes
  /\ crashes' = crashes + 1
  /\ SessionDies
  /\ pc' = "idle"
  /\ UNCHANGED <<n, requestVars, token, status, surlStatus, i, unsent, replies>>

Done == pc = "idle" /\ n = MaxRequests /\ UNCHANGED vars

Next == \/ Receive \/ Decline \/ BlacklistUnknown \/ Blacklisted \/ AssignToken
        \/ Ping \/ CheckProtocols
        \/ Begin \/ InsertRequest \/ AbortRequest
        \/ Savepoint \/ InsertDirOption \/ InsertFile \/ InsertStatus
        \/ RollbackSurl \/ AbortAll \/ InsertProtocol \/ ProtocolsDone \/ Commit
        \/ Respond
        \/ Drop \/ Crash \/ Done

Spec == AsyncInit /\ [][Next]_vars

------------------------------------------------------------------------------
(* Properties.                                                             *)

AsyncTypeOK ==
  /\ pc \in AsyncPc
  /\ n \in 0 .. MaxRequests
  /\ kind \in Kinds /\ dirs \subseteq Surls /\ protocols \subseteq Protocols
  /\ token \in BOOLEAN /\ status \in Statuses
  /\ surlStatus \in [Surls -> Statuses]
  /\ i \in Surls /\ unsent \subseteq Protocols
  /\ crashes \in 0 .. MaxCrashes
  /\ link \in Links /\ inTrans \in BOOLEAN

RowsOf(r) == {row \in committed : row[2] = r}
FilesOf(r) == {k \in Surls : <<"request_file", r, k>> \in committed}

(* While connections do not drop the backend sees a request all at once:   *)
(* with its queue row, at least one file, the status of each of its files  *)
(* and directory options of those only - and nothing of it before the      *)
(* COMMIT, however many of its INSERTs fail and wherever the process dies. *)
AtomicVisibility ==
  drops = 0 => \A r \in 1 .. n :
    RowsOf(r) = {} \/
      /\ r = n => pc \in {"idle", "respond"}
      /\ <<"request_queue", r, 0>> \in committed
      /\ FilesOf(r) # {}
      /\ \A k \in Surls :
           /\ <<"status_file", r, k>> \in committed <=> k \in FilesOf(r)
           /\ <<"request_DirOption", r, k>> \in committed => k \in FilesOf(r)

(* While connections do not drop a reply tells the truth: SRM_REQUEST_QUEUED*)
(* comes with a token and only for a request in the database, whose files  *)
(* are exactly the SURLs reported as queued.                               *)
RepliesMatchStore ==
  drops = 0 => \A r \in 1 .. n :
    LET reply == replies[r] IN
      reply.status # "none" =>
        /\ reply.status = "REQUEST_QUEUED" <=> <<"request_queue", r, 0>> \in committed
        /\ reply.status = "REQUEST_QUEUED" =>
             /\ reply.token
             /\ FilesOf(r) = {k \in Surls : reply.surls[k] = "REQUEST_QUEUED"}

(* A client that gets no token, and so could never ask for an outcome, has *)
(* no file the backend could serve, whatever drops.  Its row of            *)
(* request_queue alone may stay, and only if one connection drops under    *)
(* BEGIN and another under the answer to that row's INSERT.                *)
NoTokenNoFiles ==
  \A r \in 1 .. n :
    replies[r].status # "none" /\ ~replies[r].token =>
      RowsOf(r) \subseteq (IF drops <= 1 THEN {} ELSE {<<"request_queue", r, 0>>})

(* No path of a handler leaves its transaction open for the next request   *)
(* the thread serves.                                                      *)
TransactionsClosed ==
  pc \in {"idle", "checking", "ping", "protocols", "respond"} => ~inTrans

(* the files a client was told are queued *)
ToldOf(reply) == IF reply.status = "REQUEST_QUEUED"
                 THEN {k \in Surls : reply.surls[k] = "REQUEST_QUEUED"} ELSE {}

Abstract == INSTANCE RequestStore WITH
  Requests <- 1 .. MaxRequests,
  stored   <- [r \in 1 .. MaxRequests |-> FilesOf(r)],
  told     <- [r \in 1 .. MaxRequests |-> [answered |-> replies[r].status # "none",
                                           files |-> ToldOf(replies[r])]]

(* While connections do not drop the handlers implement the store: in one  *)
(* step, and before the answer, all files of a request that could be       *)
(* queued appear; the answer tells of these; neither is ever taken back or *)
(* added to, whatever later requests do and wherever the process dies.     *)
StoreSafety ==
  /\ Abstract!Init
  /\ [][drops' = 0 => Abstract!Next]_(Abstract!vars)
==============================================================================
