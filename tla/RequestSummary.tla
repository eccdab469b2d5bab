---------------------------- MODULE RequestSummary ----------------------------
(***************************************************************************)
(* srmGetRequestSummary and srmGetRequestTokens on the worker thread of    *)
(* StatusRequest, which share its session with the status requests.  Both  *)
(* read inside a transaction: BEGIN ends a transaction that is still open, *)
(* and the first SELECT fixes what the others see until COMMIT.            *)
(*                                                                         *)
(* The connection is not lost during these two operations, which do not    *)
(* ping it.                                                                *)
(***************************************************************************)
EXTENDS StatusRequest

VARIABLES spc,      \* where the worker is in these operations
          others,   \* tokens asked for that are not in the database
          summary,  \* the RequestSummary of the stored request
          answer,   \* returnStatus, or "none"
          moments   \* what the database has been since the operation came

ownVars == <<spc, others, summary, answer, moments>>
readVars == <<storeVars, backendVars, pc, n, requestVars, turls, unchecked,
              countVars, status, reply, held>>
summaryVars == <<statusVars, ownVars>>

NoSummary == [status |-> "none", completed |-> 0, waiting |-> 0, failed |-> 0]

CountOf(db, of) == Cardinality({f \in Files : db[f] \in of})
Counts(db, s) == [status |-> s,
                  completed |-> CountOf(db, {"SUCCESS"}),
                  waiting |-> CountOf(db, {"REQUEST_QUEUED", "REQUEST_INPROGRESS"}),
                  failed |-> CountOf(db, {"FAILURE"})]
Stored(db) == \A f \in Files : db[f] # "absent"

SummaryInit == /\ StatusInit
               /\ spc = "idle" /\ others = FALSE
               /\ summary = NoSummary /\ answer = "none"
               /\ moments = {}

Answers(a) == answer' = a /\ spc' = "idle"
Dies == spc' = "dead" /\ UNCHANGED answer

------------------------------------------------------------------------------
(* srmGetRequestSummary.                                                   *)

Arrives(op) ==
  /\ pc = "idle" /\ spc = "idle"
  /\ n < MaxRequests
  /\ n' = n + 1
  /\ dn' \in {"owner", "other"}
  /\ others' \in BOOLEAN
  /\ summary' = NoSummary /\ answer' = "none"
  /\ moments' = {file}
  /\ spc' = op
  /\ UNCHANGED <<storeVars, backendVars, snapshot, pc, asked, turls, unchecked,
                 countVars, status, reply, held>>

ReceiveSummary == Arrives("summary")

(* no DN, a blacklisted client, no array of tokens or an invalid token; or *)
(* is_blacklisted throws an authorization_error nobody catches             *)
DeclineSummary ==
  /\ spc = "summary"
  /\ Answers("INVALID_REQUEST") \/ Dies
  /\ UNCHANGED <<snapshot, readVars, others, summary, moments>>

(* the request is the client's and its token is one of those asked for     *)
Found == dn = "owner" /\ Stored(file)

(* mutant: no BEGIN, each SELECT is a transaction of its own *)
SelectOutside ==
  /\ spc = "summary"
  /\ UNCHANGED snapshot
  /\ IF dn = "owner" /\ Stored(View)
     THEN /\ summary' = [NoSummary EXCEPT !.status = RequestStatus(View)]
          /\ spc' = "count"
          /\ UNCHANGED answer
     ELSE Answers("FAILURE") /\ UNCHANGED summary
  /\ UNCHANGED <<readVars, others, moments>>

(* BEGIN and the SELECT on request_queue.  With no row the operation       *)
(* returns without COMMIT.                                                 *)
SelectRequests ==
  /\ spc = "summary"
  /\ snapshot' = file
  /\ \/ /\ Found
        /\ summary' = [NoSummary EXCEPT !.status = RequestStatus(file)]
        /\ spc' = "count"
        /\ UNCHANGED answer
     \/ /\ ~Found
        /\ Answers("FAILURE")
        /\ UNCHANGED summary
  /\ UNCHANGED <<readVars, others, moments>>

(* the SELECT on the statuses of the files *)
CountFiles ==
  /\ spc = "count"
  /\ summary' = Counts(View, summary.status)
  /\ spc' = "commit"
  /\ UNCHANGED <<snapshot, readVars, others, answer, moments>>

(* a SELECT throws: mysql_exception is not caught *)
SelectThrows ==
  /\ spc \in {"summary", "count", "tokens"}
  /\ Dies
  /\ UNCHANGED <<snapshot, readVars, others, summary, moments>>

EndSummary ==
  /\ spc = "commit"
  /\ snapshot' = NoTransaction
  /\ Answers(IF others THEN "PARTIAL_SUCCESS" ELSE "SUCCESS")
  /\ UNCHANGED <<readVars, others, summary, moments>>

------------------------------------------------------------------------------
(* srmGetRequestTokens.                                                    *)

ReceiveTokens == Arrives("tokens")

(* no DN, a blacklisted client or an invalid description; or               *)
(* is_blacklisted throws                                                   *)
DeclineTokens ==
  /\ spc = "tokens"
  /\ Answers("INVALID_REQUEST") \/ Dies
  /\ UNCHANGED <<snapshot, readVars, others, summary, moments>>

(* mutant: the SELECT without BEGIN and COMMIT *)
SelectTokensInside ==
  /\ spc = "tokens"
  /\ Answers(IF dn = "owner" /\ Stored(View) THEN "SUCCESS" ELSE "FAILURE")
  /\ UNCHANGED <<snapshot, readVars, others, summary, moments>>

(* BEGIN, SELECT, COMMIT *)
SelectTokens ==
  /\ spc = "tokens"
  /\ snapshot' = NoTransaction
  /\ Answers(IF Found THEN "SUCCESS" ELSE "FAILURE")
  /\ UNCHANGED <<readVars, others, summary, moments>>

------------------------------------------------------------------------------
SummaryHandler == \/ ReceiveSummary \/ DeclineSummary \/ SelectRequests
                  \/ CountFiles \/ EndSummary
                  \/ ReceiveTokens \/ DeclineTokens \/ SelectTokens
                  \/ SelectThrows

(* a status request of the same thread *)
OnThread == /\ spc = "idle"
            /\ StatusHandler
            /\ others' = FALSE
            /\ summary' = NoSummary /\ answer' = "none"
            /\ moments' = {}
            /\ UNCHANGED spc

Meanwhile == /\ Backend
             /\ moments' = IF spc = "idle" THEN moments ELSE moments \cup {file'}
             /\ UNCHANGED <<spc, others, summary, answer>>

SummaryEnded == /\ \/ pc = "dead"
                   \/ spc = "dead"
                   \/ pc = "idle" /\ spc = "idle" /\ n = MaxRequests
                /\ UNCHANGED summaryVars

SummaryNext == \/ /\ pc # "dead" /\ spc # "dead"
                  /\ \/ SummaryHandler
                     \/ OnThread
                     \/ Meanwhile
               \/ SummaryEnded

SummarySpec == SummaryInit /\ [][SummaryNext]_summaryVars

------------------------------------------------------------------------------
(* Properties.                                                             *)

(* The state of the operations, and nothing is collected without a         *)
(* transaction: from the first SELECT of srmGetRequestSummary to its       *)
(* COMMIT the session has a snapshot.                                      *)
SummaryTypeOK ==
  /\ StatusTypeOK
  /\ spc \in {"idle", "summary", "count", "commit", "tokens", "dead"}
  /\ answer \in {"none", "SUCCESS", "PARTIAL_SUCCESS", "FAILURE", "INVALID_REQUEST"}
  /\ summary.completed + summary.waiting + summary.failed \in 0 .. NFiles
  /\ spc \in {"count", "commit"} => snapshot # NoTransaction

(* A summary is of one moment: the status of the request and the numbers of*)
(* its files, which two SELECTs collect while the backend works on them,   *)
(* are those of the database at one moment since the operation came.       *)
SummaryOfOneMoment ==
  answer \in {"SUCCESS", "PARTIAL_SUCCESS"} /\ summary # NoSummary =>
    \E db \in moments : summary = Counts(db, RequestStatus(db))

(* srmGetRequestSummary and srmGetRequestTokens do not miss a request that *)
(* was committed before they came, although the transaction an earlier     *)
(* srmGetRequestSummary of the thread left open does not see it.           *)
StoredIsFound ==
  answer = "FAILURE" /\ dn = "owner" => \E db \in moments : ~Stored(db)

(* "Tells the BE to check if the SURL is already recalled from tame and in *)
(* that case to update DB info (that will be available to the next get     *)
(* status request)." (BolStatusRequest.cpp:178-181): a file the backend has*)
(* confirmed to be on disk is not loaded as in progress any more.          *)
RecallIsAvailable ==
  [][pc = "load" =>
       \A f \in confirmed \cap DOMAIN turls' : turls'[f] # "REQUEST_INPROGRESS"]_summaryVars

==============================================================================
