---------------------------- MODULE StatusRequest -----------------------------
(***************************************************************************)
(* srmStatusOfPutRequest, srmStatusOfGetRequest and                        *)
(* srmStatusOfBringOnlineRequest (src/frontend/asynch_status.cpp) on one   *)
(* worker thread: the checks, processRequestStatus (StatusTemplate.hpp),   *)
(* loadFromDB and buildResponse of the three status requests.              *)
(*                                                                         *)
(* One stored request is followed, of one type, with files 1 .. NFiles.    *)
(* The backend stores its progress in the database while clients ask for   *)
(* it.  m_surls and m_turls are sets ordered by address: their order is    *)
(* any.                                                                    *)
(***************************************************************************)
EXTENDS Integers, Sequences, FiniteSets

CONSTANTS NFiles,       \* files of the stored request
          Surls,        \* SURLs of the files and of the status requests
          AskedLists,   \* bound: the lists of SURLs of status requests
          MaxRequests   \* bound: status requests in one behaviour

ASSUME StatusAssumption == /\ NFiles \in Nat \ {0}
                           /\ AskedLists \subseteq Seq(Surls)
                           /\ MaxRequests \in Nat

VARIABLES kind, surlOf, \* the stored request: its type, the SURL of each file
          file,         \* the database: status of each file
          onDisk,       \* SURLs the backend has recalled from tape
          confirmed,    \* files the backend has confirmed to this process
          snapshot,     \* files as the session's open transaction sees them
          pc,           \* where the worker is
          n,            \* status requests so far
          asked,        \* m_surls
          dn,           \* whose token the client presents
          turls,        \* m_turls: status of each file loaded
          unchecked,    \* those buildResponse has yet to come to
          countSuccess, countFailure,
          status,       \* m_status
          reply,        \* the last answer
          held          \* statuses each file has had since the request came

storeVars == <<kind, surlOf>>
backendVars == <<file, onDisk, confirmed>>
requestVars == <<asked, dn>>
countVars == <<countSuccess, countFailure>>
statusVars == <<storeVars, backendVars, snapshot, pc, n, requestVars, turls,
                unchecked, countVars, status, reply, held>>

Files == 1 .. NFiles
FileStatuses == {"absent", "REQUEST_QUEUED", "REQUEST_INPROGRESS", "SUCCESS", "FAILURE"}
Errors == {"INTERNAL_ERROR", "INVALID_REQUEST", "AUTHORIZATION_FAILURE"}
Statuses == Errors \cup {"REQUEST_QUEUED", "REQUEST_INPROGRESS", "SUCCESS",
                         "FAILURE", "PARTIAL_SUCCESS"}
StatusPc == {"idle", "checking", "ping", "load", "build", "dead"}

NoTransaction == [f \in {} |-> "absent"]
NoTurls == [f \in {} |-> "absent"]
NoReply == [status |-> "none", shown |-> NoTurls, missing |-> {}]
Answer(s) == [NoReply EXCEPT !.status = s]

(* the status the backend keeps in request_queue, from those of the files *)
RequestStatus(db) ==
  LET of == {db[f] : f \in Files} IN
    IF Cardinality(of) = 1 THEN CHOOSE s \in of : TRUE
    ELSE IF of \cap {"REQUEST_QUEUED", "REQUEST_INPROGRESS"} # {} THEN "REQUEST_INPROGRESS"
    ELSE "PARTIAL_SUCCESS"

(* what a SELECT of the session sees *)
View == IF snapshot = NoTransaction THEN file ELSE snapshot

StatusInit == /\ kind \in {"PTP", "PTG", "BOL"}
              /\ surlOf \in [Files -> Surls]
              /\ file = [f \in Files |-> "absent"]
              /\ onDisk = {} /\ confirmed = {}
              /\ snapshot = NoTransaction
              /\ pc = "idle"
              /\ n = 0
              /\ asked = <<>> /\ dn = "owner"
              /\ turls = NoTurls /\ unchecked = {}
              /\ countSuccess = 0 /\ countFailure = 0
              /\ status = "REQUEST_QUEUED"
              /\ reply = NoReply
              /\ held = [f \in Files |-> {}]

------------------------------------------------------------------------------
(* The database and the backend.                                           *)

Becomes(db) == /\ file' = db
               /\ held' = [f \in Files |-> held[f] \cup {db[f]}]

(* another thread commits the request *)
Store == /\ file = [f \in Files |-> "absent"]
         /\ Becomes([f \in Files |-> "REQUEST_QUEUED"])
         /\ UNCHANGED <<storeVars, onDisk, confirmed, snapshot, pc, n, requestVars,
                        turls, unchecked, countVars, status, reply>>

(* the backend works on a file; one that is on disk no longer fails *)
Advance(f) ==
  /\ \/ /\ file[f] = "REQUEST_QUEUED"
        /\ Becomes([file EXCEPT ![f] = "REQUEST_INPROGRESS"])
     \/ /\ file[f] = "REQUEST_INPROGRESS"
        /\ \/ Becomes([file EXCEPT ![f] = "SUCCESS"])
           \/ surlOf[f] \notin onDisk /\ Becomes([file EXCEPT ![f] = "FAILURE"])
  /\ UNCHANGED <<storeVars, onDisk, confirmed, snapshot, pc, n, requestVars, turls,
                 unchecked, countVars, status, reply>>

(* a file arrives from tape *)
Recall(f) ==
  /\ kind # "PTP"
  /\ file[f] = "REQUEST_INPROGRESS"
  /\ surlOf[f] \notin onDisk
  /\ onDisk' = onDisk \cup {surlOf[f]}
  /\ UNCHANGED <<storeVars, file, confirmed, snapshot, pc, n, requestVars, turls,
                 unchecked, countVars, status, reply, held>>

Backend == Store \/ \E f \in Files : Advance(f) \/ Recall(f)

------------------------------------------------------------------------------
(* The handler up to the SELECT.                                           *)

(* mutant: the request object of the thread is used again *)
ReceiveKeeping ==
  /\ pc = "idle"
  /\ n < MaxRequests
  /\ n' = n + 1
  /\ asked' \in AskedLists
  /\ dn' \in {"owner", "other", "nobody"}
  /\ status' = "REQUEST_QUEUED"
  /\ reply' = NoReply
  /\ held' = [f \in Files |-> {file[f]}]
  /\ pc' = "checking"
  /\ UNCHANGED <<storeVars, backendVars, snapshot, turls, unchecked, countVars>>

(* the request is loaded.  "nobody": no request of this type has the token *)
Receive ==
  /\ pc = "idle"
  /\ n < MaxRequests
  /\ n' = n + 1
  /\ asked' \in AskedLists
  /\ dn' \in {"owner", "other", "nobody"}
  /\ turls' = NoTurls /\ unchecked' = {}
  /\ countSuccess' = 0 /\ countFailure' = 0
  /\ status' = "REQUEST_QUEUED"
  /\ reply' = NoReply
  /\ held' = [f \in Files |-> {file[f]}]
  /\ pc' = "checking"
  /\ UNCHANGED <<storeVars, backendVars, snapshot>>

(* load() throws invalid_request, is_blacklisted authorization_error, or   *)
(* this is srmStatusOfCopyRequest, which is not supported                  *)
Decline ==
  /\ pc = "checking"
  /\ \E s \in {"INVALID_REQUEST", "AUTHORIZATION_FAILURE", "NOT_SUPPORTED"} : reply' = Answer(s)
  /\ pc' = "idle"
  /\ UNCHANGED <<storeVars, backendVars, snapshot, n, requestVars, turls,
                 unchecked, countVars, status, held>>

(* buildSpecificResponse *)
BuildSpecific(s) == status' = s /\ pc' = "build"

Blacklisted ==
  /\ pc = "checking"
  /\ BuildSpecific("AUTHORIZATION_FAILURE")
  /\ UNCHANGED <<storeVars, backendVars, snapshot, n, requestVars, turls,
                 unchecked, countVars, reply, held>>

NotBlacklisted ==
  /\ pc = "checking"
  /\ pc' = "ping"
  /\ UNCHANGED <<storeVars, backendVars, snapshot, n, requestVars, turls,
                 unchecked, countVars, status, reply, held>>

(* a connection that does not answer has lost its transaction *)
Ping ==
  /\ pc = "ping"
  /\ \/ pc' = "load" /\ UNCHANGED <<status, snapshot>>
     \/ BuildSpecific("INTERNAL_ERROR") /\ snapshot' = NoTransaction
  /\ UNCHANGED <<storeVars, backendVars, n, requestVars, turls,
                 unchecked, countVars, reply, held>>

(* the files the SELECT returns *)
Selected == {f \in Files : /\ dn # "nobody"
                           /\ View[f] # "absent"
                           /\ asked = <<>> \/ \E k \in DOMAIN asked : asked[k] = surlOf[f]}

(* the SELECT throws, or returns no row: token_not_found *)
LoadNothing ==
  /\ pc = "load"
  /\ \/ BuildSpecific("FAILURE") /\ snapshot' \in {snapshot, NoTransaction}
     \/ /\ Selected = {}
        /\ BuildSpecific("INVALID_REQUEST")
        /\ UNCHANGED snapshot
  /\ UNCHANGED <<storeVars, backendVars, n, requestVars, turls,
                 unchecked, countVars, reply, held>>

Load ==
  /\ pc = "load"
  /\ Selected # {}
  /\ turls' = [f \in Selected |-> View[f]]
  /\ unchecked' = Selected
  /\ BuildSpecific(IF dn = "owner" THEN RequestStatus(View) ELSE "AUTHORIZATION_FAILURE")
  /\ UNCHANGED <<storeVars, backendVars, snapshot, n, requestVars, countVars,
                 reply, held>>

------------------------------------------------------------------------------
(* buildResponse.                                                          *)

AsksBackend(f) == kind # "PTP" /\ turls[f] = "REQUEST_INPROGRESS"

(* isSurlOnDisk is true: the backend stores it at once.  The status of a   *)
(* srmPrepareToGet is answered as it was loaded.                           *)
OnDisk(f) ==
  /\ pc = "build" /\ f \in unchecked /\ AsksBackend(f)
  /\ surlOf[f] \in onDisk
  /\ unchecked' = unchecked \ {f}
  /\ Becomes([g \in Files |-> IF surlOf[g] = surlOf[f] /\ file[g] = "REQUEST_INPROGRESS"
                              THEN "SUCCESS" ELSE file[g]])
  /\ confirmed' = confirmed \cup {f}
  /\ \/ /\ kind = "BOL"
        /\ turls' = [turls EXCEPT ![f] = "SUCCESS"]
        /\ countSuccess' = countSuccess + 1
     \/ kind # "BOL" /\ UNCHANGED <<turls, countSuccess>>
  /\ UNCHANGED <<storeVars, onDisk, snapshot, pc, n, requestVars, countFailure,
                 status, reply>>

(* it is false, or the call fails *)
NotOnDisk(f) ==
  /\ pc = "build" /\ f \in unchecked /\ AsksBackend(f)
  /\ unchecked' = unchecked \ {f}
  /\ UNCHANGED <<storeVars, backendVars, snapshot, pc, n, requestVars, turls,
                 countVars, status, reply, held>>

(* mutant: queued files are counted as done *)
CountQueued(f) ==
  /\ pc = "build" /\ f \in unchecked /\ ~AsksBackend(f)
  /\ unchecked' = unchecked \ {f}
  /\ IF kind = "BOL" /\ turls[f] # "FAILURE"
     THEN countSuccess' = countSuccess + 1 ELSE UNCHANGED countSuccess
  /\ IF kind = "BOL" /\ turls[f] = "FAILURE"
     THEN countFailure' = countFailure + 1 ELSE UNCHANGED countFailure
  /\ UNCHANGED <<storeVars, backendVars, snapshot, pc, n, requestVars, turls,
                 status, reply, held>>

(* mutant: the iterator is not advanced *)
CountAgain(f) ==
  /\ pc = "build" /\ f \in unchecked /\ ~AsksBackend(f)
  /\ UNCHANGED unchecked
  /\ IF kind = "BOL" /\ turls[f] = "SUCCESS"
     THEN countSuccess' = countSuccess + 1 ELSE UNCHANGED countSuccess
  /\ IF kind = "BOL" /\ turls[f] = "FAILURE"
     THEN countFailure' = countFailure + 1 ELSE UNCHANGED countFailure
  /\ UNCHANGED <<storeVars, backendVars, snapshot, pc, n, requestVars, turls,
                 status, reply, held>>

(* srmBringOnline alone counts *)
Count(f) ==
  /\ pc = "build" /\ f \in unchecked /\ ~AsksBackend(f)
  /\ unchecked' = unchecked \ {f}
  /\ IF kind = "BOL" /\ turls[f] = "SUCCESS"
     THEN countSuccess' = countSuccess + 1 ELSE UNCHANGED countSuccess
  /\ IF kind = "BOL" /\ turls[f] = "FAILURE"
     THEN countFailure' = countFailure + 1 ELSE UNCHANGED countFailure
  /\ UNCHANGED <<storeVars, backendVars, snapshot, pc, n, requestVars, turls,
                 status, reply, held>>

NTurls == Cardinality(DOMAIN turls)
Size == IF asked = <<>> THEN NTurls ELSE Len(asked)
HasMissingSurls == NTurls < Len(asked)
Missing == {k \in DOMAIN asked : \A f \in DOMAIN turls : surlOf[f] # asked[k]}

(* addMissingSurls writes from the last TURL on, not from behind it *)
FirstMissing == IF NTurls = 0 THEN 0 ELSE NTurls - 1
Overflow == HasMissingSurls /\ FirstMissing + Cardinality(Missing) > Size

(* the TURLs that stay in the array: those within its size, less the one   *)
(* overwritten                                                             *)
Shown ==
  LET m == IF HasMissingSurls /\ Missing # {} THEN FirstMissing
           ELSE IF NTurls < Size THEN NTurls ELSE Size
  IN {S \in SUBSET DOMAIN turls : Cardinality(S) = m}

(* srmBringOnline makes a status of its own once all of the array is done *)
FinalStatus ==
  IF kind # "BOL" \/ Size = 0 \/ countSuccess + countFailure # Size THEN status
  ELSE IF countFailure = 0 THEN "SUCCESS"
  ELSE IF countSuccess = 0 THEN "FAILURE"
  ELSE "PARTIAL_SUCCESS"

Respond ==
  /\ pc = "build" /\ unchecked = {}
  /\ ~Overflow
  /\ \E S \in Shown :
       reply' = [status |-> FinalStatus,
                 shown |-> [f \in S |-> turls[f]],
                 missing |-> IF HasMissingSurls THEN Missing ELSE {}]
  /\ pc' = "idle"
  /\ UNCHANGED <<storeVars, backendVars, snapshot, n, requestVars, turls,
                 unchecked, countVars, status, held>>

(* addMissingSurls throws a logic_error nobody catches, which ends the     *)
(* process; or buildResponse has written more TURLs than SURLs were asked  *)
(* for, behind the array, and what that does is undefined                  *)
Misfits == Overflow \/ NTurls > Size

RespondFails ==
  /\ pc = "build" /\ unchecked = {}
  /\ Misfits
  /\ pc' = "dead"
  /\ UNCHANGED <<storeVars, backendVars, snapshot, n, requestVars, turls,
                 unchecked, countVars, status, reply, held>>

StatusHandler ==
  \/ Receive \/ Decline \/ Blacklisted \/ NotBlacklisted \/ Ping
  \/ LoadNothing \/ Load
  \/ \E f \in Files : OnDisk(f) \/ NotOnDisk(f) \/ Count(f)
  \/ Respond \/ RespondFails

StatusEnded == /\ \/ pc = "dead"
                  \/ pc = "idle" /\ n = MaxRequests
               /\ UNCHANGED statusVars

StatusNext == \/ pc # "dead" /\ (StatusHandler \/ Backend)
              \/ StatusEnded

StatusSpec == StatusInit /\ [][StatusNext]_statusVars

------------------------------------------------------------------------------
(* Properties.                                                             *)

StatusTypeOK ==
  /\ file \in [Files -> FileStatuses] /\ onDisk \subseteq Surls /\ confirmed \subseteq Files
  /\ snapshot \in [Files -> FileStatuses] \cup {NoTransaction}
  /\ pc \in StatusPc /\ n \in 0 .. MaxRequests
  /\ asked \in AskedLists \cup {<<>>}
  /\ DOMAIN turls \subseteq Files /\ unchecked \subseteq DOMAIN turls
  /\ countSuccess + countFailure \in 0 .. NTurls
  /\ status \in Statuses

Answered == pc = "idle" /\ n > 0
AskedFiles == {f \in Files : asked = <<>> \/ \E k \in DOMAIN asked : asked[k] = surlOf[f]}

SurlsDiffer == \A f, g \in Files : surlOf[f] = surlOf[g] => f = g

(* An answer is current: the status it gives a file is one the file had    *)
(* between the arrival of the request and the answer, although it is put   *)
(* together from a SELECT and later calls to the backend; and a SURL it    *)
(* says nothing is known of was not stored when the request came.  (The    *)
(* SURLs of the stored request differ: the backend answers by SURL.)       *)
AnswersAreCurrent ==
  Answered /\ SurlsDiffer =>
    /\ \A f \in DOMAIN reply.shown : reply.shown[f] \in held[f]
    /\ \A k \in reply.missing, f \in Files :
         surlOf[f] = asked[k] /\ DOMAIN turls # {} => "absent" \in held[f]

(* srmStatusOfBringOnlineRequest counts the files that are done and those  *)
(* that failed against the size of its answer: it reports success for all  *)
(* of the files asked for only if each of them has been done, if no SURL is*)
(* stored twice.                                                           *)
SuccessMeansDone ==
  /\ Answered
  /\ reply.status = "SUCCESS"
  /\ SurlsDiffer
  => \A f \in AskedFiles : "SUCCESS" \in held[f]

(* "Fill status for each surl." (PutStatusRequest.cpp:197): each SURL asked*)
(* for is in the answer.                                                   *)
StatusForEachSurl ==
  Answered /\ reply.status \in {"REQUEST_QUEUED", "REQUEST_INPROGRESS"} =>
    \A k \in DOMAIN asked : \/ k \in reply.missing
                            \/ \E f \in DOMAIN reply.shown : surlOf[f] = asked[k]

==============================================================================
