----------------------------- MODULE SummaryProofs -----------------------------
(***************************************************************************)
(* A summary is of one moment and no stored request is missed, for every   *)
(* number of files and requests.  StatusProofs has what the status requests*)
(* of the same thread do.                                                  *)
(***************************************************************************)
EXTENDS RequestSummary, StatusProofs

Spcs == {"idle", "summary", "count", "commit", "tokens", "dead"}
AnswersGiven == {"none", "SUCCESS", "PARTIAL_SUCCESS", "FAILURE", "INVALID_REQUEST"}

(* the numbers of a summary are of files counted once *)
Summing == /\ summary.completed \in Nat /\ summary.waiting \in Nat /\ summary.failed \in Nat
           /\ summary.completed + summary.waiting + summary.failed <= NFiles

(* an operation keeps off the status requests, has no answer yet and knows *)
(* the database of this moment                                             *)
Underway == spc # "idle" => /\ pc = "idle" /\ answer = "none"
                            /\ spc # "dead" => file \in moments

(* what has been collected so far is of the snapshot *)
Collected ==
  /\ spc \in {"count", "commit"} =>
       /\ snapshot \in [Files -> FileStatuses] /\ snapshot \in moments
       /\ summary.status = RequestStatus(snapshot)
  /\ spc = "commit" => summary = Counts(snapshot, summary.status)
  /\ spc \in {"summary", "tokens"} => summary = NoSummary

SummaryInv == /\ StatusInv
              /\ spc \in Spcs /\ answer \in AnswersGiven
              /\ Summing /\ Underway /\ Collected
              /\ SummaryOfOneMoment /\ StoredIsFound

LEMMA CountsFit ==
  ASSUME NEW db, NEW s
  PROVE  LET c == Counts(db, s) IN
           /\ c.completed \in Nat /\ c.waiting \in Nat /\ c.failed \in Nat
           /\ c.completed + c.waiting + c.failed <= NFiles
<1> DEFINE Of(set) == {f \in Files : db[f] \in set}
           done == Of({"SUCCESS"})
           todo == Of({"REQUEST_QUEUED", "REQUEST_INPROGRESS"})
           failed == Of({"FAILURE"})
<1>1. done \subseteq Files /\ todo \subseteq Files /\ failed \subseteq Files
  OBVIOUS
<1>2. done \cap todo = {} /\ (done \cup todo) \cap failed = {}
  OBVIOUS
<1>3. /\ Counts(db, s).completed = Cardinality(done)
      /\ Counts(db, s).waiting = Cardinality(todo)
      /\ Counts(db, s).failed = Cardinality(failed)
  BY DEF Counts, CountOf
<1> HIDE DEF done, todo, failed
<1>4. /\ Cardinality(done) \in Nat /\ Cardinality(todo) \in Nat /\ Cardinality(failed) \in Nat
      /\ IsFiniteSet(done) /\ IsFiniteSet(todo) /\ IsFiniteSet(failed)
  BY <1>1, FileSets
<1>5. Cardinality(done \cup todo) = Cardinality(done) + Cardinality(todo)
  <2>1. Cardinality(done \cup todo) = Cardinality(done) + Cardinality(todo) - Cardinality(done \cap todo)
    BY <1>4, FS_Union
  <2>2. Cardinality(done \cap todo) = 0
    BY <1>2, NoFile
  <2> QED
    BY <1>4, <2>1, <2>2
<1>6. Cardinality((done \cup todo) \cup failed) = Cardinality(done \cup todo) + Cardinality(failed)
  <2>1. IsFiniteSet(done \cup todo) /\ Cardinality(done \cup todo) \in Nat
    BY <1>1, FileSets, done \cup todo \in SUBSET Files
  <2>2. Cardinality((done \cup todo) \cup failed)
          = Cardinality(done \cup todo) + Cardinality(failed) - Cardinality((done \cup todo) \cap failed)
    BY <1>4, <2>1, FS_Union
  <2>3. Cardinality((done \cup todo) \cap failed) = 0
    BY <1>2, NoFile
  <2> QED
    BY <1>4, <2>1, <2>2, <2>3
<1>7. Cardinality((done \cup todo) \cup failed) <= NFiles
  <2>1. Cardinality(Files) = NFiles
    BY StatusAssumption, Numbers DEF StatusAssumption, Files
  <2>2. Cardinality((done \cup todo) \cup failed) <= Cardinality(Files)
    BY <1>1, SubsetSmaller, (done \cup todo) \cup failed \in SUBSET Files
  <2> QED
    BY <2>1, <2>2
<1> QED
  BY <1>3, <1>4, <1>5, <1>6, <1>7

LEMMA SummaryInitial == SummaryInit => SummaryInv
<1> SUFFICES ASSUME SummaryInit PROVE SummaryInv
  OBVIOUS
<1>1. StatusInv
  BY StatusInvInit DEF SummaryInit
<1>2. Summing
  BY StatusAssumption DEF SummaryInit, NoSummary, Summing, StatusAssumption
<1>3. Underway /\ Collected /\ SummaryOfOneMoment /\ StoredIsFound
  BY DEF SummaryInit, Underway, Collected, SummaryOfOneMoment, StoredIsFound
<1> QED
  BY <1>1, <1>2, <1>3 DEF SummaryInit, SummaryInv, Spcs, AnswersGiven

(* the operations leave the status requests as they are, but for the       *)
(* snapshot and the number of requests                                     *)
LEMMA OperationTyped ==
  ASSUME StatusInv,
         UNCHANGED <<surlOf, file, onDisk, confirmed, pc, asked, turls, unchecked,
                     countSuccess, countFailure, status>>,
         n' \in 0 .. MaxRequests,
         snapshot' \in {snapshot, file, NoTransaction}
  PROVE  StatusInv'
<1>1. Database' /\ Request'
  BY DEF StatusInv, Database, Whole, Request
<1>2. Loaded' /\ Fresh'
  BY DEF StatusInv, Loaded, Fresh
<1>3. Counted'
  BY DEF StatusInv, Counted, NTurls
<1> QED
  BY <1>1, <1>2, <1>3 DEF StatusInv

LEMMA OperationKeeps ==
  ASSUME SummaryInv, SummaryHandler
  PROVE  SummaryInv'
<1> USE DEF storeVars, backendVars, requestVars, countVars, readVars
<1> DEFINE Goal == SummaryInv'
<1>0. /\ StatusInv /\ Summing /\ Underway /\ Collected /\ n \in 0 .. MaxRequests
      /\ file \in [Files -> FileStatuses]
  BY DEF SummaryInv, StatusInv, Request, Database
<1>1. ASSUME NEW op \in {"summary", "tokens"}, Arrives(op) PROVE Goal
  <2>1. StatusInv'
    BY <1>0, <1>1, StatusAssumption, OperationTyped DEF Arrives, StatusAssumption
  <2>2. Summing'
    BY <1>1, StatusAssumption DEF Arrives, Summing, NoSummary, StatusAssumption
  <2>3. Underway' /\ Collected' /\ SummaryOfOneMoment' /\ StoredIsFound'
    BY <1>1 DEF Arrives, Underway, Collected, SummaryOfOneMoment, StoredIsFound
  <2> QED
    BY <1>1, <2>1, <2>2, <2>3 DEF SummaryInv, Arrives, Spcs, AnswersGiven
<1>2. CASE DeclineSummary \/ DeclineTokens \/ SelectThrows
  <2>1. StatusInv'
    BY <1>0, <1>2, OperationTyped DEF DeclineSummary, DeclineTokens, SelectThrows
  <2>2. /\ spc \notin {"idle", "dead"}
        /\ UNCHANGED <<pc, file, summary, moments>>
        /\ \/ spc' = "idle" /\ answer' = "INVALID_REQUEST"
           \/ spc' = "dead" /\ answer' = answer
    BY <1>2 DEF DeclineSummary, DeclineTokens, SelectThrows, Answers, Dies
  <2>3. Summing' /\ Underway' /\ Collected' /\ SummaryOfOneMoment' /\ StoredIsFound'
    BY <1>0, <2>2 DEF Summing, Underway, Collected, SummaryOfOneMoment, StoredIsFound
  <2> QED
    BY <2>1, <2>2, <2>3 DEF SummaryInv, Spcs, AnswersGiven
<1>3. CASE SelectRequests
  <2>1. StatusInv'
    BY <1>0, <1>3, OperationTyped DEF SelectRequests
  <2>2. /\ spc = "summary" /\ pc = "idle" /\ answer = "none" /\ file \in moments
        /\ summary = NoSummary
        /\ snapshot' = file
        /\ UNCHANGED <<pc, file, dn, moments>>
    BY <1>0, <1>3 DEF SelectRequests, Underway, Collected
  <2>3. CASE Found
    <3>1. spc' = "count" /\ answer' = "none" /\ summary' = [NoSummary EXCEPT !.status = RequestStatus(file)]
      BY <1>3, <2>2, <2>3 DEF SelectRequests
    <3>2. Summing'
      BY <3>1, StatusAssumption DEF Summing, NoSummary, StatusAssumption
    <3>3. summary'.status = RequestStatus(snapshot')
      BY <2>2, <3>1 DEF NoSummary
    <3>4. Collected'
      BY <1>0, <2>2, <3>1, <3>3 DEF Collected, RequestStatus
    <3>5. Underway' /\ SummaryOfOneMoment' /\ StoredIsFound'
      BY <2>2, <3>1 DEF Underway, SummaryOfOneMoment, StoredIsFound
    <3> QED
      BY <2>1, <3>1, <3>2, <3>4, <3>5 DEF SummaryInv, Spcs, AnswersGiven
  <2>4. CASE ~Found
    <3>1. spc' = "idle" /\ answer' = "FAILURE" /\ summary' = summary
      BY <1>3, <2>4 DEF SelectRequests, Answers
    <3>2. Summing' /\ Collected' /\ Underway' /\ SummaryOfOneMoment'
      BY <1>0, <3>1 DEF Summing, Collected, Underway, SummaryOfOneMoment
    <3>3. StoredIsFound'
      BY <2>2, <2>4, <3>1 DEF StoredIsFound, Found
    <3> QED
      BY <2>1, <3>1, <3>2, <3>3 DEF SummaryInv, Spcs, AnswersGiven
  <2> QED
    BY <2>3, <2>4
<1>4. CASE CountFiles
  <2>1. StatusInv'
    BY <1>0, <1>4, OperationTyped DEF CountFiles
  <2>2. /\ spc = "count" /\ spc' = "commit" /\ answer' = answer /\ answer = "none"
        /\ snapshot \in [Files -> FileStatuses] /\ snapshot \in moments /\ file \in moments
        /\ summary.status = RequestStatus(snapshot) /\ pc = "idle"
        /\ UNCHANGED <<pc, file, snapshot, moments>>
        /\ summary' = Counts(View, summary.status)
    BY <1>0, <1>4 DEF CountFiles, Underway, Collected
  <2>3. View = snapshot
    <3>1. 1 \in DOMAIN snapshot
      BY <2>2, StatusAssumption DEF Files, StatusAssumption
    <3>2. snapshot # NoTransaction
      BY <3>1 DEF NoTransaction
    <3> QED
      BY <3>2 DEF View
  <2>4. summary'.status = summary.status
    BY <2>2 DEF Counts
  <2>5. Collected'
    BY <2>2, <2>3, <2>4 DEF Collected, RequestStatus, Counts, CountOf
  <2>6. Summing'
    BY <2>2, CountsFit DEF Summing
  <2>7. Underway' /\ SummaryOfOneMoment' /\ StoredIsFound'
    BY <2>2 DEF Underway, SummaryOfOneMoment, StoredIsFound
  <2> QED
    BY <2>1, <2>2, <2>5, <2>6, <2>7 DEF SummaryInv, Spcs, AnswersGiven
<1>5. CASE EndSummary
  <2>1. StatusInv'
    BY <1>0, <1>5, OperationTyped DEF EndSummary
  <2>2. /\ spc = "commit" /\ spc' = "idle" /\ answer' \in {"PARTIAL_SUCCESS", "SUCCESS"}
        /\ UNCHANGED <<summary, moments>>
        /\ snapshot \in moments
        /\ summary = Counts(snapshot, RequestStatus(snapshot))
    BY <1>0, <1>5 DEF EndSummary, Answers, Collected
  <2>3. Summing' /\ Collected' /\ Underway' /\ StoredIsFound'
    BY <1>0, <2>2 DEF Summing, Collected, Underway, StoredIsFound
  <2>4. SummaryOfOneMoment'
    BY <2>2 DEF SummaryOfOneMoment, Counts, CountOf, RequestStatus
  <2> QED
    BY <2>1, <2>2, <2>3, <2>4 DEF SummaryInv, Spcs, AnswersGiven
<1>6. CASE SelectTokens
  <2>1. StatusInv'
    BY <1>0, <1>6, OperationTyped DEF SelectTokens
  <2>2. /\ spc = "tokens" /\ spc' = "idle"
        /\ answer' = IF Found THEN "SUCCESS" ELSE "FAILURE"
        /\ UNCHANGED <<summary, moments, dn>>
        /\ file \in moments /\ summary = NoSummary
    BY <1>0, <1>6 DEF SelectTokens, Answers, Underway, Collected
  <2>3. Summing' /\ Collected' /\ Underway' /\ SummaryOfOneMoment'
    BY <1>0, <2>2 DEF Summing, Collected, Underway, SummaryOfOneMoment
  <2>4. StoredIsFound'
    BY <2>2 DEF StoredIsFound, Found
  <2> QED
    BY <2>1, <2>2, <2>3, <2>4 DEF SummaryInv, Spcs, AnswersGiven
<1> QED
  BY <1>1, <1>2, <1>3, <1>4, <1>5, <1>6 DEF SummaryHandler, ReceiveSummary, ReceiveTokens

LEMMA OnThreadKeeps ==
  ASSUME SummaryInv, OnThread
  PROVE  SummaryInv'
<1>1. StatusInv'
  BY HandlerTyped DEF SummaryInv, OnThread
<1>2. /\ spc' = "idle" /\ summary' = NoSummary /\ answer' = "none"
  BY DEF OnThread
<1>3. Summing'
  BY <1>2, StatusAssumption DEF Summing, NoSummary, StatusAssumption
<1>4. Underway' /\ Collected' /\ SummaryOfOneMoment' /\ StoredIsFound'
  BY <1>2 DEF Underway, Collected, SummaryOfOneMoment, StoredIsFound
<1> QED
  BY <1>1, <1>2, <1>3, <1>4 DEF SummaryInv, Spcs, AnswersGiven

(* a moment more *)
LEMMA MeanwhileKeeps ==
  ASSUME SummaryInv, Meanwhile
  PROVE  SummaryInv'
<1>1. StatusInv'
  BY BackendTyped DEF SummaryInv, Meanwhile
<1>2. UNCHANGED <<spc, summary, answer, snapshot, pc, dn>>
  BY DEF Meanwhile, Backend, Store, Advance, Recall, requestVars
<1>3. moments \subseteq moments' /\ (spc # "idle" => file' \in moments')
  BY DEF Meanwhile
<1>4. Summing' /\ Underway'
  BY <1>2, <1>3 DEF SummaryInv, Summing, Underway
<1>5. Collected'
  BY <1>2, <1>3 DEF SummaryInv, Collected, Counts, CountOf, RequestStatus
<1>6. SummaryOfOneMoment' /\ StoredIsFound'
  BY <1>2, <1>3 DEF SummaryInv, SummaryOfOneMoment, StoredIsFound, Stored
<1> QED
  BY <1>1, <1>2, <1>4, <1>5, <1>6 DEF SummaryInv

LEMMA StutterKeeps ==
  ASSUME SummaryInv, UNCHANGED summaryVars
  PROVE  SummaryInv'
<1>1. UNCHANGED <<statusVars, spc, others, summary, answer, moments>>
  BY DEF summaryVars, ownVars
<1>2. StatusInv' /\ UNCHANGED <<snapshot, pc, file, dn>>
  BY <1>1, StutterTyped DEF SummaryInv, statusVars, backendVars, requestVars
<1>3. Summing' /\ Underway' /\ Collected'
  BY <1>1, <1>2 DEF SummaryInv, Summing, Underway, Collected, Counts, CountOf, RequestStatus
<1>4. SummaryOfOneMoment' /\ StoredIsFound'
  BY <1>1, <1>2 DEF SummaryInv, SummaryOfOneMoment, StoredIsFound
<1> QED
  BY <1>1, <1>2, <1>3, <1>4 DEF SummaryInv

THEOREM SummaryAlways == SummarySpec => []SummaryInv
<1>1. SummaryInit => SummaryInv
  BY SummaryInitial
<1>2. SummaryInv /\ [SummaryNext]_summaryVars => SummaryInv'
  BY OperationKeeps, OnThreadKeeps, MeanwhileKeeps, StutterKeeps DEF SummaryNext, SummaryEnded
<1> QED
  BY <1>1, <1>2, PTL DEF SummarySpec

(* The variables have their types, the numbers of a summary are of files   *)
(* counted once, and srmGetRequestSummary collects inside a transaction    *)
(* only (RequestSummary.cpp, RequestSummaryDbHelper.cpp).                  *)
THEOREM SummaryTypeCorrect == SummarySpec => []SummaryTypeOK
<1>1. SummaryInv => SummaryTypeOK
  <2> SUFFICES ASSUME SummaryInv PROVE SummaryTypeOK
    OBVIOUS
  <2>1. StatusTypeOK
    BY StatusInvTypes DEF SummaryInv
  <2>2. summary.completed + summary.waiting + summary.failed \in 0 .. NFiles
    BY StatusAssumption DEF SummaryInv, Summing, StatusAssumption
  <2>3. spc \in {"count", "commit"} => snapshot # NoTransaction
    <3>1. spc \in {"count", "commit"} => 1 \in DOMAIN snapshot
      BY StatusAssumption DEF SummaryInv, Collected, Files, StatusAssumption
    <3> QED
      BY <3>1 DEF NoTransaction
  <2> QED
    BY <2>1, <2>2, <2>3 DEF SummaryInv, SummaryTypeOK, Spcs, AnswersGiven
<1> QED
  BY <1>1, SummaryAlways, PTL

(* srmGetRequestSummary collects with two SELECTs what was true at one     *)
(* moment since it came.                                                   *)
THEOREM OneMoment == SummarySpec => []SummaryOfOneMoment
BY SummaryAlways, PTL DEF SummaryInv

(* srmGetRequestSummary and srmGetRequestTokens miss no request of the     *)
(* client that was stored when they came, whatever transaction the thread  *)
(* has left open.                                                          *)
THEOREM StoredFound == SummarySpec => []StoredIsFound
BY SummaryAlways, PTL DEF SummaryInv

==============================================================================
