----------------------------- MODULE StatusProofs -----------------------------
(***************************************************************************)
(* What a status request answers is current, for every number of files,    *)
(* SURLs, lists of SURLs asked for and status requests.                    *)
(***************************************************************************)
EXTENDS StatusRequest, FiniteSetTheorems, TLAPS

(* the backend has all of the request or none of it *)
Whole(db) == \/ \A f \in Files : db[f] = "absent"
             \/ \A f \in Files : db[f] # "absent"

Database == /\ surlOf \in [Files -> Surls]
            /\ file \in [Files -> FileStatuses] /\ Whole(file)
            /\ onDisk \subseteq Surls /\ confirmed \subseteq Files
            /\ \/ snapshot = NoTransaction
               \/ snapshot \in [Files -> FileStatuses] /\ Whole(snapshot)

Request == /\ pc \in StatusPc /\ n \in 0 .. MaxRequests
           /\ asked \in AskedLists \cup {<<>>}
           /\ status \in Statuses

Loaded == /\ DOMAIN turls \subseteq Files
          /\ turls \in [DOMAIN turls -> FileStatuses]
          /\ unchecked \subseteq DOMAIN turls

(* a file is counted once at most, and not before buildResponse comes to it *)
Counted == /\ countSuccess \in Nat /\ countFailure \in Nat
           /\ countSuccess + countFailure + Cardinality(unchecked) <= NTurls

(* what is loaded goes into an empty request *)
Fresh == pc \in {"checking", "ping", "load"} =>
           /\ turls = NoTurls /\ unchecked = {}
           /\ countSuccess = 0 /\ countFailure = 0

StatusInv == Database /\ Request /\ Loaded /\ Counted /\ Fresh

------------------------------------------------------------------------------
(* Sets of files and the status of a request.                              *)

LEMMA FileSets ==
  ASSUME NEW S \in SUBSET Files
  PROVE  IsFiniteSet(S) /\ Cardinality(S) \in Nat
<1>1. IsFiniteSet(1 .. NFiles)
  BY StatusAssumption, FS_Interval DEF StatusAssumption
<1>2. IsFiniteSet(S)
  BY <1>1, FS_Subset DEF Files
<1> QED
  BY <1>2, FS_CardinalityType

LEMMA SubsetSmaller ==
  ASSUME NEW T \in SUBSET Files, NEW S \in SUBSET T
  PROVE  /\ Cardinality(S) \in Nat /\ Cardinality(T) \in Nat
         /\ Cardinality(S) <= Cardinality(T)
         /\ Cardinality(S) = Cardinality(T) => S = T
BY FileSets, FS_Subset, S \in SUBSET Files

LEMMA OneLess ==
  ASSUME NEW S \in SUBSET Files, NEW f \in S
  PROVE  /\ Cardinality(S \ {f}) \in Nat
         /\ Cardinality(S) = Cardinality(S \ {f}) + 1
<1>1. Cardinality(S \ {f}) = Cardinality(S) - 1 /\ Cardinality(S) \in Nat
  BY FileSets, FS_RemoveElement
<1>2. Cardinality(S \ {f}) \in Nat
  BY FileSets, S \ {f} \in SUBSET Files
<1> QED
  BY <1>1, <1>2

LEMMA NoFile == Cardinality({}) = 0
BY FS_EmptySet

LEMMA Numbers ==
  ASSUME NEW m \in Nat
  PROVE  IsFiniteSet(1 .. m) /\ Cardinality(1 .. m) = m
BY FS_Interval

LEMMA OneStatus ==
  ASSUME NEW db \in [Files -> FileStatuses], NEW of,
         of = {db[f] : f \in Files},
         Cardinality(of) = 1
  PROVE  \E s : of = {s}
<1>1. db \in Surjection(Files, of)
  BY DEF Surjection
<1>2. IsFiniteSet(of)
  BY <1>1, FileSets, FS_Surjection, Files \in SUBSET Files
<1> QED
  BY <1>2, FS_Singleton

LEMMA StatusOfRequest ==
  ASSUME NEW db \in [Files -> FileStatuses], NEW f \in Files, db[f] # "absent"
  PROVE  /\ RequestStatus(db) \in Statuses
         /\ RequestStatus(db) = "SUCCESS" => \A g \in Files : db[g] = "SUCCESS"
<1>1. PICK of : of = {db[g] : g \in Files}
  OBVIOUS
<1>2. RequestStatus(db) = IF Cardinality(of) = 1 THEN CHOOSE s \in of : TRUE
        ELSE IF of \cap {"REQUEST_QUEUED", "REQUEST_INPROGRESS"} # {} THEN "REQUEST_INPROGRESS"
        ELSE "PARTIAL_SUCCESS"
  BY <1>1 DEF RequestStatus
<1>3. CASE Cardinality(of) = 1
  <2>1. PICK s : of = {s}
    BY <1>1, <1>3, OneStatus
  <2>2. \A g \in Files : db[g] = s
    BY <1>1, <2>1
  <2>3. RequestStatus(db) = s
    BY <1>2, <1>3, <2>1
  <2>4. s \in FileStatuses /\ s # "absent"
    BY <2>2
  <2> QED
    BY <2>2, <2>3, <2>4 DEF FileStatuses, Statuses
<1>4. CASE Cardinality(of) # 1
  BY <1>2, <1>4 DEF Statuses
<1> QED
  BY <1>3, <1>4

------------------------------------------------------------------------------
(* Types and counts.                                                       *)

LEMMA StatusInvInit == StatusInit => StatusInv
<1> SUFFICES ASSUME StatusInit PROVE StatusInv
  OBVIOUS
<1>1. Database
  BY DEF StatusInit, Database, Whole, FileStatuses
<1>2. Request
  BY StatusAssumption DEF StatusInit, Request, StatusAssumption, StatusPc, Statuses
<1>3. Loaded /\ Fresh
  BY DEF StatusInit, Loaded, Fresh, NoTurls
<1>4. Counted
  <2>1. DOMAIN turls = {} /\ unchecked = {} /\ countSuccess = 0 /\ countFailure = 0
    BY DEF StatusInit, NoTurls
  <2> QED
    BY <2>1, NoFile DEF Counted, NTurls
<1> QED
  BY <1>1, <1>2, <1>3, <1>4 DEF StatusInv

(* the database moves on, the request stays as it is *)
LEMMA BackendTyped ==
  ASSUME StatusInv, Backend
  PROVE  StatusInv'
<1>1. UNCHANGED <<surlOf, confirmed, snapshot, pc, n, asked, turls, unchecked,
                  countSuccess, countFailure, status>>
  BY DEF Backend, Store, Advance, Recall, storeVars, requestVars, countVars, Becomes
<1>2. file' \in [Files -> FileStatuses] /\ Whole(file') /\ onDisk' \subseteq Surls
  <2>1. CASE Store
    BY <2>1 DEF Store, Becomes, StatusInv, Database, FileStatuses, Whole
  <2>2. ASSUME NEW f \in Files, Advance(f)
        PROVE  file' \in [Files -> FileStatuses] /\ Whole(file') /\ onDisk' \subseteq Surls
    BY <2>2 DEF Advance, Becomes, StatusInv, Database, FileStatuses, Whole
  <2>3. ASSUME NEW f \in Files, Recall(f)
        PROVE  file' \in [Files -> FileStatuses] /\ Whole(file') /\ onDisk' \subseteq Surls
    BY <2>3 DEF Recall, StatusInv, Database
  <2> QED
    BY <2>1, <2>2, <2>3 DEF Backend
<1>3. Database'
  BY <1>1, <1>2 DEF StatusInv, Database, Whole
<1>4. Request' /\ Loaded' /\ Fresh'
  BY <1>1 DEF StatusInv, Request, Loaded, Fresh
<1>5. Counted'
  BY <1>1 DEF StatusInv, Counted, NTurls
<1> QED
  BY <1>3, <1>4, <1>5 DEF StatusInv

(* the request moves on, what it has loaded and counted stays              *)
LEMMA UncountedTyped ==
  ASSUME StatusInv,
         UNCHANGED <<surlOf, file, onDisk, confirmed, asked, turls, unchecked,
                     countSuccess, countFailure, n>>,
         snapshot' \in {snapshot, NoTransaction},
         pc' \in StatusPc, status' \in Statuses,
         pc \in {"checking", "ping", "load"} \/ pc' \notin {"checking", "ping", "load"}
  PROVE  StatusInv'
<1>1. Database' /\ Request'
  BY DEF StatusInv, Database, Whole, Request
<1>2. Loaded' /\ Fresh'
  BY DEF StatusInv, Loaded, Fresh
<1>3. Counted'
  BY DEF StatusInv, Counted, NTurls
<1> QED
  BY <1>1, <1>2, <1>3 DEF StatusInv

LEMMA SelectedFiles == Selected \subseteq Files
BY DEF Selected

LEMMA LoadTyped ==
  ASSUME StatusInv, Load
  PROVE  StatusInv'
<1>1. View \in [Files -> FileStatuses]
  BY DEF StatusInv, Database, View
<1>2. status' \in Statuses
  <2>1. PICK f \in Files : View[f] # "absent"
    BY DEF Load, Selected
  <2>2. RequestStatus(View) \in Statuses
    BY <1>1, <2>1, StatusOfRequest
  <2> QED
    BY <2>2 DEF Load, BuildSpecific, Statuses, Errors
<1>3. DOMAIN turls' = Selected /\ turls' \in [Selected -> FileStatuses] /\ unchecked' = Selected
  BY <1>1 DEF Load, Selected
<1>4. UNCHANGED <<surlOf, file, onDisk, confirmed, snapshot, asked, n, countSuccess, countFailure>>
      /\ pc' = "build"
  BY DEF Load, BuildSpecific, storeVars, backendVars, requestVars, countVars
<1>5. Database' /\ Request'
  BY <1>2, <1>4 DEF StatusInv, Database, Whole, Request, StatusPc
<1>6. Loaded' /\ Fresh'
  BY <1>3, <1>4, SelectedFiles DEF Loaded, Fresh
<1>7. Counted'
  <2>1. countSuccess = 0 /\ countFailure = 0
    BY DEF Load, StatusInv, Fresh
  <2>2. Cardinality(Selected) \in Nat
    BY SelectedFiles, FileSets
  <2> QED
    BY <1>3, <1>4, <2>1, <2>2 DEF Counted, NTurls
<1> QED
  BY <1>5, <1>6, <1>7 DEF StatusInv

(* buildResponse comes to f and counts it once or not at all *)
LEMMA CheckTyped ==
  ASSUME StatusInv, NEW f \in unchecked, pc = "build",
         UNCHANGED <<surlOf, onDisk, snapshot, pc, n, asked, status>>,
         file' \in [Files -> FileStatuses], Whole(file'), confirmed' \subseteq Files,
         turls' \in [DOMAIN turls -> FileStatuses],
         unchecked' = unchecked \ {f},
         \/ countSuccess' = countSuccess /\ countFailure' = countFailure
         \/ countSuccess' = countSuccess + 1 /\ countFailure' = countFailure
         \/ countSuccess' = countSuccess /\ countFailure' = countFailure + 1
  PROVE  StatusInv'
<1>1. Database' /\ Request'
  BY DEF StatusInv, Database, Whole, Request
<1>2. DOMAIN turls' = DOMAIN turls /\ unchecked \subseteq DOMAIN turls /\ DOMAIN turls \subseteq Files
  BY DEF StatusInv, Loaded
<1>3. Loaded' /\ Fresh'
  BY <1>2 DEF Loaded, Fresh
<1>4. Counted'
  <2>1. /\ Cardinality(unchecked \ {f}) \in Nat
        /\ Cardinality(unchecked) = Cardinality(unchecked \ {f}) + 1
    BY <1>2, OneLess
  <2>2. Cardinality(DOMAIN turls) \in Nat
    BY <1>2, FileSets
  <2>3. /\ countSuccess \in Nat /\ countFailure \in Nat
        /\ countSuccess + countFailure + Cardinality(unchecked) <= Cardinality(DOMAIN turls)
    BY DEF StatusInv, Counted, NTurls
  <2> DEFINE u == Cardinality(unchecked \ {f})
             t == Cardinality(DOMAIN turls)
  <2>4. u \in Nat /\ t \in Nat /\ countSuccess + countFailure + (u + 1) <= t
    BY <2>1, <2>2, <2>3
  <2> HIDE DEF u, t
  <2>5. /\ countSuccess' \in Nat /\ countFailure' \in Nat
        /\ countSuccess' + countFailure' + u <= t
    BY <2>3, <2>4
  <2> QED
    BY <1>2, <2>5 DEF Counted, NTurls, u, t
<1> QED
  BY <1>1, <1>3, <1>4 DEF StatusInv

LEMMA OnDiskTyped ==
  ASSUME StatusInv, NEW f \in Files, OnDisk(f)
  PROVE  StatusInv'
<1>1. file' \in [Files -> FileStatuses] /\ Whole(file')
  BY DEF OnDisk, Becomes, StatusInv, Database, Whole, FileStatuses
<1>2. turls' \in [DOMAIN turls -> FileStatuses]
  BY DEF OnDisk, StatusInv, Loaded, FileStatuses
<1>3. confirmed' \subseteq Files
  BY DEF OnDisk, StatusInv, Database
<1> QED
  BY <1>1, <1>2, <1>3, CheckTyped DEF OnDisk, storeVars, requestVars, countVars

LEMMA HandlerTyped ==
  ASSUME StatusInv, StatusHandler
  PROVE  StatusInv'
<1> USE DEF storeVars, backendVars, requestVars, countVars, StatusPc, BuildSpecific
<1>1. CASE Receive
  <2>1. Database' /\ Request'
    BY <1>1, StatusAssumption
    DEF Receive, StatusInv, Database, Whole, Request, Statuses, StatusAssumption
  <2>2. Loaded' /\ Fresh'
    BY <1>1 DEF Receive, Loaded, Fresh, NoTurls
  <2>3. Counted'
    <3>1. DOMAIN turls' = {} /\ unchecked' = {} /\ countSuccess' = 0 /\ countFailure' = 0
      BY <1>1 DEF Receive, NoTurls
    <3> QED
      BY <3>1, NoFile DEF Counted, NTurls
  <2> QED
    BY <2>1, <2>2, <2>3 DEF StatusInv
<1>2. CASE Decline
  BY <1>2, UncountedTyped DEF Decline, StatusInv, Request
<1>3. CASE Blacklisted
  BY <1>3, UncountedTyped DEF Blacklisted, Statuses, Errors
<1>4. CASE NotBlacklisted
  BY <1>4, UncountedTyped DEF NotBlacklisted, StatusInv, Request
<1>5. CASE Ping
  BY <1>5, UncountedTyped DEF Ping, StatusInv, Request, Statuses, Errors
<1>6. CASE LoadNothing
  BY <1>6, UncountedTyped DEF LoadNothing, Statuses, Errors
<1>7. CASE Load
  BY <1>7, LoadTyped
<1>8. ASSUME NEW f \in Files, OnDisk(f) PROVE StatusInv'
  BY <1>8, OnDiskTyped
<1>9. ASSUME NEW f \in Files, NotOnDisk(f) PROVE StatusInv'
  BY <1>9, CheckTyped DEF NotOnDisk, StatusInv, Database, Loaded
<1>10. ASSUME NEW f \in Files, Count(f) PROVE StatusInv'
  BY <1>10, CheckTyped DEF Count, StatusInv, Database, Loaded
<1>11. CASE Respond
  BY <1>11, UncountedTyped DEF Respond, StatusInv, Request
<1>12. CASE RespondFails
  BY <1>12, UncountedTyped DEF RespondFails, StatusInv, Request
<1> QED
  BY <1>1, <1>2, <1>3, <1>4, <1>5, <1>6, <1>7, <1>8, <1>9, <1>10, <1>11, <1>12
  DEF StatusHandler

LEMMA StutterTyped ==
  ASSUME StatusInv, UNCHANGED statusVars
  PROVE  StatusInv'
<1>1. UNCHANGED <<surlOf, file, onDisk, confirmed, snapshot, pc, n, asked, turls, unchecked,
                  countSuccess, countFailure, status>>
  BY DEF statusVars, storeVars, backendVars, requestVars, countVars
<1> QED
  BY <1>1, UncountedTyped DEF StatusInv, Request

LEMMA StatusInvTypes == StatusInv => StatusTypeOK
<1> SUFFICES ASSUME StatusInv PROVE StatusTypeOK
  OBVIOUS
<1>1. Cardinality(unchecked) \in Nat /\ NTurls \in Nat
  BY FileSets, unchecked \in SUBSET Files, DOMAIN turls \in SUBSET Files DEF StatusInv, Loaded, NTurls
<1>2. countSuccess + countFailure \in 0 .. NTurls
  BY <1>1 DEF StatusInv, Counted
<1> QED
  BY <1>2 DEF StatusInv, Database, Request, Loaded, StatusTypeOK

(* The variables have their types, and buildResponse counts no more files  *)
(* than it has loaded (asynch_status.cpp, StatusTemplate.hpp).             *)
THEOREM StatusTypeCorrect == StatusSpec => []StatusTypeOK
<1>1. StatusInit => StatusInv
  BY StatusInvInit
<1>2. StatusInv /\ [StatusNext]_statusVars => StatusInv'
  BY HandlerTyped, BackendTyped, StutterTyped DEF StatusNext, StatusEnded
<1>3. StatusSpec => []StatusInv
  BY <1>1, <1>2, PTL DEF StatusSpec
<1> QED
  BY <1>3, StatusInvTypes, PTL

------------------------------------------------------------------------------
(* Answers.                                                                *)

(* a request that is being answered has no answer yet *)
Begun == pc # "idle" => n > 0 /\ reply = NoReply

(* held has what the files are, turls what they were *)
Witnessed == n > 0 => \A f \in Files : file[f] \in held[f]
Current == \A f \in DOMAIN turls : turls[f] \in held[f]

(* the backend recalls for a file it works on *)
Recalled == \A f \in Files : surlOf[f] \in onDisk => file[f] \in {"REQUEST_INPROGRESS", "SUCCESS"}

(* the SELECT leaves none of the files asked for out *)
LoadedAll == DOMAIN turls # {} => DOMAIN turls = AskedFiles

(* what is counted as done is done *)
Done == {f \in DOMAIN turls \ unchecked : turls[f] = "SUCCESS"}
Successes == countSuccess <= Cardinality(Done)
AllDone == status = "SUCCESS" => \A f \in Files : "SUCCESS" \in held[f]

Replied == /\ \A f \in DOMAIN reply.shown : f \in Files /\ reply.shown[f] \in held[f]
           /\ reply.missing \subseteq Missing
           /\ reply.status = "SUCCESS" => \A f \in AskedFiles : "SUCCESS" \in held[f]

TrueSoFar == Witnessed /\ Current /\ Recalled /\ LoadedAll /\ Successes /\ AllDone /\ Replied

AnswerInv == StatusInv /\ Begun /\ snapshot = NoTransaction /\ (SurlsDiffer => TrueSoFar)

LEMMA NothingReplied == reply = NoReply => Replied
BY DEF NoReply, NoTurls, Replied

LEMMA AnswerInit == StatusInit => AnswerInv
<1> SUFFICES ASSUME StatusInit PROVE AnswerInv
  OBVIOUS
<1>1. DOMAIN turls = {} /\ onDisk = {} /\ n = 0 /\ pc = "idle"
  BY DEF StatusInit, NoTurls
<1>2. Witnessed /\ Current /\ Recalled /\ LoadedAll
  BY <1>1 DEF Witnessed, Current, Recalled, LoadedAll
<1>3. Successes
  <2>1. Done = {} /\ countSuccess = 0
    BY <1>1 DEF Done, StatusInit
  <2> QED
    BY <2>1, NoFile DEF Successes
<1>4. AllDone /\ Replied
  BY NothingReplied DEF AllDone, StatusInit
<1> QED
  BY <1>1, <1>2, <1>3, <1>4, StatusInvInit DEF AnswerInv, Begun, TrueSoFar, StatusInit

(* The files as they move on: no status the files have had is forgotten,   *)
(* and one that is on disk does not fail.                                  *)
HeldGrows == \A f \in Files : held[f] \subseteq held'[f]

LEMMA Becoming ==
  ASSUME NEW db, Becomes(db), n' = n
  PROVE  HeldGrows /\ Witnessed'
BY DEF Becomes, HeldGrows, Witnessed

LEMMA BackendMoves ==
  ASSUME SurlsDiffer, StatusInv, Witnessed, Recalled, Backend
  PROVE  HeldGrows /\ Witnessed' /\ Recalled'
<1>1. n' = n /\ surlOf' = surlOf
  BY DEF Backend, Store, Advance, Recall, storeVars
<1>2. CASE Store
  BY <1>1, <1>2, Becoming DEF Store, Becomes, Recalled
<1>3. ASSUME NEW f \in Files, Advance(f) PROVE HeldGrows /\ Witnessed' /\ Recalled'
  <2>1. HeldGrows /\ Witnessed'
    BY <1>1, <1>3, Becoming DEF Advance
  <2>2. Recalled'
    BY <1>1, <1>3 DEF Advance, Becomes, Recalled, StatusInv, Database
  <2> QED
    BY <2>1, <2>2
<1>4. ASSUME NEW f \in Files, Recall(f) PROVE HeldGrows /\ Witnessed' /\ Recalled'
  <2>1. HeldGrows /\ Witnessed'
    BY <1>1, <1>4 DEF Recall, HeldGrows, Witnessed
  <2>2. ASSUME NEW g \in Files, surlOf[g] \in onDisk' PROVE file'[g] \in {"REQUEST_INPROGRESS", "SUCCESS"}
    BY <1>4, <2>2 DEF Recall, Recalled, SurlsDiffer
  <2> QED
    BY <1>1, <2>1, <2>2 DEF Recalled
<1> QED
  BY <1>2, <1>3, <1>4 DEF Backend

(* what the request has loaded and answered stays true while the files     *)
(* move on                                                                 *)
LEMMA StaysTrue ==
  ASSUME StatusInv, HeldGrows,
         UNCHANGED <<surlOf, asked, turls, unchecked, countSuccess, status, reply>>,
         Current, LoadedAll, Successes, AllDone, Replied
  PROVE  Current' /\ LoadedAll' /\ Successes' /\ AllDone' /\ Replied'
<1>1. DOMAIN turls \subseteq Files /\ AskedFiles \subseteq Files
  BY DEF StatusInv, Loaded, AskedFiles
<1>2. Current' /\ AllDone'
  BY <1>1 DEF Current, AllDone, HeldGrows
<1>3. LoadedAll' /\ Successes'
  BY DEF LoadedAll, Successes, AskedFiles, Done
<1>4. Replied'
  BY <1>1 DEF Replied, HeldGrows, Missing, AskedFiles
<1> QED
  BY <1>2, <1>3, <1>4

LEMMA BackendAnswer ==
  ASSUME AnswerInv, Backend
  PROVE  AnswerInv'
<1>1. UNCHANGED <<surlOf, snapshot, pc, n, asked, turls, unchecked,
                  countSuccess, countFailure, status, reply>>
  BY DEF Backend, Store, Advance, Recall, storeVars, requestVars, countVars, Becomes
<1>2. StatusInv' /\ Begun' /\ snapshot' = NoTransaction
  BY <1>1, BackendTyped DEF AnswerInv, Begun
<1>3. ASSUME SurlsDiffer' PROVE TrueSoFar'
  <2>1. SurlsDiffer /\ TrueSoFar
    BY <1>1, <1>3 DEF SurlsDiffer, AnswerInv
  <2> QED
    BY <1>1, <2>1, BackendMoves, StaysTrue DEF AnswerInv, TrueSoFar
<1> QED
  BY <1>2, <1>3 DEF AnswerInv

------------------------------------------------------------------------------
(* Counting.                                                               *)

LEMMA DoneFiles == StatusInv => Done \subseteq DOMAIN turls /\ DOMAIN turls \subseteq Files
BY DEF Done, StatusInv, Loaded

(* one more file is done *)
LEMMA OneMore ==
  ASSUME StatusInv, StatusInv', Successes, NEW f \in Files, f \notin Done,
         Done' = Done \cup {f}, countSuccess' \in {countSuccess, countSuccess + 1}
  PROVE  Successes'
<1>1. Done' \subseteq Files /\ f \in Done' /\ Done' \ {f} = Done
  BY DoneFiles
<1>2. Cardinality(Done) \in Nat /\ Cardinality(Done') = Cardinality(Done) + 1
  BY <1>1, OneLess
<1>3. countSuccess \in Nat
  BY DEF StatusInv, Counted
<1> QED
  BY <1>2, <1>3 DEF Successes

(* success for the whole array means that each of its places is of a file  *)
(* that is done, which leaves no place for a file that is not              *)
LEMMA AllAsked ==
  ASSUME StatusInv, SurlsDiffer, TrueSoFar, FinalStatus = "SUCCESS", NEW f \in AskedFiles
  PROVE  "SUCCESS" \in held[f]
<1>1. CASE status = "SUCCESS"
  BY <1>1 DEF TrueSoFar, AllDone, AskedFiles
<1>2. CASE status # "SUCCESS"
  <2>1. Size # 0 /\ countFailure = 0 /\ countSuccess + countFailure = Size /\ countSuccess \in Nat
    BY <1>2 DEF FinalStatus, StatusInv, Counted
  <2>2. countSuccess = Size
    BY <2>1
  <2>3. DOMAIN turls \subseteq Files /\ Done \in SUBSET DOMAIN turls
    BY DoneFiles
  <2>4. /\ Cardinality(Done) \in Nat /\ NTurls \in Nat
        /\ Cardinality(Done) <= NTurls
        /\ Cardinality(Done) = NTurls => Done = DOMAIN turls
    BY <2>3, SubsetSmaller DEF NTurls
  <2>5. Size \in Nat /\ NTurls <= Size
    <3>1. CASE asked = <<>>
      BY <2>4, <3>1 DEF Size
    <3>2. CASE asked # <<>> /\ DOMAIN turls = {}
      <4>1. Len(asked) \in Nat
        BY <3>2, StatusAssumption DEF StatusInv, Request, StatusAssumption
      <4> QED
        BY <3>2, <4>1, NoFile DEF Size, NTurls
    <3>3. CASE asked # <<>> /\ DOMAIN turls # {}
      <4>1. asked \in Seq(Surls)
        BY <3>3, StatusAssumption DEF StatusInv, Request, StatusAssumption
      <4>2. Len(asked) \in Nat /\ DOMAIN asked = 1 .. Len(asked)
        BY <4>1
      <4> DEFINE place == [g \in DOMAIN turls |-> CHOOSE k \in DOMAIN asked : asked[k] = surlOf[g]]
      <4>3. \A g \in DOMAIN turls : g \in Files /\ \E k \in DOMAIN asked : asked[k] = surlOf[g]
        BY <3>3 DEF TrueSoFar, LoadedAll, AskedFiles
      <4>4. \A g \in DOMAIN turls : place[g] \in DOMAIN asked /\ asked[place[g]] = surlOf[g]
        BY <4>3
      <4>5. place \in [DOMAIN turls -> 1 .. Len(asked)]
        BY <4>2, <4>4
      <4>6. \A g, h \in DOMAIN turls : place[g] = place[h] => g = h
        BY <4>3, <4>4 DEF SurlsDiffer
      <4> HIDE DEF place
      <4>7. place \in Injection(DOMAIN turls, 1 .. Len(asked))
        BY <4>5, <4>6 DEF Injection, IsInjective
      <4>8. /\ IsFiniteSet(1 .. Len(asked))
            /\ Cardinality(1 .. Len(asked)) = Len(asked)
        BY <4>2, Numbers
      <4>9. Cardinality(DOMAIN turls) <= Cardinality(1 .. Len(asked))
        BY <4>7, <4>8, FS_Injection
      <4> QED
        BY <3>3, <4>2, <4>8, <4>9 DEF Size, NTurls
    <3> QED
      BY <3>1, <3>2, <3>3
  <2>6. Cardinality(Done) = NTurls /\ NTurls = Size
    BY <2>2, <2>4, <2>5 DEF TrueSoFar, Successes
  <2>7. Done = DOMAIN turls
    BY <2>4, <2>6
  <2>8. DOMAIN turls # {}
    BY <2>1, <2>6, NoFile DEF NTurls
  <2>9. f \in Done
    BY <2>7, <2>8 DEF TrueSoFar, LoadedAll
  <2> QED
    BY <2>3, <2>9 DEF Done, TrueSoFar, Current
<1> QED
  BY <1>1, <1>2

------------------------------------------------------------------------------
(* The handler.                                                            *)

(* a step that loads and counts nothing and does not answer                *)
LEMMA Passes ==
  ASSUME StatusInv, TrueSoFar,
         UNCHANGED <<surlOf, file, onDisk, held, n, asked, turls, unchecked, countSuccess>>,
         status' = status \/ status' # "SUCCESS",
         reply' = reply \/ (reply'.status # "SUCCESS" /\ DOMAIN reply'.shown = {}
                            /\ reply'.missing = {})
  PROVE  TrueSoFar'
<1>1. Witnessed' /\ Current' /\ Recalled' /\ LoadedAll' /\ AllDone'
  BY DEF TrueSoFar, Witnessed, Current, Recalled, LoadedAll, AskedFiles, AllDone
<1>2. Successes'
  BY DEF TrueSoFar, Successes, Done
<1>3. Replied'
  BY DEF TrueSoFar, Replied, Missing, AskedFiles
<1> QED
  BY <1>1, <1>2, <1>3 DEF TrueSoFar

(* a new request forgets the one before *)
LEMMA ReceiveTrue ==
  ASSUME Receive, Recalled, StatusInv, StatusInv'
  PROVE  TrueSoFar'
<1>1. /\ UNCHANGED <<surlOf, file, onDisk>>
      /\ turls' = NoTurls /\ unchecked' = {} /\ countSuccess' = 0
      /\ held' = [f \in Files |-> {file[f]}]
      /\ status' = "REQUEST_QUEUED" /\ reply' = NoReply
  BY DEF Receive, storeVars, backendVars
<1>2. DOMAIN turls' = {}
  BY <1>1 DEF NoTurls
<1>3. Witnessed' /\ Current' /\ Recalled' /\ LoadedAll' /\ AllDone'
  BY <1>1, <1>2 DEF Witnessed, Current, Recalled, LoadedAll, AllDone
<1>4. Successes'
  <2>1. Done' = {}
    BY <1>2 DEF Done
  <2> QED
    BY <1>1, <2>1, NoFile DEF Successes
<1>5. Replied'
  BY <1>1 DEF NoReply, NoTurls, Replied
<1> QED
  BY <1>3, <1>4, <1>5 DEF TrueSoFar

(* the SELECT sees every file as it is, and all of those asked for         *)
LEMMA LoadTrue ==
  ASSUME Load, StatusInv, StatusInv', Begun, snapshot = NoTransaction, TrueSoFar
  PROVE  TrueSoFar'
<1>1. /\ UNCHANGED <<surlOf, file, onDisk, n, asked, reply, held, countSuccess>>
      /\ turls' = [f \in Selected |-> file[f]] /\ DOMAIN turls' = Selected
      /\ Selected # {} /\ Selected \subseteq Files
  BY DEF Load, storeVars, backendVars, requestVars, countVars, View, Selected
<1>2. n > 0 /\ reply = NoReply /\ countSuccess = 0
  BY DEF Load, Begun, StatusInv, Fresh
<1>3. \A f \in Files : file[f] \in held[f]
  BY <1>2 DEF TrueSoFar, Witnessed
<1>4. Witnessed' /\ Recalled' /\ Current'
  BY <1>1, <1>3 DEF TrueSoFar, Witnessed, Recalled, Current
<1>5. LoadedAll'
  <2>1. PICK f \in Files : file[f] # "absent" /\ dn # "nobody"
    BY <1>1 DEF Selected, View
  <2>2. \A g \in Files : file[g] # "absent"
    BY <2>1 DEF StatusInv, Database, Whole
  <2>3. Selected = AskedFiles
    BY <2>1, <2>2 DEF Selected, View, AskedFiles
  <2>4. AskedFiles' = AskedFiles
    BY <1>1 DEF AskedFiles
  <2> QED
    BY <1>1, <2>3, <2>4 DEF LoadedAll
<1>6. AllDone'
  <2> SUFFICES ASSUME status' = "SUCCESS" PROVE \A f \in Files : "SUCCESS" \in held'[f]
    BY DEF AllDone
  <2>1. RequestStatus(file) = "SUCCESS"
    BY DEF Load, BuildSpecific, View
  <2>2. PICK f \in Files : file[f] # "absent"
    BY <1>1 DEF Selected, View
  <2>3. \A g \in Files : file[g] = "SUCCESS"
    BY <2>1, <2>2, StatusOfRequest DEF StatusInv, Database
  <2> QED
    BY <1>1, <1>3, <2>3
<1>7. Successes'
  <2>1. Done' \subseteq Files
    BY <1>1 DEF Done
  <2>2. Cardinality(Done') \in Nat
    BY <2>1, FileSets
  <2> QED
    BY <1>1, <1>2, <2>2 DEF Successes
<1>8. Replied'
  BY <1>1, <1>2 DEF NoReply, NoTurls, Replied
<1> QED
  BY <1>4, <1>5, <1>6, <1>7, <1>8 DEF TrueSoFar

(* the backend stores as done what is on disk, and buildResponse says so   *)
LEMMA OnDiskTrue ==
  ASSUME NEW f \in Files, OnDisk(f),
         SurlsDiffer, StatusInv, StatusInv', Begun, TrueSoFar
  PROVE  TrueSoFar'
<1>1. /\ UNCHANGED <<surlOf, onDisk, n, asked, status, reply>>
      /\ n > 0 /\ reply = NoReply
      /\ f \in unchecked /\ unchecked' = unchecked \ {f}
      /\ unchecked \subseteq DOMAIN turls /\ DOMAIN turls \subseteq Files
      /\ turls[f] = "REQUEST_INPROGRESS"
  BY DEF OnDisk, AsksBackend, storeVars, requestVars, Begun, StatusInv, Loaded
<1>2. HeldGrows /\ Witnessed'
  BY <1>1, Becoming DEF OnDisk
<1>3. file'[f] = "SUCCESS"
  BY DEF OnDisk, Becomes, TrueSoFar, Recalled
<1>4. Recalled'
  BY <1>1 DEF OnDisk, Becomes, TrueSoFar, Recalled
<1>5. /\ DOMAIN turls' = DOMAIN turls
      /\ \A g \in DOMAIN turls : turls'[g] = turls[g] \/ (g = f /\ turls'[g] = "SUCCESS")
  <2>1. turls' = turls \/ turls' = [turls EXCEPT ![f] = "SUCCESS"]
    BY DEF OnDisk
  <2>2. turls = [g \in DOMAIN turls |-> turls[g]]
    BY DEF StatusInv, Loaded
  <2> QED
    BY <2>1, <2>2
<1>6. Current'
  <2>1. "SUCCESS" \in held'[f]
    BY <1>1, <1>2, <1>3 DEF Witnessed
  <2> QED
    BY <1>1, <1>2, <1>5, <2>1 DEF HeldGrows, TrueSoFar, Current
<1>7. LoadedAll' /\ AllDone'
  BY <1>1, <1>2, <1>5 DEF TrueSoFar, LoadedAll, AskedFiles, AllDone, HeldGrows
<1>8. Successes'
  <2>1. CASE kind = "BOL"
    <3>1. countSuccess' = countSuccess + 1 /\ turls' = [turls EXCEPT ![f] = "SUCCESS"]
      BY <2>1 DEF OnDisk
    <3>2. Done' = Done \cup {f} /\ f \notin Done
      BY <1>1, <1>5, <3>1 DEF Done
    <3> QED
      BY <3>1, <3>2, OneMore DEF TrueSoFar
  <2>2. CASE kind # "BOL"
    <3>1. UNCHANGED <<countSuccess, turls>>
      BY <2>2 DEF OnDisk
    <3>2. Done' = Done
      BY <1>1, <3>1 DEF Done
    <3> QED
      BY <3>1, <3>2 DEF TrueSoFar, Successes
  <2> QED
    BY <2>1, <2>2
<1>9. Replied'
  BY <1>1 DEF NoReply, NoTurls, Replied
<1> QED
  BY <1>2, <1>4, <1>6, <1>7, <1>8, <1>9 DEF TrueSoFar

(* f is counted if it is done *)
LEMMA CountTrue ==
  ASSUME NEW f \in Files, NotOnDisk(f) \/ Count(f),
         StatusInv, StatusInv', TrueSoFar
  PROVE  TrueSoFar'
<1>1. /\ UNCHANGED <<surlOf, file, onDisk, held, n, asked, turls, status, reply>>
      /\ f \in unchecked /\ unchecked' = unchecked \ {f} /\ unchecked \subseteq DOMAIN turls
  BY DEF NotOnDisk, Count, storeVars, backendVars, requestVars, StatusInv, Loaded
<1>2. Successes'
  <2>1. CASE turls[f] = "SUCCESS"
    <3>1. Done' = Done \cup {f} /\ f \notin Done
      BY <1>1, <2>1 DEF Done
    <3>2. countSuccess' \in {countSuccess, countSuccess + 1}
      BY DEF NotOnDisk, Count, countVars
    <3> QED
      BY <3>1, <3>2, OneMore DEF TrueSoFar
  <2>2. CASE turls[f] # "SUCCESS"
    <3>1. Done' = Done
      BY <1>1, <2>2 DEF Done
    <3>2. countSuccess' = countSuccess
      BY <2>2 DEF NotOnDisk, Count, countVars
    <3> QED
      BY <3>1, <3>2 DEF TrueSoFar, Successes
  <2> QED
    BY <2>1, <2>2
<1>3. Witnessed' /\ Current' /\ Recalled' /\ LoadedAll' /\ AllDone'
  BY <1>1 DEF TrueSoFar, Witnessed, Current, Recalled, LoadedAll, AskedFiles, AllDone
<1>4. Replied'
  BY <1>1 DEF TrueSoFar, Replied, Missing, AskedFiles
<1> QED
  BY <1>2, <1>3, <1>4 DEF TrueSoFar

LEMMA RespondTrue ==
  ASSUME Respond, SurlsDiffer, StatusInv, TrueSoFar
  PROVE  TrueSoFar'
<1>1. UNCHANGED <<surlOf, file, onDisk, held, n, asked, turls, unchecked, countSuccess, status>>
  BY DEF Respond, storeVars, backendVars, requestVars, countVars
<1>2. PICK S \in Shown :
        reply' = [status |-> FinalStatus,
                  shown |-> [f \in S |-> turls[f]],
                  missing |-> IF HasMissingSurls THEN Missing ELSE {}]
  BY DEF Respond
<1>3. S \subseteq DOMAIN turls /\ DOMAIN turls \subseteq Files
  BY DEF Shown, StatusInv, Loaded
<1>4. Replied'
  <2>1. \A f \in DOMAIN reply'.shown : f \in Files /\ reply'.shown[f] \in held'[f]
    BY <1>1, <1>2, <1>3 DEF TrueSoFar, Current
  <2>2. reply'.missing \subseteq Missing'
    BY <1>1, <1>2 DEF Missing
  <2>3. reply'.status = "SUCCESS" => \A f \in AskedFiles' : "SUCCESS" \in held'[f]
    <3>1. reply'.status = FinalStatus /\ AskedFiles' = AskedFiles
      BY <1>1, <1>2 DEF AskedFiles
    <3> QED
      BY <1>1, <3>1, AllAsked
  <2> QED
    BY <2>1, <2>2, <2>3 DEF Replied
<1>5. Witnessed' /\ Current' /\ Recalled' /\ LoadedAll' /\ AllDone'
  BY <1>1 DEF TrueSoFar, Witnessed, Current, Recalled, LoadedAll, AskedFiles, AllDone
<1>6. Successes'
  BY <1>1 DEF TrueSoFar, Successes, Done
<1> QED
  BY <1>4, <1>5, <1>6 DEF TrueSoFar

LEMMA HandlerAnswer ==
  ASSUME AnswerInv, StatusHandler
  PROVE  AnswerInv'
<1> USE DEF storeVars, backendVars, requestVars, countVars, BuildSpecific
<1>1. StatusInv /\ StatusInv'
  BY HandlerTyped DEF AnswerInv
<1>2. Begun' /\ snapshot' = NoTransaction
  <2>1. n \in Nat
    BY <1>1, StatusAssumption DEF StatusInv, Request, StatusAssumption
  <2>2. snapshot' = NoTransaction
    BY DEF AnswerInv, StatusHandler, Receive, Decline, Blacklisted, NotBlacklisted,
           Ping, LoadNothing, Load, OnDisk, NotOnDisk, Count, Respond, RespondFails
  <2>3. CASE Receive
    BY <2>1, <2>2, <2>3 DEF Receive, Begun
  <2>4. CASE ~Receive
    <3>1. pc # "idle" /\ n' = n
      BY <2>4 DEF StatusHandler, Decline, Blacklisted, NotBlacklisted,
                  Ping, LoadNothing, Load, OnDisk, NotOnDisk, Count, Respond, RespondFails
    <3>2. reply' = reply \/ pc' = "idle"
      BY <2>4 DEF StatusHandler, Decline, Blacklisted, NotBlacklisted,
                  Ping, LoadNothing, Load, OnDisk, NotOnDisk, Count, Respond, RespondFails
    <3> QED
      BY <2>2, <3>1, <3>2 DEF AnswerInv, Begun
  <2> QED
    BY <2>3, <2>4
<1>3. ASSUME SurlsDiffer' PROVE TrueSoFar'
  <2>1. SurlsDiffer /\ TrueSoFar /\ Begun /\ snapshot = NoTransaction
    <3>1. surlOf' = surlOf
      BY DEF StatusHandler, Receive, Decline, Blacklisted, NotBlacklisted,
             Ping, LoadNothing, Load, OnDisk, NotOnDisk, Count, Respond, RespondFails
    <3> QED
      BY <1>3, <3>1 DEF AnswerInv, SurlsDiffer
  <2>2. CASE Receive
    BY <1>1, <2>1, <2>2, ReceiveTrue DEF TrueSoFar
  <2>3. CASE Decline \/ Blacklisted \/ NotBlacklisted \/ Ping \/ LoadNothing \/ RespondFails
    <3>1. UNCHANGED <<surlOf, file, onDisk, held, n, asked, turls, unchecked, countSuccess>>
      BY <2>3 DEF Decline, Blacklisted, NotBlacklisted, Ping, LoadNothing, RespondFails
    <3>2. status' = status \/ status' # "SUCCESS"
      BY <2>3 DEF Decline, Blacklisted, NotBlacklisted, Ping, LoadNothing, RespondFails
    <3>3. reply' = reply \/ (reply'.status # "SUCCESS" /\ DOMAIN reply'.shown = {}
                             /\ reply'.missing = {})
      BY <2>3 DEF Decline, Blacklisted, NotBlacklisted, Ping, LoadNothing, RespondFails,
                  Answer, NoReply, NoTurls
    <3> QED
      BY <1>1, <2>1, <3>1, <3>2, <3>3, Passes
  <2>4. CASE Load
    BY <1>1, <2>1, <2>4, LoadTrue
  <2>5. ASSUME NEW f \in Files, OnDisk(f) PROVE TrueSoFar'
    BY <1>1, <2>1, <2>5, OnDiskTrue
  <2>6. ASSUME NEW f \in Files, NotOnDisk(f) \/ Count(f) PROVE TrueSoFar'
    BY <1>1, <2>1, <2>6, CountTrue
  <2>7. CASE Respond
    BY <1>1, <2>1, <2>7, RespondTrue
  <2> QED
    BY <2>2, <2>3, <2>4, <2>5, <2>6, <2>7 DEF StatusHandler
<1> QED
  BY <1>1, <1>2, <1>3 DEF AnswerInv

LEMMA StutterAnswer ==
  ASSUME AnswerInv, UNCHANGED statusVars
  PROVE  AnswerInv'
<1>1. UNCHANGED <<surlOf, file, onDisk, snapshot, pc, n, asked, turls, unchecked,
                  countSuccess, countFailure, status, reply, held>>
  BY DEF statusVars, storeVars, backendVars, requestVars, countVars
<1>2. StatusInv' /\ Begun'
  BY <1>1, StutterTyped DEF AnswerInv, Begun
<1>3. ASSUME SurlsDiffer' PROVE TrueSoFar'
  <2>1. SurlsDiffer /\ TrueSoFar
    BY <1>1, <1>3 DEF AnswerInv, SurlsDiffer
  <2> QED
    BY <1>1, <2>1, Passes DEF AnswerInv
<1> QED
  BY <1>1, <1>2, <1>3 DEF AnswerInv

THEOREM AnswerAlways == StatusSpec => []AnswerInv
<1>1. StatusInit => AnswerInv
  BY AnswerInit
<1>2. AnswerInv /\ [StatusNext]_statusVars => AnswerInv'
  BY HandlerAnswer, BackendAnswer, StutterAnswer DEF StatusNext, StatusEnded
<1> QED
  BY <1>1, <1>2, PTL DEF StatusSpec

(* If the SURLs of the stored request differ, an answer gives each file a  *)
(* status it had while the request was handled, and says of no stored SURL *)
(* that nothing is known of it, although buildResponse asks the backend    *)
(* after the SELECT.                                                       *)
THEOREM AnswersCurrent == StatusSpec => []AnswersAreCurrent
<1>1. AnswerInv => AnswersAreCurrent
  <2> SUFFICES ASSUME AnswerInv, SurlsDiffer PROVE AnswersAreCurrent
    BY DEF AnswersAreCurrent
  <2>1. \A f \in DOMAIN reply.shown : reply.shown[f] \in held[f]
    BY DEF AnswerInv, TrueSoFar, Replied
  <2>2. ASSUME NEW k \in reply.missing, NEW f \in Files,
               surlOf[f] = asked[k], DOMAIN turls # {}
        PROVE  FALSE
    <3>1. k \in DOMAIN asked /\ f \notin DOMAIN turls
      BY <2>2 DEF AnswerInv, TrueSoFar, Replied, Missing
    <3>2. f \in AskedFiles
      BY <2>2, <3>1 DEF AskedFiles
    <3> QED
      BY <2>2, <3>1, <3>2 DEF AnswerInv, TrueSoFar, LoadedAll
  <2> QED
    BY <2>1, <2>2 DEF AnswersAreCurrent
<1> QED
  BY <1>1, AnswerAlways, PTL

(* If the SURLs of the stored request differ, a status request answers     *)
(* success only if each file asked for has been done: the numbers          *)
(* srmStatusOfBringOnlineRequest compares with the size of the array can   *)
(* only meet when no file is left.                                         *)
THEOREM SuccessOfEach == StatusSpec => []SuccessMeansDone
<1>1. AnswerInv => SuccessMeansDone
  BY DEF AnswerInv, TrueSoFar, Replied, SuccessMeansDone
<1> QED
  BY <1>1, AnswerAlways, PTL

==============================================================================
