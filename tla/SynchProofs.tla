----------------------------- MODULE SynchProofs -----------------------------
(***************************************************************************)
(* What every forwarded request keeps, for any operations of the table,    *)
(* any status codes of the backend and any number of requests of a thread: *)
(* no client reaches the backend without authorisation, the structures of  *)
(* a call are released, a success is the backend's, a response is complete *)
(* and is counted for what it told, and only the known places are fatal.   *)
(***************************************************************************)
EXTENDS SynchRequest, TLAPS

(* What is_blacklisted returned is what the service decided, and a request *)
(* that is being forwarded was let through.                                *)
Forwarding == {"encode", "call", "status", "fields", "release", "version"}
MayPass == ~userCheck \/ permitted
Authorized ==
  /\ userCheck \in BOOLEAN /\ permitted \in BOOLEAN
  /\ authz = "false" => MayPass
  /\ pc \in Forwarding => MayPass

(* How many references are held follows from the place in the code.        *)
AtRest == {"idle", "authorize", "version", "register", "answered"}
References == [input : {0, 1}, result : {0, 1}]
Balanced ==
  /\ refs \in References
  /\ pc \in AtRest => refs = NoReferences
  /\ pc \in {"encode", "call"} => refs = [input |-> 1, result |-> 0]
  /\ pc \in {"status", "fields", "release"} => refs.input = 1

-------------------------------------------------------------------------------

LEMMA InitAuthorized == SynchInit => Authorized
  BY DEF SynchInit, AuthzInit, Authorized, Forwarding

(* The check itself: only a Permit, or a check that is switched off, makes *)
(* it return false, and it does not move the request.                      *)
LEMMA CheckAuthorized == Authorized /\ Authorizing => Authorized'
<1> SUFFICES ASSUME Authorized, Authorizing PROVE Authorized'
  OBVIOUS
<1> USE DEF Authorized, MayPass, Forwarding
<1>1. pc = "authorize" /\ pc' = pc BY DEF Authorizing, synchVars
<1>2. CASE CheckDisabled BY <1>1, <1>2 DEF CheckDisabled
<1>3. CASE GetPem
  <2>1. authz' # "false" /\ UNCHANGED <<userCheck, permitted>> BY <1>3 DEF GetPem
  <2> QED BY <1>1, <2>1
<1>4. CASE MakePep
  <2>1. authz' # "false" /\ UNCHANGED <<userCheck, permitted>> BY <1>4 DEF MakePep
  <2> QED BY <1>1, <2>1
<1>5. CASE CreateRequest BY <1>1, <1>5 DEF CreateRequest
<1>6. CASE AuthorizeFails BY <1>1, <1>6 DEF AuthorizeFails
<1>7. CASE Authorize
  <2>1. PICK decision \in {"permit", "deny", "indeterminate", "not_applicable"} :
             /\ authz' = IF decision = "permit" THEN "false" ELSE "true"
             /\ permitted' = (decision = "permit")
    BY <1>7 DEF Authorize
  <2>2. UNCHANGED userCheck BY <1>7 DEF Authorize
  <2>3. CASE decision = "permit" BY <1>1, <2>1, <2>2, <2>3
  <2>4. CASE decision # "permit" BY <1>1, <2>1, <2>2, <2>4
  <2> QED BY <2>3, <2>4
<1> QED BY <1>2, <1>3, <1>4, <1>5, <1>6, <1>7 DEF Authorizing, IsBlacklisted

(* The _impl function starts behind a check that returned false.           *)
LEMMA StartAuthorized == Authorized /\ StartCall => Authorized'
  BY DEF Authorized, MayPass, StartCall, Perform, authzVars

(* A new request, and the return of an old one, forget what was decided.   *)
LEMMA NewRequestAuthorized ==
  Authorized /\ ((\E o \in Ops : Load(o) \/ LoadThrows(o)) \/ Return) => Authorized'
<1> SUFFICES ASSUME Authorized, (\E o \in Ops : Load(o) \/ LoadThrows(o)) \/ Return
             PROVE  Authorized'
  OBVIOUS
<1>1. NewCheck /\ pc' \notin Forwarding
  <2>1. ASSUME NEW o \in Ops, Load(o) PROVE NewCheck /\ pc' \notin Forwarding
    BY <2>1 DEF Load, Receive, Forwarding
  <2>2. ASSUME NEW o \in Ops, LoadThrows(o) PROVE NewCheck /\ pc' \notin Forwarding
    BY <2>2 DEF LoadThrows, Receive, Decline, Forwarding
  <2>3. CASE Return BY <2>3 DEF Return, Forwarding
  <2> QED BY <2>1, <2>2, <2>3
<1> QED BY <1>1 DEF Authorized, MayPass, NewCheck

(* Every other step leaves the check alone and forwards nothing that was   *)
(* not being forwarded.                                                    *)
LEMMA OthersAuthorized ==
  ASSUME Authorized, UNCHANGED authzVars, pc' \in Forwarding => pc \in Forwarding
  PROVE  Authorized'
  BY DEF Authorized, MayPass, authzVars

LEMMA StepAuthorized == Authorized /\ [SynchNext]_vars => Authorized'
<1> SUFFICES ASSUME Authorized, [SynchNext]_vars PROVE Authorized'
  OBVIOUS
<1> DEFINE Keeps == UNCHANGED authzVars /\ (pc' \in Forwarding => pc \in Forwarding)
<1>1. CASE Blacklisted \/ AuthzThrows
  BY <1>1, OthersAuthorized DEF Blacklisted, AuthzThrows, Decline, Forwarding
<1>2. CASE OutOfMemory \/ Refuse \/ Crash \/ AnswerProtocols
  <2>1. Keeps BY <1>2 DEF OutOfMemory, Refuse, Crash, AnswerProtocols, Forwarding
  <2> QED BY <2>1, OthersAuthorized
<1>3. CASE Encode \/ RefuseParameter \/ GetClient
  <2>1. Keeps BY <1>3 DEF Encode, RefuseParameter, GetClient, Forwarding
  <2> QED BY <2>1, OthersAuthorized
<1>4. CASE Fault \/ Result
  <2>1. Keeps BY <1>4 DEF Fault, Result, Forwarding
  <2> QED BY <2>1, OthersAuthorized
<1>5. CASE DecodeStatus \/ DecodeField \/ DecodeCrash \/ Decoded
  <2>1. Keeps BY <1>5 DEF DecodeStatus, DecodeField, DecodeCrash, Decoded, Forwarding
  <2> QED BY <2>1, OthersAuthorized
<1>6. CASE Release \/ SetVersionInfo \/ Register
  <2>1. Keeps BY <1>6 DEF Release, SetVersionInfo, Register, Forwarding
  <2> QED BY <2>1, OthersAuthorized
<1>7. CASE UNCHANGED vars
  <2>1. Keeps BY <1>7 DEF vars, synchVars
  <2> QED BY <2>1, OthersAuthorized
<1> QED BY <1>1, <1>2, <1>3, <1>4, <1>5, <1>6, <1>7, CheckAuthorized, StartAuthorized,
           NewRequestAuthorized DEF SynchNext

(* The backend is called for no client but one the authorisation service   *)
(* permitted in this very request, unless the check is switched off        *)
(* (is_blacklisted in Authorization.cpp, handle_request in synch.cpp).     *)
THEOREM CallsAreAuthorized == SynchSpec => []BackendCallAuthorized
<1>1. Authorized => BackendCallAuthorized
  BY DEF Authorized, MayPass, BackendCallAuthorized, Called, Forwarding
<1> QED BY <1>1, InitAuthorized, StepAuthorized, PTL DEF SynchSpec

-------------------------------------------------------------------------------

LEMMA InitBalanced == SynchInit => Balanced
  BY DEF SynchInit, Balanced, AtRest, NoReferences, References

(* A step between two places that hold no reference, or to the end of the  *)
(* process, that leaves the references alone.                              *)
LEMMA RestBalanced ==
  ASSUME Balanced, UNCHANGED refs, pc \in AtRest, pc' \in AtRest \cup {"dead", "starved"}
  PROVE  Balanced'
  BY DEF Balanced, AtRest

LEMMA StepBalanced == Balanced /\ [SynchNext]_vars => Balanced'
<1> SUFFICES ASSUME Balanced, [SynchNext]_vars PROVE Balanced'
  OBVIOUS
<1> DEFINE Rests == UNCHANGED refs /\ pc \in AtRest /\ pc' \in AtRest \cup {"dead", "starved"}
<1>1. ASSUME NEW o \in Ops, Load(o) PROVE Balanced'
  <2>1. Rests BY <1>1 DEF Load, Receive, AtRest
  <2> QED BY <2>1, RestBalanced
<1>2. ASSUME NEW o \in Ops, LoadThrows(o) PROVE Balanced'
  <2>1. Rests BY <1>2 DEF LoadThrows, Receive, Decline, AtRest
  <2> QED BY <2>1, RestBalanced
<1>3. CASE Authorizing \/ Blacklisted \/ AuthzThrows
  <2>1. Rests BY <1>3 DEF Authorizing, Blacklisted, AuthzThrows, Decline, synchVars, AtRest
  <2> QED BY <2>1, RestBalanced
<1>4. CASE OutOfMemory \/ Refuse \/ Crash \/ AnswerProtocols
  <2>1. Rests BY <1>4 DEF OutOfMemory, Refuse, Crash, AnswerProtocols, Perform, AtRest
  <2> QED BY <2>1, RestBalanced
<1>5. CASE StartCall
  <2>1. pc = "authorize" /\ pc' = "encode" /\ refs' = [refs EXCEPT !.input = 1]
    BY <1>5 DEF StartCall, Perform
  <2>2. refs = [input |-> 0, result |-> 0] BY <2>1 DEF Balanced, AtRest, NoReferences
  <2> QED BY <2>1, <2>2 DEF Balanced, AtRest, References
<1>6. CASE Encode
  BY <1>6 DEF Encode, Balanced, AtRest
<1>7. CASE RefuseParameter
  <2>1. pc = "encode" /\ pc' = "register" /\ refs' = [refs EXCEPT !.input = @ - 1]
    BY <1>7 DEF RefuseParameter
  <2>2. refs = [input |-> 1, result |-> 0] BY <2>1 DEF Balanced
  <2>3. refs' = NoReferences BY <2>1, <2>2 DEF NoReferences
  <2> QED BY <2>1, <2>3 DEF Balanced, AtRest, References, NoReferences
<1>8. CASE GetClient
  <2>1. pc = "encode" /\ pc' \in {"call", "dead"} /\ UNCHANGED refs BY <1>8 DEF GetClient
  <2> QED BY <2>1 DEF Balanced, AtRest
<1>9. CASE Fault
  <2>1. pc = "call" /\ pc' = "release" /\ UNCHANGED refs BY <1>9 DEF Fault
  <2> QED BY <2>1 DEF Balanced, AtRest
<1>10. CASE Result
  <2>1. pc = "call" /\ pc' \in {"status", "fields"} /\ refs' = [refs EXCEPT !.result = 1]
    BY <1>10 DEF Result
  <2>2. refs = [input |-> 1, result |-> 0] BY <2>1 DEF Balanced
  <2> QED BY <2>1, <2>2 DEF Balanced, AtRest, References
<1>11. CASE DecodeStatus \/ DecodeField \/ DecodeCrash \/ Decoded
  <2>1. /\ pc \in {"status", "fields"} /\ pc' \in {"status", "fields", "release", "starved"}
        /\ UNCHANGED refs
    BY <1>11 DEF DecodeStatus, DecodeField, DecodeCrash, Decoded
  <2> QED BY <2>1 DEF Balanced, AtRest
<1>12. CASE Release
  <2>1. /\ pc = "release" /\ pc' \in {"version", "register"}
        /\ refs' = [input |-> refs.input - 1, result |-> 0]
    BY <1>12 DEF Release
  <2>2. refs.input = 1 BY <2>1 DEF Balanced
  <2>3. refs' = NoReferences BY <2>1, <2>2 DEF NoReferences
  <2> QED BY <2>1, <2>3 DEF Balanced, AtRest, References, NoReferences
<1>13. CASE SetVersionInfo \/ Register \/ Return
  <2>1. CASE SetVersionInfo \/ Register
    <3>1. Rests BY <2>1 DEF SetVersionInfo, Register, AtRest
    <3> QED BY <3>1, RestBalanced
  <2>2. CASE Return
    BY <2>2 DEF Return, Balanced, AtRest, References, NoReferences
  <2> QED BY <1>13, <2>1, <2>2
<1>14. CASE UNCHANGED vars
  BY <1>14 DEF vars, synchVars, Balanced
<1> QED BY <1>1, <1>2, <1>3, <1>4, <1>5, <1>6, <1>7, <1>8, <1>9, <1>10, <1>11, <1>12, <1>13,
           <1>14 DEF SynchNext

(* Whatever way a request ends, the structure of its call and the result   *)
(* are released exactly once (the returns of the _impl functions in        *)
(* srmv2_xferreq.cpp, srmv2_dirreq.cpp and srmv2_spacereq.cpp).            *)
THEOREM StructuresReleased == SynchSpec => []StructsReleased
<1>1. Balanced => StructsReleased
  BY DEF Balanced, StructsReleased, Finished, AtRest
<1> QED BY <1>1, InitBalanced, StepBalanced, PTL DEF SynchSpec
-------------------------------------------------------------------------------

(* What becomes of a parameter that cannot be encoded is one of these,     *)
(* whatever the operation: never the status of a success.                  *)
Reactions == {"goOn", INVALID_REQUEST, INTERNAL_ERROR}
SoundEncoders == {encode_lifetimeValue, encode_int, encode_bool, encode_ULONG64,
                  encode_retentionPolicyInfo, encode_userSpaceTokenDescription, encode_string,
                  encode_surl, encode_arrayOfString, encode_arrayOfUnsignedLong,
                  encode_ArrayOfAnyURI, encode_ArrayOfTExtraInfo, encode_VOMSAttributes}
Encoders == SoundEncoders \cup {encode_TTransferParameters,
                                [encode_string EXCEPT !["null"] = {Done}]}
Names == {"SURL", "VOMS", "allLevelRecursive", "arrayOfExpectedFileSizes", "arrayOfSURLs",
          "arrayOfSpaceTokens", "authorizationID", "count",
          "desiredLifetimeOfReservedSpace", "desiredSizeOfGuaranteedSpace",
          "desiredSizeOfTotalSpace", "fileStorageType", "forceFileRelease", "fromSURL",
          "fullDetailedList", "newFileLifeTime", "newPinLifeTime", "numOfLevels",
          "offset", "recursive", "requestToken", "retentionPolicyInfo", "spaceToken",
          "storageSystemInfo", "toSURL", "transferParameters", "userSpaceTokenDescription"}
Exempt == {"authorizationID", "transferParameters"}

(* the classes a parameter has, whichever operation it is of *)
Given(name) ==
  Pointer \cup
  (IF name \in {"requestToken", "spaceToken", "userSpaceTokenDescription"} THEN {"notascii"}
   ELSE IF name \in {"SURL", "fromSURL", "toSURL"} THEN {"notascii", "invalid"}
   ELSE IF name = "arrayOfSURLs" THEN {"empty", "noarray", "notascii", "invalid"}
   ELSE IF name = "arrayOfSpaceTokens" THEN {"empty", "noarray", "notascii"}
   ELSE IF name = "storageSystemInfo" THEN {"empty", "notascii"}
   ELSE IF name = "arrayOfExpectedFileSizes" THEN {"empty"}
   ELSE {})
ClassesOf(name) == IF name = "VOMS" THEN {"noarray", "good"} ELSE Given(name)

Parameters ==
  {p \in [name : Names, encode : Encoders, missing : Reactions, error : Reactions] :
     p.name \notin Exempt => /\ p.encode \in SoundEncoders /\ p.error # "goOn"
                            /\ DOMAIN p.encode = ClassesOf(p.name)}

LEMMA EncodersKnown ==
  /\ encode_lifetimeValue \in SoundEncoders /\ encode_int \in SoundEncoders
  /\ encode_bool \in SoundEncoders /\ encode_ULONG64 \in SoundEncoders
  /\ encode_retentionPolicyInfo \in SoundEncoders
  /\ encode_userSpaceTokenDescription \in SoundEncoders /\ encode_string \in SoundEncoders
  /\ encode_surl \in SoundEncoders /\ encode_arrayOfString \in SoundEncoders
  /\ encode_arrayOfUnsignedLong \in SoundEncoders /\ encode_ArrayOfAnyURI \in SoundEncoders
  /\ encode_ArrayOfTExtraInfo \in SoundEncoders /\ encode_VOMSAttributes \in SoundEncoders
  /\ SoundEncoders \subseteq Encoders
  /\ encode_TTransferParameters \in Encoders
  /\ [encode_string EXCEPT !["null"] = {Done}] \in Encoders
  BY Zenon DEF Encoders, SoundEncoders

(* a parameter of the name, sent with the encoder, is one of Parameters    *)
Sent(name, e) == /\ Optional(name, e) \in Parameters /\ Required(name, e) \in Parameters
                 /\ RequiredOrInternal(name, e) \in Parameters
                 /\ RequiredInternal(name, e) \in Parameters

LEMMA SentKnown ==
  ASSUME NEW name \in Names \ Exempt, NEW e \in SoundEncoders, DOMAIN e = ClassesOf(name)
  PROVE  Sent(name, e)
<1> DEFINE P(missing, error) == Parameter(name, e, missing, error)
<1>1. "goOn" \notin {INVALID_REQUEST, INTERNAL_ERROR} BY DEF INVALID_REQUEST, INTERNAL_ERROR
<1>2. e \in Encoders BY EncodersKnown
<1>3. ASSUME NEW missing \in Reactions, NEW error \in Reactions \ {"goOn"}
      PROVE  P(missing, error) \in Parameters
  BY <1>2 DEF Parameter, Parameters
<1> HIDE DEF P
<1>4. /\ P("goOn", INTERNAL_ERROR) \in Parameters
      /\ P(INVALID_REQUEST, INVALID_REQUEST) \in Parameters
      /\ P(INVALID_REQUEST, INTERNAL_ERROR) \in Parameters
      /\ P(INTERNAL_ERROR, INTERNAL_ERROR) \in Parameters
  BY <1>1, <1>3 DEF Reactions
<1> QED BY <1>4 DEF P, Sent, Optional, Required, RequiredOrInternal, RequiredInternal

LEMMA PointersSent ==
  /\ \A name \in {"fileStorageType", "numOfLevels", "offset", "count"} : Sent(name, encode_int)
  /\ \A name \in {"recursive", "fullDetailedList", "allLevelRecursive", "forceFileRelease"} :
        Sent(name, encode_bool)
  /\ \A name \in {"desiredSizeOfTotalSpace", "desiredSizeOfGuaranteedSpace"} :
        Sent(name, encode_ULONG64)
  /\ \A name \in {"desiredLifetimeOfReservedSpace", "newFileLifeTime", "newPinLifeTime"} :
        Sent(name, encode_lifetimeValue)
  /\ Sent("retentionPolicyInfo", encode_retentionPolicyInfo)
<1>1. \A name \in Names : ClassesOf(name) = Pointer \/
         name \in {"requestToken", "spaceToken", "userSpaceTokenDescription", "SURL", "fromSURL",
                  "toSURL", "arrayOfSURLs", "arrayOfSpaceTokens", "storageSystemInfo",
                  "arrayOfExpectedFileSizes", "VOMS"}
  BY DEF ClassesOf, Given
<1>2. \A e \in {encode_lifetimeValue, encode_int, encode_bool, encode_ULONG64,
                encode_retentionPolicyInfo} : DOMAIN e = Pointer
  BY DEF Encoder, encode_lifetimeValue, encode_int, encode_bool, encode_ULONG64,
     encode_retentionPolicyInfo
<1>3. \A name \in {"fileStorageType", "numOfLevels", "offset", "count", "recursive",
                   "fullDetailedList", "allLevelRecursive", "forceFileRelease",
                   "desiredSizeOfTotalSpace", "desiredSizeOfGuaranteedSpace",
                   "desiredLifetimeOfReservedSpace", "newFileLifeTime", "newPinLifeTime",
                   "retentionPolicyInfo"} : name \in Names \ Exempt /\ ClassesOf(name) = Pointer
  BY <1>1 DEF Names, Exempt
<1> QED BY <1>2, <1>3, EncodersKnown, SentKnown

LEMMA StringsSent ==
  /\ \A name \in {"requestToken", "spaceToken", "userSpaceTokenDescription"} :
        Sent(name, encode_string)
  /\ Sent("userSpaceTokenDescription", encode_userSpaceTokenDescription)
  /\ \A name \in {"SURL", "fromSURL", "toSURL"} : Sent(name, encode_surl)
<1>1. \A e \in {encode_userSpaceTokenDescription, encode_string} :
        DOMAIN e = Pointer \cup {"notascii"}
  BY DEF Encoder, encode_userSpaceTokenDescription, encode_string
<1>2. DOMAIN encode_surl = Pointer \cup {"notascii", "invalid"} BY DEF Encoder, encode_surl
<1>3. \A name \in {"requestToken", "spaceToken", "userSpaceTokenDescription"} :
        name \in Names \ Exempt /\ ClassesOf(name) = Pointer \cup {"notascii"}
  BY DEF ClassesOf, Given, Names, Exempt
<1>4. \A name \in {"SURL", "fromSURL", "toSURL"} :
        name \in Names \ Exempt /\ ClassesOf(name) = Pointer \cup {"notascii", "invalid"}
  BY DEF ClassesOf, Given, Names, Exempt
<1> QED BY <1>1, <1>2, <1>3, <1>4, EncodersKnown, SentKnown

LEMMA ArraysSent ==
  /\ Sent("arrayOfSURLs", encode_ArrayOfAnyURI) /\ Sent("arrayOfSpaceTokens", encode_arrayOfString)
  /\ Sent("arrayOfExpectedFileSizes", encode_arrayOfUnsignedLong)
  /\ Sent("storageSystemInfo", encode_ArrayOfTExtraInfo) /\ Sent("VOMS", encode_VOMSAttributes)
<1>1. DOMAIN encode_arrayOfString = ClassesOf("arrayOfSpaceTokens")
  BY DEF Encoder, encode_arrayOfString, ClassesOf, Given
<1>2. DOMAIN encode_arrayOfUnsignedLong = ClassesOf("arrayOfExpectedFileSizes")
  BY DEF Encoder, encode_arrayOfUnsignedLong, ClassesOf, Given
<1>3. DOMAIN encode_ArrayOfAnyURI = ClassesOf("arrayOfSURLs")
  BY DEF Encoder, encode_ArrayOfAnyURI, ClassesOf, Given
<1>4. DOMAIN encode_ArrayOfTExtraInfo = ClassesOf("storageSystemInfo")
  BY DEF Encoder, encode_ArrayOfTExtraInfo, ClassesOf, Given
<1>5. DOMAIN encode_VOMSAttributes = ClassesOf("VOMS")
  BY DEF Encoder, encode_VOMSAttributes, ClassesOf
<1>6. {"arrayOfSURLs", "arrayOfSpaceTokens", "arrayOfExpectedFileSizes", "storageSystemInfo",
       "VOMS"} \subseteq Names \ Exempt
  BY DEF Names, Exempt
<1> QED BY <1>1, <1>2, <1>3, <1>4, <1>5, <1>6, EncodersKnown, SentKnown

LEMMA CredentialsReact ==
  /\ VOMS \in Parameters /\ storageSystemInfo \in Parameters
  /\ Credentials \in Seq(Parameters)
<1>1. VOMS \in Parameters BY ArraysSent DEF VOMS, Sent
<1>2. Parameter("authorizationID", encode_string, "goOn", "goOn") \in Parameters
  BY EncodersKnown DEF Parameter, Parameters, Exempt, Names, Reactions
<1>3. storageSystemInfo \in Parameters BY ArraysSent DEF storageSystemInfo, Sent
<1> QED BY <1>1, <1>2, <1>3 DEF Credentials

(* The parameters of the operations that call the backend.                 *)
LEMMA DirectoriesReact ==
  /\ ns1__srmMkdir_impl.sends \in Seq(Parameters)
  /\ ns1__srmRmdir_impl.sends \in Seq(Parameters)
  /\ ns1__srmRm_impl.sends \in Seq(Parameters)
  /\ ns1__srmLs_impl.sends \in Seq(Parameters)
  /\ ns1__srmMv_impl.sends \in Seq(Parameters)
<1> USE PointersSent, StringsSent, ArraysSent, CredentialsReact DEF Calls, Sent
<1>1. ns1__srmMkdir_impl.sends \in Seq(Parameters) BY DEF ns1__srmMkdir_impl
<1>2. ns1__srmRmdir_impl.sends \in Seq(Parameters) BY DEF ns1__srmRmdir_impl
<1>3. ns1__srmRm_impl.sends \in Seq(Parameters) BY DEF ns1__srmRm_impl
<1>4. ns1__srmLs_impl.sends \in Seq(Parameters) BY DEF ns1__srmLs_impl
<1>5. ns1__srmMv_impl.sends \in Seq(Parameters) BY DEF ns1__srmMv_impl
<1> QED BY <1>1, <1>2, <1>3, <1>4, <1>5

LEMMA SpacesReact ==
  /\ ns1__srmReserveSpace_impl.sends \in Seq(Parameters)
  /\ ns1__srmReleaseSpace_impl.sends \in Seq(Parameters)
  /\ ns1__srmGetSpaceMetaData_impl.sends \in Seq(Parameters)
  /\ ns1__srmGetSpaceTokens_impl.sends \in Seq(Parameters)
<1> USE PointersSent, StringsSent, ArraysSent, CredentialsReact DEF Calls, Sent
<1>1. Optional("transferParameters", encode_TTransferParameters) \in Parameters
  BY EncodersKnown DEF Optional, Parameter, Parameters, Exempt, Names, Reactions
<1>2. ns1__srmReserveSpace_impl.sends \in Seq(Parameters) BY <1>1 DEF ns1__srmReserveSpace_impl
<1>3. ns1__srmReleaseSpace_impl.sends \in Seq(Parameters) BY DEF ns1__srmReleaseSpace_impl
<1>4. ns1__srmGetSpaceMetaData_impl.sends \in Seq(Parameters) BY DEF ns1__srmGetSpaceMetaData_impl
<1>5. ns1__srmGetSpaceTokens_impl.sends \in Seq(Parameters) BY DEF ns1__srmGetSpaceTokens_impl
<1> QED BY <1>2, <1>3, <1>4, <1>5

LEMMA TransfersReact ==
  /\ ns1__srmReleaseFiles_impl.sends \in Seq(Parameters)
  /\ ns1__srmPutDone_impl.sends \in Seq(Parameters)
  /\ ns1__srmAbortRequest_impl.sends \in Seq(Parameters)
  /\ ns1__srmAbortFiles_impl.sends \in Seq(Parameters)
  /\ ns1__srmExtendFileLifeTime_impl.sends \in Seq(Parameters)
  /\ ns1__srmPing_impl.sends \in Seq(Parameters)
<1> USE PointersSent, StringsSent, ArraysSent, CredentialsReact DEF Calls, Sent
<1>1. ns1__srmReleaseFiles_impl.sends \in Seq(Parameters) BY DEF ns1__srmReleaseFiles_impl
<1>2. ns1__srmPutDone_impl.sends \in Seq(Parameters) BY DEF ns1__srmPutDone_impl
<1>3. ns1__srmAbortRequest_impl.sends \in Seq(Parameters) BY DEF ns1__srmAbortRequest_impl
<1>4. ns1__srmAbortFiles_impl.sends \in Seq(Parameters) BY DEF ns1__srmAbortFiles_impl
<1>5. ns1__srmExtendFileLifeTime_impl.sends \in Seq(Parameters) BY DEF ns1__srmExtendFileLifeTime_impl
<1>6. ns1__srmPing_impl.sends \in Seq(Parameters)
  <2>1. Parameter("authorizationID", [encode_string EXCEPT !["null"] = {Done}], "goOn", "goOn")
          \in Parameters
    BY EncodersKnown DEF Parameter, Parameters, Exempt, Names, Reactions
  <2> QED BY <2>1 DEF ns1__srmPing_impl
<1> QED BY <1>1, <1>2, <1>3, <1>4, <1>5, <1>6

(* What an operation does on its way to an answer, whichever it is.        *)
Answers(o) ==
  /\ Operations[o].sends \in Seq(Parameters)
  /\ Operations[o].kind = "protocols" => o = "GetTransferProtocols"

LEMMA OperationsAnswer == \A o \in DOMAIN Operations : Answers(o)
<1> DEFINE Sends(r) == r.sends \in Seq(Parameters) /\ r.kind # "protocols"
<1>1. <<>> \in Seq(Parameters)
  OBVIOUS
<1> USE DEF Class, Calls
<1>2. Sends(MkdirRequest) /\ Sends(RmdirRequest) /\ Sends(RmRequest) /\ Sends(LsRequest)
     /\ Sends(MvRequest)
  BY DirectoriesReact DEF MkdirRequest, ns1__srmMkdir_impl, RmdirRequest,
     ns1__srmRmdir_impl, RmRequest, ns1__srmRm_impl, LsRequest, ns1__srmLs_impl,
     MvRequest, ns1__srmMv_impl
<1>3. Sends(ReserveSpaceRequest) /\ Sends(ReleaseSpaceRequest) /\
     Sends(GetSpaceMetaDataRequest) /\ Sends(GetSpaceTokensRequest)
  BY SpacesReact DEF ReserveSpaceRequest, ns1__srmReserveSpace_impl,
     ReleaseSpaceRequest, ns1__srmReleaseSpace_impl, GetSpaceMetaDataRequest,
     ns1__srmGetSpaceMetaData_impl, GetSpaceTokensRequest, ns1__srmGetSpaceTokens_impl
<1>4. Sends(ReleaseFilesRequest) /\ Sends(PutDoneRequest) /\ Sends(AbortRequestRequest)
     /\ Sends(AbortFilesRequest) /\ Sends(ExtendFileLifeTimeRequest) /\
     Sends(PingRequest)
  BY TransfersReact DEF ReleaseFilesRequest, ns1__srmReleaseFiles_impl, PutDoneRequest,
     ns1__srmPutDone_impl, AbortRequestRequest, ns1__srmAbortRequest_impl,
     AbortFilesRequest, ns1__srmAbortFiles_impl, ExtendFileLifeTimeRequest,
     ns1__srmExtendFileLifeTime_impl, PingRequest, ns1__srmPing_impl
<1>5. Sends(StatusLsRequest) /\ Sends(UpdateSpaceRequest) /\
     Sends(StatusUpdateSpaceRequest) /\ Sends(ChangeSpaceForFilesRequest) /\
     Sends(StatusChangeSpaceForFilesRequest) /\ Sends(ExtendFileLifeTimeInSpaceRequest)
  BY <1>1 DEF NotSupported, StatusLsRequest, ns1__srmStatusOfLsRequest_impl,
     UpdateSpaceRequest, ns1__srmUpdateSpace_impl, StatusUpdateSpaceRequest,
     ns1__srmStatusOfUpdateSpaceRequest_impl, ChangeSpaceForFilesRequest,
     ns1__srmChangeSpaceForFiles_impl, StatusChangeSpaceForFilesRequest,
     ns1__srmStatusOfChangeSpaceForFilesRequest_impl, ExtendFileLifeTimeInSpaceRequest,
     ns1__srmExtendFileLifeTimeInSpace_impl
<1>6. Sends(PurgeFromSpaceRequest) /\ Sends(SuspendRequestRequest) /\
     Sends(ResumeRequestRequest) /\ Sends(SetPermissionRequest) /\
     Sends(CheckPermissionRequest) /\ Sends(GetPermissionRequest)
  BY <1>1 DEF NotSupported, PurgeFromSpaceRequest, ns1__srmPurgeFromSpace_impl,
     SuspendRequestRequest, ns1__srmSuspendRequest_impl, ResumeRequestRequest,
     ns1__srmResumeRequest_impl, SetPermissionRequest, ns1__srmSetPermission_impl,
     CheckPermissionRequest, ns1__srmCheckPermission_impl, GetPermissionRequest,
     ns1__srmGetPermission_impl
<1>7. Sends(StatusReserveSpaceRequest)
  BY <1>1 DEF StatusReserveSpaceRequest, ns1__srmStatusOfReserveSpaceRequest_impl
<1>8. GetTransferProtocolsRequest.sends \in Seq(Parameters)
  BY <1>1 DEF GetTransferProtocolsRequest, ns1__srmGetTransferProtocols_impl
<1> HIDE DEF Sends
<1>9. ASSUME NEW o \in DOMAIN Operations, o # "GetTransferProtocols" PROVE Sends(Operations[o])
  BY <1>2, <1>3, <1>4, <1>5, <1>6, <1>7, <1>9 DEF Operations
<1>10. Operations["GetTransferProtocols"] = GetTransferProtocolsRequest BY DEF Operations
<1> QED BY <1>8, <1>9, <1>10 DEF Answers, Sends

-------------------------------------------------------------------------------

(* A success told is the backend's, but for the list of protocols; nothing *)
(* is told of a request that has not come or is not authorised yet.        *)
Told == told = "SRM_SUCCESS" /\ op # "GetTransferProtocols" => answered = "SRM_SUCCESS"
Truthful ==
  /\ i \in Nat \ {0}
  /\ pc # "idle" => op \in DOMAIN Operations
  /\ pc \in {"idle", "authorize"} => told = "none"
  /\ Told

LEMMA InitTruthful == SynchInit => Truthful
  BY DEF SynchInit, Truthful, Told

(* A step that tells nothing else of the same request.                     *)
LEMMA SilentTruthful ==
  ASSUME Truthful, UNCHANGED <<op, told, answered>>, i' \in Nat \ {0},
         pc # "idle", pc' \notin {"idle", "authorize"} \/ pc' = pc
  PROVE  Truthful'
  BY DEF Truthful, Told

(* A step that tells anything but a success.                               *)
LEMMA FailureTruthful ==
  ASSUME Truthful, op' \in DOMAIN Operations, i' \in Nat \ {0}, told' # "SRM_SUCCESS",
         pc' \notin {"idle", "authorize"}
  PROVE  Truthful'
  BY DEF Truthful, Told

LEMMA TellTruthful ==
  ASSUME Truthful, NEW code, Tell(code), code # "SRM_SUCCESS", UNCHANGED <<op, answered>>,
         i' \in Nat \ {0}, pc # "idle", pc' \notin {"idle", "authorize"}
  PROVE  Truthful'
  BY DEF Truthful, Told, Tell

LEMMA ReceiveTruthful ==
  ASSUME Truthful, NEW o \in Ops, Load(o) \/ LoadThrows(o)
  PROVE  Truthful'
<1> USE SynchAssumption DEF SynchAssumption
<1>1. /\ pc = "idle" /\ op' = o /\ o \in DOMAIN Operations /\ UNCHANGED <<i, answered>>
  BY DEF Load, LoadThrows, Receive
<1>2. CASE Load(o)
  <2>1. pc' \in {"authorize", "dead"} /\ told' = told BY <1>2 DEF Load
  <2> QED BY <1>1, <2>1 DEF Truthful, Told
<1>3. CASE LoadThrows(o)
  <2>1. pc' = "answered" /\ told' = INVALID_REQUEST BY <1>3 DEF LoadThrows, Decline
  <2> QED BY <1>1, <2>1 DEF Truthful, Told, INVALID_REQUEST
<1> QED BY <1>2, <1>3

(* What a parameter that cannot be encoded is answered with.               *)
LEMMA RefusedWith ==
  ASSUME RefuseParameter, i \in Nat \ {0}, op \in DOMAIN Operations
  PROVE  \E code \in {INVALID_REQUEST, INTERNAL_ERROR} : Tell(code)
<1> DEFINE parameter == Operation.sends[i]
<1>1. i <= Len(Operation.sends)
  BY DEF RefuseParameter
<1>2. parameter \in Parameters
  <2>1. Operation.sends \in Seq(Parameters)
    BY OperationsAnswer DEF Operation, Answers
  <2>2. i \in 1 .. Len(Operation.sends) BY <1>1, <2>1
  <2> QED BY <2>1, <2>2
<1>3. PICK class \in Classes(parameter) : \E outcome \in parameter.encode[class] :
             /\ Reaction(parameter, outcome) # "goOn"
             /\ Tell(Reaction(parameter, outcome))
  BY DEF RefuseParameter
<1>4. PICK outcome \in parameter.encode[class] : /\ Reaction(parameter, outcome) # "goOn"
                                                /\ Tell(Reaction(parameter, outcome))
  BY <1>3
<1>5. Reaction(parameter, outcome) \in {INVALID_REQUEST, INTERNAL_ERROR}
  <2>1. parameter.missing \in Reactions /\ parameter.error \in Reactions
    BY <1>2 DEF Parameters
  <2> HIDE DEF parameter
  <2> QED BY <1>4, <2>1 DEF Reaction, Reactions
<1> QED BY <1>4, <1>5

LEMMA RefuseParameterTruthful == Truthful /\ RefuseParameter => Truthful'
<1> SUFFICES ASSUME Truthful, RefuseParameter PROVE Truthful'
  OBVIOUS
<1>1. pc = "encode" /\ pc' = "register" /\ UNCHANGED <<op, i, answered>>
  BY DEF RefuseParameter
<1>2. PICK code \in {INVALID_REQUEST, INTERNAL_ERROR} : Tell(code)
  BY <1>1, RefusedWith DEF Truthful
<1> QED BY <1>1, <1>2, TellTruthful DEF Truthful, INVALID_REQUEST, INTERNAL_ERROR

LEMMA StepTruthful == Truthful /\ [SynchNext]_vars => Truthful'
<1> SUFFICES ASSUME Truthful, [SynchNext]_vars PROVE Truthful'
  OBVIOUS
<1>i. i \in Nat \ {0} BY DEF Truthful
<1>1. CASE \E o \in Ops : Load(o) \/ LoadThrows(o) BY <1>1, ReceiveTruthful
<1>2. CASE Authorizing
  <2>1. pc = "authorize" /\ UNCHANGED synchVars BY <1>2 DEF Authorizing
  <2> QED BY <1>i, <2>1, SilentTruthful DEF synchVars
<1>3. CASE Blacklisted \/ AuthzThrows
  <2>1. /\ pc = "authorize" /\ pc' = "answered" /\ UNCHANGED <<op, i>>
        /\ told' \in {"SRM_AUTHORIZATION_FAILURE", "SRM_FAILURE"}
    BY <1>3 DEF Blacklisted, AuthzThrows, Decline
  <2> QED BY <2>1, FailureTruthful DEF Truthful
<1>4. CASE OutOfMemory \/ Crash
  <2>1. /\ pc = "authorize" /\ pc' \in {"register", "dead"}
        /\ UNCHANGED <<op, i, told, answered>>
    BY <1>4 DEF OutOfMemory, Crash, Perform
  <2> QED BY <1>i, <2>1, SilentTruthful
<1>5. CASE Refuse
  <2>1. /\ pc = "authorize" /\ pc' = "register" /\ UNCHANGED <<op, i>>
        /\ told' = "SRM_NOT_SUPPORTED"
    BY <1>5 DEF Refuse, Perform
  <2> QED BY <2>1, FailureTruthful DEF Truthful
<1>6. CASE AnswerProtocols
  <2>1. /\ pc = "authorize" /\ pc' \in {"register", "starved", "dead"} /\ UNCHANGED <<op, i>>
        /\ Operation.kind = "protocols"
    BY <1>6 DEF AnswerProtocols, Perform
  <2>2. op = "GetTransferProtocols" /\ op \in DOMAIN Operations
    BY <2>1, OperationsAnswer DEF Truthful, Operation, Answers
  <2> QED BY <1>i, <2>1, <2>2 DEF Truthful, Told
<1>7. CASE StartCall
  <2>1. /\ pc = "authorize" /\ pc' = "encode" /\ UNCHANGED <<op, i, answered>>
        /\ Tell("unset")
    BY <1>7 DEF StartCall, Perform
  <2> QED BY <1>i, <2>1, TellTruthful
<1>8. CASE Encode
  <2>1. pc = "encode" /\ i' = i + 1 /\ UNCHANGED <<op, pc, told, answered>>
    BY <1>8 DEF Encode
  <2> QED BY <1>i, <2>1, SilentTruthful
<1>9. CASE RefuseParameter BY <1>9, RefuseParameterTruthful
<1>10. CASE GetClient
  <2>1. pc = "encode" /\ pc' \in {"call", "dead"} /\ UNCHANGED <<op, i, told, answered>>
    BY <1>10 DEF GetClient
  <2> QED BY <1>i, <2>1, SilentTruthful
<1>11. CASE Fault
  <2>1. /\ pc = "call" /\ pc' = "release" /\ UNCHANGED <<op, i, answered>>
        /\ Tell(INTERNAL_ERROR)
    BY <1>11 DEF Fault
  <2> QED BY <1>i, <2>1, TellTruthful DEF INTERNAL_ERROR
<1>12. CASE Result
  <2>1. /\ pc = "call" /\ pc' \in {"status", "fields"} /\ i' = 1
        /\ UNCHANGED <<op, told, answered>>
    BY <1>12 DEF Result
  <2> QED BY <2>1, SilentTruthful
<1>13. CASE DecodeStatus
  <2>1. pc = "status" /\ pc' \in {"fields", "release"} /\ UNCHANGED <<op, i>>
    BY <1>13 DEF DecodeStatus
  <2>2. told' = answered' \/ told' = INTERNAL_ERROR BY <1>13 DEF DecodeStatus
  <2> QED BY <1>i, <2>1, <2>2 DEF Truthful, Told, INTERNAL_ERROR
<1>14. CASE DecodeField
  <2>1. /\ pc = "fields" /\ pc' \in {"fields", "release"} /\ i' = i + 1
        /\ UNCHANGED <<op, answered>>
    BY <1>14 DEF DecodeField
  <2>2. UNCHANGED told \/ Tell(INTERNAL_ERROR) BY <1>14 DEF DecodeField
  <2>3. i' \in Nat \ {0} BY <1>i, <2>1
  <2>4. CASE UNCHANGED told BY <2>1, <2>3, <2>4, SilentTruthful
  <2>5. CASE Tell(INTERNAL_ERROR) BY <2>1, <2>3, <2>5, TellTruthful DEF INTERNAL_ERROR
  <2> QED BY <2>2, <2>4, <2>5
<1>15. CASE DecodeCrash \/ Decoded \/ Release \/ SetVersionInfo \/ Register
  <2>1. /\ pc \in {"fields", "release", "version", "register"}
        /\ pc' \in {"release", "version", "register", "answered", "dead", "starved"}
        /\ UNCHANGED <<op, i, told, answered>>
    BY <1>15 DEF DecodeCrash, Decoded, Release, SetVersionInfo, Register
  <2> QED BY <1>i, <2>1, SilentTruthful
<1>16. CASE Return BY <1>16 DEF Return, Truthful, Told
<1>17. CASE UNCHANGED vars BY <1>17 DEF vars, synchVars, Truthful, Told
<1> QED BY <1>1, <1>2, <1>3, <1>4, <1>5, <1>6, <1>7, <1>8, <1>9, <1>10, <1>11, <1>12, <1>13,
           <1>14, <1>15, <1>16, <1>17 DEF SynchNext

(* A client told success was told so by the backend, in answer to this     *)
(* request (the rpcResponseHandler functions of srmv2_xferreq.cpp,         *)
(* srmv2_dirreq.cpp and srmv2_spacereq.cpp).                               *)
THEOREM SuccessIsTheBackends == SynchSpec => []SuccessFromBackend
<1>1. Truthful => SuccessFromBackend
  BY DEF Truthful, Told, SuccessFromBackend
<1> QED BY <1>1, InitTruthful, StepTruthful, PTL DEF SynchSpec
-------------------------------------------------------------------------------

(* No decoder takes a well formed value for one that is not there.         *)
Decoders == {decode_string, decode_int, decode_ULONG64, decode_lifetimeValue,
             decode_TRetentionPolicyInfo, decode_ArrayOfString, decode_ArrayOfTSURLReturnStatus,
             decode_ArrayOfTSURLLifetimeReturnStatus, decode_ArrayOfTExtraInfo,
             decode_ArrayOfTMetaDataSpace, decode_ArrayOfTMetaDataPathDetail}
FieldNames == {"arrayOfFileStatuses", "requestToken", "details", "estimatedProcessingTime",
               "retentionPolicyInfo", "sizeOfTotalReservedSpace",
               "sizeOfGuaranteedReservedSpace", "lifetimeOfReservedSpace", "spaceToken",
               "arrayOfSpaceDetails", "arrayOfSpaceTokens", "versionInfo", "otherInfo"}
Fields == [name : FieldNames, decode : Decoders]

LEMMA DecodersFind == \A d \in Decoders : "notfound" \notin d["good"]
<1> USE DEF Decoder, Unchecked, Scalar, Array, Nothing
<1>1. "notfound" \notin decode_string["good"] BY DEF decode_string
<1>2. "notfound" \notin decode_int["good"] BY DEF decode_int
<1>3. "notfound" \notin decode_ULONG64["good"] BY DEF decode_ULONG64
<1>4. "notfound" \notin decode_TRetentionPolicyInfo["good"] BY DEF decode_TRetentionPolicyInfo
<1>5. "notfound" \notin decode_ArrayOfString["good"] BY DEF decode_ArrayOfString
<1>6. "notfound" \notin decode_ArrayOfTSURLReturnStatus["good"]
  BY DEF decode_ArrayOfTSURLReturnStatus
<1>7. "notfound" \notin decode_ArrayOfTSURLLifetimeReturnStatus["good"]
  BY DEF decode_ArrayOfTSURLLifetimeReturnStatus
<1>8. "notfound" \notin decode_ArrayOfTExtraInfo["good"] BY DEF decode_ArrayOfTExtraInfo
<1>9. "notfound" \notin decode_ArrayOfTMetaDataSpace["good"] BY DEF decode_ArrayOfTMetaDataSpace
<1>10. "notfound" \notin decode_ArrayOfTMetaDataPathDetail["good"]
  BY DEF decode_ArrayOfTMetaDataPathDetail
<1>11. "notfound" \notin decode_lifetimeValue["good"] BY DEF decode_lifetimeValue, decode_ULONG64
<1> HIDE DEF Decoder, Unchecked, Scalar, Array, Nothing
<1> QED BY <1>1, <1>2, <1>3, <1>4, <1>5, <1>6, <1>7, <1>8, <1>9, <1>10, <1>11 DEF Decoders

LEMMA DecodersKnown ==
  /\ decode_string \in Decoders /\ decode_int \in Decoders /\ decode_ULONG64 \in Decoders
  /\ decode_lifetimeValue \in Decoders /\ decode_TRetentionPolicyInfo \in Decoders
  /\ decode_ArrayOfString \in Decoders /\ decode_ArrayOfTSURLReturnStatus \in Decoders
  /\ decode_ArrayOfTSURLLifetimeReturnStatus \in Decoders
  /\ decode_ArrayOfTExtraInfo \in Decoders /\ decode_ArrayOfTMetaDataSpace \in Decoders
  /\ decode_ArrayOfTMetaDataPathDetail \in Decoders
  BY Zenon DEF Decoders

LEMMA HandlersDecode ==
  /\ <<>> \in Seq(Fields)
  /\ <<FileStatuses>> \in Seq(Fields)
  /\ rpcResponseHandler_Ls \in Seq(Fields)
  /\ rpcResponseHandler_ReserveSpace \in Seq(Fields)
  /\ rpcResponseHandler_GetSpaceMetaData \in Seq(Fields)
  /\ rpcResponseHandler_GetSpaceTokens \in Seq(Fields)
  /\ rpcResponseHandler_ExtendFileLifeTime \in Seq(Fields)
  /\ rpcResponseHandler_Ping \in Seq(Fields)
<1> USE DecodersKnown DEF Field, Fields, FieldNames
<1>1. <<>> \in Seq(Fields) OBVIOUS
<1>2. <<FileStatuses>> \in Seq(Fields) BY DEF FileStatuses
<1>3. rpcResponseHandler_Ls \in Seq(Fields) BY DEF rpcResponseHandler_Ls
<1>4. rpcResponseHandler_ReserveSpace \in Seq(Fields) BY DEF rpcResponseHandler_ReserveSpace
<1>5. rpcResponseHandler_GetSpaceMetaData \in Seq(Fields)
  BY DEF rpcResponseHandler_GetSpaceMetaData
<1>6. rpcResponseHandler_GetSpaceTokens \in Seq(Fields) BY DEF rpcResponseHandler_GetSpaceTokens
<1>7. rpcResponseHandler_ExtendFileLifeTime \in Seq(Fields)
  BY DEF rpcResponseHandler_ExtendFileLifeTime
<1>8. rpcResponseHandler_Ping \in Seq(Fields) BY DEF rpcResponseHandler_Ping
<1> QED BY <1>1, <1>2, <1>3, <1>4, <1>5, <1>6, <1>7, <1>8

LEMMA OperationsDecode == \A o \in DOMAIN Operations : Operations[o].decodes \in Seq(Fields)
<1> DEFINE Decodes(r) == r.decodes \in Seq(Fields)
<1> USE HandlersDecode DEF Class
<1>1. Decodes(MkdirRequest) /\ Decodes(RmdirRequest) /\ Decodes(RmRequest)
     /\ Decodes(LsRequest) /\ Decodes(MvRequest)
  BY DEF MkdirRequest, RmdirRequest, RmRequest, LsRequest, MvRequest, rpcResponseHandler_Mkdir,
     rpcResponseHandler_Rmdir, rpcResponseHandler_Rm, rpcResponseHandler_Mv
<1>2. Decodes(ReserveSpaceRequest) /\ Decodes(ReleaseSpaceRequest)
     /\ Decodes(GetSpaceMetaDataRequest) /\ Decodes(GetSpaceTokensRequest)
  BY DEF ReserveSpaceRequest, ReleaseSpaceRequest, GetSpaceMetaDataRequest,
     GetSpaceTokensRequest, rpcResponseHandler_ReleaseSpace
<1>3. Decodes(ReleaseFilesRequest) /\ Decodes(PutDoneRequest) /\ Decodes(AbortRequestRequest)
     /\ Decodes(AbortFilesRequest) /\ Decodes(ExtendFileLifeTimeRequest)
  BY DEF ReleaseFilesRequest, PutDoneRequest, AbortRequestRequest, AbortFilesRequest,
     ExtendFileLifeTimeRequest, rpcResponseHandler_ReleaseFiles, rpcResponseHandler_PutDone,
     rpcResponseHandler_AbortRequest, rpcResponseHandler_AbortFiles
<1>4. Decodes(StatusLsRequest) /\ Decodes(UpdateSpaceRequest)
     /\ Decodes(StatusUpdateSpaceRequest) /\ Decodes(ChangeSpaceForFilesRequest)
     /\ Decodes(StatusChangeSpaceForFilesRequest) /\ Decodes(ExtendFileLifeTimeInSpaceRequest)
  BY DEF StatusLsRequest, UpdateSpaceRequest, StatusUpdateSpaceRequest,
     ChangeSpaceForFilesRequest, StatusChangeSpaceForFilesRequest,
     ExtendFileLifeTimeInSpaceRequest
<1>5. Decodes(PurgeFromSpaceRequest) /\ Decodes(SuspendRequestRequest)
     /\ Decodes(ResumeRequestRequest) /\ Decodes(SetPermissionRequest)
     /\ Decodes(CheckPermissionRequest) /\ Decodes(GetPermissionRequest)
  BY DEF PurgeFromSpaceRequest, SuspendRequestRequest, ResumeRequestRequest,
     SetPermissionRequest, CheckPermissionRequest, GetPermissionRequest
<1>6. Decodes(StatusReserveSpaceRequest) /\ Decodes(GetTransferProtocolsRequest)
     /\ Decodes(PingRequest)
  BY DEF StatusReserveSpaceRequest, GetTransferProtocolsRequest, PingRequest
<1> HIDE DEF Decodes
<1>7. ASSUME NEW o \in DOMAIN Operations PROVE Decodes(Operations[o])
  BY <1>1, <1>2, <1>3, <1>4, <1>5, <1>6 DEF Operations
<1> QED BY <1>7 DEF Decodes

-------------------------------------------------------------------------------

(* The decoders that look at what every allocation gave, and the           *)
(* operations that use no others.                                          *)
Careful == {decode_string, decode_int, decode_ULONG64, decode_TRetentionPolicyInfo,
            decode_ArrayOfString, decode_ArrayOfTSURLReturnStatus, decode_ArrayOfTExtraInfo}
CarefulFields == [name : FieldNames, decode : Careful]

LEMMA CarefulNeverCrash == \A d \in Careful : \A class \in DOMAIN d : "crash" \notin d[class]
<1>1. ASSUME NEW classes, NEW notfound, NEW malformed, NEW allocates \in BOOLEAN
      PROVE  LET d == Decoder(classes, notfound, malformed, allocates)
             IN \A class \in DOMAIN d : "crash" \notin d[class]
  BY DEF Decoder
<1> QED BY <1>1 DEF Careful, decode_string, decode_int, decode_ULONG64,
           decode_TRetentionPolicyInfo, decode_ArrayOfString, decode_ArrayOfTSURLReturnStatus,
           decode_ArrayOfTExtraInfo

LEMMA CarefulOperations ==
  \A o \in DOMAIN Operations \ Unguarded : Operations[o].decodes \in Seq(CarefulFields)
<1> DEFINE Decodes(r) == r.decodes \in Seq(CarefulFields)
<1>0. Field("arrayOfFileStatuses", decode_ArrayOfTSURLReturnStatus) \in CarefulFields
  BY DEF CarefulFields, Careful, Field, FieldNames
<1>1. /\ <<>> \in Seq(CarefulFields)
      /\ <<FileStatuses>> \in Seq(CarefulFields)
  BY <1>0 DEF FileStatuses
<1>2. rpcResponseHandler_GetSpaceTokens \in Seq(CarefulFields)
  BY DEF rpcResponseHandler_GetSpaceTokens, Field, CarefulFields, Careful, FieldNames
<1> USE <1>1, <1>2 DEF Class
<1>3. Decodes(MkdirRequest) /\ Decodes(RmdirRequest) /\ Decodes(RmRequest) /\ Decodes(MvRequest)
  BY DEF MkdirRequest, RmdirRequest, RmRequest, MvRequest, rpcResponseHandler_Mkdir,
     rpcResponseHandler_Rmdir, rpcResponseHandler_Rm, rpcResponseHandler_Mv
<1>4. Decodes(ReleaseSpaceRequest) /\ Decodes(GetSpaceTokensRequest)
  BY DEF ReleaseSpaceRequest, GetSpaceTokensRequest, rpcResponseHandler_ReleaseSpace
<1>5. Decodes(ReleaseFilesRequest) /\ Decodes(PutDoneRequest) /\ Decodes(AbortRequestRequest)
     /\ Decodes(AbortFilesRequest)
  BY DEF ReleaseFilesRequest, PutDoneRequest, AbortRequestRequest, AbortFilesRequest,
     rpcResponseHandler_ReleaseFiles, rpcResponseHandler_PutDone,
     rpcResponseHandler_AbortRequest, rpcResponseHandler_AbortFiles
<1>6. Decodes(StatusLsRequest) /\ Decodes(UpdateSpaceRequest)
     /\ Decodes(StatusUpdateSpaceRequest) /\ Decodes(ChangeSpaceForFilesRequest)
     /\ Decodes(StatusChangeSpaceForFilesRequest) /\ Decodes(ExtendFileLifeTimeInSpaceRequest)
  BY DEF StatusLsRequest, UpdateSpaceRequest, StatusUpdateSpaceRequest,
     ChangeSpaceForFilesRequest, StatusChangeSpaceForFilesRequest,
     ExtendFileLifeTimeInSpaceRequest
<1>7. Decodes(PurgeFromSpaceRequest) /\ Decodes(SuspendRequestRequest)
     /\ Decodes(ResumeRequestRequest) /\ Decodes(SetPermissionRequest)
     /\ Decodes(CheckPermissionRequest) /\ Decodes(GetPermissionRequest)
  BY DEF PurgeFromSpaceRequest, SuspendRequestRequest, ResumeRequestRequest,
     SetPermissionRequest, CheckPermissionRequest, GetPermissionRequest
<1>8. Decodes(StatusReserveSpaceRequest)
  BY DEF StatusReserveSpaceRequest
<1> HIDE DEF Decodes
<1>9. ASSUME NEW o \in DOMAIN Operations \ Unguarded PROVE Decodes(Operations[o])
  BY <1>3, <1>4, <1>5, <1>6, <1>7, <1>8 DEF Operations, Unguarded
<1> QED BY <1>9 DEF Decodes

-------------------------------------------------------------------------------

(* Where the process can die: which operations log a token or crash.       *)
Logged(o) == \A p \in Operations[o].load : LogsToken(o, p) => p.requestToken # "null"

LEMMA TokensThere == \A o \in DOMAIN Operations : Logged(o)
<1> SUFFICES ASSUME NEW o \in DOMAIN Operations, NEW p \in Operations[o].load, LogsToken(o, p)
             PROVE  p.requestToken # "null"
  BY DEF Logged
<1>1. CASE o \in {"ReleaseFiles", "ExtendFileLifeTime"}
  BY <1>1 DEF LogsToken
<1>2. CASE o \in {"AbortFiles", "AbortRequest", "StatusLs", "StatusReserveSpace",
                  "StatusUpdateSpace", "StatusChangeSpaceForFiles", "SuspendRequest", "PutDone"}
  <2>1. p.requestToken \in Valid
    <3> USE DEF Operations, Class
    <3>1. CASE o = "AbortFiles" BY <3>1 DEF AbortFilesRequest
    <3>2. CASE o = "AbortRequest" BY <3>2 DEF AbortRequestRequest
    <3>3. CASE o = "StatusLs" BY <3>3 DEF StatusLsRequest
    <3>4. CASE o = "StatusReserveSpace" BY <3>4 DEF StatusReserveSpaceRequest
    <3>5. CASE o = "StatusUpdateSpace" BY <3>5 DEF StatusUpdateSpaceRequest
    <3>6. CASE o = "StatusChangeSpaceForFiles" BY <3>6 DEF StatusChangeSpaceForFilesRequest
    <3>7. CASE o = "SuspendRequest" BY <3>7 DEF SuspendRequestRequest
    <3>8. CASE o = "PutDone" BY <3>8 DEF PutDoneRequest
    <3> QED BY <1>2, <3>1, <3>2, <3>3, <3>4, <3>5, <3>6, <3>7, <3>8
  <2> QED BY <2>1 DEF Valid
<1> QED BY <1>1, <1>2 DEF LogsToken

(* What an operation that does not call the backend is.                    *)
Kinds(o) == /\ Operations[o].kind = "crashes" => o = "StatusReserveSpace"
            /\ Operations[o].kind = "protocols" => o = "GetTransferProtocols"
            /\ o = "Ping" => Operations[o].kind = "calls"

LEMMA OperationKinds == \A o \in DOMAIN Operations : Kinds(o)
<1> DEFINE Calm(r) == r.kind # "crashes"
<1> USE DEF Class, Calls
<1>2. Calm(MkdirRequest) /\ Calm(RmdirRequest) /\ Calm(RmRequest) /\ Calm(LsRequest)
     /\ Calm(MvRequest)
  BY DEF MkdirRequest, ns1__srmMkdir_impl, RmdirRequest,
     ns1__srmRmdir_impl, RmRequest, ns1__srmRm_impl, LsRequest, ns1__srmLs_impl,
     MvRequest, ns1__srmMv_impl
<1>3. Calm(ReserveSpaceRequest) /\ Calm(ReleaseSpaceRequest) /\
     Calm(GetSpaceMetaDataRequest) /\ Calm(GetSpaceTokensRequest)
  BY DEF ReserveSpaceRequest, ns1__srmReserveSpace_impl,
     ReleaseSpaceRequest, ns1__srmReleaseSpace_impl, GetSpaceMetaDataRequest,
     ns1__srmGetSpaceMetaData_impl, GetSpaceTokensRequest, ns1__srmGetSpaceTokens_impl
<1>4. Calm(ReleaseFilesRequest) /\ Calm(PutDoneRequest) /\ Calm(AbortRequestRequest)
     /\ Calm(AbortFilesRequest) /\ Calm(ExtendFileLifeTimeRequest)
  BY DEF ReleaseFilesRequest, ns1__srmReleaseFiles_impl, PutDoneRequest,
     ns1__srmPutDone_impl, AbortRequestRequest, ns1__srmAbortRequest_impl,
     AbortFilesRequest, ns1__srmAbortFiles_impl, ExtendFileLifeTimeRequest,
     ns1__srmExtendFileLifeTime_impl
<1>5. Calm(StatusLsRequest) /\ Calm(UpdateSpaceRequest) /\
     Calm(StatusUpdateSpaceRequest) /\ Calm(ChangeSpaceForFilesRequest) /\
     Calm(StatusChangeSpaceForFilesRequest) /\ Calm(ExtendFileLifeTimeInSpaceRequest)
  BY DEF NotSupported, StatusLsRequest, ns1__srmStatusOfLsRequest_impl,
     UpdateSpaceRequest, ns1__srmUpdateSpace_impl, StatusUpdateSpaceRequest,
     ns1__srmStatusOfUpdateSpaceRequest_impl, ChangeSpaceForFilesRequest,
     ns1__srmChangeSpaceForFiles_impl, StatusChangeSpaceForFilesRequest,
     ns1__srmStatusOfChangeSpaceForFilesRequest_impl, ExtendFileLifeTimeInSpaceRequest,
     ns1__srmExtendFileLifeTimeInSpace_impl
<1>6. Calm(PurgeFromSpaceRequest) /\ Calm(SuspendRequestRequest) /\
     Calm(ResumeRequestRequest) /\ Calm(SetPermissionRequest) /\
     Calm(CheckPermissionRequest) /\ Calm(GetPermissionRequest)
  BY DEF NotSupported, PurgeFromSpaceRequest, ns1__srmPurgeFromSpace_impl,
     SuspendRequestRequest, ns1__srmSuspendRequest_impl, ResumeRequestRequest,
     ns1__srmResumeRequest_impl, SetPermissionRequest, ns1__srmSetPermission_impl,
     CheckPermissionRequest, ns1__srmCheckPermission_impl, GetPermissionRequest,
     ns1__srmGetPermission_impl
<1>7. Calm(GetTransferProtocolsRequest)
  BY DEF GetTransferProtocolsRequest, ns1__srmGetTransferProtocols_impl
<1>8. PingRequest.kind = "calls"
  BY DEF PingRequest, ns1__srmPing_impl
<1>9. Calm(PingRequest)
  BY <1>8
<1> HIDE DEF Calm
<1>10. ASSUME NEW o \in DOMAIN Operations, o # "StatusReserveSpace" PROVE Calm(Operations[o])
  BY <1>2, <1>3, <1>4, <1>5, <1>6, <1>7, <1>9, <1>10 DEF Operations
<1>11. Operations["Ping"] = PingRequest BY DEF Operations
<1> QED BY <1>8, <1>10, <1>11, OperationsAnswer DEF Kinds, Calm, Answers

(* Only a Ping sets a version, and the list of protocols stays what main() *)
(* found it to be; of a dead process the reason is known.                  *)
Mortal ==
  /\ supported
  /\ pc # "idle" => op \in DOMAIN Operations
  /\ pc = "version" => op = "Ping"
  /\ DiesOnly

(* Nothing writes the list of protocols.                                   *)
LEMMA SupportedKept == [SynchNext]_vars => UNCHANGED supported
<1> SUFFICES ASSUME [SynchNext]_vars PROVE UNCHANGED supported
  OBVIOUS
<1>1. CASE \E o \in Ops : Load(o) \/ LoadThrows(o) BY <1>1 DEF Load, LoadThrows, Receive
<1>2. CASE Authorizing \/ Blacklisted \/ AuthzThrows \/ UNCHANGED vars
  BY <1>2 DEF Authorizing, Blacklisted, AuthzThrows, vars, synchVars
<1>3. CASE OutOfMemory \/ Refuse \/ Crash \/ AnswerProtocols \/ StartCall
  BY <1>3 DEF OutOfMemory, Refuse, Crash, AnswerProtocols, StartCall
<1>4. CASE Encode \/ RefuseParameter \/ GetClient \/ Fault \/ Result
  BY <1>4 DEF Encode, RefuseParameter, GetClient, Fault, Result
<1>5. CASE DecodeStatus \/ DecodeField \/ DecodeCrash \/ Decoded
  BY <1>5 DEF DecodeStatus, DecodeField, DecodeCrash, Decoded
<1>6. CASE Release \/ SetVersionInfo \/ Register \/ Return
  BY <1>6 DEF Release, SetVersionInfo, Register, Return
<1> QED BY <1>1, <1>2, <1>3, <1>4, <1>5, <1>6 DEF SynchNext

(* The backend's answer starves no operation but those of Unguarded.       *)
LEMMA DecodeCrashUnguarded ==
  ASSUME DecodeCrash, i \in Nat \ {0}, op \in DOMAIN Operations
  PROVE  op \in Unguarded
<1> SUFFICES ASSUME op \notin Unguarded PROVE FALSE
  OBVIOUS
<1> DEFINE field == Operation.decodes[i]
<1>1. Operation.decodes \in Seq(CarefulFields) BY CarefulOperations DEF Operation
<1>2. i \in 1 .. Len(Operation.decodes) BY <1>1 DEF DecodeCrash
<1>3. field \in CarefulFields BY <1>1, <1>2
<1>4. field.decode \in Careful BY <1>3 DEF CarefulFields
<1>5. \E class \in DOMAIN field.decode : "crash" \in field.decode[class] BY DEF DecodeCrash
<1> QED BY <1>4, <1>5, CarefulNeverCrash

LEMMA StepMortal == Balanced /\ Truthful /\ Mortal /\ [SynchNext]_vars => Mortal'
<1> SUFFICES ASSUME Balanced, Truthful, Mortal, [SynchNext]_vars PROVE Mortal'
  OBVIOUS
<1> USE SupportedKept
<1>1. CASE \E o \in Ops : Load(o) \/ LoadThrows(o)
  <2>1. PICK o \in Ops : Load(o) \/ LoadThrows(o) BY <1>1
  <2>2. o \in DOMAIN Operations /\ op' = o BY <2>1, SynchAssumption DEF SynchAssumption, Load, LoadThrows, Receive
  <2>3. pc' \in {"authorize", "answered"}
    <3>1. CASE Load(o)
      <4>1. PICK p \in Operations[o].load :
              pc' = IF LogsToken(o, p) => p.requestToken # "null" THEN "authorize" ELSE "dead"
        BY <3>1 DEF Load
      <4>2. LogsToken(o, p) => p.requestToken # "null" BY <2>2, TokensThere DEF Logged
      <4> QED BY <4>1, <4>2
    <3>2. CASE LoadThrows(o) BY <3>2 DEF LoadThrows, Decline
    <3> QED BY <2>1, <3>1, <3>2
  <2> QED BY <2>2, <2>3 DEF Mortal, DiesOnly
<1>2. CASE Crash
  <2>1. pc = "authorize" /\ pc' = "dead" /\ op' = op /\ Operation.kind = "crashes"
    BY <1>2 DEF Crash, Perform
  <2>2. op = "StatusReserveSpace" BY <2>1, OperationKinds DEF Mortal, Operation, Kinds
  <2> QED BY <2>1, <2>2 DEF Mortal, DiesOnly
<1>3. CASE GetClient
  <2>1. /\ pc = "encode" /\ UNCHANGED <<op, refs>>
        /\ pc' = "call" \/ (pc' = "dead" /\ ~client')
    BY <1>3 DEF GetClient
  <2>2. refs.input = 1 BY <2>1 DEF Balanced
  <2> QED BY <2>1, <2>2 DEF Mortal, DiesOnly
<1>4. CASE SetVersionInfo
  <2>1. /\ pc = "version" /\ UNCHANGED <<op, reply>>
        /\ \/ pc' \in {"register", "starved"}
           \/ pc' = "dead" /\ <<"otherInfo", "baditem">> \in reply
    BY <1>4 DEF SetVersionInfo
  <2> QED BY <2>1 DEF Mortal, DiesOnly, Unguarded
<1>5. CASE Release
  <2>1. /\ pc = "release" /\ op' = op
        /\ pc' = "register" \/ (pc' = "version" /\ op = "Ping")
    BY <1>5 DEF Release
  <2> QED BY <2>1 DEF Mortal, DiesOnly
<1>6. CASE \/ Authorizing \/ Blacklisted \/ AuthzThrows \/ OutOfMemory \/ Refuse
           \/ StartCall \/ Encode \/ RefuseParameter
  <2>1. pc \in {"authorize", "encode"} /\ op' = op
        /\ pc' \in {"authorize", "answered", "register", "encode"}
    BY <1>6 DEF Authorizing, synchVars, Blacklisted, AuthzThrows, Decline, OutOfMemory, Refuse,
       StartCall, Perform, Encode, RefuseParameter
  <2> QED BY <2>1 DEF Mortal, DiesOnly
<1>7. CASE Fault \/ Result \/ DecodeStatus \/ DecodeField \/ Decoded \/ Register
  <2>1. /\ pc \in {"call", "status", "fields", "register"} /\ op' = op
        /\ pc' \in {"release", "status", "fields", "answered"}
    BY <1>7 DEF Fault, Result, DecodeStatus, DecodeField, Decoded, Register
  <2> QED BY <2>1 DEF Mortal, DiesOnly
<1>8. CASE Return BY <1>8 DEF Return, Mortal, DiesOnly
<1>9. CASE UNCHANGED vars BY <1>9 DEF vars, synchVars, Mortal, DiesOnly
<1>10. CASE AnswerProtocols
  <2>1. /\ pc = "authorize" /\ pc' \in {"register", "starved"} /\ op' = op
        /\ Operation.kind = "protocols"
    BY <1>10 DEF AnswerProtocols, Perform, Mortal
  <2>2. op = "GetTransferProtocols"
    BY <2>1, OperationKinds DEF Mortal, Operation, Kinds
  <2> QED BY <2>1, <2>2 DEF Mortal, DiesOnly, Unguarded
<1>11. CASE DecodeCrash
  <2>1. pc = "fields" /\ pc' = "starved" /\ op' = op BY <1>11 DEF DecodeCrash
  <2>2. op \in Unguarded BY <1>11, <2>1, DecodeCrashUnguarded DEF Mortal, Truthful
  <2> QED BY <2>1, <2>2 DEF Mortal, DiesOnly
<1> QED BY <1>1, <1>2, <1>3, <1>4, <1>5, <1>6, <1>7, <1>8, <1>9, <1>10, <1>11 DEF SynchNext

(* While there is memory the process dies in no other way than three, and  *)
(* want of memory kills it in the operations of Unguarded only, whatever   *)
(* the requests before were: no log line finds a request without the token *)
(* it prints (request_logger.hpp), and srmGetTransferProtocols never meets *)
(* an empty list (performSanityChecks).                                    *)
THEOREM DeathsKnown == SynchSpec => []DiesOnly
<1>1. SynchInit => Mortal
  BY DEF SynchInit, performSanityChecks, Mortal, DiesOnly
<1>2. Mortal => DiesOnly
  BY DEF Mortal
<1> QED BY <1>1, <1>2, InitBalanced, StepBalanced, InitTruthful, StepTruthful,
           StepMortal, PTL DEF SynchSpec
-------------------------------------------------------------------------------

(* What is told at each place, and what is counted.  A Ping has no status  *)
(* to tell unless it was declined.                                         *)
Said == {"none", "unset"}
Working == {"idle", "authorize"} \cup Forwarding \cup {"register", "dead", "starved"}
Counted ==
  /\ pc # "idle" => op \in DOMAIN Operations
  /\ pc \in {"idle", "authorize"} => told = "none"
  /\ pc \in {"fields", "release", "register"} /\ HasStatus /\ ret = "SOAP_OK" => told \notin Said
  /\ pc \in Forwarding \cup {"register"} /\ ~HasStatus => told = "none"
  /\ pc = "status" => HasStatus
  /\ pc = "version" => ~HasStatus
  /\ pc \in Working => outcomes = <<>>
  /\ ToldAndCounted

(* The codes a request is declined with are not successes.                 *)
LEMMA DeclinedIsNoSuccess ==
  \A o : /\ INVALID_REQUEST \notin SuccessCodes(o)
         /\ "SRM_AUTHORIZATION_FAILURE" \notin SuccessCodes(o)
         /\ "SRM_FAILURE" \notin SuccessCodes(o)
         /\ "SRM_SUCCESS" \in SuccessCodes(o)
  BY DEF SuccessCodes, StatusCodes, INVALID_REQUEST, INTERNAL_ERROR

LEMMA SaidIsNoCode == \A o, c : c \in SuccessCodes(o) \/ c \in StatusCodes => c \notin Said
  BY DEF SuccessCodes, StatusCodes, INVALID_REQUEST, INTERNAL_ERROR, Said

LEMMA Single ==
  ASSUME NEW outcome
  PROVE  Append(<<>>, outcome) = <<outcome>> /\ Len(<<outcome>>) = 1
  OBVIOUS

LEMMA DeclineCounted ==
  ASSUME NEW code, Decline(code), outcomes = <<>>, op' \in DOMAIN Operations,
         code \in {INVALID_REQUEST, "SRM_AUTHORIZATION_FAILURE", "SRM_FAILURE"}
  PROVE  Counted'
<1>1. pc' = "answered" /\ told' = code /\ outcomes' = <<"error">> /\ Len(outcomes') = 1
  BY Single DEF Decline
<1>2. code \notin SuccessCodes(op') /\ code \notin Said
  BY DeclinedIsNoSuccess, SaidIsNoCode DEF StatusCodes
<1>3. outcomes' # <<"success">>
  BY <1>1
<1>4. ToldAndCounted'
  BY <1>1, <1>2, <1>3 DEF ToldAndCounted, Finished, Said
<1> QED BY <1>1, <1>4 DEF Counted, Working, Forwarding

LEMMA RegisterCounted ==
  ASSUME Counted, Register
  PROVE  Counted'
<1> DEFINE outcome == IF ret = "SOAP_OK" /\ Status \in SuccessCodes(op)
                      THEN "success" ELSE "failure"
<1>1. /\ pc = "register" /\ pc' = "answered" /\ UNCHANGED <<op, told, ret>>
      /\ outcomes' = Append(outcomes, outcome)
  BY DEF Register
<1>2. outcomes' = <<outcome>> /\ Len(outcomes') = 1
  BY <1>1, Single DEF Counted, Working
<1>3. outcomes' = <<"success">> <=> ret = "SOAP_OK" /\ Status \in SuccessCodes(op)
  <2>1. CASE ret = "SOAP_OK" /\ Status \in SuccessCodes(op) BY <1>2, <2>1
  <2>2. CASE ~(ret = "SOAP_OK" /\ Status \in SuccessCodes(op)) BY <1>2, <2>2
  <2> QED BY <2>1, <2>2
<1>4. ASSUME ret = "SOAP_OK"
      PROVE  /\ Status \in SuccessCodes(op) <=>
                  told \in SuccessCodes(op) \/ (~HasStatus /\ told = "none")
             /\ HasStatus => told \notin Said
  <2>1. CASE HasStatus
    <3>1. told \notin Said BY <1>1, <1>4, <2>1 DEF Counted
    <3>2. Status = told BY <2>1, <3>1 DEF Status, Said
    <3> QED BY <2>1, <3>1, <3>2
  <2>2. CASE ~HasStatus
    <3>1. told = "none" BY <1>1, <2>2 DEF Counted
    <3>2. Status = "SRM_SUCCESS" BY <2>2 DEF Status
    <3> QED BY <2>2, <3>1, <3>2, DeclinedIsNoSuccess
  <2> QED BY <2>1, <2>2
<1> HIDE DEF outcome
<1>5. ToldAndCounted'
  BY <1>1, <1>2, <1>3, <1>4 DEF ToldAndCounted, Finished, HasStatus, Said
<1> QED BY <1>1, <1>5 DEF Counted, Working, Forwarding

(* A step that counts nothing and keeps what is told, or tells a code.     *)
LEMMA WorkingCounted ==
  ASSUME Counted, UNCHANGED <<op, outcomes>>, pc \in Working, pc # "idle",
         pc' \in Working \ {"idle"},
         pc' = "authorize" => pc = "authorize" /\ told' = told,
         pc' = "status" => HasStatus, pc' = "version" => ~HasStatus,
         ~HasStatus => told' = told /\ (pc \in Forwarding \cup {"authorize", "register"}),
         HasStatus /\ ret' = "SOAP_OK" /\ pc' \in {"fields", "release", "register"} =>
           \/ told' \notin Said
           \/ told' = told /\ ret = "SOAP_OK" /\ pc \in {"fields", "release"}
  PROVE  Counted'
<1>1. HasStatus' = HasStatus BY DEF HasStatus
<1>2. ToldAndCounted' BY DEF ToldAndCounted, Finished, Working, Forwarding
<1>3. ~HasStatus => told = "none" BY DEF Counted
<1> QED BY <1>1, <1>2, <1>3 DEF Counted, Working, Forwarding

LEMMA StepCounted == Counted /\ Truthful /\ [SynchNext]_vars => Counted'
<1> SUFFICES ASSUME Counted, Truthful, [SynchNext]_vars PROVE Counted'
  OBVIOUS
<1>1. ASSUME NEW o \in Ops, Load(o) PROVE Counted'
  <2>1. /\ pc = "idle" /\ op' = o /\ o \in DOMAIN Operations
        /\ pc' \in {"authorize", "dead"} /\ UNCHANGED <<told, outcomes>>
    BY <1>1, SynchAssumption DEF SynchAssumption, Load, Receive
  <2>2. told = "none" /\ outcomes = <<>> BY <2>1 DEF Counted, Working
  <2> QED BY <2>1, <2>2 DEF Counted, Working, Forwarding, ToldAndCounted, Finished
<1>2. ASSUME NEW o \in Ops, LoadThrows(o) PROVE Counted'
  <2>1. pc = "idle" /\ op' = o /\ o \in DOMAIN Operations /\ Decline(INVALID_REQUEST)
    BY <1>2, SynchAssumption DEF SynchAssumption, LoadThrows, Receive
  <2>2. outcomes = <<>> BY <2>1 DEF Counted, Working
  <2> QED BY <2>1, <2>2, DeclineCounted
<1>3. CASE Blacklisted \/ AuthzThrows
  <2>1. /\ pc = "authorize" /\ op' = op
        /\ Decline("SRM_AUTHORIZATION_FAILURE") \/ Decline("SRM_FAILURE")
    BY <1>3 DEF Blacklisted, AuthzThrows
  <2>2. outcomes = <<>> /\ op \in DOMAIN Operations BY <2>1 DEF Counted, Working
  <2> QED BY <2>1, <2>2, DeclineCounted
<1>4. CASE Authorizing
  <2>1. pc = "authorize" /\ UNCHANGED <<op, outcomes, pc, told>>
    BY <1>4 DEF Authorizing, synchVars
  <2> QED BY <2>1, WorkingCounted DEF Working
<1>5. CASE OutOfMemory \/ Crash
  <2>1. /\ pc = "authorize" /\ UNCHANGED <<op, outcomes, told>>
        /\ (pc' = "register" /\ ret' = "SOAP_EOM") \/ pc' = "dead"
    BY <1>5 DEF OutOfMemory, Crash, Perform
  <2> QED BY <2>1, WorkingCounted DEF Working
<1>6. CASE Refuse \/ AnswerProtocols
  <2>1. /\ pc = "authorize" /\ pc' \in {"register", "starved", "dead"}
        /\ UNCHANGED <<op, outcomes>>
        /\ Operation.kind \in {"refuses", "protocols"}
        /\ pc' = "register" =>
             told' \in {"SRM_SUCCESS", "SRM_NOT_SUPPORTED"} \/ ret' = "SOAP_EOM"
    BY <1>6 DEF Refuse, AnswerProtocols, Perform
  <2>2. HasStatus
    BY <2>1, OperationKinds DEF Counted, Operation, Kinds, HasStatus
  <2>3. pc' = "register" => told' \notin Said \/ ret' = "SOAP_EOM" BY <2>1 DEF Said
  <2> QED BY <2>1, <2>2, <2>3, WorkingCounted DEF Working
<1>7. CASE StartCall
  <2>1. /\ pc = "authorize" /\ pc' = "encode" /\ UNCHANGED <<op, outcomes, ret>>
        /\ ~HasStatus => told' = told
    BY <1>7 DEF StartCall, Perform, Tell
  <2> QED BY <2>1, WorkingCounted DEF Working, Forwarding
<1>8. CASE Encode \/ GetClient
  <2>1. /\ pc = "encode" /\ pc' \in {"encode", "call", "dead"} /\ UNCHANGED <<op, outcomes, told>>
    BY <1>8 DEF Encode, GetClient
  <2> QED BY <2>1, WorkingCounted DEF Working, Forwarding
<1>9. CASE RefuseParameter
  <2>1. /\ pc = "encode" /\ pc' = "register" /\ UNCHANGED <<op, outcomes, ret>>
    BY <1>9 DEF RefuseParameter
  <2>2. \E code \in {INVALID_REQUEST, INTERNAL_ERROR} : Tell(code)
    BY <1>9, <2>1, RefusedWith DEF Counted, Truthful
  <2>3. /\ ~HasStatus => told' = told
        /\ HasStatus => told' \notin Said
    BY <2>2 DEF Tell, INVALID_REQUEST, INTERNAL_ERROR, Said
  <2> QED BY <2>1, <2>3, WorkingCounted DEF Working, Forwarding
<1>10. CASE Fault
  <2>1. /\ pc = "call" /\ pc' = "release" /\ UNCHANGED <<op, outcomes, ret>>
        /\ Tell(INTERNAL_ERROR)
    BY <1>10 DEF Fault
  <2>2. /\ ~HasStatus => told' = told
        /\ HasStatus => told' \notin Said
    BY <2>1 DEF Tell, INTERNAL_ERROR, Said
  <2> QED BY <2>1, <2>2, WorkingCounted DEF Working, Forwarding
<1>11. CASE Result
  <2>1. /\ pc = "call" /\ pc' = (IF HasStatus THEN "status" ELSE "fields")
        /\ UNCHANGED <<op, outcomes, ret, told>>
    BY <1>11 DEF Result
  <2> QED BY <2>1, WorkingCounted DEF Working, Forwarding
<1>12. CASE DecodeStatus
  <2>1. /\ pc = "status" /\ pc' \in {"fields", "release"} /\ UNCHANGED <<op, outcomes, ret>>
    BY <1>12 DEF DecodeStatus
  <2>2. told' \in BackendCodes \/ told' = INTERNAL_ERROR
    BY <1>12 DEF DecodeStatus
  <2>3. told' \notin Said
    BY <2>2, SaidIsNoCode, SynchAssumption DEF SynchAssumption, StatusCodes
  <2>4. HasStatus
    BY <2>1 DEF Counted
  <2> QED BY <2>1, <2>3, <2>4, WorkingCounted DEF Working, Forwarding
<1>13. CASE DecodeField
  <2>1. /\ pc = "fields" /\ pc' \in {"fields", "release"} /\ UNCHANGED <<op, outcomes, ret>>
        /\ told' = told \/ Tell(INTERNAL_ERROR)
    BY <1>13 DEF DecodeField
  <2>2. /\ ~HasStatus => told' = told
        /\ told' = told \/ told' \notin Said
    BY <2>1 DEF Tell, INTERNAL_ERROR, Said
  <2> QED BY <2>1, <2>2, WorkingCounted DEF Working, Forwarding
<1>14. CASE DecodeCrash \/ Decoded \/ Release
  <2>1. /\ pc \in {"fields", "release"} /\ pc' \in {"release", "version", "register", "starved"}
        /\ pc' = "version" => ~HasStatus
        /\ UNCHANGED <<op, outcomes, ret, told>>
    BY <1>14 DEF DecodeCrash, Decoded, Release, HasStatus
  <2> QED BY <2>1, WorkingCounted DEF Working, Forwarding
<1>15. CASE SetVersionInfo
  <2>1. /\ pc = "version" /\ pc' \in {"register", "dead", "starved"}
        /\ UNCHANGED <<op, outcomes, told>>
    BY <1>15 DEF SetVersionInfo
  <2>2. ~HasStatus BY <2>1 DEF Counted
  <2> QED BY <2>1, <2>2, WorkingCounted DEF Working, Forwarding
<1>16. CASE Register BY <1>16, RegisterCounted
<1>17. CASE Return
  BY <1>17 DEF Return, Counted, Working, Forwarding, ToldAndCounted, Finished
<1>18. CASE UNCHANGED vars
  BY <1>18 DEF vars, synchVars, Counted, ToldAndCounted, Finished, HasStatus
<1> QED BY <1>1, <1>2, <1>3, <1>4, <1>5, <1>6, <1>7, <1>8, <1>9, <1>10, <1>11, <1>12, <1>13,
           <1>14, <1>15, <1>16, <1>17, <1>18 DEF SynchNext

(* Every request is counted once, and as a success only if its client got  *)
(* a status that is one; a response that is sent has a status              *)
(* (handle_request of synch.cpp, registerOperation of the monitors).       *)
THEOREM CountedAsTold == SynchSpec => []ToldAndCounted
<1>1. SynchInit => Counted
  BY DEF SynchInit, Counted, Working, Forwarding, ToldAndCounted, Finished
<1>2. Counted => ToldAndCounted
  BY DEF Counted
<1> QED BY <1>1, <1>2, InitTruthful, StepTruthful, StepCounted, PTL DEF SynchSpec
-------------------------------------------------------------------------------

(* As long as the status is the backend's, every field it sent well formed *)
(* is in the response.                                                     *)
Early == {"idle", "authorize", "encode", "call", "status"}
FieldsKept ==
  HasStatus /\ told = answered /\ answered # INTERNAL_ERROR =>
    \A name \in sent : <<name, "good">> \in reply
Complete == (pc \in Early => sent = {}) /\ FieldsKept

LEMMA NothingSent == sent' = {} => Complete'
  BY DEF Complete, FieldsKept

LEMMA QuietComplete ==
  ASSUME Complete, UNCHANGED <<op, sent, reply, told, answered>>,
         pc' \in Early => pc \in Early
  PROVE  Complete'
  BY DEF Complete, FieldsKept, HasStatus

LEMMA FieldComplete ==
  ASSUME Complete, Truthful, DecodeField
  PROVE  Complete'
<1> DEFINE field == Operation.decodes[i]
<1>1. /\ pc = "fields" /\ i <= Len(Operation.decodes) /\ UNCHANGED <<op, answered>>
      /\ i \in Nat \ {0} /\ op \in DOMAIN Operations
  BY DEF DecodeField, Truthful
<1>2. field \in Fields
  <2>1. Operation.decodes \in Seq(Fields) BY <1>1, OperationsDecode DEF Operation
  <2>2. i \in 1 .. Len(Operation.decodes) BY <1>1, <2>1
  <2> QED BY <2>1, <2>2
<1>3. field.decode \in Decoders BY <1>2 DEF Fields
<1>4. PICK class \in DOMAIN field.decode : \E outcome \in field.decode[class] \ {"crash"} :
          /\ sent' = IF class = "good" THEN sent \cup {field.name} ELSE sent
          /\ reply' = IF outcome = "done" THEN reply \cup {<<field.name, class>>} ELSE reply
          /\ IF outcome \in {"done", "notfound"}
             THEN UNCHANGED <<told, pc>> ELSE Tell(INTERNAL_ERROR) /\ pc' = "release"
  BY DEF DecodeField
<1>5. PICK outcome \in field.decode[class] \ {"crash"} :
          /\ sent' = IF class = "good" THEN sent \cup {field.name} ELSE sent
          /\ reply' = IF outcome = "done" THEN reply \cup {<<field.name, class>>} ELSE reply
          /\ IF outcome \in {"done", "notfound"}
             THEN UNCHANGED <<told, pc>> ELSE Tell(INTERNAL_ERROR) /\ pc' = "release"
  BY <1>4
<1>6. class = "good" => outcome # "notfound"
  BY <1>3, DecodersFind
<1> HIDE DEF field
<1>7. pc' \notin Early
  BY <1>1, <1>5 DEF Early
<1>8. CASE outcome \in {"done", "notfound"}
  <2>1. told' = told /\ (outcome = "notfound" => sent' = sent /\ reply' = reply)
    BY <1>5, <1>6, <1>8
  <2>2. CASE outcome = "notfound"
    BY <1>1, <1>7, <2>1, <2>2 DEF Complete, FieldsKept, HasStatus
  <2>3. CASE outcome = "done"
    <3>1. sent' \subseteq sent \cup {field.name} /\ reply' = reply \cup {<<field.name, class>>}
          /\ (sent' = sent \/ class = "good")
      BY <1>5, <2>3
    <3> QED BY <1>1, <1>7, <2>1, <3>1 DEF Complete, FieldsKept, HasStatus
  <2> QED BY <1>8, <2>2, <2>3
<1>9. CASE outcome \notin {"done", "notfound"}
  <2>1. HasStatus => told' = INTERNAL_ERROR BY <1>5, <1>9 DEF Tell
  <2> QED BY <1>1, <1>7, <2>1 DEF Complete, FieldsKept, HasStatus
<1> QED BY <1>8, <1>9

LEMMA StepComplete == Complete /\ Truthful /\ [SynchNext]_vars => Complete'
<1> SUFFICES ASSUME Complete, Truthful, [SynchNext]_vars PROVE Complete'
  OBVIOUS
<1>1. CASE \E o \in Ops : Load(o) \/ LoadThrows(o)
  <2>1. pc = "idle" BY <1>1 DEF Load, LoadThrows, Receive
  <2>2. sent = {} BY <2>1 DEF Complete, Early
  <2> QED BY <1>1, <2>2, NothingSent DEF Load, LoadThrows, Receive
<1>2. CASE \/ Authorizing \/ Blacklisted \/ AuthzThrows \/ OutOfMemory \/ Refuse \/ AnswerProtocols
           \/ Crash \/ StartCall \/ Encode \/ RefuseParameter \/ GetClient
  <2>1. pc \in {"authorize", "encode"} /\ sent' = sent
    BY <1>2 DEF Authorizing, synchVars, Blacklisted, AuthzThrows, OutOfMemory, Refuse,
       AnswerProtocols, Crash, StartCall, Perform, Encode, RefuseParameter, GetClient
  <2> QED BY <2>1, NothingSent DEF Complete, Early
<1>3. CASE Fault \/ Result \/ DecodeStatus
  <2>1. pc \in {"call", "status"} /\ sent' = sent
    BY <1>3 DEF Fault, Result, DecodeStatus
  <2> QED BY <2>1, NothingSent DEF Complete, Early
<1>4. CASE DecodeField BY <1>4, FieldComplete
<1>5. CASE DecodeCrash \/ Decoded \/ Release \/ SetVersionInfo \/ Register
  <2>1. /\ UNCHANGED <<op, sent, reply, told, answered>>
        /\ pc' \in {"release", "version", "register", "answered", "dead", "starved"}
    BY <1>5 DEF DecodeCrash, Decoded, Release, SetVersionInfo, Register
  <2> QED BY <2>1, QuietComplete DEF Early
<1>6. CASE Return BY <1>6, NothingSent DEF Return
<1>7. CASE UNCHANGED vars BY <1>7, QuietComplete DEF vars, synchVars
<1> QED BY <1>1, <1>2, <1>3, <1>4, <1>5, <1>6, <1>7 DEF SynchNext

(* A response with the status of the backend has every well formed field   *)
(* of its answer, whichever operation it is of (the rpcResponseHandler     *)
(* functions).                                                             *)
THEOREM RepliesComplete == SynchSpec => []ReplyComplete
<1>1. SynchInit => Complete
  BY DEF SynchInit, Complete, FieldsKept
<1>2. Complete => ReplyComplete
  BY DEF Complete, FieldsKept, ReplyComplete
<1> QED BY <1>1, <1>2, InitTruthful, StepTruthful, StepComplete, PTL DEF SynchSpec
-------------------------------------------------------------------------------

(* An encoder that says "done" has put the parameter in, puts in nothing   *)
(* of a class it should have refused, and never misses a good one.         *)
Improper == {"null", "noarray", "empty", "invalid"}
Proper(class) == class \notin Improper /\ (CheckAscii => class # "notascii")
Faithful(class, outcome) ==
  /\ outcome.ret = "done" => outcome.put
  /\ outcome.put => Proper(class)
  /\ class = "good" => outcome.ret # "missing"

LEMMA EncoderFaithful ==
  ASSUME NEW classes, NEW missing, NEW refused,
         "good" \notin missing, classes \cap Improper \subseteq missing \cup refused,
         NEW class \in classes, NEW outcome \in Encoder(classes, missing, refused)[class]
  PROVE  Faithful(class, outcome)
<1>1. outcome \in CASE class \in missing -> {Missing}
                    [] class \in refused -> {Failed}
                    [] ~IsASCII(class) -> {Failed}
                    [] OTHER -> {Done}
  BY DEF Encoder
<1>2. CASE class \in missing
  <2>1. class # "good" BY <1>2
  <2>2. outcome \in {Missing, Failed}
    BY <1>1, <1>2 DEF Missing, Failed, Done
  <2> QED BY <2>1, <2>2 DEF Missing, Failed, Faithful
<1>3. CASE class \notin missing /\ (class \in refused \/ ~IsASCII(class))
  <2>1. outcome = Failed BY <1>1, <1>3
  <2> QED BY <2>1 DEF Failed, Faithful
<1>4. CASE class \notin missing /\ class \notin refused /\ IsASCII(class)
  <2>1. outcome = Done BY <1>1, <1>4
  <2>2. Proper(class) BY <1>4 DEF Proper, IsASCII
  <2> QED BY <2>1, <2>2 DEF Done, Faithful
<1> QED BY <1>2, <1>3, <1>4

LEMMA SoundFaithful ==
  ASSUME NEW e \in SoundEncoders, NEW class \in DOMAIN e, NEW outcome \in e[class]
  PROVE  Faithful(class, outcome)
<1> DEFINE Fine(classes, missing, refused) ==
      /\ "good" \notin missing /\ classes \cap Improper \subseteq missing \cup refused
      /\ e = Encoder(classes, missing, refused)
<1>1. ASSUME NEW classes, NEW missing, NEW refused, Fine(classes, missing, refused)
      PROVE  Faithful(class, outcome)
  <2>1. DOMAIN e = classes BY <1>1 DEF Encoder
  <2> QED BY <1>1, <2>1, EncoderFaithful
<1>2. CASE e \in {encode_lifetimeValue, encode_int, encode_bool, encode_ULONG64,
                   encode_retentionPolicyInfo}
  <2>1. Fine(Pointer, {"null"}, {})
    BY <1>2 DEF Pointer, Improper, encode_lifetimeValue, encode_int, encode_bool, encode_ULONG64,
       encode_retentionPolicyInfo
  <2> QED BY <1>1, <2>1
<1>3. CASE e \in {encode_userSpaceTokenDescription, encode_string}
  <2>1. Fine(Pointer \cup {"notascii"}, {"null"}, {})
    BY <1>3 DEF Pointer, Improper, encode_userSpaceTokenDescription, encode_string
  <2> QED BY <1>1, <2>1
<1>4. CASE e = encode_surl
  <2>1. Fine(Pointer \cup {"notascii", "invalid"}, {"null"}, {"invalid"})
    BY <1>4 DEF Pointer, Improper, encode_surl
  <2> QED BY <1>1, <2>1
<1>5. CASE e = encode_arrayOfString
  <2>1. Fine(Pointer \cup {"empty", "noarray", "notascii"}, {"null", "empty"}, {"noarray"})
    BY <1>5 DEF Pointer, Improper, encode_arrayOfString
  <2> QED BY <1>1, <2>1
<1>6. CASE e = encode_arrayOfUnsignedLong
  <2>1. Fine(Pointer \cup {"empty"}, {"null", "empty"}, {})
    BY <1>6 DEF Pointer, Improper, encode_arrayOfUnsignedLong
  <2> QED BY <1>1, <2>1
<1>7. CASE e = encode_ArrayOfAnyURI
  <2>1. Fine(Pointer \cup {"empty", "noarray", "notascii", "invalid"},
             {"null", "noarray"}, {"empty", "invalid"})
    BY <1>7 DEF Pointer, Improper, encode_ArrayOfAnyURI
  <2> QED BY <1>1, <2>1
<1>8. CASE e = encode_ArrayOfTExtraInfo
  <2>1. Fine(Pointer \cup {"empty", "notascii"}, {"null", "empty"}, {})
    BY <1>8 DEF Pointer, Improper, encode_ArrayOfTExtraInfo
  <2> QED BY <1>1, <2>1
<1>9. CASE e = encode_VOMSAttributes
  <2>1. Fine({"noarray", "good"}, {}, {"noarray"})
    BY <1>9 DEF Improper, encode_VOMSAttributes
  <2> QED BY <1>1, <2>1
<1> QED BY <1>2, <1>3, <1>4, <1>5, <1>6, <1>7, <1>8, <1>9 DEF SoundEncoders

(* What the structure holds once the parameters before the i-th are        *)
(* encoded, and all of it when the backend is called.                      *)
Resting == {"idle", "authorize"}
Sendable == Operation.sends
Passed(k) ==
  Sendable[k].name \notin Exempt =>
    /\ Sendable[k].name \in DOMAIN req
    /\ req[Sendable[k].name] = "good" => Sendable[k].name \in inputParam
    /\ Sendable[k].missing # "goOn" => Sendable[k].name \in inputParam
Classed == \A name \in DOMAIN req \ Exempt : req[name] \in ClassesOf(name)
Clean == \A name \in inputParam \ Exempt : name \in DOMAIN req /\ Proper(req[name])
Carried ==
  /\ pc # "idle" => op \in DOMAIN Operations
  /\ pc \in Resting => i = 1 /\ inputParam = {}
  /\ pc = "encode" => i \in Nat \ {0} /\ \A k \in DOMAIN Sendable : k < i => Passed(k)
  /\ pc = "call" => \A k \in DOMAIN Sendable : Passed(k)
  /\ pc \in {"encode", "call"} => Clean
  /\ pc \in {"authorize", "encode"} => Classed

(* What load() lets through are classes the encoders know.                 *)
Loads(r) == \A p \in r.load : \A name \in DOMAIN p : p[name] \in Given(name) /\ name # "VOMS"

LEMMA RequestsGiven == \A o \in DOMAIN Operations : Loads(Operations[o])
<1> USE DEF Loads, Class, Valid, NullOrValid, ValidSurl, Pointer, Given
<1>1. Loads(MkdirRequest) /\ Loads(RmdirRequest) /\ Loads(SetPermissionRequest)
  BY DEF MkdirRequest, RmdirRequest, SetPermissionRequest
<1>2. Loads(RmRequest) /\ Loads(LsRequest) /\ Loads(CheckPermissionRequest)
      /\ Loads(GetPermissionRequest)
  BY DEF RmRequest, LsRequest, CheckPermissionRequest, GetPermissionRequest
<1>3. Loads(StatusLsRequest) /\ Loads(StatusReserveSpaceRequest)
      /\ Loads(StatusUpdateSpaceRequest) /\ Loads(StatusChangeSpaceForFilesRequest)
  BY DEF StatusLsRequest, StatusReserveSpaceRequest, StatusUpdateSpaceRequest,
     StatusChangeSpaceForFilesRequest
<1>4. Loads(AbortRequestRequest) /\ Loads(SuspendRequestRequest) /\ Loads(ResumeRequestRequest)
  BY DEF AbortRequestRequest, SuspendRequestRequest, ResumeRequestRequest
<1>5. Loads(MvRequest) BY DEF MvRequest
<1>6. Loads(ReserveSpaceRequest) BY DEF ReserveSpaceRequest
<1>7. Loads(ReleaseSpaceRequest) /\ Loads(UpdateSpaceRequest) /\ Loads(GetSpaceMetaDataRequest)
      /\ Loads(GetSpaceTokensRequest)
  BY DEF ReleaseSpaceRequest, UpdateSpaceRequest, GetSpaceMetaDataRequest, GetSpaceTokensRequest
<1>8. Loads(ChangeSpaceForFilesRequest) BY DEF ChangeSpaceForFilesRequest
<1>9. Loads(ExtendFileLifeTimeInSpaceRequest) /\ Loads(PurgeFromSpaceRequest)
  BY DEF ExtendFileLifeTimeInSpaceRequest, PurgeFromSpaceRequest
<1>10. Loads(ReleaseFilesRequest) BY DEF ReleaseFilesRequest
<1>11. Loads(PutDoneRequest) /\ Loads(AbortFilesRequest) BY DEF PutDoneRequest, AbortFilesRequest
<1>12. Loads(ExtendFileLifeTimeRequest) BY DEF ExtendFileLifeTimeRequest
<1>13. Loads(GetTransferProtocolsRequest) /\ Loads(PingRequest)
  BY DEF GetTransferProtocolsRequest, PingRequest, NoParameters
<1> HIDE DEF Loads
<1> QED BY <1>1, <1>2, <1>3, <1>4, <1>5, <1>6, <1>7, <1>8, <1>9, <1>10, <1>11, <1>12, <1>13
        DEF Operations

LEMMA EncodeCarried ==
  ASSUME Carried, Encode
  PROVE  Carried'
<1> DEFINE p == Sendable[i]
<1>1. pc = "encode" /\ i <= Len(Sendable) /\ i' = i + 1 /\ UNCHANGED <<op, pc>>
  BY DEF Encode, Sendable
<1>2. op \in DOMAIN Operations /\ i \in Nat \ {0} /\ Sendable \in Seq(Parameters)
  BY <1>1, OperationsAnswer DEF Carried, Answers, Operation, Sendable
<1>3. i \in DOMAIN Sendable /\ p \in Parameters /\ Sendable' = Sendable
  BY <1>1, <1>2 DEF Sendable, Operation
<1>4. PICK class \in Classes(p) : \E outcome \in p.encode[class] :
        EncodeParameter(p, class, outcome) /\ Reaction(p, outcome) = "goOn"
  BY DEF Encode, Sendable
<1>5. PICK outcome \in p.encode[class] :
        EncodeParameter(p, class, outcome) /\ Reaction(p, outcome) = "goOn"
  BY <1>4
<1>6. /\ DOMAIN req' = {p.name} \cup DOMAIN req /\ req'[p.name] = class
      /\ \A name \in DOMAIN req : name # p.name => req'[name] = req[name]
      /\ inputParam' = inputParam \cup (IF outcome.put THEN {p.name} ELSE {})
  BY <1>5 DEF EncodeParameter
<1>7. p.name \in DOMAIN req => class = req[p.name]
  BY <1>4 DEF Classes
<1>8. p.name \notin Exempt => class \in DOMAIN p.encode /\ DOMAIN p.encode = ClassesOf(p.name)
  <2> SUFFICES ASSUME p.name \notin Exempt
               PROVE  class \in DOMAIN p.encode /\ DOMAIN p.encode = ClassesOf(p.name)
    OBVIOUS
  <2>1. DOMAIN p.encode = ClassesOf(p.name) BY <1>3 DEF Parameters
  <2>2. CASE p.name \in DOMAIN req
    BY <1>1, <1>7, <2>1, <2>2 DEF Carried, Classed
  <2>3. CASE p.name \notin DOMAIN req BY <1>4, <2>1, <2>3 DEF Classes
  <2> QED BY <2>1, <2>2, <2>3
<1>9. \A name \in DOMAIN req : name \in DOMAIN req' /\ req'[name] = req[name]
  BY <1>6, <1>7
<1>10. ASSUME p.name \notin Exempt
       PROVE  /\ outcome.put => Proper(class)
              /\ class = "good" \/ p.missing # "goOn" => outcome.put
  <2>1. p.encode \in SoundEncoders /\ p.error # "goOn" BY <1>3, <1>10 DEF Parameters
  <2>2. class \in DOMAIN p.encode BY <1>8, <1>10
  <2>3. Faithful(class, outcome) BY <1>5, <2>1, <2>2, SoundFaithful
  <2>4. outcome.ret = "done" \/ (outcome.ret = "missing" /\ p.missing = "goOn")
    BY <1>5, <2>1 DEF Reaction
  <2> QED BY <2>3, <2>4 DEF Faithful
<1>11. Clean'
  <2> SUFFICES ASSUME NEW name \in inputParam' \ Exempt
               PROVE  name \in DOMAIN req' /\ Proper(req'[name])
    BY DEF Clean
  <2>1. CASE name \in inputParam
    <3>1. name \in DOMAIN req /\ Proper(req[name]) BY <1>1, <2>1 DEF Carried, Clean
    <3> QED BY <1>9, <3>1 DEF Proper
  <2>2. CASE name \notin inputParam
    <3>1. name = p.name /\ outcome.put BY <1>6, <2>2
    <3>2. p.name \notin Exempt BY <3>1
    <3>3. outcome.put => Proper(class) BY <1>10, <3>2
    <3>4. outcome.put BY <3>1
    <3>5. Proper(class) BY <3>3, <3>4
    <3>6. name \in DOMAIN req' /\ req'[name] = class BY <1>6, <3>1
    <3> QED BY <3>5, <3>6
  <2> QED BY <2>1, <2>2
<1>12. Classed' BY <1>1, <1>6, <1>8, <1>9 DEF Carried, Classed
<1>13. ASSUME NEW k \in DOMAIN Sendable, k < i + 1 PROVE Passed(k)'
  <2>1. CASE k = i BY <1>3, <1>6, <1>10, <2>1 DEF Passed
  <2>2. CASE k < i
    <3>1. Passed(k) BY <1>1, <2>2 DEF Carried
    <3> QED BY <1>3, <1>6, <1>9, <3>1 DEF Passed
  <2> QED BY <1>2, <1>13, <2>1, <2>2
<1> QED BY <1>1, <1>2, <1>3, <1>11, <1>12, <1>13 DEF Carried, Resting

LEMMA StepCarried == Carried /\ [SynchNext]_vars => Carried'
<1> SUFFICES ASSUME Carried, [SynchNext]_vars PROVE Carried'
  OBVIOUS
<1> USE DEF Resting
<1>1. CASE \E o \in Ops : Load(o) \/ LoadThrows(o)
  <2>1. PICK o \in Ops : Load(o) \/ LoadThrows(o) BY <1>1
  <2>2. /\ o \in DOMAIN Operations /\ op' = o /\ pc = "idle" /\ UNCHANGED <<i, inputParam>>
    BY <2>1, SynchAssumption DEF SynchAssumption, Load, LoadThrows, Receive
  <2>3. i' = 1 /\ inputParam' = {} BY <2>2 DEF Carried
  <2>4. CASE Load(o)
    <3>1. req' \in Operations[o].load /\ pc' \in {"authorize", "dead"} BY <2>4 DEF Load
    <3>2. Classed' BY <2>2, <3>1, RequestsGiven DEF Loads, Classed, ClassesOf
    <3> QED BY <2>2, <2>3, <3>1, <3>2 DEF Carried
  <2>5. CASE LoadThrows(o)
    <3>1. pc' = "answered" BY <2>5 DEF LoadThrows, Decline
    <3> QED BY <2>2, <3>1 DEF Carried
  <2> QED BY <2>1, <2>4, <2>5
<1>2. CASE Authorizing \/ UNCHANGED vars
  <2>1. UNCHANGED synchVars BY <1>2 DEF Authorizing, vars
  <2> QED BY <2>1 DEF synchVars, Carried, Clean, Classed, Passed, Sendable, Operation
<1>3. CASE StartCall
  <2>1. /\ pc = "authorize" /\ pc' = "encode" /\ UNCHANGED <<op, i, req, inputParam>>
    BY <1>3 DEF StartCall, Perform
  <2>2. i' = 1 /\ inputParam' = {} /\ op' \in DOMAIN Operations /\ Classed'
    BY <2>1 DEF Carried, Classed
  <2>3. Sendable' \in Seq(Parameters)
    BY <2>2, OperationsAnswer DEF Answers, Operation, Sendable
  <2>4. \A k \in DOMAIN Sendable' : ~(k < i') BY <2>2, <2>3
  <2> QED BY <2>1, <2>2, <2>4 DEF Carried, Clean
<1>4. CASE Encode BY <1>4, EncodeCarried
<1>5. CASE GetClient
  <2>1. /\ pc = "encode" /\ pc' \in {"call", "dead"} /\ i > Len(Sendable)
        /\ UNCHANGED <<op, i, req, inputParam>>
    BY <1>5 DEF GetClient, Sendable
  <2>2. Sendable \in Seq(Parameters) /\ i \in Nat /\ op \in DOMAIN Operations
    BY <2>1, OperationsAnswer DEF Carried, Answers, Operation, Sendable
  <2>3. \A k \in DOMAIN Sendable : Passed(k) BY <2>1, <2>2 DEF Carried
  <2>4. \A k \in DOMAIN Sendable' : Passed(k)' BY <2>1, <2>3 DEF Passed, Sendable, Operation
  <2>5. Clean' BY <2>1 DEF Carried, Clean
  <2> QED BY <2>1, <2>2, <2>4, <2>5 DEF Carried
<1>6. CASE \/ Blacklisted \/ AuthzThrows \/ OutOfMemory \/ Refuse \/ Crash \/ AnswerProtocols
           \/ RefuseParameter \/ Fault \/ Result \/ DecodeStatus \/ DecodeField \/ DecodeCrash
           \/ Decoded \/ Release \/ SetVersionInfo \/ Register
  <2>1. /\ pc # "idle" /\ op' = op
        /\ pc' \notin {"idle", "authorize", "encode", "call"}
    BY <1>6 DEF Blacklisted, AuthzThrows, Decline, OutOfMemory, Refuse, Crash, AnswerProtocols,
       Perform, RefuseParameter, Fault, Result, DecodeStatus, DecodeField, DecodeCrash, Decoded,
       Release, SetVersionInfo, Register
  <2> QED BY <2>1 DEF Carried
<1>7. CASE Return BY <1>7 DEF Return, Carried
<1> QED BY <1>1, <1>2, <1>3, <1>4, <1>5, <1>6, <1>7 DEF SynchNext

(* The backend is called with every well formed parameter the client gave  *)
(* and every one that is required, and with none the codec should have     *)
(* refused, whichever operation it is (the _impl functions).               *)
THEOREM CallsCarryRequests == SynchSpec => []CallCarriesTheRequest
<1>1. SynchInit => Carried
  BY DEF SynchInit, Carried, Resting
<1>2. Carried => CallCarriesTheRequest
  BY DEF Carried, Passed, Clean, Sendable, Exempt, Proper, Improper, CallCarriesTheRequest
<1> QED BY <1>1, <1>2, StepCarried, PTL DEF SynchSpec
-------------------------------------------------------------------------------

(* Type correctness, with what the place in the code says of the loop      *)
(* index and with the operation being one of the table.                    *)
Loops == {"encode", "call", "status", "fields"}
Indexed ==
  /\ pc = "status" => i = 1
  /\ pc \in {"encode", "call"} => i <= Len(Operation.sends) + 1
  /\ pc = "fields" => i <= Len(Operation.decodes) + 1
Counts == n \in 0 .. MaxRequests /\ i \in Nat \ {0} /\ Indexed
Locals ==
  /\ op \in Ops \cup {"none"} /\ (pc # "idle" => op \in Ops)
  /\ pc \in AtRest \cup Forwarding \cup {"dead", "starved"}
  /\ told \in {"none", "unset"} \cup StatusCodes
  /\ answered \in {"none"} \cup BackendCodes
  /\ ret \in {"SOAP_OK", "SOAP_EOM"}
  /\ client \in BOOLEAN /\ supported \in BOOLEAN
AuthzTyped ==
  /\ userCheck \in BOOLEAN /\ permitted \in BOOLEAN
  /\ pep \in {"none", "half", "ready"}
  /\ authz \in {"start", "make", "ask", "send", "throws", "false", "true"}
RequestTyped == Counts /\ Locals /\ AuthzTyped

LEMMA StepAuthzTyped == AuthzTyped /\ [SynchNext]_vars => AuthzTyped'
<1> SUFFICES ASSUME AuthzTyped, [SynchNext]_vars PROVE AuthzTyped'
  OBVIOUS
<1>1. CASE IsBlacklisted
  BY <1>1 DEF IsBlacklisted, CheckDisabled, GetPem, MakePep, CreateRequest, AuthorizeFails,
     Authorize, AuthzTyped
<1>2. CASE NewCheck BY <1>2 DEF NewCheck, AuthzTyped
<1>3. CASE UNCHANGED authzVars BY <1>3 DEF authzVars, AuthzTyped
<1>4. IsBlacklisted \/ NewCheck \/ UNCHANGED authzVars
  BY DEF SynchNext, vars, Load, LoadThrows, Receive, Authorizing, Blacklisted, AuthzThrows,
     OutOfMemory, Refuse, Crash, AnswerProtocols, StartCall, Encode, RefuseParameter, GetClient,
     Fault, Result, DecodeStatus, DecodeField, DecodeCrash, Decoded, Release, SetVersionInfo,
     Register, Return
<1> QED BY <1>1, <1>2, <1>3, <1>4

(* The steps that leave the loops and the number of requests alone.        *)
LEMMA CountsKept ==
  ASSUME Counts, UNCHANGED <<n, i>>, pc' \notin Loops \/ UNCHANGED <<op, pc>>
  PROVE  Counts'
  BY DEF Counts, Indexed, Loops, Operation

LEMMA StepCounts == Counts /\ Locals /\ Carried /\ [SynchNext]_vars => Counts'
<1> SUFFICES ASSUME Counts, Locals, Carried, [SynchNext]_vars PROVE Counts'
  OBVIOUS
<1>s. op \in Ops => Operation.sends \in Seq(Parameters) /\ Operation.decodes \in Seq(Fields)
  BY SynchAssumption, OperationsAnswer, OperationsDecode DEF SynchAssumption, Answers, Operation
<1>1. CASE \E o \in Ops : Load(o) \/ LoadThrows(o)
  <2>1. /\ n < MaxRequests /\ n' = n + 1 /\ i' = i
        /\ pc' \in {"authorize", "dead", "answered"}
    BY <1>1 DEF Load, LoadThrows, Receive, Decline
  <2>2. n' \in 0 .. MaxRequests BY <2>1, SynchAssumption DEF SynchAssumption, Counts
  <2> QED BY <2>1, <2>2 DEF Counts, Indexed
<1>2. CASE StartCall
  <2>1. pc' = "encode" /\ UNCHANGED <<n, op, i>> /\ pc = "authorize"
    BY <1>2 DEF StartCall, Perform
  <2>2. i = 1 /\ op \in Ops BY <2>1 DEF Carried, Resting, Locals
  <2>3. Len(Operation.sends) \in Nat BY <1>s, <2>2
  <2> QED BY <2>1, <2>2, <2>3 DEF Counts, Indexed, Operation
<1>3. CASE Encode
  <2>1. /\ pc = "encode" /\ UNCHANGED <<n, op, pc>> /\ i' = i + 1
        /\ i <= Len(Operation.sends)
    BY <1>3 DEF Encode
  <2>2. Len(Operation.sends) \in Nat BY <1>s, <2>1 DEF Locals
  <2> QED BY <2>1, <2>2 DEF Counts, Indexed, Operation
<1>4. CASE GetClient
  <2>1. pc = "encode" /\ UNCHANGED <<n, op, i>> /\ pc' \in {"call", "dead"}
    BY <1>4 DEF GetClient
  <2> QED BY <2>1 DEF Counts, Indexed, Operation
<1>5. CASE Result
  <2>1. /\ pc = "call" /\ UNCHANGED <<n, op>> /\ i' = 1 /\ pc' \in {"status", "fields"}
    BY <1>5 DEF Result
  <2>2. Len(Operation.decodes) \in Nat BY <1>s, <2>1 DEF Locals
  <2> QED BY <2>1, <2>2 DEF Counts, Indexed, Operation
<1>6. CASE DecodeStatus
  <2>1. /\ pc = "status" /\ UNCHANGED <<n, op, i>> /\ pc' \in {"fields", "release"}
    BY <1>6 DEF DecodeStatus
  <2>2. Len(Operation.decodes) \in Nat BY <1>s, <2>1 DEF Locals
  <2>3. i = 1 BY <2>1 DEF Counts, Indexed
  <2> QED BY <2>1, <2>2, <2>3 DEF Counts, Indexed, Operation
<1>7. CASE DecodeField
  <2>1. /\ pc = "fields" /\ UNCHANGED <<n, op>> /\ i' = i + 1 /\ i <= Len(Operation.decodes)
        /\ pc' \in {"fields", "release"}
    BY <1>7 DEF DecodeField
  <2>2. Len(Operation.decodes) \in Nat BY <1>s, <2>1 DEF Locals
  <2> QED BY <2>1, <2>2 DEF Counts, Indexed, Operation
<1>8. CASE Return BY <1>8 DEF Return, Counts, Indexed
<1>9. CASE \/ Blacklisted \/ AuthzThrows \/ OutOfMemory \/ Refuse \/ Crash \/ AnswerProtocols
           \/ RefuseParameter \/ Fault \/ DecodeCrash \/ Decoded \/ Release
           \/ SetVersionInfo \/ Register
  <2>1. UNCHANGED <<n, i>> /\ pc' \notin Loops
    BY <1>9 DEF Blacklisted, AuthzThrows, Decline, OutOfMemory, Refuse, Crash, AnswerProtocols,
       RefuseParameter, Fault, DecodeCrash, Decoded, Release, SetVersionInfo, Register, Loops
  <2> QED BY <2>1, CountsKept
<1>10. CASE Authorizing \/ UNCHANGED vars
  BY <1>10, CountsKept DEF Authorizing, vars, synchVars
<1> QED BY <1>1, <1>2, <1>3, <1>4, <1>5, <1>6, <1>7, <1>8, <1>9, <1>10 DEF SynchNext

(* What is told is a status code, whatever tells it.                       *)
LEMMA TellTyped ==
  ASSUME Locals, NEW code \in {"unset"} \cup StatusCodes, Tell(code)
  PROVE  told' \in {"none", "unset"} \cup StatusCodes
  BY DEF Tell, Locals

LEMMA CodesKnown ==
  {INVALID_REQUEST, INTERNAL_ERROR, "SRM_AUTHORIZATION_FAILURE", "SRM_FAILURE",
   "SRM_NOT_SUPPORTED", "SRM_SUCCESS"} \subseteq StatusCodes
  BY DEF StatusCodes, INVALID_REQUEST, INTERNAL_ERROR

LEMMA StepLocals == Locals /\ Counts /\ [SynchNext]_vars => Locals'
<1> SUFFICES ASSUME Locals, Counts, [SynchNext]_vars PROVE Locals'
  OBVIOUS
<1> DEFINE Places == AtRest \cup Forwarding \cup {"dead", "starved"}
<1> DEFINE Codes == {"none", "unset"} \cup StatusCodes
<1>o. Places = {"idle", "authorize", "version", "register", "answered", "encode", "call",
                "status", "fields", "release", "dead", "starved"}
  BY DEF AtRest, Forwarding
<1> HIDE DEF Places
<1> USE DEF Locals
<1>1. CASE \E o \in Ops : Load(o) \/ LoadThrows(o)
  <2>1. PICK o \in Ops : Load(o) \/ LoadThrows(o) BY <1>1
  <2>2. op' \in Ops /\ UNCHANGED <<answered, ret, client, supported>>
    BY <2>1 DEF Load, LoadThrows, Receive
  <2>3. pc' \in Places BY <1>o, <2>1 DEF Load, LoadThrows, Decline
  <2>4. told' \in Codes BY <2>1, CodesKnown DEF Load, LoadThrows, Decline
  <2> QED BY <2>2, <2>3, <2>4 DEF Places
<1>2. CASE Blacklisted \/ AuthzThrows
  <2>1. pc = "authorize" /\ UNCHANGED <<op, answered, ret, client, supported>>
    BY <1>2 DEF Blacklisted, AuthzThrows
  <2>2. pc' \in Places /\ told' \in Codes
    BY <1>2, <1>o, CodesKnown DEF Blacklisted, AuthzThrows, Decline
  <2> QED BY <2>1, <2>2 DEF Places
<1>3. CASE OutOfMemory \/ Refuse \/ Crash \/ AnswerProtocols
  <2>1. pc = "authorize" /\ UNCHANGED <<op, answered, client, supported>>
    BY <1>3 DEF OutOfMemory, Refuse, Crash, AnswerProtocols, Perform
  <2>2. pc' \in Places BY <1>3, <1>o DEF OutOfMemory, Refuse, Crash, AnswerProtocols
  <2>3. told' \in Codes /\ ret' \in {"SOAP_OK", "SOAP_EOM"}
    BY <1>3, CodesKnown DEF OutOfMemory, Refuse, Crash, AnswerProtocols
  <2> QED BY <2>1, <2>2, <2>3 DEF Places
<1>4. CASE StartCall
  <2>1. pc = "authorize" /\ pc' = "encode" /\ UNCHANGED <<op, answered, ret, client, supported>>
    BY <1>4 DEF StartCall, Perform
  <2>2. told' \in Codes BY <1>4, TellTyped DEF StartCall
  <2>3. pc' \in Places BY <1>o, <2>1
  <2> QED BY <2>1, <2>2, <2>3 DEF Places
<1>5. CASE Encode \/ Authorizing \/ UNCHANGED vars
  BY <1>5 DEF Encode, Authorizing, vars, synchVars
<1>6. CASE RefuseParameter
  <2>1. pc = "encode" /\ pc' = "register" /\ UNCHANGED <<op, answered, ret, client, supported>>
    BY <1>6 DEF RefuseParameter
  <2>2. PICK code \in {INVALID_REQUEST, INTERNAL_ERROR} : Tell(code)
    BY <1>6, <2>1, RefusedWith, SynchAssumption DEF Counts, SynchAssumption
  <2>3. told' \in Codes BY <2>2, CodesKnown, TellTyped
  <2>4. pc' \in Places BY <1>o, <2>1
  <2> QED BY <2>1, <2>3, <2>4 DEF Places
<1>7. CASE GetClient
  <2>1. /\ pc = "encode" /\ pc' \in {"call", "dead"} /\ client' \in BOOLEAN
        /\ UNCHANGED <<op, told, answered, ret, supported>>
    BY <1>7 DEF GetClient
  <2>2. pc' \in Places BY <1>o, <2>1
  <2> QED BY <2>1, <2>2 DEF Places
<1>8. CASE Fault \/ Result
  <2>1. /\ pc = "call" /\ pc' \in {"release", "status", "fields"}
        /\ UNCHANGED <<op, answered, ret, client, supported>>
    BY <1>8 DEF Fault, Result
  <2>2. told' \in Codes BY <1>8, CodesKnown, TellTyped DEF Fault, Result
  <2>3. pc' \in Places BY <1>o, <2>1
  <2> QED BY <2>1, <2>2, <2>3 DEF Places
<1>9. CASE DecodeStatus
  <2>1. /\ pc = "status" /\ pc' \in {"fields", "release"} /\ UNCHANGED <<op, ret, client, supported>>
    BY <1>9 DEF DecodeStatus
  <2>2. told' \in Codes /\ answered' \in {"none"} \cup BackendCodes
    <3>1. PICK class \in DOMAIN decode_globalTReturnStatus, code \in BackendCodes :
            IF "done" \in decode_globalTReturnStatus[class]
            THEN told' = code /\ answered' = code /\ pc' = "fields"
            ELSE told' = INTERNAL_ERROR /\ answered' = "none" /\ pc' = "release"
      BY <1>9 DEF DecodeStatus
    <3>2. code \in StatusCodes BY SynchAssumption DEF SynchAssumption
    <3>3. CASE "done" \in decode_globalTReturnStatus[class] BY <3>1, <3>2, <3>3
    <3>4. CASE "done" \notin decode_globalTReturnStatus[class] BY <3>1, <3>4, CodesKnown
    <3> QED BY <3>3, <3>4
  <2>3. pc' \in Places BY <1>o, <2>1
  <2> QED BY <2>1, <2>2, <2>3 DEF Places
<1>10. CASE DecodeField
  <2>1. /\ pc = "fields" /\ pc' \in {"fields", "release"} /\ UNCHANGED <<op, answered, ret, client, supported>>
        /\ UNCHANGED told \/ Tell(INTERNAL_ERROR)
    BY <1>10 DEF DecodeField
  <2>2. told' \in Codes BY <2>1, CodesKnown, TellTyped
  <2>3. pc' \in Places BY <1>o, <2>1
  <2> QED BY <2>1, <2>2, <2>3 DEF Places
<1>11. CASE DecodeCrash \/ Decoded \/ Release \/ SetVersionInfo \/ Register
  <2>1. /\ pc # "idle" /\ UNCHANGED <<op, told, answered, client, supported>>
        /\ ret' \in {"SOAP_OK", "SOAP_EOM"}
    BY <1>11 DEF DecodeCrash, Decoded, Release, SetVersionInfo, Register
  <2>2. pc' \in Places BY <1>11, <1>o DEF DecodeCrash, Decoded, Release, SetVersionInfo, Register
  <2> QED BY <2>1, <2>2 DEF Places
<1>12. CASE Return
  <2>1. /\ pc' = "idle" /\ op' = "none" /\ told' = "none" /\ answered' = "none"
        /\ ret' = "SOAP_OK" /\ client' = client
        /\ supported' = supported
    BY <1>12 DEF Return
  <2>2. pc' \in Places BY <1>o, <2>1
  <2> QED BY <2>1, <2>2 DEF Places
<1> QED BY <1>1, <1>2, <1>3, <1>4, <1>5, <1>6, <1>7, <1>8, <1>9, <1>10, <1>11, <1>12 DEF SynchNext

(* Handles, reference counts, the loop index and every status keep to the  *)
(* values the code gives them, and the loops to the tables they go through *)
(* (handle_request and the _impl functions).                               *)
THEOREM SynchTypeCorrect == SynchSpec => []SynchTypeOK
<1>1. SynchInit => RequestTyped
  <2> SUFFICES ASSUME SynchInit PROVE RequestTyped
    OBVIOUS
  <2>1. Counts BY SynchAssumption DEF SynchInit, Counts, Indexed, SynchAssumption
  <2>2. Locals BY DEF SynchInit, Locals, AtRest
  <2>3. AuthzTyped BY DEF SynchInit, AuthzInit, AuthzTyped
  <2> QED BY <2>1, <2>2, <2>3 DEF RequestTyped
<1>2. SynchInit => Carried
  BY DEF SynchInit, Carried, Resting
<1>3. RequestTyped /\ Carried /\ [SynchNext]_vars => RequestTyped'
  BY StepCounts, StepLocals, StepAuthzTyped DEF RequestTyped
<1>4. RequestTyped /\ Balanced => SynchTypeOK
  <2> SUFFICES ASSUME RequestTyped, Balanced PROVE SynchTypeOK
    OBVIOUS
  <2>1. refs.input \in 0 .. 1 /\ refs.result \in 0 .. 1
    BY DEF Balanced, References
  <2>2. pc \in {"idle", "authorize", "encode", "call", "status", "fields", "release", "version",
                "register", "answered", "dead", "starved"}
    BY DEF RequestTyped, Locals, AtRest, Forwarding
  <2> QED BY <2>1, <2>2 DEF RequestTyped, Counts, Indexed, Locals, AuthzTyped, SynchTypeOK
<1> QED BY <1>1, <1>2, <1>3, <1>4, StepCarried, InitBalanced, StepBalanced, PTL DEF SynchSpec
===============================================================================
