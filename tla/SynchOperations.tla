--------------------------- MODULE SynchOperations ---------------------------
(***************************************************************************)
(* What the synchronous operations differ in: which requests load()        *)
(* accepts, which parameters go to the backend and what becomes of one     *)
(* that cannot be encoded, and which fields of the answer are decoded.     *)
(* SynchRequest says what they do with it.                                 *)
(*                                                                         *)
(* A request is a function from the names of its parameters to their       *)
(* classes.  A parameter load() does not look at is not in the sets below: *)
(* its class is chosen when it is encoded.                                 *)
(***************************************************************************)
EXTENDS XmlRpcCodec, Sequences

INVALID_REQUEST == "SRM_INVALID_REQUEST"
INTERNAL_ERROR == "SRM_INTERNAL_ERROR"

(* normalize_surl: a blank or another scheme is refused, a character above *)
(* 127 is not                                                              *)
ValidSurl == {"good", "notascii"}

(* a token is a UUID, a description is made of word characters             *)
Valid == {"good"}
NullOrValid == {"null"} \cup Valid

(* a parameter to send, and the answer when its encoder says "missing" or  *)
(* anything else but "done"; "goOn" when the error is of no consequence    *)
Parameter(name, encode, missing, error) ==
  [name |-> name, encode |-> encode, missing |-> missing, error |-> error]
Optional(name, encode) == Parameter(name, encode, "goOn", INTERNAL_ERROR)
Required(name, encode) == Parameter(name, encode, INVALID_REQUEST, INVALID_REQUEST)
RequiredOrInternal(name, encode) == Parameter(name, encode, INVALID_REQUEST, INTERNAL_ERROR)
RequiredInternal(name, encode) == Parameter(name, encode, INTERNAL_ERROR, INTERNAL_ERROR)

(* what all the calls start with; the errors of authorizationID are ignored *)
VOMS == RequiredInternal("VOMS", encode_VOMSAttributes)
Credentials == <<VOMS, Parameter("authorizationID", encode_string, "goOn", "goOn")>>

storageSystemInfo == Optional("storageSystemInfo", encode_ArrayOfTExtraInfo)

(* a field of the answer that may be absent *)
Field(name, decode) == [name |-> name, decode |-> decode]

(* What an _impl function does: it calls the backend, refuses, or answers  *)
(* on its own.                                                             *)
Calls(parameters) == [kind |-> "calls", sends |-> parameters]
NotSupported == [kind |-> "refuses", sends |-> <<>>]

(* What a request class does: load(), and the _impl function and handler   *)
(* behind performXmlRpcCall().                                             *)
Class(load, impl, handler) ==
  [load |-> load, kind |-> impl.kind, sends |-> impl.sends, decodes |-> handler]
FileStatuses == Field("arrayOfFileStatuses", decode_ArrayOfTSURLReturnStatus)

------------------------------------------------------------------------------
(* Directories (srmv2_dirreq.cpp).                                         *)

ns1__srmMkdir_impl ==
  Calls(Credentials \o <<Required("SURL", encode_surl), storageSystemInfo>>)
rpcResponseHandler_Mkdir == <<>>
MkdirRequest == Class([SURL : ValidSurl], ns1__srmMkdir_impl, rpcResponseHandler_Mkdir)

ns1__srmRmdir_impl ==
  Calls(Credentials \o <<RequiredOrInternal("SURL", encode_surl), storageSystemInfo,
                         Optional("recursive", encode_bool)>>)
rpcResponseHandler_Rmdir == <<>>
RmdirRequest == Class([SURL : ValidSurl], ns1__srmRmdir_impl, rpcResponseHandler_Rmdir)

ns1__srmRm_impl ==
  Calls(Credentials \o <<RequiredOrInternal("arrayOfSURLs", encode_ArrayOfAnyURI),
                         storageSystemInfo>>)
rpcResponseHandler_Rm == <<FileStatuses>>
RmRequest == Class([arrayOfSURLs : ValidSurl], ns1__srmRm_impl, rpcResponseHandler_Rm)

ns1__srmLs_impl ==
  Calls(Credentials \o <<RequiredOrInternal("arrayOfSURLs", encode_ArrayOfAnyURI),
                         storageSystemInfo,
                         Optional("fileStorageType", encode_int),
                         Optional("fullDetailedList", encode_bool),
                         Optional("allLevelRecursive", encode_bool),
                         Optional("numOfLevels", encode_int),
                         Optional("offset", encode_int), Optional("count", encode_int)>>)
rpcResponseHandler_Ls ==
  <<Field("requestToken", decode_string),
    Field("details", decode_ArrayOfTMetaDataPathDetail)>>
LsRequest == Class([arrayOfSURLs : ValidSurl], ns1__srmLs_impl, rpcResponseHandler_Ls)

ns1__srmStatusOfLsRequest_impl == NotSupported
StatusLsRequest == Class([requestToken : Valid], ns1__srmStatusOfLsRequest_impl, <<>>)

ns1__srmMv_impl ==
  Calls(Credentials \o <<RequiredOrInternal("fromSURL", encode_surl),
                         RequiredOrInternal("toSURL", encode_surl), storageSystemInfo>>)
rpcResponseHandler_Mv == <<>>
MvRequest ==
  Class([fromSURL : ValidSurl, toSURL : ValidSurl], ns1__srmMv_impl, rpcResponseHandler_Mv)

------------------------------------------------------------------------------
(* Space (srmv2_spacereq.cpp).  desiredSizeOfGuaranteedSpace is not a      *)
(* pointer.                                                                *)

ns1__srmReserveSpace_impl ==
  Calls(Credentials \o
  <<Optional("userSpaceTokenDescription", encode_userSpaceTokenDescription),
    Required("retentionPolicyInfo", encode_retentionPolicyInfo),
    Optional("desiredSizeOfTotalSpace", encode_ULONG64),
    RequiredInternal("desiredSizeOfGuaranteedSpace", encode_ULONG64),
    Optional("desiredLifetimeOfReservedSpace", encode_lifetimeValue),
    Optional("arrayOfExpectedFileSizes", encode_arrayOfUnsignedLong),
    storageSystemInfo,
    Optional("transferParameters", encode_TTransferParameters)>>)
rpcResponseHandler_ReserveSpace ==
  <<Field("requestToken", decode_string),
    Field("estimatedProcessingTime", decode_int),
    Field("retentionPolicyInfo", decode_TRetentionPolicyInfo),
    Field("sizeOfTotalReservedSpace", decode_ULONG64),
    Field("sizeOfGuaranteedReservedSpace", decode_ULONG64),
    Field("lifetimeOfReservedSpace", decode_lifetimeValue),
    Field("spaceToken", decode_string)>>
ReserveSpaceRequest ==
  Class([retentionPolicyInfo : Valid, desiredSizeOfTotalSpace : Valid,
         desiredSizeOfGuaranteedSpace : Valid, userSpaceTokenDescription : NullOrValid],
        ns1__srmReserveSpace_impl, rpcResponseHandler_ReserveSpace)

(* the response is cleared after its returnStatus was put there, and the   *)
(* status is written through the pointer                                   *)
ns1__srmStatusOfReserveSpaceRequest_impl == [kind |-> "crashes", sends |-> <<>>]
StatusReserveSpaceRequest ==
  Class([requestToken : Valid], ns1__srmStatusOfReserveSpaceRequest_impl, <<>>)

ns1__srmReleaseSpace_impl ==
  Calls(Credentials \o <<RequiredInternal("spaceToken", encode_string), storageSystemInfo,
                         Optional("forceFileRelease", encode_bool)>>)
rpcResponseHandler_ReleaseSpace == <<>>
ReleaseSpaceRequest ==
  Class([spaceToken : Valid], ns1__srmReleaseSpace_impl, rpcResponseHandler_ReleaseSpace)

ns1__srmGetSpaceMetaData_impl ==
  Calls(Credentials \o <<RequiredInternal("arrayOfSpaceTokens", encode_arrayOfString)>>)
rpcResponseHandler_GetSpaceMetaData ==
  <<Field("arrayOfSpaceDetails", decode_ArrayOfTMetaDataSpace)>>
GetSpaceMetaDataRequest ==
  Class([arrayOfSpaceTokens : Valid], ns1__srmGetSpaceMetaData_impl,
        rpcResponseHandler_GetSpaceMetaData)

ns1__srmGetSpaceTokens_impl ==
  Calls(Credentials \o <<Optional("userSpaceTokenDescription", encode_string)>>)
rpcResponseHandler_GetSpaceTokens ==
  <<Field("arrayOfSpaceTokens", decode_ArrayOfString)>>
GetSpaceTokensRequest ==
  Class([userSpaceTokenDescription : NullOrValid], ns1__srmGetSpaceTokens_impl,
        rpcResponseHandler_GetSpaceTokens)

ns1__srmUpdateSpace_impl == NotSupported
UpdateSpaceRequest == Class([spaceToken : Valid], ns1__srmUpdateSpace_impl, <<>>)

ns1__srmStatusOfUpdateSpaceRequest_impl == NotSupported
StatusUpdateSpaceRequest ==
  Class([requestToken : Valid], ns1__srmStatusOfUpdateSpaceRequest_impl, <<>>)

ns1__srmChangeSpaceForFiles_impl == NotSupported
ChangeSpaceForFilesRequest ==
  Class([targetSpaceToken : Valid, arrayOfSURLs : ValidSurl],
        ns1__srmChangeSpaceForFiles_impl, <<>>)

ns1__srmStatusOfChangeSpaceForFilesRequest_impl == NotSupported
StatusChangeSpaceForFilesRequest ==
  Class([requestToken : Valid], ns1__srmStatusOfChangeSpaceForFilesRequest_impl, <<>>)

ns1__srmExtendFileLifeTimeInSpace_impl == NotSupported
ExtendFileLifeTimeInSpaceRequest ==
  Class([spaceToken : Valid, arrayOfSURLs : {"null", "empty", "noarray"} \cup ValidSurl],
        ns1__srmExtendFileLifeTimeInSpace_impl, <<>>)

ns1__srmPurgeFromSpace_impl == NotSupported
PurgeFromSpaceRequest ==
  Class([spaceToken : Valid, arrayOfSURLs : ValidSurl], ns1__srmPurgeFromSpace_impl, <<>>)

------------------------------------------------------------------------------
(* Transfers (srmv2_xferreq.cpp).                                          *)

ns1__srmReleaseFiles_impl ==
  Calls(Credentials \o <<Optional("requestToken", encode_string),
                         Optional("arrayOfSURLs", encode_ArrayOfAnyURI),
                         Optional("recursive", encode_bool)>>)
rpcResponseHandler_ReleaseFiles == <<FileStatuses>>

(* without a token there are SURLs; an array load() took for absent may    *)
(* still be there, without elements                                        *)
ReleaseFilesRequest ==
  Class({p \in [requestToken : NullOrValid,
                arrayOfSURLs : {"null", "empty", "noarray"} \cup ValidSurl] :
           p.requestToken = "null" => p.arrayOfSURLs \in ValidSurl},
        ns1__srmReleaseFiles_impl, rpcResponseHandler_ReleaseFiles)

ns1__srmPutDone_impl ==
  Calls(Credentials \o <<Optional("requestToken", encode_string),
                         Required("arrayOfSURLs", encode_ArrayOfAnyURI)>>)
rpcResponseHandler_PutDone == <<FileStatuses>>
PutDoneRequest ==
  Class([requestToken : Valid, arrayOfSURLs : ValidSurl], ns1__srmPutDone_impl,
        rpcResponseHandler_PutDone)

ns1__srmAbortRequest_impl == Calls(Credentials \o <<Required("requestToken", encode_string)>>)
rpcResponseHandler_AbortRequest == <<>>
AbortRequestRequest ==
  Class([requestToken : Valid], ns1__srmAbortRequest_impl, rpcResponseHandler_AbortRequest)

ns1__srmAbortFiles_impl ==
  Calls(Credentials \o <<Required("requestToken", encode_string),
                         Required("arrayOfSURLs", encode_ArrayOfAnyURI)>>)
rpcResponseHandler_AbortFiles == <<FileStatuses>>
AbortFilesRequest ==
  Class([requestToken : Valid, arrayOfSURLs : ValidSurl], ns1__srmAbortFiles_impl,
        rpcResponseHandler_AbortFiles)

ns1__srmExtendFileLifeTime_impl ==
  Calls(Credentials \o <<Optional("requestToken", encode_string),
                         Required("arrayOfSURLs", encode_ArrayOfAnyURI),
                         Optional("newFileLifeTime", encode_lifetimeValue),
                         Optional("newPinLifeTime", encode_lifetimeValue)>>)
rpcResponseHandler_ExtendFileLifeTime ==
  <<Field("arrayOfFileStatuses", decode_ArrayOfTSURLLifetimeReturnStatus)>>

(* one lifetime of the two, and the token goes with the one of the pin     *)
ExtendFileLifeTimeRequest ==
  Class({p \in [requestToken : NullOrValid, arrayOfSURLs : ValidSurl,
                newFileLifeTime : Pointer, newPinLifeTime : Pointer] :
           /\ (p.newFileLifeTime = "null") # (p.newPinLifeTime = "null")
           /\ p.requestToken # "null" => p.newPinLifeTime # "null"},
        ns1__srmExtendFileLifeTime_impl, rpcResponseHandler_ExtendFileLifeTime)

NoParameters == {[name \in {} |-> "null"]}

(* the protocols the server was configured with *)
ns1__srmGetTransferProtocols_impl == [kind |-> "protocols", sends |-> <<>>]
GetTransferProtocolsRequest == Class(NoParameters, ns1__srmGetTransferProtocols_impl, <<>>)

(* a client without authorizationID has "KEY=BE-Version" sent for it       *)
ns1__srmPing_impl ==
  Calls(<<VOMS, Parameter("authorizationID", [encode_string EXCEPT !["null"] = {Done}],
                          "goOn", "goOn")>>)
rpcResponseHandler_Ping ==
  <<Field("versionInfo", decode_string), Field("otherInfo", decode_ArrayOfTExtraInfo)>>
PingRequest == Class(NoParameters, ns1__srmPing_impl, rpcResponseHandler_Ping)

ns1__srmSuspendRequest_impl == NotSupported
SuspendRequestRequest == Class([requestToken : Valid], ns1__srmSuspendRequest_impl, <<>>)

ns1__srmResumeRequest_impl == NotSupported
ResumeRequestRequest == Class([requestToken : Valid], ns1__srmResumeRequest_impl, <<>>)

------------------------------------------------------------------------------
(* Permissions (srmv2_permreq.cpp).                                        *)

ns1__srmSetPermission_impl == NotSupported
SetPermissionRequest == Class([SURL : ValidSurl], ns1__srmSetPermission_impl, <<>>)

ns1__srmCheckPermission_impl == NotSupported
CheckPermissionRequest ==
  Class([arrayOfSURLs : ValidSurl], ns1__srmCheckPermission_impl, <<>>)

ns1__srmGetPermission_impl == NotSupported
GetPermissionRequest == Class([arrayOfSURLs : ValidSurl], ns1__srmGetPermission_impl, <<>>)

------------------------------------------------------------------------------

(* the class each ns1__srm function of synch.cpp hands its request to      *)
Operations ==
  [Mkdir |-> MkdirRequest, Rmdir |-> RmdirRequest, Rm |-> RmRequest, Ls |-> LsRequest,
   StatusLs |-> StatusLsRequest, Mv |-> MvRequest,
   ReserveSpace |-> ReserveSpaceRequest, StatusReserveSpace |-> StatusReserveSpaceRequest,
   ReleaseSpace |-> ReleaseSpaceRequest, GetSpaceMetaData |-> GetSpaceMetaDataRequest,
   GetSpaceTokens |-> GetSpaceTokensRequest, UpdateSpace |-> UpdateSpaceRequest,
   StatusUpdateSpace |-> StatusUpdateSpaceRequest,
   ChangeSpaceForFiles |-> ChangeSpaceForFilesRequest,
   StatusChangeSpaceForFiles |-> StatusChangeSpaceForFilesRequest,
   ExtendFileLifeTimeInSpace |-> ExtendFileLifeTimeInSpaceRequest,
   PurgeFromSpace |-> PurgeFromSpaceRequest, ReleaseFiles |-> ReleaseFilesRequest,
   PutDone |-> PutDoneRequest, AbortRequest |-> AbortRequestRequest,
   AbortFiles |-> AbortFilesRequest, ExtendFileLifeTime |-> ExtendFileLifeTimeRequest,
   GetTransferProtocols |-> GetTransferProtocolsRequest, Ping |-> PingRequest,
   SuspendRequest |-> SuspendRequestRequest, ResumeRequest |-> ResumeRequestRequest,
   SetPermission |-> SetPermissionRequest, CheckPermission |-> CheckPermissionRequest,
   GetPermission |-> GetPermissionRequest]

(* mutant: the token of ReleaseFiles is logged without looking *)
LogsTokenBlindly(o, p) == o \in {"ReleaseFiles", "ExtendFileLifeTime"}

(* The loggers that print the request token.  Two classes may lack one,    *)
(* and their getRequestToken() throws what nobody catches.                 *)
LogsToken(o, p) ==
  \/ o \in {"AbortFiles", "AbortRequest", "StatusLs", "StatusReserveSpace",
            "StatusUpdateSpace", "StatusChangeSpaceForFiles", "SuspendRequest", "PutDone"}
  \/ o \in {"ReleaseFiles", "ExtendFileLifeTime"} /\ p.requestToken # "null"

StatusCodes ==
  {"SRM_SUCCESS", "SRM_PARTIAL_SUCCESS", "SRM_REQUEST_QUEUED", "SRM_REQUEST_INPROGRESS",
   "SRM_REQUEST_SUSPENDED", "SRM_LOWER_SPACE_GRANTED", "SRM_FAILURE", "SRM_NOT_SUPPORTED",
   "SRM_AUTHORIZATION_FAILURE", INVALID_REQUEST, INTERNAL_ERROR}

(* the status codes the monitor of an operation counts as a success        *)
SuccessCodes(o) ==
  LET space == {"ReserveSpace", "StatusReserveSpace", "UpdateSpace", "StatusUpdateSpace"}
      pending == {"ChangeSpaceForFiles", "StatusChangeSpaceForFiles", "Ls", "StatusLs"}
      files == {"AbortFiles", "AbortRequest", "CheckPermission", "ExtendFileLifeTime",
                "ExtendFileLifeTimeInSpace", "GetPermission", "GetSpaceMetaData",
                "PurgeFromSpace", "PutDone", "ReleaseFiles", "Rm"}
      suspended == {"StatusReserveSpace", "StatusUpdateSpace", "StatusChangeSpaceForFiles"}
  IN {c \in StatusCodes :
        \/ c = "SRM_SUCCESS"
        \/ c = "SRM_PARTIAL_SUCCESS" /\ o \in files \cup pending
        \/ c = "SRM_REQUEST_QUEUED" /\ o \in space \cup pending
        \/ c = "SRM_REQUEST_INPROGRESS" /\ o \in (space \ {"UpdateSpace"}) \cup pending
        \/ c = "SRM_REQUEST_SUSPENDED" /\ o \in suspended
        \/ c = "SRM_LOWER_SPACE_GRANTED" /\ o \in space}
==============================================================================
