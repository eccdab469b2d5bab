----------------------------- MODULE SynchRequest -----------------------------
(***************************************************************************)
(* handle_request of synch.cpp on one worker thread: the request is        *)
(* loaded, logged and authorised, forwarded to the backend by the _impl    *)
(* function of its operation, and counted by the monitor.  What differs    *)
(* between the operations is in SynchOperations.                           *)
(*                                                                         *)
(* The XML-RPC client and the handle of the authorisation service belong   *)
(* to the thread and are kept between requests.                            *)
(***************************************************************************)
EXTENDS Authorization, SynchOperations, Integers

CONSTANTS Ops,           \* the operations the clients ask for
          BackendCodes,  \* the status codes the backend answers with
          MaxRequests    \* bound: requests the thread serves

ASSUME SynchAssumption == /\ Ops \subseteq DOMAIN Operations
                          /\ BackendCodes \subseteq StatusCodes
                          /\ MaxRequests \in Nat \ {0}

VARIABLES n,           \* number of requests received
          op, pc, i,   \* operation, place in the code, next parameter or field
          req,         \* classes of the parameters looked at so far
          inputParam,  \* names in the structure of the call
          refs,        \* references held to that structure and to the result
          told,        \* returnStatus: "none", "unset" or a status code
          answered,    \* the status code of the backend's answer, or "none"
          sent, reply, \* fields of the answer, fields of the response
          ret,         \* what the SOAP function returns
          outcomes,    \* what was registered with the monitor
          client,      \* the thread has an XML-RPC client
          supported    \* the list of the ProtocolChecker is not empty

synchVars == <<n, op, pc, i, req, inputParam, refs, told, answered, sent, reply, ret,
               outcomes, client, supported>>
vars == <<synchVars, authzVars>>

Operation == Operations[op]
NoReferences == [input |-> 0, result |-> 0]

(* the response of a Ping has no returnStatus; its versionInfo says what   *)
(* went wrong                                                              *)
HasStatus == op # "Ping"
Tell(code) == told' = IF HasStatus THEN code ELSE told

(* mutant: the list of protocols is not looked at *)
NoSanityChecks == TRUE

(* main() does not start to serve without a protocol *)
performSanityChecks == supported

SynchInit ==
  /\ AuthzInit
  /\ supported \in BOOLEAN /\ performSanityChecks
  /\ n = 0 /\ op = "none" /\ pc = "idle" /\ i = 1 /\ req = <<>>
  /\ inputParam = {} /\ refs = NoReferences
  /\ told = "none" /\ answered = "none" /\ sent = {} /\ reply = {}
  /\ ret = "SOAP_OK" /\ outcomes = <<>> /\ client = FALSE

------------------------------------------------------------------------------
(* handle_request.                                                         *)

(* register_request_error, behind an answer made of nothing but a status   *)
Decline(code) ==
  /\ told' = code
  /\ outcomes' = Append(outcomes, "error")
  /\ pc' = "answered"

Receive(o) ==
  /\ pc = "idle" /\ n < MaxRequests
  /\ n' = n + 1 /\ op' = o
  /\ NewCheck
  /\ UNCHANGED <<i, inputParam, refs, answered, sent, reply, ret, client, supported>>

(* the constructor throws invalid_request *)
LoadThrows(o) ==
  /\ Receive(o)
  /\ Decline(INVALID_REQUEST)
  /\ UNCHANGED req

(* the constructor, then log_request: what getRequestToken() throws ends   *)
(* the process                                                             *)
Load(o) ==
  /\ Receive(o)
  /\ \E p \in Operations[o].load :
       /\ req' = p
       /\ pc' = IF LogsToken(o, p) => p.requestToken # "null" THEN "authorize" ELSE "dead"
  /\ UNCHANGED <<told, outcomes>>

Authorizing ==
  /\ pc = "authorize"
  /\ IsBlacklisted
  /\ UNCHANGED synchVars

Blacklisted ==
  /\ pc = "authorize" /\ authz = "true"
  /\ Decline("SRM_AUTHORIZATION_FAILURE")
  /\ UNCHANGED <<authzVars, n, op, i, req, inputParam, refs, answered, sent, reply, ret, client, supported>>

AuthzThrows ==
  /\ pc = "authorize" /\ authz = "throws"
  /\ Decline("SRM_FAILURE")
  /\ UNCHANGED <<authzVars, n, op, i, req, inputParam, refs, answered, sent, reply, ret, client, supported>>

------------------------------------------------------------------------------
(* The _impl function, from the authorisation to its return.               *)

Perform(kind) == pc = "authorize" /\ authz = "false" /\ Operation.kind = kind

(* no memory for the response: it is not given to the caller               *)
OutOfMemory ==
  /\ pc = "authorize" /\ authz = "false"
  /\ ret' = "SOAP_EOM" /\ pc' = "register"
  /\ UNCHANGED <<authzVars, n, op, i, req, inputParam, refs, told, answered, sent, reply,
                 outcomes, client, supported>>

Refuse ==
  /\ Perform("refuses")
  /\ told' = "SRM_NOT_SUPPORTED" /\ pc' = "register"
  /\ UNCHANGED <<authzVars, n, op, i, req, inputParam, refs, answered, sent, reply, ret,
                 outcomes, client, supported>>

Crash ==
  /\ Perform("crashes")
  /\ pc' = "dead"
  /\ UNCHANGED <<authzVars, n, op, i, req, inputParam, refs, told, answered, sent, reply, ret,
                 outcomes, client, supported>>

(* No memory for the list: the response is the caller's by then.  The      *)
(* entries are filled in without a look at what soap_malloc() gave.        *)
AnswerProtocols ==
  /\ Perform("protocols")
  /\ \/ supported /\ told' = "SRM_SUCCESS" /\ pc' = "register" /\ UNCHANGED ret
     \/ supported /\ told' = "unset" /\ ret' = "SOAP_EOM" /\ pc' = "register"
     \/ supported /\ pc' = "starved" /\ UNCHANGED <<told, ret>>
     \/ ~supported /\ pc' = "dead" /\ UNCHANGED <<told, ret>>
  /\ UNCHANGED <<authzVars, n, op, i, req, inputParam, refs, answered, sent, reply,
                 outcomes, client, supported>>

StartCall ==
  /\ Perform("calls")
  /\ Tell("unset")
  /\ refs' = [refs EXCEPT !.input = 1]
  /\ pc' = "encode"
  /\ UNCHANGED <<authzVars, n, op, i, req, inputParam, answered, sent, reply, ret, outcomes,
                 client, supported>>

Reaction(parameter, outcome) ==
  CASE outcome.ret = "done" -> "goOn"
    [] outcome.ret = "missing" -> parameter.missing
    [] OTHER -> parameter.error

(* the class of a parameter load() did not look at is chosen here          *)
Classes(parameter) ==
  IF parameter.name \in DOMAIN req THEN {req[parameter.name]} ELSE DOMAIN parameter.encode

EncodeParameter(parameter, class, outcome) ==
  /\ req' = [name \in DOMAIN req \cup {parameter.name} |->
               IF name = parameter.name THEN class ELSE req[name]]
  /\ inputParam' = inputParam \cup (IF outcome.put THEN {parameter.name} ELSE {})

Encode ==
  /\ pc = "encode" /\ i <= Len(Operation.sends)
  /\ LET parameter == Operation.sends[i]
     IN \E class \in Classes(parameter) : \E outcome \in parameter.encode[class] :
          /\ EncodeParameter(parameter, class, outcome)
          /\ Reaction(parameter, outcome) = "goOn"
  /\ i' = i + 1
  /\ UNCHANGED <<authzVars, n, op, pc, refs, told, answered, sent, reply, ret, outcomes, client, supported>>

(* mutant: the structure is not released *)
RefuseParameterKeeping ==
  /\ pc = "encode" /\ i <= Len(Operation.sends)
  /\ LET parameter == Operation.sends[i]
     IN \E class \in Classes(parameter) : \E outcome \in parameter.encode[class] :
          /\ EncodeParameter(parameter, class, outcome)
          /\ Reaction(parameter, outcome) # "goOn"
          /\ Tell(Reaction(parameter, outcome))
  /\ pc' = "register"
  /\ UNCHANGED <<authzVars, n, op, i, refs, answered, sent, reply, ret, outcomes, client, supported>>

RefuseParameter ==
  /\ pc = "encode" /\ i <= Len(Operation.sends)
  /\ LET parameter == Operation.sends[i]
     IN \E class \in Classes(parameter) : \E outcome \in parameter.encode[class] :
          /\ EncodeParameter(parameter, class, outcome)
          /\ Reaction(parameter, outcome) # "goOn"
          /\ Tell(Reaction(parameter, outcome))
  /\ refs' = [refs EXCEPT !.input = @ - 1]
  /\ pc' = "register"
  /\ UNCHANGED <<authzVars, n, op, i, answered, sent, reply, ret, outcomes, client, supported>>

(* get_xmlrpc_client; a client that cannot be created fails an assertion   *)
GetClient ==
  /\ pc = "encode" /\ i > Len(Operation.sends)
  /\ \/ client' = TRUE /\ pc' = "call"
     \/ ~client /\ UNCHANGED client /\ pc' = "dead"
  /\ UNCHANGED <<authzVars, n, op, i, req, inputParam, refs, told, answered, sent, reply, ret,
                 outcomes, supported>>

(* of the request, only a Ping's lack of authorizationID matters later     *)
Forgotten == IF op = "Ping" THEN UNCHANGED req ELSE req' = <<>>

(* mutant: the structure is released by the handler too *)
FaultReleasing ==
  /\ pc = "call"
  /\ Tell(INTERNAL_ERROR)
  /\ refs' = [refs EXCEPT !.input = @ - 1]
  /\ pc' = "release"
  /\ Forgotten /\ inputParam' = {}
  /\ UNCHANGED <<authzVars, n, op, i, answered, sent, reply, ret, outcomes, client, supported>>

(* the backend cannot be reached, or answers with a fault                  *)
Fault ==
  /\ pc = "call"
  /\ Tell(INTERNAL_ERROR)
  /\ pc' = "release"
  /\ Forgotten /\ inputParam' = {}
  /\ UNCHANGED <<authzVars, n, op, i, refs, answered, sent, reply, ret, outcomes, client, supported>>

Result ==
  /\ pc = "call"
  /\ refs' = [refs EXCEPT !.result = 1]
  /\ i' = 1
  /\ pc' = IF HasStatus THEN "status" ELSE "fields"
  /\ Forgotten /\ inputParam' = {}
  /\ UNCHANGED <<authzVars, n, op, told, answered, sent, reply, ret, outcomes, client, supported>>

(* mutant: an answer without a status is taken for a success *)
DecodeStatusOrSuccess ==
  /\ pc = "status"
  /\ \E class \in DOMAIN decode_globalTReturnStatus, code \in BackendCodes :
       IF "done" \in decode_globalTReturnStatus[class]
       THEN told' = code /\ answered' = code /\ pc' = "fields"
       ELSE told' = "SRM_SUCCESS" /\ answered' = "none" /\ pc' = "release"
  /\ UNCHANGED <<authzVars, n, op, i, req, inputParam, refs, sent, reply, ret, outcomes, client, supported>>

DecodeStatus ==
  /\ pc = "status"
  /\ \E class \in DOMAIN decode_globalTReturnStatus, code \in BackendCodes :
       IF "done" \in decode_globalTReturnStatus[class]
       THEN told' = code /\ answered' = code /\ pc' = "fields"
       ELSE told' = INTERNAL_ERROR /\ answered' = "none" /\ pc' = "release"
  /\ UNCHANGED <<authzVars, n, op, i, req, inputParam, refs, sent, reply, ret, outcomes, client, supported>>

(* mutant: an answer cut short keeps the status of the backend *)
DecodeFieldQuietly ==
  /\ pc = "fields" /\ i <= Len(Operation.decodes)
  /\ LET field == Operation.decodes[i]
     IN \E class \in DOMAIN field.decode : \E outcome \in field.decode[class] \ {"crash"} :
          /\ sent' = IF class = "good" THEN sent \cup {field.name} ELSE sent
          /\ reply' = IF outcome = "done" THEN reply \cup {<<field.name, class>>} ELSE reply
          /\ UNCHANGED told
          /\ IF outcome \in {"done", "notfound"}
             THEN UNCHANGED pc ELSE pc' = "release"
  /\ i' = i + 1
  /\ UNCHANGED <<authzVars, n, op, req, inputParam, refs, answered, ret, outcomes, client, supported>>

DecodeField ==
  /\ pc = "fields" /\ i <= Len(Operation.decodes)
  /\ LET field == Operation.decodes[i]
     IN \E class \in DOMAIN field.decode : \E outcome \in field.decode[class] \ {"crash"} :
          /\ sent' = IF class = "good" THEN sent \cup {field.name} ELSE sent
          /\ reply' = IF outcome = "done" THEN reply \cup {<<field.name, class>>} ELSE reply
          /\ IF outcome \in {"done", "notfound"}
             THEN UNCHANGED <<told, pc>> ELSE Tell(INTERNAL_ERROR) /\ pc' = "release"
  /\ i' = i + 1
  /\ UNCHANGED <<authzVars, n, op, req, inputParam, refs, answered, ret, outcomes, client, supported>>

DecodeCrash ==
  /\ pc = "fields" /\ i <= Len(Operation.decodes)
  /\ LET field == Operation.decodes[i]
     IN \E class \in DOMAIN field.decode : "crash" \in field.decode[class]
  /\ pc' = "starved"
  /\ UNCHANGED <<authzVars, n, op, i, req, inputParam, refs, told, answered, sent, reply, ret,
                 outcomes, client, supported>>

Decoded ==
  /\ pc = "fields" /\ i > Len(Operation.decodes)
  /\ pc' = "release"
  /\ UNCHANGED <<authzVars, n, op, i, req, inputParam, refs, told, answered, sent, reply, ret,
                 outcomes, client, supported>>

(* the result is there unless the call faulted *)
Release ==
  /\ pc = "release"
  /\ refs' = [input |-> refs.input - 1, result |-> 0]
  /\ pc' = IF op = "Ping" /\ req["authorizationID"] = "null" THEN "version" ELSE "register"
  /\ UNCHANGED <<authzVars, n, op, i, req, inputParam, told, answered, sent, reply, ret,
                 outcomes, client, supported>>

(* set_version_info compares the keys of the entries, and an entry may     *)
(* have none; otherInfo is replaced, its entries filled in without a look  *)
(* at what soap_malloc() gave                                              *)
SetVersionInfo ==
  /\ pc = "version"
  /\ \/ <<"otherInfo", "baditem">> \notin reply
        /\ ret' \in {"SOAP_OK", "SOAP_EOM"} /\ pc' = "register"
     \/ <<"otherInfo", "baditem">> \in reply
        /\ UNCHANGED ret /\ pc' = "dead"
     \/ UNCHANGED ret /\ pc' = "starved"
  /\ UNCHANGED <<authzVars, n, op, i, req, inputParam, refs, told, answered, sent, reply,
                 outcomes, client, supported>>

------------------------------------------------------------------------------

(* getStatus() after performXmlRpcCall(); "unset" is some code             *)
Status == IF ~HasStatus THEN "SRM_SUCCESS"
          ELSE IF told = "none" THEN "SRM_REQUEST_QUEUED"
          ELSE told

(* mutant: what the SOAP function returns is not looked at *)
RegisterStatus ==
  /\ pc = "register"
  /\ outcomes' = Append(outcomes, IF Status \in SuccessCodes(op) THEN "success" ELSE "failure")
  /\ pc' = "answered"
  /\ UNCHANGED <<authzVars, n, op, i, req, inputParam, refs, told, answered, sent, reply, ret,
                 client, supported>>

Register ==
  /\ pc = "register"
  /\ outcomes' = Append(outcomes, IF ret = "SOAP_OK" /\ Status \in SuccessCodes(op)
                                  THEN "success" ELSE "failure")
  /\ pc' = "answered"
  /\ UNCHANGED <<authzVars, n, op, i, req, inputParam, refs, told, answered, sent, reply, ret,
                 client, supported>>

(* the worker goes back to its pool *)
Return ==
  /\ pc = "answered"
  /\ pc' = "idle" /\ op' = "none" /\ i' = 1 /\ req' = <<>> /\ inputParam' = {}
  /\ refs' = NoReferences /\ told' = "none" /\ answered' = "none" /\ sent' = {} /\ reply' = {}
  /\ ret' = "SOAP_OK" /\ outcomes' = <<>>
  /\ NewCheck
  /\ UNCHANGED <<n, client, supported>>

SynchNext ==
  \/ \E o \in Ops : Load(o) \/ LoadThrows(o)
  \/ Authorizing \/ Blacklisted \/ AuthzThrows
  \/ OutOfMemory \/ Refuse \/ Crash \/ AnswerProtocols
  \/ StartCall \/ Encode \/ RefuseParameter \/ GetClient
  \/ Fault \/ Result \/ DecodeStatus \/ DecodeField \/ DecodeCrash \/ Decoded
  \/ Release \/ SetVersionInfo \/ Register \/ Return

SynchSpec == SynchInit /\ [][SynchNext]_vars

------------------------------------------------------------------------------

(* Every variable keeps to the values its part of the code uses: handles   *)
(* and reference counts included (handle_request and the _impl functions). *)
SynchTypeOK ==
  /\ userCheck \in BOOLEAN /\ permitted \in BOOLEAN /\ client \in BOOLEAN
  /\ supported \in BOOLEAN
  /\ pep \in {"none", "half", "ready"}
  /\ authz \in {"start", "make", "ask", "send", "throws", "false", "true"}
  /\ n \in 0 .. MaxRequests
  /\ op \in Ops \cup {"none"}
  /\ pc \in {"idle", "authorize", "encode", "call", "status", "fields", "release", "version",
             "register", "answered", "dead", "starved"}
  /\ i \in Nat \ {0}
  /\ pc \in {"encode", "call"} => i <= Len(Operation.sends) + 1
  /\ pc = "fields" => i <= Len(Operation.decodes) + 1
  /\ refs.input \in 0 .. 1 /\ refs.result \in 0 .. 1
  /\ told \in {"none", "unset"} \cup StatusCodes
  /\ answered \in {"none"} \cup BackendCodes
  /\ ret \in {"SOAP_OK", "SOAP_EOM"}

Called == pc \in {"call", "status", "fields", "release", "version"}

(* The backend is called for no client but one the authorisation service   *)
(* permitted in this very request, unless the check is switched off: a     *)
(* handle left half configured, an exception or a decision kept from an    *)
(* earlier request of the thread let nobody through (is_blacklisted and    *)
(* its place in handle_request).                                           *)
BackendCallAuthorized == Called => ~userCheck \/ permitted

(* The structure of a call holds what the client said and nothing the      *)
(* codec should have refused: every parameter that was given and is well   *)
(* formed is in it, nothing invalid is, and what must be there is.  Only   *)
(* the two the code makes exceptions for are exempt: authorizationID,      *)
(* whose errors are ignored, and transferParameters.                       *)
CallCarriesTheRequest ==
  pc = "call" =>
    \A k \in DOMAIN Operation.sends :
      LET p == Operation.sends[k]
      IN p.name \notin {"authorizationID", "transferParameters"} =>
           /\ req[p.name] = "good" => p.name \in inputParam
           /\ p.name \in inputParam => req[p.name] \notin {"null", "noarray", "empty", "invalid"}
           /\ p.name \in inputParam /\ CheckAscii => req[p.name] # "notascii"
           /\ p.missing # "goOn" => p.name \in inputParam

Finished == pc = "answered"

(* A client told success was told so by the backend, in answer to this     *)
(* request; a fault, an answer without a status or one that cannot be      *)
(* decoded never shows as success (the rpcResponseHandler functions).      *)
SuccessFromBackend ==
  Finished /\ told = "SRM_SUCCESS" /\ op # "GetTransferProtocols" => answered = "SRM_SUCCESS"

(* A response with the status of the backend has every well formed field   *)
(* of its answer: where one is lost the status is replaced (the            *)
(* rpcResponseHandler functions).                                          *)
ReplyComplete ==
  Finished /\ HasStatus /\ answered # "none" /\ told = answered /\ answered # INTERNAL_ERROR =>
    \A name \in sent : <<name, "good">> \in reply

(* Whatever way a request ends, the structure of its call and the result   *)
(* are released exactly once (the returns of the _impl functions).         *)
StructsReleased == Finished => refs = NoReferences

(* Every request is counted once, and as a success only if the client got  *)
(* a response with a status its monitor counts as one; a response that is  *)
(* sent always has a status (handle_request, registerOperation).           *)
ToldAndCounted ==
  Finished =>
    /\ Len(outcomes) = 1
    /\ HasStatus /\ ret = "SOAP_OK" => told \notin {"none", "unset"}
    /\ outcomes = <<"success">> <=>
         ret = "SOAP_OK" /\ (told \in SuccessCodes(op) \/ (~HasStatus /\ told = "none"))

(* While there is memory the process dies in no other way than three: the  *)
(* response StatusOfReserveSpace clears, an XML-RPC client that cannot be  *)
(* created, and a Ping answered with an extra info that has no key.  Want  *)
(* of memory kills it in the operations of Unguarded only.  Neither the    *)
(* assertion of srmGetTransferProtocols on the list of protocols nor the   *)
(* exception of getRequestToken() in log_request is ever met: main() does  *)
(* not start without a protocol, and load() refuses what has no token.     *)
Unguarded == {"GetTransferProtocols", "Ping", "ReserveSpace", "GetSpaceMetaData",
              "ExtendFileLifeTime", "Ls"}

DiesOnly ==
  /\ pc = "dead" => \/ op = "StatusReserveSpace"
                    \/ refs.input = 1 /\ ~client
                    \/ op = "Ping" /\ <<"otherInfo", "baditem">> \in reply
  /\ pc = "starved" => op \in Unguarded

(* "Also for optional parameter, in case of parameter specified by client, *)
(* IF error occours during xmlrpc parsing, we prefere to abort the request *)
(* execution" (srmv2_dirreq.cpp:731): what reaches the backend lacks none  *)
(* of the parameters the client gave.                                      *)
OptionalErrorAborts ==
  pc = "call" => \A name \in DOMAIN req : req[name] = "notascii" => ~CheckAscii
==============================================================================
