---------------------------- MODULE Authorization ----------------------------
(***************************************************************************)
(* storm::authz::is_blacklisted on a worker thread (Authorization.cpp).    *)
(* The handle of the authorisation service is kept by the thread from one  *)
(* request to the next.  Whatever goes wrong throws an                     *)
(* authorization_error.                                                    *)
(***************************************************************************)
VARIABLES userCheck,  \* the option argus_check_enabled() reads, for good
          pep,        \* pep_handle: "none", "half" configured or "ready"
          authz,      \* where is_blacklisted is, then what it returns
          permitted   \* the service answered Permit in this request

authzVars == <<userCheck, pep, authz, permitted>>

AuthzInit == /\ userCheck \in BOOLEAN
             /\ pep = "none" /\ authz = "start" /\ permitted = FALSE

NewCheck == authz' = "start" /\ permitted' = FALSE /\ UNCHANGED <<userCheck, pep>>

CheckDisabled ==
  /\ authz = "start" /\ ~userCheck
  /\ authz' = "false"
  /\ UNCHANGED <<userCheck, pep, permitted>>

(* the certificate chain of the client, out of the GSI plugin; then the    *)
(* handle, if the thread has one                                           *)
GetPem ==
  /\ authz = "start" /\ userCheck
  /\ authz' \in {"throws", IF pep = "none" THEN "make" ELSE "ask"}
  /\ UNCHANGED <<userCheck, pep, permitted>>

(* the handle is the thread's before its four options are set              *)
MakePep ==
  /\ authz = "make"
  /\ \/ pep' \in {"none", "half"} /\ authz' = "throws"
     \/ pep' = "ready" /\ authz' = "ask"
  /\ UNCHANGED <<userCheck, permitted>>

(* the subject, resource, action, environment and the request of them      *)
CreateRequest ==
  /\ authz = "ask"
  /\ authz' \in {"throws", "send"}
  /\ UNCHANGED <<userCheck, pep, permitted>>

(* pep_authorize fails, or its response is missing or has no result        *)
AuthorizeFails ==
  /\ authz = "send"
  /\ authz' = "throws"
  /\ UNCHANGED <<userCheck, pep, permitted>>

(* mutant: only Deny counts as a refusal *)
AuthorizeUnlessDenied ==
  /\ authz = "send"
  /\ \E decision \in {"permit", "deny", "indeterminate", "not_applicable"} :
       /\ authz' = IF decision = "deny" THEN "true" ELSE "false"
       /\ permitted' = (decision = "permit")
  /\ UNCHANGED <<userCheck, pep>>

(* the decision of the first result; all but Permit is a refusal           *)
Authorize ==
  /\ authz = "send"
  /\ \E decision \in {"permit", "deny", "indeterminate", "not_applicable"} :
       /\ authz' = IF decision = "permit" THEN "false" ELSE "true"
       /\ permitted' = (decision = "permit")
  /\ UNCHANGED <<userCheck, pep>>

IsBlacklisted == CheckDisabled \/ GetPem \/ MakePep \/ CreateRequest \/ AuthorizeFails \/ Authorize
==============================================================================
