---------------------------- MODULE MCSynchRequest ----------------------------
(* Every operation, and an answer of the backend of each kind.             *)
EXTENDS SynchRequest

AllOps == DOMAIN Operations
LsOnly == {"Ls"}
SomeCodes == {"SRM_SUCCESS", "SRM_PARTIAL_SUCCESS", "SRM_REQUEST_QUEUED", "SRM_FAILURE"}
==============================================================================
