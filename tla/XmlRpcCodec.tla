----------------------------- MODULE XmlRpcCodec -----------------------------
(***************************************************************************)
(* The translation between SOAP and XML-RPC (xmlrpc_encode.cpp,            *)
(* xmlrpc_decode.cpp).  A parameter, or a field of the backend's answer,   *)
(* is abstracted to its class: what the functions tell apart.  A function  *)
(* of the source is a TLA+ function from the classes it may be given to    *)
(* the set of its outcomes.                                                *)
(*                                                                         *)
(* Want of memory inside the XML-RPC library (XMLRPC_ASSERT_ENV_OK) and    *)
(* NULL items of an array, which gSOAP does not deliver, are left out.     *)
(***************************************************************************)
EXTENDS FiniteSets

CONSTANTS CheckAscii  \* getXMLRPCCheckAscii()

ASSUME CheckAsciiAssumption == CheckAscii \in BOOLEAN

------------------------------------------------------------------------------
(* Encoders.  put: the field is in the structure; ret: the return value.   *)

Done == [put |-> TRUE, ret |-> "done"]
Missing == [put |-> FALSE, ret |-> "missing"]     \* ENCODE_ERR_MISSING_PARAM
Failed == [put |-> FALSE, ret |-> "error"]        \* any other value

(* mutant: the check is left out *)
IsASCIIAlways(class) == TRUE

(* not both getXMLRPCCheckAscii() and a character above 127 *)
IsASCII(class) == CheckAscii => class # "notascii"

Encoder(classes, missing, refused) ==
  [c \in classes |-> CASE c \in missing -> {Missing}
                       [] c \in refused -> {Failed}
                       [] ~IsASCII(c) -> {Failed}
                       [] OTHER -> {Done}]

Pointer == {"null", "good"}

encode_lifetimeValue == Encoder(Pointer, {"null"}, {})
encode_int == Encoder(Pointer, {"null"}, {})
encode_bool == Encoder(Pointer, {"null"}, {})
encode_ULONG64 == Encoder(Pointer, {"null"}, {})
encode_retentionPolicyInfo == Encoder(Pointer, {"null"}, {})
encode_userSpaceTokenDescription == Encoder(Pointer \cup {"notascii"}, {"null"}, {})
encode_string == Encoder(Pointer \cup {"notascii"}, {"null"}, {})

(* the branch of encode_string for SURL, fromSURL and toSURL *)
encode_surl == Encoder(Pointer \cup {"notascii", "invalid"}, {"null"}, {"invalid"})

encode_arrayOfString ==
  Encoder(Pointer \cup {"empty", "noarray", "notascii"}, {"null", "empty"}, {"noarray"})
encode_arrayOfUnsignedLong == Encoder(Pointer \cup {"empty"}, {"null", "empty"}, {})
encode_ArrayOfAnyURI ==
  Encoder(Pointer \cup {"empty", "noarray", "notascii", "invalid"},
          {"null", "noarray"}, {"empty", "invalid"})
encode_ArrayOfTExtraInfo ==
  Encoder(Pointer \cup {"empty", "notascii"}, {"null", "empty"}, {})

(* the FQANs of the client's certificate *)
encode_VOMSAttributes == Encoder({"noarray", "good"}, {}, {"noarray"})

(* what its two arrays of strings come to is not looked at *)
encode_TTransferParameters ==
  [c \in Pointer \cup {"notascii"} |-> IF c = "null" THEN {Missing} ELSE {Done}]

------------------------------------------------------------------------------
(* Decoders.  "notfound" is the one error their callers tolerate.          *)

Scalar == {"absent", "wrongtype", "good"}
Array == Scalar \cup {"empty", "baditem"}

Decoder(classes, notfound, malformed, allocates) ==
  [c \in classes |-> CASE c \in notfound -> {"notfound"}
                       [] c \in malformed -> {"decoding"}
                       [] OTHER -> {"done"} \cup (IF allocates THEN {"memory"} ELSE {})]

Nothing == {"absent", "wrongtype", "empty"}

(* one of its allocations is used unchecked: want of memory may also be    *)
(* the end of the process                                                  *)
Unchecked(decode) ==
  [c \in DOMAIN decode |-> decode[c] \cup (IF "done" \in decode[c] THEN {"crash"} ELSE {})]

decode_string == Decoder(Scalar, {"absent", "wrongtype"}, {}, TRUE)
decode_int == Decoder(Scalar, {"absent", "wrongtype"}, {}, TRUE)
decode_ULONG64 == Decoder(Scalar, {"absent", "wrongtype"}, {}, TRUE)
decode_lifetimeValue == Unchecked(decode_ULONG64)
decode_TPermissionMode == decode_int
decode_TRetentionPolicyInfo == Decoder(Scalar, {"absent"}, {"wrongtype"}, TRUE)
decode_TReturnStatus == Decoder(Scalar, {"absent"}, {"wrongtype"}, TRUE)

(* into the TReturnStatus the response already has *)
decode_globalTReturnStatus == Decoder(Scalar, {"absent"}, {"wrongtype"}, FALSE)

(* without its name or its mode the permission is "not found" *)
decode_TUserPermission == Decoder(Scalar, {"absent", "wrongtype"}, {}, TRUE)
decode_TGroupPermission == Decoder(Scalar, {"absent", "wrongtype"}, {}, TRUE)

(* a bad item of an array of strings is an error, one of these three       *)
(* arrays leaves a NULL entry                                              *)
decode_ArrayOfString == Decoder(Array, Nothing, {"baditem"}, TRUE)
decode_ArrayOfTSURLReturnStatus == Decoder(Array, Nothing, {}, TRUE)
decode_ArrayOfTExtraInfo == Decoder(Array, Nothing, {}, TRUE)
decode_ArrayOfTSURLLifetimeReturnStatus == Unchecked(Decoder(Array, Nothing, {}, TRUE))

(* the errors the optional fields of an item end the decoding with *)
ErrorsOf(fields) == UNION {f[c] : f \in fields, c \in Scalar} \ {"done", "notfound"}

(* an item without a token leaves a NULL entry *)
decode_ArrayOfTMetaDataSpace ==
  [Unchecked(Decoder(Array, Nothing, {}, TRUE)) EXCEPT !["baditem"] =
     @ \cup ErrorsOf({decode_TReturnStatus, decode_TRetentionPolicyInfo, decode_string,
                      decode_ULONG64, decode_lifetimeValue})]

(* An item without a path ends the decoding with the "not found" of        *)
(* decode_string: the caller takes the array for absent, although what     *)
(* precedes the item is in the reply and what follows it is blank.         *)
decode_ArrayOfTMetaDataPathDetail ==
  [Unchecked(Decoder(Array, Nothing, {}, TRUE)) EXCEPT !["baditem"] =
     @ \cup {"notfound"} \cup
     ErrorsOf({decode_TReturnStatus, decode_ULONG64, decode_string, decode_int,
               decode_TRetentionPolicyInfo, decode_ArrayOfString, decode_lifetimeValue,
               decode_TUserPermission, decode_TGroupPermission, decode_TPermissionMode})]
==============================================================================
