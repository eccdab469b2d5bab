---------------------------- MODULE RequestStore ----------------------------
(***************************************************************************)
(* What the database is to the clients and to the backend: a store that a  *)
(* request enters whole, with the files that could be queued, before its   *)
(* client is told which, or never enters.  What was stored or told is not  *)
(* changed again, and requests are handled in the order they came.         *)
(***************************************************************************)
EXTENDS Naturals

CONSTANTS Requests,  \* numbers of the requests, in the order they come
          Surls      \* places of the SURLs in a request

VARIABLES stored,    \* the files of each request the backend can see
          told       \* whether its client was answered, and of which files

vars == <<stored, told>>

Silence == [answered |-> FALSE, files |-> {}]

Init == /\ stored = [r \in Requests |-> {}]
        /\ told = [r \in Requests |-> Silence]

(* nothing is known of any later request *)
Last(r) == \A q \in Requests : q > r => stored[q] = {} /\ told[q] = Silence

Store(r, files) == /\ Last(r)
                   /\ stored[r] = {} /\ told[r] = Silence
                   /\ files # {}
                   /\ stored' = [stored EXCEPT ![r] = files]
                   /\ UNCHANGED told

(* the client is told of exactly what is stored; of nothing if refused *)
Answer(r) == /\ Last(r)
             /\ told[r] = Silence
             /\ told' = [told EXCEPT ![r] = [answered |-> TRUE, files |-> stored[r]]]
             /\ UNCHANGED stored

Next == \E r \in Requests : \/ \E files \in SUBSET Surls : Store(r, files)
                            \/ Answer(r)

=============================================================================
