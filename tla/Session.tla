------------------------------- MODULE Session --------------------------------
(***************************************************************************)
(* The MySQL session of one worker thread, as src/db/storm_mysql_ifce.cpp  *)
(* and src/db/mysql_query.cpp use it: BEGIN, COMMIT, ROLLBACK and the      *)
(* savepoint statements, whose results the wrappers throw away, INSERTs    *)
(* and SELECTs, whose failure is an exception, and the ping.               *)
(*                                                                         *)
(* The server and the client library are external.  The server rolls an    *)
(* open transaction back when the connection drops and reads repeatably    *)
(* inside one.  The library reconnects by itself (MYSQL_OPT_RECONNECT),    *)
(* except that it refuses the first statement after a drop inside a        *)
(* transaction, and every statement on a handle that was never connected.  *)
(***************************************************************************)
EXTENDS Integers, FiniteSets

CONSTANTS MaxDrops    \* bound: connections that drop in one behaviour

ASSUME SessionAssumption == MaxDrops \in Nat

VARIABLES committed,  \* rows in the database
          inTrans,    \* the server has a transaction open for this session
          work,       \* rows the session sees while in it
          saved,      \* rows at its savepoint
          link,       \* the connection, as the client library knows it
          drops       \* connections dropped so far

sessionVars == <<committed, inTrans, work, saved, link, drops>>

Links == {"never",    \* mysql_real_connect failed
          "up",
          "broken",   \* dropped outside a transaction
          "refusing"} \* dropped inside a transaction

SessionInit == /\ committed = {}
               /\ inTrans = FALSE
               /\ work = {} /\ saved = {}
               /\ link \in {"never", "up"}
               /\ drops = 0

(* the rows a statement of the session sees *)
Seen == IF inTrans THEN work ELSE committed

(* the connection drops, or the server restarts *)
ConnectionDrops ==
  /\ link = "up"
  /\ drops < MaxDrops
  /\ drops' = drops + 1
  /\ link' = IF inTrans THEN "refusing" ELSE "broken"
  /\ inTrans' = FALSE
  /\ work' = {} /\ saved' = {}
  /\ UNCHANGED committed

(* the statement reaches the server, if need be on a new connection *)
Reached == /\ link \in {"up", "broken"}
           /\ link' = "up"
           /\ UNCHANGED drops

(* it does not: the library refuses it, or the server cannot be reached *)
NotReached == /\ \/ link = "refusing" /\ link' = "broken"
                 \/ link \in {"never", "broken"} /\ UNCHANGED link
              /\ UNCHANGED <<committed, inTrans, work, saved, drops>>

(* mutant: BEGIN forgotten *)
StartNothing == UNCHANGED sessionVars

(* storm_start_tr: BEGIN commits a transaction left open *)
StartTr == \/ /\ Reached
              /\ committed' = Seen
              /\ work' = Seen /\ saved' = {}
              /\ inTrans' = TRUE
           \/ NotReached

(* storm_end_tr *)
EndTr == \/ /\ Reached
            /\ committed' = Seen
            /\ work' = {} /\ saved' = {}
            /\ inTrans' = FALSE
         \/ NotReached

(* mutant: ROLLBACK forgotten *)
AbortNothing == UNCHANGED sessionVars

(* storm_abort_tr *)
AbortTr == \/ /\ Reached
              /\ work' = {} /\ saved' = {}
              /\ inTrans' = FALSE
              /\ UNCHANGED committed
           \/ NotReached

(* set_savepoint: without effect outside a transaction *)
SetSavepoint == \/ /\ Reached
                   /\ saved' = IF inTrans THEN work ELSE {}
                   /\ UNCHANGED <<committed, inTrans, work>>
                \/ NotReached

(* mutant: the savepoint is not rolled back to *)
KeepRows == UNCHANGED sessionVars

(* rollback_to_savepoint: an error outside a transaction *)
RollbackToSavepoint == \/ /\ Reached
                          /\ work' = IF inTrans THEN saved ELSE {}
                          /\ UNCHANGED <<committed, inTrans, saved>>
                       \/ NotReached

(* ID_exec_query of an INSERT that succeeds *)
Insert(row) == /\ Reached
               /\ IF inTrans
                  THEN work' = work \cup {row} /\ UNCHANGED committed
                  ELSE committed' = committed \cup {row} /\ UNCHANGED work
               /\ UNCHANGED <<inTrans, saved>>

(* ID_exec_query of an INSERT that throws though it was executed: the      *)
(* connection drops before the answer comes                                *)
ReplyLost(row) == /\ link \in {"up", "broken"}
                  /\ drops < MaxDrops
                  /\ drops' = drops + 1
                  /\ link' = IF inTrans THEN "refusing" ELSE "broken"
                  /\ inTrans' = FALSE
                  /\ work' = {} /\ saved' = {}
                  /\ committed' = IF inTrans THEN committed ELSE committed \cup {row}

(* ID_exec_query or vector_exec_query that throws mysql_exception without  *)
(* an effect                                                               *)
StatementFails == \/ Reached /\ UNCHANGED <<committed, inTrans, work, saved>>
                  \/ NotReached

(* ID_exec_query of an INSERT that throws *)
InsertFails(row) == StatementFails \/ ReplyLost(row)

(* storm_ping_connection returning 0, and not *)
PingAnswers == Reached /\ UNCHANGED <<committed, inTrans, work, saved>>
PingFails == NotReached

(* the process dies, and its successor connects anew *)
SessionDies == /\ link' = "up"
               /\ inTrans' = FALSE
               /\ work' = {} /\ saved' = {}
               /\ UNCHANGED <<committed, drops>>

==============================================================================
