------------------------------ MODULE Frontend -------------------------------
(***************************************************************************)
(* The server process (src/frontend/storm-frontend.cpp): main() and its    *)
(* accept loop run(), the signal handlers, process_request() on the worker *)
(* threads with the DBConnectionPool it takes its database context from    *)
(* (src/frontend/DBConnectionPool.cpp), and the teardown after the loop.   *)
(* The workers and the queue between them are those of ThreadPool, whose   *)
(* owner is the main thread here.                                          *)
(***************************************************************************)
EXTENDS ThreadPool

CONSTANTS MaxFailures  \* bound: failures to allocate memory in run()

ASSUME FrontendAssumption == MaxFailures \in Nat

VARIABLES mpc,         \* where main() is
          stayRunning, \* stay_running
          logStuck,    \* a handler waits for the log mutex its own thread holds
          accepted,    \* connections soap_accept has returned
          unscheduled, \* accepted connections run() has let go
          failures,    \* soap_copy and schedule failures so far
          alive,       \* which of the objects main() deletes are still there
          ctx,         \* m_thread_contexts: which workers have a context in it
          mtx,         \* the worker inside getConnection, or NoWorker
          ppc,         \* where each worker is in process_request
          crashed      \* an access to a deleted object has ended the process

signalVars == <<stayRunning, logStuck>>
mainVars == <<mpc, signalVars, accepted, unscheduled, failures, alive>>
requestVars == <<ctx, mtx, ppc, crashed>>
frontendVars == <<vars, mainVars, requestVars>>

NoWorker == -1
Objects == {"mysql_connection_pool", "monitoring"}
MainPc == {"build", "newPool", "loop", "accept", "accepted", "copied",
           "pushing", "report", "deleteDB", "deleteMonitoring", "deletePool",
           "exit"}
LeavesLoop == {"report", "deleteDB", "deleteMonitoring", "deletePool", "exit"}

FrontendInit == /\ Init
                /\ mpc = "build"
                /\ stayRunning = TRUE /\ logStuck = FALSE
                /\ accepted = 0 /\ unscheduled = 0 /\ failures = 0
                /\ alive = {}
                /\ ctx = [w \in Workers |-> "none"]
                /\ mtx = NoWorker
                /\ ppc = [w \in Workers |-> "start"]
                /\ crashed = FALSE

------------------------------------------------------------------------------
(* main(), up to run().                                                    *)

(* ThreadPool::buildInstance; main() returns SYERR when it throws *)
BuildThreadPool ==
  /\ mpc = "build"
  /\ \/ opc # "gone" /\ (CreateThread \/ Built \/ CreateFails \/ Unwind \/ Join)
     \/ opc = "gone" /\ UNCHANGED vars
  /\ mpc' = CASE opc = "gone" -> "exit"
              [] opc' = "idle" -> "newPool"
              [] OTHER -> "build"
  /\ UNCHANGED <<signalVars, accepted, unscheduled, failures, alive, requestVars>>

(* the connection pool, the monitoring, the signal handlers *)
StartServices ==
  /\ mpc = "newPool"
  /\ alive' = Objects
  /\ mpc' = "loop"
  /\ UNCHANGED <<vars, signalVars, accepted, unscheduled, failures, requestVars>>

(* SIGINT or SIGTERM, once the handlers are installed: log, then clear the *)
(* flag.  The handler of a signal that hits its thread in the middle of a  *)
(* log line waits for ever, and so does every other thread at its next one *)
Signal ==
  /\ mpc \notin {"build", "newPool", "exit"}
  /\ ~logStuck
  /\ \/ stayRunning' = FALSE /\ UNCHANGED logStuck
     \/ logStuck' = TRUE /\ UNCHANGED stayRunning
  /\ UNCHANGED <<vars, mpc, accepted, unscheduled, failures, alive, requestVars>>

------------------------------------------------------------------------------
(* run() and acceptRequest().                                              *)

LoopTest ==
  /\ mpc = "loop"
  /\ mpc' = IF stayRunning THEN "accept" ELSE "report"
  /\ UNCHANGED <<vars, signalVars, accepted, unscheduled, failures, alive, requestVars>>

AcceptConnection ==
  /\ mpc = "accept"
  /\ accepted < MaxTasks
  /\ accepted' = accepted + 1
  /\ mpc' = "accepted"
  /\ UNCHANGED <<vars, signalVars, unscheduled, failures, alive, requestVars>>

(* mutant: acceptRequest retries for ever after a timeout *)
AcceptForever == FALSE

(* soap_accept timed out or was interrupted: leave only on a signal *)
AcceptTimeout ==
  /\ mpc = "accept"
  /\ ~stayRunning
  /\ mpc' = "report"
  /\ UNCHANGED <<vars, signalVars, accepted, unscheduled, failures, alive, requestVars>>

(* a signal since: the connection is never answered *)
AcceptedTooLate ==
  /\ mpc = "accepted"
  /\ ~stayRunning
  /\ unscheduled' = unscheduled + 1
  /\ mpc' = "report"
  /\ UNCHANGED <<vars, signalVars, accepted, failures, alive, requestVars>>

CheckAccepted ==
  /\ mpc = "accepted"
  /\ stayRunning
  /\ mpc' = "copied"
  /\ UNCHANGED <<vars, signalVars, accepted, unscheduled, failures, alive, requestVars>>

(* mutant: the connection is forgotten when soap_copy returns NULL *)
CopyFailsOnce ==
  /\ mpc = "copied"
  /\ failures < MaxFailures
  /\ failures' = failures + 1
  /\ mpc' = "loop"
  /\ UNCHANGED <<vars, signalVars, accepted, unscheduled, alive, requestVars>>

(* soap_copy returns NULL: sleep and try again *)
CopyFails ==
  /\ mpc = "copied"
  /\ failures < MaxFailures
  /\ failures' = failures + 1
  /\ UNCHANGED <<vars, mpc, signalVars, accepted, unscheduled, alive, requestVars>>

Schedule ==
  /\ mpc = "copied"
  /\ schedule
  /\ mpc' = "pushing"
  /\ UNCHANGED <<signalVars, accepted, unscheduled, failures, alive, requestVars>>

(* an exception out of schedule(): "request is lost" *)
ScheduleFails ==
  /\ mpc = "copied"
  /\ failures < MaxFailures
  /\ failures' = failures + 1
  /\ unscheduled' = unscheduled + 1
  /\ mpc' = "loop"
  /\ UNCHANGED <<vars, signalVars, accepted, alive, requestVars>>

Push ==
  /\ mpc = "pushing"
  /\ pushWait \/ push \/ SpuriousOwner
  /\ mpc' = IF opc' = "idle" THEN "loop" ELSE "pushing"
  /\ UNCHANGED <<signalVars, accepted, unscheduled, failures, alive, requestVars>>

------------------------------------------------------------------------------
(* main(), after run().                                                    *)

Report ==
  /\ mpc = "report"
  /\ mpc' = "deleteDB"
  /\ UNCHANGED <<vars, signalVars, accepted, unscheduled, failures, alive, requestVars>>

Delete(from, object, to) ==
  /\ mpc = from
  /\ alive' = alive \ {object}
  /\ mpc' = to
  /\ UNCHANGED <<vars, signalVars, accepted, unscheduled, failures, requestVars>>

DeleteConnectionPool == Delete("deleteDB", "mysql_connection_pool", "deleteMonitoring")
DeleteMonitoring == Delete("deleteMonitoring", "monitoring", "deletePool")

DeleteThreadPool ==
  /\ mpc = "deletePool"
  /\ SetStop \/ Interrupt \/ Join
  /\ mpc' = IF opc' = "gone" THEN "exit" ELSE "deletePool"
  /\ UNCHANGED <<signalVars, accepted, unscheduled, failures, alive, requestVars>>

------------------------------------------------------------------------------
(* process_request(), the function of every task.                          *)

(* what an access to an object of main() leads to: once it is deleted the  *)
(* behaviour is undefined, and the process may die of it                   *)
Access(object) == crashed' \in IF object \in alive THEN {FALSE} ELSE BOOLEAN

(* mutant: the mutex is not taken *)
FindUnlocked(w) ==
  /\ wpc[w] = "serving"
  /\ ppc[w] = "start"
  /\ Access("mysql_connection_pool")
  /\ IF ctx[w] = "none"
     THEN mtx' = w /\ ppc' = [ppc EXCEPT ![w] = "connecting"]
     ELSE UNCHANGED mtx /\ ppc' = [ppc EXCEPT ![w] = "handling"]
  /\ UNCHANGED <<vars, mainVars, ctx>>

(* getConnection(): the lookup, under the pool's mutex.  A worker new to   *)
(* the map may read the key of end(), which is no thread's id.             *)
FindContext(w) ==
  /\ wpc[w] = "serving"
  /\ ppc[w] = "start"
  /\ mtx = NoWorker
  /\ Access("mysql_connection_pool")
  /\ IF ctx[w] = "none"
     THEN mtx' = w /\ ppc' = [ppc EXCEPT ![w] = "connecting"]
     ELSE UNCHANGED mtx /\ ppc' = [ppc EXCEPT ![w] = "handling"]
  /\ UNCHANGED <<vars, mainVars, ctx>>

(* getConnection(): storm_opendb and the insert, with the mutex still held;*)
(* the context is kept whether or not the connection could be opened       *)
OpenContext(w) ==
  /\ ppc[w] = "connecting"
  /\ Access("mysql_connection_pool")
  /\ ctx' = [ctx EXCEPT ![w] = "kept"]
  /\ mtx' = NoWorker
  /\ ppc' = [ppc EXCEPT ![w] = "handling"]
  /\ UNCHANGED <<vars, mainVars>>

(* soap_serve: the handler uses its database context, and may call the     *)
(* backend, the authorization service or the database ...                  *)
ServeRequest(w) ==
  /\ ppc[w] = "handling"
  /\ Access("mysql_connection_pool")
  /\ \E next \in {"calling", "registering"} : ppc' = [ppc EXCEPT ![w] = next]
  /\ UNCHANGED <<vars, mainVars, ctx, mtx>>

(* ... which set no time limit on their answers ...                        *)
CallReturns(w) ==
  /\ ppc[w] = "calling"
  /\ Access("mysql_connection_pool")
  /\ ppc' = [ppc EXCEPT ![w] = "registering"]
  /\ UNCHANGED <<vars, mainVars, ctx, mtx>>

(* ... and its operation's monitor; then process_request returns *)
RegisterAndReturn(w) ==
  /\ ppc[w] = "registering"
  /\ Access("monitoring")
  /\ TaskReturns(w) \/ TaskThrows(w)
  /\ ppc' = [ppc EXCEPT ![w] = "start"]
  /\ UNCHANGED <<mainVars, ctx, mtx>>

(* the rest of thread_function *)
PoolStep(w) ==
  /\ \/ popWait(w) \/ pop(w) \/ SpuriousWorker(w) \/ InterruptedWait(w)
     \/ CheckStop(w) \/ BeginTask(w) \/ EndTask(w)
  /\ UNCHANGED <<mainVars, requestVars>>

------------------------------------------------------------------------------

Main == \/ BuildThreadPool \/ StartServices \/ LoopTest
        \/ AcceptConnection \/ AcceptTimeout \/ AcceptedTooLate \/ CheckAccepted
        \/ CopyFails \/ Schedule \/ ScheduleFails \/ Push
        \/ Report \/ DeleteConnectionPool \/ DeleteMonitoring \/ DeleteThreadPool

Request(w) == FindContext(w) \/ OpenContext(w) \/ ServeRequest(w) \/ RegisterAndReturn(w)

Down == aborted \/ crashed \/ mpc = "exit"

FrontendNext ==
  \/ /\ ~Down
     /\ Main \/ Signal \/ \E w \in Workers : PoolStep(w) \/ Request(w) \/ CallReturns(w)
  \/ Down /\ UNCHANGED frontendVars

FrontendSpec == FrontendInit /\ [][FrontendNext]_frontendVars

(* soap_accept returns within its timeout, soap_copy succeeds in the end,  *)
(* and a runnable thread runs, unless it waits for the log mutex; a new    *)
(* connection, a signal, a failure, a spurious wakeup and the answer to a  *)
(* call need never come.                                                   *)
MainRuns == /\ ~Down /\ ~logStuck
            /\ \/ BuildThreadPool \/ StartServices \/ LoopTest
               \/ AcceptTimeout \/ AcceptedTooLate \/ CheckAccepted \/ Schedule
               \/ mpc = "pushing" /\ opc # "pushWait" /\ Push
               \/ Report \/ DeleteConnectionPool \/ DeleteMonitoring \/ DeleteThreadPool
WorkerStep(w) == /\ ~Down /\ ~logStuck
                 /\ \/ Request(w)
                    \/ WorkerRuns(w) /\ PoolStep(w)

FrontendFairSpec == /\ FrontendSpec
                    /\ WF_frontendVars(MainRuns)
                    /\ \A w \in Workers : WF_frontendVars(WorkerStep(w))

------------------------------------------------------------------------------
(* Properties.                                                             *)

FrontendTypeOK ==
  /\ TypeOK
  /\ mpc \in MainPc
  /\ stayRunning \in BOOLEAN /\ logStuck \in BOOLEAN
  /\ accepted \in 0 .. MaxTasks /\ unscheduled \in Nat /\ failures \in 0 .. MaxFailures
  /\ alive \subseteq Objects
  /\ ctx \in [Workers -> {"none", "kept"}]
  /\ mtx \in Workers \cup {NoWorker}
  /\ ppc \in [Workers -> {"start", "connecting", "handling", "calling", "registering"}]
  /\ crashed \in BOOLEAN

(* connections main() has in hand *)
InHand == IF mpc \in {"accepted", "copied", "pushing"} THEN 1 ELSE 0

(* run() loses no connection: each one accepted is scheduled or in hand,   *)
(* but for those let go on an allocation failure and at most one, the      *)
(* connection accepted while the stop signal arrived.                      *)
NoConnectionLost ==
  /\ accepted = scheduled + unscheduled + InHand
  /\ unscheduled <= failures + (IF stayRunning THEN 0 ELSE 1)

(* At most one thread is inside getConnection(), and only the thread the   *)
(* mutex belongs to is opening a connection; a worker handles a request    *)
(* only with a context of its own, which it keeps from request to request. *)
ContextPerWorker ==
  /\ \A w \in Workers : ppc[w] = "connecting" <=> mtx = w
  /\ \A w \in Workers : ppc[w] \in {"handling", "calling", "registering"} =>
                          ctx[w] # "none" /\ wpc[w] = "serving"

(* every worker is in a call that never returns *)
AllHang == <>[](\A w \in Workers : ppc[w] = "calling")

(* A signal whose handler gets past its log line is heeded: run() ends,    *)
(* even while the queue is full, unless no call of any worker returns.     *)
SignalHeeded ==
  []~logStuck => \/ ~stayRunning ~> (mpc \in LeavesLoop \/ Down)
                 \/ AllHang

CallsReturn == \A w \in Workers : (ppc[w] = "calling") ~> (ppc[w] # "calling")

(* The process then ends as well, if every call returns: a single one that *)
(* does not keeps the destructor of the pool waiting.                      *)
ShutdownEnds == []~logStuck /\ CallsReturn => (~stayRunning ~> Down)

(* connections a worker has served or begun to serve, or run() has let go *)
Attended == Cardinality(finished) + Cardinality(At({"serving"})) + unscheduled

(* While no signal arrives every accepted connection comes to a worker, or *)
(* was let go on an allocation failure, although calls may hang: one       *)
(* worker whose calls return is enough.                                    *)
EveryConnectionServed ==
  []~logStuck => \/ \A n \in 1 .. MaxTasks :
                      (accepted >= n) ~> (Attended >= n \/ ~stayRunning \/ Down)
                 \/ AllHang

(* "Waiting for active and pending tasks to finish..."                     *)
(* (storm-frontend.cpp:611): no task is active any more when main() starts *)
(* to delete what they use, and none was left out when it ends.            *)
TasksFinish ==
  /\ \A w \in Workers : wpc[w] = "serving" => alive = Objects
  /\ mpc = "exit" => finished = 1 .. scheduled

==============================================================================
