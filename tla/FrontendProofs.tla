---------------------------- MODULE FrontendProofs ----------------------------
(***************************************************************************)
(* Theorems about Frontend: the server process keeps to the interface of   *)
(* its thread pool, so that what is proved of the pool holds in it.        *)
(***************************************************************************)
EXTENDS Frontend, ThreadPoolProofs

LEMMA PoolSteps == [FrontendNext]_frontendVars => [Next]_vars
<1> SUFFICES ASSUME [FrontendNext]_frontendVars
             PROVE  Next \/ UNCHANGED vars
  OBVIOUS
<1>1. CASE Down /\ UNCHANGED frontendVars
  BY <1>1 DEF frontendVars
<1>2. CASE ~Down /\ Main
  <2>1. ~aborted
    BY <1>2 DEF Down
  <2>2. Owner \/ UNCHANGED vars
    BY <1>2 DEF Main, BuildThreadPool, StartServices, LoopTest,
                AcceptConnection, AcceptTimeout, AcceptedTooLate,
                CheckAccepted, CopyFails, Schedule, ScheduleFails, Push,
                Report, DeleteConnectionPool, DeleteMonitoring, Delete,
                DeleteThreadPool, Owner
  <2>3. QED
    BY <2>1, <2>2 DEF Next
<1>3. CASE ~Down /\ Signal
  BY <1>3 DEF Signal
<1>4. ASSUME NEW w \in Workers, ~Down, PoolStep(w) \/ Request(w) \/ CallReturns(w)
      PROVE  Next \/ UNCHANGED vars
  <2>1. ~aborted
    BY <1>4 DEF Down
  <2>2. Worker(w) \/ UNCHANGED vars
    BY <1>4 DEF PoolStep, Request, FindContext, OpenContext, ServeRequest,
                RegisterAndReturn, CallReturns, Worker
  <2>3. QED
    BY <2>1, <2>2 DEF Next
<1>5. CASE UNCHANGED frontendVars
  BY <1>5 DEF frontendVars
<1>6. QED
  BY <1>1, <1>2, <1>3, <1>4, <1>5 DEF FrontendNext

LEMMA FrontendUsesThreadPool == FrontendSpec => Spec
<1>1. FrontendInit => Init
  BY DEF FrontendInit
<1>2. [FrontendNext]_frontendVars => [Next]_vars
  BY PoolSteps
<1>3. QED
  BY <1>1, <1>2, PTL DEF FrontendSpec, Spec

(* In the whole process, too, a request handed to the pool is never lost   *)
(* or served twice while no signal has stopped the pool.                   *)
THEOREM FrontendConservesTasks == FrontendSpec => []TaskConservation
BY FrontendUsesThreadPool, TasksConserved

(* The same holds of the wakeups and of the counter main() logs, of the    *)
(* abstract queue, of what a stopping pool still does and of how it ends.  *)
THEOREM FrontendKeepsPromises ==
  FrontendSpec => /\ [](NoLostWakeup /\ QueueBound /\ ActiveCount) /\ []NoWorkerOutlivesPool
                  /\ []NobodyStuck /\ StopPreventsStart /\ WindsDown /\ TaskQueueSafety
BY FrontendUsesThreadPool, WakeupsAndCounts, PoolEndsAlone, NobodyIsStuck, StopEndsStarting,
   StopWindsDown, PoolImplementsTaskQueue

------------------------------------------------------------------------------
(* What each step does to the variables of main() and of the requests.     *)

MainTyped ==
  /\ mpc \in MainPc
  /\ stayRunning \in BOOLEAN /\ logStuck \in BOOLEAN
  /\ accepted \in 0 .. MaxTasks /\ unscheduled \in Nat /\ failures \in 0 .. MaxFailures
  /\ alive \subseteq Objects

RequestTyped ==
  /\ ctx \in [Workers -> {"none", "kept"}]
  /\ mtx \in Workers \cup {NoWorker}
  /\ ppc \in [Workers -> {"start", "connecting", "handling", "calling", "registering"}]
  /\ crashed \in BOOLEAN

(* A connection counts as lost to a signal only when main() is on its way  *)
(* out; until then each one let go is a failure.                           *)
Connections ==
  /\ NoConnectionLost
  /\ mpc \notin LeavesLoop => unscheduled <= failures

LEMMA MainInit == FrontendInit => MainTyped /\ Connections
<1> SUFFICES ASSUME FrontendInit PROVE MainTyped /\ Connections
  OBVIOUS
<1> USE PoolAssumption, FrontendAssumption DEF PoolAssumption, FrontendAssumption
<1>1. /\ mpc = "build" /\ stayRunning = TRUE /\ logStuck = FALSE /\ accepted = 0 /\ unscheduled = 0
      /\ failures = 0 /\ alive = {} /\ scheduled = 0
  BY DEF FrontendInit, Init
<1>2. MainTyped
  <2>1. stayRunning \in BOOLEAN /\ logStuck \in BOOLEAN BY <1>1, Zenon
  <2>2. /\ accepted \in 0 .. MaxTasks /\ unscheduled \in Nat
        /\ failures \in 0 .. MaxFailures
    BY <1>1
  <2> QED BY <1>1, <2>1, <2>2, Zenon DEF MainTyped, MainPc
<1>3. Connections BY <1>1 DEF Connections, NoConnectionLost, InHand, LeavesLoop
<1> QED BY <1>2, <1>3

(* The steps of the loop that leave the pool alone.                        *)
LEMMA LoopStep ==
  ASSUME MainTyped, Connections, scheduled \in Nat,
         \/ StartServices \/ LoopTest \/ AcceptConnection \/ AcceptTimeout \/ AcceptedTooLate
         \/ CheckAccepted \/ CopyFails \/ ScheduleFails \/ Signal
         \/ Report \/ DeleteConnectionPool \/ DeleteMonitoring
  PROVE  MainTyped' /\ Connections'
<1> USE PoolAssumption, FrontendAssumption
    DEF PoolAssumption, FrontendAssumption, MainTyped, MainPc, Connections, NoConnectionLost,
        InHand, LeavesLoop, signalVars
<1>1. CASE StartServices BY <1>1 DEF StartServices, vars
<1>2. CASE LoopTest BY <1>2 DEF LoopTest, vars
<1>3. CASE AcceptConnection BY <1>3 DEF AcceptConnection, vars
<1>4. CASE AcceptTimeout BY <1>4 DEF AcceptTimeout, vars
<1>5. CASE AcceptedTooLate
  <2>1. /\ mpc = "accepted" /\ mpc' = "report" /\ stayRunning' = FALSE
        /\ unscheduled' = unscheduled + 1
        /\ UNCHANGED <<accepted, failures, scheduled, alive, logStuck>>
    BY <1>5 DEF AcceptedTooLate, vars
  <2>2. unscheduled <= failures /\ failures \in Nat
    BY <2>1
  <2>3. accepted' = scheduled' + unscheduled' + 0 BY <2>1
  <2>4. unscheduled' <= failures' + 1 /\ unscheduled' \in Nat BY <2>1, <2>2
  <2>5. MainTyped' BY <2>1, <2>4, Zenon
  <2>6. Connections' BY <2>1, <2>3, <2>4
  <2> QED BY <2>5, <2>6
<1>6. CASE CheckAccepted BY <1>6 DEF CheckAccepted, vars
<1>7. CASE CopyFails BY <1>7 DEF CopyFails, vars
<1>8. CASE ScheduleFails BY <1>8 DEF ScheduleFails, vars
<1>9. CASE Signal
  <2>1. /\ stayRunning' = FALSE \/ stayRunning' = stayRunning
        /\ stayRunning' \in BOOLEAN /\ logStuck' \in BOOLEAN
        /\ UNCHANGED <<mpc, accepted, unscheduled, failures, scheduled, alive>>
    BY <1>9 DEF Signal, vars
  <2>2. /\ unscheduled <= failures + (IF stayRunning THEN 0 ELSE 1)
        /\ unscheduled \in Nat /\ failures \in Nat
    BY DEF MainTyped
  <2>3. unscheduled' <= failures' + (IF stayRunning' THEN 0 ELSE 1) BY <2>1, <2>2
  <2>4. MainTyped' BY <2>1
  <2> QED BY <2>1, <2>3, <2>4
<1>10. CASE Report BY <1>10 DEF Report, vars
<1>11. CASE DeleteConnectionPool BY <1>11 DEF DeleteConnectionPool, Delete, vars
<1>12. CASE DeleteMonitoring BY <1>12 DEF DeleteMonitoring, Delete, vars
<1> QED BY <1>1, <1>2, <1>3, <1>4, <1>5, <1>6, <1>7, <1>8, <1>9, <1>10, <1>11, <1>12

(* The steps that use the pool: only the end of push() schedules a task,   *)
(* and with it main() has the connection in hand no more.                  *)
LEMMA PoolUseStep ==
  ASSUME MainTyped, Connections, scheduled \in Nat,
         BuildThreadPool \/ Schedule \/ Push \/ DeleteThreadPool
  PROVE  MainTyped' /\ Connections'
<1> USE DEF MainTyped, MainPc, Connections, NoConnectionLost, InHand, LeavesLoop, signalVars
<1>1. CASE BuildThreadPool
  <2>1. /\ mpc = "build" /\ mpc' \in {"build", "newPool", "exit"}
        /\ UNCHANGED <<stayRunning, logStuck, accepted, unscheduled, failures, alive>>
    BY <1>1 DEF BuildThreadPool
  <2>2. scheduled' = scheduled
    BY <1>1 DEF BuildThreadPool, CreateThread, Built, CreateFails, Unwind, Join, vars
  <2> QED BY <2>1, <2>2
<1>2. CASE Schedule BY <1>2 DEF Schedule, schedule
<1>3. CASE Push
  <2>1. mpc = "pushing" /\ UNCHANGED <<stayRunning, logStuck, accepted, unscheduled, failures, alive>>
    BY <1>3 DEF Push
  <2>2. CASE push
    <3>1. scheduled' = scheduled + 1 /\ mpc' = "loop" BY <1>3, <2>2 DEF Push, push
    <3> QED BY <2>1, <3>1
  <2>3. CASE pushWait \/ SpuriousOwner
    <3>1. scheduled' = scheduled /\ mpc' = "pushing"
      BY <1>3, <2>3 DEF Push, pushWait, SpuriousOwner
    <3> QED BY <2>1, <3>1
  <2> QED BY <1>3, <2>2, <2>3 DEF Push
<1>4. CASE DeleteThreadPool
  <2>1. /\ mpc = "deletePool" /\ mpc' \in {"deletePool", "exit"}
        /\ UNCHANGED <<stayRunning, logStuck, accepted, unscheduled, failures, alive>>
    BY <1>4 DEF DeleteThreadPool
  <2>2. scheduled' = scheduled BY <1>4 DEF DeleteThreadPool, SetStop, Interrupt, Join
  <2> QED BY <2>1, <2>2
<1> QED BY <1>1, <1>2, <1>3, <1>4

(* Main() and the pool leave a worker that serves a request where it is.   *)
LEMMA MainKeepsServing ==
  ASSUME Shape, BuildOrder, Main \/ Signal, NEW w \in Workers, wpc[w] = "serving"
  PROVE  wpc'[w] = "serving" /\ UNCHANGED requestVars
<1> USE DEF Shape, TypeOK, workerVars
<1>1. UNCHANGED requestVars
  BY DEF Main, Signal, BuildThreadPool, StartServices, LoopTest, AcceptConnection, AcceptTimeout,
         AcceptedTooLate, CheckAccepted, CopyFails, Schedule, ScheduleFails, Push, Report,
         DeleteConnectionPool, DeleteMonitoring, Delete, DeleteThreadPool, mainVars
<1>2. CASE CreateThread
  <2>1. oi \in Workers /\ wpc[oi] = "unborn" /\ wpc' = [wpc EXCEPT ![oi] = "pop"]
    BY <1>2, PoolAssumption DEF CreateThread, BuildOrder, OwnerOK, Workers, PoolAssumption
  <2> QED BY <1>1, <2>1
<1>3. CASE push
  <2>1. \/ UNCHANGED wpc
        \/ \E v \in At({"waiting"}) : wpc' = [wpc EXCEPT ![v] = "woken"]
    BY <1>3 DEF push, NotifyNotEmpty
  <2> QED BY <1>1, <2>1 DEF At
<1>4. CASE ~CreateThread /\ ~push
  <2>1. UNCHANGED wpc
    BY <1>4 DEF Main, Signal, BuildThreadPool, StartServices, LoopTest, AcceptConnection,
                AcceptTimeout, AcceptedTooLate, CheckAccepted, CopyFails, Schedule, ScheduleFails,
                Push, Report, DeleteConnectionPool, DeleteMonitoring, Delete, DeleteThreadPool,
                Built, CreateFails, Unwind, Join, schedule, pushWait, SpuriousOwner, SetStop,
                Interrupt, vars
  <2> QED BY <1>1, <2>1
<1> QED BY <1>2, <1>3, <1>4

LEMMA PoolKeepsServing ==
  ASSUME Shape, NEW v \in Workers, PoolStep(v), NEW w \in Workers, wpc[w] = "serving"
  PROVE  wpc'[w] = "serving"
<1> USE DEF Shape, TypeOK, workerVars
<1>1. wpc[v] # "serving"
  BY DEF PoolStep, popWait, pop, Tests, SpuriousWorker, InterruptedWait, CheckStop, BeginTask, EndTask
<1>2. \A u \in Workers : u # v => wpc'[u] = wpc[u]
  BY DEF PoolStep, popWait, pop, Tests, SpuriousWorker, InterruptedWait, CheckStop, BeginTask, EndTask
<1> QED BY <1>1, <1>2

(* A context is opened by the thread that has the mutex, inside a request. *)
Contexts ==
  /\ ContextPerWorker
  /\ \A w \in Workers : ppc[w] = "connecting" => wpc[w] = "serving"

LEMMA RequestInit == FrontendInit => RequestTyped /\ Contexts
<1> SUFFICES ASSUME FrontendInit PROVE RequestTyped /\ Contexts
  OBVIOUS
<1>1. RequestTyped BY DEF FrontendInit, RequestTyped
<1>2. NoWorker \notin Workers
  BY PoolAssumption DEF PoolAssumption, NoWorker, Workers
<1>3. Contexts BY <1>2 DEF FrontendInit, Contexts, ContextPerWorker
<1> QED BY <1>1, <1>3

LEMMA OthersContexts ==
  ASSUME RequestTyped, Contexts, UNCHANGED requestVars,
         \A w \in Workers : wpc[w] = "serving" => wpc'[w] = "serving"
  PROVE  RequestTyped' /\ Contexts'
<1>1. UNCHANGED <<ctx, mtx, ppc, crashed>> BY DEF requestVars
<1> QED BY <1>1 DEF RequestTyped, Contexts, ContextPerWorker

LEMMA AccessTyped == ASSUME NEW object, Access(object) PROVE crashed' \in BOOLEAN
  BY DEF Access

LEMMA RequestStep ==
  ASSUME Shape, RequestTyped, Contexts, NEW w \in Workers, Request(w) \/ CallReturns(w)
  PROVE  RequestTyped' /\ Contexts'
<1> USE DEF RequestTyped, Contexts, ContextPerWorker
<1>0. NoWorker \notin Workers
  BY PoolAssumption DEF PoolAssumption, NoWorker, Workers
<1>1. CASE FindContext(w)
  <2>1. /\ wpc[w] = "serving" /\ ppc[w] = "start" /\ mtx = NoWorker /\ wpc' = wpc /\ ctx' = ctx
        /\ crashed' \in BOOLEAN
    BY <1>1, AccessTyped DEF FindContext, vars
  <2>2. CASE ctx[w] = "none"
    <3>1. mtx' = w /\ ppc' = [ppc EXCEPT ![w] = "connecting"] BY <1>1, <2>2 DEF FindContext
    <3>2. RequestTyped' BY <2>1, <3>1
    <3>3. Contexts' BY <1>0, <2>1, <3>1
    <3> QED BY <3>2, <3>3
  <2>3. CASE ctx[w] # "none"
    <3>1. mtx' = mtx /\ ppc' = [ppc EXCEPT ![w] = "handling"] BY <1>1, <2>3 DEF FindContext
    <3>2. RequestTyped' BY <2>1, <3>1
    <3>3. Contexts' BY <1>0, <2>1, <2>3, <3>1
    <3> QED BY <3>2, <3>3
  <2> QED BY <2>2, <2>3
<1>2. CASE OpenContext(w)
  <2>1. /\ ppc[w] = "connecting" /\ mtx' = NoWorker /\ ppc' = [ppc EXCEPT ![w] = "handling"]
        /\ ctx' = [ctx EXCEPT ![w] = "kept"] /\ wpc' = wpc /\ crashed' \in BOOLEAN
    BY <1>2, AccessTyped DEF OpenContext, vars
  <2>3. RequestTyped' BY <2>1
  <2>4. Contexts' BY <1>0, <2>1
  <2> QED BY <2>3, <2>4
<1>3. CASE ServeRequest(w) \/ CallReturns(w)
  <2>1. /\ ppc[w] \in {"handling", "calling"}
        /\ UNCHANGED <<wpc, ctx, mtx>> /\ crashed' \in BOOLEAN
    BY <1>3, AccessTyped DEF ServeRequest, CallReturns, vars
  <2>2. PICK next \in {"calling", "registering"} : ppc' = [ppc EXCEPT ![w] = next]
    BY <1>3 DEF ServeRequest, CallReturns
  <2>3. RequestTyped' BY <2>1, <2>2
  <2>4. Contexts' BY <2>1, <2>2
  <2> QED BY <2>3, <2>4
<1>4. CASE RegisterAndReturn(w)
  <2>1. /\ ppc[w] = "registering" /\ ppc' = [ppc EXCEPT ![w] = "start"]
        /\ UNCHANGED <<ctx, mtx>> /\ crashed' \in BOOLEAN
    BY <1>4, AccessTyped DEF RegisterAndReturn
  <2>2. \A v \in Workers : v # w => wpc'[v] = wpc[v]
    BY <1>4 DEF RegisterAndReturn, TaskReturns, TaskThrows, workerVars, Shape, TypeOK
  <2>3. RequestTyped' BY <2>1
  <2>4. Contexts' BY <2>1, <2>2
  <2> QED BY <2>3, <2>4
<1> QED BY <1>1, <1>2, <1>3, <1>4 DEF Request

(* What holds of the whole process in every state.                         *)
FInv == Shape /\ BuildOrder /\ MainTyped /\ Connections /\ RequestTyped /\ Contexts

LEMMA FrontendInvInit == FrontendInit => FInv
<1>1. FrontendInit => Init BY DEF FrontendInit
<1>2. Init => Shape /\ BuildOrder BY ShapeInit DEF Init, BuildOrder
<1> QED BY <1>1, <1>2, MainInit, RequestInit DEF FInv

LEMMA FrontendInvStep == FInv /\ [FrontendNext]_frontendVars => FInv'
<1> SUFFICES ASSUME FInv, [FrontendNext]_frontendVars PROVE FInv'
  OBVIOUS
<1>1. Shape' /\ BuildOrder' BY PoolSteps, ShapeStep, BuildOrderStep DEF FInv
<1>2. scheduled \in Nat BY DEF FInv, Shape, TypeOK
<1>3. CASE Main \/ Signal
  <2>1. MainTyped' /\ Connections'
    BY <1>2, <1>3, LoopStep, PoolUseStep DEF FInv, Main
  <2>2. UNCHANGED requestVars
    BY <1>3 DEF Main, Signal, BuildThreadPool, StartServices, LoopTest, AcceptConnection,
                AcceptTimeout, AcceptedTooLate, CheckAccepted, CopyFails, Schedule, ScheduleFails,
                Push, Report, DeleteConnectionPool, DeleteMonitoring, Delete, DeleteThreadPool,
                mainVars
  <2>3. \A w \in Workers : wpc[w] = "serving" => wpc'[w] = "serving"
    BY <1>3, MainKeepsServing DEF FInv
  <2> QED BY <1>1, <2>1, <2>2, <2>3, OthersContexts DEF FInv
<1>4. ASSUME NEW v \in Workers, PoolStep(v) PROVE FInv'
  <2>1. UNCHANGED <<mainVars, requestVars, scheduled>>
    BY <1>4 DEF PoolStep, popWait, pop, Tests, SpuriousWorker, InterruptedWait, CheckStop, BeginTask,
                EndTask
  <2>2. MainTyped' /\ Connections'
    BY <2>1 DEF FInv, mainVars, signalVars, MainTyped, Connections, NoConnectionLost, InHand
  <2>3. \A w \in Workers : wpc[w] = "serving" => wpc'[w] = "serving"
    BY <1>4, PoolKeepsServing DEF FInv
  <2> QED BY <1>1, <2>1, <2>2, <2>3, OthersContexts DEF FInv
<1>5. ASSUME NEW v \in Workers, Request(v) \/ CallReturns(v) PROVE FInv'
  <2>1. UNCHANGED <<mainVars, scheduled>>
    BY <1>5 DEF Request, FindContext, OpenContext, ServeRequest, RegisterAndReturn, CallReturns,
                TaskReturns, TaskThrows, vars
  <2>2. MainTyped' /\ Connections'
    BY <2>1 DEF FInv, mainVars, signalVars, MainTyped, Connections, NoConnectionLost, InHand
  <2> QED BY <1>1, <1>5, <2>2, RequestStep DEF FInv
<1>6. CASE UNCHANGED frontendVars
  <2>1. UNCHANGED <<vars, mainVars, requestVars>> BY <1>6 DEF frontendVars
  <2>2. MainTyped' /\ Connections'
    BY <2>1 DEF FInv, mainVars, signalVars, vars, MainTyped, Connections, NoConnectionLost, InHand
  <2>3. UNCHANGED <<requestVars, wpc>> BY <2>1 DEF vars
  <2> QED BY <1>1, <2>2, <2>3, OthersContexts DEF FInv
<1> QED BY <1>3, <1>4, <1>5, <1>6 DEF FrontendNext

(* Every variable of the process has a value its code gives it, and the    *)
(* bounds on connections and failures are kept (storm-frontend.cpp,        *)
(* DBConnectionPool.cpp).                                                  *)
THEOREM FrontendTypeCorrect == FrontendSpec => []FrontendTypeOK
<1>1. FInv => FrontendTypeOK
  BY DEF FInv, Shape, MainTyped, RequestTyped, FrontendTypeOK
<1> QED BY <1>1, FrontendInvInit, FrontendInvStep, PTL DEF FrontendSpec

(* The accept loop loses no connection: each one accepted is scheduled or  *)
(* in hand, but for one per failure and at most one per stop signal (run   *)
(* in storm-frontend.cpp).                                                 *)
THEOREM ConnectionsKept == FrontendSpec => []NoConnectionLost
<1>1. FInv => NoConnectionLost
  BY DEF FInv, Connections
<1> QED BY <1>1, FrontendInvInit, FrontendInvStep, PTL DEF FrontendSpec

(* A database context is used by the worker it was opened for and by no    *)
(* other, and one thread at a time is inside getConnection()               *)
(* (DBConnectionPool.cpp).                                                 *)
THEOREM ContextsPrivate == FrontendSpec => []ContextPerWorker
<1>1. FInv => ContextPerWorker
  BY DEF FInv, Contexts
<1> QED BY <1>1, FrontendInvInit, FrontendInvStep, PTL DEF FrontendSpec

------------------------------------------------------------------------------
(* main() and what its teardown takes away.                                *)

Teardown == {"deleteMonitoring", "deletePool", "exit"}

(* where the pool is at each place of main(), and which objects are there  *)
Drives ==
  /\ mpc = "build" => opc \in {"building", "unwinding", "joining", "gone"}
  /\ mpc \in {"build", "newPool"} => scheduled = 0
  /\ mpc \in {"newPool", "loop", "accept", "accepted", "copied", "report", "deleteDB",
              "deleteMonitoring"} => opc = "idle"
  /\ mpc = "pushing" => opc \in {"push", "pushWait"}
  /\ mpc = "deletePool" => opc \in {"idle", "interrupting", "joining"}
  /\ mpc = "exit" => opc = "gone"
  /\ mpc \notin {"build", "newPool"} \cup Teardown => alive = Objects
  /\ mpc = "deleteMonitoring" => alive = {"monitoring"}
  /\ crashed => mpc \in Teardown

(* Before the first task no worker is inside a request.                    *)
LEMMA NobodyServesYet ==
  ASSUME TaskConservation, Shape, scheduled = 0, NEW w \in Workers
  PROVE  wpc[w] # "serving"
<1>1. Len(queue) \in Nat /\ scheduled \in Int BY DEF Shape, TypeOK
<1>2. taken = 0 BY <1>1 DEF TaskConservation, QueueInOrder, taken
<1>3. wtask[w] = 0 BY <1>2 DEF TaskConservation, HeldOnce
<1> QED BY <1>3 DEF TaskConservation, HeldOnce, HoldsTask

LEMMA MainDrives ==
  ASSUME Shape, MainTyped, Drives, Main \/ Signal
  PROVE  Drives'
<1> USE DEF Drives, Teardown, MainTyped, MainPc
<1>r. UNCHANGED <<ctx, mtx, ppc, crashed>>
  BY DEF Main, Signal, BuildThreadPool, StartServices, LoopTest, AcceptConnection, AcceptTimeout,
         AcceptedTooLate, CheckAccepted, CopyFails, Schedule, ScheduleFails, Push, Report,
         DeleteConnectionPool, DeleteMonitoring, Delete, DeleteThreadPool, mainVars, requestVars
<1>1. CASE BuildThreadPool
  <2>1. mpc = "build" /\ alive' = alive BY <1>1 DEF BuildThreadPool
  <2>2. scheduled' = scheduled
    BY <1>1 DEF BuildThreadPool, CreateThread, Built, CreateFails, Unwind, Join, vars
  <2>3. CASE opc = "gone"
    <3>1. mpc' = "exit" /\ opc' = "gone" BY <1>1, <2>3 DEF BuildThreadPool, vars
    <3> QED BY <1>r, <2>1, <2>2, <3>1
  <2>4. CASE opc # "gone" /\ opc' = "idle"
    <3>1. mpc' = "newPool" BY <1>1, <2>4 DEF BuildThreadPool
    <3> QED BY <1>r, <2>1, <2>2, <2>4, <3>1
  <2>5. CASE opc # "gone" /\ opc' # "idle"
    <3>1. mpc' = "build" BY <1>1, <2>5 DEF BuildThreadPool
    <3>2. opc' \in {"building", "unwinding", "joining", "gone"}
      BY <1>1, <2>1, <2>5 DEF BuildThreadPool, CreateThread, Built, CreateFails, Unwind, Join
    <3> QED BY <1>r, <2>1, <2>2, <3>1, <3>2
  <2> QED BY <2>3, <2>4, <2>5
<1>2. CASE \/ StartServices \/ LoopTest \/ AcceptConnection \/ AcceptTimeout \/ AcceptedTooLate
           \/ CheckAccepted \/ CopyFails \/ ScheduleFails \/ Signal \/ Report
  <2>1. UNCHANGED <<opc, scheduled>>
    BY <1>2 DEF StartServices, LoopTest, AcceptConnection, AcceptTimeout, AcceptedTooLate,
       CheckAccepted, CopyFails, ScheduleFails, Signal, Report, vars
  <2> QED BY <1>r, <1>2, <2>1 DEF StartServices, LoopTest, AcceptConnection, AcceptTimeout,
          AcceptedTooLate, CheckAccepted, CopyFails, ScheduleFails, Signal, Report
<1>3. CASE Schedule BY <1>r, <1>3 DEF Schedule, schedule
<1>4. CASE Push
  <2>1. mpc = "pushing" /\ mpc' = (IF opc' = "idle" THEN "loop" ELSE "pushing") /\ alive' = alive
    BY <1>4 DEF Push
  <2>2. opc' \in {"idle", "push", "pushWait"} BY <1>4 DEF Push, pushWait, push, SpuriousOwner
  <2> QED BY <1>r, <2>1, <2>2
<1>5. CASE DeleteConnectionPool \/ DeleteMonitoring
  <2>1. UNCHANGED <<opc, scheduled>>
    BY <1>5 DEF DeleteConnectionPool, DeleteMonitoring, Delete, vars
  <2> QED BY <1>r, <1>5, <2>1 DEF DeleteConnectionPool, DeleteMonitoring, Delete, Objects
<1>6. CASE DeleteThreadPool
  <2>1. /\ mpc = "deletePool" /\ mpc' = (IF opc' = "gone" THEN "exit" ELSE "deletePool")
        /\ alive' = alive
    BY <1>6 DEF DeleteThreadPool
  <2>2. opc' \in {"interrupting", "joining", "gone"}
    BY <1>6 DEF DeleteThreadPool, SetStop, Interrupt, Join
  <2> QED BY <1>r, <2>1, <2>2
<1> QED BY <1>1, <1>2, <1>3, <1>4, <1>5, <1>6 DEF Main

LEMMA WorkerDrives ==
  ASSUME Shape, TaskConservation, MainTyped, Contexts, Drives,
         NEW w \in Workers, PoolStep(w) \/ Request(w) \/ CallReturns(w)
  PROVE  Drives'
<1>1. UNCHANGED <<mpc, alive, scheduled>>
  BY DEF PoolStep, Request, popWait, pop, Tests, SpuriousWorker, InterruptedWait, CheckStop, BeginTask,
         EndTask, FindContext, OpenContext, ServeRequest, RegisterAndReturn, CallReturns,
         TaskReturns, TaskThrows, vars, mainVars
<1>2. opc' = opc \/ (opc = "pushWait" /\ opc' = "push")
  BY DEF PoolStep, Request, popWait, pop, Tests, NotifyNotFull, SpuriousWorker, InterruptedWait, CheckStop,
         BeginTask, EndTask, FindContext, OpenContext, ServeRequest, RegisterAndReturn, CallReturns,
         TaskReturns, TaskThrows, vars
<1>3. crashed' => mpc \in Teardown
  <2>1. CASE PoolStep(w) BY <2>1 DEF PoolStep, requestVars, Drives
  <2>2. CASE Request(w) \/ CallReturns(w)
    <3>1. wpc[w] = "serving"
      BY <2>2 DEF Request, FindContext, OpenContext, ServeRequest, RegisterAndReturn, CallReturns,
                  Contexts, ContextPerWorker
    <3>2. mpc \notin {"build", "newPool"} BY <3>1, NobodyServesYet DEF Drives
    <3>3. \E object \in Objects : Access(object)
      BY <2>2 DEF Request, FindContext, OpenContext, ServeRequest, RegisterAndReturn, CallReturns,
                  Objects
    <3>4. CASE mpc \notin Teardown
      <4>1. alive = Objects BY <3>2, <3>4 DEF Drives
      <4> QED BY <3>3, <4>1 DEF Access
    <3> QED BY <3>4
  <2> QED BY <2>1, <2>2
<1> QED BY <1>1, <1>2, <1>3 DEF Drives

LEMMA DrivesStep == Shape /\ TaskConservation /\ FInv /\ Drives /\ [FrontendNext]_frontendVars => Drives'
<1> SUFFICES ASSUME Shape, TaskConservation, FInv, Drives, [FrontendNext]_frontendVars
             PROVE  Drives'
  OBVIOUS
<1>1. CASE Main \/ Signal BY <1>1, MainDrives DEF FInv
<1>2. ASSUME NEW w \in Workers, PoolStep(w) \/ Request(w) \/ CallReturns(w) PROVE Drives'
  BY <1>2, WorkerDrives DEF FInv
<1>3. CASE UNCHANGED frontendVars BY <1>3 DEF frontendVars, vars, mainVars, requestVars, Drives
<1> QED BY <1>1, <1>2, <1>3 DEF FrontendNext

(* a worker that can go on by itself, inside a request and outside         *)
Goes(w) == \/ wpc[w] \in Working \ {"serving"}
           \/ wpc[w] = "waiting" /\ w \in interrupted
           \/ /\ wpc[w] = "serving" /\ ppc[w] # "calling"
              /\ ppc[w] = "start" => mtx = NoWorker

(* Whatever main() waits for in the pool - a place in the queue, or the    *)
(* end of a worker - somebody can go on, or is in a call to the backend,   *)
(* the authorization service or the database.                              *)
SomebodyGoes ==
  opc = "pushWait" \/ (opc = "joining" /\ oi < NThreads /\ wpc[oi] \notin {"exited", "unborn"})
    => \E w \in Workers : Goes(w) \/ (wpc[w] = "serving" /\ ppc[w] = "calling")

LEMMA GoesOn ==
  ASSUME Shape, RequestTyped, Contexts, NobodyStuck
  PROVE  SomebodyGoes
<1> DEFINE OnCall(v) == wpc[v] = "serving" /\ ppc[v] = "calling"
<1>1. ASSUME NEW w \in Workers, wpc[w] \in Working
      PROVE  \E v \in Workers : Goes(v) \/ OnCall(v)
  <2>1. CASE wpc[w] # "serving" \/ ppc[w] # "start" \/ mtx = NoWorker
    BY <1>1, <2>1 DEF Goes, Working
  <2>2. CASE wpc[w] = "serving" /\ ppc[w] = "start" /\ mtx # NoWorker
    <3>1. mtx \in Workers /\ ppc[mtx] = "connecting"
      BY <2>2 DEF RequestTyped, Contexts, ContextPerWorker
    <3>2. wpc[mtx] = "serving" BY <3>1 DEF Contexts
    <3> QED BY <3>1, <3>2 DEF Goes
  <2> QED BY <2>1, <2>2
<1>2. CASE opc = "pushWait"
  <2>1. PICK w \in Workers : wpc[w] \in Working BY <1>2 DEF NobodyStuck, At
  <2>2. \E v \in Workers : Goes(v) \/ OnCall(v) BY <1>1, <2>1
  <2> QED BY <2>2 DEF SomebodyGoes
<1>3. CASE opc = "joining" /\ oi < NThreads /\ wpc[oi] \notin {"exited", "unborn"}
  <2>1. oi \in Workers
    BY <1>3, PoolAssumption DEF PoolAssumption, Shape, TypeOK, OwnerOK, Workers
  <2>2. wpc[oi] \in Working \/ (wpc[oi] = "waiting" /\ oi \in interrupted)
    BY <1>3, <2>1 DEF NobodyStuck
  <2>3. CASE wpc[oi] \in Working
    <3>1. \E v \in Workers : Goes(v) \/ OnCall(v) BY <1>1, <2>1, <2>3
    <3> QED BY <3>1 DEF SomebodyGoes
  <2>4. CASE wpc[oi] = "waiting" /\ oi \in interrupted
    <3>1. Goes(oi) BY <2>4 DEF Goes
    <3> QED BY <2>1, <3>1 DEF SomebodyGoes
  <2> QED BY <2>2, <2>3, <2>4
<1> QED BY <1>2, <1>3 DEF SomebodyGoes

(* While the server runs no request finds an object of main() gone, and    *)
(* when main() returns no worker is left; between the two, in the teardown,*)
(* a request may find them gone.                                           *)
OnlyTeardownCrashes ==
  /\ crashed => mpc \in Teardown
  /\ mpc = "exit" => At(WorkerPc \ {"exited", "unborn"}) = {}

(* The whole process: what the pool and getConnection() promise separately *)
(* leaves main() waiting for nobody who could not go on, and the requests  *)
(* in want of nothing before the teardown begins (storm-frontend.cpp).     *)
THEOREM ProcessSound == FrontendSpec => [](SomebodyGoes /\ OnlyTeardownCrashes)
<1> DEFINE I == Inv /\ Joined /\ FInv /\ Drives
<1>1. FrontendInit => I
  <2> SUFFICES ASSUME FrontendInit PROVE I OBVIOUS
  <2>1. Init BY DEF FrontendInit
  <2>2. Inv BY <2>1, InvInit
  <2>3. Joined
    BY <2>1 DEF Init, Joined
  <2>4. Drives BY <2>1 DEF FrontendInit, Init, Drives, Teardown
  <2> QED BY <2>2, <2>3, <2>4, FrontendInvInit
<1>2. I /\ [FrontendNext]_frontendVars => I'
  <2> SUFFICES ASSUME I, [FrontendNext]_frontendVars PROVE I' OBVIOUS
  <2>1. [Next]_vars BY PoolSteps
  <2>2. Inv' BY <2>1, InvStep
  <2>3. Joined' BY <2>1, JoinedStep DEF Inv
  <2>4. FInv' BY FrontendInvStep
  <2>5. Drives' BY DrivesStep DEF Inv
  <2> QED BY <2>2, <2>3, <2>4, <2>5
<1>3. I => SomebodyGoes /\ OnlyTeardownCrashes
  <2> SUFFICES ASSUME I PROVE SomebodyGoes /\ OnlyTeardownCrashes OBVIOUS
  <2>1. NobodyStuck BY CalledSuffices
  <2>2. SomebodyGoes BY <2>1, GoesOn DEF FInv
  <2>3. OnlyTeardownCrashes BY DEF Drives, Joined, At, OnlyTeardownCrashes
  <2> QED BY <2>2, <2>3
<1> QED BY <1>1, <1>2, <1>3, PTL DEF FrontendSpec

==============================================================================
