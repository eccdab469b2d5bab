-------------------------- MODULE ThreadPoolProofs ---------------------------
(***************************************************************************)
(* Theorems about ThreadPool, for every number of threads, every queue     *)
(* capacity and every number of tasks.                                     *)
(***************************************************************************)
EXTENDS ThreadPool, FiniteSetTheorems, SequenceTheorems, TLAPS

(* The loop index of the owner is in range, and _stop is set exactly by    *)
(* the phases of the owner that follow its assignment.                     *)
OwnerOK ==
  /\ opc = "unwinding" => oi < NThreads
  /\ opc # "unwinding" => oi >= 0
  /\ stop <=> opc \in {"unwinding", "interrupting", "joining", "gone"}

Shape == TypeOK /\ OwnerOK

LEMMA WorkersFacts == /\ Workers \subseteq Int
                      /\ IsFiniteSet(Workers)
                      /\ Cardinality(Workers) = NThreads
<1>1. NThreads \in Nat \ {0}
  BY PoolAssumption DEF PoolAssumption
<1>2. Workers \subseteq Int
  BY <1>1, SMT DEF Workers
<1>3. IsFiniteSet(Workers) /\ Cardinality(Workers) = NThreads
  BY <1>1, FS_Interval, SMT DEF Workers
<1>4. QED
  BY <1>2, <1>3

LEMMA ShapeInit == Init => Shape
<1> SUFFICES ASSUME Init
             PROVE  Shape
  OBVIOUS
<1>1. queue \in Seq(Nat)
  BY EmptySeq DEF Init
<1>2. /\ wpc \in [Workers -> WorkerPc]
      /\ wtask \in [Workers -> Nat]
  BY DEF Init, WorkerPc
<1>3. /\ stop \in BOOLEAN /\ aborted \in BOOLEAN /\ interrupted \subseteq Workers
      /\ opc \in OwnerPc /\ finished \subseteq Nat /\ dropped \subseteq Nat
  BY Zenon DEF Init, OwnerPc
<1>4. oi \in -1 .. NThreads /\ activeThreads \in Int /\ scheduled \in Nat
  BY PoolAssumption, SMT DEF PoolAssumption, Init
<1>5. OwnerOK
  BY DEF Init, OwnerOK
<1>6. QED
  BY <1>1, <1>2, <1>3, <1>4, <1>5 DEF Shape, TypeOK

LEMMA ShapeStep == Shape /\ [Next]_vars => Shape'
<1> SUFFICES ASSUME Shape, [Next]_vars
             PROVE  Shape'
  OBVIOUS
<1> USE PoolAssumption DEF PoolAssumption, Shape, TypeOK, OwnerOK, Workers, WorkerPc, OwnerPc,
                           workerVars, historyVars, HoldsTask
<1>1. CASE CreateThread
  BY <1>1 DEF CreateThread
<1>2. CASE Built
  BY <1>2 DEF Built
<1>3. CASE CreateFails
  BY <1>3 DEF CreateFails
<1>4. CASE Unwind
  <2>1. interrupted' \subseteq Workers
    <3>1. \/ oi >= 0 /\ interrupted' = interrupted \cup ({oi} \ At({"unborn"}))
          \/ interrupted' = interrupted
      BY <1>4, Zenon DEF Unwind
    <3>2. oi >= 0 => oi \in 0 .. (NThreads - 1)
      BY <1>4 DEF Unwind
    <3>3. interrupted \subseteq 0 .. (NThreads - 1)
      OBVIOUS
    <3>4. interrupted' \subseteq 0 .. (NThreads - 1)
      BY ONLY <3>1, <3>2, <3>3, Zenon
    <3>5. QED
      BY ONLY <3>4 DEF Workers
  <2>2. oi' \in -1 .. NThreads /\ (opc' = "unwinding" => oi' < NThreads)
        /\ (opc' # "unwinding" => oi' >= 0) /\ opc' \in {"unwinding", "joining"}
    BY <1>4 DEF Unwind
  <2>3. QED
    BY <1>4, <2>1, <2>2 DEF Unwind
<1>5. CASE schedule
  BY <1>5 DEF schedule
<1>6. CASE pushWait
  BY <1>6 DEF pushWait
<1>7. CASE push
  <2>1. wpc' \in [Workers -> WorkerPc]
    BY <1>7 DEF push, NotifyNotEmpty, At
  <2>2. queue' \in Seq(Nat) /\ scheduled' \in Nat
    BY <1>7, AppendProperties DEF push
  <2>3. QED
    BY <1>7, <2>1, <2>2 DEF push
<1>8. CASE SpuriousOwner
  BY <1>8 DEF SpuriousOwner
<1>9. CASE SetStop
  BY <1>9 DEF SetStop
<1>10. CASE Interrupt
  <2>1. opc = "interrupting" => oi >= 0
    OBVIOUS
  <2>2. interrupted' \subseteq Workers
    <3>1. \/ oi < NThreads /\ interrupted' = interrupted \cup {oi}
          \/ interrupted' = interrupted
      BY <1>10, Zenon DEF Interrupt
    <3>2. oi < NThreads => oi \in 0 .. (NThreads - 1)
      BY <1>10, <2>1 DEF Interrupt
    <3>3. interrupted \subseteq 0 .. (NThreads - 1)
      OBVIOUS
    <3>4. interrupted' \subseteq 0 .. (NThreads - 1)
      BY ONLY <3>1, <3>2, <3>3, Zenon
    <3>5. QED
      BY ONLY <3>4 DEF Workers
  <2>3. oi' \in -1 .. NThreads /\ (opc' # "unwinding" => oi' >= 0)
    BY <1>10, <2>1 DEF Interrupt
  <2>4. QED
    BY <1>10, <2>2, <2>3 DEF Interrupt
<1>11. CASE Join
  BY <1>11 DEF Join
<1>12. ASSUME NEW w \in Workers, Worker(w)
       PROVE  Shape'
  <2>1. CASE popWait(w)
    BY <2>1 DEF popWait
  <2>2. CASE pop(w)
    <3>1. Head(queue) \in Nat /\ Tail(queue) \in Seq(Nat)
      BY <2>2, HeadTailProperties DEF pop
    <3>2. wtask' \in [Workers -> Nat] /\ wpc' \in [Workers -> WorkerPc] /\ queue' \in Seq(Nat)
      BY <2>2, <3>1 DEF pop
    <3>3. opc' \in OwnerPc /\ (opc' = opc \/ (opc = "pushWait" /\ opc' = "push"))
      BY <2>2 DEF pop, NotifyNotFull
    <3>4. QED
      BY <2>2, <3>2, <3>3 DEF pop
  <2>3. CASE SpuriousWorker(w)
    BY <2>3 DEF SpuriousWorker
  <2>4. CASE InterruptedWait(w)
    BY <2>4 DEF InterruptedWait
  <2>5. CASE CheckStop(w)
    <3>1. CASE /\ stop
               /\ wpc' = [wpc EXCEPT ![w] = "exited"]
               /\ wtask' = [wtask EXCEPT ![w] = 0]
               /\ dropped' = dropped \cup {wtask[w]}
      BY <2>5, <3>1 DEF CheckStop
    <3>2. CASE /\ ~stop
               /\ wpc' = [wpc EXCEPT ![w] = "cleared"]
               /\ UNCHANGED <<wtask, dropped>>
      BY <2>5, <3>2 DEF CheckStop
    <3>3. QED
      BY <2>5, <3>1, <3>2, Zenon DEF CheckStop
  <2>6. CASE BeginTask(w)
    BY <2>6 DEF BeginTask
  <2>7. CASE TaskReturns(w)
    BY <2>7 DEF TaskReturns
  <2>8. CASE TaskThrows(w)
    BY <2>8 DEF TaskThrows
  <2>9. CASE EndTask(w)
    BY <2>9 DEF EndTask
  <2>10. QED
    BY <1>12, <2>1, <2>2, <2>3, <2>4, <2>5, <2>6, <2>7, <2>8, <2>9 DEF Worker
<1>13. CASE UNCHANGED vars
  BY <1>13 DEF vars
<1>14. QED
  BY <1>1, <1>2, <1>3, <1>4, <1>5, <1>6, <1>7, <1>8, <1>9, <1>10, <1>11,
     <1>12, <1>13 DEF Next, Owner

(* The state of the pool has the shape the specification gives it.         *)
THEOREM TypeCorrect == Spec => []TypeOK
<1>1. Init => Shape
  BY ShapeInit
<1>2. Shape /\ [Next]_vars => Shape'
  BY ShapeStep
<1>3. Shape => TypeOK
  BY DEF Shape
<1>4. QED
  BY <1>1, <1>2, <1>3, PTL DEF Spec

(* The constructor has not created the threads its index has not reached.  *)
BuildOrder ==
  opc = "building" => \A w \in Workers : w >= oi => wpc[w] = "unborn"

LEMMA BuildOrderStep == Shape /\ BuildOrder /\ [Next]_vars => BuildOrder'
<1> SUFFICES ASSUME Shape, BuildOrder, [Next]_vars, opc' = "building"
             PROVE  \A w \in Workers : w >= oi' => wpc'[w] = "unborn"
  BY DEF BuildOrder
<1>1. CASE CreateThread
  BY <1>1 DEF CreateThread, BuildOrder, Shape, TypeOK, Workers
<1>2. CASE UNCHANGED vars
  BY <1>2 DEF vars, BuildOrder
<1>3. ASSUME NEW w \in Workers, Worker(w)
      PROVE  \A v \in Workers : v >= oi' => wpc'[v] = "unborn"
  <2>1. opc = "building" /\ oi' = oi
    BY <1>3 DEF Worker, popWait, pop, Tests, NotifyNotFull, SpuriousWorker,
                InterruptedWait, CheckStop, BeginTask, TaskReturns, TaskThrows,
                EndTask
  <2>2. wpc[w] # "unborn"
    BY <1>3 DEF Worker, popWait, pop, Tests, SpuriousWorker, InterruptedWait,
                CheckStop, BeginTask, TaskReturns, TaskThrows, EndTask
  <2>3. \A v \in Workers : v # w => wpc'[v] = wpc[v]
    BY <1>3 DEF Worker, popWait, pop, Tests, SpuriousWorker, InterruptedWait,
                CheckStop, BeginTask, TaskReturns, TaskThrows, EndTask,
                workerVars, Shape, TypeOK
  <2>4. QED
    BY <2>1, <2>2, <2>3 DEF BuildOrder
<1>4. CASE Owner /\ ~CreateThread
  BY <1>4 DEF Owner, Built, CreateFails, Unwind, schedule, pushWait, push,
              SpuriousOwner, SetStop, Interrupt, Join
<1>5. QED
  BY <1>1, <1>2, <1>3, <1>4 DEF Next, Owner

------------------------------------------------------------------------------
(* Conservation of tasks.                                                  *)

LEMMA ConservationInit == Init => TaskConservation
<1> SUFFICES ASSUME Init
             PROVE  TaskConservation
  OBVIOUS
<1>1. Len(queue) = 0 /\ taken = 0
  <2>1. Len(queue) = 0
    BY EmptySeq DEF Init
  <2>2. scheduled = 0
    BY DEF Init
  <2>3. QED
    BY <2>1, <2>2, Z3 DEF taken
<1>2. QueueInOrder /\ NoneLost
  BY <1>1 DEF QueueInOrder, NoneLost
<1>3. HeldOnce
  <2>1. \A w \in Workers : wtask[w] = 0 /\ wpc[w] \notin HoldsTask
    BY DEF Init, HoldsTask
  <2>2. QED
    BY <1>1, <2>1 DEF HeldOnce
<1>4. DisposedOnce /\ dropped = {}
  BY <1>1 DEF Init, DisposedOnce
<1>5. QED
  BY <1>2, <1>3, <1>4 DEF TaskConservation

(* a step that moves no task *)
LEMMA QuietStep ==
  ASSUME TaskConservation, stop => stop',
         UNCHANGED <<queue, wtask, scheduled, finished, dropped>>,
         \A w \in Workers : wpc'[w] \in HoldsTask <=> wpc[w] \in HoldsTask
  PROVE  TaskConservation'
<1>1. taken' = taken
  BY DEF taken
<1>2. QueueInOrder' /\ DisposedOnce' /\ NoneLost'
  BY <1>1 DEF TaskConservation, QueueInOrder, DisposedOnce, NoneLost
<1>3. HeldOnce'
  BY <1>1 DEF TaskConservation, HeldOnce
<1>4. (dropped # {} => stop)'
  BY DEF TaskConservation
<1>5. QED
  BY <1>2, <1>3, <1>4 DEF TaskConservation

LEMMA ConservationPush ==
  ASSUME Shape, TaskConservation, push
  PROVE  TaskConservation'
<1>1. /\ queue \in Seq(Nat) /\ scheduled \in Nat
      /\ queue' = Append(queue, scheduled + 1) /\ scheduled' = scheduled + 1
      /\ UNCHANGED <<wtask, finished, dropped, stop>>
  BY DEF Shape, TypeOK, push, historyVars
<1>2. /\ Len(queue') = Len(queue) + 1
      /\ \A i \in 1 .. Len(queue) : queue'[i] = queue[i]
      /\ queue'[Len(queue) + 1] = scheduled + 1
      /\ Len(queue) \in Nat
  BY <1>1, AppendProperties
<1>3. taken' = taken /\ taken \in Int
  BY <1>1, <1>2 DEF taken
<1>4. QueueInOrder'
  BY <1>1, <1>2, <1>3 DEF TaskConservation, QueueInOrder, taken
<1>5. \A w \in Workers : wpc'[w] \in HoldsTask <=> wpc[w] \in HoldsTask
  BY DEF push, NotifyNotEmpty, At, HoldsTask, Shape, TypeOK
<1>6. HeldOnce'
  BY <1>1, <1>3, <1>5 DEF TaskConservation, HeldOnce
<1>7. DisposedOnce' /\ NoneLost'
  BY <1>1, <1>3 DEF TaskConservation, DisposedOnce, NoneLost
<1>8. (dropped # {} => stop)'
  BY <1>1 DEF TaskConservation
<1>9. QED
  BY <1>4, <1>6, <1>7, <1>8 DEF TaskConservation

LEMMA ConservationPop ==
  ASSUME Shape, TaskConservation, NEW w \in Workers, pop(w)
  PROVE  TaskConservation'
<1>1. /\ queue \in Seq(Nat) /\ queue # <<>> /\ scheduled \in Nat
      /\ queue' = Tail(queue)
      /\ wtask' = [wtask EXCEPT ![w] = Head(queue)]
      /\ wpc' = [wpc EXCEPT ![w] = "popped"]
      /\ wpc[w] \in Ready
      /\ wtask \in [Workers -> Nat] /\ wpc \in [Workers -> WorkerPc]
      /\ UNCHANGED <<scheduled, finished, dropped, stop>>
  BY DEF Shape, TypeOK, pop, Tests, Ready, historyVars
<1>2. /\ Len(queue) \in Nat /\ Len(queue) >= 1
      /\ Head(queue) = queue[1]
      /\ Len(queue') = Len(queue) - 1
      /\ \A i \in 1 .. Len(queue') : queue'[i] = queue[i + 1]
  BY <1>1, HeadTailProperties, EmptySeq, LenProperties
<1>3. taken \in Nat /\ taken' = taken + 1 /\ Head(queue) = taken + 1
  BY <1>1, <1>2 DEF taken, TaskConservation, QueueInOrder
<1>4. QueueInOrder'
  BY <1>1, <1>2, <1>3 DEF TaskConservation, QueueInOrder
<1>5. /\ wtask'[w] = taken + 1
      /\ wtask[w] = 0
      /\ \A v \in Workers \ {w} : wtask'[v] = wtask[v] /\ wpc'[v] = wpc[v]
      /\ wpc'[w] = "popped"
  BY <1>1, <1>3 DEF TaskConservation, HeldOnce, HoldsTask, Ready
<1>6. HeldOnce'
  BY <1>3, <1>5 DEF TaskConservation, HeldOnce, HoldsTask
<1>7. DisposedOnce'
  BY <1>1, <1>3, <1>5 DEF TaskConservation, DisposedOnce
<1>8. NoneLost'
  <2>1. SUFFICES ASSUME NEW t \in 1 .. taken + 1, t \notin finished \cup dropped
                 PROVE  \E v \in Workers : wtask'[v] = t
    BY <1>1, <1>3 DEF NoneLost
  <2>2. CASE t = taken + 1
    BY <1>5, <2>2
  <2>3. CASE t # taken + 1
    <3>1. t \in 1 .. taken
      BY <1>3, <2>3
    <3>2. PICK v \in Workers : wtask[v] = t
      BY <2>1, <3>1 DEF TaskConservation, NoneLost
    <3>3. v # w
      BY <1>5, <3>1, <3>2
    <3>4. QED
      BY <1>5, <3>2, <3>3
  <2>4. QED
    BY <2>2, <2>3
<1>9. (dropped # {} => stop)'
  BY <1>1 DEF TaskConservation
<1>10. QED
  BY <1>4, <1>6, <1>7, <1>8, <1>9 DEF TaskConservation

(* a worker disposes of its task: it becomes finished or dropped *)
LEMMA Disposal ==
  ASSUME Shape, TaskConservation, NEW w \in Workers,
         wpc[w] \in HoldsTask,
         wtask' = [wtask EXCEPT ![w] = 0],
         NEW pc \in WorkerPc \ HoldsTask, wpc' = [wpc EXCEPT ![w] = pc],
         UNCHANGED <<queue, scheduled>>, stop => stop',
         \/ finished' = finished \cup {wtask[w]} /\ dropped' = dropped
         \/ dropped' = dropped \cup {wtask[w]} /\ finished' = finished /\ stop
  PROVE  TaskConservation'
<1>1. /\ wtask \in [Workers -> Nat] /\ wpc \in [Workers -> WorkerPc]
      /\ taken' = taken /\ taken \in Nat
  <2>1. scheduled - Len(queue) \in Nat
    BY LenProperties DEF Shape, TypeOK, TaskConservation, QueueInOrder, taken
  <2>2. QED
    BY <2>1 DEF Shape, TypeOK, taken
<1>2. /\ wtask'[w] = 0 /\ wpc'[w] \notin HoldsTask
      /\ \A v \in Workers \ {w} : wtask'[v] = wtask[v] /\ wpc'[v] = wpc[v]
  BY <1>1
<1>3. wtask[w] \in 1 .. taken /\ \A v \in Workers \ {w} : wtask[v] # wtask[w]
  BY <1>1 DEF TaskConservation, HeldOnce
<1>4. QueueInOrder'
  BY <1>1 DEF TaskConservation, QueueInOrder
<1>5. HeldOnce'
  BY <1>1, <1>2 DEF TaskConservation, HeldOnce
<1>6. /\ finished' \cap dropped' = {}
      /\ finished' \cup dropped' = (finished \cup dropped) \cup {wtask[w]}
  BY DEF TaskConservation, DisposedOnce
<1>7. DisposedOnce'
  <2>1. finished' \cup dropped' \subseteq 1 .. taken'
    BY <1>1, <1>3, <1>6 DEF TaskConservation, DisposedOnce
  <2>2. \A v \in Workers : wtask'[v] \notin finished' \cup dropped'
    BY <1>1, <1>2, <1>3, <1>6 DEF TaskConservation, DisposedOnce
  <2>3. QED
    BY <1>6, <2>1, <2>2 DEF DisposedOnce
<1>8. NoneLost'
  BY <1>1, <1>2, <1>6 DEF TaskConservation, NoneLost
<1>9. (dropped # {} => stop)'
  BY DEF TaskConservation
<1>10. QED
  BY <1>4, <1>5, <1>7, <1>8, <1>9 DEF TaskConservation

LEMMA ConservationStep ==
  Shape /\ BuildOrder /\ TaskConservation /\ [Next]_vars => TaskConservation'
<1> SUFFICES ASSUME Shape, BuildOrder, TaskConservation, [Next]_vars
             PROVE  TaskConservation'
  OBVIOUS
<1>1. CASE push
  BY <1>1, ConservationPush
<1>2. CASE UNCHANGED vars
  BY <1>2, QuietStep DEF vars
<1>3. CASE Owner /\ ~push
  <2> USE DEF historyVars, workerVars, HoldsTask
  <2>1. /\ UNCHANGED <<queue, wtask, scheduled, finished, dropped>>
        /\ stop => stop'
    BY <1>3 DEF Owner, CreateThread, Built, CreateFails, Unwind, schedule,
                pushWait, SpuriousOwner, SetStop, Interrupt, Join
  <2>2. \A w \in Workers : wpc'[w] \in HoldsTask <=> wpc[w] \in HoldsTask
    <3>1. CASE CreateThread
      <4>1. wpc' = [wpc EXCEPT ![oi] = "pop"]
        BY <3>1 DEF CreateThread
      <4>2. oi \in Workers
        BY <3>1, PoolAssumption
           DEF CreateThread, Shape, TypeOK, OwnerOK, Workers, PoolAssumption
      <4>3. wpc[oi] = "unborn"
        BY <3>1, <4>2 DEF CreateThread, BuildOrder, Workers
      <4>4. QED
        BY <4>1, <4>3 DEF Shape, TypeOK
    <3>2. CASE UNCHANGED wpc
      BY <3>2
    <3>3. QED
      BY <1>3, <3>1, <3>2 DEF Owner, Built, CreateFails, Unwind, schedule,
                pushWait, SpuriousOwner, SetStop, Interrupt, Join
  <2>3. QED
    BY <2>1, <2>2, QuietStep
<1>4. ASSUME NEW w \in Workers, Worker(w)
      PROVE  TaskConservation'
  <2> USE <1>4 DEF historyVars, workerVars
  <2>1. CASE pop(w)
    BY <2>1, ConservationPop
  <2>2. CASE CheckStop(w) /\ stop
    BY <2>2, Disposal DEF CheckStop, HoldsTask, WorkerPc
  <2>3. CASE TaskReturns(w)
    BY <2>3, Disposal DEF TaskReturns, HoldsTask, WorkerPc
  <2>4. CASE \/ popWait(w) \/ SpuriousWorker(w) \/ InterruptedWait(w)
             \/ CheckStop(w) /\ ~stop
             \/ BeginTask(w) \/ TaskThrows(w) \/ EndTask(w)
    <3>1. /\ UNCHANGED <<queue, wtask, scheduled, finished, dropped>>
          /\ stop => stop'
      BY <2>4 DEF popWait, Tests, SpuriousWorker, InterruptedWait, CheckStop,
                  BeginTask, TaskThrows, EndTask
    <3>2. \A v \in Workers : wpc'[v] \in HoldsTask <=> wpc[v] \in HoldsTask
      BY <2>4 DEF popWait, Tests, SpuriousWorker, InterruptedWait, CheckStop,
                  BeginTask, TaskThrows, EndTask, Shape, TypeOK, HoldsTask
    <3>3. QED
      BY <3>1, <3>2, QuietStep
  <2>5. QED
    BY <2>1, <2>2, <2>3, <2>4 DEF Worker
<1>5. QED
  BY <1>1, <1>2, <1>3, <1>4 DEF Next, Owner

(* No task is lost, duplicated or reordered, and none is dropped by a pool *)
(* that is not stopping.                                                   *)
THEOREM TasksConserved == Spec => []TaskConservation
<1>1. Init => Shape /\ BuildOrder /\ TaskConservation
  BY ShapeInit, ConservationInit DEF Init, BuildOrder
<1>2. Shape /\ BuildOrder /\ TaskConservation /\ [Next]_vars
        => (Shape /\ BuildOrder /\ TaskConservation)'
  BY ShapeStep, BuildOrderStep, ConservationStep
<1>3. QED
  BY <1>1, <1>2, PTL DEF Spec

------------------------------------------------------------------------------
(* Counting workers: the wakeups and the active counter.                   *)

Counts == ActiveCount /\ NoLostWakeup /\ QueueBound

LEMMA AtFacts ==
  ASSUME NEW S
  PROVE  /\ At(S) \subseteq Workers
         /\ IsFiniteSet(At(S))
         /\ Cardinality(At(S)) \in Nat
         /\ At(S) = {} <=> Cardinality(At(S)) = 0
<1>1. At(S) \subseteq Workers
  BY DEF At
<1>2. IsFiniteSet(At(S))
  BY <1>1, WorkersFacts, FS_Subset
<1>3. QED
  BY <1>1, <1>2, FS_CardinalityType, FS_EmptySet

(* one worker moves *)
LEMMA AtMoves ==
  ASSUME NEW S, NEW w \in Workers, NEW pc,
         wpc \in [Workers -> WorkerPc],
         wpc' = [wpc EXCEPT ![w] = pc]
  PROVE  /\ (wpc[w] \in S <=> pc \in S) => At(S)' = At(S)
         /\ wpc[w] \in S /\ pc \notin S =>
              Cardinality(At(S)') = Cardinality(At(S)) - 1
         /\ wpc[w] \notin S /\ pc \in S =>
              Cardinality(At(S)') = Cardinality(At(S)) + 1
<1>1. wpc'[w] = pc /\ \A v \in Workers \ {w} : wpc'[v] = wpc[v]
  OBVIOUS
<1>2. ASSUME wpc[w] \in S <=> pc \in S
      PROVE  At(S)' = At(S)
  BY <1>1, <1>2 DEF At
<1>3. ASSUME wpc[w] \in S, pc \notin S
      PROVE  Cardinality(At(S)') = Cardinality(At(S)) - 1
  <2>1. At(S)' = At(S) \ {w} /\ w \in At(S)
    BY <1>1, <1>3 DEF At
  <2>2. QED
    BY <2>1, AtFacts, FS_RemoveElement
<1>4. ASSUME wpc[w] \notin S, pc \in S
      PROVE  Cardinality(At(S)') = Cardinality(At(S)) + 1
  <2>1. At(S)' = At(S) \cup {w} /\ w \notin At(S)
    BY <1>1, <1>4 DEF At
  <2>2. QED
    BY <2>1, AtFacts, FS_AddElement
<1>5. QED
  BY <1>2, <1>3, <1>4

LEMMA CountsInit == Init => Counts
<1> SUFFICES ASSUME Init
             PROVE  Counts
  OBVIOUS
<1>1. At({"waiting"}) = {} /\ At({"serving", "served"}) = {}
  BY DEF Init, At
<1>2. Cardinality(At({"serving", "served"})) = 0
  BY <1>1, AtFacts
<1>3. ActiveCount
  BY <1>2 DEF Init, ActiveCount
<1>4. NoLostWakeup
  BY <1>1 DEF Init, NoLostWakeup
<1>5. QueueBound
  <2>1. Len(queue) = 0
    BY EmptySeq DEF Init
  <2>2. QED
    BY <2>1, PoolAssumption DEF QueueBound, PoolAssumption
<1>6. QED
  BY <1>3, <1>4, <1>5 DEF Counts

(* only a pool that stops interrupts its workers and lets them end; the    *)
(* loops have interrupted the workers behind their index                   *)
Called ==
  /\ ~stop => interrupted = {} /\ At({"exited"}) = {}
  /\ opc \in {"idle", "push", "pushWait", "interrupting"} => At({"unborn"}) = {}
  /\ opc = "building" => \A w \in Workers : w < oi => wpc[w] # "unborn"
  /\ opc = "unwinding" => \A w \in Workers : w > oi => w \in interrupted \/ wpc[w] = "unborn"
  /\ opc = "interrupting" => \A w \in Workers : w < oi => w \in interrupted
  /\ opc = "joining" => \A w \in Workers : w \in interrupted \/ wpc[w] = "unborn"

LEMMA CalledInit == Init => Called
BY PoolAssumption DEF Init, Called, At, Workers, PoolAssumption

LEMMA CalledStep == Shape /\ BuildOrder /\ Called /\ [Next]_vars => Called'
<1> SUFFICES ASSUME Shape, BuildOrder, Called, [Next]_vars
             PROVE  Called'
  OBVIOUS
<1>n. NThreads \in Nat \ {0} /\ Workers \subseteq Int /\ oi \in Int
      /\ \A w \in Workers : 0 <= w /\ w < NThreads
  BY PoolAssumption DEF PoolAssumption, Workers, Shape, TypeOK
<1>t. wpc \in [Workers -> WorkerPc] /\ interrupted \subseteq Workers
  BY DEF Shape, TypeOK
<1>1. CASE CreateThread
  <2>1. oi \in Workers
    BY <1>1, PoolAssumption DEF PoolAssumption, CreateThread, Shape, TypeOK, OwnerOK, Workers
  <2>2. \A w \in Workers : wpc'[w] = IF w = oi THEN "pop" ELSE wpc[w]
    BY <1>1, <1>t DEF CreateThread
  <2>3. \A w \in Workers : w < oi + 1 => w < oi \/ w = oi
    BY <1>n
  <2>4. QED
    BY <1>1, <2>1, <2>2, <2>3 DEF CreateThread, Called, At
<1>2. CASE Built
  <2>1. \A w \in Workers : wpc[w] # "unborn"
    BY <1>2, <1>n DEF Built, Called
  <2>2. QED
    BY <1>2, <2>1 DEF Built, Called, At, workerVars
<1>3. CASE CreateFails
  <2>1. \A w \in Workers : w > oi => wpc[w] = "unborn"
    BY <1>3, <1>n DEF CreateFails, BuildOrder
  <2>2. QED
    BY <1>3, <2>1 DEF CreateFails, Called, At, workerVars
<1>4. CASE Unwind
  <2>0. stop /\ UNCHANGED <<wpc, stop>>
    BY <1>4 DEF Unwind, workerVars, Shape, OwnerOK
  <2>1. CASE /\ oi >= 0
             /\ interrupted' = interrupted \cup ({oi} \ At({"unborn"}))
             /\ oi' = oi - 1
             /\ UNCHANGED opc
    <3>1. \A w \in Workers : w > oi - 1 => w > oi \/ w = oi
      BY <1>n
    <3>2. QED
      BY <1>4, <2>0, <2>1, <3>1 DEF Unwind, Called, At
  <2>2. CASE oi < 0 /\ opc' = "joining" /\ UNCHANGED interrupted
    <3>1. \A w \in Workers : w > oi
      BY <1>n, <2>2
    <3>2. QED
      BY <1>4, <2>0, <2>2, <3>1 DEF Unwind, Called
  <2>3. QED
    BY <1>4, <2>1, <2>2 DEF Unwind
<1>5. CASE schedule \/ pushWait \/ SpuriousOwner
  BY <1>5 DEF schedule, pushWait, SpuriousOwner, Called, At, workerVars
<1>6. CASE push
  <2>1. \A w \in Workers : \/ wpc'[w] = wpc[w]
                           \/ wpc[w] = "waiting" /\ wpc'[w] = "woken"
    BY <1>6, <1>t DEF push, NotifyNotEmpty, At
  <2>2. At({"unborn"})' = At({"unborn"}) /\ At({"exited"})' = At({"exited"})
    BY <2>1 DEF At
  <2>3. QED
    BY <1>6, <2>2 DEF push, Called
<1>7. CASE SetStop
  <2>1. \A w \in Workers : ~(w < 0)
    BY <1>n
  <2>2. QED
    BY <1>7, <2>1 DEF SetStop, Called, At, workerVars
<1>8. CASE Interrupt
  <2>0. stop /\ UNCHANGED <<wpc, stop>>
    BY <1>8 DEF Interrupt, workerVars, Shape, OwnerOK
  <2>1. CASE /\ oi < NThreads
             /\ interrupted' = interrupted \cup {oi}
             /\ oi' = oi + 1
             /\ UNCHANGED opc
    <3>1. \A w \in Workers : w < oi + 1 => w < oi \/ w = oi
      BY <1>n
    <3>2. QED
      BY <1>8, <2>0, <2>1, <3>1 DEF Interrupt, Called, At
  <2>2. CASE oi = NThreads /\ opc' = "joining" /\ UNCHANGED interrupted
    BY <1>8, <1>n, <2>0, <2>2 DEF Interrupt, Called
  <2>3. QED
    BY <1>8, <2>1, <2>2 DEF Interrupt
<1>9. CASE Join
  BY <1>9 DEF Join, Called, At, workerVars, Shape, OwnerOK
<1>10. ASSUME NEW w \in Workers, Worker(w)
       PROVE  Called'
  <2>1. UNCHANGED <<stop, interrupted, oi>>
    BY <1>10 DEF Worker, popWait, pop, Tests, SpuriousWorker, InterruptedWait, CheckStop, BeginTask,
                 TaskReturns, TaskThrows, EndTask
  <2>2. opc' = opc \/ (opc = "pushWait" /\ opc' = "push")
    BY <1>10 DEF Worker, popWait, pop, Tests, NotifyNotFull, SpuriousWorker, InterruptedWait, CheckStop,
                 BeginTask, TaskReturns, TaskThrows, EndTask
  <2>3. \A v \in Workers : (wpc'[v] = "unborn") <=> (wpc[v] = "unborn")
    BY <1>10, <1>t DEF Worker, popWait, pop, Tests, SpuriousWorker, InterruptedWait, CheckStop, BeginTask,
                 TaskReturns, TaskThrows, EndTask, workerVars
  <2>4. ~stop => At({"exited"})' = {}
    <3>1. SUFFICES ASSUME ~stop PROVE \A v \in Workers : wpc'[v] # "exited"
      BY DEF At
    <3>2. interrupted = {} /\ \A v \in Workers : wpc[v] # "exited"
      BY <3>1 DEF Called, At
    <3>3. QED
      BY <1>10, <1>t, <3>1, <3>2
         DEF Worker, popWait, pop, Tests, SpuriousWorker, InterruptedWait, CheckStop, BeginTask,
             TaskReturns, TaskThrows, EndTask, workerVars
  <2>5. At({"unborn"})' = At({"unborn"})
    BY <2>3 DEF At
  <2>6. QED
    BY <2>1, <2>2, <2>3, <2>4, <2>5 DEF Called
<1>11. CASE UNCHANGED vars
  BY <1>11 DEF vars, Called, At
<1>12. QED
  BY <1>1, <1>2, <1>3, <1>4, <1>5, <1>6, <1>7, <1>8, <1>9, <1>10, <1>11 DEF Next, Owner

(* the workers asleep and awake around one step of the queue *)
Asleep == At({"waiting"})
Awake == At(Ready)
Counted == At({"serving", "served"})

LEMMA Moves ==
  ASSUME NEW w \in Workers, NEW pc,
         wpc \in [Workers -> WorkerPc],
         wpc' = [wpc EXCEPT ![w] = pc]
  PROVE  /\ (wpc[w] = "waiting" <=> pc = "waiting") => Asleep' = Asleep
         /\ (wpc[w] \in Ready <=> pc \in Ready) => Awake' = Awake
         /\ wpc[w] \in Ready /\ pc \notin Ready =>
              Cardinality(Awake') = Cardinality(Awake) - 1
         /\ wpc[w] \notin Ready /\ pc \in Ready =>
              Cardinality(Awake') = Cardinality(Awake) + 1
         /\ (wpc[w] \in {"serving", "served"} <=> pc \in {"serving", "served"})
              => Counted' = Counted
         /\ wpc[w] \in {"serving", "served"} /\ pc \notin {"serving", "served"}
              => Cardinality(Counted') = Cardinality(Counted) - 1
         /\ wpc[w] \notin {"serving", "served"} /\ pc \in {"serving", "served"}
              => Cardinality(Counted') = Cardinality(Counted) + 1
<1>1. (wpc[w] \in {"waiting"} <=> pc \in {"waiting"}) => Asleep' = Asleep
  BY AtMoves, Zenon DEF Asleep
<1>2. /\ (wpc[w] \in Ready <=> pc \in Ready) => Awake' = Awake
      /\ wpc[w] \in Ready /\ pc \notin Ready =>
           Cardinality(Awake') = Cardinality(Awake) - 1
      /\ wpc[w] \notin Ready /\ pc \in Ready =>
           Cardinality(Awake') = Cardinality(Awake) + 1
  BY AtMoves, Zenon DEF Awake
<1>3. /\ (wpc[w] \in {"serving", "served"} <=> pc \in {"serving", "served"})
           => Counted' = Counted
      /\ wpc[w] \in {"serving", "served"} /\ pc \notin {"serving", "served"}
           => Cardinality(Counted') = Cardinality(Counted) - 1
      /\ wpc[w] \notin {"serving", "served"} /\ pc \in {"serving", "served"}
           => Cardinality(Counted') = Cardinality(Counted) + 1
  BY AtMoves, Zenon DEF Counted
<1>4. QED
  BY <1>1, <1>2, <1>3

LEMMA JoinsAwake ==
  ASSUME NEW w \in Workers, wpc \in [Workers -> WorkerPc], wpc[w] \notin Ready,
         NEW pc \in Ready, wpc' = [wpc EXCEPT ![w] = pc]
  PROVE  Cardinality(Awake') = Cardinality(Awake) + 1
BY Moves, Zenon

LEMMA LeavesAwake ==
  ASSUME NEW w \in Workers, wpc \in [Workers -> WorkerPc], wpc[w] \in Ready,
         NEW pc, pc \notin Ready, wpc' = [wpc EXCEPT ![w] = pc]
  PROVE  Cardinality(Awake') = Cardinality(Awake) - 1
BY Moves, Zenon

LEMMA SleepersStay ==
  ASSUME NEW w \in Workers, NEW pc, wpc \in [Workers -> WorkerPc],
         wpc[w] # "waiting", pc # "waiting", wpc' = [wpc EXCEPT ![w] = pc]
  PROVE  Asleep' = Asleep
BY Moves, Zenon

LEMMA CountedStay ==
  ASSUME NEW w \in Workers, NEW pc, wpc \in [Workers -> WorkerPc],
         wpc[w] # "serving", wpc[w] # "served", pc # "serving", pc # "served",
         wpc' = [wpc EXCEPT ![w] = pc]
  PROVE  Counted' = Counted
<1>1. wpc[w] \notin {"serving", "served"} /\ pc \notin {"serving", "served"}
  OBVIOUS
<1>2. QED
  BY <1>1, Moves, Zenon

LEMMA JoinsCounted ==
  ASSUME NEW w \in Workers, wpc \in [Workers -> WorkerPc],
         wpc[w] = "cleared", wpc' = [wpc EXCEPT ![w] = "serving"]
  PROVE  /\ Cardinality(Counted') = Cardinality(Counted) + 1
         /\ Awake' = Awake
<1>1. wpc[w] \notin {"serving", "served"} /\ "serving" \in {"serving", "served"}
      /\ wpc[w] \notin Ready /\ "serving" \notin Ready
  BY DEF Ready
<1>2. QED
  BY <1>1, Moves, Zenon

LEMMA LeavesCounted ==
  ASSUME NEW w \in Workers, wpc \in [Workers -> WorkerPc],
         wpc[w] = "served", wpc' = [wpc EXCEPT ![w] = "pop"]
  PROVE  Cardinality(Counted') = Cardinality(Counted) - 1
<1>1. wpc[w] \in {"serving", "served"} /\ "pop" \notin {"serving", "served"}
  OBVIOUS
<1>2. QED
  BY <1>1, Moves, Zenon

LEMMA CountsStep ==
  Shape /\ BuildOrder /\ Called /\ Counts /\ [Next]_vars => Counts'
<1> SUFFICES ASSUME Shape, BuildOrder, Called, Counts, [Next]_vars
             PROVE  Counts'
  OBVIOUS
<1>t. /\ queue \in Seq(Nat) /\ Len(queue) \in Nat
      /\ wpc \in [Workers -> WorkerPc] /\ activeThreads \in Int
      /\ MaxPending \in Nat \ {0} /\ NThreads \in Nat \ {0}
      /\ Cardinality(Awake) \in Nat /\ Cardinality(Counted) \in Nat
  BY PoolAssumption, LenProperties, AtFacts
     DEF Shape, TypeOK, PoolAssumption, Awake, Counted
<1>c. /\ activeThreads = Cardinality(Counted)
      /\ ~stop /\ Asleep # {} => Len(queue) <= Cardinality(Awake)
      /\ opc = "pushWait" => Len(queue) = MaxPending
      /\ Len(queue) <= MaxPending
  BY DEF Counts, ActiveCount, NoLostWakeup, QueueBound, Asleep, Awake, Counted
<1>g. SUFFICES /\ activeThreads' = Cardinality(Counted')
               /\ ~stop' /\ Asleep' # {} => Len(queue') <= Cardinality(Awake')
               /\ opc' = "pushWait" => Len(queue') = MaxPending
               /\ Len(queue') <= MaxPending
  BY DEF Counts, ActiveCount, NoLostWakeup, QueueBound, Asleep, Awake, Counted
<1>1. CASE CreateThread
  <2>1. oi \in Workers
    BY <1>1, <1>t DEF CreateThread, Shape, TypeOK, OwnerOK, Workers
  <2>2. wpc[oi] = "unborn" /\ wpc' = [wpc EXCEPT ![oi] = "pop"]
    BY <1>1, <2>1 DEF CreateThread, BuildOrder, Workers
  <2>3. /\ Asleep' = Asleep /\ Counted' = Counted
        /\ Cardinality(Awake') = Cardinality(Awake) + 1
    <3>1. Asleep' = Asleep
      BY <1>t, <2>1, <2>2, SleepersStay
    <3>2. Counted' = Counted
      BY <1>t, <2>1, <2>2, CountedStay
    <3>3. Cardinality(Awake') = Cardinality(Awake) + 1
      BY <1>t, <2>1, <2>2, JoinsAwake DEF Ready
    <3>4. QED
      BY <3>1, <3>2, <3>3
  <2>4. UNCHANGED <<queue, activeThreads, opc, stop>>
    BY <1>1 DEF CreateThread
  <2>5. QED
    BY <1>t, <1>c, <2>3, <2>4
<1>2. CASE push
  <2>1. /\ Len(queue') = Len(queue) + 1 /\ opc' = "idle"
        /\ Len(queue) # MaxPending /\ activeThreads' = activeThreads /\ stop' = stop
    BY <1>2, <1>t, AppendProperties DEF push, Shape, TypeOK
  <2>2. CASE Asleep = {} /\ UNCHANGED wpc
    <3>1. Asleep' = {} /\ Counted' = Counted
      BY <2>2 DEF Asleep, Counted, At
    <3>2. QED
      BY <1>t, <1>c, <2>1, <3>1
  <2>3. ASSUME NEW w \in Asleep, wpc' = [wpc EXCEPT ![w] = "woken"]
        PROVE  /\ Counted' = Counted
               /\ Cardinality(Awake') = Cardinality(Awake) + 1
    <3>1. w \in Workers /\ wpc[w] = "waiting"
      BY <2>3 DEF Asleep, At
    <3>2. Counted' = Counted
      BY <1>t, <2>3, <3>1, CountedStay
    <3>3. Cardinality(Awake') = Cardinality(Awake) + 1
      BY <1>t, <2>3, <3>1, JoinsAwake DEF Ready
    <3>4. QED
      BY <3>2, <3>3
  <2>4. CASE \E w \in Asleep : wpc' = [wpc EXCEPT ![w] = "woken"]
    <3>1. /\ Counted' = Counted
          /\ Cardinality(Awake') = Cardinality(Awake) + 1
      BY <2>3, <2>4
    <3>2. ~stop => Len(queue) <= Cardinality(Awake)
      BY <1>c, <2>4
    <3>3. QED
      BY <1>t, <1>c, <2>1, <3>1, <3>2
  <2>5. QED
    BY <1>2, <2>2, <2>4 DEF push, NotifyNotEmpty, Asleep
<1>3. CASE Owner /\ ~CreateThread /\ ~push
  <2>1. UNCHANGED <<queue, wpc, activeThreads>>
    BY <1>3 DEF Owner, Built, CreateFails, Unwind, schedule, pushWait,
                SpuriousOwner, SetStop, Interrupt, Join, workerVars
  <2>2. opc' = "pushWait" => Len(queue) = MaxPending
    BY <1>3, <1>c DEF Owner, Built, CreateFails, Unwind, schedule, pushWait,
                SpuriousOwner, SetStop, Interrupt, Join
  <2>3. Asleep' = Asleep /\ Awake' = Awake /\ Counted' = Counted
    BY <2>1 DEF Asleep, Awake, Counted, At
  <2>4. stop => stop'
    BY <1>3 DEF Owner, Built, CreateFails, Unwind, schedule, pushWait,
                SpuriousOwner, SetStop, Interrupt, Join
  <2>5. QED
    BY <1>c, <2>1, <2>2, <2>3, <2>4
<1>4. ASSUME NEW w \in Workers, Worker(w)
      PROVE  /\ activeThreads' = Cardinality(Counted')
             /\ ~stop' /\ Asleep' # {} => Len(queue') <= Cardinality(Awake')
             /\ opc' = "pushWait" => Len(queue') = MaxPending
             /\ Len(queue') <= MaxPending
  <2>1. CASE popWait(w)
    <3>1. UNCHANGED <<queue, activeThreads, opc, stop>> /\ Len(queue) = 0
      BY <2>1, EmptySeq DEF popWait
    <3>a. /\ wpc[w] \in {"pop", "woken"}
          /\ \/ wpc' = [wpc EXCEPT ![w] = "exited"]
             \/ wpc' = [wpc EXCEPT ![w] = "waiting"]
      BY <2>1, Zenon DEF popWait, Tests
    <3>2. Counted' = Counted
      BY <3>a, <1>t, CountedStay
    <3>3. Cardinality(Awake') \in Nat
      <4>1. Cardinality(Awake') = Cardinality(Awake) - 1
        BY <3>a, <1>t, LeavesAwake DEF Ready
      <4>2. w \in Awake
        BY <3>a DEF Awake, At, Ready
      <4>3. Cardinality(Awake) # 0
        BY <4>2, AtFacts DEF Awake
      <4>4. QED
        BY <1>t, <4>1, <4>3
    <3>4. QED
      BY <1>t, <1>c, <3>1, <3>2, <3>3
  <2>2. CASE pop(w)
    <3>1. /\ Len(queue') = Len(queue) - 1 /\ opc' # "pushWait"
          /\ activeThreads' = activeThreads /\ stop' = stop
          /\ wpc[w] \in {"pop", "woken"} /\ wpc' = [wpc EXCEPT ![w] = "popped"]
      BY <2>2, <1>t, HeadTailProperties DEF pop, Tests, NotifyNotFull
    <3>2. Asleep' = Asleep
      BY <1>t, <3>1, SleepersStay
    <3>3. Counted' = Counted
      BY <1>t, <3>1, CountedStay
    <3>4. Cardinality(Awake') = Cardinality(Awake) - 1
      BY <1>t, <3>1, LeavesAwake DEF Ready
    <3>5. QED
      BY <1>t, <1>c, <3>1, <3>2, <3>3, <3>4
  <2>3. CASE SpuriousWorker(w)
    <3>1. UNCHANGED <<queue, activeThreads, opc, stop>>
      BY <2>3 DEF SpuriousWorker
    <3>2. wpc[w] = "waiting" /\ wpc' = [wpc EXCEPT ![w] = "woken"]
      BY <2>3 DEF SpuriousWorker
    <3>3. Counted' = Counted
      BY <1>t, <3>2, CountedStay
    <3>4. Cardinality(Awake') = Cardinality(Awake) + 1
      BY <1>t, <3>2, JoinsAwake DEF Ready
    <3>5. w \in Asleep
      BY <3>2 DEF Asleep, At
    <3>6. QED
      BY <1>t, <1>c, <3>1, <3>3, <3>4, <3>5
  <2>9. CASE InterruptedWait(w)
    <3>1. UNCHANGED <<queue, activeThreads, opc, stop>> /\ w \in interrupted
      BY <2>9 DEF InterruptedWait
    <3>2. /\ wpc[w] # "serving" /\ wpc[w] # "served"
          /\ wpc' = [wpc EXCEPT ![w] = "exited"]
      BY <2>9 DEF InterruptedWait
    <3>3. Counted' = Counted
      BY <1>t, <3>2, CountedStay
    <3>4. stop
      BY <3>1 DEF Called
    <3>5. QED
      BY <1>c, <3>1, <3>3, <3>4
  <2>4. CASE CheckStop(w) \/ TaskReturns(w)
    <3>1. UNCHANGED <<queue, activeThreads, opc, stop>>
      BY <2>4 DEF CheckStop, TaskReturns
    <3>2. \/ wpc[w] = "popped" /\ wpc' = [wpc EXCEPT ![w] = "exited"]
          \/ wpc[w] = "popped" /\ wpc' = [wpc EXCEPT ![w] = "cleared"]
          \/ wpc[w] = "serving" /\ wpc' = [wpc EXCEPT ![w] = "served"]
      BY <2>4, Zenon DEF CheckStop, TaskReturns
    <3>3. Asleep' = Asleep /\ Awake' = Awake /\ Counted' = Counted
      BY <1>t, <3>2, Moves DEF Ready
    <3>4. QED
      BY <1>c, <3>1, <3>3
  <2>5. CASE BeginTask(w)
    <3>1. UNCHANGED <<queue, opc, stop>> /\ activeThreads' = activeThreads + 1
      BY <2>5 DEF BeginTask
    <3>2. wpc[w] = "cleared" /\ wpc' = [wpc EXCEPT ![w] = "serving"]
      BY <2>5 DEF BeginTask
    <3>3. Asleep' = Asleep
      BY <1>t, <3>2, SleepersStay
    <3>4. Awake' = Awake /\ Cardinality(Counted') = Cardinality(Counted) + 1
      BY <1>t, <3>2, JoinsCounted
    <3>5. QED
      BY <1>t, <1>c, <3>1, <3>3, <3>4
  <2>6. CASE EndTask(w)
    <3>1. UNCHANGED <<queue, opc, stop>> /\ activeThreads' = activeThreads - 1
      BY <2>6 DEF EndTask
    <3>2. wpc[w] = "served" /\ wpc' = [wpc EXCEPT ![w] = "pop"]
      BY <2>6 DEF EndTask
    <3>3. Asleep' = Asleep
      BY <1>t, <3>2, SleepersStay
    <3>4. Cardinality(Awake') = Cardinality(Awake) + 1
      BY <1>t, <3>2, JoinsAwake DEF Ready
    <3>5. Cardinality(Counted') = Cardinality(Counted) - 1
      BY <1>t, <3>2, LeavesCounted
    <3>6. QED
      BY <1>t, <1>c, <3>1, <3>3, <3>4, <3>5
  <2>7. CASE TaskThrows(w)
    <3>1. UNCHANGED <<queue, wpc, activeThreads, opc, stop>>
      BY <2>7 DEF TaskThrows, workerVars
    <3>2. Asleep' = Asleep /\ Awake' = Awake /\ Counted' = Counted
      BY <3>1 DEF Asleep, Awake, Counted, At
    <3>3. QED
      BY <1>c, <3>1, <3>2
  <2>8. QED
    BY <1>4, <2>1, <2>2, <2>3, <2>4, <2>5, <2>6, <2>7, <2>9 DEF Worker
<1>5. CASE UNCHANGED vars
  <2>1. Asleep' = Asleep /\ Awake' = Awake /\ Counted' = Counted
    BY <1>5 DEF vars, Asleep, Awake, Counted, At
  <2>2. QED
    BY <1>5, <1>c, <2>1 DEF vars
<1>6. QED
  BY <1>1, <1>2, <1>3, <1>4, <1>5 DEF Next, Owner

(* Until the pool stops a worker asleep never leaves a task waiting for it;*)
(* the owner sleeps only on a full queue, the queue keeps within its       *)
(* capacity, and the active counter is exact.                              *)
THEOREM WakeupsAndCounts == Spec => [](NoLostWakeup /\ QueueBound /\ ActiveCount)
<1>1. Init => Shape /\ BuildOrder /\ Called /\ Counts
  BY ShapeInit, CalledInit, CountsInit DEF Init, BuildOrder
<1>2. Shape /\ BuildOrder /\ Called /\ Counts /\ [Next]_vars
        => (Shape /\ BuildOrder /\ Called /\ Counts)'
  BY ShapeStep, BuildOrderStep, CalledStep, CountsStep
<1>3. Counts => NoLostWakeup /\ QueueBound /\ ActiveCount
  BY DEF Counts
<1>4. QED
  BY <1>1, <1>2, <1>3, PTL DEF Spec

(* push() waits on a full queue: the queue never exceeds its capacity.     *)
COROLLARY QueueStaysBounded == Spec => []QueueBound
BY WakeupsAndCounts, PTL

(* The counter the statistics print is the number of workers inside a      *)
(* task, in every step of thread_function.                                 *)
COROLLARY ActiveCountExact == Spec => []ActiveCount
BY WakeupsAndCounts, PTL

------------------------------------------------------------------------------
(* The pool implements TaskQueue.                                          *)

(* what a bound on the number of tasks leaves the owner *)
Budget == opc \in {"push", "pushWait"} => scheduled < MaxTasks

Inv == Shape /\ BuildOrder /\ Called /\ TaskConservation /\ Counts /\ Budget

LEMMA BudgetStep == Budget /\ [Next]_vars => Budget'
<1> SUFFICES ASSUME Budget, [Next]_vars, opc' \in {"push", "pushWait"}
             PROVE  scheduled' < MaxTasks
  BY DEF Budget
<1>1. CASE Owner
  BY <1>1 DEF Budget, Owner, CreateThread, Built, CreateFails, Unwind, schedule,
              pushWait, push, SpuriousOwner, SetStop, Interrupt, Join
<1>2. ASSUME NEW w \in Workers, Worker(w)
      PROVE  scheduled' < MaxTasks
  BY <1>2 DEF Budget, Worker, popWait, pop, Tests, NotifyNotFull, SpuriousWorker,
              InterruptedWait, CheckStop, BeginTask, TaskReturns, TaskThrows,
              EndTask
<1>3. CASE UNCHANGED vars
  BY <1>3 DEF Budget, vars
<1>4. QED
  BY <1>1, <1>2, <1>3 DEF Next

LEMMA InvInit == Init => Inv
BY ShapeInit, CalledInit, ConservationInit, CountsInit DEF Init, BuildOrder, Budget, Inv

LEMMA InvStep == Inv /\ [Next]_vars => Inv'
BY ShapeStep, BuildOrderStep, CalledStep, ConservationStep, CountsStep, BudgetStep DEF Inv

(* the tasks in the hands of a worker *)
Held == {wtask[w] : w \in At(HoldsTask)}

LEMMA HeldFacts == HeldOnce => Held = {wtask[w] : w \in Workers} \ {0}
BY DEF HeldOnce, Held, At

LEMMA HeldFactsNext == HeldOnce' => Held' = {wtask'[w] : w \in Workers} \ {0}
BY DEF HeldOnce, Held, At

LEMMA HeldStays ==
  ASSUME HeldOnce, HeldOnce', wtask' = wtask
  PROVE  Held' = Held
BY HeldFacts, HeldFactsNext

(* a worker about to pop holds nothing, so fewer tasks than workers are held *)
LEMMA HeldBound ==
  ASSUME NEW w \in Workers, wpc[w] \in Ready
  PROVE  Cardinality(Held) < NThreads
<1> DEFINE H == At(HoldsTask)
           f == [v \in H |-> wtask[v]]
<1>1. H \in SUBSET (Workers \ {w})
  BY DEF At, HoldsTask, Ready
<1>2. /\ IsFiniteSet(Workers \ {w})
      /\ Cardinality(Workers \ {w}) = NThreads - 1
  BY WorkersFacts, FS_RemoveElement
<1>3. IsFiniteSet(H) /\ Cardinality(H) <= NThreads - 1
  BY <1>1, <1>2, FS_Subset
<1>4. f \in Surjection(H, Held)
  BY DEF Surjection, Held
<1>5. IsFiniteSet(Held) /\ Cardinality(Held) <= Cardinality(H)
  BY <1>3, <1>4, FS_Surjection
<1>6. /\ Cardinality(H) \in Int /\ Cardinality(Held) \in Int
      /\ NThreads \in Int
  BY <1>3, <1>5, FS_CardinalityType, PoolAssumption DEF PoolAssumption
<1>7. QED
  BY <1>3, <1>5, <1>6

LEMMA RefinesInit == Init => TQ!Init
<1> SUFFICES ASSUME Init
             PROVE  TQ!Init
  OBVIOUS
<1>1. Held = {}
  BY DEF Init, Held, At, HoldsTask
<1>2. QED
  BY <1>1 DEF Init, TQ!Init, Held

(* a step that leaves alone what the abstraction sees *)
LEMMA Stutters ==
  ASSUME HeldOnce, HeldOnce',
         UNCHANGED <<queue, wtask, scheduled, finished, dropped, stop>>
  PROVE  UNCHANGED TQ!vars
<1>1. Held' = Held
  BY HeldStays
<1>2. QED
  BY <1>1 DEF TQ!vars, Held

(* a worker that lays down its task *)
LEMMA LaysDown ==
  ASSUME HeldOnce, HeldOnce', NEW w \in Workers, wpc[w] \in HoldsTask,
         wtask \in [Workers -> Nat], wtask' = [wtask EXCEPT ![w] = 0]
  PROVE  wtask[w] \in Held /\ Held' = Held \ {wtask[w]}
<1>1. wtask[w] \in Held /\ wtask[w] # 0
  BY DEF Held, HeldOnce, At
<1>2. wtask'[w] = 0 /\ \A v \in Workers \ {w} : wtask'[v] = wtask[v]
  OBVIOUS
<1>3. \A v \in Workers \ {w} : wtask[v] # wtask[w]
  BY <1>1 DEF HeldOnce
<1>4. Held' = {wtask'[v] : v \in Workers} \ {0}
  BY HeldFactsNext
<1>5. Held = {wtask[v] : v \in Workers} \ {0}
  BY HeldFacts
<1>6. QED
  BY <1>1, <1>2, <1>3, <1>4, <1>5

(* a worker that takes a task up *)
LEMMA TakesUp ==
  ASSUME HeldOnce, HeldOnce', NEW w \in Workers, wpc[w] \in Ready,
         wtask \in [Workers -> Nat],
         NEW t \in Nat \ {0}, wtask' = [wtask EXCEPT ![w] = t]
  PROVE  Held' = Held \cup {t}
<1>1. wtask[w] = 0
  BY DEF HeldOnce, HoldsTask, Ready
<1>2. wtask'[w] = t /\ \A v \in Workers \ {w} : wtask'[v] = wtask[v]
  OBVIOUS
<1>3. Held' = {wtask'[v] : v \in Workers} \ {0}
  BY HeldFactsNext
<1>4. Held = {wtask[v] : v \in Workers} \ {0}
  BY HeldFacts
<1>5. QED
  BY <1>1, <1>2, <1>3, <1>4

LEMMA RefinesStep == Inv /\ Inv' /\ [Next]_vars => [TQ!Next]_(TQ!vars)
<1> SUFFICES ASSUME Inv, Inv', [Next]_vars
             PROVE  TQ!Next \/ UNCHANGED TQ!vars
  OBVIOUS
<1>h. HeldOnce /\ HeldOnce' /\ wtask \in [Workers -> Nat] /\ OwnerOK
  BY DEF Inv, TaskConservation, Shape, TypeOK
<1>1. CASE push
  <2>1. /\ ~stop /\ scheduled < MaxTasks /\ Len(queue) < MaxPending
    <3>1. ~stop /\ scheduled < MaxTasks
      BY <1>1, <1>h DEF push, OwnerOK, Inv, Budget
    <3>2. Len(queue) <= MaxPending /\ Len(queue) # MaxPending
      BY <1>1 DEF push, Inv, Counts, QueueBound
    <3>3. Len(queue) \in Nat /\ MaxPending \in Nat
      BY LenProperties, PoolAssumption DEF PoolAssumption, Inv, Shape, TypeOK
    <3>4. QED
      BY <3>1, <3>2, <3>3
  <2>2. Held' = Held
    BY <1>1, <1>h, HeldStays DEF push
  <2>3. TQ!Submit
    BY <1>1, <2>1, <2>2 DEF push, historyVars, TQ!Submit, Held
  <2>4. QED
    BY <2>3 DEF TQ!Next
<1>2. CASE SetStop \/ CreateFails
  <2>1. ~stop /\ stop' /\ UNCHANGED <<queue, wtask, scheduled, finished, dropped>>
    BY <1>2, <1>h DEF SetStop, CreateFails, workerVars, historyVars, OwnerOK
  <2>2. stop' = TRUE
    BY <1>2, Zenon DEF SetStop, CreateFails
  <2>3. Held' = Held
    BY <1>h, <2>1, HeldStays
  <2>4. TQ!Close
    BY <2>1, <2>2, <2>3, Zenon DEF TQ!Close, Held
  <2>5. QED
    BY <2>4 DEF TQ!Next
<1>3. CASE Owner /\ ~push /\ ~SetStop /\ ~CreateFails
  <2>1. UNCHANGED <<queue, wtask, scheduled, finished, dropped, stop>>
    BY <1>3 DEF Owner, CreateThread, Built, Unwind, schedule, pushWait,
                SpuriousOwner, Interrupt, Join, workerVars, historyVars
  <2>2. QED
    BY <1>h, <2>1, Stutters
<1>4. ASSUME NEW w \in Workers, Worker(w)
      PROVE  TQ!Next \/ UNCHANGED TQ!vars
  <2>1. CASE pop(w)
    <3>1. /\ wpc[w] \in Ready /\ queue # <<>>
          /\ queue' = Tail(queue)
          /\ wtask' = [wtask EXCEPT ![w] = Head(queue)]
          /\ UNCHANGED <<scheduled, finished, dropped, stop>>
      BY <2>1 DEF pop, Tests, Ready, historyVars
    <3>2. Head(queue) \in Nat \ {0}
      <4>1. queue \in Seq(Nat) /\ scheduled \in Nat /\ QueueInOrder
        BY DEF Inv, Shape, TypeOK, TaskConservation
      <4>2. Len(queue) \in Nat /\ Len(queue) >= 1 /\ Head(queue) = queue[1]
        BY <3>1, <4>1, HeadTailProperties, EmptySeq, LenProperties
      <4>3. taken \in Nat
        BY <4>1, <4>2 DEF QueueInOrder, taken
      <4>4. queue[1] = taken + 1
        BY <4>1, <4>2 DEF QueueInOrder
      <4>5. QED
        BY <4>2, <4>3, <4>4
    <3>3. Held' = Held \cup {Head(queue)}
      BY <1>h, <3>1, <3>2, TakesUp
    <3>4. Cardinality(Held) < NThreads
      BY <3>1, HeldBound
    <3>5. TQ!Take
      BY <3>1, <3>3, <3>4, Zenon DEF TQ!Take, Held, TQ!Cardinality, Cardinality
    <3>6. QED
      BY <3>5 DEF TQ!Next
  <2>2. CASE TaskReturns(w)
    <3>1. wtask[w] \in Held /\ Held' = Held \ {wtask[w]}
      BY <1>h, <2>2, LaysDown DEF TaskReturns, HoldsTask
    <3>2. \E t \in Held : TQ!Finish(t)
      BY <2>2, <3>1 DEF TaskReturns, TQ!Finish, Held
    <3>3. QED
      BY <3>2, Zenon DEF TQ!Next, Held
  <2>3. CASE CheckStop(w) /\ wpc' = [wpc EXCEPT ![w] = "exited"]
    <3>1. /\ stop /\ wpc[w] = "popped"
          /\ wtask' = [wtask EXCEPT ![w] = 0]
          /\ dropped' = dropped \cup {wtask[w]}
          /\ UNCHANGED <<queue, scheduled, finished, stop>>
      <4>1. wpc'[w] = "exited"
        BY <2>3 DEF Inv, Shape, TypeOK
      <4>2. wpc' # [wpc EXCEPT ![w] = "cleared"]
        BY <4>1 DEF Inv, Shape, TypeOK
      <4>3. QED
        BY <2>3, <4>2 DEF CheckStop
    <3>2. wtask[w] \in Held /\ Held' = Held \ {wtask[w]}
      BY <1>h, <3>1, LaysDown DEF HoldsTask
    <3>3. \E t \in Held : TQ!Drop(t)
      BY <3>1, <3>2 DEF TQ!Drop, Held
    <3>4. QED
      BY <3>3, Zenon DEF TQ!Next, Held
  <2>4. CASE \/ popWait(w) \/ SpuriousWorker(w) \/ InterruptedWait(w)
             \/ CheckStop(w) /\ wpc' # [wpc EXCEPT ![w] = "exited"]
             \/ BeginTask(w) \/ TaskThrows(w) \/ EndTask(w)
    <3>1. UNCHANGED <<queue, wtask, scheduled, finished, dropped, stop>>
      BY <2>4 DEF popWait, Tests, SpuriousWorker, InterruptedWait, CheckStop,
                  BeginTask, TaskThrows, EndTask, workerVars, historyVars
    <3>2. QED
      BY <1>h, <3>1, Stutters
  <2>5. QED
    BY <1>4, <2>1, <2>2, <2>3, <2>4 DEF Worker
<1>5. CASE UNCHANGED vars
  BY <1>5, <1>h, Stutters DEF vars
<1>6. QED
  BY <1>1, <1>2, <1>3, <1>4, <1>5 DEF Next, Owner

(* The thread pool, with its mutex, its condition variables and its        *)
(* interruptions, behaves as the bounded FIFO of TaskQueue.                *)
THEOREM PoolImplementsTaskQueue == Spec => TaskQueueSafety
<1>1. Init => Inv
  BY InvInit
<1>2. Inv /\ [Next]_vars => Inv'
  BY InvStep
<1>3. Init => TQ!Init
  BY RefinesInit
<1>4. Inv /\ Inv' /\ [Next]_vars => [TQ!Next]_(TQ!vars)
  BY RefinesStep
<1>5. QED
  BY <1>1, <1>2, <1>3, <1>4, PTL DEF Spec, TaskQueueSafety, TQ!SafeSpec

------------------------------------------------------------------------------
(* The end of the pool.                                                    *)

(* the workers the destructor has joined, and all of them once it returns, *)
(* are over                                                                *)
Joined ==
  /\ opc = "joining" => \A w \in Workers : w < oi => wpc[w] \in {"exited", "unborn"}
  /\ opc = "gone" => \A w \in Workers : wpc[w] \in {"exited", "unborn"}

LEMMA JoinedStep == Shape /\ Joined /\ [Next]_vars => Joined'
<1> SUFFICES ASSUME Shape, Joined, [Next]_vars
             PROVE  Joined'
  OBVIOUS
<1>1. CASE Join
  <2>1. UNCHANGED wpc /\ opc = "joining"
    BY <1>1 DEF Join, workerVars
  <2>2. CASE oi < NThreads /\ wpc[oi] \in {"exited", "unborn"} /\ oi' = oi + 1
             /\ UNCHANGED opc
    <3>1. ASSUME NEW w \in Workers, w < oi'
          PROVE  wpc'[w] \in {"exited", "unborn"}
      <4>1. w < oi \/ w = oi
        BY <2>2, <3>1, WorkersFacts DEF Shape, TypeOK
      <4>2. QED
        BY <2>1, <2>2, <4>1 DEF Joined
    <3>2. QED
      BY <2>1, <2>2, <3>1 DEF Joined
  <2>3. CASE oi = NThreads /\ opc' = "gone"
    <3>1. \A w \in Workers : w < oi
      BY <2>3, PoolAssumption DEF Workers, PoolAssumption
    <3>2. QED
      BY <2>1, <2>3, <3>1 DEF Joined
  <2>4. QED
    BY <1>1, <2>2, <2>3 DEF Join
<1>2. CASE Owner /\ ~Join
  <2>1. opc' # "gone" /\ (opc' = "joining" => oi' = 0)
    BY <1>2 DEF Owner, CreateThread, Built, CreateFails, Unwind, schedule,
                pushWait, push, SpuriousOwner, SetStop, Interrupt
  <2>2. \A w \in Workers : ~(w < 0)
    BY PoolAssumption DEF Workers, PoolAssumption
  <2>3. QED
    BY <2>1, <2>2 DEF Joined
<1>3. ASSUME NEW w \in Workers, Worker(w)
      PROVE  Joined'
  <2>1. /\ opc' \in {"joining", "gone"} => opc' = opc
        /\ oi' = oi
    BY <1>3 DEF Worker, popWait, pop, Tests, NotifyNotFull, SpuriousWorker,
                InterruptedWait, CheckStop, BeginTask, TaskReturns, TaskThrows,
                EndTask
  <2>2. wpc[w] \notin {"exited", "unborn"}
    BY <1>3 DEF Worker, popWait, pop, Tests, SpuriousWorker, InterruptedWait,
                CheckStop, BeginTask, TaskReturns, TaskThrows, EndTask
  <2>3. \A v \in Workers : v # w => wpc'[v] = wpc[v]
    BY <1>3 DEF Worker, popWait, pop, Tests, SpuriousWorker, InterruptedWait,
                CheckStop, BeginTask, TaskReturns, TaskThrows, EndTask,
                workerVars, Shape, TypeOK
  <2>4. QED
    BY <2>1, <2>2, <2>3 DEF Joined
<1>4. CASE UNCHANGED vars
  BY <1>4 DEF vars, Joined
<1>5. QED
  BY <1>1, <1>2, <1>3, <1>4 DEF Next

LEMMA JoinedSuffices == Counts /\ Joined => NoWorkerOutlivesPool
<1> SUFFICES ASSUME Counts, Joined, opc = "gone"
             PROVE  activeThreads = 0 /\ At(WorkerPc \ {"exited", "unborn"}) = {}
  BY DEF NoWorkerOutlivesPool
<1>1. At({"serving", "served"}) = {}
  BY DEF Joined, At
<1>2. Cardinality(At({"serving", "served"})) = 0
  BY <1>1, AtFacts
<1>3. activeThreads = 0
  BY <1>2 DEF Counts, ActiveCount
<1>4. At(WorkerPc \ {"exited", "unborn"}) = {}
  BY DEF Joined, At
<1>5. QED
  BY <1>3, <1>4

(* When ~ThreadPool() has run, no thread is left that could use its queue. *)
THEOREM PoolEndsAlone == Spec => []NoWorkerOutlivesPool
<1>1. Init => Inv /\ Joined
  BY InvInit DEF Init, Joined
<1>2. Inv /\ Joined /\ [Next]_vars => (Inv /\ Joined)'
  BY InvStep, JoinedStep DEF Inv
<1>3. Inv /\ Joined => NoWorkerOutlivesPool
  BY JoinedSuffices DEF Inv
<1>4. QED
  BY <1>1, <1>2, <1>3, PTL DEF Spec

------------------------------------------------------------------------------
(* What a pool that stops still does.                                      *)

(* a worker that drops its task is over with the same step *)
DropsExit == IsFiniteSet(dropped) /\ Cardinality(dropped) <= Cardinality(At({"exited"}))

(* nobody begins, drops or is created by the step, though some may end *)
LEMMA ExitsGrow ==
  ASSUME DropsExit, UNCHANGED dropped,
         \A w \in Workers : wpc[w] = "exited" => wpc'[w] = "exited"
  PROVE  DropsExit'
<1>1. At({"exited"}) \in SUBSET (At({"exited"})')
  BY DEF At
<1>2. At({"exited"})' \in SUBSET Workers
  BY DEF At
<1>3. IsFiniteSet(At({"exited"})')
  BY <1>2, WorkersFacts, FS_Subset
<1>4. Cardinality(At({"exited"})) <= Cardinality(At({"exited"})')
  BY <1>1, <1>3, FS_Subset
<1>5. /\ Cardinality(dropped) \in Nat /\ Cardinality(At({"exited"})) \in Nat
      /\ Cardinality(At({"exited"})') \in Nat
  BY <1>3, AtFacts, FS_CardinalityType DEF DropsExit
<1>6. Cardinality(dropped') = Cardinality(dropped) /\ IsFiniteSet(dropped')
  BY DEF DropsExit
<1>7. Cardinality(dropped') <= Cardinality(At({"exited"})')
  BY <1>4, <1>5, <1>6, DropsExit DEF DropsExit
<1>8. QED
  BY <1>6, <1>7 DEF DropsExit

LEMMA DropExits ==
  ASSUME Shape, DropsExit, NEW w \in Workers, wpc[w] = "popped",
         wpc' = [wpc EXCEPT ![w] = "exited"], dropped' = dropped \cup {wtask[w]}
  PROVE  DropsExit'
<1>1. wpc \in [Workers -> WorkerPc]
  BY DEF Shape, TypeOK
<1>2. wpc[w] \notin {"exited"} /\ "exited" \in {"exited"}
  OBVIOUS
<1>3. Cardinality(At({"exited"})') = Cardinality(At({"exited"})) + 1
  BY <1>1, <1>2, AtMoves, Zenon
<1>c. IsFiniteSet(dropped) /\ Cardinality(dropped) \in Nat
  BY FS_CardinalityType DEF DropsExit
<1>a. /\ IsFiniteSet(dropped')
      /\ Cardinality(dropped') = IF wtask[w] \in dropped THEN Cardinality(dropped)
                                 ELSE Cardinality(dropped) + 1
  BY <1>c, FS_AddElement, Zenon
<1>4. IsFiniteSet(dropped') /\ Cardinality(dropped') <= Cardinality(dropped) + 1
  BY <1>a, <1>c
<1>5. /\ Cardinality(dropped) \in Nat /\ Cardinality(dropped') \in Nat
      /\ Cardinality(At({"exited"})) \in Nat
  BY <1>4, AtFacts, FS_CardinalityType DEF DropsExit
<1>6. Cardinality(dropped') <= Cardinality(At({"exited"})')
  BY <1>3, <1>4, <1>5 DEF DropsExit
<1>7. QED
  BY <1>4, <1>6 DEF DropsExit

LEMMA DropsExitStep == Shape /\ BuildOrder /\ DropsExit /\ [Next]_vars => DropsExit'
<1> SUFFICES ASSUME Shape, BuildOrder, DropsExit, [Next]_vars
             PROVE  DropsExit'
  OBVIOUS
<1>1. CASE CreateThread
  <2>1. oi \in Workers
    BY <1>1, PoolAssumption DEF PoolAssumption, CreateThread, Shape, TypeOK, OwnerOK, Workers
  <2>2. wpc[oi] = "unborn"
    BY <1>1, <2>1 DEF CreateThread, BuildOrder, Workers
  <2>3. \A w \in Workers : wpc[w] = "exited" => wpc'[w] = "exited"
    BY <1>1, <2>2 DEF CreateThread, Shape, TypeOK
  <2>4. QED
    BY <1>1, <2>3, ExitsGrow DEF CreateThread, historyVars
<1>2. CASE push
  <2>1. \A w \in Workers : wpc[w] = "exited" => wpc'[w] = "exited"
    BY <1>2 DEF push, NotifyNotEmpty, At, Shape, TypeOK
  <2>2. QED
    BY <1>2, <2>1, ExitsGrow DEF push, historyVars
<1>3. CASE Owner /\ ~CreateThread /\ ~push
  <2>1. UNCHANGED <<wpc, dropped>>
    BY <1>3 DEF Owner, Built, CreateFails, Unwind, schedule, pushWait, SpuriousOwner,
                SetStop, Interrupt, Join, workerVars, historyVars
  <2>2. QED
    BY <2>1, ExitsGrow
<1>4. ASSUME NEW w \in Workers, Worker(w)
      PROVE  DropsExit'
  <2>1. CASE CheckStop(w)
    <3>1. CASE stop
      BY <1>4, <2>1, <3>1, DropExits DEF CheckStop
    <3>2. CASE ~stop
      <4>1. \A v \in Workers : wpc[v] = "exited" => wpc'[v] = "exited"
        BY <2>1, <3>2 DEF CheckStop, Shape, TypeOK
      <4>2. QED
        BY <2>1, <3>2, <4>1, ExitsGrow DEF CheckStop
    <3>3. QED
      BY <3>1, <3>2
  <2>2. CASE Worker(w) /\ ~CheckStop(w)
    <3>1. UNCHANGED dropped
      BY <2>2 DEF Worker, popWait, pop, Tests, SpuriousWorker, InterruptedWait, BeginTask,
                  TaskReturns, TaskThrows, EndTask, historyVars
    <3>2. wpc[w] # "exited" /\ \A v \in Workers : v # w => wpc'[v] = wpc[v]
      BY <2>2 DEF Worker, popWait, pop, Tests, SpuriousWorker, InterruptedWait, BeginTask,
                  TaskReturns, TaskThrows, EndTask, workerVars, Shape, TypeOK
    <3>3. QED
      BY <3>1, <3>2, ExitsGrow
  <2>3. QED
    BY <1>4, <2>1, <2>2
<1>5. CASE UNCHANGED vars
  BY <1>5, ExitsGrow DEF vars
<1>6. QED
  BY <1>1, <1>2, <1>3, <1>4, <1>5 DEF Next

LEMMA NoMoreThanWorkers ==
  ASSUME NEW D, NEW E \in SUBSET Workers, IsFiniteSet(D), Cardinality(D) <= Cardinality(E)
  PROVE  Cardinality(D) <= NThreads
<1>1. IsFiniteSet(E) /\ Cardinality(E) <= NThreads
  BY WorkersFacts, FS_Subset
<1>2. Cardinality(D) \in Nat /\ Cardinality(E) \in Nat /\ NThreads \in Nat
  BY <1>1, FS_CardinalityType, PoolAssumption DEF PoolAssumption
<1>3. QED
  BY <1>1, <1>2

(* once _stop is set no worker reads it as false *)
LEMMA NobodyCleared ==
  Shape /\ stop /\ [Next]_vars =>
    \A w \in Workers : wpc'[w] = "cleared" => wpc[w] = "cleared"
<1> SUFFICES ASSUME Shape, stop, [Next]_vars, NEW w \in Workers, wpc'[w] = "cleared"
             PROVE  wpc[w] = "cleared"
  OBVIOUS
<1>1. CASE Owner
  BY <1>1 DEF Owner, CreateThread, Built, CreateFails, Unwind, schedule, pushWait, push,
              NotifyNotEmpty, At, SpuriousOwner, SetStop, Interrupt, Join, workerVars,
              Shape, TypeOK
<1>2. ASSUME NEW v \in Workers, Worker(v)
      PROVE  wpc[w] = "cleared"
  BY <1>2 DEF Worker, popWait, pop, Tests, SpuriousWorker, InterruptedWait, CheckStop, BeginTask,
              TaskReturns, TaskThrows, EndTask, workerVars, Shape, TypeOK
<1>3. CASE UNCHANGED vars
  BY <1>3 DEF vars
<1>4. QED
  BY <1>1, <1>2, <1>3 DEF Next

(* Behind the assignment of _stop no worker begins a task that had not     *)
(* read it before, and no more tasks are dropped than there are threads,   *)
(* for any number of threads, however late each of them looks.             *)
THEOREM StopEndsStarting == Spec => StopPreventsStart
<1>1. Init => Inv /\ DropsExit
  <2>1. ASSUME Init
        PROVE  DropsExit
    BY <2>1, AtFacts, FS_EmptySet DEF Init, DropsExit
  <2>2. QED
    BY <2>1, InvInit
<1>2. Inv /\ DropsExit /\ [Next]_vars => (Inv /\ DropsExit)'
  BY InvStep, DropsExitStep DEF Inv
<1>3. Inv /\ DropsExit' /\ [Next]_vars =>
        [stop => /\ \A w \in Workers : wpc'[w] = "cleared" => wpc[w] = "cleared"
                 /\ Cardinality(dropped') <= NThreads]_vars
  <2>1. At({"exited"})' \in SUBSET Workers
    BY DEF At
  <2>2. DropsExit' => Cardinality(dropped') <= NThreads
    BY <2>1, NoMoreThanWorkers DEF DropsExit
  <2>3. QED
    BY <2>2, NobodyCleared DEF Inv
<1>4. QED
  BY <1>1, <1>2, <1>3, PTL DEF Spec, StopPreventsStart

------------------------------------------------------------------------------
(* Nobody is stuck: the part of the liveness of the pool that no fairness  *)
(* is needed for.                                                          *)

Working == {"pop", "woken", "popped", "cleared", "serving", "served"}

(* While a task is queued and the pool not stopped, or the owner waits for *)
(* a place in the queue, some worker is awake, and whoever the destructor  *)
(* waits for is awake, is told to end or is over.                          *)
NobodyStuck ==
  /\ queue # <<>> /\ ~stop /\ opc # "building" => At(Working) # {}
  /\ opc = "pushWait" => At(Working) # {}
  /\ opc = "joining" => \A w \in Workers : \/ wpc[w] \in Working \cup {"exited", "unborn"}
                                           \/ wpc[w] = "waiting" /\ w \in interrupted

(* steps a worker of a pool that stops may still take *)
Ahead == [exited |-> 0, unborn |-> 0, popped |-> 1, woken |-> 1, pop |-> 2, waiting |-> 2,
          served |-> 3, serving |-> 4, cleared |-> 5]

(* Every step behind the interrupt loops brings the end nearer: the owner  *)
(* joins one more thread, or one worker has fewer steps ahead of it and    *)
(* everything else stays.                                                  *)
WindsDown ==
  [][opc = "joining" =>
       \/ aborted'
       \/ /\ UNCHANGED wpc
          /\ opc' = "gone" \/ (opc' = "joining" /\ oi' = oi + 1 /\ oi' <= NThreads)
       \/ \E w \in Workers : /\ Ahead[wpc'[w]] < Ahead[wpc[w]]
                             /\ \A v \in Workers \ {w} : wpc'[v] = wpc[v]
                             /\ UNCHANGED <<opc, oi>>]_vars

LEMMA CalledSuffices == Inv => NobodyStuck
<1> SUFFICES ASSUME Inv
             PROVE  NobodyStuck
  OBVIOUS
<1>t. wpc \in [Workers -> WorkerPc] /\ opc \in OwnerPc /\ queue \in Seq(Nat)
  BY DEF Inv, Shape, TypeOK
<1>w. \E w \in Workers : TRUE
  <2>1. 0 \in Workers
    BY PoolAssumption DEF PoolAssumption, Workers
  <2>2. QED
    BY <2>1
<1>1. ASSUME queue # <<>>, ~stop, opc # "building"
      PROVE  At(Working) # {}
  <2>1. opc \in {"idle", "push", "pushWait"}
    BY <1>1, <1>t DEF Inv, Shape, OwnerOK, OwnerPc
  <2>2. \A w \in Workers : wpc[w] \notin {"unborn", "exited"}
    BY <1>1, <2>1 DEF Inv, Called, At
  <2>3. CASE At({"waiting"}) = {}
    BY <1>t, <1>w, <2>2, <2>3 DEF At, Working, WorkerPc
  <2>4. CASE At({"waiting"}) # {}
    <3>1. Len(queue) <= Cardinality(At(Ready))
      BY <1>1, <2>4 DEF Inv, Counts, NoLostWakeup
    <3>2. Len(queue) \in Nat /\ Len(queue) # 0
      BY <1>1, <1>t, EmptySeq
    <3>3. At(Ready) # {}
      BY <3>1, <3>2, AtFacts
    <3>4. QED
      BY <3>3 DEF At, Ready, Working
  <2>5. QED
    BY <2>3, <2>4
<1>2. ASSUME opc = "pushWait"
      PROVE  At(Working) # {}
  <2>1. Len(queue) = MaxPending /\ MaxPending # 0
    BY <1>2, PoolAssumption DEF Inv, Counts, NoLostWakeup, PoolAssumption
  <2>2. queue # <<>>
    BY <2>1, EmptySeq
  <2>3. ~stop
    BY <1>2 DEF Inv, Shape, OwnerOK
  <2>4. QED
    BY <1>1, <1>2, <2>2, <2>3
<1>3. ASSUME opc = "joining", NEW w \in Workers
      PROVE  \/ wpc[w] \in Working \cup {"exited", "unborn"}
             \/ wpc[w] = "waiting" /\ w \in interrupted
  BY <1>3, <1>t DEF Inv, Called, Working, WorkerPc
<1>4. QED
  BY <1>1, <1>2, <1>3 DEF NobodyStuck

(* Until the pool stops a task in the queue or a full queue, and after it  *)
(* the destructor that joins, find somebody awake, for every number of     *)
(* threads, capacity and tasks.                                            *)
THEOREM NobodyIsStuck == Spec => []NobodyStuck
<1>1. Init => Inv
  BY InvInit
<1>2. Inv /\ [Next]_vars => Inv'
  BY InvStep
<1>3. QED
  BY <1>1, <1>2, CalledSuffices, PTL DEF Spec

LEMMA WindingStep ==
  ASSUME Shape, Called, opc = "joining", Next, ~(UNCHANGED vars)
  PROVE  \/ aborted'
         \/ /\ UNCHANGED wpc
            /\ opc' = "gone" \/ (opc' = "joining" /\ oi' = oi + 1 /\ oi' <= NThreads)
         \/ \E w \in Workers : /\ Ahead[wpc'[w]] < Ahead[wpc[w]]
                               /\ \A v \in Workers \ {w} : wpc'[v] = wpc[v]
                               /\ UNCHANGED <<opc, oi>>
<1>t. wpc \in [Workers -> WorkerPc] /\ oi \in Int /\ NThreads \in Int /\ stop
  BY PoolAssumption DEF PoolAssumption, Shape, TypeOK, OwnerOK
<1>1. CASE Owner
  <2>1. Join
    BY <1>1 DEF Owner, CreateThread, Built, CreateFails, Unwind, schedule, pushWait, push,
                SpuriousOwner, SetStop, Interrupt
  <2>2. UNCHANGED wpc
    BY <2>1 DEF Join, workerVars
  <2>3. opc' = "gone" \/ (opc' = "joining" /\ oi' = oi + 1 /\ oi' <= NThreads)
    BY <2>1, <1>t DEF Join
  <2>4. QED
    BY <2>2, <2>3
<1>2. ASSUME NEW w \in Workers, Worker(w), ~aborted'
      PROVE  \E u \in Workers : /\ Ahead[wpc'[u]] < Ahead[wpc[u]]
                                /\ \A v \in Workers \ {u} : wpc'[v] = wpc[v]
                                /\ UNCHANGED <<opc, oi>>
  <2>1. UNCHANGED <<opc, oi>>
    BY <1>2 DEF Worker, popWait, pop, Tests, NotifyNotFull, SpuriousWorker, InterruptedWait, CheckStop,
                BeginTask, TaskReturns, TaskThrows, EndTask
  <2>2. \A v \in Workers \ {w} : wpc'[v] = wpc[v]
    BY <1>2, <1>t DEF Worker, popWait, pop, Tests, SpuriousWorker, InterruptedWait, CheckStop, BeginTask,
                TaskReturns, TaskThrows, EndTask, workerVars
  <2>3. w \in interrupted \/ wpc[w] = "unborn"
    BY DEF Called
  <2>4. Ahead[wpc'[w]] < Ahead[wpc[w]]
    <3> USE DEF Ahead
    <3>1. CASE popWait(w)
      <4>1. wpc[w] = "pop" /\ wpc'[w] = "exited"
        BY <1>t, <2>3, <3>1 DEF popWait, Tests
      <4>2. QED
        BY <4>1
    <3>2. CASE pop(w)
      <4>1. wpc[w] = "pop" /\ wpc'[w] = "popped"
        BY <1>t, <2>3, <3>2 DEF pop, Tests
      <4>2. QED
        BY <4>1
    <3>3. CASE SpuriousWorker(w) \/ InterruptedWait(w)
      <4>1. \/ wpc[w] = "waiting" /\ wpc'[w] \in {"woken", "exited"}
            \/ wpc[w] = "woken" /\ wpc'[w] = "exited"
        BY <1>t, <3>3 DEF SpuriousWorker, InterruptedWait
      <4>2. QED
        BY <4>1
    <3>4. CASE CheckStop(w)
      <4>1. wpc[w] = "popped" /\ wpc'[w] = "exited"
        BY <1>t, <3>4 DEF CheckStop
      <4>2. QED
        BY <4>1
    <3>5. CASE BeginTask(w)
      <4>1. wpc[w] = "cleared" /\ wpc'[w] = "serving"
        BY <1>t, <3>5 DEF BeginTask
      <4>2. QED
        BY <4>1
    <3>6. CASE TaskReturns(w)
      <4>1. wpc[w] = "serving" /\ wpc'[w] = "served"
        BY <1>t, <3>6 DEF TaskReturns
      <4>2. QED
        BY <4>1
    <3>7. CASE EndTask(w)
      <4>1. wpc[w] = "served" /\ wpc'[w] = "pop"
        BY <1>t, <3>7 DEF EndTask
      <4>2. QED
        BY <4>1
    <3>8. QED
      BY <1>2, <3>1, <3>2, <3>3, <3>4, <3>5, <3>6, <3>7 DEF Worker, TaskThrows
  <2>5. QED
    BY <2>1, <2>2, <2>4
<1>3. QED
  BY <1>1, <1>2 DEF Next

(* Behind the interrupt loops a stopping pool has a bounded number of      *)
(* steps left, five for each worker and one for each thread it joins, for  *)
(* any number of threads and however often a wait ends spuriously.         *)
THEOREM StopWindsDown == Spec => WindsDown
<1>1. Init => Inv
  BY InvInit
<1>2. Inv /\ [Next]_vars => Inv'
  BY InvStep
<1>3. Inv /\ [Next]_vars =>
        [opc = "joining" =>
           \/ aborted'
           \/ /\ UNCHANGED wpc
              /\ opc' = "gone" \/ (opc' = "joining" /\ oi' = oi + 1 /\ oi' <= NThreads)
           \/ \E w \in Workers : /\ Ahead[wpc'[w]] < Ahead[wpc[w]]
                                 /\ \A v \in Workers \ {w} : wpc'[v] = wpc[v]
                                 /\ UNCHANGED <<opc, oi>>]_vars
  BY WindingStep DEF Inv
<1>4. QED
  BY <1>1, <1>2, <1>3, PTL DEF Spec, WindsDown

==============================================================================
