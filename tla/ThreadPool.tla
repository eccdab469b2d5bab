----------------------------- MODULE ThreadPool ------------------------------
(***************************************************************************)
(* storm::ThreadPool and its SynchronizedQueue (src/frontend/              *)
(* ThreadPool.hpp): worker threads that pop tasks from a bounded queue     *)
(* guarded by one mutex and two condition variables, and the one thread    *)
(* that owns the pool - main() - which builds it, schedules tasks and      *)
(* destroys it.                                                            *)
(*                                                                         *)
(* A critical section is one step; waiting on a condition is a state of    *)
(* its own, left by a notification, by a spurious wakeup or by an          *)
(* interruption.  Task t is the t-th one scheduled.                        *)
(***************************************************************************)
EXTENDS Integers, Sequences, FiniteSets

CONSTANTS NThreads,    \* _nThreads, the workers
          MaxPending,  \* SynchronizedQueue::_max_size
          MaxTasks,    \* bound: tasks scheduled in one behaviour
          Throwing     \* tasks whose function lets an exception escape

ASSUME PoolAssumption == /\ NThreads \in Nat \ {0}
                         /\ MaxPending \in Nat \ {0}
                         /\ MaxTasks \in Nat
                         /\ Throwing \subseteq Nat

VARIABLES queue,         \* _q
          wpc,           \* where each worker is in thread_function and pop()
          wtask,         \* the task a worker has popped and not disposed of, or 0
          activeThreads, \* _activeThreads
          stop,          \* _stop
          interrupted,   \* workers with a pending interruption request
          opc,           \* where the owner is: constructor, push(), destructor
          oi,            \* loop index of the constructor and of the destructor
          scheduled,     \* number of tasks pushed so far
          finished,      \* tasks whose function has returned
          dropped,       \* tasks popped by a worker that then saw _stop
          aborted        \* std::terminate has ended the process

workerVars == <<wpc, wtask>>
historyVars == <<finished, dropped>>
vars == <<queue, wpc, wtask, activeThreads, stop, interrupted, opc, oi,
          scheduled, finished, dropped, aborted>>

Workers == 0 .. (NThreads - 1)

WorkerPc == {"unborn",    \* the constructor has not created the thread yet
             "pop",       \* about to take the queue's mutex
             "waiting",   \* asleep in _queue_not_empty.wait
             "woken",     \* awake in the wait, its interruption point to come
             "popped",    \* holds a task, _stop not read yet
             "cleared",   \* read _stop = false
             "serving",   \* counted as active, inside func()
             "served",    \* func() returned, still counted
             "exited"}

OwnerPc == {"building", "idle", "push", "pushWait",
            "unwinding",     \* interrupt loop of the constructor's catch
            "interrupting",  \* interrupt loop of the destructor
            "joining", "gone"}

Ready == {"pop", "woken"}  \* on their way to the test of the queue

(* workers whose wpc is in S *)
At(S) == {w \in Workers : wpc[w] \in S}

Init == /\ queue = <<>>
        /\ wpc = [w \in Workers |-> "unborn"]
        /\ wtask = [w \in Workers |-> 0]
        /\ activeThreads = 0
        /\ stop = FALSE
        /\ interrupted = {}
        /\ opc = "building"
        /\ oi = 0
        /\ scheduled = 0
        /\ finished = {}
        /\ dropped = {}
        /\ aborted = FALSE

------------------------------------------------------------------------------
(* Constructor.                                                            *)

(* one round of the loop that creates the threads *)
CreateThread ==
  /\ opc = "building"
  /\ oi < NThreads
  /\ wpc' = [wpc EXCEPT ![oi] = "pop"]
  /\ oi' = oi + 1
  /\ UNCHANGED <<queue, wtask, activeThreads, stop, interrupted, opc,
                 scheduled, historyVars, aborted>>

Built ==
  /\ opc = "building"
  /\ oi = NThreads
  /\ opc' = "idle"
  /\ UNCHANGED <<queue, workerVars, activeThreads, stop, interrupted, oi,
                 scheduled, historyVars, aborted>>

(* boost::thread_resource_error: unwind from the thread that failed *)
CreateFails ==
  /\ opc = "building"
  /\ oi < NThreads
  /\ stop' = TRUE
  /\ opc' = "unwinding"
  /\ UNCHANGED <<queue, workerVars, activeThreads, interrupted, oi,
                 scheduled, historyVars, aborted>>

(* interrupt(i) for i from the failed thread, which has no thread behind   *)
(* it, down to 0                                                           *)
Unwind ==
  /\ opc = "unwinding"
  /\ \/ /\ oi >= 0
        /\ interrupted' = interrupted \cup ({oi} \ At({"unborn"}))
        /\ oi' = oi - 1
        /\ UNCHANGED opc
     \/ /\ oi < 0
        /\ opc' = "joining"
        /\ oi' = 0
        /\ UNCHANGED interrupted
  /\ UNCHANGED <<queue, workerVars, activeThreads, stop, scheduled,
                 historyVars, aborted>>

------------------------------------------------------------------------------
(* The owner: schedule(), that is SynchronizedQueue::push.                 *)

(* mutants: push() without its notification, or with one only for a task   *)
(* that finds the queue empty                                              *)
NotifyNobody == UNCHANGED wpc

NotifyFirst ==
  \/ (queue # <<>> \/ At({"waiting"}) = {}) /\ UNCHANGED wpc
  \/ /\ queue = <<>>
     /\ \E w \in At({"waiting"}) : wpc' = [wpc EXCEPT ![w] = "woken"]

(* _queue_not_empty.notify_one() *)
NotifyNotEmpty ==
  \/ At({"waiting"}) = {} /\ UNCHANGED wpc
  \/ \E w \in At({"waiting"}) : wpc' = [wpc EXCEPT ![w] = "woken"]

schedule ==
  /\ opc = "idle"
  /\ scheduled < MaxTasks
  /\ opc' = "push"
  /\ UNCHANGED <<queue, workerVars, activeThreads, stop, interrupted, oi,
                 scheduled, historyVars, aborted>>

pushWait ==
  /\ opc = "push"
  /\ Len(queue) = MaxPending
  /\ opc' = "pushWait"
  /\ UNCHANGED <<queue, workerVars, activeThreads, stop, interrupted, oi,
                 scheduled, historyVars, aborted>>

push ==
  /\ opc = "push"
  /\ Len(queue) # MaxPending
  /\ queue' = Append(queue, scheduled + 1)
  /\ scheduled' = scheduled + 1
  /\ NotifyNotEmpty
  /\ opc' = "idle"
  /\ UNCHANGED <<wtask, activeThreads, stop, interrupted, oi, historyVars,
                 aborted>>

(* a spurious wakeup out of _queue_not_full.wait *)
SpuriousOwner ==
  /\ opc = "pushWait"
  /\ opc' = "push"
  /\ UNCHANGED <<queue, workerVars, activeThreads, stop, interrupted, oi,
                 scheduled, historyVars, aborted>>

------------------------------------------------------------------------------
(* The owner: ~ThreadPool().                                               *)

SetStop ==
  /\ opc = "idle"
  /\ stop' = TRUE
  /\ opc' = "interrupting"
  /\ oi' = 0
  /\ UNCHANGED <<queue, workerVars, activeThreads, interrupted, scheduled,
                 historyVars, aborted>>

(* mutants: the interrupt loop goes one worker too far, or stops one short *)
InterruptOneMore ==
  /\ opc = "interrupting"
  /\ IF oi <= NThreads
     THEN interrupted' = interrupted \cup {oi} /\ oi' = oi + 1 /\ UNCHANGED opc
     ELSE opc' = "joining" /\ oi' = 0 /\ UNCHANGED interrupted
  /\ UNCHANGED <<queue, workerVars, activeThreads, stop, scheduled,
                 historyVars, aborted>>

InterruptAllButLast ==
  /\ opc = "interrupting"
  /\ IF oi < NThreads - 1
     THEN interrupted' = interrupted \cup {oi} /\ oi' = oi + 1 /\ UNCHANGED opc
     ELSE opc' = "joining" /\ oi' = 0 /\ UNCHANGED interrupted
  /\ UNCHANGED <<queue, workerVars, activeThreads, stop, scheduled,
                 historyVars, aborted>>

Interrupt ==
  /\ opc = "interrupting"
  /\ \/ /\ oi < NThreads
        /\ interrupted' = interrupted \cup {oi}
        /\ oi' = oi + 1
        /\ UNCHANGED opc
     \/ /\ oi = NThreads
        /\ opc' = "joining"
        /\ oi' = 0
        /\ UNCHANGED interrupted
  /\ UNCHANGED <<queue, workerVars, activeThreads, stop, scheduled,
                 historyVars, aborted>>

(* mutant: the join loop stops one worker short *)
JoinAllButLast ==
  /\ opc = "joining"
  /\ IF oi < NThreads - 1
     THEN wpc[oi] \in {"exited", "unborn"} /\ oi' = oi + 1 /\ UNCHANGED opc
     ELSE opc' = "gone" /\ UNCHANGED oi
  /\ UNCHANGED <<queue, workerVars, activeThreads, stop, interrupted,
                 scheduled, historyVars, aborted>>

(* join() returns at once for a thread that was never created; the last    *)
(* one joined, the pool goes                                               *)
Join ==
  /\ opc = "joining"
  /\ \/ /\ oi < NThreads
        /\ wpc[oi] \in {"exited", "unborn"}
        /\ oi' = oi + 1
        /\ UNCHANGED opc
     \/ /\ oi = NThreads
        /\ opc' = "gone"
        /\ UNCHANGED oi
  /\ UNCHANGED <<queue, workerVars, activeThreads, stop, interrupted,
                 scheduled, historyVars, aborted>>

------------------------------------------------------------------------------
(* The workers: thread_function and SynchronizedQueue::pop.                *)

(* mutant: pop() without its notification *)
NotifyNoOwner == UNCHANGED opc

(* _queue_not_full.notify_one(): only the owner waits there *)
NotifyNotFull == opc' = IF opc = "pushWait" THEN "push" ELSE opc

(* w has the mutex and tests the queue: on its way into pop(), or back from *)
(* the wait, which ends in an interruption point under the same mutex      *)
Tests(w) == wpc[w] = "pop" \/ (wpc[w] = "woken" /\ w \notin interrupted)

(* the queue is empty: wait, an interruption point *)
popWait(w) ==
  /\ Tests(w)
  /\ queue = <<>>
  /\ \/ w \in interrupted /\ wpc' = [wpc EXCEPT ![w] = "exited"]
     \/ w \notin interrupted /\ wpc' = [wpc EXCEPT ![w] = "waiting"]
  /\ UNCHANGED <<queue, wtask, activeThreads, stop, interrupted, opc, oi,
                 scheduled, historyVars, aborted>>

(* mutants: pop() leaves the task it returns in the queue, or takes the    *)
(* youngest task                                                           *)
popKeepsFront(w) ==
  /\ Tests(w)
  /\ queue # <<>>
  /\ wtask' = [wtask EXCEPT ![w] = Head(queue)]
  /\ wpc' = [wpc EXCEPT ![w] = "popped"]
  /\ NotifyNotFull
  /\ UNCHANGED <<queue, activeThreads, stop, interrupted, oi, scheduled,
                 historyVars, aborted>>

popBack(w) ==
  /\ Tests(w)
  /\ queue # <<>>
  /\ wtask' = [wtask EXCEPT ![w] = queue[Len(queue)]]
  /\ queue' = SubSeq(queue, 1, Len(queue) - 1)
  /\ wpc' = [wpc EXCEPT ![w] = "popped"]
  /\ NotifyNotFull
  /\ UNCHANGED <<activeThreads, stop, interrupted, oi, scheduled,
                 historyVars, aborted>>

pop(w) ==
  /\ Tests(w)
  /\ queue # <<>>
  /\ wtask' = [wtask EXCEPT ![w] = Head(queue)]
  /\ queue' = Tail(queue)
  /\ wpc' = [wpc EXCEPT ![w] = "popped"]
  /\ NotifyNotFull
  /\ UNCHANGED <<activeThreads, stop, interrupted, oi, scheduled,
                 historyVars, aborted>>

(* a spurious wakeup out of _queue_not_empty.wait *)
SpuriousWorker(w) ==
  /\ wpc[w] = "waiting"
  /\ wpc' = [wpc EXCEPT ![w] = "woken"]
  /\ UNCHANGED <<queue, wtask, activeThreads, stop, interrupted, opc, oi,
                 scheduled, historyVars, aborted>>

(* thread_interrupted out of the wait ends the thread: asleep, or already  *)
(* notified, in which case its notification is lost                        *)
InterruptedWait(w) ==
  /\ wpc[w] \in {"waiting", "woken"}
  /\ w \in interrupted
  /\ wpc' = [wpc EXCEPT ![w] = "exited"]
  /\ UNCHANGED <<queue, wtask, activeThreads, stop, interrupted, opc, oi,
                 scheduled, historyVars, aborted>>

(* mutant: _stop is not looked at after pop() *)
IgnoreStop(w) ==
  /\ wpc[w] = "popped"
  /\ wpc' = [wpc EXCEPT ![w] = "cleared"]
  /\ UNCHANGED <<queue, wtask, activeThreads, stop, interrupted, opc, oi,
                 scheduled, historyVars, aborted>>

(* _stop is set: leave the loop, the popped task is thrown away *)
CheckStop(w) ==
  /\ wpc[w] = "popped"
  /\ \/ /\ stop
        /\ wpc' = [wpc EXCEPT ![w] = "exited"]
        /\ wtask' = [wtask EXCEPT ![w] = 0]
        /\ dropped' = dropped \cup {wtask[w]}
     \/ /\ ~stop
        /\ wpc' = [wpc EXCEPT ![w] = "cleared"]
        /\ UNCHANGED <<wtask, dropped>>
  /\ UNCHANGED <<queue, activeThreads, stop, interrupted, opc, oi, scheduled,
                 finished, aborted>>

(* mutant: the task begins without being counted *)
BeginUncounted(w) ==
  /\ wpc[w] = "cleared"
  /\ wpc' = [wpc EXCEPT ![w] = "serving"]
  /\ UNCHANGED <<queue, wtask, activeThreads, stop, interrupted, opc, oi,
                 scheduled, historyVars, aborted>>

BeginTask(w) ==
  /\ wpc[w] = "cleared"
  /\ wpc' = [wpc EXCEPT ![w] = "serving"]
  /\ activeThreads' = activeThreads + 1
  /\ UNCHANGED <<queue, wtask, stop, interrupted, opc, oi, scheduled,
                 historyVars, aborted>>

(* mutant: the worker goes back to pop() without the decrement *)
ReturnsUncounted(w) ==
  /\ wpc[w] = "serving"
  /\ wtask[w] \notin Throwing
  /\ wpc' = [wpc EXCEPT ![w] = "pop"]
  /\ wtask' = [wtask EXCEPT ![w] = 0]
  /\ finished' = finished \cup {wtask[w]}
  /\ UNCHANGED <<queue, activeThreads, stop, interrupted, opc, oi, scheduled,
                 dropped, aborted>>

(* func() returns *)
TaskReturns(w) ==
  /\ wpc[w] = "serving"
  /\ wtask[w] \notin Throwing
  /\ wpc' = [wpc EXCEPT ![w] = "served"]
  /\ wtask' = [wtask EXCEPT ![w] = 0]
  /\ finished' = finished \cup {wtask[w]}
  /\ UNCHANGED <<queue, activeThreads, stop, interrupted, opc, oi, scheduled,
                 dropped, aborted>>

(* func() throws: thread_function catches thread_interrupted only, so the  *)
(* exception reaches std::terminate                                        *)
TaskThrows(w) ==
  /\ wpc[w] = "serving"
  /\ wtask[w] \in Throwing
  /\ aborted' = TRUE
  /\ UNCHANGED <<queue, workerVars, activeThreads, stop, interrupted, opc, oi,
                 scheduled, historyVars>>

EndTask(w) ==
  /\ wpc[w] = "served"
  /\ wpc' = [wpc EXCEPT ![w] = "pop"]
  /\ activeThreads' = activeThreads - 1
  /\ UNCHANGED <<queue, wtask, stop, interrupted, opc, oi, scheduled,
                 historyVars, aborted>>

------------------------------------------------------------------------------

Owner == \/ CreateThread \/ Built \/ CreateFails \/ Unwind
         \/ schedule \/ pushWait \/ push \/ SpuriousOwner
         \/ SetStop \/ Interrupt \/ Join

Worker(w) == \/ popWait(w) \/ pop(w) \/ SpuriousWorker(w) \/ InterruptedWait(w)
             \/ CheckStop(w) \/ BeginTask(w)
             \/ TaskReturns(w) \/ TaskThrows(w) \/ EndTask(w)

(* the pool is gone, or so is the process *)
Ended == aborted \/ opc = "gone"

Next == \/ /\ ~aborted
           /\ Owner \/ \E w \in Workers : Worker(w)
        \/ Ended /\ UNCHANGED vars

Spec == Init /\ [][Next]_vars

(* A runnable thread runs: every step of a worker except a spurious wakeup,*)
(* and every step of the owner except the decision to schedule or to       *)
(* destroy.                                                                *)
WorkerRuns(w) == /\ ~aborted
                 /\ \/ popWait(w) \/ pop(w) \/ InterruptedWait(w) \/ CheckStop(w)
                    \/ BeginTask(w) \/ TaskReturns(w) \/ TaskThrows(w) \/ EndTask(w)
OwnerRuns == /\ ~aborted
             /\ CreateThread \/ Built \/ Unwind \/ pushWait \/ push \/ Interrupt \/ Join

FairSpec == Spec /\ WF_vars(OwnerRuns) /\ \A w \in Workers : WF_vars(WorkerRuns(w))

------------------------------------------------------------------------------
(* Properties.                                                             *)

(* The shape of the state.                                                 *)
TypeOK ==
  /\ queue \in Seq(Nat)
  /\ wpc \in [Workers -> WorkerPc]
  /\ wtask \in [Workers -> Nat]
  /\ activeThreads \in Int
  /\ stop \in BOOLEAN
  /\ interrupted \subseteq Workers
  /\ opc \in OwnerPc
  /\ oi \in -1 .. NThreads
  /\ scheduled \in Nat
  /\ finished \subseteq Nat /\ dropped \subseteq Nat
  /\ aborted \in BOOLEAN

taken == scheduled - Len(queue)
HoldsTask == {"popped", "cleared", "serving"}

QueueInOrder == /\ taken >= 0
                /\ \A i \in 1 .. Len(queue) : queue[i] = taken + i
HeldOnce == /\ \A w \in Workers : /\ wtask[w] # 0 <=> wpc[w] \in HoldsTask
                                  /\ wtask[w] \in 0 .. taken
            /\ \A v, w \in Workers : v # w /\ wtask[v] = wtask[w] => wtask[v] = 0
DisposedOnce == /\ finished \cap dropped = {}
                /\ finished \cup dropped \subseteq 1 .. taken
                /\ \A w \in Workers : wtask[w] \notin finished \cup dropped
NoneLost == \A t \in 1 .. taken : \/ t \in finished \cup dropped
                                 \/ \E w \in Workers : wtask[w] = t

(* No task is lost or run twice: every task scheduled is in exactly one    *)
(* place - in the queue at its rank, held by one worker, finished, or      *)
(* dropped - and only a pool that is stopping drops.                       *)
TaskConservation ==
  /\ QueueInOrder
  /\ HeldOnce
  /\ DisposedOnce
  /\ NoneLost
  /\ dropped # {} => stop

(* No wakeup is lost although pop() and push() use notify_one(): while a   *)
(* worker sleeps on _queue_not_empty, each queued task has an awake worker *)
(* on its way to pop it, and the owner sleeps on _queue_not_full only      *)
(* while the queue is full.  A pool that stops does lose them, with the    *)
(* notified workers it interrupts.                                         *)
NoLostWakeup ==
  /\ ~stop /\ At({"waiting"}) # {} => Len(queue) <= Cardinality(At(Ready))
  /\ opc = "pushWait" => Len(queue) = MaxPending

(* The counter main() logs as "Active tasks" is the number of workers      *)
(* between its increment and its decrement.                                *)
ActiveCount == activeThreads = Cardinality(At({"serving", "served"}))

(* The queue never grows over its capacity: push() tests the size with ==, *)
(* which is enough only because no step can overshoot it.                  *)
QueueBound == Len(queue) <= MaxPending

(* When the destructor returns no worker is left to touch the queue, the   *)
(* mutex and the counter it frees.                                         *)
NoWorkerOutlivesPool ==
  opc = "gone" => activeThreads = 0 /\ At(WorkerPc \ {"exited", "unborn"}) = {}

(* Once _stop is set only the workers that had already read it as false    *)
(* begin a task: each pops and drops one task at most, and the tasks left  *)
(* in the queue are never popped.                                          *)
StopPreventsStart ==
  [][stop => /\ \A w \in Workers : wpc'[w] = "cleared" => wpc[w] = "cleared"
             /\ Cardinality(dropped') <= NThreads]_vars

(* The pool is the abstract bounded queue, seen through what each worker   *)
(* holds.                                                                  *)
TQ == INSTANCE TaskQueue WITH pending <- queue,
                              held <- {wtask[w] : w \in At(HoldsTask)},
                              closed <- stop
TaskQueueSpec == TQ!Spec
TaskQueueSafety == TQ!SafeSpec

(* Every task scheduled is finished, unless the pool is destroyed first.   *)
EveryTaskServed ==
  \A t \in 1 .. MaxTasks : (scheduled >= t) ~> (t \in finished \/ stop)

(* The destructor, and the constructor's unwinding, end: no worker is left *)
(* asleep in pop() and none is waited for forever.                         *)
DestructorEnds == stop ~> (opc = "gone")

==============================================================================
