------------------------------ MODULE TaskQueue ------------------------------
(***************************************************************************)
(* What storm::ThreadPool promises to the accept loop of the frontend: a   *)
(* bounded FIFO of tasks served by a fixed number of threads.  Tasks are   *)
(* named by the order in which they were scheduled.  A task is taken in    *)
(* that order, at most MaxPending tasks are pending and at most NThreads   *)
(* are held by a thread; a held task is finished, and may be dropped       *)
(* instead only once the pool is closed.                                   *)
(***************************************************************************)
EXTENDS Naturals, Sequences, FiniteSets

CONSTANTS NThreads,    \* threads that serve tasks
          MaxPending,  \* capacity of the queue
          MaxTasks     \* bound on the number of tasks of a behaviour

VARIABLES pending,     \* scheduled tasks that no thread has taken, oldest first
          scheduled,   \* number of tasks scheduled so far
          held,        \* tasks a thread has taken and not disposed of
          finished,    \* tasks whose function has returned
          dropped,     \* tasks taken and thrown away without being run
          closed       \* the destructor has begun

vars == <<pending, scheduled, held, finished, dropped, closed>>

Init == /\ pending = <<>>
        /\ scheduled = 0
        /\ held = {} /\ finished = {} /\ dropped = {}
        /\ closed = FALSE

Submit == /\ ~closed
          /\ Len(pending) < MaxPending
          /\ scheduled < MaxTasks
          /\ scheduled' = scheduled + 1
          /\ pending' = Append(pending, scheduled + 1)
          /\ UNCHANGED <<held, finished, dropped, closed>>

Take == /\ pending # <<>>
        /\ Cardinality(held) < NThreads
        /\ pending' = Tail(pending)
        /\ held' = held \cup {Head(pending)}
        /\ UNCHANGED <<scheduled, finished, dropped, closed>>

Finish(t) == /\ t \in held
             /\ held' = held \ {t}
             /\ finished' = finished \cup {t}
             /\ UNCHANGED <<pending, scheduled, dropped, closed>>

Drop(t) == /\ closed
           /\ t \in held
           /\ held' = held \ {t}
           /\ dropped' = dropped \cup {t}
           /\ UNCHANGED <<pending, scheduled, finished, closed>>

Close == /\ ~closed
         /\ closed' = TRUE
         /\ UNCHANGED <<pending, scheduled, held, finished, dropped>>

Next == \/ Submit
        \/ Take
        \/ \E t \in held : Finish(t) \/ Drop(t)
        \/ Close

SafeSpec == Init /\ [][Next]_vars

(* An open pool takes what is pending as soon as a thread is free, and     *)
(* every task it holds comes to an end.                                    *)
Spec == /\ SafeSpec
        /\ WF_vars(~closed /\ Take)
        /\ \A t \in 1..MaxTasks : WF_vars(Finish(t) \/ Drop(t))

==============================================================================
