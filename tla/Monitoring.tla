------------------------------ MODULE Monitoring ------------------------------
(***************************************************************************)
(* The monitors (Monitor.hpp), the thread that digests and prints them     *)
(* every round (Monitoring.cpp, Monitoring.hpp), the worker threads that   *)
(* register the outcome of their requests, the destruction of it all by    *)
(* main(), and the logger they share.                                      *)
(*                                                                         *)
(* Monitoring is taken to be enabled.  Of a status its three counters are  *)
(* modelled; execution times are left out.  A critical section in which    *)
(* the thread neither logs nor is observed without the mutex is one step.  *)
(***************************************************************************)
EXTENDS Logger

CONSTANTS Workers, Digest, Main,  \* the threads
          Monitors,               \* a sequence: m_monitor_vector
          m_detailed,
          MaxOperations,          \* bound: requests, and log lines of the accept loop
          MaxRounds               \* bound: rounds

MonitorSet == {Monitors[j] : j \in 1 .. Len(Monitors)}

ASSUME MonitoringAssumption ==
  /\ Threads = Workers \cup {Digest, Main} /\ Digest \notin Workers /\ Main \notin Workers
  /\ Digest # Main /\ Nobody \notin Threads
  /\ Monitors \in Seq(MonitorSet) /\ Len(Monitors) > 0 /\ LogLevel \in Nat
  /\ AuditEnabled \in BOOLEAN /\ m_detailed \in BOOLEAN
  /\ MaxOperations \in Nat /\ MaxRounds \in Nat /\ MaxSignals \in Nat

Kinds == {"success", "failure", "error"}
Counters == {"completed", "failures", "errors"}
Zero == [c \in Counters |-> 0]
Plus(s, r) == [c \in Counters |-> s[c] + r[c]]

(* what an operation of the kind adds to each counter *)
Completed == [Zero EXCEPT !["completed"] = 1]
Outcome == [success |-> Zero, failure |-> [Zero EXCEPT !["failures"] = 1],
            error |-> [Zero EXCEPT !["errors"] = 1]]

VARIABLES current, aggregated,  \* the status of each monitor, of the round and of all
          mutex,                \* who has the mutex of each monitor
          m_mutex,              \* who has the mutex of the monitoring
          pc, at, kind,         \* of a worker: its place, its monitor, its outcome
          operations,           \* number of operations started
          digest, it,           \* the digest thread: its place, the next monitor
          round, line,          \* sum of the round, and what the audit file is told
          m_round, m_running,
          shutdown,             \* place of main()
          interrupted, deleted, crashed,
          registered, earlier   \* history: operations registered, and when a summary began

statusVars == <<current, aggregated, mutex, registered>>
workerVars == <<pc, at, kind, operations>>
digestVars == <<digest, it, round, line, m_round, earlier>>
mainVars == <<m_running, shutdown, interrupted, deleted>>
vars == <<logVars, statusVars, m_mutex, workerVars, digestVars, mainVars, crashed>>

Empty == [m \in MonitorSet |-> Zero]
NoLine == [round |-> Zero, total |-> Zero]
Nothing == [registered |-> Zero, aggregated |-> Zero]

Init ==
  /\ LoggerInit
  /\ current = Empty /\ aggregated = Empty /\ registered = Empty
  /\ mutex = [m \in MonitorSet |-> Nobody] /\ m_mutex = Nobody
  /\ pc = [w \in Workers |-> "idle"] /\ kind = [w \in Workers |-> "success"]
  /\ at = [w \in Workers |-> Monitors[1]] /\ operations = 0
  /\ digest = "new" /\ it = 1 /\ round = Zero /\ line = NoLine /\ m_round = 0
  /\ earlier = Nothing
  /\ m_running = TRUE /\ shutdown = "run" /\ interrupted = FALSE /\ deleted = FALSE
  /\ crashed = FALSE

(* the sum of a counter over the monitors, as the two passes of a summary  *)
(* come to it: the synchronous monitors first, then the asynchronous ones  *)
Sum(status) ==
  LET upTo[j \in 0 .. Len(Monitors)] == IF j = 0 THEN Zero ELSE Plus(upTo[j - 1], status[Monitors[j]])
  IN upTo[Len(Monitors)]

-------------------------------------------------------------------------------
(* A worker.  A request that fails is logged and answered before it is     *)
(* registered, one that is served is registered before it is answered.     *)

AfterRequest == [success |-> "get", failure |-> "get", error |-> "error"]
AfterResponse == [success |-> "idle", failure |-> "idle", error |-> "get"]
AfterRegister == [success |-> "response", failure |-> "response", error |-> "idle"]

WorkerAt(w, place) == ~crashed /\ Running(w) /\ pc[w] = place
GoTo(w, place) == pc' = [pc EXCEPT ![w] = place]

LogRequest(w, m, k) ==
  /\ WorkerAt(w, "idle") /\ operations < MaxOperations
  /\ operations' = operations + 1
  /\ at' = [at EXCEPT ![w] = m] /\ kind' = [kind EXCEPT ![w] = k]
  /\ GoTo(w, AfterRequest[k])
  /\ srmlogit(w, INFO)
  /\ UNCHANGED <<statusVars, m_mutex, digestVars, mainVars, crashed>>

LogError(w) ==
  /\ WorkerAt(w, "error")
  /\ GoTo(w, "response")
  /\ srmlogit(w, ERROR)
  /\ UNCHANGED <<statusVars, m_mutex, at, kind, operations, digestVars, mainVars, crashed>>

LogResponse(w) ==
  /\ WorkerAt(w, "response")
  /\ GoTo(w, AfterResponse[kind[w]])
  /\ srmLogResponse(w)
  /\ UNCHANGED <<statusVars, m_mutex, at, kind, operations, digestVars, mainVars, crashed>>

getMonitor(w) ==
  /\ WorkerAt(w, "get") /\ m_mutex = Nobody
  /\ GoTo(w, "lock")
  /\ UNCHANGED <<logVars, statusVars, m_mutex, at, kind, operations, digestVars, mainVars, crashed>>

(* registerSuccess, registerFailure and registerError; the digest thread   *)
(* reads the counters without the mutex, between any two of these steps    *)
LockMonitor(w) ==
  /\ WorkerAt(w, "lock") /\ mutex[at[w]] = Nobody
  /\ mutex' = [mutex EXCEPT ![at[w]] = w]
  /\ GoTo(w, "complete")
  /\ UNCHANGED <<logVars, current, aggregated, registered, m_mutex, at, kind, operations,
                 digestVars, mainVars, crashed>>

AddCompleted(w) ==
  /\ WorkerAt(w, "complete")
  /\ current' = [current EXCEPT ![at[w]] = Plus(@, Completed)]
  /\ GoTo(w, "count")
  /\ UNCHANGED <<logVars, aggregated, mutex, registered, m_mutex, at, kind, operations,
                 digestVars, mainVars, crashed>>

AddOutcome(w) ==
  /\ WorkerAt(w, "count")
  /\ current' = [current EXCEPT ![at[w]] = Plus(@, Outcome[kind[w]])]
  /\ GoTo(w, "unlock")
  /\ UNCHANGED <<logVars, aggregated, mutex, registered, m_mutex, at, kind, operations,
                 digestVars, mainVars, crashed>>

(* what is registered is forgotten by the worker: its kind and monitor are *)
(* those of no operation again                                             *)
UnlockMonitor(w) ==
  /\ WorkerAt(w, "unlock")
  /\ mutex' = [mutex EXCEPT ![at[w]] = Nobody]
  /\ registered' = [registered EXCEPT ![at[w]] = Plus(@, Plus(Completed, Outcome[kind[w]]))]
  /\ GoTo(w, AfterRegister[kind[w]])
  /\ kind' = [kind EXCEPT ![w] = "success"] /\ at' = [at EXCEPT ![w] = Monitors[1]]
  /\ UNCHANGED <<logVars, current, aggregated, m_mutex, operations, digestVars, mainVars, crashed>>

Worker(w) == \/ LogError(w) \/ LogResponse(w) \/ getMonitor(w)
             \/ LockMonitor(w) \/ AddCompleted(w) \/ AddOutcome(w) \/ UnlockMonitor(w)

-------------------------------------------------------------------------------
(* The digest thread, thread_function.                                     *)

DigestAt(place) == ~crashed /\ Running(Digest) /\ digest = place

(* mutant: a monitor that counted nothing but failures is passed over *)
isUpdatedBySuccess(m) ==
  current[m]["completed"] # current[m]["failures"] + current[m]["errors"]

isUpdated(m) == current[m]["completed"] # 0
isEmpty(m) == ~isUpdated(m) /\ aggregated[m]["completed"] = 0
Visited == Monitors[it]
More == it <= Len(Monitors)

newRound ==
  /\ DigestAt("new")
  /\ m_round' = m_round + 1 /\ digest' = "sleep"
  /\ UNCHANGED <<logVars, statusVars, m_mutex, workerVars, it, round, line, earlier, mainVars, crashed>>

DigestEnds ==
  /\ DigestAt("sleep") /\ m_round <= MaxRounds
  /\ ~m_running /\ digest' = "ended"
  /\ UNCHANGED <<logVars, statusVars, m_mutex, workerVars, it, round, line, m_round, earlier,
                 mainVars, crashed>>

Wake ==
  /\ DigestAt("sleep") /\ m_round <= MaxRounds
  /\ m_running
  /\ \/ m_detailed /\ digest' = "roundDetails"
     \/ ~m_detailed /\ digest' = "summary"
  /\ UNCHANGED <<logVars, statusVars, m_mutex, workerVars, it, round, line, m_round, earlier,
                 mainVars, crashed>>

(* an interruption is noticed in the sleep only *)
DigestInterrupted ==
  /\ DigestAt("sleep") /\ interrupted
  /\ digest' = "ended"
  /\ srmlogit(Digest, INFO)
  /\ UNCHANGED <<statusVars, m_mutex, workerVars, it, round, line, m_round, earlier, mainVars, crashed>>

(* printSummary *)
LockSummary ==
  /\ DigestAt("summary") /\ m_mutex \in {Nobody, Digest}
  /\ m_mutex' = Digest
  /\ digest' = "completed" /\ it' = 1 /\ round' = Zero
  /\ earlier' = [registered |-> Sum(registered), aggregated |-> Sum(aggregated)]
  /\ UNCHANGED <<logVars, statusVars, workerVars, line, m_round, mainVars, crashed>>

(* buildRoundSummary reads one counter after the other                     *)
Read(c) == round' = [round EXCEPT ![c] = @ + current[Visited][c]]

ReadCompleted ==
  /\ DigestAt("completed") /\ More
  /\ \/ isUpdated(Visited) /\ Read("completed") /\ digest' = "failures" /\ UNCHANGED it
     \/ ~isUpdated(Visited) /\ it' = it + 1 /\ UNCHANGED <<round, digest>>
  /\ UNCHANGED <<logVars, statusVars, m_mutex, workerVars, line, m_round, earlier, mainVars, crashed>>

ReadFailures ==
  /\ DigestAt("failures")
  /\ Read("failures") /\ digest' = "errors"
  /\ UNCHANGED <<logVars, statusVars, m_mutex, workerVars, it, line, m_round, earlier, mainVars, crashed>>

ReadErrors ==
  /\ DigestAt("errors")
  /\ Read("errors") /\ digest' = "completed" /\ it' = it + 1
  /\ UNCHANGED <<logVars, statusVars, m_mutex, workerVars, line, m_round, earlier, mainVars, crashed>>

RoundRead ==
  /\ DigestAt("completed") /\ ~More
  /\ digest' = "endRound" /\ it' = 1
  /\ UNCHANGED <<logVars, statusVars, m_mutex, workerVars, round, line, m_round, earlier,
                 mainVars, crashed>>

(* mutant: the round is merged in and stays *)
DigestKeeping ==
  /\ DigestAt("endRound") /\ More /\ isUpdated(Visited) /\ mutex[Visited] = Nobody
  /\ aggregated' = [aggregated EXCEPT ![Visited] = Plus(@, current[Visited])]
  /\ it' = it + 1
  /\ UNCHANGED <<logVars, current, mutex, registered, m_mutex, workerVars, digest, round, line, m_round,
                 earlier, mainVars, crashed>>

(* mutant: the mutex of the monitor is not taken *)
DigestUnlocked ==
  /\ DigestAt("endRound") /\ More /\ isUpdated(Visited)
  /\ aggregated' = [aggregated EXCEPT ![Visited] = Plus(@, current[Visited])]
  /\ current' = [current EXCEPT ![Visited] = Zero]
  /\ it' = it + 1
  /\ UNCHANGED <<logVars, mutex, registered, m_mutex, workerVars, digest, round, line, m_round,
                 earlier, mainVars, crashed>>

digestRound ==
  /\ DigestAt("endRound") /\ More /\ isUpdated(Visited) /\ mutex[Visited] = Nobody
  /\ aggregated' = [aggregated EXCEPT ![Visited] = Plus(@, current[Visited])]
  /\ current' = [current EXCEPT ![Visited] = Zero]
  /\ it' = it + 1
  /\ UNCHANGED <<logVars, mutex, registered, m_mutex, workerVars, digest, round, line, m_round,
                 earlier, mainVars, crashed>>

SkipMonitor ==
  /\ DigestAt("endRound") /\ More /\ ~isUpdated(Visited)
  /\ it' = it + 1
  /\ UNCHANGED <<logVars, statusVars, m_mutex, workerVars, digest, round, line, m_round, earlier,
                 mainVars, crashed>>

(* buildSummary and the line, which is printed with m_mutex held           *)
AuditSummary ==
  /\ DigestAt("endRound") /\ ~More
  /\ line' = [round |-> round, total |-> Sum(aggregated)]
  /\ digest' = "unlock"
  /\ srmAudit(Digest)
  /\ UNCHANGED <<statusVars, m_mutex, workerVars, it, round, m_round, earlier, mainVars, crashed>>

EndSummary ==
  /\ DigestAt("unlock")
  /\ round' = Zero /\ line' = NoLine /\ earlier' = Nothing
  /\ m_mutex' = Nobody
  /\ \/ m_detailed /\ digest' = "details"
     \/ ~m_detailed /\ digest' = "new"
  /\ UNCHANGED <<logVars, statusVars, workerVars, it, m_round, mainVars,
                 crashed>>

(* printRoundDetails and printDetails: a line for every monitor with       *)
(* something to tell; the standard deviation is computed, and logged, with *)
(* the mutex of the monitor held                                           *)
Details == {"round", "all"}
Enters == [round |-> "roundDetails", all |-> "details"]
Items == [round |-> "roundItem", all |-> "item"]
Deviations == [round |-> "roundDeviation", all |-> "deviation"]
Leaves == [round |-> "summary", all |-> "new"]
Tells(d, m) == isUpdated(m) \/ (d = "all" /\ ~isEmpty(m))

EnterDetails(d) ==
  /\ DigestAt(Enters[d]) /\ m_mutex \in {Nobody, Digest}
  /\ m_mutex' = Digest /\ digest' = Items[d] /\ it' = 1
  /\ UNCHANGED <<logVars, statusVars, workerVars, round, line, m_round, earlier, mainVars, crashed>>

SkipItem(d) ==
  /\ DigestAt(Items[d]) /\ More /\ ~Tells(d, Visited)
  /\ it' = it + 1
  /\ UNCHANGED <<logVars, statusVars, m_mutex, workerVars, digest, round, line, m_round, earlier,
                 mainVars, crashed>>

computeStandardDeviation(d) ==
  /\ DigestAt(Items[d]) /\ More /\ Tells(d, Visited) /\ mutex[Visited] = Nobody
  /\ mutex' = [mutex EXCEPT ![Visited] = Digest]
  /\ digest' = Deviations[d]
  /\ srmlogit(Digest, DEBUG)
  /\ UNCHANGED <<current, aggregated, registered, m_mutex, workerVars, it, round, line, m_round,
                 earlier, mainVars, crashed>>

PrintItem(d) ==
  /\ DigestAt(Deviations[d])
  /\ mutex' = [mutex EXCEPT ![Visited] = Nobody]
  /\ digest' = Items[d] /\ it' = it + 1
  /\ srmAudit(Digest)
  /\ UNCHANGED <<current, aggregated, registered, m_mutex, workerVars, round, line, m_round, earlier,
                 mainVars, crashed>>

(* mutant: the lock is not a scoped one *)
LeaveDetailsKeeping(d) ==
  /\ DigestAt(Items[d]) /\ ~More
  /\ digest' = Leaves[d]
  /\ UNCHANGED <<logVars, statusVars, m_mutex, workerVars, it, round, line, m_round, earlier, mainVars,
                 crashed>>

LeaveDetails(d) ==
  /\ DigestAt(Items[d]) /\ ~More
  /\ m_mutex' = Nobody /\ digest' = Leaves[d]
  /\ UNCHANGED <<logVars, statusVars, workerVars, it, round, line, m_round, earlier, mainVars, crashed>>

DigestStep ==
  \/ newRound \/ DigestEnds \/ Wake \/ DigestInterrupted
  \/ LockSummary \/ ReadCompleted \/ ReadFailures \/ ReadErrors \/ RoundRead
  \/ digestRound \/ SkipMonitor \/ AuditSummary \/ EndSummary
  \/ \E d \in Details : EnterDetails(d) \/ SkipItem(d) \/ computeStandardDeviation(d)
                        \/ PrintItem(d) \/ LeaveDetails(d)

-------------------------------------------------------------------------------
(* main().                                                                 *)

MainAt(place) == ~crashed /\ Running(Main) /\ shutdown = place

(* a line of the accept loop *)
LogAccept ==
  /\ MainAt("run") /\ operations < MaxOperations
  /\ operations' = operations + 1
  /\ \E level \in {ERROR, INFO} : srmlogit(Main, level)
  /\ UNCHANGED <<statusVars, m_mutex, pc, at, kind, digestVars, mainVars, crashed>>

RunEnds ==
  /\ MainAt("run") /\ ~stay_running
  /\ shutdown' = "delete"
  /\ srmlogit(Main, NONE)
  /\ UNCHANGED <<statusVars, m_mutex, workerVars, digestVars, m_running, interrupted, deleted, crashed>>

(* ~Monitoring: the monitors go before the thread that uses them           *)
StopRunning ==
  /\ MainAt("delete") /\ m_running
  /\ m_running' = FALSE
  /\ UNCHANGED <<logVars, statusVars, m_mutex, workerVars, digestVars, shutdown, interrupted, deleted,
                 crashed>>

DeleteMonitors ==
  /\ MainAt("delete") /\ ~m_running
  /\ deleted' = TRUE /\ interrupted' = TRUE /\ shutdown' = "join"
  /\ UNCHANGED <<logVars, statusVars, m_mutex, workerVars, digestVars, m_running, crashed>>

JoinDigest ==
  /\ MainAt("join") /\ digest = "ended" /\ Running(Digest)
  /\ shutdown' = "pool"
  /\ UNCHANGED <<logVars, statusVars, m_mutex, workerVars, digestVars, m_running, interrupted, deleted,
                 crashed>>

(* the thread pool joins its workers *)
DeletePool ==
  /\ MainAt("pool") /\ \A w \in Workers : pc[w] = "idle" /\ Running(w)
  /\ shutdown' = "ended"
  /\ srmlogit(Main, NONE)
  /\ UNCHANGED <<statusVars, m_mutex, workerVars, digestVars, m_running, interrupted, deleted, crashed>>

MainStep == RunEnds \/ StopRunning \/ DeleteMonitors \/ JoinDigest \/ DeletePool

(* a thread touches a monitor that is gone *)
UseAfterDelete ==
  /\ deleted /\ ~crashed
  /\ \/ \E w \in Workers : pc[w] \in {"get", "lock", "complete", "count", "unlock"}
     \/ digest \notin {"new", "sleep", "ended", "roundDetails", "summary", "unlock", "details"}
  /\ crashed' = TRUE
  /\ UNCHANGED <<logVars, statusVars, m_mutex, workerVars, digestVars, mainVars>>

Thread(t) == ~crashed /\ (Lock(t) \/ Unlock(t))
             /\ UNCHANGED <<statusVars, m_mutex, workerVars, digestVars, mainVars, crashed>>

Interrupted(t) == ~crashed /\ shutdown = "run" /\ Signal(t)
                  /\ UNCHANGED <<statusVars, m_mutex, workerVars, digestVars, mainVars, crashed>>

System == (\E w \in Workers : Worker(w)) \/ DigestStep \/ MainStep \/ \E t \in Threads : Thread(t)

MonitoringNext ==
  \/ \E w \in Workers : Worker(w) \/ \E m \in MonitorSet, k \in Kinds : LogRequest(w, m, k)
  \/ DigestStep \/ MainStep \/ LogAccept \/ UseAfterDelete
  \/ \E t \in Threads : Thread(t) \/ Interrupted(t)

(* The process is scheduled: some thread goes on as long as one can, with  *)
(* a mutex that is free and a sleep that ends among what it can go on      *)
(* with.  The bounds leave no thread an endless run, so that this asks     *)
(* less than that each of them is scheduled.  Nothing is asked of clients, *)
(* of signals, or of the use of a deleted monitor to end the process.      *)
MonitoringSpec ==
  /\ Init /\ [][MonitoringNext]_vars
  /\ WF_vars(System)

-------------------------------------------------------------------------------

Sums == [Counters -> 0 .. MaxOperations]

(* The counters stay within the operations there were, a mutex belongs to  *)
(* a thread that may hold it, and every thread is at a place it knows      *)
(* (Monitor.hpp, Monitoring.hpp).                                          *)
MonitoringTypeOK ==
  /\ current \in [MonitorSet -> Sums] /\ aggregated \in [MonitorSet -> Sums]
  /\ registered \in [MonitorSet -> Sums]
  /\ mutex \in [MonitorSet -> Workers \cup {Digest, Nobody}] /\ m_mutex \in {Digest, Nobody}
  /\ pc \in [Workers -> {"idle", "error", "response", "get", "lock", "complete", "count", "unlock"}]
  /\ at \in [Workers -> MonitorSet] /\ kind \in [Workers -> Kinds]
  /\ holder \in [Mutexes -> Threads \cup {Nobody}] /\ stay_running \in BOOLEAN
  /\ \A t \in Threads : \A j \in 1 .. Len(frames[t]) :
       /\ frames[t][j].mutex \in Mutexes
       /\ frames[t][j].has => holder[frames[t][j].mutex] = t
  /\ operations \in 0 .. MaxOperations /\ signals \in 0 .. MaxSignals
  /\ it \in 1 .. Len(Monitors) + 1 /\ m_round \in 0 .. MaxRounds + 1

Registering == {"complete", "count", "unlock"}

(* what the holder of the mutex of a monitor has counted already           *)
Counted(w) == [complete |-> Zero, count |-> Completed,
               unlock |-> Plus(Completed, Outcome[kind[w]])][pc[w]]

(* No operation is lost or counted twice, however registrations, the reads *)
(* of the summaries and the digests of the rounds interleave: what is in   *)
(* the two statuses of a monitor is what was registered and what its       *)
(* mutex's holder is about to have registered, and no failure or error is  *)
(* separated from its operation (registerFailure, digestRound).            *)
NoOperationLost ==
  \A m \in MonitorSet :
    /\ mutex[m] \notin Workers =>
         \A c \in Counters : aggregated[m][c] + current[m][c] = registered[m][c]
    /\ \A w \in Workers : mutex[m] = w =>
         /\ pc[w] \in Registering /\ at[w] = m
         /\ \A c \in Counters : aggregated[m][c] + current[m][c] = registered[m][c] + Counted(w)[c]
    /\ \A status \in {current, aggregated} :
         status[m]["failures"] + status[m]["errors"] <= status[m]["completed"]

(* The line of a summary counts everything that was registered when the    *)
(* summary was begun, and what it tells of the last round is part of what  *)
(* that round added to the totals, although the counters of the round are  *)
(* read one by one while operations are registered (printSummary).         *)
SummaryCoversRound ==
  digest = "unlock" =>
    \A c \in Counters :
      /\ line.total[c] >= earlier.registered[c]
      /\ line.total[c] - earlier.aggregated[c] >= line.round[c]

(* A request never waits for ever on a monitor, on a summary or on the     *)
(* logger, and a server told to stop does stop, unless a thread uses a     *)
(* monitor that is gone: the mutexes of the monitoring, of a monitor and   *)
(* of the two files are never waited for in a circle.                      *)
MonitoringNeverBlocks ==
  /\ \A w \in Workers : []<>(crashed \/ (pc[w] = "idle" /\ Running(w)))
  /\ []<>(signals > 0 => crashed \/ shutdown = "ended")

(* "Signal SIGINT received: shutting down..." (storm-frontend.cpp:75, 81): *)
(* the server a signal was sent to stops accepting requests.               *)
SignalStopsServer == signals > 0 ~> ~stay_running
===============================================================================
