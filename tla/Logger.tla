-------------------------------- MODULE Logger --------------------------------
(***************************************************************************)
(* srmlogit.cpp: a log file and an audit file, each behind a mutex that is *)
(* not recursive, and the two signal handlers of storm-frontend.cpp, which *)
(* log.  A handler runs on whatever thread the signal is delivered to and  *)
(* that thread goes on only when the handler has returned, so the logging  *)
(* a thread is in is a stack: the calls it made, and those of the handlers *)
(* that interrupted it.  The text of a line is left out.                   *)
(***************************************************************************)
EXTENDS Integers, Sequences

CONSTANTS Threads, Nobody,
          LogLevel,      \* srmlogit_set_debuglevel(), called before any thread exists
          AuditEnabled,  \* m_auditEnabled
          MaxSignals     \* bound: SIGINT and SIGTERM received

Mutexes == {"log", "audit"}

NONE == 0
ERROR == 1
INFO == 3
DEBUG == 4

VARIABLES holder,        \* who has log_mutex and audit_mutex
          frames,        \* for each thread, the calls of the logger it is in
          stay_running,  \* of main()
          signals        \* number of signals received

logVars == <<holder, frames, stay_running, signals>>

LoggerInit == /\ holder = [x \in Mutexes |-> Nobody]
              /\ frames = [t \in Threads |-> <<>>]
              /\ stay_running = TRUE /\ signals = 0

(* t is in its own code *)
Running(t) == frames[t] = <<>>

(* t waits for a mutex that is taken; one that is free it takes at once    *)
Enter(t, x, handler) ==
  \/ /\ holder[x] = Nobody /\ holder' = [holder EXCEPT ![x] = t]
     /\ frames' = [frames EXCEPT ![t] = Append(@, [mutex |-> x, has |-> TRUE, handler |-> handler])]
  \/ /\ holder[x] # Nobody /\ UNCHANGED holder
     /\ frames' = [frames EXCEPT ![t] = Append(@, [mutex |-> x, has |-> FALSE, handler |-> handler])]

srmlogit(t, level) ==
  \/ level > LogLevel /\ UNCHANGED logVars
  \/ level <= LogLevel /\ Enter(t, "log", FALSE) /\ UNCHANGED <<stay_running, signals>>

(* the response is logged whatever the level *)
srmLogResponse(t) == Enter(t, "log", FALSE) /\ UNCHANGED <<stay_running, signals>>

srmAudit(t) ==
  \/ ~AuditEnabled /\ UNCHANGED logVars
  \/ AuditEnabled /\ Enter(t, "audit", FALSE) /\ UNCHANGED <<stay_running, signals>>

Top(t) == frames[t][Len(frames[t])]

Lock(t) ==
  /\ ~Running(t) /\ ~Top(t).has /\ holder[Top(t).mutex] = Nobody
  /\ holder' = [holder EXCEPT ![Top(t).mutex] = t]
  /\ frames' = [frames EXCEPT ![t][Len(frames[t])].has = TRUE]
  /\ UNCHANGED <<stay_running, signals>>

(* the line is written; a handler then stops the server *)
Unlock(t) ==
  /\ ~Running(t) /\ Top(t).has
  /\ holder' = [holder EXCEPT ![Top(t).mutex] = Nobody]
  /\ frames' = [frames EXCEPT ![t] = SubSeq(@, 1, Len(@) - 1)]
  /\ stay_running' = (stay_running /\ ~Top(t).handler)
  /\ UNCHANGED signals

(* sigint_handler and sigterm_handler *)
Signal(t) ==
  /\ signals < MaxSignals
  /\ signals' = signals + 1
  /\ \/ /\ INFO <= LogLevel
        /\ Enter(t, "log", TRUE)
        /\ UNCHANGED stay_running
     \/ /\ INFO > LogLevel
        /\ stay_running' = FALSE
        /\ UNCHANGED <<holder, frames>>
===============================================================================
