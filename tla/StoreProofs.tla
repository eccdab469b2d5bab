------------------------------ MODULE StoreProofs ------------------------------
(***************************************************************************)
(* What the backend and the clients of AsyncRequest see while connections  *)
(* do not drop, for every number of requests, SURLs, protocols and         *)
(* crashes: a request is in the database whole or not at all, a reply tells*)
(* which, and so the handlers implement the abstract RequestStore.         *)
(* AsyncProofs has the types and what holds of the session.                *)
(***************************************************************************)
EXTENDS AsyncProofs

Queued(k) == surlStatus[k] = "REQUEST_QUEUED"

(* the rows of the request being handled, of the SURLs below m: those of   *)
(* the SURLs still queued, and of no other                                 *)
SurlRows(rows, k, in) ==
  /\ <<"request_file", n, k>> \in rows <=> in
  /\ <<"status_file", n, k>> \in rows <=> in
  /\ <<"request_DirOption", n, k>> \in rows => in

Filled(rows, m) ==
  /\ <<"request_queue", n, 0>> \in rows
  /\ \A k \in Surls : SurlRows(rows, k, k < m /\ Queued(k))

(* the rows of the transaction while those of the SURL at i are inserted   *)
Filling ==
  /\ <<"request_queue", n, 0>> \in work
  /\ \A k \in Surls \ {i} : SurlRows(work, k, k < i /\ Queued(k))
  /\ <<"request_file", n, i>> \in work <=> pc = "statusRow"
  /\ <<"status_file", n, i>> \notin work

(* what a transaction has more than the database is the request's own      *)
Own(rows) == /\ committed \subseteq rows
             /\ \A row \in rows : row \in committed \/ row[2] = n

(* the backend sees all of r *)
Complete(r) ==
  /\ <<"request_queue", r, 0>> \in committed
  /\ FilesOf(r) # {}
  /\ \A k \in Surls :
       /\ <<"status_file", r, k>> \in committed <=> k \in FilesOf(r)
       /\ <<"request_DirOption", r, k>> \in committed => k \in FilesOf(r)

(* r has an answer, or will never have one because the process died        *)
Settled(r) ==
  LET reply == replies[r] IN
    \/ RowsOf(r) = {} /\ reply.status # "REQUEST_QUEUED"
    \/ /\ Complete(r)
       /\ reply.status \in {"none", "REQUEST_QUEUED"}
       /\ reply.status = "REQUEST_QUEUED" =>
            reply.token /\ FilesOf(r) = {k \in Surls : reply.surls[k] = "REQUEST_QUEUED"}

(* the answer that is about to be sent is true *)
Answerable ==
  \/ RowsOf(n) = {} /\ status # "REQUEST_QUEUED"
  \/ /\ Complete(n)
     /\ status = "REQUEST_QUEUED" /\ token
     /\ FilesOf(n) = {k \in Surls : Queued(k)}

Checks == {"checking", "ping", "protocols", "begin", "queueRow", "abortRequest"}
Loop == {"savepoint", "dirRow", "fileRow", "statusRow"}
Inserting == {"dirRow", "fileRow", "statusRow", "rollback"}
Open == {"queueRow", "abortRequest", "abortAll", "protocolRows", "rollback"} \cup Loop

(* where the connection and the transaction are *)
Linked ==
  /\ link \in {"never", "up"}
  /\ pc \notin {"idle", "checking", "ping", "respond"} => link = "up"
  /\ pc \in Open => inTrans
  /\ pc \in Closed \cup {"begin"} => ~inTrans

(* only the request being handled has rows that are not committed *)
Isolated ==
  /\ inTrans => Own(work)
  /\ pc \in Inserting => Own(saved)
  /\ pc = "queueRow" => work = committed

(* what the database has of each request *)
Visible ==
  \A r \in 1 .. MaxRequests :
    /\ r > n \/ (r = n /\ pc \notin {"idle", "respond"}) => RowsOf(r) = {}
    /\ r < n \/ (r = n /\ pc = "idle") => Settled(r)
    /\ r = n /\ pc = "respond" => Answerable

(* what the transaction has of the request being handled *)
Inserted ==
  /\ pc = "savepoint" => Filled(work, i)
  /\ pc \in Inserting => Filled(saved, i)
  /\ pc \in Inserting \ {"rollback"} => Filling
  /\ pc = "protocolRows" \/ (pc = "commit" /\ inTrans) =>
       Filled(work, NSurls + 1) /\ \E k \in Surls : Queued(k)

(* the statuses the handler has given so far *)
Marked ==
  /\ pc \in Checks => i = 1 /\ \A k \in Surls : Queued(k)
  /\ pc \in Loop => \A k \in Surls : k >= i => Queued(k)
  /\ pc = "rollback" => surlStatus[i] = "FAILURE" /\ \A k \in Surls : k > i => Queued(k)
  /\ pc \in Loop \cup {"rollback"} => \A k \in Surls : Queued(k) \/ surlStatus[k] = "FAILURE"
  /\ pc \in Checks \cup Loop \cup {"rollback", "abortAll", "protocolRows"} => status = "REQUEST_QUEUED"
  /\ pc = "commit" => status = IF inTrans THEN "REQUEST_QUEUED" ELSE "FAILURE"

StoreInv == Linked /\ Isolated /\ Visible /\ Inserted /\ Marked


(* what AsyncProofs proves of every state *)
Context == WorkerOK /\ AnsweredOnce /\ TokenKept

LEMMA Places ==
  ASSUME Context
  PROVE  /\ n \in Nat /\ n <= MaxRequests /\ MaxRequests \in Nat
         /\ i \in Int /\ 1 <= i /\ i <= NSurls /\ NSurls \in Nat
         /\ pc # "idle" => n \in 1 .. MaxRequests /\ replies[n].status = "none"
BY AsyncAssumption DEF AsyncAssumption, Context, WorkerOK, AnsweredOnce, Surls

LEMMA StoreInit == AsyncInit => StoreInv
<1> SUFFICES ASSUME AsyncInit PROVE StoreInv
  OBVIOUS
<1>1. pc = "idle" /\ n = 0 /\ committed = {} /\ ~inTrans /\ link \in {"never", "up"}
  BY DEF AsyncInit, SessionInit
<1>2. Linked /\ Isolated /\ Inserted /\ Marked
  BY <1>1 DEF Linked, Isolated, Inserted, Marked, Open, Loop, Inserting, Checks
<1>3. Visible
  BY <1>1, AsyncAssumption DEF AsyncAssumption, Visible, RowsOf
<1> QED BY <1>2, <1>3 DEF StoreInv

------------------------------------------------------------------------------
(* The database under a step that writes nothing to it.                    *)

LEMMA SettledKept ==
  ASSUME NEW r, UNCHANGED committed, replies'[r] = replies[r]
  PROVE  Settled(r)' <=> Settled(r)
BY DEF Settled, Complete, RowsOf, FilesOf

(* inside a handler *)
LEMMA VisibleInside ==
  ASSUME Visible, UNCHANGED <<committed, n, replies>>,
         pc \notin {"idle", "respond"}, pc' \notin {"idle", "respond"}
  PROVE  Visible'
<1>1. \A r : Settled(r)' <=> Settled(r)
  BY SettledKept
<1> QED BY <1>1 DEF Visible, RowsOf

(* the request is refused *)
LEMMA VisibleRefused ==
  ASSUME Visible, Context, UNCHANGED <<committed, n, replies>>,
         pc \notin {"idle", "respond"}, pc' = "respond", status' # "REQUEST_QUEUED"
  PROVE  Visible'
<1>1. \A r : Settled(r)' <=> Settled(r)
  BY SettledKept
<1>2. Answerable'
  BY Places DEF Visible, Answerable, RowsOf
<1> QED BY <1>1, <1>2 DEF Visible, RowsOf

(* nothing happens, or the process dies *)
LEMMA VisibleIdle ==
  ASSUME Visible, Context, UNCHANGED <<committed, n, replies>>, pc' = "idle"
  PROVE  Visible'
<1> SUFFICES ASSUME NEW r \in 1 .. MaxRequests
             PROVE  /\ r > n => RowsOf(r)' = {}
                    /\ r <= n => Settled(r)'
  BY Places DEF Visible
<1>1. Settled(r)' <=> Settled(r)
  BY SettledKept
<1>2. CASE r # n \/ pc = "idle"
  BY <1>1, <1>2, Places DEF Visible, RowsOf
<1>3. CASE r = n /\ pc # "idle"
  <2>1. replies[r].status = "none"
    BY <1>3, Places
  <2>2. RowsOf(r) = {} \/ Complete(r)
    BY <1>3 DEF Visible, Answerable
  <2> QED BY <1>1, <1>3, <2>1, <2>2, Places DEF Settled
<1> QED BY <1>2, <1>3

------------------------------------------------------------------------------
(* The checks of the handler.                                              *)

LEMMA ReceiveStores == ASSUME Context, StoreInv, Receive PROVE StoreInv'
<1>1. /\ pc = "idle" /\ pc' = "checking" /\ n' = n + 1 /\ i' = 1 /\ status' = "REQUEST_QUEUED"
      /\ surlStatus' = EachSurl("REQUEST_QUEUED") /\ UNCHANGED <<sessionVars, replies>>
  BY DEF Receive
<1>2. Linked' /\ Isolated' /\ Inserted'
  BY <1>1 DEF StoreInv, Linked, Isolated, Inserted, Open, Loop, Inserting, Closed, sessionVars
<1>3. Marked'
  BY <1>1 DEF Marked, Checks, Loop, EachSurl, Queued
<1>4. Visible'
  <2>1. \A r : Settled(r)' <=> Settled(r)
    BY <1>1, SettledKept DEF sessionVars
  <2> QED BY <1>1, <2>1, Places DEF StoreInv, Visible, RowsOf, sessionVars
<1> QED BY <1>2, <1>3, <1>4 DEF StoreInv

LEMMA DeclineStores == ASSUME Context, StoreInv, Decline PROVE StoreInv'
<1>1. /\ pc = "idle" /\ pc' = "idle" /\ n' = n + 1 /\ n' \in 1 .. MaxRequests
      /\ UNCHANGED <<sessionVars, i, status, surlStatus>>
  BY Places DEF Decline
<1>2. Linked' /\ Isolated' /\ Inserted' /\ Marked'
  BY <1>1 DEF StoreInv, Linked, Isolated, Inserted, Marked, Open, Loop, Inserting, Checks,
              Closed, sessionVars
<1>3. Visible'
  <2> SUFFICES ASSUME NEW r \in 1 .. MaxRequests
               PROVE  /\ r > n + 1 => RowsOf(r)' = {}
                      /\ r <= n + 1 => Settled(r)'
    BY <1>1, Places DEF Visible
  <2>1. CASE r # n + 1
    <3>1. replies'[r] = replies[r]
      BY <1>1, <2>1 DEF Decline, Context, AnsweredOnce, Replies
    <3>2. Settled(r)' <=> Settled(r)
      BY <1>1, <3>1, SettledKept DEF sessionVars
    <3> QED BY <1>1, <2>1, <3>2, Places DEF StoreInv, Visible, RowsOf, sessionVars
  <2>2. CASE r = n + 1
    <3>1. replies'[r].status # "REQUEST_QUEUED"
      BY <1>1, <2>2 DEF Decline, NoReply, Context, AnsweredOnce, Replies
    <3>2. RowsOf(r)' = {}
      BY <1>1, <2>2, Places DEF StoreInv, Visible, RowsOf, sessionVars
    <3> QED BY <2>2, <3>1, <3>2, Places DEF Settled
  <2> QED BY <2>1, <2>2
<1> QED BY <1>2, <1>3 DEF StoreInv

(* the steps before the transaction: the session is not used but to ping   *)
LEMMA ChecksStore ==
  ASSUME Context, StoreInv,
         BlacklistUnknown \/ Blacklisted \/ AssignToken \/ Ping \/ CheckProtocols
  PROVE  StoreInv'
<1>1. /\ UNCHANGED <<n, i, replies>>
      /\ pc \in {"checking", "ping", "protocols"}
      /\ \/ pc' = "respond" /\ status' # "REQUEST_QUEUED"
         \/ pc' \in {"ping", "protocols", "begin"} /\ UNCHANGED <<status, surlStatus>>
  BY DEF BlacklistUnknown, Blacklisted, AssignToken, Ping, CheckProtocols
<1>2. UNCHANGED <<committed, inTrans, work, saved>> /\ link' \in {"never", "up"}
  <2>1. CASE Ping
    BY <2>1 DEF StoreInv, Linked, Ping, PingAnswers, PingFails, NotReached, Reached
  <2>2. CASE ~Ping
    BY <2>2 DEF StoreInv, Linked, BlacklistUnknown, Blacklisted, AssignToken, CheckProtocols,
                sessionVars
  <2> QED BY <2>1, <2>2
<1>3. pc' \notin {"ping", "respond"} => link' = "up"
  BY DEF StoreInv, Linked, BlacklistUnknown, Blacklisted, AssignToken, Ping, PingAnswers,
         Reached, CheckProtocols, sessionVars
<1>4. Linked' /\ Isolated' /\ Inserted'
  BY <1>1, <1>2, <1>3 DEF StoreInv, Linked, Isolated, Inserted, Open, Loop, Inserting, Closed
<1>5. Marked'
  BY <1>1 DEF StoreInv, Marked, Checks, Loop, Queued
<1>6. Visible'
  BY <1>1, <1>2, VisibleInside, VisibleRefused DEF StoreInv
<1> QED BY <1>4, <1>5, <1>6 DEF StoreInv

------------------------------------------------------------------------------
(* The transaction.                                                        *)

LEMMA BeginStores == ASSUME Context, StoreInv, Begin PROVE StoreInv'
<1>1. /\ pc = "begin" /\ pc' = "queueRow" /\ UNCHANGED <<n, status, surlStatus, i, replies>>
      /\ link' = "up" /\ inTrans' /\ UNCHANGED committed /\ work' = committed
  BY DEF StoreInv, Linked, Closed, Begin, Silently, StartTr, Seen, Reached, NotReached
<1>2. Linked' /\ Isolated' /\ Inserted' /\ Marked'
  BY <1>1 DEF StoreInv, Linked, Isolated, Inserted, Marked, Own, Open, Loop, Inserting, Checks,
              Closed, Queued
<1> QED BY <1>1, <1>2, VisibleInside DEF StoreInv

(* what an INSERT does inside a transaction *)
LEMMA InsertWithin ==
  ASSUME inTrans, NEW row, Insert(row)
  PROVE  link' = "up" /\ inTrans' /\ work' = work \cup {row} /\ UNCHANGED <<committed, saved>>
BY DEF Insert, Reached

LEMMA FailsWithin ==
  ASSUME link = "up", StatementFails
  PROVE  link' = "up" /\ UNCHANGED <<committed, inTrans, work, saved>>
BY DEF StatementFails, Reached, NotReached

(* no connection drops under the answer to an INSERT *)
Connected == drops \in Nat /\ drops' = 0

LEMMA NoReplyLost ==
  ASSUME Connected, NEW row, InsertFails(row)
  PROVE  StatementFails
BY DEF Connected, InsertFails, ReplyLost

LEMMA InsertRequestStores ==
  ASSUME Context, StoreInv, InsertRequest, Connected
  PROVE  StoreInv'
<1>1. /\ pc = "queueRow" /\ UNCHANGED <<n, status, surlStatus, i, replies>>
      /\ link = "up" /\ inTrans /\ work = committed /\ i = 1
      /\ \A k \in Surls : Queued(k)
      /\ pc' \in {"savepoint", "abortRequest"}
      /\ RowsOf(n) = {} /\ status = "REQUEST_QUEUED"
  BY Places DEF StoreInv, Linked, Isolated, Visible, Marked, Open, Checks, InsertRequest
<1>2. link' = "up" /\ inTrans' /\ UNCHANGED committed
  BY <1>1, InsertWithin, FailsWithin, NoReplyLost DEF InsertRequest
<1>3. Linked' /\ Marked'
  BY <1>1, <1>2 DEF Linked, Marked, Open, Loop, Checks, Closed, Queued
<1>4. Visible'
  BY <1>1, <1>2, VisibleInside DEF StoreInv
<1>5. CASE pc' = "savepoint"
  <2>1. work' = work \cup {<<"request_queue", n, 0>>}
    BY <1>1, <1>5, InsertWithin DEF InsertRequest
  <2>2. Filled(work, i)'
    <3>1. <<"request_queue", n, 0>> \in work'
      BY <2>1
    <3>2. \A k \in Surls, t \in {"request_file", "status_file", "request_DirOption"} :
             <<t, n, k>> \notin work'
      BY <1>1, <2>1 DEF RowsOf
    <3>3. \A k \in Surls : ~(k < i)
      BY <1>1 DEF Surls
    <3> QED BY <1>1, <3>1, <3>2, <3>3 DEF Filled, SurlRows, Queued
  <2>3. Isolated'
    BY <1>1, <1>2, <1>5, <2>1 DEF Isolated, Own, Inserting
  <2> QED BY <1>3, <1>4, <1>5, <2>2, <2>3 DEF StoreInv, Inserted, Inserting
<1>6. CASE pc' = "abortRequest"
  <2>1. work' = work
    BY <1>1, <1>6, FailsWithin, NoReplyLost DEF InsertRequest
  <2> QED BY <1>1, <1>2, <1>3, <1>4, <1>6, <2>1 DEF StoreInv, Isolated, Own, Inserted, Inserting
<1> QED BY <1>1, <1>5, <1>6

LEMMA AbortRequestStores == ASSUME Context, StoreInv, AbortRequest PROVE StoreInv'
<1>1. /\ pc = "abortRequest" /\ pc' = "respond" /\ UNCHANGED <<n, replies>>
      /\ status' = "INTERNAL_ERROR"
      /\ link' = "up" /\ ~inTrans' /\ UNCHANGED committed
  BY DEF StoreInv, Linked, AbortRequest, AbortTr, Reached, NotReached
<1>2. Linked' /\ Isolated' /\ Inserted' /\ Marked'
  BY <1>1 DEF Linked, Isolated, Inserted, Marked, Open, Loop, Inserting, Checks, Closed
<1> QED BY <1>1, <1>2, VisibleRefused DEF StoreInv

LEMMA SavepointStores == ASSUME Context, StoreInv, Savepoint PROVE StoreInv'
<1>1. /\ pc = "savepoint" /\ pc' \in {"dirRow", "fileRow"}
      /\ UNCHANGED <<n, status, surlStatus, i, replies>>
      /\ link' = "up" /\ inTrans /\ inTrans' /\ UNCHANGED <<committed, work>> /\ saved' = work
  BY DEF StoreInv, Linked, Open, Loop, Savepoint, Silently, SetSavepoint, Reached, NotReached
<1>2. Linked' /\ Isolated'
  BY <1>1 DEF StoreInv, Linked, Isolated, Own, Open, Loop, Inserting, Closed
<1>3. Marked'
  BY <1>1 DEF StoreInv, Marked, Loop, Checks, Queued
<1>4. Filled(work, i)
  BY <1>1 DEF StoreInv, Inserted
<1>5. Filled(saved, i)' /\ Filling'
  <2>1. ~(i < i) /\ i \in Surls
    BY Places DEF Context, WorkerOK
  <2> QED BY <1>1, <1>4, <2>1 DEF Filled, Filling, SurlRows, Queued
<1>6. Inserted'
  BY <1>1, <1>5 DEF Inserted, Inserting
<1>7. Visible'
  BY <1>1, VisibleInside DEF StoreInv
<1> QED BY <1>2, <1>3, <1>6, <1>7 DEF StoreInv

------------------------------------------------------------------------------
(* The loop over the SURLs.                                                *)

LEMMA SurlFailsStores ==
  ASSUME Context, StoreInv, SurlFails(StatementFails), UNCHANGED <<n, status, replies>>,
         pc \in {"dirRow", "fileRow", "statusRow"}
  PROVE  StoreInv'
<1>1. /\ pc' = "rollback" /\ i' = i /\ i \in Surls /\ surlStatus \in [Surls -> Statuses]
      /\ surlStatus' = [surlStatus EXCEPT ![i] = "FAILURE"]
      /\ link = "up" /\ inTrans
      /\ link' = "up" /\ UNCHANGED <<committed, inTrans, work, saved>>
  BY FailsWithin DEF StoreInv, Linked, Open, Loop, SurlFails, Context, WorkerOK
<1>2. surlStatus'[i] = "FAILURE" /\ \A k \in Surls : k # i => surlStatus'[k] = surlStatus[k]
  BY <1>1
<1>3. Linked' /\ Isolated'
  BY <1>1 DEF StoreInv, Linked, Isolated, Own, Open, Loop, Inserting, Closed
<1>4. Marked'
  BY <1>1, <1>2, Places DEF StoreInv, Marked, Loop, Checks, Queued, Surls
<1>5. Filled(saved, i)
  BY DEF StoreInv, Inserted, Inserting
<1>6. Inserted'
  <2>1. \A k \in Surls : k < i => (Queued(k)' <=> Queued(k))
    BY <1>2, Places DEF Queued, Surls
  <2> QED BY <1>1, <1>5, <2>1 DEF Inserted, Inserting, Filled, SurlRows
<1>7. Visible'
  BY <1>1, VisibleInside DEF StoreInv
<1> QED BY <1>3, <1>4, <1>6, <1>7 DEF StoreInv

(* the loop moves on from a SURL whose rows are all there, or gone         *)
LEMMA NextSurlStores ==
  ASSUME Context, StoreInv, NextSurl(surlStatus),
         UNCHANGED <<committed, n, status, surlStatus, replies>>,
         pc \in {"statusRow", "rollback"},
         link' = "up", inTrans', Own(work'), Filled(work', i + 1)
  PROVE  StoreInv'
<1>1. /\ \A k \in Surls : k > i => Queued(k)
      /\ \A k \in Surls : Queued(k) \/ surlStatus[k] = "FAILURE"
      /\ status = "REQUEST_QUEUED"
  BY Places DEF StoreInv, Marked, Loop, Surls
<1>2. CASE i < NSurls /\ i' = i + 1 /\ pc' = "savepoint"
  <2>1. Linked' /\ Isolated'
    BY <1>2 DEF Linked, Isolated, Own, Open, Loop, Inserting, Closed
  <2>2. Marked'
    BY <1>1, <1>2, Places DEF Marked, Loop, Checks, Queued, Surls
  <2>3. Inserted'
    BY <1>2 DEF Inserted, Inserting, Filled, SurlRows, Queued
  <2> QED BY <1>2, <2>1, <2>2, <2>3, VisibleInside DEF StoreInv
<1>3. CASE i = NSurls /\ pc' = "abortAll"
  <2>1. Linked' /\ Isolated' /\ Marked' /\ Inserted'
    BY <1>1, <1>3 DEF Linked, Isolated, Own, Open, Loop, Inserting, Closed, Marked, Checks,
                      Inserted
  <2> QED BY <1>3, <2>1, VisibleInside DEF StoreInv
<1>4. CASE i = NSurls /\ ~AllFailed(surlStatus) /\ pc' = "protocolRows"
  <2>1. \E k \in Surls : Queued(k)
    BY <1>1, <1>4 DEF AllFailed
  <2>2. Linked' /\ Isolated' /\ Marked'
    BY <1>1, <1>4 DEF Linked, Isolated, Own, Open, Loop, Inserting, Closed, Marked, Checks
  <2>3. Inserted'
    BY <1>4, <2>1 DEF Inserted, Inserting, Filled, SurlRows, Queued
  <2> QED BY <1>4, <2>2, <2>3, VisibleInside DEF StoreInv
<1> QED BY <1>2, <1>3, <1>4 DEF NextSurl

(* an INSERT of the loop that succeeds, short of the last                  *)
LEMMA InsertDirOptionStores ==
  ASSUME Context, StoreInv, InsertDirOption, Connected
  PROVE  StoreInv'
<1>1. CASE SurlFails(StatementFails)
  BY <1>1, SurlFailsStores DEF InsertDirOption
<1>2. CASE Insert(<<"request_DirOption", n, i>>) /\ pc' = "fileRow"
           /\ UNCHANGED <<surlStatus, i, unsent>>
  <2>1. /\ pc = "dirRow" /\ inTrans /\ UNCHANGED <<n, status, replies>>
        /\ work' = work \cup {<<"request_DirOption", n, i>>}
        /\ link' = "up" /\ inTrans' /\ UNCHANGED <<committed, saved>>
    BY <1>2, InsertWithin DEF StoreInv, Linked, Open, Loop, InsertDirOption
  <2>2. Linked' /\ Isolated'
    BY <1>2, <2>1 DEF StoreInv, Linked, Isolated, Own, Open, Loop, Inserting, Closed
  <2>3. Marked'
    BY <1>2, <2>1 DEF StoreInv, Marked, Loop, Checks, Queued
  <2>4. Filled(saved, i) /\ Filling
    BY <2>1 DEF StoreInv, Inserted, Inserting
  <2>5. Filling'
    BY <1>2, <2>1, <2>4 DEF Filling, SurlRows, Queued
  <2>6. Inserted'
    BY <1>2, <2>1, <2>4, <2>5 DEF Inserted, Inserting, Filled, SurlRows, Queued
  <2> QED BY <1>2, <2>1, <2>2, <2>3, <2>6, VisibleInside DEF StoreInv
<1>3. SurlFails(InsertFails(<<"request_DirOption", n, i>>)) => SurlFails(StatementFails)
  BY NoReplyLost DEF SurlFails
<1> QED BY <1>1, <1>2, <1>3 DEF InsertDirOption

LEMMA InsertFileStores ==
  ASSUME Context, StoreInv, InsertFile, Connected
  PROVE  StoreInv'
<1>1. CASE SurlFails(StatementFails)
  BY <1>1, SurlFailsStores DEF InsertFile
<1>2. CASE Insert(<<"request_file", n, i>>) /\ pc' = "statusRow"
           /\ UNCHANGED <<surlStatus, i, unsent>>
  <2>1. /\ pc = "fileRow" /\ inTrans /\ UNCHANGED <<n, status, replies>>
        /\ work' = work \cup {<<"request_file", n, i>>}
        /\ link' = "up" /\ inTrans' /\ UNCHANGED <<committed, saved>>
    BY <1>2, InsertWithin DEF StoreInv, Linked, Open, Loop, InsertFile
  <2>2. Linked' /\ Isolated'
    BY <1>2, <2>1 DEF StoreInv, Linked, Isolated, Own, Open, Loop, Inserting, Closed
  <2>3. Marked'
    BY <1>2, <2>1 DEF StoreInv, Marked, Loop, Checks, Queued
  <2>4. Filled(saved, i) /\ Filling
    BY <2>1 DEF StoreInv, Inserted, Inserting
  <2>5. Filling'
    BY <1>2, <2>1, <2>4 DEF Filling, SurlRows, Queued
  <2>6. Inserted'
    BY <1>2, <2>1, <2>4, <2>5 DEF Inserted, Inserting, Filled, SurlRows, Queued
  <2> QED BY <1>2, <2>1, <2>2, <2>3, <2>6, VisibleInside DEF StoreInv
<1>3. SurlFails(InsertFails(<<"request_file", n, i>>)) => SurlFails(StatementFails)
  BY NoReplyLost DEF SurlFails
<1> QED BY <1>1, <1>2, <1>3 DEF InsertFile

LEMMA InsertStatusStores ==
  ASSUME Context, StoreInv, InsertStatus, Connected
  PROVE  StoreInv'
<1>1. CASE SurlFails(StatementFails)
  BY <1>1, SurlFailsStores DEF InsertStatus
<1>2. CASE Insert(<<"status_file", n, i>>) /\ NextSurl(surlStatus) /\ UNCHANGED surlStatus
  <2>1. /\ pc = "statusRow" /\ inTrans /\ UNCHANGED <<n, status, replies>>
        /\ work' = work \cup {<<"status_file", n, i>>}
        /\ link' = "up" /\ inTrans' /\ UNCHANGED <<committed, saved>>
    BY <1>2, InsertWithin DEF StoreInv, Linked, Open, Loop, InsertStatus
  <2>2. Own(work')
    BY <2>1 DEF StoreInv, Isolated, Own
  <2>3. Filling /\ Queued(i) /\ i \in Surls
    BY <2>1, Places DEF StoreInv, Inserted, Inserting, Marked, Loop, Context, WorkerOK
  <2>4. Filled(work', i + 1)
    <3>1. \A k \in Surls : (k < i + 1 <=> k < i \/ k = i) /\ ~(i < i)
      BY Places DEF Surls
    <3> QED BY <2>1, <2>3, <3>1 DEF Filled, Filling, SurlRows
  <2> QED BY <1>2, <2>1, <2>2, <2>4, NextSurlStores
<1>3. SurlFails(InsertFails(<<"status_file", n, i>>)) => SurlFails(StatementFails)
  BY NoReplyLost DEF SurlFails
<1> QED BY <1>1, <1>2, <1>3 DEF InsertStatus

LEMMA RollbackSurlStores == ASSUME Context, StoreInv, RollbackSurl PROVE StoreInv'
<1>1. /\ pc = "rollback" /\ NextSurl(surlStatus) /\ UNCHANGED <<n, status, surlStatus, replies>>
      /\ link' = "up" /\ inTrans' /\ work' = saved /\ UNCHANGED committed
  BY DEF StoreInv, Linked, Open, Loop, RollbackSurl, RollbackToSavepoint, Reached, NotReached
<1>2. Own(work') /\ Filled(saved, i) /\ ~Queued(i)
  BY <1>1 DEF StoreInv, Isolated, Inserted, Inserting, Own, Marked, Queued
<1>3. Filled(work', i + 1)
  <2>1. \A k \in Surls : k < i + 1 <=> k < i \/ k = i
    BY Places DEF Surls
  <2> QED BY <1>1, <1>2, <2>1 DEF Filled, SurlRows
<1> QED BY <1>1, <1>2, <1>3, NextSurlStores

------------------------------------------------------------------------------
(* The end of the transaction.                                             *)

LEMMA AbortAllStores == ASSUME Context, StoreInv, AbortAll PROVE StoreInv'
<1>1. /\ pc = "abortAll" /\ pc' = "commit" /\ UNCHANGED <<n, replies>> /\ status' = "FAILURE"
      /\ link' = "up" /\ inTrans' = FALSE /\ UNCHANGED committed
  BY DEF StoreInv, Linked, AbortAll, AbortTr, Reached, NotReached
<1>2. Linked' /\ Isolated' /\ Inserted' /\ Marked'
  BY <1>1 DEF Linked, Isolated, Inserted, Marked, Open, Loop, Inserting, Checks, Closed
<1> QED BY <1>1, <1>2, VisibleInside DEF StoreInv

LEMMA ProtocolsStore ==
  ASSUME Context, StoreInv, InsertProtocol \/ ProtocolsDone, Connected
  PROVE  StoreInv'
<1>1. /\ pc = "protocolRows" /\ pc' \in {"protocolRows", "commit"}
      /\ UNCHANGED <<n, i, status, surlStatus, replies>> /\ inTrans /\ link = "up"
  BY DEF StoreInv, Linked, Open, InsertProtocol, ProtocolsDone
<1>2. /\ link' = "up" /\ inTrans' /\ UNCHANGED committed
      /\ \/ work' = work
         \/ \E p : work' = work \cup {<<"request_TransferProtocols", n, p>>}
  BY <1>1, InsertWithin, FailsWithin, NoReplyLost DEF InsertProtocol, ProtocolsDone, sessionVars
<1>3. Linked' /\ Marked'
  BY <1>1, <1>2 DEF StoreInv, Linked, Marked, Open, Loop, Checks, Closed
<1>4. Isolated'
  BY <1>1, <1>2 DEF StoreInv, Isolated, Own, Inserting
<1>5. Filled(work, NSurls + 1) /\ \E k \in Surls : Queued(k)
  BY <1>1 DEF StoreInv, Inserted
<1>6. Filled(work', NSurls + 1)
  BY <1>2, <1>5 DEF Filled, SurlRows
<1>7. Inserted'
  BY <1>1, <1>5, <1>6 DEF Inserted, Inserting, Filled, SurlRows, Queued
<1> QED BY <1>1, <1>2, <1>3, <1>4, <1>7, VisibleInside DEF StoreInv

LEMMA CommitStores == ASSUME Context, StoreInv, Commit PROVE StoreInv'
<1>1. /\ pc = "commit" /\ pc' = "respond" /\ UNCHANGED <<n, status, token, surlStatus, replies>>
      /\ link' = "up" /\ ~inTrans' /\ committed' = Seen /\ token
  BY DEF StoreInv, Linked, Commit, Silently, EndTr, Reached, NotReached, Context, TokenKept
<1>2. Linked' /\ Isolated' /\ Inserted' /\ Marked'
  BY <1>1 DEF Linked, Isolated, Inserted, Marked, Open, Loop, Inserting, Checks, Closed
<1>3. CASE ~inTrans
  <2>1. committed' = committed /\ status' # "REQUEST_QUEUED"
    BY <1>1, <1>3 DEF Seen, StoreInv, Marked
  <2> QED BY <1>1, <1>2, <2>1, VisibleRefused DEF StoreInv
<1>4. CASE inTrans
  <2>1. committed' = work /\ Own(work) /\ Filled(work, NSurls + 1) /\ status = "REQUEST_QUEUED"
    BY <1>1, <1>4 DEF Seen, StoreInv, Isolated, Inserted, Marked
  <2>2. \A k \in Surls : k < NSurls + 1
    BY Places DEF Surls
  <2>3. FilesOf(n)' = {k \in Surls : Queued(k)}
    BY <1>1, <2>1, <2>2 DEF FilesOf, Filled, SurlRows
  <2>4. \E k \in Surls : Queued(k)
    BY <1>1, <1>4 DEF StoreInv, Inserted
  <2>5. Complete(n)'
    BY <1>1, <2>1, <2>2, <2>3, <2>4 DEF Complete, Filled, SurlRows
  <2>6. Answerable'
    BY <1>1, <2>1, <2>3, <2>5 DEF Answerable, Queued
  <2>7. ASSUME NEW r \in 1 .. MaxRequests, r # n
        PROVE  RowsOf(r)' = RowsOf(r) /\ FilesOf(r)' = FilesOf(r) /\ (Complete(r)' <=> Complete(r))
    <3>1. \A row : row[2] = r => (row \in committed' <=> row \in committed)
      BY <2>1, <2>7 DEF Own
    <3>2. RowsOf(r)' = RowsOf(r)
      BY <3>1 DEF RowsOf
    <3>3. \A t, k : <<t, r, k>> \in committed' <=> <<t, r, k>> \in committed
      BY <3>1
    <3>4. FilesOf(r)' = FilesOf(r)
      BY <3>3 DEF FilesOf
    <3> QED BY <3>2, <3>3, <3>4 DEF Complete
  <2>8. \A r \in 1 .. MaxRequests : r # n => (Settled(r)' <=> Settled(r))
    BY <1>1, <2>7 DEF Settled
  <2>9. Visible'
    BY <1>1, <2>6, <2>7, <2>8, Places DEF StoreInv, Visible
  <2> QED BY <1>2, <2>9 DEF StoreInv
<1> QED BY <1>1, <1>3, <1>4

LEMMA RespondStores == ASSUME Context, StoreInv, Respond PROVE StoreInv'
<1>1. /\ pc = "respond" /\ pc' = "idle" /\ UNCHANGED <<sessionVars, n>>
      /\ replies \in Replies /\ n \in 1 .. MaxRequests
      /\ replies' = [replies EXCEPT ![n] = [status |-> status, token |-> token,
                                            surls |-> surlStatus]]
  BY Places DEF Respond, Context, AnsweredOnce
<1>2. Linked' /\ Isolated' /\ Inserted' /\ Marked'
  BY <1>1 DEF StoreInv, Linked, Isolated, Inserted, Marked, Open, Loop, Inserting, Checks,
              Closed, sessionVars
<1>3. /\ replies'[n].status = status /\ replies'[n].token = token
      /\ replies'[n].surls = surlStatus
  BY <1>1 DEF Replies
<1>4. \A r \in 1 .. MaxRequests : r # n => replies'[r] = replies[r]
  BY <1>1 DEF Replies
<1>5. \A r \in 1 .. MaxRequests : r # n => (Settled(r)' <=> Settled(r))
  BY <1>1, <1>4, SettledKept DEF sessionVars
<1>6. Answerable
  BY <1>1 DEF StoreInv, Visible
<1>7. ASSUME NEW r \in 1 .. MaxRequests, r = n
      PROVE  Settled(r)'
  BY <1>1, <1>3, <1>6, <1>7 DEF Settled, Answerable, Complete, RowsOf, FilesOf, Queued, sessionVars
<1>8. Visible'
  BY <1>1, <1>5, <1>7, Places DEF StoreInv, Visible, RowsOf, sessionVars
<1> QED BY <1>2, <1>8 DEF StoreInv

LEMMA CrashStores == ASSUME Context, StoreInv, Crash PROVE StoreInv'
<1>1. /\ pc' = "idle" /\ UNCHANGED <<committed, n, replies>>
      /\ link' = "up" /\ ~inTrans'
  BY DEF Crash, SessionDies
<1>2. Linked' /\ Isolated' /\ Inserted' /\ Marked'
  BY <1>1 DEF Linked, Isolated, Inserted, Marked, Open, Loop, Inserting, Checks, Closed
<1> QED BY <1>1, <1>2, VisibleIdle DEF StoreInv

LEMMA IdleStores == ASSUME StoreInv, UNCHANGED vars PROVE StoreInv'
BY DEF vars, sessionVars, asyncVars, StoreInv, Linked, Isolated, Own, Visible, RowsOf, Settled,
       Complete, FilesOf, Answerable, Queued, Inserted, Filled, Filling, SurlRows, Marked

(* while no connection drops, every step *)
LEMMA StoreStep ==
  ASSUME Context, StoreInv, [Next]_vars, ~Drop, Connected
  PROVE  StoreInv'
BY ReceiveStores, DeclineStores, ChecksStore, BeginStores, InsertRequestStores,
   AbortRequestStores, SavepointStores, InsertDirOptionStores, InsertFileStores,
   InsertStatusStores, RollbackSurlStores, AbortAllStores, ProtocolsStore, CommitStores,
   RespondStores, CrashStores, IdleStores
   DEF Next, Done

------------------------------------------------------------------------------
(* drops counts.                                                           *)

LEMMA DropsCounted ==
  ASSUME [Next]_vars, drops \in Nat
  PROVE  /\ drops' \in Nat
         /\ drops' = drops \/ drops' = drops + 1
         /\ Drop \/ (\E row : ReplyLost(row)) => drops' = drops + 1
<1>1. CASE Drop \/ \E row : ReplyLost(row)
  BY <1>1 DEF Drop, ConnectionDrops, ReplyLost
<1>2. Statement \/ InsertsOwn \/ QueueRowLost
  BY SessionUse DEF vars, Statement
<1>3. CASE ~Drop /\ ~\E row : ReplyLost(row)
  <2>1. drops' = drops \/ ConnectionDrops
    BY <1>2, <1>3 DEF InsertsOwn, Inserts, QueueRowLost, Insert, Statement, StartTr, EndTr, AbortTr, SetSavepoint,
                RollbackToSavepoint, StatementFails, PingAnswers, PingFails, SessionDies,
                Reached, NotReached, sessionVars
  <2> QED BY <1>3, <2>1 DEF ConnectionDrops
<1> QED BY <1>1, <1>3

WhileConnected == drops \in Nat /\ (drops = 0 => StoreInv)

LEMMA AlwaysStored == Spec => [](ServedInv /\ WhileConnected)
<1>1. AsyncInit => ServedInv /\ WhileConnected
  BY ServedInit, StoreInit DEF WhileConnected, AsyncInit, SessionInit
<1>2. ServedInv /\ WhileConnected /\ [Next]_vars => (ServedInv /\ WhileConnected)'
  BY ServedStep, StoreStep, DropsCounted DEF WhileConnected, ServedInv, Context, Connected
<1> QED BY <1>1, <1>2, PTL DEF Spec

(* While connections do not drop the backend never sees half a request:    *)
(* whatever INSERTs fail and wherever the process dies, a request is in    *)
(* the database with its files, the status of each and no other, or not    *)
(* at all (the transaction and the savepoints of insertIntoDB).            *)
THEOREM SeenWhole == Spec => []AtomicVisibility
<1>1. ServedInv /\ WhileConnected => AtomicVisibility
  <2> SUFFICES ASSUME ServedInv, StoreInv, NEW r \in 1 .. n, RowsOf(r) # {}
               PROVE  Complete(r) /\ (r = n => pc \in {"idle", "respond"})
    BY DEF WhileConnected, AtomicVisibility, Complete
  <2>1. r \in 1 .. MaxRequests /\ r <= n
    BY Places DEF ServedInv, Context
  <2> QED BY <2>1, Places DEF StoreInv, Visible, Settled, Answerable, ServedInv, Context
<1> QED BY <1>1, AlwaysStored, PTL

(* While connections do not drop a client told that its request is queued  *)
(* has it in the database with the files it was told of, and no other      *)
(* client has (insertIntoDB, failRequest and buildResponse).               *)
THEOREM RepliesAreTrue == Spec => []RepliesMatchStore
<1>1. ServedInv /\ WhileConnected => RepliesMatchStore
  <2> SUFFICES ASSUME ServedInv, StoreInv, NEW r \in 1 .. n, replies[r].status # "none"
               PROVE  /\ replies[r].status = "REQUEST_QUEUED"
                           <=> <<"request_queue", r, 0>> \in committed
                      /\ replies[r].status = "REQUEST_QUEUED" =>
                           /\ replies[r].token
                           /\ FilesOf(r) = {k \in Surls : replies[r].surls[k] = "REQUEST_QUEUED"}
    BY DEF WhileConnected, RepliesMatchStore
  <2>1. r \in 1 .. MaxRequests /\ r <= n /\ n \in Nat /\ (r = n => pc = "idle")
    BY Places DEF ServedInv, Context
  <2>2. Settled(r)
    BY <2>1 DEF StoreInv, Visible
  <2>3. RowsOf(r) = {} => <<"request_queue", r, 0>> \notin committed
    BY DEF RowsOf
  <2> QED BY <2>2, <2>3 DEF Settled, Complete
<1> QED BY <1>1, AlwaysStored, PTL

------------------------------------------------------------------------------
(* Requests without a token.                                               *)

(* nothing of r is in the database or on its way there *)
Absent(r) == \A row \in Rows : row[2] # r

UnservedAbsent == drops <= 1 => \A r \in 1 .. MaxRequests : Unserved(r) => Absent(r)

LEMMA UnservedAbsentStep ==
  ASSUME ServedInv, WhileConnected, UnservedAbsent, [Next]_vars
  PROVE  UnservedAbsent'
<1>1. drops \in Nat /\ (drops' = drops \/ drops' = drops + 1)
  BY DropsCounted DEF WhileConnected
<1>2. CASE Next
  <2> SUFFICES ASSUME drops' <= 1, NEW r \in 1 .. MaxRequests, Unserved(r)'
               PROVE  Absent(r)'
    BY DEF UnservedAbsent
  <2>1. Absent(r)
    BY <1>1, <1>2, UnservedBefore DEF ServedInv, UnservedAbsent
  <2>2. CASE Rows' \subseteq Rows
    BY <2>1, <2>2 DEF Absent
  <2>3. CASE InsertsOwn
    <3>1. PICK row : row[2] = n /\ Inserts(row)
      BY <2>3 DEF InsertsOwn
    <3>2. Rows' \subseteq Rows \cup {row}
      BY <3>1, InsertRows
    <3>3. n' = n /\ ~Unserved(n)'
      BY <2>3, InsertServes DEF ServedInv, InsertsOwn
    <3>4. r # n
      BY <3>3 DEF Unserved
    <3> QED BY <2>1, <3>1, <3>2, <3>4 DEF Absent
  <2>4. CASE QueueRowLost
    <3>1. drops = 0
      BY <1>1, <2>4, DropsCounted DEF QueueRowLost
    <3>2. inTrans
      BY <2>4, <3>1 DEF QueueRowLost, WhileConnected, StoreInv, Linked, Open
    <3>3. Rows' \subseteq Rows
      BY <2>4, <3>2 DEF QueueRowLost, ReplyLost, Rows
    <3> QED BY <2>2, <3>3
  <2> QED BY <1>2, <2>2, <2>3, <2>4, SessionUse, StatementRows
<1>3. CASE UNCHANGED vars
  BY <1>3 DEF vars, asyncVars, sessionVars, Rows, UnservedAbsent, Unserved, Absent
<1> QED BY <1>2, <1>3

(* A client answered without a token has no file the backend could serve,  *)
(* and will never have: for however many SURLs, whatever INSERT fails and  *)
(* whenever connections drop.  Its row of request_queue may be there, but  *)
(* not unless two connections dropped (__process_file_request and          *)
(* insertIntoDB).                                                          *)
THEOREM NothingWithoutToken == Spec => []NoTokenNoFiles
<1>1. AsyncInit => UnservedAbsent
  BY DEF AsyncInit, SessionInit, Rows, UnservedAbsent, Absent
<1>2. ServedInv /\ WhileConnected /\ UnservedAbsent /\ [Next]_vars => UnservedAbsent'
  BY UnservedAbsentStep
<1>3. ServedInv /\ UnservedAbsent => NoTokenNoFiles
  <2> SUFFICES ASSUME ServedInv, UnservedAbsent, NEW r \in 1 .. n,
                      replies[r].status # "none", ~replies[r].token
               PROVE  RowsOf(r) \subseteq
                        (IF drops <= 1 THEN {} ELSE {<<"request_queue", r, 0>>})
    BY DEF NoTokenNoFiles
  <2>1. r \in 1 .. MaxRequests /\ Unserved(r)
    BY AsyncAssumption DEF AsyncAssumption, ServedInv, WorkerOK, Unserved
  <2>2. Quiet(r) /\ (drops <= 1 => Absent(r))
    BY <2>1 DEF ServedInv, UnservedQuiet, UnservedAbsent
  <2> QED BY <2>2 DEF Quiet, Absent, Rows, RowsOf
<1> QED BY <1>1, <1>2, <1>3, AlwaysStored, PTL DEF Spec

------------------------------------------------------------------------------
(* The abstract store: what each step does to it while connections hold.   *)

LEMMA FilesOfRows == ASSUME NEW r, RowsOf(r) = {} PROVE FilesOf(r) = {}
BY DEF RowsOf, FilesOf

LEMMA LaterUnknown ==
  ASSUME Context, StoreInv, NEW q \in 1 .. MaxRequests, q > n
  PROVE  FilesOf(q) = {} /\ replies[q].status = "none"
BY FilesOfRows, Places DEF StoreInv, Visible, Context, AnsweredOnce

LEMMA StutterOfStore ==
  ASSUME UNCHANGED <<committed, replies>>
  PROVE  UNCHANGED Abstract!vars
BY DEF Abstract!vars, FilesOf, ToldOf

(* COMMIT is the only statement that changes the database *)
LEMMA OnlyCommitStores ==
  ASSUME Context, StoreInv, Next, ~Drop, ~Commit, Connected
  PROVE  UNCHANGED committed
<1>1. CASE Receive \/ Decline \/ BlacklistUnknown \/ Blacklisted \/ AssignToken \/ CheckProtocols
           \/ ProtocolsDone \/ Respond \/ Done
  BY <1>1 DEF sessionVars, vars, Receive, Decline, BlacklistUnknown, Blacklisted, AssignToken,
              CheckProtocols, ProtocolsDone, Respond, Done
<1>2. CASE Ping \/ AbortRequest \/ AbortAll \/ Savepoint \/ RollbackSurl \/ Crash
  BY <1>2 DEF Ping, PingAnswers, PingFails, AbortRequest, AbortAll, AbortTr, Savepoint, Silently,
              SetSavepoint, RollbackSurl, RollbackToSavepoint, Crash, SessionDies, NotReached
<1>3. CASE Begin
  BY <1>3 DEF StoreInv, Linked, Closed, Begin, Silently, StartTr, Seen, NotReached
<1>4. CASE InsertRequest \/ InsertDirOption \/ InsertFile \/ InsertStatus \/ InsertProtocol
  <2>1. inTrans
    BY <1>4 DEF StoreInv, Linked, Open, Loop, InsertRequest, InsertDirOption, InsertFile,
                InsertStatus, InsertProtocol
  <2>2. StatementFails \/ \E row : Insert(row)
    BY <1>4, NoReplyLost DEF InsertRequest, InsertDirOption, InsertFile, InsertStatus, InsertProtocol, SurlFails
  <2> QED BY <2>1, <2>2, InsertWithin DEF StatementFails, NotReached
<1> QED BY <1>1, <1>2, <1>3, <1>4 DEF Next

(* and stores the request of this handler, with the files that are queued  *)
LEMMA CommitImplements ==
  ASSUME Context, StoreInv, Commit
  PROVE  [Abstract!Next]_(Abstract!vars)
<1>1. /\ pc = "commit" /\ UNCHANGED <<n, surlStatus, replies>> /\ committed' = Seen
  BY DEF StoreInv, Linked, Commit, Silently, EndTr, Reached, NotReached, Closed
<1>2. CASE ~inTrans
  BY <1>1, <1>2, StutterOfStore DEF Seen
<1>3. CASE inTrans
  <2> DEFINE Files == {k \in Surls : Queued(k)}
  <2>1. /\ committed' = work /\ Own(work) /\ Filled(work, NSurls + 1)
        /\ \E k \in Surls : Queued(k)
        /\ RowsOf(n) = {} /\ n \in 1 .. MaxRequests /\ replies[n].status = "none"
    BY <1>1, <1>3, Places DEF Seen, StoreInv, Isolated, Inserted, Visible
  <2>2. \A k \in Surls : k < NSurls + 1
    BY Places DEF Surls
  <2>3. FilesOf(n)' = Files
    BY <1>1, <2>1, <2>2 DEF FilesOf, Filled, SurlRows
  <2>4. \A r \in 1 .. MaxRequests : r # n => FilesOf(r)' = FilesOf(r)
    BY <1>1, <2>1 DEF Own, FilesOf
  <2>5. FilesOf(n) = {} /\ ToldOf(replies[n]) = {}
    BY <2>1, FilesOfRows DEF ToldOf
  <2>6. Abstract!Last(n)
    BY <2>1, LaterUnknown, Places DEF Abstract!Last, Abstract!Silence, ToldOf
  <2>7. Abstract!Store(n, Files)
    <3>1. [r \in 1 .. MaxRequests |-> FilesOf(r)]'
            = [[r \in 1 .. MaxRequests |-> FilesOf(r)] EXCEPT ![n] = Files]
      <4>1. \A r \in 1 .. MaxRequests : FilesOf(r)' = IF r = n THEN Files ELSE FilesOf(r)
        BY <1>1, <2>3, <2>4
      <4> HIDE DEF Files
      <4>2. [r \in 1 .. MaxRequests |-> FilesOf(r)]'
              = [r \in 1 .. MaxRequests |-> IF r = n THEN Files ELSE FilesOf(r)]
        BY <4>1, Zenon
      <4> QED BY <2>1, <4>2
    <3>2. UNCHANGED [r \in 1 .. MaxRequests |-> [answered |-> replies[r].status # "none",
                                                 files |-> ToldOf(replies[r])]]
      BY <1>1 DEF ToldOf
    <3>3. Files # {}
      BY <2>1
    <3> QED BY <2>1, <2>5, <2>6, <3>1, <3>2, <3>3 DEF Abstract!Store, Abstract!Silence
  <2>8. Files \in SUBSET Surls
    OBVIOUS
  <2> QED BY <2>1, <2>7, <2>8 DEF Abstract!Next
<1> QED BY <1>2, <1>3

(* an answer tells of what is stored *)
LEMMA AnswerImplements ==
  ASSUME Context, StoreInv, NEW r \in 1 .. MaxRequests, r >= n, replies[r].status = "none",
         NEW answer, replies' = [replies EXCEPT ![r] = answer],
         answer.status # "none", ToldOf(answer) = FilesOf(r), UNCHANGED committed
  PROVE  Abstract!Next
<1>1. replies \in Replies
  BY DEF Context, AnsweredOnce
<1>2. /\ replies'[r] = answer
      /\ \A q \in 1 .. MaxRequests : q # r => replies'[q] = replies[q]
  BY <1>1 DEF Replies
<1>3. ToldOf(replies[r]) = {} /\ ToldOf(replies'[r]) = FilesOf(r)
  BY <1>2 DEF ToldOf
<1>4. Abstract!Last(r)
  <2>1. \A q \in 1 .. MaxRequests : q > r => q > n
    BY Places
  <2> QED BY <2>1, LaterUnknown DEF Abstract!Last, Abstract!Silence, ToldOf
<1>5. UNCHANGED [q \in 1 .. MaxRequests |-> FilesOf(q)]
  BY DEF FilesOf
<1>6. [q \in 1 .. MaxRequests |-> [answered |-> replies[q].status # "none",
                                   files |-> ToldOf(replies[q])]]'
        = [[q \in 1 .. MaxRequests |-> [answered |-> replies[q].status # "none",
                                        files |-> ToldOf(replies[q])]]
           EXCEPT ![r] = [answered |-> TRUE, files |-> FilesOf(r)]]
  <2>1. \A q \in 1 .. MaxRequests : q # r => ToldOf(replies'[q]) = ToldOf(replies[q])
    BY <1>2
  <2>2. ToldOf(replies[r])' = ToldOf(replies'[r])
    BY DEF ToldOf
  <2>3. \A q \in 1 .. MaxRequests :
          [answered |-> replies[q].status # "none", files |-> ToldOf(replies[q])]'
            = IF q = r THEN [answered |-> TRUE, files |-> FilesOf(r)]
              ELSE [answered |-> replies[q].status # "none", files |-> ToldOf(replies[q])]
    <3> TAKE q \in 1 .. MaxRequests
    <3>1. CASE q = r
      BY <1>2, <1>3, <2>2, <3>1
    <3>2. CASE q # r
      BY <1>2, <3>2 DEF ToldOf
    <3> QED BY <3>1, <3>2
  <2>4. [q \in 1 .. MaxRequests |-> [answered |-> replies[q].status # "none",
                                     files |-> ToldOf(replies[q])]]'
          = [q \in 1 .. MaxRequests |->
               IF q = r THEN [answered |-> TRUE, files |-> FilesOf(r)]
               ELSE [answered |-> replies[q].status # "none", files |-> ToldOf(replies[q])]]
    BY <2>3, Zenon
  <2> QED BY <2>4
<1>7. Abstract!Answer(r)
  BY <1>3, <1>4, <1>5, <1>6 DEF Abstract!Answer, Abstract!Silence
<1> QED BY <1>7 DEF Abstract!Next

LEMMA StepImplements ==
  ASSUME Context, StoreInv, [Next]_vars, ~Drop, Connected
  PROVE  [Abstract!Next]_(Abstract!vars)
<1>1. CASE Commit
  BY <1>1, CommitImplements
<1>2. CASE Decline
  <2>1. n + 1 \in 1 .. MaxRequests /\ UNCHANGED committed /\ n + 1 >= n
    BY <1>2, Places DEF Decline, sessionVars
  <2>2. FilesOf(n + 1) = {} /\ replies[n + 1].status = "none"
    BY <2>1, LaterUnknown, Places
  <2>3. PICK s \in {"INVALID_REQUEST", "NOT_SUPPORTED"} :
          replies' = [replies EXCEPT ![n + 1] = [NoReply EXCEPT !.status = s]]
    BY <1>2 DEF Decline
  <2>4. [NoReply EXCEPT !.status = s].status = s
    BY DEF NoReply
  <2>5. ToldOf([NoReply EXCEPT !.status = s]) = {}
    BY <2>4 DEF ToldOf
  <2>6. Abstract!Next
    BY <2>1, <2>2, <2>3, <2>4, <2>5, AnswerImplements
  <2> QED BY <2>6
<1>3. CASE Respond
  <2>1. /\ n \in 1 .. MaxRequests /\ replies[n].status = "none" /\ UNCHANGED committed /\ n >= n
        /\ replies' = [replies EXCEPT ![n] = [status |-> status, token |-> token,
                                              surls |-> surlStatus]]
    BY <1>3, Places DEF Respond, sessionVars
  <2> DEFINE answer == [status |-> status, token |-> token, surls |-> surlStatus]
  <2>2. Answerable
    BY <1>3, <2>1 DEF Respond, StoreInv, Visible
  <2>3. ToldOf(answer) = FilesOf(n)
    BY <2>2, FilesOfRows DEF Answerable, Queued, ToldOf
  <2>4. answer.status # "none"
    BY DEF Context, WorkerOK, Statuses
  <2>5. Abstract!Next
    <3> HIDE DEF answer
    <3> QED BY <2>1, <2>3, <2>4, AnswerImplements DEF answer
  <2> QED BY <2>5
<1>4. CASE Next /\ ~Commit /\ ~Decline /\ ~Respond
  <2>1. UNCHANGED replies
    BY <1>4, OthersKeepReplies DEF Receive
  <2> QED BY <1>4, <2>1, OnlyCommitStores, StutterOfStore
<1>5. CASE UNCHANGED vars
  BY <1>5, StutterOfStore DEF vars, sessionVars, asyncVars
<1> QED BY <1>1, <1>2, <1>3, <1>4, <1>5

(* The handlers implement the abstract store while connections do not      *)
(* drop: a COMMIT that ends a transaction is Store, an answer is Answer,   *)
(* and everything else, a crash among it, is a stutter (insertIntoDB,      *)
(* __process_file_request and buildResponse).                              *)
THEOREM RequestsImplementStore == Spec => StoreSafety
<1>1. AsyncInit => Abstract!Init
  <2> SUFFICES ASSUME AsyncInit PROVE Abstract!Init
    OBVIOUS
  <2>1. \A r \in 1 .. MaxRequests : FilesOf(r) = {}
    BY DEF AsyncInit, SessionInit, FilesOf
  <2>2. \A r \in 1 .. MaxRequests : replies[r].status = "none"
    BY DEF AsyncInit, NoReply
  <2> QED BY <2>1, <2>2 DEF ToldOf, Abstract!Init, Abstract!Silence
<1>2. ServedInv /\ WhileConnected /\ [Next]_vars
        => [drops' = 0 => Abstract!Next]_(Abstract!vars)
  BY StepImplements, DropsCounted DEF WhileConnected, ServedInv, Context, Connected
<1> QED BY <1>1, <1>2, AlwaysStored, PTL DEF Spec, StoreSafety
=============================================================================
