------------------------------ MODULE MonitoringProofs --------------------------
(***************************************************************************)
(* Theorems about the monitors, for any number of workers, of monitors, of *)
(* operations, rounds and signals, and at any log level: no operation is   *)
(* lost, the line of a summary covers what was registered when it began,   *)
(* the types, and the order in which mutexes are waited for.               *)
(***************************************************************************)
EXTENDS Monitoring, WellFoundedInduction, FiniteSetTheorems, TLAPS

Places == {"idle", "error", "response", "get", "lock"} \cup Registering
Status == [Counters -> Nat]
Deviating == {"roundDeviation", "deviation"}

Typed ==
  /\ current \in [MonitorSet -> Status] /\ aggregated \in [MonitorSet -> Status]
  /\ registered \in [MonitorSet -> Status]
  /\ mutex \in [MonitorSet -> Workers \cup {Digest, Nobody}]
  /\ pc \in [Workers -> Places] /\ at \in [Workers -> MonitorSet] /\ kind \in [Workers -> Kinds]
  /\ it \in Nat \ {0}

(* a worker that registers has the mutex of its monitor, and so has the    *)
(* digest thread while it computes a deviation                             *)
WorkerHolds == \A w \in Workers : pc[w] \in Registering => mutex[at[w]] = w
DigestHolds == digest \in Deviating => it <= Len(Monitors) /\ mutex[Monitors[it]] = Digest

(* a failure or an error is added behind the operation it belongs to       *)
Bounded ==
  \A m \in MonitorSet :
    /\ aggregated[m]["failures"] + aggregated[m]["errors"] <= aggregated[m]["completed"]
    /\ current[m]["failures"] + current[m]["errors"] <= current[m]["completed"]
    /\ \A w \in Workers : mutex[m] = w /\ pc[w] = "count" =>
         current[m]["failures"] + current[m]["errors"] + 1 <= current[m]["completed"]

Free(m) == \A c \in Counters : aggregated[m][c] + current[m][c] = registered[m][c]
Held(m, w) ==
  /\ pc[w] \in Registering /\ at[w] = m
  /\ \A c \in Counters : aggregated[m][c] + current[m][c] = registered[m][c] + Counted(w)[c]

Conserved ==
  \A m \in MonitorSet : /\ mutex[m] \notin Workers => Free(m)
                        /\ \A w \in Workers : mutex[m] = w => Held(m, w)

IInv == Typed /\ WorkerHolds /\ DigestHolds /\ Bounded /\ Conserved

-------------------------------------------------------------------------------

LEMMA ZeroValue == Zero \in Status /\ \A c \in Counters : Zero[c] = 0
  BY DEF Zero, Status

LEMMA CompletedValue ==
  /\ Completed \in Status
  /\ Completed["completed"] = 1 /\ Completed["failures"] = 0 /\ Completed["errors"] = 0
  BY DEF Completed, Zero, Status, Counters

LEMMA OutcomeValue ==
  ASSUME NEW k \in Kinds
  PROVE  /\ Outcome[k] \in Status
         /\ Outcome[k]["completed"] = 0
         /\ Outcome[k]["failures"] + Outcome[k]["errors"] <= 1
<1>1. CASE k = "success" BY <1>1 DEF Outcome, Zero, Status, Counters
<1>2. CASE k = "failure" BY <1>2 DEF Outcome, Zero, Status, Counters
<1>3. CASE k = "error" BY <1>3 DEF Outcome, Zero, Status, Counters
<1> QED BY <1>1, <1>2, <1>3 DEF Kinds

LEMMA PlusValue ==
  ASSUME NEW s \in Status, NEW r \in Status
  PROVE  Plus(s, r) \in Status /\ \A c \in Counters : Plus(s, r)[c] = s[c] + r[c]
  BY DEF Plus, Status

LEMMA MonitorsInSet == \A j \in 1 .. Len(Monitors) : Monitors[j] \in MonitorSet
  BY DEF MonitorSet

LEMMA InvariantImplies == IInv => NoOperationLost
  BY DEF IInv, Conserved, Bounded, NoOperationLost, Free, Held

-------------------------------------------------------------------------------
(* Sums over the monitors.                                                 *)

LEMMA LeastElement ==
  ASSUME NEW T \in SUBSET Nat, T # {}
  PROVE  \E x \in T : \A y \in T : x <= y
<1>1. IsWellFoundedOn(OpToRel(<, Nat), Nat) BY NatLessThanWellFounded, Zenon
<1>2. PICK x \in T : \A y \in T : ~ (<<y, x>> \in OpToRel(<, Nat)) BY <1>1, WFMin, Zenon
<1>3. ASSUME NEW y \in T PROVE x <= y
  <2>1. ~ (y < x) BY <1>2, Zenon DEF OpToRel
  <2> QED BY <2>1
<1> QED BY <1>3

(* what holds of 0, and of n + 1 with n, holds of every number             *)
LEMMA Induction ==
  ASSUME NEW T \in SUBSET Nat, 0 \in T, \A n \in T : n + 1 \in T
  PROVE  T = Nat
<1> SUFFICES ASSUME Nat \ T # {} PROVE FALSE OBVIOUS
<1>1. PICK x \in Nat \ T : \A y \in Nat \ T : x <= y BY LeastElement
<1>2. x - 1 \in Nat BY <1>1
<1>3. x - 1 \in T BY <1>1, <1>2
<1> QED BY <1>1, <1>3

LEMMA LenNat == Len(Monitors) \in Nat /\ Len(Monitors) > 0
  BY MonitoringAssumption DEF MonitoringAssumption

(* the numbers f[1], f[2]... of the monitors add up to s                   *)
Totals(f, s) ==
  \E g \in [0 .. Len(Monitors) -> Nat] :
    /\ g[0] = 0 /\ g[Len(Monitors)] = s
    /\ \A j \in 1 .. Len(Monitors) : g[j] = g[j - 1] + f[j]

(* Sum is a sum: what the recursive definition chooses exists              *)
LEMMA SumIsTotal ==
  ASSUME NEW status \in [MonitorSet -> Status]
  PROVE  /\ Sum(status) \in Status
         /\ \A c \in Counters :
              Totals([j \in 1 .. Len(Monitors) |-> status[Monitors[j]][c]], Sum(status)[c])
<1> DEFINE N == Len(Monitors)
           upTo == CHOOSE upTo : upTo = [j \in 0 .. N |-> IF j = 0 THEN Zero
                                           ELSE Plus(upTo[j - 1], status[Monitors[j]])]
           Partial(g, n) == /\ g \in [0 .. n -> Status] /\ g[0] = Zero
                         /\ \A j \in 1 .. n : g[j] = Plus(g[j - 1], status[Monitors[j]])
           T == {n \in Nat : n <= N => \E g : Partial(g, n)}
<1>s. \A j \in 1 .. N : status[Monitors[j]] \in Status BY MonitorsInSet
<1>0. N \in Nat BY LenNat
<1>1. 0 \in T
  <2>1. Partial([j \in 0 .. 0 |-> Zero], 0) BY ZeroValue
  <2> QED BY <2>1
<1>2. ASSUME NEW n \in T PROVE n + 1 \in T
  <2> SUFFICES ASSUME n + 1 <= N PROVE \E g : Partial(g, n + 1) OBVIOUS
  <2>1. PICK g : Partial(g, n) BY <1>0
  <2> DEFINE h == [j \in 0 .. n + 1 |-> IF j = n + 1 THEN Plus(g[n], status[Monitors[n + 1]]) ELSE g[j]]
  <2>2. g[n] \in Status /\ n + 1 \in 1 .. N /\ n \in Nat BY <1>0, <2>1
  <2>3. Plus(g[n], status[Monitors[n + 1]]) \in Status BY <1>s, <2>2, PlusValue
  <2>4. h \in [0 .. n + 1 -> Status] /\ h[0] = Zero BY <2>1, <2>2, <2>3
  <2>5. ASSUME NEW j \in 1 .. n + 1 PROVE h[j] = Plus(h[j - 1], status[Monitors[j]])
    <3>1. CASE j = n + 1 BY <2>2, <3>1
    <3>2. CASE j \in 1 .. n BY <2>1, <2>2, <3>2
    <3> QED BY <2>2, <3>1, <3>2
  <2>6. Partial(h, n + 1) BY <2>4, <2>5
  <2> HIDE DEF h, Partial
  <2> QED BY <2>6
<1> HIDE DEF T
<1>3. T = Nat
  <2>1. T \in SUBSET Nat BY DEF T
  <2> QED BY <1>1, <1>2, <2>1, Induction
<1>4. PICK g : Partial(g, N) BY <1>0, <1>3 DEF T
<1>5. g = [j \in 0 .. N |-> IF j = 0 THEN Zero ELSE Plus(g[j - 1], status[Monitors[j]])]
  <2>1. g = [j \in 0 .. N |-> g[j]] BY <1>4
  <2>2. ASSUME NEW j \in 0 .. N
        PROVE g[j] = IF j = 0 THEN Zero ELSE Plus(g[j - 1], status[Monitors[j]])
    BY <1>0, <1>4
  <2> QED BY <2>1, <2>2
<1>6. upTo = [j \in 0 .. N |-> IF j = 0 THEN Zero ELSE Plus(upTo[j - 1], status[Monitors[j]])]
  <2> HIDE DEF N
  <2> QED BY <1>5
<1>7. Sum(status) = upTo[N] BY DEF Sum
<1> HIDE DEF upTo, N
<1> DEFINE R == {n \in Nat : n <= N => upTo[n] \in Status}
<1>8. R = Nat
  <2>1. R \in SUBSET Nat OBVIOUS
  <2>2. 0 \in R BY <1>0, <1>6, ZeroValue
  <2>3. ASSUME NEW n \in R PROVE n + 1 \in R
    <3> SUFFICES ASSUME n + 1 <= N PROVE upTo[n + 1] \in Status OBVIOUS
    <3>1. upTo[n] \in Status BY <1>0
    <3>2. n + 1 \in 1 .. N BY <1>0
    <3>i. n + 1 \in 0 .. N /\ n + 1 # 0 /\ (n + 1) - 1 = n BY <1>0
    <3>3. upTo[n + 1] = Plus(upTo[n], status[Monitors[n + 1]]) BY <1>6, <3>i
    <3> QED BY <1>s, <3>1, <3>2, <3>3, PlusValue
  <2> HIDE DEF R
  <2> QED BY <2>1, <2>2, <2>3, Induction
<1>9. \A n \in 0 .. N : upTo[n] \in Status BY <1>0, <1>8
<1>10. ASSUME NEW c \in Counters
       PROVE  Totals([j \in 1 .. N |-> status[Monitors[j]][c]], Sum(status)[c])
  <2> DEFINE h == [j \in 0 .. N |-> upTo[j][c]]
  <2>1. h \in [0 .. N -> Nat] BY <1>9 DEF Status
  <2>2. h[0] = 0 BY <1>0, <1>6, ZeroValue
  <2>3. h[N] = Sum(status)[c] BY <1>0, <1>7
  <2>4. ASSUME NEW j \in 1 .. N PROVE h[j] = h[j - 1] + status[Monitors[j]][c]
    <3>1. j - 1 \in 0 .. N /\ j \in 0 .. N BY <1>0
    <3>2. upTo[j] = Plus(upTo[j - 1], status[Monitors[j]]) BY <1>6, <3>1
    <3> QED BY <1>9, <1>s, <3>1, <3>2, PlusValue
  <2> HIDE DEF h
  <2>5. \A j \in 1 .. N : h[j] = h[j - 1] + [i \in 1 .. N |-> status[Monitors[i]][c]][j] BY <2>4
  <2> QED BY <2>1, <2>2, <2>3, <2>5 DEF Totals, N
<1>11. Sum(status) \in Status BY <1>0, <1>7, <1>9
<1> QED BY <1>10, <1>11 DEF N

LEMMA TotalsZero == Totals([j \in 1 .. Len(Monitors) |-> 0], 0)
<1> DEFINE g == [j \in 0 .. Len(Monitors) |-> 0]
<1>1. g \in [0 .. Len(Monitors) -> Nat] /\ g[0] = 0 /\ g[Len(Monitors)] = 0 BY LenNat
<1>2. \A j \in 1 .. Len(Monitors) : g[j] = g[j - 1] + [i \in 1 .. Len(Monitors) |-> 0][j] BY LenNat
<1> HIDE DEF g
<1> QED BY <1>1, <1>2 DEF Totals

(* one number grows, and so does the sum                                   *)
LEMMA TotalsGrow ==
  ASSUME NEW f \in [1 .. Len(Monitors) -> Nat], NEW s, Totals(f, s),
         NEW k \in 1 .. Len(Monitors), NEW v \in Nat
  PROVE  Totals([f EXCEPT ![k] = @ + v], s + v)
<1> DEFINE N == Len(Monitors)
           e == [f EXCEPT ![k] = @ + v]
<1>0. N \in Nat /\ k \in 1 .. N BY LenNat
<1>1. PICK g \in [0 .. N -> Nat] : /\ g[0] = 0 /\ g[N] = s
                                   /\ \A j \in 1 .. N : g[j] = g[j - 1] + f[j]
  BY DEF Totals
<1> DEFINE h == [j \in 0 .. N |-> IF j < k THEN g[j] ELSE g[j] + v]
<1> HIDE DEF N
<1>2. h \in [0 .. N -> Nat] /\ h[0] = 0 /\ h[N] = s + v BY <1>0, <1>1
<1>3. ASSUME NEW j \in 1 .. N PROVE h[j] = h[j - 1] + e[j]
  <2>1. j \in 0 .. N /\ j - 1 \in 0 .. N /\ g[j] = g[j - 1] + f[j] BY <1>0, <1>1
  <2>2. f[j] \in Nat /\ g[j - 1] \in Nat /\ g[j] \in Nat BY <2>1 DEF N
  <2>3. CASE j < k BY <1>0, <2>1, <2>2, <2>3 DEF N
  <2>4. CASE j = k BY <1>0, <2>1, <2>2, <2>4 DEF N
  <2>5. CASE j > k
    <3>1. h[j] = g[j] + v /\ h[j - 1] = g[j - 1] + v /\ e[j] = f[j] BY <1>0, <2>1, <2>5 DEF N
    <3> QED BY <2>1, <2>2, <3>1
  <2> QED BY <1>0, <2>3, <2>4, <2>5
<1> HIDE DEF h, e
<1>4. Totals(e, s + v) BY <1>2, <1>3 DEF Totals, N
<1> QED BY <1>4 DEF e

(* numbers that each make up for two others make up for both sums          *)
LEMMA TotalsOrdered ==
  ASSUME NEW a \in [1 .. Len(Monitors) -> Nat], NEW b \in [1 .. Len(Monitors) -> Nat],
         NEW f \in [1 .. Len(Monitors) -> Nat], NEW sa, NEW sb, NEW sf,
         Totals(a, sa), Totals(b, sb), Totals(f, sf),
         \A j \in 1 .. Len(Monitors) : a[j] + b[j] <= f[j]
  PROVE  sa \in Nat /\ sb \in Nat /\ sf \in Nat /\ sa + sb <= sf
<1> DEFINE N == Len(Monitors)
           Adds(g, x) == \A j \in 1 .. N : g[j] = g[j - 1] + x[j]
<1>0. N \in Nat BY LenNat
<1>1. PICK ga \in [0 .. N -> Nat] : ga[0] = 0 /\ ga[N] = sa /\ Adds(ga, a) BY DEF Totals
<1>2. PICK gb \in [0 .. N -> Nat] : gb[0] = 0 /\ gb[N] = sb /\ Adds(gb, b) BY DEF Totals
<1>3. PICK gf \in [0 .. N -> Nat] : gf[0] = 0 /\ gf[N] = sf /\ Adds(gf, f) BY DEF Totals
<1> HIDE DEF N
<1> DEFINE T == {n \in Nat : n <= N => ga[n] + gb[n] <= gf[n]}
<1>4. T \in SUBSET Nat OBVIOUS
<1>5. 0 \in T BY <1>1, <1>2, <1>3
<1>6. ASSUME NEW n \in T PROVE n + 1 \in T
  <2> SUFFICES ASSUME n + 1 <= N PROVE ga[n + 1] + gb[n + 1] <= gf[n + 1] OBVIOUS
  <2>1. n \in 0 .. N /\ n + 1 \in 0 .. N /\ n + 1 \in 1 .. N /\ (n + 1) - 1 = n BY <1>0
  <2>2. ga[n] + gb[n] <= gf[n] BY <2>1
  <2>3. /\ ga[n + 1] = ga[n] + a[n + 1] /\ gb[n + 1] = gb[n] + b[n + 1]
        /\ gf[n + 1] = gf[n] + f[n + 1]
    BY <1>1, <1>2, <1>3, <2>1
  <2>4. /\ ga[n] \in Nat /\ gb[n] \in Nat /\ gf[n] \in Nat BY <2>1
  <2>5. a[n + 1] \in Nat /\ b[n + 1] \in Nat /\ f[n + 1] \in Nat /\ a[n + 1] + b[n + 1] <= f[n + 1]
    BY <2>1 DEF N
  <2> QED BY <2>2, <2>3, <2>4, <2>5
<1> HIDE DEF T
<1>7. T = Nat BY <1>4, <1>5, <1>6, Induction
<1>8. ga[N] + gb[N] <= gf[N]
  <2>1. N \in T BY <1>0, <1>7
  <2> QED BY <1>0, <2>1 DEF T
<1>9. ga[N] \in Nat /\ gb[N] \in Nat /\ gf[N] \in Nat BY <1>0
<1> QED BY <1>1, <1>2, <1>3, <1>8, <1>9

-------------------------------------------------------------------------------

LEMMA InitInvariant == Init => IInv
<1> SUFFICES ASSUME Init PROVE IInv OBVIOUS
<1> USE ZeroValue DEF Init, Empty
<1>1. Typed
  BY MonitoringAssumption DEF Typed, Places, Registering, Kinds, MonitoringAssumption, MonitorSet
<1>2. WorkerHolds BY DEF WorkerHolds, Registering
<1>3. DigestHolds BY DEF DigestHolds, Deviating
<1>4. Bounded BY MonitoringAssumption DEF Bounded, Counters, MonitoringAssumption
<1>5. Conserved BY MonitoringAssumption DEF Conserved, Free, MonitoringAssumption
<1> QED BY <1>1, <1>2, <1>3, <1>4, <1>5 DEF IInv

(* what concerns neither a status, nor a worker's place, nor the digest    *)
LEMMA Unmoved ==
  ASSUME IInv, UNCHANGED <<statusVars, pc, at, kind, digest, it>>
  PROVE  IInv'
  BY DEF IInv, Typed, WorkerHolds, DigestHolds, Bounded, Conserved, Free, Held, Counted, statusVars

(* a worker moves, and registers neither before nor behind the step        *)
LEMMA WorkerElsewhere ==
  ASSUME IInv, NEW w \in Workers, pc[w] \notin Registering,
         NEW place \in Places \ Registering, NEW m \in MonitorSet, NEW k \in Kinds,
         pc' = [pc EXCEPT ![w] = place], at' = [at EXCEPT ![w] = m],
         kind' = [kind EXCEPT ![w] = k], UNCHANGED <<statusVars, digest, it>>
  PROVE  IInv'
<1>1. Typed' BY DEF IInv, Typed, statusVars
<1>2. WorkerHolds' BY DEF IInv, Typed, WorkerHolds, statusVars
<1>3. DigestHolds' BY DEF IInv, DigestHolds, statusVars
<1>4. \A x \in MonitorSet : mutex[x] # w BY DEF IInv, Conserved, Held
<1>5. Bounded' BY <1>4 DEF IInv, Typed, Bounded, statusVars
<1>6. Conserved'
  <2> SUFFICES ASSUME NEW x \in MonitorSet
               PROVE  /\ mutex'[x] \notin Workers => Free(x)'
                      /\ \A v \in Workers : mutex'[x] = v => Held(x, v)'
    BY DEF Conserved
  <2>1. mutex'[x] \notin Workers => Free(x)' BY DEF IInv, Conserved, Free, statusVars
  <2>2. ASSUME NEW v \in Workers, mutex'[x] = v PROVE Held(x, v)'
    <3>1. v # w /\ Held(x, v) BY <1>4, <2>2 DEF IInv, Conserved, statusVars
    <3>2. pc'[v] = pc[v] /\ at'[v] = at[v] /\ kind'[v] = kind[v] BY <3>1 DEF IInv, Typed
    <3>3. Counted(v)' = Counted(v) BY <3>2 DEF Counted
    <3> QED BY <3>1, <3>2, <3>3 DEF Held, statusVars
  <2> QED BY <2>1, <2>2
<1> QED BY <1>1, <1>2, <1>3, <1>5, <1>6 DEF IInv

(* the digest thread moves and has no monitor's mutex behind the step      *)
LEMMA DigestElsewhere ==
  ASSUME IInv, UNCHANGED <<statusVars, pc, at, kind>>, digest' \notin Deviating,
         it' \in Nat \ {0}
  PROVE  IInv'
  BY DEF IInv, Typed, WorkerHolds, DigestHolds, Bounded, Conserved, Free, Held, Counted, statusVars

-------------------------------------------------------------------------------
(* The steps of a registration.                                            *)

(* what a step of worker w on its monitor leaves alone                     *)
LEMMA OthersHeld ==
  ASSUME IInv, NEW w \in Workers, NEW place \in Places,
         NEW x \in MonitorSet, x # at[w], NEW v \in Workers, mutex[x] = v,
         pc' = [pc EXCEPT ![w] = place],
         at'[v] = at[v] \/ v = w, kind'[v] = kind[v] \/ v = w,
         aggregated'[x] = aggregated[x], current'[x] = current[x], registered'[x] = registered[x]
  PROVE  v # w /\ Held(x, v)'
<1>1. Held(x, v) /\ v # w BY DEF IInv, Conserved, Held
<1>2. pc'[v] = pc[v] /\ at'[v] = at[v] /\ kind'[v] = kind[v] BY <1>1 DEF IInv, Typed
<1>3. Counted(v)' = Counted(v) BY <1>2 DEF Counted
<1> QED BY <1>1, <1>2, <1>3 DEF Held

LEMMA LockInvariant ==
  ASSUME IInv, NEW w \in Workers, LockMonitor(w)
  PROVE  IInv'
<1> DEFINE m == at[w]
<1> USE MonitoringAssumption DEF MonitoringAssumption
<1>1. m \in MonitorSet /\ mutex[m] = Nobody /\ pc[w] = "lock" BY DEF IInv, Typed, LockMonitor, WorkerAt
<1>2. /\ pc' = [pc EXCEPT ![w] = "complete"] /\ mutex' = [mutex EXCEPT ![m] = w]
      /\ UNCHANGED <<current, aggregated, registered, at, kind, digest, it>>
  BY DEF LockMonitor, GoTo, workerVars, digestVars
<1>3. Typed' BY <1>1, <1>2 DEF IInv, Typed, Places, Registering
<1>4. WorkerHolds' BY <1>1, <1>2 DEF IInv, Typed, WorkerHolds
<1>5. DigestHolds' BY <1>1, <1>2, MonitorsInSet DEF IInv, Typed, DigestHolds
<1>6. Bounded'
  <2> SUFFICES ASSUME NEW x \in MonitorSet
               PROVE  /\ aggregated[x]["failures"] + aggregated[x]["errors"] <= aggregated[x]["completed"]
                      /\ current[x]["failures"] + current[x]["errors"] <= current[x]["completed"]
                      /\ \A v \in Workers : mutex'[x] = v /\ pc'[v] = "count" =>
                           current[x]["failures"] + current[x]["errors"] + 1 <= current[x]["completed"]
    BY <1>2 DEF Bounded
  <2>1. ASSUME NEW v \in Workers, mutex'[x] = v, pc'[v] = "count" PROVE mutex[x] = v /\ pc[v] = "count"
    BY <1>1, <1>2, <2>1 DEF IInv, Typed
  <2> QED BY <2>1 DEF IInv, Bounded
<1>7. Conserved'
  <2> SUFFICES ASSUME NEW x \in MonitorSet
               PROVE  /\ mutex'[x] \notin Workers => Free(x)'
                      /\ \A v \in Workers : mutex'[x] = v => Held(x, v)'
    BY DEF Conserved
  <2>1. CASE x = m
    <3>1. mutex'[x] = w BY <1>1, <1>2, <2>1 DEF IInv, Typed
    <3>2. Free(x) BY <1>1, <2>1 DEF IInv, Conserved
    <3>3. Counted(w)' = Zero BY <1>2, <1>1 DEF Counted, IInv, Typed
    <3>4. Held(x, w)'
      <4>1. pc'[w] = "complete" /\ at'[w] = x BY <1>1, <1>2, <2>1 DEF IInv, Typed
      <4>2. \A c \in Counters : registered[x][c] \in Nat BY DEF IInv, Typed, Status
      <4> QED BY <1>2, <3>2, <3>3, <4>1, <4>2, ZeroValue DEF Held, Free, Registering
    <3> QED BY <3>1, <3>4
  <2>2. CASE x # m
    <3>1. mutex'[x] = mutex[x] BY <1>1, <1>2, <2>2 DEF IInv, Typed
    <3>2. mutex'[x] \notin Workers => Free(x)' BY <1>2, <3>1 DEF IInv, Conserved, Free
    <3>3. ASSUME NEW v \in Workers, mutex'[x] = v PROVE Held(x, v)'
      BY <1>2, <2>2, <3>1, <3>3, OthersHeld, "complete" \in Places DEF Places, Registering
    <3> QED BY <3>2, <3>3
  <2> QED BY <2>1, <2>2
<1> QED BY <1>3, <1>4, <1>5, <1>6, <1>7 DEF IInv

LEMMA SumMoves ==
  ASSUME NEW a \in Nat, NEW b \in Nat, NEW r \in Nat, NEW d \in Nat, a + b = r + 0
  PROVE  a + (b + d) = r + d
  OBVIOUS

LEMMA AddCompletedInvariant ==
  ASSUME IInv, NEW w \in Workers, AddCompleted(w)
  PROVE  IInv'
<1> DEFINE m == at[w]
<1> USE MonitoringAssumption DEF MonitoringAssumption
<1>1. m \in MonitorSet /\ mutex[m] = w /\ pc[w] = "complete"
  BY DEF IInv, Typed, WorkerHolds, AddCompleted, WorkerAt, Registering
<1>2. /\ pc' = [pc EXCEPT ![w] = "count"] /\ current' = [current EXCEPT ![m] = Plus(@, Completed)]
      /\ UNCHANGED <<aggregated, registered, mutex, at, kind, digest, it>>
  BY DEF AddCompleted, GoTo, workerVars, digestVars
<1>3. /\ current[m] \in Status /\ aggregated[m] \in Status /\ registered[m] \in Status
      /\ current'[m] = Plus(current[m], Completed)
      /\ \A x \in MonitorSet : x # m => current'[x] = current[x]
  BY <1>1, <1>2 DEF IInv, Typed
<1>4. /\ current'[m] \in Status
      /\ \A c \in Counters : current'[m][c] = current[m][c] + Completed[c]
  BY <1>3, PlusValue, CompletedValue
<1>5. Typed'
  <2>1. current' \in [MonitorSet -> Status] BY <1>1, <1>2, <1>3, <1>4 DEF IInv, Typed
  <2>2. pc' \in [Workers -> Places] BY <1>2 DEF IInv, Typed, Places, Registering
  <2> QED BY <1>2, <2>1, <2>2 DEF IInv, Typed
<1>6. WorkerHolds' BY <1>1, <1>2 DEF IInv, Typed, WorkerHolds
<1>7. DigestHolds' BY <1>2 DEF IInv, DigestHolds
<1>8. Bounded'
  <2> SUFFICES ASSUME NEW x \in MonitorSet
               PROVE  /\ aggregated[x]["failures"] + aggregated[x]["errors"] <= aggregated[x]["completed"]
                      /\ current'[x]["failures"] + current'[x]["errors"] <= current'[x]["completed"]
                      /\ \A v \in Workers : mutex[x] = v /\ pc'[v] = "count" =>
                           current'[x]["failures"] + current'[x]["errors"] + 1 <= current'[x]["completed"]
    BY <1>2 DEF Bounded
  <2>1. CASE x = m
    <3>1. /\ current'[m]["completed"] = current[m]["completed"] + 1
          /\ current'[m]["failures"] = current[m]["failures"] + 0
          /\ current'[m]["errors"] = current[m]["errors"] + 0
      BY <1>4, CompletedValue DEF Counters
    <3>2. /\ current[m]["completed"] \in Nat /\ current[m]["failures"] \in Nat
          /\ current[m]["errors"] \in Nat
      BY <1>3 DEF Status, Counters
    <3>3. current[m]["failures"] + current[m]["errors"] <= current[m]["completed"]
      BY <1>1 DEF IInv, Bounded
    <3>4. aggregated[m]["failures"] + aggregated[m]["errors"] <= aggregated[m]["completed"]
      BY <1>1 DEF IInv, Bounded
    <3> QED BY <2>1, <3>1, <3>2, <3>3, <3>4
  <2>2. CASE x # m
    <3>1. ASSUME NEW v \in Workers, mutex[x] = v, pc'[v] = "count" PROVE pc[v] = "count"
      <4>1. Held(x, v) BY <3>1 DEF IInv, Conserved
      <4>2. v # w BY <2>2, <4>1 DEF Held
      <4> QED BY <1>2, <3>1, <4>2 DEF IInv, Typed
    <3> QED BY <1>3, <2>2, <3>1 DEF IInv, Bounded
  <2> QED BY <2>1, <2>2
<1>9. Conserved'
  <2> SUFFICES ASSUME NEW x \in MonitorSet
               PROVE  /\ mutex[x] \notin Workers => Free(x)'
                      /\ \A v \in Workers : mutex[x] = v => Held(x, v)'
    BY <1>2 DEF Conserved
  <2>1. CASE x = m
    <3>1. Held(m, w) /\ Counted(w) = Zero BY <1>1 DEF IInv, Conserved, Counted
    <3>2. Counted(w)' = Completed /\ pc'[w] = "count" /\ at'[w] = m
      BY <1>1, <1>2 DEF Counted, IInv, Typed
    <3>3. ASSUME NEW c \in Counters
          PROVE aggregated'[m][c] + current'[m][c] = registered'[m][c] + Completed[c]
      <4>1. aggregated[m][c] + current[m][c] = registered[m][c] + 0 BY <3>1, ZeroValue DEF Held
      <4>2. current'[m][c] = current[m][c] + Completed[c] BY <1>4
      <4>3. aggregated[m][c] \in Nat /\ current[m][c] \in Nat /\ registered[m][c] \in Nat /\ Completed[c] \in Nat
        BY <1>3, CompletedValue DEF Status
      <4>4. aggregated[m][c] + (current[m][c] + Completed[c]) = registered[m][c] + Completed[c]
        BY ONLY <4>1, <4>3, SumMoves
      <4>5. aggregated'[m] = aggregated[m] /\ registered'[m] = registered[m] BY <1>2
      <4> HIDE DEF m
      <4> QED BY <4>2, <4>4, <4>5
    <3>4. Held(x, w)' BY <2>1, <3>2, <3>3 DEF Held, Registering
    <3> QED BY <1>1, <2>1, <3>4
  <2>2. CASE x # m
    <3>1. mutex[x] \notin Workers => Free(x)' BY <1>2, <1>3, <2>2 DEF IInv, Conserved, Free
    <3>2. ASSUME NEW v \in Workers, mutex[x] = v PROVE Held(x, v)'
      BY <1>2, <1>3, <2>2, <3>2, OthersHeld, "count" \in Places DEF Places, Registering
    <3> QED BY <3>1, <3>2
  <2> QED BY <2>1, <2>2
<1> QED BY <1>5, <1>6, <1>7, <1>8, <1>9 DEF IInv

LEMMA WithinOne ==
  ASSUME NEW f \in Nat, NEW e \in Nat, NEW c \in Nat, NEW df \in Nat, NEW de \in Nat,
         f + e + 1 <= c, df + de <= 1
  PROVE  (f + df) + (e + de) <= c + 0
  OBVIOUS

LEMMA AddOutcomeInvariant ==
  ASSUME IInv, NEW w \in Workers, AddOutcome(w)
  PROVE  IInv'
<1> DEFINE m == at[w]
<1> DEFINE o == Outcome[kind[w]]
<1> USE MonitoringAssumption DEF MonitoringAssumption
<1>1. m \in MonitorSet /\ mutex[m] = w /\ pc[w] = "count" /\ kind[w] \in Kinds
  BY DEF IInv, Typed, WorkerHolds, AddOutcome, WorkerAt, Registering
<1>2. /\ pc' = [pc EXCEPT ![w] = "unlock"] /\ current' = [current EXCEPT ![m] = Plus(@, o)]
      /\ UNCHANGED <<aggregated, registered, mutex, at, kind, digest, it>>
  BY DEF AddOutcome, GoTo, workerVars, digestVars
<1>3. /\ current[m] \in Status /\ aggregated[m] \in Status /\ registered[m] \in Status
      /\ current'[m] = Plus(current[m], o)
      /\ \A x \in MonitorSet : x # m => current'[x] = current[x]
  BY <1>1, <1>2 DEF IInv, Typed
<1>o. o \in Status /\ o["completed"] = 0 /\ o["failures"] + o["errors"] <= 1
  BY <1>1, OutcomeValue
<1>4. /\ current'[m] \in Status
      /\ \A c \in Counters : current'[m][c] = current[m][c] + o[c]
  BY <1>3, <1>o, PlusValue
<1>5. Typed'
  <2>1. current' \in [MonitorSet -> Status] BY <1>1, <1>2, <1>3, <1>4 DEF IInv, Typed
  <2>2. pc' \in [Workers -> Places] BY <1>2 DEF IInv, Typed, Places, Registering
  <2> QED BY <1>2, <2>1, <2>2 DEF IInv, Typed
<1>6. WorkerHolds' BY <1>1, <1>2 DEF IInv, Typed, WorkerHolds
<1>7. DigestHolds' BY <1>2 DEF IInv, DigestHolds
<1>8. Bounded'
  <2> SUFFICES ASSUME NEW x \in MonitorSet
               PROVE  /\ aggregated[x]["failures"] + aggregated[x]["errors"] <= aggregated[x]["completed"]
                      /\ current'[x]["failures"] + current'[x]["errors"] <= current'[x]["completed"]
                      /\ \A v \in Workers : mutex[x] = v /\ pc'[v] = "count" =>
                           current'[x]["failures"] + current'[x]["errors"] + 1 <= current'[x]["completed"]
    BY <1>2 DEF Bounded
  <2>1. CASE x = m
    <3>1. /\ current'[m]["completed"] = current[m]["completed"] + o["completed"]
          /\ current'[m]["failures"] = current[m]["failures"] + o["failures"]
          /\ current'[m]["errors"] = current[m]["errors"] + o["errors"]
      BY <1>4 DEF Counters
    <3>2. /\ current[m]["completed"] \in Nat /\ current[m]["failures"] \in Nat
          /\ current[m]["errors"] \in Nat /\ o["failures"] \in Nat /\ o["errors"] \in Nat
      BY <1>3, <1>o DEF Status, Counters
    <3>3. current[m]["failures"] + current[m]["errors"] + 1 <= current[m]["completed"]
      BY <1>1 DEF IInv, Bounded
    <3>4. aggregated[m]["failures"] + aggregated[m]["errors"] <= aggregated[m]["completed"]
      BY <1>1 DEF IInv, Bounded
    <3>5. current'[m]["failures"] + current'[m]["errors"] <= current'[m]["completed"]
      <4>1. (current[m]["failures"] + o["failures"]) + (current[m]["errors"] + o["errors"])
              <= current[m]["completed"] + 0
        BY <1>o, <3>2, <3>3, WithinOne
      <4> QED BY <1>o, <3>1, <4>1
    <3>6. pc'[w] = "unlock" BY <1>2 DEF IInv, Typed
    <3> QED BY <1>1, <2>1, <3>4, <3>5, <3>6
  <2>2. CASE x # m
    <3>1. ASSUME NEW v \in Workers, mutex[x] = v, pc'[v] = "count" PROVE pc[v] = "count"
      <4>1. Held(x, v) BY <3>1 DEF IInv, Conserved
      <4>2. v # w BY <2>2, <4>1 DEF Held
      <4> QED BY <1>2, <3>1, <4>2 DEF IInv, Typed
    <3> QED BY <1>3, <2>2, <3>1 DEF IInv, Bounded
  <2> QED BY <2>1, <2>2
<1>9. Conserved'
  <2> SUFFICES ASSUME NEW x \in MonitorSet
               PROVE  /\ mutex[x] \notin Workers => Free(x)'
                      /\ \A v \in Workers : mutex[x] = v => Held(x, v)'
    BY <1>2 DEF Conserved
  <2>1. CASE x = m
    <3>1. Held(m, w) /\ Counted(w) = Completed BY <1>1 DEF IInv, Conserved, Counted
    <3>2. Counted(w)' = Plus(Completed, o) /\ pc'[w] = "unlock" /\ at'[w] = m
      BY <1>1, <1>2 DEF Counted, IInv, Typed
    <3>3. ASSUME NEW c \in Counters
          PROVE aggregated'[m][c] + current'[m][c] = registered'[m][c] + Plus(Completed, o)[c]
      <4>1. aggregated[m][c] + current[m][c] = registered[m][c] + Completed[c] BY <3>1 DEF Held
      <4>2. current'[m][c] = current[m][c] + o[c] BY <1>4
      <4>3. Plus(Completed, o)[c] = Completed[c] + o[c] BY <1>o, CompletedValue, PlusValue
      <4>4. /\ aggregated[m][c] \in Nat /\ current[m][c] \in Nat /\ registered[m][c] \in Nat
            /\ Completed[c] \in Nat /\ o[c] \in Nat
        BY <1>3, <1>o, CompletedValue DEF Status
      <4>5. PICK p \in Nat, q \in Nat, r \in Nat, d \in Nat, e \in Nat :
              /\ p = aggregated[m][c] /\ q = current[m][c] /\ r = registered[m][c]
              /\ d = Completed[c] /\ e = o[c]
        BY <4>4
      <4>6. p + (q + e) = r + (d + e)
        <5>1. p + q = r + d BY <4>1, <4>5
        <5> QED BY <5>1
      <4>7. aggregated'[m][c] = p /\ registered'[m][c] = r BY <1>2, <4>5
      <4>8. current'[m][c] = q + e /\ Plus(Completed, o)[c] = d + e BY <4>2, <4>3, <4>5
      <4> QED BY <4>6, <4>7, <4>8
    <3>4. Held(x, w)' BY <2>1, <3>2, <3>3 DEF Held, Registering
    <3> QED BY <1>1, <2>1, <3>4
  <2>2. CASE x # m
    <3>1. mutex[x] \notin Workers => Free(x)' BY <1>2, <1>3, <2>2 DEF IInv, Conserved, Free
    <3>2. ASSUME NEW v \in Workers, mutex[x] = v PROVE Held(x, v)'
      BY <1>2, <1>3, <2>2, <3>2, OthersHeld, "unlock" \in Places DEF Places, Registering
    <3> QED BY <3>1, <3>2
  <2> QED BY <2>1, <2>2
<1> QED BY <1>5, <1>6, <1>7, <1>8, <1>9 DEF IInv

LEMMA AfterRegisterValue ==
  ASSUME NEW k \in Kinds PROVE AfterRegister[k] \in Places \ Registering
  BY DEF Kinds, AfterRegister, Places, Registering

LEMMA UnlockInvariant ==
  ASSUME IInv, NEW w \in Workers, UnlockMonitor(w)
  PROVE  IInv'
<1> DEFINE m == at[w]
<1> DEFINE done == Plus(Completed, Outcome[kind[w]])
<1> DEFINE place == AfterRegister[kind[w]]
<1> USE MonitoringAssumption DEF MonitoringAssumption
<1>1. m \in MonitorSet /\ mutex[m] = w /\ pc[w] = "unlock" /\ kind[w] \in Kinds
  BY DEF IInv, Typed, WorkerHolds, UnlockMonitor, WorkerAt, Registering
<1>2. /\ pc' = [pc EXCEPT ![w] = place] /\ mutex' = [mutex EXCEPT ![m] = Nobody]
      /\ registered' = [registered EXCEPT ![m] = Plus(@, done)]
      /\ kind' = [kind EXCEPT ![w] = "success"] /\ at' = [at EXCEPT ![w] = Monitors[1]]
      /\ UNCHANGED <<current, aggregated, digest, it>>
  BY DEF UnlockMonitor, GoTo, digestVars
<1>p. place \in Places /\ place \notin Registering BY <1>1, AfterRegisterValue
<1>n. Nobody \notin Workers /\ Monitors[1] \in MonitorSet BY MonitorsInSet
<1>3. /\ current[m] \in Status /\ aggregated[m] \in Status /\ registered[m] \in Status
      /\ registered'[m] = Plus(registered[m], done)
      /\ \A x \in MonitorSet : x # m => registered'[x] = registered[x]
  BY <1>1, <1>2 DEF IInv, Typed
<1>o. done \in Status BY <1>1, OutcomeValue, CompletedValue, PlusValue
<1>4. /\ registered'[m] \in Status
      /\ \A c \in Counters : registered'[m][c] = registered[m][c] + done[c]
  BY <1>3, <1>o, PlusValue
<1>5. Typed'
  <2>1. registered' \in [MonitorSet -> Status] BY <1>1, <1>2, <1>3, <1>4 DEF IInv, Typed
  <2>2. pc' \in [Workers -> Places] BY <1>2, <1>p DEF IInv, Typed
  <2>3. mutex' \in [MonitorSet -> Workers \cup {Digest, Nobody}] BY <1>2 DEF IInv, Typed
  <2>4. kind' \in [Workers -> Kinds] /\ at' \in [Workers -> MonitorSet]
    BY <1>2, <1>n DEF IInv, Typed, Kinds
  <2> QED BY <1>2, <2>1, <2>2, <2>3, <2>4 DEF IInv, Typed
<1>x. \A x \in MonitorSet : mutex'[x] = IF x = m THEN Nobody ELSE mutex[x]
  BY <1>1, <1>2 DEF IInv, Typed
<1>6. WorkerHolds'
  <2> SUFFICES ASSUME NEW v \in Workers, pc'[v] \in Registering PROVE mutex'[at'[v]] = v
    BY DEF WorkerHolds
  <2>1. v # w BY <1>2, <1>p DEF IInv, Typed
  <2>2. pc[v] = pc'[v] /\ at'[v] = at[v] /\ at[v] \in MonitorSet BY <1>2, <2>1 DEF IInv, Typed
  <2>3. mutex[at[v]] = v BY <2>2 DEF IInv, WorkerHolds
  <2> QED BY <1>1, <1>x, <2>1, <2>2, <2>3
<1>7. DigestHolds' BY <1>1, <1>2, <1>x, MonitorsInSet DEF IInv, Typed, DigestHolds
<1>8. Bounded'
  <2> SUFFICES ASSUME NEW x \in MonitorSet
               PROVE  /\ aggregated[x]["failures"] + aggregated[x]["errors"] <= aggregated[x]["completed"]
                      /\ current[x]["failures"] + current[x]["errors"] <= current[x]["completed"]
                      /\ \A v \in Workers : mutex'[x] = v /\ pc'[v] = "count" =>
                           current[x]["failures"] + current[x]["errors"] + 1 <= current[x]["completed"]
    BY <1>2 DEF Bounded
  <2>1. ASSUME NEW v \in Workers, mutex'[x] = v, pc'[v] = "count" PROVE mutex[x] = v /\ pc[v] = "count"
    BY <1>2, <1>p, <1>x, <1>n, <2>1 DEF IInv, Typed, Registering
  <2> QED BY <2>1 DEF IInv, Bounded
<1>9. Conserved'
  <2> SUFFICES ASSUME NEW x \in MonitorSet
               PROVE  /\ mutex'[x] \notin Workers => Free(x)'
                      /\ \A v \in Workers : mutex'[x] = v => Held(x, v)'
    BY DEF Conserved
  <2>1. CASE x = m
    <3>1. Held(m, w) /\ Counted(w) = done BY <1>1 DEF IInv, Conserved, Counted
    <3>2. ASSUME NEW c \in Counters
          PROVE aggregated'[x][c] + current'[x][c] = registered'[x][c]
      BY <1>2, <1>4, <2>1, <3>1 DEF Held
    <3> QED BY <1>n, <1>x, <2>1, <3>2 DEF Free
  <2>2. CASE x # m
    <3>1. mutex'[x] \notin Workers => Free(x)' BY <1>2, <1>3, <1>x, <2>2 DEF IInv, Conserved, Free
    <3>2. ASSUME NEW v \in Workers, mutex'[x] = v PROVE Held(x, v)'
      <4>1. mutex[x] = v BY <1>x, <2>2, <3>2
      <4>2. (at'[v] = at[v] \/ v = w) /\ (kind'[v] = kind[v] \/ v = w) BY <1>2 DEF IInv, Typed
      <4> QED BY <1>2, <1>3, <1>p, <2>2, <4>1, <4>2, OthersHeld
    <3> QED BY <3>1, <3>2
  <2> QED BY <2>1, <2>2
<1> QED BY <1>5, <1>6, <1>7, <1>8, <1>9 DEF IInv

-------------------------------------------------------------------------------
(* The steps of the digest thread on a monitor.                            *)

LEMMA VisitedInSet ==
  ASSUME IInv, it <= Len(Monitors)
  PROVE  Visited \in MonitorSet
<1>1. it \in 1 .. Len(Monitors) BY MonitoringAssumption DEF IInv, Typed, MonitoringAssumption
<1> QED BY <1>1, MonitorsInSet DEF Visited

LEMMA SumsOrdered ==
  ASSUME NEW f \in Nat, NEW e \in Nat, NEW c \in Nat, NEW df \in Nat, NEW de \in Nat, NEW dc \in Nat,
         f + e <= c, df + de <= dc
  PROVE  (f + df) + (e + de) <= c + dc
  OBVIOUS

LEMMA DigestRoundInvariant ==
  ASSUME IInv, digestRound
  PROVE  IInv'
<1> DEFINE m == Visited
<1> USE MonitoringAssumption DEF MonitoringAssumption
<1>1. m \in MonitorSet /\ mutex[m] = Nobody /\ digest = "endRound" /\ it \in Nat
  BY VisitedInSet DEF IInv, Typed, digestRound, More, DigestAt
<1>2. /\ aggregated' = [aggregated EXCEPT ![m] = Plus(@, current[m])]
      /\ current' = [current EXCEPT ![m] = Zero] /\ it' = it + 1
      /\ UNCHANGED <<registered, mutex, pc, at, kind, digest>>
  BY DEF digestRound, workerVars
<1>3. current[m] \in Status /\ aggregated[m] \in Status /\ registered[m] \in Status
  BY <1>1 DEF IInv, Typed
<1>4. /\ aggregated'[m] = Plus(aggregated[m], current[m]) /\ current'[m] = Zero
      /\ \A x \in MonitorSet : x # m => aggregated'[x] = aggregated[x] /\ current'[x] = current[x]
  BY <1>1, <1>2 DEF IInv, Typed
<1>5. /\ aggregated'[m] \in Status
      /\ \A c \in Counters : aggregated'[m][c] = aggregated[m][c] + current[m][c]
  BY <1>3, <1>4, PlusValue
<1>6. Typed'
  <2>1. aggregated' \in [MonitorSet -> Status] BY <1>1, <1>2, <1>4, <1>5 DEF IInv, Typed
  <2>2. current' \in [MonitorSet -> Status] BY <1>1, <1>2, ZeroValue DEF IInv, Typed
  <2> QED BY <1>1, <1>2, <2>1, <2>2 DEF IInv, Typed
<1>7. WorkerHolds' BY <1>2 DEF IInv, WorkerHolds
<1>8. DigestHolds' BY <1>1, <1>2 DEF DigestHolds, Deviating
<1>n. Nobody \notin Workers OBVIOUS
<1>9. Bounded'
  <2> SUFFICES ASSUME NEW x \in MonitorSet
               PROVE  /\ aggregated'[x]["failures"] + aggregated'[x]["errors"] <= aggregated'[x]["completed"]
                      /\ current'[x]["failures"] + current'[x]["errors"] <= current'[x]["completed"]
                      /\ \A v \in Workers : mutex[x] = v /\ pc[v] = "count" =>
                           current'[x]["failures"] + current'[x]["errors"] + 1 <= current'[x]["completed"]
    BY <1>2 DEF Bounded
  <2>1. CASE x = m
    <3>1. /\ aggregated'[x]["failures"] = aggregated[x]["failures"] + current[x]["failures"]
          /\ aggregated'[x]["errors"] = aggregated[x]["errors"] + current[x]["errors"]
          /\ aggregated'[x]["completed"] = aggregated[x]["completed"] + current[x]["completed"]
      BY <1>5, <2>1 DEF Counters
    <3>2. /\ current'[x]["failures"] = 0 /\ current'[x]["errors"] = 0 /\ current'[x]["completed"] = 0
      BY <1>4, <2>1, ZeroValue DEF Counters
    <3>3. \A c \in {"failures", "errors", "completed"} : aggregated[x][c] \in Nat /\ current[x][c] \in Nat
      BY <1>3, <2>1 DEF Status, Counters
    <3>4. /\ aggregated[x]["failures"] + aggregated[x]["errors"] <= aggregated[x]["completed"]
          /\ current[x]["failures"] + current[x]["errors"] <= current[x]["completed"]
      BY DEF IInv, Bounded
    <3>5. mutex[x] \notin Workers BY <1>1, <1>n, <2>1
    <3>6. (aggregated[x]["failures"] + current[x]["failures"])
            + (aggregated[x]["errors"] + current[x]["errors"])
            <= aggregated[x]["completed"] + current[x]["completed"]
      BY <3>3, <3>4, SumsOrdered
    <3>7. aggregated'[x]["failures"] + aggregated'[x]["errors"] <= aggregated'[x]["completed"]
      BY <3>1, <3>6
    <3>8. current'[x]["failures"] + current'[x]["errors"] <= current'[x]["completed"] BY <3>2
    <3> QED BY <3>5, <3>7, <3>8
  <2>2. CASE x # m BY <1>4, <2>2 DEF IInv, Bounded
  <2> QED BY <2>1, <2>2
<1>10. Conserved'
  <2> SUFFICES ASSUME NEW x \in MonitorSet
               PROVE  /\ mutex[x] \notin Workers => Free(x)'
                      /\ \A v \in Workers : mutex[x] = v => Held(x, v)'
    BY <1>2 DEF Conserved
  <2>1. CASE x = m
    <3>1. mutex[x] \notin Workers BY <1>1, <1>n, <2>1
    <3>2. ASSUME NEW c \in Counters
          PROVE  aggregated'[x][c] + current'[x][c] = registered'[x][c]
      <4>1. aggregated'[x][c] = aggregated[x][c] + current[x][c] BY <1>5, <2>1
      <4>2. current'[x][c] = 0 BY <1>4, <2>1, ZeroValue
      <4>3. aggregated[x][c] + current[x][c] = registered[x][c] BY <3>1 DEF IInv, Conserved, Free
      <4>4. registered[x][c] \in Nat BY <1>3, <2>1 DEF Status
      <4> QED BY <1>2, <4>1, <4>2, <4>3, <4>4
    <3> QED BY <3>1, <3>2 DEF Free
  <2>2. CASE x # m
    <3>1. mutex[x] \notin Workers => Free(x)' BY <1>2, <1>4, <2>2 DEF IInv, Conserved, Free
    <3>2. ASSUME NEW v \in Workers, mutex[x] = v PROVE Held(x, v)'
      <4>1. Held(x, v) BY <3>2 DEF IInv, Conserved
      <4>2. Counted(v)' = Counted(v) BY <1>2 DEF Counted
      <4> QED BY <1>2, <1>4, <2>2, <4>1, <4>2 DEF Held
    <3> QED BY <3>1, <3>2
  <2> QED BY <2>1, <2>2
<1> QED BY <1>6, <1>7, <1>8, <1>9, <1>10 DEF IInv

(* the mutex of a monitor changes hands between nobody and the digest      *)
LEMMA DigestMutex ==
  ASSUME IInv, NEW m \in MonitorSet, mutex[m] \notin Workers, NEW h \in {Digest, Nobody},
         mutex' = [mutex EXCEPT ![m] = h], it' \in Nat \ {0}, DigestHolds',
         UNCHANGED <<current, aggregated, registered, pc, at, kind>>
  PROVE  IInv'
<1> USE MonitoringAssumption DEF MonitoringAssumption
<1>1. h \notin Workers OBVIOUS
<1>2. \A x \in MonitorSet : mutex'[x] = IF x = m THEN h ELSE mutex[x] BY DEF IInv, Typed
<1>3. Typed' BY DEF IInv, Typed
<1>4. WorkerHolds' BY <1>2 DEF IInv, Typed, WorkerHolds
<1>5. Bounded' BY <1>1, <1>2 DEF IInv, Bounded
<1>6. Conserved'
  <2> SUFFICES ASSUME NEW x \in MonitorSet
               PROVE  /\ mutex'[x] \notin Workers => Free(x)'
                      /\ \A v \in Workers : mutex'[x] = v => Held(x, v)'
    BY DEF Conserved
  <2>1. mutex'[x] \notin Workers => Free(x)'
    BY <1>1, <1>2 DEF IInv, Conserved, Free
  <2>2. ASSUME NEW v \in Workers, mutex'[x] = v PROVE Held(x, v)'
    <3>1. Held(x, v) BY <1>1, <1>2, <2>2 DEF IInv, Conserved
    <3>2. Counted(v)' = Counted(v) BY DEF Counted
    <3> QED BY <3>1, <3>2 DEF Held
  <2> QED BY <2>1, <2>2
<1> QED BY <1>3, <1>4, <1>5, <1>6 DEF IInv

LEMMA DeviationInvariant ==
  ASSUME IInv, NEW d \in Details, computeStandardDeviation(d)
  PROVE  IInv'
<1> USE MonitoringAssumption DEF MonitoringAssumption
<1>1. /\ Visited \in MonitorSet /\ mutex[Visited] = Nobody /\ it <= Len(Monitors)
      /\ Visited = Monitors[it]
  BY VisitedInSet DEF computeStandardDeviation, More, Visited
<1>2. /\ mutex' = [mutex EXCEPT ![Visited] = Digest]
      /\ UNCHANGED <<current, aggregated, registered, pc, at, kind, it>>
  BY DEF computeStandardDeviation, workerVars
<1>3. DigestHolds' BY <1>1, <1>2 DEF IInv, Typed, DigestHolds
<1>4. it' \in Nat \ {0} BY <1>2 DEF IInv, Typed
<1> QED BY <1>1, <1>2, <1>3, <1>4, DigestMutex

LEMMA PrintInvariant ==
  ASSUME IInv, NEW d \in Details, PrintItem(d)
  PROVE  IInv'
<1> USE MonitoringAssumption DEF MonitoringAssumption
<1>1. digest \in Deviating /\ digest' \notin Deviating
  BY DEF PrintItem, DigestAt, Details, Deviations, Items, Deviating
<1>2. Visited \in MonitorSet /\ mutex[Visited] = Digest
  BY <1>1, VisitedInSet DEF IInv, DigestHolds, Visited
<1>3. /\ mutex' = [mutex EXCEPT ![Visited] = Nobody] /\ it' = it + 1
      /\ UNCHANGED <<current, aggregated, registered, pc, at, kind>>
  BY DEF PrintItem, workerVars
<1>4. DigestHolds' BY <1>1 DEF DigestHolds
<1>5. it' \in Nat \ {0} BY <1>3 DEF IInv, Typed
<1> QED BY <1>2, <1>3, <1>4, <1>5, DigestMutex

-------------------------------------------------------------------------------

LEMMA WorkerInvariant ==
  ASSUME IInv, NEW w \in Workers, Worker(w)
  PROVE  IInv'
<1> DEFINE Elsewhere(place) ==
      /\ place \in Places \ Registering /\ pc[w] \notin Registering
      /\ pc' = [pc EXCEPT ![w] = place]
      /\ UNCHANGED <<statusVars, digest, it, at, kind>>
<1>1. at[w] \in MonitorSet /\ kind[w] \in Kinds /\ at = [at EXCEPT ![w] = at[w]]
      /\ kind = [kind EXCEPT ![w] = kind[w]]
  BY DEF IInv, Typed
<1>2. ASSUME NEW place, Elsewhere(place) PROVE IInv'
  BY <1>1, <1>2, WorkerElsewhere
<1>3. CASE LogError(w)
  <2>1. Elsewhere("response")
    BY <1>3 DEF LogError, WorkerAt, GoTo, Places, Registering, digestVars
  <2> QED BY <1>2, <2>1
<1>4. CASE LogResponse(w)
  <2>1. AfterResponse[kind[w]] \in Places \ Registering
    BY <1>1 DEF AfterResponse, Kinds, Places, Registering
  <2>2. Elsewhere(AfterResponse[kind[w]])
    BY <1>4, <2>1 DEF LogResponse, WorkerAt, GoTo, Registering, digestVars
  <2> QED BY <1>2, <2>2
<1>5. CASE getMonitor(w)
  <2>1. Elsewhere("lock") BY <1>5 DEF getMonitor, WorkerAt, GoTo, Places, Registering, digestVars
  <2> QED BY <1>2, <2>1
<1>6. CASE LockMonitor(w) BY <1>6, LockInvariant
<1>7. CASE AddCompleted(w) BY <1>7, AddCompletedInvariant
<1>8. CASE AddOutcome(w) BY <1>8, AddOutcomeInvariant
<1>9. CASE UnlockMonitor(w) BY <1>9, UnlockInvariant
<1> QED BY <1>3, <1>4, <1>5, <1>6, <1>7, <1>8, <1>9 DEF Worker

LEMMA RequestInvariant ==
  ASSUME IInv, NEW w \in Workers, NEW m \in MonitorSet, NEW k \in Kinds, LogRequest(w, m, k)
  PROVE  IInv'
<1>1. AfterRequest[k] \in Places \ Registering BY DEF AfterRequest, Kinds, Places, Registering
<1>2. pc[w] \notin Registering BY DEF LogRequest, WorkerAt, Registering
<1>3. /\ pc' = [pc EXCEPT ![w] = AfterRequest[k]] /\ at' = [at EXCEPT ![w] = m]
      /\ kind' = [kind EXCEPT ![w] = k] /\ UNCHANGED <<statusVars, digest, it>>
  BY DEF LogRequest, GoTo, digestVars
<1> QED BY <1>1, <1>2, <1>3, WorkerElsewhere

LEMMA DigestInvariant ==
  ASSUME IInv, DigestStep
  PROVE  IInv'
<1> DEFINE Elsewhere == /\ UNCHANGED <<statusVars, pc, at, kind>>
                        /\ digest' \notin Deviating /\ it' \in Nat \ {0}
<1>0. it \in Nat \ {0} /\ it + 1 \in Nat \ {0} BY DEF IInv, Typed
<1> USE <1>0 DEF workerVars, DigestAt, Deviating
<1>e. ASSUME Elsewhere PROVE IInv' BY <1>e, DigestElsewhere
<1>1. CASE newRound
  <2>1. Elsewhere BY <1>1 DEF newRound
  <2> QED BY <1>e, <2>1
<1>2. CASE DigestEnds
  <2>1. Elsewhere BY <1>2 DEF DigestEnds
  <2> QED BY <1>e, <2>1
<1>3. CASE Wake
  <2>1. Elsewhere BY <1>3 DEF Wake
  <2> QED BY <1>e, <2>1
<1>4. CASE DigestInterrupted
  <2>1. Elsewhere BY <1>4 DEF DigestInterrupted
  <2> QED BY <1>e, <2>1
<1>5. CASE LockSummary
  <2>1. Elsewhere BY <1>5 DEF LockSummary
  <2> QED BY <1>e, <2>1
<1>6. CASE ReadCompleted
  <2>1. Elsewhere BY <1>6 DEF ReadCompleted
  <2> QED BY <1>e, <2>1
<1>7. CASE ReadFailures
  <2>1. Elsewhere BY <1>7 DEF ReadFailures
  <2> QED BY <1>e, <2>1
<1>8. CASE ReadErrors
  <2>1. Elsewhere BY <1>8 DEF ReadErrors
  <2> QED BY <1>e, <2>1
<1>9. CASE RoundRead
  <2>1. Elsewhere BY <1>9 DEF RoundRead
  <2> QED BY <1>e, <2>1
<1>10. CASE digestRound BY <1>10, DigestRoundInvariant
<1>11. CASE SkipMonitor
  <2>1. Elsewhere BY <1>11 DEF SkipMonitor
  <2> QED BY <1>e, <2>1
<1>12. CASE AuditSummary
  <2>1. Elsewhere BY <1>12 DEF AuditSummary
  <2> QED BY <1>e, <2>1
<1>13. CASE EndSummary
  <2>1. Elsewhere BY <1>13 DEF EndSummary
  <2> QED BY <1>e, <2>1
<1>14. ASSUME NEW d \in Details,
              EnterDetails(d) \/ SkipItem(d) \/ computeStandardDeviation(d) \/ PrintItem(d) \/ LeaveDetails(d)
       PROVE  IInv'
  <2>1. CASE EnterDetails(d)
    <3>1. Elsewhere BY <2>1 DEF EnterDetails, Details, Items
    <3> QED BY <1>e, <3>1
  <2>2. CASE SkipItem(d)
    <3>1. Elsewhere BY <2>2 DEF SkipItem, Details, Items
    <3> QED BY <1>e, <3>1
  <2>3. CASE computeStandardDeviation(d) BY <2>3, DeviationInvariant
  <2>4. CASE PrintItem(d) BY <2>4, PrintInvariant
  <2>5. CASE LeaveDetails(d)
    <3>1. Elsewhere BY <2>5 DEF LeaveDetails, Details, Leaves
    <3> QED BY <1>e, <3>1
  <2> QED BY <1>14, <2>1, <2>2, <2>3, <2>4, <2>5
<1> QED BY <1>1, <1>2, <1>3, <1>4, <1>5, <1>6, <1>7, <1>8, <1>9, <1>10, <1>11, <1>12, <1>13, <1>14
        DEF DigestStep

LEMMA StepInvariant ==
  ASSUME IInv, [MonitoringNext]_vars
  PROVE  IInv'
<1> DEFINE Same == UNCHANGED <<statusVars, pc, at, kind, digest, it>>
<1>u. ASSUME Same PROVE IInv' BY <1>u, Unmoved
<1>1. ASSUME NEW w \in Workers, Worker(w) PROVE IInv' BY <1>1, WorkerInvariant
<1>2. ASSUME NEW w \in Workers, NEW m \in MonitorSet, NEW k \in Kinds, LogRequest(w, m, k)
      PROVE  IInv'
  BY <1>2, RequestInvariant
<1>3. CASE DigestStep BY <1>3, DigestInvariant
<1>4. CASE MainStep
  <2>1. Same BY <1>4 DEF MainStep, RunEnds, StopRunning, DeleteMonitors, JoinDigest, DeletePool,
                         workerVars, digestVars
  <2> QED BY <1>u, <2>1
<1>5. CASE LogAccept
  <2>1. Same BY <1>5 DEF LogAccept, digestVars
  <2> QED BY <1>u, <2>1
<1>6. CASE UseAfterDelete
  <2>1. Same BY <1>6 DEF UseAfterDelete, workerVars, digestVars
  <2> QED BY <1>u, <2>1
<1>7. ASSUME NEW t \in Threads, Thread(t) \/ Interrupted(t) PROVE IInv'
  <2>1. Same BY <1>7 DEF Thread, Interrupted, workerVars, digestVars
  <2> QED BY <1>u, <2>1
<1>8. CASE UNCHANGED vars
  <2>1. Same BY <1>8 DEF vars, workerVars, digestVars
  <2> QED BY <1>u, <2>1
<1>9. CASE MonitoringNext
  BY <1>9, <1>1, <1>2, <1>3, <1>4, <1>5, <1>6, <1>7 DEF MonitoringNext
<1> QED BY <1>8, <1>9

(* No operation is lost or counted twice, in every reachable state: what   *)
(* the statuses of a monitor hold is what was registered with it, however  *)
(* registrations, summaries, digests and the shutdown interleave.          *)
THEOREM OperationsConserved == MonitoringSpec => []NoOperationLost
<1>1. Init => IInv BY InitInvariant
<1>2. IInv /\ [MonitoringNext]_vars => IInv' BY StepInvariant
<1>3. IInv => NoOperationLost BY InvariantImplies
<1> QED BY <1>1, <1>2, <1>3, PTL DEF MonitoringSpec
-------------------------------------------------------------------------------
(* The line of a summary.                                                  *)

Reading == {"completed", "failures", "errors"}

(* what of monitor j the summary under way has still to add, if it is told *)
(* of all that is counted now, and what it will know of it at least        *)
Left(j, c) == IF digest \in Reading \/ it <= j THEN current[Monitors[j]][c] ELSE 0
Known(j, c) == aggregated[Monitors[j]][c] + Left(j, c)

(* the round has nothing of this counter of monitor j yet                  *)
Unread(j, c) ==
  /\ digest \in Reading
  /\ \/ it < j
     \/ it = j /\ (c = "completed" => digest = "completed")
               /\ (c = "failures" => digest # "errors")

(* What was registered and aggregated when the summary began, and what the *)
(* round has read since, is the sum of numbers that the summary will know  *)
(* of, monitor by monitor.                                                 *)
Summing(c) ==
  \E r \in [1 .. Len(Monitors) -> Nat], a \in [1 .. Len(Monitors) -> Nat],
     rd \in [1 .. Len(Monitors) -> Nat] :
    /\ Totals(r, earlier.registered[c]) /\ Totals(a, earlier.aggregated[c]) /\ Totals(rd, round[c])
    /\ \A j \in 1 .. Len(Monitors) :
         /\ r[j] <= Known(j, c) /\ a[j] <= aggregated[Monitors[j]][c]
         /\ a[j] + rd[j] <= Known(j, c)
         /\ Unread(j, c) => rd[j] = 0

SumInv ==
  /\ round \in [Counters -> Nat]
  /\ digest \in {"failures", "errors"} => it <= Len(Monitors)
  /\ digest \in Reading \cup {"endRound"} => \A c \in Counters : Summing(c)
  /\ SummaryCoversRound

LEMMA Added ==
  ASSUME NEW x \in Nat, NEW y \in Nat, NEW v \in Nat, NEW w \in Nat, x <= v, y <= w
  PROVE  x + y \in Nat /\ v + w \in Nat /\ x + y <= v + w
  OBVIOUS

LEMMA KnownNat ==
  ASSUME IInv, NEW j \in 1 .. Len(Monitors), NEW c \in Counters
  PROVE  /\ aggregated[Monitors[j]][c] \in Nat /\ current[Monitors[j]][c] \in Nat
         /\ registered[Monitors[j]][c] \in Nat /\ Left(j, c) \in Nat /\ Known(j, c) \in Nat
<1>1. Monitors[j] \in MonitorSet BY MonitorsInSet
<1>2. /\ aggregated[Monitors[j]] \in Status /\ current[Monitors[j]] \in Status
      /\ registered[Monitors[j]] \in Status
  BY <1>1 DEF IInv, Typed
<1>3. /\ aggregated[Monitors[j]][c] \in Nat /\ current[Monitors[j]][c] \in Nat
      /\ registered[Monitors[j]][c] \in Nat
  BY <1>2 DEF Status
<1>4. Left(j, c) \in Nat BY <1>3 DEF Left
<1>5. Known(j, c) \in Nat BY ONLY <1>3, <1>4, Added DEF Known
<1> QED BY <1>3, <1>4, <1>5

(* a step that reads nothing of the counter, and after which no less of it *)
(* is known                                                                *)
LEMMA SummingKept ==
  ASSUME NEW c \in Counters, Summing(c), UNCHANGED earlier, round'[c] = round[c],
         \A j \in 1 .. Len(Monitors) :
           /\ aggregated[Monitors[j]][c] \in Nat /\ Known(j, c) \in Nat
           /\ aggregated'[Monitors[j]][c] \in Nat /\ Known(j, c)' \in Nat
           /\ aggregated[Monitors[j]][c] <= aggregated'[Monitors[j]][c]
           /\ Known(j, c) <= Known(j, c)'
           /\ Unread(j, c)' => Unread(j, c)
  PROVE  Summing(c)'
<1>1. PICK r \in [1 .. Len(Monitors) -> Nat], a \in [1 .. Len(Monitors) -> Nat],
           rd \in [1 .. Len(Monitors) -> Nat] :
        /\ Totals(r, earlier.registered[c]) /\ Totals(a, earlier.aggregated[c]) /\ Totals(rd, round[c])
        /\ \A j \in 1 .. Len(Monitors) :
             /\ r[j] <= Known(j, c) /\ a[j] <= aggregated[Monitors[j]][c]
             /\ a[j] + rd[j] <= Known(j, c)
             /\ Unread(j, c) => rd[j] = 0
  BY DEF Summing
<1>2. /\ Totals(r, earlier'.registered[c]) /\ Totals(a, earlier'.aggregated[c])
      /\ Totals(rd, round'[c])
  BY <1>1
<1>3. ASSUME NEW j \in 1 .. Len(Monitors)
      PROVE  /\ r[j] <= Known(j, c)' /\ a[j] <= aggregated'[Monitors[j]][c]
             /\ a[j] + rd[j] <= Known(j, c)'
             /\ Unread(j, c)' => rd[j] = 0
  <2>1. /\ r[j] <= Known(j, c) /\ a[j] <= aggregated[Monitors[j]][c]
        /\ a[j] + rd[j] <= Known(j, c) /\ (Unread(j, c)' => rd[j] = 0)
    BY <1>1
  <2>2. /\ aggregated[Monitors[j]][c] \in Nat /\ Known(j, c) \in Nat
        /\ aggregated'[Monitors[j]][c] \in Nat /\ Known(j, c)' \in Nat
        /\ aggregated[Monitors[j]][c] <= aggregated'[Monitors[j]][c]
        /\ Known(j, c) <= Known(j, c)'
    OBVIOUS
  <2>3. PICK k \in Nat, kk \in Nat, g \in Nat, gg \in Nat :
          /\ k = Known(j, c) /\ kk = Known(j, c)' /\ g = aggregated[Monitors[j]][c]
          /\ gg = aggregated'[Monitors[j]][c]
    BY <2>2
  <2>4. PICK x \in Nat, y \in Nat, z \in Nat : x = r[j] /\ y = a[j] /\ z = rd[j] OBVIOUS
  <2>5. x <= k /\ y <= g /\ y + z <= k /\ g <= gg /\ k <= kk BY <2>1, <2>2, <2>3, <2>4
  <2>6. x <= kk /\ y <= gg /\ y + z <= kk BY ONLY <2>5, x \in Nat, y \in Nat, z \in Nat,
    k \in Nat, kk \in Nat, g \in Nat, gg \in Nat
  <2> QED BY <2>1, <2>3, <2>4, <2>6
<1>4. /\ r \in [1 .. Len(Monitors) -> Nat] /\ a \in [1 .. Len(Monitors) -> Nat]
      /\ rd \in [1 .. Len(Monitors) -> Nat]
  OBVIOUS
<1> QED BY ONLY <1>2, <1>3, <1>4 DEF Summing

(* the usual one: of the monitors' statuses only the current ones change,  *)
(* and grow                                                                *)
LEMMA SummingOn ==
  ASSUME IInv, IInv', NEW c \in Counters, Summing(c), UNCHANGED <<earlier, round, aggregated, digest, it>>,
         \A m \in MonitorSet : current[m][c] <= current'[m][c]
  PROVE  Summing(c)'
<1>1. ASSUME NEW j \in 1 .. Len(Monitors)
      PROVE  /\ aggregated[Monitors[j]][c] \in Nat /\ Known(j, c) \in Nat
             /\ aggregated'[Monitors[j]][c] \in Nat /\ Known(j, c)' \in Nat
             /\ aggregated[Monitors[j]][c] <= aggregated'[Monitors[j]][c]
             /\ Known(j, c) <= Known(j, c)'
             /\ Unread(j, c)' => Unread(j, c)
  <2>1. aggregated[Monitors[j]][c] \in Nat /\ Known(j, c) \in Nat /\ current[Monitors[j]][c] \in Nat
    BY KnownNat
  <2>2. Monitors[j] \in MonitorSet BY MonitorsInSet
  <2>3. current'[Monitors[j]][c] \in Nat
    <3>1. current'[Monitors[j]] \in Status BY <2>2 DEF IInv, Typed
    <3> QED BY <3>1 DEF Status
  <2>4. current[Monitors[j]][c] <= current'[Monitors[j]][c] BY <2>2
  <2>5. Known(j, c)' \in Nat /\ Known(j, c) <= Known(j, c)'
    <3>1. Left(j, c) \in Nat /\ Left(j, c)' \in Nat /\ Left(j, c) <= Left(j, c)'
      BY <2>1, <2>3, <2>4, 0 <= 0 DEF Left
    <3>2. /\ Known(j, c) = aggregated[Monitors[j]][c] + Left(j, c)
          /\ Known(j, c)' = aggregated[Monitors[j]][c] + Left(j, c)'
      BY DEF Known
    <3>3. aggregated[Monitors[j]][c] <= aggregated[Monitors[j]][c] BY <2>1
    <3> QED BY ONLY <2>1, <3>1, <3>2, <3>3, Added
  <2>6. Unread(j, c)' => Unread(j, c) BY DEF Unread
  <2> QED BY <2>1, <2>5, <2>6
<1> QED BY <1>1, SummingKept

LEMMA CountedNat ==
  ASSUME NEW w, pc[w] \in Registering, kind[w] \in Kinds, NEW c \in Counters
  PROVE  Counted(w)[c] \in Nat
<1>1. Plus(Completed, Outcome[kind[w]]) \in Status BY CompletedValue, OutcomeValue, PlusValue
<1>2. Counted(w) \in Status
  BY <1>1, ZeroValue, CompletedValue DEF Counted, Registering
<1> QED BY <1>2 DEF Status

LEMMA SummingBegins ==
  ASSUME IInv, LockSummary, NEW c \in Counters
  PROVE  Summing(c)'
<1> DEFINE r == [j \in 1 .. Len(Monitors) |-> registered[Monitors[j]][c]]
           a == [j \in 1 .. Len(Monitors) |-> aggregated[Monitors[j]][c]]
           rd == [j \in 1 .. Len(Monitors) |-> 0]
<1>1. /\ digest' = "completed" /\ it' = 1 /\ round' = Zero
      /\ earlier' = [registered |-> Sum(registered), aggregated |-> Sum(aggregated)]
      /\ UNCHANGED <<current, aggregated>>
  BY DEF LockSummary, statusVars
<1>2. /\ r \in [1 .. Len(Monitors) -> Nat] /\ a \in [1 .. Len(Monitors) -> Nat]
      /\ rd \in [1 .. Len(Monitors) -> Nat]
  BY KnownNat
<1>3. registered \in [MonitorSet -> Status] /\ aggregated \in [MonitorSet -> Status] BY DEF IInv, Typed
<1>4. Totals(r, earlier'.registered[c]) /\ Totals(a, earlier'.aggregated[c])
  BY <1>1, <1>3, SumIsTotal
<1>5. Totals(rd, round'[c]) BY <1>1, TotalsZero, ZeroValue
<1>6. ASSUME NEW j \in 1 .. Len(Monitors)
      PROVE  /\ r[j] <= Known(j, c)' /\ a[j] <= aggregated'[Monitors[j]][c]
             /\ a[j] + rd[j] <= Known(j, c)'
             /\ Unread(j, c)' => rd[j] = 0
  <2> DEFINE m == Monitors[j]
  <2>1. m \in MonitorSet BY MonitorsInSet
  <2>2. registered[m][c] <= aggregated[m][c] + current[m][c]
    <3>1. CASE mutex[m] \notin Workers
      <4>1. aggregated[m][c] + current[m][c] = registered[m][c] BY <2>1, <3>1 DEF IInv, Conserved, Free
      <4>2. registered[m][c] \in Nat BY KnownNat
      <4> HIDE DEF m
      <4> QED BY <4>1, <4>2
    <3>2. CASE mutex[m] \in Workers
      <4>1. Held(m, mutex[m]) BY <2>1, <3>2 DEF IInv, Conserved
      <4>2. Counted(mutex[m])[c] \in Nat BY <3>2, <4>1, CountedNat DEF Held, IInv, Typed
      <4>3. aggregated[m][c] + current[m][c] = registered[m][c] + Counted(mutex[m])[c]
        BY <4>1 DEF Held
      <4>4. registered[m][c] \in Nat BY KnownNat
      <4> HIDE DEF m
      <4> QED BY <4>2, <4>3, <4>4
    <3> QED BY <3>1, <3>2
  <2>3. Known(j, c)' = aggregated[m][c] + current[m][c] BY <1>1 DEF Known, Left, Reading
  <2>4. aggregated[m][c] \in Nat /\ current[m][c] \in Nat /\ registered[m][c] \in Nat
    BY KnownNat
  <2>5. aggregated'[m][c] = aggregated[m][c] BY <1>1
  <2>6. r[j] = registered[m][c] /\ a[j] = aggregated[m][c] /\ rd[j] = 0 OBVIOUS
  <2>7. PICK p \in Nat, q \in Nat, x \in Nat :
          p = aggregated[m][c] /\ q = current[m][c] /\ x = registered[m][c]
    BY <2>4
  <2>8. x <= p + q /\ p <= p /\ p + 0 <= p + q BY <2>2, <2>7
  <2> HIDE DEF r, a, rd, m
  <2> QED BY <2>3, <2>5, <2>6, <2>7, <2>8 DEF m
<1> HIDE DEF r, a, rd
<1> QED BY <1>2, <1>4, <1>5, <1>6 DEF Summing

(* a counter of the monitor visited is read                                *)
LEMMA SummingReads ==
  ASSUME IInv, NEW c \in Counters, Summing(c), round \in [Counters -> Nat], it <= Len(Monitors),
         digest \in Reading, digest' \in Reading, Unread(it, c),
         round'[c] = round[c] + current[Visited][c],
         UNCHANGED <<current, aggregated, earlier>>,
         \A j \in 1 .. Len(Monitors) : Unread(j, c)' => j # it /\ Unread(j, c)
  PROVE  Summing(c)'
<1>1. PICK r \in [1 .. Len(Monitors) -> Nat], a \in [1 .. Len(Monitors) -> Nat],
           rd \in [1 .. Len(Monitors) -> Nat] :
        /\ Totals(r, earlier.registered[c]) /\ Totals(a, earlier.aggregated[c]) /\ Totals(rd, round[c])
        /\ \A j \in 1 .. Len(Monitors) :
             /\ r[j] <= Known(j, c) /\ a[j] <= aggregated[Monitors[j]][c]
             /\ a[j] + rd[j] <= Known(j, c)
             /\ Unread(j, c) => rd[j] = 0
  BY DEF Summing
<1>2. it \in 1 .. Len(Monitors) BY LenNat DEF IInv, Typed
<1>3. current[Visited][c] \in Nat BY <1>2, KnownNat DEF Visited
<1> DEFINE v == current[Visited][c]
           rr == [rd EXCEPT ![it] = @ + v]
<1>4. rr \in [1 .. Len(Monitors) -> Nat] BY <1>2, <1>3
<1>5. Totals(rr, round'[c]) BY <1>1, <1>2, <1>3, TotalsGrow
<1>6. Totals(r, earlier'.registered[c]) /\ Totals(a, earlier'.aggregated[c]) BY <1>1
<1>7. ASSUME NEW j \in 1 .. Len(Monitors)
      PROVE  /\ r[j] <= Known(j, c)' /\ a[j] <= aggregated'[Monitors[j]][c]
             /\ a[j] + rr[j] <= Known(j, c)'
             /\ Unread(j, c)' => rr[j] = 0
  <2>1. Known(j, c)' = Known(j, c) BY DEF Known, Left
  <2>2. /\ r[j] <= Known(j, c) /\ a[j] <= aggregated[Monitors[j]][c]
        /\ a[j] + rd[j] <= Known(j, c) /\ (Unread(j, c) => rd[j] = 0)
    BY <1>1
  <2>3. CASE j = it
    <3>1. rd[j] = 0 BY <2>2, <2>3
    <3>2. rr[j] = v BY <1>2, <1>3, <2>3, <3>1
    <3>3. Known(j, c) = aggregated[Monitors[j]][c] + v BY <2>3 DEF Known, Left, Visited
    <3>4. a[j] \in Nat /\ aggregated[Monitors[j]][c] \in Nat /\ v \in Nat BY <1>3, KnownNat
    <3>5. v <= v BY <3>4
    <3> HIDE DEF v, rr
    <3>6. a[j] + v <= Known(j, c) BY ONLY <2>2, <3>3, <3>4, <3>5, Added
    <3>7. ~Unread(j, c)' BY <2>3
    <3> QED BY <2>1, <2>2, <3>2, <3>6, <3>7
  <2>4. CASE j # it
    <3>1. rr[j] = rd[j] BY <1>2, <2>4
    <3> HIDE DEF rr
    <3> QED BY <2>1, <2>2, <3>1
  <2> QED BY <2>3, <2>4
<1> HIDE DEF rr
<1>8. /\ r \in [1 .. Len(Monitors) -> Nat] /\ a \in [1 .. Len(Monitors) -> Nat]
  OBVIOUS
<1> QED BY ONLY <1>4, <1>5, <1>6, <1>7, <1>8 DEF Summing

(* the digest thread goes on without touching a status or the round        *)
LEMMA SummingMoves ==
  ASSUME IInv, NEW c \in Counters, Summing(c), UNCHANGED <<earlier, round, aggregated, current>>,
         \A j \in 1 .. Len(Monitors) : /\ Unread(j, c)' => Unread(j, c)
                                       /\ Left(j, c)' = Left(j, c)
  PROVE  Summing(c)'
<1>1. ASSUME NEW j \in 1 .. Len(Monitors)
      PROVE  /\ aggregated[Monitors[j]][c] \in Nat /\ Known(j, c) \in Nat
             /\ aggregated'[Monitors[j]][c] \in Nat /\ Known(j, c)' \in Nat
             /\ aggregated[Monitors[j]][c] <= aggregated'[Monitors[j]][c]
             /\ Known(j, c) <= Known(j, c)'
             /\ Unread(j, c)' => Unread(j, c)
  <2>1. aggregated[Monitors[j]][c] \in Nat /\ Known(j, c) \in Nat BY KnownNat
  <2>2. Known(j, c)' = Known(j, c) BY DEF Known
  <2> QED BY <2>1, <2>2
<1> QED BY <1>1, SummingKept

LEMMA SummingDigests ==
  ASSUME IInv, IInv', NEW c \in Counters, Summing(c), digestRound
  PROVE  Summing(c)'
<1>1. /\ it <= Len(Monitors) /\ digest = "endRound" /\ it \in Nat \ {0}
      /\ Visited \in MonitorSet
  BY VisitedInSet DEF digestRound, DigestAt, More, IInv, Typed
<1>2. /\ aggregated' = [aggregated EXCEPT ![Visited] = Plus(@, current[Visited])]
      /\ current' = [current EXCEPT ![Visited] = Zero] /\ it' = it + 1
      /\ UNCHANGED <<digest, round, earlier>>
  BY DEF digestRound
<1>3. aggregated[Visited] \in Status /\ current[Visited] \in Status BY <1>1 DEF IInv, Typed
<1>4. /\ aggregated'[Visited][c] = aggregated[Visited][c] + current[Visited][c]
      /\ current'[Visited][c] = 0
      /\ \A m \in MonitorSet : m # Visited => aggregated'[m] = aggregated[m] /\ current'[m] = current[m]
  <2>1. aggregated'[Visited] = Plus(aggregated[Visited], current[Visited]) /\ current'[Visited] = Zero
    BY <1>1, <1>2 DEF IInv, Typed
  <2>2. aggregated'[Visited][c] = aggregated[Visited][c] + current[Visited][c]
    BY <1>3, <2>1, PlusValue
  <2>3. \A m \in MonitorSet : m # Visited => aggregated'[m] = aggregated[m] /\ current'[m] = current[m]
    BY <1>1, <1>2 DEF IInv, Typed
  <2> QED BY <2>1, <2>2, <2>3, ZeroValue
<1>5. ASSUME NEW j \in 1 .. Len(Monitors)
      PROVE  /\ aggregated[Monitors[j]][c] \in Nat /\ Known(j, c) \in Nat
             /\ aggregated'[Monitors[j]][c] \in Nat /\ Known(j, c)' \in Nat
             /\ aggregated[Monitors[j]][c] <= aggregated'[Monitors[j]][c]
             /\ Known(j, c) <= Known(j, c)'
             /\ Unread(j, c)' => Unread(j, c)
  <2>1. aggregated[Monitors[j]][c] \in Nat /\ Known(j, c) \in Nat /\ current[Monitors[j]][c] \in Nat
    BY KnownNat
  <2>2. Monitors[j] \in MonitorSet BY MonitorsInSet
  <2>3. ~Unread(j, c)' BY <1>1, <1>2 DEF Unread, Reading
  <2>4. Left(j, c) = IF it <= j THEN current[Monitors[j]][c] ELSE 0 BY <1>1 DEF Left, Reading
  <2>5. Left(j, c)' = IF it + 1 <= j THEN current'[Monitors[j]][c] ELSE 0
    BY <1>1, <1>2 DEF Left, Reading
  <2>6. /\ Known(j, c) = aggregated[Monitors[j]][c] + Left(j, c)
        /\ Known(j, c)' = aggregated'[Monitors[j]][c] + Left(j, c)'
    BY DEF Known
  <2>7. CASE Monitors[j] = Visited
    <3>1. PICK g \in Nat, u \in Nat : g = aggregated[Monitors[j]][c] /\ u = current[Monitors[j]][c]
      BY <2>1
    <3>2. aggregated'[Monitors[j]][c] = g + u /\ current'[Monitors[j]][c] = 0 BY <1>4, <2>7, <3>1
    <3>3. Left(j, c)' = 0 /\ Left(j, c) \in {0, u} BY <2>4, <2>5, <3>1, <3>2
    <3>4. Known(j, c) \in {g + 0, g + u} /\ Known(j, c)' = (g + u) + 0
      BY ONLY <2>6, <3>1, <3>2, <3>3
    <3> QED BY ONLY <2>3, <3>1, <3>2, <3>4, g \in Nat, u \in Nat
  <2>8. CASE Monitors[j] # Visited
    <3>1. aggregated'[Monitors[j]] = aggregated[Monitors[j]] /\ current'[Monitors[j]] = current[Monitors[j]]
      BY <1>4, <2>2, <2>8
    <3>2. j # it BY <2>8 DEF Visited
    <3>3. Left(j, c)' = Left(j, c) BY <1>1, <2>4, <2>5, <3>1, <3>2
    <3>4. Known(j, c)' = Known(j, c) BY <2>6, <3>1, <3>3
    <3> QED BY <2>1, <2>3, <3>1, <3>4
  <2> QED BY <2>7, <2>8
<1> QED BY <1>2, <1>5, SummingKept

(* a monitor that counted nothing has nothing to add                       *)
LEMMA SummingSkips ==
  ASSUME IInv, NEW c \in Counters, Summing(c), SkipMonitor
  PROVE  Summing(c)'
<1>1. /\ it <= Len(Monitors) /\ digest = "endRound" /\ it \in Nat \ {0}
      /\ Visited \in MonitorSet /\ current[Visited]["completed"] = 0
  BY VisitedInSet DEF SkipMonitor, DigestAt, More, isUpdated, IInv, Typed
<1>2. it' = it + 1 /\ UNCHANGED <<digest, round, earlier, current, aggregated>>
  BY DEF SkipMonitor, statusVars
<1>3. current[Visited][c] = 0
  <2>1. current[Visited] \in Status BY <1>1 DEF IInv, Typed
  <2>2. current[Visited]["failures"] \in Nat /\ current[Visited]["errors"] \in Nat
    BY <2>1 DEF Status, Counters
  <2>3. current[Visited]["failures"] + current[Visited]["errors"] <= current[Visited]["completed"]
    BY <1>1 DEF IInv, Bounded
  <2>4. current[Visited]["failures"] = 0 /\ current[Visited]["errors"] = 0
    BY ONLY <1>1, <2>2, <2>3
  <2> QED BY <1>1, <2>4 DEF Counters
<1>4. ASSUME NEW j \in 1 .. Len(Monitors)
      PROVE  (Unread(j, c)' => Unread(j, c)) /\ Left(j, c)' = Left(j, c)
  <2>1. ~Unread(j, c)' BY <1>1, <1>2 DEF Unread, Reading
  <2>2. Left(j, c) = IF it <= j THEN current[Monitors[j]][c] ELSE 0 BY <1>1 DEF Left, Reading
  <2>3. Left(j, c)' = IF it + 1 <= j THEN current[Monitors[j]][c] ELSE 0
    BY <1>1, <1>2 DEF Left, Reading
  <2>4. CASE j = it
    <3>1. current[Monitors[j]][c] = 0 BY <1>3, <2>4 DEF Visited
    <3> QED BY <2>1, <2>2, <2>3, <3>1
  <2>5. CASE j # it BY <1>1, <2>1, <2>2, <2>3, <2>5
  <2> QED BY <2>4, <2>5
<1> QED BY <1>2, <1>4, SummingMoves

(* when every monitor has been digested, what is aggregated covers it all  *)
LEMMA SummingEnds ==
  ASSUME IInv, NEW c \in Counters, Summing(c), digest = "endRound", it > Len(Monitors)
  PROVE  /\ Sum(aggregated)[c] >= earlier.registered[c]
         /\ Sum(aggregated)[c] - earlier.aggregated[c] >= round[c]
<1> DEFINE t == [j \in 1 .. Len(Monitors) |-> aggregated[Monitors[j]][c]]
           z == [j \in 1 .. Len(Monitors) |-> 0]
<1>1. PICK r \in [1 .. Len(Monitors) -> Nat], a \in [1 .. Len(Monitors) -> Nat],
           rd \in [1 .. Len(Monitors) -> Nat] :
        /\ Totals(r, earlier.registered[c]) /\ Totals(a, earlier.aggregated[c]) /\ Totals(rd, round[c])
        /\ \A j \in 1 .. Len(Monitors) :
             /\ r[j] <= Known(j, c) /\ a[j] <= aggregated[Monitors[j]][c]
             /\ a[j] + rd[j] <= Known(j, c)
             /\ Unread(j, c) => rd[j] = 0
  BY DEF Summing
<1>2. aggregated \in [MonitorSet -> Status] BY DEF IInv, Typed
<1>3. Totals(t, Sum(aggregated)[c]) BY <1>2, SumIsTotal
<1>4. t \in [1 .. Len(Monitors) -> Nat] /\ z \in [1 .. Len(Monitors) -> Nat] BY KnownNat
<1>5. Totals(z, 0) BY TotalsZero
<1>6. ASSUME NEW j \in 1 .. Len(Monitors) PROVE Known(j, c) = t[j]
  <2>1. ~(it <= j) BY LenNat DEF IInv, Typed
  <2>2. Left(j, c) = 0 BY <2>1 DEF Left, Reading
  <2>3. aggregated[Monitors[j]][c] \in Nat BY KnownNat
  <2> QED BY <2>2, <2>3 DEF Known
<1> HIDE DEF t, z
<1>7. \A j \in 1 .. Len(Monitors) : z[j] = 0 BY DEF z
<1>8. \A j \in 1 .. Len(Monitors) : r[j] + z[j] <= t[j]
  <2> SUFFICES ASSUME NEW j \in 1 .. Len(Monitors) PROVE r[j] + z[j] <= t[j] OBVIOUS
  <2>1. r[j] <= t[j] /\ z[j] = 0 /\ r[j] \in Nat BY <1>1, <1>6, <1>7
  <2> QED BY ONLY <2>1
<1>9. \A j \in 1 .. Len(Monitors) : a[j] + rd[j] <= t[j] BY <1>1, <1>6
<1>f. /\ r \in [1 .. Len(Monitors) -> Nat] /\ a \in [1 .. Len(Monitors) -> Nat]
      /\ rd \in [1 .. Len(Monitors) -> Nat]
  OBVIOUS
<1>t. /\ Totals(r, earlier.registered[c]) /\ Totals(a, earlier.aggregated[c])
      /\ Totals(rd, round[c])
  BY <1>1
<1>g. PICK x, y, q, w : /\ x = earlier.registered[c] /\ y = earlier.aggregated[c]
                        /\ q = round[c] /\ w = Sum(aggregated)[c]
  OBVIOUS
<1>h. Totals(r, x) /\ Totals(a, y) /\ Totals(rd, q) /\ Totals(t, w) BY <1>t, <1>g, <1>3
<1>10. x \in Nat /\ w \in Nat /\ x + 0 <= w
  BY ONLY <1>h, <1>f, <1>4, <1>5, <1>8, TotalsOrdered
<1>11. y \in Nat /\ q \in Nat /\ y + q <= w
  BY ONLY <1>h, <1>f, <1>4, <1>9, TotalsOrdered
<1>12. w >= x /\ w - y >= q BY ONLY <1>10, <1>11
<1> QED BY <1>g, <1>12

-------------------------------------------------------------------------------

(* the statuses grow under the hands of a worker, and nothing else moves   *)
LEMMA SumUnmoved ==
  ASSUME IInv, IInv', SumInv, UNCHANGED <<aggregated, digest, it, round, line, earlier>>,
         \A m \in MonitorSet, c \in Counters : current[m][c] <= current'[m][c]
  PROVE  SumInv'
<1>1. ASSUME NEW c \in Counters, digest \in Reading \cup {"endRound"} PROVE Summing(c)'
  <2>1. Summing(c) BY <1>1 DEF SumInv
  <2>2. \A m \in MonitorSet : current[m][c] <= current'[m][c] OBVIOUS
  <2> QED BY <2>1, <2>2, SummingOn
<1>2. SummaryCoversRound' BY DEF SumInv, SummaryCoversRound
<1> QED BY <1>1, <1>2 DEF SumInv

LEMMA CurrentNat ==
  ASSUME IInv, NEW m \in MonitorSet, NEW c \in Counters
  PROVE  current[m][c] \in Nat
<1>1. current[m] \in Status BY DEF IInv, Typed
<1> QED BY <1>1 DEF Status

LEMMA WorkerSums ==
  ASSUME IInv, IInv', SumInv, NEW w \in Workers, Worker(w)
  PROVE  SumInv'
<1>1. UNCHANGED <<aggregated, digest, it, round, line, earlier>>
  BY DEF Worker, LogError, LogResponse, getMonitor, LockMonitor, AddCompleted, AddOutcome,
         UnlockMonitor, statusVars, digestVars
<1>2. ASSUME NEW r \in Status, current' = [current EXCEPT ![at[w]] = Plus(@, r)],
             NEW m \in MonitorSet, NEW c \in Counters
      PROVE  current[m][c] <= current'[m][c]
  <2>1. at[w] \in MonitorSet /\ current \in [MonitorSet -> Status] BY DEF IInv, Typed
  <2>2. current[m][c] \in Nat BY CurrentNat
  <2>3. CASE m = at[w]
    <3>1. current'[m] = Plus(current[m], r) /\ current[m] \in Status BY <1>2, <2>1, <2>3
    <3>2. current'[m][c] = current[m][c] + r[c] /\ r[c] \in Nat BY <3>1, PlusValue DEF Status
    <3> QED BY ONLY <2>2, <3>2
  <2>4. CASE m # at[w]
    <3>1. current'[m] = current[m] BY <1>2, <2>1, <2>4
    <3> QED BY <2>2, <3>1
  <2> QED BY <2>3, <2>4
<1>3. CASE AddCompleted(w)
  <2>1. current' = [current EXCEPT ![at[w]] = Plus(@, Completed)] BY <1>3 DEF AddCompleted
  <2> QED BY <1>1, <1>2, <2>1, CompletedValue, SumUnmoved
<1>4. CASE AddOutcome(w)
  <2>1. current' = [current EXCEPT ![at[w]] = Plus(@, Outcome[kind[w]])] BY <1>4 DEF AddOutcome
  <2>2. Outcome[kind[w]] \in Status BY OutcomeValue DEF IInv, Typed
  <2> QED BY <1>1, <1>2, <2>1, <2>2, SumUnmoved
<1>5. CASE LogError(w) \/ LogResponse(w) \/ getMonitor(w) \/ LockMonitor(w) \/ UnlockMonitor(w)
  <2>1. UNCHANGED current
    BY <1>5 DEF LogError, LogResponse, getMonitor, LockMonitor, UnlockMonitor, statusVars
  <2>2. \A m \in MonitorSet, c \in Counters : current[m][c] <= current'[m][c]
    BY <2>1, CurrentNat
  <2> QED BY <1>1, <2>2, SumUnmoved
<1> QED BY <1>3, <1>4, <1>5 DEF Worker

(* a counter read, and the others that are not                             *)
LEMMA ReadSums ==
  ASSUME IInv, SumInv, NEW k \in Counters, digest \in Reading, digest' \in Reading,
         it <= Len(Monitors), Unread(it, k), Read(k), line' = line,
         UNCHANGED <<current, aggregated, earlier>>,
         \A j \in 1 .. Len(Monitors) : Unread(j, k)' => j # it /\ Unread(j, k),
         \A c \in Counters, j \in 1 .. Len(Monitors) : Unread(j, c)' => Unread(j, c),
         digest' \in {"failures", "errors"} => it' <= Len(Monitors)
  PROVE  SumInv'
<1>1. round \in [Counters -> Nat] /\ \A c \in Counters : Summing(c) BY DEF SumInv
<1>2. round' = [round EXCEPT ![k] = @ + current[Visited][k]] BY DEF Read
<1>3. current[Visited][k] \in Nat
  <2>1. Visited \in MonitorSet BY VisitedInSet
  <2> QED BY <2>1, CurrentNat
<1>4. /\ round' \in [Counters -> Nat] /\ round'[k] = round[k] + current[Visited][k]
      /\ \A c \in Counters : c # k => round'[c] = round[c]
  BY <1>1, <1>2, <1>3
<1>5. ASSUME NEW c \in Counters PROVE Summing(c)'
  <2>1. CASE c = k BY <1>1, <1>4, <2>1, SummingReads
  <2>2. CASE c # k
    <3>1. ASSUME NEW j \in 1 .. Len(Monitors)
          PROVE  /\ aggregated[Monitors[j]][c] \in Nat /\ Known(j, c) \in Nat
                 /\ aggregated'[Monitors[j]][c] \in Nat /\ Known(j, c)' \in Nat
                 /\ aggregated[Monitors[j]][c] <= aggregated'[Monitors[j]][c]
                 /\ Known(j, c) <= Known(j, c)'
                 /\ Unread(j, c)' => Unread(j, c)
      <4>1. aggregated[Monitors[j]][c] \in Nat /\ Known(j, c) \in Nat BY KnownNat
      <4>2. Known(j, c)' = Known(j, c) BY DEF Known, Left
      <4> QED BY <4>1, <4>2
    <3> QED BY <1>1, <1>4, <2>2, <3>1, SummingKept
  <2> QED BY <2>1, <2>2
<1>6. SummaryCoversRound' BY DEF SummaryCoversRound, Reading
<1> QED BY <1>4, <1>5, <1>6 DEF SumInv

(* the digest thread goes on and no summary is under way                   *)
LEMMA NoSummary ==
  ASSUME SumInv, digest' \notin Reading \cup {"endRound", "unlock"}, round' \in [Counters -> Nat]
  PROVE  SumInv'
  BY DEF SumInv, SummaryCoversRound, Reading

LEMMA DigestSums ==
  ASSUME IInv, IInv', SumInv, DigestStep
  PROVE  SumInv'
<1>0. it \in Nat \ {0} /\ round \in [Counters -> Nat] BY DEF IInv, Typed, SumInv
<1>1. CASE newRound \/ DigestEnds \/ Wake \/ DigestInterrupted
  <2>1. digest' \notin Reading \cup {"endRound", "unlock"} /\ UNCHANGED round
    BY <1>1 DEF newRound, DigestEnds, Wake, DigestInterrupted, Reading
  <2> QED BY <1>0, <2>1, NoSummary
<1>2. CASE LockSummary
  <2>1. digest' = "completed" /\ round' = Zero BY <1>2 DEF LockSummary
  <2>2. \A c \in Counters : Summing(c)' BY <1>2, SummingBegins
  <2>3. round' \in [Counters -> Nat] BY <2>1, ZeroValue DEF Status
  <2> QED BY <2>1, <2>2, <2>3 DEF SumInv, SummaryCoversRound
<1>3. CASE ReadCompleted
  <2>1. digest = "completed" /\ it <= Len(Monitors)
        /\ UNCHANGED <<current, aggregated, earlier, line>>
    BY <1>3 DEF ReadCompleted, DigestAt, More, statusVars
  <2>2. CASE Read("completed") /\ digest' = "failures" /\ UNCHANGED it
    BY <1>0, <2>1, <2>2, ReadSums DEF Counters, Reading, Unread
  <2>3. CASE it' = it + 1 /\ UNCHANGED <<round, digest>>
    <3>1. ASSUME NEW c \in Counters PROVE Summing(c)'
      <4>1. \A j \in 1 .. Len(Monitors) : (Unread(j, c)' => Unread(j, c)) /\ Left(j, c)' = Left(j, c)
        BY <1>0, <2>1, <2>3 DEF Unread, Left, Reading
      <4>2. Summing(c) BY <2>1 DEF SumInv, Reading
      <4> QED BY <2>1, <2>3, <4>1, <4>2, SummingMoves
    <3> QED BY <1>0, <2>1, <2>3, <3>1 DEF SumInv, SummaryCoversRound
  <2> QED BY <1>3, <2>2, <2>3 DEF ReadCompleted
<1>4. CASE ReadFailures
  <2>1. digest = "failures" /\ digest' = "errors" /\ Read("failures") /\ it <= Len(Monitors)
        /\ UNCHANGED <<current, aggregated, earlier, line, it>>
    BY <1>4 DEF ReadFailures, DigestAt, statusVars, SumInv
  <2> QED BY <1>0, <2>1, ReadSums DEF Counters, Reading, Unread
<1>5. CASE ReadErrors
  <2>1. digest = "errors" /\ digest' = "completed" /\ Read("errors") /\ it <= Len(Monitors)
        /\ it' = it + 1 /\ UNCHANGED <<current, aggregated, earlier, line>>
    BY <1>5 DEF ReadErrors, DigestAt, statusVars, SumInv
  <2> QED BY <1>0, <2>1, ReadSums DEF Counters, Reading, Unread
<1>6. CASE RoundRead
  <2>1. digest = "completed" /\ digest' = "endRound" /\ it' = 1
        /\ UNCHANGED <<current, aggregated, earlier, line, round>>
    BY <1>6 DEF RoundRead, DigestAt, statusVars
  <2>2. ASSUME NEW c \in Counters PROVE Summing(c)'
    <3>1. \A j \in 1 .. Len(Monitors) : (Unread(j, c)' => Unread(j, c)) /\ Left(j, c)' = Left(j, c)
      BY <2>1 DEF Unread, Left, Reading
    <3>2. Summing(c) BY <2>1 DEF SumInv, Reading
    <3> QED BY <2>1, <3>1, <3>2, SummingMoves
  <2> QED BY <1>0, <2>1, <2>2 DEF SumInv, SummaryCoversRound
<1>7. CASE digestRound
  <2>1. digest = "endRound" /\ UNCHANGED <<digest, round>>
    BY <1>7 DEF digestRound, DigestAt
  <2>2. \A c \in Counters : Summing(c)' BY <1>7, <2>1, SummingDigests DEF SumInv
  <2> QED BY <1>0, <2>1, <2>2 DEF SumInv, SummaryCoversRound
<1>8. CASE SkipMonitor
  <2>1. digest = "endRound" /\ UNCHANGED <<digest, round>>
    BY <1>8 DEF SkipMonitor, DigestAt
  <2>2. \A c \in Counters : Summing(c)' BY <1>8, <2>1, SummingSkips DEF SumInv
  <2> QED BY <1>0, <2>1, <2>2 DEF SumInv, SummaryCoversRound
<1>9. CASE AuditSummary
  <2>1. digest = "endRound" /\ it > Len(Monitors) /\ digest' = "unlock" /\ UNCHANGED <<round, earlier>>
        /\ line' = [round |-> round, total |-> Sum(aggregated)]
    BY <1>0, <1>9, LenNat DEF AuditSummary, DigestAt, More
  <2>2. ASSUME NEW c \in Counters
        PROVE  /\ line'.total[c] >= earlier'.registered[c]
               /\ line'.total[c] - earlier'.aggregated[c] >= line'.round[c]
    <3>1. Summing(c) BY <2>1 DEF SumInv
    <3>2. /\ Sum(aggregated)[c] >= earlier.registered[c]
          /\ Sum(aggregated)[c] - earlier.aggregated[c] >= round[c]
      BY <2>1, <3>1, SummingEnds
    <3>3. line'.total = Sum(aggregated) /\ line'.round = round /\ earlier' = earlier BY <2>1
    <3> QED BY <3>2, <3>3
  <2>3. SummaryCoversRound' BY <2>2 DEF SummaryCoversRound
  <2> QED BY <1>0, <2>1, <2>3 DEF SumInv, Reading
<1>10. CASE EndSummary
  <2>1. digest' \in {"details", "new"} /\ round' = Zero BY <1>10 DEF EndSummary
  <2> QED BY <2>1, ZeroValue, NoSummary DEF Status, Reading
<1>11. ASSUME NEW d \in Details,
              EnterDetails(d) \/ SkipItem(d) \/ computeStandardDeviation(d) \/ PrintItem(d) \/ LeaveDetails(d)
       PROVE  SumInv'
  <2>1. digest' \in {Items[d], Deviations[d], Leaves[d]} /\ UNCHANGED round
    BY <1>11 DEF EnterDetails, SkipItem, computeStandardDeviation, PrintItem, LeaveDetails, DigestAt
  <2>2. digest' \notin Reading \cup {"endRound", "unlock"}
    BY <2>1 DEF Details, Items, Deviations, Leaves, Reading
  <2> QED BY <1>0, <2>1, <2>2, NoSummary
<1> QED BY <1>1, <1>2, <1>3, <1>4, <1>5, <1>6, <1>7, <1>8, <1>9, <1>10, <1>11 DEF DigestStep

LEMMA SumStep ==
  ASSUME IInv, IInv', SumInv, [MonitoringNext]_vars
  PROVE  SumInv'
<1> DEFINE Same == UNCHANGED <<current, aggregated, digest, it, round, line, earlier>>
<1>u. ASSUME Same PROVE SumInv' BY <1>u, CurrentNat, SumUnmoved
<1>1. ASSUME NEW w \in Workers, Worker(w) PROVE SumInv' BY <1>1, WorkerSums
<1>2. ASSUME NEW w \in Workers, NEW m \in MonitorSet, NEW k \in Kinds, LogRequest(w, m, k)
      PROVE  SumInv'
  <2>1. Same BY <1>2 DEF LogRequest, statusVars, digestVars
  <2> QED BY <1>u, <2>1
<1>3. CASE DigestStep BY <1>3, DigestSums
<1>4. CASE MainStep
  <2>1. Same BY <1>4 DEF MainStep, RunEnds, StopRunning, DeleteMonitors, JoinDigest, DeletePool,
                         statusVars, digestVars
  <2> QED BY <1>u, <2>1
<1>5. CASE LogAccept
  <2>1. Same BY <1>5 DEF LogAccept, statusVars, digestVars
  <2> QED BY <1>u, <2>1
<1>6. CASE UseAfterDelete
  <2>1. Same BY <1>6 DEF UseAfterDelete, statusVars, digestVars
  <2> QED BY <1>u, <2>1
<1>7. ASSUME NEW t \in Threads, Thread(t) \/ Interrupted(t) PROVE SumInv'
  <2>1. Same BY <1>7 DEF Thread, Interrupted, statusVars, digestVars
  <2> QED BY <1>u, <2>1
<1>8. CASE UNCHANGED vars
  <2>1. Same BY <1>8 DEF vars, statusVars, digestVars
  <2> QED BY <1>u, <2>1
<1>9. CASE MonitoringNext
  BY <1>9, <1>1, <1>2, <1>3, <1>4, <1>5, <1>6, <1>7 DEF MonitoringNext
<1> QED BY <1>8, <1>9

LEMMA InitSums == Init => SumInv
<1> SUFFICES ASSUME Init PROVE SumInv OBVIOUS
<1>1. round \in [Counters -> Nat] /\ digest = "new" BY ZeroValue DEF Init, Status
<1> QED BY <1>1 DEF SumInv, SummaryCoversRound, Reading

(* The line of a summary counts all that was registered when it was begun, *)
(* and no more of the round than the round adds, for any number of         *)
(* monitors and of workers that register while the counters are read.      *)
THEOREM SummariesCover == MonitoringSpec => []SummaryCoversRound
<1>1. Init => IInv /\ SumInv BY InitInvariant, InitSums
<1>2. IInv /\ SumInv /\ [MonitoringNext]_vars => (IInv /\ SumInv)'
  BY StepInvariant, SumStep
<1>3. SumInv => SummaryCoversRound BY DEF SumInv
<1> QED BY <1>1, <1>2, <1>3, PTL DEF MonitoringSpec
-------------------------------------------------------------------------------
(* What the logger is in.                                                  *)

Frame == [mutex : Mutexes, has : BOOLEAN, handler : BOOLEAN]

(* a mutex is had by its holder's frame, and by one frame of it: Unlock    *)
(* takes it from no frame below                                            *)
Logging ==
  /\ holder \in [Mutexes -> Threads \cup {Nobody}] /\ stay_running \in BOOLEAN
  /\ signals \in Nat /\ signals <= MaxSignals
  /\ frames \in [Threads -> Seq(Frame)]
  /\ \A t \in Threads : \A j \in 1 .. Len(frames[t]) :
       frames[t][j].has => holder[frames[t][j].mutex] = t
  /\ \A t \in Threads : \A j \in 1 .. Len(frames[t]) : \A i \in 1 .. j - 1 :
       frames[t][i].has /\ frames[t][j].has => frames[t][i].mutex # frames[t][j].mutex

(* an operation a worker has begun and not registered                      *)
Busy(w) == pc[w] \in {"error", "get", "lock"} \cup Registering
           \/ (pc[w] = "response" /\ kind[w] = "error")
Pending(m) == {w \in Workers : at[w] = m /\ Busy(w)}

Numbered ==
  /\ operations \in Nat /\ operations <= MaxOperations
  /\ \A m \in MonitorSet :
       /\ IsFiniteSet(Pending(m))
       /\ registered[m]["completed"] + Cardinality(Pending(m)) <= operations

(* the digest thread: a round that is not asleep is one of those allowed,  *)
(* and a monitor that is looked at is one there is                         *)
Digesting ==
  /\ m_mutex \in {Digest, Nobody}
  /\ it <= Len(Monitors) + 1
  /\ digest \in {"failures", "errors"} \cup Deviating => it <= Len(Monitors)
  /\ m_round \in Nat /\ m_round <= MaxRounds + 1
  /\ digest \notin {"sleep", "ended"} => m_round <= MaxRounds

TypeInv == Logging /\ Numbered /\ Digesting

-------------------------------------------------------------------------------
LEMMA FramesSeq ==
  ASSUME Logging, NEW t \in Threads
  PROVE  /\ frames[t] \in Seq(Frame) /\ Len(frames[t]) \in Nat
         /\ \A j \in 1 .. Len(frames[t]) : frames[t][j] \in Frame
  BY DEF Logging

LEMMA EnterLogging ==
  ASSUME Logging, NEW t \in Threads, NEW x \in Mutexes, NEW h \in BOOLEAN, Enter(t, x, h),
         stay_running' \in BOOLEAN, signals' \in Nat, signals' <= MaxSignals
  PROVE  Logging'
<1> USE MonitoringAssumption DEF MonitoringAssumption
<1> DEFINE N == Len(frames[t])
<1>1. PICK b \in BOOLEAN :
        /\ frames' = [frames EXCEPT ![t] = Append(@, [mutex |-> x, has |-> b, handler |-> h])]
        /\ b => holder[x] = Nobody /\ holder' = [holder EXCEPT ![x] = t]
        /\ ~b => holder' = holder
  BY DEF Enter
<1> DEFINE f == [mutex |-> x, has |-> b, handler |-> h]
<1>2. f \in Frame /\ f.mutex = x /\ f.has = b BY DEF Frame
<1> HIDE DEF f
<1>3. frames' = [frames EXCEPT ![t] = Append(frames[t], f)] BY <1>1 DEF f
<1>4. frames[t] \in Seq(Frame) /\ N \in Nat BY FramesSeq
<1>5. /\ frames'[t] \in Seq(Frame) /\ Len(frames'[t]) = N + 1
      /\ frames'[t][N + 1] = f /\ \A j \in 1 .. N : frames'[t][j] = frames[t][j]
      /\ \A u \in Threads \ {t} : frames'[u] = frames[u]
  BY <1>2, <1>3, <1>4 DEF Logging
<1>6. frames' \in [Threads -> Seq(Frame)] BY <1>2, <1>3, <1>4 DEF Logging
<1>7. holder' \in [Mutexes -> Threads \cup {Nobody}] BY <1>1 DEF Logging
<1>8. ASSUME NEW u \in Threads, NEW y \in Mutexes, holder[y] = u PROVE holder'[y] = u
  BY <1>1, <1>8 DEF Logging
<1>9. ASSUME NEW u \in Threads, NEW j \in 1 .. Len(frames[u]), frames[u][j].has
      PROVE  holder'[frames[u][j].mutex] = u /\ (b => frames[u][j].mutex # x)
  <2>1. frames[u][j].mutex \in Mutexes /\ holder[frames[u][j].mutex] = u
    BY <1>9, FramesSeq DEF Logging, Frame
  <2> QED BY <2>1, <1>8, <1>1
<1>10. b => holder'[x] = t BY <1>1 DEF Logging
<1>11. ASSUME NEW u \in Threads, NEW j \in 1 .. Len(frames'[u]), frames'[u][j].has
       PROVE  holder'[frames'[u][j].mutex] = u
  <2>1. CASE u # t BY <2>1, <1>5, <1>9, <1>11
  <2>2. CASE u = t /\ j <= N
    <3>1. j \in 1 .. N /\ frames'[u][j] = frames[u][j] BY <2>2, <1>4, <1>5
    <3> QED BY <2>2, <3>1, <1>9, <1>11
  <2>3. CASE u = t /\ j = N + 1 BY <2>3, <1>2, <1>5, <1>10, <1>11
  <2> QED BY <2>1, <2>2, <2>3, <1>4, <1>5
<1>12. ASSUME NEW u \in Threads, NEW j \in 1 .. Len(frames'[u]), NEW i \in 1 .. j - 1,
              frames'[u][i].has, frames'[u][j].has
       PROVE  frames'[u][i].mutex # frames'[u][j].mutex
  <2>1. CASE u # t
    <3>1. frames'[u] = frames[u] BY <2>1, <1>5
    <3> QED BY <3>1, <1>12 DEF Logging
  <2>2. CASE u = t /\ j <= N
    <3>1. j \in 1 .. N /\ i \in 1 .. N /\ frames'[u][i] = frames[u][i] /\ frames'[u][j] = frames[u][j]
      BY <2>2, <1>4, <1>5
    <3> QED BY <2>2, <3>1, <1>12 DEF Logging
  <2>3. CASE u = t /\ j = N + 1
    <3>1. i \in 1 .. N /\ frames'[u][i] = frames[u][i] BY <2>3, <1>4, <1>5
    <3> QED BY <2>3, <3>1, <1>2, <1>5, <1>9, <1>12
  <2> QED BY <2>1, <2>2, <2>3, <1>4, <1>5
<1> QED BY <1>6, <1>7, <1>11, <1>12 DEF Logging

LEMMA LockLogging ==
  ASSUME Logging, NEW t \in Threads, Lock(t)
  PROVE  Logging'
<1> USE MonitoringAssumption DEF MonitoringAssumption
<1> DEFINE N == Len(frames[t])  x == frames[t][N].mutex
<1>1. /\ frames[t] # <<>> /\ ~frames[t][N].has /\ holder[x] = Nobody
      /\ holder' = [holder EXCEPT ![x] = t]
      /\ frames' = [frames EXCEPT ![t][N].has = TRUE]
      /\ UNCHANGED <<stay_running, signals>>
  BY DEF Lock, Running, Top
<1>2. frames[t] \in Seq(Frame) /\ N \in Nat \ {0} /\ frames[t][N] \in Frame
  BY <1>1, FramesSeq DEF Logging
<1>3. x \in Mutexes BY <1>2 DEF Frame
<1>4. /\ frames'[t] \in Seq(Frame) /\ Len(frames'[t]) = N
      /\ frames'[t][N] = [frames[t][N] EXCEPT !.has = TRUE]
      /\ \A j \in 1 .. N - 1 : frames'[t][j] = frames[t][j]
      /\ \A u \in Threads \ {t} : frames'[u] = frames[u]
      /\ frames' \in [Threads -> Seq(Frame)]
  <2> DEFINE f == [frames[t][N] EXCEPT !.has = TRUE]
  <2>1. f \in Frame BY <1>2 DEF Frame
  <2> HIDE DEF f
  <2>2. frames' = [frames EXCEPT ![t] = [frames[t] EXCEPT ![N] = f]] BY <1>1, <1>2 DEF Logging, f
  <2>3. [frames[t] EXCEPT ![N] = f] \in Seq(Frame) /\ Len([frames[t] EXCEPT ![N] = f]) = N
    BY <2>1, <1>2
  <2>4. frames'[t] = [frames[t] EXCEPT ![N] = f] BY <2>2 DEF Logging
  <2>5. frames'[t][N] = f /\ \A j \in 1 .. N - 1 : frames'[t][j] = frames[t][j]
    BY <2>4, <1>2
  <2>6. frames' \in [Threads -> Seq(Frame)] /\ \A u \in Threads \ {t} : frames'[u] = frames[u]
    BY <2>2, <2>3 DEF Logging
  <2> QED BY <2>3, <2>4, <2>5, <2>6 DEF f
<1>5. frames'[t][N].mutex = x BY <1>2, <1>4 DEF Frame
<1>6. holder' \in [Mutexes -> Threads \cup {Nobody}] /\ holder'[x] = t BY <1>1, <1>3 DEF Logging
<1>7. ASSUME NEW u \in Threads, NEW j \in 1 .. Len(frames[u]), frames[u][j].has
      PROVE  holder'[frames[u][j].mutex] = u /\ frames[u][j].mutex # x
  <2>1. frames[u][j].mutex \in Mutexes /\ holder[frames[u][j].mutex] = u
    BY <1>7, FramesSeq DEF Logging, Frame
  <2> QED BY <2>1, <1>1, <1>3 DEF Logging
<1>8. ASSUME NEW u \in Threads, NEW j \in 1 .. Len(frames'[u]), frames'[u][j].has
       PROVE  holder'[frames'[u][j].mutex] = u
  <2>1. CASE u # t BY <2>1, <1>4, <1>7, <1>8
  <2>2. CASE u = t /\ j <= N - 1 BY <2>2, <1>2, <1>4, <1>7, <1>8
  <2>3. CASE u = t /\ j = N BY <2>3, <1>5, <1>6
  <2> QED BY <2>1, <2>2, <2>3, <1>2, <1>4
<1>9. ASSUME NEW u \in Threads, NEW j \in 1 .. Len(frames'[u]), NEW i \in 1 .. j - 1,
             frames'[u][i].has, frames'[u][j].has
      PROVE  frames'[u][i].mutex # frames'[u][j].mutex
  <2>1. CASE u # t
    <3>1. frames'[u] = frames[u] BY <2>1, <1>4
    <3> QED BY <3>1, <1>9 DEF Logging
  <2>2. CASE u = t /\ j <= N - 1
    <3>1. j \in 1 .. N /\ i \in 1 .. N /\ frames'[u][i] = frames[u][i] /\ frames'[u][j] = frames[u][j]
      BY <2>2, <1>2, <1>4
    <3> QED BY <2>2, <3>1, <1>9 DEF Logging
  <2>3. CASE u = t /\ j = N
    <3>1. i \in 1 .. N /\ frames'[u][i] = frames[u][i] BY <2>3, <1>2, <1>4
    <3> QED BY <2>3, <3>1, <1>5, <1>7, <1>9
  <2> QED BY <2>1, <2>2, <2>3, <1>2, <1>4
<1>10. stay_running' \in BOOLEAN /\ signals' \in Nat /\ signals' <= MaxSignals BY <1>1 DEF Logging
<1> QED BY <1>4, <1>6, <1>8, <1>9, <1>10 DEF Logging

LEMMA UnlockLogging ==
  ASSUME Logging, NEW t \in Threads, Unlock(t)
  PROVE  Logging'
<1> USE MonitoringAssumption DEF MonitoringAssumption
<1> DEFINE N == Len(frames[t])  x == frames[t][N].mutex
<1>1. /\ frames[t] # <<>> /\ frames[t][N].has
      /\ holder' = [holder EXCEPT ![x] = Nobody]
      /\ frames' = [frames EXCEPT ![t] = SubSeq(frames[t], 1, N - 1)]
      /\ UNCHANGED signals
  BY DEF Unlock, Running, Top
<1>2. frames[t] \in Seq(Frame) /\ N \in Nat \ {0} /\ frames[t][N] \in Frame
  BY <1>1, FramesSeq DEF Logging
<1>3. x \in Mutexes /\ holder[x] = t BY <1>1, <1>2 DEF Frame, Logging
<1>4. /\ frames'[t] \in Seq(Frame) /\ Len(frames'[t]) = N - 1
      /\ \A j \in 1 .. N - 1 : frames'[t][j] = frames[t][j]
      /\ \A u \in Threads \ {t} : frames'[u] = frames[u]
      /\ frames' \in [Threads -> Seq(Frame)]
  <2>1. /\ SubSeq(frames[t], 1, N - 1) \in Seq(Frame) /\ Len(SubSeq(frames[t], 1, N - 1)) = N - 1
        /\ \A j \in 1 .. N - 1 : SubSeq(frames[t], 1, N - 1)[j] = frames[t][j]
    BY <1>2
  <2> QED BY <1>1, <2>1 DEF Logging
<1>5. holder' \in [Mutexes -> Threads \cup {Nobody}] BY <1>1 DEF Logging
<1>6. ASSUME NEW u \in Threads, NEW j \in 1 .. Len(frames[u]), frames[u][j].has,
             u # t \/ j <= N - 1
      PROVE  holder'[frames[u][j].mutex] = u
  <2>1. frames[u][j].mutex \in Mutexes /\ holder[frames[u][j].mutex] = u
    BY <1>6, FramesSeq DEF Logging, Frame
  <2>2. frames[u][j].mutex # x
    <3>1. CASE u # t BY <2>1, <3>1, <1>3
    <3>2. CASE u = t /\ j <= N - 1
      <4>1. j \in 1 .. N - 1 /\ N \in 1 .. Len(frames[t]) BY <3>2, <1>2
      <4> QED BY <4>1, <3>2, <1>1, <1>6 DEF Logging
    <3> QED BY <3>1, <3>2, <1>6
  <2> QED BY <2>1, <2>2, <1>1 DEF Logging
<1>7. ASSUME NEW u \in Threads, NEW j \in 1 .. Len(frames'[u]), frames'[u][j].has
       PROVE  holder'[frames'[u][j].mutex] = u
  <2>1. CASE u # t BY <2>1, <1>4, <1>6, <1>7
  <2>2. CASE u = t
    <3>1. j \in 1 .. N - 1 /\ j \in 1 .. N /\ frames'[t][j] = frames[t][j] BY <2>2, <1>2, <1>4
    <3> QED BY <2>2, <3>1, <1>6, <1>7
  <2> QED BY <2>1, <2>2
<1>8. ASSUME NEW u \in Threads, NEW j \in 1 .. Len(frames'[u]), NEW i \in 1 .. j - 1,
             frames'[u][i].has, frames'[u][j].has
      PROVE  frames'[u][i].mutex # frames'[u][j].mutex
  <2>1. CASE u # t
    <3>1. frames'[u] = frames[u] BY <2>1, <1>4
    <3> QED BY <3>1, <1>8 DEF Logging
  <2>2. CASE u = t
    <3>1. j \in 1 .. N /\ i \in 1 .. N /\ frames'[u][i] = frames[u][i] /\ frames'[u][j] = frames[u][j]
      BY <2>2, <1>2, <1>4
    <3> QED BY <2>2, <3>1, <1>8 DEF Logging
  <2> QED BY <2>1, <2>2
<1>9. stay_running' \in BOOLEAN /\ signals' \in Nat /\ signals' <= MaxSignals
  BY <1>1 DEF Logging, Unlock
<1> QED BY <1>4, <1>5, <1>7, <1>8, <1>9 DEF Logging

(* a step of a thread in the logger, or elsewhere                          *)
Logs(t) == \/ \E x \in Mutexes, h \in BOOLEAN :
                /\ Enter(t, x, h) /\ UNCHANGED <<stay_running, signals>>
                /\ x = "audit" => Running(t)
           \/ Lock(t) \/ Unlock(t) \/ Signal(t)

LEMMA LogsLogging ==
  ASSUME Logging, UNCHANGED logVars \/ \E t \in Threads : Logs(t)
  PROVE  Logging'
<1>1. CASE UNCHANGED logVars BY <1>1 DEF Logging, logVars
<1>2. ASSUME NEW t \in Threads, Logs(t) PROVE Logging'
  <2>1. ASSUME NEW x \in Mutexes, NEW h \in BOOLEAN, Enter(t, x, h), UNCHANGED <<stay_running, signals>>
        PROVE  Logging'
    BY <2>1, EnterLogging DEF Logging
  <2>2. CASE Lock(t) BY <2>2, LockLogging
  <2>3. CASE Unlock(t) BY <2>3, UnlockLogging
  <2>4. CASE Signal(t)
    <3>1. signals' \in Nat /\ signals' <= MaxSignals
      BY <2>4, MonitoringAssumption DEF Signal, Logging, MonitoringAssumption
    <3>2. CASE Enter(t, "log", TRUE) /\ UNCHANGED stay_running
      BY <3>1, <3>2, EnterLogging DEF Logging, Mutexes
    <3>3. CASE stay_running' = FALSE /\ UNCHANGED <<holder, frames>>
      BY <3>1, <3>3 DEF Logging
    <3> QED BY <2>4, <3>2, <3>3 DEF Signal
  <2> QED BY <1>2, <2>1, <2>2, <2>3, <2>4 DEF Logs
<1> QED BY <1>1, <1>2

LEMMA LinesLog ==
  ASSUME NEW t \in Threads,
         srmLogResponse(t) \/ (Running(t) /\ srmAudit(t)) \/ \E level \in Int : srmlogit(t, level)
  PROVE  UNCHANGED logVars \/ Logs(t)
<1>1. "log" \in Mutexes /\ "audit" \in Mutexes BY DEF Mutexes
<1> QED BY <1>1 DEF srmLogResponse, srmAudit, srmlogit, Logs

LEMMA StepLogs ==
  ASSUME [MonitoringNext]_vars
  PROVE  UNCHANGED logVars \/ \E t \in Threads : Logs(t)
<1> DEFINE Goal == UNCHANGED logVars \/ \E t \in Threads : Logs(t)
<1> USE DEF NONE, ERROR, INFO, DEBUG
<1>l. ASSUME NEW t \in Threads,
             srmLogResponse(t) \/ (Running(t) /\ srmAudit(t)) \/ \E level \in Int : srmlogit(t, level)
      PROVE  Goal
  BY <1>l, LinesLog
<1>t. Workers \subseteq Threads /\ Digest \in Threads /\ Main \in Threads
  BY MonitoringAssumption DEF MonitoringAssumption
<1>1. ASSUME NEW w \in Workers, Worker(w) PROVE Goal
  <2>1. CASE LogError(w)
    <3>1. srmlogit(w, ERROR) BY <2>1 DEF LogError
    <3> QED BY <1>l, <1>t, <3>1
  <2>2. CASE LogResponse(w)
    <3>1. srmLogResponse(w) BY <2>2 DEF LogResponse
    <3> QED BY <1>l, <1>t, <3>1
  <2>3. CASE getMonitor(w) \/ LockMonitor(w) \/ AddCompleted(w) \/ AddOutcome(w) \/ UnlockMonitor(w)
    BY <2>3 DEF getMonitor, LockMonitor, AddCompleted, AddOutcome, UnlockMonitor
  <2> QED BY <1>1, <2>1, <2>2, <2>3 DEF Worker
<1>2. ASSUME NEW w \in Workers, NEW m \in MonitorSet, NEW k \in Kinds, LogRequest(w, m, k)
      PROVE  Goal
  <2>1. srmlogit(w, INFO) BY <1>2 DEF LogRequest
  <2> QED BY <1>l, <1>t, <2>1
<1>3. CASE DigestStep
  <2>1. CASE DigestInterrupted
    <3>1. srmlogit(Digest, INFO) BY <2>1 DEF DigestInterrupted
    <3> QED BY <1>l, <1>t, <3>1
  <2>2. CASE AuditSummary
    <3>1. Running(Digest) /\ srmAudit(Digest) BY <2>2 DEF AuditSummary, DigestAt
    <3> QED BY <1>l, <1>t, <3>1
  <2>3. ASSUME NEW d \in Details, computeStandardDeviation(d) PROVE Goal
    <3>1. srmlogit(Digest, DEBUG) BY <2>3 DEF computeStandardDeviation
    <3> QED BY <1>l, <1>t, <3>1
  <2>4. ASSUME NEW d \in Details, PrintItem(d) PROVE Goal
    <3>1. Running(Digest) /\ srmAudit(Digest) BY <2>4 DEF PrintItem, DigestAt
    <3> QED BY <1>l, <1>t, <3>1
  <2>5. CASE \/ newRound \/ DigestEnds \/ Wake \/ LockSummary \/ ReadCompleted \/ ReadFailures
             \/ ReadErrors \/ RoundRead \/ digestRound \/ SkipMonitor \/ EndSummary
    BY <2>5 DEF newRound, DigestEnds, Wake, LockSummary, ReadCompleted, ReadFailures, ReadErrors,
                RoundRead, digestRound, SkipMonitor, EndSummary
  <2>6. ASSUME NEW d \in Details, EnterDetails(d) \/ SkipItem(d) \/ LeaveDetails(d) PROVE Goal
    BY <2>6 DEF EnterDetails, SkipItem, LeaveDetails
  <2> QED BY <1>3, <2>1, <2>2, <2>3, <2>4, <2>5, <2>6 DEF DigestStep
<1>4. CASE MainStep
  <2>1. CASE RunEnds \/ DeletePool
    <3>1. srmlogit(Main, NONE) BY <2>1 DEF RunEnds, DeletePool
    <3> QED BY <1>l, <1>t, <3>1
  <2>2. CASE StopRunning \/ DeleteMonitors \/ JoinDigest
    BY <2>2 DEF StopRunning, DeleteMonitors, JoinDigest
  <2> QED BY <1>4, <2>1, <2>2 DEF MainStep
<1>5. CASE LogAccept
  <2>1. \E level \in Int : srmlogit(Main, level) BY <1>5 DEF LogAccept
  <2> QED BY <1>l, <1>t, <2>1
<1>6. CASE UseAfterDelete BY <1>6 DEF UseAfterDelete
<1>7. ASSUME NEW t \in Threads, Thread(t) \/ Interrupted(t) PROVE Goal
  BY <1>7 DEF Thread, Interrupted, Logs
<1>8. CASE UNCHANGED vars BY <1>8 DEF vars
<1>9. CASE MonitoringNext
  BY <1>9, <1>1, <1>2, <1>3, <1>4, <1>5, <1>6, <1>7 DEF MonitoringNext
<1> QED BY <1>8, <1>9

-------------------------------------------------------------------------------
(* Operations begun and registered.                                        *)

(* no operation begins and none is registered: fewer may be pending        *)
LEMMA NoneBegins ==
  ASSUME Numbered, UNCHANGED registered, operations' \in Nat, operations <= operations',
         operations' <= MaxOperations, Typed,
         \A m \in MonitorSet : Pending(m)' \subseteq Pending(m)
  PROVE  Numbered'
<1>1. ASSUME NEW m \in MonitorSet
      PROVE  /\ IsFiniteSet(Pending(m)')
             /\ registered'[m]["completed"] + Cardinality(Pending(m)') <= operations'
  <2>1. IsFiniteSet(Pending(m)) /\ Pending(m)' \subseteq Pending(m) BY DEF Numbered
  <2>2. /\ IsFiniteSet(Pending(m)') /\ Cardinality(Pending(m)') <= Cardinality(Pending(m))
        /\ Cardinality(Pending(m)) \in Nat /\ Cardinality(Pending(m)') \in Nat
    BY <2>1, FS_Subset, FS_CardinalityType
  <2>3. registered[m]["completed"] \in Nat BY DEF Typed, Status, Counters
  <2>4. registered[m]["completed"] + Cardinality(Pending(m)) <= operations BY DEF Numbered
  <2>5. operations \in Nat BY DEF Numbered
  <2> QED BY <2>2, <2>3, <2>4, <2>5
<1> QED BY <1>1 DEF Numbered

LEMMA RequestNumbered ==
  ASSUME Typed, Numbered, NEW w \in Workers, NEW x \in MonitorSet, NEW k \in Kinds, LogRequest(w, x, k)
  PROVE  Numbered'
<1> USE MonitoringAssumption DEF MonitoringAssumption
<1>1. /\ operations' = operations + 1 /\ operations < MaxOperations /\ registered' = registered
      /\ at' = [at EXCEPT ![w] = x] /\ kind' = [kind EXCEPT ![w] = k]
      /\ pc' = [pc EXCEPT ![w] = AfterRequest[k]]
  BY DEF LogRequest, GoTo, statusVars
<1>2. ASSUME NEW m \in MonitorSet
      PROVE  /\ IsFiniteSet(Pending(m)')
             /\ registered'[m]["completed"] + Cardinality(Pending(m)') <= operations'
  <2>1. Pending(m)' \subseteq Pending(m) \cup {w} BY <1>1 DEF Pending, Busy, Typed
  <2>2. IsFiniteSet(Pending(m)) BY DEF Numbered
  <2>3. /\ IsFiniteSet(Pending(m) \cup {w}) /\ Cardinality(Pending(m)) \in Nat
        /\ Cardinality(Pending(m) \cup {w}) <= Cardinality(Pending(m)) + 1
        /\ Cardinality(Pending(m) \cup {w}) \in Nat
    <3>1. /\ IsFiniteSet(Pending(m) \cup {w})
          /\ Cardinality(Pending(m) \cup {w})
               = IF w \in Pending(m) THEN Cardinality(Pending(m)) ELSE Cardinality(Pending(m)) + 1
      BY <2>2, FS_AddElement
    <3>2. Cardinality(Pending(m)) \in Nat BY <2>2, FS_CardinalityType
    <3> QED BY <3>1, <3>2
  <2>4. /\ IsFiniteSet(Pending(m)') /\ Cardinality(Pending(m)') \in Nat
        /\ Cardinality(Pending(m)') <= Cardinality(Pending(m) \cup {w})
    BY <2>1, <2>3, FS_Subset, FS_CardinalityType
  <2>5. registered[m]["completed"] \in Nat BY DEF Typed, Status, Counters
  <2>6. registered[m]["completed"] + Cardinality(Pending(m)) <= operations /\ operations \in Nat
    BY DEF Numbered
  <2>7. registered'[m]["completed"] = registered[m]["completed"] /\ operations' = operations + 1
    BY <1>1
  <2> QED BY ONLY <2>3, <2>4, <2>5, <2>6, <2>7
<1> QED BY <1>1, <1>2 DEF Numbered

LEMMA UnlockNumbered ==
  ASSUME Typed, Numbered, NEW w \in Workers, UnlockMonitor(w)
  PROVE  Numbered'
<1> USE MonitoringAssumption DEF MonitoringAssumption
<1> DEFINE x == at[w]  p == AfterRegister[kind[w]]
<1>1. /\ pc[w] = "unlock" /\ operations' = operations
      /\ registered' = [registered EXCEPT ![x] = Plus(@, Plus(Completed, Outcome[kind[w]]))]
      /\ pc' = [pc EXCEPT ![w] = p] /\ kind' = [kind EXCEPT ![w] = "success"]
      /\ at' = [at EXCEPT ![w] = Monitors[1]]
  BY DEF UnlockMonitor, WorkerAt, GoTo
<1>2. x \in MonitorSet /\ kind[w] \in Kinds BY DEF Typed
<1>3. p \in {"response", "idle"} BY <1>2 DEF AfterRegister, Kinds
<1>4. registered'[x]["completed"] = registered[x]["completed"] + 1
  <2>1. Plus(Completed, Outcome[kind[w]]) \in Status /\ Plus(Completed, Outcome[kind[w]])["completed"] = 1
    BY <1>2, CompletedValue, OutcomeValue, PlusValue DEF Counters
  <2>2. registered[x] \in Status BY <1>2 DEF Typed
  <2>3. registered'[x] = Plus(registered[x], Plus(Completed, Outcome[kind[w]]))
    BY <1>1, <1>2 DEF Typed
  <2> QED BY <2>1, <2>2, <2>3, PlusValue DEF Counters
<1>5. \A m \in MonitorSet \ {x} : registered'[m] = registered[m] BY <1>1 DEF Typed
<1>6. ~Busy(w)' BY <1>1, <1>3 DEF Busy, Typed, Registering
<1>7. \A v \in Workers \ {w} : at'[v] = at[v] /\ (Busy(v)' <=> Busy(v)) BY <1>1 DEF Busy, Typed
<1>8. \A m \in MonitorSet : Pending(m)' \subseteq Pending(m) \ {w} BY <1>6, <1>7 DEF Pending
<1>9. w \in Pending(x) BY <1>1 DEF Pending, Busy, Registering
<1>10. ASSUME NEW m \in MonitorSet
       PROVE  /\ IsFiniteSet(Pending(m)')
              /\ registered'[m]["completed"] + Cardinality(Pending(m)') <= operations'
  <2>1. IsFiniteSet(Pending(m)) BY DEF Numbered
  <2>2. /\ IsFiniteSet(Pending(m) \ {w}) /\ Cardinality(Pending(m)) \in Nat
        /\ Cardinality(Pending(m) \ {w}) \in Nat
        /\ Cardinality(Pending(m) \ {w}) <= Cardinality(Pending(m))
        /\ w \in Pending(m) => Cardinality(Pending(m) \ {w}) = Cardinality(Pending(m)) - 1
    BY <2>1, FS_RemoveElement, FS_Subset, FS_CardinalityType
  <2>3. /\ IsFiniteSet(Pending(m)') /\ Cardinality(Pending(m)') \in Nat
        /\ Cardinality(Pending(m)') <= Cardinality(Pending(m) \ {w})
    BY <1>8, <2>2, FS_Subset, FS_CardinalityType
  <2>4. registered[m]["completed"] \in Nat BY DEF Typed, Status, Counters
  <2>5. registered[m]["completed"] + Cardinality(Pending(m)) <= operations /\ operations \in Nat
    BY DEF Numbered
  <2>6. CASE m = x BY <2>6, <1>1, <1>4, <1>9, <2>2, <2>3, <2>4, <2>5
  <2>7. CASE m # x BY <2>7, <1>1, <1>5, <2>2, <2>3, <2>4, <2>5
  <2> QED BY <2>6, <2>7
<1> QED BY <1>1, <1>10 DEF Numbered

LEMMA StepNumbered ==
  ASSUME Typed, Numbered, [MonitoringNext]_vars
  PROVE  Numbered'
<1> USE MonitoringAssumption DEF MonitoringAssumption
<1> DEFINE Same == UNCHANGED <<registered, operations, pc, at, kind>>
<1>u. ASSUME Same PROVE Numbered' BY <1>u, NoneBegins DEF Pending, Busy, Numbered
<1>1. ASSUME NEW w \in Workers, Worker(w) PROVE Numbered'
  <2> DEFINE Moves(p) == pc' = [pc EXCEPT ![w] = p] /\ UNCHANGED <<registered, operations, at, kind>>
  <2>m. ASSUME NEW p, Moves(p), Busy(w)' => Busy(w) PROVE Numbered'
    <3>1. \A v \in Workers : Busy(v)' => Busy(v) BY <2>m DEF Busy, Typed
    <3>2. \A m \in MonitorSet : Pending(m)' \subseteq Pending(m) BY <3>1, <2>m DEF Pending
    <3> QED BY <2>m, <3>2, NoneBegins DEF Numbered
  <2>1. CASE LogError(w)
    <3>1. Moves("response") /\ Busy(w) BY <2>1 DEF LogError, GoTo, WorkerAt, statusVars, Busy
    <3> QED BY <2>m, <3>1
  <2>2. CASE LogResponse(w)
    <3>1. pc[w] = "response" /\ Moves(AfterResponse[kind[w]]) BY <2>2 DEF LogResponse, GoTo, WorkerAt, statusVars
    <3>2. kind[w] # "error" => AfterResponse[kind[w]] = "idle" BY DEF AfterResponse, Typed, Kinds
    <3>3. Busy(w)' => Busy(w) BY <3>1, <3>2 DEF Busy, Typed, Registering
    <3> QED BY <2>m, <3>1, <3>3
  <2>3. CASE getMonitor(w)
    <3>1. Moves("lock") /\ Busy(w) BY <2>3 DEF getMonitor, GoTo, WorkerAt, statusVars, Busy
    <3> QED BY <2>m, <3>1
  <2>4. CASE LockMonitor(w)
    <3>1. Moves("complete") /\ Busy(w) BY <2>4 DEF LockMonitor, GoTo, WorkerAt, Busy
    <3> QED BY <2>m, <3>1
  <2>5. CASE AddCompleted(w)
    <3>1. Moves("count") /\ Busy(w) BY <2>5 DEF AddCompleted, GoTo, WorkerAt, Busy, Registering
    <3> QED BY <2>m, <3>1
  <2>6. CASE AddOutcome(w)
    <3>1. Moves("unlock") /\ Busy(w) BY <2>6 DEF AddOutcome, GoTo, WorkerAt, Busy, Registering
    <3> QED BY <2>m, <3>1
  <2>7. CASE UnlockMonitor(w) BY <2>7, UnlockNumbered
  <2> QED BY <1>1, <2>1, <2>2, <2>3, <2>4, <2>5, <2>6, <2>7 DEF Worker
<1>2. ASSUME NEW w \in Workers, NEW m \in MonitorSet, NEW k \in Kinds, LogRequest(w, m, k)
      PROVE  Numbered'
  BY <1>2, RequestNumbered
<1>3. CASE DigestStep
  <2>1. Same
    BY <1>3 DEF DigestStep, newRound, DigestEnds, Wake, DigestInterrupted, LockSummary, ReadCompleted,
       ReadFailures, ReadErrors, RoundRead, digestRound, SkipMonitor, AuditSummary, EndSummary,
       EnterDetails, SkipItem, computeStandardDeviation, PrintItem, LeaveDetails, workerVars, statusVars
  <2> QED BY <1>u, <2>1
<1>4. CASE MainStep
  <2>1. Same BY <1>4 DEF MainStep, RunEnds, StopRunning, DeleteMonitors, JoinDigest, DeletePool,
                         workerVars, statusVars
  <2> QED BY <1>u, <2>1
<1>5. CASE LogAccept
  <2>1. /\ operations' = operations + 1 /\ operations < MaxOperations
        /\ UNCHANGED <<registered, pc, at, kind>>
    BY <1>5 DEF LogAccept, statusVars
  <2>2. operations' \in Nat /\ operations <= operations' /\ operations' <= MaxOperations
    BY <2>1 DEF Numbered
  <2>3. \A m \in MonitorSet : Pending(m)' \subseteq Pending(m) BY <2>1 DEF Pending, Busy
  <2> QED BY <2>1, <2>2, <2>3, NoneBegins
<1>6. CASE UseAfterDelete
  <2>1. Same BY <1>6 DEF UseAfterDelete, workerVars, statusVars
  <2> QED BY <1>u, <2>1
<1>7. ASSUME NEW t \in Threads, Thread(t) \/ Interrupted(t) PROVE Numbered'
  <2>1. Same BY <1>7 DEF Thread, Interrupted, workerVars, statusVars
  <2> QED BY <1>u, <2>1
<1>8. CASE UNCHANGED vars
  <2>1. Same BY <1>8 DEF vars, workerVars, statusVars
  <2> QED BY <1>u, <2>1
<1>9. CASE MonitoringNext
  BY <1>9, <1>1, <1>2, <1>3, <1>4, <1>5, <1>6, <1>7 DEF MonitoringNext
<1> QED BY <1>8, <1>9

-------------------------------------------------------------------------------
(* The digest thread's place, monitor and round.                           *)

LEMMA StepDigesting ==
  ASSUME IInv, IInv', SumInv, Digesting, [MonitoringNext]_vars
  PROVE  Digesting'
<1> USE MonitoringAssumption, LenNat DEF MonitoringAssumption
<1> DEFINE Same == UNCHANGED <<m_mutex, digest, it, m_round>>
<1>u. ASSUME Same PROVE Digesting' BY <1>u DEF Digesting
<1>0. it \in Nat \ {0} /\ it' \in Nat \ {0} BY DEF IInv, Typed
<1>1. ASSUME NEW w \in Workers, Worker(w) PROVE Digesting'
  <2>1. Same BY <1>1 DEF Worker, LogError, LogResponse, getMonitor, LockMonitor, AddCompleted, AddOutcome,
                         UnlockMonitor, digestVars
  <2> QED BY <1>u, <2>1
<1>2. ASSUME NEW w \in Workers, NEW m \in MonitorSet, NEW k \in Kinds, LogRequest(w, m, k)
      PROVE  Digesting'
  <2>1. Same BY <1>2 DEF LogRequest, digestVars
  <2> QED BY <1>u, <2>1
<1>3. CASE DigestStep
  <2> USE DEF Digesting, DigestAt, Deviating, More
  <2>1. CASE newRound \/ DigestEnds \/ Wake \/ DigestInterrupted
    BY <1>0, <2>1 DEF newRound, DigestEnds, Wake, DigestInterrupted
  <2>2. CASE LockSummary \/ RoundRead
    BY <1>0, <2>2 DEF LockSummary, RoundRead
  <2>3. CASE ReadCompleted BY <1>0, <2>3 DEF ReadCompleted
  <2>4. CASE ReadFailures \/ ReadErrors BY <1>0, <2>4 DEF ReadFailures, ReadErrors
  <2>5. CASE digestRound \/ SkipMonitor BY <1>0, <2>5 DEF digestRound, SkipMonitor
  <2>6. CASE AuditSummary \/ EndSummary BY <1>0, <2>6 DEF AuditSummary, EndSummary
  <2>7. ASSUME NEW d \in Details, EnterDetails(d) PROVE Digesting'
    BY <1>0, <2>7 DEF EnterDetails, Details, Enters, Items
  <2>8. ASSUME NEW d \in Details, SkipItem(d) PROVE Digesting'
    BY <1>0, <2>8 DEF SkipItem, Details, Items
  <2>9. ASSUME NEW d \in Details, computeStandardDeviation(d) PROVE Digesting'
    BY <1>0, <2>9 DEF computeStandardDeviation, Details, Items, Deviations
  <2>10. ASSUME NEW d \in Details, PrintItem(d) PROVE Digesting'
    BY <1>0, <2>10 DEF PrintItem, Details, Items, Deviations
  <2>11. ASSUME NEW d \in Details, LeaveDetails(d) PROVE Digesting'
    BY <1>0, <2>11 DEF LeaveDetails, Details, Items, Leaves
  <2> QED BY <1>3, <2>1, <2>2, <2>3, <2>4, <2>5, <2>6, <2>7, <2>8, <2>9, <2>10, <2>11 DEF DigestStep
<1>4. CASE MainStep
  <2>1. Same BY <1>4 DEF MainStep, RunEnds, StopRunning, DeleteMonitors, JoinDigest, DeletePool, digestVars
  <2> QED BY <1>u, <2>1
<1>5. CASE LogAccept
  <2>1. Same BY <1>5 DEF LogAccept, digestVars
  <2> QED BY <1>u, <2>1
<1>6. CASE UseAfterDelete
  <2>1. Same BY <1>6 DEF UseAfterDelete, digestVars
  <2> QED BY <1>u, <2>1
<1>7. ASSUME NEW t \in Threads, Thread(t) \/ Interrupted(t) PROVE Digesting'
  <2>1. Same BY <1>7 DEF Thread, Interrupted, digestVars
  <2> QED BY <1>u, <2>1
<1>8. CASE UNCHANGED vars
  <2>1. Same BY <1>8 DEF vars, digestVars
  <2> QED BY <1>u, <2>1
<1>9. CASE MonitoringNext
  BY <1>9, <1>1, <1>2, <1>3, <1>4, <1>5, <1>6, <1>7 DEF MonitoringNext
<1> QED BY <1>8, <1>9

-------------------------------------------------------------------------------
LEMMA InitTypeInv == Init => TypeInv
<1> SUFFICES ASSUME Init PROVE TypeInv OBVIOUS
<1> USE MonitoringAssumption DEF MonitoringAssumption
<1>1. Logging
  <2>1. frames = [t \in Threads |-> <<>>] /\ <<>> \in Seq(Frame) /\ Len(<<>>) = 0
    BY DEF Init, LoggerInit
  <2>2. frames \in [Threads -> Seq(Frame)] /\ \A t \in Threads : Len(frames[t]) = 0
    BY <2>1
  <2>3. /\ holder \in [Mutexes -> Threads \cup {Nobody}] /\ stay_running \in BOOLEAN
        /\ signals \in Nat /\ signals <= MaxSignals
    BY DEF Init, LoggerInit
  <2> QED BY <2>2, <2>3 DEF Logging
<1>2. Numbered
  <2>1. ASSUME NEW m \in MonitorSet
        PROVE  /\ IsFiniteSet(Pending(m))
               /\ registered[m]["completed"] + Cardinality(Pending(m)) <= operations
    <3>1. Pending(m) = {} BY DEF Pending, Busy, Init, Registering
    <3>2. registered[m]["completed"] = 0 BY ZeroValue DEF Init, Empty, Counters
    <3>3. IsFiniteSet({}) /\ Cardinality({}) = 0 BY FS_EmptySet
    <3> QED BY <3>1, <3>2, <3>3 DEF Init
  <2> QED BY <2>1 DEF Numbered, Init
<1>3. Digesting BY LenNat DEF Digesting, Init, Deviating
<1> QED BY <1>1, <1>2, <1>3 DEF TypeInv

(* the counters of a monitor stay within the operations                    *)
LEMMA CountersBounded ==
  ASSUME IInv, Numbered, NEW m \in MonitorSet, NEW c \in Counters
  PROVE  /\ current[m][c] \in 0 .. MaxOperations /\ aggregated[m][c] \in 0 .. MaxOperations
         /\ registered[m][c] \in 0 .. MaxOperations
<1> USE MonitoringAssumption DEF MonitoringAssumption
<1>1. PICK k \in [Counters -> Nat] :
        /\ k["completed"] = 0 \/ (k["completed"] = 1 /\ Pending(m) # {})
        /\ \A x \in Counters : aggregated[m][x] + current[m][x] = registered[m][x] + k[x]
  <2>1. CASE mutex[m] \notin Workers
    <3>1. Zero \in [Counters -> Nat] /\ \A x \in Counters : Zero[x] = 0 BY ZeroValue DEF Status
    <3>2. registered[m] \in [Counters -> Nat] BY DEF IInv, Typed, Status
    <3>3. \A x \in Counters : aggregated[m][x] + current[m][x] = registered[m][x] + Zero[x]
      BY <2>1, <3>1, <3>2 DEF IInv, Conserved, Free
    <3> QED BY <3>1, <3>3 DEF Counters
  <2>2. ASSUME NEW w \in Workers, mutex[m] = w
        PROVE  \E k \in [Counters -> Nat] :
                  /\ k["completed"] = 0 \/ (k["completed"] = 1 /\ Pending(m) # {})
                  /\ \A x \in Counters : aggregated[m][x] + current[m][x] = registered[m][x] + k[x]
    <3>1. Held(m, w) BY <2>2 DEF IInv, Conserved
    <3>2. w \in Pending(m) BY <3>1 DEF Held, Pending, Busy
    <3>3. kind[w] \in Kinds BY DEF IInv, Typed
    <3>4. Counted(w) \in [Counters -> Nat] /\ Counted(w)["completed"] \in {0, 1}
      <4>1. CASE pc[w] = "complete" BY <4>1, ZeroValue DEF Counted, Status, Counters
      <4>2. CASE pc[w] = "count" BY <4>2, CompletedValue DEF Counted, Status
      <4>3. CASE pc[w] = "unlock"
        <5>1. Plus(Completed, Outcome[kind[w]]) \in Status
              /\ Plus(Completed, Outcome[kind[w]])["completed"] = 1
          BY <3>3, CompletedValue, OutcomeValue, PlusValue DEF Counters
        <5> QED BY <4>3, <5>1 DEF Counted, Status
      <4> QED BY <3>1, <4>1, <4>2, <4>3 DEF Held, Registering
    <3>5. \A x \in Counters : Counted(w)[x] \in Nat BY <3>4
    <3> QED BY <3>1, <3>2, <3>4, <3>5 DEF Held
  <2> QED BY <2>1, <2>2
<1>2. PICK p \in Nat : p = Cardinality(Pending(m)) /\ (Pending(m) # {} => p >= 1)
  <2>1. IsFiniteSet(Pending(m)) BY DEF Numbered
  <2> QED BY <2>1, FS_CardinalityType, FS_EmptySet
<1>3. registered[m]["completed"] + p <= operations /\ operations \in Nat /\ operations <= MaxOperations
  BY <1>2 DEF Numbered
<1>4. PICK cur \in [Counters -> Nat], agg \in [Counters -> Nat], reg \in [Counters -> Nat] :
        cur = current[m] /\ agg = aggregated[m] /\ reg = registered[m]
  BY DEF IInv, Typed, Status
<1>5. \A x \in Counters : /\ k[x] \in Nat /\ cur[x] \in Nat /\ agg[x] \in Nat /\ reg[x] \in Nat
                          /\ agg[x] + cur[x] = reg[x] + k[x]
  BY <1>1, <1>4
<1>6. k["completed"] <= p BY <1>1, <1>2 DEF Counters
<1>7. reg["completed"] + p <= MaxOperations /\ MaxOperations \in Nat
  <2>1. reg["completed"] \in Nat /\ reg["completed"] + p <= operations BY <1>3, <1>4, <1>5 DEF Counters
  <2> QED BY <2>1, <1>2, <1>3
<1>8. agg["failures"] + agg["errors"] <= agg["completed"]
      /\ cur["failures"] + cur["errors"] <= cur["completed"]
  BY <1>4 DEF IInv, Bounded
<1>9. agg["completed"] + cur["completed"] <= MaxOperations
  BY ONLY <1>2, <1>5, <1>6, <1>7 DEF Counters
<1>10. agg[c] <= agg["completed"] /\ cur[c] <= cur["completed"] BY ONLY <1>5, <1>8, c \in Counters DEF Counters
<1>11. reg[c] <= agg[c] + cur[c] BY ONLY <1>5, c \in Counters
<1>12. cur[c] \in 0 .. MaxOperations /\ agg[c] \in 0 .. MaxOperations /\ reg[c] \in 0 .. MaxOperations
  BY ONLY <1>5, <1>7, <1>9, <1>10, <1>11, c \in Counters DEF Counters
<1> QED BY <1>4, <1>12

LEMMA StepTypeInv ==
  ASSUME IInv, SumInv, TypeInv, [MonitoringNext]_vars
  PROVE  TypeInv'
<1>1. IInv' BY StepInvariant
<1>2. Logging' BY StepLogs, LogsLogging DEF TypeInv
<1>3. Numbered' BY StepNumbered DEF TypeInv, IInv
<1>4. Digesting' BY <1>1, StepDigesting DEF TypeInv
<1> QED BY <1>2, <1>3, <1>4 DEF TypeInv

(* The counters of every monitor stay within the operations there were, a  *)
(* mutex is had by a thread that may have it, a line of the logger under   *)
(* way has the mutex it says, and the digest thread looks at no monitor    *)
(* behind the last, for any number of threads, monitors and operations.    *)
THEOREM MonitoringTyped == MonitoringSpec => []MonitoringTypeOK
<1> DEFINE I == IInv /\ SumInv /\ TypeInv
<1>1. Init => I BY InitInvariant, InitSums, InitTypeInv
<1>2. I /\ [MonitoringNext]_vars => I'
  <2> SUFFICES ASSUME I, [MonitoringNext]_vars PROVE I' OBVIOUS
  <2>1. IInv' /\ SumInv' BY StepInvariant, SumStep
  <2>2. TypeInv' BY StepTypeInv
  <2> QED BY <2>1, <2>2
<1>3. I => MonitoringTypeOK
  <2> SUFFICES ASSUME I PROVE MonitoringTypeOK OBVIOUS
  <2> USE MonitoringAssumption DEF MonitoringAssumption
  <2>1. current \in [MonitorSet -> Sums] /\ aggregated \in [MonitorSet -> Sums]
        /\ registered \in [MonitorSet -> Sums]
    <3>1. \A m \in MonitorSet, c \in Counters :
             /\ current[m][c] \in 0 .. MaxOperations /\ aggregated[m][c] \in 0 .. MaxOperations
             /\ registered[m][c] \in 0 .. MaxOperations
      BY CountersBounded DEF TypeInv
    <3> QED BY <3>1 DEF IInv, Typed, Status, Sums
  <2>2. \A t \in Threads : \A j \in 1 .. Len(frames[t]) :
           frames[t][j].mutex \in Mutexes /\ (frames[t][j].has => holder[frames[t][j].mutex] = t)
    BY FramesSeq DEF TypeInv, Logging, Frame
  <2>3. /\ operations \in 0 .. MaxOperations /\ signals \in 0 .. MaxSignals
        /\ it \in 1 .. Len(Monitors) + 1 /\ m_round \in 0 .. MaxRounds + 1
    BY LenNat DEF IInv, Typed, TypeInv, Logging, Numbered, Digesting
  <2> QED BY <2>1, <2>2, <2>3 DEF MonitoringTypeOK, IInv, Typed, TypeInv, Logging, Digesting, Places,
                                  Registering
<1> QED BY <1>1, <1>2, <1>3, PTL DEF MonitoringSpec

-------------------------------------------------------------------------------
(* Waiting in a circle.                                                    *)

WaitsLogger(t, x) == ~Running(t) /\ ~Top(t).has /\ Top(t).mutex = x
WaitsMonitor(t, m) ==
  /\ Running(t)
  /\ \/ t \in Workers /\ pc[t] = "lock" /\ at[t] = m
     \/ /\ t = Digest /\ More /\ Visited = m
        /\ digest \in {"endRound"} \cup {Items[d] : d \in Details}
WaitsSummary(t) == Running(t) /\ t \in Workers /\ pc[t] = "get"

(* t waits for a mutex that u has: that of the monitoring, of a monitor,   *)
(* of the audit file or of the log, in this order                          *)
Waits(t, u, rank) ==
  \/ rank = 1 /\ WaitsSummary(t) /\ m_mutex = u
  \/ rank = 2 /\ \E m \in MonitorSet : WaitsMonitor(t, m) /\ mutex[m] = u
  \/ rank = 3 /\ WaitsLogger(t, "audit") /\ holder["audit"] = u
  \/ rank = 4 /\ WaitsLogger(t, "log") /\ holder["log"] = u

(* Whoever has a mutex that another waits for waits himself only for one   *)
(* of a higher rank, but for a thread that a signal interrupted while it   *)
(* had the log mutex: its handler waits for the thread itself.             *)
NoCircle ==
  \A t, u, v \in Threads, r, s \in 1 .. 4 :
    Waits(t, u, r) /\ Waits(u, v, s) => r < s \/ (r = 4 /\ s = 4 /\ v = u)

(* who has a mutex of the logger has a frame that has it, and the audit    *)
(* file is written from a thread's own code                                *)
Frames ==
  /\ \A x \in Mutexes, t \in Threads : holder[x] = t =>
       \E j \in 1 .. Len(frames[t]) : frames[t][j].mutex = x /\ frames[t][j].has
  /\ \A t \in Threads : \A j \in 1 .. Len(frames[t]) : frames[t][j].mutex = "audit" => j = 1

(* the digest thread has a monitor where it computes a deviation only      *)
DigestHas == \A m \in MonitorSet : mutex[m] = Digest => digest \in Deviating /\ Monitors[it] = m

LEMMA NoCircleHolds ==
  ASSUME IInv, Logging, Digesting, Frames, DigestHas
  PROVE  NoCircle
<1> USE MonitoringAssumption DEF MonitoringAssumption
<1> SUFFICES ASSUME NEW t \in Threads, NEW u \in Threads, NEW v \in Threads,
                    NEW r \in 1 .. 4, NEW s \in 1 .. 4, Waits(t, u, r), Waits(u, v, s)
             PROVE  r < s \/ (r = 4 /\ s = 4 /\ v = u)
  BY DEF NoCircle
<1> DEFINE N == Len(frames[u])
<1>l. "log" \in Mutexes /\ "audit" \in Mutexes BY DEF Mutexes
<1>1. ASSUME NEW x \in Mutexes, holder[x] = u
      PROVE  /\ ~Running(u) /\ N \in Nat
             /\ \E j \in 1 .. N : frames[u][j].mutex = x /\ frames[u][j].has
  <2>1. PICK j \in 1 .. N : frames[u][j].mutex = x /\ frames[u][j].has BY <1>1 DEF Frames
  <2>2. frames[u] \in Seq(Frame) /\ N \in Nat BY FramesSeq
  <2>3. frames[u] # <<>> BY <2>1, <2>2
  <2> QED BY <2>1, <2>2, <2>3 DEF Running
(* who has a mutex of the logger does not wait for the audit file          *)
<1>2. ASSUME NEW x \in Mutexes, holder[x] = u, WaitsLogger(u, "audit") PROVE FALSE
  <2>1. PICK j \in 1 .. N : frames[u][j].has BY <1>1, <1>2
  <2>2. N \in Nat BY FramesSeq
  <2>3. N \in 1 .. N /\ frames[u][N].mutex = "audit" /\ ~frames[u][N].has
    BY <1>2, <2>1, <2>2 DEF WaitsLogger, Top
  <2>4. N = 1 BY <2>3 DEF Frames
  <2> QED BY <2>1, <2>3, <2>4
<1>3. s = 3 => WaitsLogger(u, "audit") BY DEF Waits
<1>4. s = 4 => v = holder["log"] BY DEF Waits
<1>5. s \in {1, 2} => Running(u) BY DEF Waits, WaitsSummary, WaitsMonitor
<1>6. CASE r = 4
  <2>1. holder["log"] = u BY <1>6 DEF Waits
  <2> QED BY <1>6, <1>l, <1>1, <1>2, <1>3, <1>4, <1>5, <2>1
<1>7. CASE r = 3
  <2>1. holder["audit"] = u BY <1>7 DEF Waits
  <2> QED BY <1>7, <1>l, <1>1, <1>2, <1>3, <1>5, <2>1
<1>8. CASE r = 2
  <2>1. PICK m \in MonitorSet : mutex[m] = u BY <1>8 DEF Waits
  <2>2. u \in Workers => pc[u] \in Registering BY <2>1 DEF IInv, Conserved, Held
  <2>3. u = Digest => digest \in Deviating BY <2>1 DEF DigestHas
  <2>4. ~WaitsSummary(u) BY <2>2, <2>3 DEF WaitsSummary, Registering
  <2>5. ASSUME NEW x \in MonitorSet PROVE ~WaitsMonitor(u, x)
    BY <2>2, <2>3 DEF WaitsMonitor, Registering, Deviating, Details, Items
  <2> QED BY <1>8, <2>4, <2>5 DEF Waits
<1>9. CASE r = 1
  <2>1. u = Digest BY <1>9 DEF Waits, Digesting
  <2> QED BY <1>9, <2>1 DEF Waits, WaitsSummary
<1> QED BY <1>6, <1>7, <1>8, <1>9

LEMMA EnterFrames ==
  ASSUME Logging, Frames, NEW t \in Threads, NEW x \in Mutexes, NEW h \in BOOLEAN, Enter(t, x, h),
         x = "audit" => Running(t)
  PROVE  Frames'
<1> USE MonitoringAssumption DEF MonitoringAssumption
<1> DEFINE N == Len(frames[t])
<1>1. PICK b \in BOOLEAN :
        /\ frames' = [frames EXCEPT ![t] = Append(@, [mutex |-> x, has |-> b, handler |-> h])]
        /\ b => holder' = [holder EXCEPT ![x] = t]
        /\ ~b => holder' = holder /\ holder[x] # Nobody
  BY DEF Enter
<1> DEFINE f == [mutex |-> x, has |-> b, handler |-> h]
<1>2. f \in Frame /\ f.mutex = x /\ f.has = b BY DEF Frame
<1> HIDE DEF f
<1>3. frames' = [frames EXCEPT ![t] = Append(frames[t], f)] BY <1>1 DEF f
<1>4. frames[t] \in Seq(Frame) /\ N \in Nat BY FramesSeq
<1>5. /\ Len(frames'[t]) = N + 1
      /\ frames'[t][N + 1] = f /\ \A j \in 1 .. N : frames'[t][j] = frames[t][j]
      /\ \A u \in Threads \ {t} : frames'[u] = frames[u]
  BY <1>2, <1>3, <1>4 DEF Logging
<1>6. ASSUME NEW y \in Mutexes, NEW u \in Threads, holder'[y] = u
      PROVE  \E j \in 1 .. Len(frames'[u]) : frames'[u][j].mutex = y /\ frames'[u][j].has
  <2>1. CASE holder[y] = u
    <3>1. PICK j \in 1 .. Len(frames[u]) : frames[u][j].mutex = y /\ frames[u][j].has
      BY <2>1 DEF Frames
    <3>2. j \in 1 .. Len(frames'[u]) /\ frames'[u][j] = frames[u][j] BY <1>4, <1>5
    <3> QED BY <3>1, <3>2
  <2>2. CASE holder[y] # u
    <3>1. y = x /\ u = t /\ b BY <2>2, <1>1, <1>6 DEF Logging
    <3>2. N + 1 \in 1 .. Len(frames'[t]) BY <1>4, <1>5
    <3>3. frames'[t][N + 1].mutex = y /\ frames'[t][N + 1].has BY <3>1, <1>2, <1>5
    <3> QED BY <3>1, <3>2, <3>3
  <2> QED BY <2>1, <2>2
<1>7. ASSUME NEW u \in Threads, NEW j \in 1 .. Len(frames'[u]), frames'[u][j].mutex = "audit"
      PROVE  j = 1
  <2>1. CASE u = t /\ j = N + 1
    <3>1. frames[t] = <<>> BY <2>1, <1>2, <1>5, <1>7 DEF Running
    <3> QED BY <2>1, <3>1
  <2>2. CASE u # t \/ j # N + 1
    <3>1. j \in 1 .. Len(frames[u]) /\ frames'[u][j] = frames[u][j] BY <2>2, <1>4, <1>5
    <3> QED BY <3>1, <1>7 DEF Frames
  <2> QED BY <2>1, <2>2
<1> QED BY <1>6, <1>7 DEF Frames

LEMMA LockFrames ==
  ASSUME Logging, Frames, NEW t \in Threads, Lock(t)
  PROVE  Frames'
<1> DEFINE N == Len(frames[t])  x == frames[t][N].mutex  f == [frames[t][N] EXCEPT !.has = TRUE]
<1>1. /\ frames[t] # <<>>
      /\ holder' = [holder EXCEPT ![x] = t]
      /\ frames' = [frames EXCEPT ![t][N].has = TRUE]
  BY DEF Lock, Running, Top
<1>2. frames[t] \in Seq(Frame) /\ N \in Nat \ {0} /\ frames[t][N] \in Frame
  BY <1>1, FramesSeq DEF Logging
<1>3. f.mutex = x /\ f.has /\ f \in Frame BY <1>2 DEF Frame
<1>4. frames' = [frames EXCEPT ![t] = [frames[t] EXCEPT ![N] = f]] BY <1>1, <1>2 DEF Logging
<1> HIDE DEF f
<1>5. /\ Len(frames'[t]) = N /\ frames'[t][N] = f
      /\ \A j \in 1 .. N - 1 : frames'[t][j] = frames[t][j]
      /\ \A u \in Threads \ {t} : frames'[u] = frames[u]
  <2>1. frames'[t] = [frames[t] EXCEPT ![N] = f] BY <1>4 DEF Logging
  <2>2. Len([frames[t] EXCEPT ![N] = f]) = N BY <1>2, <1>3
  <2> QED BY <1>2, <1>4, <2>1, <2>2 DEF Logging
<1>6. \A u \in Threads : \A j \in 1 .. Len(frames[u]) :
        /\ j \in 1 .. Len(frames'[u]) /\ frames'[u][j].mutex = frames[u][j].mutex
        /\ frames[u][j].has => frames'[u][j].has
  <2> SUFFICES ASSUME NEW u \in Threads, NEW j \in 1 .. Len(frames[u])
               PROVE  /\ j \in 1 .. Len(frames'[u]) /\ frames'[u][j].mutex = frames[u][j].mutex
                      /\ frames[u][j].has => frames'[u][j].has
    OBVIOUS
  <2>1. CASE u # t BY <2>1, <1>5
  <2>2. CASE u = t /\ j = N BY <2>2, <1>3, <1>5
  <2>3. CASE u = t /\ j # N
    <3>1. j \in 1 .. N - 1 BY <2>3, <1>2
    <3> QED BY <2>3, <3>1, <1>5, <1>2
  <2> QED BY <2>1, <2>2, <2>3
<1>7. \A u \in Threads : Len(frames'[u]) = Len(frames[u]) BY <1>5
<1>8. ASSUME NEW y \in Mutexes, NEW u \in Threads, holder'[y] = u
      PROVE  \E j \in 1 .. Len(frames'[u]) : frames'[u][j].mutex = y /\ frames'[u][j].has
  <2>1. CASE holder[y] = u
    <3>1. PICK j \in 1 .. Len(frames[u]) : frames[u][j].mutex = y /\ frames[u][j].has
      BY <2>1 DEF Frames
    <3> QED BY <3>1, <1>6
  <2>2. CASE holder[y] # u
    <3>1. y = x /\ u = t BY <2>2, <1>1, <1>8 DEF Logging
    <3> QED BY <3>1, <1>2, <1>3, <1>5
  <2> QED BY <2>1, <2>2
<1> QED BY <1>6, <1>7, <1>8 DEF Frames

LEMMA UnlockFrames ==
  ASSUME Logging, Frames, NEW t \in Threads, Unlock(t)
  PROVE  Frames'
<1> USE MonitoringAssumption DEF MonitoringAssumption
<1> DEFINE N == Len(frames[t])  x == frames[t][N].mutex
<1>1. /\ frames[t] # <<>> /\ frames[t][N].has
      /\ holder' = [holder EXCEPT ![x] = Nobody]
      /\ frames' = [frames EXCEPT ![t] = SubSeq(frames[t], 1, N - 1)]
  BY DEF Unlock, Running, Top
<1>2. frames[t] \in Seq(Frame) /\ N \in Nat \ {0} /\ frames[t][N] \in Frame
  BY <1>1, FramesSeq DEF Logging
<1>3. x \in Mutexes BY <1>2 DEF Frame
<1>4. /\ Len(frames'[t]) = N - 1
      /\ \A j \in 1 .. N - 1 : frames'[t][j] = frames[t][j]
      /\ \A u \in Threads \ {t} : frames'[u] = frames[u]
  <2>1. /\ Len(SubSeq(frames[t], 1, N - 1)) = N - 1
        /\ \A j \in 1 .. N - 1 : SubSeq(frames[t], 1, N - 1)[j] = frames[t][j]
    BY <1>2
  <2> QED BY <1>1, <2>1 DEF Logging
<1>5. ASSUME NEW y \in Mutexes, NEW u \in Threads, holder'[y] = u
      PROVE  \E j \in 1 .. Len(frames'[u]) : frames'[u][j].mutex = y /\ frames'[u][j].has
  <2>1. y # x /\ holder[y] = u BY <1>1, <1>3, <1>5 DEF Logging
  <2>2. PICK j \in 1 .. Len(frames[u]) : frames[u][j].mutex = y /\ frames[u][j].has
    BY <2>1 DEF Frames
  <2>3. CASE u # t BY <2>2, <2>3, <1>4
  <2>4. CASE u = t
    <3>1. j # N BY <2>1, <2>2, <2>4
    <3>2. j \in 1 .. N - 1 BY <3>1, <2>4, <1>2
    <3> QED BY <2>2, <2>4, <3>2, <1>4
  <2> QED BY <2>3, <2>4
<1>6. ASSUME NEW u \in Threads, NEW j \in 1 .. Len(frames'[u]), frames'[u][j].mutex = "audit"
      PROVE  j = 1
  <2>1. j \in 1 .. Len(frames[u]) /\ frames'[u][j] = frames[u][j] BY <1>2, <1>4
  <2> QED BY <2>1, <1>6 DEF Frames
<1> QED BY <1>5, <1>6 DEF Frames

LEMMA LogsFrames ==
  ASSUME Logging, Frames, UNCHANGED logVars \/ \E t \in Threads : Logs(t)
  PROVE  Frames'
<1>1. CASE UNCHANGED logVars BY <1>1 DEF Frames, logVars
<1>2. ASSUME NEW t \in Threads, Logs(t) PROVE Frames'
  <2>1. ASSUME NEW x \in Mutexes, NEW h \in BOOLEAN, Enter(t, x, h), x = "audit" => Running(t)
        PROVE  Frames'
    BY <2>1, EnterFrames
  <2>2. CASE Lock(t) BY <2>2, LockFrames
  <2>3. CASE Unlock(t) BY <2>3, UnlockFrames
  <2>4. CASE Signal(t)
    <3>1. CASE Enter(t, "log", TRUE) BY <3>1, <2>1 DEF Mutexes
    <3>2. CASE UNCHANGED <<holder, frames>> BY <3>2 DEF Frames
    <3> QED BY <2>4, <3>1, <3>2 DEF Signal
  <2> QED BY <1>2, <2>1, <2>2, <2>3, <2>4 DEF Logs
<1> QED BY <1>1, <1>2

LEMMA StepDigestHas ==
  ASSUME IInv, IInv', DigestHas, [MonitoringNext]_vars
  PROVE  DigestHas'
<1> USE MonitoringAssumption DEF MonitoringAssumption
<1> DEFINE Same == UNCHANGED <<mutex, digest, it>>
<1>u. ASSUME Same PROVE DigestHas' BY <1>u DEF DigestHas
<1>1. ASSUME NEW w \in Workers, Worker(w) PROVE DigestHas'
  <2>1. CASE LogError(w) \/ LogResponse(w) \/ getMonitor(w) \/ AddCompleted(w) \/ AddOutcome(w)
    BY <1>u, <2>1 DEF LogError, LogResponse, getMonitor, AddCompleted, AddOutcome, statusVars, digestVars
  <2>2. CASE LockMonitor(w) \/ UnlockMonitor(w)
    <3>1. at[w] \in MonitorSet /\ UNCHANGED <<digest, it>>
      BY <2>2 DEF IInv, Typed, LockMonitor, UnlockMonitor, digestVars
    <3>2. \A m \in MonitorSet : mutex'[m] = Digest => mutex[m] = Digest
      BY <2>2, <3>1 DEF LockMonitor, UnlockMonitor, IInv, Typed
    <3> QED BY <3>1, <3>2 DEF DigestHas
  <2> QED BY <1>1, <2>1, <2>2 DEF Worker
<1>2. ASSUME NEW w \in Workers, NEW m \in MonitorSet, NEW k \in Kinds, LogRequest(w, m, k)
      PROVE  DigestHas'
  <2>1. Same BY <1>2 DEF LogRequest, statusVars, digestVars
  <2> QED BY <1>u, <2>1
<1>3. CASE DigestStep
  <2> USE DEF DigestAt, Deviating
  <2>0. digest \notin Deviating => \A m \in MonitorSet : mutex[m] # Digest BY DEF DigestHas
  <2>e. ASSUME digest \notin Deviating, mutex' = mutex PROVE DigestHas' BY <2>0, <2>e DEF DigestHas
  <2>1. CASE \/ newRound \/ DigestEnds \/ Wake \/ DigestInterrupted
             \/ LockSummary \/ ReadCompleted \/ ReadFailures \/ ReadErrors \/ RoundRead
             \/ digestRound \/ SkipMonitor \/ AuditSummary \/ EndSummary
    BY <2>1, <2>e DEF newRound, DigestEnds, Wake, DigestInterrupted, LockSummary, ReadCompleted,
       ReadFailures, ReadErrors, RoundRead, digestRound, SkipMonitor, AuditSummary, EndSummary, statusVars
  <2>2. ASSUME NEW d \in Details, EnterDetails(d) \/ SkipItem(d) \/ LeaveDetails(d) PROVE DigestHas'
    BY <2>2, <2>e DEF EnterDetails, SkipItem, LeaveDetails, Details, Enters, Items, statusVars
  <2>3. ASSUME NEW d \in Details, computeStandardDeviation(d) PROVE DigestHas'
    <3>1. /\ digest \notin Deviating /\ digest' \in Deviating /\ it' = it
          /\ mutex' = [mutex EXCEPT ![Visited] = Digest]
      BY <2>3 DEF computeStandardDeviation, Details, Items, Deviations
    <3>2. \A m \in MonitorSet : mutex'[m] = Digest => m = Visited BY <2>0, <3>1 DEF IInv, Typed
    <3> QED BY <3>1, <3>2 DEF DigestHas, Visited
  <2>4. ASSUME NEW d \in Details, PrintItem(d) PROVE DigestHas'
    <3>1. mutex' = [mutex EXCEPT ![Visited] = Nobody] BY <2>4 DEF PrintItem
    <3>2. \A m \in MonitorSet : mutex[m] = Digest => m = Visited BY DEF DigestHas, Visited
    <3>3. \A m \in MonitorSet : mutex'[m] # Digest BY <3>1, <3>2 DEF IInv, Typed
    <3> QED BY <3>3 DEF DigestHas
  <2> QED BY <1>3, <2>1, <2>2, <2>3, <2>4 DEF DigestStep
<1>4. CASE MainStep
  <2>1. Same BY <1>4 DEF MainStep, RunEnds, StopRunning, DeleteMonitors, JoinDigest, DeletePool,
                         statusVars, digestVars
  <2> QED BY <1>u, <2>1
<1>5. CASE LogAccept
  <2>1. Same BY <1>5 DEF LogAccept, statusVars, digestVars
  <2> QED BY <1>u, <2>1
<1>6. CASE UseAfterDelete
  <2>1. Same BY <1>6 DEF UseAfterDelete, statusVars, digestVars
  <2> QED BY <1>u, <2>1
<1>7. ASSUME NEW t \in Threads, Thread(t) \/ Interrupted(t) PROVE DigestHas'
  <2>1. Same BY <1>7 DEF Thread, Interrupted, statusVars, digestVars
  <2> QED BY <1>u, <2>1
<1>8. CASE UNCHANGED vars
  <2>1. Same BY <1>8 DEF vars, statusVars, digestVars
  <2> QED BY <1>u, <2>1
<1>9. CASE MonitoringNext
  BY <1>9, <1>1, <1>2, <1>3, <1>4, <1>5, <1>6, <1>7 DEF MonitoringNext
<1> QED BY <1>8, <1>9

(* No request waits in a circle, for any number of workers, of monitors    *)
(* and of signals: the mutexes of the monitoring, of a monitor, of the     *)
(* audit file and of the log are taken in this order, and the one circle   *)
(* there can be is a thread that a signal interrupted while it had the log *)
(* mutex, and whose handler logs (digestRound, computeStandardDeviation,   *)
(* srmlogit, sigint_handler).                                              *)
THEOREM WaitsAscend == MonitoringSpec => []NoCircle
<1> DEFINE I == IInv /\ SumInv /\ TypeInv /\ Frames /\ DigestHas
<1>1. Init => I
  <2> SUFFICES ASSUME Init PROVE I OBVIOUS
  <2>1. IInv /\ SumInv /\ TypeInv BY InitInvariant, InitSums, InitTypeInv
  <2>2. Frames
    <3>1. \A x \in Mutexes : holder[x] = Nobody BY DEF Init, LoggerInit
    <3>2. frames = [t \in Threads |-> <<>>] /\ <<>> \in Seq(Frame) /\ Len(<<>>) = 0
      BY DEF Init, LoggerInit
    <3>3. \A t \in Threads : Len(frames[t]) = 0 BY <3>2
    <3> QED BY <3>1, <3>3, MonitoringAssumption DEF Frames, MonitoringAssumption
  <2>3. DigestHas BY MonitoringAssumption DEF DigestHas, Init, MonitoringAssumption
  <2> QED BY <2>1, <2>2, <2>3
<1>2. I /\ [MonitoringNext]_vars => I'
  <2> SUFFICES ASSUME I, [MonitoringNext]_vars PROVE I' OBVIOUS
  <2>1. IInv' /\ SumInv' BY StepInvariant, SumStep
  <2>2. TypeInv' BY StepTypeInv
  <2>3. Frames' BY StepLogs, LogsFrames DEF TypeInv
  <2>4. DigestHas' BY <2>1, StepDigestHas
  <2> QED BY <2>1, <2>2, <2>3, <2>4
<1>3. I => NoCircle BY NoCircleHolds DEF TypeInv
<1> QED BY <1>1, <1>2, <1>3, PTL DEF MonitoringSpec
===============================================================================
