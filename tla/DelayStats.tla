----------------------------- MODULE DelayStats -----------------------------
(***************************************************************************)
(* The average delay from which a pool decides to grow or to shrink        *)
(* (vm_instances_manager.go: useCount, totalDelay, getAverageDelay,        *)
(* shouldGrow, shouldShrink and the refresh timer).  The two counters are  *)
(* int32 values that every transaction adds to and the refreshing loop     *)
(* reads and clears, each access atomic and any two of them apart.         *)
(*                                                                         *)
(* The pool modelled has between defaultMinSize and defaultMaxSize -       *)
(* defaultChangeSize instances and few applications: the average alone     *)
(* decides.  VmPool has the sizes, and leaves the average open.            *)
(***************************************************************************)
EXTENDS Integers, FiniteSets

CONSTANTS
  Client,     \* goroutines that call GetInstance
  MaxWait,    \* bound: the longest wait, in ms
  MaxBack,    \* bound: ms the wall clock is set back during a wait
  Tolerance,  \* defaultDelayTolerance in ms (10)
  UnitPerMs,  \* what one ms is in the unit of time.Duration (10^6)
  Half,       \* 2^31: counters range over -Half..Half-1
  MaxUses     \* bound: uses between two refreshes

ASSUME StatsAssumption ==
  /\ IsFiniteSet(Client)
  /\ MaxWait \in Nat /\ MaxBack \in Nat /\ Tolerance \in Nat /\ UnitPerMs \in Nat \ {0}
  /\ Half \in Nat \ {0} /\ MaxUses \in Nat

VARIABLES
  useCount,     \* p.useCount
  totalDelay,   \* p.totalDelay
  wait,         \* "none", or whether the use of a waiting client is counted
  loop,         \* where startRefreshingLoop is
  refreshing,   \* whether the loop serves the refresh timer
  loadedDelay,  \* delay, the local variable of getAverageDelay
  average,      \* the average the last decision was made on
  decision,     \* what was decided on it
  uncounted     \* history: waits in totalDelay whose use is not in useCount

statVars  == <<useCount, totalDelay, uncounted>>
loopVars  == <<loop, refreshing, loadedDelay, average, decision>>
delayVars == <<statVars, wait, loopVars>>

-----------------------------------------------------------------------------
(* int32 arithmetic: what does not fit wraps around; / truncates. *)
Wrap(n) == ((n + Half) % (2 * Half)) - Half

Abs(n) == IF n < 0 THEN -n ELSE n

Quotient(a, b) ==
  LET q == Abs(a) \div Abs(b)
  IN Wrap(IF (a < 0) = (b < 0) THEN q ELSE -q)

AverageDelay(delay, count) == IF count = 0 THEN 0 ELSE Quotient(delay, count)

(* getAverageDelay() > int32(defaultDelayTolerance): the constant is a      *)
(* time.Duration, so its value is a number of nanoseconds.                  *)
ExceedsTolerance(avg) == avg > Tolerance * UnitPerMs

-----------------------------------------------------------------------------
Init ==
  /\ useCount = 0 /\ totalDelay = 0 /\ uncounted = 0
  /\ wait = [c \in Client |-> "none"]
  /\ loop = "select" /\ refreshing = FALSE
  /\ loadedDelay = 0 /\ average = 0 /\ decision = "none"

(* Fault: only a use that need not wait is counted. *)
UseCountedIfFast(c) ==
  /\ wait[c] = "none" /\ useCount < MaxUses
  /\ \/ useCount' = Wrap(useCount + 1) /\ wait' = wait
     \/ useCount' = useCount /\ wait' = [wait EXCEPT ![c] = "counted"]
  /\ UNCHANGED <<totalDelay, uncounted, loopVars>>

(* GetInstance counts the use, and has an instance at once or waits. *)
Use(c) ==
  /\ wait[c] = "none" /\ useCount < MaxUses
  /\ useCount' = Wrap(useCount + 1)
  /\ wait' \in {wait, [wait EXCEPT ![c] = "counted"]}
  /\ UNCHANGED <<totalDelay, uncounted, loopVars>>

(* GetInstance has waited, and adds how long by the wall clock. *)
AddDelay(c) ==
  /\ wait[c] # "none"
  /\ \E elapsed \in (-MaxBack)..MaxWait : totalDelay' = Wrap(totalDelay + elapsed)
  /\ uncounted' = IF wait[c] = "straggler" THEN uncounted + 1 ELSE uncounted
  /\ wait' = [wait EXCEPT ![c] = "none"]
  /\ UNCHANGED <<useCount, loopVars>>

(* GetInstance has received nil, because an instance could not be made or   *)
(* the pool is closed: it panics before it adds anything.                   *)
WaitBreaks(c) ==
  /\ wait[c] # "none"
  /\ wait' = [wait EXCEPT ![c] = "none"]
  /\ UNCHANGED <<statVars, loopVars>>

(* The loop starts to evaluate shouldGrow, for a signal or the timer. *)
Wake(timer) ==
  /\ loop = "select"
  /\ loop' = "growLoad" /\ refreshing' = timer
  /\ UNCHANGED <<statVars, wait, loadedDelay, average, decision>>

(* getAverageDelay: delay := atomic.LoadInt32(&p.totalDelay) *)
LoadDelay ==
  /\ loop \in {"growLoad", "shrinkLoad"}
  /\ loadedDelay' = totalDelay
  /\ loop' = IF loop = "growLoad" THEN "growDecide" ELSE "shrinkDecide"
  /\ UNCHANGED <<statVars, wait, refreshing, average, decision>>

(* Fault: the average is a sum. *)
DecideGrowOnTotal ==
  /\ loop = "growDecide"
  /\ average' = loadedDelay
  /\ decision' = IF ExceedsTolerance(average') THEN "grow" ELSE "keep"
  /\ loop' = IF ~refreshing THEN "select"
             ELSE IF decision' = "grow" THEN "storeCount" ELSE "shrinkLoad"
  /\ UNCHANGED <<statVars, wait, refreshing, loadedDelay>>

(* The rest of getAverageDelay, and shouldGrow. *)
DecideGrow ==
  /\ loop = "growDecide"
  /\ average' = AverageDelay(loadedDelay, useCount)
  /\ decision' = IF ExceedsTolerance(average') THEN "grow" ELSE "keep"
  /\ loop' = IF ~refreshing THEN "select"
             ELSE IF decision' = "grow" THEN "storeCount" ELSE "shrinkLoad"
  /\ UNCHANGED <<statVars, wait, refreshing, loadedDelay>>

(* The same for shouldShrink, which loads both counters again. *)
DecideShrink ==
  /\ loop = "shrinkDecide"
  /\ average' = AverageDelay(loadedDelay, useCount)
  /\ decision' = IF ExceedsTolerance(average') THEN "keep" ELSE "shrink"
  /\ loop' = "storeCount"
  /\ UNCHANGED <<statVars, wait, refreshing, loadedDelay>>

(* Uses counted so far are forgotten; their waits may still be going on. *)
StoreCount ==
  /\ loop = "storeCount"
  /\ useCount' = 0
  /\ wait' = [c \in Client |-> IF wait[c] = "none" THEN "none" ELSE "straggler"]
  /\ loop' = "storeDelay"
  /\ UNCHANGED <<totalDelay, uncounted, refreshing, loadedDelay, average, decision>>

(* Fault: the total delay is not cleared. *)
StoreDelayForgotten ==
  /\ loop = "storeDelay"
  /\ uncounted' = 0
  /\ loop' = "select"
  /\ UNCHANGED <<useCount, totalDelay, wait, refreshing, loadedDelay, average,
                 decision>>

StoreDelay ==
  /\ loop = "storeDelay"
  /\ totalDelay' = 0 /\ uncounted' = 0
  /\ loop' = "select"
  /\ UNCHANGED <<useCount, wait, refreshing, loadedDelay, average, decision>>

Next ==
  \/ \E c \in Client : Use(c) \/ AddDelay(c) \/ WaitBreaks(c)
  \/ \E timer \in BOOLEAN : Wake(timer)
  \/ LoadDelay \/ DecideGrow \/ DecideShrink \/ StoreCount \/ StoreDelay

Spec == Init /\ [][Next]_delayVars

-----------------------------------------------------------------------------
(* The wall clock is not set back, and the counters can hold every delay    *)
(* that can add up until it is cleared: of the uses counted since useCount  *)
(* was cleared, of the uses before that, which can still wait, and of those *)
(* between the two stores.                                                  *)
DelaysFit ==
  /\ MaxBack = 0
  /\ MaxUses < Half
  /\ MaxWait * (2 * MaxUses + Cardinality(Client)) < Half

Counted == {c \in Client : wait[c] = "counted"}

(* Every variable keeps its type; unless a counter overflows or the clock   *)
(* is set back none is ever negative, which shouldGrow and shouldShrink     *)
(* would take for idleness.                                                 *)
StatsTypeOK ==
  /\ useCount \in (-Half)..(Half - 1) /\ totalDelay \in (-Half)..(Half - 1)
  /\ wait \in [Client -> {"none", "counted", "straggler"}]
  /\ loop \in {"select", "growLoad", "growDecide", "shrinkLoad", "shrinkDecide",
               "storeCount", "storeDelay"}
  /\ refreshing \in BOOLEAN
  /\ loadedDelay \in (-Half)..(Half - 1) /\ average \in (-Half)..(Half - 1)
  /\ decision \in {"none", "grow", "keep", "shrink"}
  /\ uncounted \in Nat
  /\ DelaysFit => useCount >= 0 /\ totalDelay >= 0 /\ average >= 0

(* Whenever the loop may read them, the counters account for each other:    *)
(* the delays come from uses that are counted and are over, and from waits  *)
(* that had begun before the last refresh.                                  *)
DelayAccounted ==
  DelaysFit /\ loop # "storeDelay" =>
    totalDelay <= MaxWait * (useCount - Cardinality(Counted) + uncounted)

(* Although both loads race with the transactions, the average a decision   *)
(* is made on is no longer than the longest wait, unless a wait that began  *)
(* before the last refresh ended after it.                                  *)
AverageHonest ==
  [][DelaysFit /\ uncounted = 0 /\ average' # average
       => average' <= MaxWait]_delayVars

(* "if get instance avg time greater than this value, should grow pool" *)
SlowPoolGrows ==
  decision # "none" /\ average > Tolerance => decision = "grow"

=============================================================================
