------------------------------- MODULE VmPool -------------------------------
(***************************************************************************)
(* The pool of wasmer instances that serves one contract version           *)
(* (vm_instances_manager.go, type vmPool), with everything that touches    *)
(* it: the transactions that borrow an instance (runtime.go, Invoke), the  *)
(* refreshing loop that grows, shrinks, resets and closes the pool, the    *)
(* goroutines grow starts, the goroutines that discard a failing instance, *)
(* and the manager's calls of reset and close.                             *)
(*                                                                         *)
(* Abstractions.  The channel p.instances is a set of instances plus a     *)
(* number of nil entries: its FIFO order is not told apart.  The average   *)
(* delay read by shouldGrow and shouldShrink is an arbitrary choice        *)
(* (module DelayStats models it).  errCount and applyGrowCount saturate    *)
(* one above the threshold they are compared with.                         *)
(***************************************************************************)
EXTENDS Integers, FiniteSets

CONSTANTS
  Client,         \* goroutines that run RuntimeInstance.Invoke
  Instance,       \* identities of wrappedInstance values
  NoInstance,     \* the nil *wrappedInstance
  MinSize,        \* defaultMinSize
  ChangeSize,     \* defaultChangeSize
  MaxSize,        \* defaultMaxSize, also the capacity of the channel
  BatchSize,      \* goroutines that grow starts at a time (10 in the code)
  ApplyThreshold, \* defaultApplyThreshold
  DiscardCount,   \* defaultDiscardCount
  Outcome,        \* how a call of a contract may end in this environment
  MayFail,        \* whether the module may fail to instantiate or to deallocate
  MayNest,        \* whether cross-contract calls (depth > 0) occur
  MayClose,       \* whether CloseAVmPool is called
  MaxResets,      \* bound: calls of ResetAVmPool
  MaxSignals,     \* bound: apply-signal goroutines alive at a time
  MaxDiscards     \* bound: calls fail only while fewer have been discarded

ASSUME SizeAssumption ==
  /\ MinSize \in Nat \ {0}
  /\ ChangeSize \in Nat \ {0}
  /\ MaxSize \in Nat \ {0}
  /\ BatchSize \in Nat \ {0}
  /\ MinSize + ChangeSize <= MaxSize
  /\ ApplyThreshold \in Nat
  /\ DiscardCount \in Nat

ASSUME EnvironmentAssumption ==
  /\ IsFiniteSet(Client)
  /\ IsFiniteSet(Instance)
  /\ NoInstance \notin Instance
  /\ Outcome \subseteq {"ok", "err", "panic"}
  /\ MayFail \in BOOLEAN
  /\ MayNest \in BOOLEAN
  /\ MayClose \in BOOLEAN
  /\ MaxResets \in Nat
  /\ MaxSignals \in Nat
  /\ MaxDiscards \in Nat

VARIABLES
  instances,      \* non-nil entries of the channel p.instances
  nils,           \* nil entries of that channel
  closed,         \* whether the channel p.instances points to is closed
  currentSize,    \* p.currentSize
  applyGrowCount, \* p.applyGrowCount, saturating
  applySenders,   \* goroutines blocked sending on applySignalC
  loop,           \* where startRefreshingLoop is
  shrinkLeft,     \* instances shrink has still to take
  growTodo,       \* instances grow has still to start a goroutine for
  growPending,    \* goroutines of the batch that have not sent yet
  growSent,       \* goroutines that have sent but not yet counted
  resetSenders,   \* callers of reset blocked on resetC
  resetCalls,     \* calls of reset so far (bounded by MaxResets)
  closeC,         \* whether p.closeC is closed
  pc,             \* where each client is in Invoke
  inst,           \* instanceInfo of each client
  errCount,       \* errCount of each instance, saturating
  live,           \* instances that were created and not closed
  removing,       \* discard goroutines blocked on removeInstanceC
  adding,         \* discard goroutines blocked on addInstanceC
  disposing,      \* discard goroutines about to call CloseInstance
  lostNils,       \* history: nil entries taken from the channel
  discards        \* history: instances handed to a discard goroutine

chanVars    == <<instances, nils, closed>>
loopVars    == <<loop, shrinkLeft, applyGrowCount>>
growVars    == <<growTodo, growPending, growSent>>
callVars    == <<resetSenders, resetCalls, closeC>>
clientVars  == <<pc, inst>>
discardVars == <<removing, adding, disposing, discards>>

vars == <<chanVars, currentSize, applySenders, loopVars, growVars, callVars,
          clientVars, errCount, live, discardVars, lostNils>>

-----------------------------------------------------------------------------
(* Helpers *)

GrowStates  == {"init", "growSignal", "growReset", "growAdd"}
DrainStates == {"resetting", "closing"}
LoopStates  == GrowStates \cup DrainStates
                 \cup {"select", "shrinking", "swapping", "stopped", "crashed"}

(* A client that holds an instance of the pool, and one that holds any. *)
BorrowStates == {"running", "reverting", "revertingPanic"}
HoldStates   == BorrowStates \cup {"nested"}
ClientStates == HoldStates \cup {"idle", "applying", "waiting", "failed", "late"}

Borrowers == {c \in Client : pc[c] \in BorrowStates}
Holders   == {c \in Client : pc[c] \in HoldStates}

Saturate(n, top) == IF n > top THEN top ELSE n

(* instance.errCount++ *)
Bump(i) == Saturate(errCount[i] + 1, DiscardCount + 1)

(* A new wrappedInstance: an identity nothing refers to. *)
Fresh(i) == i \notin live /\ \A c \in Client : inst[c] # i

(* A send on the buffered channel p.instances does not block. *)
HasRoom == Cardinality(instances) + nils < MaxSize

ShouldDiscard(n) == n > DiscardCount

(* Fault: the pool is grown without regard to defaultMaxSize. *)
GrowUnlimited(applied, slow) ==
  currentSize < MinSize \/ applied > ApplyThreshold \/ slow

(* slow stands for getAverageDelay() > int32(defaultDelayTolerance). *)
ShouldGrow(applied, slow) ==
  \/ currentSize < MinSize
  \/ /\ currentSize + ChangeSize <= MaxSize
     /\ applied > ApplyThreshold \/ slow

ShouldShrink(slow) ==
  currentSize > MinSize /\ ~slow /\ currentSize > ChangeSize

(* getVmPool has stored the pool in the manager's map. *)
Published == loop # "init"

(* Fault: a drain stops when the channel is empty. *)
DrainedWhenEmpty == instances = {} /\ nils = 0

(* Fault: off by one, for p.currentSize >= 0. *)
DrainedBelowZero == currentSize < 0

(* The loop condition of the two drains: for p.currentSize > 0. *)
Drained == currentSize = 0

-----------------------------------------------------------------------------
(* newVmPool, followed by the first grow of getVmPool: the pool is not in   *)
(* the manager's map yet, so no client and no caller can reach it, and the  *)
(* loop that newVmPool started has nothing to select.                       *)

Init ==
  /\ instances = {} /\ nils = 0 /\ closed = FALSE
  /\ currentSize = 0
  /\ applyGrowCount = 0 /\ applySenders = 0
  /\ loop = "init" /\ shrinkLeft = 0
  /\ growTodo = MinSize /\ growPending = 0 /\ growSent = 0
  /\ resetSenders = 0 /\ resetCalls = 0 /\ closeC = FALSE
  /\ pc = [c \in Client |-> "idle"]
  /\ inst = [c \in Client |-> NoInstance]
  /\ errCount = [i \in Instance |-> 0]
  /\ live = {} /\ removing = {} /\ adding = {} /\ disposing = {}
  /\ lostNils = 0 /\ discards = 0

-----------------------------------------------------------------------------
(* A transaction: GetInstance, the call, RevertInstance (Invoke, GetInstance,*)
(* RevertInstance, NewInstance, CloseInstance).                              *)

(* The receive of GetInstance yields instance i, at once or after waiting. *)
Borrow(c, i) ==
  /\ i \in instances
  /\ instances' = instances \ {i}
  /\ pc' = [pc EXCEPT ![c] = "running"]
  /\ inst' = [inst EXCEPT ![c] = i]
  /\ UNCHANGED <<nils, closed, currentSize, applySenders, loopVars, growVars,
                 callVars, errCount, live, discardVars, lostNils>>

GetFast(c, i) == pc[c] = "idle" /\ Published /\ Borrow(c, i)

GetSlow(c, i) == pc[c] \in {"applying", "waiting"} /\ Borrow(c, i)

(* Fault: a transaction that finds the channel empty fails at once. *)
ApplyFails(c) ==
  /\ pc[c] = "idle" /\ Published
  /\ ~closed /\ instances = {} /\ nils = 0
  /\ pc' = [pc EXCEPT ![c] = "failed"]
  /\ UNCHANGED <<chanVars, currentSize, applySenders, loopVars, growVars,
                 callVars, inst, errCount, live, discardVars, lostNils>>

(* Nothing to receive: start a goroutine that sends the apply signal. *)
Apply(c) ==
  /\ pc[c] = "idle" /\ Published
  /\ ~closed /\ instances = {} /\ nils = 0
  /\ pc' = [pc EXCEPT ![c] = "applying"]
  /\ applySenders' = Saturate(applySenders + 1, MaxSignals)
  /\ UNCHANGED <<chanVars, currentSize, loopVars, growVars, callVars, inst,
                 errCount, live, discardVars, lostNils>>

(* There is still nothing, and the second receive blocks. *)
Wait(c) ==
  /\ pc[c] = "applying"
  /\ ~closed /\ instances = {} /\ nils = 0
  /\ pc' = [pc EXCEPT ![c] = "waiting"]
  /\ UNCHANGED <<chanVars, currentSize, applySenders, loopVars, growVars,
                 callVars, inst, errCount, live, discardVars, lostNils>>

(* A nil entry: instance.lastUseTime panics before RevertInstance has been  *)
(* deferred, Invoke recovers, and the entry is not put back.                *)
GetNil(c) ==
  /\ pc[c] \in {"idle", "applying", "waiting"} /\ Published
  /\ nils > 0
  /\ nils' = nils - 1
  /\ lostNils' = lostNils + 1
  /\ pc' = [pc EXCEPT ![c] = "failed"]
  /\ UNCHANGED <<instances, closed, currentSize, applySenders, loopVars,
                 growVars, callVars, inst, errCount, live, discardVars>>

(* A closed channel yields nil: the same panic. *)
GetClosed(c) ==
  /\ pc[c] \in {"idle", "applying"} /\ closed
  /\ pc' = [pc EXCEPT ![c] = "failed"]
  /\ UNCHANGED <<chanVars, currentSize, applySenders, loopVars, growVars,
                 callVars, inst, errCount, live, discardVars, lostNils>>

(* Invoke's recover turns the panic of GetInstance into result code 1. *)
ReturnFailed(c) ==
  /\ pc[c] = "failed"
  /\ pc' = [pc EXCEPT ![c] = "idle"]
  /\ UNCHANGED <<chanVars, currentSize, applySenders, loopVars, growVars,
                 callVars, inst, errCount, live, discardVars, lostNils>>

(* Fault: RevertInstance starts the discard goroutine and then goes on to   *)
(* put the instance back.                                                   *)
EndCallPutsBack(c, outcome) ==
  LET i    == inst[c]
      errs == IF outcome = "err" THEN Bump(i) ELSE errCount[i]
      gone == ShouldDiscard(errs)
  IN /\ pc[c] = "running"
     /\ outcome # "ok" => discards < MaxDiscards
     /\ errCount' = [errCount EXCEPT ![i] = errs]
     /\ removing' = IF gone THEN removing \cup {i} ELSE removing
     /\ discards' = IF gone THEN discards + 1 ELSE discards
     /\ pc' = [pc EXCEPT ![c] =
                  IF outcome = "panic" THEN "revertingPanic" ELSE "reverting"]
     /\ UNCHANGED <<chanVars, currentSize, applySenders, loopVars, growVars,
                    callVars, inst, live, adding, disposing, lostNils>>

(* Fault: a failing instance is closed, but the loop is not told. *)
EndCallForgets(c, outcome) ==
  LET i == inst[c]
  IN /\ pc[c] = "running"
     /\ outcome # "ok" => discards < MaxDiscards
     /\ \/ /\ outcome # "ok"
           /\ live' = live \ {i}
           /\ pc' = [pc EXCEPT ![c] = "idle"]
           /\ inst' = [inst EXCEPT ![c] = NoInstance]
        \/ /\ outcome = "ok"
           /\ pc' = [pc EXCEPT ![c] = "reverting"]
           /\ UNCHANGED <<inst, live>>
     /\ UNCHANGED <<chanVars, currentSize, applySenders, loopVars, growVars,
                    callVars, errCount, discardVars, lostNils>>

(* The call ends, and the deferred RevertInstance decides what becomes of   *)
(* the instance.  An error is counted before that; a panic is recovered     *)
(* only after RevertInstance, deferred later, has run.                      *)
EndCall(c, outcome) ==
  LET i     == inst[c]
      panic == outcome = "panic"
      errs  == IF outcome = "err" THEN Bump(i) ELSE errCount[i]
  IN /\ pc[c] = "running"
     /\ outcome # "ok" => discards < MaxDiscards
     /\ errCount' = [errCount EXCEPT ![i] = errs]
     /\ \/ /\ ShouldDiscard(errs)
           /\ removing' = removing \cup {i}
           /\ discards' = discards + 1
           /\ pc' = [pc EXCEPT ![c] = IF panic THEN "late" ELSE "idle"]
           /\ inst' = [inst EXCEPT ![c] = IF panic THEN i ELSE NoInstance]
        \/ /\ ~ShouldDiscard(errs)
           /\ pc' = [pc EXCEPT ![c] =
                        IF panic THEN "revertingPanic" ELSE "reverting"]
           /\ UNCHANGED <<inst, removing, discards>>
     /\ UNCHANGED <<chanVars, currentSize, applySenders, loopVars, growVars,
                    callVars, live, adding, disposing, lostNils>>

(* p.instances <- instance *)
Revert(c) ==
  LET panic == pc[c] = "revertingPanic"
  IN /\ pc[c] \in {"reverting", "revertingPanic"}
     /\ ~closed /\ HasRoom
     /\ instances' = instances \cup {inst[c]}
     /\ pc' = [pc EXCEPT ![c] = IF panic THEN "late" ELSE "idle"]
     /\ inst' = [inst EXCEPT ![c] = IF panic THEN inst[c] ELSE NoInstance]
     /\ UNCHANGED <<nils, closed, currentSize, applySenders, loopVars, growVars,
                    callVars, errCount, live, discardVars, lostNils>>

(* Invoke's recover counts the panic on an instance that has already been   *)
(* given back.  errCount++ is not atomic: if somebody else uses the         *)
(* instance, one of two concurrent increments may be lost.                  *)
CountPanic(c) ==
  LET i      == inst[c]
      shared == \E d \in Client \ {c} : inst[d] = i
  IN /\ pc[c] = "late"
     /\ \E n \in {Bump(i)} \cup (IF shared THEN {errCount[i]} ELSE {}) :
          errCount' = [errCount EXCEPT ![i] = n]
     /\ pc' = [pc EXCEPT ![c] = "idle"]
     /\ inst' = [inst EXCEPT ![c] = NoInstance]
     /\ UNCHANGED <<chanVars, currentSize, applySenders, loopVars, growVars,
                    callVars, live, discardVars, lostNils>>

(* A cross-contract call (depth > 0) uses an instance of its own and closes *)
(* it.  If it cannot be created Invoke fails and nothing has changed.       *)
BeginNested(c, i) ==
  /\ MayNest /\ pc[c] = "idle" /\ Published
  /\ Fresh(i)
  /\ live' = live \cup {i}
  /\ errCount' = [errCount EXCEPT ![i] = 0]
  /\ pc' = [pc EXCEPT ![c] = "nested"]
  /\ inst' = [inst EXCEPT ![c] = i]
  /\ UNCHANGED <<chanVars, currentSize, applySenders, loopVars, growVars,
                 callVars, discardVars, lostNils>>

EndNested(c) ==
  /\ pc[c] = "nested"
  /\ live' = live \ {inst[c]}
  /\ pc' = [pc EXCEPT ![c] = "idle"]
  /\ inst' = [inst EXCEPT ![c] = NoInstance]
  /\ UNCHANGED <<chanVars, currentSize, applySenders, loopVars, growVars,
                 callVars, errCount, discardVars, lostNils>>

-----------------------------------------------------------------------------
(* grow: batches of goroutines that create an instance, send it and count   *)
(* it; the caller waits for each batch (sync.WaitGroup).                    *)

StartGrow(count, state) ==
  /\ loop' = state
  /\ growTodo' = count
  /\ UNCHANGED <<growPending, growSent>>

StartBatch ==
  LET size == Saturate(growTodo, BatchSize)
  IN /\ loop \in GrowStates /\ growTodo > 0
     /\ growPending = 0 /\ growSent = 0
     /\ growPending' = size
     /\ growTodo' = growTodo - size
     /\ UNCHANGED <<chanVars, currentSize, applySenders, loopVars, growSent,
                    callVars, clientVars, errCount, live, discardVars, lostNils>>

GrowSend(i) ==
  /\ growPending > 0 /\ HasRoom /\ Fresh(i)
  /\ live' = live \cup {i}
  /\ errCount' = [errCount EXCEPT ![i] = 0]
  /\ instances' = instances \cup {i}
  /\ growPending' = growPending - 1
  /\ growSent' = growSent + 1
  /\ UNCHANGED <<nils, closed, currentSize, applySenders, loopVars, growTodo,
                 callVars, clientVars, discardVars, lostNils>>

(* The error of newInstanceFromModule is dropped: nil goes into the pool. *)
GrowSendNil ==
  /\ MayFail /\ growPending > 0 /\ HasRoom
  /\ nils' = nils + 1
  /\ growPending' = growPending - 1
  /\ growSent' = growSent + 1
  /\ UNCHANGED <<instances, closed, currentSize, applySenders, loopVars,
                 growTodo, callVars, clientVars, errCount, live, discardVars,
                 lostNils>>

(* Fault: p.currentSize++, not atomic, loses an increment. *)
GrowCountRaces ==
  /\ growSent > 0
  /\ currentSize' \in {currentSize, currentSize + 1}
  /\ growSent' = growSent - 1
  /\ UNCHANGED <<chanVars, applySenders, loopVars, growTodo, growPending,
                 callVars, clientVars, errCount, live, discardVars, lostNils>>

GrowCount ==
  /\ growSent > 0
  /\ currentSize' = currentSize + 1
  /\ growSent' = growSent - 1
  /\ UNCHANGED <<chanVars, applySenders, loopVars, growTodo, growPending,
                 callVars, clientVars, errCount, live, discardVars, lostNils>>

(* grow returns; after a signal or a refresh the applications are cleared. *)
GrowDone ==
  /\ loop \in GrowStates
  /\ growTodo = 0 /\ growPending = 0 /\ growSent = 0
  /\ loop' = "select"
  /\ applyGrowCount' = IF loop = "growSignal" THEN 0 ELSE applyGrowCount
  /\ UNCHANGED <<chanVars, currentSize, applySenders, shrinkLeft, growVars,
                 callVars, clientVars, errCount, live, discardVars, lostNils>>

-----------------------------------------------------------------------------
(* startRefreshingLoop: one action per case of its select, and the steps of *)
(* the cases that block.                                                    *)

OnApplySignal ==
  LET applied == Saturate(applyGrowCount + 1, ApplyThreshold + 1)
  IN /\ loop = "select" /\ applySenders > 0
     /\ applySenders' = applySenders - 1
     /\ applyGrowCount' = applied
     /\ shrinkLeft' = shrinkLeft
     /\ \E slow \in BOOLEAN :
          IF ShouldGrow(applied, slow)
          THEN StartGrow(ChangeSize, "growSignal")
          ELSE UNCHANGED <<loop, growVars>>
     /\ UNCHANGED <<chanVars, currentSize, callVars, clientVars, errCount,
                    live, discardVars, lostNils>>

(* The refresh timer.  The average delay is read once per decision. *)
OnRefresh ==
  /\ loop = "select"
  /\ \E growSlow, shrinkSlow \in BOOLEAN :
       \/ /\ ShouldGrow(applyGrowCount, growSlow)
          /\ StartGrow(ChangeSize, "growSignal")
          /\ shrinkLeft' = shrinkLeft
       \/ /\ ~ShouldGrow(applyGrowCount, growSlow)
          /\ ShouldShrink(shrinkSlow)
          /\ loop' = "shrinking"
          /\ shrinkLeft' = ChangeSize
          /\ UNCHANGED growVars
  /\ UNCHANGED <<chanVars, currentSize, applySenders, applyGrowCount, callVars,
                 clientVars, errCount, live, discardVars, lostNils>>

(* The loop receives instance i, deallocates, closes and uncounts it. *)
TakeBack(i) ==
  /\ i \in instances
  /\ instances' = instances \ {i}
  /\ live' = live \ {i}
  /\ currentSize' = currentSize - 1
  /\ UNCHANGED <<nils, closed, applySenders, applyGrowCount, growVars, callVars,
                 clientVars, errCount, discardVars, lostNils>>

ShrinkOne(i) ==
  /\ loop = "shrinking"
  /\ TakeBack(i)
  /\ shrinkLeft' = shrinkLeft - 1
  /\ loop' = IF shrinkLeft = 1 THEN "select" ELSE "shrinking"

OnClose ==
  /\ loop = "select" /\ closeC
  /\ loop' = "closing"
  /\ UNCHANGED <<chanVars, currentSize, applySenders, shrinkLeft,
                 applyGrowCount, growVars, callVars, clientVars, errCount,
                 live, discardVars, lostNils>>

OnReset ==
  /\ loop = "select" /\ resetSenders > 0
  /\ resetSenders' = resetSenders - 1
  /\ loop' = "resetting"
  /\ UNCHANGED <<chanVars, currentSize, applySenders, shrinkLeft,
                 applyGrowCount, growVars, resetCalls, closeC, clientVars,
                 errCount, live, discardVars, lostNils>>

DrainOne(i) ==
  /\ loop \in DrainStates /\ ~Drained
  /\ TakeBack(i)
  /\ UNCHANGED <<loop, shrinkLeft>>

(* Fault: the channel is not closed after a drain. *)
DrainDoneOpen ==
  /\ loop \in DrainStates /\ Drained
  /\ loop' = IF loop = "resetting" THEN "swapping" ELSE "stopped"
  /\ UNCHANGED <<chanVars, currentSize, applySenders, shrinkLeft,
                 applyGrowCount, growVars, callVars, clientVars, errCount, live,
                 discardVars, lostNils>>

(* Fault: the loop ends after a reset as it does after a close. *)
DrainDoneStops ==
  /\ loop \in DrainStates /\ Drained
  /\ closed' = TRUE
  /\ pc' = [c \in Client |-> IF pc[c] = "waiting" THEN "failed" ELSE pc[c]]
  /\ loop' = "stopped"
  /\ UNCHANGED <<instances, nils, currentSize, applySenders, shrinkLeft,
                 applyGrowCount, growVars, callVars, inst, errCount, live,
                 discardVars, lostNils>>

(* close(p.instances) wakes every receiver blocked on it with a nil. *)
DrainDone ==
  /\ loop \in DrainStates /\ Drained
  /\ closed' = TRUE
  /\ pc' = [c \in Client |-> IF pc[c] = "waiting" THEN "failed" ELSE pc[c]]
  /\ loop' = IF loop = "resetting" THEN "swapping" ELSE "stopped"
  /\ UNCHANGED <<instances, nils, currentSize, applySenders, shrinkLeft,
                 applyGrowCount, growVars, callVars, inst, errCount, live,
                 discardVars, lostNils>>

(* p.instances = make(...) and grow(defaultMinSize) *)
SwapChannel ==
  /\ loop = "swapping"
  /\ instances' = {} /\ nils' = 0 /\ closed' = FALSE
  /\ StartGrow(MinSize, "growReset")
  /\ UNCHANGED <<currentSize, applySenders, shrinkLeft, applyGrowCount,
                 callVars, clientVars, errCount, live, discardVars, lostNils>>

(* shrink or a drain receives a nil entry: the nil dereference happens in a *)
(* goroutine that nobody recovers, and ends the process.                    *)
TakeBackNil ==
  /\ loop \in DrainStates \cup {"shrinking"} /\ nils > 0
  /\ loop \in DrainStates => ~Drained
  /\ nils' = nils - 1
  /\ lostNils' = lostNils + 1
  /\ loop' = "crashed"
  /\ UNCHANGED <<instances, closed, currentSize, applySenders, shrinkLeft,
                 applyGrowCount, growVars, callVars, clientVars, errCount, live,
                 discardVars>>

(* The contract exports no deallocate: closing an instance of it calls a    *)
(* nil function, on the loop's goroutine or on one that discards; nobody    *)
(* recovers there either.                                                   *)
DeallocatePanics ==
  /\ MayFail
  /\ \/ loop \in DrainStates /\ ~Drained /\ instances # {}
     \/ loop = "shrinking" /\ instances # {}
     \/ disposing # {}
  /\ loop' = "crashed"
  /\ UNCHANGED <<chanVars, currentSize, applySenders, shrinkLeft, applyGrowCount,
                 growVars, callVars, clientVars, errCount, live, discardVars,
                 lostNils>>

(* Fault: the discarded instance is still counted. *)
OnRemoveCounted(i) ==
  /\ loop = "select" /\ i \in removing
  /\ removing' = removing \ {i}
  /\ adding' = adding \cup {i}
  /\ UNCHANGED <<chanVars, currentSize, applySenders, loopVars, growVars,
                 callVars, clientVars, errCount, live, disposing, discards,
                 lostNils>>

(* The goroutine of RevertInstance: uncount the instance, ask for a new one, *)
(* close the old one.                                                        *)
OnRemove(i) ==
  /\ loop = "select" /\ i \in removing
  /\ removing' = removing \ {i}
  /\ adding' = adding \cup {i}
  /\ currentSize' = currentSize - 1
  /\ UNCHANGED <<chanVars, applySenders, loopVars, growVars, callVars,
                 clientVars, errCount, live, disposing, discards, lostNils>>

(* Fault: the discarded instance is not replaced. *)
OnAddIgnored(i) ==
  /\ loop = "select" /\ i \in adding
  /\ adding' = adding \ {i}
  /\ disposing' = disposing \cup {i}
  /\ UNCHANGED <<chanVars, currentSize, applySenders, loopVars, growVars,
                 callVars, clientVars, errCount, live, removing, discards,
                 lostNils>>

OnAdd(i) ==
  /\ loop = "select" /\ i \in adding
  /\ adding' = adding \ {i}
  /\ disposing' = disposing \cup {i}
  /\ StartGrow(1, "growAdd")
  /\ UNCHANGED <<chanVars, currentSize, applySenders, shrinkLeft,
                 applyGrowCount, callVars, clientVars, errCount, live, removing,
                 discards, lostNils>>

Dispose(i) ==
  /\ i \in disposing
  /\ disposing' = disposing \ {i}
  /\ live' = live \ {i}
  /\ UNCHANGED <<chanVars, currentSize, applySenders, loopVars, growVars,
                 callVars, clientVars, errCount, removing, adding, discards,
                 lostNils>>

-----------------------------------------------------------------------------
(* The callers of the pool: ResetAVmPool and CloseAVmPool *)

Reset ==
  /\ Published /\ resetCalls < MaxResets
  /\ resetCalls' = resetCalls + 1
  /\ resetSenders' = resetSenders + 1
  /\ UNCHANGED <<chanVars, currentSize, applySenders, loopVars, growVars,
                 closeC, clientVars, errCount, live, discardVars, lostNils>>

Close ==
  /\ Published /\ MayClose /\ ~closeC
  /\ closeC' = TRUE
  /\ UNCHANGED <<chanVars, currentSize, applySenders, loopVars, growVars,
                 resetSenders, resetCalls, clientVars, errCount, live,
                 discardVars, lostNils>>

-----------------------------------------------------------------------------
ClientNext(c) ==
  \/ \E i \in Instance : GetFast(c, i) \/ GetSlow(c, i) \/ BeginNested(c, i)
  \/ \E outcome \in Outcome : EndCall(c, outcome)
  \/ Apply(c) \/ Wait(c) \/ GetNil(c) \/ GetClosed(c) \/ ReturnFailed(c)
  \/ Revert(c) \/ CountPanic(c) \/ EndNested(c)

GrowNext ==
  \/ \E i \in Instance : GrowSend(i)
  \/ StartBatch \/ GrowSendNil \/ GrowCount \/ GrowDone

LoopNext ==
  \/ \E i \in Instance : ShrinkOne(i) \/ DrainOne(i) \/ OnRemove(i) \/ OnAdd(i)
  \/ OnApplySignal \/ OnRefresh \/ OnClose \/ OnReset
  \/ DrainDone \/ SwapChannel \/ TakeBackNil \/ DeallocatePanics

DiscardNext == \E i \in Instance : Dispose(i)

CallerNext == Reset \/ Close

(* Nothing happens any more once a goroutine has crashed the process. *)
Next ==
  /\ loop # "crashed"
  /\ \/ \E c \in Client : ClientNext(c)
     \/ GrowNext \/ LoopNext \/ DiscardNext \/ CallerNext

Spec == Init /\ [][Next]_vars

(* Fairness.  Goroutines that can run do run; a call of a contract ends     *)
(* because SetGasLimit bounds it.  A receive from the channel, which others *)
(* compete for, is strongly fair: the runtime queues receivers in FIFO      *)
(* order.  So is what the loop selects: select chooses at random among its  *)
(* ready cases.  The refresh timer, new transactions, Reset and Close need  *)
(* never come, and a send on the channel is only weakly fair.               *)
Alive == loop # "crashed"

ClientFairness(c) ==
  /\ WF_vars(Alive /\ \E outcome \in Outcome : EndCall(c, outcome))
  /\ WF_vars(Alive /\ (ReturnFailed(c) \/ CountPanic(c) \/ EndNested(c)))
  /\ WF_vars(Alive /\ Revert(c))
  /\ WF_vars(Alive /\ pc[c] = "applying" /\ (Wait(c) \/ GetClosed(c)))
  /\ SF_vars(Alive /\ (GetNil(c) \/ \E i \in Instance : GetSlow(c, i)))

GrowFairness ==
  /\ WF_vars(Alive /\ (StartBatch \/ GrowDone))
  /\ WF_vars(Alive /\ GrowCount)
  /\ WF_vars(Alive /\ \E i \in Instance : GrowSend(i))

LoopFairness ==
  /\ WF_vars(Alive /\ (DrainDone \/ SwapChannel))
  /\ SF_vars(Alive /\ \E i \in Instance : ShrinkOne(i) \/ DrainOne(i))
  /\ SF_vars(OnApplySignal)
  /\ SF_vars(OnClose \/ OnReset \/ \E i \in Instance : OnRemove(i) \/ OnAdd(i))

Fairness ==
  /\ \A c \in Client : ClientFairness(c)
  /\ GrowFairness /\ LoopFairness
  /\ \A i \in Instance : WF_vars(Alive /\ Dispose(i))

FairSpec == Spec /\ Fairness

-----------------------------------------------------------------------------
(* Safety *)

(* Every variable keeps its type; in particular currentSize, which five     *)
(* places decrement, never becomes negative.                                *)
TypeOK ==
  /\ instances \subseteq Instance /\ nils \in Nat /\ closed \in BOOLEAN
  /\ currentSize \in Nat
  /\ applyGrowCount \in 0..(ApplyThreshold + 1) /\ applySenders \in 0..MaxSignals
  /\ loop \in LoopStates /\ shrinkLeft \in Nat
  /\ growTodo \in Nat /\ growPending \in Nat /\ growSent \in Nat
  /\ resetSenders \in Nat /\ resetCalls \in 0..MaxResets /\ closeC \in BOOLEAN
  /\ pc \in [Client -> ClientStates]
  /\ inst \in [Client -> Instance \cup {NoInstance}]
  /\ errCount \in [Instance -> 0..(DiscardCount + 1)]
  /\ live \subseteq Instance
  /\ removing \subseteq Instance /\ adding \subseteq Instance
  /\ disposing \subseteq Instance
  /\ lostNils \in Nat /\ discards \in Nat

(* currentSize counts exactly the entries the pool is answerable for: those *)
(* in the channel, those lent to transactions, those of discard goroutines  *)
(* that have not been uncounted, and the nil entries that were taken.       *)
(* The loops "for p.currentSize > 0" of reset and close rely on it.         *)
SizeIsExact ==
  currentSize + growSent =
    Cardinality(instances) + nils + Cardinality(Borrowers)
      + Cardinality(removing) + lostNils

(* An instance is in one place at a time: in the channel, with one discard  *)
(* goroutine, or with one transaction; and nobody is handed, keeps or puts  *)
(* back an instance that has been closed.                                   *)
ExclusiveUse ==
  /\ \A c \in Holders :
       /\ inst[c] \in live
       /\ inst[c] \notin instances \cup removing \cup adding \cup disposing
       /\ \A d \in Holders : inst[d] = inst[c] => d = c
  /\ instances \cup removing \cup adding \cup disposing \subseteq live
  /\ instances \cap (removing \cup adding \cup disposing) = {}
  /\ removing \cap (adding \cup disposing) = {}
  /\ adding \cap disposing = {}

(* When the loop has closed the channel no transaction still has an         *)
(* instance to send to it (that would panic), and no instance from before   *)
(* a reset is left that the new channel could hand out.                     *)
ClosedMeansDrained ==
  closed => /\ currentSize = 0
            /\ instances = {} /\ nils = 0
            /\ Borrowers = {} /\ removing = {}

(* GetInstance fails only because of a nil entry left by a failed           *)
(* instantiation or because the pool has been reset or closed.              *)
NoUnexplainedFailure ==
  \A c \in Client :
    pc[c] = "failed" => lostNils > 0 \/ resetCalls > 0 \/ closeC

(* What really bounds the pool: each discarded instance can push it one     *)
(* above defaultMaxSize.                                                    *)
SizeBound ==
  currentSize + growTodo + growPending + growSent <= MaxSize + discards

-----------------------------------------------------------------------------
(* Liveness *)

(* A transaction that has to wait for an instance gets one. *)
WaitersServed ==
  \A c \in Client : pc[c] = "applying" ~> pc[c] = "running"

(* A transaction that has to wait for an instance ends, with an instance or *)
(* with an error: neither shrink, reset nor close leaves it behind.         *)
WaitersLeave ==
  \A c \in Client : pc[c] \in {"applying", "waiting"} ~> pc[c] = "idle"

(* An instance that was taken out for failing too often is closed, and the  *)
(* pool gets back to at least defaultMinSize instances.                     *)
DiscardedReplaced ==
  /\ \A i \in Instance : i \in removing ~> i \notin live
  /\ adding # {} ~> currentSize >= MinSize /\ adding = {}

(* reset and close, which wait for every lent instance, come to an end. *)
DrainsEnd == loop \in DrainStates ~> loop \in {"select", "stopped"}

-----------------------------------------------------------------------------
(* What comments of the code say, and the code does not do *)

(* "the max pool size for every contract" *)
WithinMaxSize == currentSize <= MaxSize

(* "if wasmer instance invoke error more than N times, should close and     *)
(* discard this instance"                                                   *)
DiscardedClosed == \A i \in Instance : i \in removing ~> i \notin live

=============================================================================
