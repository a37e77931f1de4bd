--------------------------- MODULE InstancesManager ---------------------------
(***************************************************************************)
(* The manager of the pools of all contracts (vm_instances_manager.go,     *)
(* type InstancesManager): getVmPool with its double-checked locking, and  *)
(* the calls that close and reset one pool or all pools.  A pool is        *)
(* reduced to what its loop answers to the manager; VmPool has the rest.   *)
(*                                                                         *)
(* Only getVmPool takes the mutex, and only after a first look at the map. *)
(* A look at a Go map while another goroutine writes to it is a data race: *)
(* the runtime may notice it and end the process, or the look may miss the *)
(* new entry, and an iteration even an entry that has long been there.     *)
(***************************************************************************)
EXTENDS Integers, FiniteSets

CONSTANTS
  Caller,   \* goroutines that call the manager
  Key,      \* contractName_contractVersion
  Pool,     \* identities of vmPool values
  Nil,      \* no pool, no contract, or nobody
  MaxCalls  \* bound: calls made in all

ASSUME ManagerAssumption ==
  /\ Nil \notin Pool \cup Caller \cup Key
  /\ MaxCalls \in Nat

VARIABLES
  instanceMap,  \* m.instanceMap
  m,            \* the holder of m.m
  writing,      \* whether an assignment to the map is in progress
  pc,           \* where each caller is
  op,           \* the operation it called last
  key,          \* the contract of that call
  pool,         \* the pool it works on
  present,      \* keys in the map when its iteration over it began
  visited,      \* keys its iteration has visited
  raced,        \* callers whose iteration overlapped with an assignment
  stage,        \* what the loop of each pool does
  closeC,       \* pools whose closeC is closed
  sized,        \* pools that have been grown to defaultMinSize
  handed,       \* history: the pools getVmPool has returned for each key
  calls,        \* history: number of calls, bounded by MaxCalls
  crashed       \* the process has ended: concurrent map access

mapVars    == <<instanceMap, m, writing, handed>>
callVars   == <<op, key, present, visited, raced, calls>>
poolVars   == <<stage, closeC, sized>>
managerVars == <<mapVars, callVars, pc, pool, poolVars, crashed>>

-----------------------------------------------------------------------------
GetStates == {"look", "lock", "relook", "create", "grow", "publish", "publishing"}
OneStates == {"closeOne", "resetOne"}
AllStates == {"closeAll", "resetAll"}

(* The first state of each operation names it; "look" is getVmPool. *)
Operations == {"look"} \cup OneStates \cup AllStates

(* How the last call of a caller ended: it returned, failed, or panicked. *)
EndStates == {"idle", "failed", "panicked"}

Goto(t, state) == pc' = [pc EXCEPT ![t] = state]

Keys == {k \in Key : instanceMap[k] # Nil}

(* Callers in the middle of a range over the map *)
Iterating == {t \in Caller : pc[t] \in AllStates \cup {"sendAll"}}

(* A look at the map finds an assignment in progress, and it is noticed. *)
MapRace(t) ==
  /\ pc[t] \in Operations /\ writing
  /\ crashed' = TRUE
  /\ UNCHANGED <<mapVars, callVars, pc, pool, poolVars>>

-----------------------------------------------------------------------------
Init ==
  /\ instanceMap = [k \in Key |-> Nil]
  /\ m = Nil /\ writing = FALSE
  /\ pc = [t \in Caller |-> "idle"]
  /\ op = [t \in Caller |-> "none"]
  /\ key = [t \in Caller |-> Nil]
  /\ pool = [t \in Caller |-> Nil]
  /\ present = [t \in Caller |-> {}]
  /\ visited = [t \in Caller |-> {}]
  /\ raced = {}
  /\ stage = [p \in Pool |-> "unused"]
  /\ closeC = {} /\ sized = {}
  /\ handed = [k \in Key |-> {}]
  /\ calls = 0 /\ crashed = FALSE

(* A caller starts one of the five operations. *)
Call(t, operation, k) ==
  /\ pc[t] \in EndStates /\ calls < MaxCalls
  /\ calls' = calls + 1
  /\ Goto(t, operation)
  /\ op' = [op EXCEPT ![t] = operation]
  /\ key' = [key EXCEPT ![t] = k]
  /\ present' = [present EXCEPT ![t] = Keys]
  /\ visited' = [visited EXCEPT ![t] = {}]
  /\ raced' = IF writing THEN raced \cup {t} ELSE raced \ {t}
  /\ UNCHANGED <<mapVars, pool, poolVars, crashed>>

-----------------------------------------------------------------------------
(* getVmPool *)

(* getVmPool returns pool p for key k. *)
Hand(t, p) ==
  /\ handed' = [handed EXCEPT ![key[t]] = @ \cup {p}]
  /\ Goto(t, "idle")

(* The first look, without the mutex. *)
Look(t) ==
  /\ pc[t] = "look"
  /\ IF instanceMap[key[t]] = Nil
     THEN Goto(t, "lock") /\ UNCHANGED handed
     ELSE Hand(t, instanceMap[key[t]])
  /\ UNCHANGED <<instanceMap, m, writing, callVars, pool, poolVars, crashed>>

Lock(t) ==
  /\ pc[t] = "lock" /\ m = Nil
  /\ m' = t
  /\ Goto(t, "relook")
  /\ UNCHANGED <<instanceMap, writing, handed, callVars, pool, poolVars, crashed>>

(* Fault: no second look. *)
RelookSkipped(t) ==
  /\ pc[t] = "relook"
  /\ Goto(t, "create")
  /\ UNCHANGED <<mapVars, callVars, pool, poolVars, crashed>>

(* The second look; the deferred Unlock runs when the pool is there now. *)
Relook(t) ==
  /\ pc[t] = "relook"
  /\ IF instanceMap[key[t]] = Nil
     THEN Goto(t, "create") /\ UNCHANGED <<m, handed>>
     ELSE Hand(t, instanceMap[key[t]]) /\ m' = Nil
  /\ UNCHANGED <<instanceMap, writing, callVars, pool, poolVars, crashed>>

(* newVmPool: validate, compile, try an instance, start the loop. *)
Create(t, p) ==
  /\ pc[t] = "create" /\ stage[p] = "unused"
  /\ stage' = [stage EXCEPT ![p] = "open"]
  /\ pool' = [pool EXCEPT ![t] = p]
  /\ Goto(t, "grow")
  /\ UNCHANGED <<mapVars, callVars, closeC, sized, crashed>>

(* Fault: the error return does not unlock. *)
CreateFailsLocked(t) ==
  /\ pc[t] = "create"
  /\ Goto(t, "failed")
  /\ UNCHANGED <<mapVars, callVars, pool, poolVars, crashed>>

(* Fault: the error is dropped, and a nil pool returned. *)
CreateFailsUnseen(t) ==
  /\ pc[t] = "create"
  /\ m' = Nil
  /\ Hand(t, Nil)
  /\ UNCHANGED <<instanceMap, writing, callVars, pool, poolVars, crashed>>

(* One of the three fails: no loop has been started, the map is as before.  *)
CreateFails(t) ==
  /\ pc[t] = "create"
  /\ m' = Nil
  /\ Goto(t, "failed")
  /\ UNCHANGED <<instanceMap, writing, handed, callVars, pool, poolVars, crashed>>

(* Fault: the pool goes into the map before it is grown. *)
GrowLater(t) ==
  /\ pc[t] = "grow"
  /\ Goto(t, "publish")
  /\ UNCHANGED <<mapVars, callVars, pool, poolVars, crashed>>

(* pool.grow(defaultMinSize), still under the mutex *)
Grow(t) ==
  /\ pc[t] = "grow"
  /\ sized' = sized \cup {pool[t]}
  /\ Goto(t, "publish")
  /\ UNCHANGED <<mapVars, callVars, pool, stage, closeC, crashed>>

(* m.instanceMap[key] = pool, a step of its own from begin to end. *)
BeginPublish(t) ==
  /\ pc[t] = "publish"
  /\ writing' = TRUE
  /\ raced' = raced \cup Iterating
  /\ Goto(t, "publishing")
  /\ UNCHANGED <<instanceMap, m, handed, op, key, present, visited, calls, pool,
                 poolVars, crashed>>

EndPublish(t) ==
  /\ pc[t] = "publishing"
  /\ instanceMap' = [instanceMap EXCEPT ![key[t]] = pool[t]]
  /\ writing' = FALSE /\ m' = Nil
  /\ Hand(t, pool[t])
  /\ pool' = [pool EXCEPT ![t] = Nil]
  /\ UNCHANGED <<callVars, poolVars, crashed>>

-----------------------------------------------------------------------------
(* CloseAVmPool, CloseAllVmPool, ResetAVmPool, ResetAllPool *)

(* pool.close(): closing a closed channel panics, and nobody here recovers. *)
ClosePool(t, p, state) ==
  IF p \in closeC
  THEN Goto(t, "panicked") /\ UNCHANGED closeC
  ELSE Goto(t, state) /\ closeC' = closeC \cup {p}

CloseOne(t) ==
  LET p == instanceMap[key[t]]
  IN /\ pc[t] = "closeOne"
     /\ IF p = Nil THEN Goto(t, "idle") /\ UNCHANGED closeC
                      ELSE ClosePool(t, p, "idle")
     /\ UNCHANGED <<mapVars, callVars, pool, stage, sized, crashed>>

(* One step of the range loop; an entry added meanwhile may be visited. *)
Visit(t, k) ==
  /\ k \in Keys \ visited[t]
  /\ visited' = [visited EXCEPT ![t] = @ \cup {k}]
  /\ UNCHANGED <<op, key, present, raced, calls>>

CloseNext(t, k) ==
  /\ pc[t] = "closeAll"
  /\ Visit(t, k)
  /\ ClosePool(t, instanceMap[k], "closeAll")
  /\ UNCHANGED <<mapVars, pool, stage, sized, crashed>>

(* pool.reset() blocks until the loop of the pool receives. *)
ResetOne(t) ==
  LET p == instanceMap[key[t]]
  IN /\ pc[t] = "resetOne"
     /\ IF p = Nil THEN Goto(t, "idle") /\ UNCHANGED pool
        ELSE Goto(t, "sendOne") /\ pool' = [pool EXCEPT ![t] = p]
     /\ UNCHANGED <<mapVars, callVars, poolVars, crashed>>

ResetNext(t, k) ==
  /\ pc[t] = "resetAll"
  /\ Visit(t, k)
  /\ Goto(t, "sendAll")
  /\ pool' = [pool EXCEPT ![t] = instanceMap[k]]
  /\ UNCHANGED <<mapVars, poolVars, crashed>>

(* Fault: the range loop leaves one pool out. *)
EndAllEarly(t) ==
  /\ pc[t] \in AllStates /\ Cardinality(present[t] \ visited[t]) <= 1
  /\ Goto(t, "idle")
  /\ UNCHANGED <<mapVars, callVars, pool, poolVars, crashed>>

(* The range ends: it has visited what was there at its beginning, unless   *)
(* an assignment raced with it, which lets it miss any entry.               *)
EndAll(t) ==
  /\ pc[t] \in AllStates /\ (present[t] \subseteq visited[t] \/ t \in raced)
  /\ Goto(t, "idle")
  /\ UNCHANGED <<mapVars, callVars, pool, poolVars, crashed>>

-----------------------------------------------------------------------------
(* The loop of a pool: it takes a reset when it selects, works on it, and   *)
(* stops once closeC is closed; which of the two it takes first is chance.  *)

TakeReset(t) ==
  LET p == pool[t]
  IN /\ pc[t] \in {"sendOne", "sendAll"} /\ stage[p] = "open"
     /\ stage' = [stage EXCEPT ![p] = "resetting"]
     /\ Goto(t, IF pc[t] = "sendOne" THEN "idle" ELSE "resetAll")
     /\ pool' = [pool EXCEPT ![t] = Nil]
     /\ UNCHANGED <<mapVars, callVars, closeC, sized, crashed>>

(* Fault: the loop ends after a reset. *)
FinishResetStops(p) ==
  /\ stage[p] = "resetting"
  /\ stage' = [stage EXCEPT ![p] = "stopped"]
  /\ UNCHANGED <<mapVars, callVars, pc, pool, closeC, sized, crashed>>

FinishReset(p) ==
  /\ stage[p] = "resetting"
  /\ stage' = [stage EXCEPT ![p] = "open"]
  /\ UNCHANGED <<mapVars, callVars, pc, pool, closeC, sized, crashed>>

Stop(p) ==
  /\ stage[p] = "open" /\ p \in closeC
  /\ stage' = [stage EXCEPT ![p] = "stopped"]
  /\ UNCHANGED <<mapVars, callVars, pc, pool, closeC, sized, crashed>>

-----------------------------------------------------------------------------
GetStep(t) ==
  \/ Look(t) \/ Lock(t) \/ Relook(t) \/ CreateFails(t)
  \/ Grow(t) \/ BeginPublish(t) \/ EndPublish(t)
  \/ \E p \in Pool : Create(t, p)

ManageStep(t) ==
  \/ CloseOne(t) \/ ResetOne(t) \/ EndAll(t)
  \/ \E k \in Key : CloseNext(t, k) \/ ResetNext(t, k)

CallerNext(t) ==
  \/ \E k \in Key, operation \in Operations : Call(t, operation, k)
  \/ GetStep(t) \/ ManageStep(t) \/ MapRace(t)

PoolNext ==
  \/ \E t \in Caller : TakeReset(t)
  \/ \E p \in Pool : FinishReset(p) \/ Stop(p)

Next ==
  /\ ~crashed
  /\ (\E t \in Caller : CallerNext(t)) \/ PoolNext

Spec == Init /\ [][Next]_managerVars

(* Fairness.  Goroutines that can run do run.  Nothing is assumed of the    *)
(* loops: they may wait for ever in shrink or in the drain of a reset, and  *)
(* with them whoever calls reset.                                           *)
Fairness ==
  \A t \in Caller : WF_managerVars(~crashed /\ (GetStep(t) \/ ManageStep(t)))

FairSpec == Spec /\ Fairness

-----------------------------------------------------------------------------
(* Every variable keeps its type. *)
ManagerTypeOK ==
  /\ instanceMap \in [Key -> Pool \cup {Nil}]
  /\ m \in Caller \cup {Nil} /\ writing \in BOOLEAN
  /\ pc \in [Caller -> GetStates \cup OneStates \cup AllStates \cup EndStates
                       \cup {"sendOne", "sendAll"}]
  /\ op \in [Caller -> Operations \cup {"none"}]
  /\ key \in [Caller -> Key \cup {Nil}]
  /\ pool \in [Caller -> Pool \cup {Nil}]
  /\ present \in [Caller -> SUBSET Key] /\ visited \in [Caller -> SUBSET Key]
  /\ raced \subseteq Caller
  /\ stage \in [Pool -> {"unused", "open", "resetting", "stopped"}]
  /\ closeC \subseteq Pool /\ sized \subseteq Pool
  /\ handed \in [Key -> SUBSET Pool]
  /\ calls \in 0..MaxCalls /\ crashed \in BOOLEAN

(* However calls of getVmPool interleave, all runtimes of a contract share  *)
(* one pool, which is the one in the map and has been grown.                *)
OnePoolPerContract ==
  \A k \in Key :
    \A p \in handed[k] : p = instanceMap[k] /\ p \in sized

(* A loop that newVmPool started can be reached to be closed: its pool is   *)
(* in the map, of one contract, or the holder of the mutex is about to put  *)
(* it there.                                                                *)
NoOrphanLoop ==
  \A p \in Pool : stage[p] # "unused" =>
    \/ \E k \in Key : instanceMap[k] = p
                     /\ \A j \in Key : instanceMap[j] = p => j = k
    \/ m # Nil /\ pool[m] = p /\ pc[m] \in {"grow", "publish", "publishing"}

(* CloseAllVmPool, when it returns, has closed every pool that was in the   *)
(* map when it began, although it iterates over a map others add to; only   *)
(* one that an assignment raced with may have missed some.                  *)
CloseAllCloses ==
  \A t \in Caller : op[t] = "closeAll" /\ pc[t] = "idle" /\ t \notin raced =>
    \A k \in present[t] : instanceMap[k] \in closeC


(* getVmPool returns, with a pool or an error: no way out of it keeps the   *)
(* mutex, which would block every contract that has no pool yet.            *)
GetReturns ==
  \A t \in Caller : pc[t] \in GetStates ~> pc[t] \in EndStates \/ crashed

-----------------------------------------------------------------------------
(* The manager and the loops of its pools as PoolLoop has them. *)
Awaited == {pool[t] : t \in {t \in Caller : pc[t] \in {"sendOne", "sendAll"}}}

Loops == INSTANCE PoolLoop WITH awaited <- Awaited

(* Whatever the callers do at the same time, each loop is started once, is  *)
(* closed once, and reset only while somebody asks for it; a caller that    *)
(* finds a pool in the map finds one with a loop.                           *)
DrivesLoops == Loops!Spec

=============================================================================
