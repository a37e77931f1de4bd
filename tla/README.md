# Verification of vm-wasmer

vm-wasmer runs the WebAssembly contracts of a ChainMaker node. These are its
TLA+ models, the TLC runs that check them on small instances, and the TLAPS
proofs of what holds for every value of the constants.

## 1. The system

| Part | Code | State it keeps | Operations |
|---|---|---|---|
| `InstancesManager` | `vm_instances_manager.go` 41-161, 463-499 | the mutex `m`, the map from contract version to pool | `NewRuntimeInstance`/`getVmPool`, `CloseAVmPool`, `CloseAllVmPool`, `ResetAVmPool`, `ResetAllPool` |
| `vmPool` | `vm_instances_manager.go` 53-93, 163-461 | the channel `instances`, `currentSize`, `applyGrowCount`, five unbuffered channels, `errCount` of each instance | `GetInstance`, `RevertInstance`, `NewInstance`, `CloseInstance`, `grow`, `shrink`, `reset`, `close`, `startRefreshingLoop` |
| delay statistics | same file, 166, 188-189, 295-296, 334-386, 442-451 | `useCount`, `totalDelay` | counting, `getAverageDelay`, the two decisions, clearing |
| `RuntimeInstance.Invoke` | `runtime.go` | the result, the instance in use | one transaction, with its deferred calls and `recover` |
| `SimContext` registry | `sim_context.go` 116-142, `vm_bridge.go` 323-368 | `ctxIndex`, `simContextCache` | `putCtxPointer`, `put`, `get`, `remove` |
| system calls | `vm_bridge.go` 42-321, `vm_bridge_kv.go`, `vm_bridge_sql.go` | `GetStateCache`, `SpecialTxType`, events and result of a `SimContext` | `sysCall` and about thirty operations |
| handles | `wasmer-go/instance.go`, `import.go`, `module.go`, `memory.go`, `wasi.go` | pointers to objects of the C library (modules, instances, imports, import objects, memories), the context data of instances | compile, instantiate, export, extend, close, `SetContextData` |
| arguments and values | `wasmer-go/instance.go` 242-345, `value.go` | none | the conversions between Go and WebAssembly numbers |
| cgo glue | `wasmer-go/bridge_*.go`, `wasmer.h` | none | one wrapper for each C function |

A node asks the manager for the runtime of a contract version and calls `Invoke`
on it, from many goroutines. `Invoke` receives an instance from the channel of
the pool, registers a `SimContext` under a fresh index, calls the contract, and
the contract's system calls find the context through that index. Deferred calls
remove the context and give the instance back. A goroutine of the pool, the
refreshing loop, does all growing and shrinking; transactions reach it through
unbuffered channels, and so do the goroutines that discard a failing instance
and the callers of `reset` and `close`. A cross-contract call (depth > 0) runs
another `Invoke` with an instance of its own.

What is hard here:

* the size of the pool is a counter kept next to a channel by five pieces of
  code, and three loops (`shrink`, the drains of `reset` and `close`) block on
  the channel for as long as the counter tells them to;
* a discard is two sends and a close on a goroutine of its own, and anything may
  come between them;
* the loop is the only receiver of five channels and itself blocks on a sixth;
* `close(p.instances)` wakes the waiting and would panic the sending;
* deferred calls run in the reverse order, so a panic is counted on an instance
  that has been given back already;
* the map of pools is read without its mutex;
* a 32-bit index that wraps around is shared by all transactions;
* an invocation ends by a result, an error or a panic, at any depth, and the
  deferred calls of each level must undo what that level took, whatever the level
  below did;
* one cache serves every pair of system calls that first returns a length and
  then a value, and a slice over the contract's memory goes stale when it grows;
* a cross-contract call merges the events, and overwrites the transaction type, of
  its caller;
* the garbage collector knows nothing of the objects of the C library: each is freed
  by an explicit close, through pointers that other code recorded, or never.

`PROJECT.json` lists these and the others as hazards, each at its line, with the
properties that would notice it going wrong.

## 2. The modules

| Module | What it is |
|---|---|
| `VmPool` | the pool of one contract version and everyone who touches it |
| `InstanceLease` | the abstract specification: instances are supplied, lent to one client at a time, returned, or withdrawn and destroyed |
| `PoolLoop` | the abstract specification between the manager and the loops of its pools: start, reset, close, stop |
| `VmPoolRefinements` | the refinement mappings from `VmPool` to `InstanceLease` and `PoolLoop` |
| `DelayStats` | the average delay, with int32 arithmetic, and the races of its two counters |
| `InstancesManager` | the map of pools: double-checked locking, closing and resetting |
| `SimContexts` | the registry of contexts |
| `Invocation` | one transaction through `Invoke`: the contract, its system calls, nested calls, deferred calls |
| `WasmerHandles` | the objects of the C library, who holds them and who frees them; the context data of instances |
| `WasmerValues` | integers as arguments and values |
| `WasmerCalls` | the calls of an open instance: `WasmerHandles` and `WasmerValues` together |
| `MCVmPool`, `MCInstancesManager`, `MCSimContexts`, `MCWasmerHandles` | symmetry sets for TLC |
| `VmPoolProofs`, `VmPoolRefinementProofs`, `InstancesManagerProofs`, `SimContextsProofs`, `DelayStatsProofs`, `InvocationSteps`, `InvocationProofs`, `WasmerHandlesProofs` | the proofs |

### VmPool

*State.* The channel is a set of instances and a number of nil entries: a
`newInstanceFromModule` that fails leaves a nil in it, because `grow` drops the
error. Order in the channel is not modelled, so every property holds whatever
instance a receive yields. `closed` is about the channel `p.instances` points to
now. `pc` and `inst` are the program counter and `instanceInfo` of each client;
`loop` is the place of the refreshing loop, with `growTodo`, `growPending` and
`growSent` for the batches of `grow` and their goroutines (before the send, and
between the send and the increment of `currentSize`). `removing`, `adding` and
`disposing` are the discard goroutines, by where they block. `lostNils` and
`discards` are history.

*Actions.* A client goes through `GetFast` (the first receive succeeds) or
`Apply` (it does not: the signal goroutine starts), then `GetSlow`, at once or
after having blocked (`Wait`); `GetNil` and `GetClosed` are the receives that
yield nil and panic. `EndCall` is the end of the contract together with the
decision of `RevertInstance`, `Revert` the send. After a panic `RevertInstance`
comes first and `CountPanic`, the `errCount++` of the `recover`, later, on an
instance that may be in use again: the increment may then be lost. The loop has
one action for each case of its select (`OnApplySignal`, `OnRefresh`, `OnClose`,
`OnReset`, `OnRemove`, `OnAdd`) and the steps of the cases that block
(`ShrinkOne`, `DrainOne`, `DrainDone`, `SwapChannel`). `TakeBackNil` is the nil
dereference on the loop's goroutine, which ends the process: in the state
"crashed" nothing happens any more. So is `DeallocatePanics`, the call of a `deallocate`
that the contract does not export, by the loop or by a discard goroutine.

A goroutine that reads the field `p.instances` without synchronisation while the
loop replaces it may get the old, closed channel. That outcome is the one of a
client that received before the replacement, and is not told apart from it.

*Operators named as faults.* Some modules define, just before an operator, a
variant of it with a plausible bug (`OnRemoveCounted`, `DrainedWhenEmpty`,
`RelookSkipped`...), marked `Fault`. No specification uses them. They are there to
see that the properties notice: with the operator replaced by its variant TLC
finds the property violated. `PROJECT.json` names the pairs.

### DelayStats, InstancesManager, SimContexts

`DelayStats` keeps `useCount` and `totalDelay` as int32 (`Wrap`) and separates
every atomic access: the two loads of `getAverageDelay`, the two stores of the
refresh. `VmPool` leaves the average open, as an arbitrary Boolean for each
decision, so what it shows holds for whatever average `DelayStats` can produce. A wait may
be cut short by a nil (`WaitBreaks`: the panic comes before anything is added), and the
wall clock may be set back during one, by `MaxBack`.

`InstancesManager` reduces a pool to the stages its loop goes through and has the
lock, the two looks at the map, the assignment as a step with a beginning and an
end, and the range loops one entry at a time. A look at the map during an
assignment is a data race in Go; the outcomes are that the runtime notices and
ends the process (`MapRace`) and that the look misses the entry. A range over the map
that an assignment overlaps with (`raced`) may miss any entry and end early.

`PoolLoop` is what the two sides of a pool know of each other. `VmPool` implements it
for the one pool it is about (`ImplementsLoop`: whatever the loop does with instances, a
reset is over when the pool has grown again, and a closed pool counts as stopped from the
beginning of its drain), and `InstancesManager` for all pools (`DrivesLoops`). What
`PoolLoop` allows a loop, `InstancesManager` allows it too (`LoopsExpected`), so its safety
properties hold with the pools of `VmPool`. A loop that crashes ends the
process, which `InstancesManager` leaves out: it then takes no further step.

`SimContexts` has the four steps of a transaction on the registry. The counter is
wrapped as in the code. `age` and `lapped` are history: they tell when a
transaction has lived while all indices were given out, which at 10^8 + 1 indices
is the assumption the code makes.

### Invocation

*State.* `frame[d]` is the activation of `Invoke` at depth `d` with its `SimContext`:
the place in the code (`pc`), the instance, `GetStateCache`, the slice over the
memory (`view`), the code of the result, the events, the transaction type (`mark`).
The caller of a cross-contract call stays in its frame ("awaiting") while the frame
below it runs. `free`, `discarding`, `live` and `registry` are the parts of the pool and of
the registry that an invocation touches; both have modules of their own, and what several
transactions do to each other through them is shown there. One of these things is
`errCount`, whose increment after a panic races with the next transaction on the
instance: it is left to `VmPool`, and whether `Release` puts the pooled instance back or
hands it to a discard goroutine (`ReplaceDiscarded`) is a choice here.

*Abstractions.* An activation is known by its serial number, and an event is the
number of the activation that emitted it. A cached value is the number of the system
call that fetched it. A view is the number of times the memory had moved when the
slice was taken. `faults`, `announced`, `iterated` and `under` of a frame, and `void`
and `unclosed`, are history: what has failed since the last reported success,
which length call was last, whether an iterator was opened, which activations ran
inside this one, which broke off. The wacsi library is external: each call of it may
succeed or fail, and the result of a nested call reaches the caller through it.

*Actions.* `EnterPooled` and `EnterNested` are the ways in, and the second may fail to
make an instance. `CallMethod`, `Allocate`, `CopyParameters`, `RunMethod` and
`procExit` are the steps of the call, each with its errors and panics; `sysCall` is a
system call, one disjunct of `invoke` for each kind of handler; `CallContractLen`,
`CallReturned`, `CallRefused` and `CallContract` are the pair of the cross-contract
call. `Conclude` is the body of `Invoke` after `CallMethod`; `RemoveContext`, `Release`
and `Recover` are the deferred calls, in their order.

### WasmerHandles

*State.* `heap` is the set of objects of the C library that exist, each a tuple of its
kind and what it was made for. `misused` collects those freed or read when they were
not there. A `Slot` is one value of type `Instance` together with the `Imports` it is
given; `imports[i][n]` is the entry of the map of imports under a name: absent, a
function that has not been made (`Nil`), or an object. `instancesContextData` and its
counter are as in the code. `native` of an instance and `latest` are history.

*Actions.* One for each exported function of the package that makes or frees an object.
The setting of context data is one: between the unlock and the call that tells the library
the index (`instance.go` 475-482) only others work, on instances of their own, and the
index is alive, so no other step depends on which comes first. The
making of an instance takes several (`MakeImports`, the builder, one per export,
`GatherImports`), because instances are made on several goroutines and the client may
close something else in between; every error return is a disjunct. `FreeExportNames`
and `DeleteContextData` are finalizers: they run at some time after the instance was
closed or given up. The client is as careful as `vm_instances_manager.go`: nothing is
closed twice or used after its close. What the model does not name is freed by the
function that makes it, on every path, with the exception given in section 5.

### WasmerValues, WasmerCalls

The conversions of integer arguments by Go type and parameter type, and of `Value`.
How many numbers an integer of 8, 16, 32 and 64 bits has is a constant each (`N8` to
`N64`), so that small ones let TLC try every number of every type. `SizeAssumption`
asks of them what the powers of two have: they are even, each is at least twice the one
before, and `N64` is a multiple of `N32`. `WasmerCalls` states the two properties of the
conversions for the instances that can be called; the run `handles` evaluates them with
the state machine they belong to.

## 3. The runs

| Run | Shows | Result |
|---|---|---|
| `pool_safety` | types, `SizeIsExact`, `ExclusiveUse`, `ClosedMeansDrained`, `NoUnexplainedFailure`, `SizeBound`, and that the pool implements `InstanceLease`, with errors, panics, discards, a reset, failing instantiations and private instances | holds, 1 078 000 states |
| `pool_serving` | a waiting transaction gets an instance; a discarded instance is closed and replaced, with errors (no reset or close) | holds, 28 500 states |
| `pool_draining` | nobody is left waiting by reset and close, both end, and the pool implements `PoolLoop`; growth and shrinking by two (no discards) | holds, 27 300 states |
| `contexts` | `OwnContext`, `NoStaleContext` | holds, 24 700 states |
| `manager` | one pool per contract, no pool that cannot be closed, `CloseAllVmPool` closes all, `getVmPool` returns, the manager implements `PoolLoop` | holds, 47 200 states |
| `stats` | signs, accounting and honesty of the average | holds, 99 600 states |
| `invocation` | types; a transaction leaves nothing behind, copies into live memory, delivers the announced value, reports only events of calls that held and every failure; the iterator mark | holds, 1 915 000 states |
| `handles` | types; nothing is freed twice or used after it, an open instance is whole, a closed one leaves only what is listed, context data is one's own; numbers cross the border unchanged | holds, 1 865 000 states |
| `pool_max_size` | `defaultMaxSize` is exceeded | violated |
| `pool_discard` | a reset can hang for ever on a discard | violated |
| `manager_close_all` | `CloseAllVmPool` can leave pools open | violated |
| `stats_unit` | a slow pool does not grow | violated |

### The bounds, and why they are enough

* `pool_*`: two clients, so that one may wait, share or race with the other; pools
  of 1 to 2 instances (1 to 3 in `pool_draining`, by batches of two), so that minimum, maximum and a full
  channel are a step apart; a third and a fourth identity, so that an instance
  under disposal, a private one and a fresh one coexist. `GrowSend` waits when
  every identity is in use, which bounds the instances alive at a time. `DiscardCount = 0` and `ApplyThreshold = 0` make one error
  and one signal count as the eleventh and the hundred and first do. `MaxSignals`
  bounds the blocked signal goroutines (one more is not told apart), `MaxResets`
  the calls of reset, `MaxDiscards` the discards (calls then succeed). `errCount` and
  `applyGrowCount` saturate one above the threshold they are compared with.
* `contexts`: three transactions over four indices wrap around in every way,
  including being lapped.
* `manager`: three calls allow two concurrent calls of `getVmPool` and a later
  close or reset; four are needed to close a pool, and then all of two
  (`manager_close_all`).
* `pool_safety` has no close: for the invariants it is a reset without the new
  channel, `pool_draining` runs it, and the proofs (section 4) have both at once.
* `pool_serving` allows one failing call, hence one discard. With panics, which are
  counted after the instance has been put back, both instances can be discarded at
  the same time, and then the liveness fails: see the second violation below.
* `invocation`: three activations over three depths are a transaction that calls a
  contract that calls a third, two calls one after the other, or three
  transactions; two system calls each are a pair, or a pair torn by another call;
  a memory that moves once makes every earlier view stale.
* `handles`: two instances are needed for one to disturb the other, made in any of
  the three ways at once. One name in two namespaces collides, two exports are a
  memory that replaces a memory or stands beside a function. A slot is used once,
  so that every behaviour ends, with any other slot made before, after or meanwhile.
  Integers of 4, 8, 32 and 256 numbers keep the order of 8, 16, 32 and 64 bits and let
  every type hold numbers the smaller ones do not; the proof is for the real sizes too.
* `stats`: 32-bit counters are shrunk to `Half = 17`, above everything two clients
  with waits of at most 2 can add up to, and the clock is not set back, which is what
  the properties ask for (`DelaysFit`);
  `stats_unit` lets the clock go back and uses a unit of 1000 for the million nanoseconds of
  a millisecond.

Deadlock is checked except in `pool_safety`, `pool_max_size` and `pool_discard`, where
the system does stop (a hung reset, a crashed process), in the runs of the manager
and of `Invocation`, whose calls are bounded, and in `handles`, where each slot, module,
object and memory is used once.

### Fairness

Weak fairness is the Go scheduler: a goroutine that can go on does. That a call
of a contract ends is `SetGasLimit`. Two kinds of steps get strong fairness: a
receive from `p.instances`, because the runtime queues receivers in FIFO order and
a client blocked on the channel is not overtaken for ever; and what the loop
selects, because `select` picks at random among its ready cases. Nothing is
assumed of the refresh timer, of new transactions, of reset or close, nor of the
order in which senders on the channel get room. In `pool_serving` and `pool_draining`, the
runs with liveness, instantiating a module does not fail and contracts export their
`deallocate`.

In `InstancesManager` only the callers are fair (`FairSpec`). Nothing is assumed of the
loops: a loop can hang in `shrink` or in the drain of a reset, as `pool_discard` shows, so
that a call of reset returns is not a property of this code, and no run claims it.

### What the violations say

1. *The maximum* (`pool_max_size`). `removeInstanceC` uncounts a discarded instance,
   a growth fills the pool to `defaultMaxSize`, and `addInstanceC` grows it by one
   more without looking. `SizeBound` says, and the proofs show, how far this goes:
   one instance for each discard.
2. *The hung reset* (`pool_discard`). Reset and close wait for every counted
   instance to come back. An instance that has just been taken out for its errors
   is still counted until the loop receives from `removeInstanceC`, and the loop is
   the one that waits. The pool, and every transaction on it, stops. `shrink` waits on
   the channel in the same way (390), and hangs when every counted instance has been
   taken out at once; that takes more discards than `pool_serving` allows.
3. *Closing all* (`manager_close_all`). A closed pool stays in the map, closing it
   again panics, and `CloseAllVmPool` does not get to the others.
4. *The tolerance* (`stats_unit`). Ten milliseconds as a `time.Duration` is the
   number 10 000 000; it is compared with an average in milliseconds.

## 4. The proofs

`VmPoolProofs` proves the six invariants of `pool_safety` for any clients,
instances, sizes and thresholds that satisfy `SizeAssumption` (sizes are positive,
and a growth from the minimum fits) and `EnvironmentAssumption` (clients and
instances are finite sets). None is inductive alone. `IInv` is built in layers:

* `Types`: `TypeOK` with an integer instead of a natural `currentSize`, and which
  clients have an instance;
* `Phases`: in which places of the loop `grow` has goroutines, and when the
  channel is closed;
* `ExclusiveUse`: needs only the types;
* `Counts`: `SizeIsExact`, that nothing is out between the end of a drain and the
  new channel, and hence that `currentSize` is natural: every decrement takes an
  entry that is counted, because the two sides of `SizeIsExact` agree and an
  instance is in one place only;
* `ClosedEmpty`: that a closed channel is an empty one, also after a crash;
* `Budget`: the size with all growth that is planned, against the maximum plus
  the discards not yet uncounted or replaced;
* `Explained`: who can have failed and why.

Each layer is preserved by a step that starts in it and those before it.

`VmPoolRefinementProofs` proves `Spec => ImplementsLease`: with `IInv` every action is one
of `Supply`, `Lend`, `LendPrivate`, `Return`, `Withdraw`, `DestroyPrivate`, `Retire`,
`Destroy`, or leaves the three lease variables alone. `ExclusiveUse` gives that a
fresh identity is unknown to the lease specification; `NothingOut` gives that
replacing the channel of a drained pool changes nothing. It also proves
`Spec => ImplementsLoop`: most steps change none of the three variables of `PoolLoop`,
and the others are one of its actions each.

`SimContextsProofs` proves `OwnContext`, `NoStaleContext` and the types for any number
of transactions and indices. The strengthening, `Spacing`, places the index of a
live transaction `age` steps behind the counter, around the cycle, and says that
no two live transactions have the same age: so two live transactions have two
indices as long as none has been lapped.

`InstancesManagerProofs` proves the types, `OnePoolPerContract` and `NoOrphanLoop` for
any callers, contracts and calls. The invariant says that the holder of the mutex
is who is between the second look and the end of the assignment, that the entry
it found missing is missing until then, and that the pool it makes is nobody
else's. `CloseAllCloses` needs `Closing` on top of it: what the iteration has visited is
closed, and it ends only when it has visited what was there at its beginning, if no
assignment overlapped with it; that an
entry with a closed pool is never replaced (`EntriesStay`) follows from the double check.
`DrivesLoops` rests on `Mapped`: a pool found in the map has a loop. `LoopsExpected` is the
converse for the steps of the loops.

`DelayStatsProofs` proves the types, `DelayAccounted` and the action property
`AverageHonest`. The strengthening has a bound for each place of the loop: `Accounted`
for the counters at rest, where stragglers and what they have added already are
together no more than the clients; `Cleared` between the two stores of a refresh, where
the use counter starts again and the delays do not; and `Loaded` for an average that has
loaded the delays and not yet the uses. `DelaysFit` is a premise, as in the properties:
without it an addition wraps and none of this holds.

`InvocationProofs` proves the seven invariants of `Invocation`, for any depth of
cross-contract calls and any numbers of activations, system calls and growths of a
memory. `InvocationSteps` first puts the actions into five classes: a step begins the
activation of a transaction (`BeginsPooled`) or of a cross-contract call
(`BeginsNested`), works on the deepest one (`BodyStep`), is a deferred call
(`Undoes`), or returns (`Returns`); or it is one of the discard goroutine, which no
activation notices. Every error return and panic of the body is one of
the cases of `BodyStep`: it continues, resumes after a nested call, succeeds or breaks
off. The invariant is built in layers over these classes:

* `Activations`: the types, and that in each activation the cache holds what was
  announced, a failure is in the code or about to be put there, and the mark tells of
  an iterator (`CacheFresh`, `FailureReported`, `IteratorMarked`);
* `Stack`: all activations but the deepest wait, serial numbers grow with depth, and
  only the first is on the pooled instance; hence no two share an instance or a
  registered context;
* `ViewFresh` itself, `Registered` and `Owned`: who holds which context and which
  instance until which deferred call (`NothingLeftBehind`);
* `Scoped`: the sets of activations that ran inside two running ones are disjoint, and
  what an activation has collected comes from its own set; so a call that breaks off
  takes its own events and no others (`NoVoidEvent`).

`WasmerHandlesProofs` proves the five invariants of `WasmerHandles` for any finite or
infinite number of instances, modules, import objects, memories and names
(`HandlesAssumption`: a slot is not an import object, which Go's types guarantee). Each
slot has an invariant of its own, because the objects made for two slots are different
(`MadeForApart`) and every action of one slot leaves the others aside (`Aside`):

* `Entries`: what an entry of the imports can be, by the place in the code and the way
  the instance is made;
* `Held`, a bound from below: what the slot points at exists;
* `Left`, a bound from above: what else was made for the slot does not exist, apart from
  what some later step frees or `Forgotten` lists;
* `Shared`: modules, import objects and memories that are open exist;
* `Contexts`: two instances never share an index, so setting and deleting the data of one
  leaves that of the other.

`Held` makes every free and every use a legal one (`NoMisuse`), `Left` gives
`ClosedFreesAll`. The last part of the module is about `WasmerValues`: with the
uniqueness of the remainder, a signed number survives the way through an unsigned one of
its size (`SignedKept`) or of a multiple (`RemainderTwice`), and every kind of number a
parameter accepts fits into its type (`AcceptedFits`). Hence `ArgumentsExact` and
`ValuesExact`, for integers of any sizes that satisfy `SizeAssumption`, those of Go
included.

The proofs cover safety only; every invariant and every action property that a run
checks is proved. Model-checked and not proved are the liveness properties
(`WaitersServed`, `DiscardedReplaced`, `WaitersLeave`, `DrainsEnd`, `GetReturns`): the proof system does not reason about fairness. What fails is not
provable either: the four properties that a run violates are false of the code.

## 5. Not modelled

* Amounts of gas: whether it runs out is a choice, what is reported is not looked at.
  (A panic leaves `GasUsed` of the result at 0.)
* Texts: error messages, and with them `GetLastError`, whose three C calls belong to
  whatever call failed last on that thread; logging, times and identifiers.
* Floats as arguments and values, which are passed as they are; the count of arguments.
* Reads (`Memory.Length`, `Data`, `Validate`, the description of a module) and
  `Memory.Grow` change nothing on the Go side. What the growth of a contract's memory
  does to slices over it is in `Invocation`.
* The C strings with the names of imports (`getCWasmerImport`, `appendRaw`), which
  nothing frees; they would be in `heap` for ever and say nothing about the rest.
* The vectors `NewWasiImportObjectForVersion` passes to C (`wasi.go` 98-110), which point
  at slice headers: what the C library reads there is outside the model, and this
  repository does not call the function.
* The cgo wrappers of `bridge_*.go`, except the one with a loop.
* `GetVmBridgeManager`'s double-checked creation of the singleton, which publishes
  the object before its map (`vm_bridge.go` 341-342). The first call of a manager
  is made by `newVmPool`, under the manager's mutex and before any transaction, so
  only two managers (two chains) started at once can race; listed as a hazard.
* `NewInstanceFromByteCode`, which nothing calls.
* `runtime_test.go` is a test of the whole with a real contract and has no property
  of its own to state.

Seen while modelling, stated by no run:

* `Memory.Close` frees a memory lent by the library and not one made by `NewMemory`
  (`memory.go` 125-131), where the comments at 34 and 124 say the opposite.
  `FreedMemory` models the code.
* The version given to `NewWasiImportObjectForVersion` is not passed on (`wasi.go` 98).
* An argument of type `uint32` is refused for an `i32`, although the comment on
  `Exports` lists it.
* Two imports of one name in two namespaces overwrite each other (`import.go` 250,
  292): the handle of the first is never freed. `Forgotten` lists it.
* An instance whose exports cannot be read is never freed (`instance.go` 161), nor are
  the functions made for an instantiation that fails. `ClosedFreesAll` says what is left.
* The module of a pool is not closed with the pool.
* `reset` sends on an unbuffered channel whose only receiver has returned when the pool is
  closed, or hangs as in `pool_discard`: `ResetAVmPool` and `ResetAllPool` (493, "reset all
  contract pool instance") then never return, and `ResetAllPool` leaves the pools it has
  not come to as they are. `InstancesManager` has these states, for the same reason as
  `manager_close_all`.

## 6. Plan

1. Done: the pool with its refinement, `DelayStats`, `InstancesManager`, `SimContexts`,
   `Invocation`, `WasmerHandles`, `WasmerValues`, and the proofs of all their invariants.
2. `SimContexts` and `Invocation` share the registry; a composition, with two
   transactions over one registry and one pool, would let `Invocation` assume less.
