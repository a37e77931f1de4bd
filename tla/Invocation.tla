----------------------------- MODULE Invocation -----------------------------
(***************************************************************************)
(* One transaction at a time through RuntimeInstance.Invoke (runtime.go),  *)
(* with the contract it calls (sim_context.go), the system calls of that   *)
(* contract (vm_bridge.go, vm_bridge_kv.go, vm_bridge_sql.go) and the      *)
(* cross-contract calls that run Invoke again, one level deeper, on an     *)
(* instance of their own.                                                  *)
(*                                                                         *)
(* frame[d] is the activation of Invoke at depth d together with its       *)
(* SimContext; depth is that of the activation that runs, -1 when no       *)
(* transaction is executed.  An instance is named 0 when it belongs to the *)
(* pool, and by the serial number of its activation when it is private.    *)
(*                                                                         *)
(* Abstractions.  An event is the serial number of the activation that     *)
(* emitted it, a cached value is the number of the system call that        *)
(* fetched it (0 stands for nil), and a view of the contract's memory is   *)
(* the number of times the memory had moved when it was taken.  Amounts of *)
(* gas are left out: whether it runs out is a choice.  The library behind  *)
(* wacsi is external: it succeeds or fails as it likes.  Whether a pooled  *)
(* instance is to be discarded is a choice as well: its errCount is also   *)
(* touched by the transactions before and after, which VmPool has.         *)
(***************************************************************************)
EXTENDS Integers

CONSTANTS
  MaxDepth,    \* depth of the deepest cross-contract call
  MaxInvokes,  \* bound: activations of Invoke
  MaxCalls,    \* bound: system calls of one activation
  MaxGrows     \* bound: times the memory of an instance moves

ASSUME BoundAssumption ==
  /\ MaxDepth \in Nat
  /\ MaxInvokes \in Nat
  /\ MaxCalls \in Nat
  /\ MaxGrows \in Nat

VARIABLES
  depth,     \* depth of the running activation, -1: none
  frame,     \* frame[d]: the activation at depth d
  serial,    \* activations so far
  free,      \* instances in the channel of the pool
  discarding, \* instances that a discard goroutine has
  live,      \* wasmer instances created and not closed
  moves,     \* moves[i]: times the memory of instance i has moved
  registry,  \* contexts in simContextCache
  result,    \* what the last activation that ended returned
  void,      \* history: activations inside one whose call broke off
  unclosed   \* history: private instances whose Close was skipped

vars == <<depth, frame, serial, free, discarding, live, moves, registry, result,
          void, unclosed>>
poolVars == <<free, discarding, live, registry>>

-----------------------------------------------------------------------------
(* Activations *)

Depth    == 0..MaxDepth
Serial   == 1..MaxInvokes
NoSerial == 0
Pooled   == 0
Nil      == 0
NoInstance == -1
Marks    == {"normal", "iterator"}

(* The deferred calls run in this order: removeCtxPointer, the return of    *)
(* the instance, recover.                                                   *)
DeferStates == {"removeContext", "release", "recover"}
BodyStates  == {"entered", "allocating", "filling", "running", "calling",
                "awaiting", "succeeded", "failed"}

NewFrame(n, i) ==
  [pc |-> "entered", serial |-> n, inst |-> i, calls |-> 0,
   cache |-> Nil, announced |-> Nil, view |-> 0, code |-> 0, faults |-> 0,
   panic |-> 0, events |-> {}, sent |-> {}, mark |-> "normal",
   iterated |-> 0, under |-> {n}]

NoFrame  == [NewFrame(NoSerial, NoInstance) EXCEPT !.pc = "none", !.under = {}]
NoResult == [code |-> 0, faults |-> 0, events |-> {}, mark |-> "normal",
             iterated |-> 0, under |-> {}]

At(d, p) == d = depth /\ frame[d].pc = p

Set(d, f) == frame' = [frame EXCEPT ![d] = f]

(* The call of the activation broke off: nothing it did may count. *)
Break(d) == void' = void \cup frame[d].under

(* The deferred calls begin; what only the body looks at is forgotten. *)
Leave(f) == [f EXCEPT !.pc = "removeContext", !.calls = 0, !.cache = Nil,
                      !.announced = Nil, !.view = 0, !.events = {}]

(* A Go panic unwinds to the deferred calls. *)
Panic(d) ==
  /\ Set(d, [Leave(frame[d]) EXCEPT !.panic = 1, !.faults = 1])
  /\ Break(d)

Fails(d) == Set(d, [frame[d] EXCEPT !.pc = "failed", !.faults = 1]) /\ Break(d)

Goes(d, p) == Set(d, [frame[d] EXCEPT !.pc = p]) /\ UNCHANGED void

Init ==
  /\ depth = -1
  /\ frame = [d \in Depth |-> NoFrame]
  /\ serial = 0
  /\ free = {Pooled}
  /\ discarding = {}
  /\ live = {Pooled}
  /\ moves = [i \in 0..MaxInvokes |-> 0]
  /\ registry = {}
  /\ result = NoResult
  /\ void = {}
  /\ unclosed = {}

-----------------------------------------------------------------------------
(* Invoke: the way in *)

(* A transaction takes an instance from the pool. *)
EnterPooled ==
  /\ depth = -1
  /\ serial < MaxInvokes
  /\ Pooled \in free
  /\ depth' = 0
  /\ serial' = serial + 1
  /\ frame' = [frame EXCEPT ![0] = NewFrame(serial + 1, Pooled)]
  /\ free' = free \ {Pooled}
  /\ registry' = registry \cup {serial + 1}
  /\ UNCHANGED <<discarding, live, moves, result, void, unclosed>>

(* GetDepth() > 0: the instance of a cross-contract call is its own. *)
PrivateInstance(n) == n

(* A cross-contract call makes an instance, or panics because it cannot. *)
EnterNested(d, made) ==
  /\ At(d, "calling")
  /\ d < MaxDepth
  /\ serial < MaxInvokes
  /\ depth' = d + 1
  /\ serial' = serial + 1
  /\ LET n == serial + 1
         f == IF made THEN NewFrame(n, PrivateInstance(n))
              ELSE [NewFrame(n, NoInstance) EXCEPT
                      !.pc = "release", !.panic = 1, !.faults = 1]
     IN /\ frame' = [frame EXCEPT ![d].pc = "awaiting", ![d + 1] = f]
        /\ live' = IF made THEN live \cup {PrivateInstance(n)} ELSE live
        /\ registry' = IF made THEN registry \cup {n} ELSE registry
        /\ void' = IF made THEN void ELSE void \cup {n}
  /\ UNCHANGED <<free, discarding, moves, result, unclosed>>

-----------------------------------------------------------------------------
(* CallMethod and callContract *)

bodyVars == <<depth, serial, poolVars, result, unclosed>>

(* The contract says which runtime it is for: not at all, with a trap, with *)
(* the wrong answer, or well.  Its context pointer is put into the          *)
(* parameters, which panics when the caller passed a nil map.               *)
CallMethod(d) ==
  /\ At(d, "entered")
  /\ Fails(d) \/ Goes(d, "allocating") \/ Panic(d)
  /\ UNCHANGED <<bodyVars, moves>>

(* The memory of the contract moves when it grows. *)
MayMove(i, moved) ==
  /\ moved = 1 => moves[i] < MaxGrows
  /\ moves' = [moves EXCEPT ![i] = @ + moved]

(* Fault: the slice over the memory is made before allocate is called. *)
AllocateViewFirst(d, moved) ==
  /\ MayMove(frame[d].inst, moved)
  /\ Set(d, [frame[d] EXCEPT !.pc = "filling", !.view = moves[frame[d].inst]])

(* allocate has returned: Data() is sliced at the pointer. *)
AllocateView(d, moved) ==
  /\ MayMove(frame[d].inst, moved)
  /\ Set(d, [frame[d] EXCEPT !.pc = "filling", !.view = moves'[frame[d].inst]])

(* Room for the parameters; a missing allocate is a call of a nil function, *)
(* and a pointer outside the memory is a panic too.                         *)
Allocate(d) ==
  /\ At(d, "allocating")
  /\ \/ \E moved \in {0, 1} : AllocateView(d, moved) /\ UNCHANGED void
     \/ (Fails(d) \/ Panic(d)) /\ UNCHANGED moves
  /\ UNCHANGED bodyVars

(* The parameters are copied, which panics if they do not fit, and the      *)
(* method starts, if it is exported.                                        *)
CopyParameters(d) ==
  /\ At(d, "filling")
  /\ Panic(d) \/ Fails(d) \/ Goes(d, "running")
  /\ UNCHANGED <<bodyVars, moves>>

(* While the method runs: its memory grows, or it ends, by returning, by a  *)
(* trap, or by calling proc_exit.                                           *)
RunMethod(d) ==
  /\ At(d, "running")
  /\ \/ MayMove(frame[d].inst, 1) /\ UNCHANGED <<frame, void>>
     \/ (Goes(d, "succeeded") \/ Fails(d)) /\ UNCHANGED moves
  /\ UNCHANGED bodyVars

procExit(d) == At(d, "running") /\ Panic(d) /\ UNCHANGED <<bodyVars, moves>>

-----------------------------------------------------------------------------
(* System calls *)

callVars == <<bodyVars, moves, void>>

(* The activation as a system call leaves it, the call itself counted. *)
Counted(d) == [frame[d] EXCEPT !.calls = @ + 1]

CanCall(d) == At(d, "running") /\ frame[d].calls < MaxCalls

(* Fault: the code counts the failures. *)
RecordCounting(f) == [f EXCEPT !.code = @ + 1, !.faults = 1]

(* The result remembers that a system call failed. *)
recordMsg(f) == [f EXCEPT !.code = 1, !.faults = 1]

(* The end of every handler: err is recorded, or nothing more happens. *)
Outcomes(f) == {f, recordMsg(f)}

(* Fault: the cache is only replaced when the library reports no error. *)
ResetCacheIfOK(f, data) == IF data = Nil THEN f ELSE [f EXCEPT !.cache = data]

(* GetStateCache = data, whatever the outcome. *)
ResetCache(f, data) == [f EXCEPT !.cache = data]

(* A length call fetches a value and leaves it in the cache; the value call *)
(* that follows copies it into the memory and leaves nil.                   *)
LengthCall(d) ==
  LET f == [Counted(d) EXCEPT !.announced = frame[d].calls + 1]
  IN Set(d, ResetCache(f, f.calls)) \/ Set(d, recordMsg(ResetCache(f, Nil)))

ValueCall(d) == \E f \in Outcomes(ResetCache(Counted(d), Nil)) : Set(d, f)

(* Every other handler: one call of the library, its error recorded. *)
PlainCall(d) == \E f \in Outcomes(Counted(d)) : Set(d, f)

(* GetState and KvIteratorNext are pairs; PutState, DeleteState,            *)
(* KvIteratorHasNext and KvIteratorClose are plain.                         *)
KvCall(d) == LengthCall(d) \/ ValueCall(d) \/ PlainCall(d)

(* KvIterator, KvPreIterator: the transaction is marked before the call. *)
KvIterator(d) ==
  \E f \in Outcomes([Counted(d) EXCEPT !.mark = "iterator", !.iterated = 1]) :
    Set(d, f)

(* ExecuteQueryOne and RSNext are pairs; ExecuteQuery, RSHasNext, RSClose,   *)
(* ExecuteUpdate and ExecuteDDL are plain.                                   *)
SqlCall(d) == LengthCall(d) \/ ValueCall(d) \/ PlainCall(d)

(* GetBulletProofsResult and GetPaillierResult are pairs. *)
CryptoCall(d) == LengthCall(d) \/ ValueCall(d)

EmitEvent(d) ==
  LET f == Counted(d)
  IN \/ Set(d, [f EXCEPT !.events = @ \cup {f.serial}])
     \/ Set(d, recordMsg(f))

(* The contract reports its result: the library may take back the code of   *)
(* an earlier failure, and an error may set it.                             *)
SuccessResult(d) ==
  \E c \in {0, frame[d].code} :
    Set(d, [Counted(d) EXCEPT !.code = c, !.faults = 0])

ErrorResult(d) ==
  \E c \in {frame[d].code, 1} : Set(d, [Counted(d) EXCEPT !.code = c])

(* An empty header, an unknown method, a log message or a WASI function:    *)
(* nothing is recorded.                                                     *)
IgnoredCall(d) == Set(d, Counted(d))

invoke(d) ==
  \/ KvCall(d)
  \/ KvIterator(d)
  \/ SqlCall(d)
  \/ CryptoCall(d)
  \/ EmitEvent(d)
  \/ SuccessResult(d)
  \/ ErrorResult(d)
  \/ IgnoredCall(d)

(* A request without ctx_ptr or method, of a context that is not            *)
(* registered, or outside the memory, panics.                               *)
sysCall(d) ==
  /\ CanCall(d)
  /\ \/ frame[d].serial \in registry /\ invoke(d) /\ UNCHANGED void
     \/ Panic(d)
  /\ UNCHANGED <<bodyVars, moves>>

(* CallContractLen takes its view of the memory and calls the library.      *)
CallContractLen(d) ==
  /\ CanCall(d)
  /\ frame[d].serial \in registry
  /\ LET f == Counted(d)
     IN Set(d, [f EXCEPT !.pc = "calling", !.view = moves[f.inst]])
  /\ UNCHANGED callVars

(* The result of the called contract is cached and its events are passed    *)
(* on; without a result the cache becomes nil.                              *)
Absorb(f, data, events) ==
  [ResetCache(f, data) EXCEPT !.events = @ \cup events, !.announced = f.calls]

(* The mark is overwritten by the one the library gives: an iterator that   *)
(* was opened before is forgotten.                                          *)
MarkAs(f, m) == [f EXCEPT !.mark = m, !.iterated = 0]

(* The library refuses the call, and gives no result. *)
CallRefused(d) ==
  /\ At(d, "calling")
  /\ \E m \in Marks :
       Set(d, recordMsg(MarkAs([Absorb(frame[d], Nil, {}) EXCEPT !.pc = "running"], m)))
  /\ UNCHANGED callVars

(* The called activation has ended.  The library may pass its result on, or *)
(* an empty one, or none, and may report an error even if it succeeded.     *)
CallReturned(d) ==
  /\ At(d, "awaiting")
  /\ LET f == [frame[d] EXCEPT !.pc = "running", !.under = @ \cup result.under]
     IN \E m \in {result.mark, "normal"} :
          \E g \in {MarkAs(Absorb(f, f.calls, result.events), m),
                   MarkAs(Absorb(f, Nil, result.events), m),
                   MarkAs(Absorb(f, Nil, {}), m)} :
            Set(d, recordMsg(g)) \/ (result.code = 0 /\ Set(d, g))
  /\ UNCHANGED callVars

(* The value call of the pair: the library gives no result. *)
CallContract(d) ==
  /\ CanCall(d)
  /\ frame[d].serial \in registry
  /\ \E m \in Marks :
       \E f \in Outcomes(MarkAs(Absorb(Counted(d), Nil, {}), m)) : Set(d, f)
  /\ UNCHANGED callVars

-----------------------------------------------------------------------------
(* Invoke: the way out *)

(* Fault: the events are handed over before the error is looked at. *)
ConcludeEventsFirst(d) ==
  /\ LET f == [Leave(frame[d]) EXCEPT !.sent = frame[d].events]
     IN \/ At(d, "succeeded") /\ Set(d, f) /\ UNCHANGED void
        \/ /\ At(d, "succeeded") \/ At(d, "failed")
           /\ Set(d, [f EXCEPT !.code = 1, !.faults = 1])
           /\ Break(d)
  /\ UNCHANGED <<bodyVars, moves>>

(* CallMethod has returned: with an error, or with too much gas used, the   *)
(* result gets the code and no events.                                      *)
Conclude(d) ==
  /\ LET f == Leave(frame[d])
     IN \/ /\ At(d, "succeeded")
           /\ Set(d, [f EXCEPT !.sent = frame[d].events])
           /\ UNCHANGED void
        \/ /\ At(d, "succeeded") \/ At(d, "failed")
           /\ Set(d, [f EXCEPT !.code = 1, !.faults = 1])
           /\ Break(d)
  /\ UNCHANGED <<bodyVars, moves>>

(* Fault: a panic skips the removal of the context. *)
RemoveContextUnlessPanic(d) ==
  /\ At(d, "removeContext")
  /\ Goes(d, "release")
  /\ registry' = IF frame[d].panic = 1 THEN registry
                 ELSE registry \ {frame[d].serial}
  /\ UNCHANGED <<depth, serial, free, discarding, live, moves, result, unclosed>>

(* defer sc.removeCtxPointer() *)
RemoveContext(d) ==
  /\ At(d, "removeContext")
  /\ Goes(d, "release")
  /\ registry' = registry \ {frame[d].serial}
  /\ UNCHANGED <<depth, serial, free, discarding, live, moves, result, unclosed>>

(* defer RevertInstance, which puts the instance back or starts a goroutine *)
(* that discards it, or CloseInstance, which calls the deallocate of the    *)
(* contract first, and panics if that is not exported.                      *)
Release(d) ==
  /\ At(d, "release")
  /\ LET i == frame[d].inst
     IN \/ /\ i = Pooled
           /\ \/ free' = free \cup {Pooled} /\ UNCHANGED discarding
              \/ discarding' = discarding \cup {Pooled} /\ UNCHANGED free
           /\ Goes(d, "recover")
           /\ UNCHANGED <<live, unclosed>>
        \/ /\ i # Pooled
           /\ live' = live \ {i}
           /\ Goes(d, "recover")
           /\ UNCHANGED <<free, discarding, unclosed>>
        \/ /\ i \notin {Pooled, NoInstance}
           /\ Set(d, [frame[d] EXCEPT !.pc = "recover", !.panic = 1, !.faults = 1])
           /\ unclosed' = unclosed \cup {i}
           /\ UNCHANGED <<free, discarding, live, void>>
  /\ UNCHANGED <<depth, serial, moves, registry, result>>

(* The goroutine has the instance removed, a new one put into the pool, and *)
(* closes the old one; Pooled names the new one from now on.                *)
ReplaceDiscarded ==
  /\ Pooled \in discarding
  /\ discarding' = discarding \ {Pooled}
  /\ free' = free \cup {Pooled}
  /\ UNCHANGED <<depth, frame, serial, live, moves, registry, result, void, unclosed>>

(* Fault: recover stops the panic and leaves the code. *)
CodeKept(f) == f.code

(* contractResult.Code after the deferred recover. *)
CodeReturned(f) == IF f.panic = 1 THEN 1 ELSE f.code

(* Fault: specialTxType is assigned before the contract is called. *)
MarkAssignedEarly(f) == "normal"

(* specialTxType after the deferred recover. *)
MarkReturned(f) == IF f.panic = 1 THEN "normal" ELSE f.mark

(* defer recover: the activation returns. *)
Recover(d) ==
  /\ At(d, "recover")
  /\ LET f == frame[d]
     IN /\ result' = [code |-> CodeReturned(f), faults |-> f.faults,
                      events |-> f.sent, under |-> f.under,
                      mark |-> MarkReturned(f),
                      iterated |-> IF f.panic = 1 THEN 0 ELSE f.iterated]
  /\ depth' = d - 1
  /\ Set(d, NoFrame)
  /\ UNCHANGED <<serial, free, discarding, live, moves, registry, void, unclosed>>

-----------------------------------------------------------------------------
Next ==
  \/ EnterPooled \/ ReplaceDiscarded
  \/ \E d \in Depth, made \in BOOLEAN : EnterNested(d, made)
  \/ \E d \in Depth :
       \/ CallMethod(d) \/ Allocate(d) \/ CopyParameters(d) \/ RunMethod(d)
       \/ procExit(d) \/ sysCall(d)
       \/ CallContractLen(d) \/ CallRefused(d) \/ CallReturned(d) \/ CallContract(d)
       \/ Conclude(d) \/ RemoveContext(d) \/ Release(d) \/ Recover(d)

Spec == Init /\ [][Next]_vars

-----------------------------------------------------------------------------
(* Type invariant *)

Frame ==
  [pc : {"none"} \cup BodyStates \cup DeferStates, serial : {NoSerial} \cup Serial,
   inst : {NoInstance, Pooled} \cup Serial, calls : 0..MaxCalls,
   cache : 0..MaxCalls, announced : 0..MaxCalls,
   view : 0..MaxGrows, code : {0, 1}, faults : {0, 1}, panic : {0, 1},
   events : SUBSET Serial, sent : SUBSET Serial, mark : Marks,
   iterated : {0, 1}, under : SUBSET Serial]

Result == [code : {0, 1}, faults : {0, 1}, events : SUBSET Serial, mark : Marks,
           iterated : {0, 1}, under : SUBSET Serial]

(* Every variable stays in its range: in particular the code of a result    *)
(* (recordMsg, recover) is 0 or 1.                                          *)
InvocationTypeOK ==
  /\ depth \in -1..MaxDepth
  /\ frame \in [Depth -> Frame]
  /\ serial \in 0..MaxInvokes
  /\ free \subseteq {Pooled}
  /\ discarding \subseteq {Pooled}
  /\ live \subseteq {Pooled} \cup Serial
  /\ moves \in [0..MaxInvokes -> 0..MaxGrows]
  /\ registry \subseteq Serial
  /\ result \in Result
  /\ void \subseteq Serial
  /\ unclosed \subseteq Serial

-----------------------------------------------------------------------------
(* Safety *)

Running == 0..depth

(* However Invoke is left, by a result, an error or a panic, at any depth,  *)
(* the deferred calls of runtime.go undo what it took: with no transaction  *)
(* left no context is registered, the pooled instance is back in the pool   *)
(* or with a goroutine that replaces it, not both, and the only private     *)
(* instances not closed are those whose contract has no deallocate.         *)
NothingLeftBehind ==
  depth = -1 => /\ registry = {}
                /\ free \cup discarding = {Pooled} /\ free \cap discarding = {}
                /\ live = {Pooled} \cup unclosed

(* A system call that copies a result copies it into the memory as it is    *)
(* now, even if a cross-contract call ran in between; so does callContract  *)
(* when it passes the parameters.  Both go through a slice made earlier     *)
(* (Data()), which a growing memory leaves behind.                          *)
ViewFresh ==
  \A d \in Running :
    frame[d].pc \in {"filling", "calling", "awaiting"} =>
      frame[d].view = moves[frame[d].inst]

(* GetStateCache holds nothing or the value of the latest length call of    *)
(* the same activation, never that of an earlier pair or of another         *)
(* activation: a value call never delivers a value longer ago announced.    *)
CacheFresh ==
  \A d \in Running : frame[d].cache \in {Nil, frame[d].announced}

(* The events a transaction reports were emitted by activations whose calls *)
(* of the contract neither failed nor panicked, and whose callers did not   *)
(* either: what broke off on the way took its events, and those of the      *)
(* contracts it had called, with it.                                        *)
NoVoidEvent == depth = -1 => result.events \cap void = {}

(* A result with code 0 is not that of a call that failed, of a panic, or   *)
(* of a contract that had a failed system call and reported no success      *)
(* after it.                                                                *)
FailureReported ==
  /\ result.faults = 1 => result.code = 1
  /\ \A d \in Running :
       frame[d].faults = 1 /\ frame[d].pc \in {"running", "calling", "awaiting"} =>
         frame[d].code = 1

(* A transaction that opened an iterator is returned with the iterator      *)
(* mark, unless it panicked or made a cross-contract call after that, which *)
(* overwrites the mark (vm_bridge.go, callContractCore).                    *)
IteratorMarked == result.iterated = 1 => result.mark = "iterator"

=============================================================================
