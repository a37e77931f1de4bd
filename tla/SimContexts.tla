----------------------------- MODULE SimContexts -----------------------------
(***************************************************************************)
(* The table through which a system call of a contract finds the context   *)
(* of its transaction (sim_context.go and vmBridgeManager of vm_bridge.go).*)
(* Invoke takes the next index, publishes its SimContext under it and      *)
(* passes the index to the contract, which gives it back with every system *)
(* call; a deferred call removes the entry.  Each of the four steps holds  *)
(* one mutex, and other transactions run between any two of them.          *)
(*                                                                         *)
(* Transactions on one goroutine (a cross-contract call) are transactions  *)
(* of their own here.  age is a history variable.                          *)
(***************************************************************************)
EXTENDS Integers, FiniteSets

CONSTANTS
  Tx,        \* invocations of RuntimeInstance.Invoke
  NoTx,      \* the nil *SimContext
  MaxIndex   \* 1e8, the last index before ctxIndex starts again at 0

ASSUME ContextAssumption == NoTx \notin Tx /\ MaxIndex \in Nat \ {0}

VARIABLES
  ctxIndex,         \* the package variable ctxIndex
  CtxPtr,           \* CtxPtr of the SimContext of each transaction
  simContextCache,  \* the transaction each index is mapped to
  pc,               \* where each transaction is
  served,           \* whose context its last system call worked on
  age,              \* history: indices taken since the transaction took its own
  lapped            \* history: a context has lived through a whole cycle

contextVars == <<ctxIndex, CtxPtr, simContextCache, pc, served, age, lapped>>

Index == 0..MaxIndex

(* Transactions that have an index and have not removed it yet. *)
Live == {t \in Tx : pc[t] \in {"allocated", "running"}}

Init ==
  /\ ctxIndex = 0
  /\ CtxPtr = [t \in Tx |-> 0]
  /\ simContextCache = [k \in Index |-> NoTx]
  /\ pc = [t \in Tx |-> "idle"]
  /\ served = [t \in Tx |-> t]
  /\ age = [t \in Tx |-> 0]
  /\ lapped = FALSE

(* Fault: the wrapped index is the one after 0. *)
NextIndexSkips(k) == IF k + 1 > MaxIndex THEN 1 ELSE k + 1

(* Fault: the index starts again one value early. *)
NextIndexOverflows(k) == k + 1

NextIndex(k) == IF k + 1 > MaxIndex THEN 0 ELSE k + 1

(* putCtxPointer, under lock: take the next index. *)
Allocate(t) ==
  /\ pc[t] = "idle"
  /\ ctxIndex' = NextIndex(ctxIndex)
  /\ CtxPtr' = [CtxPtr EXCEPT ![t] = NextIndex(ctxIndex)]
  /\ pc' = [pc EXCEPT ![t] = "allocated"]
  /\ age' = [u \in Tx |-> IF u = t THEN 0
                          ELSE IF u \in Live /\ age[u] <= MaxIndex
                               THEN age[u] + 1 ELSE age[u]]
  /\ lapped' = (lapped \/ \E u \in Live : age[u] >= MaxIndex)
  /\ UNCHANGED <<simContextCache, served>>

(* vmBridgeManager.put *)
Put(t) ==
  /\ pc[t] = "allocated"
  /\ simContextCache' = [simContextCache EXCEPT ![CtxPtr[t]] = t]
  /\ pc' = [pc EXCEPT ![t] = "running"]
  /\ UNCHANGED <<ctxIndex, CtxPtr, served, age, lapped>>

(* sysCall: vmBridgeManager.get with the index the contract passes on. *)
SysCall(t) ==
  /\ pc[t] = "running"
  /\ served' = [served EXCEPT ![t] = simContextCache[CtxPtr[t]]]
  /\ UNCHANGED <<ctxIndex, CtxPtr, simContextCache, pc, age, lapped>>

(* Fault: the entry is left in the table. *)
RemoveNothing(t) ==
  /\ pc[t] = "running"
  /\ pc' = [pc EXCEPT ![t] = "idle"]
  /\ served' = [served EXCEPT ![t] = t]
  /\ UNCHANGED <<ctxIndex, CtxPtr, simContextCache, age, lapped>>

(* removeCtxPointer, deferred by Invoke: vmBridgeManager.remove *)
Remove(t) ==
  /\ pc[t] = "running"
  /\ simContextCache' = [simContextCache EXCEPT ![CtxPtr[t]] = NoTx]
  /\ pc' = [pc EXCEPT ![t] = "idle"]
  /\ served' = [served EXCEPT ![t] = t]
  /\ UNCHANGED <<ctxIndex, CtxPtr, age, lapped>>

Next == \E t \in Tx : Allocate(t) \/ Put(t) \/ SysCall(t) \/ Remove(t)

Spec == Init /\ [][Next]_contextVars

-----------------------------------------------------------------------------
(* Every variable keeps its type: no index leaves 0..MaxIndex. *)
ContextTypeOK ==
  /\ ctxIndex \in Index
  /\ CtxPtr \in [Tx -> Index]
  /\ simContextCache \in [Index -> Tx \cup {NoTx}]
  /\ pc \in [Tx -> {"idle", "allocated", "running"}]
  /\ served \in [Tx -> Tx \cup {NoTx}]
  /\ age \in [Tx -> 0..(MaxIndex + 1)]
  /\ lapped \in BOOLEAN

(* As long as no transaction has lived while MaxIndex + 1 others took an    *)
(* index, every system call works on the context of its own transaction,    *)
(* whatever was wrapped around, overwritten or removed in the meantime.     *)
OwnContext ==
  ~lapped => \A t \in Tx :
               /\ served[t] = t
               /\ pc[t] = "running" => simContextCache[CtxPtr[t]] = t

(* Even when contexts have been lapped, the table only holds transactions   *)
(* that are still running, under their own index: it leaks nothing.         *)
NoStaleContext ==
  \A k \in Index : simContextCache[k] # NoTx =>
    LET t == simContextCache[k] IN pc[t] = "running" /\ CtxPtr[t] = k

=============================================================================
