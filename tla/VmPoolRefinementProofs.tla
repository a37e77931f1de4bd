------------------------ MODULE VmPoolRefinementProofs ------------------------
(***************************************************************************)
(* Proofs that VmPool implements InstanceLease and PoolLoop: every step of *)
(* the pool, taken from a state in which the invariant of VmPoolProofs     *)
(* holds, is a step of the abstract specification or a stutter.            *)
(***************************************************************************)
EXTENDS VmPoolRefinements, VmPoolProofs

out == removing \cup adding \cup disposing

(* The initial pool has lent and withdrawn nothing. *)
LEMMA InitLease == Init => Lease!Init
<1> SUFFICES ASSUME Init PROVE Lease!Init
  OBVIOUS
<1>1. leaseOf = [c \in Client |-> NoInstance]
  BY SMT DEF Init, leaseOf
<1>2. instances = {} /\ out = {}
  BY DEF Init, out
<1>3. QED
  BY <1>1, <1>2 DEF Lease!Init, out

(* What a step of client c makes of its lease. *)
LEMMA LeaseStep ==
  ASSUME Types, NEW c \in Client, NEW s, NEW i,
         pc' = [pc EXCEPT ![c] = s], inst' = [inst EXCEPT ![c] = i]
  PROVE  /\ s \in HoldStates => leaseOf' = [leaseOf EXCEPT ![c] = i]
         /\ s \notin HoldStates => leaseOf' = [leaseOf EXCEPT ![c] = NoInstance]
<1>1. /\ pc'[c] = s /\ inst'[c] = i
      /\ \A d \in Client \ {c} : pc'[d] = pc[d] /\ inst'[d] = inst[d]
  BY DEF Types
<1>2. HoldStates' = HoldStates
  BY DEF HoldStates, BorrowStates
<1>3. leaseOf' = [d \in Client |-> IF d = c THEN IF s \in HoldStates THEN i ELSE NoInstance
                                             ELSE leaseOf[d]]
  BY <1>1, <1>2 DEF leaseOf
<1>4. QED
  BY <1>3 DEF leaseOf

(* A client that holds an instance has the lease of it. *)
LEMMA Leased ==
  ASSUME Types, NEW c \in Client, pc[c] \in HoldStates
  PROVE  leaseOf[c] = inst[c] /\ inst[c] # NoInstance
<1>1. c \in Holders
  BY DEF Holders
<1>2. QED
  BY <1>1, EnvironmentAssumption DEF Types, leaseOf

(* An identity that is not live is unknown to the lease specification. *)
LEMMA FreshUnknown ==
  ASSUME Types, ExclusiveUse, NEW i \in Instance, Fresh(i)
  PROVE  Lease!Unknown(i)
  BY SMT DEF Types, ExclusiveUse, Fresh, Holders, leaseOf, Lease!Unknown, Lease!Lent

(* A step of the pool is a step of the lease specification, or a stutter. *)
LEMMA NextLease == IInv /\ [Next]_vars => [Lease!Next]_(Lease!leaseVars)
<1> SUFFICES ASSUME IInv, [Next]_vars
             PROVE  Lease!Next \/ UNCHANGED <<instances, leaseOf, out>>
  BY DEF Lease!leaseVars, out
<1> USE DEF chanVars, loopVars, growVars, callVars, clientVars, discardVars,
           HoldStates, BorrowStates
<1>a. Types /\ ExclusiveUse /\ Counts
  BY DEF IInv
<1>1. ASSUME NEW c \in Client, NEW i \in Instance, GetFast(c, i) \/ GetSlow(c, i)
      PROVE Lease!Next
  <2>0. /\ pc[c] \in {"idle", "applying", "waiting"}
        /\ pc' = [pc EXCEPT ![c] = "running"] /\ inst' = [inst EXCEPT ![c] = i]
    BY <1>1 DEF GetFast, GetSlow, Borrow
  <2>1. leaseOf[c] = NoInstance /\ leaseOf' = [leaseOf EXCEPT ![c] = i]
    BY <2>0, <1>a, LeaseStep DEF leaseOf
  <2>2. i \in instances /\ instances' = instances \ {i} /\ out' = out
    BY <1>1 DEF GetFast, GetSlow, Borrow, out
  <2>3. Lease!Lend(c, i)
    BY <2>1, <2>2 DEF Lease!Lend, out
  <2>4. QED
    BY <2>3 DEF Lease!Next
<1>2. ASSUME NEW c \in Client, NEW i \in Instance, BeginNested(c, i)
      PROVE Lease!Next
  <2>0. /\ pc[c] = "idle"
        /\ pc' = [pc EXCEPT ![c] = "nested"] /\ inst' = [inst EXCEPT ![c] = i]
    BY <1>2 DEF BeginNested
  <2>1. leaseOf[c] = NoInstance /\ leaseOf' = [leaseOf EXCEPT ![c] = i]
    BY <2>0, <1>a, LeaseStep DEF leaseOf
  <2>2. instances' = instances /\ out' = out
    BY <1>2 DEF BeginNested, out
  <2>3. Lease!LendPrivate(c, i)
    BY <1>2, <1>a, <2>1, <2>2, FreshUnknown DEF BeginNested, Lease!LendPrivate, out
  <2>4. QED
    BY <2>3 DEF Lease!Next
<1>3. ASSUME NEW c \in Client, NEW outcome \in Outcome, EndCall(c, outcome)
      PROVE Lease!Next \/ UNCHANGED <<instances, leaseOf, out>>
  <2>1. leaseOf[c] = inst[c] /\ inst[c] # NoInstance /\ instances' = instances
    BY <1>3, <1>a, Leased DEF EndCall
  <2>2. CASE removing' = removing \cup {inst[c]}
             /\ pc' = [pc EXCEPT ![c] = IF outcome = "panic" THEN "late" ELSE "idle"]
             /\ inst' = [inst EXCEPT ![c] = IF outcome = "panic" THEN inst[c]
                                                                ELSE NoInstance]
    <3>1. leaseOf' = [leaseOf EXCEPT ![c] = NoInstance]
      <4>1. CASE outcome = "panic"
        BY <2>2, <4>1, <1>a, LeaseStep
      <4>2. CASE outcome # "panic"
        BY <2>2, <4>2, <1>a, LeaseStep
      <4>3. QED
        BY <4>1, <4>2
    <3>2. out' = out \cup {inst[c]}
      BY <1>3, <2>2 DEF EndCall, out
    <3>3. Lease!Withdraw(c)
      BY <2>1, <3>1, <3>2 DEF Lease!Withdraw, Lease!EndLease, out
    <3>4. QED
      BY <3>3 DEF Lease!Next
  <2>3. CASE pc' = [pc EXCEPT ![c] = IF outcome = "panic" THEN "revertingPanic"
                                                           ELSE "reverting"]
             /\ UNCHANGED <<inst, removing>>
    <3>1. leaseOf' = leaseOf
      BY <1>3, <2>3, <1>a, SMT DEF Types, EndCall, leaseOf
    <3>2. QED
      BY <1>3, <2>1, <2>3, <3>1 DEF EndCall, out
  <2>4. QED
    BY <1>3, <2>2, <2>3 DEF EndCall
<1>4. ASSUME NEW c \in Client, Revert(c) PROVE Lease!Next
  <2>1. /\ leaseOf[c] = inst[c] /\ inst[c] # NoInstance
        /\ leaseOf' = [leaseOf EXCEPT ![c] = NoInstance]
    <3>1. leaseOf[c] = inst[c] /\ inst[c] # NoInstance
      BY <1>4, <1>a, Leased DEF Revert
    <3>2. CASE pc[c] = "revertingPanic"
      <4>1. pc' = [pc EXCEPT ![c] = "late"] /\ inst' = [inst EXCEPT ![c] = inst[c]]
        BY <1>4, <3>2 DEF Revert
      <4>2. QED
        BY <4>1, <3>1, <1>a, LeaseStep
    <3>3. CASE pc[c] # "revertingPanic"
      <4>1. pc' = [pc EXCEPT ![c] = "idle"] /\ inst' = [inst EXCEPT ![c] = NoInstance]
        BY <1>4, <3>3 DEF Revert
      <4>2. QED
        BY <4>1, <3>1, <1>a, LeaseStep
    <3>4. QED
      BY <3>2, <3>3
  <2>2. instances' = instances \cup {inst[c]} /\ out' = out
    BY <1>4 DEF Revert, out
  <2>3. Lease!Return(c)
    BY <2>1, <2>2 DEF Lease!Return, Lease!EndLease, out
  <2>4. QED
    BY <2>3 DEF Lease!Next
<1>5. ASSUME NEW c \in Client, EndNested(c) PROVE Lease!Next
  <2>1. /\ leaseOf[c] = inst[c] /\ inst[c] # NoInstance
        /\ leaseOf' = [leaseOf EXCEPT ![c] = NoInstance]
    <3>1. leaseOf[c] = inst[c] /\ inst[c] # NoInstance
      BY <1>5, <1>a, Leased DEF EndNested
    <3>2. pc' = [pc EXCEPT ![c] = "idle"] /\ inst' = [inst EXCEPT ![c] = NoInstance]
      BY <1>5 DEF EndNested
    <3>3. QED
      BY <3>1, <3>2, <1>a, LeaseStep
  <2>2. instances' = instances /\ out' = out
    BY <1>5 DEF EndNested, out
  <2>3. Lease!DestroyPrivate(c)
    BY <2>1, <2>2 DEF Lease!DestroyPrivate, Lease!EndLease, out
  <2>4. QED
    BY <2>3 DEF Lease!Next
<1>6. ASSUME NEW c \in Client,
             \/ Apply(c) \/ Wait(c) \/ GetNil(c) \/ GetClosed(c) \/ ReturnFailed(c)
             \/ CountPanic(c)
      PROVE UNCHANGED <<instances, leaseOf, out>>
  <2>1. leaseOf' = leaseOf
    BY <1>6, <1>a, SMT DEF Types, Apply, Wait, GetNil, GetClosed, ReturnFailed, CountPanic,
       leaseOf
  <2>2. QED
    BY <1>6, <2>1 DEF Apply, Wait, GetNil, GetClosed, ReturnFailed, CountPanic, out
<1>7. ASSUME NEW i \in Instance, GrowSend(i) PROVE Lease!Next
  <2>1. leaseOf' = leaseOf /\ out' = out /\ instances' = instances \cup {i}
    BY <1>7 DEF GrowSend, leaseOf, out
  <2>2. Lease!Supply(i)
    BY <1>7, <1>a, <2>1, FreshUnknown DEF GrowSend, Lease!Supply, out
  <2>3. QED
    BY <2>2 DEF Lease!Next
<1>8. ASSUME NEW i \in Instance, ShrinkOne(i) \/ DrainOne(i) PROVE Lease!Next
  <2>1. /\ leaseOf' = leaseOf /\ out' = out
        /\ i \in instances /\ instances' = instances \ {i}
    BY <1>8 DEF ShrinkOne, DrainOne, TakeBack, leaseOf, out
  <2>2. Lease!Retire(i)
    BY <2>1 DEF Lease!Retire, out
  <2>3. QED
    BY <2>2 DEF Lease!Next
<1>9. ASSUME NEW i \in Instance, OnRemove(i) \/ OnAdd(i)
      PROVE UNCHANGED <<instances, leaseOf, out>>
  <2>1. out' = out
    BY <1>9, SMT DEF OnRemove, OnAdd, out
  <2>2. QED
    BY <1>9, <2>1 DEF OnRemove, OnAdd, leaseOf
<1>10. CASE DrainDone
  <2>1. leaseOf' = leaseOf
    BY <1>10, <1>a, SMT DEF Types, DrainDone, leaseOf
  <2>2. QED
    BY <1>10, <2>1 DEF DrainDone, out
<1>11. CASE SwapChannel
  <2>1. instances' = instances
    BY <1>11, <1>a DEF SwapChannel, Counts, NothingOut
  <2>2. QED
    BY <1>11, <2>1 DEF SwapChannel, StartGrow, leaseOf, out
<1>12. ASSUME NEW i \in Instance, Dispose(i) PROVE Lease!Next
  <2>1. /\ leaseOf' = leaseOf /\ instances' = instances
        /\ i \in out /\ out' = out \ {i}
    BY <1>12, <1>a, SMT DEF Dispose, ExclusiveUse, leaseOf, out
  <2>2. Lease!Destroy(i)
    BY <2>1 DEF Lease!Destroy, out
  <2>3. QED
    BY <2>2 DEF Lease!Next
<1>13. CASE StartBatch \/ GrowSendNil \/ GrowCount \/ GrowDone \/ OnApplySignal
            \/ OnRefresh \/ OnClose \/ OnReset \/ TakeBackNil
            \/ DeallocatePanics \/ CallerNext \/ UNCHANGED vars
  BY <1>13 DEF StartBatch, GrowSendNil, GrowCount, GrowDone, OnApplySignal,
     OnRefresh, OnClose, OnReset, TakeBackNil, DeallocatePanics, CallerNext, Reset,
     Close, vars, leaseOf, out
<1>14. QED
  BY <1>1, <1>2, <1>3, <1>4, <1>5, <1>6, <1>7, <1>8, <1>9, <1>10, <1>11, <1>12,
     <1>13
     DEF Next, ClientNext, GrowNext, LoopNext, DiscardNext

(* The pool implements the lease specification: whatever its loop and its   *)
(* goroutines do, an instance is lent to one transaction at a time, and a   *)
(* withdrawn one is only ever destroyed.                                    *)
THEOREM LeaseImplemented == Spec => ImplementsLease
  BY InitLease, NextLease, Invariant, PTL DEF Spec, ImplementsLease, Lease!Spec

-----------------------------------------------------------------------------
(* The loop as the manager knows it. *)

stages == [p \in This |-> stageOf]
closes == {p \in This : closeC}
waits  == {p \in This : resetSenders > 0}

LEMMA InitLoop == Init => Loop!Init
<1> SUFFICES ASSUME Init PROVE Loop!Init
  OBVIOUS
<1>1. stageOf = "open" /\ ~closeC /\ resetSenders = 0
  BY DEF Init, stageOf
<1>2. QED
  BY <1>1 DEF Loop!Init

(* Steps that the manager does not see. *)
LEMMA LoopStutters ==
  ASSUME stageOf' = stageOf, UNCHANGED <<closeC, resetSenders>>
  PROVE  UNCHANGED <<stages, closes, waits>>
BY DEF stages, closes, waits, This

(* Steps that change the stage. *)
LEMMA LoopMoves ==
  ASSUME NEW from, NEW to, stageOf \in from, stageOf' = to, closeC' = closeC
  PROVE  Loop!Goto("this", from, to)
BY DEF Loop!Goto, This

LEMMA NextLoop == IInv /\ [Next]_vars => [Loop!Next]_(Loop!poolVars)
<1> SUFFICES ASSUME IInv, [Next]_vars
             PROVE  Loop!Next \/ UNCHANGED <<stages, closes, waits>>
  BY DEF Loop!poolVars, stages, closes, waits
<1> USE DEF chanVars, loopVars, growVars, callVars, clientVars, discardVars,
           GrowStates, DrainStates
<1>a. resetSenders \in Nat /\ closeC \in BOOLEAN
  BY DEF IInv, Types
<1>1. ASSUME NEW c \in Client, ClientNext(c) PROVE UNCHANGED <<stages, closes, waits>>
  <2>1. UNCHANGED <<loop, closeC, resetSenders>>
    BY <1>1 DEF ClientNext, GetFast, GetSlow, Borrow, BeginNested, EndCall, Apply, Wait,
       GetNil, GetClosed, ReturnFailed, Revert, CountPanic, EndNested
  <2>2. QED
    BY <2>1, LoopStutters DEF stageOf
<1>2. ASSUME NEW i \in Instance, GrowSend(i) \/ Dispose(i) \/ OnRemove(i) \/ DrainOne(i)
      PROVE  UNCHANGED <<stages, closes, waits>>
  <2>1. UNCHANGED <<loop, closeC, resetSenders>>
    BY <1>2 DEF GrowSend, Dispose, OnRemove, DrainOne, TakeBack
  <2>2. QED
    BY <2>1, LoopStutters DEF stageOf
<1>3. CASE StartBatch \/ GrowSendNil \/ GrowCount \/ UNCHANGED vars
  <2>1. UNCHANGED <<loop, closeC, resetSenders>>
    BY <1>3 DEF StartBatch, GrowSendNil, GrowCount, vars
  <2>2. QED
    BY <2>1, LoopStutters DEF stageOf
<1>4. ASSUME NEW i \in Instance, ShrinkOne(i) \/ OnAdd(i)
      PROVE  UNCHANGED <<stages, closes, waits>>
  <2>1. UNCHANGED <<closeC, resetSenders>> /\ stageOf' = stageOf
    BY <1>4 DEF ShrinkOne, OnAdd, TakeBack, StartGrow, stageOf
  <2>2. QED
    BY <2>1, LoopStutters
<1>5. CASE OnApplySignal \/ OnRefresh \/ SwapChannel
  <2>1. UNCHANGED <<closeC, resetSenders>> /\ stageOf' = stageOf
    BY <1>5 DEF OnApplySignal, OnRefresh, SwapChannel, StartGrow, stageOf
  <2>2. QED
    BY <2>1, LoopStutters
(* The end of a growth ends a reset, if it was one. *)
<1>6. CASE GrowDone
  <2>1. UNCHANGED <<closeC, resetSenders>> /\ stageOf' = "open"
    BY <1>6 DEF GrowDone, stageOf
  <2>2. CASE loop = "growReset"
    <3>1. Loop!FinishReset("this")
      BY <2>1, <2>2, LoopMoves DEF Loop!FinishReset, stageOf
    <3>2. QED
      BY <3>1 DEF Loop!Next, This
  <2>3. CASE loop # "growReset"
    BY <1>6, <2>1, <2>3, LoopStutters DEF GrowDone, stageOf
  <2>4. QED
    BY <2>2, <2>3
<1>7. CASE OnClose
  <2>1. /\ stageOf = "open" /\ stageOf' = "stopped" /\ closeC
        /\ UNCHANGED <<closeC, resetSenders>>
    BY <1>7 DEF OnClose, stageOf
  <2>2. Loop!Stop("this")
    BY <2>1, LoopMoves DEF Loop!Stop, This
  <2>3. QED
    BY <2>2 DEF Loop!Next, This
<1>8. CASE OnReset
  <2>1. /\ stageOf = "open" /\ stageOf' = "resetting" /\ closeC' = closeC
        /\ resetSenders > 0 /\ resetSenders' = resetSenders - 1
    BY <1>8 DEF OnReset, stageOf
  <2>2. waits' \in {waits, waits \ {"this"}} /\ "this" \in waits
    BY <2>1 DEF waits, This
  <2>3. Loop!TakeReset("this")
    BY <2>1, <2>2, LoopMoves DEF Loop!TakeReset, waits
  <2>4. QED
    BY <2>3 DEF Loop!Next, This
(* The drain of a reset goes on with the new channel, that of a close was   *)
(* the last thing the loop did.                                             *)
<1>9. CASE DrainDone
  <2>1. UNCHANGED <<closeC, resetSenders>> /\ stageOf' = stageOf
    BY <1>9 DEF DrainDone, stageOf
  <2>2. QED
    BY <2>1, LoopStutters
<1>10. CASE (TakeBackNil \/ DeallocatePanics) /\ loop # "crashed"
  <2>1. /\ stageOf \in {"open", "resetting", "stopped"} /\ stageOf' = "crashed"
        /\ UNCHANGED <<closeC, resetSenders>>
    BY <1>10 DEF TakeBackNil, DeallocatePanics, stageOf
  <2>2. Loop!Crash("this")
    BY <2>1, LoopMoves DEF Loop!Crash
  <2>3. QED
    BY <2>2 DEF Loop!Next, This
<1>11. CASE Reset
  <2>1. UNCHANGED <<loop, closeC>> /\ resetSenders' = resetSenders + 1
    BY <1>11 DEF Reset
  <2>2. UNCHANGED <<stages, closes>> /\ waits' = waits \cup {"this"}
    BY <1>a, <2>1 DEF stages, stageOf, closes, waits, This
  <2>3. stages["this"] # "unused"
    BY DEF stages, stageOf, This
  <2>4. Loop!Reset("this")
    BY <2>2, <2>3 DEF Loop!Reset, stages, closes, waits
  <2>5. QED
    BY <2>4 DEF Loop!Next, This
<1>12. CASE Close
  <2>1. UNCHANGED <<loop, resetSenders>> /\ ~closeC /\ closeC'
    BY <1>12 DEF Close
  <2>2. UNCHANGED <<stages, waits>> /\ "this" \notin closes
        /\ closes' = closes \cup {"this"}
    BY <2>1 DEF stages, stageOf, closes, waits, This
  <2>3. stages["this"] # "unused"
    BY DEF stages, stageOf, This
  <2>4. Loop!Close("this")
    BY <2>2, <2>3 DEF Loop!Close, stages, closes, waits
  <2>5. QED
    BY <2>4 DEF Loop!Next, This
<1>13. QED
  BY <1>1, <1>2, <1>3, <1>4, <1>5, <1>6, <1>7, <1>8, <1>9, <1>10, <1>11, <1>12
     DEF Next, GrowNext, LoopNext, DiscardNext, CallerNext

(* The pool implements the loop specification: whatever else it does with   *)
(* its instances, it resets when asked and only then, and a close ends it.  *)
THEOREM LoopImplemented == Spec => ImplementsLoop
  BY InitLoop, NextLoop, Invariant, PTL DEF Spec, ImplementsLoop, Loop!Spec

=============================================================================
