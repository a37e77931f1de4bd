---------------------------- MODULE VmPoolProofs ----------------------------
(***************************************************************************)
(* Proofs about VmPool for every value of its constants.  The inductive    *)
(* invariant is built in layers: the types of the variables (Types), where *)
(* grow and close may be under way (Phases), who has each instance         *)
(* (ExclusiveUse), and the count of the instances (Counts), each layer     *)
(* using those before it.                                                  *)
(***************************************************************************)
EXTENDS VmPool, FiniteSetTheorems, TLAPS

(* TypeOK without the claim that currentSize is never negative. *)
Types ==
  /\ instances \subseteq Instance /\ nils \in Nat /\ closed \in BOOLEAN
  /\ currentSize \in Int
  /\ applyGrowCount \in 0..(ApplyThreshold + 1) /\ applySenders \in 0..MaxSignals
  /\ loop \in LoopStates
  /\ shrinkLeft \in Nat /\ (loop = "shrinking" => shrinkLeft > 0)
  /\ growTodo \in Nat /\ growPending \in Nat /\ growSent \in Nat
  /\ resetSenders \in Nat /\ resetCalls \in 0..MaxResets /\ closeC \in BOOLEAN
  /\ pc \in [Client -> ClientStates]
  /\ inst \in [Client -> Instance \cup {NoInstance}]
  /\ errCount \in [Instance -> 0..(DiscardCount + 1)]
  /\ live \subseteq Instance
  /\ removing \subseteq Instance /\ adding \subseteq Instance
  /\ disposing \subseteq Instance
  /\ lostNils \in Nat /\ discards \in Nat
  /\ \A c \in Holders : inst[c] \in Instance
  /\ \A c \in Client : pc[c] = "late" => inst[c] \in Instance

USE SizeAssumption, EnvironmentAssumption
  DEF LoopStates, GrowStates, DrainStates, ClientStates, HoldStates, BorrowStates

LEMMA InitTypes == Init => Types
<1> SUFFICES ASSUME Init PROVE Types
  OBVIOUS
<1>1. /\ pc \in [Client -> ClientStates] /\ Holders = {}
      /\ inst \in [Client -> Instance \cup {NoInstance}]
      /\ errCount \in [Instance -> 0..(DiscardCount + 1)]
  BY SMT DEF Init, Holders
<1>2. \A c \in Client : pc[c] # "late"
  BY DEF Init
<1>3. closed \in BOOLEAN /\ closeC \in BOOLEAN
  BY Zenon DEF Init
<1>4. QED
  BY <1>1, <1>2, <1>3, SMT DEF Init, Types

LEMMA BumpType ==
  ASSUME Types, NEW i \in Instance
  PROVE  Bump(i) \in 0..(DiscardCount + 1)
  BY SMT DEF Types, Bump, Saturate

LEMMA NextTypes == Types /\ [Next]_vars => Types'
<1> SUFFICES ASSUME Types, [Next]_vars PROVE Types'
  OBVIOUS
<1> USE DEF chanVars, loopVars, growVars, callVars, clientVars, discardVars
<1>1. ASSUME NEW c \in Client, NEW i \in Instance, GetFast(c, i) \/ GetSlow(c, i)
      PROVE Types'
  BY <1>1, SMT DEF Types, GetFast, GetSlow, Borrow, Holders
<1>2. ASSUME NEW c \in Client, NEW i \in Instance, BeginNested(c, i)
      PROVE Types'
  BY <1>2, SMT DEF Types, BeginNested, Holders
<1>3. ASSUME NEW c \in Client, NEW outcome \in Outcome, EndCall(c, outcome)
      PROVE Types'
  BY <1>3, BumpType, SMT DEF Types, EndCall, Holders
<1>4. ASSUME NEW c \in Client, Apply(c) \/ Wait(c) PROVE Types'
  BY <1>4, SMT DEF Types, Apply, Wait, Saturate, Holders
<1>5. ASSUME NEW c \in Client, GetNil(c) \/ GetClosed(c) \/ ReturnFailed(c)
      PROVE Types'
  BY <1>5, SMT DEF Types, GetNil, GetClosed, ReturnFailed, Holders
<1>6. ASSUME NEW c \in Client, Revert(c) PROVE Types'
  BY <1>6, SMT DEF Types, Revert, Holders
<1>7. ASSUME NEW c \in Client, CountPanic(c) PROVE Types'
  BY <1>7, BumpType, SMT DEF Types, CountPanic, Holders
<1>8. ASSUME NEW c \in Client, EndNested(c) PROVE Types'
  BY <1>8, SMT DEF Types, EndNested, Holders
<1>9. ASSUME NEW i \in Instance, GrowSend(i) PROVE Types'
  BY <1>9, SMT DEF Types, GrowSend, Holders
<1>10. CASE StartBatch \/ GrowSendNil \/ GrowCount \/ GrowDone
  BY <1>10, SMT DEF Types, StartBatch, Saturate, GrowSendNil, GrowCount,
                    GrowDone, Holders
<1>11. ASSUME NEW i \in Instance, ShrinkOne(i) \/ DrainOne(i) PROVE Types'
  BY <1>11, SMT DEF Types, ShrinkOne, DrainOne, TakeBack, Holders
<1>12. ASSUME NEW i \in Instance, OnRemove(i) \/ OnAdd(i) PROVE Types'
  BY <1>12, SMT DEF Types, OnRemove, OnAdd, StartGrow, Holders
<1>13. CASE OnApplySignal
  BY <1>13, SMT DEF Types, OnApplySignal, StartGrow, Saturate, Holders
<1>14. CASE OnRefresh
  BY <1>14, SMT DEF Types, OnRefresh, StartGrow, Holders
<1>15. CASE OnClose \/ OnReset
  BY <1>15, SMT DEF Types, OnClose, OnReset, Holders
<1>16. CASE DrainDone
  <2>1. /\ pc' \in [Client -> ClientStates]
        /\ \A c \in Client : pc'[c] \in HoldStates \cup {"late"} => pc'[c] = pc[c]
    BY <1>16, SMT DEF Types, DrainDone
  <2>2. closed' \in BOOLEAN
    BY <1>16, Zenon DEF DrainDone
  <2>3. QED
    BY <1>16, <2>1, <2>2, SMT DEF Types, DrainDone, Holders
<1>17. CASE SwapChannel
  <2>1. closed' \in BOOLEAN
    BY <1>17, Zenon DEF SwapChannel
  <2>2. QED
    BY <1>17, <2>1, SMT DEF Types, SwapChannel, StartGrow, Holders
<1>18. CASE TakeBackNil \/ DeallocatePanics
  BY <1>18, SMT DEF Types, TakeBackNil, DeallocatePanics, Holders
<1>19. ASSUME NEW i \in Instance, Dispose(i) PROVE Types'
  BY <1>19, SMT DEF Types, Dispose, Holders
<1>20. CASE Reset
  BY <1>20, SMT DEF Types, Reset, Holders
<1>21. CASE Close
  <2>1. closeC' \in BOOLEAN
    BY <1>21, Zenon DEF Close
  <2>2. QED
    BY <1>21, <2>1, SMT DEF Types, Close, Holders
<1>22. CASE UNCHANGED vars
  BY <1>22, SMT DEF Types, vars, Holders
<1>23. QED
  BY <1>1, <1>2, <1>3, <1>4, <1>5, <1>6, <1>7, <1>8, <1>9, <1>10, <1>11, <1>12,
     <1>13, <1>14, <1>15, <1>16, <1>17, <1>18, <1>19, <1>20, <1>21, <1>22
     DEF Next, ClientNext, GrowNext, LoopNext, DiscardNext, CallerNext

-----------------------------------------------------------------------------
(* Nothing is being grown unless the loop is in grow, and the channel is    *)
(* closed only between the end of a drain and the new channel of reset.     *)
Phases ==
  /\ loop \notin GrowStates \cup {"crashed"} =>
       growTodo = 0 /\ growPending = 0 /\ growSent = 0
  /\ closed => loop \in {"swapping", "stopped", "crashed"}

LEMMA InitPhases == Init => Phases
  BY Zenon DEF Init, Phases

LEMMA NextPhases == Types /\ Phases /\ [Next]_vars => Phases'
<1> SUFFICES ASSUME Types, Phases, [Next]_vars PROVE Phases'
  OBVIOUS
<1> USE DEF chanVars, loopVars, growVars
<1>1. ASSUME NEW c \in Client, ClientNext(c) PROVE Phases'
  BY <1>1 DEF Phases, ClientNext, GetFast, GetSlow, Borrow, BeginNested, EndCall,
     Apply, Wait, GetNil, GetClosed, ReturnFailed, Revert, CountPanic, EndNested
<1>2. ASSUME NEW i \in Instance, GrowSend(i) PROVE Phases'
  BY <1>2, SMT DEF Types, Phases, GrowSend
<1>3. CASE StartBatch \/ GrowSendNil \/ GrowCount \/ GrowDone
  BY <1>3, SMT DEF Types, Phases, StartBatch, GrowSendNil, GrowCount, GrowDone
<1>4. ASSUME NEW i \in Instance, ShrinkOne(i) \/ DrainOne(i) PROVE Phases'
  BY <1>4, SMT DEF Types, Phases, ShrinkOne, DrainOne, TakeBack
<1>5. ASSUME NEW i \in Instance, OnRemove(i) \/ OnAdd(i) PROVE Phases'
  BY <1>5, SMT DEF Types, Phases, OnRemove, OnAdd, StartGrow
<1>6. CASE OnApplySignal \/ OnRefresh
  BY <1>6, SMT DEF Types, Phases, OnApplySignal, OnRefresh, StartGrow
<1>7. CASE OnClose \/ OnReset \/ DrainDone \/ TakeBackNil \/ DeallocatePanics
  BY <1>7, SMT DEF Types, Phases, OnClose, OnReset, DrainDone, TakeBackNil,
                   DeallocatePanics
<1>8. CASE SwapChannel
  <2>1. ~closed' /\ loop' = "growReset"
    BY <1>8, Zenon DEF SwapChannel, StartGrow
  <2>2. QED
    BY <2>1, Zenon DEF Phases
<1>9. CASE DiscardNext \/ CallerNext \/ UNCHANGED vars
  BY <1>9 DEF Phases, DiscardNext, CallerNext, Dispose, Reset, Close, vars
<1>10. QED
  BY <1>1, <1>2, <1>3, <1>4, <1>5, <1>6, <1>7, <1>8, <1>9
     DEF Next, GrowNext, LoopNext

-----------------------------------------------------------------------------
(* Who has an instance.  The identity of a new instance is one that is not  *)
(* live, so that nobody has it.                                             *)

LEMMA NextExclusiveUse == Types /\ ExclusiveUse /\ [Next]_vars => ExclusiveUse'
<1> SUFFICES ASSUME Types, ExclusiveUse, [Next]_vars PROVE ExclusiveUse'
  OBVIOUS
<1> USE DEF chanVars, clientVars, discardVars
<1>1. ASSUME NEW c \in Client, NEW i \in Instance, GetFast(c, i) \/ GetSlow(c, i)
      PROVE ExclusiveUse'
  BY <1>1, SMT DEF Types, ExclusiveUse, GetFast, GetSlow, Borrow, Holders
<1>2. ASSUME NEW c \in Client, NEW i \in Instance, BeginNested(c, i)
      PROVE ExclusiveUse'
  BY <1>2, SMT DEF Types, ExclusiveUse, BeginNested, Fresh, Holders
<1>3. ASSUME NEW c \in Client, NEW outcome \in Outcome, EndCall(c, outcome)
      PROVE ExclusiveUse'
  BY <1>3, SMT DEF Types, ExclusiveUse, EndCall, Holders
<1>4. ASSUME NEW c \in Client, Apply(c) \/ Wait(c) \/ GetNil(c) \/ GetClosed(c) \/ ReturnFailed(c)
      PROVE ExclusiveUse'
  BY <1>4, SMT DEF Types, ExclusiveUse, Apply, Wait, GetNil, GetClosed, ReturnFailed, Holders
<1>5. ASSUME NEW c \in Client, Revert(c) PROVE ExclusiveUse'
  BY <1>5, SMT DEF Types, ExclusiveUse, Revert, Holders
<1>6. ASSUME NEW c \in Client, CountPanic(c) \/ EndNested(c) PROVE ExclusiveUse'
  BY <1>6, SMT DEF Types, ExclusiveUse, CountPanic, EndNested, Holders
<1>7. ASSUME NEW i \in Instance, GrowSend(i) PROVE ExclusiveUse'
  BY <1>7, SMT DEF Types, ExclusiveUse, GrowSend, Fresh, Holders
<1>8. CASE StartBatch \/ GrowSendNil \/ GrowCount \/ GrowDone
  BY <1>8, SMT DEF ExclusiveUse, StartBatch, GrowSendNil, GrowCount, GrowDone, Holders
<1>9. ASSUME NEW i \in Instance, ShrinkOne(i) \/ DrainOne(i) PROVE ExclusiveUse'
  BY <1>9, SMT DEF Types, ExclusiveUse, ShrinkOne, DrainOne, TakeBack, Holders
<1>10. ASSUME NEW i \in Instance, OnRemove(i) \/ OnAdd(i) PROVE ExclusiveUse'
  BY <1>10, SMT DEF Types, ExclusiveUse, OnRemove, OnAdd, Holders
<1>11. CASE OnApplySignal \/ OnRefresh \/ OnClose \/ OnReset \/ TakeBackNil
            \/ DeallocatePanics
  BY <1>11, SMT DEF ExclusiveUse, OnApplySignal, OnRefresh, OnClose, OnReset,
                    TakeBackNil, DeallocatePanics, Holders
<1>12. CASE DrainDone
  BY <1>12, SMT DEF Types, ExclusiveUse, DrainDone, Holders
<1>13. CASE SwapChannel
  BY <1>13, SMT DEF ExclusiveUse, SwapChannel, Holders
<1>14. ASSUME NEW i \in Instance, Dispose(i) PROVE ExclusiveUse'
  BY <1>14, SMT DEF Types, ExclusiveUse, Dispose, Holders
<1>15. CASE Reset \/ Close \/ UNCHANGED vars
  BY <1>15, SMT DEF ExclusiveUse, Reset, Close, vars, Holders
<1>16. QED
  BY <1>1, <1>2, <1>3, <1>4, <1>5, <1>6, <1>7, <1>8, <1>9, <1>10, <1>11, <1>12,
     <1>13, <1>14, <1>15
     DEF Next, ClientNext, GrowNext, LoopNext, DiscardNext, CallerNext

-----------------------------------------------------------------------------
(* Counting.  Lemmas about the cardinalities SizeIsExact adds up.           *)

(* A finite set, and one with an element more or less. *)
LEMMA CardinalityChange ==
  ASSUME NEW T, IsFiniteSet(T), NEW S \in SUBSET T, NEW x
  PROVE  /\ Cardinality(S) \in Nat
         /\ Cardinality(S) = 0 => S = {}
         /\ Cardinality(S \cup {x}) =
              IF x \in S THEN Cardinality(S) ELSE Cardinality(S) + 1
         /\ Cardinality(S \ {x}) =
              IF x \in S THEN Cardinality(S) - 1 ELSE Cardinality(S)
<1>1. IsFiniteSet(S)
  BY FS_Subset
<1>2. QED
  BY <1>1, FS_CardinalityType, FS_EmptySet, FS_AddElement, FS_RemoveElement

(* The cardinalities of a state in which the types are right. *)
LEMMA Cardinalities ==
  ASSUME Types
  PROVE  /\ Cardinality(instances) \in Nat /\ Cardinality(removing) \in Nat
         /\ Cardinality(adding) \in Nat /\ Cardinality(Borrowers) \in Nat
         /\ Cardinality(instances) = 0 => instances = {}
         /\ Cardinality(removing) = 0 => removing = {}
         /\ Cardinality(Borrowers) = 0 => Borrowers = {}
<1>1. Borrowers \subseteq Client
  BY DEF Borrowers
<1>2. QED
  BY <1>1, CardinalityChange DEF Types

(* A step of client c adds it to the borrowers, takes it out, or neither. *)
LEMMA BorrowersStep ==
  ASSUME Types, NEW c \in Client, NEW s, pc' = [pc EXCEPT ![c] = s]
  PROVE  Borrowers' = IF s \in BorrowStates THEN Borrowers \cup {c}
                                            ELSE Borrowers \ {c}
  BY SMT DEF Types, Borrowers

LEMMA BorrowersCount ==
  ASSUME NEW c \in Client
  PROVE  /\ Cardinality(Borrowers \cup {c}) =
              IF c \in Borrowers THEN Cardinality(Borrowers)
                                 ELSE Cardinality(Borrowers) + 1
         /\ Cardinality(Borrowers \ {c}) =
              IF c \in Borrowers THEN Cardinality(Borrowers) - 1
                                 ELSE Cardinality(Borrowers)
<1>1. Borrowers \subseteq Client
  BY DEF Borrowers
<1>2. QED
  BY <1>1, CardinalityChange

(* Between the end of a drain and the new channel nothing is out. *)
NothingOut ==
  /\ currentSize = 0
  /\ instances = {} /\ nils = 0
  /\ Borrowers = {} /\ removing = {}

Counts ==
  /\ SizeIsExact
  /\ currentSize \in Nat
  /\ loop \in {"swapping", "stopped"} => NothingOut

LEMMA InitCounts == Init => Counts
<1> SUFFICES ASSUME Init PROVE Counts
  OBVIOUS
<1>1. Borrowers = {}
  BY SMT DEF Init, Borrowers
<1>2. QED
  BY <1>1, FS_EmptySet, SMT DEF Init, Counts, SizeIsExact

LEMMA NextCounts ==
  Types /\ Phases /\ ExclusiveUse /\ Counts /\ [Next]_vars => Counts'
<1> SUFFICES ASSUME Types, Phases, ExclusiveUse, Counts, [Next]_vars
             PROVE  Counts'
  OBVIOUS
<1> USE DEF chanVars, loopVars, growVars, callVars, clientVars, discardVars
<1>a. /\ Cardinality(instances) \in Nat /\ Cardinality(removing) \in Nat
      /\ Cardinality(Borrowers) \in Nat
  BY Cardinalities
<1>e. /\ Cardinality(instances) = 0 => instances = {}
      /\ Cardinality(removing) = 0 => removing = {}
      /\ Cardinality(Borrowers) = 0 => Borrowers = {}
  BY Cardinalities
<1>t. /\ nils \in Nat /\ lostNils \in Nat /\ growSent \in Nat
      /\ currentSize \in Nat
  BY DEF Types, Counts
<1>b. ASSUME NEW i \in Instance
      PROVE  /\ Cardinality(instances \cup {i}) =
                  IF i \in instances THEN Cardinality(instances)
                                     ELSE Cardinality(instances) + 1
             /\ Cardinality(instances \ {i}) =
                  IF i \in instances THEN Cardinality(instances) - 1
                                     ELSE Cardinality(instances)
             /\ Cardinality(removing \cup {i}) =
                  IF i \in removing THEN Cardinality(removing)
                                    ELSE Cardinality(removing) + 1
             /\ Cardinality(removing \ {i}) =
                  IF i \in removing THEN Cardinality(removing) - 1
                                    ELSE Cardinality(removing)
  BY CardinalityChange DEF Types
<1>1. ASSUME NEW c \in Client, NEW i \in Instance, GetFast(c, i) \/ GetSlow(c, i)
      PROVE Counts'
  <2>1. /\ c \notin Borrowers /\ i \in instances
        /\ Borrowers' = Borrowers \cup {c} /\ instances' = instances \ {i}
    BY <1>1, BorrowersStep, SMT DEF GetFast, GetSlow, Borrow, Borrowers
  <2>2. UNCHANGED <<nils, currentSize, loop, growSent, removing, lostNils>>
    BY <1>1 DEF GetFast, GetSlow, Borrow
  <2>3. /\ Cardinality(instances') = Cardinality(instances) - 1
        /\ Cardinality(Borrowers') = Cardinality(Borrowers) + 1
    BY <2>1, <1>b, BorrowersCount
  <2>4. loop \notin {"swapping", "stopped"}
    BY <2>1 DEF Counts, NothingOut
  <2>5. QED
    BY <2>2, <2>3, <2>4, <1>a, <1>t, SMT DEF Counts, SizeIsExact
<1>2. ASSUME NEW c \in Client,
             \/ \E i \in Instance : BeginNested(c, i)
             \/ EndNested(c) \/ Apply(c) \/ Wait(c) \/ GetClosed(c) \/ ReturnFailed(c)
             \/ CountPanic(c)
      PROVE Counts'
  <2>1. Borrowers' = Borrowers
    BY <1>2, SMT DEF Types, BeginNested, EndNested, Apply, Wait, GetClosed, ReturnFailed,
                     CountPanic, Borrowers
  <2>2. UNCHANGED <<instances, nils, currentSize, loop, growSent, removing, lostNils>>
    BY <1>2 DEF BeginNested, EndNested, Apply, Wait, GetClosed, ReturnFailed, CountPanic
  <2>3. QED
    BY <2>1, <2>2, SMT DEF Counts, SizeIsExact, NothingOut
<1>3. ASSUME NEW c \in Client, GetNil(c) PROVE Counts'
  <2>1. Borrowers' = Borrowers
    BY <1>3, SMT DEF Types, GetNil, Borrowers
  <2>2. QED
    BY <1>3, <2>1, <1>a, SMT DEF Types, GetNil, Counts, SizeIsExact, NothingOut
<1>4. ASSUME NEW c \in Client, NEW outcome \in Outcome, EndCall(c, outcome)
      PROVE Counts'
  <2>1. c \in Borrowers /\ c \in Holders /\ inst[c] \in Instance
        /\ inst[c] \notin removing
    BY <1>4, SMT DEF Types, ExclusiveUse, EndCall, Borrowers, Holders
  <2>2. \/ removing' = removing \cup {inst[c]} /\ Borrowers' = Borrowers \ {c}
        \/ removing' = removing /\ Borrowers' = Borrowers
    BY <1>4, SMT DEF Types, EndCall, Borrowers
  <2>3. UNCHANGED <<instances, nils, currentSize, loop, growSent, lostNils>>
    BY <1>4 DEF EndCall
  <2>4. /\ Cardinality(removing') + Cardinality(Borrowers') =
             Cardinality(removing) + Cardinality(Borrowers)
    <3>1. /\ Cardinality(removing \cup {inst[c]}) = Cardinality(removing) + 1
          /\ Cardinality(Borrowers \ {c}) = Cardinality(Borrowers) - 1
      BY <2>1, <1>b, BorrowersCount
    <3>2. \/ /\ Cardinality(removing') = Cardinality(removing) + 1
             /\ Cardinality(Borrowers') = Cardinality(Borrowers) - 1
          \/ /\ Cardinality(removing') = Cardinality(removing)
             /\ Cardinality(Borrowers') = Cardinality(Borrowers)
      BY <2>2, <3>1
    <3>3. QED
      BY <3>2, <1>a, SMT
  <2>5. loop \notin {"swapping", "stopped"}
    BY <2>1 DEF Counts, NothingOut
  <2>6. /\ Cardinality(removing') \in Nat /\ Cardinality(Borrowers') \in Nat
    <3>1. /\ Cardinality(removing \cup {inst[c]}) \in Nat
          /\ Cardinality(Borrowers \ {c}) \in Nat
      <4>1. /\ removing \cup {inst[c]} \in SUBSET Instance
            /\ Borrowers \ {c} \in SUBSET Client
        BY <2>1 DEF Types, Borrowers
      <4>2. QED
        BY <4>1, FS_Subset, FS_CardinalityType
    <3>2. QED
      BY <2>2, <3>1, <1>a
  <2>7. QED
    BY <2>3, <2>4, <2>5, <2>6, <1>a, <1>t, SMT DEF Counts, SizeIsExact
<1>5. ASSUME NEW c \in Client, Revert(c) PROVE Counts'
  <2>1. c \in Borrowers /\ inst[c] \in Instance /\ inst[c] \notin instances
    BY <1>5, SMT DEF Types, ExclusiveUse, Revert, Borrowers, Holders
  <2>2. Borrowers' = Borrowers \ {c} /\ instances' = instances \cup {inst[c]}
    BY <1>5, SMT DEF Types, Revert, Borrowers
  <2>3. UNCHANGED <<nils, currentSize, loop, growSent, removing, lostNils>>
    BY <1>5 DEF Revert
  <2>4. /\ Cardinality(instances') = Cardinality(instances) + 1
        /\ Cardinality(Borrowers') = Cardinality(Borrowers) - 1
    BY <2>1, <2>2, <1>b, BorrowersCount
  <2>5. loop \notin {"swapping", "stopped"}
    BY <2>1 DEF Counts, NothingOut
  <2>6. QED
    BY <2>3, <2>4, <2>5, <1>a, <1>t, SMT DEF Counts, SizeIsExact
<1>6. ASSUME NEW i \in Instance, GrowSend(i), loop # "crashed" PROVE Counts'
  <2>1. i \notin instances /\ loop \in GrowStates
    BY <1>6, SMT DEF Types, Phases, ExclusiveUse, GrowSend, Fresh
  <2>2. Borrowers' = Borrowers
    BY <1>6 DEF GrowSend, Borrowers
  <2>3. Cardinality(instances') = Cardinality(instances) + 1
    BY <1>6, <2>1, <1>b DEF GrowSend
  <2>4. /\ growSent' = growSent + 1
        /\ UNCHANGED <<nils, currentSize, loop, removing, lostNils>>
    BY <1>6 DEF GrowSend
  <2>5. QED
    BY <2>1, <2>2, <2>3, <2>4, <1>a, <1>t, SMT DEF Counts, SizeIsExact
<1>7. CASE StartBatch \/ GrowSendNil \/ GrowCount \/ GrowDone
  <2>1. Borrowers' = Borrowers
    BY <1>7 DEF StartBatch, GrowSendNil, GrowCount, GrowDone, Borrowers
  <2>2. QED
    BY <1>7, <2>1, <1>a, SMT DEF Types, Phases, StartBatch, GrowSendNil, GrowCount,
                                 GrowDone, Counts, SizeIsExact
<1>8. ASSUME NEW i \in Instance, ShrinkOne(i) \/ DrainOne(i) PROVE Counts'
  <2>1. /\ i \in instances /\ growSent = 0
        /\ instances' = instances \ {i} /\ currentSize' = currentSize - 1
        /\ loop' \notin {"swapping", "stopped"}
    BY <1>8, SMT DEF Types, Phases, ShrinkOne, DrainOne, TakeBack
  <2>2. Borrowers' = Borrowers
        /\ UNCHANGED <<nils, growSent, removing, lostNils>>
    BY <1>8 DEF ShrinkOne, DrainOne, TakeBack, Borrowers
  <2>3. Cardinality(instances') = Cardinality(instances) - 1
    BY <2>1, <1>b
  <2>4. Cardinality(instances) > 0
    BY <2>1, <1>a, <1>e, SMT
  <2>5. QED
    BY <2>1, <2>2, <2>3, <2>4, <1>a, <1>t, SMT DEF Counts, SizeIsExact
<1>9. ASSUME NEW i \in Instance, OnRemove(i) PROVE Counts'
  <2>1. /\ i \in removing /\ growSent = 0
        /\ removing' = removing \ {i} /\ currentSize' = currentSize - 1
        /\ loop' = "select"
    BY <1>9, SMT DEF Types, Phases, OnRemove
  <2>2. Borrowers' = Borrowers
        /\ UNCHANGED <<instances, nils, growSent, lostNils>>
    BY <1>9 DEF OnRemove, Borrowers
  <2>3. Cardinality(removing') = Cardinality(removing) - 1
    BY <2>1, <1>b
  <2>4. Cardinality(removing) > 0
    BY <2>1, <1>a, <1>e, SMT
  <2>5. QED
    BY <2>1, <2>2, <2>3, <2>4, <1>a, <1>t, SMT DEF Counts, SizeIsExact
<1>10. CASE \/ \E i \in Instance : OnAdd(i)
            \/ OnApplySignal \/ OnRefresh \/ OnClose \/ OnReset
  <2>1. /\ Borrowers' = Borrowers /\ growSent' = growSent
        /\ loop' \notin {"swapping", "stopped"}
        /\ UNCHANGED <<instances, nils, currentSize, removing, lostNils>>
    BY <1>10, SMT DEF Types, OnAdd, OnApplySignal, OnRefresh, OnClose, OnReset,
                      StartGrow, Borrowers
  <2>2. QED
    BY <2>1, SMT DEF Counts, SizeIsExact
<1>11. CASE TakeBackNil
  <2>1. Borrowers' = Borrowers
    BY <1>11 DEF TakeBackNil, Borrowers
  <2>2. QED
    BY <1>11, <2>1, <1>a, SMT DEF Types, TakeBackNil, Counts, SizeIsExact
<1>12. CASE DrainDone
  <2>1. /\ Borrowers' = Borrowers
        /\ UNCHANGED <<instances, nils, currentSize, growSent, removing, lostNils>>
    BY <1>12, SMT DEF Types, DrainDone, Borrowers
  <2>2. currentSize = 0 /\ growSent = 0
    BY <1>12, SMT DEF DrainDone, Drained, Phases
  <2>3. /\ nils = 0 /\ Cardinality(instances) = 0
        /\ Cardinality(Borrowers) = 0 /\ Cardinality(removing) = 0
    <3>1. 0 = Cardinality(instances) + nils + Cardinality(Borrowers)
                + Cardinality(removing) + lostNils
      BY <2>2, SMT DEF Counts, SizeIsExact
    <3>2. QED
      BY <3>1, <1>a, <1>t, SMT
  <2>4. NothingOut
    BY <2>2, <2>3, <1>e, SMT DEF NothingOut
  <2>5. QED
    BY <2>1, <2>4, SMT DEF Counts, SizeIsExact, NothingOut
<1>13. CASE SwapChannel
  <2>1. NothingOut /\ loop' = "growReset"
    BY <1>13 DEF SwapChannel, StartGrow, Counts
  <2>2. /\ instances' = instances /\ nils' = nils /\ Borrowers' = Borrowers
        /\ UNCHANGED <<currentSize, growSent, removing, lostNils>>
    BY <1>13, <2>1, Zenon DEF SwapChannel, StartGrow, NothingOut, Borrowers
  <2>3. QED
    BY <2>1, <2>2, SMT DEF Counts, SizeIsExact
<1>14. CASE DiscardNext \/ CallerNext \/ DeallocatePanics \/ UNCHANGED vars
  <2>1. /\ Borrowers' = Borrowers /\ loop' \in {loop, "crashed"}
        /\ UNCHANGED <<instances, nils, currentSize, growSent, removing, lostNils>>
    BY <1>14 DEF DiscardNext, CallerNext, Dispose, Reset, Close, DeallocatePanics, vars,
       Borrowers
  <2>2. QED
    BY <2>1, SMT DEF Counts, SizeIsExact, NothingOut
<1>15. QED
  BY <1>1, <1>2, <1>3, <1>4, <1>5, <1>6, <1>7, <1>8, <1>9, <1>10, <1>11, <1>12,
     <1>13, <1>14
     DEF Next, ClientNext, GrowNext, LoopNext

-----------------------------------------------------------------------------
(* A closed channel stays closed and empty also when the process ends.      *)
ClosedEmpty == closed => NothingOut

LEMMA NextClosedEmpty ==
  ASSUME Phases, Counts, ClosedEmpty, [Next]_vars, Phases', Counts'
  PROVE  ClosedEmpty'
<1>1. CASE loop' # "crashed"
  BY <1>1 DEF Phases, Counts, ClosedEmpty
<1>2. CASE UNCHANGED vars
  BY <1>2 DEF ClosedEmpty, NothingOut, Borrowers, vars, chanVars, clientVars, discardVars
<1>3. CASE loop' = "crashed" /\ Next
  <2>1. TakeBackNil \/ DeallocatePanics
    BY <1>3 DEF Next, ClientNext, GrowNext, LoopNext, DiscardNext, CallerNext,
       GetFast, GetSlow, Borrow, BeginNested, EndCall, Apply, Wait, GetNil, GetClosed,
       ReturnFailed, Revert, CountPanic, EndNested, GrowSend, StartBatch, GrowSendNil,
       GrowCount, GrowDone, ShrinkOne, DrainOne, TakeBack, OnRemove, OnAdd,
       OnApplySignal, OnRefresh, OnClose, OnReset, DrainDone, SwapChannel, StartGrow,
       Dispose, Reset, Close, GrowStates, loopVars
  <2>2. CASE TakeBackNil
    BY <2>2 DEF TakeBackNil, DrainStates, Phases, ClosedEmpty
  <2>3. CASE DeallocatePanics
    BY <2>3 DEF DeallocatePanics, ClosedEmpty, NothingOut, Borrowers, chanVars,
       clientVars, discardVars
  <2> QED
    BY <2>1, <2>2, <2>3
<1> QED
  BY <1>1, <1>2, <1>3

-----------------------------------------------------------------------------
(* The size of the pool.  An instance whose removal has been counted and    *)
(* that is not replaced yet keeps its place, although the loop may grow the *)
(* pool to defaultMaxSize in the meantime: hence the discards in SizeBound. *)

Planned == currentSize + growTodo + growPending + growSent

Budget ==
  /\ Cardinality(removing) + Cardinality(adding) <= discards
  /\ Planned + Cardinality(adding) <= MaxSize + discards

LEMMA InitBudget == Init => Budget
  BY FS_EmptySet, SMT DEF Init, Budget, Planned

(* What grow is asked for never takes the pool beyond defaultMaxSize. *)
LEMMA GrowWithinMax ==
  ASSUME Types, NEW applied, NEW slow \in BOOLEAN, ShouldGrow(applied, slow)
  PROVE  currentSize + ChangeSize <= MaxSize
  BY SMT DEF Types, ShouldGrow

LEMMA NextBudget ==
  Types /\ Phases /\ ExclusiveUse /\ Counts /\ Budget /\ [Next]_vars => Budget'
<1> SUFFICES ASSUME Types, Phases, ExclusiveUse, Counts, Budget, [Next]_vars
             PROVE  Budget'
  OBVIOUS
<1> USE DEF chanVars, loopVars, growVars, callVars, clientVars, discardVars
<1>a. /\ Cardinality(removing) \in Nat /\ Cardinality(adding) \in Nat
  BY Cardinalities
<1>t. /\ growTodo \in Nat /\ growPending \in Nat /\ growSent \in Nat
      /\ currentSize \in Nat /\ discards \in Nat
  BY DEF Types, Counts
<1>1. ASSUME NEW c \in Client, NEW outcome \in Outcome, EndCall(c, outcome)
      PROVE Budget'
  <2>1. inst[c] \in Instance /\ inst[c] \notin removing
    BY <1>1, SMT DEF Types, ExclusiveUse, EndCall, Holders
  <2>2. Cardinality(removing \cup {inst[c]}) = Cardinality(removing) + 1
    BY <2>1, CardinalityChange DEF Types
  <2>3. UNCHANGED <<currentSize, growTodo, growPending, growSent, adding>>
    BY <1>1 DEF EndCall
  <2>4. CASE removing' = removing \cup {inst[c]} /\ discards' = discards + 1
    BY <2>2, <2>3, <2>4, <1>a, <1>t, SMT DEF Budget, Planned
  <2>5. CASE UNCHANGED <<removing, discards>>
    BY <2>3, <2>5 DEF Budget, Planned
  <2>6. QED
    BY <1>1, <2>4, <2>5 DEF EndCall
<1>2. ASSUME NEW c \in Client,
             \/ \E i \in Instance : GetFast(c, i) \/ GetSlow(c, i) \/ BeginNested(c, i)
             \/ Apply(c) \/ Wait(c) \/ GetNil(c) \/ GetClosed(c) \/ ReturnFailed(c)
             \/ Revert(c) \/ CountPanic(c) \/ EndNested(c)
      PROVE Budget'
  BY <1>2 DEF Budget, Planned, GetFast, GetSlow, Borrow, BeginNested, Apply, Wait, GetNil,
     GetClosed, ReturnFailed, Revert, CountPanic, EndNested
<1>3. CASE \/ \E i \in Instance : GrowSend(i)
           \/ StartBatch \/ GrowSendNil \/ GrowCount \/ GrowDone
  <2>1. Planned' = Planned /\ UNCHANGED <<removing, adding, discards>>
    BY <1>3, <1>t, SMT DEF Planned, GrowSend, StartBatch, Saturate, GrowSendNil,
                           GrowCount, GrowDone
  <2>2. QED
    BY <2>1 DEF Budget
<1>4. CASE \E i \in Instance : ShrinkOne(i) \/ DrainOne(i)
  <2>1. /\ currentSize' = currentSize - 1
        /\ UNCHANGED <<growTodo, growPending, growSent, removing, adding, discards>>
    BY <1>4 DEF ShrinkOne, DrainOne, TakeBack
  <2>2. QED
    BY <2>1, <1>a, <1>t, SMT DEF Budget, Planned
<1>5. ASSUME NEW i \in Instance, OnRemove(i) PROVE Budget'
  <2>1. i \in removing /\ i \notin adding
        /\ removing' = removing \ {i} /\ adding' = adding \cup {i}
    BY <1>5 DEF OnRemove, ExclusiveUse
  <2>2. /\ Cardinality(removing') = Cardinality(removing) - 1
        /\ Cardinality(adding') = Cardinality(adding) + 1
    BY <2>1, CardinalityChange DEF Types
  <2>3. /\ currentSize' = currentSize - 1
        /\ UNCHANGED <<growTodo, growPending, growSent, discards>>
    BY <1>5 DEF OnRemove
  <2>4. QED
    BY <2>2, <2>3, <1>a, <1>t, SMT DEF Budget, Planned
<1>6. ASSUME NEW i \in Instance, OnAdd(i) PROVE Budget'
  <2>1. Cardinality(adding') = Cardinality(adding) - 1
    BY <1>6, CardinalityChange DEF Types, OnAdd
  <2>2. growTodo = 0 /\ growTodo' = 1
        /\ UNCHANGED <<currentSize, growPending, growSent, removing, discards>>
    BY <1>6, SMT DEF OnAdd, StartGrow, Phases
  <2>3. QED
    BY <2>1, <2>2, <1>a, <1>t, SMT DEF Budget, Planned
<1>7. CASE OnApplySignal \/ OnRefresh
  <2>1. UNCHANGED <<currentSize, growPending, growSent, removing, adding, discards>>
    BY <1>7 DEF OnApplySignal, OnRefresh, StartGrow
  <2>2. growTodo = 0 /\ growPending = 0 /\ growSent = 0
    BY <1>7, SMT DEF OnApplySignal, OnRefresh, Phases
  <2>3. \/ growTodo' = growTodo
        \/ growTodo' = ChangeSize /\ currentSize + ChangeSize <= MaxSize
    BY <1>7, GrowWithinMax DEF OnApplySignal, OnRefresh, StartGrow
  <2>4. QED
    BY <2>1, <2>2, <2>3, <1>a, <1>t, SMT DEF Budget, Planned
<1>8. CASE SwapChannel
  <2>1. /\ growTodo = 0 /\ growTodo' = MinSize /\ currentSize = 0
        /\ growPending = 0 /\ growSent = 0
    BY <1>8, SMT DEF SwapChannel, StartGrow, Phases, Counts, NothingOut
  <2>2. UNCHANGED <<currentSize, growPending, growSent, removing, adding, discards>>
    BY <1>8 DEF SwapChannel, StartGrow
  <2>3. QED
    BY <2>1, <2>2, <1>a, <1>t, SMT DEF Budget, Planned
<1>9. CASE OnClose \/ OnReset \/ DrainDone \/ TakeBackNil \/ DeallocatePanics
           \/ DiscardNext \/ CallerNext \/ UNCHANGED vars
  BY <1>9 DEF Budget, Planned, OnClose, OnReset, DrainDone, TakeBackNil, DeallocatePanics,
     DiscardNext, Dispose, CallerNext, Reset, Close, vars
<1>10. QED
  BY <1>1, <1>2, <1>3, <1>4, <1>5, <1>6, <1>7, <1>8, <1>9
     DEF Next, ClientNext, GrowNext, LoopNext

-----------------------------------------------------------------------------
(* Why a transaction can fail to get an instance. *)

Explained ==
  /\ resetSenders <= resetCalls
  /\ loop \in {"resetting", "swapping"} => resetCalls > 0
  /\ loop \in {"closing", "stopped"} => closeC
  /\ NoUnexplainedFailure

LEMMA InitExplained == Init => Explained
  BY SMT DEF Init, Explained, NoUnexplainedFailure

LEMMA NextExplained == Types /\ Phases /\ Explained /\ [Next]_vars => Explained'
<1> SUFFICES ASSUME Types, Phases, Explained, [Next]_vars PROVE Explained'
  OBVIOUS
<1> USE DEF chanVars, loopVars, growVars, callVars, clientVars, discardVars,
            NoUnexplainedFailure
<1>1. ASSUME NEW c \in Client, ClientNext(c), loop # "crashed" PROVE Explained'
  <2>1. UNCHANGED <<loop, resetSenders, resetCalls, closeC>>
    BY <1>1 DEF ClientNext, GetFast, GetSlow, Borrow, BeginNested, EndCall, Apply, Wait,
       GetNil, GetClosed, ReturnFailed, Revert, CountPanic, EndNested
  <2>2. lostNils' \in {lostNils, lostNils + 1}
    BY <1>1, SMT DEF Types, ClientNext, GetFast, GetSlow, Borrow, BeginNested,
       EndCall, Apply, Wait, GetNil, GetClosed, ReturnFailed, Revert, CountPanic, EndNested
  <2>3. ASSUME NEW d \in Client, pc'[d] = "failed", pc[d] # "failed"
        PROVE  lostNils' > 0 \/ closed
    BY <1>1, <2>3, SMT DEF Types, ClientNext, GetFast, GetSlow, Borrow, BeginNested,
       EndCall, Apply, Wait, GetNil, GetClosed, ReturnFailed, Revert, CountPanic, EndNested
  <2>4. closed => resetCalls > 0 \/ closeC
    BY <1>1 DEF Phases, Explained
  <2>5. ASSUME NEW d \in Client, pc'[d] = "failed"
        PROVE  lostNils' > 0 \/ resetCalls' > 0 \/ closeC'
    <3>1. CASE pc[d] = "failed"
      <4>1. CASE lostNils > 0
        BY <4>1, <2>2, SMT DEF Types
      <4>2. QED
        BY <3>1, <4>1, <2>1 DEF Explained
    <3>2. QED
      BY <2>5, <3>1, <2>1, <2>3, <2>4
  <2>6. QED
    BY <2>1, <2>5 DEF Explained
<1>2. CASE GrowNext \/ DiscardNext \/ UNCHANGED vars
  <2>1. UNCHANGED <<resetSenders, resetCalls, closeC, pc, lostNils>>
        /\ (loop' = loop \/ loop' = "select")
    BY <1>2 DEF GrowNext, GrowSend, StartBatch, GrowSendNil, GrowCount, GrowDone,
       DiscardNext, Dispose, vars
  <2>2. QED
    BY <2>1 DEF Explained
<1>3. CASE \/ \E i \in Instance : \/ ShrinkOne(i) \/ DrainOne(i)
                                  \/ OnRemove(i) \/ OnAdd(i)
           \/ OnApplySignal \/ OnRefresh \/ SwapChannel
  <2>1. UNCHANGED <<resetSenders, resetCalls, closeC, pc, lostNils>>
        /\ (loop' = loop \/ loop' \in {"select", "shrinking"} \cup GrowStates)
    BY <1>3 DEF ShrinkOne, DrainOne, TakeBack, OnRemove, OnAdd, OnApplySignal,
       OnRefresh, SwapChannel, StartGrow
  <2>2. QED
    BY <2>1 DEF Explained
<1>4. CASE TakeBackNil \/ DeallocatePanics
  BY <1>4, SMT DEF Types, Explained, TakeBackNil, DeallocatePanics
<1>5. CASE OnClose
  BY <1>5 DEF Explained, OnClose
<1>6. CASE OnReset
  BY <1>6, SMT DEF Types, Explained, OnReset
<1>7. CASE DrainDone
  <2>1. resetCalls > 0 \/ closeC
    BY <1>7 DEF DrainDone, Explained
  <2>2. /\ \/ loop = "resetting" /\ loop' = "swapping"
           \/ loop = "closing" /\ loop' = "stopped"
        /\ UNCHANGED <<resetSenders, resetCalls, closeC>>
    BY <1>7 DEF DrainDone
  <2>3. (resetCalls > 0 \/ closeC)' /\ (resetSenders <= resetCalls)'
    BY <2>1, <2>2 DEF Explained
  <2>4. /\ loop' = "swapping" => (resetCalls > 0)'
        /\ loop' = "stopped" => closeC'
        /\ loop' \in {"swapping", "stopped"}
    BY <2>2 DEF Explained
  <2>5. QED
    BY <2>3, <2>4 DEF Explained
<1>8. CASE Reset
  BY <1>8, SMT DEF Types, Explained, Reset
<1>9. CASE Close
  BY <1>9 DEF Explained, Close
<1>10. QED
  BY <1>1, <1>2, <1>3, <1>4, <1>5, <1>6, <1>7, <1>8, <1>9
     DEF Next, LoopNext, CallerNext

-----------------------------------------------------------------------------
(* The theorems *)

IInv ==
  /\ Types /\ Phases /\ ExclusiveUse /\ Counts /\ ClosedEmpty
  /\ Budget /\ Explained

LEMMA InitIInv == Init => IInv
<1>1. Init => ExclusiveUse
  BY SMT DEF Init, ExclusiveUse, Holders
<1>2. Init => ClosedEmpty
  BY DEF Init, ClosedEmpty
<1>3. QED
  BY <1>1, <1>2, InitTypes, InitPhases, InitCounts, InitBudget, InitExplained DEF IInv

LEMMA NextIInv == IInv /\ [Next]_vars => IInv'
  BY NextTypes, NextPhases, NextExclusiveUse, NextCounts, NextClosedEmpty, NextBudget,
     NextExplained
     DEF IInv

(* IInv holds in every reachable state of the pool. *)
THEOREM Invariant == Spec => []IInv
  BY InitIInv, NextIInv, PTL DEF Spec

(* Every variable keeps its type, and currentSize is never negative however *)
(* the removals, shrinks and drains of the loop follow each other.          *)
THEOREM TypeCorrect == Spec => []TypeOK
<1>1. IInv => TypeOK
  BY DEF IInv, Types, Counts, TypeOK
<1>2. QED
  BY <1>1, Invariant, PTL

(* currentSize counts the instances the pool is answerable for: what the    *)
(* drains of reset and close need to wait for all of them and no more.      *)
THEOREM SizeExact == Spec => []SizeIsExact
<1>1. IInv => SizeIsExact
  BY DEF IInv, Counts
<1>2. QED
  BY <1>1, Invariant, PTL

(* An instance is with one transaction, one discard goroutine or in the     *)
(* channel, and nobody has one that was closed, for any number of clients.  *)
THEOREM Exclusive == Spec => []ExclusiveUse
<1>1. IInv => ExclusiveUse
  BY DEF IInv
<1>2. QED
  BY <1>1, Invariant, PTL

(* reset and close never close the channel under a transaction that would   *)
(* still send its instance to it.                                           *)
THEOREM DrainedBeforeClose == Spec => []ClosedMeansDrained
<1>1. IInv => ClosedMeansDrained
  BY DEF IInv, ClosedEmpty, NothingOut, ClosedMeansDrained
<1>2. QED
  BY <1>1, Invariant, PTL

(* A transaction that gets no instance can blame a failed instantiation, a  *)
(* reset or a close.                                                        *)
THEOREM FailuresExplained == Spec => []NoUnexplainedFailure
<1>1. IInv => NoUnexplainedFailure
  BY DEF IInv, Explained
<1>2. QED
  BY <1>1, Invariant, PTL

(* The pool, with what is being added to it, never exceeds defaultMaxSize   *)
(* by more than the number of instances that have been discarded.           *)
THEOREM SizeBounded == Spec => []SizeBound
<1>1. IInv => SizeBound
  <2> SUFFICES ASSUME IInv PROVE SizeBound
    OBVIOUS
  <2>1. Cardinality(adding) \in Nat
    BY Cardinalities DEF IInv
  <2>2. QED
    BY <2>1, SMT DEF IInv, Types, Budget, Planned, SizeBound
<1>2. QED
  BY <1>1, Invariant, PTL

=============================================================================
