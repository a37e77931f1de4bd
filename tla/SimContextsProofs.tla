-------------------------- MODULE SimContextsProofs --------------------------
(***************************************************************************)
(* Proofs about SimContexts for any number of transactions and of indices. *)
(* OwnContext is not inductive: that an index is free when it is taken     *)
(* follows from how long ago the others were taken.  Spacing says that the *)
(* index of a live transaction lies age steps behind ctxIndex, around the  *)
(* cycle, and that no two live transactions have the same age.             *)
(***************************************************************************)
EXTENDS SimContexts, TLAPS

(* The index that was taken n steps before the last one. *)
Behind(n) == IF n <= ctxIndex THEN ctxIndex - n ELSE ctxIndex - n + MaxIndex + 1

Spacing ==
  ~lapped =>
    /\ \A t \in Live : age[t] <= MaxIndex /\ CtxPtr[t] = Behind(age[t])
    /\ \A t, u \in Live : age[t] = age[u] => t = u

ContextInv == ContextTypeOK /\ NoStaleContext /\ Spacing /\ OwnContext

USE ContextAssumption DEF Index, Live

LEMMA InitContext == Init => ContextInv
<1> SUFFICES ASSUME Init PROVE ContextInv
  OBVIOUS
<1>1. ContextTypeOK
  <2>1. lapped \in BOOLEAN
    BY DEF Init
  <2>2. QED
    BY <2>1, SMT DEF Init, ContextTypeOK
<1>2. NoStaleContext
  BY DEF Init, NoStaleContext
<1>3. Spacing
  BY DEF Init, Spacing
<1>4. OwnContext
  BY DEF Init, OwnContext
<1>5. QED
  BY <1>1, <1>2, <1>3, <1>4 DEF ContextInv

(* Two live transactions have two indices, unless one has been lapped. *)
LEMMA IndicesDiffer ==
  ASSUME ContextTypeOK, Spacing, ~lapped, NEW t \in Live, NEW u \in Live, t # u
  PROVE  CtxPtr[t] # CtxPtr[u]
<1>1. /\ age[t] \in 0..MaxIndex /\ age[u] \in 0..MaxIndex /\ age[t] # age[u]
      /\ CtxPtr[t] = Behind(age[t]) /\ CtxPtr[u] = Behind(age[u])
      /\ ctxIndex \in 0..MaxIndex
  BY DEF ContextTypeOK, Spacing
<1>2. QED
  BY <1>1, SMT DEF Behind

LEMMA NextType == ContextTypeOK /\ [Next]_contextVars => ContextTypeOK'
<1> SUFFICES ASSUME ContextTypeOK, [Next]_contextVars PROVE ContextTypeOK'
  OBVIOUS
<1>1. ASSUME NEW t \in Tx, Allocate(t) PROVE ContextTypeOK'
  <2>1. NextIndex(ctxIndex) \in Index
    BY SMT DEF ContextTypeOK, NextIndex
  <2>2. age' \in [Tx -> 0..(MaxIndex + 1)]
    BY <1>1, SMT DEF ContextTypeOK, Allocate
  <2>3. lapped' \in BOOLEAN
    BY <1>1 DEF ContextTypeOK, Allocate
  <2>4. QED
    BY <1>1, <2>1, <2>2, <2>3 DEF ContextTypeOK, Allocate
<1>2. ASSUME NEW t \in Tx, Put(t) \/ SysCall(t) \/ Remove(t) PROVE ContextTypeOK'
  <2>1. lapped' \in BOOLEAN
    BY <1>2 DEF ContextTypeOK, Put, SysCall, Remove
  <2>2. CASE Put(t)
    BY <2>1, <2>2, SMT DEF ContextTypeOK, Put
  <2>3. CASE SysCall(t)
    BY <2>1, <2>3, SMT DEF ContextTypeOK, SysCall
  <2>4. CASE Remove(t)
    BY <2>1, <2>4, SMT DEF ContextTypeOK, Remove
  <2>5. QED
    BY <1>2, <2>2, <2>3, <2>4
<1>3. CASE UNCHANGED contextVars
  BY <1>3 DEF ContextTypeOK, contextVars
<1>4. QED
  BY <1>1, <1>2, <1>3 DEF Next

LEMMA NextNoStale ==
  ContextTypeOK /\ NoStaleContext /\ [Next]_contextVars => NoStaleContext'
<1> SUFFICES ASSUME ContextTypeOK, NoStaleContext, [Next]_contextVars
             PROVE  NoStaleContext'
  OBVIOUS
<1>1. ASSUME NEW t \in Tx, Allocate(t) PROVE NoStaleContext'
  BY <1>1 DEF ContextTypeOK, NoStaleContext, Allocate
<1>2. ASSUME NEW t \in Tx, Put(t) PROVE NoStaleContext'
  BY <1>2 DEF ContextTypeOK, NoStaleContext, Put
<1>3. ASSUME NEW t \in Tx, SysCall(t) PROVE NoStaleContext'
  BY <1>3 DEF NoStaleContext, SysCall
<1>4. ASSUME NEW t \in Tx, Remove(t) PROVE NoStaleContext'
  BY <1>4 DEF ContextTypeOK, NoStaleContext, Remove
<1>5. CASE UNCHANGED contextVars
  BY <1>5 DEF NoStaleContext, contextVars
<1>6. QED
  BY <1>1, <1>2, <1>3, <1>4, <1>5 DEF Next

LEMMA NextSpacing ==
  ContextTypeOK /\ Spacing /\ [Next]_contextVars => Spacing'
<1> SUFFICES ASSUME ContextTypeOK, Spacing, [Next]_contextVars, ~lapped'
             PROVE  Spacing'
  BY DEF Spacing
<1>1. ASSUME NEW t \in Tx, Allocate(t) PROVE Spacing'
  <2>0. ~lapped
    BY <1>1 DEF Allocate
  <2>1. /\ ~lapped /\ t \notin Live /\ Live' = Live \cup {t}
        /\ ctxIndex' = NextIndex(ctxIndex)
        /\ age'[t] = 0 /\ CtxPtr'[t] = ctxIndex'
    BY <1>1, <2>0, SMT DEF ContextTypeOK, Allocate
  <2>2. ASSUME NEW u \in Live
        PROVE  age[u] \in 0..(MaxIndex - 1) /\ age'[u] = age[u] + 1
               /\ CtxPtr'[u] = CtxPtr[u]
    <3>1. ~(age[u] >= MaxIndex)
      BY <1>1 DEF Allocate
    <3>2. age[u] \in 0..(MaxIndex + 1) /\ u # t
      BY <2>1 DEF ContextTypeOK
    <3>3. age'[u] = age[u] + 1
      BY <1>1, <3>1, <3>2, SMT DEF Allocate
    <3>4. CtxPtr'[u] = CtxPtr[u]
      BY <1>1, <3>2 DEF ContextTypeOK, Allocate
    <3>5. QED
      BY <3>1, <3>2, <3>3, <3>4, SMT
  <2>3. ASSUME NEW u \in Live' PROVE age'[u] <= MaxIndex /\ CtxPtr'[u] = Behind(age[u])'
    <3>1. CASE u = t
      BY <2>1, <3>1, SMT DEF Behind, ContextTypeOK, NextIndex
    <3>2. CASE u # t
      <4>1. u \in Live
        BY <2>1, <3>2
      <4>2. CtxPtr[u] = Behind(age[u]) /\ ctxIndex \in 0..MaxIndex
        BY <2>1, <4>1 DEF Spacing, ContextTypeOK
      <4>3. QED
        BY <2>1, <2>2, <4>1, <4>2, SMT DEF Behind, NextIndex
    <3>3. QED
      BY <3>1, <3>2
  <2>4. ASSUME NEW u \in Live', NEW v \in Live', age'[u] = age'[v] PROVE u = v
    <3>1. \A w \in Live : age'[w] # 0
      BY <2>2, SMT
    <3>2. CASE u \in Live /\ v \in Live
      <4>1. age[u] = age[v]
        BY <2>2, <2>4, <3>2, SMT
      <4>2. QED
        BY <2>1, <3>2, <4>1 DEF Spacing
    <3>3. CASE u \notin Live \/ v \notin Live
      BY <2>1, <2>4, <3>1, <3>3
    <3>4. QED
      BY <3>2, <3>3
  <2>5. QED
    BY <2>3, <2>4 DEF Spacing
<1>2. ASSUME NEW t \in Tx, Put(t) \/ SysCall(t) \/ Remove(t) PROVE Spacing'
  <2>1. /\ UNCHANGED <<ctxIndex, CtxPtr, age, lapped>>
        /\ Live' \subseteq Live
    BY <1>2 DEF ContextTypeOK, Put, SysCall, Remove
  <2>2. QED
    BY <2>1 DEF Spacing, Behind
<1>3. CASE UNCHANGED contextVars
  BY <1>3 DEF Spacing, Behind, contextVars
<1>4. QED
  BY <1>1, <1>2, <1>3 DEF Next

LEMMA NextOwn ==
  ContextTypeOK /\ Spacing /\ OwnContext /\ [Next]_contextVars => OwnContext'
<1> SUFFICES ASSUME ContextTypeOK, Spacing, OwnContext, [Next]_contextVars, ~lapped'
             PROVE  OwnContext'
  BY DEF OwnContext
<1>1. ASSUME NEW t \in Tx, Allocate(t) PROVE OwnContext'
  BY <1>1 DEF ContextTypeOK, OwnContext, Allocate
<1>2. ASSUME NEW t \in Tx, Put(t) PROVE OwnContext'
  <2>1. ~lapped /\ t \in Live /\ UNCHANGED <<CtxPtr, served>>
    BY <1>2 DEF Put
  <2>2. ASSUME NEW u \in Tx, pc'[u] = "running"
        PROVE  simContextCache'[CtxPtr[u]] = u
    <3>1. CASE u = t
      BY <1>2, <3>1 DEF ContextTypeOK, Put
    <3>2. CASE u # t
      <4>1. u \in Live /\ pc[u] = "running"
        BY <1>2, <2>2, <3>2 DEF ContextTypeOK, Put
      <4>2. CtxPtr[u] # CtxPtr[t]
        BY <2>1, <3>2, <4>1, IndicesDiffer
      <4>3. QED
        BY <1>2, <2>1, <4>1, <4>2 DEF ContextTypeOK, OwnContext, Put
    <3>3. QED
      BY <3>1, <3>2
  <2>3. QED
    BY <2>1, <2>2 DEF OwnContext
<1>3. ASSUME NEW t \in Tx, SysCall(t) PROVE OwnContext'
  BY <1>3 DEF ContextTypeOK, OwnContext, SysCall
<1>4. ASSUME NEW t \in Tx, Remove(t) PROVE OwnContext'
  <2>1. ~lapped /\ t \in Live /\ UNCHANGED CtxPtr
    BY <1>4 DEF Remove
  <2>2. ASSUME NEW u \in Tx, pc'[u] = "running"
        PROVE  simContextCache'[CtxPtr[u]] = u
    <3>1. u # t /\ u \in Live /\ pc[u] = "running"
      BY <1>4, <2>2 DEF ContextTypeOK, Remove
    <3>2. CtxPtr[u] # CtxPtr[t]
      BY <2>1, <3>1, IndicesDiffer
    <3>3. QED
      BY <1>4, <2>1, <3>1, <3>2 DEF ContextTypeOK, OwnContext, Remove
  <2>3. \A u \in Tx : served'[u] = u
    BY <1>4, <2>1 DEF ContextTypeOK, OwnContext, Remove
  <2>4. QED
    BY <2>1, <2>2, <2>3 DEF OwnContext
<1>5. CASE UNCHANGED contextVars
  BY <1>5 DEF OwnContext, contextVars
<1>6. QED
  BY <1>1, <1>2, <1>3, <1>4, <1>5 DEF Next

LEMMA ContextInvariant == Spec => []ContextInv
<1>1. ContextInv /\ [Next]_contextVars => ContextInv'
  BY NextType, NextNoStale, NextSpacing, NextOwn DEF ContextInv
<1>2. QED
  BY InitContext, <1>1, PTL DEF Spec

(* No index leaves its range, however often the counter wraps around. *)
THEOREM ContextTypeCorrect == Spec => []ContextTypeOK
<1>1. ContextInv => ContextTypeOK
  BY DEF ContextInv
<1>2. QED
  BY <1>1, ContextInvariant, PTL

(* A system call works on the context of its own transaction, unless that   *)
(* transaction has lived while all other indices were taken.                *)
THEOREM ContextOwned == Spec => []OwnContext
<1>1. ContextInv => OwnContext
  BY DEF ContextInv
<1>2. QED
  BY <1>1, ContextInvariant, PTL

(* The table holds running transactions under their own index only. *)
THEOREM ContextsReleased == Spec => []NoStaleContext
<1>1. ContextInv => NoStaleContext
  BY DEF ContextInv
<1>2. QED
  BY <1>1, ContextInvariant, PTL

=============================================================================
