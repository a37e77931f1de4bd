-------------------------- MODULE InvocationProofs --------------------------
(***************************************************************************)
(* Proofs of the invariants of Invocation, for any depth of cross-contract *)
(* calls and any numbers of activations, system calls and growths of the   *)
(* memory.  Each layer is preserved by a step that starts in it and in     *)
(* those before it.                                                        *)
(***************************************************************************)
EXTENDS InvocationSteps

-----------------------------------------------------------------------------
(* The first layer: each activation by itself *)

LEMMA InitActivations ==
  Init => Activations
<1> SUFFICES ASSUME Init PROVE Activations
  OBVIOUS
<1>1. NoResult \in Result /\ ConsistentResult(NoResult)
  BY DEF NoResult, Result, ConsistentResult, Marks
<1>2. frame \in [Depth -> Frame] /\ \A d \in Depth : frame[d] = NoFrame
  BY NoFrameTyped DEF Init
<1>3. moves \in [0..MaxInvokes -> 0..MaxGrows]
  BY BoundAssumption DEF Init, BoundAssumption
<1>4. depth \in -1..MaxDepth /\ serial \in 0..MaxInvokes
  BY BoundAssumption DEF Init, BoundAssumption
<1>5. InvocationTypeOK
  BY <1>1, <1>2, <1>3, <1>4 DEF Init, InvocationTypeOK
<1> QED
  BY <1>1, <1>2, <1>5, NoFrameTyped DEF Init, Activations

LEMMA BodyActivations ==
  ASSUME Activations, NEW d \in Depth, NEW g, BodyStep(d, g)
  PROVE  Activations'
<1>1. /\ Replaces(d, g)
      /\ g \in Frame /\ Consistent(g) /\ Placed(g)
      /\ frame' = [frame EXCEPT ![d] = g]
      /\ UNCHANGED <<depth, serial, free, discarding, live, registry, result, unclosed>>
  BY DEF BodyStep, Replaces, Set
<1>2. frame' \in [Depth -> Frame]
  BY <1>1 DEF Activations, InvocationTypeOK
<1>3. ASSUME NEW e \in Depth
      PROVE  Consistent(frame'[e]) /\ Placed(frame'[e])
  <2>1. frame'[e] = IF e = d THEN g ELSE frame[e]
    BY <1>1 DEF Activations, InvocationTypeOK
  <2> QED
    BY <1>1, <2>1 DEF Activations
<1>4. moves' \in [0..MaxInvokes -> 0..MaxGrows]
  BY <1>1 DEF Replaces
<1>5. void' \subseteq Serial
  <2>1. frame[d].under \subseteq Serial
    BY DEF Activations, InvocationTypeOK, Frame
  <2> QED
    BY <2>1 DEF BodyStep, Break, Activations, InvocationTypeOK
<1>7. InvocationTypeOK'
  BY <1>1, <1>2, <1>4, <1>5 DEF Activations, InvocationTypeOK
<1>8. ConsistentResult(result')
  BY <1>1 DEF Activations
<1> QED
  BY <1>3, <1>7, <1>8 DEF Activations

LEMMA BeginsActivations ==
  ASSUME Activations, NEW f,
         BeginsPooled(f) \/ \E d \in Depth : \E u : BeginsNested(d, u, f)
  PROVE  Activations'
<1>1. Begins(f)
  BY DEF BeginsPooled, BeginsNested
<1>2. /\ f \in Frame /\ Consistent(f) /\ Placed(f)
      /\ serial + 1 \in Serial /\ serial' = serial + 1
  BY <1>1 DEF Begins
<1>3. serial' \in 0..MaxInvokes
  BY <1>2, BoundAssumption DEF Serial, BoundAssumption
<1>4. CASE BeginsPooled(f)
  <2>1. frame' = [frame EXCEPT ![0] = f]
    BY <1>4 DEF BeginsPooled
  <2>2. frame' \in [Depth -> Frame]
    BY <1>2, <2>1 DEF Activations, InvocationTypeOK
  <2>3. ASSUME NEW e \in Depth
        PROVE  Consistent(frame'[e]) /\ Placed(frame'[e])
    <3>1. frame'[e] \in {f, frame[e]}
      BY <2>1 DEF Activations, InvocationTypeOK
    <3> QED
      BY <1>2, <3>1 DEF Activations
  <2>4. /\ depth' = 0 /\ free' \subseteq free /\ registry' = registry \cup {serial + 1}
        /\ UNCHANGED <<discarding, live, moves, result, void, unclosed>>
    BY <1>4 DEF BeginsPooled
  <2>5. depth' \in -1..MaxDepth
    BY <2>4, BoundAssumption DEF BoundAssumption
  <2>6. InvocationTypeOK'
    BY <1>2, <1>3, <2>2, <2>4, <2>5 DEF Activations, InvocationTypeOK
  <2> QED
    BY <2>3, <2>4, <2>6 DEF Activations
<1>5. ASSUME NEW d \in Depth, NEW u, BeginsNested(d, u, f)
      PROVE  Activations'
  <2>1. frame' = [frame EXCEPT ![d] = u, ![d + 1] = f]
    BY <1>5 DEF BeginsNested
  <2>2. u \in Frame /\ Consistent(u) /\ Placed(u)
    BY <1>5 DEF BeginsNested, Waits
  <2>3. frame' \in [Depth -> Frame]
    BY <1>2, <2>1, <2>2 DEF Activations, InvocationTypeOK
  <2>4. ASSUME NEW e \in Depth
        PROVE  Consistent(frame'[e]) /\ Placed(frame'[e])
    <3>1. frame'[e] \in {f, u, frame[e]}
      BY <2>1 DEF Activations, InvocationTypeOK
    <3> QED
      BY <1>2, <2>2, <3>1 DEF Activations
  <2>5. /\ depth' = d + 1 /\ d + 1 \in Depth
        /\ live' \subseteq live \cup {serial + 1}
        /\ registry' \subseteq registry \cup {serial + 1}
        /\ void' \subseteq void \cup {serial + 1}
        /\ UNCHANGED <<free, discarding, moves, result, unclosed>>
    BY <1>5 DEF BeginsNested
  <2>6. depth' \in -1..MaxDepth
    BY <2>5, BoundAssumption DEF Depth, BoundAssumption
  <2>7. InvocationTypeOK'
    BY <1>2, <1>3, <2>3, <2>5, <2>6 DEF Activations, InvocationTypeOK
  <2> QED
    BY <2>4, <2>5, <2>7 DEF Activations
<1> QED
  BY <1>4, <1>5

LEMMA UndoesActivations ==
  ASSUME Activations, NEW d \in Depth, NEW g, Undoes(d, g)
  PROVE  Activations'
<1>1. /\ frame' = [frame EXCEPT ![d] = g]
      /\ g \in Frame /\ Consistent(g) /\ Placed(g)
      /\ UNCHANGED <<depth, serial, moves, result, void>>
  BY DEF Undoes, Set
<1>2. /\ registry' \subseteq registry /\ free' \subseteq free \cup {Pooled}
      /\ discarding' \subseteq discarding \cup {Pooled}
      /\ live' \subseteq live /\ unclosed' \subseteq unclosed \cup Serial
  <2>1. frame[d].inst \in {NoInstance, Pooled} \cup Serial
    BY DEF Activations, InvocationTypeOK, Frame
  <2> QED
    BY <2>1 DEF Undoes, Hands
<1>3. frame' \in [Depth -> Frame]
  BY <1>1 DEF Activations, InvocationTypeOK
<1>4. ASSUME NEW e \in Depth
      PROVE  Consistent(frame'[e]) /\ Placed(frame'[e])
  <2>1. frame'[e] \in {g, frame[e]}
    BY <1>1 DEF Activations, InvocationTypeOK
  <2> QED
    BY <1>1, <2>1 DEF Activations
<1>5. InvocationTypeOK'
  BY <1>1, <1>2, <1>3 DEF Activations, InvocationTypeOK
<1> QED
  BY <1>1, <1>4, <1>5 DEF Activations

LEMMA ReturnsActivations ==
  ASSUME Activations, NEW d \in Depth, Returns(d)
  PROVE  Activations'
<1>1. /\ d = depth /\ depth' = d - 1
      /\ frame' = [frame EXCEPT ![d] = NoFrame]
      /\ result' \in Result /\ ConsistentResult(result')
      /\ UNCHANGED <<serial, free, discarding, live, moves, registry, void, unclosed>>
  BY DEF Returns
<1>3. frame' \in [Depth -> Frame]
  BY <1>1, NoFrameTyped DEF Activations, InvocationTypeOK
<1>4. ASSUME NEW e \in Depth
      PROVE  Consistent(frame'[e]) /\ Placed(frame'[e])
  <2>1. frame'[e] \in {NoFrame, frame[e]}
    BY <1>1 DEF Activations, InvocationTypeOK
  <2> QED
    BY <2>1, NoFrameTyped DEF Activations
<1>5. depth' \in -1..MaxDepth
  BY <1>1, BoundAssumption DEF Depth, BoundAssumption
<1>6. InvocationTypeOK'
  BY <1>1, <1>3, <1>5 DEF Activations, InvocationTypeOK
<1> QED
  BY <1>1, <1>4, <1>6 DEF Activations

LEMMA ActivationsStep ==
  Activations /\ [Next]_vars => Activations'
<1>1. ASSUME Activations, UNCHANGED vars \/ ReplaceDiscarded
      PROVE  Activations'
  BY <1>1 DEF vars, ReplaceDiscarded, Activations, InvocationTypeOK
<1>2. ASSUME Activations, Next
      PROVE  Activations'
  BY <1>1, <1>2, NextSteps, BodyActivations, BeginsActivations, UndoesActivations,
     ReturnsActivations
<1> QED
  BY <1>1, <1>2

LEMMA ActivationsInvariant == Spec => []Activations
<1>1. Init => Activations
  BY InitActivations
<1>2. Activations /\ [Next]_vars => Activations'
  BY ActivationsStep
<1> QED
  BY <1>1, <1>2, PTL DEF Spec

(* The activations that run are at depths that exist. *)
LEMMA RunningDepth ==
  ASSUME Activations
  PROVE  Running \subseteq Depth
  BY BoundAssumption DEF Activations, InvocationTypeOK, Running, Depth, BoundAssumption

(* Every variable stays in its range: in particular the code of a result is *)
(* 0 or 1 however many system calls failed (recordMsg, recover).            *)
THEOREM InvocationTypesCorrect == Spec => []InvocationTypeOK
<1>1. Activations => InvocationTypeOK
  BY DEF Activations
<1> QED
  BY <1>1, ActivationsInvariant, PTL

(* GetStateCache holds nothing or the value announced last: no value call   *)
(* delivers what an earlier pair of calls fetched, or another activation.   *)
THEOREM CacheAlwaysFresh == Spec => []CacheFresh
<1>1. Activations => CacheFresh
  BY RunningDepth DEF Activations, Consistent, CacheFresh
<1> QED
  BY <1>1, ActivationsInvariant, PTL

(* No failure, panic or unanswered failed system call is returned with code *)
(* 0, at any depth of cross-contract calls.                                 *)
THEOREM FailuresAlwaysReported == Spec => []FailureReported
<1>1. Activations => FailureReported
  <2> SUFFICES ASSUME Activations PROVE FailureReported
    OBVIOUS
  <2>1. result.faults = 1 => result.code = 1
    BY DEF Activations, ConsistentResult
  <2>2. ASSUME NEW d \in Running, frame[d].faults = 1,
               frame[d].pc \in {"running", "calling", "awaiting"}
        PROVE  frame[d].code = 1
    <3>1. Consistent(frame[d])
      BY RunningDepth DEF Activations
    <3> QED
      BY <2>2, <3>1 DEF Consistent, DeferStates
  <2> QED
    BY <2>1, <2>2 DEF FailureReported
<1> QED
  BY <1>1, ActivationsInvariant, PTL

(* A transaction that opened an iterator is returned with the iterator mark *)
(* unless it panicked, or made a cross-contract call after that.            *)
THEOREM IteratorsAlwaysMarked == Spec => []IteratorMarked
<1>1. Activations => IteratorMarked
  BY DEF Activations, ConsistentResult, IteratorMarked
<1> QED
  BY <1>1, ActivationsInvariant, PTL

-----------------------------------------------------------------------------
(* The second layer: the stack of activations *)

(* All activations but the deepest wait; serial numbers grow with depth, so *)
(* that no two have the same; only the first is on the pooled instance.     *)
Stack ==
  /\ \A d \in Running : frame[d].pc # "none" /\ frame[d].serial \in 1..serial
  /\ \A d \in Running : d < depth => frame[d].pc = "awaiting"
  /\ \A d \in Running : frame[d].inst = Pooled <=> d = 0
  /\ \A d \in Running : frame[d].inst \in {Pooled, NoInstance, frame[d].serial}
  /\ \A a, b \in Running : a < b => frame[a].serial < frame[b].serial

(* Two running activations have different numbers and different instances,  *)
(* those without an instance apart.                                         *)
LEMMA StackDistinct ==
  ASSUME Activations, Stack, NEW a \in Running, NEW b \in Running, a # b
  PROVE  /\ frame[a].serial # frame[b].serial
         /\ frame[a].inst # NoInstance => frame[a].inst # frame[b].inst
<1>1. a \in Int /\ b \in Int
  BY DEF Running
<1>2. /\ frame[a].serial \in Nat /\ frame[b].serial \in Nat
      /\ frame[a].serial > 0 /\ frame[b].serial > 0
  BY DEF Stack, Activations, InvocationTypeOK
<1>3. frame[a].serial # frame[b].serial
  <2>1. CASE a < b
    BY <1>2, <2>1 DEF Stack
  <2>2. CASE b < a
    BY <1>2, <2>2 DEF Stack
  <2> QED
    BY <1>1, <2>1, <2>2
<1>4. ASSUME frame[a].inst # NoInstance, frame[a].inst = frame[b].inst
      PROVE  FALSE
  <2>1. CASE frame[a].inst = Pooled
    BY <1>4, <2>1 DEF Stack
  <2>2. CASE frame[a].inst = frame[a].serial
    <3>1. frame[b].inst = frame[b].serial
      BY <1>2, <1>4, <2>2 DEF Stack, Pooled
    <3> QED
      BY <1>3, <1>4, <2>2, <3>1
  <2> QED
    BY <1>4, <2>1, <2>2 DEF Stack
<1> QED
  BY <1>3, <1>4

(* The frames after each kind of step. *)
LEMMA TopReplaced ==
  ASSUME Activations, NEW d \in Depth, NEW g, d = depth, depth' = depth,
         frame' = [frame EXCEPT ![d] = g]
  PROVE  /\ d \in Running /\ Running' = Running /\ frame'[d] = g
         /\ \A e \in Running : e # d => e < d /\ frame'[e] = frame[e]
<1>1. Running \subseteq Depth /\ d \in Running
  BY RunningDepth DEF Running, Depth
<1>2. Running' = Running
  BY DEF Running
<1>3. \A e \in Running : frame'[e] = IF e = d THEN g ELSE frame[e]
  BY <1>1 DEF Activations, InvocationTypeOK
<1>4. \A e \in Running : e # d => e < d
  BY DEF Running, Depth
<1> QED
  BY <1>1, <1>2, <1>3, <1>4

LEMMA FirstBegun ==
  ASSUME Activations, NEW f, BeginsPooled(f)
  PROVE  Running = {} /\ Running' = {0} /\ frame'[0] = f
<1>1. depth = -1 /\ depth' = 0 /\ frame' = [frame EXCEPT ![0] = f]
  BY DEF BeginsPooled
<1>2. 0 \in Depth
  BY BoundAssumption DEF Depth, BoundAssumption
<1>3. frame'[0] = f
  BY <1>1, <1>2 DEF Activations, InvocationTypeOK
<1>4. -1 \notin 0..-1 /\ 0..-1 = {} /\ 0..0 = {0}
  OBVIOUS
<1> QED
  BY <1>1, <1>3, <1>4 DEF Running

LEMMA NextBegun ==
  ASSUME Activations, NEW d \in Depth, NEW u, NEW f, BeginsNested(d, u, f)
  PROVE  /\ d \in Running /\ d + 1 \notin Running /\ Running' = Running \cup {d + 1}
         /\ frame'[d] = u /\ frame'[d + 1] = f
         /\ \A e \in Running : e # d => e < d /\ frame'[e] = frame[e]
<1>1. /\ d = depth /\ depth' = d + 1 /\ d + 1 \in Depth
      /\ frame' = [frame EXCEPT ![d] = u, ![d + 1] = f]
  BY DEF BeginsNested
<1>2. d \in Nat
  BY DEF Depth
<1>3. /\ d \in Running /\ d + 1 \notin Running /\ Running' = Running \cup {d + 1}
      /\ \A e \in Running : e \in Int /\ (e # d => e < d)
  BY <1>1, <1>2 DEF Running
<1>4. Running \subseteq Depth
  BY RunningDepth
<1>5. \A e \in Depth : frame'[e] = IF e = d + 1 THEN f ELSE IF e = d THEN u ELSE frame[e]
  BY <1>1, <1>2 DEF Activations, InvocationTypeOK
<1>6. frame'[d] = u /\ frame'[d + 1] = f
  <2>1. d # d + 1
    BY <1>2
  <2> QED
    BY <1>1, <1>5, <2>1, Zenon
<1>7. ASSUME NEW e \in Running, e # d
      PROVE  e < d /\ frame'[e] = frame[e]
  BY <1>2, <1>3, <1>4, <1>5, <1>7
<1> QED
  BY <1>3, <1>6, <1>7

LEMMA TopGone ==
  ASSUME Activations, NEW d \in Depth, Returns(d)
  PROVE  /\ d \in Running /\ Running' = Running \ {d}
         /\ \A e \in Running' : e < d /\ frame'[e] = frame[e]
<1>1. d = depth /\ depth' = d - 1 /\ frame' = [frame EXCEPT ![d] = NoFrame]
  BY DEF Returns
<1>2. d \in Nat
  BY DEF Depth
<1>3. d \in Running /\ Running' = Running \ {d} /\ \A e \in Running' : e < d
  BY <1>1, <1>2 DEF Running
<1>4. Running \subseteq Depth
  BY RunningDepth
<1>5. \A e \in Running' : frame'[e] = frame[e]
  BY <1>1, <1>3, <1>4 DEF Activations, InvocationTypeOK
<1> QED
  BY <1>3, <1>5

LEMMA InitStack ==
  Init => Stack
<1>1. depth = -1 => Running = {}
  BY DEF Running
<1> QED
  BY <1>1 DEF Init, Stack

LEMMA KeptStack ==
  ASSUME Activations, Stack, NEW d \in Depth, NEW g, d = depth,
         frame' = [frame EXCEPT ![d] = g], SameActivation(frame[d], g),
         g.pc # "none", UNCHANGED <<depth, serial>>
  PROVE  Stack'
<1>1. /\ d \in Running /\ Running' = Running /\ frame'[d] = g
      /\ \A e \in Running : e # d => e < d /\ frame'[e] = frame[e]
  BY TopReplaced
<1>2. \A e \in Running : frame'[e].serial = frame[e].serial /\ frame'[e].inst = frame[e].inst
  BY <1>1 DEF SameActivation
<1>3. \A e \in Running : frame'[e].pc # "none" /\ frame'[e].serial \in 1..serial'
  BY <1>1, <1>2 DEF Stack
<1>4. \A e \in Running : e < depth' => frame'[e].pc = "awaiting"
  <2>1. ASSUME NEW e \in Running, e < depth PROVE frame'[e].pc = "awaiting"
    <3>1. e # d
      BY <2>1 DEF Running
    <3> QED
      BY <1>1, <2>1, <3>1 DEF Stack
  <2> QED
    BY <2>1
<1> QED
  BY <1>1, <1>2, <1>3, <1>4 DEF Stack

LEMMA StackStep ==
  Activations /\ Stack /\ [Next]_vars => Stack'
<1> SUFFICES ASSUME Activations, Stack, [Next]_vars
             PROVE  Stack'
  OBVIOUS
<1>1. ASSUME NEW f, BeginsPooled(f)
      PROVE  Stack'
  <2>1. Running' = {0} /\ frame'[0] = f /\ depth' = 0
    BY <1>1, FirstBegun DEF BeginsPooled
  <2>2. /\ f.pc = "entered" /\ f.inst = Pooled /\ f.serial = serial' /\ serial' \in Serial
    BY <1>1 DEF BeginsPooled, Begins
  <2>3. serial' \in 1..serial'
    BY <2>2 DEF Serial
  <2> QED
    BY <2>1, <2>2, <2>3 DEF Stack
<1>2. ASSUME NEW d \in Depth, NEW u, NEW f, BeginsNested(d, u, f)
      PROVE  Stack'
  <2>1. /\ d \in Running /\ d + 1 \notin Running /\ Running' = Running \cup {d + 1}
        /\ frame'[d] = u /\ frame'[d + 1] = f
        /\ \A e \in Running : e # d => e < d /\ frame'[e] = frame[e]
    BY <1>2, NextBegun
  <2>2. /\ depth = d /\ depth' = d + 1 /\ serial' = serial + 1
        /\ f.serial = serial + 1 /\ f.inst \in {NoInstance, f.serial}
        /\ f.pc # "none" /\ u.pc = "awaiting" /\ serial \in Nat /\ d \in Nat
        /\ u.serial = frame[d].serial /\ u.inst = frame[d].inst
    BY <1>2 DEF BeginsNested, Begins, Waits, SameActivation, Activations, InvocationTypeOK,
                Depth
  <2>3. f.inst # Pooled /\ d + 1 # 0
    BY <2>2 DEF NoInstance, Pooled
  <2>4. /\ \A e \in Running : /\ frame'[e].serial = frame[e].serial
                              /\ frame'[e].inst = frame[e].inst
                              /\ frame'[e].pc = "awaiting"
    BY <2>1, <2>2 DEF Stack
  <2>5. \A e \in Running' : frame'[e].pc # "none" /\ frame'[e].serial \in 1..serial'
    BY <2>1, <2>2, <2>4 DEF Stack
  <2>6. \A e \in Running' : e < depth' => frame'[e].pc = "awaiting"
    BY <2>1, <2>2, <2>4
  <2>7. \A e \in Running' : frame'[e].inst = Pooled <=> e = 0
    BY <2>1, <2>2, <2>3, <2>4 DEF Stack
  <2>8. \A e \in Running' : frame'[e].inst \in {Pooled, NoInstance, frame'[e].serial}
    BY <2>1, <2>2, <2>4 DEF Stack
  <2>9. ASSUME NEW a \in Running', NEW b \in Running', a < b
        PROVE  frame'[a].serial < frame'[b].serial
    <3>1. CASE b \in Running
      <4>1. a \in Running
        BY <2>1, <2>2, <2>9, <3>1 DEF Running
      <4> QED
        BY <2>4, <2>9, <3>1, <4>1 DEF Stack
    <3>2. CASE b = d + 1
      <4>1. a \in Running
        BY <2>1, <2>2, <2>9, <3>2
      <4> QED
        BY <2>1, <2>2, <2>4, <3>2, <4>1 DEF Stack
    <3> QED
      BY <2>1, <3>1, <3>2
  <2> QED
    BY <2>5, <2>6, <2>7, <2>8, <2>9 DEF Stack
<1>3. ASSUME NEW d \in Depth, NEW g, BodyStep(d, g)
      PROVE  Stack'
  <2>1. /\ d = depth /\ frame' = [frame EXCEPT ![d] = g] /\ SameActivation(frame[d], g)
        /\ g.pc # "none" /\ UNCHANGED <<depth, serial>>
    BY <1>3 DEF BodyStep, Replaces, Set, BodyStates
  <2> QED
    BY <2>1, KeptStack
<1>4. ASSUME NEW d \in Depth, NEW g, Undoes(d, g)
      PROVE  Stack'
  <2>1. /\ d = depth /\ frame' = [frame EXCEPT ![d] = g] /\ SameActivation(frame[d], g)
        /\ g.pc # "none" /\ UNCHANGED <<depth, serial>>
    BY <1>4 DEF Undoes, Set
  <2> QED
    BY <2>1, KeptStack
<1>5. ASSUME NEW d \in Depth, Returns(d)
      PROVE  Stack'
  <2>1. /\ Running' = Running \ {d} /\ \A e \in Running' : e < d /\ frame'[e] = frame[e]
    BY <1>5, TopGone
  <2>2. d = depth /\ serial' = serial
    BY <1>5 DEF Returns
  <2> QED
    BY <2>1, <2>2 DEF Stack
<1>6. ASSUME UNCHANGED vars \/ ReplaceDiscarded
      PROVE  Stack'
  BY <1>6 DEF vars, ReplaceDiscarded, Stack, Running
<1> QED
  BY <1>1, <1>2, <1>3, <1>4, <1>5, <1>6, NextSteps

LEMMA StackInvariant == Spec => [](Activations /\ Stack)
<1>1. Init => Activations /\ Stack
  BY InitActivations, InitStack
<1>2. Activations /\ Stack /\ [Next]_vars => (Activations /\ Stack)'
  BY ActivationsStep, StackStep
<1> QED
  BY <1>1, <1>2, PTL DEF Spec

-----------------------------------------------------------------------------
(* The third layer: views, and what the activations hold *)

LEMMA ViewStep ==
  Activations /\ Stack /\ ViewFresh /\ [Next]_vars => ViewFresh'
<1> SUFFICES ASSUME Activations, Stack, ViewFresh, [Next]_vars
             PROVE  ViewFresh'
  OBVIOUS
<1>1. ASSUME NEW f, BeginsPooled(f)
      PROVE  ViewFresh'
  <2>1. Running' = {0} /\ frame'[0] = f /\ f.pc = "entered"
    BY <1>1, FirstBegun DEF BeginsPooled
  <2> QED
    BY <2>1 DEF ViewFresh
<1>2. ASSUME NEW d \in Depth, NEW u, NEW f, BeginsNested(d, u, f)
      PROVE  ViewFresh'
  <2>1. /\ d \in Running /\ Running' = Running \cup {d + 1}
        /\ frame'[d] = u /\ frame'[d + 1] = f
        /\ \A e \in Running : e # d => frame'[e] = frame[e]
    BY <1>2, NextBegun
  <2>2. /\ f.pc \in {"entered", "release"} /\ moves' = moves
        /\ frame[d].pc = "calling" /\ u.view = frame[d].view /\ u.inst = frame[d].inst
    BY <1>2 DEF BeginsNested, Waits, SameActivation
  <2> QED
    BY <2>1, <2>2 DEF ViewFresh
<1>3. ASSUME NEW d \in Depth, NEW g, BodyStep(d, g)
      PROVE  ViewFresh'
  <2>1. /\ d = depth /\ depth' = depth /\ frame' = [frame EXCEPT ![d] = g]
        /\ g.inst = frame[d].inst
        /\ g.pc \in Viewing => g.view = moves'[g.inst]
        /\ \A i \in 0..MaxInvokes : i # g.inst => moves'[i] = moves[i]
    BY <1>3 DEF BodyStep, Replaces, Set, SameActivation
  <2>2. /\ d \in Running /\ Running' = Running /\ frame'[d] = g
        /\ \A e \in Running : e # d => e < d /\ frame'[e] = frame[e]
    BY <2>1, TopReplaced
  <2>3. ASSUME NEW e \in Running, frame'[e].pc \in Viewing
        PROVE  frame'[e].view = moves'[frame'[e].inst]
    <3>1. CASE e = d
      BY <2>1, <2>2, <2>3, <3>1
    <3>2. CASE e # d
      <4>1. frame'[e] = frame[e] /\ e \in Depth
        BY <2>2, <3>2, RunningDepth
      <4>2. frame[e].inst # NoInstance
        BY <2>3, <4>1 DEF Activations, Placed, Viewing
      <4>3. frame[e].inst # frame[d].inst
        BY <2>2, <3>2, <4>2, StackDistinct
      <4>4. frame[e].inst \in 0..MaxInvokes
        <5>1. frame[e].inst \in {NoInstance, Pooled} \cup Serial
          BY <4>1 DEF Activations, InvocationTypeOK, Frame
        <5> QED
          BY <4>2, <5>1, BoundAssumption DEF Pooled, Serial, BoundAssumption
      <4> QED
        BY <2>1, <2>3, <4>1, <4>3, <4>4 DEF ViewFresh, Viewing
    <3> QED
      BY <3>1, <3>2
  <2> QED
    BY <2>2, <2>3 DEF ViewFresh, Viewing
<1>4. ASSUME NEW d \in Depth, NEW g, Undoes(d, g)
      PROVE  ViewFresh'
  <2>1. /\ d = depth /\ depth' = depth /\ frame' = [frame EXCEPT ![d] = g]
        /\ g.pc \in {"release", "recover"} /\ moves' = moves
    BY <1>4 DEF Undoes, Set
  <2>2. /\ d \in Running /\ Running' = Running /\ frame'[d] = g
        /\ \A e \in Running : e # d => e < d /\ frame'[e] = frame[e]
    BY <2>1, TopReplaced
  <2> QED
    BY <2>1, <2>2 DEF ViewFresh
<1>5. ASSUME NEW d \in Depth, Returns(d)
      PROVE  ViewFresh'
  <2>1. Running' = Running \ {d} /\ \A e \in Running' : e < d /\ frame'[e] = frame[e]
    BY <1>5, TopGone
  <2>2. moves' = moves
    BY <1>5 DEF Returns
  <2> QED
    BY <2>1, <2>2 DEF ViewFresh
<1>6. ASSUME UNCHANGED vars \/ ReplaceDiscarded
      PROVE  ViewFresh'
  BY <1>6 DEF vars, ReplaceDiscarded, ViewFresh, Running
<1> QED
  BY <1>1, <1>2, <1>3, <1>4, <1>5, <1>6, NextSteps

(* A registered context is that of an activation that has not removed it. *)
Registered ==
  \A n \in registry : \E d \in Running :
    frame[d].serial = n /\ frame[d].pc \notin {"release", "recover"}

LEMMA RegisteredStep ==
  Activations /\ Stack /\ Registered /\ [Next]_vars => Registered'
<1> SUFFICES ASSUME Activations, Stack, Registered, [Next]_vars
             PROVE  Registered'
  OBVIOUS
<1>1. ASSUME NEW f, BeginsPooled(f)
      PROVE  Registered'
  <2>1. Running = {} /\ Running' = {0} /\ frame'[0] = f
    BY <1>1, FirstBegun
  <2>2. f.pc = "entered" /\ f.serial = serial + 1 /\ registry' = registry \cup {serial + 1}
    BY <1>1 DEF BeginsPooled, Begins
  <2> QED
    BY <2>1, <2>2 DEF Registered
<1>2. ASSUME NEW d \in Depth, NEW u, NEW f, BeginsNested(d, u, f)
      PROVE  Registered'
  <2>1. /\ d \in Running /\ Running' = Running \cup {d + 1}
        /\ frame'[d] = u /\ frame'[d + 1] = f
        /\ \A e \in Running : e # d => frame'[e] = frame[e]
    BY <1>2, NextBegun
  <2>2. /\ u.pc = "awaiting" /\ u.serial = frame[d].serial /\ f.serial = serial + 1
        /\ \/ f.pc = "entered" /\ registry' = registry \cup {serial + 1}
           \/ registry' = registry
    BY <1>2 DEF BeginsNested, Begins, Waits, SameActivation
  <2>3. ASSUME NEW n \in registry
        PROVE  \E e \in Running' :
                 frame'[e].serial = n /\ frame'[e].pc \notin {"release", "recover"}
    <3>1. PICK e \in Running :
            frame[e].serial = n /\ frame[e].pc \notin {"release", "recover"}
      BY DEF Registered
    <3> QED
      BY <2>1, <2>2, <3>1
  <2> QED
    BY <2>1, <2>2, <2>3 DEF Registered
<1>3. ASSUME NEW d \in Depth, NEW g, BodyStep(d, g)
      PROVE  Registered'
  <2>1. /\ d = depth /\ depth' = depth /\ frame' = [frame EXCEPT ![d] = g]
        /\ g.serial = frame[d].serial /\ g.pc \notin {"release", "recover"}
        /\ registry' = registry
    BY <1>3 DEF BodyStep, Replaces, Set, SameActivation, BodyStates
  <2>2. /\ d \in Running /\ Running' = Running /\ frame'[d] = g
        /\ \A e \in Running : e # d => frame'[e] = frame[e]
    BY <2>1, TopReplaced
  <2> QED
    BY <2>1, <2>2 DEF Registered
<1>4. ASSUME NEW d \in Depth, NEW g, Undoes(d, g)
      PROVE  Registered'
  <2>1. d = depth /\ depth' = depth /\ frame' = [frame EXCEPT ![d] = g]
    BY <1>4 DEF Undoes, Set
  <2>2. /\ d \in Running /\ Running' = Running
        /\ \A e \in Running : e # d => frame'[e] = frame[e]
    BY <2>1, TopReplaced
  <2>3. ASSUME NEW n \in registry'
        PROVE  \E e \in Running' :
                 frame'[e].serial = n /\ frame'[e].pc \notin {"release", "recover"}
    <3>1. /\ n \in registry
          /\ frame[d].pc = "release" \/ n # frame[d].serial
      BY <1>4, <2>3 DEF Undoes
    <3>2. PICK e \in Running :
            frame[e].serial = n /\ frame[e].pc \notin {"release", "recover"}
      BY <3>1 DEF Registered
    <3> QED
      BY <2>2, <3>1, <3>2
  <2> QED
    BY <2>3 DEF Registered
<1>5. ASSUME NEW d \in Depth, Returns(d)
      PROVE  Registered'
  <2>1. Running' = Running \ {d} /\ \A e \in Running' : frame'[e] = frame[e]
    BY <1>5, TopGone
  <2>2. registry' = registry /\ frame[d].pc = "recover"
    BY <1>5 DEF Returns
  <2> QED
    BY <2>1, <2>2 DEF Registered
<1>6. ASSUME UNCHANGED vars \/ ReplaceDiscarded
      PROVE  Registered'
  BY <1>6 DEF vars, ReplaceDiscarded, Registered, Running
<1> QED
  BY <1>1, <1>2, <1>3, <1>4, <1>5, <1>6, NextSteps

(* The instances: the pool or a discard goroutine has the pooled one unless *)
(* the first activation has not handed it over; a private one that is open  *)
(* is that of an activation that has not released it, or will never be      *)
(* closed.                                                                  *)
Owned ==
  /\ Pooled \in free \cup discarding \/ (0 \in Running /\ frame[0].pc # "recover")
  /\ free \cap discarding = {}
  /\ 0 \in Running /\ frame[0].pc # "recover" => Pooled \notin free \cup discarding
  /\ Pooled \in live /\ unclosed \subseteq live
  /\ \A i \in unclosed : i \in 1..serial
  /\ \A i \in live : \/ i = Pooled \/ i \in unclosed
                     \/ \E d \in Running : frame[d].inst = i /\ frame[d].pc # "recover"
  /\ \A d \in Running :
       frame[d].pc # "recover" /\ frame[d].inst \notin {Pooled, NoInstance} =>
         frame[d].inst \in live \ unclosed

LEMMA OwnedBegins ==
  ASSUME Activations, Stack, Owned, NEW d \in Depth, NEW u, NEW f, BeginsNested(d, u, f)
  PROVE  Owned'
<1>1. /\ d \in Running /\ Running' = Running \cup {d + 1} /\ d + 1 # 0
      /\ frame'[d] = u /\ frame'[d + 1] = f
      /\ \A e \in Running : e # d => frame'[e] = frame[e]
  <2>1. d + 1 # 0
    BY DEF Depth
  <2> QED
    BY <2>1, NextBegun
<1>2. /\ u.pc = "awaiting" /\ u.inst = frame[d].inst /\ frame[d].pc = "calling"
      /\ UNCHANGED <<free, discarding, unclosed>>
      /\ serial' = serial + 1 /\ serial \in Nat
      /\ \/ f.pc = "entered" /\ f.inst = serial + 1 /\ live' = live \cup {serial + 1}
         \/ f.inst = NoInstance /\ live' = live
  BY DEF BeginsNested, Begins, Waits, SameActivation, Activations, InvocationTypeOK
<1>3. \A e \in Running : /\ frame'[e].inst = frame[e].inst
                         /\ frame'[e].pc = "recover" <=> frame[e].pc = "recover"
  BY <1>1, <1>2
<1>4. /\ Pooled \in free' \cup discarding' \/ (0 \in Running' /\ frame'[0].pc # "recover")
      /\ free' \cap discarding' = {}
      /\ 0 \in Running' /\ frame'[0].pc # "recover" => Pooled \notin free' \cup discarding'
  BY <1>1, <1>2, <1>3 DEF Owned
<1>5. Pooled \in live' /\ unclosed' \subseteq live'
  BY <1>2 DEF Owned
<1>6. \A i \in unclosed' : i \in 1..serial'
  BY <1>2 DEF Owned
<1>7. ASSUME NEW i \in live'
      PROVE  \/ i = Pooled \/ i \in unclosed'
             \/ \E e \in Running' : frame'[e].inst = i /\ frame'[e].pc # "recover"
  <2>1. CASE i \in live
    BY <1>1, <1>2, <1>3, <2>1 DEF Owned
  <2>2. CASE i \notin live
    BY <1>1, <1>2, <1>7, <2>2
  <2> QED
    BY <2>1, <2>2
<1>8. ASSUME NEW e \in Running', frame'[e].pc # "recover",
             frame'[e].inst \notin {Pooled, NoInstance}
      PROVE  frame'[e].inst \in live' \ unclosed'
  <2>1. CASE e \in Running
    BY <1>2, <1>3, <1>8, <2>1 DEF Owned
  <2>2. CASE e = d + 1
    <3>1. serial + 1 \notin unclosed
      BY <1>2 DEF Owned
    <3> QED
      BY <1>1, <1>2, <1>8, <2>2, <3>1
  <2> QED
    BY <1>1, <2>1, <2>2
<1> QED
  BY <1>4, <1>5, <1>6, <1>7, <1>8 DEF Owned

LEMMA OwnedUndoes ==
  ASSUME Activations, Stack, Owned, NEW d \in Depth, NEW g, Undoes(d, g)
  PROVE  Owned'
<1>1. /\ d = depth /\ depth' = depth /\ frame' = [frame EXCEPT ![d] = g]
      /\ g.inst = frame[d].inst /\ serial' = serial
      /\ frame[d].pc # "recover"
  BY DEF Undoes, Set, SameActivation
<1>2. /\ d \in Running /\ Running' = Running /\ frame'[d] = g
      /\ \A e \in Running : e # d => frame'[e] = frame[e]
  BY <1>1, TopReplaced
<1>3. \A e \in Running : frame'[e].inst = frame[e].inst
  BY <1>1, <1>2
<1>4. CASE g.pc = "release" /\ UNCHANGED <<free, discarding, live, unclosed>>
  <2>1. \A e \in Running : frame'[e].pc = "recover" <=> frame[e].pc = "recover"
    BY <1>1, <1>2, <1>4
  <2> QED
    BY <1>1, <1>2, <1>3, <1>4, <2>1 DEF Owned
<1>5. CASE /\ g.pc = "recover" /\ frame[d].inst = Pooled
           /\ Hands /\ UNCHANGED <<live, unclosed>>
  <2>1. \A e \in Running : frame[e].inst # Pooled =>
          (frame'[e].pc = "recover" <=> frame[e].pc = "recover")
    BY <1>2, <1>5
  <2>2. Pooled \in free' \cup discarding' /\ free' \cap discarding' = {}
    <3>1. d = 0 /\ Pooled \notin free \cup discarding /\ free \cap discarding = {}
      BY <1>1, <1>2, <1>5 DEF Owned, Stack
    <3> QED
      BY <1>5, <3>1 DEF Hands
  <2>5. ~(0 \in Running' /\ frame'[0].pc # "recover")
    BY <1>2, <1>5 DEF Stack
  <2>3. \A i \in live' : \/ i = Pooled \/ i \in unclosed'
                         \/ \E e \in Running' : frame'[e].inst = i /\ frame'[e].pc # "recover"
    BY <1>2, <1>3, <1>5, <2>1 DEF Owned
  <2>4. \A e \in Running' :
          frame'[e].pc # "recover" /\ frame'[e].inst \notin {Pooled, NoInstance} =>
            frame'[e].inst \in live' \ unclosed'
    BY <1>2, <1>3, <1>5, <2>1 DEF Owned
  <2> QED
    BY <1>1, <1>5, <2>2, <2>3, <2>4, <2>5 DEF Owned
<1>6. CASE /\ g.pc = "recover" /\ frame[d].inst # Pooled
           /\ UNCHANGED <<free, discarding>>
           /\ \/ live' = live \ {frame[d].inst} /\ unclosed' = unclosed
              \/ /\ frame[d].inst # NoInstance
                 /\ live' = live /\ unclosed' = unclosed \cup {frame[d].inst}
  <2> DEFINE i0 == frame[d].inst
  <2>1. d # 0
    BY <1>2, <1>6 DEF Stack
  <2>2. /\ Pooled \in free' \cup discarding' \/ (0 \in Running' /\ frame'[0].pc # "recover")
        /\ free' \cap discarding' = {}
        /\ 0 \in Running' /\ frame'[0].pc # "recover" => Pooled \notin free' \cup discarding'
    BY <1>2, <1>6, <2>1 DEF Owned
  <2>3. i0 = NoInstance \/ i0 \in live \ unclosed
    BY <1>1, <1>2, <1>6 DEF Owned
  <2>4. NoInstance \notin live /\ NoInstance # Pooled
    BY DEF Activations, InvocationTypeOK, NoInstance, Pooled, Serial
  <2>5. Pooled \in live' /\ unclosed' \subseteq live'
    BY <1>6, <2>3, <2>4 DEF Owned
  <2>6. \A i \in unclosed' : i \in 1..serial'
    BY <1>1, <1>2, <1>6 DEF Owned, Stack
  <2>7. ASSUME NEW i \in live'
        PROVE  \/ i = Pooled \/ i \in unclosed'
               \/ \E e \in Running' : frame'[e].inst = i /\ frame'[e].pc # "recover"
    <3>1. i \in live /\ (i # i0 \/ i \in unclosed')
      BY <1>6, <2>7
    <3>2. unclosed \subseteq unclosed'
      BY <1>6
    <3>3. CASE i = Pooled \/ i \in unclosed \/ i = i0
      BY <3>1, <3>2, <3>3
    <3>4. CASE ~(i = Pooled \/ i \in unclosed \/ i = i0)
      <4>1. PICK e \in Running : frame[e].inst = i /\ frame[e].pc # "recover"
        BY <3>1, <3>4 DEF Owned
      <4>2. e # d
        BY <3>4, <4>1
      <4> QED
        BY <1>2, <4>1, <4>2
    <3> QED
      BY <3>3, <3>4
  <2>8. ASSUME NEW e \in Running', frame'[e].pc # "recover",
               frame'[e].inst \notin {Pooled, NoInstance}
        PROVE  frame'[e].inst \in live' \ unclosed'
    <3>1. e \in Running /\ e # d /\ frame'[e] = frame[e]
      BY <1>2, <1>6, <2>8
    <3>2. frame[e].inst \in live \ unclosed
      BY <2>8, <3>1 DEF Owned
    <3>3. frame[e].inst # i0
      BY <1>2, <2>8, <3>1, StackDistinct
    <3> QED
      BY <1>6, <3>1, <3>2, <3>3
  <2> QED
    BY <2>2, <2>5, <2>6, <2>7, <2>8 DEF Owned
<1> QED
  BY <1>4, <1>5, <1>6 DEF Undoes, Pooled, NoInstance

LEMMA OwnedStep ==
  Activations /\ Stack /\ Owned /\ [Next]_vars => Owned'
<1> SUFFICES ASSUME Activations, Stack, Owned, [Next]_vars
             PROVE  Owned'
  OBVIOUS
<1>1. ASSUME NEW f, BeginsPooled(f)
      PROVE  Owned'
  <2>1. Running = {} /\ Running' = {0} /\ frame'[0] = f
    BY <1>1, FirstBegun
  <2>2. /\ f.pc = "entered" /\ f.inst = Pooled /\ live' = live /\ unclosed' = unclosed
        /\ serial' = serial + 1 /\ serial \in Nat
    BY <1>1 DEF BeginsPooled, Begins, Activations, InvocationTypeOK
  <2>3. \A i \in unclosed' : i \in 1..serial'
    BY <2>2 DEF Owned
  <2>4. /\ free' = free \ {Pooled} /\ discarding' = discarding
        /\ Pooled \in free /\ free \cap discarding = {}
    BY <1>1 DEF BeginsPooled, Owned
  <2>5. Pooled \notin free' \cup discarding'
    BY <2>4
  <2> QED
    BY <2>1, <2>2, <2>3, <2>4, <2>5 DEF Owned
<1>2. ASSUME NEW d \in Depth, NEW g, BodyStep(d, g)
      PROVE  Owned'
  <2>1. /\ d = depth /\ depth' = depth /\ frame' = [frame EXCEPT ![d] = g]
        /\ g.inst = frame[d].inst /\ g.pc # "recover" /\ frame[d].pc # "recover"
        /\ UNCHANGED <<serial, free, discarding, live, unclosed>>
    BY <1>2 DEF BodyStep, Replaces, Set, SameActivation, BodyStates
  <2>2. /\ d \in Running /\ Running' = Running /\ frame'[d] = g
        /\ \A e \in Running : e # d => frame'[e] = frame[e]
    BY <2>1, TopReplaced
  <2>3. \A e \in Running : /\ frame'[e].inst = frame[e].inst
                           /\ frame'[e].pc = "recover" <=> frame[e].pc = "recover"
    BY <2>1, <2>2
  <2> QED
    BY <2>1, <2>2, <2>3 DEF Owned
<1>3. ASSUME NEW d \in Depth, Returns(d)
      PROVE  Owned'
  <2>1. d \in Running /\ Running' = Running \ {d} /\ \A e \in Running' : frame'[e] = frame[e]
    BY <1>3, TopGone
  <2>2. frame[d].pc = "recover" /\ UNCHANGED <<serial, free, discarding, live, unclosed>>
    BY <1>3 DEF Returns
  <2>3. /\ Pooled \in free' \cup discarding' \/ (0 \in Running' /\ frame'[0].pc # "recover")
        /\ free' \cap discarding' = {}
        /\ 0 \in Running' /\ frame'[0].pc # "recover" => Pooled \notin free' \cup discarding'
    BY <2>1, <2>2 DEF Owned
  <2>4. \A i \in live' : \/ i = Pooled \/ i \in unclosed'
                         \/ \E e \in Running' : frame'[e].inst = i /\ frame'[e].pc # "recover"
    BY <2>1, <2>2 DEF Owned
  <2> QED
    BY <2>1, <2>2, <2>3, <2>4 DEF Owned
<1>4. ASSUME UNCHANGED vars \/ ReplaceDiscarded
      PROVE  Owned'
  BY <1>4 DEF vars, ReplaceDiscarded, Owned, Running
<1> QED
  BY <1>1, <1>2, <1>3, <1>4, OwnedBegins, OwnedUndoes, NextSteps

Holdings == Activations /\ Stack /\ ViewFresh /\ Registered /\ Owned

LEMMA HoldingsInvariant == Spec => []Holdings
<1>1. Init => Holdings
  <2>1. depth = -1 => Running = {}
    BY DEF Running
  <2> QED
    BY <2>1, InitActivations, InitStack DEF Init, Holdings, ViewFresh, Registered, Owned
<1>2. Holdings /\ [Next]_vars => Holdings'
  BY ActivationsStep, StackStep, ViewStep, RegisteredStep, OwnedStep DEF Holdings
<1> QED
  BY <1>1, <1>2, PTL DEF Spec

(* No view of a memory outlives a growth of that memory: what runs in       *)
(* between, at whatever depth, runs on other instances.                     *)
THEOREM ViewsAlwaysFresh == Spec => []ViewFresh
<1>1. Holdings => ViewFresh
  BY DEF Holdings
<1> QED
  BY <1>1, HoldingsInvariant, PTL

(* However the activations of a transaction end, the deferred calls undo    *)
(* what they took: contexts, the pooled instance and private instances.     *)
THEOREM NothingEverLeftBehind == Spec => []NothingLeftBehind
<1>1. Holdings => NothingLeftBehind
  <2>1. depth = -1 => Running = {}
    BY DEF Running
  <2> QED
    BY <2>1 DEF Holdings, Registered, Owned, Activations, InvocationTypeOK,
                NothingLeftBehind
<1> QED
  BY <1>1, HoldingsInvariant, PTL

-----------------------------------------------------------------------------
(* The fourth layer: events and the activations that broke off *)

Unbroken == BodyStates \ {"failed"}

(* What an activation has collected or handed over, when those in v broke    *)
(* off and n activations have begun.                                        *)
Clean(f, v, n) ==
  /\ f.serial \in f.under /\ f.under \subseteq 1..n
  /\ f.events \subseteq f.under /\ f.sent \subseteq f.under
  /\ f.pc # "failed" => f.events \cap v = {}
  /\ f.sent \cap v = {}
  /\ f.pc \in BodyStates => f.sent = {}
  /\ f.pc \in Unbroken => f.serial \notin v

(* The result is looked at by nobody, by the caller, or by the client. *)
ResultRead == depth = -1 \/ (depth \in Running /\ frame[depth].pc = "awaiting")

Scoped ==
  /\ void \subseteq 1..serial
  /\ \A d \in Running : Clean(frame[d], void, serial)
  /\ \A a, b \in Running : a # b => frame[a].under \cap frame[b].under = {}
  /\ ResultRead =>
       /\ result.events \cap void = {} /\ result.events \subseteq result.under
       /\ result.under \subseteq 1..serial
       /\ \A d \in Running : result.under \cap frame[d].under = {}

LEMMA ScopedBegins ==
  ASSUME Activations, Stack, Scoped, NEW d \in Depth, NEW u, NEW f, BeginsNested(d, u, f)
  PROVE  Scoped'
<1>1. /\ d \in Running /\ d + 1 \notin Running /\ Running' = Running \cup {d + 1}
      /\ frame'[d] = u /\ frame'[d + 1] = f
      /\ \A e \in Running : e # d => frame'[e] = frame[e]
  BY NextBegun
<1>2. /\ frame[d].pc = "calling" /\ u.pc = "awaiting" /\ u.serial = frame[d].serial
      /\ u.under = frame[d].under /\ u.events = frame[d].events /\ u.sent = frame[d].sent
      /\ f.serial = serial + 1 /\ f.under = {serial + 1} /\ f.events = {} /\ f.sent = {}
      /\ serial' = serial + 1 /\ serial \in Nat /\ depth' = d + 1
      /\ \/ f.pc = "entered" /\ void' = void
         \/ f.pc = "release" /\ void' = void \cup {serial + 1}
  BY DEF BeginsNested, Begins, Waits, SameActivation, Activations, InvocationTypeOK
<1>3. \A e \in Running : /\ frame'[e].under = frame[e].under
                         /\ frame'[e].under \subseteq 1..serial
  BY <1>1, <1>2 DEF Scoped, Clean
<1>4. serial + 1 \notin 1..serial /\ 1..serial \subseteq 1..serial'
  BY <1>2
<1>5. void' \subseteq 1..serial'
  <2>1. void \subseteq 1..serial /\ serial + 1 \in 1..serial'
    BY <1>2 DEF Scoped
  <2>2. void' \subseteq void \cup {serial + 1}
    BY <1>2
  <2> QED
    BY <1>4, <2>1, <2>2
<1>6. ASSUME NEW e \in Running
      PROVE  Clean(frame'[e], void', serial')
  <2>1. Clean(frame[e], void, serial)
    BY DEF Scoped
  <2>2. CASE e # d
    <3>1. frame'[e] = frame[e]
      BY <1>1, <2>2
    <3>2. frame[e].serial \in 1..serial /\ frame[e].events \subseteq 1..serial
          /\ frame[e].sent \subseteq 1..serial
      BY <2>1 DEF Clean
    <3>3. frame[e].serial \in void' <=> frame[e].serial \in void
      BY <1>2, <1>4, <3>2
    <3>4. frame[e].events \cap void' = frame[e].events \cap void
      BY <1>2, <1>4, <3>2
    <3>5. frame[e].sent \cap void' = frame[e].sent \cap void
      BY <1>2, <1>4, <3>2
    <3> QED
      BY <1>4, <2>1, <3>1, <3>3, <3>4, <3>5 DEF Clean
  <2>3. CASE e = d
    <3>1. frame'[e] = u /\ frame[e] = frame[d]
      BY <1>1, <2>3
    <3>2. u.serial \in 1..serial /\ u.events \subseteq 1..serial /\ u.sent = {}
          /\ u.serial \notin void /\ u.events \cap void = {}
      BY <1>2, <2>1, <2>3 DEF Clean, Unbroken, BodyStates
    <3>3. u.serial \notin void' /\ u.events \cap void' = {}
      BY <1>2, <1>4, <3>2
    <3> QED
      BY <1>2, <1>4, <2>1, <3>1, <3>2, <3>3 DEF Clean
  <2> QED
    BY <2>2, <2>3
<1>7. Clean(frame'[d + 1], void', serial')
  <2>1. f.pc = "entered" => serial + 1 \notin void'
    BY <1>2, <1>4 DEF Scoped
  <2>2. f.pc \in {"entered", "release"}
    BY <1>2
  <2> QED
    BY <1>1, <1>2, <2>1, <2>2 DEF Clean, Unbroken, BodyStates
<1>8. ASSUME NEW a \in Running', NEW b \in Running', a # b
      PROVE  frame'[a].under \cap frame'[b].under = {}
  <2>1. CASE a \in Running /\ b \in Running
    BY <1>3, <1>8, <2>1 DEF Scoped
  <2>2. CASE a = d + 1 /\ b \in Running
    BY <1>1, <1>2, <1>3, <1>4, <2>2
  <2>3. CASE b = d + 1 /\ a \in Running
    BY <1>1, <1>2, <1>3, <1>4, <2>3
  <2> QED
    BY <1>1, <1>8, <2>1, <2>2, <2>3
<1>9. ~ResultRead'
  BY <1>1, <1>2 DEF ResultRead, Depth
<1> QED
  BY <1>1, <1>5, <1>6, <1>7, <1>8, <1>9 DEF Scoped

(* The activation the call works on, as it leaves it. *)
LEMMA CleanBody ==
  ASSUME Activations, Stack, Scoped, NEW d \in Depth, NEW g, BodyStep(d, g)
  PROVE  Clean(g, void', serial')
<1> DEFINE f == frame[d]
<1>1. /\ f.pc \in BodyStates /\ g.serial = f.serial /\ serial' = serial /\ d = depth
      /\ g.pc \in (BodyStates \ {"awaiting"}) \cup {"removeContext"}
  BY DEF BodyStep, Replaces, SameActivation
<1>2. d \in Running
  BY <1>1 DEF Running, Depth
<1>3. Clean(f, void, serial)
  BY <1>2 DEF Scoped
<1> HIDE DEF f
<1>4. CASE void' = void /\ Continues(f, g)
  <2>1. /\ g.under = f.under /\ g.sent = f.sent /\ g.events \subseteq f.events \cup {f.serial}
        /\ f.pc # "failed"
    BY <1>4 DEF Continues
  <2>2. f.serial \notin void /\ f.events \cap void = {} /\ f.sent = {}
    BY <1>1, <1>3, <2>1 DEF Clean, Unbroken
  <2> QED
    BY <1>1, <1>3, <1>4, <2>1, <2>2 DEF Clean
<1>5. CASE void' = void /\ Resumes(f, g)
  <2>1. /\ g.under = f.under \cup result.under /\ g.sent = f.sent
        /\ g.events \subseteq f.events \cup result.events /\ f.pc = "awaiting"
    BY <1>5 DEF Resumes
  <2>2. f.serial \notin void /\ f.events \cap void = {} /\ f.sent = {}
    BY <1>1, <1>3, <2>1 DEF Clean, Unbroken
  <2>3. ResultRead
    BY <1>1, <1>2, <2>1 DEF ResultRead, f
  <2>4. /\ result.events \cap void = {} /\ result.events \subseteq result.under
        /\ result.under \subseteq 1..serial
    BY <2>3 DEF Scoped
  <2> QED
    BY <1>1, <1>3, <1>5, <2>1, <2>2, <2>4 DEF Clean
<1>6. CASE void' = void /\ Succeeds(f, g)
  <2>1. /\ g.under = f.under /\ g.sent = f.events /\ g.events = {}
        /\ f.pc = "succeeded" /\ g.pc = "removeContext"
    BY <1>6 DEF Succeeds
  <2> QED
    BY <1>1, <1>3, <1>6, <2>1 DEF Clean, Unbroken, BodyStates
<1>7. CASE Break(d) /\ BreaksOff(d, f, g)
  <2>1. /\ g.under = f.under /\ g.sent = f.sent /\ f.sent = {}
        /\ \/ g.pc = "failed" /\ g.events = f.events
           \/ g.pc = "removeContext" /\ g.events = {}
    BY <1>1, <1>3, <1>7 DEF BreaksOff, Clean
  <2> QED
    BY <1>1, <1>3, <2>1 DEF Clean, Unbroken, BodyStates
<1> QED
  BY <1>4, <1>5, <1>6, <1>7 DEF BodyStep, f

LEMMA ScopedBody ==
  ASSUME Activations, Stack, Scoped, NEW d \in Depth, NEW g, BodyStep(d, g)
  PROVE  Scoped'
<1> DEFINE f == frame[d]
<1>1. /\ d = depth /\ depth' = depth /\ frame' = [frame EXCEPT ![d] = g]
      /\ g.pc # "awaiting" /\ serial' = serial /\ result' = result
  BY DEF BodyStep, Replaces, Set, BodyStates
<1>2. /\ d \in Running /\ Running' = Running /\ frame'[d] = g
      /\ \A e \in Running : e # d => e < d /\ frame'[e] = frame[e]
  BY <1>1, TopReplaced
<1>3. void' = void \/ void' = void \cup f.under
  BY DEF BodyStep, Break
<1>4. \/ g.under = f.under
      \/ g.under = f.under \cup result.under /\ ResultRead
  BY <1>1, <1>2 DEF BodyStep, Continues, Resumes, Succeeds, BreaksOff, ResultRead
<1>5. Clean(f, void, serial)
  BY <1>2 DEF Scoped
<1>6. void' \subseteq 1..serial'
  BY <1>1, <1>3, <1>5 DEF Scoped, Clean
<1>7. ASSUME NEW e \in Running, e # d
      PROVE  /\ frame'[e] = frame[e] /\ Clean(frame'[e], void', serial')
             /\ frame[e].under \cap g.under = {}
  <2>1. frame'[e] = frame[e] /\ frame[e].pc = "awaiting"
    BY <1>1, <1>2, <1>7 DEF Stack
  <2>2. Clean(frame[e], void, serial) /\ frame[e].under \cap f.under = {}
    BY <1>2, <1>7 DEF Scoped
  <2>3. frame[e].under \cap g.under = {}
    <3>1. ResultRead => result.under \cap frame[e].under = {}
      BY DEF Scoped
    <3> QED
      BY <1>4, <2>2, <3>1
  <2>4. Clean(frame[e], void', serial')
    <3>1. /\ frame[e].serial \notin void /\ frame[e].events \cap void = {}
          /\ frame[e].sent = {}
          /\ frame[e].serial \in frame[e].under /\ frame[e].events \subseteq frame[e].under
      BY <2>1, <2>2 DEF Clean, Unbroken, BodyStates
    <3>2. frame[e].serial \notin void' /\ frame[e].events \cap void' = {}
      BY <1>3, <2>2, <3>1
    <3> QED
      BY <1>1, <2>1, <2>2, <3>1, <3>2 DEF Clean
  <2> QED
    BY <2>1, <2>3, <2>4
<1>8. \A e \in Running' : Clean(frame'[e], void', serial')
  BY <1>2, <1>7, CleanBody
<1>9. ASSUME NEW a \in Running', NEW b \in Running', a # b
      PROVE  frame'[a].under \cap frame'[b].under = {}
  <2>1. CASE a = d
    BY <1>2, <1>7, <1>9, <2>1
  <2>2. CASE b = d
    BY <1>2, <1>7, <1>9, <2>2
  <2>3. CASE a # d /\ b # d
    BY <1>2, <1>7, <1>9, <2>3 DEF Scoped
  <2> QED
    BY <2>1, <2>2, <2>3
<1>10. ~ResultRead'
  BY <1>1, <1>2 DEF ResultRead, Depth
<1> QED
  BY <1>6, <1>8, <1>9, <1>10 DEF Scoped

LEMMA ScopedStep ==
  Activations /\ Stack /\ Scoped /\ [Next]_vars => Scoped'
<1> SUFFICES ASSUME Activations, Stack, Scoped, [Next]_vars
             PROVE  Scoped'
  OBVIOUS
<1>1. ASSUME NEW f, BeginsPooled(f)
      PROVE  Scoped'
  <2>1. Running' = {0} /\ frame'[0] = f /\ depth' = 0
    BY <1>1, FirstBegun DEF BeginsPooled
  <2>2. /\ f.pc = "entered" /\ f.serial = serial + 1 /\ f.under = {serial + 1}
        /\ f.events = {} /\ f.sent = {} /\ void' = void
        /\ serial' = serial + 1 /\ serial \in Nat
    BY <1>1 DEF BeginsPooled, Begins, Activations, InvocationTypeOK
  <2>3. serial + 1 \notin void /\ void' \subseteq 1..serial'
    BY <2>2 DEF Scoped
  <2>4. Clean(frame'[0], void', serial')
    BY <2>1, <2>2, <2>3 DEF Clean
  <2>5. ~ResultRead'
    BY <2>1, <2>2 DEF ResultRead
  <2> QED
    BY <2>1, <2>3, <2>4, <2>5 DEF Scoped
<1>2. ASSUME NEW d \in Depth, NEW g, Undoes(d, g)
      PROVE  Scoped'
  <2>1. /\ d = depth /\ depth' = depth /\ frame' = [frame EXCEPT ![d] = g]
        /\ frame[d].pc \in {"removeContext", "release"} /\ g.pc \in {"release", "recover"}
        /\ g.serial = frame[d].serial /\ g.under = frame[d].under
        /\ g.events = frame[d].events /\ g.sent = frame[d].sent
        /\ serial' = serial /\ void' = void
    BY <1>2 DEF Undoes, Set, SameActivation
  <2>2. /\ d \in Running /\ Running' = Running /\ frame'[d] = g
        /\ \A e \in Running : e # d => frame'[e] = frame[e]
    BY <2>1, TopReplaced
  <2>3. Clean(g, void', serial')
    BY <2>1, <2>2 DEF Scoped, Clean, Unbroken, BodyStates
  <2>4. \A e \in Running : e # d => Clean(frame'[e], void', serial')
    BY <2>1, <2>2 DEF Scoped, Clean
  <2>5. \A e \in Running : frame'[e].under = frame[e].under
    BY <2>1, <2>2
  <2>6. ~ResultRead'
    BY <2>1, <2>2 DEF ResultRead, Depth
  <2>7. \A e \in Running' : Clean(frame'[e], void', serial')
    BY <2>2, <2>3, <2>4
  <2> QED
    BY <2>1, <2>2, <2>5, <2>6, <2>7 DEF Scoped
<1>3. ASSUME NEW d \in Depth, Returns(d)
      PROVE  Scoped'
  <2>1. d \in Running /\ Running' = Running \ {d} /\ \A e \in Running' : frame'[e] = frame[e]
    BY <1>3, TopGone
  <2>2. /\ result'.events = frame[d].sent /\ result'.under = frame[d].under
        /\ serial' = serial /\ void' = void
    BY <1>3 DEF Returns
  <2>3. Clean(frame[d], void, serial)
    BY <2>1 DEF Scoped
  <2>4. \A e \in Running' : Clean(frame'[e], void', serial')
    BY <2>1, <2>2 DEF Scoped, Clean
  <2>5. \A a, b \in Running' : a # b => frame'[a].under \cap frame'[b].under = {}
    BY <2>1 DEF Scoped
  <2>6. \A e \in Running' : result'.under \cap frame'[e].under = {}
    BY <2>1, <2>2 DEF Scoped
  <2>7. /\ result'.events \cap void' = {} /\ result'.events \subseteq result'.under
        /\ result'.under \subseteq 1..serial' /\ void' \subseteq 1..serial'
    BY <2>2, <2>3 DEF Scoped, Clean
  <2> QED
    BY <2>4, <2>5, <2>6, <2>7 DEF Scoped
<1>4. ASSUME UNCHANGED vars \/ ReplaceDiscarded
      PROVE  Scoped'
  BY <1>4 DEF vars, ReplaceDiscarded, Scoped, Running, Clean, ResultRead
<1> QED
  BY <1>1, <1>2, <1>3, <1>4, ScopedBegins, ScopedBody, NextSteps

Outcome == Activations /\ Stack /\ Scoped

LEMMA OutcomeInvariant == Spec => []Outcome
<1>1. Init => Outcome
  <2>1. depth = -1 => Running = {}
    BY DEF Running
  <2>3. Init => Scoped
    BY <2>1 DEF Init, Scoped, NoResult
  <2> QED
    BY <2>3, InitActivations, InitStack DEF Outcome
<1>2. Outcome /\ [Next]_vars => Outcome'
  BY ActivationsStep, StackStep, ScopedStep DEF Outcome
<1> QED
  BY <1>1, <1>2, PTL DEF Spec

(* No transaction reports an event of an activation that broke off, or of   *)
(* one called by such an activation.                                        *)
THEOREM NoVoidEventEver == Spec => []NoVoidEvent
<1>1. Outcome => NoVoidEvent
  BY DEF Outcome, Scoped, ResultRead, NoVoidEvent
<1> QED
  BY <1>1, OutcomeInvariant, PTL

=============================================================================
