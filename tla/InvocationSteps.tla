-------------------------- MODULE InvocationSteps ---------------------------
(***************************************************************************)
(* What the steps of Invocation do to the activation they work on.  The    *)
(* actions are put into five classes, a lemma for each action; NextSteps   *)
(* says that there are no others.  InvocationProofs uses the classes only. *)
(***************************************************************************)
EXTENDS Invocation, TLAPS

-----------------------------------------------------------------------------
(* What holds of each activation by itself *)

(* A value in the cache is the announced one; a failure is in the code      *)
(* unless it is about to be put there; the mark tells of the iterator.      *)
Consistent(f) ==
  /\ f.cache \in {Nil, f.announced}
  /\ f.faults = 1 => f.code = 1 \/ f.panic = 1 \/ f.pc = "failed"
  /\ f.panic = 1 => f.pc \in DeferStates
  /\ f.iterated = 1 => f.mark = "iterator"

ConsistentResult(r) ==
  /\ r.faults = 1 => r.code = 1
  /\ r.iterated = 1 => r.mark = "iterator"

(* An activation has a serial number, and an instance unless that could not *)
(* be made.                                                                 *)
Placed(f) ==
  /\ f.serial = NoSerial => f.pc = "none"
  /\ f.inst = NoInstance => f.pc \in {"none", "release", "recover"}

Activations ==
  /\ InvocationTypeOK
  /\ \A d \in Depth : Consistent(frame[d]) /\ Placed(frame[d])
  /\ ConsistentResult(result)

(* What every step leaves alone that works on an activation. *)
SameActivation(f, g) == g.serial = f.serial /\ g.inst = f.inst

(* g is what a system call can make of the activation f. *)
Handled(f, g) ==
  /\ g \in Frame /\ Consistent(g) /\ Placed(g)
  /\ SameActivation(f, g)
  /\ g.pc = f.pc /\ g.view = f.view /\ g.under = f.under /\ g.sent = f.sent
  /\ g.panic = f.panic
  /\ g.events \subseteq f.events \cup {f.serial}

LEMMA RecordHandled ==
  ASSUME NEW f, NEW g, Handled(f, g)
  PROVE  Handled(f, recordMsg(g))
  BY DEF Handled, recordMsg, Frame, Consistent, Placed, SameActivation

LEMMA OutcomesHandled ==
  ASSUME NEW f, NEW g, Handled(f, g), NEW h \in Outcomes(g)
  PROVE  Handled(f, h)
  BY RecordHandled DEF Outcomes

LEMMA CountedHandled ==
  ASSUME Activations, NEW d \in Depth,
         frame[d].calls < MaxCalls, frame[d].pc = "running"
  PROVE  Handled(frame[d], Counted(d)) /\ Counted(d).calls \in 1..MaxCalls
<1> DEFINE f == frame[d]
<1>1. f \in Frame /\ Consistent(f) /\ Placed(f)
  BY DEF Activations, InvocationTypeOK
<1>2. f.calls \in 0..MaxCalls
  BY <1>1 DEF Frame
<1>3. f.calls + 1 \in 1..MaxCalls
  BY <1>2, BoundAssumption DEF BoundAssumption
<1>4. Counted(d) = [f EXCEPT !.calls = f.calls + 1]
  BY DEF Counted
<1> HIDE DEF f
<1>5. [f EXCEPT !.calls = f.calls + 1] \in Frame
  BY <1>1, <1>3 DEF Frame
<1>6. Counted(d).calls = f.calls + 1
  BY <1>1, <1>4 DEF Frame
<1>7. Consistent(Counted(d)) /\ Placed(Counted(d))
  BY <1>1, <1>4 DEF Frame, Consistent, Placed
<1>8. Handled(f, Counted(d))
  BY <1>1, <1>4, <1>5, <1>7 DEF Handled, Frame, SameActivation
<1> QED
  BY <1>3, <1>6, <1>8 DEF f

LEMMA ResetHandled ==
  ASSUME NEW f, NEW g, Handled(f, g)
  PROVE  Handled(f, ResetCache(g, Nil))
<1>1. g \in Frame /\ Consistent(g) /\ Placed(g)
  BY DEF Handled
<1>2. Nil \in 0..MaxCalls
  BY BoundAssumption DEF Nil, BoundAssumption
<1> DEFINE h == ResetCache(g, Nil)
<1>3. h \in Frame
  BY <1>1, <1>2 DEF ResetCache, Frame
<1>4. Consistent(h) /\ Placed(h)
  BY <1>1, SMTT(30) DEF ResetCache, Frame, Consistent, Placed
<1>5. /\ SameActivation(g, h) /\ h.events = g.events /\ h.panic = g.panic
      /\ h.pc = g.pc /\ h.view = g.view /\ h.under = g.under /\ h.sent = g.sent
  BY <1>1 DEF ResetCache, Frame, SameActivation
<1> HIDE DEF h
<1>6. Handled(f, h)
  BY <1>3, <1>4, <1>5 DEF Handled, SameActivation
<1> QED
  BY <1>6 DEF h

LEMMA AnnouncedHandled ==
  ASSUME NEW f, NEW g, Handled(f, g), NEW n \in 1..MaxCalls, NEW data \in {Nil, n}
  PROVE  Handled(f, ResetCache([g EXCEPT !.announced = n], data))
<1> DEFINE h == ResetCache([g EXCEPT !.announced = n], data)
<1>1. g \in Frame /\ Consistent(g) /\ Placed(g)
  BY DEF Handled
<1>2. n \in 0..MaxCalls /\ data \in 0..MaxCalls
  BY BoundAssumption DEF Nil, BoundAssumption
<1>3. h \in Frame
  BY <1>1, <1>2 DEF ResetCache, Frame
<1>4. Consistent(h) /\ Placed(h)
  BY <1>1, SMTT(30) DEF ResetCache, Frame, Consistent, Placed
<1>5. /\ SameActivation(g, h) /\ h.events = g.events /\ h.panic = g.panic
      /\ h.pc = g.pc /\ h.view = g.view /\ h.under = g.under /\ h.sent = g.sent
  BY <1>1 DEF ResetCache, Frame, SameActivation
<1> HIDE DEF h
<1>6. Handled(f, h)
  BY <1>3, <1>4, <1>5 DEF Handled, SameActivation
<1> QED
  BY <1>6 DEF h

(* Every system call but the cross-contract ones keeps to its activation. *)
LEMMA InvokeHandled ==
  ASSUME Activations, NEW d \in Depth, CanCall(d), invoke(d)
  PROVE  \E g : Set(d, g) /\ Handled(frame[d], g)
<1> DEFINE f == frame[d]
           c == Counted(d)
<1>1. /\ Handled(f, c)
      /\ c.calls \in 1..MaxCalls
      /\ f.calls + 1 = c.calls
  <2>1. f.pc = "running" /\ f.calls < MaxCalls
    BY DEF CanCall, At
  <2>2. f \in Frame
    BY DEF Activations, InvocationTypeOK
  <2> QED
    BY <2>1, <2>2, CountedHandled DEF Counted, Frame
<1>2. Handled(f, recordMsg(c))
  BY <1>1, RecordHandled
<1>3. CASE LengthCall(d)
  <2> DEFINE g == [c EXCEPT !.announced = f.calls + 1]
  <2>1. g.calls = f.calls + 1
    BY <1>1 DEF Handled, Frame
  <2>2. Set(d, ResetCache(g, g.calls)) \/ Set(d, recordMsg(ResetCache(g, Nil)))
    BY <1>3 DEF LengthCall
  <2>3. Handled(f, ResetCache(g, g.calls)) /\ Handled(f, ResetCache(g, Nil))
    BY <1>1, <2>1, AnnouncedHandled
  <2> HIDE DEF g
  <2> QED
    BY <2>2, <2>3, RecordHandled
<1>4. CASE ValueCall(d)
  <2>1. Handled(f, ResetCache(c, Nil))
    BY <1>1, ResetHandled
  <2> HIDE DEF f, c
  <2> QED
    BY <1>4, <2>1, OutcomesHandled DEF ValueCall, f, c
<1>5. CASE PlainCall(d)
  BY <1>1, <1>5, OutcomesHandled DEF PlainCall
<1>6. CASE KvIterator(d)
  <2> DEFINE g == [c EXCEPT !.mark = "iterator", !.iterated = 1]
  <2>1. Handled(f, g)
    BY <1>1 DEF Handled, Frame, Consistent, Placed, SameActivation, Marks
  <2>2. PICK h \in Outcomes(g) : Set(d, h)
    BY <1>6 DEF KvIterator
  <2> HIDE DEF g
  <2> QED
    BY <2>1, <2>2, OutcomesHandled
<1>7. CASE EmitEvent(d)
  <2> DEFINE g == [c EXCEPT !.events = @ \cup {c.serial}]
  <2>1. Handled(f, g)
    <3>1. c \in Frame /\ c.serial = f.serial /\ c.events \subseteq f.events \cup {f.serial}
      BY <1>1 DEF Handled, SameActivation
    <3>2. c.serial \in Serial
      <4>1. f.pc = "running"
        BY DEF CanCall, At
      <4> QED
        BY <1>1, <3>1, <4>1 DEF Handled, Frame, Placed
    <3> QED
      BY <1>1, <3>1, <3>2 DEF Handled, Frame, Consistent, Placed, SameActivation
  <2>2. Set(d, g) \/ Set(d, recordMsg(c))
    BY <1>7 DEF EmitEvent
  <2> QED
    BY <1>2, <2>1, <2>2
<1>8. CASE SuccessResult(d)
  <2>1. PICK v \in {0, f.code} : Set(d, [c EXCEPT !.code = v, !.faults = 0])
    BY <1>8 DEF SuccessResult
  <2>2. f \in Frame
    BY DEF Activations, InvocationTypeOK
  <2>3. v \in {0, 1}
    BY <2>2 DEF Frame
  <2>4. Handled(f, [c EXCEPT !.code = v, !.faults = 0])
    BY <1>1, <2>3 DEF Handled, Frame, Consistent, Placed, SameActivation
  <2> QED
    BY <2>1, <2>4
<1>9. CASE ErrorResult(d)
  <2>1. PICK v \in {f.code, 1} : Set(d, [c EXCEPT !.code = v])
    BY <1>9 DEF ErrorResult
  <2>2. f \in Frame /\ f.code = c.code
    BY DEF Activations, InvocationTypeOK, Counted, Frame
  <2>3. v \in {0, 1}
    BY <2>2 DEF Frame
  <2>4. Handled(f, [c EXCEPT !.code = v])
    BY <1>1, <2>1, <2>2, <2>3 DEF Handled, Frame, Consistent, Placed, SameActivation
  <2> QED
    BY <2>1, <2>4
<1>10. CASE IgnoredCall(d)
  BY <1>1, <1>10 DEF IgnoredCall
<1> QED
  BY <1>3, <1>4, <1>5, <1>6, <1>7, <1>8, <1>9, <1>10
  DEF invoke, KvCall, SqlCall, CryptoCall

-----------------------------------------------------------------------------
(* What the steps of a call have in common *)

Viewing == {"filling", "calling", "awaiting"}

(* The activation d becomes g; the memory of other instances stays put. *)
Replaces(d, g) ==
  /\ d = depth /\ frame[d].pc \in BodyStates
  /\ Set(d, g)
  /\ g \in Frame /\ Consistent(g) /\ Placed(g) /\ SameActivation(frame[d], g)
  /\ g.pc \in (BodyStates \ {"awaiting"}) \cup {"removeContext"}
  /\ g.pc \in Viewing => g.view = moves'[g.inst]
  /\ moves' \in [0..MaxInvokes -> 0..MaxGrows]
  /\ \A i \in 0..MaxInvokes : i # g.inst => moves'[i] = moves[i]
  /\ UNCHANGED <<depth, serial, free, discarding, live, registry, result, unclosed>>

(* The call goes on. *)
Continues(f, g) ==
  /\ f.pc \notin {"failed", "awaiting"} /\ g.pc \notin {"failed", "removeContext"}
  /\ g.panic = f.panic /\ g.under = f.under /\ g.sent = f.sent
  /\ g.events \subseteq f.events \cup {f.serial}

(* It goes on after a nested call. *)
Resumes(f, g) ==
  /\ f.pc = "awaiting" /\ g.pc = "running"
  /\ g.panic = f.panic /\ g.sent = f.sent
  /\ g.under = f.under \cup result.under
  /\ g.events \subseteq f.events \cup result.events

(* It has succeeded: its events are handed over. *)
Succeeds(f, g) ==
  /\ f.pc = "succeeded" /\ g.pc = "removeContext"
  /\ g.panic = f.panic /\ g.under = f.under
  /\ g.sent = f.events /\ g.events = {}

(* It breaks off: it failed, the failure is concluded, or it panicked. *)
BreaksOff(d, f, g) ==
  /\ g.under = f.under /\ g.sent = f.sent
  /\ \/ /\ f.pc # "failed" /\ g.pc = "failed"
        /\ g.panic = f.panic /\ g.events = f.events
     \/ /\ g.pc = "removeContext"
        /\ g.panic = f.panic /\ g.events = {}
     \/ /\ f.pc # "failed" /\ g.pc = "removeContext"
        /\ g.panic = 1 /\ g.events = {}

BodyStep(d, g) ==
  /\ Replaces(d, g)
  /\ \/ /\ void' = void
        /\ Continues(frame[d], g) \/ Resumes(frame[d], g) \/ Succeeds(frame[d], g)
     \/ Break(d) /\ BreaksOff(d, frame[d], g)

LEMMA LeaveFrame ==
  ASSUME NEW f \in Frame, Consistent(f), f.pc \in BodyStates
  PROVE  /\ Leave(f) \in Frame
         /\ Leave(f).pc = "removeContext" /\ Leave(f).events = {}
         /\ Leave(f).serial = f.serial /\ Leave(f).inst = f.inst
         /\ Leave(f).under = f.under /\ Leave(f).sent = f.sent
         /\ Leave(f).panic = f.panic /\ Leave(f).faults = f.faults
         /\ Leave(f).code = f.code /\ Leave(f).mark = f.mark
         /\ Leave(f).iterated = f.iterated
         /\ Leave(f).cache = Nil /\ Leave(f).announced = Nil
<1>1. 0 \in 0..MaxCalls /\ 0 \in 0..MaxGrows
  BY BoundAssumption DEF BoundAssumption
<1>2. Leave(f) \in Frame
  BY <1>1 DEF Leave, Frame, Nil, DeferStates
<1> QED
  BY <1>2 DEF Leave, Frame

LEMMA PanicStep ==
  ASSUME Activations, NEW d \in Depth, d = depth, frame[d].pc \in BodyStates \ {"failed"},
         Panic(d), UNCHANGED <<bodyVars, moves>>
  PROVE  \E g : BodyStep(d, g)
<1> DEFINE f == frame[d]
           g == [Leave(f) EXCEPT !.panic = 1, !.faults = 1]
<1>1. f \in Frame /\ Consistent(f) /\ Placed(f) /\ f.pc \in BodyStates \ {"failed"}
  BY DEF Activations, InvocationTypeOK
<1>2. Set(d, g) /\ Break(d)
  BY DEF Panic
<1> HIDE DEF f
<1>3. g \in Frame /\ g.pc = "removeContext"
  <2>1. Leave(f) \in Frame /\ Leave(f).pc = "removeContext"
    BY <1>1, LeaveFrame
  <2> QED
    BY <2>1 DEF Frame
<1>4. Consistent(g) /\ Placed(g) /\ SameActivation(f, g)
  BY <1>1, LeaveFrame DEF Frame, Consistent, Placed, SameActivation, DeferStates, BodyStates
<1>5. g.panic = 1 /\ g.events = {} /\ g.under = f.under /\ g.sent = f.sent
  BY <1>1, LeaveFrame DEF Frame
<1> HIDE DEF g
<1>6. Replaces(d, g)
  <2>1. /\ UNCHANGED <<depth, serial, free, discarding, live, registry, result, unclosed>>
        /\ moves' = moves
    BY DEF bodyVars, poolVars
  <2> QED
    BY <1>1, <1>2, <1>3, <1>4, <2>1
    DEF Replaces, Viewing, Activations, InvocationTypeOK, f
<1>7. BreaksOff(d, f, g)
  BY <1>1, <1>3, <1>5 DEF BreaksOff, bodyVars, poolVars
<1> QED
  BY <1>2, <1>6, <1>7 DEF BodyStep, f

LEMMA FailsStep ==
  ASSUME Activations, NEW d \in Depth, d = depth, frame[d].pc \in BodyStates \ {"failed"},
         Fails(d), UNCHANGED <<bodyVars, moves>>
  PROVE  \E g : BodyStep(d, g)
<1> DEFINE f == frame[d]
           g == [f EXCEPT !.pc = "failed", !.faults = 1]
<1>1. f \in Frame /\ Consistent(f) /\ Placed(f) /\ f.pc \in BodyStates \ {"failed"}
  BY DEF Activations, InvocationTypeOK
<1>2. Set(d, g) /\ Break(d)
  BY DEF Fails
<1> HIDE DEF f
<1>3. g \in Frame /\ g.pc = "failed"
  BY <1>1 DEF Frame, BodyStates
<1>4. Consistent(g) /\ Placed(g) /\ SameActivation(f, g)
  BY <1>1 DEF Frame, Consistent, Placed, SameActivation, DeferStates, BodyStates
<1>5. g.panic = f.panic /\ g.events = f.events /\ g.under = f.under /\ g.sent = f.sent
  BY <1>1 DEF Frame
<1> HIDE DEF g
<1>6. Replaces(d, g)
  <2>1. /\ UNCHANGED <<depth, serial, free, discarding, live, registry, result, unclosed>>
        /\ moves' = moves
    BY DEF bodyVars, poolVars
  <2> QED
    BY <1>1, <1>2, <1>3, <1>4, <2>1
    DEF Replaces, Viewing, BodyStates, Activations, InvocationTypeOK, f
<1>7. BreaksOff(d, f, g)
  BY <1>1, <1>3, <1>5 DEF BreaksOff, bodyVars, poolVars
<1> QED
  BY <1>2, <1>6, <1>7 DEF BodyStep, f

LEMMA GoesStep ==
  ASSUME Activations, NEW d \in Depth, d = depth,
         frame[d].pc \in BodyStates \ {"failed", "awaiting"},
         NEW p \in BodyStates \ Viewing, p # "failed", Goes(d, p),
         UNCHANGED <<bodyVars, moves>>
  PROVE  \E g : BodyStep(d, g)
<1> DEFINE f == frame[d]
           g == [f EXCEPT !.pc = p]
<1>1. /\ f \in Frame /\ Consistent(f) /\ Placed(f)
      /\ f.pc \in BodyStates \ {"failed", "awaiting"}
  BY DEF Activations, InvocationTypeOK
<1>2. Set(d, g) /\ void' = void
  BY DEF Goes
<1> HIDE DEF f
<1>3. g \in Frame /\ g.pc = p
  BY <1>1 DEF Frame, BodyStates
<1>4. Consistent(g) /\ Placed(g) /\ SameActivation(f, g)
  BY <1>1 DEF Frame, Consistent, Placed, SameActivation, DeferStates, BodyStates
<1>5. g.panic = f.panic /\ g.events = f.events /\ g.under = f.under /\ g.sent = f.sent
  BY <1>1 DEF Frame
<1> HIDE DEF g
<1>6. Replaces(d, g)
  <2>1. /\ UNCHANGED <<depth, serial, free, discarding, live, registry, result, unclosed>>
        /\ moves' = moves
    BY DEF bodyVars, poolVars
  <2> QED
    BY <1>1, <1>2, <1>3, <1>4, <2>1
    DEF Replaces, Viewing, BodyStates, Activations, InvocationTypeOK, f
<1>7. Continues(f, g)
  BY <1>1, <1>3, <1>5 DEF Continues, BodyStates
<1> QED
  BY <1>2, <1>6, <1>7 DEF BodyStep, f, bodyVars, poolVars

(* A system call of the running activation. *)
LEMMA HandledStep ==
  ASSUME Activations, NEW d \in Depth, d = depth, frame[d].pc = "running",
         NEW g, Handled(frame[d], g), Set(d, g), UNCHANGED callVars
  PROVE  BodyStep(d, g)
<1> DEFINE f == frame[d]
<1>1. /\ UNCHANGED <<depth, serial, free, discarding, live, registry, result, unclosed>>
      /\ moves' = moves /\ void' = void
  BY DEF callVars, bodyVars, poolVars
<1>2. /\ g \in Frame /\ Consistent(g) /\ Placed(g) /\ SameActivation(f, g)
      /\ g.pc = f.pc /\ f.pc = "running"
  BY DEF Handled
<1>3. Replaces(d, g)
  BY <1>1, <1>2 DEF Replaces, Viewing, BodyStates, Activations, InvocationTypeOK
<1>4. Continues(f, g)
  BY <1>2 DEF Handled, Continues
<1> QED
  BY <1>1, <1>3, <1>4 DEF BodyStep

LEMMA MoveTyped ==
  ASSUME Activations, NEW i \in 0..MaxInvokes, NEW moved \in {0, 1}, MayMove(i, moved)
  PROVE  /\ moves' \in [0..MaxInvokes -> 0..MaxGrows]
         /\ \A j \in 0..MaxInvokes : j # i => moves'[j] = moves[j]
<1>1. moves \in [0..MaxInvokes -> 0..MaxGrows]
  BY DEF Activations, InvocationTypeOK
<1>2. moves[i] + moved \in 0..MaxGrows
  BY <1>1, BoundAssumption DEF MayMove, BoundAssumption
<1> QED
  BY <1>1, <1>2 DEF MayMove

LEMMA InstanceOfBody ==
  ASSUME Activations, NEW d \in Depth, frame[d].pc \in BodyStates
  PROVE  frame[d].inst \in 0..MaxInvokes
<1>1. frame[d] \in Frame /\ Placed(frame[d])
  BY DEF Activations, InvocationTypeOK
<1>2. frame[d].inst # NoInstance
  BY <1>1 DEF Placed, BodyStates
<1> QED
  BY <1>1, <1>2, BoundAssumption DEF Frame, Pooled, Serial, BoundAssumption

LEMMA AllocateStep ==
  ASSUME Activations, NEW d \in Depth, Allocate(d)
  PROVE  \E g : BodyStep(d, g)
<1> DEFINE f == frame[d]
<1>1. d = depth /\ f.pc = "allocating" /\ UNCHANGED bodyVars
  BY DEF Allocate, At
<1>2. ASSUME NEW moved \in {0, 1}, AllocateView(d, moved), UNCHANGED void
      PROVE  \E g : BodyStep(d, g)
  <2> DEFINE g == [f EXCEPT !.pc = "filling", !.view = moves'[f.inst]]
  <2>1. Set(d, g) /\ MayMove(f.inst, moved)
    BY <1>2 DEF AllocateView
  <2>2. f \in Frame /\ Consistent(f) /\ Placed(f)
    BY DEF Activations, InvocationTypeOK
  <2>3. f.inst \in 0..MaxInvokes
    BY <1>1, InstanceOfBody DEF BodyStates
  <2>4. /\ moves' \in [0..MaxInvokes -> 0..MaxGrows]
        /\ \A j \in 0..MaxInvokes : j # f.inst => moves'[j] = moves[j]
    BY <2>1, <2>3, MoveTyped
  <2> HIDE DEF f
  <2>5. g \in Frame /\ g.pc = "filling" /\ g.view = moves'[f.inst]
    BY <2>2, <2>3, <2>4 DEF Frame, BodyStates
  <2>6. Consistent(g) /\ Placed(g) /\ SameActivation(f, g)
    BY <1>1, <2>2 DEF Frame, Consistent, Placed, SameActivation, DeferStates
  <2>7. g.panic = f.panic /\ g.events = f.events /\ g.under = f.under /\ g.sent = f.sent
    BY <2>2 DEF Frame
  <2> HIDE DEF g
  <2>8. Replaces(d, g)
    BY <1>1, <2>1, <2>4, <2>5, <2>6
    DEF Replaces, BodyStates, SameActivation, bodyVars, poolVars, f
  <2>9. Continues(f, g)
    BY <1>1, <2>5, <2>7 DEF Continues
  <2> QED
    BY <1>1, <1>2, <2>8, <2>9 DEF BodyStep, bodyVars, poolVars, f
<1>3. CASE Fails(d) /\ UNCHANGED moves
  BY <1>1, <1>3, FailsStep DEF BodyStates
<1>4. CASE Panic(d) /\ UNCHANGED moves
  BY <1>1, <1>4, PanicStep DEF BodyStates
<1> QED
  BY <1>2, <1>3, <1>4 DEF Allocate

(* CallMethod, CopyParameters, RunMethod, procExit *)
LEMMA PlainSteps ==
  ASSUME Activations, NEW d \in Depth,
         CallMethod(d) \/ CopyParameters(d) \/ RunMethod(d) \/ procExit(d)
  PROVE  \E g : BodyStep(d, g)
<1> DEFINE f == frame[d]
<1>1. CASE CallMethod(d)
  BY <1>1, PanicStep, FailsStep, GoesStep DEF CallMethod, At, BodyStates, Viewing
<1>2. CASE CopyParameters(d)
  BY <1>2, PanicStep, FailsStep, GoesStep DEF CopyParameters, At, BodyStates, Viewing
<1>3. CASE procExit(d)
  BY <1>3, PanicStep DEF procExit, At, BodyStates
<1>4. CASE RunMethod(d)
  <2>1. d = depth /\ f.pc = "running" /\ UNCHANGED bodyVars
    BY <1>4 DEF RunMethod, At
  <2>2. CASE MayMove(f.inst, 1) /\ UNCHANGED <<frame, void>>
    <3>1. f \in Frame /\ Consistent(f) /\ Placed(f) /\ frame \in [Depth -> Frame]
      BY DEF Activations, InvocationTypeOK
    <3>2. f.inst \in 0..MaxInvokes
      BY <2>1, InstanceOfBody DEF BodyStates
    <3>3. /\ moves' \in [0..MaxInvokes -> 0..MaxGrows]
          /\ \A j \in 0..MaxInvokes : j # f.inst => moves'[j] = moves[j]
      BY <2>2, <3>2, MoveTyped
    <3>4. Set(d, f)
      BY <2>2, <3>1 DEF Set
    <3>5. Replaces(d, f)
      BY <2>1, <3>1, <3>3, <3>4
      DEF Replaces, Viewing, BodyStates, SameActivation, bodyVars, poolVars
    <3>6. Continues(f, f)
      BY <2>1 DEF Continues
    <3> QED
      BY <2>1, <2>2, <3>5, <3>6 DEF BodyStep, bodyVars, poolVars
  <2>3. CASE Goes(d, "succeeded") /\ UNCHANGED moves
    BY <2>1, <2>3, GoesStep DEF BodyStates, Viewing
  <2>4. CASE Fails(d) /\ UNCHANGED moves
    BY <2>1, <2>4, FailsStep DEF BodyStates
  <2> QED
    BY <1>4, <2>2, <2>3, <2>4 DEF RunMethod
<1> QED
  BY <1>1, <1>2, <1>3, <1>4

LEMMA SysCallStep ==
  ASSUME Activations, NEW d \in Depth, sysCall(d)
  PROVE  \E g : BodyStep(d, g)
<1>1. /\ d = depth /\ frame[d].pc = "running" /\ CanCall(d)
      /\ UNCHANGED <<bodyVars, moves>>
  BY DEF sysCall, CanCall, At
<1>2. CASE invoke(d) /\ UNCHANGED void
  <2>1. PICK g : Set(d, g) /\ Handled(frame[d], g)
    BY <1>1, <1>2, InvokeHandled
  <2>2. UNCHANGED callVars
    BY <1>1, <1>2 DEF callVars
  <2> QED
    BY <1>1, <2>1, <2>2, HandledStep
<1>3. CASE Panic(d)
  BY <1>1, <1>3, PanicStep DEF BodyStates
<1> QED
  BY <1>2, <1>3 DEF sysCall

(* g is f with the result of a nested call. *)
Absorbed(f, E, g) ==
  /\ g \in Frame /\ Consistent(g) /\ Placed(g) /\ SameActivation(f, g)
  /\ g.pc = f.pc /\ g.view = f.view /\ g.under = f.under /\ g.sent = f.sent
  /\ g.panic = f.panic /\ g.events = f.events \cup E

LEMMA AbsorbKeeps ==
  ASSUME NEW f \in Frame, Consistent(f), Placed(f), NEW data \in {Nil, f.calls},
         NEW E \in SUBSET Serial, NEW m \in Marks,
         NEW g, g = MarkAs(Absorb(f, data, E), m)
  PROVE  Absorbed(f, E, g)
<1>1. data \in 0..MaxCalls
  BY BoundAssumption DEF Frame, Nil, BoundAssumption
<1>2. g \in Frame
  BY <1>1 DEF MarkAs, Absorb, ResetCache, Frame
<1>3. Consistent(g) /\ Placed(g) /\ SameActivation(f, g)
  BY SMTT(30) DEF MarkAs, Absorb, ResetCache, Frame, Consistent, Placed, SameActivation
<1>4. /\ g.pc = f.pc /\ g.view = f.view /\ g.under = f.under /\ g.sent = f.sent
      /\ g.panic = f.panic /\ g.events = f.events \cup E
  BY DEF MarkAs, Absorb, ResetCache, Frame
<1> QED
  BY <1>2, <1>3, <1>4 DEF Absorbed

LEMMA RecordKeeps ==
  ASSUME NEW g \in Frame, Consistent(g), Placed(g)
  PROVE  LET h == recordMsg(g)
         IN /\ h \in Frame /\ Consistent(h) /\ Placed(h) /\ SameActivation(g, h)
            /\ h.pc = g.pc /\ h.view = g.view /\ h.under = g.under /\ h.sent = g.sent
            /\ h.panic = g.panic /\ h.events = g.events
  BY DEF recordMsg, Frame, Consistent, Placed, SameActivation

LEMMA CallContractLenStep ==
  ASSUME Activations, NEW d \in Depth, CallContractLen(d)
  PROVE  \E g : BodyStep(d, g)
<1> DEFINE f == frame[d]
           c == Counted(d)
           g == [c EXCEPT !.pc = "calling", !.view = moves[c.inst]]
<1>1. d = depth /\ f.pc = "running" /\ f.calls < MaxCalls /\ UNCHANGED callVars
  BY DEF CallContractLen, CanCall, At
<1>2. Handled(f, c)
  BY <1>1, CountedHandled
<1>3. Set(d, g)
  BY DEF CallContractLen
<1>4. c \in Frame /\ Consistent(c) /\ Placed(c) /\ SameActivation(f, c) /\ c.pc = "running"
  BY <1>1, <1>2 DEF Handled
<1>5. c.inst \in 0..MaxInvokes /\ moves \in [0..MaxInvokes -> 0..MaxGrows]
  BY <1>1, <1>4, InstanceOfBody DEF BodyStates, SameActivation, Activations, InvocationTypeOK
<1>6. c.under = f.under /\ c.sent = f.sent /\ c.panic = f.panic
      /\ c.events \subseteq f.events \cup {f.serial}
  BY <1>2 DEF Handled
<1>7. UNCHANGED <<depth, serial, free, discarding, live, registry, result, unclosed>>
      /\ moves' = moves /\ void' = void
  BY <1>1 DEF callVars, bodyVars, poolVars
<1> HIDE DEF c
<1>8. g \in Frame /\ g.pc = "calling" /\ g.view = moves[c.inst]
  BY <1>4, <1>5 DEF Frame, BodyStates
<1>9. Consistent(g) /\ Placed(g) /\ SameActivation(c, g)
  BY <1>4 DEF Frame, Consistent, Placed, SameActivation, DeferStates
<1>10. g.panic = c.panic /\ g.events = c.events /\ g.under = c.under /\ g.sent = c.sent
  BY <1>4 DEF Frame
<1> HIDE DEF g
<1>11. Replaces(d, g)
  BY <1>1, <1>3, <1>4, <1>5, <1>7, <1>8, <1>9 DEF Replaces, BodyStates, SameActivation
<1>12. Continues(f, g)
  BY <1>1, <1>6, <1>8, <1>10 DEF Continues
<1> QED
  BY <1>7, <1>11, <1>12 DEF BodyStep

LEMMA CallContractStep ==
  ASSUME Activations, NEW d \in Depth, CallContract(d)
  PROVE  \E g : BodyStep(d, g)
<1> DEFINE f == frame[d]
           c == Counted(d)
<1>1. d = depth /\ f.pc = "running" /\ f.calls < MaxCalls /\ UNCHANGED callVars
  BY DEF CallContract, CanCall, At
<1>2. Handled(f, c)
  BY <1>1, CountedHandled
<1>3. PICK m \in Marks :
        \E g \in Outcomes(MarkAs(Absorb(c, Nil, {}), m)) : Set(d, g)
  BY DEF CallContract
<1>4. Handled(f, MarkAs(Absorb(c, Nil, {}), m))
  <2> HIDE DEF f, c
  <2>1. c \in Frame /\ Consistent(c) /\ Placed(c)
    BY <1>2 DEF Handled
  <2> DEFINE b == MarkAs(Absorb(c, Nil, {}), m)
  <2>2. Absorbed(c, {}, b)
    <3>1. b = MarkAs(Absorb(c, Nil, {}), m)
      OBVIOUS
    <3>2. Nil \in {Nil, c.calls} /\ {} \in SUBSET Serial
      OBVIOUS
    <3> HIDE DEF b
    <3> QED
      BY <2>1, <3>1, <3>2, AbsorbKeeps, Zenon
  <2> HIDE DEF b
  <2>3. Handled(f, b)
    BY <1>2, <2>2 DEF Absorbed, Handled, SameActivation
  <2> QED
    BY <2>3 DEF b
<1> DEFINE b == MarkAs(Absorb(c, Nil, {}), m)
<1>5. PICK g \in Outcomes(b) : Set(d, g)
  BY <1>3
<1> HIDE DEF b
<1>6. Handled(f, g)
  BY <1>4, <1>5, OutcomesHandled DEF b
<1> QED
  BY <1>1, <1>5, <1>6, HandledStep

LEMMA CallRefusedStep ==
  ASSUME Activations, NEW d \in Depth, CallRefused(d)
  PROVE  \E g : BodyStep(d, g)
<1> DEFINE f == frame[d]
           a == [Absorb(f, Nil, {}) EXCEPT !.pc = "running"]
<1>1. d = depth /\ f.pc = "calling" /\ UNCHANGED callVars
  BY DEF CallRefused, At
<1>2. PICK m \in Marks : Set(d, recordMsg(MarkAs(a, m)))
  BY DEF CallRefused
<1>3. f \in Frame /\ Consistent(f) /\ Placed(f)
  BY DEF Activations, InvocationTypeOK
<1> DEFINE g == MarkAs(a, m)
           h == recordMsg(g)
<1> HIDE DEF f
<1>4. g \in Frame
  <2>1. Nil \in 0..MaxCalls /\ f.calls \in 0..MaxCalls
    BY <1>3, BoundAssumption DEF Nil, Frame, BoundAssumption
  <2>2. Absorb(f, Nil, {}) \in Frame
    BY <1>3, <2>1 DEF Absorb, ResetCache, Frame
  <2>3. a \in Frame
    BY <2>2 DEF Frame, BodyStates
  <2> HIDE DEF a
  <2> QED
    BY <2>3 DEF MarkAs, Frame
<1>5. Consistent(g) /\ Placed(g) /\ SameActivation(f, g)
  BY <1>1, <1>3, SMTT(30)
  DEF MarkAs, Absorb, ResetCache, Frame, Consistent, Placed, SameActivation, DeferStates
<1>6. /\ g.pc = "running" /\ g.under = f.under /\ g.sent = f.sent
      /\ g.panic = f.panic /\ g.events = f.events
  BY <1>3 DEF MarkAs, Absorb, ResetCache, Frame
<1> HIDE DEF g
<1>7. /\ h \in Frame /\ Consistent(h) /\ Placed(h) /\ SameActivation(g, h)
      /\ h.pc = "running" /\ h.under = f.under /\ h.sent = f.sent
      /\ h.panic = f.panic /\ h.events = f.events
  BY <1>4, <1>5, <1>6, RecordKeeps
<1>8. UNCHANGED <<depth, serial, free, discarding, live, registry, result, unclosed>>
      /\ moves' = moves /\ void' = void
  BY <1>1 DEF callVars, bodyVars, poolVars
<1>9. Set(d, h)
  BY <1>2 DEF g
<1> HIDE DEF h
<1>10. Replaces(d, h)
  BY <1>1, <1>5, <1>7, <1>8, <1>9
  DEF Replaces, Viewing, BodyStates, SameActivation, Activations, InvocationTypeOK, f
<1>11. Continues(f, h)
  BY <1>1, <1>7 DEF Continues
<1> QED
  BY <1>8, <1>10, <1>11 DEF BodyStep, f

LEMMA CallReturnedStep ==
  ASSUME Activations, NEW d \in Depth, CallReturned(d)
  PROVE  \E g : BodyStep(d, g)
<1> DEFINE f == frame[d]
           a == [f EXCEPT !.pc = "running", !.under = @ \cup result.under]
<1>1. d = depth /\ f.pc = "awaiting" /\ UNCHANGED callVars
  BY DEF CallReturned, At
<1>2. f \in Frame /\ Consistent(f) /\ Placed(f) /\ result \in Result
  BY DEF Activations, InvocationTypeOK
<1>3. PICK m \in {result.mark, "normal"} :
        \E h \in {MarkAs(Absorb(a, a.calls, result.events), m),
                MarkAs(Absorb(a, Nil, result.events), m),
                MarkAs(Absorb(a, Nil, {}), m)} :
          Set(d, recordMsg(h)) \/ Set(d, h)
  BY DEF CallReturned
<1>4. m \in Marks /\ result.under \in SUBSET Serial /\ result.events \in SUBSET Serial
  BY <1>2 DEF Result, Marks
<1>5. UNCHANGED <<depth, serial, free, discarding, live, registry, result, unclosed>>
      /\ moves' = moves /\ void' = void
  BY <1>1 DEF callVars, bodyVars, poolVars
<1> HIDE DEF f
<1>6. a \in Frame
  BY <1>2, <1>4 DEF Frame, BodyStates
<1>7. Consistent(a) /\ Placed(a) /\ SameActivation(f, a)
  BY <1>1, <1>2 DEF Frame, Consistent, Placed, SameActivation, DeferStates
<1>8. /\ a.pc = "running" /\ a.sent = f.sent /\ a.panic = f.panic /\ a.events = f.events
      /\ a.under = f.under \cup result.under
  BY <1>2 DEF Frame
<1> HIDE DEF a
(* What the activation becomes, before its error is recorded. *)
<1> DEFINE Back(g) ==
      /\ g \in Frame /\ Consistent(g) /\ Placed(g) /\ SameActivation(f, g)
      /\ g.pc = "running" /\ g.sent = f.sent /\ g.panic = f.panic
      /\ g.under = f.under \cup result.under
      /\ g.events \subseteq f.events \cup result.events
<1>9. ASSUME NEW data \in {Nil, a.calls}, NEW E \in SUBSET result.events
      PROVE  Back(MarkAs(Absorb(a, data, E), m))
  <2> DEFINE g == MarkAs(Absorb(a, data, E), m)
  <2>1. E \in SUBSET Serial
    BY <1>4
  <2>2. Absorbed(a, E, g)
    <3>1. g = MarkAs(Absorb(a, data, E), m)
      OBVIOUS
    <3> HIDE DEF g
    <3> QED
      BY <1>4, <1>6, <1>7, <2>1, <3>1, AbsorbKeeps, Zenon
  <2> HIDE DEF g
  <2>3. Back(g)
    BY <1>7, <1>8, <2>2 DEF Absorbed, SameActivation
  <2> QED
    BY <2>3 DEF g
<1>10. ASSUME NEW g, Back(g)
       PROVE  Back(recordMsg(g))
  <2> DEFINE h == recordMsg(g)
  <2>1. /\ h \in Frame /\ Consistent(h) /\ Placed(h) /\ SameActivation(g, h)
        /\ h.pc = g.pc /\ h.view = g.view /\ h.under = g.under /\ h.sent = g.sent
        /\ h.panic = g.panic /\ h.events = g.events
    BY <1>10, RecordKeeps
  <2> HIDE DEF h
  <2>2. Back(h)
    BY <1>10, <2>1 DEF SameActivation
  <2> QED
    BY <2>2 DEF h
<1>11. \E g : Set(d, g) /\ Back(g)
  <2>1. Back(MarkAs(Absorb(a, a.calls, result.events), m))
    BY <1>9
  <2>2. /\ Back(MarkAs(Absorb(a, Nil, result.events), m))
        /\ Back(MarkAs(Absorb(a, Nil, {}), m))
    BY <1>9
  <2> HIDE DEF Back
  <2> QED
    BY <1>3, <1>10, <2>1, <2>2
<1>12. PICK g : Set(d, g) /\ Back(g)
  BY <1>11
<1>13. Replaces(d, g)
  BY <1>1, <1>5, <1>12
  DEF Replaces, Viewing, BodyStates, SameActivation, Activations, InvocationTypeOK, f
<1>14. Resumes(f, g)
  BY <1>1, <1>12 DEF Resumes
<1> QED
  BY <1>5, <1>13, <1>14 DEF BodyStep, f

LEMMA ConcludeStep ==
  ASSUME Activations, NEW d \in Depth, Conclude(d)
  PROVE  \E g : BodyStep(d, g)
<1> DEFINE f == frame[d]
           l == Leave(f)
<1>1. /\ d = depth /\ f.pc \in {"succeeded", "failed"}
      /\ UNCHANGED <<depth, serial, free, discarding, live, moves, registry, result, unclosed>>
  BY DEF Conclude, At, bodyVars, poolVars
<1>2. f \in Frame /\ Consistent(f) /\ Placed(f)
  BY DEF Activations, InvocationTypeOK
<1>3. /\ l \in Frame
      /\ l.pc = "removeContext" /\ l.events = {}
      /\ l.serial = f.serial /\ l.inst = f.inst
      /\ l.under = f.under /\ l.sent = f.sent
      /\ l.panic = f.panic /\ l.faults = f.faults
      /\ l.code = f.code /\ l.mark = f.mark
      /\ l.iterated = f.iterated
      /\ l.cache = Nil /\ l.announced = Nil
  <2> HIDE DEF f
  <2> QED
    BY <1>1, <1>2, LeaveFrame DEF BodyStates
<1>4. CASE /\ f.pc = "succeeded"
           /\ Set(d, [l EXCEPT !.sent = f.events])
           /\ void' = void
  <2> DEFINE g == [l EXCEPT !.sent = f.events]
  <2> HIDE DEF f, l
  <2>1. /\ g \in Frame /\ g.pc = "removeContext" /\ g.events = {} /\ g.sent = f.events
        /\ g.under = f.under /\ g.panic = f.panic
    BY <1>2, <1>3 DEF Frame
  <2>2. Consistent(g) /\ Placed(g) /\ SameActivation(f, g)
    BY <1>2, <1>3, <1>4 DEF Frame, Consistent, Placed, SameActivation, DeferStates
  <2>3. Set(d, g)
    BY <1>4 DEF f, l
  <2> HIDE DEF g
  <2>4. Replaces(d, g)
    BY <1>1, <2>1, <2>2, <2>3
    DEF Replaces, Viewing, BodyStates, Activations, InvocationTypeOK, f
  <2>5. Succeeds(f, g)
    BY <1>4, <2>1 DEF Succeeds
  <2> QED
    BY <1>4, <2>4, <2>5 DEF BodyStep, f
<1>5. CASE Set(d, [l EXCEPT !.code = 1, !.faults = 1]) /\ Break(d)
  <2> DEFINE g == [l EXCEPT !.code = 1, !.faults = 1]
  <2> HIDE DEF f, l
  <2>1. /\ g \in Frame /\ g.pc = "removeContext" /\ g.events = {} /\ g.sent = f.sent
        /\ g.under = f.under /\ g.panic = f.panic
    BY <1>2, <1>3 DEF Frame
  <2>2. Consistent(g) /\ Placed(g) /\ SameActivation(f, g)
    <3>1. /\ g.code = 1 /\ g.serial = f.serial /\ g.inst = f.inst /\ g.mark = f.mark
          /\ g.iterated = f.iterated /\ g.cache = Nil /\ g.announced = Nil
      BY <1>3 DEF Frame
    <3>2. f.serial # NoSerial /\ f.inst # NoInstance
      BY <1>1, <1>2 DEF Placed, f
    <3> HIDE DEF g
    <3> QED
      BY <1>2, <2>1, <3>1, <3>2 DEF Consistent, Placed, SameActivation, DeferStates
  <2>3. Set(d, g)
    BY <1>5 DEF f, l
  <2> HIDE DEF g
  <2>4. Replaces(d, g)
    BY <1>1, <2>1, <2>2, <2>3
    DEF Replaces, Viewing, BodyStates, Activations, InvocationTypeOK, f
  <2>5. BreaksOff(d, f, g)
    BY <1>5, <2>1 DEF BreaksOff
  <2> QED
    BY <1>5, <2>4, <2>5 DEF BodyStep, f
<1> QED
  BY <1>4, <1>5 DEF Conclude, At

(* The activation f begins. *)
Begins(f) ==
  /\ f \in Frame /\ Consistent(f) /\ Placed(f)
  /\ f.serial = serial + 1 /\ serial' = serial + 1 /\ serial + 1 \in Serial
  /\ f.under = {serial + 1} /\ f.events = {} /\ f.sent = {}

(* It is the one of a transaction, *)
BeginsPooled(f) ==
  /\ Begins(f) /\ f.pc = "entered" /\ f.inst = Pooled /\ f.panic = 0
  /\ depth = -1 /\ depth' = 0 /\ Pooled \in free
  /\ frame' = [frame EXCEPT ![0] = f]
  /\ free' = free \ {Pooled}
  /\ registry' = registry \cup {serial + 1}
  /\ UNCHANGED <<discarding, live, moves, result, void, unclosed>>

(* or of a cross-contract call: f becomes u while it lasts. *)
Waits(f, u) ==
  /\ u \in Frame /\ Consistent(u) /\ Placed(u) /\ SameActivation(f, u)
  /\ f.pc = "calling" /\ u.pc = "awaiting"
  /\ u.view = f.view /\ u.under = f.under /\ u.events = f.events
  /\ u.sent = f.sent /\ u.panic = f.panic

BeginsNested(d, u, f) ==
  /\ Begins(f)
  /\ d = depth /\ depth' = d + 1 /\ d + 1 \in Depth
  /\ Waits(frame[d], u)
  /\ frame' = [frame EXCEPT ![d] = u, ![d + 1] = f]
  /\ UNCHANGED <<free, discarding, moves, result, unclosed>>
  /\ \/ /\ f.pc = "entered" /\ f.inst = serial + 1
        /\ live' = live \cup {serial + 1} /\ registry' = registry \cup {serial + 1}
        /\ void' = void
     \/ /\ f.pc = "release" /\ f.inst = NoInstance
        /\ live' = live /\ registry' = registry
        /\ void' = void \cup {serial + 1}

(* The pooled instance is handed to the pool, or to a goroutine. *)
Hands ==
  \/ free' = free \cup {Pooled} /\ discarding' = discarding
  \/ discarding' = discarding \cup {Pooled} /\ free' = free

(* A deferred call other than recover. *)
Undoes(d, g) ==
  /\ d = depth
  /\ Set(d, g)
  /\ g \in Frame /\ Consistent(g) /\ Placed(g) /\ SameActivation(frame[d], g)
  /\ g.under = frame[d].under /\ g.events = frame[d].events /\ g.sent = frame[d].sent
  /\ UNCHANGED <<depth, serial, moves, result, void>>
  /\ \/ /\ frame[d].pc = "removeContext" /\ g.pc = "release"
        /\ g.panic = frame[d].panic
        /\ registry' = registry \ {frame[d].serial}
        /\ UNCHANGED <<free, discarding, live, unclosed>>
     \/ /\ frame[d].pc = "release" /\ g.pc = "recover"
        /\ registry' = registry
        /\ \/ /\ frame[d].inst = Pooled /\ g.panic = frame[d].panic
              /\ Hands
              /\ UNCHANGED <<live, unclosed>>
           \/ /\ frame[d].inst # Pooled
              /\ live' = live \ {frame[d].inst} /\ UNCHANGED <<free, discarding, unclosed>>
           \/ /\ frame[d].inst \notin {Pooled, NoInstance}
              /\ unclosed' = unclosed \cup {frame[d].inst} /\ UNCHANGED <<free, discarding, live>>

(* The activation returns. *)
Returns(d) ==
  /\ d = depth /\ depth' = d - 1
  /\ frame[d].pc = "recover"
  /\ frame' = [frame EXCEPT ![d] = NoFrame]
  /\ result' \in Result /\ ConsistentResult(result')
  /\ result'.events = frame[d].sent /\ result'.under = frame[d].under
  /\ UNCHANGED <<serial, free, discarding, live, moves, registry, void, unclosed>>

LEMMA NewFrameTyped ==
  ASSUME NEW n \in Serial, NEW i \in {NoInstance, Pooled} \cup Serial
  PROVE  /\ NewFrame(n, i) \in Frame /\ Consistent(NewFrame(n, i))
         /\ NewFrame(n, i).pc = "entered" /\ NewFrame(n, i).serial = n
         /\ NewFrame(n, i).inst = i /\ NewFrame(n, i).under = {n}
         /\ NewFrame(n, i).events = {} /\ NewFrame(n, i).sent = {}
         /\ NewFrame(n, i).panic = 0 /\ NewFrame(n, i).iterated = 0
         /\ NewFrame(n, i).cache = Nil /\ NewFrame(n, i).announced = Nil
<1> DEFINE f == NewFrame(n, i)
<1>1. /\ f.pc = "entered" /\ f.serial = n /\ f.inst = i /\ f.under = {n}
      /\ f.events = {} /\ f.sent = {} /\ f.panic = 0 /\ f.iterated = 0 /\ f.faults = 0
      /\ f.cache = Nil /\ f.announced = Nil
  BY DEF NewFrame
<1>2. 0 \in 0..MaxCalls /\ 0 \in 0..MaxGrows
  BY BoundAssumption DEF BoundAssumption
<1>3. f \in Frame
  <2>1. {n} \in SUBSET Serial /\ "normal" \in Marks /\ Nil \in 0..MaxCalls
    BY <1>2 DEF Nil, Marks
  <2> QED
    BY <1>2, <2>1, SMTT(30) DEF NewFrame, Frame, BodyStates
<1> HIDE DEF f
<1>4. Consistent(f)
  BY <1>1 DEF Consistent
<1> QED
  BY <1>1, <1>3, <1>4 DEF f

LEMMA NoFrameTyped ==
  /\ NoFrame \in Frame /\ Consistent(NoFrame) /\ Placed(NoFrame) /\ NoFrame.pc = "none"
<1>1. /\ NoFrame.pc = "none" /\ NoFrame.cache = Nil /\ NoFrame.announced = Nil
      /\ NoFrame.faults = 0 /\ NoFrame.panic = 0 /\ NoFrame.iterated = 0
  BY DEF NoFrame, NewFrame
<1>2. /\ 0 \in 0..MaxCalls /\ 0 \in 0..MaxGrows /\ Nil \in 0..MaxCalls
      /\ "normal" \in Marks
  BY BoundAssumption DEF BoundAssumption, Nil, Marks
<1>3. NoFrame \in Frame
  <2> DEFINE f == NewFrame(NoSerial, NoInstance)
             g == [f EXCEPT !.pc = "none"]
  <2>1. g = [pc |-> "none", serial |-> NoSerial, inst |-> NoInstance, calls |-> 0,
             cache |-> Nil, announced |-> Nil, view |-> 0, code |-> 0, faults |-> 0,
             panic |-> 0, events |-> {}, sent |-> {}, mark |-> "normal",
             iterated |-> 0, under |-> {NoSerial}]
    BY DEF NewFrame
  <2>2. NoFrame = [g EXCEPT !.under = {}]
    BY DEF NoFrame
  <2> HIDE DEF g
  <2>3. [g EXCEPT !.under = {}] \in Frame
    BY <1>2, <2>1, SMTT(30) DEF Frame
  <2> QED
    BY <2>2, <2>3
<1>4. Consistent(NoFrame) /\ Placed(NoFrame)
  BY <1>1 DEF Consistent, Placed
<1> QED
  BY <1>1, <1>3, <1>4

LEMMA EnterPooledBegins ==
  ASSUME Activations, EnterPooled
  PROVE  \E f : BeginsPooled(f)
<1> DEFINE n == serial + 1
           f == NewFrame(n, Pooled)
<1>1. n \in Serial
  BY BoundAssumption
  DEF EnterPooled, Activations, InvocationTypeOK, Serial, BoundAssumption
<1>2. /\ depth = -1 /\ depth' = 0 /\ serial' = n /\ Pooled \in free
      /\ frame' = [frame EXCEPT ![0] = f]
      /\ free' = free \ {Pooled} /\ registry' = registry \cup {n}
      /\ UNCHANGED <<discarding, live, moves, result, void, unclosed>>
  BY DEF EnterPooled
<1> HIDE DEF n
<1>3. /\ f \in Frame /\ Consistent(f) /\ f.pc = "entered" /\ f.inst = Pooled
      /\ f.panic = 0 /\ f.serial = n /\ f.under = {n} /\ f.events = {} /\ f.sent = {}
  BY <1>1, NewFrameTyped
<1>4. Placed(f)
  <2>1. Pooled # NoInstance /\ n # NoSerial
    BY <1>1 DEF Pooled, NoInstance, NoSerial, Serial
  <2> HIDE DEF f
  <2> QED
    BY <1>3, <2>1 DEF Placed
<1> HIDE DEF f
<1> QED
  BY <1>1, <1>2, <1>3, <1>4 DEF BeginsPooled, Begins, n

LEMMA CallingWaits ==
  ASSUME Activations, NEW d \in Depth, frame[d].pc = "calling"
  PROVE  Waits(frame[d], [frame[d] EXCEPT !.pc = "awaiting"])
<1> DEFINE c == frame[d]
           u == [c EXCEPT !.pc = "awaiting"]
<1>1. c \in Frame /\ Consistent(c) /\ Placed(c) /\ c.pc = "calling"
  BY DEF Activations, InvocationTypeOK
<1> HIDE DEF c
<1>2. u \in Frame
  BY <1>1 DEF Frame, BodyStates
<1>3. Consistent(u) /\ Placed(u)
  BY <1>1 DEF Frame, Consistent, Placed, DeferStates
<1>4. /\ u.serial = c.serial /\ u.inst = c.inst /\ u.pc = "awaiting" /\ u.view = c.view
      /\ u.under = c.under /\ u.events = c.events /\ u.sent = c.sent /\ u.panic = c.panic
  BY <1>1 DEF Frame
<1> HIDE DEF u
<1>5. Waits(c, u)
  BY <1>1, <1>2, <1>3, <1>4 DEF Waits, SameActivation
<1> QED
  BY <1>5 DEF c, u

LEMMA EnterNestedBegins ==
  ASSUME Activations, NEW d \in Depth, NEW made \in BOOLEAN, EnterNested(d, made)
  PROVE  \E u, f : BeginsNested(d, u, f)
<1> DEFINE n == serial + 1
           h == NewFrame(n, NoInstance)
           f == IF made THEN NewFrame(n, n)
                ELSE [h EXCEPT !.pc = "release", !.panic = 1, !.faults = 1]
           u == [frame[d] EXCEPT !.pc = "awaiting"]
<1>1. n \in Serial /\ d + 1 \in Depth /\ d = depth
  BY BoundAssumption
  DEF EnterNested, At, Activations, InvocationTypeOK, Serial, Depth, BoundAssumption
<1>2. /\ frame' = [frame EXCEPT ![d] = u, ![d + 1] = f]
      /\ depth' = d + 1 /\ serial' = n
      /\ live' = (IF made THEN live \cup {n} ELSE live)
      /\ registry' = (IF made THEN registry \cup {n} ELSE registry)
      /\ void' = (IF made THEN void ELSE void \cup {n})
      /\ UNCHANGED <<free, discarding, moves, result, unclosed>>
  BY DEF EnterNested, PrivateInstance
<1>3. Waits(frame[d], u)
  BY CallingWaits DEF EnterNested, At
<1>4. n # NoInstance /\ n # NoSerial
  BY <1>1 DEF NoInstance, NoSerial, Serial
<1> HIDE DEF n, f, u
<1>5. CASE made
  <2>1. f = NewFrame(n, n)
    BY <1>5 DEF f
  <2>2. /\ f \in Frame /\ Consistent(f) /\ f.pc = "entered" /\ f.inst = n
        /\ f.serial = n /\ f.under = {n} /\ f.events = {} /\ f.sent = {}
    BY <1>1, <2>1, NewFrameTyped
  <2>3. Placed(f)
    BY <1>4, <2>2 DEF Placed
  <2>4. live' = live \cup {n} /\ registry' = registry \cup {n} /\ void' = void
    BY <1>2, <1>5
  <2>5. BeginsNested(d, u, f)
    BY <1>1, <1>2, <1>3, <2>2, <2>3, <2>4 DEF BeginsNested, Begins, n
  <2> QED
    BY <2>5
<1>6. CASE ~made
  <2> DEFINE g == [h EXCEPT !.pc = "release"]
  <2>1. /\ h \in Frame /\ Consistent(h) /\ h.serial = n /\ h.iterated = 0
        /\ h.inst = NoInstance /\ h.under = {n} /\ h.events = {} /\ h.sent = {}
    BY <1>1, NewFrameTyped
  <2>2. f = [h EXCEPT !.pc = "release", !.panic = 1, !.faults = 1]
    BY <1>6 DEF f
  <2> HIDE DEF h
  <2>3. f \in Frame
    <3>1. g \in Frame
      BY <2>1 DEF Frame, DeferStates
    <3>2. f = [g EXCEPT !.panic = 1, !.faults = 1]
      BY <2>1, <2>2 DEF Frame
    <3> HIDE DEF g
    <3> QED
      BY <3>1, <3>2 DEF Frame
  <2>4. /\ f.pc = "release" /\ f.panic = 1 /\ f.serial = n /\ f.iterated = 0
        /\ f.inst = NoInstance /\ f.under = {n} /\ f.events = {} /\ f.sent = {}
        /\ f.cache = h.cache /\ f.announced = h.announced
    BY <2>1, <2>2 DEF Frame
  <2>5. Consistent(f) /\ Placed(f)
    BY <1>4, <2>1, <2>4 DEF Consistent, Placed, DeferStates
  <2>6. live' = live /\ registry' = registry /\ void' = void \cup {n}
    BY <1>2, <1>6
  <2>7. BeginsNested(d, u, f)
    BY <1>1, <1>2, <1>3, <2>3, <2>4, <2>5, <2>6 DEF BeginsNested, Begins, n
  <2> QED
    BY <2>7
<1> QED
  BY <1>5, <1>6

(* A deferred call has run; closing the instance may have panicked. *)
Deferred(f, p, g) ==
  \/ g = [f EXCEPT !.pc = p]
  \/ g = [f EXCEPT !.pc = p, !.panic = 1, !.faults = 1]

(* What becomes of an activation in a deferred call. *)
LEMMA DeferFrame ==
  ASSUME NEW f \in Frame, Consistent(f), Placed(f), f.pc \in DeferStates,
         NEW p \in {"release", "recover"}, NEW g, Deferred(f, p, g)
  PROVE  /\ g \in Frame /\ Consistent(g) /\ Placed(g) /\ SameActivation(f, g)
         /\ g.pc = p /\ g.under = f.under /\ g.events = f.events /\ g.sent = f.sent
<1>1. /\ g.serial = f.serial /\ g.inst = f.inst /\ g.pc = p /\ g.under = f.under
      /\ g.events = f.events /\ g.sent = f.sent
      /\ g.cache = f.cache /\ g.announced = f.announced /\ g.code = f.code
      /\ g.iterated = f.iterated /\ g.mark = f.mark
  BY DEF Frame, Deferred
<1>2. g \in Frame
  <2> DEFINE h == [f EXCEPT !.pc = p]
             k == [h EXCEPT !.panic = 1]
  <2>1. h \in Frame
    BY DEF Frame, DeferStates
  <2>2. g = h \/ g = [k EXCEPT !.faults = 1]
    BY Zenon DEF Deferred
  <2> HIDE DEF h
  <2>3. k \in Frame
    BY <2>1 DEF Frame
  <2> HIDE DEF k
  <2>4. [k EXCEPT !.faults = 1] \in Frame
    BY <2>3 DEF Frame
  <2> QED
    BY <2>1, <2>2, <2>4
<1>3. g.panic = 1 \/ (g.panic = f.panic /\ g.faults = f.faults)
  <2>1. CASE g = [f EXCEPT !.pc = p]
    BY <2>1 DEF Frame
  <2>2. CASE g = [f EXCEPT !.pc = p, !.panic = 1, !.faults = 1]
    BY <2>2 DEF Frame
  <2> QED
    BY <2>1, <2>2 DEF Deferred
<1>4. f.serial # NoSerial
  BY DEF Placed, DeferStates
<1>5. Consistent(g)
  BY <1>1, <1>3 DEF Consistent, DeferStates
<1> QED
  BY <1>1, <1>2, <1>4, <1>5 DEF Placed, SameActivation

LEMMA DeferUndoes ==
  ASSUME Activations, NEW d \in Depth, RemoveContext(d) \/ Release(d)
  PROVE  \E g : Undoes(d, g)
<1> DEFINE f == frame[d]
<1>1. f \in Frame /\ Consistent(f) /\ Placed(f) /\ d = depth
  BY DEF RemoveContext, Release, At, Activations, InvocationTypeOK
<1>2. CASE RemoveContext(d)
  <2> DEFINE g == [f EXCEPT !.pc = "release"]
  <2>1. /\ Set(d, g) /\ f.pc = "removeContext"
        /\ registry' = registry \ {f.serial}
        /\ UNCHANGED <<free, discarding, live, unclosed>>
        /\ UNCHANGED <<depth, serial, moves, result, void>>
    BY <1>2 DEF RemoveContext, Goes, At
  <2> HIDE DEF f
  <2>2. /\ g \in Frame /\ Consistent(g) /\ Placed(g) /\ SameActivation(f, g)
        /\ g.pc = "release" /\ g.under = f.under /\ g.events = f.events /\ g.sent = f.sent
    <3>1. f \in Frame /\ Consistent(f) /\ Placed(f) /\ f.pc \in DeferStates
      BY <1>1, <2>1 DEF DeferStates
    <3>2. Deferred(f, "release", g)
      BY DEF Deferred
    <3> HIDE DEF g
    <3> QED
      BY <3>1, <3>2, DeferFrame
  <2>3. g.panic = f.panic
    BY <1>1 DEF Frame
  <2> HIDE DEF g
  <2>4. Undoes(d, g)
    BY <1>1, <2>1, <2>2, <2>3 DEF Undoes, f
  <2> QED
    BY <2>4
<1>3. CASE Release(d)
  <2> DEFINE g == [f EXCEPT !.pc = "recover"]
             h == [f EXCEPT !.pc = "recover", !.panic = 1, !.faults = 1]
  <2>1. /\ f.pc = "release"
        /\ registry' = registry
        /\ UNCHANGED <<depth, serial, moves, result, void>>
        /\ \/ /\ f.inst = Pooled /\ Set(d, g)
              /\ Hands
              /\ UNCHANGED <<live, unclosed>>
           \/ /\ f.inst # Pooled /\ Set(d, g)
              /\ live' = live \ {f.inst} /\ UNCHANGED <<free, discarding, unclosed>>
           \/ /\ f.inst \notin {Pooled, NoInstance} /\ Set(d, h)
              /\ unclosed' = unclosed \cup {f.inst} /\ UNCHANGED <<free, discarding, live>>
    BY <1>3 DEF Release, Goes, At, Hands
  <2> HIDE DEF f
  <2>2. /\ g \in Frame /\ Consistent(g) /\ Placed(g) /\ SameActivation(f, g)
        /\ g.pc = "recover" /\ g.under = f.under /\ g.events = f.events /\ g.sent = f.sent
    <3>1. f \in Frame /\ Consistent(f) /\ Placed(f) /\ f.pc \in DeferStates
      BY <1>1, <2>1 DEF DeferStates
    <3>2. Deferred(f, "recover", g)
      BY DEF Deferred
    <3> HIDE DEF g
    <3> QED
      BY <3>1, <3>2, DeferFrame
  <2>3. /\ h \in Frame /\ Consistent(h) /\ Placed(h) /\ SameActivation(f, h)
        /\ h.pc = "recover" /\ h.under = f.under /\ h.events = f.events /\ h.sent = f.sent
    <3>1. f \in Frame /\ Consistent(f) /\ Placed(f) /\ f.pc \in DeferStates
      BY <1>1, <2>1 DEF DeferStates
    <3>2. Deferred(f, "recover", h)
      BY DEF Deferred
    <3> HIDE DEF h
    <3> QED
      BY <3>1, <3>2, DeferFrame
  <2>4. g.panic = f.panic
    BY <1>1 DEF Frame
  <2> HIDE DEF g, h
  <2>5. Undoes(d, g) \/ Undoes(d, h)
    BY <1>1, <2>1, <2>2, <2>3, <2>4 DEF Undoes, f
  <2> QED
    BY <2>5
<1> QED
  BY <1>2, <1>3

LEMMA RecoverReturns ==
  ASSUME Activations, NEW d \in Depth, Recover(d)
  PROVE  Returns(d)
<1> DEFINE f == frame[d]
<1>1. f \in Frame /\ Consistent(f) /\ d = depth /\ f.pc = "recover"
  BY DEF Recover, At, Activations, InvocationTypeOK
<1>2. /\ frame' = [frame EXCEPT ![d] = NoFrame] /\ depth' = d - 1
      /\ result' = [code |-> CodeReturned(f), faults |-> f.faults, events |-> f.sent,
                    under |-> f.under, mark |-> MarkReturned(f),
                    iterated |-> IF f.panic = 1 THEN 0 ELSE f.iterated]
      /\ UNCHANGED <<serial, free, discarding, live, moves, registry, void, unclosed>>
  BY DEF Recover, Set
<1> HIDE DEF f
<1>3. result' \in Result
  BY <1>1, <1>2 DEF Frame, Result, CodeReturned, MarkReturned, Marks
<1>4. ConsistentResult(result')
  BY <1>1, <1>2 DEF Frame, Consistent, ConsistentResult, CodeReturned, MarkReturned
<1>5. result'.events = f.sent /\ result'.under = f.under
  BY <1>2
<1> QED
  BY <1>1, <1>2, <1>3, <1>4, <1>5 DEF Returns, f

(* Every step begins an activation, works on one, undoes what one took, or  *)
(* returns from one; or it is one of the discard goroutine.                 *)
LEMMA NextSteps ==
  ASSUME Activations, Next
  PROVE  \/ ReplaceDiscarded
         \/ \E f : BeginsPooled(f)
         \/ \E d \in Depth :
              \/ \E u, f : BeginsNested(d, u, f)
              \/ \E g : BodyStep(d, g)
              \/ \E g : Undoes(d, g)
              \/ Returns(d)
<1>1. ASSUME NEW d \in Depth,
             \/ CallMethod(d) \/ Allocate(d) \/ CopyParameters(d) \/ RunMethod(d)
             \/ procExit(d) \/ sysCall(d) \/ CallContractLen(d) \/ CallRefused(d)
             \/ CallReturned(d) \/ CallContract(d) \/ Conclude(d)
      PROVE  \E g : BodyStep(d, g)
  BY <1>1, PlainSteps, AllocateStep, SysCallStep, CallContractLenStep, CallRefusedStep,
     CallReturnedStep, CallContractStep, ConcludeStep
<1> QED
  BY <1>1, EnterPooledBegins, EnterNestedBegins, DeferUndoes, RecoverReturns DEF Next

=============================================================================
