------------------------ MODULE WasmerHandlesProofs ------------------------
(***************************************************************************)
(* Proofs about WasmerHandles for any number of instances, modules, import *)
(* objects and memories.  A step of one instance can only touch what was   *)
(* made for it (MadeFor), and the sets MadeFor of two instances have       *)
(* nothing in common; so each instance has an invariant of its own, and a  *)
(* step of anybody else keeps it (Aside).  That invariant bounds what      *)
(* exists of MadeFor(i) from below (Held: whatever the instance still      *)
(* points at) and from above (Left: nothing but what some later step knows *)
(* of, or what the code has forgotten).                                    *)
(*                                                                         *)
(* The last part is about the conversions of WasmerValues, for integers of *)
(* any even number of values.                                              *)
(***************************************************************************)
EXTENDS WasmerCalls, TLAPS

OwnedMemories == {OwnedMemory(w) : w \in Memories}
RawFuncs(i) == {RawFunc(i, f) : f \in Namespaces \X Names}
Handles(i) == {MemoryHandle(i, k) : k \in Nth}

(* Functions made for the imports and recorded there. *)
Made(i) == {Func(i, n) : n \in {n \in Names : imports[i][n] = Func(i, n)}}

-----------------------------------------------------------------------------
(* The invariant *)

(* What an entry of the imports of an instance can be.                      *)
Entries(i) ==
  \A n \in Names :
    /\ inst[i].pc = "fresh" => imports[i][n] \in {Absent, Nil} \cup OwnedMemories
    /\ inst[i].pc \in {"building", "exporting", "open"} /\ inst[i].object = Nil =>
         imports[i][n] \in {Absent, Func(i, n)} \cup OwnedMemories
    /\ inst[i].pc \in {"exporting", "gathering"} /\ inst[i].object # Nil =>
         imports[i][n] = Absent
    /\ inst[i].pc = "open" /\ inst[i].object # Nil =>
         imports[i][n] \in {Absent} \cup RawFuncs(i)

(* What an instance points at exists. *)
Held(i) ==
  /\ inst[i].pc \notin {"failed", "closed"} =>
       \A n \in Names : imports[i][n] \in {Absent, Nil} \cup heap
  /\ inst[i].pc \in {"exporting", "gathering", "open"} =>
       /\ inst[i].native = InstanceOf(i) /\ InstanceOf(i) \in heap
       /\ inst[i].memory \in {Nil} \cup (Handles(i) \cap heap)
  /\ inst[i].pc = "exporting" => ExportList(i) \in heap
  /\ inst[i].pc \in {"fresh", "building"} =>
       inst[i].native = Nil /\ inst[i].memory = Nil /\ inst[i].object = Nil
  /\ inst[i].pc = "gathering" => inst[i].object # Nil

(* Nothing else that was made for it exists. *)
Left(i) ==
  LET left == heap \cap MadeFor(i)
      made == Made(i) \cup Handles(i) \cup {InstanceOf(i), ExportNames(i)}
  IN /\ inst[i].pc = "fresh" => left = {}
     /\ inst[i].pc = "building" => left \subseteq Made(i)
     /\ inst[i].pc = "exporting" => left \subseteq made \cup {ExportList(i)}
     /\ inst[i].pc = "gathering" => left \subseteq made
     /\ inst[i].pc = "open" => left \subseteq made \cup RawFuncs(i) \cup {Iterator(i)}
     /\ inst[i].pc = "closed" => left \subseteq Forgotten(i) \cup {ExportNames(i)}
     /\ inst[i].pc = "failed" => ExportList(i) \notin left
     /\ inst[i].pc = "failed" /\ inst[i].native = Nil =>
          left \subseteq {Func(i, n) : n \in Names}

Slot(i) == Entries(i) /\ Held(i) /\ Left(i)

(* What anybody may point at exists while it is open; a memory always.      *)
Shared ==
  /\ \A k \in Modules : module[k] = "open" => ModuleOf(k) \in heap
  /\ \A o \in Objects : object[o] = "open" => ObjectOf(o) \in heap
  /\ \A w \in Memories : memory[w] # "none" => OwnedMemory(w) \in heap

(* The index of an instance is its own, and nobody else is registered.      *)
Contexts ==
  /\ \A i \in Slots :
       inst[i].context # NoIndex =>
         /\ inst[i].pc \in {"open", "closed"}
         /\ inst[i].context \in DOMAIN instancesContextData
         /\ instancesContextData[inst[i].context] = latest[i]
         /\ \A j \in Slots : inst[j].context = inst[i].context => j = i
  /\ DOMAIN instancesContextData \subseteq {inst[i].context : i \in Slots}

HandlesInv ==
  HandlesTypeOK /\ (\A i \in Slots : Slot(i)) /\ Shared /\ Contexts /\ misused = {}

-----------------------------------------------------------------------------
(* Native objects: which of them can be the same. *)

USE HandlesAssumption

LEMMA MadeForKind ==
  ASSUME NEW i, NEW e \in MadeFor(i)
  PROVE  /\ e[2] = i
         /\ e[1] \in {"instance", "exports", "iterator", "export names", "memory",
                      "func", "raw func"}
<1>1. CASE e \in {InstanceOf(i), ExportList(i), Iterator(i), ExportNames(i)}
  <2>1. \A kind : <<kind, i>>[1] = kind /\ <<kind, i>>[2] = i
    OBVIOUS
  <2>2. QED
    BY <1>1, <2>1 DEF InstanceOf, ExportList, Iterator, ExportNames
<1>2. CASE \E kind \in {"memory", "func", "raw func"} : \E x : e = <<kind, i, x>>
  <2>1. \A kind, x : <<kind, i, x>>[1] = kind /\ <<kind, i, x>>[2] = i
    OBVIOUS
  <2>2. QED
    BY <1>2, <2>1
<1>3. QED
  BY <1>1, <1>2 DEF MadeFor, MemoryHandle, Func, RawFunc

LEMMA MadeForApart ==
  ASSUME NEW i \in Slots, NEW j \in Slots, i # j
  PROVE  MadeFor(i) \cap MadeFor(j) = {}
<1> SUFFICES ASSUME NEW e \in MadeFor(i), e \in MadeFor(j) PROVE FALSE
  OBVIOUS
<1>1. e[2] = i /\ e[2] = j
  BY MadeForKind
<1>2. QED
  BY <1>1

LEMMA SharedApart ==
  ASSUME NEW i \in Slots
  PROVE  /\ \A k \in Modules : ModuleOf(k) \notin MadeFor(i)
         /\ \A o \in Objects : ObjectOf(o) \notin MadeFor(i)
         /\ \A w \in Memories : OwnedMemory(w) \notin MadeFor(i)
         /\ \A o \in Objects, n \in Names : Func(o, n) \notin MadeFor(i)
<1>1. \A k : ModuleOf(k)[1] = "module" /\ ObjectOf(k)[1] = "object"
             /\ OwnedMemory(k)[1] = "owned memory"
  BY DEF ModuleOf, ObjectOf, OwnedMemory
<1>2. \A o, n : Func(o, n)[2] = o
  BY DEF Func
<1>3. \A e \in MadeFor(i) :
        e[2] \notin Objects /\ e[1] \notin {"module", "object", "owned memory"}
  BY MadeForKind
<1>4. QED
  BY <1>1, <1>2, <1>3

LEMMA OthersApart ==
  /\ \A k \in Modules, o \in Objects : ModuleOf(k) # ObjectOf(o)
  /\ \A k \in Modules, w \in Memories : ModuleOf(k) # OwnedMemory(w)
  /\ \A o \in Objects, w \in Memories : ObjectOf(o) # OwnedMemory(w)
  /\ \A k, j \in Modules : ModuleOf(k) = ModuleOf(j) => k = j
  /\ \A o, p \in Objects : ObjectOf(o) = ObjectOf(p) => o = p
  BY DEF ModuleOf, ObjectOf, OwnedMemory

LEMMA MadeForHas ==
  ASSUME NEW i
  PROVE  /\ {InstanceOf(i), ExportList(i), Iterator(i), ExportNames(i)} \subseteq MadeFor(i)
         /\ \A k \in Nth : MemoryHandle(i, k) \in MadeFor(i)
         /\ \A n \in Names : Func(i, n) \in MadeFor(i)
         /\ \A f \in Namespaces \X Names : RawFunc(i, f) \in MadeFor(i)
  BY DEF MadeFor

LEMMA ListApart ==
  ASSUME NEW i
  PROVE  /\ ExportList(i) \notin {InstanceOf(i), Iterator(i), ExportNames(i), Nil, Absent}
         /\ \A k : ExportList(i) # MemoryHandle(i, k)
         /\ \A n : ExportList(i) # Func(i, n) /\ ExportList(i) # RawFunc(i, n)
         /\ \A w : ExportList(i) # OwnedMemory(w)
  BY DEF ExportList, InstanceOf, Iterator, ExportNames, Nil, Absent, MemoryHandle, Func,
         RawFunc, OwnedMemory

LEMMA FunctionKinds ==
  /\ IsFunction(Nil) /\ ~IsFunction(Absent) /\ Nil # Absent
  /\ \A x, n : IsFunction(Func(x, n)) /\ IsFunction(RawFunc(x, n))
  /\ \A w : ~IsFunction(OwnedMemory(w))
  /\ \A x, n : Func(x, n) \notin {Nil, Absent} /\ RawFunc(x, n) \notin {Nil, Absent}
  /\ \A w : OwnedMemory(w) \notin {Nil, Absent}
  /\ \A x : ObjectOf(x) # Nil /\ InstanceOf(x) # Nil
  /\ \A x, k : MemoryHandle(x, k) # Nil
  BY DEF IsFunction, Nil, Absent, Func, RawFunc, OwnedMemory, ObjectOf, InstanceOf,
         MemoryHandle

LEMMA NativesHas ==
  /\ \A i \in Slots : MadeFor(i) \subseteq Natives
  /\ \A k \in Modules : ModuleOf(k) \in Natives
  /\ \A o \in Objects : ObjectOf(o) \in Natives
  /\ \A w \in Memories : OwnedMemory(w) \in Natives
  /\ \A o \in Objects, n \in Names : Func(o, n) \in Natives
  BY DEF Natives

-----------------------------------------------------------------------------
(* Steps of others *)

(* The step leaves instance i, its imports and what was made for it alone,  *)
(* and frees no memory that the Go side owns.                               *)
Aside(i) ==
  /\ inst'[i].pc = inst[i].pc /\ inst'[i].object = inst[i].object
  /\ inst'[i].native = inst[i].native /\ inst'[i].memory = inst[i].memory
  /\ imports'[i] = imports[i]
  /\ heap' \cap MadeFor(i) = heap \cap MadeFor(i)
  /\ heap \cap OwnedMemories \subseteq heap'

LEMMA EntryKind ==
  ASSUME NEW i \in Slots, NEW n \in Names, Slot(i),
         inst[i].pc \in Pcs \ {"failed", "closed"}
  PROVE  imports[i][n] \in {Absent, Nil} \cup (heap \cap (MadeFor(i) \cup OwnedMemories))
<1>1. imports[i][n] \in {Absent, Nil} \cup heap
  BY DEF Slot, Held
<1>2. imports[i][n] \in {Absent, Nil, Func(i, n)} \cup OwnedMemories \cup RawFuncs(i)
  <2>1. CASE inst[i].pc = "fresh"
    BY <2>1 DEF Slot, Entries
  <2>2. CASE inst[i].pc \in {"building", "exporting", "open"} /\ inst[i].object = Nil
    BY <2>2 DEF Slot, Entries
  <2>3. CASE inst[i].pc \in {"exporting", "gathering"} /\ inst[i].object # Nil
    BY <2>3 DEF Slot, Entries
  <2>4. CASE inst[i].pc = "open" /\ inst[i].object # Nil
    BY <2>4 DEF Slot, Entries
  <2>5. inst[i].pc = "building" => inst[i].object = Nil
    BY DEF Slot, Held
  <2>6. inst[i].pc = "gathering" => inst[i].object # Nil
    BY DEF Slot, Held
  <2>7. QED
    BY <2>1, <2>2, <2>3, <2>4, <2>5, <2>6 DEF Pcs
<1>3. QED
  BY <1>1, <1>2, MadeForHas DEF RawFuncs

LEMMA AsideKeeps ==
  ASSUME NEW i \in Slots, Slot(i), inst[i].pc \in Pcs, Aside(i)
  PROVE  Slot(i)'
<1>1. Entries(i)'
  BY DEF Slot, Entries, Aside
<1>2. Left(i)'
  <2>1. Made(i)' = Made(i) /\ Forgotten(i)' = Forgotten(i)
    BY DEF Aside, Made, Forgotten
  <2>2. QED
    BY <2>1 DEF Slot, Left, Aside
<1>3. Held(i)'
  <2>1. \A e \in MadeFor(i) \cup OwnedMemories : e \in heap => e \in heap'
    BY DEF Aside
  <2>2. ASSUME inst[i].pc \notin {"failed", "closed"}, NEW n \in Names
        PROVE  imports[i][n] \in {Absent, Nil} \cup heap'
    BY <2>1, <2>2, EntryKind
  <2>3. Handles(i) \subseteq MadeFor(i)
    BY MadeForHas DEF Handles
  <2>4. QED
    BY <2>1, <2>2, <2>3, MadeForHas DEF Slot, Held, Aside
<1>4. QED
  BY <1>1, <1>2, <1>3 DEF Slot

-----------------------------------------------------------------------------
(* Steps of an instance *)

(* The step changes the instance and the imports of i only, and makes and   *)
(* frees only what is made for i.                                           *)
Own(i) ==
  /\ inst' \in [Slots -> Instance]
  /\ imports' \in [Slots -> [Names -> {Absent, Nil} \cup Natives]]
  /\ \A j \in Slots \ {i} : inst'[j] = inst[j] /\ imports'[j] = imports[j]
  /\ heap' \ MadeFor(i) = heap \ MadeFor(i) /\ misused' = misused
  /\ UNCHANGED clientVars
  /\ Slot(i)'

LEMMA OwnKeeps ==
  ASSUME HandlesInv, NEW i \in Slots, Own(i)
  PROVE  /\ \A j \in Slots : Slot(j)'
         /\ Shared' /\ misused' = {} /\ heap' \subseteq Natives
<1>1. ASSUME NEW j \in Slots, j # i PROVE Slot(j)'
  <2>1. Slot(j) /\ inst[j].pc \in Pcs
    BY DEF HandlesInv, HandlesTypeOK, Instance
  <2>2. Aside(j)
    <3>1. heap' \cap MadeFor(j) = heap \cap MadeFor(j)
      BY <1>1, MadeForApart DEF Own
    <3>2. heap \cap OwnedMemories \subseteq heap'
      BY SharedApart DEF Own, OwnedMemories
    <3>3. QED
      BY <1>1, <3>1, <3>2 DEF Own, Aside
  <2>3. QED
    BY <2>1, <2>2, AsideKeeps
<1>2. Shared'
  BY SharedApart DEF HandlesInv, Shared, Own, clientVars
<1>3. heap' \subseteq Natives
  BY NativesHas DEF HandlesInv, HandlesTypeOK, Own
<1>4. QED
  BY <1>1, <1>2, <1>3 DEF Own, HandlesInv

LEMMA Becoming ==
  ASSUME HandlesTypeOK, NEW i \in Slots, NEW f \in Instance, Becomes(i, f)
  PROVE  /\ inst' \in [Slots -> Instance] /\ inst'[i] = f
         /\ \A j \in Slots \ {i} : inst'[j] = inst[j]
         /\ UNCHANGED clientVars /\ UNCHANGED contextVars
  BY DEF HandlesTypeOK, Becomes

LEMMA AppendOwn ==
  ASSUME HandlesInv, NEW i \in Slots, NEW n \in Names,
         AppendFunction(i, n) \/ \E w \in Memories : AppendMemory(i, n, w)
  PROVE  Own(i)
<1>1. PICK entry \in {Nil} \cup (OwnedMemories \cap heap) : Append(i, n, entry)
  BY DEF AppendFunction, AppendMemory, HandlesInv, Shared, OwnedMemories
<1>2. /\ inst[i].pc = "fresh" /\ imports' = [imports EXCEPT ![i][n] = entry]
      /\ UNCHANGED <<heap, misused, clientVars, inst>>
  BY <1>1 DEF Append
<1>3. imports' \in [Slots -> [Names -> {Absent, Nil} \cup Natives]]
  BY <1>2, NativesHas DEF HandlesInv, HandlesTypeOK, OwnedMemories
<1>4. /\ \A j \in Slots \ {i} : imports'[j] = imports[j]
      /\ \A k \in Names : imports'[i][k] = IF k = n THEN entry ELSE imports[i][k]
  BY <1>2 DEF HandlesInv, HandlesTypeOK
<1>5. Entries(i)' /\ Held(i)'
  BY <1>2, <1>4 DEF HandlesInv, Slot, Entries, Held
<1>6. Left(i)'
  BY <1>2 DEF HandlesInv, Slot, Left
<1>7. QED
  BY <1>2, <1>3, <1>4, <1>5, <1>6 DEF Own, Slot, HandlesInv, HandlesTypeOK

LEMMA MakeImportsOwn ==
  ASSUME HandlesInv, NEW i \in Slots, MakeImports(i)
  PROVE  Own(i)
<1> DEFINE P == [inst[i] EXCEPT !.pc = "building"]
<1>1. /\ inst[i] \in Instance /\ inst[i].pc = "fresh" /\ Slot(i)
      /\ imports \in [Slots -> [Names -> {Absent, Nil} \cup Natives]]
  BY DEF MakeImports, HandlesInv, HandlesTypeOK
<1>2. /\ P \in Instance /\ P.pc = "building" /\ P.object = inst[i].object
      /\ P.native = inst[i].native /\ P.memory = inst[i].memory
  BY <1>1 DEF Instance, Pcs
<1> HIDE DEF P
<1>3. /\ AllocFrom(MadeImports(i, i), ImportedMemories(i))
      /\ imports' = [imports EXCEPT ![i] = [n \in Names |-> Recorded(i, n, imports[i][n])]]
      /\ Becomes(i, P)
  BY DEF MakeImports, GetImports, P
<1>4. /\ inst' \in [Slots -> Instance] /\ inst'[i] = P /\ UNCHANGED clientVars
      /\ \A j \in Slots \ {i} : inst'[j] = inst[j]
  BY <1>2, <1>3, Becoming DEF HandlesInv
<1>5. \A n \in Names : imports[i][n] \in {Absent, Nil} \cup (OwnedMemories \cap heap)
  BY <1>1 DEF Slot, Entries, Held
(* What is recorded. *)
<1>6. ASSUME NEW n \in Names
      PROVE  /\ imports[i][n] = Nil => Recorded(i, n, imports[i][n]) = Func(i, n)
             /\ imports[i][n] # Nil => Recorded(i, n, imports[i][n]) = imports[i][n]
  BY <1>5, FunctionKinds DEF Recorded, OwnedMemories
<1>7. /\ imports' \in [Slots -> [Names -> {Absent, Nil} \cup Natives]]
      /\ \A j \in Slots \ {i} : imports'[j] = imports[j]
      /\ \A n \in Names : imports'[i][n] = Recorded(i, n, imports[i][n])
  BY <1>1, <1>3, <1>6, NativesHas, MadeForHas
(* What is made, and that the imported memories exist. *)
<1>8. MadeImports(i, i) = {Func(i, n) : n \in {n \in Names : imports[i][n] = Nil}}
  BY <1>5, FunctionKinds DEF MadeImports, Present, OwnedMemories
<1>9. ImportedMemories(i) \subseteq heap
  BY <1>5, FunctionKinds DEF ImportedMemories, Present
<1>10. /\ misused' = misused /\ heap' = heap \cup MadeImports(i, i)
       /\ heap' \ MadeFor(i) = heap \ MadeFor(i)
  BY <1>3, <1>8, <1>9, MadeForHas DEF AllocFrom
<1>11. Entries(i)'
  BY <1>2, <1>4, <1>5, <1>6, <1>7 DEF Entries
<1>12. Held(i)'
  <2>1. ASSUME NEW n \in Names PROVE imports'[i][n] \in {Absent, Nil} \cup heap'
    BY <1>5, <1>6, <1>7, <1>8, <1>10
  <2>2. QED
    BY <1>1, <1>2, <1>4, <2>1 DEF Slot, Held
<1>13. Left(i)'
  <2>1. heap \cap MadeFor(i) = {}
    BY <1>1 DEF Slot, Left
  <2>2. heap' \cap MadeFor(i) \subseteq Made(i)'
    BY <1>6, <1>7, <1>8, <1>10, <2>1 DEF Made
  <2>3. QED
    BY <1>2, <1>4, <2>2 DEF Left
<1>14. QED
  BY <1>4, <1>7, <1>10, <1>11, <1>12, <1>13 DEF Own, Slot

(* An instance that could not be made keeps none of the pointers.           *)
LEMMA FailOwn ==
  ASSUME HandlesInv, NEW i \in Slots, Fail(i),
         imports' \in {imports, [imports EXCEPT ![i] = NoImports]},
         misused' = misused, heap' \ MadeFor(i) = heap \ MadeFor(i),
         ExportList(i) \notin heap',
         inst[i].native = Nil => heap' \cap MadeFor(i) \subseteq {Func(i, n) : n \in Names}
  PROVE  Own(i)
<1> DEFINE P == [NewSlot EXCEPT !.pc = "failed", !.native = inst[i].native]
<1>1. inst[i] \in Instance /\ imports \in [Slots -> [Names -> {Absent, Nil} \cup Natives]]
  BY DEF HandlesInv, HandlesTypeOK
<1>2. P \in Instance /\ P.pc = "failed" /\ P.native = inst[i].native
  <2> DEFINE Q == [NewSlot EXCEPT !.pc = "failed"]
  <2>1. P = [Q EXCEPT !.native = inst[i].native]
    BY DEF NewSlot
  <2>2. Q \in Instance
    <3>1. NewSlot \in Instance
      BY DEF NewSlot, Instance, Pcs
    <3>2. QED
      BY <3>1 DEF Instance, Pcs
  <2>3. P.pc = "failed" /\ P.native = inst[i].native
    BY DEF NewSlot
  <2> HIDE DEF P, Q
  <2>4. QED
    BY <1>1, <2>1, <2>2, <2>3 DEF Instance
<1>3. Becomes(i, P)
  BY DEF Fail
<1> HIDE DEF P
<1>4. /\ inst' \in [Slots -> Instance] /\ inst'[i] = P /\ UNCHANGED clientVars
      /\ \A j \in Slots \ {i} : inst'[j] = inst[j]
  BY <1>2, <1>3, Becoming DEF HandlesInv
<1>5. /\ imports' \in [Slots -> [Names -> {Absent, Nil} \cup Natives]]
      /\ \A j \in Slots \ {i} : imports'[j] = imports[j]
  BY <1>1 DEF NoImports
<1>6. Entries(i)' /\ Held(i)' /\ Left(i)'
  BY <1>2, <1>4 DEF Entries, Held, Left
<1>7. QED
  BY <1>4, <1>5, <1>6 DEF Own, Slot

LEMMA RefusedOwn ==
  ASSUME HandlesInv, NEW i \in Slots, inst[i].pc \in {"fresh", "building"}, Fail(i),
         UNCHANGED <<heap, misused>>,
         imports' \in {imports, [imports EXCEPT ![i] = NoImports]}
  PROVE  Own(i)
<1>1. heap \cap MadeFor(i) \subseteq {Func(i, n) : n \in Names}
  BY DEF HandlesInv, Slot, Left, Made
<1>2. ExportList(i) \notin heap
  BY <1>1, ListApart, MadeForHas
<1>3. QED
  BY <1>1, <1>2, FailOwn

(* The native instance and the list of its exports are made. *)
LEMMA InstantiatedOwn ==
  ASSUME HandlesInv, NEW i \in Slots, NEW S \in SUBSET heap, NEW x,
         AllocFrom({InstanceOf(i), ExportList(i)}, S),
         Becomes(i, [inst[i] EXCEPT !.pc = "exporting", !.native = InstanceOf(i),
                                    !.object = x]),
         \/ inst[i].pc = "building" /\ x = Nil /\ imports' = imports
         \/ /\ inst[i].pc = "fresh" /\ imports' = [imports EXCEPT ![i] = NoImports]
            /\ x \in {ObjectOf(o) : o \in Objects}
  PROVE  Own(i)
<1> DEFINE P == [inst[i] EXCEPT !.pc = "exporting", !.native = InstanceOf(i), !.object = x]
<1>1. /\ inst[i] \in Instance /\ Slot(i)
      /\ imports \in [Slots -> [Names -> {Absent, Nil} \cup Natives]]
  BY DEF HandlesInv, HandlesTypeOK
<1>2. P \in Instance
  <2> DEFINE Q == [inst[i] EXCEPT !.pc = "exporting"]
             R == [Q EXCEPT !.native = InstanceOf(i)]
  <2>1. P = [R EXCEPT !.object = x]
    BY <1>1 DEF Instance
  <2>2. Q \in Instance
    BY <1>1 DEF Instance, Pcs
  <2> HIDE DEF P, Q
  <2>3. R \in Instance
    BY <2>2 DEF Instance
  <2>4. x \in {Nil} \cup {ObjectOf(o) : o \in Objects}
    OBVIOUS
  <2> HIDE DEF R
  <2>5. QED
    BY <2>1, <2>3, <2>4 DEF Instance
<1>3. /\ P.pc = "exporting" /\ P.object = x
      /\ P.native = InstanceOf(i) /\ P.memory = inst[i].memory
  BY <1>1 DEF Instance
<1>4. Becomes(i, P)
  OBVIOUS
<1> HIDE DEF P
<1>5. /\ inst' \in [Slots -> Instance] /\ inst'[i] = P /\ UNCHANGED clientVars
      /\ \A j \in Slots \ {i} : inst'[j] = inst[j]
  BY <1>2, <1>4, Becoming DEF HandlesInv
<1>6. /\ misused' = misused /\ heap' = heap \cup {InstanceOf(i), ExportList(i)}
      /\ heap' \ MadeFor(i) = heap \ MadeFor(i)
  BY MadeForHas DEF AllocFrom
<1>7. /\ imports' \in [Slots -> [Names -> {Absent, Nil} \cup Natives]]
      /\ \A j \in Slots \ {i} : imports'[j] = imports[j]
      /\ \A n \in Names : imports'[i][n] = IF x = Nil THEN imports[i][n] ELSE Absent
  BY <1>1, FunctionKinds DEF NoImports
<1>8. inst[i].pc \in {"fresh", "building"}
  OBVIOUS
<1>9. Entries(i)'
  <2>1. CASE x = Nil
    BY <1>1, <1>3, <1>5, <1>7, <2>1, FunctionKinds DEF Slot, Entries, Held
  <2>2. CASE x # Nil
    BY <1>3, <1>5, <1>7, <2>2 DEF Entries
  <2>3. QED
    BY <2>1, <2>2
<1>10. Held(i)'
  <2>1. ASSUME NEW n \in Names PROVE imports'[i][n] \in {Absent, Nil} \cup heap'
    BY <1>1, <1>6, <1>7, <1>8 DEF Slot, Held
  <2>2. P.memory = Nil
    BY <1>1, <1>3, <1>8 DEF Slot, Held
  <2>3. QED
    BY <1>3, <1>5, <1>6, <2>1, <2>2 DEF Held
<1>11. Left(i)'
  <2>1. heap \cap MadeFor(i) \subseteq Made(i)'
    BY <1>1, FunctionKinds DEF Slot, Left, Made
  <2>2. heap' \cap MadeFor(i) \subseteq Made(i)' \cup {InstanceOf(i), ExportList(i)}
    BY <1>6, <2>1
  <2>3. QED
    BY <1>3, <1>5, <2>2 DEF Left
<1>12. QED
  BY <1>5, <1>6, <1>7, <1>9, <1>10, <1>11 DEF Own, Slot

LEMMA NewInstanceOwn ==
  ASSUME HandlesInv, NEW i \in Slots,
         NewInstance(i) \/ \E k \in Modules : InstantiateWithImports(i, k)
  PROVE  Own(i)
<1>1. CASE Refused(i)
  BY <1>1, RefusedOwn DEF Refused, NewInstance, InstantiateWithImports
<1>2. ASSUME NEW S \in SUBSET heap, Instantiated(i, S) PROVE Own(i)
  <2>1. /\ inst[i].pc = "building" /\ imports' = imports /\ inst[i].object = Nil
        /\ inst[i] \in Instance
    BY <1>2 DEF NewInstance, InstantiateWithImports, Instantiated, HandlesInv, Slot, Held,
       HandlesTypeOK
  <2>2. [inst[i] EXCEPT !.pc = "exporting", !.native = InstanceOf(i)]
          = [inst[i] EXCEPT !.pc = "exporting", !.native = InstanceOf(i), !.object = Nil]
    BY <2>1 DEF Instance
  <2>3. QED
    BY <1>2, <2>1, <2>2, InstantiatedOwn DEF Instantiated
<1>3. ASSUME NEW k \in Modules, module[k] = "open" PROVE {ModuleOf(k)} \subseteq heap
  BY <1>3 DEF HandlesInv, Shared
<1>4. QED
  BY <1>1, <1>2, <1>3 DEF NewInstance, InstantiateWithImports

LEMMA WithImportObjectOwn ==
  ASSUME HandlesInv, NEW i \in Slots, NEW k \in Modules, NEW o \in Objects,
         InstantiateWithImportObject(i, k, o)
  PROVE  Own(i)
<1>1. {ModuleOf(k), ObjectOf(o)} \in SUBSET heap
  BY DEF InstantiateWithImportObject, HandlesInv, Shared
<1>2. CASE Fail(i) /\ UNCHANGED <<heap, misused>>
  BY <1>2, RefusedOwn DEF InstantiateWithImportObject
<1>3. CASE ~(Fail(i) /\ UNCHANGED <<heap, misused>>)
  BY <1>1, <1>3, InstantiatedOwn DEF InstantiateWithImportObject
<1>4. QED
  BY <1>2, <1>3

(* One more export is read. *)
LEMMA ExportOwn ==
  ASSUME HandlesInv, NEW i \in Slots, inst[i].pc = "exporting", UNCHANGED imports,
         NEW T \in SUBSET (Handles(i) \cup {ExportNames(i)}), Alloc(T),
         NEW P \in Instance, Becomes(i, P),
         P.pc = "exporting", P.object = inst[i].object, P.native = inst[i].native,
         P.memory \in {inst[i].memory} \cup (Handles(i) \cap T)
  PROVE  Own(i)
<1>1. /\ inst' \in [Slots -> Instance] /\ inst'[i] = P /\ UNCHANGED clientVars
      /\ \A j \in Slots \ {i} : inst'[j] = inst[j]
  BY Becoming DEF HandlesInv
<1>2. T \subseteq MadeFor(i)
  BY MadeForHas DEF Handles
<1>3. heap' = heap \cup T /\ misused' = misused /\ heap' \ MadeFor(i) = heap \ MadeFor(i)
  BY <1>2 DEF Alloc
<1>4. Slot(i)
  BY DEF HandlesInv
<1>5. Entries(i)' /\ Held(i)'
  BY <1>1, <1>3, <1>4 DEF Slot, Entries, Held
<1>6. Left(i)'
  <2>1. Made(i)' = Made(i)
    BY DEF Made
  <2>2. QED
    BY <1>1, <1>3, <1>4, <2>1 DEF Slot, Left
<1>7. QED
  BY <1>1, <1>3, <1>5, <1>6 DEF Own, Slot, HandlesInv, HandlesTypeOK

LEMMA ExportMemoryOwn ==
  ASSUME HandlesInv, NEW i \in Slots, ExportMemory(i)
  PROVE  Own(i)
<1> DEFINE k == inst[i].exported + 1
           Q == [inst[i] EXCEPT !.exported = k]
           P == [inst[i] EXCEPT !.exported = k, !.memory = MemoryHandle(i, k)]
<1>1. /\ inst[i] \in Instance /\ inst[i].pc = "exporting"
      /\ Alloc({MemoryHandle(i, k)}) /\ Becomes(i, P) /\ UNCHANGED imports
      /\ inst[i].exported < MaxExports
  BY DEF ExportMemory, CanExport, HandlesInv, HandlesTypeOK
<1>2. k \in Nth /\ k \in 0..MaxExports
  BY <1>1 DEF Instance, Nth
<1>3. Q \in Instance
  BY <1>1, <1>2 DEF Instance
<1>4. P = [Q EXCEPT !.memory = MemoryHandle(i, k)]
  BY <1>1 DEF Instance
<1>5. /\ P.pc = "exporting" /\ P.object = inst[i].object /\ P.native = inst[i].native
      /\ P.memory = MemoryHandle(i, k)
  BY <1>1 DEF Instance
<1> HIDE DEF k, P, Q
<1>6. P \in Instance
  BY <1>2, <1>3, <1>4 DEF Instance
<1>7. MemoryHandle(i, k) \in Handles(i)
  BY <1>2 DEF Handles
<1>8. QED
  BY <1>1, <1>5, <1>6, <1>7, ExportOwn

LEMMA ExportFunctionOwn ==
  ASSUME HandlesInv, NEW i \in Slots, ExportFunction(i)
  PROVE  Own(i)
<1> DEFINE P == [inst[i] EXCEPT !.exported = @ + 1]
<1>1. /\ inst[i] \in Instance /\ inst[i].pc = "exporting"
      /\ Alloc({ExportNames(i)}) /\ Becomes(i, P) /\ UNCHANGED imports
      /\ inst[i].exported < MaxExports
  BY DEF ExportFunction, CanExport, HandlesInv, HandlesTypeOK
<1>2. inst[i].exported + 1 \in 0..MaxExports
  BY <1>1 DEF Instance
<1>3. /\ P \in Instance
      /\ P.pc = "exporting" /\ P.object = inst[i].object /\ P.native = inst[i].native
      /\ P.memory = inst[i].memory
  BY <1>1, <1>2 DEF Instance
<1> HIDE DEF P
<1>4. QED
  BY <1>1, <1>3, ExportOwn

LEMMA ExportFailsOwn ==
  ASSUME HandlesInv, NEW i \in Slots, ExportFails(i)
  PROVE  Own(i)
<1>1. /\ inst[i].pc = "exporting" /\ Fail(i) /\ Destroy({ExportList(i)})
      /\ UNCHANGED imports
  BY DEF ExportFails, CanExport
<1>2. /\ ExportList(i) \in heap
      /\ inst[i].native # Nil
  BY <1>1, FunctionKinds DEF HandlesInv, Slot, Held
<1>3. heap' = heap \ {ExportList(i)} /\ misused' = misused
  BY <1>1, <1>2 DEF Destroy
<1>4. heap' \ MadeFor(i) = heap \ MadeFor(i)
  BY <1>3, MadeForHas
<1>5. QED
  BY <1>1, <1>2, <1>3, <1>4, FailOwn

LEMMA ExportsDoneOwn ==
  ASSUME HandlesInv, NEW i \in Slots, ExportsDone(i)
  PROVE  Own(i)
<1> DEFINE next == IF inst[i].object = Nil THEN "open" ELSE "gathering"
           P == [inst[i] EXCEPT !.exported = 0, !.pc = next]
           Q == [inst[i] EXCEPT !.exported = 0]
<1>1. /\ inst[i] \in Instance /\ inst[i].pc = "exporting" /\ Becomes(i, P)
      /\ Destroy({ExportList(i)}) /\ UNCHANGED imports /\ Slot(i)
  BY DEF ExportsDone, HandlesInv, HandlesTypeOK
<1>2. Q \in Instance
  <2>1. 0 \in 0..MaxExports
    OBVIOUS
  <2>2. QED
    BY <1>1, <2>1 DEF Instance
<1>3. P = [Q EXCEPT !.pc = next] /\ next \in {"open", "gathering"}
  BY <1>1 DEF Instance
<1>4. /\ P.pc = next /\ P.object = inst[i].object /\ P.native = inst[i].native
      /\ P.memory = inst[i].memory
  BY <1>1 DEF Instance
<1> HIDE DEF P, Q
<1>5. P \in Instance
  BY <1>2, <1>3 DEF Instance, Pcs
<1>6. /\ inst' \in [Slots -> Instance] /\ inst'[i] = P /\ UNCHANGED clientVars
      /\ \A j \in Slots \ {i} : inst'[j] = inst[j]
  BY <1>1, <1>5, Becoming DEF HandlesInv
<1>7. heap' = heap \ {ExportList(i)} /\ misused' = misused
  BY <1>1 DEF Destroy, Slot, Held
<1>8. heap' \ MadeFor(i) = heap \ MadeFor(i)
  BY <1>7, MadeForHas
<1>9. Entries(i)'
  BY <1>1, <1>4, <1>6 DEF Slot, Entries
<1>10. Held(i)'
  <2>1. ASSUME NEW n \in Names PROVE imports[i][n] \in {Absent, Nil} \cup heap'
    <3>1. imports[i][n] \in {Absent, Nil} \cup heap
      BY <1>1 DEF Slot, Held
    <3>2. imports[i][n] # ExportList(i)
      BY <1>1, ListApart DEF Slot, Entries, OwnedMemories
    <3>3. QED
      BY <1>7, <3>1, <3>2
  <2>2. InstanceOf(i) \in heap' /\ \A e \in Handles(i) : e \in heap => e \in heap'
    BY <1>1, <1>7, ListApart DEF Slot, Held, Handles
  <2>3. QED
    BY <1>1, <1>4, <1>6, <2>1, <2>2 DEF Slot, Held
<1>11. Left(i)'
  <2>1. Made(i)' = Made(i)
    BY <1>1 DEF Made
  <2>2. QED
    BY <1>1, <1>3, <1>4, <1>6, <1>7, <2>1 DEF Slot, Left
<1>12. QED
  BY <1>1, <1>6, <1>7, <1>8, <1>9, <1>10, <1>11 DEF Own, Slot, HandlesInv, HandlesTypeOK

(* The functions of an import object, read back, become the imports. *)
LEMMA appendRawKind ==
  ASSUME NEW i \in Slots, NEW read \in SUBSET (Namespaces \X Names), appendRaw(i, read),
         imports \in [Slots -> [Names -> {Absent, Nil} \cup Natives]]
  PROVE  /\ imports' \in [Slots -> [Names -> {Absent, Nil} \cup Natives]]
         /\ \A j \in Slots \ {i} : imports'[j] = imports[j]
         /\ \A n \in Names : imports'[i][n] \in {Absent} \cup {RawFunc(i, f) : f \in read}
<1> DEFINE named == {f[2] : f \in read}
<1>1. PICK kept \in [named -> Namespaces] :
        /\ \A n \in named : <<kept[n], n>> \in read
        /\ imports' = [imports EXCEPT ![i] = [n \in Names |->
             IF n \in named THEN RawFunc(i, <<kept[n], n>>) ELSE Absent]]
  BY DEF appendRaw
<1> DEFINE entries == [n \in Names |->
             IF n \in named THEN RawFunc(i, <<kept[n], n>>) ELSE Absent]
<1>2. \A n \in Names : entries[n] \in {Absent} \cup {RawFunc(i, f) : f \in read}
  BY <1>1
<1>3. {RawFunc(i, f) : f \in read} \subseteq Natives
  BY NativesHas, MadeForHas
<1>4. entries \in [Names -> {Absent, Nil} \cup Natives]
  BY <1>2, <1>3
<1>5. imports' = [imports EXCEPT ![i] = entries]
  BY <1>1
<1> HIDE DEF entries, named
<1>6. QED
  BY <1>2, <1>4, <1>5

LEMMA GatherImportsOwn ==
  ASSUME HandlesInv, NEW i \in Slots, GatherImports(i)
  PROVE  Own(i)
<1> DEFINE F == UNION {functions[o] : o \in {o \in Objects : ObjectOf(o) = inst[i].object}}
<1>1. /\ inst[i] \in Instance /\ inst[i].pc = "gathering" /\ Slot(i)
      /\ imports \in [Slots -> [Names -> {Absent, Nil} \cup Natives]]
  BY DEF GatherImports, HandlesInv, HandlesTypeOK
<1>2. F \subseteq Namespaces \X Names
  BY DEF HandlesInv, HandlesTypeOK
<1>3. \/ \E read \in {{}, F} :
           /\ GetFunctions(i, F, read)
           /\ \/ appendRaw(i, read) /\ Becomes(i, [inst[i] EXCEPT !.pc = "open"])
              \/ read # {} /\ Fail(i) /\ UNCHANGED imports
      \/ GetFunctionsPanics(i, F) /\ Fail(i) /\ UNCHANGED imports
  BY DEF GatherImports
<1> HIDE DEF F
(* What is made. *)
<1>4. ASSUME NEW T \in SUBSET (RawFuncs(i) \cup {Iterator(i)}), Alloc(T)
      PROVE  heap' = heap \cup T /\ misused' = misused
             /\ heap' \ MadeFor(i) = heap \ MadeFor(i)
  <2>1. T \subseteq MadeFor(i)
    BY <1>4, MadeForHas DEF RawFuncs
  <2>2. QED
    BY <1>4, <2>1 DEF Alloc
<1>5. ASSUME NEW T \in SUBSET (RawFuncs(i) \cup {Iterator(i)}), Alloc(T), Fail(i),
             UNCHANGED imports
      PROVE  Own(i)
  <2>1. ExportList(i) \notin heap
    BY <1>1, ListApart, MadeForHas DEF Slot, Left, Made, Handles
  <2>2. ExportList(i) \notin T
    BY <1>5, ListApart DEF RawFuncs
  <2>3. inst[i].native # Nil
    BY <1>1, FunctionKinds DEF Slot, Held
  <2>4. QED
    BY <1>4, <1>5, <2>1, <2>2, <2>3, FailOwn
<1>6. ASSUME NEW T \in SUBSET (RawFuncs(i) \cup {Iterator(i)}), Alloc(T),
             NEW read \in SUBSET (Namespaces \X Names), appendRaw(i, read),
             {RawFunc(i, f) : f \in read} \subseteq T,
             Becomes(i, [inst[i] EXCEPT !.pc = "open"])
      PROVE  Own(i)
  <2> DEFINE P == [inst[i] EXCEPT !.pc = "open"]
  <2>1. /\ P \in Instance /\ P.pc = "open" /\ P.object = inst[i].object
        /\ P.native = inst[i].native /\ P.memory = inst[i].memory
    BY <1>1 DEF Instance, Pcs
  <2> HIDE DEF P
  <2>2. /\ inst' \in [Slots -> Instance] /\ inst'[i] = P /\ UNCHANGED clientVars
        /\ \A j \in Slots \ {i} : inst'[j] = inst[j]
    BY <1>6, <2>1, Becoming DEF HandlesInv, P
  <2>3. /\ imports' \in [Slots -> [Names -> {Absent, Nil} \cup Natives]]
        /\ \A j \in Slots \ {i} : imports'[j] = imports[j]
        /\ \A n \in Names : imports'[i][n] \in {Absent} \cup {RawFunc(i, f) : f \in read}
    BY <1>1, <1>6, appendRawKind
  <2>4. /\ heap' = heap \cup T /\ misused' = misused
        /\ heap' \ MadeFor(i) = heap \ MadeFor(i)
    BY <1>4, <1>6
  <2>5. inst[i].object # Nil
    BY <1>1 DEF Slot, Held
  <2>6. Entries(i)'
    BY <2>1, <2>2, <2>3, <2>5 DEF Entries, RawFuncs
  <2>7. Held(i)'
    BY <1>1, <1>6, <2>1, <2>2, <2>3, <2>4 DEF Slot, Held
  <2>8. Left(i)'
    <3>1. Made(i) = {}
      BY <1>1, <2>5, FunctionKinds DEF Slot, Entries, Made
    <3>2. QED
      BY <1>1, <2>1, <2>2, <2>4, <3>1 DEF Slot, Left
  <2>9. QED
    BY <2>2, <2>3, <2>4, <2>6, <2>7, <2>8 DEF Own, Slot
<1>7. ASSUME NEW read \in {{}, F}, GetFunctions(i, F, read)
      PROVE  \E T \in SUBSET (RawFuncs(i) \cup {Iterator(i)}) :
               Alloc(T) /\ {RawFunc(i, f) : f \in read} \subseteq T
  <2>1. CASE read = {} /\ UNCHANGED <<heap, misused>>
    <3>1. Alloc({})
      BY <2>1 DEF Alloc
    <3>2. QED
      BY <2>1, <3>1
  <2>2. CASE read = F /\ Alloc({RawFunc(i, f) : f \in F} \cup {Iterator(i)})
    BY <1>2, <2>2 DEF RawFuncs
  <2>3. QED
    BY <1>7, <2>1, <2>2 DEF GetFunctions
<1>8. CASE GetFunctionsPanics(i, F) /\ Fail(i) /\ UNCHANGED imports
  BY <1>5, <1>8 DEF GetFunctionsPanics
<1>9. ASSUME NEW read \in {{}, F}, GetFunctions(i, F, read),
             \/ appendRaw(i, read) /\ Becomes(i, [inst[i] EXCEPT !.pc = "open"])
             \/ read # {} /\ Fail(i) /\ UNCHANGED imports
      PROVE  Own(i)
  <2>1. read \in SUBSET (Namespaces \X Names)
    BY <1>2, <1>9
  <2>2. PICK T \in SUBSET (RawFuncs(i) \cup {Iterator(i)}) :
               Alloc(T) /\ {RawFunc(i, f) : f \in read} \subseteq T
    BY <1>7, <1>9
  <2>3. QED
    BY <1>5, <1>6, <1>9, <2>1, <2>2
<1>10. QED
  BY <1>3, <1>8, <1>9

(* Close frees what the instance points at, and that is all there is but    *)
(* what has been forgotten.                                                 *)
LEMMA CloseOwn ==
  ASSUME HandlesInv, NEW i \in Slots, Close(i)
  PROVE  Own(i)
<1> DEFINE P == [inst[i] EXCEPT !.pc = "closed", !.object = Nil]
           Q == [inst[i] EXCEPT !.pc = "closed"]
           D == FreedImports(i)
                \cup (IF inst[i].memory = Nil THEN {} ELSE FreedMemory(inst[i].memory, FALSE))
                \cup {inst[i].native}
<1>1. /\ inst[i] \in Instance /\ inst[i].pc = "open" /\ Slot(i) /\ Becomes(i, P)
      /\ Destroy(D) /\ UNCHANGED imports
  BY DEF Close, GetImports, HandlesInv, HandlesTypeOK
<1>2. Q \in Instance /\ P = [Q EXCEPT !.object = Nil]
  BY <1>1 DEF Instance, Pcs
<1>3. P.pc = "closed" /\ P.memory = inst[i].memory
  BY <1>1 DEF Instance
<1> HIDE DEF P, Q
<1>4. P \in Instance
  BY <1>2 DEF Instance
<1>5. /\ inst' \in [Slots -> Instance] /\ inst'[i] = P /\ UNCHANGED clientVars
      /\ \A j \in Slots \ {i} : inst'[j] = inst[j]
  BY <1>1, <1>4, Becoming DEF HandlesInv
<1>6. /\ inst[i].native = InstanceOf(i) /\ InstanceOf(i) \in heap
      /\ inst[i].memory \in {Nil} \cup (Handles(i) \cap heap)
      /\ \A n \in Names : imports[i][n] \in {Absent, Nil} \cup heap
  BY <1>1 DEF Slot, Held
<1>7. \A n \in Names : imports[i][n] \in {Absent, Func(i, n)} \cup OwnedMemories \cup RawFuncs(i)
  BY <1>1 DEF Slot, Entries
<1>8. FreedImports(i) \subseteq heap \cap MadeFor(i)
  BY <1>6, <1>7, FunctionKinds, MadeForHas
     DEF FreedImports, Present, OwnedMemories, RawFuncs
<1>9. D \subseteq heap \cap MadeFor(i)
  <2>1. Handles(i) \subseteq MadeFor(i)
    BY MadeForHas DEF Handles
  <2>2. QED
    BY <1>6, <1>8, <2>1, MadeForHas DEF FreedMemory
<1>10. heap' = heap \ D /\ misused' = misused /\ heap' \ MadeFor(i) = heap \ MadeFor(i)
  BY <1>1, <1>9 DEF Destroy
<1>11. Entries(i)' /\ Held(i)'
  BY <1>3, <1>5 DEF Entries, Held
<1>12. Left(i)'
  <2>1. SUFFICES ASSUME NEW e \in heap, e \in MadeFor(i), e \notin D
                 PROVE  e \in Forgotten(i)' \cup {ExportNames(i)}
    BY <1>3, <1>5, <1>10 DEF Left
  <2>2. e \in Made(i) \cup Handles(i) \cup {InstanceOf(i), ExportNames(i)}
              \cup RawFuncs(i) \cup {Iterator(i)}
    BY <1>1, <2>1 DEF Slot, Left
  <2>3. e \notin Made(i)
    <3>1. ASSUME NEW n \in Names, imports[i][n] = Func(i, n), e = Func(i, n) PROVE FALSE
      BY <2>1, <3>1, FunctionKinds DEF FreedImports, Present
    <3>2. QED
      BY <3>1 DEF Made
  <2>4. e # InstanceOf(i)
    BY <1>6, <2>1
  <2>5. ASSUME e \in Handles(i) PROVE e \in Forgotten(i)'
    <3>1. e # inst'[i].memory
      BY <1>3, <1>5, <2>1, <2>5, FunctionKinds DEF FreedMemory, Handles
    <3>2. QED
      BY <2>5, <3>1 DEF Forgotten, Handles
  <2>6. ASSUME e \in RawFuncs(i) PROVE e \in Forgotten(i)'
    <3>1. ASSUME NEW n \in Names, imports[i][n] = e PROVE FALSE
      <4>1. IsFunction(e) /\ e # Nil /\ e # Absent
        BY <2>6, FunctionKinds DEF RawFuncs
      <4>2. QED
        BY <2>1, <3>1, <4>1 DEF FreedImports, Present
    <3>2. QED
      BY <1>1, <2>6, <3>1 DEF Forgotten, RawFuncs
  <2>7. Iterator(i) \in Forgotten(i)'
    BY DEF Forgotten
  <2>8. QED
    BY <2>2, <2>3, <2>4, <2>5, <2>6, <2>7
<1>13. QED
  BY <1>1, <1>5, <1>10, <1>11, <1>12 DEF Own, Slot, HandlesInv, HandlesTypeOK

LEMMA FreeExportNamesOwn ==
  ASSUME HandlesInv, NEW i \in Slots, FreeExportNames(i)
  PROVE  Own(i)
<1>1. /\ inst[i].pc \in {"failed", "closed"} /\ ExportNames(i) \in heap
      /\ heap' = heap \ {ExportNames(i)} /\ misused' = misused
      /\ UNCHANGED <<clientVars, imports, inst>>
  BY DEF FreeExportNames, Destroy
<1>2. heap' \ MadeFor(i) = heap \ MadeFor(i)
  BY <1>1, MadeForHas
<1>3. Entries(i)' /\ Held(i)'
  BY <1>1 DEF Entries, Held
<1>4. Left(i)'
  <2>1. Left(i) /\ Forgotten(i)' = Forgotten(i)
    BY <1>1 DEF HandlesInv, Slot, Forgotten
  <2>2. QED
    BY <1>1, <2>1 DEF Left
<1>5. QED
  BY <1>1, <1>2, <1>3, <1>4 DEF Own, Slot, HandlesInv, HandlesTypeOK

(* The steps on the data of an instance change its index only. *)
LEMMA IndexOwn ==
  ASSUME HandlesInv, NEW i \in Slots, NEW x \in {NoIndex} \cup Nat,
         inst' = [inst EXCEPT ![i].context = x],
         UNCHANGED <<heap, misused, clientVars, imports>>
  PROVE  Own(i)
<1>1. inst \in [Slots -> Instance]
  BY DEF HandlesInv, HandlesTypeOK
<1>2. [inst[i] EXCEPT !.context = x] \in Instance
  BY <1>1 DEF Instance
<1>3. /\ inst' \in [Slots -> Instance] /\ inst'[i] = [inst[i] EXCEPT !.context = x]
      /\ \A j \in Slots \ {i} : inst'[j] = inst[j]
  BY <1>1, <1>2
<1>4. Aside(i)
  BY <1>1, <1>3 DEF Aside, Instance
<1>5. Slot(i)'
  <2>1. Slot(i) /\ inst[i].pc \in Pcs
    BY <1>1 DEF HandlesInv, Instance
  <2>2. QED
    BY <1>4, <2>1, AsideKeeps
<1>6. QED
  BY <1>3, <1>5 DEF Own, HandlesInv, HandlesTypeOK

LEMMA SetContextDataOwn ==
  ASSUME HandlesInv, NEW i \in Slots, NEW data \in Data, SetContextData(i, data)
  PROVE  Own(i)
<1> DEFINE x == IF inst[i].context = NoIndex THEN nextContextDataIndex ELSE inst[i].context
<1>1. inst[i] \in Instance /\ nextContextDataIndex \in Nat
  BY DEF HandlesInv, HandlesTypeOK
<1>2. x \in {NoIndex} \cup Nat
  BY <1>1 DEF Instance
<1>3. inst[i].native \in heap
  BY DEF SetContextData, HandlesInv, Slot, Held
<1>4. /\ inst' = [inst EXCEPT ![i].context = x]
      /\ UNCHANGED <<heap, misused, clientVars, imports>>
  BY <1>3 DEF SetContextData, AllocFrom
<1>5. QED
  BY <1>2, <1>4, IndexOwn

LEMMA DeleteContextDataOwn ==
  ASSUME HandlesInv, NEW i \in Slots, DeleteContextData(i)
  PROVE  Own(i)
  BY IndexOwn DEF DeleteContextData

-----------------------------------------------------------------------------
(* Steps of modules, memories and import objects *)

(* The step changes no instance and no imports, and makes and frees nothing *)
(* that was made for an instance.                                           *)
Outside ==
  /\ UNCHANGED <<inst, imports, contextVars>> /\ misused' = misused
  /\ \A i \in Slots : heap' \cap MadeFor(i) = heap \cap MadeFor(i)
  /\ heap \cap OwnedMemories \subseteq heap'
  /\ heap' \subseteq Natives
  /\ module' \in [Modules -> States] /\ memory' \in [Memories -> States]
  /\ object' \in [Objects -> States]
  /\ functions' \in [Objects -> SUBSET (Namespaces \X Names)]
  /\ Shared'

LEMMA OutsideKeeps ==
  ASSUME HandlesInv, Outside
  PROVE  HandlesInv'
<1>1. ASSUME NEW i \in Slots PROVE Slot(i)'
  <2>1. Slot(i) /\ inst[i].pc \in Pcs
    BY DEF HandlesInv, HandlesTypeOK, Instance
  <2>2. Aside(i)
    BY DEF Outside, Aside
  <2>3. QED
    BY <2>1, <2>2, AsideKeeps
<1>2. HandlesTypeOK'
  BY DEF HandlesInv, HandlesTypeOK, Outside, contextVars
<1>3. Contexts'
  BY DEF HandlesInv, Contexts, Outside, contextVars
<1>4. QED
  BY <1>1, <1>2, <1>3 DEF HandlesInv, Outside

LEMMA ModuleOutside ==
  ASSUME HandlesInv, NEW k \in Modules,
         Opened(k) \/ Serialize(k) \/ CloseModule(k)
  PROVE  Outside
<1> USE DEF HandlesInv, HandlesTypeOK
<1>1. /\ UNCHANGED <<inst, imports, contextVars, memory, object, functions>>
      /\ module' \in [Modules -> States]
  BY DEF Opened, Serialize, CloseModule, moduleOthers, States
<1>2. /\ module[k] = "open" => ModuleOf(k) \in heap
      /\ misused' = misused
      /\ heap' \in {heap, heap \cup {ModuleOf(k)}, heap \ {ModuleOf(k)}}
      /\ module'[k] = "open" => ModuleOf(k) \in heap'
      /\ \A j \in Modules \ {k} : module'[j] = module[j]
  BY DEF Opened, Serialize, CloseModule, Alloc, AllocFrom, Destroy, Shared
<1>3. /\ \A i \in Slots : heap' \cap MadeFor(i) = heap \cap MadeFor(i)
      /\ heap \cap OwnedMemories \subseteq heap'
  BY <1>2, SharedApart, OthersApart DEF OwnedMemories
<1>4. heap' \subseteq Natives
  BY <1>2, NativesHas
<1>5. Shared'
  BY <1>1, <1>2, OthersApart DEF Shared
<1>6. QED
  BY <1>1, <1>2, <1>3, <1>4, <1>5 DEF Outside

LEMMA MemoryOutside ==
  ASSUME HandlesInv, NEW w \in Memories, NewMemory(w) \/ CloseMemory(w)
  PROVE  Outside
<1> USE DEF HandlesInv, HandlesTypeOK
<1>1. /\ UNCHANGED <<inst, imports, contextVars, module, object, functions>>
      /\ memory' \in [Memories -> States]
  BY DEF NewMemory, CloseMemory, States
<1>2. /\ misused' = misused
      /\ heap' \in {heap, heap \cup {OwnedMemory(w)}} /\ OwnedMemory(w) \in heap'
      /\ \A v \in Memories \ {w} : memory'[v] = memory[v]
  BY DEF NewMemory, CloseMemory, Alloc, Destroy, FreedMemory, Shared
<1>3. /\ \A i \in Slots : heap' \cap MadeFor(i) = heap \cap MadeFor(i)
      /\ heap \subseteq heap'
  BY <1>2, SharedApart
<1>4. heap' \subseteq Natives
  BY <1>2, NativesHas
<1>5. Shared'
  BY <1>1, <1>2, <1>3 DEF Shared
<1>6. QED
  BY <1>1, <1>2, <1>3, <1>4, <1>5 DEF Outside

LEMMA NewObjectOutside ==
  ASSUME HandlesInv, NEW o \in Objects, NewImportObject(o) \/ NewWasiImportObject(o)
  PROVE  Outside
<1> USE DEF HandlesInv, HandlesTypeOK
<1>1. PICK F \in SUBSET (Namespaces \X Names) : NewObject(o, F)
  BY DEF NewImportObject, NewWasiImportObject
<1>2. /\ UNCHANGED <<inst, imports, contextVars, module, memory>>
      /\ object' \in [Objects -> States] /\ misused' = misused
      /\ functions' \in [Objects -> SUBSET (Namespaces \X Names)]
      /\ heap' = heap \cup {ObjectOf(o)}
      /\ \A p \in Objects \ {o} : object'[p] = object[p]
  BY <1>1 DEF NewObject, States, Alloc
<1>3. \A i \in Slots : heap' \cap MadeFor(i) = heap \cap MadeFor(i)
  BY <1>2, SharedApart
<1>4. heap' \subseteq Natives
  BY <1>2, NativesHas
<1>5. Shared'
  BY <1>2 DEF Shared
<1>6. QED
  BY <1>2, <1>3, <1>4, <1>5 DEF Outside

LEMMA CloseImportObjectOutside ==
  ASSUME HandlesInv, NEW o \in Objects, CloseImportObject(o)
  PROVE  Outside
<1> USE DEF HandlesInv, HandlesTypeOK
<1>1. /\ UNCHANGED <<inst, imports, contextVars, module, memory>>
      /\ object' \in [Objects -> States] /\ object'[o] = "closed"
      /\ functions' \in [Objects -> SUBSET (Namespaces \X Names)]
      /\ \A p \in Objects \ {o} : object'[p] = object[p]
  BY DEF CloseImportObject, States
<1>2. heap' = heap \ {ObjectOf(o)} /\ misused' = misused
  BY DEF CloseImportObject, Destroy, Shared
<1>3. /\ \A i \in Slots : heap' \cap MadeFor(i) = heap \cap MadeFor(i)
      /\ heap \cap OwnedMemories \subseteq heap'
  BY <1>2, SharedApart, OthersApart DEF OwnedMemories
<1>4. Shared'
  BY <1>1, <1>2, OthersApart DEF Shared
<1>5. QED
  BY <1>1, <1>2, <1>3, <1>4 DEF Outside

(* The functions that Extend makes are made for the object, and it uses     *)
(* memories that exist.                                                     *)
LEMMA ExtendOutside ==
  ASSUME HandlesInv, NEW o \in Objects, NEW m \in Slots, Extend(o, m)
  PROVE  Outside
<1> USE DEF HandlesInv, HandlesTypeOK
<1>1. UNCHANGED <<inst, imports, contextVars, module, memory, object>>
  BY DEF Extend
<1>2. functions' \in [Objects -> SUBSET (Namespaces \X Names)]
  <2>1. PICK ns \in Namespaces :
          functions' \in {functions, [functions EXCEPT ![o] = @ \cup
            {<<ns, n>> : n \in {n \in Present(m) : IsFunction(imports[m][n])}}]}
    BY DEF Extend
  <2>2. {<<ns, n>> : n \in {n \in Present(m) : IsFunction(imports[m][n])}}
          \subseteq Namespaces \X Names
    BY DEF Present
  <2>3. QED
    BY <2>1, <2>2
<1>3. ObjectOf(o) \in heap
  BY DEF Extend, Shared
<1>4. ImportedMemories(m) \subseteq heap
  <2>1. ASSUME NEW n \in Names, imports[m][n] # Absent, ~IsFunction(imports[m][n])
        PROVE  imports[m][n] \in heap
    <3>1. imports[m][n] \in {Absent, Nil} \cup heap
      BY DEF Extend, Slot, Held
    <3>2. QED
      BY <2>1, <3>1, FunctionKinds
  <2>2. QED
    BY <2>1 DEF ImportedMemories, Present
<1>5. MadeImports(o, m) \subseteq {Func(o, n) : n \in Names}
  BY DEF MadeImports, Present
<1>6. heap' = heap \cup MadeImports(o, m) /\ misused' = misused
  BY <1>3, <1>4 DEF Extend, AllocFrom
<1>7. \A i \in Slots : heap' \cap MadeFor(i) = heap \cap MadeFor(i)
  BY <1>5, <1>6, SharedApart
<1>8. heap' \subseteq Natives
  BY <1>5, <1>6, NativesHas
<1>9. Shared'
  BY <1>1, <1>6 DEF Shared
<1>10. QED
  BY <1>1, <1>2, <1>6, <1>7, <1>8, <1>9 DEF Outside

-----------------------------------------------------------------------------
(* Context data *)

ContextTypes ==
  /\ nextContextDataIndex \in Nat
  /\ DOMAIN instancesContextData \subseteq 0..(nextContextDataIndex - 1)
  /\ \A x \in DOMAIN instancesContextData : instancesContextData[x] \in Data
  /\ latest \in [Slots -> {Nil} \cup Data]

(* The steps of an instance that is not open leave no index behind, and     *)
(* Close leaves the index to its finalizer.                                 *)
LEMMA IndicesKept ==
  ASSUME HandlesInv, NEW i \in Slots, UNCHANGED contextVars,
         \A j \in Slots \ {i} : inst'[j] = inst[j],
         inst'[i].context = inst[i].context,
         inst[i].pc \in {"open", "closed"} => inst'[i].pc \in {"open", "closed"}
  PROVE  ContextTypes' /\ Contexts'
<1>1. ContextTypes'
  BY DEF HandlesInv, HandlesTypeOK, ContextTypes, contextVars
<1>2. \A j \in Slots : inst'[j].context = inst[j].context
  OBVIOUS
<1>3. Contexts'
  BY <1>2 DEF HandlesInv, Contexts, contextVars
<1>4. QED
  BY <1>1, <1>3

LEMMA StepIndices ==
  ASSUME HandlesInv, NEW i \in Slots,
         \/ \E n \in Names : AppendFunction(i, n) \/ \E w \in Memories : AppendMemory(i, n, w)
         \/ MakeImports(i) \/ NewInstance(i)
         \/ \E k \in Modules : InstantiateWithImports(i, k)
         \/ \E k \in Modules, o \in Objects : InstantiateWithImportObject(i, k, o)
         \/ ExportMemory(i) \/ ExportFunction(i) \/ ExportFails(i) \/ ExportsDone(i)
         \/ GatherImports(i) \/ Close(i) \/ FreeExportNames(i)
  PROVE  ContextTypes' /\ Contexts'
<1>1. inst \in [Slots -> Instance] /\ inst[i] \in Instance
  BY DEF HandlesInv, HandlesTypeOK
<1>2. inst[i].context # NoIndex => inst[i].pc \in {"open", "closed"}
  BY DEF HandlesInv, Contexts
<1>3. CASE \/ \E n \in Names : AppendFunction(i, n) \/ \E w \in Memories : AppendMemory(i, n, w)
           \/ FreeExportNames(i)
  BY <1>3, IndicesKept DEF AppendFunction, AppendMemory, Append, FreeExportNames
<1>4. CASE inst[i].pc \notin {"open", "closed"} /\ Fail(i)
  <2>1. /\ inst'[i] = [NewSlot EXCEPT !.pc = "failed", !.native = inst[i].native]
        /\ UNCHANGED contextVars /\ \A j \in Slots \ {i} : inst'[j] = inst[j]
    BY <1>1, <1>4 DEF Fail, Becomes
  <2>2. inst'[i].context = NoIndex
    BY <2>1 DEF NewSlot
  <2>3. QED
    BY <1>2, <1>4, <2>1, <2>2, IndicesKept
<1>5. ASSUME inst[i].pc \notin {"open", "closed"},
             NEW f, Becomes(i, f), f.context = inst[i].context
      PROVE  ContextTypes' /\ Contexts'
  <2>1. /\ inst'[i] = f /\ UNCHANGED contextVars
        /\ \A j \in Slots \ {i} : inst'[j] = inst[j]
    BY <1>1, <1>5 DEF Becomes
  <2>2. QED
    BY <1>5, <2>1, IndicesKept
<1>6. CASE MakeImports(i)
  BY <1>1, <1>5, <1>6 DEF MakeImports, Instance
<1>7. CASE NewInstance(i) \/ \E k \in Modules : InstantiateWithImports(i, k)
  <2>1. inst[i].pc = "building"
    BY <1>7 DEF NewInstance, InstantiateWithImports
  <2>2. CASE Refused(i)
    BY <1>4, <2>1, <2>2 DEF Refused
  <2>3. ASSUME NEW S, Instantiated(i, S) PROVE ContextTypes' /\ Contexts'
    <3> DEFINE P == [inst[i] EXCEPT !.pc = "exporting", !.native = InstanceOf(i)]
    <3>1. P.context = inst[i].context /\ Becomes(i, P)
      BY <1>1, <2>3 DEF Instantiated, Instance
    <3> HIDE DEF P
    <3>2. QED
      BY <1>5, <2>1, <3>1
  <2>4. QED
    BY <1>7, <2>2, <2>3 DEF NewInstance, InstantiateWithImports
<1>8. ASSUME NEW k \in Modules, NEW o \in Objects, InstantiateWithImportObject(i, k, o)
      PROVE  ContextTypes' /\ Contexts'
  <2>1. inst[i].pc = "fresh"
    BY <1>8 DEF InstantiateWithImportObject
  <2>2. CASE Fail(i)
    BY <1>4, <2>1, <2>2
  <2>3. CASE ~Fail(i)
    <3> DEFINE P == [inst[i] EXCEPT !.pc = "exporting", !.native = InstanceOf(i),
                                    !.object = ObjectOf(o)]
    <3>1. P.context = inst[i].context
      BY <1>1 DEF Instance
    <3>2. Becomes(i, P)
      BY <1>8, <2>3 DEF InstantiateWithImportObject
    <3> HIDE DEF P
    <3>3. QED
      BY <1>5, <2>1, <3>1, <3>2
  <2>4. QED
    BY <2>2, <2>3
<1>9. CASE ExportMemory(i)
  <2> DEFINE k == inst[i].exported + 1
             P == [inst[i] EXCEPT !.exported = k, !.memory = MemoryHandle(i, k)]
  <2>1. P.context = inst[i].context /\ Becomes(i, P) /\ inst[i].pc = "exporting"
    BY <1>1, <1>9 DEF ExportMemory, CanExport, Instance
  <2> HIDE DEF P
  <2>2. QED
    BY <1>5, <2>1
<1>10. CASE ExportFunction(i)
  BY <1>1, <1>5, <1>10 DEF ExportFunction, CanExport, Instance
<1>11. CASE ExportFails(i)
  BY <1>4, <1>11 DEF ExportFails, CanExport
<1>12. CASE ExportsDone(i)
  <2> DEFINE P == [inst[i] EXCEPT !.exported = 0,
                     !.pc = IF inst[i].object = Nil THEN "open" ELSE "gathering"]
  <2>1. P.context = inst[i].context /\ Becomes(i, P) /\ inst[i].pc = "exporting"
    BY <1>1, <1>12 DEF ExportsDone, Instance
  <2> HIDE DEF P
  <2>2. QED
    BY <1>5, <2>1
<1>13. CASE GatherImports(i)
  <2>1. inst[i].pc = "gathering"
    BY <1>13 DEF GatherImports
  <2>2. Fail(i) \/ Becomes(i, [inst[i] EXCEPT !.pc = "open"])
    BY <1>13 DEF GatherImports
  <2>3. QED
    BY <1>1, <1>4, <1>5, <2>1, <2>2 DEF Instance
<1>14. CASE Close(i)
  <2>1. Becomes(i, [inst[i] EXCEPT !.pc = "closed", !.object = Nil])
    BY <1>14 DEF Close
  <2>2. /\ inst'[i].context = inst[i].context /\ inst'[i].pc = "closed"
        /\ UNCHANGED contextVars /\ \A j \in Slots \ {i} : inst'[j] = inst[j]
    BY <1>1, <2>1 DEF Becomes, Instance
  <2>3. QED
    BY <2>2, IndicesKept
<1>15. QED
  BY <1>3, <1>6, <1>7, <1>8, <1>9, <1>10, <1>11, <1>12, <1>13, <1>14

(* A new index is nobody else's: every index in use is below the counter.   *)
LEMMA SetContextDataIndices ==
  ASSUME HandlesInv, NEW i \in Slots, NEW data \in Data, SetContextData(i, data)
  PROVE  ContextTypes' /\ Contexts'
<1> DEFINE new == inst[i].context = NoIndex
           x == IF new THEN nextContextDataIndex ELSE inst[i].context
<1> USE DEF HandlesInv, HandlesTypeOK
<1>1. /\ inst[i].pc = "open" /\ inst' = [inst EXCEPT ![i].context = x]
      /\ nextContextDataIndex' = IF new THEN nextContextDataIndex + 1
                                         ELSE nextContextDataIndex
      /\ instancesContextData' =
           [y \in DOMAIN instancesContextData \cup {x} |->
              IF y = x THEN data ELSE instancesContextData[y]]
      /\ latest' = [latest EXCEPT ![i] = data]
  BY DEF SetContextData, NextIndex
<1>2. inst \in [Slots -> Instance] /\ latest \in [Slots -> {Nil} \cup Data]
      /\ nextContextDataIndex \in Nat
  OBVIOUS
<1>3. /\ inst'[i].context = x /\ inst'[i].pc = "open"
      /\ \A j \in Slots \ {i} : inst'[j] = inst[j]
  BY <1>1, <1>2 DEF Instance
<1>4. /\ x \in Nat /\ x < nextContextDataIndex' /\ x # NoIndex
      /\ \A j \in Slots \ {i} : inst[j].context # x
      /\ nextContextDataIndex <= nextContextDataIndex' /\ nextContextDataIndex' \in Nat
  BY <1>1, <1>2 DEF Contexts, NoIndex, Instance
<1>5. /\ DOMAIN instancesContextData' = DOMAIN instancesContextData \cup {x}
      /\ instancesContextData'[x] = data
      /\ \A y \in DOMAIN instancesContextData \ {x} :
           instancesContextData'[y] = instancesContextData[y]
  BY <1>1
<1> HIDE DEF x, new
<1>6. ContextTypes'
  <2>1. DOMAIN instancesContextData' \subseteq 0..(nextContextDataIndex' - 1)
    BY <1>2, <1>4, <1>5
  <2>2. \A y \in DOMAIN instancesContextData' : instancesContextData'[y] \in Data
    BY <1>5
  <2>3. QED
    BY <1>1, <1>2, <1>4, <2>1, <2>2 DEF ContextTypes
<1>7. Contexts'
  <2>1. ASSUME NEW j \in Slots, inst'[j].context # NoIndex
        PROVE  /\ inst'[j].pc \in {"open", "closed"}
               /\ inst'[j].context \in DOMAIN instancesContextData'
               /\ instancesContextData'[inst'[j].context] = latest'[j]
               /\ \A k \in Slots : inst'[k].context = inst'[j].context => k = j
    <3>1. CASE j = i
      BY <1>1, <1>2, <1>3, <1>4, <1>5, <3>1
    <3>2. CASE j # i
      BY <1>1, <1>2, <1>3, <1>4, <1>5, <2>1, <3>2 DEF Contexts
    <3>3. QED
      BY <3>1, <3>2
  <2>2. ASSUME NEW y \in DOMAIN instancesContextData'
        PROVE  \E j \in Slots : y = inst'[j].context
    <3>1. CASE y = x
      BY <1>3, <3>1
    <3>2. CASE y # x
      <4>1. PICK j \in Slots : y = inst[j].context
        BY <1>5, <3>2 DEF Contexts
      <4>2. CASE j = i
        <5>1. y # NoIndex
          BY <1>2, <1>5, <2>2, <3>2 DEF NoIndex
        <5>2. QED
          BY <3>2, <4>1, <4>2, <5>1 DEF x, new
      <4>3. QED
        BY <1>3, <4>1, <4>2
    <3>3. QED
      BY <3>1, <3>2
  <2>3. QED
    BY <2>1, <2>2 DEF Contexts
<1>8. QED
  BY <1>6, <1>7

LEMMA DeleteContextDataIndices ==
  ASSUME HandlesInv, NEW i \in Slots, DeleteContextData(i)
  PROVE  ContextTypes' /\ Contexts'
<1> USE DEF HandlesInv, HandlesTypeOK
<1> DEFINE x == inst[i].context
<1>1. /\ inst' = [inst EXCEPT ![i].context = NoIndex] /\ x # NoIndex
      /\ instancesContextData' =
           [y \in DOMAIN instancesContextData \ {x} |-> instancesContextData[y]]
      /\ latest' = [latest EXCEPT ![i] = Nil]
      /\ nextContextDataIndex' = nextContextDataIndex
  BY DEF DeleteContextData
<1>2. inst \in [Slots -> Instance] /\ latest \in [Slots -> {Nil} \cup Data]
  OBVIOUS
<1>3. /\ inst'[i].context = NoIndex
      /\ \A j \in Slots \ {i} : inst'[j] = inst[j]
  BY <1>1, <1>2 DEF Instance
<1>4. /\ DOMAIN instancesContextData' = DOMAIN instancesContextData \ {x}
      /\ \A y \in DOMAIN instancesContextData \ {x} :
           instancesContextData'[y] = instancesContextData[y]
      /\ \A j \in Slots \ {i} : inst[j].context # x
  BY <1>1 DEF Contexts
<1>5. ContextTypes'
  BY <1>1, <1>2, <1>4 DEF ContextTypes
<1> HIDE DEF x
<1>6. Contexts'
  <2>1. ASSUME NEW j \in Slots, inst'[j].context # NoIndex
        PROVE  /\ inst'[j].pc \in {"open", "closed"}
               /\ inst'[j].context \in DOMAIN instancesContextData'
               /\ instancesContextData'[inst'[j].context] = latest'[j]
               /\ \A k \in Slots : inst'[k].context = inst'[j].context => k = j
    BY <1>1, <1>2, <1>3, <1>4, <2>1 DEF Contexts
  <2>2. ASSUME NEW y \in DOMAIN instancesContextData'
        PROVE  \E j \in Slots : y = inst'[j].context
    BY <1>3, <1>4 DEF Contexts, x
  <2>3. QED
    BY <2>1, <2>2 DEF Contexts
<1>7. QED
  BY <1>5, <1>6

-----------------------------------------------------------------------------
LEMMA InitHandles == Init => HandlesInv
<1> SUFFICES ASSUME Init PROVE HandlesInv
  OBVIOUS
<1>1. NewSlot \in Instance /\ NewSlot.pc = "fresh" /\ NewSlot.object = Nil
      /\ NewSlot.native = Nil /\ NewSlot.memory = Nil /\ NewSlot.context = NoIndex
  BY DEF NewSlot, Instance, Pcs
<1> HIDE DEF NewSlot
<1>2. HandlesTypeOK
  <2>1. inst \in [Slots -> Instance] /\ imports \in [Slots -> [Names -> {Absent, Nil} \cup Natives]]
    BY <1>1 DEF Init, NoImports
  <2>2. ContextTypes
    BY DEF Init, ContextTypes
  <2>3. QED
    BY <2>1, <2>2 DEF Init, HandlesTypeOK, States, ContextTypes
<1>3. ASSUME NEW i \in Slots PROVE Slot(i)
  BY <1>1 DEF Init, Slot, Entries, Held, Left, NoImports
<1>4. Shared /\ Contexts
  BY <1>1 DEF Init, Shared, Contexts
<1>5. QED
  BY <1>2, <1>3, <1>4 DEF HandlesInv, Init

(* The steps of an instance *)
InstanceStep(i) ==
  \/ \E n \in Names : AppendFunction(i, n) \/ \E w \in Memories : AppendMemory(i, n, w)
  \/ MakeImports(i) \/ NewInstance(i)
  \/ \E k \in Modules : InstantiateWithImports(i, k)
  \/ \E k \in Modules, o \in Objects : InstantiateWithImportObject(i, k, o)
  \/ ExportMemory(i) \/ ExportFunction(i) \/ ExportFails(i) \/ ExportsDone(i)
  \/ GatherImports(i) \/ Close(i) \/ FreeExportNames(i)
  \/ \E data \in Data : SetContextData(i, data)
  \/ DeleteContextData(i)

LEMMA InstanceSteps ==
  ASSUME HandlesInv, NEW i \in Slots, InstanceStep(i)
  PROVE  HandlesInv'
<1>1. Own(i)
  BY AppendOwn, MakeImportsOwn, NewInstanceOwn, WithImportObjectOwn, ExportMemoryOwn,
     ExportFunctionOwn, ExportFailsOwn, ExportsDoneOwn, GatherImportsOwn, CloseOwn,
     FreeExportNamesOwn, SetContextDataOwn, DeleteContextDataOwn DEF InstanceStep
<1>2. ContextTypes' /\ Contexts'
  BY StepIndices, SetContextDataIndices, DeleteContextDataIndices DEF InstanceStep
<1>3. /\ \A j \in Slots : Slot(j)'
      /\ Shared' /\ misused' = {} /\ heap' \subseteq Natives
  BY <1>1, OwnKeeps
<1>4. HandlesTypeOK'
  BY <1>1, <1>2, <1>3 DEF HandlesInv, HandlesTypeOK, Own, clientVars, ContextTypes
<1>5. QED
  BY <1>2, <1>3, <1>4 DEF HandlesInv

LEMMA NextHandles == HandlesInv /\ [Next]_vars => HandlesInv'
<1> SUFFICES ASSUME HandlesInv, [Next]_vars PROVE HandlesInv'
  OBVIOUS
<1>1. ASSUME NEW i \in Slots, InstanceStep(i) PROVE HandlesInv'
  BY <1>1, InstanceSteps
<1>2. CASE Outside
  BY <1>2, OutsideKeeps
<1>3. ASSUME NEW k \in Modules,
             Compile(k) \/ DeserializeModule(k) \/ Serialize(k) \/ CloseModule(k)
      PROVE  Outside
  BY <1>3, ModuleOutside DEF Compile, DeserializeModule
<1>4. ASSUME NEW w \in Memories, NewMemory(w) \/ CloseMemory(w) PROVE Outside
  BY <1>4, MemoryOutside
<1>5. ASSUME NEW o \in Objects,
             \/ NewImportObject(o) \/ NewWasiImportObject(o) \/ CloseImportObject(o)
             \/ \E m \in Slots : Extend(o, m)
      PROVE  Outside
  BY <1>5, NewObjectOutside, CloseImportObjectOutside, ExtendOutside
<1>6. CASE UNCHANGED vars
  BY <1>6 DEF vars, HandlesInv, HandlesTypeOK, Slot, Entries, Held, Left, Made, Forgotten,
     Shared, Contexts
<1>7. QED
  BY <1>1, <1>2, <1>3, <1>4, <1>5, <1>6 DEF Next, InstanceStep

LEMMA HandlesInvariant == Spec => []HandlesInv
  BY InitHandles, NextHandles, PTL DEF Spec

-----------------------------------------------------------------------------
(* Every variable stays in its range: what an instance points at is a       *)
(* native object or nothing, and an index is never above the counter.       *)
THEOREM HandlesTypeCorrect == Spec => []HandlesTypeOK
<1>1. HandlesInv => HandlesTypeOK
  BY DEF HandlesInv
<1>2. QED
  BY <1>1, HandlesInvariant, PTL

(* Nothing is freed twice or used once it is freed, for any number of       *)
(* instances, modules, memories and import objects, made and closed in any  *)
(* order.                                                                   *)
THEOREM NothingMisused == Spec => []NoMisuse
<1>1. HandlesInv => NoMisuse
  BY DEF HandlesInv, NoMisuse
<1>2. QED
  BY <1>1, HandlesInvariant, PTL

(* An open instance has its memory and its imported functions, whatever     *)
(* other instances were closed.                                             *)
THEOREM OpenAlwaysWhole == Spec => []OpenIsWhole
<1>1. ASSUME HandlesInv PROVE OpenIsWhole
  <2>1. SUFFICES ASSUME NEW i \in Slots, inst[i].pc = "open"
                 PROVE  /\ InstanceOf(i) \in heap
                        /\ inst[i].memory # Nil => inst[i].memory \in heap
                        /\ inst[i].object = Nil =>
                             \A n \in Names :
                               imports[i][n] # Absent /\ IsFunction(imports[i][n])
                                 => Func(i, n) \in heap
    BY DEF OpenIsWhole, GetImports, Present
  <2>2. Slot(i)
    BY <1>1 DEF HandlesInv
  <2>3. ASSUME inst[i].object = Nil, NEW n \in Names, imports[i][n] # Absent,
               IsFunction(imports[i][n])
        PROVE  Func(i, n) \in heap
    <3>1. imports[i][n] = Func(i, n)
      BY <2>1, <2>2, <2>3, FunctionKinds DEF Slot, Entries, OwnedMemories
    <3>2. QED
      BY <2>1, <2>2, <3>1, FunctionKinds DEF Slot, Held
  <2>4. QED
    BY <2>1, <2>2, <2>3 DEF Slot, Held
<1>2. QED
  BY <1>1, HandlesInvariant, PTL

(* Instance.Close leaves nothing behind but what the code has forgotten and *)
(* the names a finalizer frees; and an instance that could not be made      *)
(* leaves no list of exports.                                               *)
THEOREM ClosedAlwaysFreed == Spec => []ClosedFreesAll
<1>1. HandlesInv => ClosedFreesAll
  BY DEF HandlesInv, Slot, Left, ClosedFreesAll
<1>2. QED
  BY <1>1, HandlesInvariant, PTL

(* An instance finds the data that was last set for it under its index, and *)
(* the table holds nothing for an instance that is gone.                    *)
THEOREM ContextDataAlwaysOwn == Spec => []ContextDataOwn
<1>1. HandlesInv => ContextDataOwn
  BY DEF HandlesInv, Contexts, ContextDataOwn
<1>2. QED
  BY <1>1, HandlesInvariant, PTL

-----------------------------------------------------------------------------
(* Conversions *)

(* Facts about \div and % that the provers do not find by themselves. *)
LEMMA ProductMonotone ==
  ASSUME NEW k \in Nat, NEW a \in Int, NEW b \in Int, a <= b
  PROVE  k * a <= k * b
<1>1. k * (b - a) >= 0
  OBVIOUS
<1>2. k * (b - a) = k * b - k * a
  OBVIOUS
<1>3. QED
  BY <1>1, <1>2

(* The remainder is the only number of its range that differs by a multiple.*)
LEMMA Remainder ==
  ASSUME NEW size \in Nat \ {0}, NEW v \in Int
  PROVE  /\ v % size \in 0..(size - 1)
         /\ \E q \in Int : v = size * q + (v % size)
<1>1. v % size \in 0..(size - 1)
  OBVIOUS
<1>2. v \div size \in Int
  OBVIOUS
<1>3. v = size * (v \div size) + (v % size)
  OBVIOUS
<1>4. QED
  BY <1>1, <1>2, <1>3

LEMMA RemainderUnique ==
  ASSUME NEW size \in Nat \ {0}, NEW v \in Int, NEW q \in Int, NEW r \in 0..(size - 1),
         v = size * q + r
  PROVE  v % size = r
<1>1. PICK p \in Int : v = size * p + (v % size)
  BY Remainder
<1>2. v % size \in 0..(size - 1)
  BY Remainder
<1>3. CASE p >= q + 1
  <2>1. size * (q + 1) <= size * p
    BY <1>3, ProductMonotone
  <2>2. size * (q + 1) = size * q + size
    OBVIOUS
  <2>3. size * p \in Int /\ size * q \in Int
    OBVIOUS
  <2>4. QED
    BY <1>1, <1>2, <2>1, <2>2, <2>3
<1>4. CASE p + 1 <= q
  <2>1. size * (p + 1) <= size * q
    BY <1>4, ProductMonotone
  <2>2. size * (p + 1) = size * p + size
    OBVIOUS
  <2>3. size * p \in Int /\ size * q \in Int
    OBVIOUS
  <2>4. QED
    BY <1>1, <1>2, <2>1, <2>2, <2>3
<1>5. CASE p = q
  <2>1. size * p = size * q /\ size * q \in Int
    BY <1>5
  <2>2. QED
    BY <1>1, <1>2, <2>1
<1>6. QED
  BY <1>3, <1>4, <1>5

LEMMA Halves ==
  ASSUME NEW size \in Nat \ {0}, size % 2 = 0
  PROVE  size \div 2 \in Nat /\ 2 * (size \div 2) = size
  OBVIOUS

(* A signed number survives the way through an unsigned one. *)
LEMMA SignedKept ==
  ASSUME NEW size \in Nat \ {0}, size % 2 = 0, NEW v \in SignedNumbers(size)
  PROVE  /\ ToSigned(v, size) = v
         /\ ToUnsigned(v, size) = IF v >= 0 THEN v ELSE v + size
<1>1. size \div 2 \in Nat /\ 2 * (size \div 2) = size
  BY Halves
<1>2. v \in Int /\ -(size \div 2) <= v /\ v < size \div 2
  BY <1>1 DEF SignedNumbers
<1>3. CASE v >= 0
  <2>1. v \in 0..(size - 1) /\ v = size * 0 + v
    BY <1>1, <1>2, <1>3
  <2>2. v % size = v
    BY <1>2, <2>1, RemainderUnique
  <2>3. QED
    BY <1>2, <1>3, <2>2 DEF ToSigned, ToUnsigned
<1>4. CASE v < 0
  <2>1. v + size \in 0..(size - 1) /\ v = size * (-1) + (v + size)
    BY <1>1, <1>2, <1>4
  <2>2. v % size = v + size
    BY <1>2, <2>1, RemainderUnique
  <2>3. v + size >= size \div 2
    BY <1>1, <1>2
  <2>4. QED
    BY <1>1, <1>2, <1>4, <2>2, <2>3 DEF ToSigned, ToUnsigned
<1>5. QED
  BY <1>2, <1>3, <1>4

(* A conversion changes a number by a multiple of the size. *)
LEMMA SignedRest ==
  ASSUME NEW size \in Nat \ {0}, NEW v \in Int
  PROVE  ToSigned(v, size) \in Int /\ (ToSigned(v, size) - v) % size = 0
<1>1. PICK q \in Int : v = size * q + (v % size)
  BY Remainder
<1>2. v % size \in Int /\ size * q \in Int
  BY Remainder
<1>3. ToSigned(v, size) \in {v % size, (v % size) - size}
  BY DEF ToSigned, ToUnsigned
<1>4. CASE ToSigned(v, size) = v % size
  <2>1. size * (-q) = -(size * q)
    OBVIOUS
  <2>2. ToSigned(v, size) - v = size * (-q) + 0
    BY <1>1, <1>2, <1>4, <2>1
  <2>3. QED
    BY <1>2, <1>4, <2>2, RemainderUnique
<1>5. CASE ToSigned(v, size) = (v % size) - size
  <2>1. size * (-q - 1) = -(size * q) - size
    OBVIOUS
  <2>2. ToSigned(v, size) - v = size * (-q - 1) + 0
    BY <1>1, <1>2, <1>5, <2>1
  <2>3. QED
    BY <1>2, <1>5, <2>2, RemainderUnique
<1>6. QED
  BY <1>3, <1>4, <1>5

(* A remainder does not change the remainder by a divisor. *)
LEMMA RemainderTwice ==
  ASSUME NEW size \in Nat \ {0}, NEW wide \in Nat \ {0}, wide % size = 0, NEW v \in Int
  PROVE  (v % wide) % size = v % size
<1>1. PICK q \in Int : v = wide * q + (v % wide)
  BY Remainder
<1>2. PICK n \in Int : wide = size * n
  <2>1. wide \in Int
    OBVIOUS
  <2>2. PICK n \in Int : wide = size * n + (wide % size)
    BY <2>1, Remainder
  <2>3. size * n \in Int
    OBVIOUS
  <2>4. wide = size * n
    BY <2>2, <2>3
  <2>5. QED
    BY <2>4
<1>3. PICK w \in Int : w = v % wide
  <2>1. v % wide \in 0..(wide - 1)
    BY Remainder
  <2>2. QED
    BY <2>1
<1>4. PICK p \in Int : w = size * p + (w % size)
  BY Remainder
<1>5. w % size \in 0..(size - 1)
  BY Remainder
<1>6. v = size * (n * q + p) + (w % size)
  <2>1. wide * q = size * (n * q)
    <3>1. (size * n) * q = size * (n * q)
      OBVIOUS
    <3>2. QED
      BY <1>2, <3>1
  <2>2. size * (n * q + p) = size * (n * q) + size * p
    OBVIOUS
  <2>3. PICK a \in Int : a = size * (n * q)
    OBVIOUS
  <2>4. PICK b \in Int : b = size * p
    OBVIOUS
  <2>5. PICK r \in Int : r = w % size
    BY <1>5
  <2>6. v = a + w /\ w = b + r
    BY <1>1, <1>3, <1>4, <2>1, <2>3, <2>4, <2>5
  <2>7. v = (a + b) + r
    BY <2>6
  <2>8. QED
    BY <2>2, <2>3, <2>4, <2>5, <2>7
<1>7. n * q + p \in Int
  OBVIOUS
<1>8. v % size = w % size
  BY <1>5, <1>6, <1>7, RemainderUnique
<1>9. QED
  BY <1>3, <1>8

(* A range of signed numbers is part of that of a larger size, and so is    *)
(* one of unsigned numbers of at most half the size.                        *)
LEMMA Widen ==
  ASSUME NEW small \in Nat \ {0}, small % 2 = 0, NEW size \in Nat \ {0}, size % 2 = 0
  PROVE  /\ small <= size => SignedNumbers(small) \subseteq SignedNumbers(size)
         /\ 2 * small <= size => 0..(small - 1) \subseteq SignedNumbers(size)
<1>1. small \div 2 \in Nat /\ 2 * (small \div 2) = small
  BY Halves
<1>2. size \div 2 \in Nat /\ 2 * (size \div 2) = size
  BY Halves
<1>3. QED
  BY <1>1, <1>2 DEF SignedNumbers

LEMMA SizeFacts ==
  /\ N8 \in Nat \ {0} /\ N16 \in Nat \ {0} /\ N32 \in Nat \ {0} /\ N64 \in Nat \ {0}
  /\ N8 % 2 = 0 /\ N16 % 2 = 0 /\ N32 % 2 = 0 /\ N64 % 2 = 0
  /\ N8 <= N16 /\ N16 <= N32 /\ N8 <= N32 /\ N32 <= N64 /\ N8 <= N64 /\ N16 <= N64
  /\ 2 * N8 <= N32 /\ 2 * N16 <= N32 /\ 2 * N32 <= N64 /\ 2 * N8 <= N64 /\ 2 * N16 <= N64
  /\ N64 % N32 = 0
<1>1. N8 \in Nat \ {0} /\ N16 \in Nat \ {0} /\ N32 \in Nat \ {0} /\ N64 \in Nat \ {0}
  BY SizeAssumption
<1>2. N8 % 2 = 0 /\ N16 % 2 = 0 /\ N32 % 2 = 0 /\ N64 % 2 = 0
  BY SizeAssumption
<1>3. 2 * N8 <= N16 /\ 2 * N16 <= N32 /\ 2 * N32 <= N64 /\ N64 % N32 = 0
  BY SizeAssumption
<1>4. QED
  BY <1>1, <1>2, <1>3

(* Every kind of number of Go that a parameter accepts fits into its type,  *)
(* int and uint apart.                                                      *)
LEMMA AcceptedFits ==
  ASSUME NEW type \in Types, NEW kind \in Accepted(type), kind \notin {"int", "uint"}
  PROVE  NumbersOf(kind) \subseteq SignedNumbers(TypeSize[type])
<1>1. CASE type = "i32"
  <2>1. TypeSize[type] = N32
    BY <1>1 DEF TypeSize
  <2>2. kind \in {"int8", "uint8", "int16", "uint16", "int32"}
    BY <1>1 DEF Accepted, Kinds
  <2>3. CASE kind = "int8"
    BY <2>1, <2>3, SizeFacts, Widen DEF NumbersOf, Unsigned, KindSize
  <2>4. CASE kind = "uint8"
    BY <2>1, <2>4, SizeFacts, Widen DEF NumbersOf, Unsigned, KindSize
  <2>5. CASE kind = "int16"
    BY <2>1, <2>5, SizeFacts, Widen DEF NumbersOf, Unsigned, KindSize
  <2>6. CASE kind = "uint16"
    BY <2>1, <2>6, SizeFacts, Widen DEF NumbersOf, Unsigned, KindSize
  <2>7. CASE kind = "int32"
    BY <2>1, <2>7 DEF NumbersOf, Unsigned, KindSize
  <2>8. QED
    BY <2>2, <2>3, <2>4, <2>5, <2>6, <2>7
<1>2. CASE type = "i64"
  <2>1. TypeSize[type] = N64
    BY <1>2 DEF TypeSize
  <2>2. kind \in {"int8", "uint8", "int16", "uint16", "int32", "uint32", "int64"}
    BY DEF Accepted, Kinds
  <2>3. CASE kind = "int8"
    BY <2>1, <2>3, SizeFacts, Widen DEF NumbersOf, Unsigned, KindSize
  <2>4. CASE kind = "uint8"
    BY <2>1, <2>4, SizeFacts, Widen DEF NumbersOf, Unsigned, KindSize
  <2>5. CASE kind = "int16"
    BY <2>1, <2>5, SizeFacts, Widen DEF NumbersOf, Unsigned, KindSize
  <2>6. CASE kind = "uint16"
    BY <2>1, <2>6, SizeFacts, Widen DEF NumbersOf, Unsigned, KindSize
  <2>7. CASE kind = "int32"
    BY <2>1, <2>7, SizeFacts, Widen DEF NumbersOf, Unsigned, KindSize
  <2>8. CASE kind = "uint32"
    BY <2>1, <2>8, SizeFacts, Widen DEF NumbersOf, Unsigned, KindSize
  <2>9. CASE kind = "int64"
    BY <2>1, <2>9 DEF NumbersOf, Unsigned, KindSize
  <2>10. QED
    BY <2>2, <2>3, <2>4, <2>5, <2>6, <2>7, <2>8, <2>9
<1>3. QED
  BY <1>1, <1>2 DEF Types

LEMMA NumbersAreInt ==
  ASSUME NEW kind \in Kinds
  PROVE  NumbersOf(kind) \subseteq Int
<1>1. KindSize[kind] \in Nat \ {0} /\ KindSize[kind] % 2 = 0
  BY SizeFacts DEF Kinds, KindSize
<1>2. KindSize[kind] \div 2 \in Nat
  BY <1>1, Halves
<1>3. QED
  BY <1>1, <1>2 DEF NumbersOf, SignedNumbers

LEMMA TypeSizes ==
  ASSUME NEW type \in Types
  PROVE  TypeSize[type] \in Nat \ {0} /\ TypeSize[type] % 2 = 0
BY SizeFacts DEF Types, TypeSize

LEMMA ArgumentsAreKept == ArgumentsKept
<1>1. SUFFICES ASSUME NEW type \in Types, NEW kind \in Kinds, NEW v \in NumbersOf(kind),
                      NEW a \in Argument(type, kind, v)
               PROVE  /\ (a - v) % TypeSize[type] = 0
                      /\ kind \notin {"int", "uint"} => a = v
  BY DEF ArgumentsKept
<1>2. kind \in Accepted(type) /\ a = ToSigned(v, TypeSize[type])
  BY DEF Argument
<1>3. TypeSize[type] \in Nat \ {0} /\ TypeSize[type] % 2 = 0
  BY TypeSizes
<1>4. v \in Int
  BY NumbersAreInt
<1>5. (a - v) % TypeSize[type] = 0
  BY <1>2, <1>3, <1>4, SignedRest
<1>6. ASSUME kind \notin {"int", "uint"} PROVE a = v
  <2>1. v \in SignedNumbers(TypeSize[type])
    BY <1>2, <1>6, AcceptedFits
  <2>2. QED
    BY <1>2, <1>3, <2>1, SignedKept
<1>7. QED
  BY <1>5, <1>6

LEMMA ValuesAreKept == ValuesKept
<1>1. SUFFICES ASSUME NEW type \in Types,
                      NEW v \in NumbersOf(IF type = "i32" THEN "int32" ELSE "int64")
               PROVE  LET x == ValueOf(type, v)
                      IN /\ ToI64(x) = v
                         /\ type = "i32" => ToI32(x) = v
                         /\ ValueArgument(type, x) = {v}
                         /\ \A other \in Types \ {type} : ValueArgument(other, x) = {}
  BY DEF ValuesKept
<1> DEFINE x == ValueOf(type, v)
<1>2. v \in SignedNumbers(TypeSize[type])
  BY DEF NumbersOf, Types, Unsigned, KindSize, TypeSize
<1>3. v \in SignedNumbers(N64)
  BY <1>2, SizeFacts, Widen DEF Types, TypeSize
<1>4. v \in Int
  BY <1>3, SizeFacts, Halves DEF SignedNumbers
<1>5. x.value = v % N64 /\ x.ty = type
  BY DEF ValueOf, ToUnsigned
<1>6. (v % N64) % N64 = v % N64
  <2>1. v % N64 \in 0..(N64 - 1) /\ v % N64 \in Int
    BY <1>4, SizeFacts, Remainder
  <2>2. v % N64 = N64 * 0 + (v % N64)
    BY <2>1, SizeFacts
  <2>3. QED
    BY <2>1, <2>2, SizeFacts, RemainderUnique
<1>7. ToI64(x) = v
  <2>1. ToI64(x) = ToSigned(v, N64)
    BY <1>5, <1>6 DEF ToI64, ToSigned, ToUnsigned
  <2>2. QED
    BY <1>3, <2>1, SizeFacts, SignedKept
<1>8. ASSUME type = "i32" PROVE ToI32(x) = v
  <2>1. (v % N64) % N32 = v % N32
    BY <1>4, SizeFacts, RemainderTwice
  <2>2. ToI32(x) = ToSigned(v, N32)
    BY <1>5, <2>1 DEF ToI32, ToSigned, ToUnsigned
  <2>3. v \in SignedNumbers(N32)
    BY <1>2, <1>8 DEF TypeSize
  <2>4. QED
    BY <2>2, <2>3, SizeFacts, SignedKept
<1>9. ValueArgument(type, x) = {v}
  BY <1>5, <1>7, <1>8 DEF ValueArgument, Types
<1>10. \A other \in Types \ {type} : ValueArgument(other, x) = {}
  BY <1>5 DEF ValueArgument
<1>11. QED
  BY <1>7, <1>8, <1>9, <1>10

(* Every argument that an exported function takes reaches the contract as   *)
(* the number it was in Go, or, int and uint, as that number cut to the     *)
(* width of the parameter, whatever the widths are.                         *)
THEOREM ArgumentsAlwaysExact == Spec => []ArgumentsExact
<1>1. ArgumentsExact
  BY ArgumentsAreKept DEF ArgumentsExact
<1>2. QED
  BY <1>1, PTL

(* Every number that a contract returns is read back as itself, also by the *)
(* method for the wider type, and reaches a parameter of its type unchanged.*)
THEOREM ValuesAlwaysExact == Spec => []ValuesExact
<1>1. ValuesExact
  BY ValuesAreKept DEF ValuesExact
<1>2. QED
  BY <1>1, PTL

=============================================================================
