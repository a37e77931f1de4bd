--------------------------- MODULE WasmerHandles ---------------------------
(***************************************************************************)
(* Who owns what across the cgo border: the objects of the wasmer library  *)
(* that package wasmer (src/wasmer-go) makes, and when it frees them.      *)
(*                                                                         *)
(* A native object is a tuple: its kind, the Go object it was made for,    *)
(* and its number or name there.  heap holds those that exist.  A Slot is  *)
(* one value of type Instance together with the Imports it is given, from  *)
(* the first import appended to the last finalizer; slots are used by      *)
(* several goroutines, so the steps of one call interleave with others.    *)
(*                                                                         *)
(* The client is as disciplined as vm_instances_manager.go: what is open   *)
(* is closed at most once, and what is closed is not used.  The library is *)
(* external: each of its calls may fail.  Objects that a Go function       *)
(* frees itself before it returns, on every path (descriptors, serialized  *)
(* modules), are not named; nor are the C strings with the names of        *)
(* imports, which nothing frees.                                           *)
(***************************************************************************)
EXTENDS Integers, FiniteSets

CONSTANTS
  Slots,       \* values of type Instance
  Names,       \* names of imports
  Namespaces,  \* namespaces of imports
  Modules,     \* values of type Module
  Objects,     \* values of type ImportObject
  Memories,    \* memories made by NewMemory
  MaxExports,  \* bound: exports of an instance
  Data         \* data of an instance context

(* Go values of different types are different. *)
ASSUME HandlesAssumption ==
  /\ MaxExports \in Nat
  /\ Slots \cap Objects = {}

VARIABLES
  heap,        \* native objects that exist
  misused,     \* history: native objects freed or used when they did not exist
  module,      \* module[k]: state of a Module
  memory,      \* memory[w]: state of an owned Memory
  object,      \* object[o]: state of an ImportObject
  functions,   \* functions[o]: the <<namespace, name>> the object holds
  imports,     \* imports[m][n]: entry n of a map of imports
  inst,        \* inst[i]: an Instance
  instancesContextData, nextContextDataIndex,
  latest       \* history: the data last set for an instance

vars == <<heap, misused, module, memory, object, functions, imports, inst,
          instancesContextData, nextContextDataIndex, latest>>
contextVars == <<instancesContextData, nextContextDataIndex, latest>>
clientVars  == <<module, memory, object, functions>>

-----------------------------------------------------------------------------
(* Native objects *)

Nil      == <<>>
Absent   == <<"absent">>    \* no entry of that name
NoIndex  == -1
Nth      == 1..MaxExports
States   == {"none", "open", "closed"}
Pcs      == {"fresh", "building", "exporting", "gathering", "open", "failed", "closed"}

ModuleOf(k)        == <<"module", k>>
ObjectOf(o)        == <<"object", o>>
OwnedMemory(w)     == <<"owned memory", w>>
InstanceOf(i)      == <<"instance", i>>
ExportList(i)      == <<"exports", i>>
Iterator(i)        == <<"iterator", i>>
MemoryHandle(i, k) == <<"memory", i, k>>
ExportNames(i)     == <<"export names", i>>  \* of its exported functions
Func(x, n)         == <<"func", x, n>>       \* x: a slot, or the object extended
RawFunc(i, f)      == <<"raw func", i, f>>   \* read back from an import object

MadeFor(i) ==
  {InstanceOf(i), ExportList(i), Iterator(i), ExportNames(i)}
  \cup {MemoryHandle(i, k) : k \in Nth}
  \cup {Func(i, n) : n \in Names}
  \cup {RawFunc(i, f) : f \in Namespaces \X Names}

Natives ==
  {ModuleOf(k) : k \in Modules} \cup {OwnedMemory(w) : w \in Memories}
  \cup {ObjectOf(o) : o \in Objects}
  \cup {Func(o, n) : o \in Objects, n \in Names}
  \cup UNION {MadeFor(i) : i \in Slots}

IsFunction(e) == e = Nil \/ e[1] \in {"func", "raw func"}

Alloc(S) == heap' = heap \cup S /\ UNCHANGED misused

(* The destroy functions of the library. *)
Destroy(S) == heap' = heap \ S /\ misused' = misused \cup (S \ heap)

(* The library reads S while it makes T. *)
AllocFrom(T, S) == heap' = heap \cup T /\ misused' = misused \cup (S \ heap)

NewSlot == [pc |-> "fresh", object |-> Nil, native |-> Nil, memory |-> Nil,
            exported |-> 0, context |-> NoIndex]

NoImports == [n \in Names |-> Absent]

Init ==
  /\ heap = {}
  /\ misused = {}
  /\ module = [k \in Modules |-> "none"]
  /\ memory = [w \in Memories |-> "none"]
  /\ object = [o \in Objects |-> "none"]
  /\ functions = [o \in Objects |-> {}]
  /\ imports = [m \in Slots |-> NoImports]
  /\ inst = [i \in Slots |-> NewSlot]
  /\ instancesContextData = [x \in {} |-> Nil]
  /\ nextContextDataIndex = 0
  /\ latest = [i \in Slots |-> Nil]

-----------------------------------------------------------------------------
(* Modules *)

moduleOthers == <<memory, object, functions, imports, inst, contextVars>>

Opened(k) ==
  /\ module[k] = "none"
  /\ module' = [module EXCEPT ![k] = "open"]
  /\ Alloc({ModuleOf(k)})
  /\ UNCHANGED moduleOthers

(* A module, or an error and none; from bytes that Serialize may have given. *)
Compile(k) == Opened(k)
DeserializeModule(k) == Opened(k)

Serialize(k) ==
  /\ module[k] = "open"
  /\ AllocFrom({}, {ModuleOf(k)})
  /\ UNCHANGED <<module, moduleOthers>>

CloseModule(k) ==
  /\ module[k] = "open"
  /\ module' = [module EXCEPT ![k] = "closed"]
  /\ Destroy({ModuleOf(k)})
  /\ UNCHANGED moduleOthers

-----------------------------------------------------------------------------
(* Memories *)

(* Memory.Close frees the memory that the library lent, and only that. *)
FreedMemory(h, owned) == IF owned THEN {} ELSE {h}

NewMemory(w) ==
  /\ memory[w] = "none"
  /\ memory' = [memory EXCEPT ![w] = "open"]
  /\ Alloc({OwnedMemory(w)})
  /\ UNCHANGED <<module, object, functions, imports, inst, contextVars>>

CloseMemory(w) ==
  /\ memory[w] = "open"
  /\ memory' = [memory EXCEPT ![w] = "closed"]
  /\ Destroy(FreedMemory(OwnedMemory(w), TRUE))
  /\ UNCHANGED <<module, object, functions, imports, inst, contextVars>>

-----------------------------------------------------------------------------
(* Imports *)

(* Fault: one Imports for all instances (the singleton the code had once). *)
GetImportsShared(i) == CHOOSE m \in Slots : TRUE

(* Every instance is given Imports of its own. *)
GetImports(i) == i

(* An import that is appended replaces the one of the same name, whatever   *)
(* its namespace; a function whose signature is refused changes nothing.    *)
Append(m, n, entry) ==
  /\ inst[m].pc = "fresh"
  /\ imports' = [imports EXCEPT ![m][n] = entry]
  /\ UNCHANGED <<heap, misused, clientVars, inst, contextVars>>

AppendFunction(m, n) == Append(m, n, Nil)

AppendMemory(m, n, w) == memory[w] = "open" /\ Append(m, n, OwnedMemory(w))

Present(m) == {n \in Names : imports[m][n] # Absent}

(* getCWasmerImport: a function is made anew at each use of the Imports. *)
MadeImports(x, m) ==
  {Func(x, n) : n \in {n \in Present(m) : IsFunction(imports[m][n])}}

ImportedMemories(m) ==
  {imports[m][n] : n \in {n \in Present(m) : ~IsFunction(imports[m][n])}}

(* Fault: the function made for an import stays in the copy of the entry. *)
RecordedInCopy(i, n, e) == e

(* The pointer to the function is written back to the map. *)
Recorded(i, n, e) ==
  IF e # Absent /\ IsFunction(e) THEN Func(i, n) ELSE e

(* Imports.Close: imported functions are freed, imported memory is not. *)
FreedImports(m) == {imports[m][n] : n \in {n \in Present(m) :
                      IsFunction(imports[m][n]) /\ imports[m][n] # Nil}}

-----------------------------------------------------------------------------
(* Import objects *)

NewObject(o, F) ==
  /\ object[o] = "none"
  /\ object' = [object EXCEPT ![o] = "open"]
  /\ functions' = [functions EXCEPT ![o] = F]
  /\ Alloc({ObjectOf(o)})
  /\ UNCHANGED <<module, memory, imports, inst, contextVars>>

NewImportObject(o) == NewObject(o, {})

(* NewWasiImportObjectForVersion: the library chooses the functions; the    *)
(* version is not passed on to it.                                          *)
NewWasiImportObject(o) ==
  \E F \in SUBSET (Namespaces \X Names) : NewObject(o, F)

(* Extend: the functions it makes are recorded nowhere. *)
Extend(o, m) ==
  /\ object[o] = "open"
  /\ inst[m].pc = "fresh"
  /\ Present(m) # {}
  /\ AllocFrom(MadeImports(o, m), {ObjectOf(o)} \cup ImportedMemories(m))
  /\ \E ns \in Namespaces :
       functions' \in {functions, [functions EXCEPT ![o] = @ \cup
         {<<ns, n>> : n \in {n \in Present(m) : IsFunction(imports[m][n])}}]}
  /\ UNCHANGED <<module, memory, object, imports, inst, contextVars>>

CloseImportObject(o) ==
  /\ object[o] = "open"
  /\ \A i \in Slots :
       inst[i].pc \in {"exporting", "gathering"} => inst[i].object # ObjectOf(o)
  /\ object' = [object EXCEPT ![o] = "closed"]
  /\ functions' = [functions EXCEPT ![o] = {}]
  /\ Destroy({ObjectOf(o)})
  /\ UNCHANGED <<module, memory, imports, inst, contextVars>>

-----------------------------------------------------------------------------
(* Instances *)

Becomes(i, f) == inst' = [inst EXCEPT ![i] = f] /\ UNCHANGED <<clientVars, contextVars>>

(* What the caller no longer has is reset; native stays, as a history. *)
Fail(i) == Becomes(i, [NewSlot EXCEPT !.pc = "failed", !.native = inst[i].native])

(* newInstanceWithImports: the loop over the imports. *)
MakeImports(i) ==
  /\ inst[i].pc = "fresh"
  /\ LET m == GetImports(i)
     IN /\ AllocFrom(MadeImports(i, m), ImportedMemories(m))
        /\ imports' = [imports EXCEPT ![m] =
             [n \in Names |-> Recorded(i, n, imports[m][n])]]
  /\ Becomes(i, [inst[i] EXCEPT !.pc = "building"])

Instantiated(i, used) ==
  /\ AllocFrom({InstanceOf(i), ExportList(i)}, used)
  /\ Becomes(i, [inst[i] EXCEPT !.pc = "exporting", !.native = InstanceOf(i)])
  /\ UNCHANGED imports

Refused(i) == Fail(i) /\ UNCHANGED <<heap, misused, imports>>

(* NewInstanceWithImports *)
NewInstance(i) == inst[i].pc = "building" /\ (Instantiated(i, {}) \/ Refused(i))

(* Module.InstantiateWithImports *)
InstantiateWithImports(i, k) ==
  /\ inst[i].pc = "building"
  /\ module[k] = "open"
  /\ Instantiated(i, {ModuleOf(k)}) \/ Refused(i)

(* Module.InstantiateWithImportObject, up to the exports. *)
InstantiateWithImportObject(i, k, o) ==
  /\ inst[i].pc = "fresh"
  /\ module[k] = "open"
  /\ object[o] = "open"
  /\ \/ /\ AllocFrom({InstanceOf(i), ExportList(i)}, {ModuleOf(k), ObjectOf(o)})
        /\ Becomes(i, [inst[i] EXCEPT !.pc = "exporting", !.native = InstanceOf(i),
                                      !.object = ObjectOf(o)])
     \/ Fail(i) /\ UNCHANGED <<heap, misused>>
  /\ imports' = [imports EXCEPT ![i] = NoImports]

CanExport(i) == inst[i].pc = "exporting" /\ inst[i].exported < MaxExports

(* An exported memory: the handle of an earlier one is forgotten. *)
ExportMemory(i) ==
  /\ CanExport(i)
  /\ LET k == inst[i].exported + 1
     IN /\ Alloc({MemoryHandle(i, k)})
        /\ Becomes(i, [inst[i] EXCEPT !.exported = k, !.memory = MemoryHandle(i, k)])
  /\ UNCHANGED imports

(* An exported function: its name goes to C, a finalizer is to free it. *)
ExportFunction(i) ==
  /\ CanExport(i)
  /\ Alloc({ExportNames(i)})
  /\ Becomes(i, [inst[i] EXCEPT !.exported = @ + 1])
  /\ UNCHANGED imports

(* A handle or a signature cannot be read: only the list is freed. *)
ExportFails(i) ==
  /\ CanExport(i)
  /\ Destroy({ExportList(i)})
  /\ Fail(i)
  /\ UNCHANGED imports

ExportsDone(i) ==
  /\ inst[i].pc = "exporting"
  /\ Destroy({ExportList(i)})
  /\ Becomes(i, [inst[i] EXCEPT !.exported = 0,
                   !.pc = IF inst[i].object = Nil THEN "open" ELSE "gathering"])
  /\ UNCHANGED imports

(* cWasmerImportObjectGetFunctions: everything is read, and the iterator    *)
(* stays; or nothing is returned, because there is no iterator, or because  *)
(* an entry cannot be read, and what was read before it is freed.           *)
GetFunctions(i, F, read) ==
  \/ read = {} /\ UNCHANGED <<heap, misused>>
  \/ read = F /\ Alloc({RawFunc(i, f) : f \in F} \cup {Iterator(i)})

(* The first entry cannot be read: &imports[0] panics. *)
GetFunctionsPanics(i, F) == F # {} /\ Alloc({Iterator(i)})

(* appendRaw: of two functions of the same name one is kept. *)
appendRaw(i, read) ==
  LET named == {f[2] : f \in read}
  IN \E kept \in [named -> Namespaces] :
       /\ \A n \in named : <<kept[n], n>> \in read
       /\ imports' = [imports EXCEPT ![i] = [n \in Names |->
            IF n \in named THEN RawFunc(i, <<kept[n], n>>) ELSE Absent]]

(* ImportObject.Imports: the functions are read back and become the imports *)
(* of the instance, or the signature of one cannot be read.                 *)
GatherImports(i) ==
  LET F == UNION {functions[o] : o \in {o \in Objects : ObjectOf(o) = inst[i].object}}
  IN
  /\ inst[i].pc = "gathering"
  /\ \/ \E read \in {{}, F} :
          /\ GetFunctions(i, F, read)
          /\ \/ appendRaw(i, read) /\ Becomes(i, [inst[i] EXCEPT !.pc = "open"])
             \/ read # {} /\ Fail(i) /\ UNCHANGED imports
     \/ GetFunctionsPanics(i, F) /\ Fail(i) /\ UNCHANGED imports

(* Instance.Close *)
Close(i) ==
  /\ inst[i].pc = "open"
  /\ Destroy(FreedImports(IF inst[i].object = Nil THEN GetImports(i) ELSE i)
             \cup (IF inst[i].memory = Nil THEN {} ELSE FreedMemory(inst[i].memory, FALSE))
             \cup {inst[i].native})
  /\ Becomes(i, [inst[i] EXCEPT !.pc = "closed", !.object = Nil])
  /\ UNCHANGED imports

(* The finalizers of the names of the exported functions. *)
FreeExportNames(i) ==
  /\ inst[i].pc \in {"failed", "closed"}
  /\ ExportNames(i) \in heap
  /\ Destroy({ExportNames(i)})
  /\ UNCHANGED <<clientVars, imports, inst, contextVars>>

-----------------------------------------------------------------------------
(* Context data *)

(* Fault: the counter is not advanced. *)
SameIndex(x) == x

NextIndex(x) == x + 1

(* SetContextData: the index is assigned once, the data each time.  The     *)
(* library is told after the unlock, when nobody else works on instance i.  *)
SetContextData(i, data) ==
  /\ inst[i].pc = "open"
  /\ LET new == inst[i].context = NoIndex
         x == IF new THEN nextContextDataIndex ELSE inst[i].context
     IN /\ inst' = [inst EXCEPT ![i].context = x]
        /\ nextContextDataIndex' =
             IF new THEN NextIndex(nextContextDataIndex) ELSE nextContextDataIndex
        /\ instancesContextData' =
             [y \in DOMAIN instancesContextData \cup {x} |->
                IF y = x THEN data ELSE instancesContextData[y]]
  /\ latest' = [latest EXCEPT ![i] = data]
  /\ AllocFrom({}, {inst[i].native})
  /\ UNCHANGED <<clientVars, imports>>

(* The goroutine of the finalizer of the index: some time after the         *)
(* instance was closed and forgotten.                                       *)
DeleteContextData(i) ==
  /\ inst[i].pc = "closed"
  /\ inst[i].context # NoIndex
  /\ inst' = [inst EXCEPT ![i].context = NoIndex]
  /\ instancesContextData' =
       [y \in DOMAIN instancesContextData \ {inst[i].context} |-> instancesContextData[y]]
  /\ latest' = [latest EXCEPT ![i] = Nil]
  /\ UNCHANGED <<heap, misused, clientVars, imports, nextContextDataIndex>>

-----------------------------------------------------------------------------
Next ==
  \/ \E k \in Modules :
       Compile(k) \/ DeserializeModule(k) \/ Serialize(k) \/ CloseModule(k)
  \/ \E w \in Memories : NewMemory(w) \/ CloseMemory(w)
  \/ \E m \in Slots, n \in Names :
       AppendFunction(m, n) \/ \E w \in Memories : AppendMemory(m, n, w)
  \/ \E o \in Objects :
       \/ NewImportObject(o) \/ NewWasiImportObject(o) \/ CloseImportObject(o)
       \/ \E m \in Slots : Extend(o, m)
  \/ \E i \in Slots :
       \/ MakeImports(i) \/ NewInstance(i)
       \/ \E k \in Modules : InstantiateWithImports(i, k)
       \/ \E k \in Modules, o \in Objects : InstantiateWithImportObject(i, k, o)
       \/ ExportMemory(i) \/ ExportFunction(i) \/ ExportFails(i) \/ ExportsDone(i)
       \/ GatherImports(i) \/ Close(i) \/ FreeExportNames(i)
       \/ \E data \in Data : SetContextData(i, data)
       \/ DeleteContextData(i)

Spec == Init /\ [][Next]_vars

-----------------------------------------------------------------------------
(* Type invariant *)

Instance ==
  [pc : Pcs, object : {Nil} \cup {ObjectOf(o) : o \in Objects},
   native : {Nil} \cup {InstanceOf(i) : i \in Slots},
   memory : {Nil} \cup {MemoryHandle(i, k) : i \in Slots, k \in Nth},
   exported : 0..MaxExports, context : {NoIndex} \cup Nat]

(* Every variable stays in its range: in particular an entry of the imports *)
(* is absent, a function that is not made yet, or a native object.          *)
HandlesTypeOK ==
  /\ heap \subseteq Natives
  /\ misused \subseteq Natives
  /\ module \in [Modules -> States]
  /\ memory \in [Memories -> States]
  /\ object \in [Objects -> States]
  /\ functions \in [Objects -> SUBSET (Namespaces \X Names)]
  /\ imports \in [Slots -> [Names -> {Absent, Nil} \cup Natives]]
  /\ inst \in [Slots -> Instance]
  /\ nextContextDataIndex \in Nat
  /\ DOMAIN instancesContextData \subseteq 0..(nextContextDataIndex - 1)
  /\ \A x \in DOMAIN instancesContextData : instancesContextData[x] \in Data
  /\ latest \in [Slots -> {Nil} \cup Data]

-----------------------------------------------------------------------------
(* Safety *)

(* No native object is freed twice, or used once it is freed, by instances  *)
(* that are made and closed in any order: Instance.Close frees through the  *)
(* pointers of its Imports, so none may be recorded in two of them.         *)
NoMisuse == misused = {}

(* An instance that is open has everything it may call or touch: itself,    *)
(* its memory and the functions it imports, whatever other instances were   *)
(* closed meanwhile.                                                        *)
OpenIsWhole ==
  \A i \in Slots : inst[i].pc = "open" =>
    /\ InstanceOf(i) \in heap
    /\ inst[i].memory # Nil => inst[i].memory \in heap
    /\ inst[i].object = Nil =>
         \A n \in Present(GetImports(i)) :
           IsFunction(imports[GetImports(i)][n]) => Func(i, n) \in heap

(* What Close does not know of: the iterator over an import object, the     *)
(* handle of a memory export that a later one replaced, and the function    *)
(* that one of another namespace replaced.                                  *)
Forgotten(i) ==
  {Iterator(i)} \cup
  ({MemoryHandle(i, k) : k \in Nth} \ {inst[i].memory})
  \cup ({RawFunc(i, f) : f \in Namespaces \X Names} \ {imports[i][n] : n \in Names})

(* A closed instance leaves nothing behind but that, and the names that a   *)
(* finalizer is going to free; one that could not be made leaves its *)
(* imported functions, and the instance only if it was made.  Nobody else   *)
(* could free any of it.                                                    *)
ClosedFreesAll ==
  \A i \in Slots :
    LET left == heap \cap MadeFor(i)
    IN /\ inst[i].pc = "closed" =>
            left \subseteq Forgotten(i) \cup {ExportNames(i)}
       /\ inst[i].pc = "failed" => ExportList(i) \notin left
       /\ inst[i].pc = "failed" /\ inst[i].native = Nil =>
            left \subseteq {Func(i, n) : n \in Names}

(* An imported function that asks for the data of its instance gets what    *)
(* was last set for that instance, and nothing stays registered for an      *)
(* instance that is gone: whichever instances were made, closed and         *)
(* finalized in between.                                                    *)
ContextDataOwn ==
  /\ \A i \in Slots :
       inst[i].context # NoIndex =>
         /\ inst[i].context \in DOMAIN instancesContextData
         /\ instancesContextData[inst[i].context] = latest[i]
  /\ DOMAIN instancesContextData \subseteq {inst[i].context : i \in Slots}

=============================================================================
