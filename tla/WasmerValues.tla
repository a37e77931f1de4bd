---------------------------- MODULE WasmerValues ----------------------------
(***************************************************************************)
(* Numbers on their way between Go and a contract: the arguments of an     *)
(* exported function (wasmer-go/instance.go) and type Value                *)
(* (wasmer-go/value.go).  How many numbers an integer of each width has    *)
(* is a parameter, so that TLC can try every number; floats are passed as  *)
(* they are, and left out.                                                 *)
(***************************************************************************)
EXTENDS Integers

CONSTANTS N8, N16, N32, N64  \* 2^8, 2^16, 2^32, 2^64

ASSUME SizeAssumption ==
  /\ {N8, N16, N32, N64} \subseteq Nat \ {0}
  /\ \A size \in {N8, N16, N32, N64} : size % 2 = 0
  /\ 2 * N8 <= N16 /\ 2 * N16 <= N32 /\ 2 * N32 <= N64
  /\ N64 % N32 = 0

-----------------------------------------------------------------------------
(* Integers of Go *)

Types == {"i32", "i64"}
Kinds == {"int8", "uint8", "int16", "uint16", "int32", "uint32", "int64", "int", "uint"}

Unsigned == {"uint8", "uint16", "uint32", "uint"}

KindSize == [int8 |-> N8, uint8 |-> N8, int16 |-> N16, uint16 |-> N16, int32 |-> N32,
             uint32 |-> N32, int64 |-> N64, int |-> N64, uint |-> N64]

TypeSize == [i32 |-> N32, i64 |-> N64]

SignedNumbers(size) == -(size \div 2)..(size \div 2 - 1)

NumbersOf(kind) ==
  IF kind \in Unsigned THEN 0..(KindSize[kind] - 1) ELSE SignedNumbers(KindSize[kind])

(* Conversion of Go to an integer type of that size. *)
ToUnsigned(v, size) == v % size
ToSigned(v, size) ==
  LET u == ToUnsigned(v, size) IN IF u < size \div 2 THEN u ELSE u - size

-----------------------------------------------------------------------------
(* Arguments *)

(* Fault: uint32 is taken for an i32, as the comment on Exports has it. *)
AcceptedUint32(type) ==
  Kinds \ (IF type = "i32" THEN {"int64"} ELSE {})

(* The kinds that the switch on the type of the parameter lists. *)
Accepted(type) == Kinds \ (IF type = "i32" THEN {"uint32", "int64"} ELSE {})

(* The number that is passed, or none: the call is refused. *)
Argument(type, kind, v) ==
  IF kind \in Accepted(type) THEN {ToSigned(v, TypeSize[type])} ELSE {}

-----------------------------------------------------------------------------
(* Values *)

(* Fault: the bits of an i32 are not extended by its sign. *)
ValueOfZeroExtended(type, v) == [value |-> ToUnsigned(v, TypeSize[type]), ty |-> type]

(* I32 and I64 *)
ValueOf(type, v) == [value |-> ToUnsigned(v, N64), ty |-> type]

ToI32(x) == ToSigned(x.value, N32)
ToI64(x) == ToSigned(x.value, N64)

(* An argument of type Value is taken if the types agree. *)
ValueArgument(type, x) ==
  IF x.ty = type THEN {IF type = "i32" THEN ToI32(x) ELSE ToI64(x)} ELSE {}

-----------------------------------------------------------------------------
(* An argument that an exported function takes reaches the contract as the  *)
(* same number, except that int and uint, which depend on the platform, are *)
(* cut to the width of the parameter.  Where the contract's type cannot     *)
(* hold all numbers of the Go type, and the Go type says so, it is refused. *)
ArgumentsKept ==
  \A type \in Types, kind \in Kinds :
    \A v \in NumbersOf(kind) :
      \A a \in Argument(type, kind, v) :
        /\ (a - v) % TypeSize[type] = 0
        /\ kind \notin {"int", "uint"} => a = v

(* What a contract returns is read back as the same number, by the method   *)
(* for its type and by the one for the wider type (both ignore the type of  *)
(* the value), and reaches another contract unchanged.                      *)
ValuesKept ==
  \A type \in Types :
    \A v \in NumbersOf(IF type = "i32" THEN "int32" ELSE "int64") :
      LET x == ValueOf(type, v)
      IN /\ ToI64(x) = v
         /\ type = "i32" => ToI32(x) = v
         /\ ValueArgument(type, x) = {v}
         /\ \A other \in Types \ {type} : ValueArgument(other, x) = {}

=============================================================================
