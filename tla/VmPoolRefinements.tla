-------------------------- MODULE VmPoolRefinements --------------------------
(***************************************************************************)
(* What VmPool implements: towards its borrowers InstanceLease, towards    *)
(* the manager PoolLoop, with the one pool it is about.                    *)
(***************************************************************************)
EXTENDS VmPool

(* The channel holds what may be lent, a client has an instance from the    *)
(* receive of GetInstance until it is sent back or handed to a discard      *)
(* goroutine, and an instance of a discard goroutine is withdrawn.          *)
leaseOf ==
  [c \in Client |-> IF pc[c] \in HoldStates THEN inst[c] ELSE NoInstance]

Lease == INSTANCE InstanceLease
           WITH available <- instances,
                lease     <- leaseOf,
                withdrawn <- removing \cup adding \cup disposing

(* Whatever the loop, the grow goroutines, reset and close do in between,   *)
(* an instance is lent to one transaction at a time, a discarded one is     *)
(* never lent again, and no instance that somebody has is destroyed.        *)
ImplementsLease == Lease!Spec

-----------------------------------------------------------------------------
(* A reset is over when the pool has grown again; a pool that is closed has *)
(* stopped when its drain begins.                                           *)
stageOf ==
  IF loop \in {"resetting", "swapping", "growReset"} THEN "resetting"
  ELSE IF loop \in {"closing", "stopped"} THEN "stopped"
  ELSE IF loop = "crashed" THEN "crashed" ELSE "open"

This == {"this"}

Loop == INSTANCE PoolLoop
          WITH Pool    <- This,
               stage   <- [p \in This |-> stageOf],
               closeC  <- {p \in This : closeC},
               awaited <- {p \in This : resetSenders > 0}

(* Growing, shrinking and discarding never hide a reset or a close from the *)
(* manager: the loop resets only when asked, comes back from every reset,   *)
(* stops only when closed, and takes no reset after that.                   *)
ImplementsLoop == Loop!Spec

=============================================================================
