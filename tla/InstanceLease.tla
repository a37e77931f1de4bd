---------------------------- MODULE InstanceLease ----------------------------
(***************************************************************************)
(* What the pool of a contract promises to the transactions that use it:   *)
(* instances are supplied, lent to one client at a time, and either come   *)
(* back, or are withdrawn and destroyed.  Nothing is said of channels, of  *)
(* sizes or of the loop that manages them.                                 *)
(***************************************************************************)
CONSTANTS
  Client,      \* who borrows
  Instance,    \* what is lent
  NoInstance   \* nothing is lent, not an Instance

VARIABLES
  available,   \* instances that may be lent
  lease,       \* the instance each client has
  withdrawn    \* instances that will never be lent again, not destroyed yet

leaseVars == <<available, lease, withdrawn>>

Lent == {lease[c] : c \in Client} \ {NoInstance}

(* An identity may be given to a new instance when nothing refers to it. *)
Unknown(i) == i \notin available \cup Lent \cup withdrawn

Init ==
  /\ available = {}
  /\ lease = [c \in Client |-> NoInstance]
  /\ withdrawn = {}

Supply(i) ==
  /\ Unknown(i)
  /\ available' = available \cup {i}
  /\ UNCHANGED <<lease, withdrawn>>

Lend(c, i) ==
  /\ lease[c] = NoInstance /\ i \in available
  /\ lease' = [lease EXCEPT ![c] = i]
  /\ available' = available \ {i}
  /\ UNCHANGED withdrawn

(* A cross-contract call gets an instance of its own, never a pooled one. *)
LendPrivate(c, i) ==
  /\ lease[c] = NoInstance /\ Unknown(i)
  /\ lease' = [lease EXCEPT ![c] = i]
  /\ UNCHANGED <<available, withdrawn>>

EndLease(c) ==
  /\ lease[c] # NoInstance
  /\ lease' = [lease EXCEPT ![c] = NoInstance]

Return(c) ==
  /\ EndLease(c)
  /\ available' = available \cup {lease[c]}
  /\ UNCHANGED withdrawn

Withdraw(c) ==
  /\ EndLease(c)
  /\ withdrawn' = withdrawn \cup {lease[c]}
  /\ UNCHANGED available

DestroyPrivate(c) ==
  /\ EndLease(c)
  /\ UNCHANGED <<available, withdrawn>>

(* shrink, reset and close destroy instances nobody has. *)
Retire(i) ==
  /\ i \in available
  /\ available' = available \ {i}
  /\ UNCHANGED <<lease, withdrawn>>

Destroy(i) ==
  /\ i \in withdrawn
  /\ withdrawn' = withdrawn \ {i}
  /\ UNCHANGED <<available, lease>>

Next ==
  \/ \E c \in Client : Return(c) \/ Withdraw(c) \/ DestroyPrivate(c)
  \/ \E c \in Client, i \in Instance : Lend(c, i) \/ LendPrivate(c, i)
  \/ \E i \in Instance : Supply(i) \/ Retire(i) \/ Destroy(i)

Spec == Init /\ [][Next]_leaseVars

=============================================================================
