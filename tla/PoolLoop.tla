------------------------------- MODULE PoolLoop -------------------------------
(***************************************************************************)
(* What the manager and the loops of its pools promise each other: a pool  *)
(* is reset when somebody asks for it, stops after it has been closed,     *)
(* which happens once, and once stopped does neither.  Nothing is said of  *)
(* instances, nor of who calls.                                            *)
(***************************************************************************)
CONSTANT Pool

VARIABLES
  stage,    \* what the loop of each pool does
  closeC,   \* pools whose closeC is closed
  awaited   \* pools on whose resetC a call of reset waits

poolVars == <<stage, closeC, awaited>>

Stages == {"unused", "open", "resetting", "stopped", "crashed"}

Init ==
  /\ stage \in [Pool -> {"unused", "open"}]
  /\ closeC = {} /\ awaited = {}

Goto(p, from, to) ==
  /\ stage[p] \in from
  /\ stage' = [stage EXCEPT ![p] = to]
  /\ closeC' = closeC

(* The manager: newVmPool, reset, close. *)

Start(p) == Goto(p, {"unused"}, "open") /\ awaited' = awaited

Reset(p) ==
  /\ stage[p] # "unused"
  /\ awaited' = awaited \cup {p}
  /\ UNCHANGED <<stage, closeC>>

Close(p) ==
  /\ stage[p] # "unused" /\ p \notin closeC
  /\ closeC' = closeC \cup {p}
  /\ UNCHANGED <<stage, awaited>>

(* The loop.  It serves one of the calls of reset that wait. *)

TakeReset(p) ==
  /\ p \in awaited
  /\ Goto(p, {"open"}, "resetting")
  /\ awaited' \in {awaited, awaited \ {p}}

FinishReset(p) == Goto(p, {"resetting"}, "open") /\ awaited' = awaited

Stop(p) == p \in closeC /\ Goto(p, {"open"}, "stopped") /\ awaited' = awaited

(* A nil entry is taken from the channel, and the process ends. *)
Crash(p) == Goto(p, {"open", "resetting", "stopped"}, "crashed") /\ awaited' = awaited

Next ==
  \E p \in Pool :
    \/ Start(p) \/ Reset(p) \/ Close(p)
    \/ TakeReset(p) \/ FinishReset(p) \/ Stop(p) \/ Crash(p)

Spec == Init /\ [][Next]_poolVars

=============================================================================
