----------------------- MODULE InstancesManagerProofs -----------------------
(***************************************************************************)
(* Proofs about InstancesManager for any number of callers, contracts and  *)
(* calls.  One pool per contract rests on the mutex: a caller between the  *)
(* second look and the end of the assignment holds it (Exclusion), so the  *)
(* entry it found missing is still missing when it stores its pool, and    *)
(* nobody else can have a pool that is not in the map yet (Pools).         *)
(***************************************************************************)
EXTENDS InstancesManager, TLAPS

HoldStates  == {"relook", "create", "grow", "publish", "publishing"}
MakeStates  == {"create", "grow", "publish", "publishing"}
OwnStates   == {"grow", "publish", "publishing"}
SendStates  == {"sendOne", "sendAll"}

Types ==
  /\ ManagerTypeOK
  /\ \A t \in Caller : pc[t] \notin EndStates => key[t] \in Key
  /\ \A t \in Caller : pc[t] \in OwnStates \cup SendStates => pool[t] \in Pool

Exclusion == \A t \in Caller : pc[t] \in HoldStates <=> m = t

(* A pool in the map has a loop, has been grown, and belongs to one         *)
(* contract; so does the pool of the holder of the mutex, later.            *)
Mapped ==
  \A k \in Key : instanceMap[k] # Nil =>
    /\ stage[instanceMap[k]] # "unused"
    /\ instanceMap[k] \in sized
    /\ \A j \in Key : instanceMap[j] = instanceMap[k] => j = k

Made ==
  \A t \in Caller :
    /\ pc[t] \in MakeStates => instanceMap[key[t]] = Nil
    /\ pc[t] \in OwnStates => /\ stage[pool[t]] # "unused"
                              /\ \A k \in Key : instanceMap[k] # pool[t]
    /\ pc[t] \in {"publish", "publishing"} => pool[t] \in sized

Reached ==
  \A p \in Pool : stage[p] # "unused" =>
    \/ \E k \in Key : instanceMap[k] = p
    \/ \E t \in Caller : pool[t] = p /\ pc[t] \in OwnStates

Handed == \A k \in Key : \A p \in handed[k] : p # Nil /\ p = instanceMap[k]

ManagerInv == Types /\ Exclusion /\ Mapped /\ Made /\ Reached /\ Handed

USE ManagerAssumption
    DEF GetStates, OneStates, AllStates, EndStates, Operations, HoldStates,
        MakeStates, OwnStates, SendStates, Goto, Keys, mapVars, callVars, poolVars

LEMMA InitManager == Init => ManagerInv
<1> SUFFICES ASSUME Init PROVE ManagerInv
  OBVIOUS
<1>1. Types
  <2>1. writing \in BOOLEAN /\ crashed \in BOOLEAN
    BY DEF Init
  <2>2. calls \in 0..MaxCalls
    BY SMT DEF Init
  <2>3. QED
    BY <2>1, <2>2 DEF Init, Types, ManagerTypeOK
<1>2. Exclusion /\ Mapped /\ Made /\ Reached /\ Handed
  BY DEF Init, Exclusion, Mapped, Made, Reached, Handed
<1>3. QED
  BY <1>1, <1>2 DEF ManagerInv

-----------------------------------------------------------------------------
LEMMA NextTypes == Types /\ [Next]_managerVars => Types'
<1> SUFFICES ASSUME Types, [Next]_managerVars PROVE Types'
  OBVIOUS
<1>1. ASSUME NEW t \in Caller, NEW operation \in Operations, NEW k \in Key,
             Call(t, operation, k)
      PROVE  Types'
  <2>1. UNCHANGED <<writing, crashed>>
    BY <1>1 DEF Call
  <2>2. calls' \in 0..MaxCalls
    BY <1>1, SMT DEF Call, Types, ManagerTypeOK
  <2>3. QED
    BY <1>1, <2>1, <2>2 DEF Call, Types, ManagerTypeOK
<1>2. ASSUME NEW t \in Caller, Look(t) PROVE Types'
  BY <1>2 DEF Look, Hand, Types, ManagerTypeOK
<1>3. ASSUME NEW t \in Caller, Lock(t) PROVE Types'
  BY <1>3 DEF Lock, Types, ManagerTypeOK
<1>4. ASSUME NEW t \in Caller, Relook(t) PROVE Types'
  BY <1>4 DEF Relook, Hand, Types, ManagerTypeOK
<1>5. ASSUME NEW t \in Caller, NEW p \in Pool, Create(t, p) PROVE Types'
  BY <1>5 DEF Create, Types, ManagerTypeOK
<1>6. ASSUME NEW t \in Caller, CreateFails(t) PROVE Types'
  BY <1>6 DEF CreateFails, Types, ManagerTypeOK
<1>7. ASSUME NEW t \in Caller, Grow(t) PROVE Types'
  BY <1>7 DEF Grow, Types, ManagerTypeOK
<1>8. ASSUME NEW t \in Caller, BeginPublish(t) \/ EndPublish(t) PROVE Types'
  <2>1. writing' \in BOOLEAN /\ crashed' \in BOOLEAN
    BY <1>8 DEF BeginPublish, EndPublish, Types, ManagerTypeOK
  <2>2. CASE BeginPublish(t)
    BY <2>1, <2>2 DEF BeginPublish, Iterating, Types, ManagerTypeOK
  <2>3. CASE EndPublish(t)
    BY <2>1, <2>3 DEF EndPublish, Hand, Types, ManagerTypeOK
  <2>4. QED
    BY <1>8, <2>2, <2>3
<1>9. ASSUME NEW t \in Caller, CloseOne(t) PROVE Types'
  BY <1>9 DEF CloseOne, ClosePool, Types, ManagerTypeOK
<1>10. ASSUME NEW t \in Caller, NEW k \in Key, CloseNext(t, k) PROVE Types'
  BY <1>10 DEF CloseNext, Visit, ClosePool, Types, ManagerTypeOK
<1>11. ASSUME NEW t \in Caller, ResetOne(t) PROVE Types'
  BY <1>11 DEF ResetOne, Types, ManagerTypeOK
<1>12. ASSUME NEW t \in Caller, NEW k \in Key, ResetNext(t, k) PROVE Types'
  BY <1>12 DEF ResetNext, Visit, Types, ManagerTypeOK
<1>13. ASSUME NEW t \in Caller, EndAll(t) PROVE Types'
  BY <1>13 DEF EndAll, Types, ManagerTypeOK
<1>14. ASSUME NEW t \in Caller, TakeReset(t) PROVE Types'
  BY <1>14 DEF TakeReset, Types, ManagerTypeOK
<1>15. ASSUME NEW p \in Pool, FinishReset(p) \/ Stop(p) PROVE Types'
  BY <1>15 DEF FinishReset, Stop, Types, ManagerTypeOK
<1>16. ASSUME NEW t \in Caller, MapRace(t) PROVE Types'
  BY <1>16 DEF MapRace, Types, ManagerTypeOK
<1>17. CASE UNCHANGED managerVars
  BY <1>17 DEF managerVars, Types, ManagerTypeOK
<1>18. QED
  BY <1>1, <1>2, <1>3, <1>4, <1>5, <1>6, <1>7, <1>8, <1>9, <1>10, <1>11, <1>12,
     <1>13, <1>14, <1>15, <1>16, <1>17
     DEF Next, CallerNext, GetStep, ManageStep, PoolNext

-----------------------------------------------------------------------------
(* Steps that do not touch the mutex, the map or a pool on its way into it. *)
Aside(t) ==
  /\ UNCHANGED <<instanceMap, m, handed, sized, stage>>
  /\ \A u \in Caller \ {t} : UNCHANGED <<pc[u], key[u], pool[u]>>
  /\ pc[t] \notin HoldStates /\ pc'[t] \notin HoldStates

LEMMA AsideKeeps ==
  ASSUME ManagerInv, NEW t \in Caller, Aside(t)
  PROVE  (Exclusion /\ Mapped /\ Made /\ Reached /\ Handed)'
<1> USE DEF ManagerInv
<1>1. \A u \in Caller : pc'[u] \in HoldStates \/ pc[u] \in HoldStates =>
        UNCHANGED <<pc[u], key[u], pool[u]>>
  BY DEF Aside
<1>2. Exclusion'
  BY <1>1 DEF Exclusion, Aside
<1>3. Mapped' /\ Handed'
  BY DEF Aside, Mapped, Handed
<1>4. Made'
  BY <1>1 DEF Made, Aside
<1>5. Reached'
  BY <1>1 DEF Reached, Aside
<1>6. QED
  BY <1>2, <1>3, <1>4, <1>5

LEMMA NextMutex ==
  ManagerInv /\ [Next]_managerVars => (Exclusion /\ Mapped /\ Made /\ Reached /\ Handed)'
<1> SUFFICES ASSUME ManagerInv, [Next]_managerVars
             PROVE  (Exclusion /\ Mapped /\ Made /\ Reached /\ Handed)'
  OBVIOUS
<1>a. Types /\ Exclusion /\ Mapped /\ Made /\ Reached /\ Handed
  BY DEF ManagerInv
<1>1. ASSUME NEW t \in Caller, NEW operation \in Operations, NEW k \in Key,
             Call(t, operation, k)
      PROVE  Aside(t)
  BY <1>1, <1>a DEF Call, Aside, Types, ManagerTypeOK
<1>2. ASSUME NEW t \in Caller, Look(t)
      PROVE  (Exclusion /\ Mapped /\ Made /\ Reached /\ Handed)'
  <2>1. Exclusion' /\ Mapped' /\ Made' /\ Reached'
    BY <1>2, <1>a DEF Look, Hand, Types, ManagerTypeOK, Exclusion, Mapped, Made, Reached
  <2>2. Handed'
    BY <1>2, <1>a DEF Look, Hand, Types, ManagerTypeOK, Handed
  <2>3. QED
    BY <2>1, <2>2
<1>3. ASSUME NEW t \in Caller, Lock(t)
      PROVE  (Exclusion /\ Mapped /\ Made /\ Reached /\ Handed)'
  <2>1. Exclusion'
    BY <1>3, <1>a DEF Lock, Types, ManagerTypeOK, Exclusion
  <2>2. (Mapped /\ Made /\ Reached /\ Handed)'
    BY <1>3, <1>a DEF Lock, Types, ManagerTypeOK, Mapped, Made, Reached, Handed
  <2>3. QED
    BY <2>1, <2>2
<1>4. ASSUME NEW t \in Caller, Relook(t)
      PROVE  (Exclusion /\ Mapped /\ Made /\ Reached /\ Handed)'
  <2>1. Exclusion'
    BY <1>4, <1>a DEF Relook, Hand, Types, ManagerTypeOK, Exclusion
  <2>2. (Mapped /\ Made /\ Reached)'
    BY <1>4, <1>a DEF Relook, Hand, Types, ManagerTypeOK, Mapped, Made, Reached
  <2>3. Handed'
    BY <1>4, <1>a DEF Relook, Hand, Types, ManagerTypeOK, Handed
  <2>4. QED
    BY <2>1, <2>2, <2>3
<1>5. ASSUME NEW t \in Caller, NEW p \in Pool, Create(t, p)
      PROVE  (Exclusion /\ Mapped /\ Made /\ Reached /\ Handed)'
  <2>1. Exclusion' /\ Handed'
    BY <1>5, <1>a DEF Create, Types, ManagerTypeOK, Exclusion, Handed
  <2>2. \A k \in Key : instanceMap[k] # p
    BY <1>5, <1>a DEF Create, Mapped
  <2>3. Mapped'
    BY <1>5, <1>a, <2>2 DEF Create, Types, ManagerTypeOK, Mapped
  <2>4. \A u \in Caller : pc[u] \in OwnStates => u # t /\ pool[u] # p
    BY <1>5, <1>a DEF Create, Made
  <2>5. Made'
    BY <1>5, <1>a, <2>2, <2>4 DEF Create, Types, ManagerTypeOK, Made
  <2>6. Reached'
    BY <1>5, <1>a DEF Create, Types, ManagerTypeOK, Reached
  <2>7. QED
    BY <2>1, <2>3, <2>5, <2>6
<1>6. ASSUME NEW t \in Caller, CreateFails(t)
      PROVE  (Exclusion /\ Mapped /\ Made /\ Reached /\ Handed)'
  <2>1. Exclusion'
    BY <1>6, <1>a DEF CreateFails, Types, ManagerTypeOK, Exclusion
  <2>2. (Mapped /\ Made /\ Reached /\ Handed)'
    BY <1>6, <1>a DEF CreateFails, Types, ManagerTypeOK, Mapped, Made, Reached, Handed
  <2>3. QED
    BY <2>1, <2>2
<1>7. ASSUME NEW t \in Caller, Grow(t) \/ BeginPublish(t)
      PROVE  (Exclusion /\ Mapped /\ Made /\ Reached /\ Handed)'
  <2>1. /\ UNCHANGED <<instanceMap, m, handed, stage, key, pool>>
        /\ sized \subseteq sized'
        /\ pc[t] \in {"grow", "publish"}
        /\ pc[t] = "grow" => pool[t] \in sized' /\ pc' = [pc EXCEPT ![t] = "publish"]
        /\ pc[t] = "publish" => pc' = [pc EXCEPT ![t] = "publishing"]
    BY <1>7 DEF Grow, BeginPublish
  <2>2. Exclusion' /\ Mapped' /\ Handed'
    BY <2>1, <1>a DEF Types, ManagerTypeOK, Exclusion, Mapped, Handed
  <2>3. Made' /\ Reached'
    BY <2>1, <1>a DEF Types, ManagerTypeOK, Made, Reached
  <2>4. QED
    BY <2>2, <2>3
<1>8. ASSUME NEW t \in Caller, EndPublish(t)
      PROVE  (Exclusion /\ Mapped /\ Made /\ Reached /\ Handed)'
  <2>1. /\ pc[t] = "publishing" /\ key[t] \in Key /\ pool[t] \in Pool
        /\ pool[t] # Nil /\ instanceMap[key[t]] = Nil /\ m = t
        /\ stage[pool[t]] # "unused" /\ pool[t] \in sized
        /\ \A k \in Key : instanceMap[k] # pool[t]
    BY <1>8, <1>a DEF EndPublish, Types, Exclusion, Made
  <2>2. /\ instanceMap' = [instanceMap EXCEPT ![key[t]] = pool[t]]
        /\ handed' = [handed EXCEPT ![key[t]] = @ \cup {pool[t]}]
        /\ pc' = [pc EXCEPT ![t] = "idle"] /\ pool' = [pool EXCEPT ![t] = Nil]
        /\ m' = Nil /\ UNCHANGED <<key, stage, sized>>
    BY <1>8 DEF EndPublish, Hand
  <2>3. \A u \in Caller \ {t} : pc[u] \notin HoldStates
    BY <2>1, <1>a DEF Exclusion
  <2>4. Exclusion'
    BY <2>2, <2>3, <1>a DEF Types, ManagerTypeOK, Exclusion
  <2>5. Mapped'
    BY <2>1, <2>2, <1>a DEF Types, ManagerTypeOK, Mapped
  <2>6. Made'
    BY <2>2, <2>3, <1>a DEF Types, ManagerTypeOK, Made
  <2>7. Reached'
    BY <2>1, <2>2, <1>a DEF Types, ManagerTypeOK, Reached
  <2>8. Handed'
    <3>1. handed[key[t]] = {}
      BY <2>1, <1>a DEF Handed
    <3>2. QED
      BY <2>1, <2>2, <3>1, <1>a DEF Types, ManagerTypeOK, Handed
  <2>9. QED
    BY <2>4, <2>5, <2>6, <2>7, <2>8
<1>9. ASSUME NEW t \in Caller, NEW k \in Key,
             CloseNext(t, k) \/ ResetNext(t, k)
      PROVE  Aside(t)
  BY <1>9, <1>a DEF CloseNext, ResetNext, Visit, ClosePool, Aside, Types, ManagerTypeOK
<1>10. ASSUME NEW t \in Caller, TakeReset(t)
       PROVE (Exclusion /\ Mapped /\ Made /\ Reached /\ Handed)'
  <2>1. /\ \A p \in Pool : stage'[p] = "unused" <=> stage[p] = "unused"
        /\ UNCHANGED <<instanceMap, m, handed, sized, key>>
        /\ \A u \in Caller \ {t} : UNCHANGED <<pc[u], pool[u]>>
        /\ pc[t] \notin HoldStates /\ pc'[t] \notin HoldStates
    BY <1>10, <1>a DEF TakeReset, Types, ManagerTypeOK
  <2>2. Exclusion' /\ Handed'
    BY <2>1, <1>a DEF Exclusion, Handed
  <2>3. Mapped' /\ Made' /\ Reached'
    BY <2>1, <1>a DEF Types, ManagerTypeOK, Mapped, Made, Reached
  <2>4. QED
    BY <2>2, <2>3
<1>11. ASSUME NEW p \in Pool, FinishReset(p) \/ Stop(p)
       PROVE (Exclusion /\ Mapped /\ Made /\ Reached /\ Handed)'
  <2>1. /\ \A q \in Pool : stage'[q] = "unused" <=> stage[q] = "unused"
        /\ UNCHANGED <<instanceMap, m, handed, sized, key, pc, pool>>
    BY <1>11, <1>a DEF FinishReset, Stop, Types, ManagerTypeOK
  <2>2. QED
    BY <2>1, <1>a DEF Types, ManagerTypeOK, Exclusion, Mapped, Made, Reached, Handed
<1>12. ASSUME NEW t \in Caller, MapRace(t) PROVE Aside(t)
  BY <1>12 DEF MapRace, Aside
<1>13. CASE UNCHANGED managerVars
  BY <1>13, <1>a DEF managerVars, Exclusion, Mapped, Made, Reached, Handed
<1>14. ASSUME NEW t \in Caller, Aside(t)
       PROVE (Exclusion /\ Mapped /\ Made /\ Reached /\ Handed)'
  BY <1>14, AsideKeeps
<1>15. ASSUME NEW t \in Caller, CloseOne(t) \/ ResetOne(t) \/ EndAll(t) PROVE Aside(t)
  BY <1>15, <1>a DEF CloseOne, ResetOne, EndAll, ClosePool, Aside, Types, ManagerTypeOK
<1>16. QED
  BY <1>1, <1>2, <1>3, <1>4, <1>5, <1>6, <1>7, <1>8, <1>9, <1>10, <1>11, <1>12,
     <1>13, <1>14, <1>15
     DEF Next, CallerNext, GetStep, ManageStep, PoolNext

-----------------------------------------------------------------------------
LEMMA ManagerInvariant == Spec => []ManagerInv
<1>1. ManagerInv /\ [Next]_managerVars => ManagerInv'
  BY NextTypes, NextMutex DEF ManagerInv
<1>2. QED
  BY InitManager, <1>1, PTL DEF Spec

(* Every variable of the manager keeps its type. *)
THEOREM ManagerTypeCorrect == Spec => []ManagerTypeOK
<1>1. ManagerInv => ManagerTypeOK
  BY DEF ManagerInv, Types
<1>2. QED
  BY <1>1, ManagerInvariant, PTL

(* All runtimes of a contract share one pool, which is in the map and has   *)
(* been grown, however the unlocked looks and the mutex interleave.         *)
THEOREM OnePool == Spec => []OnePoolPerContract
<1>1. ManagerInv => OnePoolPerContract
  BY DEF ManagerInv, Mapped, Handed, OnePoolPerContract
<1>2. QED
  BY <1>1, ManagerInvariant, PTL

(* Every loop that was started can be reached through the map, or is about  *)
(* to be put there by the holder of the mutex.                              *)
THEOREM LoopsReachable == Spec => []NoOrphanLoop
<1>1. ASSUME ManagerInv PROVE NoOrphanLoop
  <2>1. ASSUME NEW p \in Pool, stage[p] # "unused", NEW t \in Caller,
               pool[t] = p, pc[t] \in OwnStates
        PROVE  m # Nil /\ pool[m] = p /\ pc[m] \in {"grow", "publish", "publishing"}
    BY <1>1, <2>1 DEF ManagerInv, Exclusion
  <2>2. ASSUME NEW k \in Key, NEW p \in Pool, instanceMap[k] = p
        PROVE  \A j \in Key : instanceMap[j] = p => j = k
    BY <1>1, <2>2 DEF ManagerInv, Mapped
  <2>3. QED
    BY <1>1, <2>1, <2>2 DEF ManagerInv, Reached, NoOrphanLoop
<1>2. QED
  BY <1>1, ManagerInvariant, PTL

-----------------------------------------------------------------------------
(* What an iteration that closes has visited is closed, and it returns only *)
(* after it has visited every entry that was there when it began, unless it *)
(* raced with an assignment.                                                *)
Closing ==
  \A t \in Caller : op[t] = "closeAll" =>
    /\ pc[t] \in {"closeAll", "idle", "panicked"}
    /\ \A k \in visited[t] : instanceMap[k] \in closeC
    /\ pc[t] = "idle" => present[t] \subseteq visited[t] \/ t \in raced

LEMMA EntriesStay ==
  ASSUME ManagerInv, [Next]_managerVars, NEW k \in Key, instanceMap[k] \in closeC
  PROVE  instanceMap'[k] = instanceMap[k] /\ closeC \subseteq closeC'
<1> USE DEF ManagerInv, Types, ManagerTypeOK
<1>1. instanceMap[k] # Nil
  OBVIOUS
<1>2. ASSUME NEW t \in Caller, GetStep(t) \/ ManageStep(t) \/ MapRace(t)
      PROVE  closeC \subseteq closeC' /\ instanceMap'[k] = instanceMap[k]
  <2>1. closeC \subseteq closeC'
    BY <1>2 DEF GetStep, ManageStep, Look, Lock, Relook, Create, CreateFails, Grow,
       BeginPublish, EndPublish, CloseOne, ResetOne, EndAll, CloseNext, ResetNext,
       ClosePool, MapRace
  <2>2. CASE EndPublish(t)
    BY <1>1, <2>1, <2>2 DEF EndPublish, Made
  <2>3. CASE ~EndPublish(t)
    BY <1>2, <2>1, <2>3 DEF GetStep, ManageStep, Look, Lock, Relook, Create,
       CreateFails, Grow, BeginPublish, CloseOne, ResetOne, EndAll, CloseNext,
       ResetNext, MapRace
  <2>4. QED
    BY <2>1, <2>2, <2>3
<1>3. ASSUME NEW t \in Caller, NEW operation \in Operations, NEW j \in Key,
             Call(t, operation, j)
      PROVE  UNCHANGED <<instanceMap, closeC>>
  BY <1>3 DEF Call
<1>4. CASE PoolNext \/ UNCHANGED managerVars
  BY <1>4 DEF PoolNext, TakeReset, FinishReset, Stop, managerVars
<1>5. QED
  BY <1>2, <1>3, <1>4 DEF Next, CallerNext

LEMMA InitClosing == Init => Closing
  BY DEF Init, Closing

LEMMA NextClosing == ManagerInv /\ Closing /\ [Next]_managerVars => Closing'
<1> SUFFICES ASSUME ManagerInv, Closing, [Next]_managerVars, NEW t \in Caller,
                    op'[t] = "closeAll"
             PROVE  /\ pc'[t] \in {"closeAll", "idle", "panicked"}
                    /\ \A k \in visited'[t] : instanceMap'[k] \in closeC'
                    /\ pc'[t] = "idle" => present'[t] \subseteq visited'[t] \/ t \in raced'
  BY DEF Closing
<1> USE DEF ManagerInv, Types, ManagerTypeOK
(* A step that leaves the iteration of t alone keeps what is closed closed. *)
<1>1. ASSUME UNCHANGED <<op[t], present[t], visited[t]>>, t \in raced => t \in raced',
             pc'[t] \in {pc[t], "panicked"}
      PROVE  /\ pc'[t] \in {"closeAll", "idle", "panicked"}
             /\ \A k \in visited'[t] : instanceMap'[k] \in closeC'
             /\ pc'[t] = "idle" => present'[t] \subseteq visited'[t] \/ t \in raced'
  BY <1>1, EntriesStay DEF Closing
<1>2. ASSUME NEW u \in Caller, GetStep(u) \/ MapRace(u) \/ TakeReset(u)
      PROVE  /\ UNCHANGED <<op[t], present[t], visited[t]>> /\ raced \subseteq raced'
             /\ pc'[t] \in {pc[t], "panicked"}
  <2>1. /\ UNCHANGED <<op, present, visited>> /\ raced \subseteq raced'
        /\ \A v \in Caller \ {u} : pc'[v] = pc[v]
    BY <1>2 DEF GetStep, Look, Lock, Relook, Create, CreateFails, Grow, BeginPublish,
       EndPublish, Hand, MapRace, TakeReset
  <2>2. CASE u = t
    <3>1. pc[t] \in {"closeAll", "idle", "panicked"}
      BY <2>1 DEF Closing
    <3>2. QED
      BY <1>2, <2>1, <2>2, <3>1 DEF GetStep, Look, Lock, Relook, Create, CreateFails,
         Grow, BeginPublish, EndPublish, MapRace, TakeReset
  <2>3. QED
    BY <2>1, <2>2
<1>3. ASSUME NEW u \in Caller, NEW operation \in Operations, NEW k \in Key,
             Call(u, operation, k)
      PROVE  \/ UNCHANGED <<op[t], present[t], visited[t], pc[t], t \in raced>>
             \/ pc'[t] = "closeAll" /\ visited'[t] = {}
  BY <1>3 DEF Call
<1>4. ASSUME NEW u \in Caller, CloseOne(u) \/ ResetOne(u)
      PROVE  /\ UNCHANGED <<op[t], present[t], visited[t], raced>>
             /\ pc'[t] \in {pc[t], "panicked"}
  <2>1. /\ UNCHANGED <<op, present, visited, raced>>
        /\ \A v \in Caller \ {u} : pc'[v] = pc[v]
    BY <1>4 DEF CloseOne, ResetOne, ClosePool
  <2>2. CASE u = t
    BY <1>4, <2>1, <2>2 DEF CloseOne, ResetOne, Closing
  <2>3. QED
    BY <2>1, <2>2
<1>5. ASSUME NEW u \in Caller, EndAll(u)
      PROVE  /\ pc'[t] \in {"closeAll", "idle", "panicked"}
             /\ \A k \in visited'[t] : instanceMap'[k] \in closeC'
             /\ pc'[t] = "idle" => present'[t] \subseteq visited'[t] \/ t \in raced'
  <2>1. UNCHANGED <<op, present, visited, raced, instanceMap, closeC>>
    BY <1>5 DEF EndAll
  <2>2. \/ pc'[t] = pc[t]
        \/ pc'[t] = "idle" /\ (present[t] \subseteq visited[t] \/ t \in raced)
    BY <1>5 DEF EndAll
  <2>3. QED
    BY <2>1, <2>2 DEF Closing
<1>6. ASSUME NEW u \in Caller, NEW k \in Key, CloseNext(u, k)
      PROVE  /\ pc'[t] \in {"closeAll", "idle", "panicked"}
             /\ \A j \in visited'[t] : instanceMap'[j] \in closeC'
             /\ pc'[t] = "idle" => present'[t] \subseteq visited'[t] \/ t \in raced'
  <2>1. CASE u # t
    BY <1>1, <1>6, <2>1 DEF CloseNext, Visit, ClosePool
  <2>2. CASE u = t
    <3>1. /\ visited'[t] = visited[t] \cup {k} /\ UNCHANGED <<instanceMap, op>>
          /\ closeC' = closeC \cup {instanceMap[k]}
          /\ pc'[t] \in {"closeAll", "panicked"}
      BY <1>6, <2>2 DEF CloseNext, Visit, ClosePool
    <3>2. QED
      BY <3>1 DEF Closing
  <2>3. QED
    BY <2>1, <2>2
<1>7. ASSUME NEW u \in Caller, NEW k \in Key, ResetNext(u, k)
      PROVE  UNCHANGED <<op[t], present[t], visited[t], raced, pc[t]>>
  <2>1. u # t
    BY <1>7 DEF ResetNext, Visit, Closing
  <2>2. QED
    BY <1>7, <2>1 DEF ResetNext, Visit
<1>8. CASE UNCHANGED managerVars
  BY <1>1, <1>8 DEF managerVars
<1>9. ASSUME NEW p \in Pool, FinishReset(p) \/ Stop(p)
      PROVE  UNCHANGED <<op[t], present[t], visited[t], raced, pc[t]>>
  BY <1>9 DEF FinishReset, Stop
<1>10. QED
  BY <1>1, <1>2, <1>3, <1>4, <1>5, <1>6, <1>7, <1>8, <1>9
     DEF Next, CallerNext, ManageStep, PoolNext

(* CloseAllVmPool, when it returns, has closed every pool that was in the   *)
(* map when it began, whatever the others add to the map or close meanwhile,*)
(* unless an assignment to the map raced with it.                           *)
THEOREM CloseAll == Spec => []CloseAllCloses
<1>1. ManagerInv /\ Closing /\ [Next]_managerVars => Closing'
  BY NextClosing
<1>2. Closing => CloseAllCloses
  BY DEF Closing, CloseAllCloses
<1>3. QED
  BY InitClosing, <1>1, <1>2, ManagerInvariant, PTL DEF Spec

-----------------------------------------------------------------------------
(* The manager drives the loops as PoolLoop says.  Every pool that a caller *)
(* is about to close or to reset has a loop, because it comes from the map. *)

LEMMA InitLoops == Init => Loops!Init
  BY DEF Init, Loops!Init, Awaited

(* Steps that no loop and no call of a loop takes part in. *)
LEMMA LoopsStutter ==
  ASSUME UNCHANGED <<stage, closeC>>,
         \A t \in Caller : /\ pc'[t] \in SendStates <=> pc[t] \in SendStates
                           /\ pc[t] \in SendStates => pool'[t] = pool[t]
  PROVE  UNCHANGED <<stage, closeC, Awaited>>
BY DEF Awaited

LEMMA ClosePoolLoops ==
  ASSUME NEW t \in Caller, NEW p \in Pool, NEW state, state \notin SendStates, Types,
         stage[p] # "unused", pc[t] \notin SendStates, ClosePool(t, p, state),
         UNCHANGED <<stage, pool>>
  PROVE  Loops!Next \/ UNCHANGED <<stage, closeC, Awaited>>
<1>1. Awaited' = Awaited
  BY DEF ClosePool, Types, ManagerTypeOK, Awaited
<1>2. CASE p \in closeC
  BY <1>1, <1>2 DEF ClosePool
<1>3. CASE p \notin closeC
  <2>1. Loops!Close(p)
    BY <1>1, <1>3 DEF ClosePool, Loops!Close
  <2>2. QED
    BY <2>1 DEF Loops!Next
<1>4. QED
  BY <1>2, <1>3

LEMMA ResetPoolLoops ==
  ASSUME NEW t \in Caller, NEW p \in Pool, NEW state \in SendStates, Types,
         stage[p] # "unused", pc[t] \notin SendStates,
         pc' = [pc EXCEPT ![t] = state], pool' = [pool EXCEPT ![t] = p],
         UNCHANGED <<stage, closeC>>
  PROVE  Loops!Next
<1>1. Awaited' = Awaited \cup {p}
  <2>1. /\ pc'[t] \in SendStates /\ pool'[t] = p
        /\ \A u \in Caller \ {t} : UNCHANGED <<pc[u], pool[u]>>
    BY DEF Types, ManagerTypeOK
  <2>2. Awaited' \subseteq Awaited \cup {p}
    BY <2>1 DEF Awaited
  <2>3. Awaited \cup {p} \subseteq Awaited'
    BY <2>1 DEF Awaited
  <2>4. QED
    BY <2>2, <2>3
<1>2. Loops!Reset(p)
  BY <1>1 DEF Loops!Reset
<1>3. QED
  BY <1>2 DEF Loops!Next

LEMMA NextLoops == ManagerInv /\ [Next]_managerVars => [Loops!Next]_(Loops!poolVars)
<1> SUFFICES ASSUME ManagerInv, [Next]_managerVars
             PROVE  Loops!Next \/ UNCHANGED <<stage, closeC, Awaited>>
  BY DEF Loops!poolVars
<1>a. Types /\ Exclusion /\ Mapped /\ Made
  BY DEF ManagerInv
<1>b. \A k \in Key : instanceMap[k] # Nil =>
        instanceMap[k] \in Pool /\ stage[instanceMap[k]] # "unused"
  BY <1>a DEF Types, ManagerTypeOK, Mapped
<1>1. ASSUME NEW t \in Caller, NEW operation \in Operations, NEW k \in Key,
             Call(t, operation, k)
      PROVE  UNCHANGED <<stage, closeC, Awaited>>
  BY <1>1, <1>a, LoopsStutter DEF Call, Types, ManagerTypeOK
<1>2. ASSUME NEW t \in Caller,
             \/ Look(t) \/ Lock(t) \/ Relook(t) \/ CreateFails(t) \/ Grow(t)
             \/ BeginPublish(t) \/ EndPublish(t) \/ EndAll(t)
      PROVE  UNCHANGED <<stage, closeC, Awaited>>
  <2>1. /\ UNCHANGED <<stage, closeC>> /\ pc[t] \notin SendStates
        /\ \A u \in Caller \ {t} : UNCHANGED <<pc[u], pool[u]>>
    <3>1. CASE Look(t) \/ Lock(t) \/ Relook(t) \/ EndAll(t)
      BY <1>a, <3>1 DEF Look, Lock, Relook, EndAll, Hand, Types, ManagerTypeOK
    <3>2. CASE CreateFails(t) \/ Grow(t) \/ BeginPublish(t) \/ EndPublish(t)
      BY <1>a, <3>2 DEF CreateFails, Grow, BeginPublish, EndPublish, Hand, Types,
         ManagerTypeOK
    <3>3. QED
      BY <1>2, <3>1, <3>2
  <2>2. pc'[t] \notin SendStates
    BY <1>2, <1>a DEF Look, Lock, Relook, CreateFails, Grow, BeginPublish, EndPublish,
       EndAll, Hand, Types, ManagerTypeOK
  <2>3. QED
    BY <2>1, <2>2, LoopsStutter
<1>3. ASSUME NEW t \in Caller, NEW p \in Pool, Create(t, p) PROVE Loops!Next
  <2>1. pc[t] \notin SendStates /\ pc'[t] \notin SendStates
        /\ \A u \in Caller \ {t} : UNCHANGED <<pc[u], pool[u]>>
    BY <1>3, <1>a DEF Create, Types, ManagerTypeOK
  <2>2. Awaited' = Awaited
    BY <2>1 DEF Awaited
  <2>3. Loops!Start(p)
    BY <1>3, <2>2 DEF Create, Loops!Start, Loops!Goto
  <2>4. QED
    BY <2>3 DEF Loops!Next
<1>4. ASSUME NEW t \in Caller, CloseOne(t)
      PROVE  Loops!Next \/ UNCHANGED <<stage, closeC, Awaited>>
  <2>1. key[t] \in Key /\ pc[t] \notin SendStates
    BY <1>4, <1>a DEF CloseOne, Types
  <2>2. CASE instanceMap[key[t]] = Nil
    BY <1>4, <1>a, <2>1, <2>2, LoopsStutter DEF CloseOne, Types, ManagerTypeOK
  <2>3. CASE instanceMap[key[t]] # Nil
    <3>1. ClosePool(t, instanceMap[key[t]], "idle") /\ UNCHANGED <<stage, pool>>
      BY <1>4, <2>3 DEF CloseOne
    <3>2. QED
      BY <1>a, <1>b, <2>1, <2>3, <3>1, ClosePoolLoops
  <2>4. QED
    BY <2>2, <2>3
<1>5. ASSUME NEW t \in Caller, NEW k \in Key, CloseNext(t, k)
      PROVE  Loops!Next \/ UNCHANGED <<stage, closeC, Awaited>>
  <2>1. instanceMap[k] # Nil /\ ClosePool(t, instanceMap[k], "closeAll")
        /\ UNCHANGED <<stage, pool>> /\ pc[t] \notin SendStates
    BY <1>5 DEF CloseNext, Visit
  <2>2. QED
    BY <1>a, <1>b, <2>1, ClosePoolLoops
<1>6. ASSUME NEW t \in Caller, ResetOne(t)
      PROVE  Loops!Next \/ UNCHANGED <<stage, closeC, Awaited>>
  <2>1. key[t] \in Key /\ pc[t] \notin SendStates
    BY <1>6, <1>a DEF ResetOne, Types
  <2>2. CASE instanceMap[key[t]] = Nil
    BY <1>6, <1>a, <2>1, <2>2, LoopsStutter DEF ResetOne, Types, ManagerTypeOK
  <2>3. CASE instanceMap[key[t]] # Nil
    BY <1>6, <1>a, <1>b, <2>1, <2>3, ResetPoolLoops DEF ResetOne
  <2>4. QED
    BY <2>2, <2>3
<1>7. ASSUME NEW t \in Caller, NEW k \in Key, ResetNext(t, k) PROVE Loops!Next
  <2>1. instanceMap[k] # Nil /\ pc[t] \notin SendStates
    BY <1>7 DEF ResetNext, Visit
  <2>2. QED
    BY <1>7, <1>a, <1>b, <2>1, ResetPoolLoops DEF ResetNext
(* Somebody else may wait on the same pool. *)
<1>8. ASSUME NEW t \in Caller, TakeReset(t) PROVE Loops!Next
  <2>1. pool[t] \in Pool /\ pool[t] \in Awaited
    BY <1>8, <1>a DEF TakeReset, Types, Awaited
  <2>2. Awaited' = {pool[u] : u \in {u \in Caller \ {t} : pc[u] \in SendStates}}
    BY <1>8, <1>a DEF TakeReset, Types, ManagerTypeOK, Awaited
  <2>3. Awaited = {pool[u] : u \in {u \in Caller \ {t} : pc[u] \in SendStates}} \cup {pool[t]}
    BY <1>8 DEF TakeReset, Awaited
  <2>4. Awaited' \in {Awaited, Awaited \ {pool[t]}}
    BY <2>2, <2>3
  <2>5. Loops!TakeReset(pool[t])
    BY <1>8, <2>1, <2>4 DEF TakeReset, Loops!TakeReset, Loops!Goto
  <2>6. QED
    BY <2>1, <2>5 DEF Loops!Next
<1>9. ASSUME NEW p \in Pool, FinishReset(p) \/ Stop(p) PROVE Loops!Next
  <2>1. Awaited' = Awaited
    BY <1>9 DEF FinishReset, Stop, Awaited
  <2>2. Loops!FinishReset(p) \/ Loops!Stop(p)
    BY <1>9, <2>1 DEF FinishReset, Stop, Loops!FinishReset, Loops!Stop, Loops!Goto
  <2>3. QED
    BY <2>2 DEF Loops!Next
<1>10. ASSUME NEW t \in Caller, MapRace(t)
       PROVE  UNCHANGED <<stage, closeC, Awaited>>
  BY <1>10 DEF MapRace, Awaited
<1>11. CASE UNCHANGED managerVars
  BY <1>11 DEF managerVars, Awaited
<1>12. QED
  BY <1>1, <1>2, <1>3, <1>4, <1>5, <1>6, <1>7, <1>8, <1>9, <1>10, <1>11
     DEF Next, CallerNext, GetStep, ManageStep, PoolNext

(* A loop is started once and closed once, and reset only while a caller of *)
(* reset waits, however the calls of the manager interleave.                *)
THEOREM LoopsDriven == Spec => DrivesLoops
  BY InitLoops, NextLoops, ManagerInvariant, PTL DEF Spec, DrivesLoops, Loops!Spec

(* The other way round: what PoolLoop lets the loop of a pool do, and hence *)
(* all that VmPool shows of itself, the manager is prepared for; a crash,   *)
(* which ends the process, apart.                                           *)
LEMMA LoopsExpected ==
  ASSUME NEW p \in Pool, UNCHANGED <<mapVars, callVars, sized, crashed>>,
         \/ (Loops!FinishReset(p) \/ Loops!Stop(p)) /\ UNCHANGED <<pc, pool>>
         \/ /\ Loops!TakeReset(p)
            /\ \E t \in Caller :
                 /\ pool[t] = p /\ pc[t] \in SendStates
                 /\ Goto(t, IF pc[t] = "sendOne" THEN "idle" ELSE "resetAll")
                 /\ pool' = [pool EXCEPT ![t] = Nil]
  PROVE  PoolNext
BY DEF Loops!FinishReset, Loops!Stop, Loops!TakeReset, Loops!Goto, PoolNext,
   FinishReset, Stop, TakeReset

=============================================================================
