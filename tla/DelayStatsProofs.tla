-------------------------- MODULE DelayStatsProofs --------------------------
(***************************************************************************)
(* Proofs about DelayStats for any number of clients and every bound.  The *)
(* counters account for each other because every wait in totalDelay is     *)
(* that of a use counted and over, or of a straggler, and there are never  *)
(* more stragglers and waits of stragglers than clients (Accounted).       *)
(* Between the two stores of a refresh the bound that was in force before  *)
(* them still holds, moved by the uses counted since (Cleared): that is    *)
(* why DelaysFit has twice MaxUses.                                       *)
(***************************************************************************)
EXTENDS DelayStats, FiniteSetTheorems, TLAPS

Int32 == (-Half)..(Half - 1)

Types ==
  /\ useCount \in Int32 /\ totalDelay \in Int32
  /\ wait \in [Client -> {"none", "counted", "straggler"}]
  /\ loop \in {"select", "growLoad", "growDecide", "shrinkLoad", "shrinkDecide",
               "storeCount", "storeDelay"}
  /\ refreshing \in BOOLEAN
  /\ loadedDelay \in Int32 /\ average \in Int32
  /\ decision \in {"none", "grow", "keep", "shrink"}
  /\ uncounted \in Nat

Stragglers == {c \in Client : wait[c] = "straggler"}

(* Uses whose waits may be in totalDelay: those over, and stragglers'.      *)
Over == useCount - Cardinality(Counted) + uncounted

Ranges ==
  /\ Cardinality(Counted) <= useCount /\ useCount <= MaxUses
  /\ totalDelay >= 0 /\ average >= 0 /\ loadedDelay >= 0

Accounted ==
  loop # "storeDelay" =>
    /\ uncounted + Cardinality(Stragglers) <= Cardinality(Client)
    /\ totalDelay <= MaxWait * Over

Cleared ==
  loop = "storeDelay" =>
    totalDelay + MaxWait * Cardinality(Stragglers)
      <= MaxWait * (MaxUses + Cardinality(Client) + useCount - Cardinality(Counted))

Loaded ==
  loop \in {"growDecide", "shrinkDecide"} => loadedDelay <= MaxWait * Over

StatsInv == Types /\ (DelaysFit => Ranges /\ Accounted /\ Cleared /\ Loaded)

USE StatsAssumption DEF statVars, loopVars

-----------------------------------------------------------------------------
(* Arithmetic. *)

LEMMA ModRange ==
  ASSUME NEW n \in Int, NEW k \in Nat \ {0}
  PROVE  n % k \in Nat /\ n % k < k
  OBVIOUS

LEMMA ModSmall ==
  ASSUME NEW k \in Nat \ {0}, NEW n \in 0..(k - 1)
  PROVE  n % k = n
  OBVIOUS

LEMMA WrapRange ==
  ASSUME NEW n \in Int
  PROVE  Wrap(n) \in Int32
<1>1. 2 * Half \in Nat \ {0} /\ n + Half \in Int
  OBVIOUS
<1>2. (n + Half) % (2 * Half) \in Nat /\ (n + Half) % (2 * Half) < 2 * Half
  BY <1>1, ModRange
<1>3. QED
  BY <1>2 DEF Wrap, Int32

LEMMA WrapFits ==
  ASSUME NEW n \in Int32
  PROVE  Wrap(n) = n
<1>1. 2 * Half \in Nat \ {0} /\ n + Half \in 0..(2 * Half - 1)
  BY DEF Int32
<1>2. (n + Half) % (2 * Half) = n + Half
  BY <1>1, ModSmall
<1>3. QED
  BY <1>2 DEF Wrap, Int32

LEMMA TimesMonotone ==
  ASSUME NEW k \in Nat, NEW a \in Int, NEW b \in Int, a <= b
  PROVE  k * a <= k * b
<1>1. k * (b - a) >= 0
  OBVIOUS
<1>2. k * (b - a) = k * b - k * a
  OBVIOUS
<1>3. QED
  BY <1>1, <1>2

LEMMA DivRange ==
  ASSUME NEW a \in Nat, NEW b \in Nat \ {0}
  PROVE  a \div b \in Nat /\ b * (a \div b) <= a /\ a \div b <= a
  OBVIOUS

LEMMA DivBound ==
  ASSUME NEW a \in Nat, NEW b \in Nat \ {0}, NEW k \in Nat, a <= k * b
  PROVE  a \div b <= k
<1> DEFINE q == a \div b
<1>1. q \in Nat /\ b * q <= a
  BY DivRange
<1>2. SUFFICES ASSUME q >= k + 1 PROVE FALSE
  BY <1>1
<1>3. b * (k + 1) <= b * q
  BY <1>1, <1>2, TimesMonotone
<1>4. b * (k + 1) = k * b + b
  OBVIOUS
<1>5. QED
  BY <1>1, <1>3, <1>4

-----------------------------------------------------------------------------
(* The average. *)

LEMMA AverageRange ==
  ASSUME NEW a \in Int32, NEW b \in Int32
  PROVE  AverageDelay(a, b) \in Int32
<1>1. 0 \in Int32
  BY DEF Int32
<1>2. ASSUME b # 0 PROVE Quotient(a, b) \in Int32
  <2>1. Abs(a) \in Nat /\ Abs(b) \in Nat \ {0}
    BY <1>2 DEF Abs, Int32
  <2>2. Abs(a) \div Abs(b) \in Int /\ -(Abs(a) \div Abs(b)) \in Int
    BY <2>1, DivRange
  <2>3. QED
    BY <2>2, WrapRange DEF Quotient
<1>3. QED
  BY <1>1, <1>2 DEF AverageDelay

LEMMA AverageBound ==
  ASSUME NEW a \in Int32, NEW b \in Int32, a >= 0, b >= 0
  PROVE  /\ AverageDelay(a, b) >= 0
         /\ a <= MaxWait * b => AverageDelay(a, b) <= MaxWait
<1>1. CASE b = 0
  BY <1>1 DEF AverageDelay
<1>2. CASE b # 0
  <2>1. a \in Nat /\ b \in Nat \ {0} /\ Abs(a) = a /\ Abs(b) = b
    BY <1>2 DEF Int32, Abs
  <2>2. a \div b \in Nat /\ a \div b <= a
    BY <2>1, DivRange
  <2>3. a \div b \in Int32
    BY <2>1, <2>2 DEF Int32
  <2>4. AverageDelay(a, b) = Wrap(a \div b)
    BY <1>2, <2>1 DEF AverageDelay, Quotient
  <2>5. AverageDelay(a, b) = a \div b
    BY <2>3, <2>4, WrapFits
  <2>6. QED
    BY <2>1, <2>2, <2>5, DivBound
<1>3. QED
  BY <1>1, <1>2

-----------------------------------------------------------------------------
(* Sets of clients. *)

LEMMA ClientsCounted ==
  /\ Cardinality(Counted) \in Nat /\ Cardinality(Stragglers) \in Nat
  /\ Cardinality(Client) \in Nat
  /\ Cardinality(Counted) + Cardinality(Stragglers) <= Cardinality(Client)
<1>1. IsFiniteSet(Counted) /\ IsFiniteSet(Stragglers)
  BY FS_Subset DEF Counted, Stragglers
<1>2. /\ Cardinality(Counted) \in Nat /\ Cardinality(Stragglers) \in Nat
      /\ Cardinality(Client) \in Nat
  BY <1>1, FS_CardinalityType
<1>3. Cardinality(Counted \cap Stragglers) = 0
  <2>1. Counted \cap Stragglers = {}
    BY DEF Counted, Stragglers
  <2>2. QED
    BY <2>1, FS_EmptySet
<1>4. Cardinality(Counted \cup Stragglers)
        = Cardinality(Counted) + Cardinality(Stragglers)
  <2>1. Cardinality(Counted \cup Stragglers)
          = Cardinality(Counted) + Cardinality(Stragglers) - Cardinality(Counted \cap Stragglers)
    BY <1>1, FS_Union
  <2>2. QED
    BY <1>2, <1>3, <2>1
<1>5. Cardinality(Counted \cup Stragglers) <= Cardinality(Client)
  <2>1. IsFiniteSet(Client) /\ Counted \cup Stragglers \subseteq Client
    BY DEF Counted, Stragglers
  <2>2. QED
    BY <2>1, FS_Subset
<1>6. QED
  BY <1>2, <1>4, <1>5

(* How each step changes the two sets of clients that wait.                 *)
Waiting(counted, stragglers) ==
  /\ Cardinality(Counted') = Cardinality(Counted) + counted
  /\ Cardinality(Stragglers') = Cardinality(Stragglers) + stragglers

LEMMA UseWaiting ==
  ASSUME Types, NEW c \in Client, Use(c)
  PROVE  Waiting(0, 0) \/ Waiting(1, 0)
<1>1. IsFiniteSet(Counted)
  BY FS_Subset DEF Counted
<1>2. c \notin Counted /\ Stragglers' = Stragglers
  BY DEF Use, Types, Counted, Stragglers
<1>3. CASE wait' = wait
  <2>1. Counted' = Counted
    BY <1>3 DEF Counted
  <2>2. QED
    BY <1>2, <2>1, ClientsCounted DEF Waiting
<1>4. CASE wait' = [wait EXCEPT ![c] = "counted"]
  <2>1. Counted' = Counted \cup {c}
    BY <1>4 DEF Types, Counted
  <2>2. Cardinality(Counted') = Cardinality(Counted) + 1
    BY <1>1, <1>2, <2>1, FS_AddElement
  <2>3. QED
    BY <1>2, <2>2, ClientsCounted DEF Waiting
<1>5. QED
  BY <1>3, <1>4 DEF Use

LEMMA WaitOver ==
  ASSUME Types, NEW c \in Client, wait[c] # "none", wait' = [wait EXCEPT ![c] = "none"]
  PROVE  \/ wait[c] = "counted" /\ Waiting(-1, 0)
         \/ wait[c] = "straggler" /\ Waiting(0, -1)
<1>1. IsFiniteSet(Counted) /\ IsFiniteSet(Stragglers)
  BY FS_Subset DEF Counted, Stragglers
<1>2. CASE wait[c] = "counted"
  <2>1. c \in Counted /\ Counted' = Counted \ {c} /\ Stragglers' = Stragglers
    BY <1>2 DEF Types, Counted, Stragglers
  <2>2. Cardinality(Counted') = Cardinality(Counted) - 1
    BY <1>1, <2>1, FS_RemoveElement
  <2>3. QED
    BY <1>2, <2>1, <2>2, ClientsCounted DEF Waiting
<1>3. CASE wait[c] = "straggler"
  <2>1. c \in Stragglers /\ Stragglers' = Stragglers \ {c} /\ Counted' = Counted
    BY <1>3 DEF Types, Counted, Stragglers
  <2>2. Cardinality(Stragglers') = Cardinality(Stragglers) - 1
    BY <1>1, <2>1, FS_RemoveElement
  <2>3. QED
    BY <1>3, <2>1, <2>2, ClientsCounted DEF Waiting
<1>4. QED
  BY <1>2, <1>3 DEF Types

LEMMA StoreCountWaiting ==
  ASSUME Types, StoreCount
  PROVE  Waiting(-Cardinality(Counted), Cardinality(Counted))
<1>1. IsFiniteSet(Counted) /\ IsFiniteSet(Stragglers)
  BY FS_Subset DEF Counted, Stragglers
<1>2. Counted' = {} /\ Stragglers' = Counted \cup Stragglers
  BY DEF StoreCount, Types, Counted, Stragglers
<1>3. Cardinality(Counted \cap Stragglers) = 0
  <2>1. Counted \cap Stragglers = {}
    BY DEF Counted, Stragglers
  <2>2. QED
    BY <2>1, FS_EmptySet
<1>4. Cardinality(Counted \cup Stragglers)
        = Cardinality(Counted) + Cardinality(Stragglers)
  <2>1. Cardinality(Counted \cup Stragglers)
          = Cardinality(Counted) + Cardinality(Stragglers) - Cardinality(Counted \cap Stragglers)
    BY <1>1, FS_Union
  <2>2. QED
    BY ClientsCounted, <1>3, <2>1
<1>5. Cardinality(Counted') = 0
  BY <1>2, FS_EmptySet
<1>6. Cardinality(Stragglers') = Cardinality(Counted) + Cardinality(Stragglers)
  BY <1>2, <1>4
<1>7. QED
  BY <1>5, <1>6, ClientsCounted DEF Waiting

-----------------------------------------------------------------------------
LEMMA InitStats == Init => StatsInv
<1> SUFFICES ASSUME Init PROVE StatsInv
  OBVIOUS
<1>1. 0 \in Int32
  BY DEF Int32
<1>2. Types
  BY <1>1 DEF Init, Types
<1>3. Cardinality(Counted) = 0 /\ Cardinality(Stragglers) = 0
  <2>1. Counted = {} /\ Stragglers = {}
    BY DEF Init, Counted, Stragglers
  <2>2. QED
    BY <2>1, FS_EmptySet
<1>4. Over = 0 /\ MaxWait * Over = 0
  BY <1>3 DEF Init, Over
<1>5. QED
  BY <1>2, <1>3, <1>4, ClientsCounted
     DEF Init, StatsInv, Ranges, Accounted, Cleared, Loaded

LEMMA NextTypes == Types /\ [Next]_delayVars => Types'
<1> SUFFICES ASSUME Types, [Next]_delayVars PROVE Types'
  OBVIOUS
<1>1. 0 \in Int32
  BY DEF Int32
<1>2. ASSUME NEW c \in Client, Use(c) PROVE Types'
  <2>1. useCount' \in Int32
    BY <1>2, WrapRange DEF Use, Types, Int32
  <2>2. QED
    BY <1>2, <2>1 DEF Use, Types
<1>3. ASSUME NEW c \in Client, AddDelay(c) PROVE Types'
  <2>1. totalDelay' \in Int32
    BY <1>3, WrapRange DEF AddDelay, Types, Int32
  <2>2. uncounted' \in Nat
    BY <1>3 DEF AddDelay, Types
  <2>3. QED
    BY <1>3, <2>1, <2>2 DEF AddDelay, Types
<1>4. ASSUME NEW timer \in BOOLEAN, Wake(timer) PROVE Types'
  BY <1>4 DEF Wake, Types
<1>12. ASSUME NEW c \in Client, WaitBreaks(c) PROVE Types'
  BY <1>12 DEF WaitBreaks, Types
<1>5. CASE LoadDelay
  BY <1>5 DEF LoadDelay, Types
<1>6. CASE DecideGrow
  <2>1. average' \in Int32
    BY <1>6, AverageRange DEF DecideGrow, Types
  <2>2. QED
    BY <1>6, <2>1 DEF DecideGrow, Types
<1>7. CASE DecideShrink
  <2>1. average' \in Int32
    BY <1>7, AverageRange DEF DecideShrink, Types
  <2>2. QED
    BY <1>7, <2>1 DEF DecideShrink, Types
<1>8. CASE StoreCount
  BY <1>1, <1>8 DEF StoreCount, Types
<1>9. CASE StoreDelay
  BY <1>1, <1>9 DEF StoreDelay, Types
<1>10. CASE UNCHANGED delayVars
  BY <1>10 DEF delayVars, Types
<1>11. QED
  BY <1>2, <1>3, <1>4, <1>5, <1>6, <1>7, <1>8, <1>9, <1>10, <1>12 DEF Next

-----------------------------------------------------------------------------
(* What a step keeps of the bounds.                                         *)
Bounds == Ranges /\ Accounted /\ Cleared /\ Loaded

(* A use makes room for its own wait. *)
LEMMA UseKeeps ==
  ASSUME Types, DelaysFit, Bounds, NEW c \in Client, Use(c)
  PROVE  Bounds'
<1>1. useCount' = useCount + 1 /\ useCount' <= MaxUses
  <2>1. useCount + 1 \in Int32 /\ useCount < MaxUses
    BY DEF Use, Types, DelaysFit, Bounds, Ranges, Int32
  <2>2. QED
    BY <2>1, WrapFits DEF Use, Types, Int32
<1>2. PICK n \in {0, 1} : Waiting(n, 0)
  BY UseWaiting
<1>3. UNCHANGED <<totalDelay, uncounted, loop, loadedDelay, average>>
  BY DEF Use
<1> DEFINE C == Cardinality(Counted)
           N == Cardinality(Client)
           S == Cardinality(Stragglers)
<1>4. C \in Nat /\ S \in Nat /\ N \in Nat /\ useCount \in Int /\ uncounted \in Nat
      /\ totalDelay \in Int /\ loadedDelay \in Int
  BY ClientsCounted DEF Types, Int32
<1>5. Cardinality(Counted)' = C + n /\ Cardinality(Stragglers)' = S
  BY <1>2, <1>4 DEF Waiting
<1>6. Over' >= Over /\ Over \in Int /\ Over' \in Int
  BY <1>1, <1>3, <1>4, <1>5 DEF Over
<1>7. MaxWait * Over <= MaxWait * Over' /\ MaxWait * Over \in Int /\ MaxWait * Over' \in Int
  <2>1. MaxWait * Over <= MaxWait * Over'
    BY <1>6, TimesMonotone
  <2>2. \A x \in Int : MaxWait * x \in Int
    OBVIOUS
  <2>3. QED
    BY <1>6, <2>1, <2>2
<1>8. Ranges'
  BY <1>1, <1>3, <1>4, <1>5 DEF Bounds, Ranges
<1>9. Accounted' /\ Loaded'
  BY <1>3, <1>4, <1>5, <1>7 DEF Bounds, Accounted, Loaded
<1>10. Cleared'
  <2>1. MaxWait * (MaxUses + N + useCount - C)
          <= MaxWait * (MaxUses + N + (useCount + 1) - (C + n))
    <3>1. /\ MaxUses + N + useCount - C \in Int
          /\ MaxUses + N + (useCount + 1) - (C + n) \in Int
          /\ MaxUses + N + useCount - C <= MaxUses + N + (useCount + 1) - (C + n)
      BY <1>4
    <3>2. QED
      BY <3>1, TimesMonotone
  <2>2. MaxWait * S \in Int /\ MaxWait * (MaxUses + N + useCount - C) \in Int
        /\ MaxWait * (MaxUses + N + (useCount + 1) - (C + n)) \in Int
    BY <1>4
  <2>3. QED
    BY <1>1, <1>3, <1>4, <1>5, <2>1, <2>2 DEF Bounds, Cleared
<1>11. QED
  BY <1>8, <1>9, <1>10 DEF Bounds

(* A wait that ends leaves the bound on the total, or moves with it.        *)
LEMMA AddDelayKeeps ==
  ASSUME Types, DelaysFit, Bounds, NEW c \in Client, AddDelay(c)
  PROVE  Bounds'
<1> DEFINE C == Cardinality(Counted)
           N == Cardinality(Client)
           S == Cardinality(Stragglers)
<1>1. C \in Nat /\ S \in Nat /\ N \in Nat /\ useCount \in Int /\ uncounted \in Nat
      /\ totalDelay \in Int /\ loadedDelay \in Int /\ C + S <= N
  BY ClientsCounted DEF Types, Int32
<1>2. UNCHANGED <<useCount, loop, loadedDelay, average>>
  BY DEF AddDelay
<1>3. PICK elapsed \in 0..MaxWait : totalDelay' = Wrap(totalDelay + elapsed)
  BY DEF AddDelay, DelaysFit
<1>4. PICK n \in {0, 1} :
        /\ Waiting(-n, n - 1) /\ uncounted' = uncounted + (1 - n)
  <2>1. CASE wait[c] = "counted" /\ Waiting(-1, 0)
    BY <1>1, <2>1 DEF AddDelay
  <2>2. CASE wait[c] = "straggler" /\ Waiting(0, -1)
    BY <1>1, <2>2 DEF AddDelay
  <2>3. QED
    BY <2>1, <2>2, WaitOver DEF AddDelay
<1>5. Cardinality(Counted)' = C - n /\ Cardinality(Stragglers)' = S + n - 1
  BY <1>1, <1>4 DEF Waiting
<1>6. C - n \in Nat /\ S + n - 1 \in Nat
  <2>1. IsFiniteSet(Counted') /\ IsFiniteSet(Stragglers')
    BY FS_Subset DEF Counted, Stragglers
  <2>2. Cardinality(Counted') \in Nat /\ Cardinality(Stragglers') \in Nat
    BY <2>1, FS_CardinalityType
  <2>3. QED
    BY <1>5, <2>2
<1>7. Over' = Over + 1 /\ Over \in Int
  BY <1>1, <1>2, <1>4, <1>5 DEF Over
<1>8. MaxWait * (Over + 1) = MaxWait * Over + MaxWait /\ MaxWait * Over \in Int
  BY <1>7
<1> DEFINE Before == MaxUses + N + useCount - C
<1>9. /\ Before \in Int /\ MaxWait * Before \in Int /\ MaxWait * S \in Int
      /\ MaxWait * (MaxUses + N + useCount - (C - n)) = MaxWait * Before + MaxWait * n
      /\ MaxWait * (S + n - 1) = MaxWait * S + MaxWait * n - MaxWait
      /\ MaxWait * n \in Int
  <2>1. Before \in Int /\ n \in Int /\ MaxWait * S \in Int /\ MaxWait * n \in Int
    BY <1>1
  <2>2. MaxWait * Before \in Int /\ MaxWait * (Before + n) = MaxWait * Before + MaxWait * n
    BY <2>1
  <2>3. MaxWait * (S + n - 1) = MaxWait * S + MaxWait * n - MaxWait
    BY <1>1, <2>1
  <2>4. MaxUses + N + useCount - (C - n) = Before + n
    BY <1>1
  <2>5. QED
    BY <2>1, <2>2, <2>3, <2>4
(* The sum does not wrap around. *)
<1>10. totalDelay + MaxWait < Half
  <2>1. /\ useCount <= MaxUses /\ C <= useCount
        /\ MaxWait * (2 * MaxUses + N) < Half
    BY DEF Bounds, Ranges, DelaysFit
  <2>2. CASE loop = "storeDelay"
    <3>1. totalDelay + MaxWait * S <= MaxWait * Before
      BY <2>2 DEF Bounds, Cleared
    <3>2. MaxWait * (Before + n) <= MaxWait * (2 * MaxUses + N)
      <4>1. Before + n \in Int /\ 2 * MaxUses + N \in Int /\ Before + n <= 2 * MaxUses + N
        BY <1>1, <1>6, <2>1
      <4>2. QED
        BY <4>1, TimesMonotone
    <3>3. MaxWait * (S + n - 1) >= 0
      BY <1>6
    <3>4. MaxWait * (Before + n) = MaxWait * Before + MaxWait * n
      BY <1>9
    <3>5. QED
      BY <1>1, <1>9, <2>1, <3>1, <3>2, <3>3, <3>4
  <2>3. CASE loop # "storeDelay"
    <3>1. totalDelay <= MaxWait * Over /\ uncounted + S <= N
      BY <2>3 DEF Bounds, Accounted
    <3>2. MaxWait * (Over + 1) <= MaxWait * (2 * MaxUses + N)
      <4>1. 2 * MaxUses + N \in Int /\ Over + 1 <= 2 * MaxUses + N
        BY <1>1, <1>6, <2>1, <3>1 DEF Over
      <4>2. QED
        BY <1>7, <4>1, TimesMonotone
    <3>3. QED
      BY <1>1, <1>8, <2>1, <3>1, <3>2
  <2>4. QED
    BY <2>2, <2>3
<1>11. totalDelay' = totalDelay + elapsed /\ totalDelay >= 0
  <2>1. totalDelay >= 0
    BY DEF Bounds, Ranges
  <2>2. totalDelay + elapsed \in Int32
    BY <1>1, <1>10, <2>1 DEF Int32
  <2>3. QED
    BY <1>3, <2>1, <2>2, WrapFits
<1>12. Ranges'
  BY <1>1, <1>2, <1>5, <1>11 DEF Bounds, Ranges
<1>13. Accounted'
  <2>1. ASSUME loop # "storeDelay"
        PROVE  /\ uncounted' + (S + n - 1) <= N
               /\ totalDelay' <= MaxWait * (Over + 1)
    BY <1>1, <1>4, <1>8, <1>11, <2>1 DEF Bounds, Accounted
  <2>2. QED
    BY <1>2, <1>5, <1>7, <2>1 DEF Accounted
<1>14. Loaded'
  <2>1. ASSUME loop \in {"growDecide", "shrinkDecide"}
        PROVE  loadedDelay <= MaxWait * (Over + 1)
    BY <1>1, <1>8, <2>1 DEF Bounds, Loaded
  <2>2. QED
    BY <1>2, <1>7, <2>1 DEF Loaded
<1>15. Cleared'
  <2>1. ASSUME loop = "storeDelay"
        PROVE  totalDelay' + MaxWait * (S + n - 1)
                 <= MaxWait * (MaxUses + N + useCount - (C - n))
    BY <1>1, <1>9, <1>11, <2>1 DEF Bounds, Cleared
  <2>2. QED
    BY <1>2, <1>5, <2>1 DEF Cleared
<1>16. QED
  BY <1>12, <1>13, <1>14, <1>15 DEF Bounds

(* A wait that breaks off is one that took no time, or leaves with its      *)
(* straggler.                                                               *)
LEMMA WaitBreaksKeeps ==
  ASSUME Types, DelaysFit, Bounds, NEW c \in Client, WaitBreaks(c)
  PROVE  Bounds'
<1>1. CASE wait[c] = "counted"
  <2>1. totalDelay' = Wrap(totalDelay + 0)
    BY WrapFits DEF WaitBreaks, statVars, Types, Int32
  <2>2. 0 \in (-MaxBack)..MaxWait
    OBVIOUS
  <2>3. AddDelay(c)
    BY <1>1, <2>1, <2>2 DEF WaitBreaks, AddDelay, statVars
  <2>4. QED
    BY <2>3, AddDelayKeeps
<1>2. CASE wait[c] = "straggler"
  <2> DEFINE S == Cardinality(Stragglers)
  <2>1. UNCHANGED <<useCount, totalDelay, uncounted, loop, loadedDelay, average>>
    BY DEF WaitBreaks, statVars, loopVars
  <2>2. Waiting(0, -1)
    BY <1>2, WaitOver DEF WaitBreaks
  <2>3. S \in Nat /\ Cardinality(Client) \in Nat /\ uncounted \in Nat /\ useCount \in Int
        /\ totalDelay \in Int /\ Cardinality(Counted) \in Nat
    BY ClientsCounted DEF Types, Int32
  <2>4. Cardinality(Counted)' = Cardinality(Counted) /\ Cardinality(Stragglers)' = S - 1
    BY <2>2, <2>3 DEF Waiting
  <2>5. Over' = Over
    BY <2>1, <2>4 DEF Over
  <2>6. Ranges' /\ Accounted' /\ Loaded'
    BY <2>1, <2>3, <2>4, <2>5 DEF Bounds, Ranges, Accounted, Loaded
  <2>7. Cleared'
    <3>1. MaxWait * (S - 1) <= MaxWait * S /\ MaxWait * S \in Int /\ MaxWait * (S - 1) \in Int
      BY <2>3, TimesMonotone
    <3>2. \A x \in Int : MaxWait * x \in Int
      OBVIOUS
    <3>3. ASSUME loop = "storeDelay"
          PROVE  totalDelay + MaxWait * (S - 1)
                   <= MaxWait * (MaxUses + Cardinality(Client) + useCount - Cardinality(Counted))
      <4>1. MaxUses + Cardinality(Client) + useCount - Cardinality(Counted) \in Int
        BY <2>3
      <4>2. QED
        BY <2>3, <3>1, <3>2, <3>3, <4>1 DEF Bounds, Cleared
    <3>4. QED
      BY <2>1, <2>4, <3>3 DEF Cleared
  <2>8. QED
    BY <2>6, <2>7 DEF Bounds
<1>3. QED
  BY <1>1, <1>2 DEF WaitBreaks, Types

(* The first store of a refresh turns the bound on the total into one that  *)
(* no longer rests on what was counted before it.                           *)
LEMMA StoreCountKeeps ==
  ASSUME Types, DelaysFit, Bounds, StoreCount
  PROVE  Bounds'
<1> DEFINE C == Cardinality(Counted)
           N == Cardinality(Client)
           S == Cardinality(Stragglers)
<1>1. C \in Nat /\ S \in Nat /\ N \in Nat /\ useCount \in Int /\ uncounted \in Nat
      /\ totalDelay \in Int /\ C + S <= N
  BY ClientsCounted DEF Types, Int32
<1>2. Cardinality(Counted)' = 0 /\ Cardinality(Stragglers)' = C + S
  BY <1>1, StoreCountWaiting DEF Waiting
<1>3. /\ loop = "storeCount" /\ loop' = "storeDelay" /\ useCount' = 0
      /\ UNCHANGED <<totalDelay, loadedDelay, average>>
  BY DEF StoreCount
<1>4. totalDelay <= MaxWait * Over /\ uncounted + S <= N /\ useCount <= MaxUses
  BY <1>3 DEF Bounds, Accounted, Ranges
<1>5. totalDelay + MaxWait * (C + S) <= MaxWait * (MaxUses + N + 0 - 0)
  <2>1. Over \in Int /\ C + S \in Int /\ Over + (C + S) <= MaxUses + N
    BY <1>1, <1>4 DEF Over
  <2>2. MaxWait * (Over + (C + S)) <= MaxWait * (MaxUses + N)
    BY <1>1, <2>1, TimesMonotone
  <2>3. MaxWait * (Over + (C + S)) = MaxWait * Over + MaxWait * (C + S)
    BY <2>1
  <2>4. MaxWait * Over \in Int /\ MaxWait * (C + S) \in Int
        /\ MaxWait * (MaxUses + N) \in Int
    BY <1>1, <2>1
  <2>5. MaxUses + N + 0 - 0 = MaxUses + N
    BY <1>1
  <2>6. QED
    BY <1>1, <1>4, <2>2, <2>3, <2>4, <2>5
<1>6. Cleared'
  BY <1>2, <1>3, <1>5 DEF Cleared
<1>7. Ranges' /\ Accounted' /\ Loaded'
  BY <1>2, <1>3 DEF Bounds, Ranges, Accounted, Loaded
<1>8. QED
  BY <1>6, <1>7 DEF Bounds

LEMMA StoreDelayKeeps ==
  ASSUME Types, DelaysFit, Bounds, StoreDelay
  PROVE  Bounds'
<1>1. UNCHANGED <<Counted, Stragglers>>
  BY DEF StoreDelay, Counted, Stragglers
<1>2. /\ Cardinality(Counted)' = Cardinality(Counted)
      /\ Cardinality(Stragglers)' = Cardinality(Stragglers)
  BY <1>1
<1>3. /\ totalDelay' = 0 /\ uncounted' = 0 /\ loop' = "select"
      /\ UNCHANGED <<useCount, loadedDelay, average>>
  BY DEF StoreDelay
<1>4. Over' \in Nat
  BY <1>2, <1>3, ClientsCounted DEF Bounds, Ranges, Over, Types, Int32
<1>5. MaxWait * Over' >= 0
  <2>1. \A x \in Nat : MaxWait * x >= 0
    OBVIOUS
  <2>2. QED
    BY <1>4, <2>1
<1>6. Accounted'
  BY <1>2, <1>3, <1>5, ClientsCounted DEF Accounted
<1>7. Ranges' /\ Cleared' /\ Loaded'
  BY <1>2, <1>3 DEF Bounds, Ranges, Cleared, Loaded
<1>8. QED
  BY <1>6, <1>7 DEF Bounds

(* Steps of the loop that change neither counter. *)
LEMMA LoopKeeps ==
  ASSUME Types, DelaysFit, Bounds,
         UNCHANGED <<statVars, wait>>, average' >= 0,
         loop # "storeDelay", loop' # "storeDelay",
         \/ loop' \notin {"growDecide", "shrinkDecide"} /\ loadedDelay' = loadedDelay
         \/ loadedDelay' = totalDelay
         \/ UNCHANGED <<loop, loadedDelay>>
  PROVE  Bounds'
<1>1. UNCHANGED <<Counted, Stragglers>>
  BY DEF Counted, Stragglers
<1>2. /\ Cardinality(Counted)' = Cardinality(Counted)
      /\ Cardinality(Stragglers)' = Cardinality(Stragglers)
  BY <1>1
<1>3. Over' = Over
  BY <1>2 DEF Over
<1>4. Ranges' /\ Accounted' /\ Cleared'
  BY <1>2, <1>3 DEF Bounds, Ranges, Accounted, Cleared
<1>5. Loaded'
  BY <1>3 DEF Bounds, Accounted, Loaded
<1>6. QED
  BY <1>4, <1>5 DEF Bounds

(* The average is of two counters that are not negative. *)
LEMMA DecideAverage ==
  ASSUME Types, DelaysFit, Bounds, DecideGrow \/ DecideShrink
  PROVE  /\ average' >= 0
         /\ uncounted = 0 => average' <= MaxWait
<1>1. /\ average' = AverageDelay(loadedDelay, useCount)
      /\ loop \in {"growDecide", "shrinkDecide"}
  BY DEF DecideGrow, DecideShrink
<1>2. /\ loadedDelay \in Int32 /\ loadedDelay >= 0
      /\ useCount \in Int32 /\ useCount >= 0
  BY ClientsCounted DEF Types, Bounds, Ranges, Int32
<1>3. ASSUME uncounted = 0 PROVE loadedDelay <= MaxWait * useCount
  <2>1. Over \in Int /\ useCount \in Int /\ Over <= useCount
    BY <1>3, ClientsCounted DEF Over, Types, Int32
  <2>2. MaxWait * Over <= MaxWait * useCount
    BY <2>1, TimesMonotone
  <2>3. loadedDelay <= MaxWait * Over
    BY <1>1 DEF Bounds, Loaded
  <2>4. loadedDelay \in Int /\ MaxWait * Over \in Int /\ MaxWait * useCount \in Int
    BY <1>2, <2>1 DEF Int32
  <2>5. QED
    BY <2>2, <2>3, <2>4
<1>4. QED
  BY <1>1, <1>2, <1>3, AverageBound

LEMMA NextBounds ==
  ASSUME Types, DelaysFit, Bounds, [Next]_delayVars
  PROVE  Bounds'
<1>1. ASSUME NEW timer \in BOOLEAN, Wake(timer) PROVE Bounds'
  BY <1>1, LoopKeeps DEF Wake, Bounds, Ranges
<1>2. CASE LoadDelay
  BY <1>2, LoopKeeps DEF LoadDelay, Bounds, Ranges
<1>3. CASE DecideGrow \/ DecideShrink
  BY <1>3, LoopKeeps, DecideAverage DEF DecideGrow, DecideShrink
<1>4. CASE UNCHANGED delayVars
  <2>1. UNCHANGED <<Counted, Stragglers>>
    BY <1>4 DEF Counted, Stragglers, delayVars
  <2>2. /\ Cardinality(Counted)' = Cardinality(Counted)
        /\ Cardinality(Stragglers)' = Cardinality(Stragglers)
    BY <2>1
  <2>3. Over' = Over
    BY <1>4, <2>2 DEF Over, delayVars
  <2>4. QED
    BY <1>4, <2>2, <2>3 DEF delayVars, Bounds, Ranges, Accounted, Cleared, Loaded
<1>5. QED
  BY <1>1, <1>2, <1>3, <1>4, UseKeeps, AddDelayKeeps, WaitBreaksKeeps, StoreCountKeeps, StoreDelayKeeps
     DEF Next

-----------------------------------------------------------------------------
LEMMA StatsInvariant == Spec => []StatsInv
<1>1. StatsInv /\ [Next]_delayVars => StatsInv'
  <2>1. StatsInv /\ [Next]_delayVars => Types'
    BY NextTypes DEF StatsInv
  <2>2. DelaysFit' = DelaysFit
    BY DEF DelaysFit
  <2>3. StatsInv /\ [Next]_delayVars => (DelaysFit => Ranges /\ Accounted /\ Cleared /\ Loaded)'
    BY <2>2, NextBounds DEF StatsInv, Bounds
  <2>4. QED
    BY <2>1, <2>3 DEF StatsInv
<1>2. QED
  BY InitStats, <1>1, PTL DEF Spec

(* Every variable keeps its type, and no counter and no average is ever     *)
(* negative unless more delay adds up than an int32 can hold or the clock   *)
(* is set back during a wait.                                               *)
THEOREM StatsTypeCorrect == Spec => []StatsTypeOK
<1>1. ASSUME StatsInv PROVE StatsTypeOK
  BY <1>1, ClientsCounted DEF StatsInv, Types, Ranges, Int32, StatsTypeOK
<1>2. QED
  BY <1>1, StatsInvariant, PTL

(* Whenever the loop may read them, totalDelay is no more than the waits of *)
(* the uses that are counted and over, and of stragglers, can add up to.    *)
THEOREM DelaysAccounted == Spec => []DelayAccounted
<1>1. StatsInv => DelayAccounted
  BY DEF StatsInv, Accounted, Over, DelayAccounted
<1>2. QED
  BY <1>1, StatsInvariant, PTL

(* The average a decision is made on is no longer than the longest wait,    *)
(* although the two counters are loaded apart, unless there are waits of    *)
(* uses that a refresh has forgotten.                                       *)
THEOREM AveragesHonest == Spec => AverageHonest
<1>1. ASSUME StatsInv, [Next]_delayVars
      PROVE  [DelaysFit /\ uncounted = 0 /\ average' # average
              => average' <= MaxWait]_delayVars
  <2>1. ASSUME DelaysFit, uncounted = 0, average' # average PROVE average' <= MaxWait
    <3>1. DecideGrow \/ DecideShrink
      BY <1>1, <2>1 DEF Next, Use, AddDelay, WaitBreaks, Wake, LoadDelay, StoreCount, StoreDelay,
         delayVars
    <3>2. QED
      BY <1>1, <2>1, <3>1, DecideAverage DEF StatsInv, Bounds
  <2>2. QED
    BY <2>1
<1>2. QED
  BY <1>1, StatsInvariant, PTL DEF Spec, AverageHonest

=============================================================================
