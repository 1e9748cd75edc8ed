-------------------------- MODULE WaitGroupProofs --------------------------
(***************************************************************************)
(* Theorems about WaitGroup, for every finite set of items and every set   *)
(* of spawners and waiters.                                                *)
(***************************************************************************)
EXTENDS WaitGroup, FiniteSetTheorems, TLAPS

\* A part of Items is finite, and has no more members than Items has.
LEMMA ItemsFinite ==
  ASSUME NEW S \in SUBSET Items
  PROVE  /\ IsFiniteSet(S)
         /\ Cardinality(S) \in 0..Cardinality(Items)
  <1>1. IsFiniteSet(Items)
    BY GroupAssumption DEF GroupAssumption
  <1>2. IsFiniteSet(S) /\ Cardinality(S) <= Cardinality(Items)
    BY <1>1, FS_Subset
  <1>3. Cardinality(S) \in Nat /\ Cardinality(Items) \in Nat
    BY <1>1, <1>2, FS_CardinalityType
  <1>. QED
    BY <1>2, <1>3

\* Once the counter is exact after a step, it also has its type.
LEMMA CountTyped ==
  ASSUME CountIsExact' PROVE count' \in 0..Cardinality(Items)
  <1>1. Unfinished' \in SUBSET Items
    BY DEF Unfinished
  <1>. QED
    BY <1>1, ItemsFinite DEF CountIsExact

\* Steps that change no stage of an item leave the set of unfinished ones as it is,
\* and so does the start of a batch that was counted.
LEMMA StartKeepsUnfinished ==
  ASSUME IInv, NEW S \in SUBSET Items, \A i \in S : work[i] = "counted",
         work' = Stage(S, "started")
  PROVE  Unfinished' = Unfinished
  BY DEF IInv, TypeOK, Stage, Unfinished

LEMMA InitInv == Init => IInv
  <1>. SUFFICES ASSUME Init PROVE IInv
    OBVIOUS
  <1>1. Unfinished = {}
    BY DEF Init, Unfinished
  <1>2. CountIsExact
    BY <1>1, FS_EmptySet DEF CountIsExact, Init
  <1>3. count \in 0..Cardinality(Items)
    BY <1>1, <1>2, ItemsFinite DEF CountIsExact
  <1>4. TypeOK
    BY <1>3 DEF Init, TypeOK, Stages, WaiterPcs, CallerPcs
  <1>5. PlaceInv /\ BatchInv
    BY GroupAssumption DEF Init, PlaceInv, BatchInv, WaiterPcs, CallerPcs, Threads, Callers,
       GroupAssumption
  <1>6. NoLostWakeup
    BY DEF Init, NoLostWakeup, Threads
  <1>. QED
    BY <1>2, <1>4, <1>5, <1>6 DEF IInv

-----------------------------------------------------------------------------
(***************************************************************************)
(* One lemma per action.                                                   *)
(***************************************************************************)
LEMMA AddKeeps ==
  ASSUME IInv, NEW s \in Spawners, NEW S \in SUBSET Items, Add(s, S) PROVE IInv'
  <1>. USE GroupAssumption DEF GroupAssumption, IInv, Add, Goto
  <1>1. /\ Unfinished' = Unfinished \cup S
        /\ Unfinished \cap S = {}
    BY DEF Unfinished, Stage, TypeOK
  <1>2. Cardinality(Unfinished \cup S) = Cardinality(Unfinished) + Cardinality(S)
    <2>1. IsFiniteSet(Unfinished) /\ IsFiniteSet(S)
      BY ItemsFinite DEF Unfinished
    <2>2. Cardinality(Unfinished) \in Nat /\ Cardinality(S) \in Nat
      BY <2>1, FS_CardinalityType
    <2>3. Cardinality(Unfinished \cap S) = 0
      BY <1>1, FS_EmptySet
    <2>4. Cardinality(Unfinished \cup S) =
            Cardinality(Unfinished) + Cardinality(S) - Cardinality(Unfinished \cap S)
      BY <2>1, FS_Union
    <2>. QED
      BY <2>2, <2>3, <2>4
  <1>3. CountIsExact'
    BY <1>1, <1>2 DEF CountIsExact, Number
  <1>4. TypeOK'
    BY <1>3, CountTyped DEF TypeOK, Stage, Stages, Threads, Callers, CallerPcs
  <1>5. PlaceInv'
    BY DEF PlaceInv, TypeOK, Threads, Callers, CallerPcs
  <1>6. BatchInv'
    BY DEF BatchInv, TypeOK, Stage, Threads, Callers
  <1>7. NoLostWakeup'
    BY DEF NoLostWakeup, TypeOK, Threads, Callers
  <1>. QED
    BY <1>3, <1>4, <1>5, <1>6, <1>7

LEMMA DoneKeeps ==
  ASSUME IInv, NEW i \in Items, Done(i) PROVE IInv'
  <1>. USE GroupAssumption DEF GroupAssumption, IInv, Done, Goto
  <1>1. /\ Unfinished' = Unfinished \ {i}
        /\ i \in Unfinished
    BY DEF Unfinished, Stage, TypeOK
  <1>2. Cardinality(Unfinished \ {i}) = Cardinality(Unfinished) - 1
    BY <1>1, ItemsFinite, FS_RemoveElement DEF Unfinished
  <1>3. CountIsExact'
    BY <1>1, <1>2 DEF CountIsExact
  <1>4. TypeOK'
    BY <1>3, CountTyped DEF TypeOK, Stage, Stages, Threads, Callers, CallerPcs
  <1>5. PlaceInv'
    BY DEF PlaceInv, TypeOK, Threads, Callers, CallerPcs
  <1>6. BatchInv'
    BY DEF BatchInv, TypeOK, Stage, Threads, Callers
  <1>7. NoLostWakeup'
    \* The caller that made the counter zero is the one that will look again.
    BY DEF NoLostWakeup, TypeOK, Threads, Callers
  <1>. QED
    BY <1>3, <1>4, <1>5, <1>6, <1>7

\* add returns in c, and a spawner's batch starts.
LEMMA ReturnKeeps ==
  ASSUME IInv, NEW c \in Callers,
         work' = IF c \in Spawners THEN Stage(batch[c], "started") ELSE work,
         batch' = IF c \in Spawners THEN [batch EXCEPT ![c] = {}] ELSE batch,
         count' = count
  PROVE  /\ CountIsExact'
         /\ work' \in [Items -> Stages]
         /\ batch' \in [Spawners -> SUBSET Items]
         /\ \A s \in Spawners : \A i \in batch'[s] : work'[i] = "counted"
         /\ \A s, r \in Spawners : s # r => batch'[s] \cap batch'[r] = {}
         /\ \A s \in Spawners : batch'[s] \in {{}, batch[s]} /\ (s = c => batch'[s] = {})
  <1>. USE DEF IInv
  <1>1. Unfinished' = Unfinished
    BY StartKeepsUnfinished DEF TypeOK, BatchInv, Unfinished
  <1>2. CountIsExact'
    BY <1>1 DEF CountIsExact
  <1>3. /\ work' \in [Items -> Stages]
        /\ batch' \in [Spawners -> SUBSET Items]
    BY DEF TypeOK, Stage, Stages
  <1>4. \A s \in Spawners : batch'[s] \in {{}, batch[s]} /\ (s = c => batch'[s] = {})
    BY DEF TypeOK
  <1>5. \A s \in Spawners : \A i \in batch'[s] : work'[i] = "counted"
    BY DEF TypeOK, BatchInv, Stage
  <1>6. \A s, r \in Spawners : s # r => batch'[s] \cap batch'[r] = {}
    BY <1>4 DEF BatchInv
  <1>. QED
    BY <1>2, <1>3, <1>4, <1>5, <1>6

LEMMA RereadKeeps ==
  ASSUME IInv, NEW c \in Callers, Reread(c) PROVE IInv'
  <1>. USE GroupAssumption DEF GroupAssumption, IInv, Reread, Goto
  <1>1. CASE IsZero
    <2>1. CountIsExact'
      BY <1>1 DEF CountIsExact, Unfinished
    <2>2. TypeOK' /\ PlaceInv' /\ BatchInv'
      BY <1>1 DEF TypeOK, PlaceInv, BatchInv, Threads, Callers, CallerPcs
    <2>3. NoLostWakeup'
      BY <1>1 DEF NoLostWakeup, TypeOK, Threads, Callers
    <2>. QED
      BY <2>1, <2>2, <2>3
  <1>2. CASE ~IsZero
    <2>1. count' = count /\ Returned(c)
      BY <1>2
    <2>2. /\ CountIsExact'
          /\ work' \in [Items -> Stages]
          /\ batch' \in [Spawners -> SUBSET Items]
          /\ \A s \in Spawners : \A i \in batch'[s] : work'[i] = "counted"
          /\ \A s, r \in Spawners : s # r => batch'[s] \cap batch'[r] = {}
          /\ \A s \in Spawners : batch'[s] \in {{}, batch[s]} /\ (s = c => batch'[s] = {})
      BY <2>1, ReturnKeeps DEF Returned
    <2>3. pc' = [pc EXCEPT ![c] = "idle"]
      BY <2>1 DEF Returned
    <2>4. TypeOK'
      BY <2>2, <2>3 DEF TypeOK, Threads, Callers, CallerPcs
    <2>5. PlaceInv'
      BY <2>3 DEF PlaceInv, TypeOK, Threads, Callers, CallerPcs
    <2>6. BatchInv'
      BY <2>2, <2>3 DEF BatchInv, TypeOK, Threads, Callers
    <2>7. NoLostWakeup'
      BY <1>2 DEF NoLostWakeup, IsZero
    <2>. QED
      BY <2>2, <2>4, <2>5, <2>6, <2>7
  <1>. QED
    BY <1>1, <1>2

LEMMA NotifyAllKeeps ==
  ASSUME IInv, NEW c \in Callers, NotifyAll(c) PROVE IInv'
  <1>. USE GroupAssumption DEF GroupAssumption, IInv, NotifyAll
  <1>1. /\ CountIsExact'
        /\ work' \in [Items -> Stages]
        /\ batch' \in [Spawners -> SUBSET Items]
        /\ \A s \in Spawners : \A i \in batch'[s] : work'[i] = "counted"
        /\ \A s, r \in Spawners : s # r => batch'[s] \cap batch'[r] = {}
        /\ \A s \in Spawners : batch'[s] \in {{}, batch[s]} /\ (s = c => batch'[s] = {})
    BY ReturnKeeps
  <1>2. \A t \in Callers : t \notin waiting
    BY DEF TypeOK
  <1>3. TypeOK'
    BY <1>1 DEF TypeOK, Threads, Callers, CallerPcs, WaiterPcs
  <1>4. PlaceInv'
    BY <1>2 DEF PlaceInv, TypeOK, Threads, Callers, CallerPcs, WaiterPcs
  <1>5. BatchInv'
    BY <1>1, <1>2 DEF BatchInv, TypeOK, Threads, Callers
  <1>6. NoLostWakeup'
    \* The mutex is free, so no waiter is between its test and its sleep.
    <2>1. \A w \in Waiters : pc'[w] \notin {"block", "wait"}
      BY DEF PlaceInv, TypeOK, Threads, MutexIsFree, WaiterPcs, Callers
    <2>. QED
      BY <2>1 DEF NoLostWakeup
  <1>. QED
    BY <1>1, <1>3, <1>4, <1>5, <1>6

\* The steps of wait, which touch no item and no caller.
LEMMA WaiterKeeps ==
  ASSUME IInv, NEW w \in Waiters, Wait(w) \/ Waiter(w) \/ SpuriousWakeup(w) PROVE IInv'
  <1>. USE GroupAssumption DEF GroupAssumption, IInv, Goto
  <1>1. UNCHANGED <<count, work, batch>> /\ \A c \in Callers : pc'[c] = pc[c]
    BY DEF Wait, Waiter, Lock, Test, Block, SpuriousWakeup, TypeOK, Threads
  <1>2. CountIsExact' /\ BatchInv'
    BY <1>1 DEF CountIsExact, Unfinished, BatchInv, Callers
  <1>3. TypeOK'
    BY DEF Wait, Waiter, Lock, Test, Block, SpuriousWakeup, TypeOK, Threads, WaiterPcs,
       Unfinished
  <1>4. PlaceInv'
    BY DEF Wait, Waiter, Lock, Test, Block, SpuriousWakeup, PlaceInv, TypeOK, Threads,
       WaiterPcs
  <1>5. NoLostWakeup'
    <2>1. SUFFICES ASSUME count' = 0, NEW v \in Waiters, pc'[v] \in {"block", "wait"}
                   PROVE  \E c \in Callers : pc[c] \in {"reread", "notify"}
      BY <1>1 DEF NoLostWakeup
    <2>2. pc[v] \in {"block", "wait"}
      \* A waiter decides to sleep only while the counter is above zero.
      BY <1>1, <2>1 DEF Wait, Waiter, Lock, Test, Block, SpuriousWakeup, MustWait, TypeOK,
         Threads
    <2>. QED
      BY <1>1, <2>1, <2>2 DEF NoLostWakeup
  <1>. QED
    BY <1>2, <1>3, <1>4, <1>5

LEMMA StutterKeeps == ASSUME IInv, UNCHANGED vars PROVE IInv'
  BY DEF IInv, TypeOK, PlaceInv, BatchInv, CountIsExact, NoLostWakeup, Unfinished, vars

LEMMA StepKeeps == IInv /\ [Next]_vars => IInv'
  BY AddKeeps, DoneKeeps, RereadKeeps, NotifyAllKeeps, WaiterKeeps, StutterKeeps DEF Next

-----------------------------------------------------------------------------
\* The inductive invariant holds in every reachable state.
THEOREM Invariance == Spec => []IInv
  BY InitInv, StepKeeps, PTL DEF Spec

\* Concurrent add and done keep the counter equal to the unfinished items.
THEOREM CounterTheorem == Spec => []CountIsExact
  <1>1. IInv => CountIsExact
    BY DEF IInv
  <1>. QED
    BY <1>1, Invariance, PTL

\* The mutex in add's zero branch is enough to lose no wake-up.
THEOREM WakeupTheorem == Spec => []NoLostWakeup
  <1>1. IInv => NoLostWakeup
    BY DEF IInv
  <1>. QED
    BY <1>1, Invariance, PTL

\* wait is a barrier for all that was unfinished when it was called.
THEOREM BarrierTheorem == Spec => WaitIsBarrier
  <1>1. IInv /\ [Next]_vars =>
          [\A w \in Waiters :
             pc[w] = "test" /\ pc'[w] = "idle" => owed[w] \cap Unfinished = {}]_vars
    <2>. SUFFICES ASSUME IInv, Next, NEW w \in Waiters, pc[w] = "test", pc'[w] = "idle"
                  PROVE  owed[w] \cap Unfinished = {}
      OBVIOUS
    <2>. USE GroupAssumption DEF GroupAssumption, IInv
    <2>1. ~MustWait
      <3>1. ASSUME NEW s \in Spawners, NEW S \in SUBSET Items, Add(s, S) PROVE FALSE
        BY <3>1 DEF Add, Goto, TypeOK, Threads, Callers
      <3>2. ASSUME NEW i \in Items, Done(i) PROVE FALSE
        BY <3>2 DEF Done, Goto, TypeOK, Threads, Callers
      <3>3. ASSUME NEW c \in Callers, Reread(c) \/ NotifyAll(c) PROVE FALSE
        BY <3>3 DEF Reread, NotifyAll, Returned, Goto, TypeOK, PlaceInv, Threads, Callers
      <3>4. ASSUME NEW v \in Waiters, Wait(v) \/ Waiter(v) \/ SpuriousWakeup(v)
            PROVE  ~MustWait
        BY <3>4 DEF Wait, Waiter, Lock, Test, Block, SpuriousWakeup, Goto, TypeOK, Threads
      <3>. QED
        BY <3>1, <3>2, <3>3, <3>4 DEF Next
    <2>2. count = 0
      <3>1. Cardinality(Items) \in Nat
        BY ItemsFinite
      <3>. QED
        BY <2>1, <3>1 DEF MustWait, TypeOK
    <2>3. Unfinished = {}
      BY <2>2, ItemsFinite, FS_EmptySet DEF CountIsExact, Unfinished
    <2>. QED
      BY <2>3
  <1>. QED
    BY <1>1, Invariance, PTL DEF Spec, WaitIsBarrier
=============================================================================
