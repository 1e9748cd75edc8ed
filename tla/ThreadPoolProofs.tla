------------------------- MODULE ThreadPoolProofs -------------------------
(***************************************************************************)
(* Theorems about ThreadPool, for every number of threads and every set of *)
(* producers and tasks.                                                    *)
(***************************************************************************)
EXTENDS ThreadPool, SequenceTheorems, TLAPS

\* What taking the head of a queue leaves.
LEMMA TailOfQueue ==
  ASSUME NEW q \in Seq(Tasks), q # <<>>
  PROVE  /\ Head(q) \in Tasks
         /\ Head(q) = q[1]
         /\ Tail(q) \in Seq(Tasks)
         /\ Len(q) \in Nat \ {0}
         /\ Len(Tail(q)) = Len(q) - 1
         /\ \A i \in 1..Len(Tail(q)) : i + 1 \in 1..Len(q) /\ Tail(q)[i] = q[i + 1]
  <1>1. Len(q) \in Nat \ {0}
    BY EmptySeq
  <1>2. /\ Head(q) = q[1]
        /\ Head(q) \in Tasks
        /\ Tail(q) \in Seq(Tasks)
        /\ Len(Tail(q)) = Len(q) - 1
    BY <1>1, HeadTailProperties
  <1>3. \A i \in 1..Len(Tail(q)) : i + 1 \in 1..Len(q) /\ Tail(q)[i] = q[i + 1]
    BY <1>1, <1>2, HeadTailProperties
  <1>. QED
    BY <1>1, <1>2, <1>3

LEMMA WorkersAreNot ==
  /\ Workers \subseteq Nat
  /\ NoOne \notin Workers
  /\ \A w \in Workers : w <= ThreadNum
  /\ ThreadNum \in Nat
  BY PoolAssumption DEF PoolAssumption, Workers

LEMMA InitInv == Init => IInv
  <1>. SUFFICES ASSUME Init PROVE IInv
    OBVIOUS
  <1>. USE PoolAssumption DEF PoolAssumption, Init
  <1>1. TypeOK
    BY DEF TypeOK, WorkerPcs, OwnerPcs
  <1>2. WorkerInv /\ PlaceInv
    BY DEF WorkerInv, PlaceInv
  <1>3. OwnerInv
    BY DEF OwnerInv, HasJoined
  <1>4. SleepDecisionIsFresh
    BY WorkersAreNot DEF SleepDecisionIsFresh
  <1>. QED
    BY <1>1, <1>2, <1>3, <1>4 DEF IInv

-----------------------------------------------------------------------------
(***************************************************************************)
(* One lemma per action of a worker.                                       *)
(***************************************************************************)
\* A worker that has not exited is one the owner has not joined.
LEMMA WorkerStepKeepsOwner ==
  ASSUME IInv, NEW w \in Workers, wpc[w] # "exited",
         \A v \in Workers : v # w => wpc'[v] = wpc[v],
         UNCHANGED <<running, ownerVars>>
  PROVE  OwnerInv'
  BY DEF IInv, OwnerInv, HasJoined, ownerVars

LEMMA CheckKeeps == ASSUME IInv, NEW w \in Workers, Check(w) PROVE IInv'
  <1>. USE DEF IInv, Check, Goto, producerVars, ownerVars
  <1>1. TypeOK'
    BY DEF TypeOK, WorkerPcs
  <1>2. WorkerInv' /\ PlaceInv'
    BY DEF TypeOK, WorkerInv, PlaceInv
  <1>3. OwnerInv'
    BY WorkerStepKeepsOwner DEF TypeOK
  <1>4. SleepDecisionIsFresh'
    BY DEF TypeOK, SleepDecisionIsFresh
  <1>. QED
    BY <1>1, <1>2, <1>3, <1>4

LEMMA LockKeeps == ASSUME IInv, NEW w \in Workers, Lock(w) PROVE IInv'
  <1>. USE DEF IInv, Lock, Goto, producerVars, ownerVars
  <1>1. TypeOK'
    BY DEF TypeOK, WorkerPcs
  <1>2. WorkerInv' /\ PlaceInv'
    BY DEF TypeOK, WorkerInv, PlaceInv
  <1>3. OwnerInv'
    BY WorkerStepKeepsOwner DEF TypeOK
  <1>4. SleepDecisionIsFresh'
    BY WorkersAreNot DEF TypeOK, SleepDecisionIsFresh
  <1>. QED
    BY <1>1, <1>2, <1>3, <1>4

\* The worker takes the oldest task, which then is nowhere else.
LEMMA TakeKeeps ==
  ASSUME IInv, NEW w \in Workers, wpc[w] = "pred", queue # <<>>, mutex' = NoOne,
         task' = [task EXCEPT ![w] = Head(queue)], queue' = Tail(queue),
         Goto(w, "exec"),
         UNCHANGED <<running, waiting, producerVars, ownerVars, finished>>
  PROVE  IInv'
  <1>. USE DEF IInv, Goto, producerVars, ownerVars
  <1>1. /\ Head(queue) \in Tasks
        /\ Head(queue) = queue[1]
        /\ Tail(queue) \in Seq(Tasks)
        /\ Len(queue) \in Nat \ {0}
        /\ Len(Tail(queue)) = Len(queue) - 1
        /\ \A i \in 1..Len(Tail(queue)) :
              i + 1 \in 1..Len(queue) /\ Tail(queue)[i] = queue[i + 1]
    BY TailOfQueue DEF TypeOK
  <1>2. Head(queue) # NoTask
    BY <1>1, PoolAssumption DEF PoolAssumption
  <1>3. TypeOK'
    BY <1>1 DEF TypeOK, WorkerPcs
  <1>4. WorkerInv'
    BY <1>2 DEF TypeOK, WorkerInv
  <1>5. PlaceInv'
    <2>1. \A i, j \in 1..Len(queue') : queue'[i] = queue'[j] => i = j
      <3>. SUFFICES ASSUME NEW i \in 1..Len(queue'), NEW j \in 1..Len(queue'),
                           queue'[i] = queue'[j]
                    PROVE  i = j
        OBVIOUS
      <3>1. queue[i + 1] = queue[j + 1] /\ i + 1 \in 1..Len(queue) /\ j + 1 \in 1..Len(queue)
        BY <1>1
      <3>2. i + 1 = j + 1
        BY <3>1 DEF PlaceInv
      <3>. QED
        BY <3>2
    <2>2. \A i \in 1..Len(queue') : queue'[i] \notin finished'
      BY <1>1 DEF PlaceInv
    <2>3. \A i \in 1..Len(queue') : queue'[i] # Head(queue)
      <3>. SUFFICES ASSUME NEW i \in 1..Len(queue'), queue'[i] = Head(queue) PROVE FALSE
        OBVIOUS
      <3>1. i + 1 \in 1..Len(queue) /\ 1 \in 1..Len(queue) /\ queue[i + 1] = queue[1]
        BY <1>1
      <3>2. i + 1 = 1
        BY <3>1 DEF PlaceInv
      <3>. QED
        BY <3>2
    <2>4. 1 \in 1..Len(queue)
      BY <1>1
    <2>5. \A v \in Workers : task'[v] # NoTask =>
             /\ task'[v] \notin finished'
             /\ \A i \in 1..Len(queue') : queue'[i] # task'[v]
      <3>. SUFFICES ASSUME NEW v \in Workers, task'[v] # NoTask
                    PROVE  /\ task'[v] \notin finished'
                           /\ \A i \in 1..Len(queue') : queue'[i] # task'[v]
        OBVIOUS
      <3>1. CASE v = w
        BY <1>1, <2>3, <2>4, <3>1 DEF PlaceInv, TypeOK
      <3>2. CASE v # w
        BY <1>1, <3>2 DEF PlaceInv, TypeOK
      <3>. QED
        BY <3>1, <3>2
    <2>6. \A u, v \in Workers : task'[u] # NoTask /\ task'[u] = task'[v] => u = v
      BY <1>1, <1>2, <2>4 DEF PlaceInv, TypeOK
    <2>. QED
      BY <2>1, <2>2, <2>5, <2>6 DEF PlaceInv
  <1>6. OwnerInv'
    BY WorkerStepKeepsOwner DEF TypeOK
  <1>7. SleepDecisionIsFresh'
    BY WorkersAreNot DEF TypeOK, SleepDecisionIsFresh
  <1>. QED
    BY <1>3, <1>4, <1>5, <1>6, <1>7

LEMMA PredKeeps == ASSUME IInv, NEW w \in Workers, Pred(w) PROVE IInv'
  <1>. USE DEF IInv, Pred, Goto, producerVars, ownerVars
  <1>1. CASE MustSleep \/ queue = <<>>
    <2>1. TypeOK'
      BY <1>1 DEF TypeOK, WorkerPcs, MustSleep
    <2>2. WorkerInv' /\ PlaceInv'
      BY <1>1 DEF TypeOK, WorkerInv, PlaceInv, MustSleep
    <2>3. OwnerInv'
      BY <1>1, WorkerStepKeepsOwner DEF TypeOK, MustSleep
    <2>4. SleepDecisionIsFresh'
      BY <1>1, WorkersAreNot DEF TypeOK, SleepDecisionIsFresh, MustSleep
    <2>. QED
      BY <2>1, <2>2, <2>3, <2>4
  <1>2. CASE ~MustSleep /\ queue # <<>>
    BY <1>2, TakeKeeps DEF NextTask
  <1>. QED
    BY <1>1, <1>2

LEMMA BlockKeeps == ASSUME IInv, NEW w \in Workers, Block(w) PROVE IInv'
  <1>. USE DEF IInv, Block, Goto, producerVars, ownerVars
  <1>1. TypeOK'
    BY DEF TypeOK, WorkerPcs
  <1>2. WorkerInv' /\ PlaceInv'
    BY DEF TypeOK, WorkerInv, PlaceInv
  <1>3. OwnerInv'
    BY WorkerStepKeepsOwner DEF TypeOK
  <1>4. SleepDecisionIsFresh'
    BY WorkersAreNot DEF TypeOK, SleepDecisionIsFresh
  <1>. QED
    BY <1>1, <1>2, <1>3, <1>4

\* A worker that sleeps is woken.
LEMMA WakeKeeps ==
  ASSUME IInv, NEW w \in waiting, waiting' = waiting \ {w}, Goto(w, "lock"),
         UNCHANGED <<running, queue, mutex, task, ownerVars, finished>>
  PROVE  /\ waiting' \in SUBSET Workers
         /\ wpc' \in [Workers -> WorkerPcs]
         /\ WorkerInv' /\ PlaceInv' /\ OwnerInv' /\ SleepDecisionIsFresh'
  <1>. USE DEF IInv, Goto, ownerVars
  <1>1. w \in Workers /\ wpc[w] = "wait"
    BY DEF TypeOK, WorkerInv
  <1>2. waiting' \in SUBSET Workers /\ wpc' \in [Workers -> WorkerPcs]
    BY DEF TypeOK, WorkerPcs
  <1>3. WorkerInv' /\ PlaceInv'
    BY <1>1 DEF TypeOK, WorkerInv, PlaceInv
  <1>4. OwnerInv'
    BY <1>1, WorkerStepKeepsOwner DEF TypeOK
  <1>5. SleepDecisionIsFresh'
    BY <1>1 DEF TypeOK, SleepDecisionIsFresh
  <1>. QED
    BY <1>2, <1>3, <1>4, <1>5

LEMMA SpuriousWakeupKeeps ==
  ASSUME IInv, NEW w \in Workers, SpuriousWakeup(w) PROVE IInv'
  <1>1. /\ waiting' \in SUBSET Workers
        /\ wpc' \in [Workers -> WorkerPcs]
        /\ WorkerInv' /\ PlaceInv' /\ OwnerInv' /\ SleepDecisionIsFresh'
    BY WakeKeeps DEF SpuriousWakeup
  <1>2. TypeOK'
    BY <1>1 DEF IInv, TypeOK, SpuriousWakeup, producerVars, ownerVars
  <1>. QED
    BY <1>1, <1>2 DEF IInv

LEMMA ExecKeeps == ASSUME IInv, NEW w \in Workers, Exec(w) PROVE IInv'
  <1>. USE DEF IInv, Exec, Goto, producerVars, ownerVars
  <1>1. task[w] \in Tasks
    BY DEF TypeOK, WorkerInv
  <1>2. TypeOK'
    BY <1>1 DEF TypeOK, WorkerPcs
  <1>3. WorkerInv'
    BY DEF TypeOK, WorkerInv
  <1>4. PlaceInv'
    BY DEF TypeOK, PlaceInv, WorkerInv
  <1>5. OwnerInv'
    BY WorkerStepKeepsOwner DEF TypeOK
  <1>6. SleepDecisionIsFresh'
    BY DEF TypeOK, SleepDecisionIsFresh
  <1>. QED
    BY <1>2, <1>3, <1>4, <1>5, <1>6

-----------------------------------------------------------------------------
(***************************************************************************)
(* The producers and the owner.                                            *)
(***************************************************************************)
LEMMA PushKeeps ==
  ASSUME IInv, NEW p \in Producers, NEW t \in Tasks, Push(p, t) PROVE IInv'
  <1>. USE DEF IInv, Push, ownerVars
  <1>1. /\ queue' \in Seq(Tasks)
        /\ Len(queue) \in Nat
        /\ Len(queue') = Len(queue) + 1
        /\ \A i \in 1..Len(queue) : queue'[i] = queue[i]
        /\ queue'[Len(queue')] = t
    BY AppendProperties DEF TypeOK
  <1>2. TypeOK'
    BY <1>1 DEF TypeOK
  <1>3. WorkerInv'
    BY DEF WorkerInv
  <1>4. PlaceInv'
    <2>1. \A i \in 1..Len(queue') : i \in 1..Len(queue) \/ i = Len(queue')
      BY <1>1
    <2>2. \A i \in 1..Len(queue) : queue'[i] # t
      BY <1>1 DEF Known
    <2>3. \A i, j \in 1..Len(queue') : queue'[i] = queue'[j] => i = j
      BY <1>1, <2>1, <2>2 DEF PlaceInv
    <2>4. \A w \in Workers : task'[w] # NoTask =>
             /\ task'[w] \notin finished'
             /\ \A i \in 1..Len(queue') : queue'[i] # task'[w]
      BY <1>1, <2>1 DEF PlaceInv, Known
    <2>5. \A i \in 1..Len(queue') : queue'[i] \notin finished'
      BY <1>1, <2>1 DEF PlaceInv, Known
    <2>6. \A v, w \in Workers : task'[v] # NoTask /\ task'[v] = task'[w] => v = w
      BY DEF PlaceInv
    <2>. QED
      BY <2>3, <2>4, <2>5, <2>6 DEF PlaceInv
  <1>5. OwnerInv'
    BY DEF OwnerInv, HasJoined
  <1>6. SleepDecisionIsFresh'
    \* The mutex is free, so no worker has decided to sleep.
    BY WorkersAreNot DEF SleepDecisionIsFresh
  <1>. QED
    BY <1>2, <1>3, <1>4, <1>5, <1>6

LEMMA NotifyOneKeeps == ASSUME IInv, NEW p \in Producers, NotifyOne(p) PROVE IInv'
  <1>1. CASE waiting = {}
    <2>1. UNCHANGED <<waiting, wpc>>
      BY <1>1 DEF NotifyOne, WakeOne
    <2>. QED
      BY <2>1 DEF NotifyOne, IInv, TypeOK, WorkerInv, PlaceInv, OwnerInv, HasJoined,
         SleepDecisionIsFresh, ownerVars
  <1>2. CASE waiting # {}
    <2>1. PICK w \in waiting : waiting' = waiting \ {w} /\ Goto(w, "lock")
      BY <1>2 DEF NotifyOne, WakeOne
    <2>2. /\ waiting' \in SUBSET Workers
          /\ wpc' \in [Workers -> WorkerPcs]
          /\ WorkerInv' /\ PlaceInv' /\ OwnerInv' /\ SleepDecisionIsFresh'
      BY <2>1, WakeKeeps DEF NotifyOne
    <2>3. TypeOK'
      BY <2>2 DEF IInv, TypeOK, NotifyOne, ownerVars
    <2>. QED
      BY <2>2, <2>3 DEF IInv
  <1>. QED
    BY <1>1, <1>2

LEMMA OwnerKeeps == ASSUME IInv, Owner PROVE IInv'
  <1>. USE DEF IInv, producerVars
  <1>1. ASSUME Shutdown \/ Destructor \/ Test \/ Clear \/ Return PROVE IInv'
    <2>. USE <1>1 DEF Shutdown, Destructor, Test, Clear, Return, AlreadyDown, Returned
    <2>1. TypeOK'
      BY DEF TypeOK, OwnerPcs
    <2>2. WorkerInv' /\ PlaceInv'
      BY DEF WorkerInv, PlaceInv
    <2>3. OwnerInv'
      BY WorkersAreNot DEF OwnerInv, HasJoined, TypeOK
    <2>4. SleepDecisionIsFresh'
      BY DEF SleepDecisionIsFresh
    <2>. QED
      BY <2>1, <2>2, <2>3, <2>4
  <1>2. ASSUME NotifyAll PROVE IInv'
    <2>. USE <1>2 DEF NotifyAll
    <2>1. TypeOK'
      BY WorkersAreNot, PoolAssumption DEF TypeOK, OwnerPcs, WorkerPcs, PoolAssumption
    <2>2. WorkerInv' /\ PlaceInv'
      BY DEF WorkerInv, PlaceInv
    <2>3. \A w \in Workers : ~HasJoined(w) /\ ~HasJoined(w)'
      BY WorkersAreNot DEF HasJoined, Workers
    <2>4. OwnerInv'
      BY <2>3 DEF OwnerInv
    <2>5. SleepDecisionIsFresh'
      BY DEF SleepDecisionIsFresh, WorkerInv
    <2>. QED
      BY <2>1, <2>2, <2>4, <2>5
  <1>3. ASSUME Join PROVE IInv'
    <2>. USE <1>3 DEF Join
    <2>1. nextJoin \in Workers /\ nextJoin' = nextJoin + 1
      BY WorkersAreNot DEF TypeOK, Workers
    <2>2. TypeOK'
      BY <2>1, WorkersAreNot DEF TypeOK, Workers
    <2>3. WorkerInv' /\ PlaceInv'
      BY DEF WorkerInv, PlaceInv
    <2>4. \A w \in Workers : HasJoined(w)' <=> HasJoined(w) \/ w = nextJoin
      BY <2>1, WorkersAreNot DEF HasJoined
    <2>5. ~HasJoined(nextJoin)
      BY <2>1, WorkersAreNot DEF HasJoined
    <2>6. OwnerInv'
      BY <2>1, <2>4, <2>5 DEF OwnerInv, TypeOK, Joinable
    <2>7. SleepDecisionIsFresh'
      BY DEF SleepDecisionIsFresh
    <2>. QED
      BY <2>2, <2>3, <2>6, <2>7
  <1>. QED
    BY <1>1, <1>2, <1>3 DEF Owner

LEMMA StutterKeeps == ASSUME IInv, UNCHANGED vars PROVE IInv'
  BY DEF IInv, TypeOK, WorkerInv, PlaceInv, OwnerInv, HasJoined, SleepDecisionIsFresh, vars

LEMMA StepKeeps == IInv /\ [Next]_vars => IInv'
  <1>. SUFFICES ASSUME IInv, [Next]_vars PROVE IInv'
    OBVIOUS
  <1>1. ASSUME NEW w \in Workers, Worker(w) \/ SpuriousWakeup(w) PROVE IInv'
    BY <1>1, CheckKeeps, LockKeeps, PredKeeps, BlockKeeps, ExecKeeps, SpuriousWakeupKeeps
       DEF Worker
  <1>2. ASSUME NEW p \in Producers, Producer(p) PROVE IInv'
    BY <1>2, PushKeeps, NotifyOneKeeps DEF Producer
  <1>. QED
    BY <1>1, <1>2, OwnerKeeps, StutterKeeps DEF Next

-----------------------------------------------------------------------------
\* The inductive invariant holds in every reachable state.
THEOREM Invariance == Spec => []IInv
  BY InitInv, StepKeeps, PTL DEF Spec

\* The mutex is held exactly in the critical section, and a worker that goes to
\* sleep has seen the queue as it still is.
THEOREM SleepTheorem == Spec => []SleepDecisionIsFresh
  <1>1. IInv => SleepDecisionIsFresh
    BY DEF IInv
  <1>. QED
    BY <1>1, Invariance, PTL

\* No thread of the pool is left when its destructor is done.
THEOREM DestructorTheorem == Spec => []NoThreadOutlivesPool
  <1>1. IInv => NoThreadOutlivesPool
    BY DEF IInv, NoThreadOutlivesPool, OwnerInv, HasJoined, WorkerInv, TypeOK
  <1>. QED
    BY <1>1, Invariance, PTL

\* Every thread is joined once, however often shutdown is called.
THEOREM JoinTheorem == Spec => []JoinedOnce
  <1>1. IInv => JoinedOnce
    BY DEF IInv, JoinedOnce, OwnerInv, HasJoined
  <1>. QED
    BY <1>1, Invariance, PTL

-----------------------------------------------------------------------------
(***************************************************************************)
(* The pool implements TaskExecutor.                                       *)
(***************************************************************************)
LEMMA InitMaps == Init => Executor!Init
  BY DEF Init, Executor!Init

\* Before a task of the queue runs or a worker looks at it, the pool exists.
LEMMA WorkerAliveInPool ==
  ASSUME IInv, NEW w \in Workers, wpc[w] # "exited" PROVE opc # "gone"
  BY DEF IInv, OwnerInv, HasJoined

LEMMA StepMaps == IInv /\ [Next]_vars => [Executor!Next]_(Executor!vars)
  <1>. SUFFICES ASSUME IInv, [Next]_vars PROVE Executor!Next \/ UNCHANGED Executor!vars
    OBVIOUS
  <1>. USE DEF Executor!vars, producerVars, ownerVars
  <1>1. ASSUME NEW w \in Workers,
               Check(w) \/ Lock(w) \/ Block(w) \/ SpuriousWakeup(w)
        PROVE  UNCHANGED Executor!vars
    BY <1>1 DEF Check, Lock, Block, SpuriousWakeup
  <1>2. ASSUME NEW w \in Workers, Pred(w)
        PROVE  Executor!Next \/ UNCHANGED Executor!vars
    <2>1. CASE MustSleep \/ queue = <<>>
      BY <1>2, <2>1 DEF Pred, MustSleep
    <2>2. CASE ~MustSleep /\ queue # <<>>
      <3>1. opc # "gone" /\ task[w] = NoTask
        BY <1>2, WorkerAliveInPool DEF Pred, IInv, WorkerInv
      <3>2. Executor!Start(w)
        BY <1>2, <2>2, <3>1 DEF Pred, NextTask, Executor!Start
      <3>. QED
        BY <3>2 DEF Executor!Next
    <2>. QED
      BY <2>1, <2>2
  <1>3. ASSUME NEW w \in Workers, Exec(w) PROVE Executor!Next
    <2>1. Executor!End(w)
      BY <1>3 DEF Exec, Executor!End, IInv, WorkerInv
    <2>. QED
      BY <2>1 DEF Executor!Next
  <1>4. ASSUME NEW p \in Producers, NEW t \in Tasks, Push(p, t) PROVE Executor!Next
    <2>1. Executor!Submit(t)
      BY <1>4 DEF Push, Usable, Known, Executor!Submit
    <2>. QED
      BY <2>1 DEF Executor!Next
  <1>5. ASSUME NEW p \in Producers, NotifyOne(p) PROVE UNCHANGED Executor!vars
    BY <1>5 DEF NotifyOne
  <1>6. ASSUME Owner PROVE Executor!Next \/ UNCHANGED Executor!vars
    <2>1. UNCHANGED <<queue, task, finished>>
      BY <1>6 DEF Owner, Shutdown, Destructor, Test, Clear, NotifyAll, Join, Return
    <2>2. CASE opc' # "gone"
      <3>1. opc # "gone"
        BY <1>6 DEF Owner, Shutdown, Destructor, Test, Clear, NotifyAll, Join, Return
      <3>. QED
        BY <2>1, <2>2, <3>1
    <2>3. CASE opc' = "gone"
      <3>1. IInv'
        BY StepKeeps
      <3>2. \A w \in Workers : task[w] = NoTask
        BY <2>1, <2>3, <3>1 DEF IInv, OwnerInv, HasJoined, WorkerInv
      <3>3. Executor!Destroy
        BY <2>1, <2>3, <3>2 DEF Executor!Destroy
      <3>. QED
        BY <3>3 DEF Executor!Next
    <2>. QED
      BY <2>2, <2>3
  <1>7. ASSUME UNCHANGED vars PROVE UNCHANGED Executor!vars
    BY <1>7 DEF vars
  <1>. QED
    BY <1>1, <1>2, <1>3, <1>4, <1>5, <1>6, <1>7 DEF Next, Worker, Producer

\* The pool is a first-in first-out executor that runs each task at most once and
\* none after its destruction.
THEOREM Refinement == Spec => ImplementsExecutor
  BY InitMaps, StepMaps, Invariance, PTL DEF Spec, ImplementsExecutor, Executor!Spec
=============================================================================
