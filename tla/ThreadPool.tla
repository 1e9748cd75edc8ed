----------------------------- MODULE ThreadPool -----------------------------
(***************************************************************************)
(* FixedQuantityThreadPool (src/concurrency/fixed_quantity_thread_pool.cpp)*)
(* : workers that share a queue, a mutex and a condition variable;         *)
(* producers that call addTask; and the thread that owns the pool, which   *)
(* calls shutdown any number of times and then destroys the pool.          *)
(*                                                                         *)
(* A step is what one thread does between two points where another can     *)
(* interfere: acquiring the mutex, evaluating the wait predicate and       *)
(* acting on it while holding the mutex, going to sleep (which releases    *)
(* it), running a task, and each statement of SHUTDOWN, which takes no     *)
(* mutex.                                                                  *)
(***************************************************************************)
EXTENDS Integers, Sequences

CONSTANTS
    ThreadNum,  \* the constructor's threadNum
    Producers,  \* the threads that call addTask
    Tasks,      \* the tasks they may add, each once
    NoTask,     \* what a worker holds that runs none
    NoOne       \* the holder of the free mutex

Workers == 1..ThreadNum

ASSUME PoolAssumption ==
    /\ ThreadNum \in Nat \ {0}
    /\ NoTask \notin Tasks
    /\ NoOne \notin Workers \cup Producers
    /\ Workers \cap Producers = {}

VARIABLES
    running,    \* ThreadPool::running, an atomic read and written without the mutex
    queue,      \* _taskQueue
    mutex,      \* who holds _mutex
    waiting,    \* the workers blocked on _condition
    wpc,        \* [Workers -> where the worker is]
    task,       \* [Workers -> its local variable task]
    ppc,        \* [Producers -> where addTask is]
    opc,        \* where the owner is
    call,       \* which function the owner is inside
    nextJoin,   \* the index of the owner's join loop
    joins,      \* [Workers -> how often the owner has joined it]
    finished,   \* the tasks that have run
    early       \* the tasks added before running was cleared

vars == <<running, queue, mutex, waiting, wpc, task, ppc, opc, call, nextJoin, joins,
          finished, early>>
ownerVars    == <<opc, call, nextJoin, joins>>
producerVars == <<ppc, early>>

WorkerPcs == {"check", "lock", "pred", "block", "wait", "exec", "exited"}
OwnerPcs  == {"idle", "test", "clear", "notify", "join", "gone"}

TypeOK ==
    /\ running \in BOOLEAN
    /\ queue \in Seq(Tasks)
    /\ mutex \in Workers \cup {NoOne}
    /\ waiting \subseteq Workers
    /\ wpc \in [Workers -> WorkerPcs]
    /\ task \in [Workers -> Tasks \cup {NoTask}]
    /\ ppc \in [Producers -> {"idle", "notify"}]
    /\ opc \in OwnerPcs
    /\ call \in {"none", "shutdown", "destructor"}
    /\ nextJoin \in 1..(ThreadNum + 1)
    /\ joins \in [Workers -> Nat]
    /\ finished \subseteq Tasks
    /\ early \subseteq Tasks

\* The constructor.  The threads it starts are in their loop at once.
Init ==
    /\ running = TRUE
    /\ queue = <<>>
    /\ mutex = NoOne
    /\ waiting = {}
    /\ wpc = [w \in Workers |-> "check"]
    /\ task = [w \in Workers |-> NoTask]
    /\ ppc = [p \in Producers |-> "idle"]
    /\ opc = "idle"
    /\ call = "none"
    /\ nextJoin = 1
    /\ joins = [w \in Workers |-> 0]
    /\ finished = {}
    /\ early = {}

Goto(w, pc) == wpc' = [wpc EXCEPT ![w] = pc]
-----------------------------------------------------------------------------
(***************************************************************************)
(* A worker.                                                               *)
(***************************************************************************)
\* `while (running)`
Check(w) ==
    /\ wpc[w] = "check"
    /\ Goto(w, IF running THEN "lock" ELSE "exited")
    /\ UNCHANGED <<running, queue, mutex, waiting, task, producerVars, ownerVars, finished>>

\* The unique_lock is constructed, or wait returns and takes the mutex again.
Lock(w) ==
    /\ wpc[w] = "lock"
    /\ mutex = NoOne
    /\ mutex' = w
    /\ Goto(w, "pred")
    /\ UNCHANGED <<running, queue, waiting, task, producerVars, ownerVars, finished>>

\* Wrong: takes the newest task and leaves the oldest in the queue.
NewestTask(q) == q[Len(q)]

NextTask(q) == Head(q)

\* Wrong: does not look at the queue.
MustSleepIfRunning == running

\* The negated wait predicate.
MustSleep == running /\ queue = <<>>

\* The predicate of wait, and what follows when it is true: leave the loop, or
\* take the oldest task; both release the mutex.
Pred(w) ==
    /\ wpc[w] = "pred"
    /\ IF MustSleep
       THEN Goto(w, "block") /\ UNCHANGED <<queue, task, mutex>>
       ELSE /\ mutex' = NoOne
            /\ IF queue = <<>>
               THEN Goto(w, "exited") /\ UNCHANGED <<queue, task>>
               ELSE /\ task' = [task EXCEPT ![w] = NextTask(queue)]
                    /\ queue' = Tail(queue)
                    /\ Goto(w, "exec")
    /\ UNCHANGED <<running, waiting, producerVars, ownerVars, finished>>

\* The condition variable releases the mutex and blocks, in one step.
Block(w) ==
    /\ wpc[w] = "block"
    /\ mutex' = NoOne
    /\ waiting' = waiting \cup {w}
    /\ Goto(w, "wait")
    /\ UNCHANGED <<running, queue, task, producerVars, ownerVars, finished>>

\* A wake-up nobody asked for, which the C++ standard allows.
SpuriousWakeup(w) ==
    /\ w \in waiting
    /\ waiting' = waiting \ {w}
    /\ Goto(w, "lock")
    /\ UNCHANGED <<running, queue, mutex, task, producerVars, ownerVars, finished>>

\* `task()`
Exec(w) ==
    /\ wpc[w] = "exec"
    /\ finished' = finished \cup {task[w]}
    /\ task' = [task EXCEPT ![w] = NoTask]
    /\ Goto(w, "check")
    /\ UNCHANGED <<running, queue, mutex, waiting, producerVars, ownerVars>>
-----------------------------------------------------------------------------
(***************************************************************************)
(* addTask.                                                                *)
(***************************************************************************)
Known(t) == \/ \E i \in 1..Len(queue) : queue[i] = t
            \/ \E w \in Workers : task[w] = t
            \/ t \in finished

\* The pool may not be used while or after it is destroyed.
Usable == call # "destructor" /\ opc # "gone"

\* The block with the lock_guard.
Push(p, t) ==
    /\ ppc[p] = "idle"
    /\ Usable
    /\ mutex = NoOne
    /\ ~Known(t)
    /\ queue' = Append(queue, t)
    /\ early' = IF running THEN early \cup {t} ELSE early
    /\ ppc' = [ppc EXCEPT ![p] = "notify"]
    /\ UNCHANGED <<running, mutex, waiting, wpc, task, ownerVars, finished>>

\* Wrong: wakes nobody.
WakeNone == UNCHANGED <<waiting, wpc>>

\* What notify_one does.
WakeOne ==
    IF waiting = {} THEN UNCHANGED <<waiting, wpc>>
    ELSE \E w \in waiting : waiting' = waiting \ {w} /\ Goto(w, "lock")

NotifyOne(p) ==
    /\ ppc[p] = "notify"
    /\ WakeOne
    /\ ppc' = [ppc EXCEPT ![p] = "idle"]
    /\ UNCHANGED <<running, queue, mutex, task, ownerVars, finished, early>>
-----------------------------------------------------------------------------
(***************************************************************************)
(* The owner: shutdown and the destructor, which are the macro SHUTDOWN.   *)
(***************************************************************************)
Shutdown ==
    /\ opc = "idle"
    /\ call' = "shutdown"
    /\ opc' = "test"
    /\ UNCHANGED <<running, queue, mutex, waiting, wpc, task, producerVars, nextJoin,
                   joins, finished>>

Destructor ==
    /\ opc = "idle"
    /\ \A p \in Producers : ppc[p] = "idle"
    /\ call' = "destructor"
    /\ opc' = "test"
    /\ UNCHANGED <<running, queue, mutex, waiting, wpc, task, producerVars, nextJoin,
                   joins, finished>>

\* Where the owner is when SHUTDOWN returns.  After the destructor's body the
\* members are destroyed.
Returned == IF call = "destructor" THEN "gone" ELSE "idle"

\* Wrong: shuts down again what is shut down.
MayReturn == FALSE

\* `if (!running) return;`
AlreadyDown == ~running

Test ==
    /\ opc = "test"
    /\ opc' = IF AlreadyDown THEN Returned ELSE "clear"
    /\ call' = IF AlreadyDown THEN "none" ELSE call
    /\ UNCHANGED <<running, queue, mutex, waiting, wpc, task, producerVars, nextJoin,
                   joins, finished>>

\* `running = false;`
Clear ==
    /\ opc = "clear"
    /\ running' = FALSE
    /\ opc' = "notify"
    /\ UNCHANGED <<queue, mutex, waiting, wpc, task, producerVars, call, nextJoin, joins,
                   finished>>

\* `_condition.notify_all();`
NotifyAll ==
    /\ opc = "notify"
    /\ waiting' = {}
    /\ wpc' = [w \in Workers |-> IF w \in waiting THEN "lock" ELSE wpc[w]]
    /\ opc' = "join"
    /\ nextJoin' = 1
    /\ UNCHANGED <<running, queue, mutex, task, producerVars, call, joins, finished>>

\* Wrong: joins a thread that is still running, as detach would.
Detachable(w) == TRUE

\* May join return?
Joinable(w) == wpc[w] = "exited"

\* `th.join()`
Join ==
    /\ opc = "join"
    /\ nextJoin <= ThreadNum
    /\ Joinable(nextJoin)
    /\ joins' = [joins EXCEPT ![nextJoin] = @ + 1]
    /\ nextJoin' = nextJoin + 1
    /\ UNCHANGED <<running, queue, mutex, waiting, wpc, task, producerVars, opc, call,
                   finished>>

\* SHUTDOWN returns after the last join.
Return ==
    /\ opc = "join"
    /\ nextJoin = ThreadNum + 1
    /\ opc' = Returned
    /\ call' = "none"
    /\ UNCHANGED <<running, queue, mutex, waiting, wpc, task, producerVars, nextJoin,
                   joins, finished>>
-----------------------------------------------------------------------------
Worker(w) == Check(w) \/ Lock(w) \/ Pred(w) \/ Block(w) \/ Exec(w)

Producer(p) == NotifyOne(p) \/ \E t \in Tasks : Push(p, t)

Owner == \/ Shutdown \/ Destructor
         \/ Test \/ Clear \/ NotifyAll \/ Join \/ Return

Next ==
    \/ \E w \in Workers : Worker(w) \/ SpuriousWakeup(w)
    \/ \E p \in Producers : Producer(p)
    \/ Owner

Spec == Init /\ [][Next]_vars

(***************************************************************************)
(* Fairness.  Every thread is scheduled, tasks return, and a thread that   *)
(* waits for the mutex gets it when it is free often enough.  Nothing      *)
(* makes a caller add a task or shut the pool down, and a spurious wake-up *)
(* need never come.                                                        *)
(***************************************************************************)
Fairness ==
    /\ \A w \in Workers : WF_vars(Worker(w)) /\ SF_vars(Lock(w))
    /\ \A p \in Producers : WF_vars(NotifyOne(p))
    /\ WF_vars(Test \/ Clear \/ NotifyAll \/ Join \/ Return)

FairSpec == Spec /\ Fairness
-----------------------------------------------------------------------------
(***************************************************************************)
(* Properties.                                                             *)
(***************************************************************************)
\* The pool implements TaskExecutor: first in, first out, each task at most
\* once, and no task runs when the pool has been destroyed.
Executor == INSTANCE TaskExecutor
              WITH pending <- queue, active <- task, gone <- opc = "gone"

ImplementsExecutor == Executor!Spec

\* When the destructor is done no thread of the pool is left to touch its
\* members, neither running nor blocked on the condition variable.
NoThreadOutlivesPool ==
    opc = "gone" => waiting = {} /\ \A w \in Workers : wpc[w] = "exited"

\* No thread is joined twice, which would throw, however often shutdown is
\* called before the destructor; and the destructor leaves none unjoined,
\* which would terminate the process.
JoinedOnce ==
    /\ \A w \in Workers : joins[w] <= 1
    /\ opc = "gone" => \A w \in Workers : joins[w] = 1

\* Only a worker that is in its critical section holds the mutex, and a worker
\* that decided to sleep has not let anyone in since: no addTask falls between
\* its look at the queue and its going to sleep.
SleepDecisionIsFresh ==
    \A w \in Workers :
       /\ wpc[w] \in {"pred", "block"} <=> mutex = w
       /\ wpc[w] = "block" => queue = <<>>

\* A task that was added is started, unless the pool is shut down.
AddedIsStarted ==
    \A t \in Tasks :
       (\E i \in 1..Len(queue) : queue[i] = t)
          ~> (~running \/ ~\E i \in 1..Len(queue) : queue[i] = t)

\* shutdown and the destructor stop the threads (fixed_quantity_thread_pool.h)
\* and return.
ShutdownReturns == opc = "test" ~> opc \in {"idle", "gone"}

\* "Before the thread pool stops, if there are still tasks in the queue,
\* execute them and then exit": no worker leaves while tasks wait that were
\* added before the shutdown.
DrainsBeforeExit ==
    (\A w \in Workers : wpc[w] = "exited") =>
       \A i \in 1..Len(queue) : queue[i] \notin early
-----------------------------------------------------------------------------
(***************************************************************************)
(* The inductive invariant.                                                *)
(***************************************************************************)
\* A worker holds a task exactly while it runs it; the condition's wait set is
\* exact.
WorkerInv ==
    \A w \in Workers :
       /\ w \in waiting <=> wpc[w] = "wait"
       /\ task[w] # NoTask <=> wpc[w] = "exec"

\* No task is in two places.
PlaceInv ==
    /\ \A i, j \in 1..Len(queue) : queue[i] = queue[j] => i = j
    /\ \A w \in Workers : task[w] # NoTask =>
          /\ task[w] \notin finished
          /\ \A i \in 1..Len(queue) : queue[i] # task[w]
    /\ \A v, w \in Workers : task[v] # NoTask /\ task[v] = task[w] => v = w
    /\ \A i \in 1..Len(queue) : queue[i] \notin finished

\* Has the owner joined worker w, at this point of its code?
HasJoined(w) == IF opc = "join" THEN w < nextJoin
                                ELSE ~running /\ opc # "notify"

\* The owner clears running once, before it joins; a joined worker has exited.
OwnerInv ==
    /\ opc = "clear" => running
    /\ opc \in {"notify", "join", "gone"} => ~running
    /\ \A w \in Workers :
          /\ joins[w] = IF HasJoined(w) THEN 1 ELSE 0
          /\ HasJoined(w) => wpc[w] = "exited"

IInv == TypeOK /\ WorkerInv /\ PlaceInv /\ OwnerInv /\ SleepDecisionIsFresh
=============================================================================
