----------------------------- MODULE WaitGroup -----------------------------
(***************************************************************************)
(* WaitGroup (src/concurrency/wait_group.cpp): an atomic counter, a mutex  *)
(* and a condition variable.  Spawners count items of work with add and    *)
(* then start them, each item calls done when it ends, and waiters block   *)
(* in wait until the counter is down.                                      *)
(*                                                                         *)
(* add is three steps, not one: the atomic addition, the second read of    *)
(* the counter, and, if that read gives zero, notify_all under the mutex.  *)
(***************************************************************************)
EXTENDS Integers, FiniteSets

CONSTANTS
    Items,      \* the units of work; each is a thread that calls done once
    Spawners,   \* the threads that call add
    Waiters,    \* the threads that call wait
    NoOne       \* the holder of the free mutex

Callers == Items \cup Spawners
Threads == Callers \cup Waiters

ASSUME GroupAssumption ==
    /\ IsFiniteSet(Items)
    /\ Items \cap Spawners = {}
    /\ Callers \cap Waiters = {}
    /\ NoOne \notin Threads

VARIABLES
    count,      \* the atomic counter
    mutex,      \* who holds _mutex
    waiting,    \* the waiters blocked on _condition
    pc,         \* [Threads -> where the thread is in the class]
    work,       \* [Items -> how far the item is]
    batch,      \* [Spawners -> the items it is counting]
    owed        \* [Waiters -> the items that were unfinished when it called wait]

vars == <<count, mutex, waiting, pc, work, batch, owed>>

CallerPcs == {"idle", "reread", "notify"}
WaiterPcs == {"idle", "lock", "test", "block", "wait"}
Stages    == {"new", "counted", "started", "ended"}

\* The items the counter counts.
Unfinished == {i \in Items : work[i] \in {"counted", "started"}}

TypeOK ==
    /\ count \in 0..Cardinality(Items)
    /\ mutex \in Waiters \cup {NoOne}
    /\ waiting \subseteq Waiters
    /\ pc \in [Threads -> CallerPcs \cup WaiterPcs]
    /\ work \in [Items -> Stages]
    /\ batch \in [Spawners -> SUBSET Items]
    /\ owed \in [Waiters -> SUBSET Items]

Init ==
    /\ count = 0
    /\ mutex = NoOne
    /\ waiting = {}
    /\ pc = [t \in Threads |-> "idle"]
    /\ work = [i \in Items |-> "new"]
    /\ batch = [s \in Spawners |-> {}]
    /\ owed = [w \in Waiters |-> {}]

Goto(t, where) == pc' = [pc EXCEPT ![t] = where]

Stage(S, stage) == [i \in Items |-> IF i \in S THEN stage ELSE work[i]]
-----------------------------------------------------------------------------
(***************************************************************************)
(* add and done.                                                           *)
(***************************************************************************)
\* Wrong: counts one item, whatever n is.
One(S) == 1

\* The argument of add for a set of items.
Number(S) == Cardinality(S)

\* add(n), its first statement, for n items that start when it has returned.
Add(s, S) ==
    /\ pc[s] = "idle"
    /\ S # {}
    /\ \A i \in S : work[i] = "new"
    /\ count' = count + Number(S)
    /\ work' = Stage(S, "counted")
    /\ batch' = [batch EXCEPT ![s] = S]
    /\ Goto(s, "reread")
    /\ UNCHANGED <<mutex, waiting, owed>>

\* done(), which is add(-1): its first statement, at the end of an item.
Done(i) ==
    /\ work[i] = "started"
    /\ count' = count - 1
    /\ work' = Stage({i}, "ended")
    /\ Goto(i, "reread")
    /\ UNCHANGED <<mutex, waiting, batch, owed>>

\* What add's caller does next: a spawner starts the items it has counted.
Returned(c) ==
    /\ Goto(c, "idle")
    /\ work' = IF c \in Spawners THEN Stage(batch[c], "started") ELSE work
    /\ batch' = IF c \in Spawners THEN [batch EXCEPT ![c] = {}] ELSE batch

\* Wrong: off by one.
IsLow == count = 1

\* `count == 0`, the second read.
IsZero == count = 0

Reread(c) ==
    /\ pc[c] = "reread"
    /\ IF IsZero THEN Goto(c, "notify") /\ UNCHANGED <<work, batch>> ELSE Returned(c)
    /\ UNCHANGED <<count, mutex, waiting, owed>>

\* Wrong: notifies without the mutex.
Unlocked == TRUE

\* May a caller take the mutex?
MutexIsFree == mutex = NoOne

\* The block that takes the mutex and calls notify_all.
NotifyAll(c) ==
    /\ pc[c] = "notify"
    /\ MutexIsFree
    /\ waiting' = {}
    /\ pc' = [t \in Threads |-> IF t \in waiting THEN "lock"
                                ELSE IF t = c THEN "idle" ELSE pc[t]]
    /\ work' = IF c \in Spawners THEN Stage(batch[c], "started") ELSE work
    /\ batch' = IF c \in Spawners THEN [batch EXCEPT ![c] = {}] ELSE batch
    /\ UNCHANGED <<count, mutex, owed>>
-----------------------------------------------------------------------------
(***************************************************************************)
(* wait.                                                                   *)
(***************************************************************************)
Wait(w) ==
    /\ pc[w] = "idle"
    /\ owed' = [owed EXCEPT ![w] = Unfinished]
    /\ Goto(w, "lock")
    /\ UNCHANGED <<count, mutex, waiting, work, batch>>

\* The unique_lock, or the mutex taken again when the condition wakes it.
Lock(w) ==
    /\ pc[w] = "lock"
    /\ mutex = NoOne
    /\ mutex' = w
    /\ Goto(w, "test")
    /\ UNCHANGED <<count, waiting, work, batch, owed>>

\* Wrong: off by one.
MustWaitForMore == count > 1

\* `while (count > 0)`
MustWait == count > 0

Test(w) ==
    /\ pc[w] = "test"
    /\ IF MustWait
       THEN Goto(w, "block") /\ UNCHANGED <<mutex, owed>>
       ELSE /\ Goto(w, "idle")
            /\ mutex' = NoOne
            /\ owed' = [owed EXCEPT ![w] = {}]
    /\ UNCHANGED <<count, waiting, work, batch>>

\* The condition variable releases the mutex and blocks, in one step.
Block(w) ==
    /\ pc[w] = "block"
    /\ mutex' = NoOne
    /\ waiting' = waiting \cup {w}
    /\ Goto(w, "wait")
    /\ UNCHANGED <<count, work, batch, owed>>

SpuriousWakeup(w) ==
    /\ w \in waiting
    /\ waiting' = waiting \ {w}
    /\ Goto(w, "lock")
    /\ UNCHANGED <<count, mutex, work, batch, owed>>
-----------------------------------------------------------------------------
Waiter(w) == Lock(w) \/ Test(w) \/ Block(w)

Next ==
    \/ \E s \in Spawners, S \in SUBSET Items : Add(s, S)
    \/ \E i \in Items : Done(i)
    \/ \E c \in Callers : Reread(c) \/ NotifyAll(c)
    \/ \E w \in Waiters : Wait(w) \/ Waiter(w) \/ SpuriousWakeup(w)

Spec == Init /\ [][Next]_vars

(***************************************************************************)
(* Fairness.  Threads are scheduled, items end, and a thread that wants    *)
(* the mutex gets it when it is free often enough.  Nothing makes anybody  *)
(* add more work or call wait.                                             *)
(***************************************************************************)
Fairness ==
    /\ \A i \in Items : WF_vars(Done(i))
    /\ \A c \in Callers : WF_vars(Reread(c)) /\ SF_vars(NotifyAll(c))
    /\ \A w \in Waiters : WF_vars(Waiter(w)) /\ SF_vars(Lock(w))

FairSpec == Spec /\ Fairness
-----------------------------------------------------------------------------
(***************************************************************************)
(* Properties.                                                             *)
(***************************************************************************)
\* The atomic additions of all threads together keep the counter equal to the
\* number of items that were counted and have not ended.
CountIsExact == count = Cardinality(Unfinished)

\* wait returns only when everything that was unfinished at its call has ended,
\* however often the group is reused meanwhile.
WaitIsBarrier ==
    [][\A w \in Waiters :
          pc[w] = "test" /\ pc'[w] = "idle" => owed[w] \cap Unfinished = {}]_vars

\* No wake-up is lost: when the counter is zero and a waiter sleeps, or has
\* decided to, some caller is still on its way to notify_all.
NoLostWakeup ==
    count = 0 /\ (\E w \in Waiters : pc[w] \in {"block", "wait"}) =>
       \E c \in Callers : pc[c] \in {"reread", "notify"}

\* Every wait returns when the work it waits for ends.
WaitReturns == \A w \in Waiters : pc[w] = "lock" ~> pc[w] = "idle"
-----------------------------------------------------------------------------
(***************************************************************************)
(* The inductive invariant.                                                *)
(***************************************************************************)
\* A batch is counted and not yet started; only a spawner inside add has one,
\* and no item is in two.
BatchInv ==
    /\ \A s \in Spawners :
          /\ \A i \in batch[s] : work[i] = "counted"
          /\ pc[s] = "idle" => batch[s] = {}
    /\ \A s, r \in Spawners : s # r => batch[s] \cap batch[r] = {}

\* Each thread is in its own function, the condition's wait set is exact, and
\* the mutex is held by the waiter that tests or is about to block.
PlaceInv ==
    /\ \A c \in Callers : pc[c] \in CallerPcs
    /\ \A w \in Waiters :
          /\ pc[w] \in WaiterPcs
          /\ w \in waiting <=> pc[w] = "wait"
          /\ mutex = w <=> pc[w] \in {"test", "block"}

IInv == TypeOK /\ PlaceInv /\ BatchInv /\ CountIsExact /\ NoLostWakeup
=============================================================================
