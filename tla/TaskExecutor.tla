---------------------------- MODULE TaskExecutor ----------------------------
(***************************************************************************)
(* What a thread pool promises: tasks that were submitted are started in   *)
(* that order, each at most once, at most one per worker at a time; and    *)
(* when the pool is gone no task is running and none starts any more.      *)
(***************************************************************************)
EXTENDS Naturals, Sequences

CONSTANTS
    Workers,    \* the threads of the pool
    Tasks,      \* the tasks that may be submitted, each once
    NoTask      \* what a worker has that runs none

VARIABLES
    pending,    \* submitted tasks that have not started, oldest first
    active,     \* [Workers -> the task it runs]
    finished,   \* the tasks that have run
    gone        \* has the pool been destroyed?

vars == <<pending, active, finished, gone>>

Init ==
    /\ pending = <<>>
    /\ active = [w \in Workers |-> NoTask]
    /\ finished = {}
    /\ gone = FALSE

Submit(t) ==
    /\ ~gone
    /\ \A i \in 1..Len(pending) : pending[i] # t
    /\ \A w \in Workers : active[w] # t
    /\ t \notin finished
    /\ pending' = Append(pending, t)
    /\ UNCHANGED <<active, finished, gone>>

Start(w) ==
    /\ ~gone
    /\ active[w] = NoTask
    /\ pending # <<>>
    /\ active' = [active EXCEPT ![w] = Head(pending)]
    /\ pending' = Tail(pending)
    /\ UNCHANGED <<finished, gone>>

End(w) ==
    /\ active[w] # NoTask
    /\ finished' = finished \cup {active[w]}
    /\ active' = [active EXCEPT ![w] = NoTask]
    /\ UNCHANGED <<pending, gone>>

Destroy ==
    /\ \A w \in Workers : active[w] = NoTask
    /\ gone' = TRUE
    /\ UNCHANGED <<pending, active, finished>>

Next ==
    \/ \E t \in Tasks : Submit(t)
    \/ \E w \in Workers : Start(w) \/ End(w)
    \/ Destroy

Spec == Init /\ [][Next]_vars
=============================================================================
