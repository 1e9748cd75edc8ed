------------------------------ MODULE ForkJoin ------------------------------
(***************************************************************************)
(* What batches promise: structured fork and join on one processor.  A     *)
(* coroutine forks children and joins them.  A child starts after its      *)
(* parent has begun to join, the parent runs on after all its children     *)
(* have ended, and neither pauses nor ends in between: so no coroutine     *)
(* outlives the one that forked it, and parent and child never alternate.  *)
(***************************************************************************)
CONSTANTS
    Coroutines, \* the coroutines there may be; an ended one may be used again
    NoOne       \* what runs, and who is the parent, when nobody is

VARIABLES
    alive,      \* the coroutines that have been created and have not ended
    runner,     \* the one that runs
    parent,     \* [Coroutines -> who forked it]
    joining     \* the coroutines that wait for their children

vars == <<alive, runner, parent, joining>>

Init ==
    /\ alive = {}
    /\ runner = NoOne
    /\ parent = [c \in Coroutines |-> NoOne]
    /\ joining = {}

Childless(c) == \A d \in alive : parent[d] # c

\* Anybody may create a coroutine nobody waits for.
Create(c) ==
    /\ c \notin alive
    /\ alive' = alive \cup {c}
    /\ UNCHANGED <<runner, parent, joining>>

Fork(p, c) ==
    /\ runner = p
    /\ c \notin alive
    /\ alive' = alive \cup {c}
    /\ parent' = [parent EXCEPT ![c] = p]
    /\ UNCHANGED <<runner, joining>>

Run(c) ==
    /\ runner = NoOne
    /\ c \in alive
    /\ parent[c] # NoOne => parent[c] \in joining
    /\ Childless(c) \/ c \notin joining
    /\ runner' = c
    /\ joining' = joining \ {c}
    /\ UNCHANGED <<alive, parent>>

Pause(c) ==
    /\ runner = c
    /\ Childless(c)
    /\ runner' = NoOne
    /\ UNCHANGED <<alive, parent, joining>>

Join(c) ==
    /\ runner = c
    /\ runner' = NoOne
    /\ joining' = joining \cup {c}
    /\ UNCHANGED <<alive, parent>>

End(c) ==
    /\ runner = c
    /\ Childless(c)
    /\ runner' = NoOne
    /\ alive' = alive \ {c}
    /\ parent' = [parent EXCEPT ![c] = NoOne]
    /\ UNCHANGED joining

Next ==
    \E c \in Coroutines :
       \/ Create(c)
       \/ \E p \in Coroutines : Fork(p, c)
       \/ Run(c)
       \/ Pause(c)
       \/ Join(c)
       \/ End(c)

Spec == Init /\ [][Next]_vars
=============================================================================
