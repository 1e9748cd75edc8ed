------------------------- MODULE CoroutineInvariant ------------------------
(***************************************************************************)
(* The inductive invariant of CoroutineSchedule: why, under the rules of   *)
(* use, no assertion of the scheduler fails.  TLC checks it on the         *)
(* instances of MCCoroutine; CoroutineProofs proves it for all of them.    *)
(***************************************************************************)
EXTENDS CoroutineSchedule

\* The rules and the master loops under which the invariant holds.  A master
\* that resumes owners from batchFinishList must not resume them any other way.
Disciplined ==
    /\ {"NoNesting", "NoOpenYield", "OwnBatch", "CheckRoom"} \subseteq Rules
    /\ "ResumeInBatch" \in MasterCalls => "BeforeFinish" \in Rules
    /\ "ResumeBatchFinish" \in MasterCalls =>
          "Resume" \notin MasterCalls /\ "FinishList" \in Rules

\* Exactly the coroutine that has control is in state run.
ControlInv ==
    /\ isMasterCoroutine => \A c \in Cids : state[c] # "run"
    /\ ~isMasterCoroutine => /\ runningCoroutineId \in Cids
                             /\ \A c \in Cids : state[c] = "run" <=> c = runningCoroutineId

\* A slot is given back clean.
SlotInv ==
    \A c \in Cids :
       /\ state[c] = "idle" => relateBatchId[c] = INVALID /\ ~isInsertBatch[c]
       /\ runBatch[c] # INVALID => isInsertBatch[c]

\* An owner is either filling its batch, or waiting in the BatchRun of it.
OwnerInv ==
    \A c \in Cids : isInsertBatch[c] =>
       /\ relateBatchId[c] # INVALID
       /\ relateId[relateBatchId[c]] = c
       /\ \/ /\ batchState[relateBatchId[c]] = "ready"
             /\ state[c] = "run"
             /\ runBatch[c] = INVALID
          \/ /\ batchState[relateBatchId[c]] = "run"
             /\ state[c] = "suspend"
             /\ runBatch[c] = relateBatchId[c]

\* A batch in use has its owner; one that is not has no children.
BatchInv ==
    \A b \in Bids :
       /\ batchState[b] # "idle" => /\ relateId[b] # INVALID
                                    /\ isInsertBatch[relateId[b]]
                                    /\ relateBatchId[relateId[b]] = b
       /\ batchState[b] = "idle" => \A c \in Cids : cid2finish[b][c] = "none"

\* The map of a batch tells which slots hold its children; before the barrier
\* none of them has started.
ChildInv ==
    \A b \in Bids, c \in Cids :
       /\ cid2finish[b][c] = "running" <=>
             state[c] # "idle" /\ relateBatchId[c] = b /\ ~isInsertBatch[c]
       /\ batchState[b] = "ready" =>
             /\ cid2finish[b][c] # "finished"
             /\ cid2finish[b][c] = "running" => state[c] = "ready"

\* Who is announced waits at the barrier of a batch that is done.
Announced(c) == /\ c \in Cids
                /\ isInsertBatch[c]
                /\ batchState[relateBatchId[c]] = "run"
                /\ AllFinished(relateBatchId[c])

ListInv ==
    "ResumeBatchFinish" \in MasterCalls =>
       /\ \A i \in 1..Len(batchFinishList) : Announced(batchFinishList[i])
       /\ \A i, j \in 1..Len(batchFinishList) :
             batchFinishList[i] = batchFinishList[j] => i = j

\* Inside CoroutineResumeInBatch, the children still to be resumed are unfinished
\* and the one that was resumed last is not among them.
CallInv ==
    inBatch # INVALID =>
       /\ batchState[inBatch] = "run"
       /\ \A c \in todo : cid2finish[inBatch][c] = "running"
       /\ runningCoroutineId \notin todo \/ isMasterCoroutine

CoreInv == ControlInv /\ SlotInv /\ OwnerInv /\ BatchInv /\ ChildInv

IInv == CoreInv /\ ListInv /\ CallInv /\ fault = "none"

-----------------------------------------------------------------------------
(***************************************************************************)
(* The loop of CoroutineResume: r is what it has found so far (coroutineId,*)
(* priority, isInsertBatch), c the coroutine it looks at.                  *)
(***************************************************************************)
\* Wrong: prefers the later of two equal priorities.
SearchStepLast(r, c) ==
    IF ~Resumable(c) THEN r
    ELSE IF ~isInsertBatch[c] /\ r.inserted
    THEN [id |-> c, priority |-> priority[c], inserted |-> FALSE]
    ELSE IF isInsertBatch[c] = r.inserted /\ priority[c] <= r.priority
    THEN [id |-> c, priority |-> priority[c], inserted |-> r.inserted]
    ELSE r

SearchStep(r, c) ==
    IF ~Resumable(c) THEN r
    ELSE IF ~isInsertBatch[c] /\ r.inserted
    THEN [id |-> c, priority |-> priority[c], inserted |-> FALSE]
    ELSE IF isInsertBatch[c] = r.inserted /\ priority[c] < r.priority
    THEN [id |-> c, priority |-> priority[c], inserted |-> r.inserted]
    ELSE r

Search ==
    LET found[i \in 0..CoroutineCnt] ==
          IF i = 0 THEN [id |-> INVALID, priority |-> MaxPriority, inserted |-> TRUE]
          ELSE SearchStep(found[i - 1], i - 1)
    IN  found[CoroutineCnt]

\* The loop finds the coroutine that IsChosen describes, and none when no
\* coroutine is a candidate.
SearchAgrees ==
    \/ Search.id = INVALID /\ Candidates = {}
    \/ Search.id # INVALID /\ IsChosen(Search.id)
-----------------------------------------------------------------------------
(***************************************************************************)
(* The scheduler as an implementation of ForkJoin.  A slot is the child of *)
(* the owner of its batch, and joins while it is inside BatchRun.          *)
(***************************************************************************)
InSlots == {c \in Cids : state[c] # "idle"}

Runner == IF isMasterCoroutine THEN INVALID ELSE runningCoroutineId

ForkedBy == [c \in Cids |-> IF IsInBatch(c) /\ ~isInsertBatch[c]
                            THEN relateId[relateBatchId[c]]
                            ELSE INVALID]

InBatchRun == {c \in Cids : runBatch[c] # INVALID}

Batches == INSTANCE ForkJoin WITH
    Coroutines <- Cids, NoOne <- INVALID,
    alive <- InSlots, runner <- Runner, parent <- ForkedBy, joining <- InBatchRun

\* Whatever slots and batches are used again, batches are fork and join: a child
\* starts when its owner is in BatchRun, and the owner returns from it when all its
\* children have returned.
ImplementsForkJoin == Batches!Spec
=============================================================================
