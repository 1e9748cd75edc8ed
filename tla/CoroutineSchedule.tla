------------------------- MODULE CoroutineSchedule -------------------------
(***************************************************************************)
(* The stackful coroutine scheduler of cpptools::concurrency               *)
(* (src/concurrency/coroutine.cpp, includes/.../coroutine.h).              *)
(*                                                                         *)
(* One thread runs everything.  Either the master has control and calls a  *)
(* Resume function or ScheduleClean or ScheduleTryReleaseMemory, or exactly*)
(* one coroutine has it and calls CoroutineYield, CoroutineCreate,         *)
(* BatchInit, BatchAdd, BatchRun, CoroutineLocalSet, or returns from its   *)
(* entry function.  A step is everything the thread does between two       *)
(* points where the caller can choose; the code that follows swapcontext   *)
(* in a resumed coroutine belongs to the step that resumes it.             *)
(*                                                                         *)
(* A batch is a fork-join: a coroutine opens it (BatchInit), adds children *)
(* (BatchAdd) and parks at the barrier (BatchRun) until all have returned. *)
(*                                                                         *)
(* Operators marked "Wrong" are used by no definition: each is a bug this  *)
(* code could have, and shows which property would notice it.              *)
(***************************************************************************)
EXTENDS Integers, Sequences, FiniteSets

CONSTANTS
    CoroutineCnt,   \* Schedule::coroutineCnt, the size of the coroutine pool
    MaxBatch,       \* MAX_BATCH_RUN_SIZE, the size of the batch pool
    Priorities,     \* the priorities callers pass to CoroutineCreate
    MaxPriority,    \* UINT32_MAX, the value the search of CoroutineResume starts from
    Keys,           \* the keys of coroutine-local variables
    PctValues,      \* the outcomes of Percentile::GetPercentile
    ReleaseMax,     \* how many stacks one ScheduleTryReleaseMemory frees at most
    MasterCalls,    \* which Resume functions the program's master loop calls
    Rules,          \* what the callers of the library refrain from
    MaxCreate       \* bound of the model: how many coroutines are ever created

(***************************************************************************)
(* The rules of use.  The code states none of them; each keeps one of its  *)
(* assertions from failing.                                                *)
(*   NoNesting     a coroutine that is in a batch, as its owner or as its  *)
(*                 child, does not open another                            *)
(*   NoOpenYield   a coroutine neither yields nor returns between          *)
(*                 BatchInit and BatchRun                                  *)
(*   OwnBatch      BatchAdd and BatchRun get the id that BatchInit gave    *)
(*                 this coroutine, before BatchRun has used it up          *)
(*   NonEmpty      BatchRun is called on a batch that has a child: the     *)
(*                 owner opens the batch only when there is room for one   *)
(*                 and creates nothing else before it                      *)
(*   CheckRoom     BatchAdd is called only when CoroutineCanCreate         *)
(*   BeforeFinish  CoroutineResumeInBatch is called while no child of the  *)
(*                 batch has returned                                      *)
(*   FinishList    a coroutine parked at a barrier is not resumed through  *)
(*                 CoroutineResumeById                                     *)
(***************************************************************************)
AllRules == {"NoNesting", "NoOpenYield", "OwnBatch", "NonEmpty", "CheckRoom",
             "BeforeFinish", "FinishList"}

AllMasterCalls == {"Resume", "ResumeById", "ResumeInBatch", "ResumeBatchFinish"}

ASSUME ScheduleAssumption ==
    /\ CoroutineCnt \in Nat \ {0}
    /\ MaxBatch \in Nat \ {0}
    /\ MaxPriority \in Nat
    /\ Priorities \subseteq 0..MaxPriority
    /\ PctValues \subseteq Nat
    /\ ReleaseMax \in Nat \ {0}
    /\ MasterCalls \subseteq AllMasterCalls
    /\ Rules \subseteq AllRules
    /\ MaxCreate \in Nat

Cids == 0 .. CoroutineCnt - 1
Bids == 0 .. MaxBatch - 1

\* INVALID_ROUTINE_ID and INVALID_BATCH_ID
INVALID == -1

VARIABLES
    state,              \* [Cids -> Coroutine::state]
    priority,           \* [Cids -> Coroutine::priority]
    relateBatchId,      \* [Cids -> Coroutine::relateBatchId]
    isInsertBatch,      \* [Cids -> Coroutine::isInsertBatch]
    stack,              \* [Cids -> is Coroutine::stack allocated?]
    local,              \* [Cids -> [Keys -> who stored the value in Coroutine::local]]
    runBatch,           \* [Cids -> the batchId of the BatchRun the coroutine is inside]
    batchState,         \* [Bids -> Batch::state]
    relateId,           \* [Bids -> Batch::relateId]
    cid2finish,         \* [Bids -> [Cids -> Batch::cid2finish]]
    isMasterCoroutine,  \* has the master control?
    runningCoroutineId, \* the coroutine resumed last, while it has not returned
    activityCnt,        \* the scheduler's count of coroutines in use
    batchFinishList,    \* owners of the batches that are done
    inBatch, todo,      \* the batch, and the children still to be resumed, of the
                        \* CoroutineResumeInBatch the master is inside
    draining,           \* is the master inside CoroutineResumeBatchFinish?
    fault,              \* the assertion that failed; nothing runs after it
    cleaned,            \* has ScheduleClean run?
    created             \* how many coroutines were created (bounds the model)

coVars    == <<state, priority, relateBatchId, isInsertBatch, runBatch>>
memVars   == <<stack, local>>
batchVars == <<batchState, relateId, cid2finish>>
ctlVars   == <<isMasterCoroutine, runningCoroutineId>>
callVars  == <<inBatch, todo, draining>>
vars == <<coVars, memVars, batchVars, ctlVars, activityCnt, batchFinishList,
          callVars, fault, cleaned, created>>

CoStates     == {"idle", "ready", "run", "suspend"}
BatchStates  == {"idle", "ready", "run"}
ChildStates  == {"none", "running", "finished"}
LocalStates  == {"absent", "own", "left"}
Faults == {"none", "batch not run", "batch not done", "child finished",
           "child not resumed", "owner not resumed", "batch not ready",
           "not the owner", "no idle coroutine"}

TypeOK ==
    /\ state \in [Cids -> CoStates]
    /\ priority \in [Cids -> Priorities \cup {0}]
    /\ relateBatchId \in [Cids -> Bids \cup {INVALID}]
    /\ isInsertBatch \in [Cids -> BOOLEAN]
    /\ runBatch \in [Cids -> Bids \cup {INVALID}]
    /\ stack \in [Cids -> BOOLEAN]
    /\ local \in [Cids -> [Keys -> LocalStates]]
    /\ batchState \in [Bids -> BatchStates]
    /\ relateId \in [Bids -> Cids \cup {INVALID}]
    /\ cid2finish \in [Bids -> [Cids -> ChildStates]]
    /\ \A c \in Cids : relateBatchId[c] # INVALID => relateId[relateBatchId[c]] # INVALID
    /\ isMasterCoroutine \in BOOLEAN
    /\ runningCoroutineId \in Cids \cup {INVALID}
    /\ activityCnt \in Int
    /\ batchFinishList \in Seq(Cids)
    /\ inBatch \in Bids \cup {INVALID}
    /\ todo \subseteq Cids
    /\ draining \in BOOLEAN
    /\ fault \in Faults
    /\ cleaned \in BOOLEAN
    /\ created \in 0..MaxCreate

NoChild == [c \in Cids |-> "none"]

\* ScheduleInit.  It leaves priority, relateBatchId, isInsertBatch and
\* Batch::relateId unset; no step reads one of them before CoroutineInit or
\* BatchInit has written it.
Init ==
    /\ state = [c \in Cids |-> "idle"]
    /\ priority = [c \in Cids |-> 0]
    /\ relateBatchId = [c \in Cids |-> INVALID]
    /\ isInsertBatch = [c \in Cids |-> FALSE]
    /\ runBatch = [c \in Cids |-> INVALID]
    /\ stack = [c \in Cids |-> FALSE]
    /\ local = [c \in Cids |-> [k \in Keys |-> "absent"]]
    /\ batchState = [b \in Bids |-> "idle"]
    /\ relateId = [b \in Bids |-> INVALID]
    /\ cid2finish = [b \in Bids |-> NoChild]
    /\ isMasterCoroutine = TRUE
    /\ runningCoroutineId = INVALID
    /\ activityCnt = 0
    /\ batchFinishList = <<>>
    /\ inBatch = INVALID
    /\ todo = {}
    /\ draining = FALSE
    /\ fault = "none"
    /\ cleaned = FALSE
    /\ created = 0
-----------------------------------------------------------------------------
(***************************************************************************)
(* What the functions of the scheduler compute.                            *)
(***************************************************************************)
\* Every child in the batch's map has finished; the value isBatchDone returns.
AllFinished(b) == \A c \in Cids : cid2finish[b][c] # "running"

\* The assertion isBatchDone makes before it answers.
BatchRunning(b) == batchState[b] = "run"

Children(b) == {c \in Cids : cid2finish[b][c] # "none"}

\* States CoroutineResume and CoroutineResumeById may resume.
Resumable(c) == state[c] \in {"ready", "suspend"}

\* Wrong: announces the batch when any of its children returns.
AnyChild(b, c) == TRUE

\* Wrong: never announces it.
NoLastChild(b, c) == FALSE

\* Is c, which has just returned, the last child of b to do so?
LastChild(b, c) == \A d \in Cids \ {c} : cid2finish[b][d] # "running"

\* Wrong: takes a slot whose coroutine has started.
IsFirstNotReady(c) == /\ state[c] # "ready"
                      /\ \A d \in Cids : d < c => state[d] = "ready"

\* The slot CoroutineCreate takes: the first idle one.
IsFirstIdle(c) == /\ state[c] = "idle"
                  /\ \A d \in Cids : d < c => state[d] # "idle"

CanCreate == \E c \in Cids : state[c] = "idle"

\* Wrong: takes a batch whose owner is at the barrier.
IsFirstNotReadyBatch(b) == /\ batchState[b] # "ready"
                           /\ \A d \in Bids : d < b => batchState[d] = "ready"

\* The batch BatchInit takes: the first idle one.
IsFirstIdleBatch(b) == /\ batchState[b] = "idle"
                       /\ \A d \in Bids : d < b => batchState[d] # "idle"

\* Is c part of a batch?  CoroutineIsInBatch, which is also true of the owner.
IsInBatch(c) == relateBatchId[c] # INVALID

\* Wrong: prefers by priority alone, whatever waits at a barrier.
AllCandidates == {c \in Cids : Resumable(c) /\ priority[c] < MaxPriority}

\* Wrong: never comes back to a coroutine at a barrier.
FreeCandidates == {c \in Cids : Resumable(c) /\ ~isInsertBatch[c]}

\* The coroutines CoroutineResume compares.  One that is not at a barrier is
\* preferred to all that are; one that is must beat the value the search
\* starts from, strictly.
Candidates ==
    LET free == {c \in Cids : Resumable(c) /\ ~isInsertBatch[c]}
    IN  IF free # {} THEN free
        ELSE {c \in Cids : Resumable(c) /\ priority[c] < MaxPriority}

\* The coroutine CoroutineResume picks: the smallest priority, then the
\* smallest id.
IsChosen(c) ==
    /\ c \in Candidates
    /\ \A d \in Candidates :
          \/ priority[c] < priority[d]
          \/ priority[c] = priority[d] /\ c <= d

\* What CoroutineLocalGet finds for the running coroutine: its own variable,
\* else that of the coroutine its batch belongs to.
LocalGet(c, k) ==
    IF local[c][k] # "absent" THEN local[c][k]
    ELSE IF relateBatchId[c] = INVALID THEN "absent"
    ELSE local[relateId[relateBatchId[c]]][k]

\* Wrong: asks only for the coroutine resumed last.
LastStillRunning == runningCoroutineId # INVALID

\* ScheduleRunning, the condition of the master loop.
ScheduleRunning == \/ runningCoroutineId # INVALID
                   \/ \E c \in Cids : state[c] # "idle"
-----------------------------------------------------------------------------
Alive == fault = "none" /\ ~cleaned

\* The master is between two calls of its loop.
MasterFree == Alive /\ isMasterCoroutine /\ inBatch = INVALID /\ ~draining

Running(c) == Alive /\ ~isMasterCoroutine /\ runningCoroutineId = c

\* A failed assertion aborts the process.
Abort(why) ==
    /\ fault' = why
    /\ UNCHANGED <<coVars, memVars, batchVars, ctlVars, activityCnt,
                   batchFinishList, callVars, cleaned, created>>

(***************************************************************************)
(* swapcontext to coroutine c, and the code of c up to its next choice:    *)
(* nothing when c was in CoroutineYield or had not started, the lines of   *)
(* BatchRun after the barrier when it was there.                           *)
(***************************************************************************)
SwitchTo(c) ==
    LET b == runBatch[c] IN
    /\ state' = [state EXCEPT ![c] = "run"]
    /\ runningCoroutineId' = c
    /\ isMasterCoroutine' = FALSE
    /\ runBatch' = [runBatch EXCEPT ![c] = INVALID]
    /\ IF b = INVALID
       THEN UNCHANGED <<batchState, cid2finish, relateBatchId, isInsertBatch>>
       ELSE /\ batchState' = [batchState EXCEPT ![b] = "idle"]
            /\ cid2finish' = [cid2finish EXCEPT ![b] = NoChild]
            /\ relateBatchId' = [relateBatchId EXCEPT ![c] = INVALID]
            /\ isInsertBatch' = [isInsertBatch EXCEPT ![c] = FALSE]
    /\ UNCHANGED <<priority, relateId, memVars, activityCnt, fault, cleaned, created>>

\* CoroutineResume
Resume ==
    /\ MasterFree
    /\ "Resume" \in MasterCalls
    /\ \E c \in Cids :
          /\ IsChosen(c)
          /\ IF isInsertBatch[c] /\ ~BatchRunning(relateBatchId[c])
             THEN Abort("batch not run")
             ELSE IF isInsertBatch[c] /\ ~AllFinished(relateBatchId[c])
             THEN Abort("batch not done")
             ELSE /\ SwitchTo(c)
                  /\ UNCHANGED <<batchFinishList, callVars>>

\* CoroutineResumeById called by the master loop.  A call that returns
\* NotRunnable changes nothing and is no step.
ResumeById(c) ==
    /\ MasterFree
    /\ "ResumeById" \in MasterCalls
    /\ "FinishList" \in Rules => ~isInsertBatch[c]
    /\ Resumable(c)
    /\ IF isInsertBatch[c] /\ ~BatchRunning(relateBatchId[c])
       THEN Abort("batch not run")
       ELSE /\ isInsertBatch[c] => AllFinished(relateBatchId[c])
            /\ SwitchTo(c)
            /\ UNCHANGED <<batchFinishList, callVars>>

\* Does CoroutineResumeById(c), called by the two loops below, return Success?
Resumes(c) ==
    Resumable(c) /\ (isInsertBatch[c] => AllFinished(relateBatchId[c]))

\* CoroutineResumeInBatch(id): the loop over the batch's map, in any order.
\* The call starts the loop; a batch without children is a call that does
\* nothing.
ResumeInBatch(id) ==
    LET b == relateBatchId[id] IN
    /\ MasterFree
    /\ "ResumeInBatch" \in MasterCalls
    /\ isInsertBatch[id]
    /\ "BeforeFinish" \in Rules => \A c \in Cids : cid2finish[b][c] # "finished"
    /\ Children(b) # {}
    /\ inBatch' = b
    /\ todo' = Children(b)
    /\ UNCHANGED <<coVars, memVars, batchVars, ctlVars, activityCnt,
                   batchFinishList, draining, fault, cleaned, created>>

\* One round of that loop: both assertions, then the switch.
ResumeInBatchNext(c) ==
    /\ Alive /\ isMasterCoroutine
    /\ inBatch # INVALID
    /\ c \in todo
    /\ IF cid2finish[inBatch][c] = "finished" THEN Abort("child finished")
       ELSE IF isInsertBatch[c] /\ Resumable(c) /\ ~BatchRunning(relateBatchId[c])
       THEN Abort("batch not run")
       ELSE IF ~Resumes(c) THEN Abort("child not resumed")
       ELSE /\ SwitchTo(c)
            /\ todo' = todo \ {c}
            /\ inBatch' = IF todo = {c} THEN INVALID ELSE inBatch
            /\ UNCHANGED <<batchFinishList, draining>>

\* CoroutineResumeBatchFinish: pop an owner and resume it, until the list,
\* which the resumed coroutine may extend, is empty.
ResumeBatchFinish ==
    /\ Alive /\ isMasterCoroutine /\ inBatch = INVALID
    /\ "ResumeBatchFinish" \in MasterCalls
    /\ batchFinishList # <<>>
    /\ LET c == Head(batchFinishList) IN
       IF isInsertBatch[c] /\ Resumable(c) /\ ~BatchRunning(relateBatchId[c])
       THEN Abort("batch not run")
       ELSE IF ~Resumes(c) THEN Abort("owner not resumed")
       ELSE /\ SwitchTo(c)
            /\ batchFinishList' = Tail(batchFinishList)
            /\ draining' = TRUE
            /\ UNCHANGED <<inBatch, todo>>

ResumeBatchFinishReturn ==
    /\ Alive /\ isMasterCoroutine /\ draining
    /\ batchFinishList = <<>>
    /\ draining' = FALSE
    /\ UNCHANGED <<coVars, memVars, batchVars, ctlVars, activityCnt,
                   batchFinishList, inBatch, todo, fault, cleaned, created>>
-----------------------------------------------------------------------------
(***************************************************************************)
(* Creation and the calls of a running coroutine.                          *)
(***************************************************************************)
\* CoroutineCreate with CoroutineInit, for slot c.  What an earlier coroutine
\* left in the slot's local variables stays there.
CreateIn(c, p, b) ==
    /\ created < MaxCreate
    /\ created' = created + 1
    /\ activityCnt' = activityCnt + 1
    /\ state' = [state EXCEPT ![c] = "ready"]
    /\ priority' = [priority EXCEPT ![c] = p]
    /\ relateBatchId' = [relateBatchId EXCEPT ![c] = b]
    /\ isInsertBatch' = [isInsertBatch EXCEPT ![c] = FALSE]
    /\ runBatch' = [runBatch EXCEPT ![c] = INVALID]
    /\ stack' = [stack EXCEPT ![c] = TRUE]
    /\ local' = [local EXCEPT ![c] =
                    [k \in Keys |-> IF local[c][k] = "own" THEN "left" ELSE local[c][k]]]

\* CoroutineCreate called by the master or by the running coroutine.
Create(p) ==
    /\ Alive /\ (isMasterCoroutine => MasterFree)
    /\ "NonEmpty" \in Rules /\ ~isMasterCoroutine /\ isInsertBatch[runningCoroutineId]
          => Children(relateBatchId[runningCoroutineId]) # {}
    /\ \E c \in Cids : IsFirstIdle(c) /\ CreateIn(c, p, INVALID)
    /\ UNCHANGED <<batchVars, ctlVars, batchFinishList, callVars, fault, cleaned>>

\* CoroutineYield
Yield(c) ==
    /\ Running(c)
    /\ "NoOpenYield" \in Rules => ~isInsertBatch[c]
    /\ state' = [state EXCEPT ![c] = "suspend"]
    /\ isMasterCoroutine' = TRUE
    /\ UNCHANGED <<priority, relateBatchId, isInsertBatch, runBatch, memVars, batchVars,
                   runningCoroutineId, activityCnt, batchFinishList, callVars,
                   fault, cleaned, created>>

\* The entry function returns: the rest of CoroutineRun, then the master.
Finish(c) ==
    LET b == relateBatchId[c] IN
    /\ Running(c)
    /\ "NoOpenYield" \in Rules => ~isInsertBatch[c]
    /\ IF b # INVALID /\ ~BatchRunning(b) THEN Abort("batch not run")
       ELSE /\ state' = [state EXCEPT ![c] = "idle"]
            /\ relateBatchId' = [relateBatchId EXCEPT ![c] = INVALID]
            /\ activityCnt' = activityCnt - 1
            /\ runningCoroutineId' = INVALID
            /\ isMasterCoroutine' = TRUE
            /\ cid2finish' = IF b = INVALID THEN cid2finish
                             ELSE [cid2finish EXCEPT ![b][c] = "finished"]
            /\ batchFinishList' =
                  IF b # INVALID /\ LastChild(b, c)
                  THEN Append(batchFinishList, relateId[b])
                  ELSE batchFinishList
            /\ UNCHANGED <<priority, isInsertBatch, runBatch, memVars, batchState,
                           relateId, callVars, fault, cleaned, created>>

\* BatchInit; a call that finds no idle batch returns INVALID_BATCH_ID and
\* changes nothing.
BatchInit(c) ==
    /\ Running(c)
    /\ "NoNesting" \in Rules => ~IsInBatch(c)
    /\ "NonEmpty" \in Rules => CanCreate /\ created < MaxCreate
    /\ \E b \in Bids :
          /\ IsFirstIdleBatch(b)
          /\ batchState' = [batchState EXCEPT ![b] = "ready"]
          /\ relateId' = [relateId EXCEPT ![b] = c]
          /\ relateBatchId' = [relateBatchId EXCEPT ![c] = b]
          /\ isInsertBatch' = [isInsertBatch EXCEPT ![c] = TRUE]
    /\ UNCHANGED <<state, priority, runBatch, memVars, cid2finish, ctlVars, activityCnt,
                   batchFinishList, callVars, fault, cleaned, created>>

\* BatchAdd
BatchAdd(c, b, p) ==
    /\ Running(c)
    /\ "OwnBatch" \in Rules => batchState[b] = "ready" /\ relateId[b] = c
    /\ "CheckRoom" \in Rules => CanCreate
    /\ IF batchState[b] # "ready" THEN Abort("batch not ready")
       ELSE IF relateId[b] # c THEN Abort("not the owner")
       ELSE IF ~CanCreate THEN Abort("no idle coroutine")
       ELSE /\ \E d \in Cids : /\ IsFirstIdle(d)
                               /\ CreateIn(d, p, b)
                               /\ cid2finish' = [cid2finish EXCEPT ![b][d] = "running"]
            /\ UNCHANGED <<batchState, relateId, ctlVars, batchFinishList, callVars,
                           fault, cleaned>>

\* BatchRun up to the barrier.  No client passes a batch nobody ever opened,
\* whose relateId is not initialised.
BatchRun(c, b) ==
    /\ Running(c)
    /\ relateId[b] # INVALID
    /\ "OwnBatch" \in Rules => batchState[b] = "ready" /\ relateId[b] = c
    /\ "NonEmpty" \in Rules => Children(b) # {}
    /\ IF relateId[b] # c THEN Abort("not the owner")
       ELSE /\ batchState' = [batchState EXCEPT ![b] = "run"]
            /\ runBatch' = [runBatch EXCEPT ![c] = b]
            /\ state' = [state EXCEPT ![c] = "suspend"]
            /\ isMasterCoroutine' = TRUE
            /\ UNCHANGED <<priority, relateBatchId, isInsertBatch, memVars, relateId,
                           cid2finish, runningCoroutineId, activityCnt,
                           batchFinishList, callVars, fault, cleaned, created>>

\* CoroutineLocalSet
LocalSet(c, k) ==
    /\ Running(c)
    /\ local' = [local EXCEPT ![c][k] = "own"]
    /\ UNCHANGED <<coVars, stack, batchVars, ctlVars, activityCnt, batchFinishList,
                   callVars, fault, cleaned, created>>
-----------------------------------------------------------------------------
(***************************************************************************)
(* Memory.                                                                 *)
(***************************************************************************)
\* Wrong: takes the stack of a suspended coroutine too.
NotRunningWithStack == {c \in Cids : state[c] # "run" /\ stack[c]}

\* The coroutines ScheduleTryReleaseMemory looks at.
Pooled == {c \in Cids : state[c] = "idle" /\ stack[c]}

\* ScheduleTryReleaseMemory once its statistics are full: of the idle
\* coroutines that still have a stack, in the order of the pool, the first
\* pct - activityCnt keep it and up to ReleaseMax of the others lose it.
TryReleaseMemory(pct) ==
    LET rank(c)  == Cardinality({d \in Pooled : d < c})
        remain   == IF pct > activityCnt THEN pct - activityCnt ELSE 0
        released == {c \in Pooled : remain <= rank(c) /\ rank(c) < remain + ReleaseMax}
    IN
    /\ MasterFree
    /\ stack' = [c \in Cids |-> stack[c] /\ c \notin released]
    /\ local' = [c \in Cids |-> IF c \in released THEN [k \in Keys |-> "absent"]
                                ELSE local[c]]
    /\ UNCHANGED <<coVars, batchVars, ctlVars, activityCnt, batchFinishList,
                   callVars, fault, cleaned, created>>

\* ScheduleClean after the loop `while (ScheduleRunning(..))` has ended.
ScheduleClean ==
    /\ MasterFree
    /\ ~ScheduleRunning
    /\ cleaned' = TRUE
    /\ stack' = [c \in Cids |-> FALSE]
    /\ local' = [c \in Cids |-> [k \in Keys |-> "absent"]]
    /\ UNCHANGED <<coVars, batchVars, ctlVars, activityCnt, batchFinishList,
                   callVars, fault, created>>
-----------------------------------------------------------------------------
MasterStep ==
    \/ Resume
    \/ \E c \in Cids : ResumeById(c) \/ ResumeInBatch(c) \/ ResumeInBatchNext(c)
    \/ ResumeBatchFinish
    \/ ResumeBatchFinishReturn
    \/ \E pct \in PctValues : TryReleaseMemory(pct)
    \/ ScheduleClean

CoroutineStep(c) ==
    \/ Yield(c)
    \/ Finish(c)
    \/ BatchInit(c)
    \/ \E b \in Bids : BatchRun(c, b) \/ \E p \in Priorities : BatchAdd(c, b, p)
    \/ \E k \in Keys : LocalSet(c, k)

Next ==
    \/ MasterStep
    \/ \E c \in Cids : CoroutineStep(c)
    \/ \E p \in Priorities : Create(p)

Spec == Init /\ [][Next]_vars

(***************************************************************************)
(* Fairness.  The thread keeps running, so a coroutine in control and a    *)
(* master inside a call take their next step (WF).  Entry functions        *)
(* return: one that gets control again and again returns in the end (SF).  *)
(* The plain master loop does nothing but resume (WF).  The event loop     *)
(* calls CoroutineResumeBatchFinish in every round, and the event that a   *)
(* suspended coroutine waits for arrives (SF: in between the loop serves   *)
(* other coroutines).                                                      *)
(***************************************************************************)
CoroutineFairness ==
    \A c \in Cids : WF_vars(CoroutineStep(c)) /\ SF_vars(Finish(c))

PlainSpec == Spec /\ CoroutineFairness /\ WF_vars(Resume)

EventSpec ==
    /\ Spec /\ CoroutineFairness
    /\ \A c \in Cids : WF_vars(ResumeInBatchNext(c)) /\ SF_vars(ResumeById(c))
    /\ SF_vars(ResumeBatchFinish)
    /\ WF_vars(ResumeBatchFinishReturn)
-----------------------------------------------------------------------------
(***************************************************************************)
(* Properties.                                                             *)
(***************************************************************************)
\* No assertion of the scheduler fails, under the rules of use.
NoAssertFails == fault = "none"

\* activityCnt, which ScheduleTryReleaseMemory subtracts, is the number of
\* coroutines in use, although creation and return update it far apart.
ActivityCount == activityCnt = Cardinality({c \in Cids : state[c] # "idle"})

\* Control is where the scheduler thinks it is: nobody is in state run while
\* the master has control, and runningCoroutineId alone is otherwise.
OneRunner ==
    {c \in Cids : state[c] = "run"} =
        IF isMasterCoroutine THEN {} ELSE {runningCoroutineId}

\* The map of a batch has an unfinished entry for a slot exactly while the
\* slot holds a child of that batch that has not returned; slots are reused,
\* so a lost or late update would credit another coroutine.  An idle batch
\* has an empty map.
BatchAccounting ==
    \A b \in Bids :
       /\ \A c \in Cids : cid2finish[b][c] = "running" <=>
                             /\ state[c] # "idle"
                             /\ relateBatchId[c] = b
                             /\ ~isInsertBatch[c]
       /\ batchState[b] = "idle" => Children(b) = {}

\* While a child of a batch has started, its owner is suspended inside the
\* BatchRun of that batch: so the local variables the child reads through
\* CoroutineLocalGet cannot be overwritten, which would free them.
OwnerParked ==
    \A c \in Cids :
       relateBatchId[c] # INVALID /\ ~isInsertBatch[c] /\ state[c] \in {"run", "suspend"} =>
          LET owner == relateId[relateBatchId[c]] IN
          state[owner] = "suspend" /\ runBatch[owner] = relateBatchId[c]

\* batchFinishList announces every batch that is done, each once, and nothing
\* else: what CoroutineResumeBatchFinish needs to resume what it pops.
FinishListExact ==
    /\ {batchFinishList[i] : i \in DOMAIN batchFinishList} =
          {relateId[b] : b \in {x \in Bids :
               /\ batchState[x] = "run"
               /\ \A c \in Cids : cid2finish[x][c] # "running"}}
    /\ \A i, j \in DOMAIN batchFinishList :
          batchFinishList[i] = batchFinishList[j] => i = j

\* CoroutineResume answers NotRunnable only when there is no coroutine it could
\* run: neither one outside a barrier nor one whose batch is done.
ResumeFindsRunnable ==
    MasterFree /\ "Resume" \in MasterCalls
       /\ (\E c \in Cids : Resumable(c) /\
              (isInsertBatch[c] => \A d \in Cids : cid2finish[relateBatchId[c]][d] # "running"))
    => \E c \in Cids : IsChosen(c)

\* A coroutine in use has a stack, whatever ScheduleTryReleaseMemory frees.
LiveHasStack == \A c \in Cids : state[c] # "idle" /\ ~cleaned => stack[c]

\* A slot without a stack keeps no local variables: what is freed with the
\* stack is not looked up, or freed a second time, by the slot's next coroutine.
FreedHasNoLocals == \A c \in Cids, k \in Keys : ~stack[c] => local[c][k] = "absent"

\* When the master loop ends and ScheduleClean runs, no coroutine is lost at a
\* barrier and no batch of the pool is still taken.
NothingLeftBehind ==
    cleaned => /\ activityCnt = 0
               /\ \A b \in Bids : batchState[b] = "idle"

\* What a coroutine reads through CoroutineLocalGet was stored by it or by the
\* owner of its batch, as "coroutine-local variable" says (coroutine.h).
NoForeignLocal ==
    \A c \in Cids, k \in Keys : Running(c) => LocalGet(c, k) # "left"

\* BatchRun comes back from the barrier only when every child has finished.
BarrierHolds ==
    [][\A b \in Bids : batchState[b] = "run" /\ batchState'[b] # "run" =>
          \A c \in Cids : cid2finish[b][c] # "running"]_vars

\* Every coroutine that is created returns, under the plain master loop.
EveryCoroutineEnds ==
    \A c \in Cids : state[c] # "idle" ~> state[c] = "idle"

\* Every barrier opens again, under the event loop.
BatchCompletes ==
    \A b \in Bids : batchState[b] = "run" ~> batchState[b] = "idle"
=============================================================================
