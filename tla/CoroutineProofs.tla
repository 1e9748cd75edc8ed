-------------------------- MODULE CoroutineProofs --------------------------
(***************************************************************************)
(* Theorems about CoroutineSchedule, for every pool size, batch pool size, *)
(* set of priorities, bound and master loop.                               *)
(***************************************************************************)
EXTENDS CoroutineInvariant, DataLemmas, SequenceTheorems, FiniteSetTheorems, TLAPS

\* -1 is neither the id of a coroutine nor of a batch.
LEMMA InvalidIsNoId == INVALID \notin Cids /\ INVALID \notin Bids
  BY DEF INVALID, Cids, Bids

\* The slots of the pool are integers.
LEMMA CidsAreInts == Cids \subseteq Int
  BY DEF Cids

-----------------------------------------------------------------------------
(***************************************************************************)
(* Typing.                                                                 *)
(***************************************************************************)
LEMMA AbortTyped == ASSUME TypeOK, NEW why \in Faults, Abort(why) PROVE TypeOK'
  BY DEF TypeOK, Abort, coVars, memVars, batchVars, ctlVars, callVars

LEMMA NoChildTyped == NoChild \in [Cids -> ChildStates]
  BY DEF NoChild, ChildStates

\* Switching to a coroutine keeps the types of everything it writes.
LEMMA SwitchTyped ==
  ASSUME TypeOK, NEW c \in Cids, SwitchTo(c),
         batchFinishList' \in Seq(Cids),
         inBatch' \in Bids \cup {INVALID}, todo' \subseteq Cids, draining' \in BOOLEAN
  PROVE  TypeOK'
  BY NoChildTyped DEF TypeOK, SwitchTo, memVars, CoStates, BatchStates

LEMMA CreateTyped ==
  ASSUME TypeOK, NEW c \in Cids, NEW p \in Priorities, NEW b \in Bids \cup {INVALID},
         CreateIn(c, p, b), UNCHANGED <<ctlVars, batchFinishList, callVars, fault, cleaned>>,
         batchState' = batchState, relateId' = relateId,
         cid2finish' \in [Bids -> [Cids -> ChildStates]],
         b # INVALID => relateId[b] # INVALID
  PROVE  TypeOK'
  <1>1. local' \in [Cids -> [Keys -> LocalStates]]
    BY DEF TypeOK, CreateIn, LocalStates
  <1>2. created' \in 0..MaxCreate
    BY ScheduleAssumption DEF TypeOK, CreateIn, ScheduleAssumption
  <1>. QED
    BY <1>1, <1>2 DEF TypeOK, CreateIn, ctlVars, callVars, CoStates

\* What every variable of the scheduler may hold.
THEOREM TypeCorrect == Spec => []TypeOK
  <1>1. Init => TypeOK
    <2>. SUFFICES ASSUME Init PROVE TypeOK
      OBVIOUS
    <2>1. cid2finish \in [Bids -> [Cids -> ChildStates]]
      BY NoChildTyped DEF Init
    <2>2. created \in 0..MaxCreate
      BY ScheduleAssumption DEF Init, ScheduleAssumption
    <2>3. /\ state \in [Cids -> CoStates]
          /\ local \in [Cids -> [Keys -> LocalStates]]
          /\ batchState \in [Bids -> BatchStates]
          /\ fault \in Faults
      BY DEF Init, CoStates, LocalStates, BatchStates, Faults
    <2>4. /\ priority \in [Cids -> Priorities \cup {0}]
          /\ isInsertBatch \in [Cids -> BOOLEAN]
          /\ runBatch \in [Cids -> Bids \cup {INVALID}]
          /\ stack \in [Cids -> BOOLEAN]
          /\ relateId \in [Bids -> Cids \cup {INVALID}]
          /\ batchFinishList \in Seq(Cids)
          /\ todo \subseteq Cids
      BY DEF Init
    <2>5. /\ relateBatchId \in [Cids -> Bids \cup {INVALID}]
          /\ \A c \in Cids : relateBatchId[c] = INVALID
      BY DEF Init
    <2>6. /\ runningCoroutineId \in Cids \cup {INVALID}
          /\ activityCnt \in Int
          /\ inBatch \in Bids \cup {INVALID}
      BY DEF Init
    <2>7. isMasterCoroutine \in BOOLEAN /\ draining \in BOOLEAN /\ cleaned \in BOOLEAN
      BY Zenon DEF Init
    <2>. QED
      BY <2>1, <2>2, <2>3, <2>4, <2>5, <2>6, <2>7 DEF TypeOK
  <1>2. TypeOK /\ [Next]_vars => TypeOK'
    <2>. SUFFICES ASSUME TypeOK, [Next]_vars PROVE TypeOK'
      OBVIOUS
    <2>1. CASE Resume
      <3>. PICK c \in Cids : IsChosen(c) /\ (\/ Abort("batch not run")
                                             \/ Abort("batch not done")
                                             \/ /\ SwitchTo(c)
                                                /\ UNCHANGED <<batchFinishList, callVars>>)
        BY <2>1 DEF Resume
      <3>. QED
        BY AbortTyped, SwitchTyped DEF Faults, callVars, TypeOK
    <2>2. CASE \E c \in Cids : ResumeById(c)
      BY <2>2, AbortTyped, SwitchTyped DEF ResumeById, Faults, callVars, TypeOK
    <2>3. CASE \E c \in Cids : ResumeInBatch(c)
      BY <2>3, InvalidIsNoId
      DEF ResumeInBatch, Children, TypeOK, coVars, memVars, batchVars, ctlVars
    <2>4. CASE \E c \in Cids : ResumeInBatchNext(c)
      <3>. PICK c \in Cids : ResumeInBatchNext(c)
        BY <2>4
      <3>1. CASE \E why \in Faults : Abort(why)
        BY <3>1, AbortTyped
      <3>2. CASE /\ SwitchTo(c)
                 /\ todo' = todo \ {c}
                 /\ inBatch' = IF todo = {c} THEN INVALID ELSE inBatch
                 /\ UNCHANGED <<batchFinishList, draining>>
        BY <3>2, SwitchTyped DEF TypeOK
      <3>. QED
        BY <3>1, <3>2 DEF ResumeInBatchNext, Faults
    <2>5. CASE ResumeBatchFinish
      <3>1. CASE \E why \in Faults : Abort(why)
        BY <3>1, AbortTyped
      <3>2. CASE /\ batchFinishList # <<>>
                 /\ Resumes(Head(batchFinishList))
                 /\ SwitchTo(Head(batchFinishList))
                 /\ batchFinishList' = Tail(batchFinishList)
                 /\ draining' = TRUE
                 /\ UNCHANGED <<inBatch, todo>>
        <4>1. Head(batchFinishList) \in Cids /\ Tail(batchFinishList) \in Seq(Cids)
          BY <3>2 DEF TypeOK
        <4>. QED
          BY <3>2, <4>1, SwitchTyped DEF TypeOK
      <3>. QED
        BY <2>5, <3>1, <3>2 DEF ResumeBatchFinish, Faults
    <2>6. CASE ResumeBatchFinishReturn
      BY <2>6 DEF ResumeBatchFinishReturn, TypeOK, coVars, memVars, batchVars, ctlVars
    <2>7. CASE \E pct \in PctValues : TryReleaseMemory(pct)
      <3>. PICK pct \in PctValues : TryReleaseMemory(pct)
        BY <2>7
      <3>1. stack' \in [Cids -> BOOLEAN] /\ local' \in [Cids -> [Keys -> LocalStates]]
        BY DEF TryReleaseMemory, TypeOK, LocalStates
      <3>. QED
        BY <3>1 DEF TryReleaseMemory, TypeOK, coVars, batchVars, ctlVars, callVars
    <2>8. CASE ScheduleClean
      BY <2>8
      DEF ScheduleClean, TypeOK, LocalStates, coVars, batchVars, ctlVars, callVars
    <2>9. ASSUME NEW p \in Priorities, Create(p) PROVE TypeOK'
      <3>. PICK c \in Cids : CreateIn(c, p, INVALID)
        BY <2>9 DEF Create
      <3>. QED
        BY <2>9, CreateTyped DEF Create, batchVars, TypeOK
    <2>10. ASSUME NEW c \in Cids, Yield(c) PROVE TypeOK'
      BY <2>10 DEF Yield, TypeOK, memVars, batchVars, callVars, CoStates
    <2>11. ASSUME NEW c \in Cids, Finish(c) PROVE TypeOK'
      <3>1. CASE Abort("batch not run")
        BY <3>1, AbortTyped DEF Faults
      <3>2. CASE ~Abort("batch not run")
        <4>1. cid2finish' \in [Bids -> [Cids -> ChildStates]]
          <5>1. CASE relateBatchId[c] = INVALID
            BY <2>11, <3>2, <5>1 DEF Finish, TypeOK
          <5>2. CASE relateBatchId[c] # INVALID
            <6>1. /\ relateBatchId[c] \in Bids
                  /\ cid2finish' = [cid2finish EXCEPT ![relateBatchId[c]][c] = "finished"]
              BY <2>11, <3>2, <5>2 DEF Finish, TypeOK
            <6>. QED
              BY <6>1 DEF TypeOK, ChildStates
          <5>. QED
            BY <5>1, <5>2
        <4>2. batchFinishList' \in Seq(Cids)
          <5>1. \/ batchFinishList' = batchFinishList
                \/ /\ relateBatchId[c] # INVALID
                   /\ batchFinishList' = Append(batchFinishList, relateId[relateBatchId[c]])
            BY <2>11, <3>2 DEF Finish
          <5>2. relateBatchId[c] # INVALID => relateId[relateBatchId[c]] \in Cids
            BY DEF TypeOK
          <5>3. CASE batchFinishList' = batchFinishList
            BY <5>3 DEF TypeOK
          <5>4. CASE /\ relateBatchId[c] # INVALID
                     /\ batchFinishList' = Append(batchFinishList, relateId[relateBatchId[c]])
            <6>1. batchFinishList \in Seq(Cids)
              BY DEF TypeOK
            <6>. QED
              BY <5>2, <5>4, <6>1
          <5>. QED
            BY <5>1, <5>3, <5>4
        <4>3. /\ state' = [state EXCEPT ![c] = "idle"]
              /\ relateBatchId' = [relateBatchId EXCEPT ![c] = INVALID]
              /\ activityCnt' = activityCnt - 1
              /\ runningCoroutineId' = INVALID
              /\ isMasterCoroutine' = TRUE
              /\ UNCHANGED <<priority, isInsertBatch, runBatch, memVars, batchState,
                             relateId, callVars, fault, cleaned, created>>
          BY <2>11, <3>2 DEF Finish
        <4>. QED
          BY <4>1, <4>2, <4>3 DEF TypeOK, memVars, callVars, CoStates
      <3>. QED
        BY <3>1, <3>2
    <2>12. ASSUME NEW c \in Cids, BatchInit(c) PROVE TypeOK'
      BY <2>12, InvalidIsNoId
      DEF BatchInit, TypeOK, memVars, ctlVars, callVars, BatchStates
    <2>13. ASSUME NEW c \in Cids, NEW b \in Bids, NEW p \in Priorities, BatchAdd(c, b, p)
           PROVE  TypeOK'
      <3>1. CASE \E why \in Faults : Abort(why)
        BY <3>1, AbortTyped
      <3>2. CASE /\ relateId[b] = c
                 /\ \E d \in Cids :
                       /\ CreateIn(d, p, b)
                       /\ cid2finish' = [cid2finish EXCEPT ![b][d] = "running"]
                 /\ UNCHANGED <<batchState, relateId, ctlVars, batchFinishList, callVars,
                               fault, cleaned>>
        <4>1. cid2finish' \in [Bids -> [Cids -> ChildStates]]
          BY <3>2 DEF TypeOK, ChildStates
        <4>. QED
          BY <3>2, <4>1, InvalidIsNoId, CreateTyped
      <3>. QED
        BY <2>13, <3>1, <3>2 DEF BatchAdd, Faults
    <2>14. ASSUME NEW c \in Cids, NEW b \in Bids, BatchRun(c, b) PROVE TypeOK'
      <3>1. CASE Abort("not the owner")
        BY <3>1, AbortTyped DEF Faults
      <3>2. CASE ~Abort("not the owner")
        BY <2>14, <3>2 DEF BatchRun, TypeOK, memVars, callVars, CoStates, BatchStates
      <3>. QED
        BY <3>1, <3>2
    <2>15. ASSUME NEW c \in Cids, NEW k \in Keys, LocalSet(c, k) PROVE TypeOK'
      BY <2>15 DEF LocalSet, TypeOK, LocalStates, coVars, batchVars, ctlVars, callVars
    <2>16. CASE UNCHANGED vars
      BY <2>16
      DEF vars, TypeOK, coVars, memVars, batchVars, ctlVars, callVars
    <2>. QED
      BY <2>1, <2>2, <2>3, <2>4, <2>5, <2>6, <2>7, <2>8, <2>9, <2>10, <2>11, <2>12, <2>13,
         <2>14, <2>15, <2>16
      DEF Next, MasterStep, CoroutineStep
  <1>. QED
    BY <1>1, <1>2, PTL DEF Spec
-----------------------------------------------------------------------------
(***************************************************************************)
(* The core invariant survives a switch to a coroutine that may run.       *)
(***************************************************************************)
\* While the master has control no batch is being filled.
LEMMA MasterMeansNoOpenBatch ==
  ASSUME TypeOK, CoreInv, isMasterCoroutine
  PROVE  /\ \A b \in Bids : batchState[b] # "ready"
         /\ \A c \in Cids : isInsertBatch[c] =>
               /\ relateBatchId[c] \in Bids
               /\ batchState[relateBatchId[c]] = "run"
               /\ runBatch[c] = relateBatchId[c]
               /\ relateId[relateBatchId[c]] = c
  <1>1. \A c \in Cids : isInsertBatch[c] =>
               /\ relateBatchId[c] \in Bids
               /\ batchState[relateBatchId[c]] = "run"
               /\ runBatch[c] = relateBatchId[c]
               /\ relateId[relateBatchId[c]] = c
    BY DEF TypeOK, CoreInv, ControlInv, OwnerInv
  <1>2. ASSUME NEW b \in Bids, batchState[b] = "ready" PROVE FALSE
    <2>1. relateId[b] \in Cids /\ isInsertBatch[relateId[b]] /\ relateBatchId[relateId[b]] = b
      BY <1>2 DEF TypeOK, CoreInv, BatchInv
    <2>. QED
      BY <1>1, <1>2, <2>1
  <1>. QED
    BY <1>1, <1>2

LEMMA SwitchKeepsCore ==
  ASSUME TypeOK, CoreInv, NEW c \in Cids, isMasterCoroutine, Resumable(c),
         isInsertBatch[c] => AllFinished(relateBatchId[c]), SwitchTo(c)
  PROVE  CoreInv'
  <1>1. /\ state' = [state EXCEPT ![c] = "run"]
        /\ runningCoroutineId' = c
        /\ isMasterCoroutine' = FALSE
        /\ runBatch' = [runBatch EXCEPT ![c] = INVALID]
        /\ relateId' = relateId
    BY DEF SwitchTo
  <1>2. state[c] # "idle"
    BY DEF Resumable
  <1>3. ControlInv'
    BY <1>1 DEF TypeOK, CoreInv, ControlInv
  <1>4. CASE ~isInsertBatch[c]
    <2>1. UNCHANGED <<batchState, cid2finish, relateBatchId, isInsertBatch>>
      BY <1>4 DEF SwitchTo, CoreInv, SlotInv
    <2>2. SlotInv'
      BY <1>1, <2>1 DEF TypeOK, CoreInv, SlotInv
    <2>3. OwnerInv'
      BY <1>1, <1>4, <2>1 DEF TypeOK, CoreInv, OwnerInv
    <2>4. BatchInv'
      BY <1>1, <2>1 DEF CoreInv, BatchInv
    <2>5. ChildInv'
      BY <1>1, <1>2, <2>1, MasterMeansNoOpenBatch DEF TypeOK, CoreInv, ChildInv
    <2>. QED
      BY <1>3, <2>2, <2>3, <2>4, <2>5 DEF CoreInv
  <1>5. CASE isInsertBatch[c]
    <2>. DEFINE b == relateBatchId[c]
    <2>1. b \in Bids /\ runBatch[c] = b /\ relateId[b] = c /\ runBatch[c] # INVALID
      BY <1>5, MasterMeansNoOpenBatch, InvalidIsNoId
    <2>2. /\ batchState' = [batchState EXCEPT ![b] = "idle"]
          /\ cid2finish' = [cid2finish EXCEPT ![b] = NoChild]
          /\ relateBatchId' = [relateBatchId EXCEPT ![c] = INVALID]
          /\ isInsertBatch' = [isInsertBatch EXCEPT ![c] = FALSE]
      BY <2>1 DEF SwitchTo
    <2>3. \A d \in Cids : cid2finish[b][d] # "running"
      BY <1>5 DEF AllFinished
    <2>4. SlotInv'
      BY <1>1, <2>2 DEF TypeOK, CoreInv, SlotInv
    <2>5. OwnerInv'
      BY <1>1, <2>1, <2>2 DEF TypeOK, CoreInv, OwnerInv
    <2>6. BatchInv'
      BY <1>1, <2>1, <2>2 DEF TypeOK, CoreInv, BatchInv, NoChild
    <2>7. ChildInv'
      <3>. SUFFICES ASSUME NEW x \in Bids, NEW d \in Cids
                    PROVE  /\ cid2finish'[x][d] = "running" <=>
                                state'[d] # "idle" /\ relateBatchId'[d] = x /\ ~isInsertBatch'[d]
                           /\ batchState'[x] = "ready" =>
                                /\ cid2finish'[x][d] # "finished"
                                /\ cid2finish'[x][d] = "running" => state'[d] = "ready"
        BY DEF ChildInv
      <3>1. CASE x = b
        BY <1>1, <2>1, <2>2, <2>3, <3>1, InvalidIsNoId
        DEF TypeOK, CoreInv, ChildInv, NoChild
      <3>2. CASE x # b
        BY <1>1, <1>5, <2>1, <2>2, <3>2, InvalidIsNoId, MasterMeansNoOpenBatch
        DEF TypeOK, CoreInv, ChildInv
      <3>. QED
        BY <3>1, <3>2
    <2>. QED
      BY <1>3, <2>4, <2>5, <2>6, <2>7 DEF CoreInv
  <1>. QED
    BY <1>4, <1>5

\* It survives taking an idle slot, alone or as a child of a batch being filled.
LEMMA CreateKeepsCore ==
  ASSUME TypeOK, CoreInv, NEW c \in Cids, NEW p \in Priorities,
         NEW b \in Bids \cup {INVALID}, state[c] = "idle", CreateIn(c, p, b),
         UNCHANGED <<batchState, relateId, ctlVars>>,
         IF b = INVALID THEN cid2finish' = cid2finish
         ELSE /\ batchState[b] = "ready"
              /\ cid2finish' = [cid2finish EXCEPT ![b][c] = "running"]
  PROVE  CoreInv'
  <1>1. /\ state' = [state EXCEPT ![c] = "ready"]
        /\ relateBatchId' = [relateBatchId EXCEPT ![c] = b]
        /\ isInsertBatch' = [isInsertBatch EXCEPT ![c] = FALSE]
        /\ runBatch' = [runBatch EXCEPT ![c] = INVALID]
        /\ batchState' = batchState /\ relateId' = relateId
        /\ isMasterCoroutine' = isMasterCoroutine
        /\ runningCoroutineId' = runningCoroutineId
    BY DEF CreateIn, ctlVars
  <1>2. ~isInsertBatch[c] /\ relateBatchId[c] = INVALID
    BY DEF CoreInv, SlotInv
  <1>3. ControlInv'
    BY <1>1 DEF TypeOK, CoreInv, ControlInv
  <1>4. SlotInv'
    BY <1>1 DEF TypeOK, CoreInv, SlotInv
  <1>5. OwnerInv'
    BY <1>1 DEF TypeOK, CoreInv, OwnerInv
  <1>6. BatchInv'
    <2>. SUFFICES ASSUME NEW x \in Bids
                  PROVE  /\ batchState[x] # "idle" =>
                              /\ relateId[x] # INVALID
                              /\ isInsertBatch'[relateId[x]]
                              /\ relateBatchId'[relateId[x]] = x
                         /\ batchState[x] = "idle" =>
                              \A d \in Cids : cid2finish'[x][d] = "none"
      BY <1>1 DEF BatchInv
    <2>1. batchState[x] # "idle" => relateId[x] # c
      BY <1>2 DEF CoreInv, BatchInv
    <2>2. batchState[x] = "idle" => cid2finish'[x] = cid2finish[x]
      BY DEF TypeOK
    <2>. QED
      BY <1>1, <2>1, <2>2 DEF TypeOK, CoreInv, BatchInv
  <1>7. ChildInv'
    <2>. SUFFICES ASSUME NEW x \in Bids, NEW d \in Cids
                  PROVE  /\ cid2finish'[x][d] = "running" <=>
                              state'[d] # "idle" /\ relateBatchId'[d] = x /\ ~isInsertBatch'[d]
                         /\ batchState[x] = "ready" =>
                              /\ cid2finish'[x][d] # "finished"
                              /\ cid2finish'[x][d] = "running" => state'[d] = "ready"
      BY <1>1 DEF ChildInv
    <2>1. cid2finish[x][c] # "running"
      BY DEF CoreInv, ChildInv
    <2>2. cid2finish'[x][d] = IF x = b /\ d = c THEN "running" ELSE cid2finish[x][d]
      BY InvalidIsNoId DEF TypeOK
    <2>. QED
      BY <1>1, <2>1, <2>2 DEF TypeOK, CoreInv, ChildInv
  <1>. QED
    BY <1>3, <1>4, <1>5, <1>6, <1>7 DEF CoreInv

\* What the end of a coroutine finds: if it is a child, its batch is at the
\* barrier, so isBatchDone may be asked.
LEMMA FinishFindsBarrier ==
  ASSUME TypeOK, CoreInv, NEW c \in Cids, state[c] = "run", ~isInsertBatch[c],
         relateBatchId[c] # INVALID
  PROVE  /\ relateBatchId[c] \in Bids
         /\ cid2finish[relateBatchId[c]][c] = "running"
         /\ batchState[relateBatchId[c]] = "run"
         /\ relateId[relateBatchId[c]] \in Cids
         /\ isInsertBatch[relateId[relateBatchId[c]]]
         /\ relateBatchId[relateId[relateBatchId[c]]] = relateBatchId[c]
  <1>. DEFINE b == relateBatchId[c]
  <1>1. b \in Bids
    BY DEF TypeOK
  <1>2. cid2finish[b][c] = "running"
    BY <1>1 DEF CoreInv, ChildInv
  <1>3. batchState[b] # "idle"
    BY <1>1, <1>2 DEF CoreInv, BatchInv
  <1>4. batchState[b] # "ready"
    BY <1>1, <1>2 DEF CoreInv, ChildInv
  <1>5. batchState[b] = "run"
    BY <1>1, <1>3, <1>4 DEF TypeOK, BatchStates
  <1>. QED
    BY <1>1, <1>2, <1>5 DEF TypeOK, CoreInv, BatchInv

\* It survives the end of a coroutine.
LEMMA FinishKeepsCore ==
  ASSUME TypeOK, CoreInv, NEW c \in Cids, state[c] = "run", ~isInsertBatch[c],
         ~isMasterCoroutine,
         state' = [state EXCEPT ![c] = "idle"],
         relateBatchId' = [relateBatchId EXCEPT ![c] = INVALID],
         runningCoroutineId' = INVALID, isMasterCoroutine' = TRUE,
         cid2finish' = IF relateBatchId[c] = INVALID THEN cid2finish
                       ELSE [cid2finish EXCEPT ![relateBatchId[c]][c] = "finished"],
         UNCHANGED <<isInsertBatch, runBatch, batchState, relateId>>
  PROVE  CoreInv'
  <1>. DEFINE b == relateBatchId[c]
  <1>1. \A x \in Bids, d \in Cids :
           cid2finish'[x][d] = IF x = b /\ d = c THEN "finished" ELSE cid2finish[x][d]
    BY InvalidIsNoId DEF TypeOK
  <1>2. \A x \in Bids : batchState[x] # "run" => x # b
    BY FinishFindsBarrier, InvalidIsNoId
  <1>3. ControlInv'
    BY DEF TypeOK, CoreInv, ControlInv
  <1>4. SlotInv'
    BY DEF TypeOK, CoreInv, SlotInv
  <1>5. OwnerInv'
    BY DEF TypeOK, CoreInv, OwnerInv
  <1>6. BatchInv'
    <2>. SUFFICES ASSUME NEW x \in Bids
                  PROVE  /\ batchState[x] # "idle" =>
                              /\ relateId[x] # INVALID
                              /\ isInsertBatch[relateId[x]]
                              /\ relateBatchId'[relateId[x]] = x
                         /\ batchState[x] = "idle" =>
                              \A d \in Cids : cid2finish'[x][d] = "none"
      BY DEF BatchInv
    <2>. QED
      BY <1>1, <1>2 DEF TypeOK, CoreInv, BatchInv
  <1>7. ChildInv'
    <2>. SUFFICES ASSUME NEW x \in Bids, NEW d \in Cids
                  PROVE  /\ cid2finish'[x][d] = "running" <=>
                              state'[d] # "idle" /\ relateBatchId'[d] = x /\ ~isInsertBatch[d]
                         /\ batchState[x] = "ready" =>
                              /\ cid2finish'[x][d] # "finished"
                              /\ cid2finish'[x][d] = "running" => state'[d] = "ready"
      BY DEF ChildInv
    <2>. QED
      BY <1>1, <1>2, InvalidIsNoId DEF TypeOK, CoreInv, ChildInv
  <1>. QED
    BY <1>3, <1>4, <1>5, <1>6, <1>7 DEF CoreInv
-----------------------------------------------------------------------------
(***************************************************************************)
(* Each step of a disciplined program keeps the invariant.                 *)
(***************************************************************************)
\* Whoever CoroutineResume picks may run: an owner is only picked when nothing
\* outside a barrier can run, and then its batch is done, since an unfinished
\* child would be such a coroutine.
LEMMA ChosenMayRun ==
  ASSUME TypeOK, CoreInv, isMasterCoroutine, NEW c \in Cids, IsChosen(c)
  PROVE  /\ Resumable(c)
         /\ isInsertBatch[c] => /\ BatchRunning(relateBatchId[c])
                                /\ AllFinished(relateBatchId[c])
  <1>1. c \in Candidates
    BY DEF IsChosen
  <1>2. Resumable(c)
    BY <1>1 DEF Candidates
  <1>3. ASSUME isInsertBatch[c] PROVE BatchRunning(relateBatchId[c])
    BY <1>3, MasterMeansNoOpenBatch DEF BatchRunning
  <1>4. ASSUME isInsertBatch[c],
               NEW d \in Cids, cid2finish[relateBatchId[c]][d] = "running"
        PROVE  FALSE
    <2>1. relateBatchId[c] \in Bids
      BY <1>4, MasterMeansNoOpenBatch
    <2>2. state[d] # "idle" /\ state[d] # "run" /\ ~isInsertBatch[d]
      BY <1>4, <2>1 DEF CoreInv, ChildInv, ControlInv
    <2>3. Resumable(d)
      BY <2>2 DEF TypeOK, CoStates, Resumable
    <2>. QED
      BY <1>1, <1>4, <2>2, <2>3 DEF Candidates
  <1>. QED
    BY <1>2, <1>3, <1>4 DEF AllFinished

LEMMA ResumeKeeps ==
  ASSUME Disciplined, TypeOK, IInv, Resume PROVE IInv'
  <1>. PICK c \in Cids :
         /\ IsChosen(c)
         /\ IF isInsertBatch[c] /\ ~BatchRunning(relateBatchId[c])
            THEN Abort("batch not run")
            ELSE IF isInsertBatch[c] /\ ~AllFinished(relateBatchId[c])
            THEN Abort("batch not done")
            ELSE /\ SwitchTo(c)
                 /\ UNCHANGED <<batchFinishList, callVars>>
    BY DEF Resume
  <1>1. isMasterCoroutine /\ inBatch = INVALID /\ "ResumeBatchFinish" \notin MasterCalls
    BY DEF Resume, MasterFree, Disciplined
  <1>2. /\ Resumable(c)
        /\ isInsertBatch[c] => AllFinished(relateBatchId[c])
        /\ SwitchTo(c)
        /\ UNCHANGED callVars
    BY <1>1, ChosenMayRun DEF IInv
  <1>3. CoreInv'
    BY <1>1, <1>2, SwitchKeepsCore DEF IInv
  <1>. QED
    BY <1>1, <1>2, <1>3 DEF IInv, ListInv, CallInv, callVars, SwitchTo

\* A coroutine that is no owner is resumed: nothing about batches changes.
LEMMA SwitchToFree ==
  ASSUME CoreInv, NEW c \in Cids, ~isInsertBatch[c], SwitchTo(c)
  PROVE  UNCHANGED <<batchState, cid2finish, relateBatchId, isInsertBatch>>
  BY DEF SwitchTo, CoreInv, SlotInv

\* The announced owners stay what they are while their batches do.
LEMMA ListKept ==
  ASSUME ListInv, UNCHANGED <<batchState, cid2finish, relateBatchId, isInsertBatch,
                              batchFinishList>>
  PROVE  ListInv'
  BY DEF ListInv, Announced, AllFinished

LEMMA ResumeByIdKeeps ==
  ASSUME Disciplined, TypeOK, IInv, NEW c \in Cids, ResumeById(c) PROVE IInv'
  <1>1. isMasterCoroutine /\ inBatch = INVALID /\ Resumable(c)
    BY DEF ResumeById, MasterFree
  <1>2. isInsertBatch[c] => BatchRunning(relateBatchId[c])
    BY <1>1, MasterMeansNoOpenBatch DEF IInv, BatchRunning
  <1>3. /\ isInsertBatch[c] => AllFinished(relateBatchId[c])
        /\ SwitchTo(c)
        /\ UNCHANGED <<batchFinishList, callVars>>
    BY <1>2 DEF ResumeById
  <1>4. CoreInv'
    BY <1>1, <1>3, SwitchKeepsCore DEF IInv
  <1>5. ListInv'
    <2>1. CASE "ResumeBatchFinish" \notin MasterCalls
      BY <2>1 DEF ListInv
    <2>2. CASE "ResumeBatchFinish" \in MasterCalls
      <3>1. ~isInsertBatch[c]
        BY <2>2 DEF Disciplined, ResumeById
      <3>. QED
        BY <1>3, <3>1, SwitchToFree, ListKept DEF IInv
    <2>. QED
      BY <2>1, <2>2
  <1>. QED
    BY <1>1, <1>3, <1>4, <1>5 DEF IInv, CallInv, callVars, SwitchTo

LEMMA ResumeInBatchKeeps ==
  ASSUME Disciplined, TypeOK, IInv, NEW id \in Cids, ResumeInBatch(id) PROVE IInv'
  <1>. DEFINE b == relateBatchId[id]
  <1>1. isMasterCoroutine /\ isInsertBatch[id] /\ "BeforeFinish" \in Rules
    BY DEF ResumeInBatch, MasterFree, Disciplined
  <1>2. b \in Bids /\ batchState[b] = "run"
    BY <1>1, MasterMeansNoOpenBatch DEF IInv
  <1>3. /\ inBatch' = b /\ todo' = Children(b)
        /\ \A c \in Cids : cid2finish[b][c] # "finished"
        /\ UNCHANGED <<coVars, batchVars, ctlVars, batchFinishList, fault>>
    BY <1>1 DEF ResumeInBatch
  <1>4. \A c \in todo' : c \in Cids /\ cid2finish[b][c] = "running"
    BY <1>2, <1>3 DEF Children, TypeOK, ChildStates
  <1>5. CoreInv'
    BY <1>3 DEF IInv, CoreInv, ControlInv, SlotInv, OwnerInv, BatchInv, ChildInv,
                coVars, batchVars, ctlVars
  <1>6. ListInv'
    BY <1>3, ListKept DEF IInv, coVars, batchVars
  <1>7. CallInv'
    BY <1>1, <1>2, <1>3, <1>4 DEF CallInv, batchVars, ctlVars
  <1>. QED
    BY <1>3, <1>5, <1>6, <1>7 DEF IInv

LEMMA ResumeInBatchNextKeeps ==
  ASSUME Disciplined, TypeOK, IInv, NEW c \in Cids, ResumeInBatchNext(c) PROVE IInv'
  <1>1. /\ isMasterCoroutine /\ inBatch \in Bids /\ inBatch # INVALID /\ c \in todo
        /\ cid2finish[inBatch][c] = "running"
        /\ batchState[inBatch] = "run"
    BY DEF ResumeInBatchNext, IInv, CallInv, TypeOK
  <1>2. state[c] \in {"ready", "suspend"} /\ ~isInsertBatch[c]
    BY <1>1 DEF IInv, CoreInv, ChildInv, ControlInv, TypeOK, CoStates
  <1>3. /\ SwitchTo(c)
        /\ todo' = todo \ {c}
        /\ inBatch' = IF todo = {c} THEN INVALID ELSE inBatch
        /\ UNCHANGED <<batchFinishList, draining>>
    BY <1>1, <1>2 DEF ResumeInBatchNext, Resumes, Resumable
  <1>4. CoreInv'
    BY <1>1, <1>2, <1>3, SwitchKeepsCore DEF IInv, Resumable
  <1>5. UNCHANGED <<batchState, cid2finish, relateBatchId, isInsertBatch>>
    BY <1>2, <1>3, SwitchToFree DEF IInv
  <1>6. ListInv'
    BY <1>3, <1>5, ListKept DEF IInv
  <1>7. CallInv'
    BY <1>1, <1>3, <1>5 DEF IInv, CallInv, SwitchTo
  <1>. QED
    BY <1>3, <1>4, <1>6, <1>7 DEF IInv, SwitchTo

\* The owner at the head of batchFinishList can be resumed, and is not in the
\* rest of the list, so what is announced after it stays announced.
LEMMA ResumeBatchFinishKeeps ==
  ASSUME Disciplined, TypeOK, IInv, ResumeBatchFinish PROVE IInv'
  <1>. DEFINE L == batchFinishList
              c == Head(batchFinishList)
              \* Announced(a) in the next state, for an a of this one
              After(a) == /\ a \in Cids
                          /\ isInsertBatch'[a]
                          /\ batchState'[relateBatchId'[a]] = "run"
                          /\ \A d \in Cids : cid2finish'[relateBatchId'[a]][d] # "running"
  <1>1. /\ isMasterCoroutine /\ inBatch = INVALID
        /\ "ResumeBatchFinish" \in MasterCalls
        /\ L # <<>> /\ L \in Seq(Cids)
    BY DEF ResumeBatchFinish, TypeOK
  <1>2. /\ Tail(L) \in Seq(Cids) /\ Len(Tail(L)) = Len(L) - 1 /\ Len(L) \in Nat
        /\ \A i \in 1..Len(Tail(L)) : Tail(L)[i] = L[i + 1]
    BY <1>1, HeadTailProperties, LenProperties
  <1>3. Len(L) >= 1 /\ c = L[1]
    BY <1>1, EmptySeq
  <1>4. c \in Cids /\ Announced(c)
    BY <1>1, <1>2, <1>3 DEF IInv, ListInv, Announced
  <1>5. /\ relateBatchId[c] \in Bids
        /\ relateId[relateBatchId[c]] = c
        /\ state[c] = "suspend"
        /\ runBatch[c] = relateBatchId[c]
    BY <1>4 DEF IInv, CoreInv, OwnerInv, TypeOK, Announced
  <1>6. /\ SwitchTo(c)
        /\ batchFinishList' = Tail(L)
        /\ UNCHANGED <<inBatch, todo>>
    BY <1>4, <1>5 DEF ResumeBatchFinish, Announced, Resumes, Resumable, BatchRunning
  <1>7. CoreInv'
    BY <1>1, <1>4, <1>5, <1>6, SwitchKeepsCore DEF IInv, Resumable, Announced
  <1>8. ASSUME NEW a \in Cids, a # c, Announced(a) PROVE After(a)
    <2>1. relateBatchId[a] \in Bids /\ relateBatchId[a] # relateBatchId[c]
      BY <1>5, <1>8 DEF IInv, CoreInv, OwnerInv, TypeOK, Announced
    <2>2. /\ batchState' = [batchState EXCEPT ![relateBatchId[c]] = "idle"]
          /\ cid2finish' = [cid2finish EXCEPT ![relateBatchId[c]] = NoChild]
          /\ relateBatchId' = [relateBatchId EXCEPT ![c] = INVALID]
          /\ isInsertBatch' = [isInsertBatch EXCEPT ![c] = FALSE]
      BY <1>5, <1>6, InvalidIsNoId DEF SwitchTo
    <2>3. relateBatchId'[a] = relateBatchId[a] /\ isInsertBatch'[a]
      BY <1>4, <1>8, <2>2 DEF TypeOK, Announced
    <2>4. /\ batchState'[relateBatchId[a]] = "run"
          /\ \A d \in Cids : cid2finish'[relateBatchId[a]][d] # "running"
      BY <1>5, <1>8, <2>1, <2>2 DEF TypeOK, Announced, AllFinished
    <2>. QED
      BY <2>3, <2>4
  <1>9. ListInv'
    <2>1. \A i \in 1..Len(Tail(L)) : i + 1 \in 1..Len(L) /\ i + 1 # 1 /\ 1 \in 1..Len(L)
      BY <1>2, <1>3
    <2>2. \A i \in 1..Len(Tail(L)) : Announced(L[i + 1]) /\ L[i + 1] # c /\ L[i + 1] \in Cids
      BY <1>1, <1>3, <2>1 DEF IInv, ListInv, Announced
    <2>3. \A i \in 1..Len(Tail(L)) : After(Tail(L)[i])
      BY <1>2, <1>8, <2>2
    <2>4. \A i, j \in 1..Len(Tail(L)) : Tail(L)[i] = Tail(L)[j] => i = j
      BY <1>1, <1>2, <2>1 DEF IInv, ListInv
    <2>. QED
      BY <1>6, <2>3, <2>4 DEF ListInv, Announced, AllFinished
  <1>. QED
    BY <1>1, <1>6, <1>7, <1>9 DEF IInv, CallInv, SwitchTo

LEMMA CreateKeeps ==
  ASSUME TypeOK, IInv, NEW p \in Priorities, Create(p) PROVE IInv'
  <1>. PICK c \in Cids : IsFirstIdle(c) /\ CreateIn(c, p, INVALID)
    BY DEF Create
  <1>1. UNCHANGED <<batchState, relateId, cid2finish, ctlVars, batchFinishList, inBatch,
                    todo, fault>>
    BY DEF Create, batchVars, callVars
  <1>2. state[c] = "idle" /\ ~isInsertBatch[c]
    BY DEF IsFirstIdle, IInv, CoreInv, SlotInv
  <1>3. CoreInv'
    BY <1>1, <1>2, CreateKeepsCore DEF IInv
  <1>4. ListInv'
    BY <1>1, <1>2 DEF IInv, ListInv, Announced, AllFinished, CreateIn, TypeOK
  <1>5. CallInv'
    BY <1>1 DEF IInv, CallInv, ctlVars
  <1>. QED
    BY <1>1, <1>3, <1>4, <1>5 DEF IInv

LEMMA YieldKeeps ==
  ASSUME Disciplined, TypeOK, IInv, NEW c \in Cids, Yield(c) PROVE IInv'
  <1>1. /\ ~isMasterCoroutine /\ runningCoroutineId = c /\ ~isInsertBatch[c]
        /\ state[c] = "run"
    BY DEF Yield, Running, Disciplined, IInv, CoreInv, ControlInv
  <1>2. /\ state' = [state EXCEPT ![c] = "suspend"]
        /\ isMasterCoroutine' = TRUE
        /\ UNCHANGED <<relateBatchId, isInsertBatch, runBatch, batchState, relateId,
                       cid2finish, runningCoroutineId, batchFinishList, inBatch, todo, fault>>
    BY DEF Yield, batchVars, callVars
  <1>3. CoreInv'
    <2>1. ControlInv' /\ SlotInv' /\ OwnerInv'
      BY <1>1, <1>2 DEF TypeOK, IInv, CoreInv, ControlInv, SlotInv, OwnerInv
    <2>2. BatchInv' /\ ChildInv'
      BY <1>1, <1>2 DEF TypeOK, IInv, CoreInv, BatchInv, ChildInv
    <2>. QED
      BY <2>1, <2>2 DEF CoreInv
  <1>4. ListInv'
    BY <1>2, ListKept DEF IInv
  <1>5. CallInv'
    BY <1>2 DEF IInv, CallInv
  <1>. QED
    BY <1>2, <1>3, <1>4, <1>5 DEF IInv

\* The last child to return announces its owner, which was not announced
\* before because that child was unfinished.
LEMMA FinishKeeps ==
  ASSUME Disciplined, TypeOK, IInv, NEW c \in Cids, Finish(c) PROVE IInv'
  <1>. DEFINE b == relateBatchId[c]
              L == batchFinishList
              \* Announced(a) in the next state, for an a of this one
              After(a) == /\ a \in Cids
                          /\ isInsertBatch'[a]
                          /\ batchState'[relateBatchId'[a]] = "run"
                          /\ \A d \in Cids : cid2finish'[relateBatchId'[a]][d] # "running"
  <1>1. /\ ~isMasterCoroutine /\ runningCoroutineId = c /\ ~isInsertBatch[c]
        /\ state[c] = "run"
    BY DEF Finish, Running, Disciplined, IInv, CoreInv, ControlInv
  <1>2. b # INVALID => /\ b \in Bids
                       /\ cid2finish[b][c] = "running"
                       /\ batchState[b] = "run"
                       /\ relateId[b] \in Cids
                       /\ isInsertBatch[relateId[b]]
                       /\ relateBatchId[relateId[b]] = b
    BY <1>1, FinishFindsBarrier DEF IInv
  <1>3. /\ state' = [state EXCEPT ![c] = "idle"]
        /\ relateBatchId' = [relateBatchId EXCEPT ![c] = INVALID]
        /\ runningCoroutineId' = INVALID
        /\ isMasterCoroutine' = TRUE
        /\ cid2finish' = IF b = INVALID THEN cid2finish
                         ELSE [cid2finish EXCEPT ![b][c] = "finished"]
        /\ L' = IF b # INVALID /\ LastChild(b, c) THEN Append(L, relateId[b]) ELSE L
        /\ UNCHANGED <<isInsertBatch, runBatch, batchState, relateId, inBatch, todo, fault>>
    BY <1>2 DEF Finish, BatchRunning, callVars
  <1>4. CoreInv'
    BY <1>1, <1>3, FinishKeepsCore DEF IInv
  <1>5. \A x \in Bids, d \in Cids :
           cid2finish'[x][d] = IF x = b /\ d = c THEN "finished" ELSE cid2finish[x][d]
    BY <1>3, InvalidIsNoId DEF TypeOK
  <1>6. \A a \in Cids : Announced(a) => After(a) /\ relateBatchId[a] # b
    <2>. SUFFICES ASSUME NEW a \in Cids, Announced(a)
                  PROVE  After(a) /\ relateBatchId[a] # b
      OBVIOUS
    <2>1. a # c /\ relateBatchId[a] \in Bids
      BY <1>1 DEF Announced, IInv, CoreInv, OwnerInv, TypeOK
    <2>2. relateBatchId'[a] = relateBatchId[a] /\ isInsertBatch'[a]
      BY <1>3, <2>1 DEF Announced, TypeOK
    <2>3. \A d \in Cids : cid2finish'[relateBatchId[a]][d] # "running"
      BY <1>5, <2>1 DEF Announced, AllFinished
    <2>4. relateBatchId[a] # b
      BY <1>2, <2>1, InvalidIsNoId DEF Announced, AllFinished
    <2>. QED
      BY <1>3, <2>1, <2>2, <2>3, <2>4 DEF Announced
  <1>7. ListInv'
    <2>1. CASE ~(b # INVALID /\ LastChild(b, c))
      BY <1>3, <1>6, <2>1 DEF IInv, ListInv, Announced, AllFinished
    <2>2. CASE b # INVALID /\ LastChild(b, c)
      <3>. DEFINE o == relateId[b]
      <3>1. L \in Seq(Cids) /\ Len(L) \in Nat
        BY DEF TypeOK
      <3>2. /\ L' = Append(L, o) /\ Len(L') = Len(L) + 1
            /\ L'[Len(L) + 1] = o
            /\ \A i \in 1..Len(L) : L'[i] = L[i]
        BY <1>2, <1>3, <2>2, <3>1
      <3>3. After(o)
        <4>1. o # c
          BY <1>1, <1>2, <2>2
        <4>2. relateBatchId'[o] = b /\ isInsertBatch'[o] /\ batchState'[b] = "run"
          <5>1. o \in Cids /\ relateBatchId[o] = b /\ isInsertBatch[o] /\ batchState[b] = "run"
            BY <1>2, <2>2
          <5>. QED
            BY <1>3, <4>1, <5>1 DEF TypeOK
        <4>3. \A d \in Cids : cid2finish'[b][d] # "running"
          BY <1>2, <1>5, <2>2 DEF LastChild
        <4>. QED
          BY <1>2, <2>2, <4>2, <4>3
      <3>4. "ResumeBatchFinish" \in MasterCalls =>
               \A i \in 1..Len(L) : After(L[i]) /\ L[i] # o
        BY <1>2, <1>6, <2>2 DEF IInv, ListInv, Announced
      <3>5. \A i \in 1..Len(L') : i \in 1..Len(L) \/ i = Len(L) + 1
        BY <3>1, <3>2
      <3>6. "ResumeBatchFinish" \in MasterCalls => \A i \in 1..Len(L') : After(L'[i])
        BY <3>2, <3>3, <3>4, <3>5
      <3>7. "ResumeBatchFinish" \in MasterCalls =>
               \A i, j \in 1..Len(L') : L'[i] = L'[j] => i = j
        BY <3>2, <3>4, <3>5 DEF IInv, ListInv
      <3>. QED
        BY <3>6, <3>7 DEF ListInv, Announced, AllFinished
    <2>. QED
      BY <2>1, <2>2
  <1>8. CallInv'
    <2>. SUFFICES ASSUME inBatch # INVALID PROVE CallInv'
      BY <1>3 DEF CallInv
    <2>1. c \notin todo /\ inBatch \in Bids /\ todo \subseteq Cids
      BY <1>1 DEF IInv, CallInv, TypeOK
    <2>. QED
      BY <1>3, <1>5, <2>1 DEF IInv, CallInv
  <1>. QED
    BY <1>3, <1>4, <1>7, <1>8 DEF IInv

LEMMA BatchInitKeeps ==
  ASSUME Disciplined, TypeOK, IInv, NEW c \in Cids, BatchInit(c) PROVE IInv'
  <1>. PICK b \in Bids :
         /\ IsFirstIdleBatch(b)
         /\ batchState' = [batchState EXCEPT ![b] = "ready"]
         /\ relateId' = [relateId EXCEPT ![b] = c]
         /\ relateBatchId' = [relateBatchId EXCEPT ![c] = b]
         /\ isInsertBatch' = [isInsertBatch EXCEPT ![c] = TRUE]
    BY DEF BatchInit
  <1>1. /\ ~isMasterCoroutine /\ runningCoroutineId = c /\ state[c] = "run"
        /\ relateBatchId[c] = INVALID /\ batchState[b] = "idle"
        /\ UNCHANGED <<state, runBatch, cid2finish, ctlVars, batchFinishList, inBatch,
                       todo, fault>>
    BY DEF BatchInit, Running, Disciplined, IsInBatch, IsFirstIdleBatch, callVars,
           IInv, CoreInv, ControlInv
  <1>2. ~isInsertBatch[c] /\ runBatch[c] = INVALID
    BY <1>1 DEF IInv, CoreInv, OwnerInv, SlotInv
  <1>3. \A d \in Cids : cid2finish[b][d] = "none" /\ relateBatchId[d] # b
    BY <1>1 DEF IInv, CoreInv, BatchInv, OwnerInv, ChildInv, SlotInv
  <1>4. CoreInv'
    <2>1. ControlInv' /\ SlotInv'
      BY <1>1, <1>2 DEF TypeOK, IInv, CoreInv, ControlInv, SlotInv, ctlVars
    <2>2. OwnerInv'
      BY <1>1, <1>2, <1>3, InvalidIsNoId DEF TypeOK, IInv, CoreInv, OwnerInv
    <2>3. BatchInv'
      BY <1>1, <1>2, <1>3, InvalidIsNoId DEF TypeOK, IInv, CoreInv, BatchInv
    <2>4. ChildInv'
      BY <1>1, <1>2, <1>3, InvalidIsNoId DEF TypeOK, IInv, CoreInv, ChildInv
    <2>. QED
      BY <2>1, <2>2, <2>3, <2>4 DEF CoreInv
  <1>5. ListInv'
    BY <1>1, <1>2, <1>3 DEF TypeOK, IInv, ListInv, Announced, AllFinished
  <1>6. CallInv'
    BY <1>1 DEF TypeOK, IInv, CallInv, ctlVars
  <1>. QED
    BY <1>1, <1>4, <1>5, <1>6 DEF IInv

LEMMA BatchAddKeeps ==
  ASSUME Disciplined, TypeOK, IInv, NEW c \in Cids, NEW b \in Bids,
         NEW p \in Priorities, BatchAdd(c, b, p)
  PROVE  IInv'
  <1>1. batchState[b] = "ready" /\ relateId[b] = c /\ CanCreate
    BY DEF BatchAdd, Disciplined
  <1>. PICK d \in Cids : /\ IsFirstIdle(d)
                         /\ CreateIn(d, p, b)
                         /\ cid2finish' = [cid2finish EXCEPT ![b][d] = "running"]
    BY <1>1 DEF BatchAdd
  <1>2. UNCHANGED <<batchState, relateId, ctlVars, batchFinishList, inBatch, todo, fault>>
    BY <1>1 DEF BatchAdd, callVars
  <1>3. state[d] = "idle" /\ ~isInsertBatch[d]
    BY DEF IsFirstIdle, IInv, CoreInv, SlotInv
  <1>4. CoreInv'
    BY <1>1, <1>2, <1>3, InvalidIsNoId, CreateKeepsCore DEF IInv
  <1>5. ListInv'
    BY <1>1, <1>2, <1>3 DEF TypeOK, IInv, ListInv, Announced, AllFinished, CreateIn
  <1>6. CallInv'
    BY <1>1, <1>2 DEF TypeOK, IInv, CallInv, ctlVars
  <1>. QED
    BY <1>2, <1>4, <1>5, <1>6 DEF IInv

LEMMA BatchRunKeeps ==
  ASSUME Disciplined, TypeOK, IInv, NEW c \in Cids, NEW b \in Bids, BatchRun(c, b)
  PROVE  IInv'
  <1>1. /\ ~isMasterCoroutine /\ runningCoroutineId = c /\ state[c] = "run"
        /\ batchState[b] = "ready" /\ relateId[b] = c
        /\ batchState' = [batchState EXCEPT ![b] = "run"]
        /\ runBatch' = [runBatch EXCEPT ![c] = b]
        /\ state' = [state EXCEPT ![c] = "suspend"]
        /\ isMasterCoroutine' = TRUE
        /\ UNCHANGED <<relateBatchId, isInsertBatch, relateId, cid2finish,
                       runningCoroutineId, batchFinishList, inBatch, todo, fault>>
    BY DEF BatchRun, Running, Disciplined, callVars, IInv, CoreInv, ControlInv
  <1>2. isInsertBatch[c] /\ relateBatchId[c] = b
    BY <1>1 DEF IInv, CoreInv, BatchInv
  <1>3. CoreInv'
    <2>1. ControlInv' /\ SlotInv'
      BY <1>1, <1>2 DEF TypeOK, IInv, CoreInv, ControlInv, SlotInv
    <2>2. OwnerInv'
      BY <1>1, <1>2 DEF TypeOK, IInv, CoreInv, OwnerInv
    <2>3. BatchInv'
      BY <1>1 DEF TypeOK, IInv, CoreInv, BatchInv
    <2>4. ChildInv'
      BY <1>1, <1>2 DEF TypeOK, IInv, CoreInv, ChildInv
    <2>. QED
      BY <2>1, <2>2, <2>3, <2>4 DEF CoreInv
  <1>4. ListInv'
    BY <1>1 DEF TypeOK, IInv, ListInv, Announced, AllFinished
  <1>5. CallInv'
    BY <1>1 DEF TypeOK, IInv, CallInv
  <1>. QED
    BY <1>1, <1>3, <1>4, <1>5 DEF IInv

\* The other steps touch nothing the invariant speaks of.
LEMMA OtherStepKeeps ==
  ASSUME IInv,
         UNCHANGED <<coVars, batchVars, ctlVars, batchFinishList, inBatch, todo, fault>>
  PROVE  IInv'
  BY DEF IInv, CoreInv, ControlInv, SlotInv, OwnerInv, BatchInv, ChildInv, ListInv,
         Announced, AllFinished, CallInv, coVars, batchVars, ctlVars
-----------------------------------------------------------------------------
\* The inductive invariant holds in every run of a disciplined program.
THEOREM Invariance == ASSUME Disciplined PROVE Spec => []IInv
  <1>1. Init => IInv
    BY InvalidIsNoId
    DEF Init, IInv, CoreInv, ControlInv, SlotInv, OwnerInv, BatchInv, ChildInv, ListInv,
        CallInv, NoChild
  <1>2. TypeOK /\ IInv /\ [Next]_vars => IInv'
    <2>. SUFFICES ASSUME TypeOK, IInv, [Next]_vars PROVE IInv'
      OBVIOUS
    <2>1. CASE MasterStep
      <3>1. CASE Resume
        BY <3>1, ResumeKeeps
      <3>2. CASE \E c \in Cids : ResumeById(c) \/ ResumeInBatch(c) \/ ResumeInBatchNext(c)
        BY <3>2, ResumeByIdKeeps, ResumeInBatchKeeps, ResumeInBatchNextKeeps
      <3>3. CASE ResumeBatchFinish
        BY <3>3, ResumeBatchFinishKeeps
      <3>4. CASE ResumeBatchFinishReturn
        BY <3>4, OtherStepKeeps DEF ResumeBatchFinishReturn
      <3>5. CASE \E pct \in PctValues : TryReleaseMemory(pct)
        BY <3>5, OtherStepKeeps DEF TryReleaseMemory, callVars
      <3>6. CASE ScheduleClean
        BY <3>6, OtherStepKeeps DEF ScheduleClean, callVars
      <3>. QED
        BY <2>1, <3>1, <3>2, <3>3, <3>4, <3>5, <3>6 DEF MasterStep
    <2>2. ASSUME NEW c \in Cids, CoroutineStep(c) PROVE IInv'
      <3>1. CASE Yield(c)
        BY <3>1, YieldKeeps
      <3>2. CASE Finish(c)
        BY <3>2, FinishKeeps
      <3>3. CASE BatchInit(c)
        BY <3>3, BatchInitKeeps
      <3>4. CASE \E b \in Bids : BatchRun(c, b) \/ \E p \in Priorities : BatchAdd(c, b, p)
        BY <3>4, BatchRunKeeps, BatchAddKeeps
      <3>5. CASE \E k \in Keys : LocalSet(c, k)
        BY <3>5, OtherStepKeeps DEF LocalSet, callVars
      <3>. QED
        BY <2>2, <3>1, <3>2, <3>3, <3>4, <3>5 DEF CoroutineStep
    <2>3. CASE \E p \in Priorities : Create(p)
      BY <2>3, CreateKeeps
    <2>4. CASE UNCHANGED vars
      BY <2>4, OtherStepKeeps DEF vars, callVars
    <2>. QED
      BY <2>1, <2>2, <2>3, <2>4 DEF Next
  <1>. QED
    BY <1>1, <1>2, TypeCorrect, PTL DEF Spec

\* No assertion of the scheduler fails in a disciplined program.
THEOREM NoAssertionFails == ASSUME Disciplined PROVE Spec => []NoAssertFails
  <1>1. IInv => NoAssertFails
    BY DEF IInv, NoAssertFails
  <1>. QED
    BY <1>1, Invariance, PTL

\* The maps of the batches name exactly the children that have not returned.
THEOREM AccountsAreExact == ASSUME Disciplined PROVE Spec => []BatchAccounting
  <1>1. IInv => BatchAccounting
    BY DEF IInv, CoreInv, BatchInv, ChildInv, BatchAccounting, Children
  <1>. QED
    BY <1>1, Invariance, PTL

\* A child never runs beside its owner.
THEOREM OwnersAreParked == ASSUME Disciplined PROVE Spec => []OwnerParked
  <1>1. TypeOK /\ IInv => OwnerParked
    <2>. SUFFICES ASSUME TypeOK, IInv, NEW c \in Cids, relateBatchId[c] # INVALID,
                         ~isInsertBatch[c], state[c] \in {"run", "suspend"}
                  PROVE  /\ state[relateId[relateBatchId[c]]] = "suspend"
                         /\ runBatch[relateId[relateBatchId[c]]] = relateBatchId[c]
      BY DEF OwnerParked
    <2>. DEFINE b == relateBatchId[c]
    <2>1. b \in Bids
      BY DEF TypeOK
    <2>2. cid2finish[b][c] = "running"
      BY <2>1 DEF IInv, CoreInv, ChildInv
    <2>3. batchState[b] # "idle" /\ batchState[b] # "ready"
      BY <2>1, <2>2 DEF IInv, CoreInv, BatchInv, ChildInv
    <2>4. relateId[b] \in Cids /\ isInsertBatch[relateId[b]] /\ relateBatchId[relateId[b]] = b
      BY <2>1, <2>3 DEF TypeOK, IInv, CoreInv, BatchInv
    <2>. QED
      BY <2>3, <2>4 DEF IInv, CoreInv, OwnerInv
  <1>. QED
    BY <1>1, Invariance, TypeCorrect, PTL

\* BatchRun comes back only when every child has finished: of the steps of the
\* program only a switch to an owner takes a batch out of state run.
THEOREM BarrierTheorem == ASSUME Disciplined PROVE Spec => BarrierHolds
  <1>. DEFINE Holds == \A b \in Bids : batchState[b] = "run" /\ batchState'[b] # "run" =>
                          \A c \in Cids : cid2finish[b][c] # "running"
  <1>1. TypeOK /\ IInv /\ [Next]_vars => Holds
    <2>. SUFFICES ASSUME TypeOK, IInv, [Next]_vars,
                         NEW b \in Bids, batchState[b] = "run", batchState'[b] # "run"
                  PROVE  AllFinished(b)
      BY DEF AllFinished
    <2>1. ASSUME NEW c \in Cids, isMasterCoroutine, SwitchTo(c),
                 isInsertBatch[c] => AllFinished(relateBatchId[c])
          PROVE  AllFinished(b)
      <3>1. runBatch[c] = b
        <4>1. runBatch[c] # INVALID
          BY <2>1 DEF SwitchTo
        <4>2. batchState' = [batchState EXCEPT ![runBatch[c]] = "idle"]
          BY <2>1, <4>1 DEF SwitchTo
        <4>. QED
          BY <4>2 DEF TypeOK
      <3>2. isInsertBatch[c]
        BY <3>1, InvalidIsNoId DEF IInv, CoreInv, SlotInv
      <3>3. relateBatchId[c] = b
        BY <2>1, <3>1, <3>2, MasterMeansNoOpenBatch DEF IInv
      <3>. QED
        BY <2>1, <3>2, <3>3
    <2>2. CASE Resume
      <3>. PICK c \in Cids : /\ IsChosen(c)
                             /\ isMasterCoroutine
                             /\ SwitchTo(c) \/ UNCHANGED batchVars
        BY <2>2 DEF Resume, MasterFree, Abort
      <3>1. SwitchTo(c)
        BY DEF batchVars
      <3>. QED
        BY <2>1, <3>1, ChosenMayRun DEF IInv
    <2>3. CASE \E c \in Cids : ResumeById(c)
      <3>. PICK c \in Cids : ResumeById(c)
        BY <2>3
      <3>1. /\ isMasterCoroutine /\ SwitchTo(c)
            /\ isInsertBatch[c] => AllFinished(relateBatchId[c])
        BY DEF ResumeById, MasterFree, Abort, batchVars
      <3>. QED
        BY <2>1, <3>1
    <2>4. CASE \E c \in Cids : ResumeInBatchNext(c)
      <3>. PICK c \in Cids : ResumeInBatchNext(c)
        BY <2>4
      <3>1. /\ isMasterCoroutine /\ SwitchTo(c)
            /\ isInsertBatch[c] => AllFinished(relateBatchId[c])
        BY DEF ResumeInBatchNext, Resumes, Abort, batchVars
      <3>. QED
        BY <2>1, <3>1
    <2>5. CASE ResumeBatchFinish
      <3>1. Head(batchFinishList) \in Cids
        BY <2>5, HeadTailProperties DEF ResumeBatchFinish, TypeOK
      <3>. DEFINE c == Head(batchFinishList)
      <3>2. /\ isMasterCoroutine /\ SwitchTo(c)
            /\ isInsertBatch[c] => AllFinished(relateBatchId[c])
        BY <2>5 DEF ResumeBatchFinish, Resumes, Abort, batchVars
      <3>. QED
        BY <2>1, <3>1, <3>2
    <2>6. CASE \E c \in Cids : BatchInit(c)
      BY <2>6 DEF BatchInit, IsFirstIdleBatch, TypeOK
    <2>7. CASE \E c \in Cids, x \in Bids : BatchRun(c, x)
      <3>. PICK c \in Cids, x \in Bids : BatchRun(c, x)
        BY <2>7
      <3>1. batchState' = batchState \/ batchState' = [batchState EXCEPT ![x] = "run"]
        BY DEF BatchRun, Abort, batchVars
      <3>. QED
        BY <3>1 DEF TypeOK
    <2>8. \/ batchState' = batchState
          \/ Resume
          \/ \E c \in Cids : ResumeById(c) \/ ResumeInBatchNext(c)
          \/ ResumeBatchFinish
          \/ \E c \in Cids : BatchInit(c) \/ \E x \in Bids : BatchRun(c, x)
      <3>1. CASE MasterStep
        BY <3>1 DEF MasterStep, ResumeInBatch, ResumeBatchFinishReturn, TryReleaseMemory,
                    ScheduleClean, batchVars
      <3>2. CASE \E c \in Cids : CoroutineStep(c)
        <4>. PICK c \in Cids : CoroutineStep(c)
          BY <3>2
        <4>1. CASE \E x \in Bids, p \in Priorities : BatchAdd(c, x, p)
          BY <4>1 DEF BatchAdd, Abort, batchVars
        <4>2. CASE Finish(c)
          BY <4>2 DEF Finish, Abort, batchVars
        <4>. QED
          BY <4>1, <4>2 DEF CoroutineStep, Yield, LocalSet, batchVars
      <3>3. CASE \E p \in Priorities : Create(p)
        BY <3>3 DEF Create, batchVars
      <3>. QED
        BY <3>1, <3>2, <3>3 DEF Next, vars, batchVars
    <2>. QED
      BY <2>2, <2>3, <2>4, <2>5, <2>6, <2>7, <2>8
  <1>2. TypeOK /\ IInv /\ [Next]_vars => [Holds]_vars
    BY <1>1
  <1>. QED
    BY <1>2, Invariance, TypeCorrect, PTL DEF Spec, BarrierHolds

-----------------------------------------------------------------------------
(***************************************************************************)
(* Batches implement ForkJoin.                                             *)
(***************************************************************************)
\* A forked coroutine is an unfinished child in the map of its parent's batch.
LEMMA ChildOfBatch ==
  ASSUME TypeOK, IInv, NEW d \in Cids, ForkedBy[d] # INVALID
  PROVE  LET b == relateBatchId[d] IN
         /\ state[d] # "idle" /\ b \in Bids
         /\ cid2finish[b][d] = "running"
         /\ batchState[b] # "idle"
         /\ relateId[b] = ForkedBy[d]
         /\ ForkedBy[d] \in Cids
         /\ isInsertBatch[ForkedBy[d]]
         /\ relateBatchId[ForkedBy[d]] = b
  <1>. DEFINE b == relateBatchId[d]
  <1>1. b # INVALID /\ ~isInsertBatch[d] /\ ForkedBy[d] = relateId[b]
    BY DEF ForkedBy, IsInBatch
  <1>2. state[d] # "idle" /\ b \in Bids
    BY <1>1 DEF TypeOK, IInv, CoreInv, SlotInv
  <1>3. cid2finish[b][d] = "running"
    BY <1>1, <1>2 DEF IInv, CoreInv, ChildInv
  <1>4. batchState[b] # "idle"
    BY <1>2, <1>3 DEF IInv, CoreInv, BatchInv
  <1>5. relateId[b] \in Cids /\ isInsertBatch[relateId[b]] /\ relateBatchId[relateId[b]] = b
    BY <1>2, <1>4 DEF TypeOK, IInv, CoreInv, BatchInv
  <1>. QED
    BY <1>1, <1>2, <1>3, <1>4, <1>5

\* A coroutine that is no owner has forked nobody.
LEMMA NoOwnerIsChildless ==
  ASSUME TypeOK, IInv, NEW c \in Cids, ~isInsertBatch[c] PROVE Batches!Childless(c)
  <1>. SUFFICES ASSUME NEW d \in Cids, ForkedBy[d] = c PROVE FALSE
    BY DEF Batches!Childless, InSlots
  <1>. QED
    BY ChildOfBatch, InvalidIsNoId

\* An owner whose batch is done has no child left.
LEMMA DoneIsChildless ==
  ASSUME TypeOK, IInv, NEW c \in Cids, isInsertBatch[c], AllFinished(relateBatchId[c])
  PROVE  Batches!Childless(c)
  <1>. SUFFICES ASSUME NEW d \in Cids, ForkedBy[d] = c PROVE FALSE
    BY DEF Batches!Childless, InSlots
  <1>. QED
    BY ChildOfBatch, InvalidIsNoId DEF AllFinished

\* Only a coroutine at the barrier of its batch is inside BatchRun.
LEMMA BarrierIsOwners ==
  ASSUME TypeOK, IInv, NEW c \in Cids
  PROVE  /\ state[c] \in {"run", "idle"} => c \notin InBatchRun
         /\ c \in InBatchRun => isInsertBatch[c]
  BY DEF IInv, CoreInv, SlotInv, OwnerInv, InBatchRun

LEMMA SwitchMaps ==
  ASSUME TypeOK, IInv, NEW c \in Cids, isMasterCoroutine, Resumable(c),
         isInsertBatch[c] => AllFinished(relateBatchId[c]), SwitchTo(c)
  PROVE  Batches!Run(c)
  <1>1. /\ state' = [state EXCEPT ![c] = "run"]
        /\ runningCoroutineId' = c
        /\ isMasterCoroutine' = FALSE
        /\ runBatch' = [runBatch EXCEPT ![c] = INVALID]
        /\ relateId' = relateId
    BY DEF SwitchTo
  <1>2. Runner = INVALID /\ Runner' = c
    BY <1>1 DEF Runner
  <1>3. c \in InSlots /\ InSlots' = InSlots
    BY <1>1 DEF InSlots, Resumable, TypeOK
  <1>4. InBatchRun' = InBatchRun \ {c}
    BY <1>1 DEF InBatchRun, TypeOK
  <1>5. Batches!Childless(c)
    BY NoOwnerIsChildless, DoneIsChildless
  <1>6. ASSUME ForkedBy[c] # INVALID PROVE ForkedBy[c] \in InBatchRun
    <2>1. /\ ForkedBy[c] \in Cids
          /\ isInsertBatch[ForkedBy[c]]
      BY <1>6, ChildOfBatch
    <2>2. runBatch[ForkedBy[c]] \in Bids
      BY <2>1, MasterMeansNoOpenBatch DEF IInv
    <2>. QED
      BY <2>1, <2>2, InvalidIsNoId DEF InBatchRun
  <1>7. ForkedBy' = ForkedBy
    <2>1. CASE runBatch[c] = INVALID
      BY <1>1, <2>1 DEF SwitchTo, ForkedBy, IsInBatch
    <2>2. CASE runBatch[c] # INVALID
      <3>1. isInsertBatch[c]
        BY <2>2 DEF IInv, CoreInv, SlotInv
      <3>2. /\ relateBatchId' = [relateBatchId EXCEPT ![c] = INVALID]
            /\ isInsertBatch' = [isInsertBatch EXCEPT ![c] = FALSE]
        BY <2>2 DEF SwitchTo
      <3>. QED
        BY <1>1, <3>1, <3>2 DEF ForkedBy, IsInBatch, TypeOK
    <2>. QED
      BY <2>1, <2>2
  <1>. QED
    BY <1>2, <1>3, <1>4, <1>5, <1>6, <1>7 DEF Batches!Run

\* A slot that is taken was nobody's child.
LEMMA CreateMaps ==
  ASSUME TypeOK, IInv, NEW c \in Cids, NEW p \in Priorities, NEW b \in Bids \cup {INVALID},
         state[c] = "idle", CreateIn(c, p, b), UNCHANGED <<relateId, ctlVars>>
  PROVE  /\ c \notin InSlots
         /\ InSlots' = InSlots \cup {c}
         /\ ForkedBy' = [ForkedBy EXCEPT ![c] = IF b = INVALID THEN INVALID ELSE relateId[b]]
         /\ ForkedBy[c] = INVALID
         /\ UNCHANGED <<Runner, InBatchRun>>
  <1>1. /\ state' = [state EXCEPT ![c] = "ready"]
        /\ relateBatchId' = [relateBatchId EXCEPT ![c] = b]
        /\ isInsertBatch' = [isInsertBatch EXCEPT ![c] = FALSE]
        /\ runBatch' = [runBatch EXCEPT ![c] = INVALID]
        /\ relateId' = relateId
        /\ isMasterCoroutine' = isMasterCoroutine
        /\ runningCoroutineId' = runningCoroutineId
    BY DEF CreateIn, ctlVars
  <1>2. relateBatchId[c] = INVALID
    BY DEF IInv, CoreInv, SlotInv
  <1>3. c \notin InSlots /\ InSlots' = InSlots \cup {c}
    BY <1>1 DEF InSlots, TypeOK
  <1>4. ForkedBy' = [ForkedBy EXCEPT ![c] = IF b = INVALID THEN INVALID ELSE relateId[b]]
    BY <1>1 DEF ForkedBy, IsInBatch, TypeOK
  <1>5. ForkedBy[c] = INVALID
    BY <1>2 DEF ForkedBy, IsInBatch
  <1>6. Runner' = Runner
    BY <1>1 DEF Runner
  <1>7. InBatchRun' = InBatchRun
    BY <1>1, BarrierIsOwners DEF InBatchRun, TypeOK
  <1>. QED
    BY <1>3, <1>4, <1>5, <1>6, <1>7

\* What a running coroutine is to ForkJoin.
LEMMA RunningMaps ==
  ASSUME TypeOK, IInv, NEW c \in Cids, Running(c)
  PROVE  /\ state[c] = "run" /\ ~isMasterCoroutine /\ runningCoroutineId = c
         /\ Runner = c /\ c \in InSlots /\ c \notin InBatchRun
  BY BarrierIsOwners DEF Running, Runner, InSlots, IInv, CoreInv, ControlInv

LEMMA MasterStepMaps ==
  ASSUME TypeOK, IInv, IInv', MasterStep
  PROVE  Batches!Next \/ UNCHANGED <<InSlots, Runner, ForkedBy, InBatchRun>>
  <1>1. \A why : why # "none" => ~Abort(why)
    BY DEF IInv, Abort
  <1>2. ASSUME NEW c \in Cids, isMasterCoroutine, Resumable(c),
               isInsertBatch[c] => AllFinished(relateBatchId[c]), SwitchTo(c)
        PROVE  Batches!Next
    BY <1>2, SwitchMaps DEF Batches!Next
  <1>3. CASE Resume
    <2>. PICK c \in Cids : IsChosen(c) /\ isMasterCoroutine /\ SwitchTo(c)
      BY <1>1, <1>3 DEF Resume, MasterFree
    <2>. QED
      BY <1>2, ChosenMayRun DEF IInv
  <1>4. CASE \E c \in Cids : ResumeById(c)
    BY <1>1, <1>2, <1>4 DEF ResumeById, MasterFree
  <1>5. CASE \E c \in Cids : ResumeInBatchNext(c)
    BY <1>1, <1>2, <1>5 DEF ResumeInBatchNext, Resumes
  <1>6. CASE ResumeBatchFinish
    <2>1. Head(batchFinishList) \in Cids
      BY <1>6, HeadTailProperties DEF ResumeBatchFinish, TypeOK
    <2>. QED
      BY <1>1, <1>2, <1>6, <2>1 DEF ResumeBatchFinish, Resumes
  <1>7. ASSUME UNCHANGED <<coVars, batchVars, ctlVars>>
        PROVE  UNCHANGED <<InSlots, Runner, ForkedBy, InBatchRun>>
    BY <1>7
    DEF coVars, batchVars, ctlVars, InSlots, Runner, ForkedBy, IsInBatch, InBatchRun
  <1>. QED
    BY <1>3, <1>4, <1>5, <1>6, <1>7
    DEF MasterStep, ResumeInBatch, ResumeBatchFinishReturn, TryReleaseMemory, ScheduleClean

\* Opening a batch forks nobody: the batch it takes has no child left.
LEMMA BatchInitMaps ==
  ASSUME Disciplined, TypeOK, IInv, NEW c \in Cids, BatchInit(c)
  PROVE  UNCHANGED <<InSlots, Runner, ForkedBy, InBatchRun>>
  <1>. PICK b \in Bids : /\ batchState[b] = "idle"
                         /\ relateId' = [relateId EXCEPT ![b] = c]
                         /\ relateBatchId' = [relateBatchId EXCEPT ![c] = b]
                         /\ isInsertBatch' = [isInsertBatch EXCEPT ![c] = TRUE]
    BY DEF BatchInit, IsFirstIdleBatch
  <1>1. ~IsInBatch(c)
    BY DEF Disciplined, BatchInit
  <1>2. ASSUME NEW d \in Cids PROVE ForkedBy'[d] = ForkedBy[d]
    <2>1. CASE d = c
      BY <1>1, <2>1 DEF ForkedBy, TypeOK
    <2>2. CASE d # c /\ ForkedBy[d] # INVALID
      <3>1. relateBatchId[d] # b
        BY <2>2, ChildOfBatch
      <3>. QED
        BY <2>2, <3>1 DEF ForkedBy, IsInBatch, TypeOK
    <2>3. CASE d # c /\ ~(IsInBatch(d) /\ ~isInsertBatch[d])
      BY <2>3 DEF ForkedBy, IsInBatch, TypeOK
    <2>4. IsInBatch(d) /\ ~isInsertBatch[d] => ForkedBy[d] # INVALID
      BY DEF ForkedBy, IsInBatch, TypeOK
    <2>. QED
      BY <2>1, <2>2, <2>3, <2>4
  <1>3. ForkedBy' = ForkedBy
    BY <1>2 DEF ForkedBy
  <1>. QED
    BY <1>3 DEF BatchInit, ctlVars, InSlots, Runner, InBatchRun

LEMMA CoroutineStepMaps ==
  ASSUME Disciplined, TypeOK, IInv, IInv', NEW c \in Cids, CoroutineStep(c)
  PROVE  Batches!Next \/ UNCHANGED <<InSlots, Runner, ForkedBy, InBatchRun>>
  <1>1. \A why : why # "none" => ~Abort(why)
    BY DEF IInv, Abort
  <1>2. CASE Yield(c)
    <2>1. Batches!Childless(c)
      BY <1>2, NoOwnerIsChildless DEF Disciplined, Yield
    <2>2. Runner = c /\ Runner' = INVALID
      BY <1>2, RunningMaps DEF Yield, Runner
    <2>3. InSlots' = InSlots
      BY <1>2, RunningMaps DEF Yield, InSlots, TypeOK
    <2>4. UNCHANGED <<ForkedBy, InBatchRun>>
      BY <1>2 DEF Yield, ForkedBy, IsInBatch, InBatchRun, batchVars
    <2>5. Batches!Pause(c)
      BY <2>1, <2>2, <2>3, <2>4 DEF Batches!Pause
    <2>. QED
      BY <2>5 DEF Batches!Next
  <1>3. CASE Finish(c)
    <2>1. Batches!Childless(c)
      BY <1>3, NoOwnerIsChildless DEF Disciplined, Finish
    <2>2. /\ state' = [state EXCEPT ![c] = "idle"]
          /\ relateBatchId' = [relateBatchId EXCEPT ![c] = INVALID]
          /\ isMasterCoroutine' = TRUE
          /\ UNCHANGED <<isInsertBatch, runBatch, relateId>>
      BY <1>1, <1>3 DEF Finish
    <2>3. Runner = c /\ Runner' = INVALID
      BY <1>3, <2>2, RunningMaps DEF Finish, Runner
    <2>4. InSlots' = InSlots \ {c}
      BY <2>2 DEF InSlots, TypeOK
    <2>5. ForkedBy' = [ForkedBy EXCEPT ![c] = INVALID]
      BY <2>2 DEF ForkedBy, IsInBatch, TypeOK
    <2>6. InBatchRun' = InBatchRun
      BY <2>2 DEF InBatchRun
    <2>7. Batches!End(c)
      BY <2>1, <2>3, <2>4, <2>5, <2>6 DEF Batches!End
    <2>. QED
      BY <2>7 DEF Batches!Next
  <1>4. CASE BatchInit(c)
    BY <1>4, BatchInitMaps
  <1>5. ASSUME NEW b \in Bids, BatchRun(c, b) PROVE Batches!Next
    <2>1. /\ runBatch' = [runBatch EXCEPT ![c] = b]
          /\ state' = [state EXCEPT ![c] = "suspend"]
          /\ isMasterCoroutine' = TRUE
          /\ UNCHANGED <<relateBatchId, isInsertBatch, relateId>>
      BY <1>1, <1>5 DEF BatchRun
    <2>2. Runner = c /\ Runner' = INVALID
      BY <1>5, <2>1, RunningMaps DEF BatchRun, Runner
    <2>3. InSlots' = InSlots
      BY <1>5, <2>1, RunningMaps DEF BatchRun, InSlots, TypeOK
    <2>4. InBatchRun' = InBatchRun \cup {c}
      BY <2>1, InvalidIsNoId DEF InBatchRun, TypeOK
    <2>5. ForkedBy' = ForkedBy
      BY <2>1 DEF ForkedBy, IsInBatch
    <2>6. Batches!Join(c)
      BY <2>2, <2>3, <2>4, <2>5 DEF Batches!Join
    <2>. QED
      BY <2>6 DEF Batches!Next
  <1>6. ASSUME NEW b \in Bids, NEW p \in Priorities, BatchAdd(c, b, p) PROVE Batches!Next
    <2>1. relateId[b] = c /\ Runner = c
      BY <1>1, <1>6, RunningMaps DEF BatchAdd
    <2>. PICK d \in Cids : state[d] = "idle" /\ CreateIn(d, p, b)
      BY <1>1, <1>6 DEF BatchAdd, IsFirstIdle
    <2>2. UNCHANGED <<relateId, ctlVars>>
      BY <1>1, <1>6 DEF BatchAdd
    <2>3. Batches!Fork(c, d)
      BY <2>1, <2>2, CreateMaps, InvalidIsNoId DEF Batches!Fork
    <2>. QED
      BY <2>3 DEF Batches!Next
  <1>7. CASE \E k \in Keys : LocalSet(c, k)
    BY <1>7
    DEF LocalSet, coVars, batchVars, ctlVars, InSlots, Runner, ForkedBy, IsInBatch, InBatchRun
  <1>. QED
    BY <1>2, <1>3, <1>4, <1>5, <1>6, <1>7 DEF CoroutineStep

LEMMA StepMaps ==
  ASSUME Disciplined, TypeOK, IInv, IInv', [Next]_vars
  PROVE  [Batches!Next]_(Batches!vars)
  <1>. USE DEF Batches!vars
  <1>1. CASE MasterStep
    BY <1>1, MasterStepMaps
  <1>2. CASE \E c \in Cids : CoroutineStep(c)
    BY <1>2, CoroutineStepMaps
  <1>3. ASSUME NEW p \in Priorities, Create(p) PROVE Batches!Next
    <2>. PICK c \in Cids : state[c] = "idle" /\ CreateIn(c, p, INVALID)
      BY <1>3 DEF Create, IsFirstIdle
    <2>1. UNCHANGED <<relateId, ctlVars>>
      BY <1>3 DEF Create, batchVars
    <2>2. ForkedBy' = ForkedBy
      BY <2>1, CreateMaps DEF ForkedBy
    <2>3. Batches!Create(c)
      BY <2>1, <2>2, CreateMaps DEF Batches!Create
    <2>. QED
      BY <2>3 DEF Batches!Next
  <1>4. CASE UNCHANGED vars
    BY <1>4
    DEF vars, coVars, batchVars, ctlVars, InSlots, Runner, ForkedBy, IsInBatch, InBatchRun
  <1>. QED
    BY <1>1, <1>2, <1>3, <1>4 DEF Next

\* Every disciplined program runs its batches as fork and join: a child starts when
\* its owner is in BatchRun, and the owner neither runs nor ends before all of its
\* children have.
THEOREM Refinement == ASSUME Disciplined PROVE Spec => ImplementsForkJoin
  <1>1. Init => Batches!Init
    <2>. SUFFICES ASSUME Init PROVE Batches!Init
      OBVIOUS
    <2>1. InSlots = {} /\ InBatchRun = {} /\ Runner = INVALID
      BY DEF Init, InSlots, InBatchRun, Runner
    <2>2. ForkedBy = [c \in Cids |-> INVALID]
      BY DEF Init, ForkedBy, IsInBatch
    <2>. QED
      BY <2>1, <2>2 DEF Batches!Init
  <1>2. TypeOK /\ IInv /\ IInv' /\ [Next]_vars => [Batches!Next]_(Batches!vars)
    BY StepMaps
  <1>. QED
    BY <1>1, <1>2, Invariance, TypeCorrect, PTL DEF Spec, ImplementsForkJoin, Batches!Spec
-----------------------------------------------------------------------------
(***************************************************************************)
(* What holds whatever the callers do.                                     *)
(***************************************************************************)
\* One coroutine at most is in state run: the one that has control.
THEOREM ControlTheorem == Spec => []OneRunner
  <1>1. Init => ControlInv
    BY DEF Init, ControlInv
  <1>2. TypeOK /\ ControlInv /\ [Next]_vars => ControlInv'
    <2>. SUFFICES ASSUME TypeOK, ControlInv, [Next]_vars PROVE ControlInv'
      OBVIOUS
    <2>1. CASE UNCHANGED <<state, isMasterCoroutine, runningCoroutineId>>
      BY <2>1 DEF ControlInv
    <2>2. ASSUME NEW c \in Cids, isMasterCoroutine, SwitchTo(c) PROVE ControlInv'
      BY <2>2 DEF SwitchTo, TypeOK, ControlInv
    <2>3. ASSUME NEW c \in Cids, NEW p, NEW b, IsFirstIdle(c), CreateIn(c, p, b),
                 UNCHANGED ctlVars
          PROVE  ControlInv'
      BY <2>3 DEF IsFirstIdle, CreateIn, ctlVars, TypeOK, ControlInv
    <2>4. ASSUME NEW c \in Cids, NEW s \in CoStates \ {"run"}, Running(c),
                 state' = [state EXCEPT ![c] = s], isMasterCoroutine' = TRUE
          PROVE  ControlInv'
      BY <2>4 DEF Running, TypeOK, ControlInv
    <2>5. CASE MasterStep
      <3>1. ResumeBatchFinish => Head(batchFinishList) \in Cids
        BY HeadTailProperties DEF ResumeBatchFinish, TypeOK
      <3>2. \/ UNCHANGED <<state, isMasterCoroutine, runningCoroutineId>>
            \/ isMasterCoroutine /\ \E c \in Cids : SwitchTo(c)
        BY <2>5, <3>1
        DEF MasterStep, Resume, ResumeById, ResumeInBatch, ResumeInBatchNext,
            ResumeBatchFinish, ResumeBatchFinishReturn, TryReleaseMemory, ScheduleClean,
            Abort, MasterFree, coVars, ctlVars
      <3>. QED
        BY <2>1, <2>2, <3>2
    <2>6. ASSUME NEW c \in Cids, CoroutineStep(c) PROVE ControlInv'
      <3>1. CASE UNCHANGED <<state, isMasterCoroutine, runningCoroutineId>>
        BY <2>1, <3>1
      <3>2. CASE Yield(c)
        BY <2>4, <3>2 DEF Yield, CoStates
      <3>3. CASE Finish(c)
        BY <2>1, <2>4, <3>3 DEF Finish, Abort, coVars, ctlVars, CoStates
      <3>4. CASE \E b \in Bids : BatchRun(c, b)
        BY <2>1, <2>4, <3>4 DEF BatchRun, Abort, coVars, ctlVars, CoStates
      <3>5. CASE \E b \in Bids, p \in Priorities : BatchAdd(c, b, p)
        BY <2>1, <2>3, <3>5 DEF BatchAdd, Abort, coVars, ctlVars
      <3>. QED
        BY <2>6, <3>1, <3>2, <3>3, <3>4, <3>5
        DEF CoroutineStep, BatchInit, LocalSet, coVars, ctlVars
    <2>7. CASE \E p \in Priorities : Create(p)
      BY <2>3, <2>7 DEF Create
    <2>. QED
      BY <2>1, <2>5, <2>6, <2>7 DEF Next, vars, coVars, ctlVars
  <1>3. ControlInv => OneRunner
    BY DEF ControlInv, OneRunner
  <1>. QED
    BY <1>1, <1>2, <1>3, TypeCorrect, PTL DEF Spec

InUse == {c \in Cids : state[c] # "idle"}

LEMMA InUseIsFinite == IsFiniteSet(InUse)
  <1>1. IsFiniteSet(Cids)
    BY FS_Interval, ScheduleAssumption DEF Cids, ScheduleAssumption
  <1>. QED
    BY <1>1, FS_Subset DEF InUse

\* activityCnt counts the coroutines in use, whatever the callers do.
THEOREM CountIsExact == Spec => []ActivityCount
  <1>1. Init => ActivityCount
    <2>. SUFFICES ASSUME Init PROVE activityCnt = Cardinality(InUse)
      BY DEF ActivityCount, InUse
    <2>1. InUse = {} /\ activityCnt = 0
      BY DEF Init, InUse
    <2>. QED
      BY <2>1, FS_EmptySet
  <1>2. TypeOK /\ OneRunner /\ ActivityCount /\ [Next]_vars => ActivityCount'
    <2>. SUFFICES ASSUME TypeOK, OneRunner, activityCnt = Cardinality(InUse), [Next]_vars
                  PROVE  activityCnt' = Cardinality(InUse')
      BY DEF ActivityCount, InUse
    <2>1. CASE UNCHANGED <<state, activityCnt>>
      BY <2>1 DEF InUse
    <2>2. ASSUME NEW c \in Cids, NEW s \in CoStates \ {"idle"}, state[c] # "idle",
                 state' = [state EXCEPT ![c] = s], activityCnt' = activityCnt
          PROVE  activityCnt' = Cardinality(InUse')
      <3>1. InUse' = InUse
        BY <2>2 DEF InUse, TypeOK
      <3>. QED
        BY <2>2, <3>1
    <2>3. ASSUME NEW c \in Cids, NEW p, NEW b, IsFirstIdle(c), CreateIn(c, p, b)
          PROVE  activityCnt' = Cardinality(InUse')
      <3>1. InUse' = InUse \cup {c} /\ c \notin InUse /\ activityCnt' = activityCnt + 1
        BY <2>3 DEF InUse, TypeOK, IsFirstIdle, CreateIn
      <3>. QED
        BY <3>1, InUseIsFinite, FS_AddElement
    <2>4. ASSUME NEW c \in Cids, SwitchTo(c), Resumable(c)
          PROVE  activityCnt' = Cardinality(InUse')
      BY <2>2, <2>4 DEF SwitchTo, Resumable, CoStates
    <2>5. CASE MasterStep
      <3>1. CASE Resume
        BY <2>1, <2>4, <3>1 DEF Resume, IsChosen, Candidates, Abort, coVars
      <3>2. CASE \E c \in Cids : ResumeById(c)
        BY <2>1, <2>4, <3>2 DEF ResumeById, Abort, coVars
      <3>3. CASE \E c \in Cids : ResumeInBatchNext(c)
        BY <2>1, <2>4, <3>3 DEF ResumeInBatchNext, Resumes, Abort, coVars
      <3>4. CASE ResumeBatchFinish
        <4>1. Head(batchFinishList) \in Cids
          BY <3>4, HeadTailProperties DEF ResumeBatchFinish, TypeOK
        <4>. QED
          BY <2>1, <2>4, <3>4, <4>1 DEF ResumeBatchFinish, Resumes, Abort, coVars
      <3>. QED
        BY <2>1, <2>5, <3>1, <3>2, <3>3, <3>4
        DEF MasterStep, ResumeInBatch, ResumeBatchFinishReturn, TryReleaseMemory,
            ScheduleClean, coVars
    <2>6. ASSUME NEW c \in Cids, CoroutineStep(c) PROVE activityCnt' = Cardinality(InUse')
      <3>1. Running(c) /\ state[c] = "run"
        BY <2>6
        DEF CoroutineStep, Yield, Finish, BatchInit, BatchRun, BatchAdd, LocalSet,
            Running, OneRunner
      <3>2. CASE UNCHANGED <<state, activityCnt>>
        BY <2>1, <3>2
      <3>3. CASE Yield(c)
        BY <2>2, <3>1, <3>3 DEF Yield, CoStates
      <3>4. CASE \E b \in Bids : BatchRun(c, b)
        BY <2>2, <3>1, <3>2, <3>4 DEF BatchRun, Abort, coVars, CoStates
      <3>5. CASE \E b \in Bids, p \in Priorities : BatchAdd(c, b, p)
        BY <2>3, <3>2, <3>5 DEF BatchAdd, Abort, coVars
      <3>6. CASE Finish(c)
        <4>1. CASE Abort("batch not run")
          BY <3>2, <4>1 DEF Abort, coVars
        <4>2. CASE ~Abort("batch not run")
          <5>1. state' = [state EXCEPT ![c] = "idle"] /\ activityCnt' = activityCnt - 1
            BY <3>6, <4>2 DEF Finish
          <5>2. InUse' = InUse \ {c} /\ c \in InUse
            BY <3>1, <5>1 DEF InUse, TypeOK
          <5>. QED
            BY <5>1, <5>2, InUseIsFinite, FS_RemoveElement
        <4>. QED
          BY <4>1, <4>2
      <3>. QED
        BY <2>6, <3>2, <3>3, <3>4, <3>5, <3>6
        DEF CoroutineStep, BatchInit, LocalSet, coVars
    <2>7. CASE \E p \in Priorities : Create(p)
      BY <2>3, <2>7 DEF Create
    <2>. QED
      BY <2>1, <2>5, <2>6, <2>7 DEF Next, vars, coVars
  <1>. QED
    BY <1>1, <1>2, TypeCorrect, ControlTheorem, PTL DEF Spec

\* When ScheduleClean has run, no coroutine and no batch was in use.
THEOREM CleanTheorem == ASSUME Disciplined PROVE Spec => []NothingLeftBehind
  <1>. DEFINE Quiet == cleaned => \A c \in Cids : state[c] = "idle"
  <1>1. Init => Quiet
    BY DEF Init
  <1>2. TypeOK /\ Quiet /\ [Next]_vars => Quiet'
    <2>. SUFFICES ASSUME TypeOK, Quiet, [Next]_vars PROVE Quiet'
      OBVIOUS
    <2>1. CASE UNCHANGED vars
      BY <2>1 DEF vars, coVars
    <2>2. CASE cleaned' = cleaned /\ ~cleaned
      BY <2>2
    <2>3. CASE ScheduleClean
      BY <2>3 DEF ScheduleClean, ScheduleRunning, coVars
    <2>4. Next => ScheduleClean \/ (cleaned' = cleaned /\ ~cleaned)
      BY DEF Next, MasterStep, CoroutineStep, Resume, ResumeById, ResumeInBatch,
             ResumeInBatchNext, ResumeBatchFinish, ResumeBatchFinishReturn, TryReleaseMemory,
             Yield, Finish, BatchInit, BatchRun, BatchAdd, LocalSet, Create, SwitchTo,
             Abort, MasterFree, Running, Alive
    <2>. QED
      BY <2>1, <2>2, <2>3, <2>4
  <1>3. TypeOK /\ IInv /\ ActivityCount /\ Quiet => NothingLeftBehind
    <2>. SUFFICES ASSUME TypeOK, IInv, ActivityCount, Quiet, cleaned
                  PROVE  activityCnt = 0 /\ \A b \in Bids : batchState[b] = "idle"
      BY DEF NothingLeftBehind
    <2>1. activityCnt = 0
      <3>1. {c \in Cids : state[c] # "idle"} = {}
        OBVIOUS
      <3>. QED
        BY <3>1, FS_EmptySet DEF ActivityCount
    <2>2. ASSUME NEW b \in Bids, batchState[b] # "idle" PROVE FALSE
      BY <2>2 DEF TypeOK, IInv, CoreInv, BatchInv, SlotInv
    <2>. QED
      BY <2>1, <2>2
  <1>. QED
    BY <1>1, <1>2, <1>3, TypeCorrect, Invariance, CountIsExact, PTL DEF Spec
-----------------------------------------------------------------------------
(***************************************************************************)
(* Memory.                                                                 *)
(***************************************************************************)
\* Only a coroutine in control stores local variables, and it has its stack.
LEMMA MemoryInvariant == Spec => [](LiveHasStack /\ FreedHasNoLocals)
  <1>1. Init => LiveHasStack /\ FreedHasNoLocals
    BY DEF Init, LiveHasStack, FreedHasNoLocals
  <1>2. /\ TypeOK /\ OneRunner /\ LiveHasStack /\ FreedHasNoLocals /\ [Next]_vars
        => LiveHasStack' /\ FreedHasNoLocals'
    <2>. SUFFICES ASSUME TypeOK, OneRunner, LiveHasStack, FreedHasNoLocals, [Next]_vars
                  PROVE  LiveHasStack' /\ FreedHasNoLocals'
      OBVIOUS
    <2>. USE DEF LiveHasStack, FreedHasNoLocals
    <2>1. ASSUME UNCHANGED <<stack, local>>, cleaned' = cleaned,
                 \A c \in Cids : state[c] = "idle" => state'[c] = "idle"
          PROVE  LiveHasStack' /\ FreedHasNoLocals'
      BY <2>1
    <2>2. ASSUME NEW c \in Cids, NEW p, NEW b, CreateIn(c, p, b), cleaned' = cleaned
          PROVE  LiveHasStack' /\ FreedHasNoLocals'
      <3>1. /\ \A d \in Cids : state'[d] # "idle" => d = c \/ state[d] # "idle"
            /\ stack'[c] /\ \A d \in Cids : d # c => stack'[d] = stack[d]
            /\ \A d \in Cids : d # c => local'[d] = local[d]
        BY <2>2 DEF CreateIn, TypeOK
      <3>. QED
        BY <2>2, <3>1
    <2>3. ASSUME NEW c \in Cids, SwitchTo(c), Resumable(c)
          PROVE  LiveHasStack' /\ FreedHasNoLocals'
      BY <2>1, <2>3 DEF SwitchTo, Resumable, memVars, TypeOK
    <2>4. ASSUME NEW why, Abort(why) PROVE LiveHasStack' /\ FreedHasNoLocals'
      BY <2>1, <2>4 DEF Abort, coVars, memVars
    <2>5. CASE MasterStep
      <3>1. CASE Resume
        BY <2>3, <2>4, <3>1 DEF Resume, IsChosen, Candidates
      <3>2. CASE \E c \in Cids : ResumeById(c)
        BY <2>3, <2>4, <3>2 DEF ResumeById
      <3>3. CASE \E c \in Cids : ResumeInBatchNext(c)
        BY <2>3, <2>4, <3>3 DEF ResumeInBatchNext, Resumes
      <3>4. CASE ResumeBatchFinish
        <4>1. Head(batchFinishList) \in Cids
          BY <3>4, HeadTailProperties DEF ResumeBatchFinish, TypeOK
        <4>. QED
          BY <2>3, <2>4, <3>4, <4>1 DEF ResumeBatchFinish, Resumes
      <3>5. CASE \E pct \in PctValues : TryReleaseMemory(pct)
        <4>1. PICK released \in SUBSET Pooled :
                /\ stack' = [c \in Cids |-> stack[c] /\ c \notin released]
                /\ local' = [c \in Cids |-> IF c \in released THEN [k \in Keys |-> "absent"]
                                            ELSE local[c]]
                /\ UNCHANGED <<coVars, cleaned>>
          BY <3>5 DEF TryReleaseMemory
        <4>. QED
          BY <4>1 DEF Pooled, coVars, TypeOK
      <3>6. CASE ScheduleClean
        BY <3>6 DEF ScheduleClean
      <3>. QED
        BY <2>1, <2>5, <3>1, <3>2, <3>3, <3>4, <3>5, <3>6
        DEF MasterStep, ResumeInBatch, ResumeBatchFinishReturn, coVars, memVars
    <2>6. ASSUME NEW c \in Cids, CoroutineStep(c) PROVE LiveHasStack' /\ FreedHasNoLocals'
      <3>1. state[c] = "run" /\ ~cleaned /\ stack[c]
        BY <2>6
        DEF CoroutineStep, Yield, Finish, BatchInit, BatchRun, BatchAdd, LocalSet,
            Running, Alive, OneRunner
      <3>2. CASE Yield(c) \/ Finish(c) \/ BatchInit(c) \/ \E b \in Bids : BatchRun(c, b)
        <4>1. \/ \E why : Abort(why)
              \/ /\ UNCHANGED <<memVars, cleaned>>
                 /\ state' = state \/ \E s : state' = [state EXCEPT ![c] = s]
          BY <3>2 DEF Yield, Finish, BatchInit, BatchRun
        <4>2. CASE UNCHANGED <<memVars, cleaned>> /\ \E s : state' = [state EXCEPT ![c] = s]
          BY <2>1, <3>1, <4>2 DEF memVars, TypeOK
        <4>. QED
          BY <2>1, <2>4, <4>1, <4>2 DEF memVars
      <3>3. CASE \E b \in Bids, p \in Priorities : BatchAdd(c, b, p)
        BY <2>2, <2>4, <3>3 DEF BatchAdd
      <3>4. CASE \E k \in Keys : LocalSet(c, k)
        BY <3>1, <3>4 DEF LocalSet, coVars, TypeOK
      <3>. QED
        BY <2>6, <3>2, <3>3, <3>4 DEF CoroutineStep
    <2>7. CASE \E p \in Priorities : Create(p)
      BY <2>2, <2>7 DEF Create
    <2>8. CASE UNCHANGED vars
      BY <2>1, <2>8 DEF vars, coVars, memVars
    <2>. QED
      BY <2>5, <2>6, <2>7, <2>8 DEF Next
  <1>. QED
    BY <1>1, <1>2, TypeCorrect, ControlTheorem, PTL DEF Spec

\* A coroutine in use has its stack, whatever the callers do and whatever
\* ScheduleTryReleaseMemory finds worth freeing.
THEOREM StackTheorem == Spec => []LiveHasStack
  BY MemoryInvariant, PTL

\* A slot whose stack was freed keeps none of the local variables that were
\* freed with it: the next coroutine in it cannot find them.
THEOREM FreedTheorem == Spec => []FreedHasNoLocals
  BY MemoryInvariant, PTL

-----------------------------------------------------------------------------
(***************************************************************************)
(* The list of the batches that are done.                                  *)
(***************************************************************************)
Listed(o) == \E i \in 1..Len(batchFinishList) : batchFinishList[i] = o
Complete == \A b \in Bids : batchState[b] = "run" /\ AllFinished(b) => Listed(relateId[b])

\* An event loop: owners are resumed from the list, and batches have children.
EventLoop == /\ "ResumeBatchFinish" \in MasterCalls
             /\ "NonEmpty" \in Rules

LEMMA CompleteKept ==
  ASSUME Complete, batchFinishList' = batchFinishList,
         \A b \in Bids : batchState'[b] = "run" /\ AllFinished(b)' =>
            batchState[b] = "run" /\ AllFinished(b) /\ relateId'[b] = relateId[b]
  PROVE  Complete'
  BY DEF Complete, Listed

LEMMA FreeSwitchKeepsList ==
  ASSUME IInv, Complete, NEW c \in Cids, ~isInsertBatch[c], SwitchTo(c),
         batchFinishList' = batchFinishList
  PROVE  Complete'
  BY SwitchToFree, CompleteKept DEF IInv, SwitchTo, AllFinished

LEMMA PopKeepsList ==
  ASSUME TypeOK, IInv, Complete, "ResumeBatchFinish" \in MasterCalls, ResumeBatchFinish
  PROVE  Complete'
  <1>. DEFINE L == batchFinishList
              c == Head(L)
  <1>1. L # <<>> /\ L \in Seq(Cids)
    BY DEF ResumeBatchFinish, TypeOK
  <1>2. /\ Tail(L) \in Seq(Cids) /\ Len(Tail(L)) = Len(L) - 1 /\ Len(L) \in Nat
        /\ \A i \in 1..Len(Tail(L)) : Tail(L)[i] = L[i + 1]
    BY <1>1, HeadTailProperties, LenProperties
  <1>3. Len(L) >= 1 /\ c = L[1] /\ 1 \in 1..Len(L)
    BY <1>1, <1>2, EmptySeq
  <1>4. c \in Cids /\ Announced(c)
    BY <1>1, <1>3 DEF IInv, ListInv, Announced
  <1>5. /\ relateBatchId[c] \in Bids /\ relateId[relateBatchId[c]] = c
        /\ state[c] = "suspend" /\ runBatch[c] = relateBatchId[c]
    BY <1>4 DEF IInv, CoreInv, OwnerInv, TypeOK, Announced
  <1>6. SwitchTo(c) /\ batchFinishList' = Tail(L)
    BY <1>4, <1>5 DEF ResumeBatchFinish, Announced, Resumes, Resumable, BatchRunning
  <1>. HIDE DEF L, c
  <1>7. /\ batchState' = [batchState EXCEPT ![relateBatchId[c]] = "idle"]
        /\ cid2finish' = [cid2finish EXCEPT ![relateBatchId[c]] = NoChild]
        /\ relateId' = relateId
    BY <1>5, <1>6, InvalidIsNoId DEF SwitchTo
  <1>8. ASSUME NEW b \in Bids, batchState'[b] = "run", AllFinished(b)' PROVE Listed(relateId[b])'
    <2>1. b # relateBatchId[c] /\ batchState[b] = "run" /\ AllFinished(b)
      BY <1>5, <1>7, <1>8 DEF TypeOK, AllFinished
    <2>2. relateId[b] # c
      BY <2>1 DEF IInv, CoreInv, BatchInv
    <2>3. PICK i \in 1..Len(L) : L[i] = relateId[b]
      BY <2>1 DEF Complete, Listed, L
    <2>4. i - 1 \in 1..Len(Tail(L)) /\ (i - 1) + 1 = i
      BY <1>2, <1>3, <2>2, <2>3
    <2>5. Tail(L)[i - 1] = relateId[b]
      BY <1>2, <2>3, <2>4
    <2>. QED
      BY <1>6, <1>7, <2>4, <2>5 DEF Listed
  <1>. QED
    BY <1>8 DEF Complete

LEMMA FinishKeepsList ==
  ASSUME Disciplined, TypeOK, IInv, Complete, NEW c \in Cids, Finish(c)
  PROVE  Complete'
  <1>. DEFINE b == relateBatchId[c]
              L == batchFinishList
  <1>1. ~isInsertBatch[c] /\ state[c] = "run"
    BY DEF Finish, Running, Disciplined, IInv, CoreInv, ControlInv
  <1>2. b # INVALID => /\ b \in Bids /\ batchState[b] = "run" /\ relateId[b] \in Cids
    BY <1>1, FinishFindsBarrier DEF IInv
  <1>3. /\ cid2finish' = IF b = INVALID THEN cid2finish
                         ELSE [cid2finish EXCEPT ![b][c] = "finished"]
        /\ L' = IF b # INVALID /\ LastChild(b, c) THEN Append(L, relateId[b]) ELSE L
        /\ UNCHANGED <<batchState, relateId>>
    BY <1>2 DEF Finish, BatchRunning
  <1>4. L \in Seq(Cids) /\ Len(L) \in Nat
    BY LenProperties DEF TypeOK
  <1>5. \A o : Listed(o) => Listed(o)'
    <2>. SUFFICES ASSUME NEW i \in 1..Len(L) PROVE i \in 1..Len(L') /\ L'[i] = L[i]
      BY DEF Listed
    <2>. QED
      BY <1>2, <1>3, <1>4, AppendProperties
  <1>6. \A o : b # INVALID /\ LastChild(b, c) /\ o = relateId[b] => Listed(o)'
    <2>. SUFFICES ASSUME b # INVALID, LastChild(b, c)
                  PROVE  \E i \in 1..Len(L') : L'[i] = relateId[b]
      BY DEF Listed
    <2>1. L'[Len(L) + 1] = relateId[b] /\ Len(L') = Len(L) + 1
      BY <1>2, <1>3, <1>4, AppendProperties
    <2>. QED
      BY <1>4, <2>1
  <1>7. ASSUME NEW x \in Bids, batchState'[x] = "run", AllFinished(x)' PROVE Listed(relateId[x])'
    <2>1. \A y \in Bids, d \in Cids :
             cid2finish'[y][d] = IF y = b /\ d = c THEN "finished" ELSE cid2finish[y][d]
      BY <1>3, InvalidIsNoId DEF TypeOK
    <2>2. CASE x = b
      <3>1. LastChild(b, c)
        BY <1>7, <2>1, <2>2 DEF AllFinished, LastChild
      <3>2. x # INVALID /\ relateId'[x] = relateId[b]
        BY <1>3, <2>2, InvalidIsNoId
      <3>. QED
        BY <1>6, <2>2, <3>1, <3>2
    <2>3. CASE x # b
      <3>1. AllFinished(x)
        BY <1>7, <2>1, <2>3 DEF AllFinished
      <3>2. Listed(relateId[x])
        BY <1>3, <1>7, <3>1 DEF Complete
      <3>. QED
        BY <1>3, <1>5, <3>2
    <2>. QED
      BY <2>2, <2>3
  <1>. QED
    BY <1>3, <1>7 DEF Complete

LEMMA CoroutineKeepsList ==
  ASSUME Disciplined, EventLoop, TypeOK, IInv, Complete, NEW c \in Cids, CoroutineStep(c)
  PROVE  Complete'
  <1>1. CASE Finish(c)
    BY <1>1, FinishKeepsList
  <1>2. CASE Yield(c) \/ \E k \in Keys : LocalSet(c, k)
    BY <1>2, CompleteKept DEF Yield, LocalSet, batchVars, AllFinished
  <1>3. CASE BatchInit(c)
    <2>1. PICK b \in Bids : /\ batchState' = [batchState EXCEPT ![b] = "ready"]
                            /\ relateId' = [relateId EXCEPT ![b] = c]
                            /\ UNCHANGED <<cid2finish, batchFinishList>>
      BY <1>3 DEF BatchInit
    <2>. QED
      BY <2>1, CompleteKept DEF TypeOK, AllFinished
  <1>4. ASSUME NEW b \in Bids, BatchRun(c, b) PROVE Complete'
    <2>1. /\ batchState[b] = "ready" /\ Children(b) # {}
          /\ batchState' = [batchState EXCEPT ![b] = "run"]
          /\ UNCHANGED <<relateId, cid2finish, batchFinishList>>
      BY <1>4 DEF BatchRun, Disciplined, EventLoop
    <2>2. ~AllFinished(b)
      BY <2>1 DEF Children, AllFinished, IInv, CoreInv, ChildInv, TypeOK, ChildStates
    <2>. QED
      BY <2>1, <2>2, CompleteKept DEF TypeOK, AllFinished
  <1>5. ASSUME NEW b \in Bids, NEW p \in Priorities, BatchAdd(c, b, p) PROVE Complete'
    <2>1. batchState[b] = "ready" /\ relateId[b] = c /\ CanCreate
      BY <1>5 DEF BatchAdd, Disciplined
    <2>2. PICK d \in Cids : cid2finish' = [cid2finish EXCEPT ![b][d] = "running"]
      BY <1>5, <2>1 DEF BatchAdd
    <2>3. UNCHANGED <<batchState, relateId, batchFinishList>>
      BY <1>5, <2>1 DEF BatchAdd
    <2>. QED
      BY <2>1, <2>2, <2>3, CompleteKept DEF TypeOK, AllFinished
  <1>. QED
    BY <1>1, <1>2, <1>3, <1>4, <1>5 DEF CoroutineStep

\* batchFinishList names exactly the owners whose batches are done, each once:
\* what the event loop pops can be resumed, and nobody is left out.
THEOREM ListTheorem ==
  ASSUME Disciplined, EventLoop PROVE Spec => []FinishListExact
  <1>1. Init => Complete
    BY DEF Init, Complete
  <1>2. TypeOK /\ IInv /\ Complete /\ [Next]_vars => Complete'
    <2>. SUFFICES ASSUME TypeOK, IInv, Complete, [Next]_vars PROVE Complete'
      OBVIOUS
    <2>1. ASSUME UNCHANGED <<batchVars, batchFinishList>> PROVE Complete'
      BY <2>1, CompleteKept DEF batchVars, AllFinished
    <2>2. ASSUME NEW why, Abort(why) PROVE Complete'
      BY <2>1, <2>2 DEF Abort
    <2>3. CASE Resume
      BY <2>3 DEF Resume, Disciplined, EventLoop
    <2>4. ASSUME NEW c \in Cids, ResumeById(c) PROVE Complete'
      <3>1. ~isInsertBatch[c]
        BY <2>4 DEF ResumeById, Disciplined, EventLoop
      <3>. QED
        BY <2>4, <3>1, FreeSwitchKeepsList DEF ResumeById
    <2>5. ASSUME NEW c \in Cids, ResumeInBatchNext(c) PROVE Complete'
      <3>1. inBatch \in Bids /\ cid2finish[inBatch][c] = "running"
        BY <2>5 DEF ResumeInBatchNext, IInv, CallInv, TypeOK
      <3>2. ~isInsertBatch[c]
        BY <3>1 DEF IInv, CoreInv, ChildInv
      <3>. QED
        BY <2>2, <2>5, <3>2, FreeSwitchKeepsList DEF ResumeInBatchNext
    <2>6. CASE ResumeBatchFinish
      BY <2>6, PopKeepsList DEF EventLoop
    <2>7. ASSUME NEW c \in Cids, CoroutineStep(c) PROVE Complete'
      BY <2>7, CoroutineKeepsList
    <2>8. CASE \/ \E c \in Cids : ResumeInBatch(c)
               \/ ResumeBatchFinishReturn
               \/ \E pct \in PctValues : TryReleaseMemory(pct)
               \/ ScheduleClean
               \/ \E p \in Priorities : Create(p)
               \/ UNCHANGED vars
      BY <2>1, <2>8 DEF ResumeInBatch, ResumeBatchFinishReturn, TryReleaseMemory,
                        ScheduleClean, Create, vars
    <2>. QED
      BY <2>3, <2>4, <2>5, <2>6, <2>7, <2>8 DEF Next, MasterStep
  <1>3. TypeOK /\ IInv /\ Complete => FinishListExact
    <2>. SUFFICES ASSUME TypeOK, IInv, Complete PROVE FinishListExact
      OBVIOUS
    <2>1. DOMAIN batchFinishList = 1..Len(batchFinishList)
      BY LenProperties DEF TypeOK
    <2>2. ASSUME NEW i \in 1..Len(batchFinishList)
          PROVE  \E b \in Bids : /\ batchFinishList[i] = relateId[b]
                                 /\ batchState[b] = "run" /\ AllFinished(b)
      <3>1. Announced(batchFinishList[i])
        BY DEF IInv, ListInv, EventLoop
      <3>2. PICK a \in Cids : a = batchFinishList[i] /\ Announced(a)
        BY <3>1 DEF Announced
      <3>3. relateBatchId[a] \in Bids /\ relateId[relateBatchId[a]] = a
        BY <3>2 DEF Announced, IInv, CoreInv, OwnerInv, TypeOK
      <3>. QED
        BY <3>2, <3>3 DEF Announced
    <2>3. ASSUME NEW b \in Bids, batchState[b] = "run", AllFinished(b)
          PROVE  \E i \in 1..Len(batchFinishList) : batchFinishList[i] = relateId[b]
      BY <2>3 DEF Complete, Listed
    <2>4. \A i, j \in 1..Len(batchFinishList) :
             batchFinishList[i] = batchFinishList[j] => i = j
      BY DEF IInv, ListInv, EventLoop
    <2>. QED
      BY <2>1, <2>2, <2>3, <2>4 DEF FinishListExact, AllFinished
  <1>. QED
    BY <1>1, <1>2, <1>3, TypeCorrect, Invariance, PTL DEF Spec

-----------------------------------------------------------------------------
(***************************************************************************)
(* The search of CoroutineResume.                                          *)
(***************************************************************************)
\* CoroutineResume finds a coroutine to run whenever there is one, if no
\* priority is as large as the value its search starts from.
THEOREM ResumeTheorem ==
  ASSUME MaxPriority \notin Priorities \cup {0} PROVE Spec => []ResumeFindsRunnable
  <1>1. TypeOK => ResumeFindsRunnable
    <2>. SUFFICES ASSUME TypeOK, NEW a \in Cids, Resumable(a) PROVE \E c \in Cids : IsChosen(c)
      BY DEF ResumeFindsRunnable
    <2>1. \A c \in Cids : priority[c] \in Nat /\ priority[c] < MaxPriority
      <3>1. \A p \in Priorities \cup {0} : p \in Nat /\ p < MaxPriority
        BY ScheduleAssumption DEF ScheduleAssumption
      <3>2. \A c \in Cids : priority[c] \in Priorities \cup {0}
        BY DEF TypeOK
      <3>. QED
        BY <3>1, <3>2
    <2>2. Candidates # {} /\ Candidates \subseteq Cids
      BY <2>1 DEF Candidates
    <2>3. PICK p \in {priority[c] : c \in Candidates} :
                 \A q \in {priority[c] : c \in Candidates} : p <= q
      <3>1. {priority[c] : c \in Candidates} \in SUBSET Nat
        BY <2>1, <2>2
      <3>2. {priority[c] : c \in Candidates} # {}
        BY <2>2
      <3>. QED
        BY <3>1, <3>2, LeastNatural
    <2>4. PICK c \in {d \in Candidates : priority[d] = p} :
                 \A d \in {e \in Candidates : priority[e] = p} : c <= d
      <3>1. {d \in Candidates : priority[d] = p} \in SUBSET Nat
        <4>1. Cids \subseteq Nat
          BY DEF Cids
        <4>. QED
          BY <2>2, <4>1
      <3>2. {d \in Candidates : priority[d] = p} # {}
        BY <2>3
      <3>. QED
        BY <3>1, <3>2, LeastNatural
    <2>5. \A d \in Candidates : priority[c] <= priority[d]
      BY <2>3, <2>4
    <2>6. IsChosen(c)
      BY <2>1, <2>2, <2>4, <2>5 DEF IsChosen
    <2>. QED
      BY <2>2, <2>4, <2>6
  <1>. QED
    BY <1>1, TypeCorrect, PTL

-----------------------------------------------------------------------------
(***************************************************************************)
(* The search of CoroutineResume.                                          *)
(***************************************************************************)
Found == [id : Cids \cup {INVALID}, priority : 0 .. MaxPriority, inserted : BOOLEAN]

\* c is preferred to every coroutine of S by its priority, then by its id.
Best(c, S) ==
  /\ c \in S
  /\ \A d \in S : priority[c] < priority[d] \/ (priority[c] = priority[d] /\ c <= d)

\* The first i coroutines, those not at a barrier and those at one.
Free(i) == {c \in Cids : c < i /\ Resumable(c) /\ ~isInsertBatch[c]}
AtBarrier(i) == {c \in Cids : c < i /\ Resumable(c) /\ isInsertBatch[c]
                              /\ priority[c] < MaxPriority}

\* What the search has found among the first i coroutines.
FoundBest(r, i) ==
  \/ /\ ~r.inserted /\ Best(r.id, Free(i)) /\ r.priority = priority[r.id]
  \/ /\ r.inserted /\ Free(i) = {}
     /\ \/ r.id = INVALID /\ r.priority = MaxPriority /\ AtBarrier(i) = {}
        \/ Best(r.id, AtBarrier(i)) /\ r.priority = priority[r.id]

LEMMA PrioritiesBounded ==
  ASSUME TypeOK
  PROVE  \A c \in Cids : c \in Nat /\ priority[c] \in 0 .. MaxPriority /\ priority[c] \in Nat
  <1>1. Priorities \cup {0} \subseteq 0 .. MaxPriority
    BY ScheduleAssumption DEF ScheduleAssumption
  <1>2. \A c \in Cids : priority[c] \in Priorities \cup {0}
    BY DEF TypeOK
  <1>3. \A c \in Cids : c \in Nat
    BY DEF Cids
  <1>. QED
    BY <1>1, <1>2, <1>3

LEMMA SearchStepTyped ==
  ASSUME TypeOK, NEW r \in Found, NEW c \in Cids PROVE SearchStep(r, c) \in Found
  <1>1. priority[c] \in 0 .. MaxPriority
    BY PrioritiesBounded
  <1>. QED
    BY <1>1 DEF SearchStep, Found

LEMMA SearchStepBest ==
  ASSUME TypeOK, NEW r \in Found, NEW c \in Cids, FoundBest(r, c)
  PROVE  FoundBest(SearchStep(r, c), c + 1)
  <1>1. \A d \in Cids : priority[d] \in Nat /\ priority[d] <= MaxPriority /\ d \in Nat
    BY PrioritiesBounded, ScheduleAssumption DEF ScheduleAssumption
  <1>2. /\ \A d \in Cids : d < c + 1 <=> d < c \/ d = c
        /\ ~(c < c) /\ isInsertBatch[c] \in BOOLEAN /\ MaxPriority \in Nat
    BY <1>1, ScheduleAssumption DEF TypeOK, ScheduleAssumption
  <1>3. CASE ~Resumable(c)
    <2>1. Free(c + 1) = Free(c) /\ AtBarrier(c + 1) = AtBarrier(c)
      BY <1>2, <1>3 DEF Free, AtBarrier
    <2>. QED
      BY <1>3, <2>1 DEF SearchStep, FoundBest
  <1>4. CASE Resumable(c) /\ ~isInsertBatch[c]
    <2>1. Free(c + 1) = Free(c) \cup {c}
      BY <1>2, <1>4 DEF Free
    <2>2. CASE r.inserted
      <3>1. SearchStep(r, c) = [id |-> c, priority |-> priority[c], inserted |-> FALSE]
        BY <1>4, <2>2 DEF SearchStep
      <3>2. Best(c, Free(c + 1))
        BY <1>1, <2>1, <2>2 DEF FoundBest, Best
      <3>. QED
        BY <3>1, <3>2 DEF FoundBest
    <2>3. CASE ~r.inserted /\ priority[c] < r.priority
      <3>1. SearchStep(r, c) = [id |-> c, priority |-> priority[c], inserted |-> FALSE]
        BY <1>2, <1>4, <2>3 DEF SearchStep, Found
      <3>2. Best(c, Free(c + 1))
        BY <1>1, <2>1, <2>3 DEF FoundBest, Best, Free
      <3>. QED
        BY <3>1, <3>2 DEF FoundBest
    <2>4. CASE ~r.inserted /\ ~(priority[c] < r.priority)
      <3>1. SearchStep(r, c) = r
        BY <1>4, <2>4 DEF SearchStep
      <3>2. Best(r.id, Free(c + 1))
        BY <1>1, <2>1, <2>4 DEF FoundBest, Best, Free
      <3>. QED
        BY <2>4, <3>1, <3>2 DEF FoundBest
    <2>. QED
      BY <2>2, <2>3, <2>4
  <1>5. CASE Resumable(c) /\ isInsertBatch[c]
    <2>1. Free(c + 1) = Free(c)
      BY <1>2, <1>5 DEF Free
    <2>2. AtBarrier(c + 1) = AtBarrier(c) \cup (IF priority[c] < MaxPriority THEN {c} ELSE {})
      BY <1>2, <1>5 DEF AtBarrier
    <2>3. CASE ~r.inserted
      <3>1. SearchStep(r, c) = r
        BY <1>2, <1>5, <2>3 DEF SearchStep
      <3>. QED
        BY <2>1, <2>3, <3>1 DEF FoundBest
    <2>4. CASE r.inserted /\ priority[c] < r.priority
      <3>1. SearchStep(r, c) = [id |-> c, priority |-> priority[c], inserted |-> TRUE]
        BY <1>2, <1>5, <2>4 DEF SearchStep, Found
      <3>2. Best(c, AtBarrier(c + 1))
        BY <1>1, <1>2, <2>2, <2>4 DEF FoundBest, Best, AtBarrier, Found
      <3>. QED
        BY <2>1, <2>4, <3>1, <3>2 DEF FoundBest
    <2>5. CASE r.inserted /\ ~(priority[c] < r.priority)
      <3>1. SearchStep(r, c) = r
        BY <1>5, <2>5 DEF SearchStep
      <3>2. CASE r.id = INVALID /\ r.priority = MaxPriority /\ AtBarrier(c) = {}
        BY <2>1, <2>2, <2>4, <2>5, <3>1, <3>2 DEF FoundBest
      <3>3. CASE Best(r.id, AtBarrier(c)) /\ r.priority = priority[r.id]
        <4>1. Best(r.id, AtBarrier(c + 1))
          BY <1>1, <2>2, <2>5, <3>3 DEF Best, AtBarrier
        <4>. QED
          BY <2>1, <2>5, <3>1, <3>3, <4>1 DEF FoundBest
      <3>. QED
        BY <2>5, <3>2, <3>3 DEF FoundBest
    <2>. QED
      BY <2>3, <2>4, <2>5
  <1>. QED
    BY <1>3, <1>4, <1>5

\* The search has found the best of all coroutines when its loop ends.
LEMMA SearchFinds == ASSUME TypeOK PROVE FoundBest(Search, CoroutineCnt)
  <1>. DEFINE start == [id |-> INVALID, priority |-> MaxPriority, inserted |-> TRUE]
              Step(f) == [i \in 0 .. CoroutineCnt |->
                            IF i = 0 THEN start ELSE SearchStep(f[i - 1], i - 1)]
              found == CHOOSE f : f = Step(f)
              step == [x \in (1 .. CoroutineCnt) \X Found |-> SearchStep(x[2], x[1] - 1)]
  <1>1. CoroutineCnt \in Nat /\ start \in Found
    BY ScheduleAssumption DEF ScheduleAssumption, Found
  <1>2. \A i \in 1 .. CoroutineCnt : i - 1 \in Cids
    BY <1>1 DEF Cids
  <1>3. step \in [(1 .. CoroutineCnt) \X Found -> Found]
    BY <1>2, SearchStepTyped
  <1>4. \E f : f = Step(f)
    <2>1. PICK f \in [0 .. CoroutineCnt -> Found] :
            f[0] = start /\ \A i \in 1 .. CoroutineCnt : f[i] = step[<<i, f[i - 1]>>]
      <3>1. LoopsRun(Found, start)
        BY <1>1, LoopRuns
      <3>. HIDE DEF start, step
      <3>. QED
        BY <1>1, <1>3, <3>1 DEF LoopsRun
    <2>2. \A i \in 1 .. CoroutineCnt : f[i] = SearchStep(f[i - 1], i - 1)
      <3>1. \A i \in 1 .. CoroutineCnt : f[i - 1] \in Found
        BY <1>1, <2>1
      <3>. QED
        BY <2>1, <3>1
    <2>3. f = Step(f)
      <3>. HIDE DEF start
      <3>. QED
        BY <1>1, <2>1, <2>2
    <2>. QED
      BY <2>3
  <1>5. found = Step(found)
    <2>. HIDE DEF Step
    <2>. QED
      BY <1>4
  <1>6. Search = found[CoroutineCnt]
    BY DEF Search
  <1>. HIDE DEF found
  <1>7. found[0] = start /\ \A i \in 1 .. CoroutineCnt : found[i] = SearchStep(found[i - 1], i - 1)
    <2>. HIDE DEF start
    <2>. QED
      BY <1>1, <1>5
  <1>. DEFINE Good == {i \in 0 .. CoroutineCnt : found[i] \in Found /\ FoundBest(found[i], i)}
  <1>8. 0 \in Good
    <2>1. Free(0) = {} /\ AtBarrier(0) = {}
      BY PrioritiesBounded DEF Free, AtBarrier
    <2>. QED
      BY <1>1, <1>7, <2>1 DEF FoundBest
  <1>. HIDE DEF start, step, Step
  <1>9. ASSUME NEW i \in 1 .. CoroutineCnt, i - 1 \in Good PROVE i \in Good
    <2>1. i - 1 \in Cids /\ (i - 1) + 1 = i /\ i \in 0 .. CoroutineCnt
      BY <1>1, <1>2
    <2>2. found[i - 1] \in Found /\ FoundBest(found[i - 1], i - 1)
      BY <1>9
    <2>3. found[i] \in Found /\ FoundBest(found[i], (i - 1) + 1)
      BY <1>7, <2>1, <2>2, SearchStepTyped, SearchStepBest
    <2>. QED
      BY <2>1, <2>3
  <1>10. \A i \in 0 .. CoroutineCnt : i \in Good
    <2>1. Good \in SUBSET (0 .. CoroutineCnt)
      OBVIOUS
    <2>. HIDE DEF Good
    <2>. QED
      BY <1>1, <1>8, <1>9, <2>1, LoopKeeps
  <1>. QED
    BY <1>1, <1>6, <1>10

(***************************************************************************)
(* The loop of CoroutineResume finds the coroutine that IsChosen           *)
(* describes, for any pool size, states and priorities, and none when      *)
(* there is no candidate: the choice the specification makes in one step   *)
(* is the one the code computes.                                           *)
(***************************************************************************)
THEOREM SearchTheorem == Spec => []SearchAgrees
  <1>1. TypeOK => SearchAgrees
    <2>. SUFFICES ASSUME TypeOK PROVE SearchAgrees
      OBVIOUS
    <2>1. FoundBest(Search, CoroutineCnt)
      BY SearchFinds
    <2>2. /\ \A c \in Cids : c < CoroutineCnt
          /\ \A c \in Cids : isInsertBatch[c] \in BOOLEAN
          /\ INVALID \notin Cids
      BY ScheduleAssumption, InvalidIsNoId DEF TypeOK, Cids, ScheduleAssumption
    <2>3. Free(CoroutineCnt) = {c \in Cids : Resumable(c) /\ ~isInsertBatch[c]}
      BY <2>2 DEF Free
    <2>4. CASE ~Search.inserted
      <3>1. Candidates = Free(CoroutineCnt)
        BY <2>1, <2>3, <2>4 DEF Candidates, FoundBest, Best
      <3>. QED
        BY <2>1, <2>2, <2>4, <3>1 DEF SearchAgrees, FoundBest, Best, IsChosen, Free
    <2>5. CASE Search.inserted
      <3>1. Free(CoroutineCnt) = {}
        BY <2>1, <2>5 DEF FoundBest
      <3>2. Candidates = AtBarrier(CoroutineCnt)
        BY <2>2, <2>3, <3>1 DEF Candidates, AtBarrier
      <3>. QED
        BY <2>1, <2>2, <2>5, <3>2 DEF SearchAgrees, FoundBest, Best, IsChosen, AtBarrier
    <2>. QED
      BY <2>4, <2>5
  <1>. QED
    BY <1>1, TypeCorrect, PTL
=============================================================================
