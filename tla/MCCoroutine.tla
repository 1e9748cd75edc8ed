---------------------------- MODULE MCCoroutine ----------------------------
(***************************************************************************)
(* CoroutineSchedule for TLC: the master loops and the rules they need.    *)
(***************************************************************************)
EXTENDS CoroutineInvariant

\* The master loops.  PlainCalls is that of coroutineTest in main.cpp; EventCalls
\* is a loop that resumes the coroutine an event belongs to, starts the children
\* of a batch, and resumes owners from batchFinishList.
PlainCalls == {"Resume"}
EventCalls == {"ResumeById", "ResumeInBatch", "ResumeBatchFinish"}

\* The rules the plain loop needs; an empty batch does not stop it.
PlainRules     == {"NoNesting", "NoOpenYield", "OwnBatch", "CheckRoom"}
AllButNonEmpty == AllRules \ {"NonEmpty"}
=============================================================================
