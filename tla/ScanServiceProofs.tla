-------------------------- MODULE ScanServiceProofs --------------------------
(* Theorems about ScanService for any set of calls and any bounds.         *)
EXTENDS ScanService, TLAPS

(* Typing.  Every step of the coroutines, the workers and the container    *)
(* keeps each variable within the values its declaration names.            *)
THEOREM Typing == Spec => []TypeOK
  <1>1. Init => TypeOK
    BY ScanServiceAssumption DEF Init, TypeOK, Holding, Waiting, Live, Verdicts, Answers
  <1>2. TypeOK /\ [Next]_vars => TypeOK'
    <2> SUFFICES ASSUME TypeOK, [Next]_vars PROVE TypeOK'
      OBVIOUS
    <2> USE ScanServiceAssumption DEF TypeOK, Holding, Waiting, Live, Verdicts, Answers, process, coroutine
    <2>1. ASSUME NEW c \in Calls, Coroutine(c) PROVE TypeOK'
      <3>1. CASE Reject(c)
        BY <3>1 DEF Reject, ReturnsAtOnce, Resumes, Goto
      <3>2. CASE RefuseBusy(c)
        BY <3>2 DEF RefuseBusy, ReturnsAtOnce, Resumes, Goto
      <3>3. CASE Acquire(c)
        BY <3>3 DEF Acquire, Resumes, Goto
      <3>4. CASE WriteFiles(c)
        BY <3>4 DEF WriteFiles, Runs, Goto
      <3>5. CASE WriteFails(c)
        BY <3>5 DEF WriteFails, Runs, Goto
      <3>6. CASE StartWorker(c)
        BY <3>6 DEF StartWorker, Runs, Goto
      <3>7. CASE StartFails(c)
        BY <3>7 DEF StartFails, Runs, Goto
      <3>8. CASE JoinReturns(c)
        BY <3>8 DEF JoinReturns, Resumes, Goto
      <3>9. CASE CheckWorker(c)
        BY <3>9 DEF CheckWorker, Runs, Goto
      <3>10. CASE StopWorker(c)
        BY <3>10 DEF StopWorker, Runs, Goto, Stopped, Respond
      <3>11. CASE TermJoinReturns(c)
        BY <3>11 DEF TermJoinReturns, Resumes, Goto, Stopped, Respond
      <3>12. CASE KillJoinReturns(c)
        BY <3>12 DEF KillJoinReturns, Resumes, Goto, Stopped, Respond
      <3>13. CASE Cancel(c)
        BY <3>13 DEF Cancel, Resumes, Goto, Respond
      <3>14. CASE ReadResult(c)
        BY <3>14 DEF ReadResult, Runs, Goto, Respond
      <3>15. CASE HandleException(c)
        BY <3>15 DEF HandleException, Runs, Goto, Respond
      <3>16. CASE NothingToClean(c)
        BY <3>16 DEF NothingToClean, Runs, Goto
      <3>17. CASE RemoveTree(c)
        BY <3>17 DEF RemoveTree, Runs, Goto
      <3>18. CASE CleanupFails(c)
        BY <3>18 DEF CleanupFails, Runs, Goto
      <3>19. CASE Release(c)
        BY <3>19 DEF Release, Runs, Goto
      <3>20. CASE Abort(c)
        BY <3>20 DEF Abort, Runs, ServerStops
      <3> QED BY <2>1, <3>1, <3>2, <3>3, <3>4, <3>5, <3>6, <3>7, <3>8, <3>9, <3>10, <3>11, <3>12, <3>13, <3>14, <3>15, <3>16, <3>17, <3>18, <3>19, <3>20 DEF Coroutine
    <2>2. ASSUME NEW c \in Calls, Worker(c) PROVE TypeOK'
      BY <2>2 DEF Worker, OpenResult, WriteResult, WorkerReturns, WorkerRaises, ReportError, WorkerDies, WorkerStep
    <2>3. CASE TemplateDies
      BY <2>3 DEF TemplateDies
    <2>4. CASE Crash
      BY <2>4 DEF Crash, ServerStops
    <2>5. CASE Restart
      BY <2>5 DEF Restart
    <2>6. CASE UNCHANGED vars
      BY <2>6 DEF vars
    <2> QED
      BY <2>1, <2>2, <2>3, <2>4, <2>5, <2>6 DEF Next, Idle
  <1> QED
    BY <1>1, <1>2, PTL DEF Spec

(* The inductive invariant, for every fault of FaultKinds: what is on disk *)
(* and at work, who was cancelled and what is answered is told by where    *)
(* the coroutine stands.                                                   *)
THEOREM Inductive == Spec => []IInv
  <1>1. Init => IInv
    BY ScanServiceAssumption
    DEF Init, IInv, TypeOK, LoopAndLock, WorkerByPlace, TreeByPlace, CancelsByPlace,
        AnswerByPlace, IsAlive, Holding, Waiting, Live, Verdicts, Answers
  <1>2. IInv /\ TypeOK' /\ [Next]_vars => IInv'
    <2> SUFFICES ASSUME IInv, TypeOK', [Next]_vars PROVE IInv'
      OBVIOUS
    <2> USE ScanServiceAssumption
        DEF IInv, TypeOK, LoopAndLock, WorkerByPlace, TreeByPlace, CancelsByPlace,
            AnswerByPlace, IsAlive, Holding, Waiting, Live, Verdicts, Answers, process, coroutine
    <2>1. ASSUME NEW c \in Calls, Coroutine(c) PROVE IInv'
      <3>1. CASE Reject(c) \/ RefuseBusy(c)
        <4> USE <3>1 DEF Reject, RefuseBusy, ReturnsAtOnce, Resumes, Goto
        <4> HIDE DEF LoopAndLock, WorkerByPlace, TreeByPlace, CancelsByPlace, AnswerByPlace
        <4>1. LoopAndLock'
          BY DEF LoopAndLock
        <4>2. WorkerByPlace'
          BY DEF WorkerByPlace
        <4>3. TreeByPlace'
          BY DEF TreeByPlace, WorkerByPlace
        <4>4. CancelsByPlace'
          BY DEF CancelsByPlace, WorkerByPlace
        <4>5. AnswerByPlace'
          BY DEF AnswerByPlace
        <4> QED
          BY <4>1, <4>2, <4>3, <4>4, <4>5
      <3>3. CASE Acquire(c)
        <4> USE <3>3 DEF Acquire, Resumes, Goto
        <4> HIDE DEF LoopAndLock, WorkerByPlace, TreeByPlace, CancelsByPlace, AnswerByPlace
        <4>1. LoopAndLock'
          BY DEF LoopAndLock
        <4>2. WorkerByPlace'
          BY DEF WorkerByPlace
        <4>3. TreeByPlace'
          BY DEF TreeByPlace, WorkerByPlace
        <4>4. CancelsByPlace'
          BY DEF CancelsByPlace, WorkerByPlace
        <4>5. AnswerByPlace'
          BY DEF AnswerByPlace
        <4> QED
          BY <4>1, <4>2, <4>3, <4>4, <4>5
      <3>4. CASE WriteFiles(c)
        BY <3>4 DEF WriteFiles, Runs, Goto
      <3>5. CASE WriteFails(c)
        BY <3>5 DEF WriteFails, Runs, Goto
      <3>6. CASE StartWorker(c)
        <4> USE <3>6 DEF StartWorker, Runs, Goto
        <4> HIDE DEF LoopAndLock, WorkerByPlace, TreeByPlace, CancelsByPlace, AnswerByPlace
        <4>1. LoopAndLock'
          BY DEF LoopAndLock
        <4>2. WorkerByPlace'
          BY DEF WorkerByPlace
        <4>3. TreeByPlace'
          BY DEF TreeByPlace, WorkerByPlace
        <4>4. CancelsByPlace'
          BY DEF CancelsByPlace, WorkerByPlace
        <4>5. AnswerByPlace'
          BY DEF AnswerByPlace, WorkerByPlace
        <4> QED
          BY <4>1, <4>2, <4>3, <4>4, <4>5
      <3>7. CASE StartFails(c)
        BY <3>7 DEF StartFails, Runs, Goto
      <3>8. CASE JoinReturns(c)
        BY <3>8 DEF JoinReturns, Resumes, Goto
      <3>9. CASE CheckWorker(c)
        BY <3>9 DEF CheckWorker, Runs, Goto
      <3>10. CASE StopWorker(c)
        BY <3>10 DEF StopWorker, Runs, Goto, Stopped, Respond
      <3>11. CASE TermJoinReturns(c)
        BY <3>11 DEF TermJoinReturns, Resumes, Goto, Stopped, Respond
      <3>12. CASE KillJoinReturns(c)
        BY <3>12 DEF KillJoinReturns, Resumes, Goto, Stopped, Respond
      <3>13. CASE Cancel(c)
        BY <3>13 DEF Cancel, Resumes, Goto, Respond
      <3>14. CASE ReadResult(c)
        BY <3>14 DEF ReadResult, Runs, Goto, Respond, ExitedNonzero
      <3>15. CASE HandleException(c)
        BY <3>15 DEF HandleException, Runs, Goto, Respond
      <3>16. CASE NothingToClean(c)
        BY <3>16 DEF NothingToClean, Runs, Goto
      <3>17. CASE RemoveTree(c)
        BY <3>17 DEF RemoveTree, Runs, Goto
      <3>18. CASE CleanupFails(c)
        BY <3>18 DEF CleanupFails, Runs, Goto
      <3>19. CASE Release(c)
        BY <3>19 DEF Release, Runs, Goto
      <3>20. CASE Abort(c)
        BY <3>20 DEF Abort, Runs, ServerStops
      <3> QED
        BY <2>1, <3>1, <3>3, <3>4, <3>5, <3>6, <3>7, <3>8, <3>9, <3>10, <3>11, <3>12, <3>13, <3>14, <3>15, <3>16, <3>17, <3>18, <3>19, <3>20 DEF Coroutine
    <2>2. ASSUME NEW c \in Calls, Worker(c) PROVE IInv'
      <3>1. CASE OpenResult(c)
        BY <3>1 DEF OpenResult, WorkerStep
      <3>2. CASE WriteResult(c)
        BY <3>2 DEF WriteResult, WorkerStep
      <3>3. CASE WorkerReturns(c)
        BY <3>3 DEF WorkerReturns, WorkerStep
      <3>4. CASE WorkerRaises(c)
        BY <3>4 DEF WorkerRaises, WorkerStep
      <3>5. CASE ReportError(c)
        BY <3>5 DEF ReportError, WorkerStep
      <3>6. CASE WorkerDies(c)
        BY <3>6 DEF WorkerDies, WorkerStep
      <3> QED
        BY <2>2, <3>1, <3>2, <3>3, <3>4, <3>5, <3>6 DEF Worker
    <2>3. CASE TemplateDies
      BY <2>3 DEF TemplateDies
    <2>4. CASE Crash
      BY <2>4 DEF Crash, ServerStops
    <2>5. CASE Restart
      BY <2>5 DEF Restart
    <2>6. CASE UNCHANGED vars
      BY <2>6 DEF vars
    <2> QED
      BY <2>1, <2>2, <2>3, <2>4, <2>5, <2>6 DEF Next, Idle
  <1> QED
    BY <1>1, <1>2, Typing, PTL DEF Spec

(* Every call runs alone: with a worker at work and the server up, its     *)
(* call holds SCAN_LOCK, so no second worker can be at work.               *)
THEOREM OneScan ==
  ASSUME "template" \notin Faults
  PROVE  Spec => []OneScanAtATime
  <1>1. IInv => OneScanAtATime
    <2> SUFFICES ASSUME IInv, server = "up",
                        NEW c \in Calls, NEW d \in Calls,
                        worker[c] \in Live, worker[d] \in Live
                 PROVE  c = d
      BY DEF OneScanAtATime
    <2>1. pc[c] \in Holding /\ pc[d] \in Holding
      BY DEF IInv, TypeOK, WorkerByPlace, IsAlive, Live, Holding, Waiting
    <2> QED
      BY <2>1 DEF IInv, LoopAndLock
  <1> QED
    BY <1>1, Inductive, PTL

(* While the server runs, only the holder of SCAN_LOCK has source on disk, *)
(* also when its worker was orphaned.                                      *)
THEOREM SourcesOnlyUnderLock ==
  ASSUME "rollback" \notin Faults
  PROVE  Spec => []SourcesUnderLock
  <1>1. IInv => SourcesUnderLock
    <2> SUFFICES ASSUME IInv, server = "up", NEW c \in Calls, tree[c] = "present"
                 PROVE  lock = c
      BY DEF SourcesUnderLock
    <2>1. pc[c] \in Holding
      BY DEF IInv, TypeOK, TreeByPlace, Holding, Waiting
    <2> QED
      BY <2>1 DEF IInv, LoopAndLock
  <1> QED
    BY <1>1, Inductive, PTL

(* The caller that reads temporary_source_state = "deleted" (or            *)
(* "not_created") is told the truth, also when its worker was orphaned.    *)
THEOREM DeletedIsTrue ==
  ASSUME "rollback" \notin Faults
  PROVE  Spec => []DeletedMeansGone
  <1>1. IInv => DeletedMeansGone
    BY DEF IInv, TypeOK, TreeByPlace, DeletedMeansGone
  <1> QED
    BY <1>1, Inductive, PTL

(* A completed scan was not cancelled and its worker ended with code 0; no *)
(* verdict is given while the worker runs.                                 *)
THEOREM VerdictIsTrue ==
  ASSUME "template" \notin Faults
  PROVE  Spec => []VerdictMatchesWorker
  <1>1. IInv => VerdictMatchesWorker
    BY DEF IInv, AnswerByPlace, WorkerByPlace, IsAlive, VerdictMatchesWorker
  <1> QED
    BY <1>1, Inductive, PTL

(* Whatever goes wrong, os._exit(70) is reached only with a request's      *)
(* files still there, and past a live worker only by a second cancellation.*)
THEOREM AbortNeedsCause == Spec => []AbortHasCause
  <1>1. IInv => AbortHasCause
    BY DEF IInv, TreeByPlace, CancelsByPlace, AbortHasCause, Holding
  <1> QED
    BY <1>1, Inductive, PTL

(* Only RemoveTree deletes a tree of a running server, and it does so      *)
(* after is_alive has said that the worker is gone.                        *)
THEOREM TreesOutliveWorkers ==
  ASSUME "template" \notin Faults
  PROVE  Spec => DeletedAfterWorker
  <1>1. IInv /\ [Next]_vars =>
          [\A c \in Calls :
             server = "up" /\ tree[c] = "present" /\ tree'[c] = "absent"
               => worker[c] \notin Live]_vars
    <2> SUFFICES ASSUME IInv, Next, NEW c \in Calls, server = "up",
                        tree[c] = "present", tree'[c] = "absent"
                 PROVE  worker[c] \notin Live
      OBVIOUS
    <2> USE DEF IInv, TypeOK, process, coroutine
    <2>1. ASSUME NEW d \in Calls, Coroutine(d) PROVE RemoveTree(d)
      BY <2>1 DEF Coroutine, Reject, RefuseBusy, ReturnsAtOnce, Acquire, WriteFiles,
                  WriteFails, StartWorker, StartFails, JoinReturns, CheckWorker,
                  StopWorker, TermJoinReturns, KillJoinReturns, Cancel, ReadResult,
                  HandleException, NothingToClean, CleanupFails, Release, Abort, ServerStops
    <2>2. ASSUME NEW d \in Calls, RemoveTree(d) PROVE worker[c] \notin Live
      BY <2>2 DEF RemoveTree, IsAlive, WorkerByPlace
    <2>3. ASSUME NEW d \in Calls, Worker(d) PROVE FALSE
      BY <2>3 DEF Worker, OpenResult, WriteResult, WorkerReturns, WorkerRaises,
                  ReportError, WorkerDies, WorkerStep
    <2>4. ~TemplateDies /\ ~Crash /\ ~Restart /\ ~Idle
      BY DEF TemplateDies, Crash, ServerStops, Restart, Idle, vars
    <2> QED
      BY <2>1, <2>2, <2>3, <2>4 DEF Next
  <1> QED
    BY <1>1, Inductive, PTL DEF Spec, DeletedAfterWorker
=============================================================================
