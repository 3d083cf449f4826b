--------------------- MODULE ScanServiceRefinementProofs ---------------------
(* ScanService implements ScanPromise for any set of calls and any bounds. *)
EXTENDS ScanServiceRefinement, ScanServiceProofs

(* Where the invariant leaves no trace of a scan, the abstract sets are    *)
(* empty; where it does, the trace is the lock holder's.                   *)
LEMMA TracesOfLockHolder ==
  ASSUME "rollback" \notin Faults, "template" \notin Faults, IInv, server = "up"
  PROVE  Kept \subseteq {lock} /\ Working \subseteq {lock}
  <1> USE DEF IInv, TypeOK
  <1>1. ASSUME NEW c \in Kept PROVE c = lock
    <2>1. pc[c] \in Holding
      BY DEF Kept, TreeByPlace, Holding, Waiting
    <2> QED
      BY <2>1 DEF Kept, LoopAndLock
  <1>2. ASSUME NEW c \in Working PROVE c = lock
    <2>1. pc[c] \in Holding
      BY DEF Working, WorkerByPlace, IsAlive, Live, Holding, Waiting
    <2> QED
      BY <2>1 DEF Working, LoopAndLock
  <1> QED
    BY <1>1, <1>2

(* A step of the coroutine that neither returns nor refuses is a step of   *)
(* the active scan, or is not seen.                                        *)
LEMMA ScanOrStutter ==
  ASSUME "rollback" \notin Faults, "template" \notin Faults,
         IInv, IInv', server = "up", server' = "up", lock \in Calls, lock' = lock,
         Outcome' = Outcome, tree' # tree => Working = {} /\ Working' = {}
  PROVE  [Promise!Next]_Promise!vars
  <1>1. Kept' \in SUBSET {lock} /\ Working' \in SUBSET {lock}
    <2> USE DEF IInv, TypeOK
    <2>1. ASSUME NEW c \in Kept' PROVE pc'[c] \in Holding /\ c \in Calls
      BY <2>1 DEF Kept, TreeByPlace, Holding, Waiting
    <2>2. ASSUME NEW c \in Working' PROVE pc'[c] \in Holding /\ c \in Calls
      BY <2>2 DEF Working, WorkerByPlace, IsAlive, Live, Holding, Waiting
    <2> QED
      BY <2>1, <2>2 DEF LoopAndLock
  <1>2. Kept' # Kept => Working = {} /\ Working' = {}
    BY DEF Kept
  <1>3. lock # NoCall
    BY ScanServiceAssumption
  <1> QED
    BY <1>1, <1>2, <1>3 DEF Promise!Next, Promise!Scan

(* What a caller sees changes only when a call is done or lost.            *)
LEMMA SameOutcome ==
  ASSUME TypeOK, NEW c \in Calls, pc[c] \in Holding \cup {"idle"},
         NEW to \in Holding, Goto(c, to),
         \A d \in Calls : d # c => answer'[d] = answer[d]
  PROVE  Outcome' = Outcome
  BY DEF TypeOK, Goto, Outcome, Holding, Waiting

(* The steps between taking the lock and giving it back.                   *)
LEMMA InsideScan ==
  ASSUME "rollback" \notin Faults, "template" \notin Faults, IInv, IInv', NEW c \in Calls,
         \/ WriteFiles(c) \/ WriteFails(c) \/ StartWorker(c) \/ StartFails(c)
         \/ JoinReturns(c) \/ CheckWorker(c) \/ StopWorker(c)
         \/ TermJoinReturns(c) \/ KillJoinReturns(c) \/ Cancel(c)
         \/ ReadResult(c) \/ HandleException(c)
         \/ NothingToClean(c) \/ RemoveTree(c) \/ CleanupFails(c)
  PROVE  [Promise!Next]_Promise!vars
  <1> USE DEF IInv, TypeOK, process, coroutine
  <1>1. pc[c] \in Holding /\ lock' = lock /\ server = "up" /\ server' = "up"
    BY DEF Runs, Resumes, Holding, Waiting, WriteFiles, WriteFails, StartWorker, StartFails, JoinReturns,
           CheckWorker, StopWorker, TermJoinReturns, KillJoinReturns, Cancel,
           ReadResult, HandleException, NothingToClean, RemoveTree, CleanupFails
  <1>2. lock = c
    BY <1>1 DEF LoopAndLock
  <1>3. Outcome' = Outcome
    <2>1. \E to \in Holding : Goto(c, to)
      BY DEF Holding, Waiting, Respond, Stopped, WriteFiles, WriteFails, StartWorker, StartFails, JoinReturns,
           CheckWorker, StopWorker, TermJoinReturns, KillJoinReturns, Cancel,
           ReadResult, HandleException, NothingToClean, RemoveTree, CleanupFails
    <2>2. \A d \in Calls : d # c => answer'[d] = answer[d]
      BY DEF Respond, Stopped, WriteFiles, WriteFails, StartWorker, StartFails, JoinReturns,
           CheckWorker, StopWorker, TermJoinReturns, KillJoinReturns, Cancel,
           ReadResult, HandleException, NothingToClean, RemoveTree, CleanupFails
    <2> QED
      BY <1>1, <2>1, <2>2, SameOutcome
  <1>4. tree' # tree => Working = {} /\ Working' = {}
    <2> SUFFICES ASSUME tree' # tree PROVE Working = {} /\ Working' = {}
      OBVIOUS
    <2>1. WriteFiles(c) \/ RemoveTree(c)
      BY DEF WriteFiles, WriteFails, StartWorker, StartFails, JoinReturns,
           CheckWorker, StopWorker, TermJoinReturns, KillJoinReturns, Cancel,
           ReadResult, HandleException, NothingToClean, RemoveTree, CleanupFails
    <2>2. worker[c] \notin Live /\ worker' = worker
      BY <2>1 DEF WriteFiles, RemoveTree, Runs, IsAlive, WorkerByPlace, Live
    <2>3. Working \subseteq {c}
      BY <1>1, <1>2, TracesOfLockHolder
    <2> QED
      BY <2>2, <2>3 DEF Working
  <1> QED
    BY <1>1, <1>2, <1>3, <1>4, ScanOrStutter


(* The refinement.  Refusals, admissions and answers are the promise's     *)
(* own; everything between is a step of the active scan or unseen; the     *)
(* ends of the server, by os._exit or from outside, are its failures.      *)
THEOREM RefinesPromise ==
  ASSUME "rollback" \notin Faults, "template" \notin Faults
  PROVE  Spec => KeepsPromise
  <1>1. Init => Promise!Init
    BY DEF Init, Promise!Init, Outcome, Kept, Working, Live
  <1>2. IInv /\ IInv' /\ [Next]_vars => [Promise!Next]_Promise!vars
    <2> SUFFICES ASSUME IInv, IInv', [Next]_vars PROVE [Promise!Next]_Promise!vars
      OBVIOUS
    <2>1. ASSUME NEW c \in Calls, Coroutine(c) PROVE [Promise!Next]_Promise!vars
      <3>1. ASSUME NEW why \in Promise!Refusals, ReturnsAtOnce(c, why), why = "busy" => lock # NoCall
            PROVE  Promise!Refuse(c, why)
        <4> USE <3>1 DEF ReturnsAtOnce, Resumes, Goto, process, IInv, TypeOK
        <4>1. Outcome[c] = "none" /\ c # lock
          BY DEF Outcome, LoopAndLock, Holding, Waiting
        <4>2. Outcome' = [Outcome EXCEPT ![c] = why]
          BY DEF Outcome
        <4> QED
          BY <4>1, <4>2 DEF Promise!Refuse, Kept, Working
      <3>2. ASSUME Acquire(c) PROVE Promise!Admit(c)
        <4> USE <3>2 DEF Acquire, Resumes, Goto, process, IInv, TypeOK
        <4>1. Outcome[c] = "none" /\ Outcome' = Outcome
          BY DEF Outcome
        <4> QED
          BY <4>1 DEF Promise!Admit, Kept, Working
      <3>3. ASSUME Release(c) PROVE Promise!Answer(c, answer[c]) /\ answer[c] \in Promise!Verdicts
        <4> USE <3>3 DEF Release, Runs, Goto, process, IInv, TypeOK
        <4>1. lock = c /\ answer[c] \in Verdicts
          BY DEF LoopAndLock, AnswerByPlace, Holding, Waiting
        <4>2. Kept = {} /\ Working = {}
          BY <4>1, TracesOfLockHolder DEF TreeByPlace, WorkerByPlace, IsAlive, Kept, Working
        <4>3. Outcome' = [Outcome EXCEPT ![c] = answer[c]]
          BY DEF Outcome
        <4> QED
          BY <4>1, <4>2, <4>3 DEF Promise!Answer, Promise!Verdicts, Verdicts, Kept, Working
      <3>4. ASSUME Abort(c) PROVE Promise!Fail
        <4> USE <3>4 DEF Abort, Runs, ServerStops, process, IInv, TypeOK
        <4>1. Outcome' = [d \in Calls |-> IF d = lock THEN "lost" ELSE Outcome[d]]
          BY DEF Outcome, LoopAndLock, Holding, Waiting
        <4> QED
          BY <4>1 DEF Promise!Fail, Kept, Working
      <3>5. Reject(c) => ReturnsAtOnce(c, "rejected")
        BY DEF Reject
      <3>6. RefuseBusy(c) => ReturnsAtOnce(c, "busy") /\ lock # NoCall
        BY DEF RefuseBusy
      <3> QED
        BY <2>1, <3>1, <3>2, <3>3, <3>4, <3>5, <3>6, InsideScan
        DEF Coroutine, Promise!Next, Promise!Refusals
    <2>2. ASSUME NEW c \in Calls, Worker(c) PROVE [Promise!Next]_Promise!vars
      <3> USE <2>2 DEF Worker, OpenResult, WriteResult, WorkerReturns, WorkerRaises,
                       ReportError, WorkerDies, WorkerStep, coroutine, IInv, TypeOK
      <3>1. Outcome' = Outcome /\ Kept' = Kept /\ Working' \subseteq Working
        BY DEF Outcome, Kept, Working, Live
      <3>2. CASE server = "down"
        BY <3>1, <3>2 DEF Promise!Next, Promise!WorkEnds
      <3>3. CASE server = "up"
        <4>1. lock = c
          <5>1. c \in Working
            BY DEF Working, Live
          <5> QED
            BY <3>3, <5>1, TracesOfLockHolder
        <4> QED
          BY <3>1, <3>3, <4>1, ScanOrStutter
      <3> QED
        BY <3>2, <3>3
    <2>3. CASE TemplateDies
      BY <2>3 DEF TemplateDies
    <2>4. CASE Crash
      <3> USE <2>4 DEF Crash, ServerStops, process, IInv, TypeOK
      <3>1. Outcome' = [d \in Calls |-> IF d = lock THEN "lost" ELSE Outcome[d]]
        BY DEF Outcome, LoopAndLock, Holding, Waiting
      <3> QED
        BY <3>1 DEF Promise!Next, Promise!Fail, Kept, Working
    <2>5. CASE Restart
      <3> USE <2>5 DEF Restart, coroutine, IInv, TypeOK
      <3>1. Outcome' = Outcome /\ Kept' = {} /\ Working' = {}
        BY DEF Outcome, Kept, Working, Live
      <3> QED
        BY <3>1 DEF Promise!Next, Promise!Recover
    <2>6. CASE UNCHANGED vars
      BY <2>6 DEF vars, coroutine, process, Outcome, Kept, Working, Promise!vars
    <2> QED
      BY <2>1, <2>2, <2>3, <2>4, <2>5, <2>6 DEF Next, Idle
  <1> QED
    BY <1>1, <1>2, Inductive, PTL DEF Spec, KeepsPromise, Promise!Spec
=============================================================================
