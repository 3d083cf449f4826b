----------------------------- MODULE ScanService -----------------------------
(***************************************************************************)
(* The life of the calls of koda_scan_changed_files inside the one server  *)
(* process: the coroutine scan_changed_files, the lock that admits one     *)
(* scan at a time, the request's files under /tmp/koda-mcp, and the worker *)
(* process that is forked from the forkserver template and scans them.     *)
(*                                                                         *)
(* A coroutine gives up the event loop only where the code awaits, so a    *)
(* step of a coroutine either finds the loop free (it starts or resumes)   *)
(* or already has it.  Workers are operating-system processes and move at  *)
(* any time.  The scan's findings are module ScanWorker's subject: here a  *)
(* result file is only known by what its bytes are.                        *)
(***************************************************************************)
EXTENDS Naturals

CONSTANTS
  Calls,      \* the calls of the tool, each with a request_id of its own
  NoCall,     \* the lock, or the event loop, is free
  Faults,     \* what may go wrong in this instance, see FaultKinds
  MaxCancels, \* how often one call may be cancelled
  MaxCrashes  \* how often the server process may be killed from outside

(***************************************************************************)
(* "write"     writing the request's files, or making their root, raises   *)
(* "rollback"  the root of a failed write stays behind: the rmtree of the  *)
(*             rollback ignores its errors, and nothing rolls back a       *)
(*             failure between root.mkdir and the try                      *)
(* "start"     Process.start raises                                        *)
(* "cleanup"   rmtree raises OSError                                       *)
(* "worker"    a checker raises, the result cannot be written, or the      *)
(*             kernel kills the worker                                     *)
(* "template"  the forkserver template dies while a worker runs            *)
(***************************************************************************)
FaultKinds == {"write", "rollback", "start", "cleanup", "worker", "template"}

ASSUME ScanServiceAssumption ==
  /\ NoCall \notin Calls
  /\ Faults \subseteq FaultKinds
  /\ MaxCancels \in Nat
  /\ MaxCrashes \in Nat

VARIABLES
  server,   \* the server process: "up" or "down"
  crashes,  \* how often it was killed
  loop,     \* the call whose coroutine is executing on the event loop
  lock,     \* the call that holds SCAN_LOCK
  pc,       \* where each coroutine stands
  handling, \* it is in its "except BaseException" clause
  cancels,  \* how often it was cancelled
  root,     \* its local variable root is not None
  answer,   \* its local variable response, returned once pc is "done"
  tree,     \* its directory under TEMP_ROOT_BASE
  result,   \* the bytes at its result_path
  worker,   \* its worker process
  orphan,   \* the template that forked that worker is gone
  signal    \* the last signal sent to that worker

coroutine == <<loop, lock, pc, handling, cancels, root, answer>>
process   == <<result, worker, orphan, signal>>
vars      == <<server, crashes, coroutine, tree, process>>

Waiting == {"join", "termJoin", "killJoin"}
Holding == {"write", "start", "check", "stop", "read", "except",
            "cleanup", "release", "abort"} \cup Waiting
Live    == {"scanning", "writing", "wrote", "failing"}
Verdicts == {"completed", "timed_out", "scanner_error", "result_invalid", "raised"}
Answers == {"none", "rejected", "busy"} \cup Verdicts

Init ==
  /\ server = "up"
  /\ crashes = 0
  /\ loop = NoCall
  /\ lock = NoCall
  /\ pc = [c \in Calls |-> "idle"]
  /\ handling = [c \in Calls |-> FALSE]
  /\ cancels = [c \in Calls |-> 0]
  /\ root = [c \in Calls |-> FALSE]
  /\ answer = [c \in Calls |-> "none"]
  /\ tree = [c \in Calls |-> "absent"]
  /\ result = [c \in Calls |-> "absent"]
  /\ worker = [c \in Calls |-> "none"]
  /\ orphan = [c \in Calls |-> FALSE]
  /\ signal = [c \in Calls |-> "none"]

-----------------------------------------------------------------------------
(* The coroutine.                                                          *)

(* Process.is_alive: the parent learns of its child through a pipe whose   *)
(* only other end is in the template, so an orphan counts as ended.        *)
IsAlive(c) == worker[c] \in Live /\ ~orphan[c]

(* Mutant: the exit code of the worker is not looked at.                   *)
ExitCodeIgnored(c) == FALSE

(* Process.exitcode # 0; a pipe that closed unread stands for code 255.    *)
ExitedNonzero(c) == worker[c] = "failed" \/ orphan[c]

(* A step at the head of a coroutine or just after an await.               *)
Resumes(c, from) ==
  /\ server = "up"
  /\ loop = NoCall
  /\ pc[c] = from

(* A step of the coroutine that has the event loop.                        *)
Runs(c, from) ==
  /\ server = "up"
  /\ loop = c
  /\ pc[c] = from

Goto(c, to) == pc' = [pc EXCEPT ![c] = to]

(* The coroutine has computed a response and enters its finally clause.    *)
Respond(c, value) ==
  /\ Goto(c, "cleanup")
  /\ answer' = [answer EXCEPT ![c] = value]

(* It returns without having awaited or taken the lock.                    *)
ReturnsAtOnce(c, value) ==
  /\ Resumes(c, "idle")
  /\ Goto(c, "done")
  /\ answer' = [answer EXCEPT ![c] = value]
  /\ UNCHANGED <<server, crashes, loop, lock, handling, cancels, root, tree, process>>

Reject(c) == ReturnsAtOnce(c, "rejected")

RefuseBusy(c) == lock # NoCall /\ ReturnsAtOnce(c, "busy")

Acquire(c) ==
  /\ Resumes(c, "idle")
  /\ lock = NoCall
  /\ lock' = c
  /\ loop' = c
  /\ Goto(c, "write")
  /\ UNCHANGED <<server, crashes, handling, cancels, root, answer, tree, process>>

WriteFiles(c) ==
  /\ Runs(c, "write")
  /\ tree' = [tree EXCEPT ![c] = "present"]
  /\ root' = [root EXCEPT ![c] = TRUE]
  /\ Goto(c, "start")
  /\ UNCHANGED <<server, crashes, loop, lock, handling, cancels, answer, process>>

(* The exception leaves the caller's root at None whatever stays on disk.  *)
WriteFails(c) ==
  /\ "write" \in Faults
  /\ Runs(c, "write")
  /\ \/ UNCHANGED tree
     \/ "rollback" \in Faults /\ tree' = [tree EXCEPT ![c] = "present"]
  /\ Goto(c, "except")
  /\ UNCHANGED <<server, crashes, loop, lock, handling, cancels, root, answer, process>>

StartWorker(c) ==
  /\ Runs(c, "start")
  /\ worker' = [worker EXCEPT ![c] = "scanning"]
  /\ loop' = NoCall
  /\ Goto(c, "join")
  /\ UNCHANGED <<server, crashes, lock, handling, cancels, root, answer, tree,
                 result, orphan, signal>>

StartFails(c) ==
  /\ "start" \in Faults
  /\ Runs(c, "start")
  /\ Goto(c, "except")
  /\ UNCHANGED <<server, crashes, loop, lock, handling, cancels, root, answer, tree, process>>

(* join(SCAN_TIMEOUT_SECONDS) returns when the worker ends or after 60 s.  *)
JoinReturns(c) ==
  /\ Resumes(c, "join")
  /\ loop' = c
  /\ Goto(c, "check")
  /\ UNCHANGED <<server, crashes, lock, handling, cancels, root, answer, tree, process>>

CheckWorker(c) ==
  /\ Runs(c, "check")
  /\ Goto(c, IF IsAlive(c) THEN "stop" ELSE "read")
  /\ UNCHANGED <<server, crashes, loop, lock, handling, cancels, root, answer, tree, process>>

(* Whoever stops a worker answers next: the timeout or the except clause.  *)
Stopped(c) == Respond(c, IF handling[c] THEN "scanner_error" ELSE "timed_out")

StopWorker(c) ==
  /\ Runs(c, "stop")
  /\ IF IsAlive(c)
     THEN /\ signal' = [signal EXCEPT ![c] = "term"]
          /\ loop' = NoCall
          /\ Goto(c, "termJoin")
          /\ UNCHANGED answer
     ELSE /\ Stopped(c)
          /\ UNCHANGED <<loop, signal>>
  /\ UNCHANGED <<server, crashes, lock, handling, cancels, root, tree, result, worker, orphan>>

(* Mutant: SIGTERM is trusted, and the worker is never killed.             *)
TermJoinTrusted(c) ==
  /\ Resumes(c, "termJoin")
  /\ ~IsAlive(c)
  /\ loop' = c
  /\ Stopped(c)
  /\ UNCHANGED <<server, crashes, lock, handling, cancels, root, tree, process>>

(* join(2.0) returns when the worker ends or after two seconds.            *)
TermJoinReturns(c) ==
  /\ Resumes(c, "termJoin")
  /\ IF IsAlive(c)
     THEN /\ signal' = [signal EXCEPT ![c] = "kill"]
          /\ Goto(c, "killJoin")
          /\ UNCHANGED <<loop, answer>>
     ELSE /\ loop' = c
          /\ Stopped(c)
          /\ UNCHANGED signal
  /\ UNCHANGED <<server, crashes, lock, handling, cancels, root, tree, result, worker, orphan>>

(* The last join has no timeout.                                           *)
KillJoinReturns(c) ==
  /\ Resumes(c, "killJoin")
  /\ ~IsAlive(c)
  /\ loop' = c
  /\ Stopped(c)
  /\ UNCHANGED <<server, crashes, lock, handling, cancels, root, tree, process>>

(* A cancellation is raised by the await; in the except clause nothing     *)
(* catches it and the finally clause runs without a response.              *)
Cancel(c) ==
  /\ pc[c] \in Waiting
  /\ Resumes(c, pc[c])
  /\ cancels[c] < MaxCancels
  /\ cancels' = [cancels EXCEPT ![c] = @ + 1]
  /\ loop' = c
  /\ IF handling[c] THEN Respond(c, "raised")
                    ELSE Goto(c, "except") /\ UNCHANGED answer
  /\ UNCHANGED <<server, crashes, lock, handling, root, tree, process>>

(* Mutant: the verdict is the one the worker's document states.            *)
ResultTrusted(c) ==
  /\ Runs(c, "read")
  /\ Respond(c, result[c])
  /\ UNCHANGED <<server, crashes, loop, lock, handling, cancels, root, tree, process>>

ReadResult(c) ==
  /\ Runs(c, "read")
  /\ Respond(c, IF ExitedNonzero(c)
                THEN IF result[c] = "error" THEN "scanner_error" ELSE "result_invalid"
                ELSE IF result[c] = "ok" THEN "completed" ELSE "result_invalid")
  /\ UNCHANGED <<server, crashes, loop, lock, handling, cancels, root, tree, process>>

(* Mutant: the except clause does not stop the worker.                     *)
HandleExceptionAtOnce(c) ==
  /\ Runs(c, "except")
  /\ handling' = [handling EXCEPT ![c] = TRUE]
  /\ Respond(c, "scanner_error")
  /\ UNCHANGED <<server, crashes, loop, lock, cancels, root, tree, process>>

HandleException(c) ==
  /\ Runs(c, "except")
  /\ handling' = [handling EXCEPT ![c] = TRUE]
  /\ IF IsAlive(c) THEN Goto(c, "stop") /\ UNCHANGED answer
                   ELSE Respond(c, "scanner_error")
  /\ UNCHANGED <<server, crashes, loop, lock, cancels, root, tree, process>>

-----------------------------------------------------------------------------
(* The finally clause.                                                     *)

(* _cleanup_temp_root has nothing to do when root is None.                 *)
NothingToClean(c) ==
  /\ Runs(c, "cleanup")
  /\ ~IsAlive(c)
  /\ ~root[c]
  /\ Goto(c, "release")
  /\ UNCHANGED <<server, crashes, loop, lock, handling, cancels, root, answer, tree, process>>

(* Mutant: the finally clause does not ask whether the worker is alive.    *)
RemoveTreeAnyway(c) ==
  /\ Runs(c, "cleanup")
  /\ root[c]
  /\ tree' = [tree EXCEPT ![c] = "absent"]
  /\ result' = [result EXCEPT ![c] = "absent"]
  /\ Goto(c, "release")
  /\ UNCHANGED <<server, crashes, loop, lock, handling, cancels, root, answer,
                 worker, orphan, signal>>

RemoveTree(c) ==
  /\ Runs(c, "cleanup")
  /\ ~IsAlive(c)
  /\ root[c]
  /\ tree' = [tree EXCEPT ![c] = "absent"]
  /\ result' = [result EXCEPT ![c] = "absent"]
  /\ Goto(c, "release")
  /\ UNCHANGED <<server, crashes, loop, lock, handling, cancels, root, answer,
                 worker, orphan, signal>>

(* Mutant: rmtree(root, ignore_errors=True).                               *)
CleanupIgnoresErrors(c) ==
  /\ Runs(c, "cleanup")
  /\ ~IsAlive(c)
  /\ root[c] /\ ("cleanup" \in Faults \/ worker[c] \in Live)
  /\ Goto(c, "release")
  /\ UNCHANGED <<server, crashes, loop, lock, handling, cancels, root, answer, tree, process>>

(* A worker is left, or rmtree raises: a disk fault, or an orphan created  *)
(* a file while the directory was being emptied.                           *)
CleanupFails(c) ==
  /\ Runs(c, "cleanup")
  /\ \/ IsAlive(c)
     \/ root[c] /\ ("cleanup" \in Faults \/ worker[c] \in Live)
  /\ Goto(c, "abort")
  /\ UNCHANGED <<server, crashes, loop, lock, handling, cancels, root, answer, tree, process>>

(* Mutant: the lock is given back only on the way of an ordinary return.   *)
ReleaseOnReturn(c) ==
  /\ Runs(c, "release")
  /\ lock' = IF answer[c] = "raised" THEN lock ELSE NoCall
  /\ loop' = NoCall
  /\ Goto(c, "done")
  /\ UNCHANGED <<server, crashes, handling, cancels, root, answer, tree, process>>

Release(c) ==
  /\ Runs(c, "release")
  /\ lock' = NoCall
  /\ loop' = NoCall
  /\ Goto(c, "done")
  /\ UNCHANGED <<server, crashes, handling, cancels, root, answer, tree, process>>

(* Mutant: SystemExit, which the event loop survives, for os._exit.        *)
CoroutineStops ==
  /\ loop' = NoCall
  /\ lock' = NoCall
  /\ pc' = [c \in Calls |-> IF pc[c] \in Holding THEN "lost" ELSE pc[c]]
  /\ UNCHANGED <<server, handling, cancels, root, answer, tree, process>>

(* The process is gone: no coroutine, lock or answer survives it.          *)
ServerStops ==
  /\ server' = "down"
  /\ loop' = NoCall
  /\ lock' = NoCall
  /\ pc' = [c \in Calls |-> IF pc[c] \in Holding THEN "lost" ELSE pc[c]]
  /\ UNCHANGED <<handling, cancels, root, answer, tree, process>>

(* The lock is released before os._exit(70), with no await between.        *)
Abort(c) ==
  /\ Runs(c, "abort")
  /\ ServerStops
  /\ UNCHANGED crashes

Crash ==
  /\ server = "up"
  /\ crashes < MaxCrashes
  /\ crashes' = crashes + 1
  /\ ServerStops

(* Mutant: only uvicorn is started again, beside the workers it had.       *)
RestartInPlace ==
  /\ server = "down"
  /\ server' = "up"
  /\ UNCHANGED <<crashes, coroutine, tree, process>>

(* "restart: unless-stopped" starts a new container: its processes ended   *)
(* with the old one and its /tmp is a new tmpfs.                           *)
Restart ==
  /\ server = "down"
  /\ server' = "up"
  /\ tree' = [c \in Calls |-> "absent"]
  /\ result' = [c \in Calls |-> "absent"]
  /\ worker' = [c \in Calls |-> IF worker[c] \in Live THEN "failed" ELSE worker[c]]
  /\ UNCHANGED <<crashes, coroutine, orphan, signal>>

-----------------------------------------------------------------------------
(* The worker process.                                                     *)

WorkerStep(c, from, to) ==
  /\ worker[c] = from
  /\ worker' = [worker EXCEPT ![c] = to]
  /\ UNCHANGED <<server, crashes, coroutine, tree, orphan, signal>>

(* O_CREAT | O_EXCL at result_path; without the directory the open raises. *)
OpenResult(c) ==
  IF tree[c] = "present" /\ result[c] = "absent"
  THEN /\ WorkerStep(c, "scanning", "writing")
       /\ result' = [result EXCEPT ![c] = "partial"]
  ELSE /\ WorkerStep(c, "scanning", "failing")
       /\ UNCHANGED result

(* A payload over MAX_RESULT_BYTES is replaced by an error document, and   *)
(* an unlinked file takes the bytes with it.                               *)
WriteResult(c) ==
  /\ WorkerStep(c, "writing", "wrote")
  /\ IF result[c] = "partial"
     THEN \E bytes \in {"ok", "oversize"} : result' = [result EXCEPT ![c] = bytes]
     ELSE UNCHANGED result

WorkerReturns(c) ==
  /\ WorkerStep(c, "wrote", "succeeded")
  /\ UNCHANGED result

WorkerRaises(c) ==
  /\ "worker" \in Faults
  /\ \E from \in {"scanning", "writing"} : WorkerStep(c, from, "failing")
  /\ UNCHANGED result

(* The error document goes to the same path, so O_EXCL refuses it when a   *)
(* file is there; SystemExit(1) follows either way.                        *)
ReportError(c) ==
  /\ WorkerStep(c, "failing", "failed")
  /\ IF tree[c] = "present" /\ result[c] = "absent"
     THEN \E bytes \in {"error"} \cup (IF "worker" \in Faults THEN {"absent", "partial"} ELSE {}) :
            result' = [result EXCEPT ![c] = bytes]
     ELSE UNCHANGED result

WorkerDies(c) ==
  /\ signal[c] # "none" \/ "worker" \in Faults
  /\ \E from \in Live : WorkerStep(c, from, "failed")
  /\ UNCHANGED result

TemplateDies ==
  /\ "template" \in Faults
  /\ \E c \in Calls : IsAlive(c)
  /\ orphan' = [c \in Calls |-> orphan[c] \/ worker[c] \in Live]
  /\ UNCHANGED <<server, crashes, coroutine, tree, result, worker, signal>>

-----------------------------------------------------------------------------

Coroutine(c) ==
  \/ Reject(c) \/ RefuseBusy(c) \/ Acquire(c)
  \/ WriteFiles(c) \/ WriteFails(c) \/ StartWorker(c) \/ StartFails(c)
  \/ JoinReturns(c) \/ CheckWorker(c) \/ StopWorker(c)
  \/ TermJoinReturns(c) \/ KillJoinReturns(c) \/ Cancel(c)
  \/ ReadResult(c) \/ HandleException(c)
  \/ NothingToClean(c) \/ RemoveTree(c) \/ CleanupFails(c)
  \/ Release(c) \/ Abort(c)

Worker(c) ==
  \/ OpenResult(c) \/ WriteResult(c) \/ WorkerReturns(c)
  \/ WorkerRaises(c) \/ ReportError(c) \/ WorkerDies(c)

(* Every call is settled and the server waits for connections.             *)
Idle ==
  /\ server = "up"
  /\ \A c \in Calls : pc[c] \in {"done", "lost"} /\ worker[c] \notin Live
  /\ UNCHANGED vars

Next ==
  \/ \E c \in Calls : Coroutine(c) \/ Worker(c)
  \/ TemplateDies
  \/ Crash
  \/ Restart
  \/ Idle

Spec == Init /\ [][Next]_vars

(***************************************************************************)
(* The event loop runs every coroutine that can go on, asyncio.to_thread   *)
(* delivers every join, whose timeouts elapse; SIGKILL cannot be refused;  *)
(* the container is restarted.  Nothing is assumed of a worker that was    *)
(* not killed: a line rule may run for minutes, and SIGTERM may be late.   *)
(***************************************************************************)
Advance(c) == pc[c] \in Holding /\ Coroutine(c) /\ cancels'[c] = cancels[c]

KillLands(c) == signal[c] = "kill" /\ WorkerDies(c)

Fairness ==
  /\ \A c \in Calls : WF_vars(Advance(c)) /\ WF_vars(KillLands(c))
  /\ WF_vars(Restart)

FairSpec == Spec /\ Fairness

-----------------------------------------------------------------------------
(* Properties.                                                             *)

(* Every variable keeps to the values the code can give it.                *)
TypeOK ==
  /\ server \in {"up", "down"}
  /\ crashes \in 0..MaxCrashes
  /\ loop \in Calls \cup {NoCall}
  /\ lock \in Calls \cup {NoCall}
  /\ pc \in [Calls -> Holding \cup {"idle", "done", "lost"}]
  /\ handling \in [Calls -> BOOLEAN]
  /\ cancels \in [Calls -> 0..MaxCancels]
  /\ root \in [Calls -> BOOLEAN]
  /\ answer \in [Calls -> Answers]
  /\ tree \in [Calls -> {"absent", "present"}]
  /\ result \in [Calls -> {"absent", "partial", "ok", "oversize", "error"}]
  /\ worker \in [Calls -> Live \cup {"none", "succeeded", "failed"}]
  /\ orphan \in [Calls -> BOOLEAN]
  /\ signal \in [Calls -> {"none", "term", "kill"}]

(* A running server never has two workers at work: SCAN_LOCK is given back *)
(* only after the worker was joined, or stopped, or with the server's end, *)
(* whichever way timeouts, cancellations and exceptions came in between.   *)
OneScanAtATime ==
  server = "up" =>
    \A c, d \in Calls : worker[c] \in Live /\ worker[d] \in Live => c = d

(* While the server runs, a request's source lies under /tmp/koda-mcp only *)
(* as long as its call holds SCAN_LOCK.                                    *)
SourcesUnderLock ==
  server = "up" => \A c \in Calls : tree[c] = "present" => lock = c

(* Every answer says temporary_source_state "not_created" or "deleted"; by *)
(* the time the caller has it, that is so: cleaning up after the response  *)
(* was built either succeeded or took the server down unanswered.          *)
DeletedMeansGone ==
  \A c \in Calls : pc[c] = "done" => tree[c] = "absent"

(* "completed" is said only of a scan that was never cancelled and whose   *)
(* worker ended with exit code 0; any other verdict of a scan, a timeout   *)
(* above all, is handed out only when its worker is no longer running.     *)
VerdictMatchesWorker ==
  \A c \in Calls :
    /\ answer[c] = "completed" => worker[c] = "succeeded" /\ cancels[c] = 0
    /\ pc[c] = "done" => worker[c] \notin Live

(* A file tree is never deleted under a worker that is still at work in it.*)
DeletedAfterWorker ==
  [][\A c \in Calls :
       server = "up" /\ tree[c] = "present" /\ tree'[c] = "absent"
         => worker[c] \notin Live]_vars

(* os._exit(70) needs a cause: the files of the request could not be       *)
(* removed, or a call was cancelled a second time while it stopped its     *)
(* worker.  No timeout, failed write, dead worker or lone cancellation     *)
(* takes the server down.                                                  *)
AbortHasCause ==
  \A c \in Calls :
    pc[c] = "abort" => IF IsAlive(c) THEN cancels[c] > 1 ELSE tree[c] = "present"

(* The inductive invariant behind the safety properties above: where a     *)
(* coroutine stands tells who has the event loop and the lock, and what    *)
(* may be left of its scan.  Two faults leave more: "template" a worker    *)
(* that counts as ended, "rollback" a tree that nobody knows of.           *)
LoopAndLock ==
  /\ server = "down" => lock = NoCall
  /\ loop # NoCall => lock = loop
  /\ \A c \in Calls :
       /\ pc[c] \in Holding <=> lock = c
       /\ pc[c] \in Holding \ Waiting <=> loop = c

WorkerByPlace ==
  \A c \in Calls :
    /\ orphan[c] => "template" \in Faults
    /\ pc[c] \in {"idle", "write", "start"} => worker[c] = "none" /\ cancels[c] = 0
    /\ pc[c] \in {"read", "release", "done"} => ~IsAlive(c)
    /\ pc[c] \in {"join", "check", "read"} => worker[c] # "none" /\ cancels[c] = 0
    /\ pc[c] = "lost" /\ worker[c] \in Live => server = "down"

TreeByPlace ==
  \A c \in Calls :
    /\ pc[c] \in {"idle", "write"} => tree[c] = "absent" /\ ~root[c]
    /\ pc[c] \in {"release", "done"} /\ tree[c] = "present" => "rollback" \in Faults
    /\ pc[c] \in Holding /\ tree[c] = "present" /\ ~root[c] => "rollback" \in Faults
    /\ pc[c] \in Holding \ {"release"} /\ root[c] => tree[c] = "present"
    /\ pc[c] \in Holding /\ (pc[c] = "start" \/ worker[c] # "none") => root[c]
    /\ pc[c] = "lost" /\ tree[c] = "present" => server = "down"

(* A worker that is still alive when its call gives up was left there by a *)
(* cancellation; that it is alive at the end takes a second one.           *)
CancelsByPlace ==
  \A c \in Calls :
    /\ pc[c] \in {"idle", "write", "start", "join", "check"} => ~handling[c]
    /\ pc[c] = "except" => ~handling[c]
    /\ IsAlive(c) /\ (handling[c] \/ pc[c] = "except") => cancels[c] > 0
    /\ IsAlive(c) /\ pc[c] \in {"cleanup", "abort"} => cancels[c] > 1
    /\ pc[c] = "abort" => root[c]

AnswerByPlace ==
  \A c \in Calls :
    /\ pc[c] \in {"cleanup", "release", "abort"} => answer[c] \in Verdicts
    /\ answer[c] = "completed" =>
         /\ pc[c] \in {"cleanup", "release", "abort", "done", "lost"}
         /\ worker[c] = "succeeded"
         /\ cancels[c] = 0

IInv ==
  /\ TypeOK
  /\ LoopAndLock
  /\ WorkerByPlace
  /\ TreeByPlace
  /\ CancelsByPlace
  /\ AnswerByPlace

(* A call that has taken SCAN_LOCK returns, or the server it ran in ended: *)
(* also with a worker that never finishes and ignores SIGTERM.             *)
CallSettles ==
  \A c \in Calls : pc[c] \in Holding ~> pc[c] \in {"done", "lost"}

(* The service always comes back to a state in which it admits a scan.     *)
Available == []<>(server = "up" /\ lock = NoCall)
=============================================================================
