------------------------ MODULE ScanServiceRefinement ------------------------
(* ScanService, seen through what its callers and the disk can tell, keeps *)
(* the promise of ScanPromise.                                             *)
EXTENDS ScanService

(* A caller has its answer when the coroutine has returned; a call whose   *)
(* server ended under it is lost.                                          *)
Outcome ==
  [c \in Calls |-> CASE pc[c] = "done" -> answer[c]
                     [] pc[c] = "lost" -> "lost"
                     [] OTHER          -> "none"]

Kept    == {c \in Calls : tree[c] = "present"}
Working == {c \in Calls : worker[c] \in Live}

Promise == INSTANCE ScanPromise WITH
  service <- server, active <- lock, outcome <- Outcome,
  kept <- Kept, working <- Working

(* The service refines its promise: at most one admitted scan, "busy" only *)
(* while one is admitted, source and worker only for it and the source     *)
(* never removed under the worker, an answer only after both are gone, and *)
(* otherwise no answer but the end of the server.                          *)
KeepsPromise == Promise!Spec
=============================================================================
