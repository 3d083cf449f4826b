---------------------------- MODULE MCScanService ----------------------------
(* Constants for checking ScanService, and its refinement of ScanPromise,  *)
(* on small sets of calls.                                                 *)
EXTENDS ScanServiceRefinement, TLC

CONSTANTS c1, c2, c3

TwoCalls   == {c1, c2}
ThreeCalls == {c1, c2, c3}

ThreeSymmetric == Permutations(ThreeCalls)

(* Faults the code claims to handle without leaving anything behind.       *)
HandledFaults == {"write", "start", "cleanup", "worker"}

RollbackFaults == HandledFaults \cup {"rollback"}
TemplateFaults == HandledFaults \cup {"template"}
=============================================================================
