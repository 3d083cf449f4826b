----------------------------- MODULE ScanPromise -----------------------------
(***************************************************************************)
(* What the scan tool promises its callers, without processes, timeouts or *)
(* cancellations: a call is refused at once or becomes the one active      *)
(* scan; source is kept, and a worker works, only for the active scan; its *)
(* answer comes when neither is left.  A server that cannot keep this      *)
(* fails instead of answering.                                             *)
(***************************************************************************)
CONSTANTS Calls, NoCall

VARIABLES
  service, \* "up" or "down"
  active,  \* the admitted call, or NoCall
  outcome, \* what each caller has got
  kept,    \* the calls whose source is on disk
  working  \* the calls whose worker is at work

vars == <<service, active, outcome, kept, working>>

Refusals == {"rejected", "busy"}
Verdicts == {"completed", "timed_out", "scanner_error", "result_invalid", "raised"}

Init ==
  /\ service = "up"
  /\ active = NoCall
  /\ outcome = [c \in Calls |-> "none"]
  /\ kept = {}
  /\ working = {}

Refuse(c, why) ==
  /\ service = "up"
  /\ outcome[c] = "none"
  /\ c # active
  /\ why = "busy" => active # NoCall
  /\ outcome' = [outcome EXCEPT ![c] = why]
  /\ UNCHANGED <<service, active, kept, working>>

Admit(c) ==
  /\ service = "up"
  /\ active = NoCall
  /\ outcome[c] = "none"
  /\ active' = c
  /\ UNCHANGED <<service, outcome, kept, working>>

(* While a scan is active its source and its worker come and go, and the   *)
(* source does not go before the worker.                                   *)
Scan ==
  /\ service = "up"
  /\ active # NoCall
  /\ kept' \in SUBSET {active}
  /\ working' \in SUBSET {active}
  /\ kept' # kept => working = {} /\ working' = {}
  /\ UNCHANGED <<service, active, outcome>>

Answer(c, verdict) ==
  /\ service = "up"
  /\ active = c
  /\ kept = {}
  /\ working = {}
  /\ active' = NoCall
  /\ outcome' = [outcome EXCEPT ![c] = verdict]
  /\ UNCHANGED <<service, kept, working>>

(* The active call never hears of its scan.                                *)
Fail ==
  /\ service = "up"
  /\ service' = "down"
  /\ active' = NoCall
  /\ outcome' = [c \in Calls |-> IF c = active THEN "lost" ELSE outcome[c]]
  /\ UNCHANGED <<kept, working>>

WorkEnds ==
  /\ service = "down"
  /\ working' \in SUBSET working
  /\ UNCHANGED <<service, active, outcome, kept>>

Recover ==
  /\ service = "down"
  /\ service' = "up"
  /\ kept' = {}
  /\ working' = {}
  /\ UNCHANGED <<active, outcome>>

Next ==
  \/ \E c \in Calls :
       \/ \E why \in Refusals : Refuse(c, why)
       \/ Admit(c)
       \/ \E verdict \in Verdicts : Answer(c, verdict)
  \/ Scan
  \/ Fail
  \/ WorkEnds
  \/ Recover

Spec == Init /\ [][Next]_vars
=============================================================================
