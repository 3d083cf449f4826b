# A verification project for KODA MCP

KODA MCP is an HTTP server with two tools for coding agents: `koda_get_security_guidance`
looks rules up, and `koda_scan_changed_files` takes the contents of changed files, scans them
in a worker process and answers with findings. These modules model the program under
`src/src/`, check the models with TLC and prove the safety properties the runs check with TLAPS,
all but five of the checks of code, which are named with the reason in section 5. `PROJECT.json`
maps every definition to the lines it stands for.

## 1. Inventory

| Component | State it keeps | Operations | What is hard about it |
|---|---|---|---|
| Scan service, `koda_mcp/scan_service.py` | `SCAN_LOCK`; per call the locals `root`, `process`, `response`; the request's directory under `/tmp/koda-mcp`; the worker process | `scan_changed_files` from validation to release, `_stop_worker`, `_cleanup_temp_root`, `_terminate_server_after_cleanup_failure` | cancellation at every `await`, a timeout racing a late result, signals, a dead template, failing clean-up, `os._exit` |
| Request validation, same file | none | `_normalize_path`, `_validate_files`, `_write_request_files` | limits at the boundary, two spellings of one path, paths that contain each other |
| Scan worker, `koda_mcp/_worker.py` | the result document | `_scan_worker`: four checks per file, redaction, sorting, truncation, the document | one file or one finding that raises discards everything; its idea of "examined" has to match the server's |
| Criteria and guidance, `_worker.py`, `scan_service.py` | none | `_criteria_for_rule`, `_standard_references_for_rules`, `get_security_guidance` | a bounded selection under three competing orders |
| HTTP front, `koda_mcp/server.py` | configuration; per request the tracker's buffers | `load_config`, the gate, `_ResponseTracker`, the audit record | the record is recovered from bytes that went by, after an end of any kind, by code that can itself fail |
| Code patterns, `koda_core/checks/code_patterns.py` | per file the code view, the statements, taint and scopes; per detector the names it follows | `check_file`, its dataflow pass and line rules; the detectors for null state, XML factories, MyBatis, JSP and the SW49 list | state carried over lines and scopes, each walk with its own reset; the same statement read twice |
| Configuration check, `checks/configuration.py` | per file the block scalar it is in | `check_file` and one walk for each kind of file | where a block ends, which of two texts of a line (raw or without its comment) a rule reads |
| Secrets, dependencies checks | none | `check_file` each | early returns; errors in one manifest |
| Text cache, `checks/common.py` | `lru_cache` | `read_text_lines` | key is time and size; harmless, as a worker serves one request |
| Schemas `contracts.py`, models, catalogue data | none | validators | declarative |
| Deployment | container | restart, tmpfs | what a crash leaves behind |

Interactions: an HTTP request passes the gate, the MCP SDK (external) calls a tool, the tool
runs as a coroutine on one event loop and awaits `asyncio.to_thread` calls. The scan writes
files, starts a worker through the forkserver template, waits for it, reads the result file it
leaves, deletes the files and releases the lock. Service and worker share the directory, the
exit code and signals, nothing else. The answer goes back through the response tracker.

Correctness, in a sentence for each part: one scan at a time, source on disk only during it,
no answer that is not true, every call settles (service); what is accepted can be written
within the limits and inside the root (validation); nothing is dropped silently and the server
accepts what the worker writes (worker); the selection is bounded, complete and described
(criteria); one record per request whose body can be read back, of the caller who was admitted (front); live text is read,
dead text is not, and "confirmed" means a flow (code patterns). The hazards that could break
these are listed with their lines in `PROJECT.json`.

## 2. Modules

| Module | Models | State and actions |
|---|---|---|
| `ScanService` | the life of the calls of the scan tool | `pc[c]` is where a coroutine stands, `loop` the coroutine that executes, `lock` is `SCAN_LOCK`; `root`, `answer` are its locals; `tree`, `result` the disk; `worker`, `orphan`, `signal` the process. One action per stretch between awaits: `Acquire`, `WriteFiles`, `StartWorker`, `JoinReturns`, `CheckWorker`, `StopWorker`, `TermJoinReturns`, `KillJoinReturns`, `Cancel`, `ReadResult`, `HandleException`, `RemoveTree`, `CleanupFails`, `Release`, `Abort`; the worker's own steps; `TemplateDies`, `Crash`, `Restart` |
| `ScanPromise` | what callers and the disk may see: the abstract specification | `Refuse`, `Admit`, `Scan`, `Answer`, `Fail`, `Recover`, `WorkEnds` |
| `ScanServiceRefinement` | the refinement mapping | `Outcome`, `Kept`, `Working`; `KeepsPromise` is `ScanPromise`'s specification |
| `ScanServiceProofs`, `ScanServiceRefinementProofs`, `ScanWorkerProofs`, `CriteriaProofs`, `RequestValidationProofs`, `GatewayProofs`, `CheckFileProofs` | theorems about the module they are named after | see section 5 |
| `FoldTheorems` | what a fold over a sequence computes, for every sequence | see section 5 |
| `ScanWorker` | one scan, from the files to the response | `RunCheck`, `CheckRaises`, `SkipFile`, `RedactionRaises`, `WriteResult`, `Respond`. A finding is rule, file and line; which lines a rule matches, and how often a line, is any choice the check allows, so the same finding may be there several times |
| `Criteria` | criteria, references, guidance | pure operators, with an action for each of the two tools that use them |
| `RequestValidation` | paths, limits, writing the tree | one action per file taken, rejected or written |
| `Gateway` | configuration, gate, tracker, audit record | `Startup`, `Refuse`, `Admit`, `Receive`, `SendStart`, `SendBody`, `InnerEnds`, `InnerKillsServer`. Of a request's body the model keeps what `json.loads` makes of each beginning of it; `LoadsAs`, `FileCount` and `TotalBytes` are `_request_metadata` |
| `SourceText` | comment removal, statements over lines, brackets, function headers | pure operators over tokens |
| `NullState` | `_java_null_pointer_findings` | `NullLine` is one turn of its loop; the record it folds over has the code's sets: names that are null, may be null, guarded blocks by depth, guarded next statements, declared maps |
| `Semantics` | `_sw49_semantic_findings` | one fold per detector (`ResourceLine`, `MemoryLine`, `DnsLine`, `IntegerLine`, `DecisionLine`) with the names that detector keeps; windows of lines for endpoints, loops, password rules |
| `Markup` | XML factories, MyBatis mappers, JSP pages | `ParseOfFactory`, `MyBatisLine`, `JspLine` |
| `Configuration` | `configuration.check_file` | one operator per kind of file; `YamlLine` carries the block scalar for the three walks that have one |
| `CheckFile` | what the worker makes of one file: `configuration.check_file`, then `code_patterns.check_file` | `CheckSettings`, `View`, `Detect`, then `FlowLine` per statement, then `RuleLine` per statement; below them a reference lexer and a reference for scopes |
| `DetectorProps` | what the detectors promise | no state: reference definitions that look at a whole method or block at once, and the properties stated with them |
| `MC...` | constants for TLC | |

`ScanService` and `ScanWorker` meet at the result file. `ScanService` knows it as bytes that are
complete, partial, an error or oversize; `ScanWorker` starts from a worker that is not disturbed
and says what the bytes are. `RequestValidation` supplies what `WriteFiles` writes, and
`CheckFile` is two of the checks `ScanWorker` leaves open. `CheckFile` extends the four detector
modules and calls them in the order of the code; its findings decide what the later passes skip.

**Tokens.** In these modules a line is a sequence of tokens, and a token stands for any text that
one pattern accepts: "open" for a constructor of a resource, "lookup" for a call that may return
null, "remote" for request data, "privileged" for `privileged: true`. What a pattern accepts by
accident is kept where it changes what a walk remembers: a comparison that is taken for an
assignment (`Written`, `Rewrites`, `Gets`, `Assigned`), a search that stops at the first match of
a line (`Declared`, `Freed`, `Wraps`, `Required`, `MapsDeclared`, `SinkAt`), a try that is known
by its text with one blank (`SpelledTry`), braces inside of strings (`PlainDelta`), the blank line
above a header (`SelfCall`). Windows of lines are parameters with the code's values (`GuardWindow` 7,
`LoopReach` 25 and so on).

Some definitions are followed in a comment by "Mutant" or "Mistake" variants. They are
plausible errors in the code, kept so that each property can be shown to notice one.

## 3. Runs

| Run | Question | Bounds |
|---|---|---|
| `ScanService_safety` | Do the safety properties and the refinement hold with every handled fault? | Three calls (symmetric), faults write, start, cleanup, worker; two cancellations of a call, one crash. Three calls are a holder, one that is refused, and one that is admitted later; the second cancellation is the one that matters in the code, and a third meets the same places |
| `ScanService_live` | Do calls settle, is the service available again, is "deleted" true? | Two calls, the template may die as well, no crash from outside |
| `ScanService_rollback`, `ScanService_orphan` | Two disagreements, below | two calls |
| `ScanWorker_scan` | Is anything lost or misreported between checks and response? | requests of two files out of fourteen kinds (code, minified, data, binary, manifests, Dockerfiles, lockfiles in the same directory and in another); five rules, of which the standard maps four; up to two findings of a check in a file, the same one twice among them; room for two in a result, so that truncation, also between equal findings, and the size limit happen |
| `ScanWorker_suppressed` | disagreement | a source and an empty `package.json` |
| `Criteria_guidance`, `Criteria_order` | Is the selection well made; are direct controls first? | three standards, two rules, up to three mappings each, room for three: fewer, as many and more than fit |
| `RequestValidation_files` | Is what is accepted safe to write? | all paths of up to four characters out of ten kinds; up to four files; limits of a few bytes, all met exactly and exceeded |
| `Gateway_audit` | Is there one true record of every request? | two token records, requests that differ from a good one in one respect, bodies and answers that stay under, fill and outgrow the buffers of a few bytes, among them bodies of which a beginning or all is nested too deeply |
| `CheckFile_flow` | Is live text what is read, does taint stay in its function, are flows found, and confirmed only if they are? Do the walks from line to line say of a name, a resource, a parser or a YAML block what a reader of the whole method says? | every text of two lines of three tokens (Python, Java) or three lines of two (Vue); programs of five lines out of six (Python, JavaScript); three out of fifteen statements; four fragments of calls over lines; for the detectors every file of three or four lines out of six to ten that each are one event of that detector (a guard, an acquisition, a close, a header, a setter), some between a fixed header and a fixed use; short files of the other kinds |
| `CheckFile_beside` | disagreement | two statements |

In `ScanWorker_scan`, `NothingDroppedSilently` counts: the response shows a finding as often as
the checks made it or says that it is truncated. `UncheckedDeclared` also says that a check that
raised is never followed by "completed". In `Gateway_audit`, `AuditedOnce` says which admitted
requests leave no record: those whose captured body makes `json.loads` give up with a
`RecursionError`, which `_request_metadata` (`server.py:188-202`) does not catch although it is
the first call of the `finally` clause. No text of the repository promises a record, so this is a
hazard and no finding.

In `CheckFile_flow` the properties of the detectors mean the following. `NullDereferences`: what
is reported is the last thing the method said of the name, unless a guard's block covers the
line. `Intraprocedural`: the findings in a method are those of a file that holds only this method;
it covers all seven walks. `ResourcesSettled`: a chain of wrappers of which nothing is closed or
in a try header is reported, and nothing that is wrapped (where each name is acquired once, and
neither a name is wrapped into itself nor the console; `OneReading`: in files where every try is
written with one blank, no name is compared with `==` and no statement wraps twice). `UseReported`: exactly the first use
after free and the first read of an unset name, in files whose statements declare or free one name
at most. `FlowsFound`: a flow into the first mention of a sink is found; of a second call of the
same sink in a statement nothing is said, as the code does not look at it. `HardenedParsers`: the settings of the factory at
the moment the builder is made decide. `BlockScalarsSkipped`: a setting counts exactly outside of
block scalars and comments. Preconditions in them name the places where the code is known to be
wrong (section 4) or reads beyond the method; each property is violated by a mistake put into the
walk it is about. `CommentsRemoved` has one as well, `Lexable`: no template literal is open at the
end of a line, and no docstring escapes a quote. Four lines are enough for each of these: an event, a header or the end of a
block between, a second event, and the use; the reaches of 7 to 180 lines are passed only by files
that long and are not exercised.

The bounds are set so that each limit of the code is reached, passed and missed by one; the
constants of the code (200 findings, lines of 2000 bytes, four continuation lines) are parameters.
Deadlock is checked wherever the cfg does not say otherwise; a model of one request or one file
has a last, stuttering action.

**Fairness.** `ScanService` assumes weak fairness of each coroutine's next step (the event loop
and its threads run what is ready), of the end of a process that was sent SIGKILL, and of the
restart (the container's restart policy). Nothing is assumed of workers: one may run for ever
and ignore SIGTERM, and calls must settle all the same.

## 4. Where code and text disagree

Runs whose expected result is a violation show the first five; the others are kept out of the
inputs of `CheckFile_flow`, or out of the preconditions of its properties, and were reproduced
with the program itself.

1. `ScanService_rollback`: a failed write can leave the directory behind and still be answered
   with "deleted" (`scan_service.py:360`).
2. `ScanService_orphan`: when the forkserver template dies, the parent takes a running worker
   for ended and admits a second scan.
3. `ScanWorker_suppressed`: an empty `package.json` turns the whole request into
   `scanner_error` and suppresses the other files' findings.
4. `Criteria_order`: criteria are not ordered with direct controls first.
5. `CheckFile_beside`: for sinks whose pattern includes the opening bracket the check of the
   arguments is skipped; `ctx.save(); log(req.query.q);`, the example of the comment, is confirmed.
6. A function header over several lines breaks the scope of its body, in Python when it ends in
   `):` on a line of its own, in JavaScript because its brace is counted twice.
7. The lines of a split statement are still matched one by one: a named argument is read as an
   assignment, and one call is reported at two lines.
8. A comment behind the end of a template literal of several lines is read as code, and a docstring
   with an escaped quote ends there (`Lexable` keeps both out of `CommentsRemoved`).
9. The other keys of a list item whose first key is a block scalar (`- command: |`) are read as
   its text (`configuration.py:344`).
10. A recursive Python function that a blank line precedes is never reported
    (`code_patterns.py:2183`).
11. Null state knows no branches: null in the one and a use in the other are "confirmed".
12. A null guard with a block that exits skips the count of braces, and the block around it loses
    its protection (`code_patterns.py:853`).
13. One statement of a JSP page is reported twice by two passes (`code_patterns.py:1887`).

Smaller limits of the walks, which the modules model as they are: a name that is acquired twice
loses its first acquisition, and a reader that wraps itself (`r = new BufferedReader(r)`) is
taken for handed over, as is one that is wrapped on the line of a scanner over `System.in`
(`Acquire`, `Wraps`); of two calls of one sink in a statement only the first is looked at, so
`fetch(w); fetch(x)` hides a flow (`SinkAt`); of two frees or declarations in a statement only the
first counts, and nothing else of that statement (`Freed`, `Declared`), and of two required names
or declared maps in a line (`Required`, `MapsDeclared`); `try(` without a blank is no header of a
try (`SpelledTry`), and a comparison acquires what its other side opens (`Gets`); a comparison with `==` counts as an assignment in C and in Java returns
(`Rewrites`, `Written`); the range check of a number stays after it is parsed again
(`IntegerLine`); a `return` in the next method hides an endless loop (`Endless`), and a guard in
the method above hides a missing one (`EndpointFindings`); `_java_guard_exits` also reads the
`else` branch, and of a block on one line the line behind it (`GuardExits`); a non-final `USER`
counts for the last stage of a Dockerfile (`DockerfileFindings`); a secret in a commented-out
line of a compose file is reported (`ComposeFindings`). No text of the repository promises
otherwise.

## 5. What is proved

TLC checks small instances; the theorems hold for every value of the constants: any number of
calls, files, findings, token records, catalogue entries, and any limits. `PROJECT.json` lists
them with the property each one states.

**Form.** Each `...Proofs` module proves `Inductive`, which is `Spec => []IInv`, from one step
for each action, and reads the properties off `IInv`. `IInv` stands at the end of the component's
module, and TLC checked it as an invariant before it was proved. `Typing` is `TypeOK`.

**Loops.** Where the code runs through a list, the models fold a named step over it: `Place` is
the insertion of one finding into a sorted list, `Keep` a comprehension with a condition, `TakeNew`
the loop that gives every standard a place, `Split` the splitting of a path. `FoldTheorems` makes
it possible to reason about them for lists of any length. An induction over a formula is out of
the prover's reach, but one over a set of numbers is not: `LeastElement` and `CountingUp` say that
every set of natural numbers has a least element and that a set which keeps up with the steps has
all of them. From these `FoldSteps` follows: the fold is the last of a chain of values that starts
at the base and takes one item at a time. The proofs about sorting, filtering and sums instantiate
it and show of the set of places at which a statement holds that it has them all. `SelectSeq` and
`SortSeq` of the library cannot be opened by the prover, which is why the models avoid them; two
filters in `NullState` are left, and no proof needs to know what they keep.

### Scan service

None of the properties is inductive alone: that no second worker is at work depends on every
worker belonging to the holder of the lock, which depends on what a coroutine may have left at
each place it can stand. `IInv` says this place by place. `LoopAndLock`: a call is at a place
inside the lock exactly if it holds it, and has the event loop exactly if that place is not an
await. `WorkerByPlace`: before the start there is no worker, and from reading the result on it is
not running; a call lost with its server may have one only while the server is down. `TreeByPlace`
says the same of the files, and that `root` is set whenever they exist, which is why clean-up finds
them. `CancelsByPlace`: a worker that is alive after an exception had its call cancelled once, and
one that is alive at clean-up twice. `AnswerByPlace`: a verdict exists from clean-up on, and
"completed" only with a worker that succeeded.

`IInv` itself needs no assumption on faults. Two faults leave more behind, those of findings 1 and
2, and a theorem assumes the absence of a fault only where its conclusion is false with it: under
the constants of `ScanService_rollback` and `ScanService_orphan` TLC finds each of these properties
violated.

| Theorem | Property | Assumes |
|---|---|---|
| `Inductive`, `Typing`, `AbortNeedsCause` | `IInv`, `TypeOK`, `AbortHasCause` | nothing |
| `SourcesOnlyUnderLock`, `DeletedIsTrue` | `SourcesUnderLock`, `DeletedMeansGone` | rollbacks succeed |
| `OneScan`, `VerdictIsTrue`, `TreesOutliveWorkers` | `OneScanAtATime`, `VerdictMatchesWorker`, `DeletedAfterWorker` (an action property) | the template does not die |
| `RefinesPromise` | `KeepsPromise`: every step is a step of `ScanPromise` or a stutter | both |

For the refinement, `TracesOfLockHolder` turns `IInv` into the statement that files and workers
belong to the active call; `InsideScan` and `ScanOrStutter` treat the steps between taking the lock
and giving it back, which only move what the lock holder has.

### Scan worker

`IInv` describes the loops by their place. `FoundByPlace`: no finding says of a `package.json` that
its lockfile is missing when one was sent in the same directory, of every manifest that was passed
it says so otherwise, and no check that was passed has raised. Nothing is assumed of how often a
finding is there: all statements count. `ExaminedByPlace`: what was examined is what the passed checks look
at, which is where the server's separate derivation of `unevaluated_files` gets its complement
(`UncheckedIsDeclared`; `RaisingFails` follows from the same place). `DocumentTells` and `ResponseTells`: an "ok" document is the sorted front
of what matched. `SortedIsOrdered` proves the sort (same findings, each as often, in order),
`ReportTells` the cut: what is left out is nowhere more severe than what is shown. From these
follow `TruncationIsDeclared`, `ServerTakesResults` (the server demands nothing the worker does
not keep to) and `LockfileIsSeen`. Assumed of the constants: code files are text, and each check
has a severity.

### Criteria and guidance

The state is one step; the weight is in the lemmas. `AmongTells` says what a comprehension keeps
and in which order, `PlacesTell` what the loop over the other standards leaves (one place each, in
turn, none left out while there was room), `SelectionIsMade` puts the three stages together into
`WellSelected`, which is stated of the result and not of the loops. `ReferencesTell` shows that the
second computation of the references covers the first of the criteria. From them follow
`CriteriaAreWellSelected`, `ReferencesCoverCriteria` and `GuidanceIsGiven`, an action property.

Assumed of a catalogue: it has the guidance rules, it is finite, and no mapping of a rule is there
twice. The last one matters (a repeated mapping would be told as truncated while nothing is left
out) and holds of all 115 rules in `standard_catalog_data.py`, which have up to 15 mappings.

### Request validation

`FrontTaken`: what was validated is the front of the request as it was sent, with its running
total, and each path consists of ordinary segments (`TakenIsOrdinary`: not empty, not `.` or `..`)
and is there once. `FrontWritten`: the disk has the first files with their directories and nothing
else. `OrdinaryResolves` walks such a path segment by segment: it stays below the root and ends at
itself. That gives `WritesAreConfined`; `LimitsHold` follows from the running total,
`NestingIsTheOnlyFailure` is part of the invariant (a write meets only what an earlier file of the
same request left), and `LongLinesKept` from `LongIsAnyLine`: the backward scan finds a long line
wherever it is. Assumed: limits are natural numbers.

### HTTP front

`GatePassed`: behind the gate the configuration was accepted and `token_id` is what `MatchToken`
makes of the request's token. As an accepted configuration repeats neither an identifier nor a
digest, `MatchIsUnique` shows the record is the only one of that digest, and enabled; hence `OneCaller`.
`TrackerTells` recovers from the kept bytes how many were sent, `RecordByPhase` ties the record to
them, and says that it is missing when the captured body is nested too deeply; `OneRecord` and `RecordIsTrue` follow. Assumed: the placeholder digest that stands for "no
token" is the digest of no token, and a missing token has none.

### Code checks

The proofs are about `CheckFile` with the modules it extends, for every file of tokens: any
length, any suffix, any reach of a window. Assumed of the constants: the names a file may use are
finitely many, the reaches and the number of continuation lines are natural numbers, and the
families hold texts.

`IInv` has four parts. `Looked`: code view and statements are those of the file, once the pass
has made them. `Carried`: what the dataflow pass takes from line to line has its kind. `Reporting`:
each pass has added only findings of its own rules, and before the dataflow pass begins the
findings are those of the configuration check followed by those of the detectors, in the order of
the code. `Once`: outside of JSP pages nothing is reported twice, and the dataflow pass has
reported nothing at or behind its line. The last part is what makes `ReportedOnce` inductive: the
pass reports at most one finding at a line, and the loop over the rules looks at what is there.

Each walk is a fold, so the lemmas come in the same order for all of them: a step keeps the kind
of the state (`MemoryStep`), the fold is the last of a chain (`ChainExists`, from which
`MemoryTells`), the walk ends in its kind (`MemoryEndType`). `FlattenTells` and `FlattenStays` do
the same for what is gathered over the places of a text; from them, detector by detector,
`SemanticPlaces` and its like: a detector reports lines of the text it was given, by its own rules.
`Typing` and `ReportedOnceOnly` rest on these.

| Theorem | Property | Argument |
|---|---|---|
| `Typing`, `ReportedOnceOnly` | `TypeOK`, `ReportedOnce` | parts of `IInv` |
| `LiveTextOnly` | `CommentsRemoved` | the scanner of the code jumps over a comment or a docstring in one piece, the lexer reads it token by token. `LineInStep`: the two agree at every place where the scanner stands, and have the same block open at the end of the line |
| `ParsersHardened` | `HardenedParsers` | `LastSettingTells` and `SettingsDecide`: the last call by its place, as the code looks for it, and the settings after all calls in turn are both decided by the same call; `ToldGathered` then compares line by line |
| `UsesReported` | `UseReported` | `MemoryReports`: after each statement the walk's two sets hold the names whose event no header and no touch has followed (`Alive`); `NextTouchTells` says the same of the reference, which looks for the first touch behind each event. The walk's first match is the only one by the precondition (`DeclaredTells`, `FreedTells`) |
| `ResourcesSafe` | `ResourcesSettled` | `WalkTells`: in a method that acquires each name once, what is held after a statement is exactly what the method's lines so far say of each acquisition (`HeldOf`), and what is reported lies before the method; `HandedOn`: a header reports what is left and later ones do not touch it; so a line is reported when its own method leaves it unsettled (`ReleaseReports`). The last of the resources that take over from one, in the least set that is closed under taking over, is wrapped by nothing. `OneReadingTells` is where the reference, which knows nothing of blanks and comparisons, meets what the code reads |
| `ScalarsSkipped` | `BlockScalarsSkipped` | `YamlIsSettings`: cutting the comment off and reading the words gives what reading token by token gives; `StructureReads` and `ScalarTextTells`: the lines the walk skips solve the recursion that defines the text of block scalars, which has one solution |

### Only model-checked

- `CallSettles` and `Available`: liveness under fairness is out of the prover's reach.
- `TaintScoped`, `ConfirmedIsFlow`, `FlowsFound`: their references fold over the statements of a
  function inside of a fold over the statements of the file, and the code's one walk with a stack
  has to be related to both. They hold of the families of files in the run; in general they need
  more preconditions than `Plain` (section 4, 6 and 7).
- `NullDereferences`: its reference is recursive over lines and names at once. `Intraprocedural`:
  it is not true of every file, as `GuardExits` and `InTryHeader` look beyond the method and
  `WithMaps` keeps one map of a line. Both hold of the families.
- The violations of section 4.

## 6. What is not modelled

- What the regular expressions accept: a token stands for it. Four rules stand for the catalogue
  of the line rules, and in `ScanWorker` what matches is any choice.
- Of the SW49 checks, private arrays that are returned or assigned and managed APIs: each is one
  expression over a whole file, with no state.
- The parsing of dependency manifests other than `package.json`, and PHP's prepared statements.
- The composition of `Gateway` and `ScanService`: a disconnect reaches the tool only through the
  SDK, as the cancellation that `Cancel` already admits at every await; the composed state space
  adds nothing either module's properties mention.
- Wording, localisation, digests, and the catalogue's data.
- The MCP SDK, uvicorn and CPython's multiprocessing, beyond what `src/` uses of them; these
  definitions are marked external.
- Reading and permission checks of the configuration file, tool registration, lifespan: they run
  once, in a line, before the first request.
- Threads of `asyncio.to_thread` as such: the coroutine awaits each before its next step.
- Scripts, reports and documentation.

## 7. Plan

Order of the modules, most important behaviour first: `ScanService` with `ScanPromise`, their
refinement and proofs; `ScanWorker`; `Criteria`; `RequestValidation`; `Gateway`; `SourceText`
and `CheckFile`; the detectors (`NullState`, `Semantics`, `Markup`, `Configuration`) with
`DetectorProps`; the proofs, in the same order. All of these are built. Next:

1. `TaintScoped`: the stack of scopes holds the headers around a statement, with the taint before
   each; it needs a precondition on indentation and braces that says which files are read as they
   are nested.
2. The remaining manifests of `dependencies.py`.
