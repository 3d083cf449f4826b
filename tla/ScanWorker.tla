----------------------------- MODULE ScanWorker ------------------------------
(***************************************************************************)
(* One scan, from the request's files to the response: the worker runs the *)
(* four checks on each file, redacts, sorts and truncates the findings and *)
(* writes them as one document; the server reads the document back, checks *)
(* it again and adds what was not evaluated.  Whether the worker gets to   *)
(* the end of this is module ScanService's subject.                        *)
(*                                                                         *)
(* Files are numbered in the sorted order of their paths, and a finding is *)
(* known by its rule, its file and its line (0 for a finding without one). *)
(* A line may hold several matches of a rule, so equal findings are many.  *)
(***************************************************************************)
EXTENDS Naturals, Sequences, FiniteSets, SequencesExt

CONSTANTS
  FileCount,     \* how many files the request carries
  Kinds,         \* what a file can be: records, see FileKind
  Rules,         \* the rules in the order of their ids: records, see RuleKind
  MissingLockfile, \* the place of dependency.node-missing-lockfile in Rules
  MaxPerCheck,   \* bound: findings of line rules a check may have of one file
  MaxFindings,   \* findings a result may carry (200 in the code)
  AlwaysFits     \* findings that stay under MAX_RESULT_BYTES whatever they say

(* text      common.is_text_candidate                                      *)
(* code      a suffix in CODE_EXTENSIONS or a name in CODE_FILENAMES, all  *)
(*           of which are text candidates                                  *)
(* long      some line is over MAX_ANALYZED_LINE_BYTES                     *)
(* lines     how many lines splitlines returns                             *)
(* dir       the directory it lies in                                      *)
(* name      "package.json", one of LOCKFILES, a "manifest" of the other   *)
(*           kinds dependencies.check_file reads, a "dockerfile" with or   *)
(*           without a suffix, or another name                             *)
(* body      for package.json: text that json.loads refuses, a document    *)
(*           that is no object or nested too deeply, an object without     *)
(*           dependencies or with                                          *)
FileKind == [text : BOOLEAN, code : BOOLEAN, long : BOOLEAN, lines : Nat, dir : Nat,
             name : {"package.json", "lockfile", "manifest", "dockerfile", "other"},
             body : {"refused", "no_object", "no_dependencies", "dependencies"}]

CHECKS == <<"secrets", "dependencies", "configuration", "code">>
Checks == {CHECKS[k] : k \in 1..Len(CHECKS)}

(* Which check a rule belongs to, the rank of its severity in SEVERITIES,  *)
(* and whether the selected standard maps it.                              *)
RuleKind == [check : Checks, severity : Nat, mapped : BOOLEAN]

(* The scopes in which the response declares a file as not evaluated.      *)
Scopes == {"secrets", "configuration_text", "code", "all_checks"}

ASSUME ScanWorkerAssumption ==
  /\ FileCount \in Nat
  /\ \A k \in Kinds : k \in FileKind /\ (k.code => k.text)
  /\ Rules \in Seq(RuleKind)
  /\ MissingLockfile \in 1..Len(Rules) /\ Rules[MissingLockfile].check = "dependencies"
  /\ MaxPerCheck \in Nat
  /\ MaxFindings \in Nat
  /\ AlwaysFits \in Nat

Files == 1..FileCount

VARIABLES
  kind,     \* the request: what each file is
  phase,    \* where the scan stands
  file,     \* the file whose turn it is
  check,    \* the place in CHECKS of the next check to run on it
  raw,      \* raw_findings, in the order the checks gave them
  examined, \* history: the file contents a check looked at, by scope
  document, \* the bytes at result_path: what they say
  response  \* what the server answers

vars == <<kind, phase, file, check, raw, examined, document, response>>

NoDocument == [status |-> "absent", findings |-> <<>>, truncated |-> FALSE]
NoResponse == [verdict |-> "none", findings |-> <<>>, truncated |-> FALSE, unevaluated |-> {}]

Init ==
  /\ kind \in [Files -> Kinds]
  /\ phase = "checking"
  /\ file = 1
  /\ check = 1
  /\ raw = <<>>
  /\ examined = {}
  /\ document = NoDocument
  /\ response = NoResponse

Finding(r, f, l) == [rule |-> r, path |-> f, line |-> l]
Rank(x) == Rules[x.rule].severity

-----------------------------------------------------------------------------
(* The checks.                                                             *)

(* The rules of check k that look at lines.                                *)
LineRules(k) == {r \in 1..Len(Rules) : Rules[r].check = CHECKS[k]} \ {MissingLockfile}

(* They report any of these lines of the file, any number of times.        *)
SomeFindings(k, f, lines) ==
  BoundedSeq([rule : LineRules(k), path : {f}, line : lines], MaxPerCheck)

Lines(f) == 1..kind[f].lines

(* Mutant: a file that is not analyzed is not written to the tree either.  *)
LockfileAnalyzed(f) ==
  \E g \in Files : kind[g].name = "lockfile" /\ kind[g].dir = kind[f].dir /\ ~kind[g].long

LockfileBeside(f) == \E g \in Files : kind[g].name = "lockfile" /\ kind[g].dir = kind[f].dir

(* exc.lineno counts newlines from 1, also in an empty document.           *)
ErrorLine(f) == IF kind[f].lines = 0 THEN {1} ELSE Lines(f)

LockfileMissing(f) == IF LockfileBeside(f) THEN <<>> ELSE <<Finding(MissingLockfile, f, 0)>>

(* A dependency or a script whose line is not found is reported without.   *)
DependencyFindings(k, f) ==
  {LockfileMissing(f) \o found : found \in SomeFindings(k, f, {0} \cup Lines(f))}

PackageJson(k, f) ==
  CASE kind[f].body = "refused"         -> {<<Finding(r, f, l)>> : r \in LineRules(k), l \in ErrorLine(f)}
    [] kind[f].body = "no_dependencies" -> SomeFindings(k, f, {0} \cup Lines(f))
    [] kind[f].body = "dependencies"    -> DependencyFindings(k, f)
    [] OTHER -> {}

(* What check k may return for file f; the empty set when it raises.       *)
(* Findings without a line come of the file's name or of what is missing.  *)
(* A Dockerfile is read under any name, a text candidate or not.           *)
Outcomes(k, f) ==
  CASE CHECKS[k] = "secrets"       -> IF kind[f].text THEN SomeFindings(k, f, Lines(f)) ELSE {<<>>}
    [] CHECKS[k] = "dependencies"  ->
         CASE kind[f].name = "package.json"               -> PackageJson(k, f)
           [] kind[f].name \in {"manifest", "dockerfile"} -> SomeFindings(k, f, Lines(f))
           [] OTHER                                       -> {<<>>}
    [] CHECKS[k] = "configuration" ->
         SomeFindings(k, f, {0} \cup (IF kind[f].text \/ kind[f].name = "dockerfile" THEN Lines(f) ELSE {}))
    [] CHECKS[k] = "code"          ->
         IF kind[f].text /\ kind[f].code THEN SomeFindings(k, f, Lines(f)) ELSE {<<>>}

(* The scope in which check k looks at the contents of f, if it does; the  *)
(* parsers that go by a name have no scope of their own.                   *)
Looks(k, f) ==
  CASE CHECKS[k] = "secrets"       -> IF kind[f].text THEN {<<f, "secrets">>} ELSE {}
    [] CHECKS[k] = "configuration" -> IF kind[f].text THEN {<<f, "configuration_text">>} ELSE {}
    [] CHECKS[k] = "code"          -> IF kind[f].text /\ kind[f].code THEN {<<f, "code">>} ELSE {}
    [] OTHER                       -> {}

-----------------------------------------------------------------------------
(* The worker.                                                             *)

AtFile == phase = "checking" /\ file \in Files

(* The file stays in the tree, where the checks of its siblings see it.    *)
SkipFile ==
  /\ AtFile
  /\ kind[file].long
  /\ file' = file + 1
  /\ UNCHANGED <<kind, phase, check, raw, examined, document, response>>

(* Mutant: the loop over CHECKS runs once too often.                       *)
RunCheckPastEnd ==
  /\ AtFile
  /\ ~kind[file].long
  /\ \E found \in Outcomes(check, file) : raw' = raw \o found
  /\ examined' = examined \cup Looks(check, file)
  /\ check' = check + 1
  /\ UNCHANGED <<kind, phase, file, document, response>>

RunCheck ==
  /\ AtFile
  /\ ~kind[file].long
  /\ \E found \in Outcomes(check, file) : raw' = raw \o found
  /\ examined' = examined \cup Looks(check, file)
  /\ IF check < Len(CHECKS) THEN check' = check + 1 /\ file' = file
                            ELSE check' = 1 /\ file' = file + 1
  /\ UNCHANGED <<kind, phase, document, response>>

(* The except clause writes an error document, and the worker exits 1.     *)
Fails ==
  /\ document' = [NoDocument EXCEPT !.status = "error"]
  /\ phase' = "exited"
  /\ UNCHANGED <<kind, file, check, raw, examined, response>>

(* Mutant: a check that raises is passed over.                             *)
CheckSwallowed ==
  /\ AtFile
  /\ ~kind[file].long
  /\ Outcomes(check, file) = {}
  /\ check' = check + 1
  /\ UNCHANGED <<kind, phase, file, raw, examined, document, response>>

CheckRaises ==
  /\ AtFile
  /\ ~kind[file].long
  /\ Outcomes(check, file) = {}
  /\ Fails

(* _rule_matches_standard on the raw findings.                             *)
Keep(kept, x) == IF Rules[x.rule].mapped THEN Append(kept, x) ELSE kept

Matching == FoldLeft(Keep, <<>>, raw)

(* _redacted_source_location finds the line it is to show.                 *)
LineInSource(x) == x.line <= kind[x.path].lines

Safe == \A n \in 1..Len(Matching) : LineInSource(Matching[n])

RedactionRaises ==
  /\ phase = "checking"
  /\ file = FileCount + 1
  /\ ~Safe
  /\ Fails

(* Mutant: the findings are sorted by rule, path and line only.            *)
BeforeByRule(x, y) ==
  \/ x.rule < y.rule
  \/ x.rule = y.rule /\ x.path < y.path
  \/ x.rule = y.rule /\ x.path = y.path /\ x.line < y.line

(* _finding_sort_key: severity first, then rule, path and line.            *)
Before(x, y) ==
  \/ Rank(x) > Rank(y)
  \/ /\ Rank(x) = Rank(y)
     /\ \/ x.rule < y.rule
        \/ x.rule = y.rule /\ x.path < y.path
        \/ x.rule = y.rule /\ x.path = y.path /\ x.line < y.line

(* findings.sort: one finding after the other goes behind those that it    *)
(* does not come before; equal findings stay, side by side.                *)
Place(sorted, x) ==
  LET at == CHOOSE at \in 1..Len(sorted) + 1 :
              \A n \in 1..Len(sorted) : Before(x, sorted[n]) <=> n >= at
  IN  [n \in 1..Len(sorted) + 1 |->
         CASE n < at -> sorted[n] [] n = at -> x [] n > at -> sorted[n - 1]]

Sorted(findings) == FoldLeft(Place, <<>>, findings)

Report(findings) ==
  IF Len(findings) <= MaxFindings
  THEN [status |-> "ok", findings |-> findings, truncated |-> FALSE]
  ELSE [status |-> "ok", findings |-> SubSeq(findings, 1, MaxFindings), truncated |-> TRUE]

(* _write_worker_result replaces a document that is too large.             *)
Encoded(doc) ==
  {doc} \cup (IF Len(doc.findings) <= AlwaysFits THEN {}
             ELSE {[NoDocument EXCEPT !.status = "result_invalid"]})

WriteResult ==
  /\ phase = "checking"
  /\ file = FileCount + 1
  /\ Safe
  /\ document' \in Encoded(Report(Sorted(Matching)))
  /\ phase' = "exited"
  /\ UNCHANGED <<kind, file, check, raw, examined, response>>

-----------------------------------------------------------------------------
(* The server.                                                             *)

(* Mutant: the server's limit is one below the worker's.                   *)
AcceptedBelowLimit(doc) ==
  /\ doc.status = "ok"
  /\ Len(doc.findings) < MaxFindings

(* _read_worker_result: the worker is not trusted with the shape.          *)
Accepted(doc) ==
  /\ doc.status = "ok"
  /\ Len(doc.findings) <= MaxFindings
  /\ \A n \in 1..Len(doc.findings) : doc.findings[n].path \in Files
  /\ \A n \in 1..Len(doc.findings) - 1 : ~Before(doc.findings[n + 1], doc.findings[n])

(* Mutant: a file type unknown to the code checks misses only those.       *)
UnevaluatedCode ==
  LET long == {f \in Files : kind[f].long}
  IN  (long \X {"all_checks"}) \cup ({f \in Files \ long : ~kind[f].code} \X {"code"})

(* The unevaluated_files of a completed response.                          *)
Unevaluated ==
  LET long   == {f \in Files : kind[f].long}
      binary == {f \in Files \ long : ~kind[f].text}
      data   == {f \in Files \ long : kind[f].text /\ ~kind[f].code}
  IN  (long \X {"all_checks"}) \cup (binary \X (Scopes \ {"all_checks"})) \cup (data \X {"code"})

Verdict ==
  CASE document.status = "error" -> "scanner_error"
    [] Accepted(document)        -> "completed"
    [] OTHER                     -> "result_invalid"

Respond ==
  /\ phase = "exited"
  /\ phase' = "answered"
  /\ response' = IF Verdict = "completed"
                 THEN [verdict |-> Verdict, findings |-> document.findings,
                       truncated |-> document.truncated, unevaluated |-> Unevaluated]
                 ELSE [NoResponse EXCEPT !.verdict = Verdict]
  /\ UNCHANGED <<kind, file, check, raw, examined, document>>

Answered == phase = "answered" /\ UNCHANGED vars

Next ==
  \/ SkipFile
  \/ RunCheck
  \/ CheckRaises
  \/ RedactionRaises
  \/ WriteResult
  \/ Respond
  \/ Answered

Spec == Init /\ [][Next]_vars

-----------------------------------------------------------------------------
(* Properties.                                                             *)

Findings == [rule : 1..Len(Rules), path : Files, line : Nat]

(* Every variable keeps to the values the code can give it.                *)
TypeOK ==
  /\ kind \in [Files -> Kinds]
  /\ phase \in {"checking", "exited", "answered"}
  /\ file \in 1..FileCount + 1
  /\ check \in 1..Len(CHECKS)
  /\ raw \in Seq(Findings)
  /\ examined \subseteq Files \X Scopes
  /\ document.status \in {"absent", "ok", "error", "result_invalid"}
  /\ document.findings \in Seq(Findings)
  /\ document.truncated \in BOOLEAN
  /\ response.verdict \in {"none", "completed", "scanner_error", "result_invalid"}
  /\ response.findings \in Seq(Findings)
  /\ response.truncated \in BOOLEAN
  /\ response.unevaluated \subseteq Files \X Scopes

Elements(seq) == {seq[n] : n \in 1..Len(seq)}

(* How often x is in the list.                                             *)
Count(x, seq) == Cardinality({n \in 1..Len(seq) : seq[n] = x})

(* What the worker writes as "ok" the server accepts: the two sides agree  *)
(* on the limit, the paths and the order, and only size refuses a result.  *)
AcceptedByServer ==
  phase = "answered" /\ document.status = "ok" => response.verdict = "completed"

(* A completed response shows the findings of the rules that the selected  *)
(* standard maps, each at most as often as the checks had it; it says so   *)
(* exactly when it shows one less often than that, and such a one is no    *)
(* more severe than any it shows.                                          *)
NothingDroppedSilently ==
  response.verdict = "completed" =>
    LET shown   == response.findings
        omitted == {x \in Elements(raw) : Rules[x.rule].mapped /\ Count(x, shown) < Count(x, raw)}
    IN  /\ \A x \in Elements(shown) : Rules[x.rule].mapped /\ Count(x, shown) <= Count(x, raw)
        /\ response.truncated <=> omitted # {}
        /\ \A x \in omitted, y \in Elements(shown) : Rank(x) <= Rank(y)

(* A check raises on a package.json that is analyzed and holds no object.  *)
SomeCheckRaises ==
  \E f \in Files : ~kind[f].long /\ kind[f].name = "package.json" /\ kind[f].body = "no_object"

(* A completed response leaves nothing unchecked without a word: no check  *)
(* raised on any file, and unevaluated_files, which the server derives     *)
(* from names and lengths, is the exact complement of what the checks,     *)
(* each with early returns of its own, have looked at.                     *)
UncheckedDeclared ==
  response.verdict = "completed" =>
    /\ ~SomeCheckRaises
    /\ \A f \in Files, s \in Scopes \ {"all_checks"} :
         <<f, s>> \in examined <=>
           <<f, s>> \notin response.unevaluated /\ <<f, "all_checks">> \notin response.unevaluated

(* A lockfile beside a package.json is seen, even when it is too long to   *)
(* analyze, and one in another directory is not: a package.json with       *)
(* dependencies is reported as lacking one if and only if none was sent in *)
(* its directory, unless the report is cut off or the rule not mapped.     *)
LockfileSeen ==
  \A f \in Files :
    kind[f].name = "package.json" =>
      LET missing == Finding(MissingLockfile, f, 0)
          beside  == {g \in Files : kind[g].name = "lockfile" /\ kind[g].dir = kind[f].dir}
      IN  /\ beside # {} => missing \notin Elements(response.findings)
          /\ (/\ response.verdict = "completed"
              /\ ~response.truncated
              /\ Rules[MissingLockfile].mapped
              /\ ~kind[f].long
              /\ kind[f].body = "dependencies"
              /\ beside = {})
             => missing \in Elements(response.findings)

(* SPEC.md: redaction and transport limits do not suppress a finding: once *)
(* every check has run, the findings reach the caller.                     *)
LimitsSuppressNothing ==
  phase = "answered" /\ file = FileCount + 1 => response.verdict = "completed"

(* The inductive invariant.  What was found and looked at is told by how   *)
(* far the loops have come: every finding is of a check that has run, and  *)
(* every check that has run returned; the document is the sorted front of  *)
(* what was found, and the response the document.                          *)
Passed(k, f) == f < file \/ (f = file /\ k < check)

FoundByPlace ==
  /\ check # 1 => file \in Files /\ ~kind[file].long
  /\ \A n \in 1..Len(raw) :
       raw[n].rule = MissingLockfile /\ kind[raw[n].path].name = "package.json"
         => ~LockfileBeside(raw[n].path)
  /\ \A f \in Files :
       Passed(2, f) /\ ~kind[f].long /\ kind[f].name = "package.json" =>
         /\ kind[f].body # "no_object"
         /\ kind[f].body = "dependencies" /\ ~LockfileBeside(f)
              => Finding(MissingLockfile, f, 0) \in Elements(raw)

ExaminedByPlace ==
  examined = {x \in Files \X Scopes :
                /\ ~kind[x[1]].long
                /\ \E k \in 1..Len(CHECKS) : Passed(k, x[1]) /\ x \in Looks(k, x[1])}

DocumentTells ==
  /\ phase = "checking" => document = NoDocument
  /\ document.status = "ok" => file = FileCount + 1 /\ document = Report(Sorted(Matching))

ResponseTells ==
  /\ phase # "answered" => response = NoResponse
  /\ phase = "answered" =>
       /\ response.verdict = Verdict
       /\ response.findings = (IF Verdict = "completed" THEN document.findings ELSE <<>>)
       /\ Verdict = "completed" => /\ response.truncated = document.truncated
                                   /\ response.unevaluated = Unevaluated

IInv ==
  /\ TypeOK
  /\ FoundByPlace
  /\ ExaminedByPlace
  /\ DocumentTells
  /\ ResponseTells
=============================================================================
