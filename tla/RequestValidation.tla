-------------------------- MODULE RequestValidation ---------------------------
(***************************************************************************)
(* From the files of a request to the files on disk: _validate_files takes *)
(* them one by one and stops at the first that is not acceptable, and      *)
(* _write_request_files creates what was taken below the request's root.   *)
(*                                                                         *)
(* A path is a sequence of the characters the code tells apart:            *)
(*   "letter"      an ASCII letter; "odd" any other harmless character     *)
(*   "decomposed"  a letter followed by a combining mark, "composed" the   *)
(*                 one character that NFC makes of the two                 *)
(*   "control"     a character of category Cc or Cf                        *)
(*   "archive"     the letters of one of _FORBIDDEN_EXTENSIONS             *)
(* and ".", ":", "/" and "\" themselves.                                   *)
(***************************************************************************)
EXTENDS Naturals, Sequences, SequencesExt, FiniteSetsExt

CONSTANTS
  Requests,            \* sequences of files: [path, lines], see File
  MAX_FILES,
  MAX_FILE_BYTES,
  MAX_REQUEST_BYTES,
  MaxPathBytes,        \* 1024 in the code
  MaxSegmentBytes,     \* 255 in the code
  MAX_ANALYZED_LINE_BYTES

Characters ==
  {"letter", "odd", "decomposed", "composed", "control", "archive", ".", ":", "/", "\\"}

(* A content is known by the byte lengths of its lines, each of which but  *)
(* the last is followed by a newline.                                      *)
File == [path : Seq(Characters), lines : Seq(Nat) \ {<<>>}]

ASSUME RequestValidationAssumption ==
  /\ Requests \subseteq Seq(File)
  /\ {MAX_FILES, MAX_FILE_BYTES, MAX_REQUEST_BYTES, MaxPathBytes, MaxSegmentBytes,
      MAX_ANALYZED_LINE_BYTES} \subseteq Nat

VARIABLES
  request,   \* the files as they were sent
  verdict,   \* "checking", "writing", "written", or the error answered
  seen,      \* the normalized paths so far
  total,     \* their bytes
  validated, \* the files taken, [path, lines] with path a list of segments
  disk       \* what exists below the request's root: path -> "file" or "dir"

vars == <<request, verdict, seen, total, validated, disk>>

Init ==
  /\ request \in Requests
  /\ verdict = "checking"
  /\ seen = {}
  /\ total = 0
  /\ validated = <<>>
  /\ disk = <<>>

-----------------------------------------------------------------------------
(* Paths.                                                                  *)

Width(c) == CASE c = "composed" -> 2 [] c \in {"decomposed", "archive"} -> 3 [] OTHER -> 1

SumOf(seq) == FoldLeft(LAMBDA sum, n : sum + n, 0, seq)

Bytes(path) == SumOf([n \in 1..Len(path) |-> Width(path[n])])

(* One character more: it ends the last segment or belongs to it.          *)
Split(segments, c) ==
  IF c = "/" THEN Append(segments, <<>>)
             ELSE [segments EXCEPT ![Len(segments)] = Append(@, c)]

Segments(path) == FoldLeft(Split, << <<>> >>, path)

Normalized(raw) ==
  [n \in 1..Len(raw) |-> CASE raw[n] = "\\"         -> "/"
                           [] raw[n] = "decomposed" -> "composed"
                           [] OTHER                 -> raw[n]]

(* Mutant: only a path that starts with ".." is refused.                   *)
InvalidAtFront(path) ==
  \/ path = <<>>
  \/ \E n \in DOMAIN path : path[n] = "control"
  \/ path[1] = "/" \/ Last(path) = "/"
  \/ Segments(path)[1] = <<".", ".">>
  \/ \E s \in ToSet(Segments(path)) : s \in {<<>>, <<".">>} \/ Bytes(s) > MaxSegmentBytes
  \/ Bytes(path) > MaxPathBytes

(* What _normalize_path refuses, said of the path it has normalized.       *)
InvalidPath(path) ==
  \/ path = <<>>
  \/ \E n \in DOMAIN path : path[n] = "control"
  \/ path[1] = "/" \/ Last(path) = "/"
  \/ Len(path) > 1 /\ path[1] = "letter" /\ path[2] = ":"
  \/ \E s \in ToSet(Segments(path)) :
       s \in {<<>>, <<".">>, <<".", ".">>} \/ Bytes(s) > MaxSegmentBytes
  \/ Bytes(path) > MaxPathBytes

(* Path.suffix starts at the last dot, unless the name starts there.       *)
Forbidden(path) ==
  LET name == Last(Segments(path))
  IN  Len(name) > 2 /\ IsSuffix(<<".", "archive">>, name)

Size(lines) == SumOf(lines) + Len(lines) - 1

(* Mutant: what follows the last newline is not a line.                    *)
LongBeforeNewline(lines) ==
  \E n \in 1..Len(lines) - 1 : lines[n] > MAX_ANALYZED_LINE_BYTES

(* _is_generated_or_minified, on the line at which the scan for newlines   *)
(* has arrived.                                                            *)
LongFrom(lines) ==
  LET Long[n \in 1..Len(lines)] ==
        lines[n] > MAX_ANALYZED_LINE_BYTES \/ (n < Len(lines) /\ Long[n + 1])
  IN  Long[1]

-----------------------------------------------------------------------------
(* _validate_files.                                                        *)

Checking(n) == verdict = "checking" /\ n = Len(validated) + 1

(* Mutant: paths are compared as they were sent.                           *)
ProblemOfRawPath(file) ==
  LET path == Normalized(file.path)
  IN  CASE InvalidPath(path)                              -> "invalid_path"
        [] Segments(file.path) \in seen                   -> "duplicate_path"
        [] Forbidden(path)                                -> "unsupported_file_type"
        [] Size(file.lines) > MAX_FILE_BYTES              -> "file_too_large"
        [] total + Size(file.lines) > MAX_REQUEST_BYTES   -> "request_too_large"
        [] OTHER                                          -> "none"

(* Mutant: the size of a request is checked before the file is counted.    *)
ProblemBeforeCounting(file) ==
  LET path == Normalized(file.path)
  IN  CASE InvalidPath(path)                   -> "invalid_path"
        [] Segments(path) \in seen             -> "duplicate_path"
        [] Forbidden(path)                     -> "unsupported_file_type"
        [] Size(file.lines) > MAX_FILE_BYTES   -> "file_too_large"
        [] total > MAX_REQUEST_BYTES           -> "request_too_large"
        [] OTHER                               -> "none"

(* The first reason not to take a file.                                    *)
Problem(file) ==
  LET path == Normalized(file.path)
  IN  CASE InvalidPath(path)                              -> "invalid_path"
        [] Segments(path) \in seen                        -> "duplicate_path"
        [] Forbidden(path)                                -> "unsupported_file_type"
        [] Size(file.lines) > MAX_FILE_BYTES              -> "file_too_large"
        [] total + Size(file.lines) > MAX_REQUEST_BYTES   -> "request_too_large"
        [] OTHER                                          -> "none"

RejectCount ==
  /\ Checking(1)
  /\ \/ request = <<>> /\ verdict' = "empty_files"
     \/ Len(request) > MAX_FILES /\ verdict' = "too_many_files"
  /\ UNCHANGED <<request, seen, total, validated, disk>>

RejectFile ==
  \E n \in 1..Len(request) :
    /\ Checking(n)
    /\ Len(request) <= MAX_FILES
    /\ Problem(request[n]) # "none"
    /\ verdict' = Problem(request[n])
    /\ UNCHANGED <<request, seen, total, validated, disk>>

TakeFile ==
  \E n \in 1..Len(request) :
    LET path == Segments(Normalized(request[n].path))
    IN  /\ Checking(n)
        /\ Len(request) <= MAX_FILES
        /\ Problem(request[n]) = "none"
        /\ seen' = seen \cup {path}
        /\ total' = total + Size(request[n].lines)
        /\ validated' = Append(validated, [path |-> path, lines |-> request[n].lines])
        /\ verdict' = IF n = Len(request) THEN "writing" ELSE "checking"
        /\ UNCHANGED <<request, disk>>

-----------------------------------------------------------------------------
(* _write_request_files.                                                   *)

Parents(path) == {SubSeq(path, 1, n) : n \in 1..Len(path) - 1}

FilesOnDisk == {path \in DOMAIN disk : disk[path] = "file"}

Writing(n) == verdict = "writing" /\ n = Cardinality(FilesOnDisk) + 1

(* mkdir(exist_ok=True) accepts a directory and nothing else, and O_EXCL   *)
(* accepts nothing that exists.                                            *)
CanWrite(path) == path \notin DOMAIN disk /\ Parents(path) \cap FilesOnDisk = {}

WriteFile ==
  \E n \in 1..Len(validated) :
    LET path == validated[n].path
    IN  /\ Writing(n)
        /\ CanWrite(path)
        /\ disk' = [p \in DOMAIN disk \cup Parents(path) \cup {path} |->
                      IF p \in DOMAIN disk THEN disk[p] ELSE IF p = path THEN "file" ELSE "dir"]
        /\ verdict' = IF n = Len(validated) THEN "written" ELSE "writing"
        /\ UNCHANGED <<request, seen, total, validated>>

(* The exception rolls the whole tree back, and the call answers           *)
(* scanner_error.                                                          *)
WriteFails ==
  \E n \in 1..Len(validated) :
    /\ Writing(n)
    /\ ~CanWrite(validated[n].path)
    /\ disk' = <<>>
    /\ verdict' = "scanner_error"
    /\ UNCHANGED <<request, seen, total, validated>>

(* The files the worker is told not to analyze.                            *)
Unanalyzed == {validated[n].path : n \in {m \in 1..Len(validated) : LongFrom(validated[m].lines)}}

Settled == verdict \notin {"checking", "writing"} /\ UNCHANGED vars

Next ==
  \/ RejectCount
  \/ RejectFile
  \/ TakeFile
  \/ WriteFile
  \/ WriteFails
  \/ Settled

Spec == Init /\ [][Next]_vars

-----------------------------------------------------------------------------
(* Properties.                                                             *)

Errors == {"empty_files", "too_many_files", "invalid_path", "duplicate_path",
           "unsupported_file_type", "file_too_large", "request_too_large", "scanner_error"}

(* Every variable keeps to the values the code can give it.                *)
TypeOK ==
  /\ request \in Seq(File)
  /\ verdict \in {"checking", "writing", "written"} \cup Errors
  /\ seen \subseteq Seq(Seq(Characters))
  /\ total \in 0..MAX_REQUEST_BYTES
  /\ Len(validated) <= Len(request)
  /\ DOMAIN disk \subseteq Seq(Seq(Characters))
  /\ \A p \in DOMAIN disk : disk[p] \in {"file", "dir"}

(* Where the system's own path resolution arrives: ".." goes up, "." and   *)
(* an empty segment stay.                                                  *)
Walk(to, s) ==
  CASE s \in {<<>>, <<".">>} -> to
    [] s = <<".", ".">>      -> [inside |-> to.inside /\ to.at # <<>>,
                                 at |-> IF to.at = <<>> THEN <<>> ELSE Front(to.at)]
    [] OTHER                 -> [inside |-> to.inside, at |-> Append(to.at, s)]

Root == [inside |-> TRUE, at |-> <<>>]

Resolved(path) == FoldLeft(Walk, Root, path)

(* Nothing is created outside the request's root, and no two names that    *)
(* were kept apart are one place on disk.                                  *)
Confined ==
  \A p, q \in DOMAIN disk :
    /\ Resolved(p).inside /\ Resolved(p).at # <<>>
    /\ Resolved(p) = Resolved(q) => p = q

(* A request that is accepted is within every limit, whichever order its   *)
(* files came in: said of the request as it was sent.                      *)
AcceptedWithinLimits ==
  verdict \in {"writing", "written", "scanner_error"} =>
    LET sizes == [n \in 1..Len(request) |-> Size(request[n].lines)]
    IN  /\ Len(request) \in 1..MAX_FILES
        /\ \A n \in DOMAIN sizes : sizes[n] <= MAX_FILE_BYTES
        /\ SumOf(sizes) <= MAX_REQUEST_BYTES

(* Validation leaves one reason for a write to fail: a file whose path is  *)
(* also a directory of another.                                            *)
WriteFailsOnNesting ==
  /\ verdict = "scanner_error" =>
       \E m, n \in 1..Len(validated) : validated[m].path \in Parents(validated[n].path)
  /\ verdict = "written" =>
       FilesOnDisk = {validated[n].path : n \in 1..Len(validated)}

(* Every file that no line rule may be given is known as such: the worker  *)
(* gets no line over the limit, the last line without a newline included.  *)
LongLinesMarked ==
  verdict = "written" =>
    \A n \in 1..Len(validated) :
      validated[n].path \in Unanalyzed <=>
        \E k \in 1..Len(validated[n].lines) : validated[n].lines[k] > MAX_ANALYZED_LINE_BYTES

(* The inductive invariant.  What was taken is the front of the request,   *)
(* and nothing but names below the root; what is on disk is the front of   *)
(* what was taken, with the directories it needs.                          *)
Ordinary(path) ==
  /\ path \in Seq(Seq(Characters)) \ {<<>>}
  /\ \A n \in 1..Len(path) : path[n] \notin {<<>>, <<".">>, <<".", ".">>}

FrontTaken ==
  /\ validated \in Seq([path : Seq(Seq(Characters)), lines : Seq(Nat) \ {<<>>}])
  /\ \A n \in 1..Len(validated) :
       /\ validated[n].lines = request[n].lines
       /\ Ordinary(validated[n].path)
       /\ Size(request[n].lines) <= MAX_FILE_BYTES
  /\ \A m, n \in 1..Len(validated) : m # n => validated[m].path # validated[n].path
  /\ seen = {validated[n].path : n \in 1..Len(validated)}
  /\ total = SumOf([n \in 1..Len(validated) |-> Size(request[n].lines)])

TakenByVerdict ==
  /\ validated # <<>> => Len(request) <= MAX_FILES
  /\ verdict = "checking" /\ request # <<>> => Len(validated) < Len(request)
  /\ verdict \in {"writing", "written", "scanner_error"} =>
       validated # <<>> /\ Len(validated) = Len(request)

FrontWritten ==
  LET k == Cardinality(FilesOnDisk)
  IN  /\ IsFiniteSet(FilesOnDisk)
      /\ k <= Len(validated)
      /\ FilesOnDisk = {validated[n].path : n \in 1..k}
      /\ \A p \in DOMAIN disk :
           \E n \in 1..k : p \in Parents(validated[n].path) \cup {validated[n].path}
      /\ verdict = "writing" => k < Len(validated)
      /\ verdict = "written" => k = Len(validated)
      /\ verdict \notin {"writing", "written"} => disk = <<>>

IInv ==
  /\ TypeOK
  /\ FrontTaken
  /\ TakenByVerdict
  /\ FrontWritten
  /\ WriteFailsOnNesting
=============================================================================
