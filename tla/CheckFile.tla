----------------------------- MODULE CheckFile ------------------------------
(***************************************************************************)
(* What the worker makes of one file: the check of the configuration, then *)
(* check_file of koda_core/checks/code_patterns.py.  A file of code is     *)
(* turned into its code view and its statements, the detectors of Markup,  *)
(* Semantics and NullState look at it, the dataflow pass confirms flows    *)
(* from a remote source to a sink, and the line rules add candidates for   *)
(* review.  Four rules stand for the catalogue, one of each kind: a sink   *)
(* that is a word, one that is a call, one that is followed by a call, and *)
(* a rule that looks at the lines around it.  "remote" is any text that    *)
(* matches REMOTE_SOURCE, "local" one that matches LOCAL_SOURCE, "clean"   *)
(* the name of a sanitizer.  The prepared statements of PHP are left out,  *)
(* as is the set of sanitized names, which the code keeps and never reads. *)
(***************************************************************************)
EXTENDS NullState, Semantics, Markup, Configuration

CONSTANTS Families,         \* the files: [suffix, head, length, texts, tail]
          MaxContinuation,  \* _MAX_CONTINUATION_LINES, 4 in the code
          Nearby            \* half of the window of _candidate_is_suppressed, 5 in the code

ASSUME ContinuationAssumption == MaxContinuation \in Nat

\* A line is a sequence of tokens, a file a sequence of lines.
ASSUME FamiliesAssumption ==
    \A g \in Families : /\ g.length \in Nat /\ g.texts \subseteq Seq(STRING)
                        /\ g.head \in Seq(Seq(STRING)) /\ g.tail \in Seq(Seq(STRING))

VARIABLES file,        \* the kind of its path ("suffix") and its lines
          pass,        \* "settings", "view", "detect", "flow", "rules", "done"
          line,        \* the line the pass is at
          code,        \* code_lines
          statements,  \* _logical_lines of code
          tainted,     \* names that hold remote input in the current scope
          scopes,      \* scope_stack and brace_stack: [level, tainted]
          braceDepth,  \* brace_depth
          findings     \* [rule, line, status], in the order they are found

vars == <<file, pass, line, code, statements, tainted, scopes, braceDepth, findings>>

\* _CONTEXT_SINKS: token, and whether the pattern includes the bracket.
Sinks == <<[rule |-> "dom",  token |-> "innerHTML", bracket |-> FALSE],
           [rule |-> "eval", token |-> "eval",      bracket |-> TRUE],
           [rule |-> "ssrf", token |-> "fetch",     bracket |-> FALSE]>>

SinkRules == {Sinks[i].rule : i \in DOMAIN Sinks}

\* _LINE_RULES: the rules that apply to a suffix.
LineRules(suffix) ==
    CASE suffix = "py"   -> <<"eval", "ssrf", "broad">>
      [] suffix = "js"   -> <<"dom", "eval", "ssrf">>
      [] suffix = "java" -> <<"ssrf", "broad">>
      [] suffix = "vue"  -> <<"dom">>
      [] OTHER           -> <<>>

\* CODE_EXTENSIONS
IsCode(suffix) == suffix \in DOMAIN Lexis

Init ==
    /\ \E g \in Families : \E body \in [1 .. g.length -> g.texts] :
          file = [suffix |-> g.suffix, lines |-> g.head \o body \o g.tail]
    /\ pass = "settings" /\ line = 1
    /\ code = <<>> /\ statements = <<>>
    /\ tainted = {} /\ scopes = <<>> /\ braceDepth = 0
    /\ findings = <<>>

-----------------------------------------------------------------------------
(* What the patterns say of a statement.                                   *)

\* _ASSIGNMENT: where the assigned name is, or 0.  A type may stand before it, for
\* which any word passes; the first "=" of a comparison passes for an assignment.
Assigned(w) ==
    First({k \in 1 .. Len(w) - 2 :
              /\ w[k] \in Names /\ w[k + 1] \in {"=", "=="}
              /\ SubSeq(w, 1, k - 1) \in {<<>>, <<"const">>, <<"type">>, <<"const", "type">>, <<"return">>}})

\* The text with balanced sanitizer calls blanked out.
WithoutSanitizerCalls(w) ==
    [k \in DOMAIN w |->
        IF \E s \in 1 .. k : /\ w[s] = "clean" /\ s < Len(w)
                             /\ k <= ClosedAt(w, s + 1)
        THEN " " ELSE w[k]]

\* _STRING_LITERAL: where the literal that opens at k ends: at the first quote that
\* is not escaped, or else at the last one.
LiteralEnd(w, k) ==
    LET ends == {e \in k + 1 .. Len(w) : w[e] = w[k]}
        escapes(e) == {j \in k + 1 .. e - 1 : \A i \in j .. e - 1 : w[i] = "escape"}
    IN  IF ends = {} THEN 0 ELSE Min({Max(ends)} \cup {e \in ends : Cardinality(escapes(e)) % 2 = 0})

\* Positions outside of closed literals, and interpolations inside of them:
\* what _mask_literal_prose leaves.
Unmasked(w) ==
    LET end(k) == IF w[k] \in {"quote", "tick"} THEN LiteralEnd(w, k) ELSE 0
        mask == FoldLeft(LAMBDA s, k :
                           IF k = s.index /\ end(k) > 0
                           THEN [index |-> end(k) + 1, in |-> s.in \cup k .. end(k)]
                           ELSE [s EXCEPT !.index = IF k = @ THEN k + 1 ELSE @],
                         [index |-> 1, in |-> {}], [k \in DOMAIN w |-> k]).in
    IN  {k \in DOMAIN w : k \in mask =>
            \E a, b \in mask : /\ a < k /\ k < b /\ w[a] = "{" /\ w[b] = "}"
                               /\ a .. b \subseteq mask}

\* _has_unsanitized_taint
HasTaint(w, names) ==
    LET rest == WithoutSanitizerCalls(w)
    IN  \E k \in Unmasked(rest) : rest[k] \in names \cup {"remote"}

\* sink.search: the first place where the sink's pattern matches, or 0
SinkAt(sink, w) ==
    LET at == {k \in DOMAIN w : /\ w[k] = sink.token
                                /\ sink.bracket => k < Len(w) /\ w[k + 1] = "("}
    IN  IF at = {} THEN 0 ELSE Min(at)

\* The text whose taint decides: the arguments of the call when a bracket
\* follows the match, the whole line when none does.
Scrutinized(sink, w) ==
    LET after == SinkAt(sink, w) + (IF sink.bracket THEN 2 ELSE 1)
    IN  IF after <= Len(w) /\ w[after] = "("
        THEN LET args == CallArguments(w, after)
             IN  IF args = {} THEN <<>> ELSE SubSeq(w, Min(args), Max(args))
        ELSE w

\* Mistake: taint anywhere on the line counts.
ConfirmsLine(sink, w, names) == SinkAt(sink, w) > 0 /\ HasTaint(w, names)

Confirms(sink, w, names) ==
    SinkAt(sink, w) > 0 /\ HasTaint(Scrutinized(sink, w), names)

\* rule.pattern.search
RuleMatches(rule, w) ==
    IF rule = "broad" THEN \E k \in DOMAIN w : w[k] = "catch"
    ELSE LET i == CHOOSE j \in DOMAIN Sinks : Sinks[j].rule = rule
         IN  SinkAt(Sinks[i], w) > 0
             /\ \E k \in SinkAt(Sinks[i], w) .. Len(w) : w[k] \in {"remote", "local"}

\* _candidate_is_suppressed; the window reads the code view, not the statements
Suppressed(rule, w, n) ==
    CASE rule = "broad" -> \E i \in Max({1, n - Nearby}) .. Min({Len(code), n + Nearby}) :
                              "throw" \in Range(code[i])
      [] rule \in {"dom", "ssrf"} -> "clean" \in Range(w)
      [] OTHER -> FALSE

-----------------------------------------------------------------------------
(* The passes.                                                             *)

\* configuration.check_file; the worker runs it before the check of the code.
CheckSettings ==
    /\ pass = "settings"
    /\ findings' = findings \o ConfigurationFindings(file.suffix, file.lines)
    /\ pass' = IF IsCode(file.suffix) THEN "view" ELSE "done"
    /\ UNCHANGED <<file, line, code, statements, tainted, scopes, braceDepth>>

View ==
    /\ pass = "view"
    /\ code' = CodeView(file.suffix, file.lines)
    /\ statements' = LogicalLines(code', MaxContinuation)
    /\ pass' = "detect"
    /\ UNCHANGED <<file, line, tainted, scopes, braceDepth, findings>>

\* The detectors, in the order check_file calls them.
Detect ==
    /\ pass = "detect"
    /\ findings' = findings \o XxeFindings(file.suffix, code) \o MyBatisFindings(file.suffix, code)
                            \o JspFindings(file.suffix, code) \o SemanticFindings(file.suffix, statements)
                            \o (IF file.suffix = "java" THEN NullFindings(file.suffix, code) ELSE <<>>)
    /\ pass' = "flow"
    /\ UNCHANGED <<file, line, code, statements, tainted, scopes, braceDepth>>

\* _contextual_dataflow_findings: how many scopes stay open at this level
OpenScopes(level) == Max({0} \cup {i \in DOMAIN scopes : scopes[i].level < level})

\* Mistake: leaving a scope keeps the taint of its body.
TaintKept(open) == tainted

\* The taint after the scopes above "open" are popped: each pop restores the
\* sets its header had pushed.
TaintAfterPops(open) == IF open < Len(scopes) THEN scopes[open + 1].tainted ELSE tainted

AfterAssignment(w, names) ==
    IF Assigned(w) = 0 THEN names
    ELSE LET name == w[Assigned(w)]
         IN  IF HasTaint(SubSeq(w, Assigned(w) + 2, Len(w)), names) THEN names \cup {name}
             ELSE names \ {name}

\* Mistake: lines are counted from zero.
FlowFindingsFromZero(w, names) ==
    LET confirming == {i \in DOMAIN Sinks : Confirms(Sinks[i], w, names)}
    IN  IF confirming = {} THEN <<>>
        ELSE <<[rule |-> Sinks[Min(confirming)].rule, line |-> line - 1, status |-> "confirmed"]>>

\* At most one confirmed finding per line: the first sink that matches.
FlowFindings(w, names) ==
    LET confirming == {i \in DOMAIN Sinks : Confirms(Sinks[i], w, names)}
    IN  IF ~HasTaint(w, names) \/ confirming = {} THEN <<>>
        ELSE <<[rule |-> Sinks[Min(confirming)].rule, line |-> line, status |-> "confirmed"]>>

FlowSkip ==
    /\ pass = "flow" /\ line <= Len(statements)
    /\ LET w == Words(statements[line]) IN w = <<>> \/ IsComment(w)
    /\ line' = line + 1
    /\ UNCHANGED <<file, pass, code, statements, tainted, scopes, braceDepth, findings>>

FlowLine ==
    /\ pass = "flow" /\ line <= Len(statements)
    /\ LET w == Words(statements[line])
           scoped == file.suffix \in {"py", "js"}
           level == IF file.suffix = "py" THEN Indentation(statements[line]) ELSE braceDepth
           open == IF scoped THEN OpenScopes(level) ELSE 0
           restored == TaintAfterPops(open)
           starts == StartsFunction(w, file.suffix)
           known == AfterAssignment(w, IF starts THEN {} ELSE restored)
       IN  /\ w # <<>> /\ ~IsComment(w)
           /\ scopes' = SubSeq(scopes, 1, open)
                        \o (IF starts /\ scoped THEN <<[level |-> level, tainted |-> restored]>> ELSE <<>>)
           /\ tainted' = known
           /\ findings' = findings \o FlowFindings(w, known)
    /\ braceDepth' = braceDepth + (IF file.suffix = "js" THEN BraceDelta(statements[line]) ELSE 0)
    /\ line' = line + 1
    /\ UNCHANGED <<file, pass, code, statements>>

FlowEnds ==
    /\ pass = "flow" /\ line > Len(statements)
    /\ pass' = "rules" /\ line' = 1
    /\ UNCHANGED <<file, code, statements, tainted, scopes, braceDepth, findings>>

\* Mistake: a location is forgotten once a finding is confirmed there.
SeenCandidate(rule, n) ==
    \E i \in DOMAIN findings : /\ findings[i].rule = rule /\ findings[i].line = n
                               /\ findings[i].status = "needs_review"

Seen(rule, n) == \E i \in DOMAIN findings : findings[i].rule = rule /\ findings[i].line = n

\* The rules of check_file's own loop over the statements.
RuleLine ==
    /\ pass = "rules" /\ line <= Len(statements)
    /\ LET w == Words(statements[line])
           rules == LineRules(file.suffix)
           raised(r) == /\ w # <<>> /\ ~IsComment(w) /\ RuleMatches(r, w)
                        /\ ~Seen(r, line) /\ ~Suppressed(r, w, line)
       IN  findings' = findings \o FlattenSeq([i \in DOMAIN rules |->
                           IF raised(rules[i]) THEN <<Candidate(rules[i], line)>> ELSE <<>>])
    /\ line' = line + 1
    /\ UNCHANGED <<file, pass, code, statements, tainted, scopes, braceDepth>>

RulesEnd ==
    /\ pass = "rules" /\ line > Len(statements)
    /\ pass' = "done"
    /\ UNCHANGED <<file, line, code, statements, tainted, scopes, braceDepth, findings>>

\* The findings of the file are returned.
Returned == pass = "done" /\ UNCHANGED vars

Next == CheckSettings \/ View \/ Detect \/ FlowSkip \/ FlowLine \/ FlowEnds \/ RuleLine \/ RulesEnd \/ Returned

Spec == Init /\ [][Next]_vars
-----------------------------------------------------------------------------
(* Reference definitions: what the passes are meant to compute, from the   *)
(* grammar of the languages rather than from the code.                     *)

\* A lexer that reads the file token by token.  "held" is a triple-quoted string
\* that opened on this line; "out" is the live text of the line.
LexToken(suffix, s, t) ==
    LET lex == Lexis[suffix]
        mode == s.mode
        live == [s EXCEPT !.out = Append(@, t)]
    IN  CASE mode = "eol" -> s
          [] mode \in lex.quotes ->
               [live EXCEPT !.escaped = ~s.escaped /\ t = "escape",
                            !.mode = IF t = mode /\ ~s.escaped THEN "code" ELSE mode]
          [] mode \in {"*/", "-->"} -> [s EXCEPT !.mode = IF t = mode THEN "code" ELSE mode]
          [] mode \in lex.triples /\ t # mode ->
               [s EXCEPT !.held = IF @ = <<>> THEN @ ELSE Append(@, t)]
          [] mode \in lex.triples /\ t = mode ->
               [s EXCEPT !.mode = "code", !.held = <<>>,
                         !.out = IF s.held = <<>> THEN @ ELSE @ \o s.held \o <<t>>]
          [] mode = "code" ->
               CASE t \in lex.toEnd -> [s EXCEPT !.mode = "eol"]
                 [] t \in lex.blocks -> [s EXCEPT !.mode = Closer(t)]
                 [] t \in lex.triples -> [s EXCEPT !.mode = t, !.held = <<t>>]
                 [] t \in lex.quotes -> [live EXCEPT !.mode = t]
                 [] OTHER -> live

\* A comment to the end of the line and a string in plain quotes end with it.
LexLine(suffix, text, mode) ==
    FoldLeft(LAMBDA s, t : LexToken(suffix, s, t),
             [mode |-> IF mode \in {"eol", "quote"} THEN "code" ELSE mode,
              escaped |-> FALSE, held |-> <<>>, out |-> <<>>], text)

\* "spans": a template literal goes on over the end of a line.
LexFile(suffix, lines) ==
    FoldLeft(LAMBDA v, text : LET s == LexLine(suffix, text, v.mode)
                              IN  [mode |-> s.mode, out |-> Append(v.out, s.out),
                                   spans |-> v.spans \/ v.mode = "tick"],
             [mode |-> "code", out |-> <<>>, spans |-> FALSE], lines)

LiveText(suffix, lines) == LexFile(suffix, lines).out

\* The statements of the code view: a line belongs to the statement whose
\* bracket is open before it.  "plain" files close every bracket, and no line
\* inside of brackets reads as an assignment or ends the header of a function:
\* the passes read such a line twice, in its statement and by itself.
AddLine(p, l) ==
    LET w == Words(code[l])
        inside == p.open > 0
        words == (IF inside THEN Last(p.statements).words ELSE <<>>) \o w
    IN  [open  |-> p.open + OpenDepth(code[l]),
         plain |-> /\ p.plain /\ p.open >= 0
                   /\ inside /\ w # <<>> => Assigned(w) = 0 /\ ~StartsFunction(words, file.suffix),
         statements |->
            IF inside
            THEN Append(Front(p.statements), [Last(p.statements) EXCEPT !.last = l, !.words = words])
            ELSE IF w = <<>> \/ IsComment(w) THEN p.statements
            ELSE Append(p.statements, [first |-> l, last |-> l, words |-> w,
                                       indentation |-> Indentation(code[l])])]

Program ==
    FoldLeft(AddLine, [open |-> 0, plain |-> TRUE, statements |-> <<>>], [l \in DOMAIN code |-> l])

Plain(p) == p.plain /\ p.open = 0

\* Whether statement i of s lies in the function whose header is statement h.
Braces(s, h, i) == FoldLeft(LAMBDA n, k : n + BraceDelta(s[k].words), 0, [k \in 1 .. i - h |-> h + k - 1])

InBody(s, h, i) ==
    \A k \in h + 1 .. i : IF file.suffix = "py" THEN s[k].indentation > s[h].indentation
                          ELSE Braces(s, h, k) > 0

\* The headers of the innermost functions around each statement, or 0.
Owners(s) ==
    FoldLeft(LAMBDA o, i : Append(o, Max({0} \cup {h \in 1 .. i : StartsFunction(s[h].words, file.suffix)
                                                                  /\ InBody(s, h, i)})),
             <<>>, [i \in DOMAIN s |-> i])

\* The names that hold remote input at each statement: what the assignments of
\* its own function leave.
Taints(s, owners) ==
    FoldLeft(LAMBDA t, i :
               Append(t, FoldLeft(LAMBDA names, k : IF owners[k] = owners[i]
                                                    THEN AfterAssignment(s[k].words, names) ELSE names,
                                  {}, [k \in 1 .. i |-> k])),
             <<>>, [i \in DOMAIN s |-> i])

\* Nothing is tainted in a file that reads nothing remote.
ReadsRemote == \E text \in Range(code) : "remote" \in Range(text)

TaintsOf(p) == Taints(p.statements, Owners(p.statements))

\* Where a statement names the sink of a rule.
SinkPlaces(sink, w) == {k \in DOMAIN w : w[k] = sink.token /\ (sink.bracket => k < Len(w) /\ w[k + 1] = "(")}

\* The sink at place k is handed remote input: in its arguments when it is called,
\* anywhere in the statement when it is not.
FlowsAt(w, k, names) ==
    IF k < Len(w) /\ w[k + 1] = "("
    THEN ClosedAt(w, k + 1) > k + 2
         /\ HasTaint(SubSeq(w, k + 2, ClosedAt(w, k + 1) - 1), names)
    ELSE HasTaint(w, names)

FlowsInto(sink, w, names) == \E k \in SinkPlaces(sink, w) : FlowsAt(w, k, names)

FlowsIntoFirst(sink, w, names) ==
    \E k \in SinkPlaces(sink, w) : FlowsAt(w, k, names) /\ \A l \in SinkPlaces(sink, w) : k <= l

-----------------------------------------------------------------------------
(* Properties.                                                             *)

\* Every variable keeps its type; the code view and the statements stay aligned
\* with the lines of the file, and a finding is at one of them or at the file.
TypeOK ==
    /\ pass \in {"settings", "view", "detect", "flow", "rules", "done"}
    /\ line \in 1 .. Len(file.lines) + 1
    /\ Len(code) \in {0, Len(file.lines)} /\ Len(statements) = Len(code)
    /\ tainted \subseteq Names
    /\ \A i \in DOMAIN scopes : scopes[i].tainted \subseteq Names
    /\ braceDepth \in Int
    /\ \A i \in DOMAIN findings :
          /\ \/ findings[i].line \in DOMAIN file.lines
             \/ findings[i].line = 0 /\ findings[i].rule \in {"env-file", "private-key", "docker-no-user"}
          /\ findings[i].status \in {"confirmed", "needs_review"}

\* Template literals end on the line they begin on, and no docstring has an
\* escaped quote: the scanner forgets the first at the end of the line, and the
\* second ends the docstring for it (and for LexToken).
Lexable(lines) ==
    /\ ~LexFile(file.suffix, lines).spans
    /\ \A n \in DOMAIN lines : \A k \in 2 .. Len(lines[n]) :
          lines[n][k] = "'''" => lines[n][k - 1] # "escape"

\* What the rules read is the live text of the file, as a lexer sees it: no
\* comment and no string over several lines survives _code_view, nothing else
\* is lost, on whichever line the comment opened.
CommentsRemoved ==
    pass = "detect" /\ Lexable(file.lines) => code = LiveText(file.suffix, file.lines)

\* The taint the pass carries at a statement is the taint of that statement's
\* own function: nothing leaks out of a nested function or out of one that has
\* ended, and the outer function gets its own state back.  (In plain files: a
\* header over several lines, or a named argument on a line of its own, breaks it.)
TaintScoped ==
    pass = "flow" /\ line > 1 /\ (tainted # {} \/ ReadsRemote) =>
        LET p == Program
            taints == TaintsOf(p)
        IN  Plain(p) => \A i \in DOMAIN p.statements :
                            p.statements[i].first = line - 1 => tainted = taints[i]

\* A finding reported as confirmed is one: in the statement of that line, remote
\* input reaches the sink, in its arguments if it is a call.
ConfirmedIsFlow ==
    pass = "done" /\ (\E f \in Range(findings) : f.rule \in SinkRules /\ f.status = "confirmed") =>
        LET p == Program
            taints == TaintsOf(p)
        IN  Plain(p) /\ file.suffix # "jsp" =>
            \A f \in {g \in Range(findings) : g.rule \in SinkRules /\ g.status = "confirmed"} :
                \E i \in DOMAIN p.statements, j \in DOMAIN Sinks :
                    /\ f.line \in p.statements[i].first .. p.statements[i].last
                    /\ f.rule = Sinks[j].rule
                    /\ FlowsInto(Sinks[j], p.statements[i].words, taints[i])

\* Every flow into the first mention of a sink is found: when remote input reaches
\* it in a statement of at most MaxContinuation further lines, check_file reports
\* that rule or one before it on the statement's first line.  (Of two calls of one
\* sink in a statement only the first is looked at.)
FlowsFound ==
    pass = "done" =>
        LET p == Program
            taints == TaintsOf(p)
        IN  Plain(p) => \A i \in DOMAIN p.statements, j \in DOMAIN Sinks :
                /\ FlowsIntoFirst(Sinks[j], p.statements[i].words, taints[i])
                /\ p.statements[i].last - p.statements[i].first <= MaxContinuation
                => \E f \in Range(findings), k \in 1 .. j :
                       f.line = p.statements[i].first /\ f.rule = Sinks[k].rule

\* A rule reports a line once: what the dataflow pass has confirmed is not
\* listed again as a candidate.  (Except in a JSP page: see the README.)
ReportedOnce ==
    file.suffix # "jsp" =>
        \A i, j \in {k \in DOMAIN findings : findings[k].rule \in SinkRules \cup {"broad"}} :
            findings[i].rule = findings[j].rule /\ findings[i].line = findings[j].line => i = j
=============================================================================
