----------------------------- MODULE SourceText -----------------------------
(***************************************************************************)
(* The text operations of koda_core/checks/code_patterns.py: the code view *)
(* that removes comments, the statements joined over lines, brackets and   *)
(* call arguments.  A line is a sequence of tokens; a token is what the    *)
(* scanner compares in one piece ("//", "*/", a quote, a bracket, a word); *)
(* " " is one column of blank.                                             *)
(***************************************************************************)
EXTENDS Integers, SequencesExt

CONSTANT Names  \* identifiers of the scanned program

ASSUME NamesAssumption == IsFiniteSet(Names)

None == "none"

\* What opens a comment or a string, for some of the scanned languages: the
\* token sets _code_view selects by suffix.
Lexis ==
    [py   |-> [toEnd |-> {"#"},  blocks |-> {},             triples |-> {"'''"}, quotes |-> {"quote"}],
     c    |-> [toEnd |-> {"//"}, blocks |-> {"/*"},         triples |-> {},      quotes |-> {"quote"}],
     jsp  |-> [toEnd |-> {},     blocks |-> {"<!--"},       triples |-> {},      quotes |-> {"quote"}],
     xml  |-> [toEnd |-> {},     blocks |-> {"<!--"},       triples |-> {},      quotes |-> {"quote"}],
     js   |-> [toEnd |-> {"//"}, blocks |-> {"/*"},         triples |-> {},      quotes |-> {"quote", "tick"}],
     java |-> [toEnd |-> {"//"}, blocks |-> {"/*"},         triples |-> {},      quotes |-> {"quote"}],
     vue  |-> [toEnd |-> {"//"}, blocks |-> {"/*", "<!--"}, triples |-> {},      quotes |-> {"quote", "tick"}]]

\* The token that ends what "opener" opens.
Closer(opener) ==
    CASE opener = "/*" -> "*/"
      [] opener = "<!--" -> "-->"
      [] OTHER -> opener

\* str.find(token, from), with 0 for "not found".
Find(line, token, from) ==
    LET at == {k \in from .. Len(line) : line[k] = token}
    IN  IF at = {} THEN 0 ELSE Min(at)

\* The first of some positions, 0 for none.
First(positions) == IF positions = {} THEN 0 ELSE Min(positions)

Numbered(text) == [i \in DOMAIN text |-> i]

-----------------------------------------------------------------------------
(* _code_view: indexed scanning of a line.  "index" runs ahead of k when a *)
(* comment or a string is skipped in one piece, past the end for a break.  *)

\* One turn of the while loop at position k; "open" is open_block or open_triple.
ScanToken(suffix, line, s, k) ==
    LET t == line[k]
        end == Find(line, Closer(t), k + 1)
        inside == Find(line, s.open, k)
        past == Len(line) + 1
        lex == Lexis[suffix]
    IN  CASE k # s.index -> s
          [] k = s.index /\ s.open # None ->
               IF inside = 0 THEN [s EXCEPT !.index = past]
               ELSE [s EXCEPT !.index = inside + 1, !.open = None]
          [] k = s.index /\ s.open = None /\ s.quote # None ->
               [s EXCEPT !.out = Append(@, t), !.index = k + 1,
                         !.escaped = ~s.escaped /\ t = "escape",
                         !.quote = IF ~s.escaped /\ t = @ THEN None ELSE @]
          [] k = s.index /\ s.open = None /\ s.quote = None ->
               IF t \in lex.triples \cup lex.blocks
               THEN IF end = 0 THEN [s EXCEPT !.open = Closer(t), !.index = past]
                    ELSE [s EXCEPT !.index = end + 1,
                                   !.out = IF t \in lex.triples THEN @ \o SubSeq(line, k, end) ELSE @]
               ELSE IF t \in lex.toEnd THEN [s EXCEPT !.index = past]
               ELSE [s EXCEPT !.out = Append(@, t), !.index = k + 1,
                              !.quote = IF t \in lex.quotes THEN t ELSE None]

\* Mistake: a quote left open at the end of a line stays open on the next one.
QuoteCarried(suffix, line, s) ==
    FoldLeft(LAMBDA r, k : ScanToken(suffix, line, r, k),
             [s EXCEPT !.out = <<>>, !.index = 1], [k \in 1 .. Len(line) |-> k])

\* A line starts outside of every string; an open block or triple is carried over.
ScanLine(suffix, line, s) ==
    FoldLeft(LAMBDA r, k : ScanToken(suffix, line, r, k),
             [s EXCEPT !.out = <<>>, !.index = 1, !.quote = None, !.escaped = FALSE],
             [k \in 1 .. Len(line) |-> k])

NothingScanned == [out |-> <<>>, index |-> 1, open |-> None, quote |-> None, escaped |-> FALSE]

CodeView(suffix, lines) ==
    FoldLeft(LAMBDA v, line : LET s == ScanLine(suffix, line, v.state)
                              IN  [state |-> s, out |-> Append(v.out, s.out)],
             [state |-> NothingScanned, out |-> <<>>], lines).out

-----------------------------------------------------------------------------
(* Statements, brackets and arguments.                                     *)

\* Positions of a text that lie outside its string literals: the quote
\* handling that _open_depth, _brace_delta and _call_arguments repeat.
Outside(text) ==
    FoldLeft(LAMBDA s, k :
               IF s.quote = None
               THEN IF text[k] \in {"quote", "tick"} THEN [s EXCEPT !.quote = text[k]]
                    ELSE [s EXCEPT !.at = @ \cup {k}]
               ELSE [s EXCEPT !.escaped = ~@ /\ text[k] = "escape",
                              !.quote = IF ~s.escaped /\ text[k] = @ THEN None ELSE @],
             [quote |-> None, escaped |-> FALSE, at |-> {}],
             [k \in 1 .. Len(text) |-> k]).at

Count(text, token, positions) == Cardinality({k \in positions : text[k] = token})

OpenDepth(text)  == Count(text, "(", Outside(text)) - Count(text, ")", Outside(text))
BraceDelta(text) == Count(text, "{", Outside(text)) - Count(text, "}", Outside(text))

Words(text) == FlattenSeq([k \in DOMAIN text |-> IF text[k] = " " THEN <<>> ELSE <<text[k]>>])

Indentation(text) ==
    LET ink == {k \in 1 .. Len(text) : text[k] # " "}
    IN  IF ink = {} THEN Len(text) ELSE Min(ink) - 1

\* str.strip
Stripped(text) ==
    LET ink == {k \in 1 .. Len(text) : text[k] # " "}
    IN  IF ink = {} THEN <<>> ELSE SubSeq(text, Min(ink), Max(ink))

\* _logical_lines for one line: the next lines join it while a bracket is open.
Joined(lines, i, most) ==
    LET w == Words(lines[i])
    IN  IF w # <<>> /\ Last(w) = "{" THEN lines[i]
        ELSE FoldLeft(LAMBDA text, d :
                        IF OpenDepth(text) > 0 /\ i + d <= Len(lines)
                        THEN text \o <<" ">> \o Stripped(lines[i + d]) ELSE text,
                      lines[i], [d \in 1 .. most |-> d])

\* Mistake: one continuation line too few.
JoinedOneShort(lines, most) == [i \in 1 .. Len(lines) |-> Joined(lines, i, most - 1)]

LogicalLines(lines, most) == [i \in 1 .. Len(lines) |-> Joined(lines, i, most)]

\* The position that closes the bracket at position k, or 0.
ClosedAt(text, k) ==
    LET rest == SubSeq(text, k, Len(text))
        out == Outside(rest)
        closed == {e \in out : Count(rest, "(", out \cap 1 .. e) = Count(rest, ")", out \cap 1 .. e)}
    IN  IF text[k] # "(" \/ closed = {} THEN 0 ELSE k + Min(closed) - 1

\* _call_arguments: the positions of the arguments of a call whose name ends
\* before position k; the rest of the text when the bracket stays open.
CallArguments(text, k) ==
    IF ClosedAt(text, k) > 0 THEN k + 1 .. ClosedAt(text, k) - 1 ELSE k + 1 .. Len(text)

-----------------------------------------------------------------------------
(* Functions: the boundary every pass with a state of its own stops at.    *)

IsComment(w) == w # <<>> /\ w[1] \in {"#", "//", "/*", "*", "<!--"}

\* name ( ... ) {, with no brace between the brackets
IsMethod(w, i) ==
    /\ i + 1 <= Len(w) /\ w[i] \in Names /\ w[i + 1] = "("
    /\ \E e \in i + 2 .. Len(w) - 1 :
          /\ w[e] = ")" /\ w[e + 1] = "{"
          /\ \A k \in i + 2 .. e : w[k] \notin {"{", "}", ";"}

\* _starts_function_scope
StartsFunction(w, suffix) ==
    CASE suffix = "py" -> Len(w) > 2 /\ w[1] = "def" /\ w[2] \in Names /\ w[3] = "("
      [] suffix = "js" -> \/ Len(w) > 2 /\ w[1] = "function" /\ w[2] \in Names /\ w[3] = "("
                          \/ /\ Len(w) > 2 /\ w[1] = "const" /\ w[2] \in Names /\ w[3] = "="
                             /\ \E k \in 4 .. Len(w) - 1 : w[k] = "=>" /\ w[k + 1] = "{"
                          \/ IsMethod(w, 1)
      [] suffix \in {"java", "c"} -> \E i \in {1, 2} : IsMethod(w, i) /\ (i = 2 => w[1] = "type")
      [] OTHER -> FALSE

\* What a pass reports: a rule, at a line, as a candidate for review or confirmed.
Candidate(rule, i) == [rule |-> rule, line |-> i, status |-> "needs_review"]

Confirmed(rule, i) == [rule |-> rule, line |-> i, status |-> "confirmed"]

=============================================================================
