----------------------------- MODULE Semantics ------------------------------
(***************************************************************************)
(* _sw49_semantic_findings of koda_core/checks/code_patterns.py: detectors *)
(* that each walk the statements of a file with a state of their own.  A   *)
(* token stands for the words one pattern accepts: "open", "wrap" and      *)
(* "console" for constructors of resources, "resolve" for a DNS lookup,    *)
(* "parse" for a number parsed from input, "guard" for a permission check, *)
(* "mutation" for a call of a repository that changes data, "role" for a   *)
(* name that decides something, and so on.                                 *)
(***************************************************************************)
EXTENDS SourceText

CONSTANTS EndpointReach,  \* lines from an annotation to its method, 8 in the code
          EndpointBody,   \* lines of a method that are looked at, 180
          GuardReach,     \* lines before an annotation where a guard counts, 3
          LoopReach,      \* lines of a loop that are looked at, 25
          PolicyReach     \* lines around @Size that may name a password, 2

ASSUME ReachAssumption == {EndpointReach, EndpointBody, GuardReach, LoopReach, PolicyReach} \subseteq Nat

\* The rest of the text up to the next semicolon.
Clause(w, k) == SubSeq(w, k, IF Find(w, ";", k) = 0 THEN Len(w) ELSE Find(w, ";", k) - 1)

\* name = ...; the pattern takes the first "=" of a comparison for one.
AssignmentAt(w) == First({k \in 1 .. Len(w) - 2 : w[k] \in Names /\ w[k + 1] \in {"=", "=="}})

\* name = ... token, or the first "=" of a comparison
Gets(w, tokens) ==
    First({k \in 1 .. Len(w) - 1 : /\ w[k] \in Names /\ w[k + 1] \in {"=", "=="}
                                   /\ Range(Clause(w, k)) \cap tokens # {}})

Repeat(f, n) == [k \in 1 .. n |-> f]

-----------------------------------------------------------------------------
(* Java: resources.  "held" keeps acquired, released and delegated of the  *)
(* current method: [name, line, closed, wrapped], closed 0 for not yet.    *)

Constructors == {"open", "wrap", "console"}

\* The text "try (", which has exactly one blank.
SpelledTry(text) == \E k \in 1 .. Len(text) - 2 : SubSeq(text, k, k + 2) = <<"try", " ", "(">>

\* ... with the name, on the line of the acquisition or beside it
InTryHeader(text, start, h) ==
    \E j \in Max({start, h.line - 1}) .. Min({Len(text), h.line + 1}) :
        h.name \in Range(Words(text[j])) /\ SpelledTry(text[j])

Mentions(text, from, to, token) == \E j \in from .. to : token \in Range(text[j])

Unsettled(text, start, end, h) ==
    /\ ~h.wrapped /\ ~InTryHeader(text, start, h)
    /\ \/ h.closed = 0
       \/ Mentions(text, h.closed + 1, end - 1, "catch") /\ ~Mentions(text, h.line, h.closed, "finally")

\* report_unreleased: what is left when the method ends before line "end"
Unreleased(text, s, end) ==
    FlattenSeq([k \in DOMAIN s.held |-> IF Unsettled(text, s.start, end, s.held[k])
                                        THEN <<Candidate("release", s.held[k].line)>> ELSE <<>>])

\* Mistake: what the previous method left open is forgotten at a header.
NextMethodForgetful(suffix, text, s, i) ==
    IF StartsFunction(Words(text[i]), suffix) THEN [held |-> <<>>, start |-> i, out |-> s.out] ELSE s

NextMethod(suffix, text, s, i) ==
    IF StartsFunction(Words(text[i]), suffix)
    THEN [held |-> <<>>, start |-> i, out |-> s.out \o Unreleased(text, s, i)] ELSE s

\* acquired[name] = i: a name that is acquired again keeps its place.
Acquire(held, name, i) ==
    IF \E k \in DOMAIN held : held[k].name = name
    THEN [k \in DOMAIN held |-> IF held[k].name = name THEN [held[k] EXCEPT !.line = i, !.closed = 0] ELSE held[k]]
    ELSE Append(held, [name |-> name, line |-> i, closed |-> 0, wrapped |-> FALSE])

\* name = new BufferedReader(other ..., at the first place where it reads like this
Wraps(w, name, other) ==
    LET at == First({k \in 1 .. Len(w) - 4 : /\ w[k] = name /\ w[k + 1] = "=" /\ w[k + 2] = "wrap" /\ w[k + 3] = "("
                                             /\ w[k + 4] \in Names \cup Constructors})
    IN  at > 0 /\ w[at + 4] = other

Closes(w, name) == \E k \in 1 .. Len(w) - 2 : SubSeq(w, k, k + 2) = <<name, ".", "close">>

ResourceLine(suffix, text, s, i) ==
    LET w == Words(text[i])
        m == NextMethod(suffix, text, s, i)
        at == Gets(w, Constructors)
        taken == IF at = 0 \/ "console" \in Range(w) THEN m.held ELSE Acquire(m.held, w[at], i)
    IN  [m EXCEPT !.held =
            [k \in DOMAIN taken |->
                [taken[k] EXCEPT !.wrapped = @ \/ (at > 0 /\ Wraps(w, w[at], taken[k].name)),
                                 !.closed = IF Closes(w, taken[k].name) THEN i ELSE @]]]

ResourceFindings(suffix, text) ==
    LET s == FoldLeft(LAMBDA t, i : ResourceLine(suffix, text, t, i),
                      [held |-> <<>>, start |-> 1, out |-> <<>>], Numbered(text))
    IN  s.out \o Unreleased(text, s, Len(text) + 1)

-----------------------------------------------------------------------------
(* C: variables that are read before they are set, memory used after free. *)

\* The name that the first declaration of a statement declares, and the one that
\* its first call of free frees: re.search looks no further.
Declared(w) ==
    LET at == First({k \in 1 .. Len(w) - 2 : w[k] = "type" /\ w[k + 1] \in Names /\ w[k + 2] = ";"})
    IN  IF at = 0 THEN {} ELSE {w[at + 1]}

Freed(w) ==
    LET at == First({k \in 1 .. Len(w) - 4 : /\ w[k] = "free" /\ w[k + 1] = "(" /\ w[k + 2] \in Names
                                             /\ w[k + 3] = ")" /\ w[k + 4] = ";"})
    IN  IF at = 0 THEN {} ELSE {w[at + 2]}

\* name\s*= also accepts the first "=" of a comparison.
Rewrites(w, name) == \E k \in 1 .. Len(w) - 1 : w[k] = name /\ w[k + 1] \in {"=", "=="}

ReadsValue(w, name) ==
    \/ \E k \in 1 .. Len(w) : w[k] \in {"return", "printf"} /\ name \in Range(Tail(Clause(w, k)))
    \/ \E k \in 1 .. Len(w) - 1 : w[k] = name /\ w[k + 1] \in {"+", ";", ",", ")", "]"}

\* Mistake: a freed name is forgotten only when it is assigned.
StillFreedAfterUse(w, freed) == {n \in freed : ~Rewrites(w, n)}

StillFreed(w, freed) == {n \in freed : n \notin Range(w)}

MemoryLine(suffix, text, s, i) ==
    LET w == Words(text[i])
        new == StartsFunction(w, suffix)
        freed == IF new THEN {} ELSE s.freed
        unset == IF new THEN {} ELSE s.unset
        read == {n \in unset : ~Rewrites(w, n) /\ ReadsValue(w, n)}
        used == {n \in freed : ~Rewrites(w, n) /\ n \in Range(w)}
    IN  IF Declared(w) # {} THEN [s EXCEPT !.freed = freed, !.unset = unset \cup Declared(w)]
        ELSE IF Freed(w) # {} THEN [s EXCEPT !.freed = freed \cup Freed(w), !.unset = unset]
        ELSE [freed |-> StillFreed(w, freed),
              unset |-> {n \in unset : ~Rewrites(w, n)} \ read,
              out |-> s.out \o Repeat(Candidate("unset", i), Cardinality(read))
                            \o Repeat(Candidate("freed", i), Cardinality(used))]

MemoryFindings(suffix, text) ==
    FoldLeft(LAMBDA s, i : MemoryLine(suffix, text, s, i),
             [freed |-> {}, unset |-> {}, out |-> <<>>], Numbered(text)).out

-----------------------------------------------------------------------------
(* Names that hold a resolved host, a parsed number, a decision.           *)

DnsLine(suffix, text, s, i) ==
    LET w == Words(text[i])
        over == First({k \in 1 .. Len(w) - 1 : w[k] \in Names /\ w[k + 1] \in {"=", "+="}})
        new == Gets(w, {"resolve"})
        names == ((IF StartsFunction(w, suffix) THEN {} ELSE s.names) \ (IF over > 0 THEN {w[over]} ELSE {}))
                 \cup (IF new > 0 THEN {w[new]} ELSE {})
        decides == /\ "trusted" \in Range(w) /\ {"==", "!=", "equals"} \cap Range(w) # {}
                   /\ names \cap Range(w) # {}
    IN  [names |-> names, out |-> IF decides THEN Append(s.out, Candidate("dns", i)) ELSE s.out]

Compared(w, name) ==
    \E k \in DOMAIN w : w[k] = name /\ \/ k < Len(w) /\ w[k + 1] \in {"<", ">"}
                                       \/ k > 1 /\ w[k - 1] \in {"<", ">"}

Sizes(w, name) ==
    \/ \E k \in 1 .. Len(w) - 2 : SubSeq(w, k, k + 2) = <<"[", name, "]">>
    \/ \E k \in 1 .. Len(w) : w[k] = "malloc" /\ name \in Range(Clause(w, k))

\* A guard stays when its name is parsed again.
IntegerLine(suffix, text, s, i) ==
    LET w == Words(text[i])
        new == StartsFunction(w, suffix)
        at == AssignmentAt(w)
        parsed == IF at > 0 /\ "parse" \in Range(Clause(w, at + 2)) THEN {w[at]} ELSE {}
        inputs == (IF new THEN {} ELSE s.inputs) \cup parsed
        guarded == (IF new THEN {} ELSE s.guarded) \cup {n \in inputs : Compared(w, n)}
        sized == {n \in inputs \ guarded : Sizes(w, n)}
    IN  [inputs |-> inputs \ sized, guarded |-> guarded,
         out |-> s.out \o Repeat(Candidate("integer", i), Cardinality(sized))]

Validated(w, name) == \E k \in DOMAIN w : w[k] = "validate" /\ name \in Range(Clause(w, k))

\* Mistake: names of the previous function still decide.
DecisionNamesKept(w, suffix, names) == names

DecisionNames(w, suffix, names) == IF StartsFunction(w, suffix) THEN {} ELSE names

DecisionLine(suffix, text, s, i) ==
    LET w == Words(text[i])
        at == AssignmentAt(w)
        new == IF at > 0 /\ w[at] = "role" /\ "remote" \in Range(Clause(w, at + 2)) THEN {"role"} ELSE {}
        names == DecisionNames(w, suffix, s.names) \cup new
        checked == {n \in names : Validated(w, n)}
        used == {n \in names \ checked : /\ n \in Range(w) /\ ~(at > 0 /\ w[at] = n)
                                         /\ {"if", "return", "+", "==", "!="} \cap Range(w) # {}}
    IN  [names |-> (names \ checked) \ used,
         out |-> s.out \o Repeat(Candidate("decision", i), Cardinality(used))]

-----------------------------------------------------------------------------
(* Endpoints, limits and loops: what stands around a statement.            *)

\* An entry point for sign-in with a sink for credentials and no protection.
AttemptFindings(text) ==
    LET at(token) == {i \in DOMAIN text : token \in Range(text[i])}
    IN  IF at("login") # {} /\ at("verify") # {} /\ at("limiter") = {}
        THEN <<Candidate("attempts", Min(at("login")))>> ELSE <<>>

\* The last line of the method whose header is line h: where its braces close.
BodyEnd(text, h) ==
    LET delta(j) == FoldLeft(LAMBDA n, k : n + Count(text[k], "{", DOMAIN text[k]) - Count(text[k], "}", DOMAIN text[k]),
                             0, [k \in 1 .. j - h + 1 |-> h + k - 1])
    IN  Min({Len(text), h + EndpointBody - 1} \cup {j \in h + 1 .. Len(text) : delta(j) <= 0})

EndpointUnguarded(suffix, text, a, h) ==
    LET w == Words(text[h])
        body == BodyEnd(text, h)
        in(token, from, to) == Mentions(text, from, to, token)
    IN  /\ "admin" \in Range(text[a]) \/ \E k \in DOMAIN w : w[k] = "admin" /\ IsMethod(w, k)
        /\ in("remote", h, body) \/ \E k \in 1 .. Len(w) - 1 : w[k] = "(" /\ w[k + 1] # ")"
        /\ in("mutation", h, body)
        /\ ~in("guard", Max({1, a - GuardReach}), body)

EndpointFindings(suffix, text) ==
    LET method(a) == First({h \in a + 1 .. Min({Len(text), a + EndpointReach}) : StartsFunction(Words(text[h]), suffix)})
        open(a) == "@endpoint" \in Range(text[a]) /\ method(a) > 0 /\ EndpointUnguarded(suffix, text, a, method(a))
    IN  FlattenSeq([a \in DOMAIN text |-> IF open(a) THEN <<Candidate("authorization", method(a))>> ELSE <<>>])

WeakPolicy(text, i) ==
    LET short(word) == \E k \in 1 .. Len(text[i]) - 1 : text[i][k] = word /\ text[i][k + 1] = "short"
    IN  \/ short("minPassword")
        \/ /\ short("@Size") /\ "minPassword" \notin Range(text[i])
           /\ \E j \in Max({1, i - PolicyReach}) .. Min({Len(text), i + PolicyReach}) :
                  {"password", "minPassword"} \cap Range(text[j]) # {}

SettingFindings(text) ==
    FlattenSeq([i \in DOMAIN text |-> (IF "chmod777" \in Range(text[i]) THEN <<Candidate("permissions", i)>> ELSE <<>>)
                                      \o (IF WeakPolicy(text, i) THEN <<Candidate("password", i)>> ELSE <<>>)])

\* The lines that are further in than line i, up to the first that is not.
Block(text, i, most) ==
    LET out == {j \in i + 1 .. Len(text) : Words(text[j]) # <<>> /\ Indentation(text[j]) <= Indentation(text[i])}
    IN  i + 1 .. Min({i + most, Len(text)} \cup {j - 1 : j \in out})

Endless(suffix, text, i) ==
    LET w == Words(text[i])
        starts(j) == LET v == Words(text[j]) IN v # <<>> /\ v[1] \in {"break", "return", "raise"}
    IN  IF suffix = "py"
        THEN Len(w) > 2 /\ SubSeq(w, 1, 3) = <<"while", "True", ":">> /\ ~\E j \in Block(text, i, LoopReach) : starts(j)
        ELSE /\ \E k \in 1 .. Len(w) - 3 : SubSeq(w, k, k + 3) = <<"while", "(", "true", ")">>
             /\ ~\E j \in i .. Min({Len(text), i + LoopReach - 1}) :
                    Range(text[j]) \cap {"break", "return", "throw", "goto"} # {}

\* The place of the first call of a function in its own body without a way out
\* behind an "if", or 0.  The pattern for a header also takes in the blank lines
\* above it, and then finds the body empty.
SelfCall(text, i) ==
    LET w == Words(text[i])
        body == Block(text, i, Len(text))
        flat == FlattenSeq([k \in 1 .. Cardinality(body) |-> Words(text[i + k])])
        base == \E a, b \in DOMAIN flat : a < b /\ flat[a] = "if" /\ flat[b] \in {"return", "raise"}
        calls(j) == LET v == Words(text[j])
                    IN  \E k \in 1 .. Len(v) - 1 : v[k] = w[2] /\ v[k + 1] = "(" /\ (k > 1 => v[k - 1] # ".")
    IN  IF /\ StartsFunction(w, "py") /\ Last(w) = ":" /\ ~base
           /\ i > 1 => Words(text[i - 1]) # <<>>
        THEN First({j \in body : calls(j)}) ELSE 0

LoopFindings(suffix, text) ==
    LET at(i) == IF suffix = "py" THEN SelfCall(text, i) ELSE 0
    IN  FlattenSeq([i \in DOMAIN text |-> IF Endless(suffix, text, i) THEN <<Candidate("loop", i)>> ELSE <<>>])
        \o FlattenSeq([i \in DOMAIN text |-> IF at(i) > 0 THEN <<Candidate("loop", at(i))>> ELSE <<>>])

\* Request data in a global of a module or a field of a controller; "session" is
\* a name for the data of one user.
SharedFindings(suffix, text) ==
    LET any(P(_)) == \E i \in DOMAIN text : P(text[i])
        global == /\ any(LAMBDA t : Len(t) > 1 /\ t[1] = "session" /\ t[2] = "=")
                  /\ any(LAMBDA t : \E k \in 2 .. Len(t) : t[k - 1] = "global" /\ t[k] = "session")
        field == /\ any(LAMBDA t : "servlet" \in Range(t))
                 /\ any(LAMBDA t : LET w == Words(t) IN Len(w) > 3 /\ SubSeq(w, 1, 3) = <<"private", "type", "session">>
                                                        /\ w[4] \in {";", "="})
        stores(w) == \E k \in 1 .. Len(w) - 1 : w[k] = "session" /\ w[k + 1] = "=" /\ {"remote", "session"} \cap Range(Clause(w, k + 2)) # {}
    IN  IF (suffix = "py" /\ global) \/ (suffix = "java" /\ field)
        THEN FlattenSeq([i \in DOMAIN text |-> IF stores(Words(text[i])) THEN <<Candidate("shared", i)>> ELSE <<>>])
        ELSE <<>>

-----------------------------------------------------------------------------
(* The pass: its detectors in the order of the code.                       *)

SemanticFindings(suffix, text) ==
    LET none == [names |-> {}, inputs |-> {}, guarded |-> {}, out |-> <<>>]
    IN  (IF suffix = "java" THEN ResourceFindings(suffix, text) ELSE <<>>)
        \o (IF suffix = "c" THEN MemoryFindings(suffix, text) ELSE <<>>)
        \o FoldLeft(LAMBDA s, i : DnsLine(suffix, text, s, i), none, Numbered(text)).out
        \o AttemptFindings(text)
        \o FoldLeft(LAMBDA s, i : IntegerLine(suffix, text, s, i), none, Numbered(text)).out
        \o FoldLeft(LAMBDA s, i : DecisionLine(suffix, text, s, i), none, Numbered(text)).out
        \o EndpointFindings(suffix, text)
        \o SettingFindings(text)
        \o LoopFindings(suffix, text)
        \o SharedFindings(suffix, text)
=============================================================================
