--------------------------- MODULE DetectorProps ----------------------------
(***************************************************************************)
(* What the detectors of CheckFile promise, against reference definitions  *)
(* that look at a whole method or a whole block at once, where the code    *)
(* carries a state from line to line.                                      *)
(***************************************************************************)
EXTENDS CheckFile

\* The state in which every detector has reported and no later pass has begun.
Detected == pass = "flow" /\ line = 1

\* The lines where a rule reports.
Lines(rule) == {f.line : f \in {g \in Range(findings) : g.rule = rule}}

HeaderAt(text, i) == StartsFunction(Words(text[i]), file.suffix)

\* The first line of the method that line i belongs to, 1 before any header.
MethodOf(text, i) == Max({1} \cup {h \in 1 .. i : HeaderAt(text, h)})

MethodLines(text, h) == {i \in DOMAIN text : MethodOf(text, i) = h}

-----------------------------------------------------------------------------
(* Detectors that keep a state: one method at a time.                      *)

StatefulRules == {"release", "unset", "freed", "dns", "integer", "decision", "null"}

\* The file with the lines of one method only.
OnlyMethod(text, h) == [i \in DOMAIN text |-> IF MethodOf(text, i) = h THEN text[i] ELSE <<>>]

\* ... and with the maps the others declare, which may be fields.
WithMaps(text, h) ==
    [i \in DOMAIN text |->
        LET maps == MapsDeclared(Words(text[i]))
        IN  IF MethodOf(text, i) = h THEN text[i]
            ELSE IF maps = {} THEN <<>> ELSE <<"Map", CHOOSE m \in maps : TRUE>>]

FoundAlone(h) ==
    Range(SemanticFindings(file.suffix, OnlyMethod(statements, h)))
    \cup (IF file.suffix = "java" THEN Range(NullFindings(file.suffix, WithMaps(code, h))) ELSE {})

\* The checks that carry a state are intraprocedural: what they report in a
\* method is what they report when it is the only method of the file, so no name
\* acquired, freed, guarded or null in one method counts in another.
Intraprocedural ==
    Detected =>
        \A h \in {MethodOf(code, i) : i \in DOMAIN code} :
            LET own(found) == {f \in found : f.rule \in StatefulRules /\ f.line \in MethodLines(code, h)}
            IN  own(Range(findings)) = own(FoundAlone(h))

-----------------------------------------------------------------------------
(* Null state: the last thing said of a name, and the blocks of guards.    *)

\* Line i lies in the block that the last brace of line h opens.
InBlock(h, i) == h < i /\ \A k \in h .. i - 1 : 1 + DeltaOver(code, h + 1, k) > 0

\* Whether a null guard leaves the method: within its own block, or on its line.
OwnBlockLeaves(h) ==
    LET w == Words(code[h])
    IN  IF "{" \in Range(w) /\ PlainDelta(w) > 0 THEN \E i \in h + 1 .. Len(code) : InBlock(h, i) /\ Leaves(code[i])
        ELSE Leaves(w)

NullGuardAt(h) == Guard(Words(code[h]), "==").name

\* The names a line requires not to be null, and the maps it declares.
Requires(w) ==
    {n \in Names : \E k \in 1 .. Len(w) - 4 : SubSeq(w, k, k + 4) = <<"requireNonNull", "(", n, ")", ";">>}

Maps(w) == {n \in Names : \E k \in 1 .. Len(w) - 1 : w[k] = "Map" /\ w[k + 1] = n}

Clears(i, n) == n \in Requires(Words(code[i])) \/ (NullGuardAt(i) = n /\ OwnBlockLeaves(i))

Writes(i, n) ==
    LET w == Words(code[i])
    IN  w # <<>> /\ Written(w) > 0 /\ w[Written(w)] = n /\ ~(NullGuardAt(i) # None /\ OwnBlockLeaves(i))

MapsBefore(i) == UNION {Maps(Words(code[j])) : j \in 1 .. i}

\* Nullness()[i, n]: what the method has said of n before line i, "null", "maybe" or "set".
Nullness ==
    LET known[p \in (1 .. Len(code) + 1) \X Names] ==
            LET said == {j \in MethodOf(code, Min({p[1], Len(code)})) .. p[1] - 1 : Writes(j, p[2]) \/ Clears(j, p[2])}
                j == Max(said)
                w == Words(code[j])
                value == SelectSeq(SubSeq(w, Written(w) + 2, Len(w)), LAMBDA t : t # ";")
                assigned == w[Written(w) + 1] = "="
                lookup == "lookup" \in Range(value)
                          \/ \E k \in 1 .. Len(value) - 2 : value[k] \in MapsBefore(j) /\ value[k + 1] = "." /\ value[k + 2] = "get"
            IN  IF said = {} THEN "set"
                ELSE IF ~Writes(j, p[2]) THEN "set"
                ELSE IF assigned /\ value = <<"null">> THEN "null"
                ELSE IF assigned /\ Len(value) = 1 /\ value[1] \in Names THEN known[<<j, value[1]>>]
                ELSE IF lookup /\ ~NullSafe(value) THEN "maybe" ELSE "set"
    IN  known

\* The lines in the method of line i whose guard of n covers line i.
GuardsOf(i, n) ==
    {h \in MethodOf(code, i) .. i :
        LET w == Words(code[h])
            g == Guard(w, "!=")
        IN  /\ g.name = n
            /\ \/ "{" \in Range(w) /\ InBlock(h, i)
               \/ "{" \notin Range(w) /\ g.end < Len(w) /\ i = h
               \/ /\ "{" \notin Range(w) /\ g.end = Len(w) /\ h < i
                  /\ \A k \in h + 1 .. i - 1 : Words(code[k]) = <<>>}

\* A dereference is reported when the last thing its method has said of the name
\* is null or an API result that may be, unless a guard covers it; it is confirmed
\* only for null; and a covered one is not reported, as long as no else and no
\* null guard with a block of its own stands inside the block.  (For files whose
\* null guards are read as leaving exactly when their own block does, and which
\* require one name not to be null in a line, and declare one map.)
NullDereferences ==
    Detected /\ file.suffix = "java"
    /\ (\A i \in DOMAIN code : LET w == Words(code[i]) IN Cardinality(Requires(w)) <= 1 /\ Cardinality(Maps(w)) <= 1)
    /\ (\A h \in DOMAIN code : NullGuardAt(h) # None => (GuardExits(code, h) <=> OwnBlockLeaves(h))) =>
        LET nullness == Nullness
            reports == {f \in Range(findings) : f.rule = "null"}
            at(i, states) == {n \in Names : Dereferenced(Words(code[i]), n) /\ nullness[<<i, n>>] \in states}
            covered(i, n) == \E h \in GuardsOf(i, n) :
                                \A k \in h .. i : "else" \notin Range(code[k]) /\ (k > h => NullGuardAt(k) = None)
            skipped(i) == NullSafe(code[i]) \/ (NullGuardAt(i) # None /\ OwnBlockLeaves(i))
        IN  \A i \in DOMAIN code :
                /\ ~skipped(i) /\ (\E n \in at(i, {"null", "maybe"}) : GuardsOf(i, n) = {})
                       => \E f \in reports : f.line = i
                /\ \A f \in reports : f.line = i =>
                       \/ f.status = "confirmed" /\ \E n \in at(i, {"null"}) : ~covered(i, n)
                       \/ f.status # "confirmed" /\ \E n \in at(i, {"maybe"}) : ~covered(i, n)
                       \/ f.status # "confirmed" /\ \E t \in {"lookup", "get"} : t \in Range(code[i])

-----------------------------------------------------------------------------
(* Resources and memory.                                                   *)

\* Where a statement names the resource it acquires, or 0.
AcquiresAt(i) ==
    LET w == Words(statements[i])
    IN  IF "console" \in Range(w) THEN 0
        ELSE First({k \in 1 .. Len(w) - 1 : /\ w[k] \in Names /\ w[k + 1] = "="
                                            /\ Range(Clause(w, k)) \cap Constructors # {}})

\* Acquisitions of the method at line h, [name, line], and the line that closes a
\* name last, 0 for none.
AcquiredIn(h) ==
    {[name |-> Words(statements[i])[AcquiresAt(i)], line |-> i] :
        i \in {j \in MethodLines(statements, h) : AcquiresAt(j) > 0}}

LastClose(h, a) ==
    Max({0} \cup {i \in MethodLines(statements, h) : i >= a.line /\ Closes(Words(statements[i]), a.name)})

WrapsIn(w, name, other) ==
    \E k \in 1 .. Len(w) - 4 : /\ w[k] = name /\ w[k + 1] = "=" /\ w[k + 2] = "wrap" /\ w[k + 3] = "("
                               /\ w[k + 4] = other

TakesOver(b, a) == a.line < b.line /\ WrapsIn(Words(statements[b.line]), b.name, a.name)

\* The acquisitions that take over a resource, one from the other, itself included:
\* the least set with it and with what wraps any of the set.
TakenOver(h, a) ==
    LET acquired == AcquiredIn(h)
        closed(set) == \A b \in acquired, c \in set : TakesOver(b, c) => b \in set
    IN  {b \in acquired : \A set \in SUBSET acquired : a \in set /\ closed(set) => b \in set}

\* Whether the name stands in the header of a try, on the line of a or beside it.
OpensTry(w) == \E k \in 1 .. Len(w) - 1 : w[k] = "try" /\ w[k + 1] = "("

Tried(h, a) ==
    \E j \in Max({h, a.line - 1}) .. Min({Len(statements), a.line + 1}) :
        a.name \in Range(Words(statements[j])) /\ OpensTry(Words(statements[j]))

\* What the detector reads in one way only: a try with one blank before its
\* bracket, no comparison of a name (its "=" would acquire), one wrapper.
OneReading(text) ==
    LET w == Words(text)
    IN  /\ OpensTry(w) <=> SpelledTry(text)
        /\ \A k \in 1 .. Len(w) - 1 : w[k] \in Names => w[k + 1] # "=="
        /\ \A j, k \in DOMAIN w : w[j] = "wrap" /\ w[k] = "wrap" => j = k

\* Every resource is reported or taken care of: when neither it nor what wraps it
\* is closed in its method or opened in the header of a try, one of them is
\* reported; and what is reported is not wrapped, and is not closed or may be left
\* open by a catch behind the close.  (In files of which each statement has one
\* reading, and methods that acquire each name once, and wrap neither a name into
\* itself nor the console.)
ResourcesSettled ==
    Detected /\ file.suffix = "java" /\ (\A i \in DOMAIN statements : OneReading(statements[i])) =>
        \A h \in {MethodOf(statements, i) : i \in DOMAIN statements} :
            LET acquired == AcquiredIn(h)
                closed(a) == LastClose(h, a) > 0
                tried(a) == Tried(h, a)
            IN  /\ \A a, b \in acquired : a.name = b.name => a = b
                /\ \A i \in MethodLines(statements, h) :
                       LET w == Words(statements[i])
                       IN  /\ \A n \in Names : ~WrapsIn(w, n, n)
                           /\ "console" \notin Range(w) \/ "wrap" \notin Range(w)
                =>
                /\ \A a \in acquired :
                       (\A b \in TakenOver(h, a) : ~closed(b) /\ ~tried(b)) =>
                           \E b \in TakenOver(h, a) : b.line \in Lines("release")
                /\ \A i \in Lines("release") \cap MethodLines(statements, h) :
                       \E a \in acquired :
                           /\ a.line = i /\ TakenOver(h, a) = {a} /\ ~tried(a)
                           /\ closed(a) => \E j \in MethodLines(statements, h) :
                                              j > LastClose(h, a) /\ "catch" \in Range(statements[j])

Assigns(w, n) == \E k \in 1 .. Len(w) - 1 : w[k] = n /\ w[k + 1] = "="

\* The variables a statement declares, and those it frees.
DeclaredIn(w) == {n \in Names : \E k \in 1 .. Len(w) - 2 : w[k] = "type" /\ w[k + 1] = n /\ w[k + 2] = ";"}

FreedIn(w) ==
    {n \in Names : \E k \in 1 .. Len(w) - 4 : /\ w[k] = "free" /\ w[k + 1] = "(" /\ w[k + 2] = n
                                              /\ w[k + 3] = ")" /\ w[k + 4] = ";"}

\* The statements that say Of(w) of a name, as pairs of line and name.
Said(Of(_)) == {p \in (DOMAIN statements) \X Names : p[2] \in Of(Words(statements[p[1]]))}

\* The first statement of its method after line i that touches n, among those that
\* neither declare a variable nor free one.
NextTouch(i, n, touched) ==
    LET later == {j \in i + 1 .. Len(statements) :
                     LET w == Words(statements[j])
                     IN  MethodOf(statements, j) <= i /\ DeclaredIn(w) = {} /\ FreedIn(w) = {} /\ <<j, n>> \in touched}
    IN  IF later = {} THEN {} ELSE {Min(later)}

\* Where that statement does anything but assign the name.
UsedAfter(events, touched) ==
    {j \in DOMAIN statements : \E p \in events : j \in NextTouch(p[1], p[2], touched)
                                                /\ ~Assigns(Words(statements[j]), p[2])}

\* In C, a use after free is the first mention of the name after the call of free
\* that does not assign it, and an uninitialized read the first read of a declared
\* name that no assignment came before; nothing else is reported.  (For files in
\* which a statement declares or frees one name at most, of which the code would
\* see the first, and none compares a name with ==, which it takes for an
\* assignment.)
UseReported ==
    Detected /\ file.suffix = "c"
    /\ (\A i \in DOMAIN statements :
            LET w == Words(statements[i])
            IN  /\ DeclaredIn(w) = {} \/ FreedIn(w) = {}
                /\ \A m, n \in DeclaredIn(w) \cup FreedIn(w) : m = n
                /\ \A n \in Names : Rewrites(w, n) => Assigns(w, n)) =>
        LET touched == Said(LAMBDA w : {n \in Names : Assigns(w, n) \/ ReadsValue(w, n)})
        IN  /\ Lines("freed") = UsedAfter(Said(FreedIn), Said(Range))
            /\ Lines("unset") = UsedAfter(Said(DeclaredIn), touched)

-----------------------------------------------------------------------------
(* XML parsers and YAML.                                                   *)

\* The settings of a factory after a text, from the calls made on it in order.
SettingsAfter(text, factory) ==
    FoldLeft(LAMBDA set, k : IF k + 3 <= Len(text) /\ text[k] = factory /\ text[k + 1] = "."
                                /\ text[k + 3] \in {"true", "false"}
                             THEN {s \in set : s[1] # text[k + 2]} \cup {<<text[k + 2], text[k + 3]>>} ELSE set,
             {}, [k \in DOMAIN text |-> k])

Safe(settings) == <<"disallow", "true">> \in settings \/ \A s \in MustBeOff : <<s, "false">> \in settings

\* A parser is reported exactly when it reads untrusted input with a factory that
\* was, as it stood when the parser was made, open to external entities, or whose
\* configuration fails in silence.  (For factories that make one parser, before
\* the next factory is created.)
HardenedParsers ==
    Detected /\ file.suffix = "java" =>
        LET words(i) == Words(code[i])
            made == {i \in DOMAIN code : FactoryOf(words(i)) # None}
            end(i) == Min({Len(code)} \cup {j - 1 : j \in {k \in made : k > i}})
            builders(i) == {b \in i + 1 .. end(i) : BuilderOf(words(b), FactoryOf(words(i))) # None}
            reads(i, b) == {p \in b + 1 .. end(i) : ParsesUntrusted(words(p), BuilderOf(words(b), FactoryOf(words(i))))}
            open(i, b) == LET text == Flat(code, i + 1, b - 1)
                          IN  Swallowed(text) \/ ~Safe(SettingsAfter(text, FactoryOf(words(i))))
        IN  (\A i \in made : Cardinality(builders(i)) <= 1) =>
                Lines("xxe") = UNION {LET unsafe == UNION {reads(i, b) : b \in {c \in builders(i) : open(i, c)}}
                                      IN  IF unsafe = {} THEN {} ELSE {Min(unsafe)} : i \in made}

\* What a line of YAML is in the middle of: bare text, a string of either kind,
\* or a character that is escaped in one.
YamlMode(mode, t) ==
    CASE mode = "escaped"                           -> "quote"
      [] mode = "code" /\ t \in {"quote", "tick"}   -> t
      [] mode = "quote" /\ t = "escape"             -> "escaped"
      [] mode \in {"quote", "tick"} /\ t = mode     -> "code"
      [] OTHER                                      -> mode

\* The words of a line of YAML up to its comment, read token by token.
YamlWords(text) ==
    LET read == FoldLeft(LAMBDA s, t :
                   IF s.mode = "comment" \/ (s.mode = "code" /\ t = "#" /\ s.last = " ") THEN [s EXCEPT !.mode = "comment"]
                   ELSE [mode |-> YamlMode(s.mode, t), last |-> t, out |-> IF t = " " THEN s.out ELSE Append(s.out, t)],
                   [mode |-> "code", last |-> " ", out |-> <<>>], text)
    IN  read.out

\* The lines that are text of a block scalar: further in than its key, up to the
\* first line with words that is not.
ScalarText(lines) ==
    LET text[i \in DOMAIN lines] ==
            \E h \in 1 .. i - 1 :
                /\ ~text[h] /\ OpensBlock(YamlWords(lines[h]))
                /\ \A k \in h + 1 .. i : Words(lines[k]) = <<>> \/ Indentation(lines[k]) > Indentation(lines[h])
    IN  {i \in DOMAIN lines : text[i]}

\* A setting of a compose file is reported exactly where it is one: not in the
\* text of a block scalar, not in a comment, and again after the block has ended.
\* (For block scalars that are not the first key of a list item.)
BlockScalarsSkipped ==
    pass = "done" /\ file.suffix = "compose"
    /\ (\A i \in DOMAIN file.lines : LET w == YamlWords(file.lines[i]) IN w # <<>> /\ OpensBlock(w) => w[1] # "-") =>
        Lines("compose-privileged") =
            {i \in DOMAIN file.lines \ ScalarText(file.lines) : YamlWords(file.lines[i]) = <<"privileged">>}
=============================================================================
