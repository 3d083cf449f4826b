------------------------------- MODULE Markup -------------------------------
(***************************************************************************)
(* The passes of koda_core/checks/code_patterns.py over XML and pages: a   *)
(* DocumentBuilderFactory that parses untrusted XML before it is hardened, *)
(* raw substitutions in the SQL of a MyBatis mapper, and request data that *)
(* a JSP page writes out.  "factory" is DocumentBuilderFactory.newInstance *)
(* (), "builder" newDocumentBuilder(); a call of a setter is the name of   *)
(* the factory, ".", the setting and its value.                            *)
(***************************************************************************)
EXTENDS SourceText

CONSTANT WriteReach  \* lines after a JSP assignment that may write it, 12 in the code

\* Positions where the words stand in the text.
Occurs(text, words) ==
    {k \in 1 .. Len(text) - Len(words) + 1 : SubSeq(text, k, k + Len(words) - 1) = words}

Flat(lines, from, to) == FlattenSeq([k \in 1 .. to - from + 1 |-> Words(lines[from + k - 1])])

-----------------------------------------------------------------------------
(* Java: XML external entities.                                            *)

\* The features and setters that have to be off, unless doctypes are refused.
MustBeOff == {"general", "parameter", "dtd", "xinclude", "expand"}

\* A handler for a refused setting that neither throws nor returns.
Swallowed(text) ==
    \E k \in Occurs(text, <<"catch", "(", "parserException", ")", "{">>) :
        LET end == Find(text, "}", k + 5)
        IN  end > 0 /\ Range(SubSeq(text, k + 5, end - 1)) \cap {"throw", "return"} = {}

\* Mistake: the first call of a setter decides.
FirstSetting(text, factory, setting) ==
    LET at == UNION {Occurs(text, <<factory, ".", setting, v>>) : v \in {"true", "false"}}
    IN  IF at = {} THEN None ELSE text[Min(at) + 3]

\* feature_states and _last_java_boolean_call: the last call of a setter decides.
LastSetting(text, factory, setting) ==
    LET at == UNION {Occurs(text, <<factory, ".", setting, v>>) : v \in {"true", "false"}}
    IN  IF at = {} THEN None ELSE text[Max(at) + 3]

\* _java_xml_factory_is_hardened
Hardened(text, factory) ==
    /\ ~Swallowed(text)
    /\ \/ LastSetting(text, factory, "disallow") = "true"
       \/ \A setting \in MustBeOff : LastSetting(text, factory, setting) = "false"

\* The factory a line creates, or None.
FactoryOf(w) ==
    LET at == {k \in 1 .. Len(w) - 2 : w[k] \in Names /\ w[k + 1] = "=" /\ w[k + 2] = "factory"}
    IN  IF at = {} THEN None ELSE w[Min(at)]

BuilderOf(w, factory) ==
    LET at == {k \in 1 .. Len(w) - 4 : w[k] \in Names /\ SubSeq(w, k + 1, k + 4) = <<"=", factory, ".", "builder">>}
    IN  IF at = {} THEN None ELSE w[Min(at)]

ParsesUntrusted(w, builder) ==
    LET at == Occurs(w, <<builder, ".", "parse", "(">>)
    IN  at # {} /\ "remote" \in Range(SubSeq(w, Min(at) + 4, Len(w)))

\* The line where the builder of the factory at line i parses untrusted input
\* before the next factory, or 0 when none does or the factory is hardened.
ParseOfFactory(lines, i) ==
    LET factory == FactoryOf(Words(lines[i]))
        next == First({j \in i + 1 .. Len(lines) : FactoryOf(Words(lines[j])) # None})
        last == IF next = 0 THEN Len(lines) ELSE next - 1
        b == First({j \in i + 1 .. last : BuilderOf(Words(lines[j]), factory) # None})
        builder == BuilderOf(Words(lines[b]), factory)
        p == First({j \in b + 1 .. last : ParsesUntrusted(Words(lines[j]), builder)})
    IN  IF factory = None \/ b = 0 \/ p = 0 \/ Hardened(Flat(lines, i + 1, b - 1), factory) THEN 0 ELSE p

XxeFindings(suffix, lines) ==
    LET parse(i) == ParseOfFactory(lines, i)
    IN  IF suffix # "java" THEN <<>>
        ELSE FlattenSeq([i \in DOMAIN lines |-> IF parse(i) > 0 THEN <<Confirmed("xxe", parse(i))>> ELSE <<>>])

-----------------------------------------------------------------------------
(* MyBatis and JSP.                                                        *)

\* Raw substitutions are looked for between the tags of a statement, each tag
\* on the lines of the file.
MyBatisLine(lines, s, i) ==
    LET t == Range(lines[i])
        inside == s.inside \/ "<select" \in t
    IN  [inside |-> inside /\ "</select>" \notin t,
         out |-> IF inside /\ "${name}" \in t THEN Append(s.out, Candidate("sql", i)) ELSE s.out]

MyBatisFindings(suffix, lines) ==
    IF suffix = "xml" /\ \E i \in DOMAIN lines : "<mapper" \in Range(lines[i])
    THEN FoldLeft(LAMBDA s, i : MyBatisLine(lines, s, i), [inside |-> FALSE, out |-> <<>>],
                  Numbered(lines)).out
    ELSE <<>>

\* var name = ... <%= expression %>: the name, or None
ScriptVariable(w) ==
    LET at == {k \in 1 .. Len(w) - 2 : /\ w[k] = "var" /\ w[k + 1] \in Names /\ w[k + 2] = "="
                                       /\ \E a, b \in k + 3 .. Len(w) :
                                             /\ a + 1 < b /\ w[a] = "<%=" /\ w[b] = "%>"
                                             /\ "%>" \notin Range(SubSeq(w, a, b - 1))}
    IN  IF at = {} THEN None ELSE w[Min(at) + 1]

JspLine(lines, i) ==
    LET w == Words(lines[i])
        variable == ScriptVariable(w)
        following == Flat(lines, i + 1, Min({i + WriteReach, Len(lines)}))
    IN  IF "encode" \in Range(w) THEN <<>>
        ELSE IF Occurs(w, <<"<%=", "remote">>) # {} \/ ("${param." \in Range(w) /\ "<c:out" \notin Range(w))
        THEN <<Confirmed("dom", i)>>
        ELSE IF variable # None /\ Occurs(following, <<"document.write", "(", variable>>) # {}
        THEN <<Candidate("dom", i)>> ELSE <<>>

JspFindings(suffix, lines) ==
    IF suffix = "jsp" THEN FlattenSeq([i \in DOMAIN lines |-> JspLine(lines, i)]) ELSE <<>>

=============================================================================
