---------------------------- MODULE MCCheckFile -----------------------------
(* Files for CheckFile: every short text over the tokens of a language, and  *)
(* programs put together from lines.                                         *)
EXTENDS DetectorProps

Texts(alphabet, n) == UNION {[1 .. k -> alphabet] : k \in 0 .. n}

\* A file: "length" of the given texts between a head and a tail.
Framed(suffix, head, length, texts, tail) ==
    [suffix |-> suffix, head |-> head, length |-> length, texts |-> texts, tail |-> tail]

Family(suffix, length, texts) == Framed(suffix, <<>>, length, texts, <<>>)

\* One family for each way a comment, a docstring or a quote can open and close.
Lexed ==
    {Family("py", 2, Texts({"#", "'''", "quote", "w"}, 3)),
     Family("py", 2, Texts({"#", "'''", "quote", "escape"}, 3)),
     Family("js", 2, Texts({"//", "tick", "w"}, 3)),
     Family("java", 2, Texts({"//", "/*", "*/", "quote"}, 3)),
     Family("vue", 3, Texts({"/*", "*/", "<!--", "-->"}, 2))}

PyLines ==
    {<<"def", "f", "(", "y", ")", ":">>,
     <<" ", "def", "f", "(", ")", ":">>,
     <<" ", "x", "=", "remote">>,
     <<" ", " ", "x", "=", "remote">>,
     <<" ", "fetch", "(", "x", ")">>,
     <<"eval", "(", "x", ")">>}

JsLines ==
    {<<"function", "f", "(", "y", ")", "{">>,
     <<"const", "f", "=", "(", "y", ")", "=>", "{">>,
     <<"if", "(", "y", ")", "{">>,
     <<"}">>,
     <<"x", "=", "remote">>,
     <<"innerHTML", "=", "x">>}

Statements ==
    {<<"x", "=", "remote">>,
     <<"x", "=", "clean", "(", "remote", ")">>,
     <<"x", "=", "clean", "(", "w", ")", "remote">>,
     <<"y", "=", "x">>,
     <<"x", "=", "quote", "remote", "quote">>,
     <<"fetch", "(", "y", ")">>,
     <<"fetch", "(", "remote", ")">>,
     <<"fetch", "(", "w", ")", "remote">>,
     <<"fetch", "(", "w", ")", ";", "fetch", "(", "x", ")">>,
     <<"return", "x", "==", "remote">>,
     <<"x", "=", "quote", "escape", "quote", "remote", "quote">>,
     <<"eval", "(", "quote", "{", "x", "}", "quote", ")">>,
     <<"catch">>,
     <<"throw">>,
     <<"#", "eval", "(", "remote", ")">>}

\* Statements over up to three lines, and brackets that do not match.
Fragments == {<<"x", "=", "remote">>, <<"fetch", "(">>, <<" ", "w">>, <<" ", "x", ")">>}

Programs == {Family("py", 5, PyLines), Family("js", 5, JsLines), Family("py", 3, Statements),
             Family("py", 4, Fragments)}

Header == <<"type", "f", "(", "y", ")", "{">>

\* Null state: guards of all three shapes, blocks, lookups; and two methods.
NullLines ==
    {<<"x", "=", "null", ";">>,
     <<"x", "=", "lookup", ";">>,
     <<"y", "=", "x", ";">>,
     <<"if", "(", "x", "!=", "null", ")", "{">>,
     <<"if", "(", "x", "!=", "null", ")">>,
     <<"if", "(", "null", "==", "x", ")", "{">>,
     <<"}">>,
     <<"return", ";">>,
     <<"x", ".", "m", ";">>}

NullMethods ==
    {Header,
     <<"Map", "y", ";">>,
     <<"x", "=", "y", ".", "get", ";">>,
     <<"x", "=", "null", ";">>,
     <<"requireNonNull", "(", "x", ")", ";">>,
     <<"if", "(", "x", "==", "null", ")", "return", ";">>,
     <<"}", "else", "{">>,
     <<"x", ".", "m", ";">>,
     <<"return", "x", "==", "lookup", ";">>,
     <<"lookup", ".", "m", ";">>}

ResourceLines ==
    {Header,
     <<"x", "=", "open", ";">>,
     <<"y", "=", "wrap", "(", "x", ")", ";">>,
     <<"try", " ", "(", "x", "=", "open", ")", "{">>,
     <<"x", ".", "close", ";">>,
     <<"y", ".", "close", ";">>,
     <<"}", "catch", "(", "w", ")", "{">>,
     <<"}", "finally", "{">>}

MemoryLines ==
    {Header,
     <<"type", "x", ";">>,
     <<"free", "(", "x", ")", ";">>,
     <<"free", "(", "x", ")", ";", "free", "(", "y", ")", ";">>,
     <<"x", "=", "w", ";">>,
     <<"return", "x", ";">>,
     <<"x", "+", "y", ";">>,
     <<"w", "(", "y", ")", ";">>}

\* Names that decide something, and the checks that clear them.
DecisionLines ==
    {Header,
     <<"x", "=", "parse", ";">>,
     <<"if", "(", "x", "<", "w", ")">>,
     <<"w", "[", "x", "]", ";">>,
     <<"role", "=", "remote", ";">>,
     <<"if", "(", "role", ")">>,
     <<"validate", "role", ";">>}

DnsLines == {Header, <<"x", "=", "resolve", ";">>, <<"trusted", "==", "x", ";">>, <<"x", "=", "w", ";">>}

FactoryLines ==
    {<<"x", "=", "factory", ";">>,
     <<"y", "=", "x", ".", "builder", ";">>,
     <<"y", ".", "parse", "(", "remote", ")">>,
     <<"x", ".", "disallow", "true", ";">>,
     <<"x", ".", "disallow", "false", ";">>,
     <<"x", ".", "general", "false", ";", "x", ".", "parameter", "false", ";", "x", ".", "dtd", "false", ";">>,
     <<"x", ".", "xinclude", "false", ";", "x", ".", "expand", "false", ";">>,
     <<"catch", "(", "parserException", ")", "{", "}">>}

\* What stands around a statement: endpoints, limits, loops, shared fields.
AroundLines ==
    {<<"@endpoint", "admin">>,
     Header,
     <<"mutation">>,
     <<"guard">>,
     <<"while", "(", "true", ")">>,
     <<"return">>,
     <<"private", "type", "session", ";">>,
     <<"session", "=", "remote", ";", "servlet">>}

PyAround ==
    {<<"def", "f", "(", ")", ":">>,
     <<>>,
     <<" ", "f", "(", ")">>,
     <<" ", "if", "return">>,
     <<"while", "True", ":">>,
     <<" ", "break">>,
     <<"login", "verify">>,
     <<"limiter">>}

YamlLines ==
    {<<"privileged">>,
     <<" ", "privileged">>,
     <<"#", "privileged">>,
     <<" ", "quote", "#", "quote", " ", "#", "w">>,
     <<"tick", "escape", "tick", " ", "#", " ", "key", ":", "|">>,
     <<"key", ":", "|">>,
     <<" ", "key", ":", "|", " ", "#", "w">>,
     <<" ", "-", " ", "key", ":", "|">>,
     <<>>}

ManifestLines ==
    {<<"apiVersion", ":", "w">>, <<" ", "kind", ":", "w">>, <<"key", ":", "|">>,
     <<"privileged">>, <<"-", "image", ":", "w">>, <<"#", "hostPath">>}

Scanned ==
    {Framed("java", <<Header>>, 4, NullLines, <<<<"x", ".", "m", ";">>>>),
     Framed("java", <<Header>>, 3, NullMethods, <<<<"x", ".", "m", ";">>>>),
     Family("java", 4, ResourceLines),
     Family("c", 4, MemoryLines),
     Family("java", 4, DecisionLines), Family("java", 3, DnsLines),
     Framed("java", <<<<"x", "=", "factory", ";">>>>, 4, FactoryLines, <<<<"y", ".", "parse", "(", "remote", ")">>>>),
     Family("java", 3, AroundLines), Family("py", 3, PyAround),
     Family("xml", 4, {<<"<mapper">>, <<"<select">>, <<"</select>">>, <<"${name}">>}),
     Family("jsp", 3, {<<"<%=", "remote">>, <<"encode", "<%=", "remote">>, <<"var", "x", "=", "<%=", "w", "%>">>,
                       <<"document.write", "(", "x">>, <<"<c:out", "${param.">>, <<"innerHTML", "=", "<%=", "remote">>})}

Kinds ==
    {Family("compose", 4, YamlLines), Family("yaml", 3, ManifestLines),
     Family("dockerfile", 3, {<<"USER", "root">>, <<"USER", "w">>, <<"ADD", "http">>, <<"#", "debug">>, <<"development">>}),
     Family("terraform", 3, {<<"anywhere">>, <<"port22">>, <<"acl-public">>, <<"w">>}),
     Family("workflow", 2, {<<"pull_request_target">>, <<"-", "run", "github.event">>, <<"apiVersion", ":", "w">>, <<"kind", ":", "w">>}),
     Family("android", 2, {<<"debuggable">>, <<"exported">>, <<"w">>}),
     Family("plist", 3, {<<"<key>", "ios-file-sharing", "</key>">>, <<"<true/>">>, <<"ios-file-sharing">>}),
     Family("env", 1, {<<"debug">>, <<"development">>}), Family("key", 1, {<<"w">>})}

MCFamilies == Lexed \cup Programs \cup Scanned \cup Kinds

\* The same statements with a sink whose pattern includes the bracket of its call.
Beside == {Family("py", 2, Statements \cup {<<"eval", "(", "w", ")", "remote">>})}
=============================================================================
