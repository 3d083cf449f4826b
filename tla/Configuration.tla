--------------------------- MODULE Configuration ----------------------------
(***************************************************************************)
(* check_file of koda_core/checks/configuration.py: settings of a project  *)
(* read line by line, by the kind of the file.  A kind stands for what the *)
(* code makes of a path: its name, its suffix, its directories.  A token   *)
(* stands for one setting; the rules of a kind that only differ in the     *)
(* setting they look for are represented by two or three of them.          *)
(***************************************************************************)
EXTENDS SourceText

CONSTANT PortReach  \* lines around an open address that may name an admin port, 7 in the code

Setting(rule, i) == [rule |-> rule, line |-> i, status |-> "confirmed"]

\* What a character makes of the quotes; an escape counts between double quotes.
QuotesAfter(s, t) ==
    IF s.escaped THEN [s EXCEPT !.escaped = FALSE]
    ELSE IF t = "escape" /\ s.quote = "quote" THEN [s EXCEPT !.escaped = TRUE]
    ELSE IF s.quote # None THEN [s EXCEPT !.quote = IF t = @ THEN None ELSE @]
    ELSE [s EXCEPT !.quote = IF t \in {"quote", "tick"} THEN t ELSE None]

\* One turn of the loop at position k: a "#" that begins a word ends the text.
CommentStep(text, s, k) ==
    IF s.cut > 0 THEN s
    ELSE IF ~s.escaped /\ s.quote = None /\ text[k] = "#" /\ (k = 1 \/ text[k - 1] = " ")
    THEN [s EXCEPT !.cut = k] ELSE QuotesAfter(s, text[k])

\* _strip_yaml_comment
StripComment(text) ==
    LET read == FoldLeft(LAMBDA s, k : CommentStep(text, s, k), [quote |-> None, escaped |-> FALSE, cut |-> 0], Numbered(text))
    IN  IF read.cut = 0 THEN text ELSE SubSeq(text, 1, read.cut - 1)

Settings(text) == Words(StripComment(text))

-----------------------------------------------------------------------------
(* Names, and settings of any text file.                                   *)

FilenameFindings(kind) ==
    IF kind = "env" THEN <<Setting("env-file", 0)>>
    ELSE IF kind = "key" THEN <<Setting("private-key", 0)>> ELSE <<>>

\* _should_check_development_environment
NamesEnvironment(kind) == kind \in {"env", "dockerfile", "compose", "yaml", "manifest", "workflow"}

TextFindings(kind, lines) ==
    LET both(i) == LET w == Range(Settings(lines[i]))
                   IN  (IF "debug" \in w THEN <<Setting("debug", i)>> ELSE <<>>)
                       \o (IF "development" \in w /\ NamesEnvironment(kind) THEN <<Setting("development", i)>> ELSE <<>>)
    IN  FlattenSeq([i \in DOMAIN lines |-> both(i)])

-----------------------------------------------------------------------------
(* YAML: the lines of a block scalar are text, not structure.              *)

\* _is_yaml_block_scalar: key : | at the end of the line
OpensBlock(w) == Len(w) > 1 /\ w[Len(w) - 1] = ":" /\ Last(w) = "|"

\* Mistake: a line no further in than the header still belongs to the block.
BlockNotLeft(block, indent) == indent >= block

StillInBlock(block, indent) == indent > block

NoBlock == 0 - 1

\* One line: "block" is block_indent, "at" the lines that hold structure; "blank"
\* are those that a block scalar takes in whatever their column.
YamlLine(lines, blank, s, i) ==
    LET indent == Indentation(lines[i])
    IN  IF s.block # NoBlock /\ (i \in blank \/ StillInBlock(s.block, indent)) THEN s
        ELSE IF OpensBlock(Settings(lines[i])) THEN [s EXCEPT !.block = indent]
        ELSE [block |-> NoBlock, at |-> s.at \cup {i}]

Structure(lines, blank) ==
    FoldLeft(LAMBDA s, i : YamlLine(lines, blank, s, i), [block |-> NoBlock, at |-> {}], Numbered(lines)).at

Empty(lines) == {i \in DOMAIN lines : Words(lines[i]) = <<>>}

\* _looks_like_kubernetes_manifest, for a name that does not say so; here a line
\* of comment counts as blank.
LooksLikeManifest(lines) ==
    LET at == Structure(lines, {i \in DOMAIN lines : Settings(lines[i]) = <<>>})
        has(key) == \E i \in at : LET w == Settings(lines[i])
                                  IN  Len(w) > 2 /\ SubSeq(w, 1, 2) = <<key, ":">>
    IN  has("apiVersion") /\ has("kind")

\* The environment of a compose file is looked at in the raw line.
ComposeFindings(lines) ==
    LET at == Structure(lines, Empty(lines))
        line(i) == (IF Settings(lines[i]) = <<"privileged">> THEN <<Setting("compose-privileged", i)>> ELSE <<>>)
                   \o (IF "docker.sock" \in Range(Settings(lines[i])) THEN <<Setting("compose-socket", i)>> ELSE <<>>)
                   \o (IF "PASSWORD=" \in Range(lines[i]) THEN <<Setting("compose-secret", i)>> ELSE <<>>)
    IN  FlattenSeq([i \in DOMAIN lines |-> IF i \in at THEN line(i) ELSE <<>>])

\* image: or - image:, floating or without a tag
Unpinned(w) ==
    LET k == IF w # <<>> /\ w[1] = "-" THEN 2 ELSE 1
    IN  Len(w) > k + 1 /\ SubSeq(w, k, k + 1) = <<"image", ":">> /\ ("latest" \in Range(w) \/ SubSeq(w, k + 2, Len(w)) = <<"w">>)

ManifestFindings(lines) ==
    LET at == Structure(lines, Empty(lines))
        line(i) == LET w == Settings(lines[i])
                   IN  (IF w = <<"privileged">> THEN <<Setting("k8s-privileged", i)>> ELSE <<>>)
                       \o (IF w # <<>> /\ Last(w) = "hostPath" THEN <<Setting("k8s-hostpath", i)>> ELSE <<>>)
                       \o (IF Unpinned(w) THEN <<Setting("k8s-image", i)>> ELSE <<>>)
    IN  FlattenSeq([i \in DOMAIN lines |-> IF i \in at THEN line(i) ELSE <<>>])

-----------------------------------------------------------------------------
(* The other kinds.                                                        *)

DockerfileFindings(lines) ==
    LET user(i) == LET w == Words(lines[i]) IN Len(w) > 1 /\ w[1] = "USER"
        line(i) == LET w == Words(lines[i])
                   IN  (IF user(i) /\ SubSeq(w, 2, Len(w)) = <<"root">> THEN <<Setting("docker-root", i)>> ELSE <<>>)
                       \o (IF Len(w) > 1 /\ w[1] = "ADD" /\ "http" \in Range(w) THEN <<Setting("docker-add", i)>> ELSE <<>>)
    IN  FlattenSeq([i \in DOMAIN lines |-> line(i)])
        \o (IF \E i \in DOMAIN lines : user(i) THEN <<>> ELSE <<Setting("docker-no-user", 0)>>)

\* _nearby_admin_port
AdminPortNearby(lines, i) ==
    \E j \in Max({1, i - PortReach}) .. Min({Len(lines), i + PortReach}) : "port22" \in Range(lines[j])

TerraformFindings(lines) ==
    LET line(i) == LET w == Range(lines[i])
                   IN  (IF "acl-public" \in w THEN <<Setting("tf-storage", i)>> ELSE <<>>)
                       \o (IF "anywhere" \notin w THEN <<>>
                           ELSE IF AdminPortNearby(lines, i) THEN <<Setting("tf-admin-port", i)>>
                           ELSE <<Setting("tf-ingress", i)>>)
    IN  FlattenSeq([i \in DOMAIN lines |-> line(i)])

WorkflowFindings(lines) ==
    LET line(i) == LET w == Words(lines[i])
                       runs == w # <<>> /\ (w[1] = "run" \/ (Len(w) > 1 /\ SubSeq(w, 1, 2) = <<"-", "run">>))
                   IN  (IF w # <<>> /\ w[1] = "pull_request_target" THEN <<Setting("gh-target", i)>> ELSE <<>>)
                       \o (IF runs /\ "github.event" \in Range(w) THEN <<Setting("gh-run", i)>> ELSE <<>>)
    IN  FlattenSeq([i \in DOMAIN lines |-> line(i)])

AndroidFindings(lines) ==
    LET line(i) == (IF "debuggable" \in Range(lines[i]) THEN <<Setting("android-debuggable", i)>> ELSE <<>>)
                   \o (IF "exported" \in Range(lines[i]) THEN <<Setting("android-exported", i)>> ELSE <<>>)
    IN  FlattenSeq([i \in DOMAIN lines |-> line(i)])

\* A key is true in the text of the whole file; the line is the first to name it.
PlistFindings(lines) ==
    LET text == FlattenSeq([i \in DOMAIN lines |-> Words(lines[i])])
        true(key) == \E k \in 1 .. Len(text) - 3 : SubSeq(text, k, k + 3) = <<"<key>", key, "</key>", "<true/>">>
        at(key) == {i \in DOMAIN lines : key \in Range(lines[i])}
        finding(key) == IF at(key) # {} /\ true(key) THEN <<Setting(key, Min(at(key)))>> ELSE <<>>
    IN  finding("ios-arbitrary-loads") \o finding("ios-file-sharing")

IsManifest(kind, lines) == kind = "manifest" \/ (kind \in {"yaml", "compose", "workflow"} /\ LooksLikeManifest(lines))

\* check_file
ConfigurationFindings(kind, lines) ==
    FilenameFindings(kind) \o TextFindings(kind, lines)
    \o (IF kind = "dockerfile" THEN DockerfileFindings(lines) ELSE <<>>)
    \o (IF kind = "compose" THEN ComposeFindings(lines) ELSE <<>>)
    \o (IF IsManifest(kind, lines) THEN ManifestFindings(lines) ELSE <<>>)
    \o (IF kind = "terraform" THEN TerraformFindings(lines) ELSE <<>>)
    \o (IF kind = "workflow" THEN WorkflowFindings(lines) ELSE <<>>)
    \o (IF kind = "android" THEN AndroidFindings(lines) ELSE <<>>)
    \o (IF kind = "plist" THEN PlistFindings(lines) ELSE <<>>)
=============================================================================
