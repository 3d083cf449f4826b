----------------------------- MODULE NullState ------------------------------
(***************************************************************************)
(* _java_null_pointer_findings of koda_core/checks/code_patterns.py: one   *)
(* walk over the code view of a Java file that knows which local names are *)
(* null for certain or perhaps, and which of them a guard protects here.   *)
(* "lookup" is a call of the allow-listed APIs that may return null, with  *)
(* its arguments; "get" a call of Map.get; "orElse" a null-safe chain.     *)
(***************************************************************************)
EXTENDS SourceText

CONSTANT GuardWindow  \* lines _java_guard_exits looks at, 7 in the code

\* line.count: braces inside of strings count too
PlainDelta(w) == Count(w, "{", DOMAIN w) - Count(w, "}", DOMAIN w)

DeltaOver(lines, i, j) == FoldLeft(LAMBDA n, k : n + PlainDelta(lines[k]), 0, [k \in 1 .. j - i + 1 |-> i + k - 1])

\* _JAVA_NULL_GUARD and _JAVA_NONNULL_GUARD: if ( name op null ), either way round
Guard(w, op) ==
    LET at == {k \in 1 .. Len(w) - 5 :
                  /\ w[k] = "if" /\ w[k + 1] = "(" /\ w[k + 3] = op /\ w[k + 5] = ")"
                  /\ \/ w[k + 2] \in Names /\ w[k + 4] = "null"
                     \/ w[k + 2] = "null" /\ w[k + 4] \in Names}
    IN  IF at = {} THEN [name |-> None, end |-> 0]
        ELSE [name |-> w[Min(at) + IF w[Min(at) + 2] = "null" THEN 4 ELSE 2], end |-> Min(at) + 5]

Leaves(text) == \E t \in Range(text) : t \in {"return", "throw"}

\* _java_guard_exits: the line itself, or the lines up to the one that closes
\* the block, which is looked for on the lines that follow.
GuardExits(lines, i) ==
    LET closing == {j \in i + 1 .. Len(lines) : DeltaOver(lines, i, j) <= 0}
        last == Min(closing \cup {Len(lines), i + GuardWindow - 1})
    IN  IF "{" \in Range(lines[i]) THEN \E j \in i .. last : Leaves(lines[j]) ELSE Leaves(lines[i])

-----------------------------------------------------------------------------
(* The state: "null" and "maybe" are the names that are null for certain   *)
(* or perhaps, "receivers" the declared maps, "scopes" the guarded blocks  *)
(* by depth, "next" and "here" the statements guarded without a block.     *)

NothingKnown == [null |-> {}, maybe |-> {}, receivers |-> {}, scopes |-> {}, next |-> {}, here |-> {},
                 depth |-> 0, out |-> <<>>]

Forget(s, names) == [s EXCEPT !.null = @ \ names, !.maybe = @ \ names]

\* The first match of a line, here and in Required.
MapsDeclared(w) ==
    LET at == First({k \in 1 .. Len(w) - 1 : w[k] = "Map" /\ w[k + 1] \in Names})
    IN  IF at = 0 THEN {} ELSE {w[at + 1]}

\* Mistake: null state is carried over the header of the next method.
HeaderIgnored(suffix, s, w) == s

\* A header forgets the local names, but not the maps: they may be fields.
AfterHeader(suffix, s, w) ==
    IF StartsFunction(w, suffix) THEN [Forget(s, Names) EXCEPT !.scopes = {}, !.next = {}] ELSE s

\* Mistake: a guard outlives its block.
GuardedForever(s, w) == s.scopes

\* An else and the end of a block end the protection of a guard.
StillGuarded(s, w) == IF "else" \in Range(w) THEN {} ELSE {c \in s.scopes : s.depth >= c.depth}

Enter(suffix, s, i, w) ==
    LET fresh == AfterHeader(suffix, s, w)
    IN  [fresh EXCEPT !.next = {p \in @ : p.line >= i}, !.here = {},
                      !.scopes = StillGuarded(fresh, w), !.receivers = @ \cup MapsDeclared(w)]

\* if (name != null): a block, the rest of the line, or the next statement
Protect(lines, s, i, w) ==
    LET guard == Guard(w, "!=")
        later == {j \in i + 1 .. Len(lines) : Words(lines[j]) # <<>>}
    IN  IF guard.name = None THEN s
        ELSE IF "{" \in Range(w)
        THEN [s EXCEPT !.scopes = @ \cup {[name |-> guard.name, depth |-> s.depth + 1]}]
        ELSE IF guard.end < Len(w) \/ later = {} THEN [s EXCEPT !.here = {guard.name}]
        ELSE [s EXCEPT !.next = @ \cup {[name |-> guard.name, line |-> Min(later)]}]

Required(w) ==
    LET at == First({k \in 1 .. Len(w) - 4 : /\ w[k] = "requireNonNull" /\ w[k + 1] = "(" /\ w[k + 2] \in Names
                                             /\ w[k + 3] = ")" /\ w[k + 4] = ";"})
    IN  IF at = 0 THEN {} ELSE {w[at + 2]}

NullSafe(w) == \E t \in Range(w) : t \in {"orElse", "requireNonNull"}

\* name.member, but not name.class
Dereferenced(w, name) ==
    \E k \in 1 .. Len(w) - 1 : w[k] = name /\ w[k + 1] = "." /\ (k + 2 <= Len(w) => w[k + 2] # "class")

Exposed(s, i, w) ==
    {n \in s.null \cup s.maybe : /\ Dereferenced(w, n) /\ n \notin s.here
                                 /\ [name |-> n, line |-> i] \notin s.next
                                 /\ \A c \in s.scopes : c.name # n}

MapLookup(s, w) == \E k \in 1 .. Len(w) - 2 : w[k] \in s.receivers /\ w[k + 1] = "." /\ w[k + 2] = "get"

\* The result of a lookup is used at once.
Chained(s, w) ==
    \E k \in 1 .. Len(w) - 1 :
        /\ w[k] \in {"lookup", "get", ")"} /\ w[k + 1] = "."
        /\ "lookup" \in Range(w) \/ \E g \in 1 .. k : MapLookup(s, SubSeq(w, g, k)) /\ ";" \notin Range(SubSeq(w, g, k))

\* At most one finding for a line; of several names the first in order decides.
Reported(s, i, w) ==
    LET exposed == SelectSeq(SetToSeq(Names), LAMBDA n : n \in Exposed(s, i, w))
    IN  IF NullSafe(w) THEN <<>>
        ELSE IF exposed # <<>>
        THEN <<IF Head(exposed) \in s.null THEN Confirmed("null", i) ELSE Candidate("null", i)>>
        ELSE IF Chained(s, w) THEN <<Candidate("null", i)>> ELSE <<>>

\* _JAVA_ASSIGNMENT: the position of the assigned name, or 0; a comparison that
\* is returned reads as one.
Written(w) ==
    LET i == IF w[1] \in {"type", "Map", "return"} THEN 2 ELSE 1
    IN  IF Len(w) > i + 1 /\ w[i] \in Names /\ w[i + 1] \in {"=", "=="} THEN i ELSE 0

\* What is written; behind the first "=" of a comparison that is its second "=".
WrittenValue(w) ==
    (IF w[Written(w) + 1] = "==" THEN <<"=">> ELSE <<>>)
    \o SelectSeq(SubSeq(w, Written(w) + 2, Len(w)), LAMBDA t : t # ";")

AfterWrite(s, w) ==
    LET name == w[Written(w)]
        value == WrittenValue(w)
        is(set) == Len(value) = 1 /\ value[1] \in set
        found == ("lookup" \in Range(value) \/ MapLookup(s, value)) /\ ~NullSafe(value)
    IN  IF Written(w) = 0 THEN s
        ELSE IF is({"null"} \cup s.null) THEN [Forget(s, {name}) EXCEPT !.null = @ \cup {name}]
        ELSE IF is(s.maybe) \/ found THEN [Forget(s, {name}) EXCEPT !.maybe = @ \cup {name}]
        ELSE Forget(s, {name})

\* One line.  A guard that exits clears its name and ends the line's turn, the
\* update of the depth included.
NullLine(suffix, lines, s, i) ==
    LET w == Words(lines[i])
        at == Forget(Protect(lines, Enter(suffix, s, i, w), i, w), Required(w))
        guarded == Guard(w, "==").name
    IN  IF w = <<>> THEN s
        ELSE IF guarded # None /\ GuardExits(lines, i) THEN Forget(at, {guarded})
        ELSE [AfterWrite([at EXCEPT !.out = @ \o Reported(at, i, w)], w) EXCEPT !.depth = @ + PlainDelta(w)]

\* The findings, confirmed ones first.
NullFindings(suffix, lines) ==
    LET out == FoldLeft(LAMBDA s, i : NullLine(suffix, lines, s, i), NothingKnown, Numbered(lines)).out
        those(confirmed) == FlattenSeq([k \in DOMAIN out |-> IF (out[k].status = "confirmed") = confirmed
                                                             THEN <<out[k]>> ELSE <<>>])
    IN  those(TRUE) \o those(FALSE)

=============================================================================
