--------------------------- MODULE CheckFileProofs ---------------------------
EXTENDS DetectorProps, SequenceTheorems, FiniteSetTheorems, TLAPS

\* The lemmas on numbers and on folds; what the parameters of that module are does
\* not matter to those that are used here.
Folds == INSTANCE FoldTheorems WITH Step <- LAMBDA v, x : v, Value <- {}, Entry <- {}

\* What a token is: any string; the prover has to be told that these are strings.
Token == STRING \cup {"code", "eol", "quote", "tick", "'''", "*/", "-->", " ", None}

Text == Seq(Token)

ScanStates == [out : Text, index : Nat, open : Token, quote : Token, escaped : BOOLEAN]

\* The tokens a language may give a meaning to.
Tokens(lex) ==
    /\ lex.quotes \subseteq {"quote", "tick"} /\ lex.triples \subseteq {"'''"}
    /\ lex.blocks \subseteq {"/*", "<!--"} /\ lex.toEnd \subseteq {"#", "//"}

\* The tokens that lemmas need by name.
LEMMA TokenHolds == STRING \subseteq Token /\ None \in Token /\ " " \in Token
  BY Zenon DEF Token

\* A sequence over a set is one over a larger set.
LEMMA SeqOfMore ==
  ASSUME NEW A, NEW B, A \subseteq B, NEW u \in Seq(A)
  PROVE  u \in Seq(B)
  OBVIOUS

\* The tokens each language gives a meaning to are among those of Tokens.
LEMMA LexisTokens ==
  ASSUME NEW suffix \in DOMAIN Lexis
  PROVE  Tokens(Lexis[suffix])
  BY DEF Lexis, Tokens

\* The largest number of a set that is not empty, and the least.
LEMMA MaxOfSet ==
  ASSUME NEW N \in Nat, NEW S \in SUBSET (1..N), S # {}
  PROVE  Max(S) \in S /\ \A n \in S : n <= Max(S)
  BY Folds!MaxOfSet DEF Folds!Max, Max

\* The last number of a set, 0 when it is empty.
LEMMA LatestTells ==
  ASSUME NEW N \in Nat, NEW S \in SUBSET (1..N)
  PROVE  Max({0} \cup S) \in {0} \cup S /\ \A n \in S : n <= Max({0} \cup S)
  BY Folds!LatestTells DEF Folds!Max, Max

\* The greater of two numbers is one of them, and not less than the first.
LEMMA TwoMost ==
  ASSUME NEW a \in Int, NEW b \in Int
  PROVE  Max({a, b}) \in {a, b} /\ a <= Max({a, b})
  BY Folds!TwoMost DEF Folds!Max, Max

\* And the least number of a set of naturals.
LEMMA MinOfSet ==
  ASSUME NEW S \in SUBSET Nat, S # {}
  PROVE  Min(S) \in S /\ \A n \in S : Min(S) <= n
  BY Folds!LeastElement DEF Min

\* Find returns the first place of a token, or 0 when there is none.
LEMMA FindTells ==
  ASSUME NEW text \in Text, NEW t, NEW from \in Nat \ {0}
  PROVE  \/ /\ Find(text, t, from) = 0
            /\ \A k \in from..Len(text) : text[k] # t
         \/ /\ Find(text, t, from) \in from..Len(text)
            /\ text[Find(text, t, from)] = t
            /\ \A k \in from..Find(text, t, from) - 1 : text[k] # t
  <1> DEFINE at == {k \in from..Len(text) : text[k] = t}
             e == Min(at)
  <1>1. CASE at = {}
    BY <1>1 DEF Find
  <1>2. CASE at # {}
    <2>1. Len(text) \in Nat /\ at \in SUBSET Nat
      BY DEF Text
    <2>2. e \in at /\ \A n \in at : e <= n
      <3> HIDE DEF at
      <3> QED
        BY <1>2, <2>1, MinOfSet
    <2>3. Find(text, t, from) = e
      BY <1>2 DEF Find
    <2> HIDE DEF e
    <2>4. ASSUME NEW k \in from..e - 1 PROVE text[k] # t
      <3>1. k \in from..Len(text) /\ ~ (e <= k)
        BY <2>1, <2>2
      <3> QED
        BY <2>2, <3>1
    <2> QED
      BY <2>1, <2>2, <2>3, <2>4
  <1> QED
    BY <1>1, <1>2

\* A block closes with a token of its own, everything else with itself.
LEMMA CloserTells ==
  ASSUME NEW t \in Token
  PROVE  /\ t = "/*" => Closer(t) = "*/"
         /\ t = "<!--" => Closer(t) = "-->"
         /\ t \notin {"/*", "<!--"} => Closer(t) = t
         /\ Closer(t) \in Token
  BY DEF Closer, Token

-----------------------------------------------------------------------------
(* One token of the scanner.                                               *)

\* A token leaves the scanner in a state of its own kind.
LEMMA ScanTokenType ==
  ASSUME NEW suffix \in DOMAIN Lexis, NEW text \in Text, NEW s \in ScanStates, NEW k \in 1..Len(text)
  PROVE  ScanToken(suffix, text, s, k) \in ScanStates
  <1> DEFINE t == text[k]
             end == Find(text, Closer(t), k + 1)
             inside == Find(text, s.open, k)
             past == Len(text) + 1
             closer == Closer(t)
  <1>1. t \in Token /\ Len(text) \in Nat
    BY DEF Text
  <1>2. closer \in Token
    BY <1>1, CloserTells
  <1>3. end \in 0..Len(text) /\ inside \in 0..Len(text)
    <2>1. k \in Nat \ {0} /\ k + 1 \in Nat \ {0}
      OBVIOUS
    <2>2. end = 0 \/ end \in k + 1..Len(text)
      BY <2>1, FindTells
    <2>3. inside = 0 \/ inside \in k..Len(text)
      BY <2>1, FindTells
    <2> QED
      BY <1>1, <2>2, <2>3
  <1>4. s.out \o SubSeq(text, k, end) \in Text /\ Append(s.out, t) \in Text
    <2>1. SubSeq(text, k, end) \in Text
      BY <1>1, <1>3 DEF Text
    <2> QED
      BY <1>1, <2>1 DEF ScanStates, Text
  <1>5. None \in Token
    BY DEF Token
  <1>6. past \in Nat /\ end + 1 \in Nat /\ inside + 1 \in Nat /\ k + 1 \in Nat
    BY <1>1, <1>3
  <1> DEFINE r == ScanToken(suffix, text, s, k)
             lex == Lexis[suffix]
  <1>7. /\ k # s.index => r = s
        /\ k = s.index /\ s.open # None =>
             r = IF inside = 0 THEN [s EXCEPT !.index = past]
                 ELSE [s EXCEPT !.index = inside + 1, !.open = None]
        /\ k = s.index /\ s.open = None /\ s.quote # None =>
             r = [s EXCEPT !.out = Append(@, t), !.index = k + 1,
                           !.escaped = ~s.escaped /\ t = "escape",
                           !.quote = IF ~s.escaped /\ t = @ THEN None ELSE @]
        /\ k = s.index /\ s.open = None /\ s.quote = None =>
             r = IF t \in lex.triples \cup lex.blocks
                 THEN IF end = 0 THEN [s EXCEPT !.open = closer, !.index = past]
                      ELSE [s EXCEPT !.index = end + 1,
                                     !.out = IF t \in lex.triples THEN @ \o SubSeq(text, k, end) ELSE @]
                 ELSE IF t \in lex.toEnd THEN [s EXCEPT !.index = past]
                 ELSE [s EXCEPT !.out = Append(@, t), !.index = k + 1,
                                !.quote = IF t \in lex.quotes THEN t ELSE None]
    BY Zenon DEF ScanToken
  <1> HIDE DEF t, end, inside, past, closer, lex, r
  <1>8. r \in ScanStates
    BY <1>1, <1>2, <1>4, <1>5, <1>6, <1>7 DEF ScanStates
  <1> QED
    BY <1>8 DEF r

(* A recursion over the subsets of the places of a sequence, as the fold of *)
(* the library has it, has a solution.                                     *)
Foldable(V, E, f, base, seq) == f \in [V \X E -> V] /\ base \in V /\ seq \in Seq(E)

Solution(V, E, f, base, seq, it) ==
    /\ it \in [SUBSET DOMAIN seq -> V]
    /\ it[{}] = base
    /\ \A x \in SUBSET DOMAIN seq : x # {} =>
         /\ it[x \ {Max(x)}] \in V /\ seq[Max(x)] \in E
         /\ it[x] = f[<<it[x \ {Max(x)}], seq[Max(x)]>>]

\* MapThenFoldSet folds by such a solution, and there is one.
LEMMA SolutionExists ==
  ASSUME NEW V, NEW E, NEW f, NEW base, NEW seq, Foldable(V, E, f, base, seq)
  PROVE  \E it : Solution(V, E, f, base, seq, it)
  <1> USE DEF Foldable
  <1>1. DOMAIN seq = 1..Len(seq) /\ Len(seq) \in Nat
    OBVIOUS
  <1>2. PICK it \in [SUBSET (1..Len(seq)) -> V] :
          \A x \in SUBSET (1..Len(seq)) :
            it[x] = IF x = {} THEN base ELSE f[<<it[x \ {Max(x)}], seq[Max(x)]>>]
    <2>1. PICK it : it \in Folds!Solutions(V, f, base, seq, Len(seq))
      BY Folds!SolutionExists
    <2>2. \A x : Folds!Max(x) = Max(x)
      BY DEF Folds!Max, Max
    <2> QED
      BY <2>1, <2>2 DEF Folds!Solutions
  <1>3. ASSUME NEW x \in SUBSET DOMAIN seq, x # {}
        PROVE  it[x \ {Max(x)}] \in V /\ seq[Max(x)] \in E
    <2>1. Max(x) \in x
      BY <1>1, <1>3, MaxOfSet
    <2> QED
      BY <1>1, <1>2, <2>1
  <1> QED
    BY <1>1, <1>2, <1>3 DEF Solution

(* On the first n places it has taken n items, one by one.                 *)
LEMMA FirstPlaces ==
  ASSUME NEW N \in Nat, NEW n \in 1..N
  PROVE  1..n \in SUBSET (1..N) /\ 1..n # {} /\ Max(1..n) = n /\ (1..n) \ {n} = 1..n - 1
  <1>1. 1..n # {} /\ 1..n \in SUBSET (1..N) /\ n \in Nat
    OBVIOUS
  <1>2. Max(1..n) \in 1..n /\ \A k \in 1..n : k <= Max(1..n)
    BY <1>1, MaxOfSet
  <1> QED
    BY <1>1, <1>2

(* A function that takes the last place first is the last of a chain of    *)
(* states, one for an item, as long as it stays among the values.          *)
Recurs(V, f, base, seq, iter) ==
    /\ iter[{}] = base
    /\ \A x \in SUBSET DOMAIN seq : x # {} /\ iter[x \ {Max(x)}] \in V =>
         iter[x] = f[<<iter[x \ {Max(x)}], seq[Max(x)]>>]

Chain(V, f, base, seq, F) ==
    /\ F \in [0..Len(seq) -> V] /\ F[0] = base
    /\ \A k \in 1..Len(seq) : F[k] = f[<<F[k - 1], seq[k]>>]

\* A solution gives the chain of the values that the fold goes through.
LEMMA ChainExists ==
  ASSUME NEW V, NEW E, NEW f, NEW base, NEW seq, NEW iter,
         Foldable(V, E, f, base, seq), Recurs(V, f, base, seq, iter)
  PROVE  \E F : Chain(V, f, base, seq, F) /\ F[Len(seq)] = iter[DOMAIN seq]
  <1> USE DEF Foldable
  <1> DEFINE N == Len(seq)
             F == [n \in 0..N |-> iter[1..n]]
             T == {n \in 0..N : F[n] \in V}
  <1>1. DOMAIN seq = 1..N /\ N \in Nat
    OBVIOUS
  <1>2. F[0] = base
    <2>1. 1..0 = {}
      OBVIOUS
    <2> QED
      BY <1>1, <2>1 DEF Recurs
  <1>3. ASSUME NEW k \in 1..N, F[k - 1] \in V PROVE F[k] = f[<<F[k - 1], seq[k]>>]
    <2>1. 1..k \in SUBSET DOMAIN seq /\ 1..k # {} /\ Max(1..k) = k /\ (1..k) \ {k} = 1..k - 1
      BY <1>1, FirstPlaces
    <2>2. F[k - 1] = iter[1..k - 1] /\ F[k] = iter[1..k]
      BY <1>1
    <2>3. iter[(1..k) \ {Max(1..k)}] \in V
      BY <1>3, <2>1, <2>2
    <2>4. iter[1..k] = f[<<iter[(1..k) \ {Max(1..k)}], seq[Max(1..k)]>>]
      BY <2>1, <2>3 DEF Recurs
    <2> QED
      BY <2>1, <2>2, <2>4
  <1>4. F \in [0..N -> V]
    <2>1. 0 \in T
      BY <1>1, <1>2
    <2>2. ASSUME NEW k \in 1..N, k - 1 \in T PROVE k \in T
      <3>1. F[k - 1] \in V /\ seq[k] \in E
        BY <2>2
      <3>2. F[k] = f[<<F[k - 1], seq[k]>>]
        BY <1>3, <3>1
      <3>3. F[k] \in V
        <4> HIDE DEF F
        <4> QED
          BY <3>1, <3>2
      <3> QED
        BY <1>1, <3>3
    <2> HIDE DEF T
    <2>3. 0..N \subseteq T
      BY <1>1, <2>1, <2>2, Folds!CountingUp
    <2> QED
      BY <2>3 DEF T
  <1>5. \A k \in 1..N : F[k - 1] \in V
    BY <1>1, <1>4
  <1>6. F[N] = iter[DOMAIN seq]
    BY <1>1
  <1> HIDE DEF F
  <1> QED
    BY <1>2, <1>3, <1>4, <1>5, <1>6 DEF Chain

(* The fold of ScanLine is the last of a chain of states, one for a token. *)
LEMMA ScanLineTells ==
  ASSUME NEW suffix \in DOMAIN Lexis, NEW text \in Text, NEW s \in ScanStates
  PROVE  \E F \in [0..Len(text) -> ScanStates] :
           /\ F[0] = [s EXCEPT !.out = <<>>, !.index = 1, !.quote = None, !.escaped = FALSE]
           /\ \A k \in 1..Len(text) : F[k] = ScanToken(suffix, text, F[k - 1], k)
           /\ F[Len(text)] = ScanLine(suffix, text, s)
  <1> DEFINE start == [s EXCEPT !.out = <<>>, !.index = 1, !.quote = None, !.escaped = FALSE]
             N == Len(text)
             seq == [k \in 1..N |-> k]
             Op(v, k) == ScanToken(suffix, text, v, k)
             f == [p \in ScanStates \X (1..N) |-> Op(p[1], p[2])]
             Solves(it) == it = [x \in SUBSET DOMAIN seq |->
                                   IF x = {} THEN start ELSE Op(it[x \ {Max(x)}], seq[Max(x)])]
             iter == CHOOSE it : Solves(it)
  <1>1. N \in Nat /\ seq \in Seq(1..N) /\ DOMAIN seq = 1..N /\ Len(seq) = N /\ \A k \in 1..N : seq[k] = k
    BY DEF Text
  <1>2. start \in ScanStates
    <2>1. <<>> \in Text /\ None \in Token
      BY TokenHolds, Zenon, EmptySeq DEF Text
    <2> QED
      BY <2>1 DEF ScanStates
  <1>3. iter[DOMAIN seq] = ScanLine(suffix, text, s)
    BY Zenon DEF ScanLine, FoldLeft, MapThenFoldSet
  <1>4. \A v \in ScanStates, k \in 1..N : Op(v, k) \in ScanStates
    BY ScanTokenType
  <1>5. \A v \in ScanStates, k \in 1..N : f[<<v, k>>] = Op(v, k)
    BY <1>4
  <1>6. Foldable(ScanStates, 1..N, f, start, seq)
    BY <1>1, <1>2, <1>4 DEF Foldable
  <1> HIDE DEF start, seq, Op, f, N
  <1>7. PICK it : Solution(ScanStates, 1..N, f, start, seq, it)
    BY <1>6, SolutionExists
  <1>8. Solves(it)
    BY <1>5, <1>7 DEF Solution
  <1>9. Solves(iter)
    <2> HIDE DEF Solves
    <2> QED
      BY <1>8
  <1> HIDE DEF iter
  <1>10. Recurs(ScanStates, f, start, seq, iter)
    <2>1. PICK b : b = start
      OBVIOUS
    <2>2. iter = [x \in SUBSET DOMAIN seq |-> IF x = {} THEN b ELSE Op(iter[x \ {Max(x)}], seq[Max(x)])]
      BY <1>9, <2>1
    <2>3. ASSUME NEW x \in SUBSET DOMAIN seq, x # {} PROVE seq[Max(x)] \in 1..N
      BY <1>7, <2>3 DEF Solution
    <2> QED
      BY <1>5, <2>1, <2>2, <2>3 DEF Recurs
  <1>11. PICK F : Chain(ScanStates, f, start, seq, F) /\ F[Len(seq)] = iter[DOMAIN seq]
    BY <1>6, <1>10, ChainExists
  <1>12. F \in [0..N -> ScanStates] /\ F[0] = start /\ F[N] = ScanLine(suffix, text, s)
    BY <1>1, <1>3, <1>11 DEF Chain
  <1>13. ASSUME NEW k \in 1..N PROVE F[k] = Op(F[k - 1], k)
    <2>1. k - 1 \in 0..N /\ seq[k] = k
      BY <1>1
    <2>2. F[k - 1] \in ScanStates
      BY <1>12, <2>1
    <2>3. F[k] = f[<<F[k - 1], k>>]
      BY <1>1, <1>11, <2>1 DEF Chain
    <2> QED
      BY <1>5, <2>2, <2>3
  <1> QED
    BY <1>12, <1>13 DEF Op, start, N

-----------------------------------------------------------------------------
(* One token of the lexer.                                                 *)

Modes(suffix) == {"code", "eol", "*/", "-->"} \cup Lexis[suffix].quotes \cup Lexis[suffix].triples

LexStates(suffix) == [mode : Modes(suffix), escaped : BOOLEAN, held : Text, out : Text]

\* The cases of LexToken.
LexTokenIs(suffix, s, t, r) ==
    LET lex == Lexis[suffix]
        live == [s EXCEPT !.out = Append(@, t)]
    IN  /\ s.mode = "eol" => r = s
        /\ s.mode \in lex.quotes =>
             r = [live EXCEPT !.escaped = ~s.escaped /\ t = "escape",
                              !.mode = IF t = s.mode /\ ~s.escaped THEN "code" ELSE s.mode]
        /\ s.mode \in {"*/", "-->"} => r = [s EXCEPT !.mode = IF t = s.mode THEN "code" ELSE s.mode]
        /\ s.mode \in lex.triples /\ t # s.mode =>
             r = [s EXCEPT !.held = IF @ = <<>> THEN @ ELSE Append(@, t)]
        /\ s.mode \in lex.triples /\ t = s.mode =>
             r = [s EXCEPT !.mode = "code", !.held = <<>>,
                           !.out = IF s.held = <<>> THEN @ ELSE @ \o s.held \o <<t>>]
        /\ s.mode = "code" /\ t \in lex.toEnd => r = [s EXCEPT !.mode = "eol"]
        /\ s.mode = "code" /\ t \in lex.blocks => r = [s EXCEPT !.mode = Closer(t)]
        /\ s.mode = "code" /\ t \in lex.triples => r = [s EXCEPT !.mode = t, !.held = <<t>>]
        /\ s.mode = "code" /\ t \in lex.quotes => r = [live EXCEPT !.mode = t]
        /\ s.mode = "code" /\ t \notin lex.toEnd \cup lex.blocks \cup lex.triples \cup lex.quotes => r = live

\* What the lexer does with a token, case by case.
LEMMA LexTokenCases ==
  ASSUME NEW suffix \in DOMAIN Lexis, NEW s, NEW t
  PROVE  LexTokenIs(suffix, s, t, LexToken(suffix, s, t))
  <1> USE DEF LexTokenIs
  <1> DEFINE lex == Lexis[suffix]
             live == [s EXCEPT !.out = Append(@, t)]
             r == LexToken(suffix, s, t)
  <1>1. /\ lex.quotes \subseteq {"quote", "tick"} /\ lex.triples \subseteq {"'''"}
        /\ lex.blocks \subseteq {"/*", "<!--"} /\ lex.toEnd \subseteq {"#", "//"}
    BY LexisTokens DEF Tokens
  <1>2. CASE s.mode = "eol"
    <2>1. s.mode \notin lex.quotes \cup lex.triples \cup {"*/", "-->"} /\ s.mode # "code"
      BY <1>1, <1>2
    <2>2. r = s
      BY Zenon, <1>2, <2>1 DEF LexToken
    <2> QED
      BY Zenon, <1>2, <2>1, <2>2
  <1>3. CASE s.mode \in lex.quotes
    <2>1. s.mode \notin lex.triples \cup {"*/", "-->"} /\ s.mode # "code" /\ s.mode # "eol"
      BY <1>1, <1>3
    <2>2. r = [live EXCEPT !.escaped = ~s.escaped /\ t = "escape",
                           !.mode = IF t = s.mode /\ ~s.escaped THEN "code" ELSE s.mode]
      BY Zenon, <1>3, <2>1 DEF LexToken
    <2> QED
      BY Zenon, <1>3, <2>1, <2>2
  <1>4. CASE s.mode \in {"*/", "-->"}
    <2>1. s.mode \notin lex.triples \cup lex.quotes /\ s.mode # "code" /\ s.mode # "eol"
      BY <1>1, <1>4
    <2>2. r = [s EXCEPT !.mode = IF t = s.mode THEN "code" ELSE s.mode]
      BY Zenon, <1>4, <2>1 DEF LexToken
    <2> QED
      BY <1>4, <2>1, <2>2
  <1>5. CASE s.mode \in lex.triples
    <2>1. s.mode \notin lex.quotes \cup {"*/", "-->"} /\ s.mode # "code" /\ s.mode # "eol"
      BY <1>1, <1>5
    <2>2. t # s.mode => r = [s EXCEPT !.held = IF @ = <<>> THEN @ ELSE Append(@, t)]
      BY Zenon, <1>5, <2>1 DEF LexToken
    <2>3. t = s.mode => r = [s EXCEPT !.mode = "code", !.held = <<>>,
                                      !.out = IF s.held = <<>> THEN @ ELSE @ \o s.held \o <<t>>]
      BY Zenon, <1>5, <2>1 DEF LexToken
    <2> QED
      BY <1>5, <2>1, <2>2, <2>3
  <1>6. CASE s.mode = "code"
    <2>1. s.mode \notin lex.quotes \cup lex.triples \cup {"*/", "-->"} /\ s.mode # "eol"
      BY <1>1, <1>6
    <2>2. t \in lex.toEnd => r = [s EXCEPT !.mode = "eol"]
      <3>1. t \in lex.toEnd => t \notin lex.blocks \cup lex.triples \cup lex.quotes
        BY <1>1
      <3> QED
        BY Zenon, <1>6, <2>1, <3>1 DEF LexToken
    <2>3. t \in lex.blocks => r = [s EXCEPT !.mode = Closer(t)]
      <3>1. t \in lex.blocks => t \notin lex.toEnd \cup lex.triples \cup lex.quotes
        BY <1>1
      <3> QED
        BY Zenon, <1>6, <2>1, <3>1 DEF LexToken
    <2>4. t \in lex.triples => r = [s EXCEPT !.mode = t, !.held = <<t>>]
      <3>1. t \in lex.triples => t \notin lex.toEnd \cup lex.blocks \cup lex.quotes
        BY <1>1
      <3> QED
        BY Zenon, <1>6, <2>1, <3>1 DEF LexToken
    <2>5. t \in lex.quotes => r = [live EXCEPT !.mode = t]
      <3>1. t \in lex.quotes => t \notin lex.toEnd \cup lex.blocks \cup lex.triples
        BY <1>1
      <3> QED
        BY Zenon, <1>6, <2>1, <3>1 DEF LexToken
    <2>6. t \notin lex.toEnd \cup lex.blocks \cup lex.triples \cup lex.quotes => r = live
      BY Zenon, <1>6, <2>1 DEF LexToken
    <2> QED
      BY <1>6, <2>1, <2>2, <2>3, <2>4, <2>5, <2>6
  <1> QED
    BY <1>2, <1>3, <1>4, <1>5, <1>6

\* A token leaves the lexer in a state of its own kind.
LEMMA LexTokenType ==
  ASSUME NEW suffix \in DOMAIN Lexis, NEW s \in LexStates(suffix), NEW t \in Token
  PROVE  LexToken(suffix, s, t) \in LexStates(suffix)
  <1> DEFINE lex == Lexis[suffix]
             live == [s EXCEPT !.out = Append(@, t)]
             r == LexToken(suffix, s, t)
  <1>0. LexTokenIs(suffix, s, t, r)
    BY LexTokenCases
  <1>1. /\ lex.quotes \subseteq {"quote", "tick"} /\ lex.triples \subseteq {"'''"}
        /\ lex.blocks \subseteq {"/*", "<!--"} /\ lex.toEnd \subseteq {"#", "//"}
    BY LexisTokens DEF Tokens
  <1>2. Append(s.out, t) \in Text /\ Append(s.held, t) \in Text /\ <<t>> \in Text /\ s.out \o s.held \o <<t>> \in Text
        /\ <<>> \in Text /\ s.held \in Text /\ s.out \in Text
    BY DEF LexStates, Text
  <1>3. s.mode \in Modes(suffix) /\ "code" \in Modes(suffix) /\ "eol" \in Modes(suffix)
        /\ (t \in lex.blocks => Closer(t) \in Modes(suffix))
        /\ (t \in lex.triples \cup lex.quotes => t \in Modes(suffix))
    BY <1>1, CloserTells DEF LexStates, Modes
  <1>4. live \in LexStates(suffix)
    BY <1>2 DEF LexStates
  <1> HIDE DEF lex
  <1>5. CASE s.mode = "eol"
    BY Zenon, <1>0, <1>5 DEF LexTokenIs
  <1>6. CASE s.mode \in lex.quotes
    <2>1. r = [live EXCEPT !.escaped = ~s.escaped /\ t = "escape",
                           !.mode = IF t = s.mode /\ ~s.escaped THEN "code" ELSE s.mode]
      BY Zenon, <1>0, <1>6 DEF LexTokenIs, lex
    <2> HIDE DEF live, r
    <2>2. r \in LexStates(suffix)
      BY <1>3, <1>4, <2>1 DEF LexStates
    <2> QED
      BY <2>2 DEF r
  <1>7. CASE s.mode \in {"*/", "-->"}
    <2>1. r = [s EXCEPT !.mode = IF t = s.mode THEN "code" ELSE s.mode]
      BY Zenon, <1>0, <1>7 DEF LexTokenIs, lex
    <2> HIDE DEF live, r
    <2>2. r \in LexStates(suffix)
      BY <1>3, <2>1 DEF LexStates
    <2> QED
      BY <2>2 DEF r
  <1>8. CASE s.mode \in lex.triples
    <2>1. t # s.mode => r = [s EXCEPT !.held = IF @ = <<>> THEN @ ELSE Append(@, t)]
      BY Zenon, <1>0, <1>8 DEF LexTokenIs, lex
    <2>2. t = s.mode => r = [s EXCEPT !.mode = "code", !.held = <<>>,
                                      !.out = IF s.held = <<>> THEN @ ELSE @ \o s.held \o <<t>>]
      BY Zenon, <1>0, <1>8 DEF LexTokenIs, lex
    <2> HIDE DEF live, r
    <2>3. r \in LexStates(suffix)
      BY <1>2, <1>3, <2>1, <2>2 DEF LexStates
    <2> QED
      BY <2>3 DEF r
  <1>9. CASE s.mode = "code"
    <2>1. t \in lex.toEnd => r = [s EXCEPT !.mode = "eol"]
      BY Zenon, <1>0, <1>9 DEF LexTokenIs, lex
    <2>2. t \in lex.blocks => r = [s EXCEPT !.mode = Closer(t)]
      BY Zenon, <1>0, <1>9 DEF LexTokenIs, lex
    <2>3. t \in lex.triples => r = [s EXCEPT !.mode = t, !.held = <<t>>]
      BY Zenon, <1>0, <1>9 DEF LexTokenIs, lex
    <2>4. t \in lex.quotes => r = [live EXCEPT !.mode = t]
      BY Zenon, <1>0, <1>9 DEF LexTokenIs, lex
    <2>5. t \notin lex.toEnd \cup lex.blocks \cup lex.triples \cup lex.quotes => r = live
      BY Zenon, <1>0, <1>9 DEF LexTokenIs, lex
    <2> HIDE DEF live, r
    <2>6. r \in LexStates(suffix)
      BY <1>2, <1>3, <1>4, <2>1, <2>2, <2>3, <2>4, <2>5 DEF LexStates
    <2> QED
      BY <2>6 DEF r
  <1> QED
    BY <1>3, <1>5, <1>6, <1>7, <1>8, <1>9 DEF Modes, lex

-----------------------------------------------------------------------------
(* The scanner, which skips a comment in one piece, and the lexer, which   *)
(* reads it token by token, after k tokens of a line.                      *)

\* What can stay open at the end of a line.
Lasting(suffix) == {"*/", "-->"} \cup Lexis[suffix].triples

Resting(s, l) == s.quote = None /\ ~s.escaped /\ ~l.escaped

\* Neither is in a comment: they have read the same, up to the quotes they are in.
Reading(suffix, k, s, l) ==
    /\ s.index = k + 1 /\ s.open = None /\ l.out = s.out /\ l.held = <<>>
    /\ \/ Resting(s, l) /\ l.mode = "code"
       \/ s.quote \in Lexis[suffix].quotes /\ l.mode = s.quote /\ l.escaped = s.escaped

\* The line begins in a comment or a string that an earlier line opened.
Continuing(suffix, k, s, l) ==
    /\ k = 0 /\ s.index = 1 /\ Resting(s, l)
    /\ s.open \in Lasting(suffix) /\ l.mode = s.open /\ l.out = s.out /\ l.held = <<>>

\* The scanner has skipped up to the closer at e; the lexer holds a string back.
Skipping(suffix, text, k, s, l, e) ==
    /\ s.index = e + 1 /\ s.open = None /\ Resting(s, l)
    /\ l.mode \in Lasting(suffix) /\ text[e] = l.mode
    /\ \A j \in k + 1..e - 1 : text[j] # l.mode
    /\ \/ l.held = <<>> /\ l.out = s.out
       \/ /\ l.mode \in Lexis[suffix].triples
          /\ \E p \in 1..k : l.held = SubSeq(text, p, k) /\ s.out = l.out \o SubSeq(text, p, e)

\* The scanner has given up the rest of the line.
Leaving(suffix, text, k, s, l) ==
    /\ s.index = Len(text) + 1 /\ Resting(s, l) /\ l.out = s.out
    /\ \/ s.open = None /\ l.mode = "eol"
       \/ /\ s.open \in Lasting(suffix) /\ l.mode = s.open
          /\ \A j \in k + 1..Len(text) : text[j] # s.open

InStep(suffix, text, k, s, l) ==
    \/ Reading(suffix, k, s, l)
    \/ Continuing(suffix, k, s, l)
    \/ \E e \in k + 1..Len(text) : Skipping(suffix, text, k, s, l, e)
    \/ Leaving(suffix, text, k, s, l)

\* What an open block waits for is no quote and no mode of a line.
LEMMA LastingTells ==
  ASSUME NEW suffix \in DOMAIN Lexis, NEW c \in Lasting(suffix)
  PROVE  /\ c # None /\ c # "eol" /\ c # "code" /\ c # "quote" /\ c # "tick" /\ c \in Token
         /\ c \notin Lexis[suffix].quotes
         /\ c \in Lexis[suffix].triples \/ c \in {"*/", "-->"}
         /\ c \in Lexis[suffix].triples => c \notin {"*/", "-->"}
  BY LexisTokens DEF Lasting, Tokens, None, Token

\* Inside of a block that an earlier line opened.
LEMMA ContinuingSteps ==
  ASSUME NEW suffix \in DOMAIN Lexis, NEW text \in Text, NEW s \in ScanStates, NEW l \in LexStates(suffix),
         1 \in 1..Len(text), Continuing(suffix, 0, s, l)
  PROVE  InStep(suffix, text, 1, ScanToken(suffix, text, s, 1), LexToken(suffix, l, text[1]))
  <1> DEFINE t == text[1]
             inside == Find(text, s.open, 1)
             r == ScanToken(suffix, text, s, 1)
             m == LexToken(suffix, l, t)
  <1>0. LexTokenIs(suffix, l, t, m)
    BY LexTokenCases
  <1>1. Len(text) \in Nat /\ t \in Token
    BY DEF Text
  <1>2. s.index = 1 /\ s.open # None /\ s.open \in Lasting(suffix) /\ l.mode = s.open
    BY LastingTells DEF Continuing
  <1>3. r = IF inside = 0 THEN [s EXCEPT !.index = Len(text) + 1]
            ELSE [s EXCEPT !.index = inside + 1, !.open = None]
    BY Zenon, <1>2 DEF ScanToken
  <1>4. t # l.mode => m = l
    <2>1. l.mode \in {"*/", "-->"} => m = [l EXCEPT !.mode = IF t = l.mode THEN "code" ELSE l.mode]
      BY Zenon, <1>0 DEF LexTokenIs
    <2>2. l.mode \in Lexis[suffix].triples /\ t # l.mode
             => m = [l EXCEPT !.held = IF @ = <<>> THEN @ ELSE Append(@, t)]
      BY Zenon, <1>0 DEF LexTokenIs
    <2> HIDE DEF m
    <2> QED
      BY <1>2, <2>1, <2>2, LastingTells DEF Continuing, LexStates
  <1>5. t = l.mode => m = [l EXCEPT !.mode = "code"]
    <2>1. l.mode \in {"*/", "-->"} => m = [l EXCEPT !.mode = IF t = l.mode THEN "code" ELSE l.mode]
      BY Zenon, <1>0 DEF LexTokenIs
    <2>2. l.mode \in Lexis[suffix].triples /\ t = l.mode =>
            m = [l EXCEPT !.mode = "code", !.held = <<>>,
                          !.out = IF l.held = <<>> THEN @ ELSE @ \o l.held \o <<t>>]
      BY Zenon, <1>0 DEF LexTokenIs
    <2> HIDE DEF m
    <2> QED
      BY <1>2, <2>1, <2>2, LastingTells DEF Continuing, LexStates
  <1>6. \/ inside = 0 /\ \A k \in 1..Len(text) : text[k] # s.open
        \/ /\ inside \in 1..Len(text) /\ text[inside] = s.open
           /\ \A k \in 1..inside - 1 : text[k] # s.open
    BY FindTells
  <1> HIDE DEF inside, r, m
  <1>7. CASE inside = 0
    <2>1. t # l.mode
      BY <1>2, <1>6, <1>7
    <2>2. r.index = Len(text) + 1 /\ r.open = s.open /\ r.quote = s.quote /\ r.escaped = s.escaped /\ r.out = s.out
      BY <1>3, <1>7 DEF ScanStates
    <2>3. Leaving(suffix, text, 1, r, m)
      BY <1>1, <1>2, <1>4, <1>6, <1>7, <2>1, <2>2 DEF Leaving, Continuing, Resting
    <2> QED
      BY <2>3 DEF InStep, r, m
  <1>8. CASE inside # 0
    <2>1. r.index = inside + 1 /\ r.open = None /\ r.quote = s.quote /\ r.escaped = s.escaped /\ r.out = s.out
      BY <1>3, <1>8 DEF ScanStates
    <2>2. CASE inside = 1
      <3>1. m = [l EXCEPT !.mode = "code"]
        BY <1>2, <1>5, <1>6, <2>2
      <3>2. m.mode = "code" /\ m.held = l.held /\ m.out = l.out /\ m.escaped = l.escaped
        BY <3>1 DEF LexStates
      <3>3. Reading(suffix, 1, r, m)
        BY <2>1, <2>2, <3>2 DEF Reading, Continuing, Resting
      <3> QED
        BY <3>3 DEF InStep, r, m
    <2>3. CASE inside # 1
      <3>1. t # l.mode /\ inside \in 2..Len(text)
        BY <1>1, <1>2, <1>6, <1>8, <2>3
      <3>2. m = l /\ text[inside] = l.mode /\ \A j \in 1 + 1..inside - 1 : text[j] # l.mode
        BY <1>1, <1>2, <1>4, <1>6, <1>8, <3>1
      <3>3. Skipping(suffix, text, 1, r, m, inside)
        BY <1>2, <2>1, <3>2 DEF Skipping, Continuing, Resting
      <3> QED
        BY <3>1, <3>3 DEF InStep, r, m
    <2> QED
      BY <2>2, <2>3
  <1> QED
    BY <1>7, <1>8

\* From a comment to the end of the line nothing is read.
LEMMA LeavingSteps ==
  ASSUME NEW suffix \in DOMAIN Lexis, NEW text \in Text, NEW s \in ScanStates, NEW l \in LexStates(suffix),
         NEW k \in 1..Len(text), Leaving(suffix, text, k - 1, s, l)
  PROVE  InStep(suffix, text, k, ScanToken(suffix, text, s, k), LexToken(suffix, l, text[k]))
  <1> DEFINE t == text[k]
             r == ScanToken(suffix, text, s, k)
             m == LexToken(suffix, l, t)
  <1>0. LexTokenIs(suffix, l, t, m)
    BY LexTokenCases
  <1>1. Len(text) \in Nat /\ k # s.index
    BY DEF Text, Leaving
  <1>2. r = s
    BY Zenon, <1>1 DEF ScanToken
  <1>3. CASE l.mode = "eol"
    <2>1. m = l
      BY Zenon, <1>0, <1>3 DEF LexTokenIs
    <2>2. s.open = None
      BY <1>3, LastingTells DEF Leaving
    <2>3. Leaving(suffix, text, k, r, m)
      BY <1>2, <1>3, <2>1, <2>2 DEF Leaving
    <2> QED
      BY <2>3 DEF InStep
  <1>4. CASE l.mode # "eol"
    <2>1. s.open \in Lasting(suffix) /\ l.mode = s.open /\ t # l.mode
          /\ \A j \in k + 1..Len(text) : text[j] # s.open
      BY <1>1, <1>4 DEF Leaving
    <2>2. l.mode \in {"*/", "-->"} => m = [l EXCEPT !.mode = IF t = l.mode THEN "code" ELSE l.mode]
      BY Zenon, <1>0 DEF LexTokenIs
    <2>3. l.mode \in Lexis[suffix].triples /\ t # l.mode
             => m = [l EXCEPT !.held = IF @ = <<>> THEN @ ELSE Append(@, t)]
      BY Zenon, <1>0 DEF LexTokenIs
    <2> HIDE DEF m, r
    <2>4. m.mode = l.mode /\ m.out = l.out /\ m.escaped = l.escaped
      BY <2>1, <2>2, <2>3, LastingTells DEF LexStates
    <2>5. Leaving(suffix, text, k, r, m)
      BY <1>2, <2>1, <2>4 DEF Leaving, Resting
    <2> QED
      BY <2>5 DEF InStep, m, r
  <1> QED
    BY <1>3, <1>4

(* A piece of a text and the token behind it.                              *)
LEMMA PieceGrows ==
  ASSUME NEW text \in Text, NEW p \in Nat \ {0}, NEW k \in p + 1..Len(text)
  PROVE  /\ SubSeq(text, p, k - 1) \in Text /\ SubSeq(text, p, k - 1) # <<>>
         /\ Append(SubSeq(text, p, k - 1), text[k]) = SubSeq(text, p, k)
         /\ \A a \in Text : a \o SubSeq(text, p, k - 1) \o <<text[k]>> = a \o SubSeq(text, p, k)
  <1> DEFINE b == SubSeq(text, p, k - 1)
             c == SubSeq(text, p, k)
             t == text[k]
  <1>1. Len(text) \in Nat /\ k \in Nat /\ t \in Token
    BY DEF Text
  <1>2. b \in Text /\ Len(b) = k - p /\ \A i \in 1..k - p : b[i] = text[p + i - 1]
    BY <1>1 DEF Text
  <1>3. c \in Text /\ Len(c) = k - p + 1 /\ \A i \in 1..k - p + 1 : c[i] = text[p + i - 1]
    BY <1>1 DEF Text
  <1>4. c[k - p + 1] = t
    BY <1>1, <1>3
  <1> HIDE DEF b, c, t
  <1>5. Append(b, t) = c
    <2>1. Append(b, t) \in Text /\ Len(Append(b, t)) = k - p + 1
      BY <1>1, <1>2 DEF Text
    <2>2. \A i \in 1..k - p + 1 : Append(b, t)[i] = c[i]
      BY <1>1, <1>2, <1>3, <1>4 DEF Text
    <2> QED
      BY <1>1, <1>3, <2>1, <2>2, SeqEqual DEF Text
  <1>6. ASSUME NEW a \in Text PROVE a \o b \o <<t>> = a \o c
    <2>1. <<t>> \in Text /\ b \o <<t>> = Append(b, t)
      BY <1>1, <1>2 DEF Text
    <2>2. a \in Seq(Token) /\ b \in Seq(Token) /\ <<t>> \in Seq(Token)
      BY <1>2, <2>1 DEF Text
    <2> DEFINE u == <<t>>
    <2> HIDE DEF u
    <2>3. (a \o b) \o u = a \o (b \o u)
      BY <2>2, ConcatAssociative DEF u
    <2> USE DEF u
    <2> QED
      BY <1>5, <2>1, <2>3
  <1>7. b # <<>>
    BY <1>1, <1>2
  <1> QED
    BY <1>2, <1>5, <1>6, <1>7 DEF b, c, t

\* Inside of a comment or a triple quote that closes on its line.
LEMMA SkippingSteps ==
  ASSUME NEW suffix \in DOMAIN Lexis, NEW text \in Text, NEW s \in ScanStates, NEW l \in LexStates(suffix),
         NEW k \in 1..Len(text), NEW e \in k..Len(text), Skipping(suffix, text, k - 1, s, l, e)
  PROVE  InStep(suffix, text, k, ScanToken(suffix, text, s, k), LexToken(suffix, l, text[k]))
  <1> DEFINE t == text[k]
             r == ScanToken(suffix, text, s, k)
             m == LexToken(suffix, l, t)
  <1>0. LexTokenIs(suffix, l, t, m)
    BY LexTokenCases
  <1>1. Len(text) \in Nat /\ k # s.index /\ s.index = e + 1 /\ s.out \in Text /\ l.out \in Text
    BY DEF Text, Skipping, ScanStates, LexStates
  <1>2. r = s
    BY Zenon, <1>1 DEF ScanToken
  <1>3. l.mode \in Lasting(suffix) /\ text[e] = l.mode /\ Resting(s, l) /\ s.open = None
    BY DEF Skipping
  <1>4. l.mode \in {"*/", "-->"} => m = [l EXCEPT !.mode = IF t = l.mode THEN "code" ELSE l.mode]
    BY Zenon, <1>0 DEF LexTokenIs
  <1>5. l.mode \in Lexis[suffix].triples /\ t # l.mode => m = [l EXCEPT !.held = IF @ = <<>> THEN @ ELSE Append(@, t)]
    BY Zenon, <1>0 DEF LexTokenIs
  <1>6. l.mode \in Lexis[suffix].triples /\ t = l.mode =>
          m = [l EXCEPT !.mode = "code", !.held = <<>>,
                        !.out = IF l.held = <<>> THEN @ ELSE @ \o l.held \o <<t>>]
    BY Zenon, <1>0 DEF LexTokenIs
  <1> HIDE DEF m, r
  <1>7. CASE e = k
    <2>1. m.mode = "code" /\ m.escaped = l.escaped
      BY <1>3, <1>4, <1>6, <1>7, LastingTells DEF LexStates
    <2>2. CASE l.held = <<>> /\ l.out = s.out
      <3>1. m.held = <<>> /\ m.out = s.out
        BY <1>3, <1>4, <1>6, <1>7, <2>2, LastingTells DEF LexStates
      <3>2. Reading(suffix, k, r, m)
        BY <1>1, <1>2, <1>3, <1>7, <2>1, <3>1 DEF Reading, Resting
      <3> QED
        BY <3>2 DEF InStep, m, r
    <2>3. CASE ~ (l.held = <<>> /\ l.out = s.out)
      <3>1. PICK p \in 1..k - 1 : l.held = SubSeq(text, p, k - 1) /\ s.out = l.out \o SubSeq(text, p, e)
        BY <2>3 DEF Skipping
      <3>2. l.mode \in Lexis[suffix].triples
        BY <2>3 DEF Skipping
      <3>3. p \in Nat \ {0} /\ k \in p + 1..Len(text)
        BY <1>1, <3>1
      <3>4. l.held # <<>> /\ l.out \o l.held \o <<t>> = l.out \o SubSeq(text, p, k)
        <4>1. /\ SubSeq(text, p, k - 1) # <<>>
              /\ \A a \in Text : a \o SubSeq(text, p, k - 1) \o <<text[k]>> = a \o SubSeq(text, p, k)
          BY <3>3, PieceGrows
        <4> QED
          BY <1>1, <3>1, <4>1
      <3>5. m.held = <<>> /\ m.out = s.out
        BY <1>3, <1>6, <1>7, <3>1, <3>2, <3>4 DEF LexStates
      <3>6. Reading(suffix, k, r, m)
        BY <1>1, <1>2, <1>3, <1>7, <2>1, <3>5 DEF Reading, Resting
      <3> QED
        BY <3>6 DEF InStep, m, r
    <2> QED
      BY <2>2, <2>3
  <1>8. CASE e # k
    <2>1. e \in k + 1..Len(text) /\ t # l.mode /\ \A j \in k + 1..e - 1 : text[j] # l.mode
      BY <1>1, <1>8 DEF Skipping
    <2>2. m.mode = l.mode /\ m.out = l.out /\ m.escaped = l.escaped
      BY <1>3, <1>4, <1>5, <2>1, LastingTells DEF LexStates
    <2>3. CASE l.held = <<>> /\ l.out = s.out
      <3>1. m.held = <<>>
        BY <1>3, <1>4, <1>5, <2>1, <2>3, LastingTells DEF LexStates
      <3>2. Skipping(suffix, text, k, r, m, e)
        BY <1>1, <1>2, <1>3, <2>1, <2>2, <2>3, <3>1 DEF Skipping, Resting
      <3> QED
        BY <2>1, <3>2 DEF InStep, m, r
    <2>4. CASE ~ (l.held = <<>> /\ l.out = s.out)
      <3>1. PICK p \in 1..k - 1 : l.held = SubSeq(text, p, k - 1) /\ s.out = l.out \o SubSeq(text, p, e)
        BY <2>4 DEF Skipping
      <3>2. l.mode \in Lexis[suffix].triples
        BY <2>4 DEF Skipping
      <3>3. p \in Nat \ {0} /\ k \in p + 1..Len(text) /\ p \in 1..k
        BY <1>1, <3>1
      <3>4. l.held # <<>> /\ Append(l.held, t) = SubSeq(text, p, k)
        <4>1. /\ SubSeq(text, p, k - 1) # <<>>
              /\ Append(SubSeq(text, p, k - 1), text[k]) = SubSeq(text, p, k)
          BY <3>3, PieceGrows
        <4> QED
          BY <3>1, <4>1
      <3>5. m.held = SubSeq(text, p, k)
        BY <1>5, <2>1, <3>2, <3>4 DEF LexStates
      <3>6. Skipping(suffix, text, k, r, m, e)
        BY <1>1, <1>2, <1>3, <2>1, <2>2, <3>1, <3>2, <3>3, <3>5 DEF Skipping, Resting
      <3> QED
        BY <2>1, <3>6 DEF InStep, m, r
    <2> QED
      BY <2>3, <2>4
  <1> QED
    BY <1>7, <1>8

\* Outside of every block and every comment.
LEMMA ReadingSteps ==
  ASSUME NEW suffix \in DOMAIN Lexis, NEW text \in Text, NEW s \in ScanStates, NEW l \in LexStates(suffix),
         NEW k \in 1..Len(text), Reading(suffix, k - 1, s, l)
  PROVE  InStep(suffix, text, k, ScanToken(suffix, text, s, k), LexToken(suffix, l, text[k]))
  <1> DEFINE t == text[k]
             lex == Lexis[suffix]
             end == Find(text, Closer(t), k + 1)
             r == ScanToken(suffix, text, s, k)
             m == LexToken(suffix, l, t)
  <1>0. LexTokenIs(suffix, l, t, m)
    BY LexTokenCases
  <1>1. Len(text) \in Nat /\ k \in Nat /\ t \in Token
       /\ s.index = k /\ s.open = None /\ l.out = s.out /\ l.held = <<>>
    BY DEF Text, Reading
  <1>2. /\ lex.quotes \subseteq {"quote", "tick"} /\ lex.triples \subseteq {"'''"}
        /\ lex.blocks \subseteq {"/*", "<!--"} /\ lex.toEnd \subseteq {"#", "//"} /\ None = "none"
    BY LexisTokens DEF Tokens, None
  <1>3. CASE s.quote # None
    <2>1. s.quote \in lex.quotes /\ l.mode = s.quote /\ l.escaped = s.escaped
      BY <1>3 DEF Reading, Resting
    <2>2. r = [s EXCEPT !.out = Append(@, t), !.index = k + 1,
                        !.escaped = ~s.escaped /\ t = "escape",
                        !.quote = IF ~s.escaped /\ t = @ THEN None ELSE @]
      BY Zenon, <1>1, <1>3 DEF ScanToken
    <2>3. m = [[l EXCEPT !.out = Append(@, t)] EXCEPT
                  !.escaped = ~l.escaped /\ t = "escape",
                  !.mode = IF t = l.mode /\ ~l.escaped THEN "code" ELSE l.mode]
      BY Zenon, <1>0, <2>1 DEF LexTokenIs
    <2>4. /\ r.index = k + 1 /\ r.open = None /\ r.out = Append(s.out, t)
          /\ r.escaped = (~s.escaped /\ t = "escape")
          /\ r.quote = IF ~s.escaped /\ t = s.quote THEN None ELSE s.quote
      <3> HIDE DEF r
      <3> QED
        BY <1>1, <2>2 DEF ScanStates
    <2>5. /\ m.held = <<>> /\ m.out = Append(l.out, t)
          /\ m.escaped = (~l.escaped /\ t = "escape")
          /\ m.mode = IF t = l.mode /\ ~l.escaped THEN "code" ELSE l.mode
      <3> HIDE DEF m
      <3> QED
        BY <1>1, <2>3 DEF LexStates
    <2> HIDE DEF r, m
    <2>6. CASE ~s.escaped /\ t = s.quote
      <3>1. r.quote = None /\ m.mode = "code" /\ ~r.escaped /\ ~m.escaped
        <4>1. t # "escape"
          BY <1>2, <2>1, <2>6
        <4> QED
          BY <2>1, <2>4, <2>5, <2>6, <4>1
      <3>2. Reading(suffix, k, r, m)
        BY <1>1, <2>4, <2>5, <3>1 DEF Reading, Resting
      <3> QED
        BY <3>2 DEF InStep, r, m
    <2>7. CASE ~ (~s.escaped /\ t = s.quote)
      <3>1. r.quote = s.quote /\ m.mode = l.mode /\ r.escaped = m.escaped
        BY <2>1, <2>4, <2>5, <2>7
      <3>2. Reading(suffix, k, r, m)
        BY <1>1, <2>1, <2>4, <2>5, <3>1 DEF Reading
      <3> QED
        BY <3>2 DEF InStep, r, m
    <2> QED
      BY <2>6, <2>7
  <1>4. CASE s.quote = None
    <2>1. Resting(s, l) /\ l.mode = "code"
      BY <1>2, <1>4 DEF Reading
    <2>2. r = IF t \in lex.triples \cup lex.blocks
              THEN IF end = 0 THEN [s EXCEPT !.open = Closer(t), !.index = Len(text) + 1]
                   ELSE [s EXCEPT !.index = end + 1,
                                  !.out = IF t \in lex.triples THEN @ \o SubSeq(text, k, end) ELSE @]
              ELSE IF t \in lex.toEnd THEN [s EXCEPT !.index = Len(text) + 1]
              ELSE [s EXCEPT !.out = Append(@, t), !.index = k + 1,
                             !.quote = IF t \in lex.quotes THEN t ELSE None]
      BY Zenon, <1>1, <1>4 DEF ScanToken
    <2>3. \/ end = 0 /\ \A j \in k + 1..Len(text) : text[j] # Closer(t)
          \/ /\ end \in k + 1..Len(text) /\ text[end] = Closer(t)
             /\ \A j \in k + 1..end - 1 : text[j] # Closer(t)
      BY <1>1, FindTells
    <2>4. CASE t \in lex.triples
      <3>1. m = [l EXCEPT !.mode = t, !.held = <<t>>]
        BY Zenon, <1>0, <2>1, <2>4 DEF LexTokenIs
      <3>2. Closer(t) = t /\ t \in Lasting(suffix)
        BY <1>1, <1>2, <2>4, CloserTells DEF Lasting
      <3>3. m.mode = t /\ m.held = <<t>> /\ m.out = l.out /\ m.escaped = l.escaped
        <4> HIDE DEF m
        <4> QED
          BY <3>1 DEF LexStates
      <3> HIDE DEF end, m, r
      <3>4. CASE end = 0
        <4>1. r.open = t /\ r.index = Len(text) + 1 /\ r.out = s.out /\ r.quote = s.quote /\ r.escaped = s.escaped
          BY <2>2, <2>4, <3>2, <3>4 DEF ScanStates
        <4>2. Leaving(suffix, text, k, r, m)
          BY <1>1, <2>1, <2>3, <3>2, <3>3, <3>4, <4>1 DEF Leaving, Resting
        <4> QED
          BY <4>2 DEF InStep, r, m
      <3>5. CASE end # 0
        <4>1. r.open = None /\ r.index = end + 1 /\ r.out = s.out \o SubSeq(text, k, end)
              /\ r.quote = s.quote /\ r.escaped = s.escaped
          BY <1>1, <2>2, <2>4, <3>5 DEF ScanStates
        <4>2. <<t>> = SubSeq(text, k, k)
          BY <1>1 DEF Text
        <4>3. k \in 1..k
          BY <1>1
        <4>4. Skipping(suffix, text, k, r, m, end)
          BY <1>1, <2>1, <2>3, <2>4, <3>2, <3>3, <3>5, <4>1, <4>2, <4>3 DEF Skipping, Resting
        <4> QED
          BY <2>3, <3>5, <4>4 DEF InStep, r, m
      <3> QED
        BY <3>4, <3>5
    <2>5. CASE t \in lex.blocks
      <3>1. m = [l EXCEPT !.mode = Closer(t)]
        BY Zenon, <1>0, <2>1, <2>5 DEF LexTokenIs
      <3>2. Closer(t) \in Lasting(suffix) /\ t \notin lex.triples
        BY <1>1, <1>2, <2>5, CloserTells DEF Lasting
      <3>3. m.mode = Closer(t) /\ m.held = <<>> /\ m.out = l.out /\ m.escaped = l.escaped
        <4> HIDE DEF m
        <4> QED
          BY <1>1, <3>1 DEF LexStates
      <3> HIDE DEF end, m, r
      <3>4. CASE end = 0
        <4>1. r.open = Closer(t) /\ r.index = Len(text) + 1
              /\ r.out = s.out /\ r.quote = s.quote /\ r.escaped = s.escaped
          BY <2>2, <2>5, <3>2, <3>4 DEF ScanStates
        <4>2. Leaving(suffix, text, k, r, m)
          BY <1>1, <2>1, <2>3, <3>2, <3>3, <3>4, <4>1 DEF Leaving, Resting
        <4> QED
          BY <4>2 DEF InStep, r, m
      <3>5. CASE end # 0
        <4>1. r.open = None /\ r.index = end + 1 /\ r.out = s.out /\ r.quote = s.quote /\ r.escaped = s.escaped
          BY <1>1, <2>2, <2>5, <3>2, <3>5 DEF ScanStates
        <4>2. Skipping(suffix, text, k, r, m, end)
          BY <1>1, <2>1, <2>3, <3>2, <3>3, <3>5, <4>1 DEF Skipping, Resting
        <4> QED
          BY <2>3, <3>5, <4>2 DEF InStep, r, m
      <3> QED
        BY <3>4, <3>5
    <2>6. CASE t \in lex.toEnd
      <3>1. m = [l EXCEPT !.mode = "eol"]
        BY Zenon, <1>0, <2>1, <2>6 DEF LexTokenIs
      <3>2. t \notin lex.triples \cup lex.blocks
        BY <1>2, <2>6
      <3> HIDE DEF end, m, r
      <3>3. m.mode = "eol" /\ m.out = l.out /\ m.escaped = l.escaped
        BY <3>1 DEF LexStates
      <3>4. r.open = None /\ r.index = Len(text) + 1 /\ r.out = s.out /\ r.quote = s.quote /\ r.escaped = s.escaped
        BY <1>1, <2>2, <2>6, <3>2 DEF ScanStates
      <3>5. Leaving(suffix, text, k, r, m)
        BY <1>1, <2>1, <3>3, <3>4 DEF Leaving, Resting
      <3> QED
        BY <3>5 DEF InStep, r, m
    <2>7. CASE t \notin lex.triples \cup lex.blocks \cup lex.toEnd
      <3>1. /\ r.open = None /\ r.index = k + 1 /\ r.out = Append(s.out, t) /\ r.escaped = s.escaped
            /\ r.quote = IF t \in lex.quotes THEN t ELSE None
        <4> HIDE DEF end, r
        <4> QED
          BY <1>1, <2>2, <2>7 DEF ScanStates
      <3>2. CASE t \in lex.quotes
        <4>1. m = [[l EXCEPT !.out = Append(@, t)] EXCEPT !.mode = t]
          BY Zenon, <1>0, <2>1, <3>2 DEF LexTokenIs
        <4> HIDE DEF end, m, r
        <4>2. m.mode = t /\ m.out = Append(l.out, t) /\ m.escaped = l.escaped /\ m.held = l.held
          BY <4>1 DEF LexStates
        <4>3. s.escaped = l.escaped
          BY <2>1 DEF Resting, ScanStates, LexStates
        <4>4. r.quote \in lex.quotes /\ m.mode = r.quote /\ m.escaped = r.escaped
          BY <3>1, <3>2, <4>2, <4>3
        <4>5. Reading(suffix, k, r, m)
          BY <1>1, <3>1, <4>2, <4>4 DEF Reading
        <4> QED
          BY <4>5 DEF InStep, r, m
      <3>3. CASE t \notin lex.quotes
        <4>1. m = [l EXCEPT !.out = Append(@, t)]
          BY Zenon, <1>0, <2>1, <2>7, <3>3 DEF LexTokenIs
        <4> HIDE DEF end, m, r
        <4>2. m.mode = l.mode /\ m.out = Append(l.out, t) /\ m.escaped = l.escaped /\ m.held = l.held
          BY <4>1 DEF LexStates
        <4>3. Reading(suffix, k, r, m)
          BY <1>1, <2>1, <3>1, <3>3, <4>2 DEF Reading, Resting
        <4> QED
          BY <4>3 DEF InStep, r, m
      <3> QED
        BY <3>2, <3>3
    <2> QED
      BY <2>4, <2>5, <2>6, <2>7
  <1> QED
    BY <1>3, <1>4

(* Token by token the two stay in step.                                    *)
LEMMA StepInStep ==
  ASSUME NEW suffix \in DOMAIN Lexis, NEW text \in Text, NEW s \in ScanStates, NEW l \in LexStates(suffix),
         NEW k \in 1..Len(text), InStep(suffix, text, k - 1, s, l)
  PROVE  InStep(suffix, text, k, ScanToken(suffix, text, s, k), LexToken(suffix, l, text[k]))
  <1>1. Len(text) \in Nat /\ k \in Nat
    BY DEF Text
  <1>2. CASE Reading(suffix, k - 1, s, l)
    BY <1>2, ReadingSteps
  <1>3. CASE Continuing(suffix, k - 1, s, l)
    <2>1. k = 1
      BY <1>1, <1>3 DEF Continuing
    <2> QED
      BY <1>1, <1>3, <2>1, ContinuingSteps
  <1>4. CASE \E e \in k..Len(text) : Skipping(suffix, text, k - 1, s, l, e)
    BY <1>4, SkippingSteps
  <1>5. CASE Leaving(suffix, text, k - 1, s, l)
    BY <1>5, LeavingSteps
  <1>6. k - 1 + 1 = k
    BY <1>1
  <1> QED
    BY <1>2, <1>3, <1>4, <1>5, <1>6 DEF InStep

\* A line leaves the scanner in a state of its own kind.
LEMMA ScanLineType ==
  ASSUME NEW suffix \in DOMAIN Lexis, NEW text \in Text, NEW s \in ScanStates
  PROVE  ScanLine(suffix, text, s) \in ScanStates
  <1>1. Len(text) \in Nat /\ Len(text) \in 0..Len(text)
    BY DEF Text
  <1>2. PICK F \in [0..Len(text) -> ScanStates] :
          /\ F[0] = [s EXCEPT !.out = <<>>, !.index = 1, !.quote = None, !.escaped = FALSE]
          /\ \A k \in 1..Len(text) : F[k] = ScanToken(suffix, text, F[k - 1], k)
          /\ F[Len(text)] = ScanLine(suffix, text, s)
    BY ScanLineTells
  <1> QED
    BY <1>1, <1>2

(* The same for the fold over the lines of a file.                         *)
ViewStates == [state : ScanStates, out : Seq(Text)]

\* The code view of a file scans its lines in turn.
LEMMA CodeViewTells ==
  ASSUME NEW suffix \in DOMAIN Lexis, NEW lines \in Seq(Text)
  PROVE  \E F \in [0..Len(lines) -> ViewStates] :
           /\ F[0] = [state |-> NothingScanned, out |-> <<>>]
           /\ \A k \in 1..Len(lines) :
                F[k] = [state |-> ScanLine(suffix, lines[k], F[k - 1].state),
                        out |-> Append(F[k - 1].out, ScanLine(suffix, lines[k], F[k - 1].state).out)]
           /\ F[Len(lines)].out = CodeView(suffix, lines)
  <1> DEFINE start == [state |-> NothingScanned, out |-> <<>>]
             N == Len(lines)
             Op(v, text) == LET s == ScanLine(suffix, text, v.state)
                            IN  [state |-> s, out |-> Append(v.out, s.out)]
             f == [p \in ViewStates \X Text |-> Op(p[1], p[2])]
             Solves(it) == it = [x \in SUBSET DOMAIN lines |->
                                   IF x = {} THEN start ELSE Op(it[x \ {Max(x)}], lines[Max(x)])]
             iter == CHOOSE it : Solves(it)
  <1>1. N \in Nat /\ DOMAIN lines = 1..N
    OBVIOUS
  <1>2. start \in ViewStates
    <2>1. <<>> \in Text /\ <<>> \in Seq(Text) /\ None \in Token
      BY TokenHolds, Zenon, EmptySeq DEF Text
    <2> QED
      BY <2>1 DEF ViewStates, ScanStates, NothingScanned
  <1>3. iter[DOMAIN lines].out = CodeView(suffix, lines)
    BY Zenon DEF CodeView, FoldLeft, MapThenFoldSet
  <1>4. ASSUME NEW v \in ViewStates, NEW text \in Text PROVE Op(v, text) \in ViewStates
    <2>1. v.state \in ScanStates /\ v.out \in Seq(Text)
      BY DEF ViewStates
    <2>2. ScanLine(suffix, text, v.state) \in ScanStates
      BY <2>1, ScanLineType
    <2>3. ScanLine(suffix, text, v.state).out \in Text
      BY <2>2 DEF ScanStates
    <2> QED
      BY <2>1, <2>2, <2>3 DEF ViewStates
  <1>5. \A v \in ViewStates, text \in Text : f[<<v, text>>] = Op(v, text)
    BY <1>4
  <1>6. Foldable(ViewStates, Text, f, start, lines)
    BY <1>2, <1>4 DEF Foldable
  <1> HIDE DEF start, Op, f, N
  <1>7. PICK it : Solution(ViewStates, Text, f, start, lines, it)
    BY <1>6, SolutionExists
  <1>8. Solves(it)
    BY <1>5, <1>7 DEF Solution
  <1>9. Solves(iter)
    <2> HIDE DEF Solves
    <2> QED
      BY <1>8
  <1> HIDE DEF iter
  <1>10. Recurs(ViewStates, f, start, lines, iter)
    <2>1. PICK b : b = start
      OBVIOUS
    <2>2. iter = [x \in SUBSET DOMAIN lines |-> IF x = {} THEN b ELSE Op(iter[x \ {Max(x)}], lines[Max(x)])]
      BY <1>9, <2>1
    <2>3. ASSUME NEW x \in SUBSET DOMAIN lines, x # {} PROVE lines[Max(x)] \in Text
      BY <1>7, <2>3 DEF Solution
    <2> QED
      BY <1>5, <2>1, <2>2, <2>3 DEF Recurs
  <1>11. PICK F : Chain(ViewStates, f, start, lines, F) /\ F[Len(lines)] = iter[DOMAIN lines]
    BY <1>6, <1>10, ChainExists
  <1>12. F \in [0..N -> ViewStates] /\ F[0] = start /\ F[N].out = CodeView(suffix, lines)
    BY <1>1, <1>3, <1>11 DEF Chain, N
  <1>13. ASSUME NEW k \in 1..N PROVE F[k] = Op(F[k - 1], lines[k])
    <2>1. k - 1 \in 0..N /\ lines[k] \in Text
      BY <1>1
    <2>2. F[k - 1] \in ViewStates
      BY <1>12, <2>1
    <2>3. F[k] = f[<<F[k - 1], lines[k]>>]
      BY <1>11 DEF Chain, N
    <2> QED
      BY <1>5, <2>1, <2>2, <2>3
  <1> QED
    BY <1>12, <1>13 DEF Op, start, N

\* The same for the fold of the lexer over a line.
LEMMA LexLineTells ==
  ASSUME NEW suffix \in DOMAIN Lexis, NEW text \in Text, NEW mode \in Modes(suffix)
  PROVE  \E F \in [0..Len(text) -> LexStates(suffix)] :
           /\ F[0] = [mode |-> IF mode \in {"eol", "quote"} THEN "code" ELSE mode,
                      escaped |-> FALSE, held |-> <<>>, out |-> <<>>]
           /\ \A k \in 1..Len(text) : F[k] = LexToken(suffix, F[k - 1], text[k])
           /\ F[Len(text)] = LexLine(suffix, text, mode)
  <1> DEFINE start == [mode |-> IF mode \in {"eol", "quote"} THEN "code" ELSE mode,
                       escaped |-> FALSE, held |-> <<>>, out |-> <<>>]
             N == Len(text)
             Op(v, t) == LexToken(suffix, v, t)
             f == [p \in LexStates(suffix) \X Token |-> Op(p[1], p[2])]
             Solves(it) == it = [x \in SUBSET DOMAIN text |->
                                   IF x = {} THEN start ELSE Op(it[x \ {Max(x)}], text[Max(x)])]
             iter == CHOOSE it : Solves(it)
  <1>1. N \in Nat /\ DOMAIN text = 1..N /\ text \in Seq(Token)
    BY DEF Text
  <1>2. start \in LexStates(suffix)
    <2>1. <<>> \in Text /\ "code" \in Modes(suffix)
      BY DEF Modes, Text
    <2> QED
      BY <2>1 DEF LexStates
  <1>3. iter[DOMAIN text] = LexLine(suffix, text, mode)
    BY Zenon DEF LexLine, FoldLeft, MapThenFoldSet
  <1>4. \A v \in LexStates(suffix), t \in Token : Op(v, t) \in LexStates(suffix)
    BY LexTokenType
  <1>5. \A v \in LexStates(suffix), t \in Token : f[<<v, t>>] = Op(v, t)
    BY <1>4
  <1>6. Foldable(LexStates(suffix), Token, f, start, text)
    BY <1>1, <1>2, <1>4 DEF Foldable
  <1> HIDE DEF start, Op, f, N
  <1>7. PICK it : Solution(LexStates(suffix), Token, f, start, text, it)
    BY <1>6, SolutionExists
  <1>8. Solves(it)
    BY <1>5, <1>7 DEF Solution
  <1>9. Solves(iter)
    <2> HIDE DEF Solves
    <2> QED
      BY <1>8
  <1> HIDE DEF iter
  <1>10. Recurs(LexStates(suffix), f, start, text, iter)
    <2>1. PICK b : b = start
      OBVIOUS
    <2>2. iter = [x \in SUBSET DOMAIN text |-> IF x = {} THEN b ELSE Op(iter[x \ {Max(x)}], text[Max(x)])]
      BY <1>9, <2>1
    <2>3. ASSUME NEW x \in SUBSET DOMAIN text, x # {} PROVE text[Max(x)] \in Token
      BY <1>7, <2>3 DEF Solution
    <2> QED
      BY <1>5, <2>1, <2>2, <2>3 DEF Recurs
  <1>11. PICK F : Chain(LexStates(suffix), f, start, text, F) /\ F[Len(text)] = iter[DOMAIN text]
    BY <1>6, <1>10, ChainExists
  <1>12. F \in [0..N -> LexStates(suffix)] /\ F[0] = start /\ F[N] = LexLine(suffix, text, mode)
    BY <1>1, <1>3, <1>11 DEF Chain, N
  <1>13. ASSUME NEW k \in 1..N PROVE F[k] = Op(F[k - 1], text[k])
    <2>1. k - 1 \in 0..N /\ text[k] \in Token
      BY <1>1
    <2>2. F[k - 1] \in LexStates(suffix)
      BY <1>12, <2>1
    <2>3. F[k] = f[<<F[k - 1], text[k]>>]
      BY <1>11 DEF Chain, N
    <2> QED
      BY <1>5, <2>1, <2>2, <2>3
  <1> QED
    BY <1>12, <1>13 DEF Op, start, N

\* A line leaves the lexer in a state of its own kind.
LEMMA LexLineType ==
  ASSUME NEW suffix \in DOMAIN Lexis, NEW text \in Text, NEW mode \in Modes(suffix)
  PROVE  LexLine(suffix, text, mode) \in LexStates(suffix)
  <1>1. Len(text) \in Nat /\ Len(text) \in 0..Len(text)
    BY DEF Text
  <1>2. PICK F \in [0..Len(text) -> LexStates(suffix)] :
          /\ F[0] = [mode |-> IF mode \in {"eol", "quote"} THEN "code" ELSE mode,
                     escaped |-> FALSE, held |-> <<>>, out |-> <<>>]
          /\ \A k \in 1..Len(text) : F[k] = LexToken(suffix, F[k - 1], text[k])
          /\ F[Len(text)] = LexLine(suffix, text, mode)
    BY Zenon, LexLineTells
  <1> QED
    BY <1>1, <1>2

FileStates(suffix) == [mode : Modes(suffix), out : Seq(Text), spans : BOOLEAN]

\* The same for the fold of the lexer over a file.
LEMMA LexFileTells ==
  ASSUME NEW suffix \in DOMAIN Lexis, NEW lines \in Seq(Text)
  PROVE  \E F \in [0..Len(lines) -> FileStates(suffix)] :
           /\ F[0] = [mode |-> "code", out |-> <<>>, spans |-> FALSE]
           /\ \A k \in 1..Len(lines) :
                F[k] = [mode |-> LexLine(suffix, lines[k], F[k - 1].mode).mode,
                        out |-> Append(F[k - 1].out, LexLine(suffix, lines[k], F[k - 1].mode).out),
                        spans |-> F[k - 1].spans \/ F[k - 1].mode = "tick"]
           /\ F[Len(lines)] = LexFile(suffix, lines)
  <1> DEFINE start == [mode |-> "code", out |-> <<>>, spans |-> FALSE]
             N == Len(lines)
             Op(v, text) == LET s == LexLine(suffix, text, v.mode)
                            IN  [mode |-> s.mode, out |-> Append(v.out, s.out),
                                 spans |-> v.spans \/ v.mode = "tick"]
             f == [p \in FileStates(suffix) \X Text |-> Op(p[1], p[2])]
             Solves(it) == it = [x \in SUBSET DOMAIN lines |->
                                   IF x = {} THEN start ELSE Op(it[x \ {Max(x)}], lines[Max(x)])]
             iter == CHOOSE it : Solves(it)
  <1>1. N \in Nat /\ DOMAIN lines = 1..N
    OBVIOUS
  <1>2. start \in FileStates(suffix)
    <2>1. <<>> \in Seq(Text) /\ "code" \in Modes(suffix)
      BY DEF Modes
    <2> QED
      BY <2>1 DEF FileStates
  <1>3. iter[DOMAIN lines] = LexFile(suffix, lines)
    BY Zenon DEF LexFile, FoldLeft, MapThenFoldSet
  <1>4. ASSUME NEW v \in FileStates(suffix), NEW text \in Text PROVE Op(v, text) \in FileStates(suffix)
    <2>1. v.mode \in Modes(suffix) /\ v.out \in Seq(Text)
      BY DEF FileStates
    <2>2. LexLine(suffix, text, v.mode) \in LexStates(suffix)
      BY <2>1, LexLineType
    <2>3. LexLine(suffix, text, v.mode).out \in Text /\ LexLine(suffix, text, v.mode).mode \in Modes(suffix)
      BY <2>2 DEF LexStates
    <2> QED
      BY <2>1, <2>2, <2>3 DEF FileStates
  <1>5. \A v \in FileStates(suffix), text \in Text : f[<<v, text>>] = Op(v, text)
    BY <1>4
  <1>6. Foldable(FileStates(suffix), Text, f, start, lines)
    BY <1>2, <1>4 DEF Foldable
  <1> HIDE DEF start, Op, f, N
  <1>7. PICK it : Solution(FileStates(suffix), Text, f, start, lines, it)
    BY <1>6, SolutionExists
  <1>8. Solves(it)
    BY <1>5, <1>7 DEF Solution
  <1>9. Solves(iter)
    <2> HIDE DEF Solves
    <2> QED
      BY <1>8
  <1> HIDE DEF iter
  <1>10. Recurs(FileStates(suffix), f, start, lines, iter)
    <2>1. PICK b : b = start
      OBVIOUS
    <2>2. iter = [x \in SUBSET DOMAIN lines |-> IF x = {} THEN b ELSE Op(iter[x \ {Max(x)}], lines[Max(x)])]
      BY <1>9, <2>1
    <2>3. ASSUME NEW x \in SUBSET DOMAIN lines, x # {} PROVE lines[Max(x)] \in Text
      BY <1>7, <2>3 DEF Solution
    <2> QED
      BY <1>5, <2>1, <2>2, <2>3 DEF Recurs
  <1>11. PICK F : Chain(FileStates(suffix), f, start, lines, F) /\ F[Len(lines)] = iter[DOMAIN lines]
    BY <1>6, <1>10, ChainExists
  <1>12. F \in [0..N -> FileStates(suffix)] /\ F[0] = start /\ F[N] = LexFile(suffix, lines)
    BY <1>1, <1>3, <1>11 DEF Chain, N
  <1>13. ASSUME NEW k \in 1..N PROVE F[k] = Op(F[k - 1], lines[k])
    <2>1. k - 1 \in 0..N /\ lines[k] \in Text
      BY <1>1
    <2>2. F[k - 1] \in FileStates(suffix)
      BY <1>12, <2>1
    <2>3. F[k] = f[<<F[k - 1], lines[k]>>]
      BY <1>11 DEF Chain, N
    <2> QED
      BY <1>5, <2>1, <2>2, <2>3
  <1> QED
    BY <1>12, <1>13 DEF Op, start, N

-----------------------------------------------------------------------------
(* Line by line, and over the file.                                        *)

\* What is open at the end of a line is open in both.
Aligned(suffix, s, mode) ==
    \/ s.open = None /\ mode \notin Lasting(suffix)
    \/ s.open \in Lasting(suffix) /\ mode = s.open

\* After a line the scanner and the lexer are in step when they were before it.
LEMMA LineInStep ==
  ASSUME NEW suffix \in DOMAIN Lexis, NEW text \in Text, NEW s \in ScanStates, NEW mode \in Modes(suffix),
         Aligned(suffix, s, mode), mode # "tick"
  PROVE  /\ ScanLine(suffix, text, s).out = LexLine(suffix, text, mode).out
         /\ Aligned(suffix, ScanLine(suffix, text, s), LexLine(suffix, text, mode).mode)
  <1> DEFINE N == Len(text)
  <1>1. PICK F \in [0..N -> ScanStates] :
          /\ F[0] = [s EXCEPT !.out = <<>>, !.index = 1, !.quote = None, !.escaped = FALSE]
          /\ \A k \in 1..N : F[k] = ScanToken(suffix, text, F[k - 1], k)
          /\ F[N] = ScanLine(suffix, text, s)
    BY ScanLineTells
  <1>2. PICK G \in [0..N -> LexStates(suffix)] :
          /\ G[0] = [mode |-> IF mode \in {"eol", "quote"} THEN "code" ELSE mode,
                     escaped |-> FALSE, held |-> <<>>, out |-> <<>>]
          /\ \A k \in 1..N : G[k] = LexToken(suffix, G[k - 1], text[k])
          /\ G[N] = LexLine(suffix, text, mode)
    BY LexLineTells
  <1>3. N \in Nat
    BY DEF Text
  <1> DEFINE T == {k \in 0..N : InStep(suffix, text, k, F[k], G[k])}
  <1>4. 0 \in T
    <2>1. /\ F[0].out = <<>> /\ F[0].index = 1 /\ F[0].quote = None /\ F[0].escaped = FALSE /\ F[0].open = s.open
          /\ G[0].mode = (IF mode \in {"eol", "quote"} THEN "code" ELSE mode)
          /\ G[0].escaped = FALSE /\ G[0].held = <<>> /\ G[0].out = <<>>
      BY <1>1, <1>2 DEF ScanStates
    <2>2. CASE s.open = None /\ mode \notin Lasting(suffix)
      <3>1. G[0].mode = "code"
        BY <2>1, <2>2, LexisTokens DEF Modes, Lasting, Tokens
      <3>2. Reading(suffix, 0, F[0], G[0])
        BY <2>1, <2>2, <3>1 DEF Reading, Resting
      <3> QED
        BY <1>3, <3>2 DEF InStep
    <2>3. CASE s.open \in Lasting(suffix) /\ mode = s.open
      <3>1. G[0].mode = mode
        BY <2>1, <2>3, LastingTells
      <3>2. Continuing(suffix, 0, F[0], G[0])
        BY <2>1, <2>3, <3>1 DEF Continuing, Resting
      <3> QED
        BY <1>3, <3>2 DEF InStep
    <2> QED
      BY <2>2, <2>3 DEF Aligned
  <1>5. ASSUME NEW k \in 1..N, k - 1 \in T PROVE k \in T
    <2>1. F[k - 1] \in ScanStates /\ G[k - 1] \in LexStates(suffix)
      BY <1>3
    <2>2. InStep(suffix, text, k - 1, F[k - 1], G[k - 1])
      BY <1>5
    <2>3. InStep(suffix, text, k, ScanToken(suffix, text, F[k - 1], k), LexToken(suffix, G[k - 1], text[k]))
      BY <2>1, <2>2, StepInStep
    <2> QED
      BY <1>1, <1>2, <1>3, <2>3
  <1> HIDE DEF T
  <1>6. 0..N \subseteq T
    BY <1>3, <1>4, <1>5, Folds!CountingUp
  <1>7. InStep(suffix, text, N, F[N], G[N])
    BY <1>3, <1>6 DEF T
  <1>8. CASE Reading(suffix, N, F[N], G[N])
    <2>1. F[N].open = None /\ G[N].out = F[N].out /\ G[N].mode \notin Lasting(suffix)
      BY <1>8, LastingTells DEF Reading
    <2> QED
      BY <1>1, <1>2, <2>1 DEF Aligned
  <1>9. CASE Continuing(suffix, N, F[N], G[N])
    BY <1>1, <1>2, <1>9 DEF Continuing, Aligned
  <1>10. CASE Leaving(suffix, text, N, F[N], G[N])
    <2>1. "eol" \notin Lasting(suffix)
      BY LastingTells
    <2> QED
      BY <1>1, <1>2, <1>10, <2>1 DEF Leaving, Aligned
  <1>11. N + 1..N = {}
    BY <1>3
  <1> QED
    BY <1>7, <1>8, <1>9, <1>10, <1>11 DEF InStep

(* The code view of a file is its live text.                               *)
LEMMA CodeViewIsLive ==
  ASSUME NEW suffix \in DOMAIN Lexis, NEW lines \in Seq(Text), ~LexFile(suffix, lines).spans
  PROVE  CodeView(suffix, lines) = LiveText(suffix, lines)
  <1> DEFINE N == Len(lines)
  <1>1. PICK F \in [0..N -> ViewStates] :
          /\ F[0] = [state |-> NothingScanned, out |-> <<>>]
          /\ \A k \in 1..N :
               F[k] = [state |-> ScanLine(suffix, lines[k], F[k - 1].state),
                       out |-> Append(F[k - 1].out, ScanLine(suffix, lines[k], F[k - 1].state).out)]
          /\ F[N].out = CodeView(suffix, lines)
    BY CodeViewTells
  <1>2. PICK G \in [0..N -> FileStates(suffix)] :
          /\ G[0] = [mode |-> "code", out |-> <<>>, spans |-> FALSE]
          /\ \A k \in 1..N :
               G[k] = [mode |-> LexLine(suffix, lines[k], G[k - 1].mode).mode,
                       out |-> Append(G[k - 1].out, LexLine(suffix, lines[k], G[k - 1].mode).out),
                       spans |-> G[k - 1].spans \/ G[k - 1].mode = "tick"]
          /\ G[N] = LexFile(suffix, lines)
    BY LexFileTells
  <1>3. N \in Nat
    OBVIOUS
  <1> DEFINE T == {k \in 0..N : ~G[k].spans => F[k].out = G[k].out /\ Aligned(suffix, F[k].state, G[k].mode)}
  <1>4. 0 \in T
    <2>1. "code" \notin Lasting(suffix)
      BY LastingTells
    <2> QED
      BY <1>1, <1>2, <1>3, <2>1 DEF Aligned, NothingScanned
  <1>5. ASSUME NEW k \in 1..N, k - 1 \in T PROVE k \in T
    <2>1. k - 1 \in 0..N /\ k \in 0..N /\ lines[k] \in Text
      BY <1>3
    <2>2. F[k - 1].state \in ScanStates /\ G[k - 1].mode \in Modes(suffix)
      BY <2>1 DEF ViewStates, FileStates
    <2>3. ASSUME ~G[k].spans PROVE F[k].out = G[k].out /\ Aligned(suffix, F[k].state, G[k].mode)
      <3> DEFINE scanned == ScanLine(suffix, lines[k], F[k - 1].state)
                 lexed == LexLine(suffix, lines[k], G[k - 1].mode)
                 spans == G[k - 1].spans \/ G[k - 1].mode = "tick"
      <3> HIDE DEF scanned, lexed, spans
      <3>a. G[k] = [mode |-> lexed.mode, out |-> Append(G[k - 1].out, lexed.out),
                    spans |-> spans]
        BY <1>2 DEF lexed, spans
      <3>b. F[k] = [state |-> scanned, out |-> Append(F[k - 1].out, scanned.out)]
        BY <1>1 DEF scanned
      <3>1. ~G[k - 1].spans /\ G[k - 1].mode # "tick"
        <4>1. G[k].spans = spans
          BY <3>a
        <4>2. ~spans
          BY <2>3, <4>1
        <4> QED
          BY <4>2 DEF spans
      <3>2. F[k - 1].out = G[k - 1].out /\ Aligned(suffix, F[k - 1].state, G[k - 1].mode)
        BY <1>5, <3>1
      <3>3. scanned.out = lexed.out /\ Aligned(suffix, scanned, lexed.mode)
        BY <2>1, <2>2, <3>1, <3>2, LineInStep DEF scanned, lexed
      <3> QED
        BY <3>2, <3>3, <3>a, <3>b
    <2> QED
      BY <2>1, <2>3
  <1> HIDE DEF T
  <1>6. 0..N \subseteq T
    BY <1>3, <1>4, <1>5, Folds!CountingUp
  <1>7. N \in T
    BY <1>3, <1>6
  <1> QED
    BY <1>1, <1>2, <1>7 DEF T, LiveText

\* FlattenSeq is the last of a chain of sequences, each with one more appended.
LEMMA FlattenTells ==
  ASSUME NEW S, NEW ss \in Seq(Seq(S))
  PROVE  \E F \in [0..Len(ss) -> Seq(S)] :
           /\ F[0] = <<>>
           /\ \A n \in 1..Len(ss) : F[n] = F[n - 1] \o ss[n]
           /\ F[Len(ss)] = FlattenSeq(ss)
  <1> DEFINE N == Len(ss)
             Steps(m) == {F \in [0..m -> Seq(S)] : F[0] = <<>> /\ \A n \in 1..m : F[n] = F[n - 1] \o ss[n]}
             T == {m \in 0..N : Steps(m) # {}}
             Solves(it) == it = [i \in 1..N |-> IF i = 1 THEN ss[i] ELSE it[i - 1] \o ss[i]]
             flatten == CHOOSE it : Solves(it)
  <1>1. N \in Nat /\ \A n \in 1..N : ss[n] \in Seq(S)
    OBVIOUS
  <1>2. 0 \in T
    <2>1. [n \in 0..0 |-> <<>>] \in Steps(0)
      OBVIOUS
    <2>2. 0 \in 0..N
      BY <1>1
    <2> HIDE DEF Steps
    <2> QED
      BY <2>1, <2>2
  <1>3. ASSUME NEW m \in 1..N, m - 1 \in T PROVE m \in T
    <2>1. PICK F : F \in Steps(m - 1)
      BY <1>3
    <2> DEFINE G == [n \in 0..m |-> IF n = m THEN F[m - 1] \o ss[m] ELSE F[n]]
    <2>2. F \in [0..m - 1 -> Seq(S)] /\ F[0] = <<>> /\ \A n \in 1..m - 1 : F[n] = F[n - 1] \o ss[n]
      BY <2>1
    <2>3. F[m - 1] \o ss[m] \in Seq(S)
      BY <1>1, <2>2
    <2>4. G \in [0..m -> Seq(S)]
      BY <2>2, <2>3
    <2>5. G[0] = <<>>
      BY <2>2
    <2>6. ASSUME NEW n \in 1..m PROVE G[n] = G[n - 1] \o ss[n]
      <3>1. G[n - 1] = F[n - 1] /\ n \in 0..m /\ n \in Nat /\ m \in Nat
        BY <1>1
      <3> DEFINE a == F[m - 1] \o ss[m]
      <3> HIDE DEF a
      <3>2. G[n] = IF n = m THEN a ELSE F[n]
        BY <3>1 DEF a
      <3>3. CASE n = m
        BY <3>1, <3>2, <3>3 DEF a
      <3>4. CASE n # m
        <4>1. n \in 1..m - 1
          BY <3>1, <3>4
        <4> HIDE DEF G
        <4> QED
          BY <2>2, <3>1, <3>2, <3>4, <4>1
      <3> QED
        BY <3>3, <3>4
    <2> HIDE DEF G
    <2>7. G \in Steps(m)
      BY <2>4, <2>5, <2>6
    <2>8. m \in 0..N
      BY <1>1
    <2> HIDE DEF Steps
    <2> QED
      BY <2>7, <2>8
  <1>4. 0..N \subseteq T
    <2> HIDE DEF T
    <2> QED
      BY <1>1, <1>2, <1>3, Folds!CountingUp
  <1>5. PICK F : F \in Steps(N)
    <2>1. N \in T
      <3> HIDE DEF T
      <3> QED
        BY <1>1, <1>4
    <2> HIDE DEF Steps
    <2> QED
      BY <2>1
  <1>6. F \in [0..N -> Seq(S)] /\ F[0] = <<>> /\ \A n \in 1..N : F[n] = F[n - 1] \o ss[n]
    BY <1>5
  <1>7. CASE N = 0
    <2>1. FlattenSeq(ss) = ss /\ ss = <<>>
      BY <1>7 DEF FlattenSeq
    <2> QED
      BY <1>6, <1>7, <2>1
  <1>8. CASE N # 0
    <2>1. FlattenSeq(ss) = flatten[N]
      BY Zenon, <1>8 DEF FlattenSeq
    <2>2. ASSUME NEW i \in 1..N PROVE F[i] = IF i = 1 THEN ss[i] ELSE F[i - 1] \o ss[i]
      <3>1. F[0] \o ss[i] = ss[i]
        BY <1>1, <1>6
      <3>2. F[i] = F[i - 1] \o ss[i]
        BY <1>6
      <3>3. i = 1 => F[i - 1] = F[0]
        OBVIOUS
      <3>4. i = 1 => F[i] = ss[i]
        BY <3>1, <3>2, <3>3
      <3> QED
        BY <3>2, <3>4
    <2>3. Solves(flatten)
      <3>1. \A i \in 1..N : i # 1 => i - 1 \in 1..N
        BY <1>1
      <3>2. Solves([i \in 1..N |-> F[i]])
        BY <2>2, <3>1
      <3> HIDE DEF Solves
      <3> QED
        BY <3>2
    <2> HIDE DEF flatten
    <2> DEFINE U == {n \in 0..N : n = 0 \/ flatten[n] = F[n]}
    <2>4. PICK it : it = flatten
      OBVIOUS
    <2>5. it = [i \in 1..N |-> IF i = 1 THEN ss[i] ELSE it[i - 1] \o ss[i]]
      BY <2>3, <2>4
    <2>6. ASSUME NEW n \in 1..N, n - 1 \in U PROVE n \in U
      <3>1. F[n] = IF n = 1 THEN ss[n] ELSE F[n - 1] \o ss[n]
        BY <2>2
      <3>2. it[n] = IF n = 1 THEN ss[n] ELSE it[n - 1] \o ss[n]
        BY <2>5
      <3> QED
        BY <1>1, <2>4, <2>6, <3>1, <3>2
    <2>7. 0..N \subseteq U
      <3>1. 0 \in U
        BY <1>1
      <3> HIDE DEF U
      <3> QED
        BY <1>1, <2>6, <3>1, Folds!CountingUp
    <2>8. flatten[N] = F[N]
      BY <1>1, <1>8, <2>7
    <2> QED
      BY <1>6, <2>1, <2>8
  <1> QED
    BY <1>7, <1>8

\* It holds items of the sequences only.
LEMMA FlattenStays ==
  ASSUME NEW S, NEW ss \in Seq(Seq(S))
  PROVE  FlattenSeq(ss) \in Seq(S)
  <1>1. PICK F \in [0..Len(ss) -> Seq(S)] :
          /\ F[0] = <<>>
          /\ \A n \in 1..Len(ss) : F[n] = F[n - 1] \o ss[n]
          /\ F[Len(ss)] = FlattenSeq(ss)
    BY FlattenTells
  <1> QED
    BY <1>1

\* An item of a sequence.
IsItem(x, s) == \E k \in 1..Len(s) : s[k] = x

(* What it holds is what the sequences hold.                               *)
LEMMA FlattenHolds ==
  ASSUME NEW S, NEW ss \in Seq(Seq(S)), NEW x
  PROVE  IsItem(x, FlattenSeq(ss)) <=> \E n \in 1..Len(ss) : IsItem(x, ss[n])
  <1> DEFINE N == Len(ss)
             Holds(s) == \E k \in 1..Len(s) : s[k] = x
  <1>1. PICK F \in [0..N -> Seq(S)] :
          /\ F[0] = <<>>
          /\ \A n \in 1..N : F[n] = F[n - 1] \o ss[n]
          /\ F[N] = FlattenSeq(ss)
    BY FlattenTells
  <1>2. N \in Nat /\ \A n \in 1..N : ss[n] \in Seq(S) /\ n \in Nat /\ n \in 0..N /\ n - 1 \in 0..N
    OBVIOUS
  <1>3. ASSUME NEW a \in Seq(S), NEW b \in Seq(S) PROVE Holds(a \o b) <=> Holds(a) \/ Holds(b)
    <2>1. ASSUME NEW k \in 1..Len(a \o b), (a \o b)[k] = x PROVE Holds(a) \/ Holds(b)
      <3>1. CASE k <= Len(a)
        BY <2>1, <3>1
      <3>2. CASE ~ (k <= Len(a))
        <4>1. k - Len(a) \in 1..Len(b) /\ b[k - Len(a)] = x
          BY <2>1, <3>2
        <4> QED
          BY <4>1
      <3> QED
        BY <3>1, <3>2
    <2>2. ASSUME NEW k \in 1..Len(a), a[k] = x PROVE Holds(a \o b)
      <3>1. k \in 1..Len(a \o b) /\ (a \o b)[k] = x
        BY <2>2
      <3> QED
        BY <3>1
    <2>3. ASSUME NEW k \in 1..Len(b), b[k] = x PROVE Holds(a \o b)
      <3>1. Len(a) + k \in 1..Len(a \o b) /\ (a \o b)[Len(a) + k] = x
        BY <2>3
      <3> QED
        BY <3>1
    <2> QED
      BY <2>1, <2>2, <2>3
  <1> DEFINE T == {n \in 0..N : Holds(F[n]) <=> \E m \in 1..n : Holds(ss[m])}
  <1>4. 0 \in T
    <2>1. ~Holds(F[0]) /\ 1..0 = {}
      BY <1>1
    <2> HIDE DEF Holds
    <2> QED
      BY <1>2, <2>1
  <1>5. ASSUME NEW n \in 1..N, n - 1 \in T PROVE n \in T
    <2>1. F[n - 1] \in Seq(S) /\ ss[n] \in Seq(S) /\ F[n] = F[n - 1] \o ss[n]
      BY <1>1, <1>2
    <2> HIDE DEF Holds
    <2>2. Holds(F[n]) <=> Holds(F[n - 1]) \/ Holds(ss[n])
      BY <1>3, <2>1
    <2>3. Holds(F[n - 1]) <=> \E m \in 1..n - 1 : Holds(ss[m])
      BY <1>5
    <2>4. 1..n = (1..n - 1) \cup {n} /\ n \in 0..N
      BY <1>2
    <2> QED
      BY <2>2, <2>3, <2>4
  <1> HIDE DEF T
  <1>6. 0..N \subseteq T
    BY <1>2, <1>4, <1>5, Folds!CountingUp
  <1>7. N \in T
    BY <1>2, <1>6
  <1> QED
    <2> HIDE DEF Holds
    <2>1. Holds(FlattenSeq(ss)) <=> \E m \in 1..N : Holds(ss[m])
      BY <1>1, <1>7 DEF T
    <2> QED
      BY Zenon, <2>1 DEF Holds, IsItem

(* It repeats nothing when each sequence holds at most one item, of its own. *)
Separate(ss) ==
    \A n \in 1..Len(ss) : /\ Len(ss[n]) <= 1
                          /\ \A m \in 1..Len(ss) : ss[n] # <<>> /\ ss[n] = ss[m] => n = m

\* Sequences of one item that repeat nothing are flattened to one that repeats nothing.
LEMMA FlattenOnce ==
  ASSUME NEW S, NEW ss \in Seq(Seq(S)), Separate(ss)
  PROVE  \A i, j \in 1..Len(FlattenSeq(ss)) : FlattenSeq(ss)[i] = FlattenSeq(ss)[j] => i = j
  <1> DEFINE N == Len(ss)
             Once(s) == \A i, j \in 1..Len(s) : s[i] = s[j] => i = j
             From(s, n) == \A i \in 1..Len(s) : \E m \in 1..n : ss[m] = <<s[i]>>
  <1>1. PICK F \in [0..N -> Seq(S)] :
          /\ F[0] = <<>>
          /\ \A n \in 1..N : F[n] = F[n - 1] \o ss[n]
          /\ F[N] = FlattenSeq(ss)
    BY FlattenTells
  <1>2. N \in Nat /\ \A n \in 1..N : ss[n] \in Seq(S) /\ n \in Nat /\ n \in 0..N /\ n - 1 \in 0..N
    OBVIOUS
  <1> DEFINE T == {n \in 0..N : Once(F[n]) /\ From(F[n], n)}
  <1>3. 0 \in T
    BY <1>1, <1>2
  <1>4. ASSUME NEW n \in 1..N, n - 1 \in T PROVE n \in T
    <2> DEFINE a == F[n - 1]
               b == ss[n]
    <2>1. a \in Seq(S) /\ b \in Seq(S) /\ F[n] = a \o b /\ Len(b) <= 1 /\ n \in 0..N /\ n \in Nat
      BY <1>1, <1>2 DEF Separate
    <2>2. Once(a) /\ From(a, n - 1)
      BY <1>4
    <2>3. \A m \in 1..n - 1 : m \in 1..N /\ m # n /\ m \in 1..n
      BY <1>2
    <2>4. CASE b = <<>>
      <3>1. F[n] = a
        BY <2>1, <2>4
      <3>2. From(a, n)
        BY <2>2, <2>3
      <3> HIDE DEF Once, From
      <3> QED
        BY <2>1, <2>2, <3>1, <3>2
    <2>5. CASE b # <<>>
      <3>1. PICK x \in S : b = <<x>>
        <4>1. Len(b) = 1
          <5> HIDE DEF Once, From, T
          <5>1. Len(b) \in Nat /\ Len(b) # 0
            BY <2>1, <2>5
          <5>2. Len(b) <= 1
            BY <2>1
          <5>3. \A u \in Nat : u # 0 /\ u <= 1 => u = 1
            OBVIOUS
          <5> QED
            BY <5>1, <5>2, <5>3, Zenon
        <4>2. b = <<b[1]>> /\ b[1] \in S
          BY <2>1, <4>1
        <4> QED
          BY <4>2
      <3>2. Len(F[n]) = Len(a) + 1 /\ F[n][Len(a) + 1] = x /\ \A i \in 1..Len(a) : F[n][i] = a[i]
        BY <2>1, <3>1
      <3>3. ASSUME NEW i \in 1..Len(a) PROVE a[i] # x
        <4>1. PICK m \in 1..n - 1 : ss[m] = <<a[i]>>
          BY <2>2
        <4> QED
          BY <2>3, <2>5, <3>1, <4>1 DEF Separate
      <3>4. Once(F[n])
        <4> SUFFICES ASSUME NEW i \in 1..Len(F[n]), NEW j \in 1..Len(F[n]), F[n][i] = F[n][j] PROVE i = j
          OBVIOUS
        <4>0. Len(a) \in Nat
          BY <2>1
        <4>1. i \in 1..Len(a) \/ i = Len(a) + 1
          BY <3>2, <4>0
        <4>2. j \in 1..Len(a) \/ j = Len(a) + 1
          BY <3>2, <4>0
        <4> QED
          BY <2>2, <3>2, <3>3, <4>1, <4>2
      <3>5. From(F[n], n)
        <4> SUFFICES ASSUME NEW i \in 1..Len(F[n]) PROVE \E m \in 1..n : ss[m] = <<F[n][i]>>
          OBVIOUS
        <4>1. CASE i \in 1..Len(a)
          BY <2>2, <2>3, <3>2, <4>1
        <4>2. CASE i = Len(a) + 1
          <5>1. n \in 1..n
            BY <2>1
          <5>2. F[n][i] = x
            BY <3>2, <4>2
          <5>3. ss[n] = <<F[n][i]>>
            BY <3>1, <5>2
          <5> QED
            BY <5>1, <5>3
        <4>3. Len(a) \in Nat
          BY <2>1
        <4>4. i \in 1..Len(a) \/ i = Len(a) + 1
          BY <3>2, <4>3
        <4> QED
          BY <4>1, <4>2, <4>4
      <3> HIDE DEF Once, From
      <3> QED
        BY <2>1, <3>4, <3>5
    <2> QED
      BY <2>4, <2>5
  <1> HIDE DEF T
  <1>5. 0..N \subseteq T
    BY <1>2, <1>3, <1>4, Folds!CountingUp
  <1>6. N \in T
    BY <1>2, <1>5
  <1> QED
    BY <1>1, <1>6 DEF T

\* A function on 1 .. n is a sequence of n items.
LEMMA FunctionIsSeq ==
  ASSUME NEW S, NEW n \in Nat, NEW f \in [1..n -> S]
  PROVE  f \in Seq(S) /\ Len(f) = n
  <1>1. \A m \in Nat : [1..m -> S] \subseteq Seq(S)
    BY Zenon, SeqDef
  <1> QED
    BY <1>1

\* What is gathered over the places of a text holds what is found at each.
LEMMA GatheredStays ==
  ASSUME NEW S, NEW T, NEW text \in Seq(T), NEW f \in [DOMAIN text -> Seq(S)]
  PROVE  FlattenSeq(f) \in Seq(S)
  <1>1. Len(text) \in Nat /\ f \in [1..Len(text) -> Seq(S)]
    OBVIOUS
  <1>2. f \in Seq(Seq(S))
    BY <1>1, FunctionIsSeq
  <1> QED
    BY <1>2, FlattenStays

-----------------------------------------------------------------------------
(* What is reported, and where.                                            *)

\* The rules of the check of the configuration, and those that look at one or a
\* few statements; the other detectors have rules of their own.
ConfigurationRules ==
    {"debug", "development", "compose-privileged", "compose-socket", "compose-secret", "k8s-privileged",
     "k8s-hostpath", "k8s-image", "docker-root", "docker-add", "tf-storage", "tf-admin-port", "tf-ingress",
     "gh-target", "gh-run", "android-debuggable", "android-exported", "ios-arbitrary-loads", "ios-file-sharing"}

StatementRules ==
    {"dns", "attempts", "integer", "decision", "authorization", "permissions", "password", "loop", "shared"}

XmlRules == {"xxe"}

SqlRules == {"sql"}

ReleaseRules == {"release"}

MemoryRules == {"unset", "freed"}

NullRules == {"null"}

SemanticRules == StatementRules \cup ReleaseRules \cup MemoryRules

DetectorRules == ConfigurationRules \cup SemanticRules \cup XmlRules \cup SqlRules \cup NullRules

TextRules == {"debug", "development"}

ComposeRules == {"compose-privileged", "compose-socket", "compose-secret"}

ManifestRules == {"k8s-privileged", "k8s-hostpath", "k8s-image"}

\* The rules that report a file, at no line of it.
FileRules == {"env-file", "private-key", "docker-no-user"}

At(rules, n) == [rule : rules, line : 1..n, status : {"confirmed", "needs_review"}]

OfFile == [rule : FileRules, line : {0}, status : {"confirmed", "needs_review"}]

\* A finding at a line of the file.
LEMMA OnePlace ==
  ASSUME NEW rules, NEW n \in Nat, NEW r \in rules, NEW i \in 1..n
  PROVE  /\ Setting(r, i) \in At(rules, n)
         /\ Candidate(r, i) \in At(rules, n)
         /\ Confirmed(r, i) \in At(rules, n)
  BY DEF Setting, Candidate, Confirmed, At

\* Findings of some rules are findings of more.
LEMMA MoreRules ==
  ASSUME NEW n \in Nat, NEW few, NEW more, few \subseteq more
  PROVE  /\ At(few, n) \subseteq At(more, n) /\ Seq(At(few, n)) \subseteq Seq(At(more, n))
         /\ Seq(At(few, n)) \subseteq Seq(At(more, n) \cup OfFile)
         /\ Seq(At(few, n) \cup OfFile) \subseteq Seq(At(more, n) \cup OfFile)
  <1>1. At(few, n) \subseteq At(more, n)
    BY DEF At
  <1>2. At(few, n) \subseteq At(more, n) \cup OfFile /\ At(few, n) \cup OfFile \subseteq At(more, n) \cup OfFile
    BY <1>1
  <1>3. \A A, B : A \subseteq B => Seq(A) \subseteq Seq(B)
    BY SeqOfMore
  <1> QED
    BY <1>1, <1>2, <1>3

(* The check of the configuration, part by part: settings of any text file, *)
(* of a compose file, of a manifest.                                       *)
LEMMA TextPlaces ==
  ASSUME NEW kind, NEW lines \in Seq(Text)
  PROVE  TextFindings(kind, lines) \in Seq(At(TextRules, Len(lines)))
  <1> DEFINE A == At(TextRules, Len(lines))
  <1>1. Len(lines) \in Nat /\ DOMAIN lines = 1..Len(lines) /\ <<>> \in Seq(A)
    OBVIOUS
  <1>2. ASSUME NEW r \in TextRules, NEW i \in 1..Len(lines) PROVE <<Setting(r, i)>> \in Seq(A)
    <2>1. Setting(r, i) \in A
      BY <1>1, OnePlace
    <2> HIDE DEF A
    <2> QED
      BY <2>1
  <1> HIDE DEF A
  <1>4. ASSUME NEW f \in [DOMAIN lines -> Seq(A)] PROVE FlattenSeq(f) \in Seq(A)
    BY GatheredStays
  <1>5. ASSUME NEW a \in Seq(A), NEW b \in Seq(A) PROVE a \o b \in Seq(A)
    OBVIOUS
  <1> DEFINE both(i) == LET w == Range(Settings(lines[i]))
                        IN  (IF "debug" \in w THEN <<Setting("debug", i)>> ELSE <<>>)
                            \o (IF "development" \in w /\ NamesEnvironment(kind)
                                          THEN <<Setting("development", i)>> ELSE <<>>)
  <1>11. ASSUME NEW i \in DOMAIN lines PROVE both(i) \in Seq(A)
    <2>1. "debug" \in TextRules /\ "development" \in TextRules
      BY DEF TextRules
    <2>2. <<Setting("debug", i)>> \in Seq(A) /\ <<Setting("development", i)>> \in Seq(A)
      BY <1>1, <1>2, <2>1
    <2> QED
      BY <1>1, <1>5, <2>2
  <1> HIDE DEF both
  <1>12. FlattenSeq([i \in DOMAIN lines |-> both(i)]) \in Seq(A)
    BY <1>4, <1>11
  <1> QED
    BY <1>12 DEF TextFindings, both, A

\* The rules of a compose file report lines of it.
LEMMA ComposePlaces ==
  ASSUME NEW lines \in Seq(Text)
  PROVE  ComposeFindings(lines) \in Seq(At(ComposeRules, Len(lines)))
  <1> DEFINE A == At(ComposeRules, Len(lines))
  <1>1. Len(lines) \in Nat /\ DOMAIN lines = 1..Len(lines) /\ <<>> \in Seq(A)
    OBVIOUS
  <1>2. ASSUME NEW r \in ComposeRules, NEW i \in 1..Len(lines) PROVE <<Setting(r, i)>> \in Seq(A)
    <2>1. Setting(r, i) \in A
      BY <1>1, OnePlace
    <2> HIDE DEF A
    <2> QED
      BY <2>1
  <1> HIDE DEF A
  <1>4. ASSUME NEW f \in [DOMAIN lines -> Seq(A)] PROVE FlattenSeq(f) \in Seq(A)
    BY GatheredStays
  <1>5. ASSUME NEW a \in Seq(A), NEW b \in Seq(A) PROVE a \o b \in Seq(A)
    OBVIOUS
  <1> DEFINE at == Structure(lines, Empty(lines))
             report(i) == (IF Settings(lines[i]) = <<"privileged">>
                            THEN <<Setting("compose-privileged", i)>> ELSE <<>>)
                        \o (IF "docker.sock" \in Range(Settings(lines[i]))
                            THEN <<Setting("compose-socket", i)>> ELSE <<>>)
                        \o (IF "PASSWORD=" \in Range(lines[i]) THEN <<Setting("compose-secret", i)>> ELSE <<>>)
  <1>11. ASSUME NEW i \in DOMAIN lines PROVE report(i) \in Seq(A)
    <2>1. {"compose-privileged", "compose-socket", "compose-secret"} \subseteq ComposeRules
      BY DEF ComposeRules
    <2>2. /\ <<Setting("compose-privileged", i)>> \in Seq(A)
          /\ <<Setting("compose-socket", i)>> \in Seq(A)
          /\ <<Setting("compose-secret", i)>> \in Seq(A)
      BY <1>1, <1>2, <2>1
    <2> QED
      BY <1>1, <1>5, <2>2
  <1> HIDE DEF report
  <1>12. ASSUME NEW i \in DOMAIN lines PROVE (IF i \in at THEN report(i) ELSE <<>>) \in Seq(A)
    BY <1>1, <1>11
  <1> HIDE DEF at
  <1>13. FlattenSeq([i \in DOMAIN lines |-> IF i \in at THEN report(i) ELSE <<>>]) \in Seq(A)
    BY <1>4, <1>12
  <1> QED
    BY <1>13 DEF ComposeFindings, report, at, A

\* So do those of a manifest of an orchestrator.
LEMMA ManifestPlaces ==
  ASSUME NEW lines \in Seq(Text)
  PROVE  ManifestFindings(lines) \in Seq(At(ManifestRules, Len(lines)))
  <1> DEFINE A == At(ManifestRules, Len(lines))
  <1>1. Len(lines) \in Nat /\ DOMAIN lines = 1..Len(lines) /\ <<>> \in Seq(A)
    OBVIOUS
  <1>2. ASSUME NEW r \in ManifestRules, NEW i \in 1..Len(lines) PROVE <<Setting(r, i)>> \in Seq(A)
    <2>1. Setting(r, i) \in A
      BY <1>1, OnePlace
    <2> HIDE DEF A
    <2> QED
      BY <2>1
  <1> HIDE DEF A
  <1>4. ASSUME NEW f \in [DOMAIN lines -> Seq(A)] PROVE FlattenSeq(f) \in Seq(A)
    BY GatheredStays
  <1>5. ASSUME NEW a \in Seq(A), NEW b \in Seq(A) PROVE a \o b \in Seq(A)
    OBVIOUS
  <1> DEFINE at == Structure(lines, Empty(lines))
             report(i) == LET w == Settings(lines[i])
                        IN  (IF w = <<"privileged">> THEN <<Setting("k8s-privileged", i)>> ELSE <<>>)
                            \o (IF w # <<>> /\ Last(w) = "hostPath" THEN <<Setting("k8s-hostpath", i)>> ELSE <<>>)
                            \o (IF Unpinned(w) THEN <<Setting("k8s-image", i)>> ELSE <<>>)
  <1>11. ASSUME NEW i \in DOMAIN lines PROVE report(i) \in Seq(A)
    <2>1. {"k8s-privileged", "k8s-hostpath", "k8s-image"} \subseteq ManifestRules
      BY DEF ManifestRules
    <2>2. /\ <<Setting("k8s-privileged", i)>> \in Seq(A)
          /\ <<Setting("k8s-hostpath", i)>> \in Seq(A)
          /\ <<Setting("k8s-image", i)>> \in Seq(A)
      BY <1>1, <1>2, <2>1
    <2> QED
      BY <1>1, <1>5, <2>2
  <1> HIDE DEF report
  <1>12. ASSUME NEW i \in DOMAIN lines PROVE (IF i \in at THEN report(i) ELSE <<>>) \in Seq(A)
    BY <1>1, <1>11
  <1> HIDE DEF at
  <1>13. FlattenSeq([i \in DOMAIN lines |-> IF i \in at THEN report(i) ELSE <<>>]) \in Seq(A)
    BY <1>4, <1>12
  <1> QED
    BY <1>13 DEF ManifestFindings, report, at, A

\* The check of the configuration reports lines of the file, or the file.
LEMMA ConfigurationPlaces ==
  ASSUME NEW kind, NEW lines \in Seq(Text)
  PROVE  ConfigurationFindings(kind, lines) \in Seq(At(ConfigurationRules, Len(lines)) \cup OfFile)
  <1> DEFINE n == Len(lines)
             A == At(ConfigurationRules, n)
             P == A \cup OfFile
  <1>1. n \in Nat /\ DOMAIN lines = 1..n /\ <<>> \in Seq(P)
    OBVIOUS
  <1>2. ASSUME NEW r \in ConfigurationRules, NEW i \in 1..n PROVE <<Setting(r, i)>> \in Seq(P)
    <2>1. Setting(r, i) \in A
      BY <1>1, OnePlace
    <2> HIDE DEF A
    <2> QED
      BY <2>1
  <1>3. ASSUME NEW r \in FileRules PROVE <<Setting(r, 0)>> \in Seq(P)
    <2>1. Setting(r, 0) \in OfFile
      BY DEF Setting, OfFile
    <2> QED
      BY <2>1
  <1> HIDE DEF P
  <1>4. ASSUME NEW f \in [DOMAIN lines -> Seq(P)] PROVE FlattenSeq(f) \in Seq(P)
    BY GatheredStays
  <1>5. ASSUME NEW a \in Seq(P), NEW b \in Seq(P) PROVE a \o b \in Seq(P)
    OBVIOUS
  <1>6. ASSUME NEW rules, rules \subseteq ConfigurationRules, NEW s \in Seq(At(rules, n)) PROVE s \in Seq(P)
    BY <1>1, <1>6, MoreRules DEF P
  <1> HIDE DEF n
  <1>10. FilenameFindings(kind) \in Seq(P)
    <2>1. "env-file" \in FileRules /\ "private-key" \in FileRules
      BY DEF FileRules
    <2> QED
      BY <1>1, <1>3, <2>1 DEF FilenameFindings
  <1>11. TextFindings(kind, lines) \in Seq(P)
    <2>1. TextRules \subseteq ConfigurationRules
      BY DEF TextRules, ConfigurationRules
    <2>2. TextFindings(kind, lines) \in Seq(At(TextRules, n))
      BY TextPlaces DEF n
    <2> QED
      BY <1>6, <2>1, <2>2
  <1>12. ComposeFindings(lines) \in Seq(P)
    <2>1. ComposeRules \subseteq ConfigurationRules
      BY DEF ComposeRules, ConfigurationRules
    <2>2. ComposeFindings(lines) \in Seq(At(ComposeRules, n))
      BY ComposePlaces DEF n
    <2> QED
      BY <1>6, <2>1, <2>2
  <1>13. ManifestFindings(lines) \in Seq(P)
    <2>1. ManifestRules \subseteq ConfigurationRules
      BY DEF ManifestRules, ConfigurationRules
    <2>2. ManifestFindings(lines) \in Seq(At(ManifestRules, n))
      BY ManifestPlaces DEF n
    <2> QED
      BY <1>6, <2>1, <2>2
  <1>14. DockerfileFindings(lines) \in Seq(P)
    <2> DEFINE user(i) == LET w == Words(lines[i]) IN Len(w) > 1 /\ w[1] = "USER"
               report(i) == LET w == Words(lines[i])
                          IN  (IF user(i) /\ SubSeq(w, 2, Len(w)) = <<"root">> THEN <<Setting("docker-root", i)>>
                               ELSE <<>>)
                              \o (IF Len(w) > 1 /\ w[1] = "ADD" /\ "http" \in Range(w)
                                   THEN <<Setting("docker-add", i)>> ELSE <<>>)
    <2>1. ASSUME NEW i \in DOMAIN lines PROVE report(i) \in Seq(P)
      <3>1. {"docker-root", "docker-add"} \subseteq ConfigurationRules
        BY DEF ConfigurationRules
      <3>2. /\ <<Setting("docker-root", i)>> \in Seq(P)
            /\ <<Setting("docker-add", i)>> \in Seq(P)
        BY <1>1, <1>2, <3>1
      <3> QED
        BY <1>1, <1>5, <3>2
    <2> HIDE DEF report
    <2>2. FlattenSeq([i \in DOMAIN lines |-> report(i)]) \in Seq(P)
      BY <1>4, <2>1
    <2>3. <<Setting("docker-no-user", 0)>> \in Seq(P)
      BY <1>3 DEF FileRules
    <2>4. FlattenSeq([i \in DOMAIN lines |-> report(i)])
          \o (IF \E i \in DOMAIN lines : user(i) THEN <<>> ELSE <<Setting("docker-no-user", 0)>>) \in Seq(P)
      <3> DEFINE some == \E i \in DOMAIN lines : user(i)
      <3> HIDE DEF some
      <3>1. (IF some THEN <<>> ELSE <<Setting("docker-no-user", 0)>>) \in Seq(P)
        BY <1>1, <2>3
      <3> QED
        BY <1>5, <2>2, <3>1 DEF some
    <2> QED
      BY <2>4 DEF DockerfileFindings, report, user
  <1>15. TerraformFindings(lines) \in Seq(P)
    <2> DEFINE report(i) == LET w == Range(lines[i])
                          IN  (IF "acl-public" \in w THEN <<Setting("tf-storage", i)>> ELSE <<>>)
                              \o (IF "anywhere" \notin w THEN <<>>
                                  ELSE IF AdminPortNearby(lines, i) THEN <<Setting("tf-admin-port", i)>>
                                  ELSE <<Setting("tf-ingress", i)>>)
    <2>1. ASSUME NEW i \in DOMAIN lines PROVE report(i) \in Seq(P)
      <3>1. {"tf-storage", "tf-admin-port", "tf-ingress"} \subseteq ConfigurationRules
        BY DEF ConfigurationRules
      <3>2. /\ <<Setting("tf-storage", i)>> \in Seq(P)
            /\ <<Setting("tf-admin-port", i)>> \in Seq(P)
            /\ <<Setting("tf-ingress", i)>> \in Seq(P)
        BY <1>1, <1>2, <3>1
      <3> QED
        BY <1>1, <1>5, <3>2
    <2> HIDE DEF report
    <2>2. FlattenSeq([i \in DOMAIN lines |-> report(i)]) \in Seq(P)
      BY <1>4, <2>1
    <2> QED
      BY <2>2 DEF TerraformFindings, report
  <1>16. WorkflowFindings(lines) \in Seq(P)
    <2> DEFINE report(i) == LET w == Words(lines[i])
                              runs == w # <<>> /\ (w[1] = "run" \/ (Len(w) > 1 /\ SubSeq(w, 1, 2) = <<"-", "run">>))
                          IN  (IF w # <<>> /\ w[1] = "pull_request_target" THEN <<Setting("gh-target", i)>> ELSE <<>>)
                              \o (IF runs /\ "github.event" \in Range(w) THEN <<Setting("gh-run", i)>> ELSE <<>>)
    <2>1. ASSUME NEW i \in DOMAIN lines PROVE report(i) \in Seq(P)
      <3>1. {"gh-target", "gh-run"} \subseteq ConfigurationRules
        BY DEF ConfigurationRules
      <3>2. /\ <<Setting("gh-target", i)>> \in Seq(P)
            /\ <<Setting("gh-run", i)>> \in Seq(P)
        BY <1>1, <1>2, <3>1
      <3> QED
        BY <1>1, <1>5, <3>2
    <2> HIDE DEF report
    <2>2. FlattenSeq([i \in DOMAIN lines |-> report(i)]) \in Seq(P)
      BY <1>4, <2>1
    <2> QED
      BY <2>2 DEF WorkflowFindings, report
  <1>17. AndroidFindings(lines) \in Seq(P)
    <2> DEFINE report(i) == (IF "debuggable" \in Range(lines[i]) THEN <<Setting("android-debuggable", i)>> ELSE <<>>)
                          \o (IF "exported" \in Range(lines[i]) THEN <<Setting("android-exported", i)>> ELSE <<>>)
    <2>1. ASSUME NEW i \in DOMAIN lines PROVE report(i) \in Seq(P)
      <3>1. {"android-debuggable", "android-exported"} \subseteq ConfigurationRules
        BY DEF ConfigurationRules
      <3>2. /\ <<Setting("android-debuggable", i)>> \in Seq(P)
            /\ <<Setting("android-exported", i)>> \in Seq(P)
        BY <1>1, <1>2, <3>1
      <3> QED
        BY <1>1, <1>5, <3>2
    <2> HIDE DEF report
    <2>2. FlattenSeq([i \in DOMAIN lines |-> report(i)]) \in Seq(P)
      BY <1>4, <2>1
    <2> QED
      BY <2>2 DEF AndroidFindings, report
  <1>18. PlistFindings(lines) \in Seq(P)
    <2> DEFINE text == FlattenSeq([i \in DOMAIN lines |-> Words(lines[i])])
               true(key) == \E k \in 1 .. Len(text) - 3 :
                            SubSeq(text, k, k + 3) = <<"<key>", key, "</key>", "<true/>">>
               at(key) == {i \in DOMAIN lines : key \in Range(lines[i])}
               finding(key) == IF at(key) # {} /\ true(key) THEN <<Setting(key, Min(at(key)))>> ELSE <<>>
    <2> HIDE DEF true
    <2>1. ASSUME NEW key \in ConfigurationRules PROVE finding(key) \in Seq(P)
      <3>1. CASE at(key) # {}
        <4>1. at(key) \in SUBSET Nat /\ at(key) \subseteq 1..n
          BY <1>1
        <4> HIDE DEF at
        <4>2. Min(at(key)) \in 1..n
          BY <3>1, <4>1, MinOfSet
        <4>3. <<Setting(key, Min(at(key)))>> \in Seq(P)
          BY <1>2, <4>2
        <4> QED
          BY <1>1, <4>3
      <3>2. CASE at(key) = {}
        BY <1>1, <3>2
      <3> QED
        BY <3>1, <3>2
    <2>2. "ios-arbitrary-loads" \in ConfigurationRules /\ "ios-file-sharing" \in ConfigurationRules
      BY DEF ConfigurationRules
    <2> HIDE DEF finding
    <2>3. finding("ios-arbitrary-loads") \o finding("ios-file-sharing") \in Seq(P)
      BY <1>5, <2>1, <2>2
    <2> QED
      BY <2>3 DEF PlistFindings, finding, at, true, text
  <1> HIDE DEF A
  <1>19. ASSUME NEW c, NEW a \in Seq(P) PROVE (IF c THEN a ELSE <<>>) \in Seq(P)
    BY <1>1
  <1> QED
    BY <1>5, <1>10, <1>11, <1>12, <1>13, <1>14, <1>15, <1>16, <1>17, <1>18, <1>19 DEF ConfigurationFindings, P, A, n

\* First returns a number of the set, or 0 when it is empty.
LEMMA FirstTells ==
  ASSUME NEW S \in SUBSET Nat
  PROVE  First(S) \in S \cup {0} /\ First(S) \in Nat
  <1>1. CASE S = {}
    BY <1>1 DEF First
  <1>2. CASE S # {}
    BY <1>2, MinOfSet DEF First
  <1> QED
    BY <1>1, <1>2

\* The detectors report lines of the text they are given.  Parsers of XML:
LEMMA XxePlaces ==
  ASSUME NEW suffix, NEW lines \in Seq(Text)
  PROVE  XxeFindings(suffix, lines) \in Seq(At(XmlRules, Len(lines)))
  <1> DEFINE n == Len(lines)
             A == At(XmlRules, n)
             parse(i) == ParseOfFactory(lines, i)
  <1>1. n \in Nat /\ DOMAIN lines = 1..n /\ <<>> \in Seq(A) /\ "xxe" \in XmlRules
    BY DEF XmlRules
  <1>2. ASSUME NEW i \in 1..n, parse(i) > 0 PROVE parse(i) \in 1..n
    <2> DEFINE factory == FactoryOf(Words(lines[i]))
               next == First({j \in i + 1 .. n : FactoryOf(Words(lines[j])) # None})
               last == IF next = 0 THEN n ELSE next - 1
               b == First({j \in i + 1 .. last : BuilderOf(Words(lines[j]), factory) # None})
               builder == BuilderOf(Words(lines[b]), factory)
               p == First({j \in b + 1 .. last : ParsesUntrusted(Words(lines[j]), builder)})
    <2>1. next \in 0..n
      <3> DEFINE S == {j \in i + 1 .. n : FactoryOf(Words(lines[j])) # None}
      <3>1. S \in SUBSET Nat /\ S \subseteq 1..n
        BY <1>1
      <3> HIDE DEF S
      <3>2. First(S) \in S \cup {0}
        BY <3>1, FirstTells
      <3> QED
        BY <1>1, <3>1, <3>2 DEF S
    <2>2. last \in Int /\ last <= n
      <3> HIDE DEF next
      <3> QED
        BY <1>1, <2>1
    <2>3. b \in Nat
      <3> HIDE DEF last, factory
      <3> DEFINE S == {j \in i + 1 .. last : BuilderOf(Words(lines[j]), factory) # None}
      <3>1. S \in SUBSET Nat
        BY <2>2
      <3> HIDE DEF S
      <3>2. First(S) \in Nat
        BY <3>1, FirstTells
      <3> QED
        BY <3>2 DEF S
    <2>4. p \in 0..n
      <3> HIDE DEF last, b, builder
      <3> DEFINE S == {j \in b + 1 .. last : ParsesUntrusted(Words(lines[j]), builder)}
      <3>1. S \in SUBSET Nat /\ S \subseteq 1..n
        BY <1>1, <2>2, <2>3
      <3> HIDE DEF S
      <3>2. First(S) \in S \cup {0}
        BY <3>1, FirstTells
      <3> QED
        BY <1>1, <3>1, <3>2 DEF S
    <2>5. parse(i) \in {0, p}
      <3> DEFINE c == factory = None \/ b = 0 \/ p = 0 \/ Hardened(Flat(lines, i + 1, b - 1), factory)
      <3>1. parse(i) = IF c THEN 0 ELSE p
        BY Zenon DEF ParseOfFactory
      <3> HIDE DEF c, p, parse
      <3> QED
        BY <3>1
    <2> HIDE DEF p, parse
    <2> QED
      BY <1>1, <1>2, <2>4, <2>5
  <1>3. ASSUME NEW i \in DOMAIN lines
        PROVE  (IF parse(i) > 0 THEN <<Confirmed("xxe", parse(i))>> ELSE <<>>) \in Seq(A)
    <2>1. CASE parse(i) > 0
      <3>1. Confirmed("xxe", parse(i)) \in A
        BY <1>1, <1>2, <2>1, OnePlace
      <3> HIDE DEF A, parse
      <3> QED
        BY <2>1, <3>1
    <2>2. CASE ~ (parse(i) > 0)
      BY <1>1, <2>2
    <2> QED
      BY <2>1, <2>2
  <1>4. FlattenSeq([i \in DOMAIN lines |-> IF parse(i) > 0 THEN <<Confirmed("xxe", parse(i))>> ELSE <<>>]) \in Seq(A)
    <2> HIDE DEF A, parse
    <2> QED
      BY <1>3, GatheredStays
  <1> HIDE DEF A
  <1> DEFINE found == FlattenSeq([i \in DOMAIN lines |->
                                            IF parse(i) > 0 THEN <<Confirmed("xxe", parse(i))>> ELSE <<>>])
  <1>5. XxeFindings(suffix, lines) = IF suffix # "java" THEN <<>> ELSE found
    BY Zenon DEF XxeFindings
  <1> HIDE DEF found
  <1>6. XxeFindings(suffix, lines) \in Seq(A)
    BY <1>1, <1>4, <1>5 DEF found
  <1> QED
    BY <1>6 DEF A

(* A page of JSP reports candidates and confirmed findings of a sink.      *)
LEMMA JspPlaces ==
  ASSUME NEW suffix, NEW lines \in Seq(Text)
  PROVE  /\ JspFindings(suffix, lines) \in Seq(At(SinkRules, Len(lines)))
         /\ suffix # "jsp" => JspFindings(suffix, lines) = <<>>
  <1> DEFINE n == Len(lines)
             A == At(SinkRules, n)
  <1>1. n \in Nat /\ DOMAIN lines = 1..n /\ <<>> \in Seq(A)
    OBVIOUS
  <1>2. "dom" \in SinkRules
    BY DEF SinkRules, Sinks
  <1>3. ASSUME NEW i \in DOMAIN lines PROVE JspLine(lines, i) \in Seq(A)
    <2>1. Confirmed("dom", i) \in A /\ Candidate("dom", i) \in A
      BY <1>1, <1>2, OnePlace
    <2> HIDE DEF A
    <2>2. <<Confirmed("dom", i)>> \in Seq(A) /\ <<Candidate("dom", i)>> \in Seq(A)
      BY <2>1
    <2>3. JspLine(lines, i) \in {<<>>, <<Confirmed("dom", i)>>, <<Candidate("dom", i)>>}
      BY Zenon DEF JspLine
    <2> QED
      BY <1>1, <2>2, <2>3
  <1>4. FlattenSeq([i \in DOMAIN lines |-> JspLine(lines, i)]) \in Seq(A)
    <2> HIDE DEF A
    <2> QED
      BY <1>3, GatheredStays
  <1> HIDE DEF A
  <1> QED
    BY <1>1, <1>4 DEF JspFindings, A

\* Sign-in without a limit of attempts:
LEMMA AttemptPlaces ==
  ASSUME NEW text \in Seq(Text)
  PROVE  AttemptFindings(text) \in Seq(At(StatementRules, Len(text)))
  <1> DEFINE n == Len(text)
             A == At(StatementRules, n)
             at(token) == {i \in DOMAIN text : token \in Range(text[i])}
             c == at("login") # {} /\ at("verify") # {} /\ at("limiter") = {}
  <1>1. n \in Nat /\ DOMAIN text = 1..n /\ <<>> \in Seq(A) /\ "attempts" \in StatementRules
    BY DEF StatementRules
  <1>2. at("login") \in SUBSET Nat /\ at("login") \subseteq 1..n
    BY <1>1
  <1>3. AttemptFindings(text) = IF c THEN <<Candidate("attempts", Min(at("login")))>> ELSE <<>>
    BY Zenon DEF AttemptFindings
  <1>4. ASSUME c PROVE <<Candidate("attempts", Min(at("login")))>> \in Seq(A)
    <2>1. Min(at("login")) \in 1..n
      <3>1. at("login") # {}
        BY <1>4
      <3> HIDE DEF at
      <3> QED
        BY <1>2, <3>1, MinOfSet
    <2>2. Candidate("attempts", Min(at("login"))) \in A
      BY <1>1, <2>1, OnePlace
    <2> HIDE DEF A, at
    <2> QED
      BY <2>2
  <1> HIDE DEF c, A, at
  <1>5. AttemptFindings(text) \in Seq(A)
    BY <1>1, <1>3, <1>4
  <1> QED
    BY <1>5 DEF A

\* Endpoints without a guard:
LEMMA EndpointPlaces ==
  ASSUME NEW suffix, NEW text \in Seq(Text)
  PROVE  EndpointFindings(suffix, text) \in Seq(At(StatementRules, Len(text)))
  <1> DEFINE n == Len(text)
             A == At(StatementRules, n)
             headers(a) == {h \in a + 1 .. Min({n, a + EndpointReach}) : StartsFunction(Words(text[h]), suffix)}
             method(a) == First(headers(a))
             open(a) == "@endpoint" \in Range(text[a]) /\ method(a) > 0
                       /\ EndpointUnguarded(suffix, text, a, method(a))
             one(a) == IF open(a) THEN <<Candidate("authorization", method(a))>> ELSE <<>>
  <1>1. n \in Nat /\ DOMAIN text = 1..n /\ <<>> \in Seq(A) /\ "authorization" \in StatementRules
    BY DEF StatementRules
  <1>2. ASSUME NEW a \in 1..n PROVE headers(a) \subseteq 1..n
    <2>1. {n, a + EndpointReach} \in SUBSET Nat /\ {n, a + EndpointReach} # {}
      BY <1>1, ReachAssumption
    <2> DEFINE m == Min({n, a + EndpointReach})
    <2>2. m \in Nat /\ m <= n
      BY <1>1, <2>1, MinOfSet
    <2> HIDE DEF m
    <2>3. a + 1 .. m \subseteq 1..n
      BY <1>1, <2>2
    <2> QED
      BY <2>3 DEF m
  <1>3. ASSUME NEW a \in DOMAIN text PROVE one(a) \in Seq(A)
    <2>1. headers(a) \subseteq 1..n /\ headers(a) \in SUBSET Nat
      BY <1>1, <1>2
    <2> HIDE DEF headers
    <2>2. method(a) \in headers(a) \cup {0}
      BY <2>1, FirstTells
    <2>3. CASE open(a)
      <3>1. method(a) > 0
        BY <2>3
      <3> HIDE DEF method
      <3>2. method(a) \in 1..n
        BY <1>1, <2>1, <2>2, <3>1
      <3>3. Candidate("authorization", method(a)) \in A
        BY <1>1, <3>2, OnePlace
      <3> HIDE DEF A, open
      <3> QED
        BY <2>3, <3>3
    <2>4. CASE ~open(a)
      <3> HIDE DEF open, A
      <3> QED
        BY <1>1, <2>4
    <2> QED
      BY <2>3, <2>4
  <1>4. FlattenSeq([a \in DOMAIN text |-> one(a)]) \in Seq(A)
    <2> HIDE DEF A, one
    <2> QED
      BY <1>3, GatheredStays
  <1>5. EndpointFindings(suffix, text) = FlattenSeq([a \in DOMAIN text |-> one(a)])
    BY Zenon DEF EndpointFindings
  <1> HIDE DEF A, one
  <1>6. EndpointFindings(suffix, text) \in Seq(A)
    BY <1>4, <1>5
  <1> QED
    BY <1>6 DEF A

\* Permissions and password policies:
LEMMA SettingPlaces ==
  ASSUME NEW text \in Seq(Text)
  PROVE  SettingFindings(text) \in Seq(At(StatementRules, Len(text)))
  <1> DEFINE n == Len(text)
             A == At(StatementRules, n)
             one(i) == (IF "chmod777" \in Range(text[i]) THEN <<Candidate("permissions", i)>> ELSE <<>>)
                       \o (IF WeakPolicy(text, i) THEN <<Candidate("password", i)>> ELSE <<>>)
  <1>1. n \in Nat /\ DOMAIN text = 1..n /\ <<>> \in Seq(A) /\ {"permissions", "password"} \subseteq StatementRules
    BY DEF StatementRules
  <1>2. ASSUME NEW i \in DOMAIN text PROVE one(i) \in Seq(A)
    <2>1. Candidate("permissions", i) \in A /\ Candidate("password", i) \in A
      BY <1>1, OnePlace
    <2> HIDE DEF A
    <2>2. /\ (IF "chmod777" \in Range(text[i]) THEN <<Candidate("permissions", i)>> ELSE <<>>) \in Seq(A)
          /\ (IF WeakPolicy(text, i) THEN <<Candidate("password", i)>> ELSE <<>>) \in Seq(A)
      BY <1>1, <2>1
    <2> QED
      BY <2>2
  <1>3. FlattenSeq([i \in DOMAIN text |-> one(i)]) \in Seq(A)
    <2> HIDE DEF A, one
    <2> QED
      BY <1>2, GatheredStays
  <1> QED
    BY <1>3 DEF SettingFindings

\* The block of a loop ends at a statement after its header.
LEMMA BlockTells ==
  ASSUME NEW text \in Seq(Text), NEW i \in 1..Len(text)
  PROVE  Block(text, i, Len(text)) \subseteq 1..Len(text)
  <1> DEFINE n == Len(text)
             out == {j \in i + 1 .. n : Words(text[j]) # <<>> /\ Indentation(text[j]) <= Indentation(text[i])}
             ends == {i + n, n} \cup {j - 1 : j \in out}
  <1>1. n \in Nat /\ i \in Nat
    OBVIOUS
  <1>2. ends \in SUBSET Nat /\ n \in ends
    BY <1>1
  <1>3. Block(text, i, n) = i + 1 .. Min(ends)
    BY Zenon DEF Block
  <1> HIDE DEF ends
  <1>4. Min(ends) \in Nat /\ Min(ends) <= n
    BY <1>2, MinOfSet
  <1> HIDE DEF n
  <1>5. Block(text, i, n) \subseteq 1..n
    BY <1>1, <1>3, <1>4
  <1> QED
    BY <1>5 DEF n

\* Loops and recursions without an end:
LEMMA LoopPlaces ==
  ASSUME NEW suffix, NEW text \in Seq(Text)
  PROVE  LoopFindings(suffix, text) \in Seq(At(StatementRules, Len(text)))
  <1> DEFINE n == Len(text)
             A == At(StatementRules, n)
             at(i) == IF suffix = "py" THEN SelfCall(text, i) ELSE 0
             endless(i) == IF Endless(suffix, text, i) THEN <<Candidate("loop", i)>> ELSE <<>>
             calls(i) == IF at(i) > 0 THEN <<Candidate("loop", at(i))>> ELSE <<>>
  <1>1. n \in Nat /\ DOMAIN text = 1..n /\ <<>> \in Seq(A) /\ "loop" \in StatementRules
    BY DEF StatementRules
  <1>2. ASSUME NEW i \in 1..n PROVE SelfCall(text, i) \in 0..n
    <2> DEFINE w == Words(text[i])
               body == Block(text, i, Len(text))
               flat == FlattenSeq([k \in 1 .. Cardinality(body) |-> Words(text[i + k])])
               base == \E a, b \in DOMAIN flat : a < b /\ flat[a] = "if" /\ flat[b] \in {"return", "raise"}
               calling(j) == LET v == Words(text[j])
                             IN  \E k \in 1 .. Len(v) - 1 : v[k] = w[2] /\ v[k + 1] = "(" /\ (k > 1 => v[k - 1] # ".")
               c == /\ StartsFunction(w, "py") /\ Last(w) = ":" /\ ~base
                    /\ i > 1 => Words(text[i - 1]) # <<>>
               S == {j \in body : calling(j)}
    <2>1. SelfCall(text, i) = IF c THEN First(S) ELSE 0
      BY Zenon DEF SelfCall
    <2>2. S \subseteq body /\ body \subseteq 1..n
      BY BlockTells, Zenon
    <2> HIDE DEF S, c, body
    <2>3. S \in SUBSET Nat
      BY <1>1, <2>2
    <2>4. First(S) \in S \cup {0}
      BY <2>3, FirstTells
    <2>5. SelfCall(text, i) \in {0, First(S)}
      BY <2>1, Zenon
    <2>6. First(S) \in 0..n
      <3>1. 1..n \subseteq 0..n /\ 0 \in 0..n
        OBVIOUS
      <3> HIDE DEF n
      <3> QED
        BY <2>2, <2>4, <3>1, Zenon
    <2>7. 0 \in 0..n
      BY <1>1
    <2> QED
      BY <2>5, <2>6, <2>7, Zenon
  <1>3. ASSUME NEW i \in DOMAIN text PROVE endless(i) \in Seq(A) /\ calls(i) \in Seq(A)
    <2>1. Candidate("loop", i) \in A /\ at(i) \in 0..n
      BY <1>1, <1>2, OnePlace
    <2> HIDE DEF at
    <2>2. at(i) > 0 => Candidate("loop", at(i)) \in A
      <3>1. at(i) > 0 => at(i) \in 1..n
        BY <1>1, <2>1
      <3> QED
        BY <1>1, <3>1, OnePlace
    <2> HIDE DEF A
    <2> QED
      BY <1>1, <2>1, <2>2
  <1> HIDE DEF endless, calls, A
  <1>4. FlattenSeq([i \in DOMAIN text |-> endless(i)]) \in Seq(A)
    BY <1>3, GatheredStays
  <1>5. FlattenSeq([i \in DOMAIN text |-> calls(i)]) \in Seq(A)
    BY <1>3, GatheredStays
  <1>6. LoopFindings(suffix, text) = FlattenSeq([i \in DOMAIN text |-> endless(i)])
                                      \o FlattenSeq([i \in DOMAIN text |-> calls(i)])
    BY Zenon DEF LoopFindings, endless, calls
  <1>7. LoopFindings(suffix, text) \in Seq(A)
    BY <1>4, <1>5, <1>6
  <1> QED
    BY <1>7 DEF A

\* Request data in a place that all requests share:
LEMMA SharedPlaces ==
  ASSUME NEW suffix, NEW text \in Seq(Text)
  PROVE  SharedFindings(suffix, text) \in Seq(At(StatementRules, Len(text)))
  <1> DEFINE n == Len(text)
             A == At(StatementRules, n)
             any(P(_)) == \E i \in DOMAIN text : P(text[i])
             global == /\ any(LAMBDA t : Len(t) > 1 /\ t[1] = "session" /\ t[2] = "=")
                       /\ any(LAMBDA t : \E k \in 2 .. Len(t) : t[k - 1] = "global" /\ t[k] = "session")
             field == /\ any(LAMBDA t : "servlet" \in Range(t))
                      /\ any(LAMBDA t : LET w == Words(t)
                                        IN  /\ Len(w) > 3 /\ SubSeq(w, 1, 3) = <<"private", "type", "session">>
                                            /\ w[4] \in {";", "="})
             stores(w) == \E k \in 1 .. Len(w) - 1 : w[k] = "session" /\ w[k + 1] = "="
                                         /\ {"remote", "session"} \cap Range(Clause(w, k + 2)) # {}
             one(i) == IF stores(Words(text[i])) THEN <<Candidate("shared", i)>> ELSE <<>>
             c == (suffix = "py" /\ global) \/ (suffix = "java" /\ field)
  <1>1. n \in Nat /\ DOMAIN text = 1..n /\ <<>> \in Seq(A) /\ "shared" \in StatementRules
    BY DEF StatementRules
  <1> HIDE DEF stores
  <1>2. ASSUME NEW i \in DOMAIN text PROVE one(i) \in Seq(A)
    <2>1. Candidate("shared", i) \in A
      BY <1>1, OnePlace
    <2> HIDE DEF A
    <2> QED
      BY <1>1, <2>1
  <1> HIDE DEF one, A
  <1>3. FlattenSeq([i \in DOMAIN text |-> one(i)]) \in Seq(A)
    BY <1>2, GatheredStays
  <1>4. SharedFindings(suffix, text) = IF c THEN FlattenSeq([i \in DOMAIN text |-> one(i)]) ELSE <<>>
    BY Zenon DEF SharedFindings, one, stores
  <1> HIDE DEF c
  <1>5. SharedFindings(suffix, text) \in Seq(A)
    BY <1>1, <1>3, <1>4
  <1> QED
    BY <1>5 DEF A

\* The words of a text are a text.
LEMMA WordsType ==
  ASSUME NEW text \in Text
  PROVE  Words(text) \in Text
  <1> DEFINE f == [k \in DOMAIN text |-> IF text[k] = " " THEN <<>> ELSE <<text[k]>>]
  <1>1. f \in [DOMAIN text -> Seq(Token)]
    <2>1. ASSUME NEW k \in DOMAIN text PROVE f[k] \in Seq(Token)
      <3>1. text[k] \in Token
        BY DEF Text
      <3>2. <<text[k]>> \in Seq(Token) /\ <<>> \in Seq(Token)
        BY <3>1
      <3>3. f[k] \in {<<>>, <<text[k]>>}
        BY Zenon
      <3> HIDE DEF f
      <3> QED
        BY <3>2, <3>3
    <2>2. f = [k \in DOMAIN text |-> f[k]]
      BY Zenon
    <2> HIDE DEF f
    <2> QED
      BY <2>1, <2>2
  <1>2. text \in Seq(Token)
    BY DEF Text
  <1> HIDE DEF f
  <1>3. FlattenSeq(f) \in Seq(Token)
    BY <1>1, <1>2, GatheredStays
  <1> QED
    BY <1>3 DEF Words, f, Text

\* What a statement assigns is a name.
LEMMA GetsTells ==
  ASSUME NEW w \in Text, NEW tokens, Gets(w, tokens) > 0
  PROVE  w[Gets(w, tokens)] \in Names
  <1> DEFINE S == {k \in 1 .. Len(w) - 1 : /\ w[k] \in Names /\ w[k + 1] \in {"=", "=="}
                                            /\ Range(Clause(w, k)) \cap tokens # {}}
  <1>1. S \in SUBSET Nat /\ \A k \in S : w[k] \in Names /\ k # 0
    BY DEF Text
  <1>2. Gets(w, tokens) = First(S)
    BY Zenon DEF Gets
  <1> HIDE DEF S
  <1>3. First(S) \in S \cup {0} /\ First(S) \in Nat
    BY <1>1, FirstTells
  <1> QED
    BY <1>1, <1>2, <1>3

\* What a statement assigns, or compares, is a name.
LEMMA AssignmentTells ==
  ASSUME NEW w \in Text, AssignmentAt(w) > 0
  PROVE  w[AssignmentAt(w)] \in Names
  <1> DEFINE S == {k \in 1 .. Len(w) - 2 : w[k] \in Names /\ w[k + 1] \in {"=", "=="}}
  <1>1. S \in SUBSET Nat /\ \A k \in S : w[k] \in Names /\ k # 0
    BY DEF Text
  <1>2. AssignmentAt(w) = First(S)
    BY Zenon DEF AssignmentAt
  <1> HIDE DEF S
  <1>3. First(S) \in S \cup {0} /\ First(S) \in Nat
    BY <1>1, FirstTells
  <1> QED
    BY <1>1, <1>2, <1>3

\* A finding for each name of a set.
LEMMA RepeatStays ==
  ASSUME NEW S, NEW x \in S, NEW names \in SUBSET Names
  PROVE  Repeat(x, Cardinality(names)) \in Seq(S)
  <1>1. Cardinality(names) \in Nat
    BY NamesAssumption, FS_Subset, FS_CardinalityType
  <1> DEFINE n == Cardinality(names)
             f == [k \in 1..n |-> x]
  <1>2. f \in [1..n -> S]
    OBVIOUS
  <1> HIDE DEF n, f
  <1>3. f \in Seq(S)
    BY <1>1, <1>2, FunctionIsSeq DEF n
  <1> QED
    BY <1>3 DEF Repeat, f, n

-----------------------------------------------------------------------------
(* One line of the detectors that carry a state from line to line.         *)

Reports(rules, n) == Seq(At(rules, n))

MyBatisStates(n) == [inside : BOOLEAN, out : Reports(SqlRules, n)]

\* A line of a MyBatis mapper.
LEMMA MyBatisStep ==
  ASSUME NEW lines \in Seq(Text), NEW s \in MyBatisStates(Len(lines)), NEW i \in 1..Len(lines)
  PROVE  MyBatisLine(lines, s, i) \in MyBatisStates(Len(lines))
  <1> DEFINE n == Len(lines)
             A == At(SqlRules, n)
             t == Range(lines[i])
             inside == s.inside \/ "<select" \in t
             stays == inside /\ "</select>" \notin t
             out == IF inside /\ "${name}" \in t THEN Append(s.out, Candidate("sql", i)) ELSE s.out
  <1>1. n \in Nat /\ Candidate("sql", i) \in A
    <2>1. "sql" \in SqlRules
      BY DEF SqlRules
    <2> QED
      BY <2>1, OnePlace
  <1>2. s.out \in Seq(A)
    BY DEF MyBatisStates, Reports
  <1>3. stays \in BOOLEAN
    OBVIOUS
  <1>4. out \in Seq(A)
    <2>1. out \in {Append(s.out, Candidate("sql", i)), s.out}
      BY Zenon
    <2>2. Append(s.out, Candidate("sql", i)) \in Seq(A)
      <3> HIDE DEF A
      <3> QED
        BY <1>1, <1>2
    <2> HIDE DEF A, out
    <2> QED
      BY <1>2, <2>1, <2>2
  <1>5. MyBatisLine(lines, s, i) = [inside |-> stays, out |-> out]
    BY Zenon DEF MyBatisLine
  <1> HIDE DEF stays, out, A
  <1>6. MyBatisLine(lines, s, i) \in [inside : BOOLEAN, out : Seq(A)]
    BY <1>3, <1>4, <1>5
  <1> QED
    BY <1>6 DEF MyBatisStates, Reports, A

\* What DnsLine, IntegerLine and DecisionLine start from.
NoNames == [names |-> {}, inputs |-> {}, guarded |-> {}, out |-> <<>>]

NameStates(n) == [names : SUBSET Names, out : Reports(StatementRules, n)] \cup {NoNames}

\* Of either kind, such a state has a set of names and what it reports.
LEMMA NameStateTells ==
  ASSUME NEW n \in Nat, NEW s \in NameStates(n)
  PROVE  s.names \in SUBSET Names /\ s.out \in Reports(StatementRules, n)
  <1>1. <<>> \in Reports(StatementRules, n)
    BY DEF Reports
  <1> QED
    BY <1>1 DEF NameStates, NoNames

\* A statement, for the names that hold a resolved host.
LEMMA DnsStep ==
  ASSUME NEW suffix, NEW text \in Seq(Text), NEW s \in NameStates(Len(text)), NEW i \in 1..Len(text)
  PROVE  DnsLine(suffix, text, s, i) \in NameStates(Len(text))
  <1> DEFINE n == Len(text)
             A == At(StatementRules, n)
             w == Words(text[i])
             over == First({k \in 1 .. Len(w) - 1 : w[k] \in Names /\ w[k + 1] \in {"=", "+="}})
             new == Gets(w, {"resolve"})
             left == (IF StartsFunction(w, suffix) THEN {} ELSE s.names) \ (IF over > 0 THEN {w[over]} ELSE {})
             names == left \cup (IF new > 0 THEN {w[new]} ELSE {})
             decides == /\ "trusted" \in Range(w) /\ {"==", "!=", "equals"} \cap Range(w) # {}
                        /\ names \cap Range(w) # {}
             out == IF decides THEN Append(s.out, Candidate("dns", i)) ELSE s.out
  <1>1. n \in Nat /\ Candidate("dns", i) \in A /\ w \in Text
    <2>1. "dns" \in StatementRules
      BY DEF StatementRules
    <2> QED
      BY <2>1, OnePlace, WordsType
  <1>2. s.out \in Seq(A) /\ s.names \in SUBSET Names
    BY <1>1, NameStateTells DEF Reports
  <1>3. DnsLine(suffix, text, s, i) = [names |-> names, out |-> out]
    BY Zenon DEF DnsLine
  <1>4. names \in SUBSET Names
    <2> HIDE DEF w, over
    <2>1. left \in SUBSET Names
      BY <1>2
    <2> HIDE DEF left
    <2>2. new > 0 => w[new] \in Names
      BY <1>1, GetsTells
    <2> HIDE DEF new
    <2> QED
      BY <2>1, <2>2
  <1>5. out \in Seq(A)
    <2> HIDE DEF A, decides
    <2> QED
      BY <1>1, <1>2
  <1> HIDE DEF names, out, A
  <1>6. DnsLine(suffix, text, s, i) \in [names : SUBSET Names, out : Seq(A)]
    BY <1>3, <1>4, <1>5
  <1> QED
    BY <1>6 DEF NameStates, Reports, A

\* A statement, for the names that hold a decision.
LEMMA DecisionStep ==
  ASSUME NEW suffix, NEW text \in Seq(Text), NEW s \in NameStates(Len(text)), NEW i \in 1..Len(text)
  PROVE  DecisionLine(suffix, text, s, i) \in NameStates(Len(text))
  <1> DEFINE n == Len(text)
             A == At(StatementRules, n)
             w == Words(text[i])
             at == AssignmentAt(w)
             new == IF at > 0 /\ w[at] = "role" /\ "remote" \in Range(Clause(w, at + 2)) THEN {"role"} ELSE {}
             names == DecisionNames(w, suffix, s.names) \cup new
             checked == {m \in names : Validated(w, m)}
             used == {m \in names \ checked : /\ m \in Range(w) /\ ~(at > 0 /\ w[at] = m)
                                              /\ {"if", "return", "+", "==", "!="} \cap Range(w) # {}}
             left == (names \ checked) \ used
             out == s.out \o Repeat(Candidate("decision", i), Cardinality(used))
  <1>1. n \in Nat /\ Candidate("decision", i) \in A /\ w \in Text
    <2>1. "decision" \in StatementRules
      BY DEF StatementRules
    <2> QED
      BY <2>1, OnePlace, WordsType
  <1>2. s.out \in Seq(A) /\ s.names \in SUBSET Names
    BY <1>1, NameStateTells DEF Reports
  <1>3. DecisionLine(suffix, text, s, i) = [names |-> left, out |-> out]
    BY Zenon DEF DecisionLine
  <1>4. names \in SUBSET Names
    <2>1. new \in SUBSET Names
      <3> HIDE DEF w
      <3>1. at > 0 => w[at] \in Names
        BY <1>1, AssignmentTells
      <3> HIDE DEF at
      <3> QED
        BY <3>1
    <2>2. DecisionNames(w, suffix, s.names) \in SUBSET Names
      BY <1>2 DEF DecisionNames
    <2> HIDE DEF new, w
    <2> QED
      BY <2>1, <2>2
  <1> HIDE DEF names, w, at, A
  <1>5. used \in SUBSET Names /\ left \in SUBSET Names
    BY <1>4
  <1> HIDE DEF used, left
  <1>6. Repeat(Candidate("decision", i), Cardinality(used)) \in Seq(A)
    BY <1>1, <1>5, RepeatStays
  <1>7. out \in Seq(A)
    BY <1>2, <1>6
  <1> HIDE DEF out
  <1>8. DecisionLine(suffix, text, s, i) \in [names : SUBSET Names, out : Seq(A)]
    BY <1>3, <1>5, <1>7
  <1> QED
    BY <1>8 DEF NameStates, Reports, A

IntegerStates(n) == [inputs : SUBSET Names, guarded : SUBSET Names, out : Reports(StatementRules, n)] \cup {NoNames}

\* The same of the state of the numbers.
LEMMA IntegerStateTells ==
  ASSUME NEW n \in Nat, NEW s \in IntegerStates(n)
  PROVE  s.inputs \in SUBSET Names /\ s.guarded \in SUBSET Names /\ s.out \in Reports(StatementRules, n)
  <1>1. <<>> \in Reports(StatementRules, n)
    BY DEF Reports
  <1> QED
    BY <1>1 DEF IntegerStates, NoNames

\* A statement, for the names that hold a parsed number.
LEMMA IntegerStep ==
  ASSUME NEW suffix, NEW text \in Seq(Text), NEW s \in IntegerStates(Len(text)), NEW i \in 1..Len(text)
  PROVE  IntegerLine(suffix, text, s, i) \in IntegerStates(Len(text))
  <1> DEFINE n == Len(text)
             A == At(StatementRules, n)
             w == Words(text[i])
             new == StartsFunction(w, suffix)
             at == AssignmentAt(w)
             parsed == IF at > 0 /\ "parse" \in Range(Clause(w, at + 2)) THEN {w[at]} ELSE {}
             inputs == (IF new THEN {} ELSE s.inputs) \cup parsed
             guarded == (IF new THEN {} ELSE s.guarded) \cup {m \in inputs : Compared(w, m)}
             sized == {m \in inputs \ guarded : Sizes(w, m)}
             left == inputs \ sized
             out == s.out \o Repeat(Candidate("integer", i), Cardinality(sized))
  <1>1. n \in Nat /\ Candidate("integer", i) \in A /\ w \in Text
    <2>1. "integer" \in StatementRules
      BY DEF StatementRules
    <2> QED
      BY <2>1, OnePlace, WordsType
  <1>2. s.out \in Seq(A) /\ s.inputs \in SUBSET Names /\ s.guarded \in SUBSET Names
    BY <1>1, IntegerStateTells DEF Reports
  <1>3. IntegerLine(suffix, text, s, i) = [inputs |-> left, guarded |-> guarded, out |-> out]
    BY Zenon DEF IntegerLine
  <1>4. parsed \in SUBSET Names
    <2> HIDE DEF w
    <2>1. at > 0 => w[at] \in Names
      BY <1>1, AssignmentTells
    <2> HIDE DEF at
    <2> QED
      BY <2>1
  <1> HIDE DEF parsed, w, at, A, new
  <1>5. inputs \in SUBSET Names
    BY <1>2, <1>4
  <1> HIDE DEF inputs
  <1>6. guarded \in SUBSET Names /\ left \in SUBSET Names
    BY <1>2, <1>5
  <1> HIDE DEF guarded
  <1>7. sized \in SUBSET Names
    BY <1>5
  <1> HIDE DEF sized, left
  <1>8. Repeat(Candidate("integer", i), Cardinality(sized)) \in Seq(A)
    BY <1>1, <1>7, RepeatStays
  <1>9. out \in Seq(A)
    BY <1>2, <1>8
  <1> HIDE DEF out
  <1>10. IntegerLine(suffix, text, s, i) \in [inputs : SUBSET Names, guarded : SUBSET Names, out : Seq(A)]
    BY <1>3, <1>6, <1>9
  <1> QED
    BY <1>10 DEF IntegerStates, Reports, A

MemoryStates(n) == [freed : SUBSET Names, unset : SUBSET Names, out : Reports(MemoryRules, n)]

\* The first declaration of a statement is one of those it makes, and the only one
\* when it declares one name at most.
LEMMA DeclaredTells ==
  ASSUME NEW w \in Text
  PROVE  /\ Declared(w) \in SUBSET Names
         /\ Declared(w) = {} <=> DeclaredIn(w) = {}
         /\ (\A m, n \in DeclaredIn(w) : m = n) => Declared(w) = DeclaredIn(w)
  <1> DEFINE S == {k \in 1 .. Len(w) - 2 : w[k] = "type" /\ w[k + 1] \in Names /\ w[k + 2] = ";"}
             at == First(S)
  <1>1. Declared(w) = IF at = 0 THEN {} ELSE {w[at + 1]}
    BY Zenon DEF Declared
  <1>2. \A n \in Names : n \in DeclaredIn(w) <=> \E k \in S : w[k + 1] = n
    BY DEF DeclaredIn
  <1>3. DeclaredIn(w) \subseteq Names
    BY DEF DeclaredIn
  <1>4. S \in SUBSET Nat /\ \A k \in S : k # 0 /\ w[k + 1] \in Names
    <2>1. \A k \in S : k \in 1 .. Len(w) - 2 /\ w[k + 1] \in Names
      BY Zenon
    <2>2. \A k \in 1 .. Len(w) - 2 : k \in Nat /\ k # 0
      OBVIOUS
    <2> HIDE DEF S
    <2> QED
      BY <2>1, <2>2
  <1> HIDE DEF S
  <1>5. at \in S \cup {0} /\ (S # {} => at \in S)
    <2>1. at \in S \cup {0} /\ at \in Nat
      BY <1>4, FirstTells
    <2>2. S # {} => at \in S
      BY <1>4, MinOfSet DEF First
    <2> QED
      BY <2>1, <2>2
  <1> HIDE DEF at
  <1>6. CASE S = {}
    BY <1>1, <1>2, <1>3, <1>5, <1>6
  <1>7. CASE S # {}
    <2>1. at \in S /\ at # 0 /\ w[at + 1] \in Names
      BY <1>4, <1>5, <1>7
    <2>2. w[at + 1] \in DeclaredIn(w) /\ Declared(w) = {w[at + 1]}
      BY <1>1, <1>2, <2>1
    <2> QED
      BY <1>3, <2>1, <2>2
  <1> QED
    BY <1>6, <1>7

\* The same for what a statement frees.
LEMMA FreedTells ==
  ASSUME NEW w \in Text
  PROVE  /\ Freed(w) \in SUBSET Names
         /\ Freed(w) = {} <=> FreedIn(w) = {}
         /\ (\A m, n \in FreedIn(w) : m = n) => Freed(w) = FreedIn(w)
  <1> DEFINE S == {k \in 1 .. Len(w) - 4 : /\ w[k] = "free" /\ w[k + 1] = "(" /\ w[k + 2] \in Names
                                            /\ w[k + 3] = ")" /\ w[k + 4] = ";"}
             at == First(S)
  <1>1. Freed(w) = IF at = 0 THEN {} ELSE {w[at + 2]}
    BY Zenon DEF Freed
  <1>2. \A n \in Names : n \in FreedIn(w) <=> \E k \in S : w[k + 2] = n
    BY DEF FreedIn
  <1>3. FreedIn(w) \subseteq Names
    BY DEF FreedIn
  <1>4. S \in SUBSET Nat /\ \A k \in S : k # 0 /\ w[k + 2] \in Names
    <2>1. \A k \in S : k \in 1 .. Len(w) - 4 /\ w[k + 2] \in Names
      BY Zenon
    <2>2. \A k \in 1 .. Len(w) - 4 : k \in Nat /\ k # 0
      OBVIOUS
    <2> HIDE DEF S
    <2> QED
      BY <2>1, <2>2
  <1> HIDE DEF S
  <1>5. at \in S \cup {0} /\ (S # {} => at \in S)
    <2>1. at \in S \cup {0} /\ at \in Nat
      BY <1>4, FirstTells
    <2>2. S # {} => at \in S
      BY <1>4, MinOfSet DEF First
    <2> QED
      BY <2>1, <2>2
  <1> HIDE DEF at
  <1>6. CASE S = {}
    BY <1>1, <1>2, <1>3, <1>5, <1>6
  <1>7. CASE S # {}
    <2>1. at \in S /\ at # 0 /\ w[at + 2] \in Names
      BY <1>4, <1>5, <1>7
    <2>2. w[at + 2] \in FreedIn(w) /\ Freed(w) = {w[at + 2]}
      BY <1>1, <1>2, <2>1
    <2> QED
      BY <1>3, <2>1, <2>2
  <1> QED
    BY <1>6, <1>7

\* A statement, for memory that is unset or freed.
LEMMA MemoryStep ==
  ASSUME NEW suffix, NEW text \in Seq(Text), NEW s \in MemoryStates(Len(text)), NEW i \in 1..Len(text)
  PROVE  MemoryLine(suffix, text, s, i) \in MemoryStates(Len(text))
  <1> DEFINE n == Len(text)
             A == At(MemoryRules, n)
             M == [freed : SUBSET Names, unset : SUBSET Names, out : Seq(A)]
             w == Words(text[i])
             new == StartsFunction(w, suffix)
             freed == IF new THEN {} ELSE s.freed
             unset == IF new THEN {} ELSE s.unset
             read == {m \in unset : ~Rewrites(w, m) /\ ReadsValue(w, m)}
             used == {m \in freed : ~Rewrites(w, m) /\ m \in Range(w)}
             left == {m \in unset : ~Rewrites(w, m)} \ read
             out == s.out \o Repeat(Candidate("unset", i), Cardinality(read))
                          \o Repeat(Candidate("freed", i), Cardinality(used))
             declaring == [s EXCEPT !.freed = freed, !.unset = unset \cup Declared(w)]
             freeing == [s EXCEPT !.freed = freed \cup Freed(w), !.unset = unset]
             using == [freed |-> StillFreed(w, freed), unset |-> left, out |-> out]
  <1>1. n \in Nat /\ Candidate("unset", i) \in A /\ Candidate("freed", i) \in A /\ w \in Text
    <2>1. "unset" \in MemoryRules /\ "freed" \in MemoryRules
      BY DEF MemoryRules
    <2> QED
      BY <2>1, OnePlace, WordsType
  <1>2. s \in M
    BY DEF MemoryStates, Reports
  <1>3. MemoryLine(suffix, text, s, i) \in {declaring, freeing, using}
    BY Zenon DEF MemoryLine
  <1> HIDE DEF A, w
  <1>4. freed \in SUBSET Names /\ unset \in SUBSET Names /\ s.out \in Seq(A)
    <2> HIDE DEF new
    <2> QED
      BY <1>2
  <1>5. Declared(w) \in SUBSET Names
    BY <1>1, DeclaredTells
  <1>6. Freed(w) \in SUBSET Names
    BY <1>1, FreedTells
  <1> HIDE DEF freed, unset
  <1>7. declaring \in M
    BY <1>2, <1>4, <1>5
  <1>8. freeing \in M
    BY <1>2, <1>4, <1>6
  <1>9. using \in M
    <2>1. read \in SUBSET Names /\ used \in SUBSET Names /\ left \in SUBSET Names
      BY <1>4
    <2> HIDE DEF read, used, left
    <2>2. /\ Repeat(Candidate("unset", i), Cardinality(read)) \in Seq(A)
          /\ Repeat(Candidate("freed", i), Cardinality(used)) \in Seq(A)
      BY <1>1, <2>1, RepeatStays
    <2>3. out \in Seq(A)
      BY <1>4, <2>2
    <2>4. StillFreed(w, freed) \in SUBSET Names
      BY <1>4 DEF StillFreed
    <2> HIDE DEF out
    <2> QED
      BY <2>1, <2>3, <2>4
  <1> HIDE DEF declaring, freeing, using
  <1>10. MemoryLine(suffix, text, s, i) \in M
    BY <1>3, <1>7, <1>8, <1>9
  <1> QED
    BY <1>10 DEF MemoryStates, Reports, A

\* What a method holds, at most at its lines.
Holdings(n) == [name : Names, line : 1..n, closed : 0..n, wrapped : BOOLEAN]

ResourceStates(n) == [held : Seq(Holdings(n)), start : Nat, out : Reports(ReleaseRules, n)]

\* A resource that is not released is reported where it was acquired.
LEMMA UnreleasedPlaces ==
  ASSUME NEW text, NEW n \in Nat, NEW s \in ResourceStates(n), NEW end
  PROVE  Unreleased(text, s, end) \in Reports(ReleaseRules, n)
  <1> DEFINE A == At(ReleaseRules, n)
             f == [k \in DOMAIN s.held |-> IF Unsettled(text, s.start, end, s.held[k])
                                           THEN <<Candidate("release", s.held[k].line)>> ELSE <<>>]
  <1>1. s.held \in Seq(Holdings(n)) /\ "release" \in ReleaseRules
    BY DEF ResourceStates, ReleaseRules
  <1>2. ASSUME NEW k \in DOMAIN s.held PROVE f[k] \in Seq(A)
    <2>1. s.held[k].line \in 1..n
      <3>1. s.held[k] \in Holdings(n)
        BY <1>1
      <3> QED
        BY <3>1 DEF Holdings
    <2>2. Candidate("release", s.held[k].line) \in A
      BY <1>1, <2>1, OnePlace
    <2>3. f[k] \in {<<>>, <<Candidate("release", s.held[k].line)>>}
      BY Zenon
    <2> HIDE DEF A
    <2>4. <<Candidate("release", s.held[k].line)>> \in Seq(A) /\ <<>> \in Seq(A)
      BY <2>2
    <2> HIDE DEF f
    <2> QED
      BY <2>3, <2>4
  <1>3. f = [k \in DOMAIN s.held |-> f[k]]
    BY Zenon
  <1>4. Unreleased(text, s, end) = FlattenSeq(f)
    BY Zenon DEF Unreleased
  <1> HIDE DEF A, f
  <1>5. f \in [DOMAIN s.held -> Seq(A)]
    BY <1>2, <1>3
  <1>6. FlattenSeq(f) \in Seq(A)
    BY <1>1, <1>5, GatheredStays
  <1> QED
    BY <1>4, <1>6 DEF Reports, A

\* A statement that acquires a resource adds it to those that are held.
LEMMA AcquireType ==
  ASSUME NEW n \in Nat, NEW held \in Seq(Holdings(n)), NEW name \in Names, NEW i \in 1..n
  PROVE  Acquire(held, name, i) \in Seq(Holdings(n))
  <1> DEFINE H == Holdings(n)
             again == [k \in DOMAIN held |->
                                         IF held[k].name = name THEN [held[k] EXCEPT !.line = i, !.closed = 0] ELSE held[k]]
             new == [name |-> name, line |-> i, closed |-> 0, wrapped |-> FALSE]
  <1>1. ASSUME NEW k \in DOMAIN held PROVE again[k] \in H
    <2>1. held[k] \in H
      OBVIOUS
    <2>2. [held[k] EXCEPT !.line = i, !.closed = 0] \in H
      <3>1. 0 \in 0..n
        OBVIOUS
      <3> QED
        BY <2>1, <3>1 DEF Holdings
    <2> HIDE DEF H
    <2> QED
      BY <2>1, <2>2
  <1>2. new \in H
    BY DEF Holdings
  <1>3. Acquire(held, name, i) \in {again, Append(held, new)}
    BY Zenon DEF Acquire
  <1>4. again = [k \in DOMAIN held |-> again[k]] /\ DOMAIN held = 1..Len(held) /\ Len(held) \in Nat
    OBVIOUS
  <1> HIDE DEF again, new, H
  <1>5. again \in [1..Len(held) -> H]
    BY <1>1, <1>4
  <1>6. again \in Seq(H)
    BY <1>4, <1>5, FunctionIsSeq
  <1>7. Append(held, new) \in Seq(H)
    BY <1>2 DEF H
  <1>8. Acquire(held, name, i) \in Seq(H)
    BY <1>3, <1>6, <1>7
  <1> QED
    BY <1>8 DEF H

\* The next method begins at a statement after this one, or at none.
LEMMA NextMethodType ==
  ASSUME NEW suffix, NEW text, NEW n \in Nat, NEW s \in ResourceStates(n), NEW i \in 1..n
  PROVE  NextMethod(suffix, text, s, i) \in ResourceStates(n)
  <1> DEFINE next == [held |-> <<>>, start |-> i, out |-> s.out \o Unreleased(text, s, i)]
  <1>1. next \in ResourceStates(n)
    <2>1. Unreleased(text, s, i) \in Reports(ReleaseRules, n)
      BY UnreleasedPlaces
    <2>2. s.out \o Unreleased(text, s, i) \in Reports(ReleaseRules, n)
      <3> DEFINE A == At(ReleaseRules, n)
      <3>1. s.out \in Seq(A) /\ Unreleased(text, s, i) \in Seq(A)
        BY <2>1 DEF ResourceStates, Reports
      <3> HIDE DEF A
      <3>2. s.out \o Unreleased(text, s, i) \in Seq(A)
        BY <3>1
      <3> QED
        BY <3>2 DEF Reports, A
    <2>3. <<>> \in Seq(Holdings(n)) /\ i \in Nat
      OBVIOUS
    <2> QED
      BY <2>2, <2>3 DEF ResourceStates
  <1>2. NextMethod(suffix, text, s, i) \in {next, s}
    BY Zenon DEF NextMethod
  <1> HIDE DEF next
  <1> QED
    BY <1>1, <1>2

\* A statement, for the resources a method holds.
LEMMA ResourceStep ==
  ASSUME NEW suffix, NEW text \in Seq(Text), NEW s \in ResourceStates(Len(text)), NEW i \in 1..Len(text)
  PROVE  ResourceLine(suffix, text, s, i) \in ResourceStates(Len(text))
  <1> DEFINE n == Len(text)
             H == Holdings(n)
             w == Words(text[i])
             m == NextMethod(suffix, text, s, i)
             at == Gets(w, Constructors)
             taken == IF at = 0 \/ "console" \in Range(w) THEN m.held ELSE Acquire(m.held, w[at], i)
             wraps(k) == taken[k].wrapped \/ (at > 0 /\ Wraps(w, w[at], taken[k].name))
             closed(k) == IF Closes(w, taken[k].name) THEN i ELSE taken[k].closed
             now == [k \in DOMAIN taken |-> [taken[k] EXCEPT !.wrapped = wraps(k), !.closed = closed(k)]]
  <1>1. n \in Nat /\ w \in Text /\ m \in ResourceStates(n)
    BY WordsType, NextMethodType
  <1>2. m.held \in Seq(H)
    BY <1>1 DEF ResourceStates
  <1>3. at \in Nat /\ (at > 0 => w[at] \in Names)
    <2> DEFINE S == {k \in 1 .. Len(w) - 1 : /\ w[k] \in Names /\ w[k + 1] \in {"=", "=="}
                                              /\ Range(Clause(w, k)) \cap Constructors # {}}
    <2> HIDE DEF w
    <2>1. S \in SUBSET Nat
      BY <1>1 DEF Text
    <2>2. at = First(S)
      BY Zenon DEF Gets
    <2> HIDE DEF S
    <2>3. at \in Nat
      BY <2>1, <2>2, FirstTells
    <2>4. at > 0 => w[at] \in Names
      BY <1>1, GetsTells
    <2> QED
      BY <2>3, <2>4
  <1>4. taken \in Seq(H)
    <2>1. at # 0 => Acquire(m.held, w[at], i) \in Seq(H)
      <3> HIDE DEF m, at, w
      <3>1. at # 0 => w[at] \in Names
        BY <1>3
      <3> QED
        BY <1>1, <1>2, <3>1, AcquireType
    <2> HIDE DEF H, at, m, w
    <2> QED
      BY <1>2, <2>1
  <1>5. ResourceLine(suffix, text, s, i) = [m EXCEPT !.held = now]
    BY Zenon DEF ResourceLine
  <1> HIDE DEF taken, m, at, w
  <1>6. ASSUME NEW k \in DOMAIN taken PROVE now[k] \in H
    <2>1. taken[k] \in H
      BY <1>4
    <2>2. wraps(k) \in BOOLEAN
      <3>1. taken[k].wrapped \in BOOLEAN
        BY <2>1 DEF Holdings
      <3> QED
        BY <3>1
    <2>3. closed(k) \in 0..n
      <3>1. taken[k].closed \in 0..n /\ i \in 0..n
        BY <1>1, <2>1 DEF Holdings
      <3> QED
        BY <3>1
    <2>4. now[k] = [taken[k] EXCEPT !.wrapped = wraps(k), !.closed = closed(k)]
      BY Zenon
    <2> HIDE DEF wraps, closed, now
    <2> QED
      BY <2>1, <2>2, <2>3, <2>4 DEF Holdings
  <1>7. now = [k \in DOMAIN taken |-> now[k]] /\ DOMAIN taken = 1..Len(taken) /\ Len(taken) \in Nat
    <2>1. now = [k \in DOMAIN taken |-> now[k]]
      BY Zenon
    <2> HIDE DEF now, H
    <2> QED
      BY <1>4, <2>1
  <1> HIDE DEF now, H
  <1>8. now \in Seq(H)
    <2>1. now \in [1..Len(taken) -> H]
      BY <1>6, <1>7
    <2> QED
      BY <1>7, <2>1, FunctionIsSeq
  <1> QED
    BY <1>1, <1>5, <1>8 DEF ResourceStates, H

(* A fold whose steps stay among the values ends among them.               *)
LEMMA FoldStays ==
  ASSUME NEW V, NEW E, NEW f, NEW base, NEW seq, NEW iter,
         Foldable(V, E, f, base, seq), Recurs(V, f, base, seq, iter)
  PROVE  iter[DOMAIN seq] \in V
  <1>1. Len(seq) \in Nat
    BY DEF Foldable
  <1>2. PICK F : Chain(V, f, base, seq, F) /\ F[Len(seq)] = iter[DOMAIN seq]
    BY ChainExists
  <1> QED
    BY <1>1, <1>2 DEF Chain

\* The places of a text, in order.
LEMMA NumberedType ==
  ASSUME NEW S, NEW text \in Seq(S)
  PROVE  Numbered(text) \in Seq(1..Len(text))
  BY DEF Numbered

MyBatisEnd(lines) == FoldLeft(LAMBDA s, i : MyBatisLine(lines, s, i),
    [inside |-> FALSE, out |-> <<>>], Numbered(lines))

\* Each of these folds ends in a state of its kind.
LEMMA MyBatisEndType ==
  ASSUME NEW lines \in Seq(Text)
  PROVE  MyBatisEnd(lines) \in MyBatisStates(Len(lines))
  <1> DEFINE start == [inside |-> FALSE, out |-> <<>>]
             seq == Numbered(lines)
             Op(v, e) == MyBatisLine(lines, v, e)
             f == [p \in MyBatisStates(Len(lines)) \X (1..Len(lines)) |-> Op(p[1], p[2])]
             Solves(it) == it = [x \in SUBSET DOMAIN seq |->
                                   IF x = {} THEN start ELSE Op(it[x \ {Max(x)}], seq[Max(x)])]
             iter == CHOOSE it : Solves(it)
  <1>1. seq \in Seq(1..Len(lines))
    BY NumberedType
  <1>2. start \in MyBatisStates(Len(lines))
    BY DEF MyBatisStates, Reports
  <1>3. iter[DOMAIN seq] = MyBatisEnd(lines)
    BY Zenon DEF MyBatisEnd, FoldLeft, MapThenFoldSet
  <1>4. \A v \in MyBatisStates(Len(lines)), e \in 1..Len(lines) : Op(v, e) \in MyBatisStates(Len(lines))
    BY MyBatisStep
  <1>5. \A v \in MyBatisStates(Len(lines)), e \in 1..Len(lines) : f[<<v, e>>] = Op(v, e)
    BY <1>4
  <1>6. Foldable(MyBatisStates(Len(lines)), 1..Len(lines), f, start, seq)
    BY <1>1, <1>2, <1>4 DEF Foldable
  <1> HIDE DEF start, seq, Op, f
  <1>7. PICK it : Solution(MyBatisStates(Len(lines)), 1..Len(lines), f, start, seq, it)
    BY <1>6, SolutionExists
  <1>8. Solves(iter)
    <2>1. Solves(it)
      BY <1>5, <1>7 DEF Solution
    <2> HIDE DEF Solves
    <2> QED
      BY <2>1
  <1> HIDE DEF iter
  <1>9. Recurs(MyBatisStates(Len(lines)), f, start, seq, iter)
    <2>1. PICK b : b = start
      OBVIOUS
    <2>2. iter = [x \in SUBSET DOMAIN seq |-> IF x = {} THEN b ELSE Op(iter[x \ {Max(x)}], seq[Max(x)])]
      BY <1>8, <2>1
    <2>3. ASSUME NEW x \in SUBSET DOMAIN seq, x # {} PROVE seq[Max(x)] \in 1..Len(lines)
      BY <1>7, <2>3 DEF Solution
    <2> QED
      BY <1>5, <2>1, <2>2, <2>3 DEF Recurs
  <1> QED
    BY <1>3, <1>6, <1>9, FoldStays

DnsEnd(suffix, text) == FoldLeft(LAMBDA s, i : DnsLine(suffix, text, s, i), NoNames, Numbered(text))

\* So does the fold over the statements for the names of a resolved host.
LEMMA DnsEndType ==
  ASSUME NEW suffix, NEW text \in Seq(Text)
  PROVE  DnsEnd(suffix, text) \in NameStates(Len(text))
  <1> DEFINE start == NoNames
             seq == Numbered(text)
             Op(v, e) == DnsLine(suffix, text, v, e)
             f == [p \in NameStates(Len(text)) \X (1..Len(text)) |-> Op(p[1], p[2])]
             Solves(it) == it = [x \in SUBSET DOMAIN seq |->
                                   IF x = {} THEN start ELSE Op(it[x \ {Max(x)}], seq[Max(x)])]
             iter == CHOOSE it : Solves(it)
  <1>1. seq \in Seq(1..Len(text))
    BY NumberedType
  <1>2. start \in NameStates(Len(text))
    BY DEF NameStates
  <1>3. iter[DOMAIN seq] = DnsEnd(suffix, text)
    BY Zenon DEF DnsEnd, FoldLeft, MapThenFoldSet
  <1>4. \A v \in NameStates(Len(text)), e \in 1..Len(text) : Op(v, e) \in NameStates(Len(text))
    BY DnsStep
  <1>5. \A v \in NameStates(Len(text)), e \in 1..Len(text) : f[<<v, e>>] = Op(v, e)
    BY <1>4
  <1>6. Foldable(NameStates(Len(text)), 1..Len(text), f, start, seq)
    BY <1>1, <1>2, <1>4 DEF Foldable
  <1> HIDE DEF start, seq, Op, f
  <1>7. PICK it : Solution(NameStates(Len(text)), 1..Len(text), f, start, seq, it)
    BY <1>6, SolutionExists
  <1>8. Solves(iter)
    <2>1. Solves(it)
      BY <1>5, <1>7 DEF Solution
    <2> HIDE DEF Solves
    <2> QED
      BY <2>1
  <1> HIDE DEF iter
  <1>9. Recurs(NameStates(Len(text)), f, start, seq, iter)
    <2>1. PICK b : b = start
      OBVIOUS
    <2>2. iter = [x \in SUBSET DOMAIN seq |-> IF x = {} THEN b ELSE Op(iter[x \ {Max(x)}], seq[Max(x)])]
      BY <1>8, <2>1
    <2>3. ASSUME NEW x \in SUBSET DOMAIN seq, x # {} PROVE seq[Max(x)] \in 1..Len(text)
      BY <1>7, <2>3 DEF Solution
    <2> QED
      BY <1>5, <2>1, <2>2, <2>3 DEF Recurs
  <1> QED
    BY <1>3, <1>6, <1>9, FoldStays

IntegerEnd(suffix, text) == FoldLeft(LAMBDA s, i : IntegerLine(suffix, text, s, i), NoNames, Numbered(text))

\* The one for parsed numbers.
LEMMA IntegerEndType ==
  ASSUME NEW suffix, NEW text \in Seq(Text)
  PROVE  IntegerEnd(suffix, text) \in IntegerStates(Len(text))
  <1> DEFINE start == NoNames
             seq == Numbered(text)
             Op(v, e) == IntegerLine(suffix, text, v, e)
             f == [p \in IntegerStates(Len(text)) \X (1..Len(text)) |-> Op(p[1], p[2])]
             Solves(it) == it = [x \in SUBSET DOMAIN seq |->
                                   IF x = {} THEN start ELSE Op(it[x \ {Max(x)}], seq[Max(x)])]
             iter == CHOOSE it : Solves(it)
  <1>1. seq \in Seq(1..Len(text))
    BY NumberedType
  <1>2. start \in IntegerStates(Len(text))
    BY DEF IntegerStates
  <1>3. iter[DOMAIN seq] = IntegerEnd(suffix, text)
    BY Zenon DEF IntegerEnd, FoldLeft, MapThenFoldSet
  <1>4. \A v \in IntegerStates(Len(text)), e \in 1..Len(text) : Op(v, e) \in IntegerStates(Len(text))
    BY IntegerStep
  <1>5. \A v \in IntegerStates(Len(text)), e \in 1..Len(text) : f[<<v, e>>] = Op(v, e)
    BY <1>4
  <1>6. Foldable(IntegerStates(Len(text)), 1..Len(text), f, start, seq)
    BY <1>1, <1>2, <1>4 DEF Foldable
  <1> HIDE DEF start, seq, Op, f
  <1>7. PICK it : Solution(IntegerStates(Len(text)), 1..Len(text), f, start, seq, it)
    BY <1>6, SolutionExists
  <1>8. Solves(iter)
    <2>1. Solves(it)
      BY <1>5, <1>7 DEF Solution
    <2> HIDE DEF Solves
    <2> QED
      BY <2>1
  <1> HIDE DEF iter
  <1>9. Recurs(IntegerStates(Len(text)), f, start, seq, iter)
    <2>1. PICK b : b = start
      OBVIOUS
    <2>2. iter = [x \in SUBSET DOMAIN seq |-> IF x = {} THEN b ELSE Op(iter[x \ {Max(x)}], seq[Max(x)])]
      BY <1>8, <2>1
    <2>3. ASSUME NEW x \in SUBSET DOMAIN seq, x # {} PROVE seq[Max(x)] \in 1..Len(text)
      BY <1>7, <2>3 DEF Solution
    <2> QED
      BY <1>5, <2>1, <2>2, <2>3 DEF Recurs
  <1> QED
    BY <1>3, <1>6, <1>9, FoldStays

DecisionEnd(suffix, text) == FoldLeft(LAMBDA s, i : DecisionLine(suffix, text, s, i), NoNames, Numbered(text))

\* The one for decisions.
LEMMA DecisionEndType ==
  ASSUME NEW suffix, NEW text \in Seq(Text)
  PROVE  DecisionEnd(suffix, text) \in NameStates(Len(text))
  <1> DEFINE start == NoNames
             seq == Numbered(text)
             Op(v, e) == DecisionLine(suffix, text, v, e)
             f == [p \in NameStates(Len(text)) \X (1..Len(text)) |-> Op(p[1], p[2])]
             Solves(it) == it = [x \in SUBSET DOMAIN seq |->
                                   IF x = {} THEN start ELSE Op(it[x \ {Max(x)}], seq[Max(x)])]
             iter == CHOOSE it : Solves(it)
  <1>1. seq \in Seq(1..Len(text))
    BY NumberedType
  <1>2. start \in NameStates(Len(text))
    BY DEF NameStates
  <1>3. iter[DOMAIN seq] = DecisionEnd(suffix, text)
    BY Zenon DEF DecisionEnd, FoldLeft, MapThenFoldSet
  <1>4. \A v \in NameStates(Len(text)), e \in 1..Len(text) : Op(v, e) \in NameStates(Len(text))
    BY DecisionStep
  <1>5. \A v \in NameStates(Len(text)), e \in 1..Len(text) : f[<<v, e>>] = Op(v, e)
    BY <1>4
  <1>6. Foldable(NameStates(Len(text)), 1..Len(text), f, start, seq)
    BY <1>1, <1>2, <1>4 DEF Foldable
  <1> HIDE DEF start, seq, Op, f
  <1>7. PICK it : Solution(NameStates(Len(text)), 1..Len(text), f, start, seq, it)
    BY <1>6, SolutionExists
  <1>8. Solves(iter)
    <2>1. Solves(it)
      BY <1>5, <1>7 DEF Solution
    <2> HIDE DEF Solves
    <2> QED
      BY <2>1
  <1> HIDE DEF iter
  <1>9. Recurs(NameStates(Len(text)), f, start, seq, iter)
    <2>1. PICK b : b = start
      OBVIOUS
    <2>2. iter = [x \in SUBSET DOMAIN seq |-> IF x = {} THEN b ELSE Op(iter[x \ {Max(x)}], seq[Max(x)])]
      BY <1>8, <2>1
    <2>3. ASSUME NEW x \in SUBSET DOMAIN seq, x # {} PROVE seq[Max(x)] \in 1..Len(text)
      BY <1>7, <2>3 DEF Solution
    <2> QED
      BY <1>5, <2>1, <2>2, <2>3 DEF Recurs
  <1> QED
    BY <1>3, <1>6, <1>9, FoldStays

MemoryEnd(suffix, text) == FoldLeft(LAMBDA s, i : MemoryLine(suffix, text, s, i),
    [freed |-> {}, unset |-> {}, out |-> <<>>], Numbered(text))

\* The walk over the statements of a file for memory, one by one.
LEMMA MemoryTells ==
  ASSUME NEW suffix, NEW text \in Seq(Text)
  PROVE  \E F \in [0..Len(text) -> MemoryStates(Len(text))] :
           /\ F[0] = [freed |-> {}, unset |-> {}, out |-> <<>>]
           /\ \A k \in 1..Len(text) : F[k] = MemoryLine(suffix, text, F[k - 1], k)
           /\ F[Len(text)] = MemoryEnd(suffix, text)
  <1> DEFINE start == [freed |-> {}, unset |-> {}, out |-> <<>>]
             N == Len(text)
             V == MemoryStates(Len(text))
             E == 1..Len(text)
             seq == Numbered(text)
             Op(v, e) == MemoryLine(suffix, text, v, e)
             f == [p \in V \X E |-> Op(p[1], p[2])]
             Solves(it) == it = [x \in SUBSET DOMAIN seq |->
                                   IF x = {} THEN start ELSE Op(it[x \ {Max(x)}], seq[Max(x)])]
             iter == CHOOSE it : Solves(it)
  <1>1. N \in Nat /\ seq \in Seq(E) /\ Len(seq) = N /\ \A k \in 1..N : seq[k] = k
    BY NumberedType DEF Numbered
  <1>2. start \in V
    BY DEF MemoryStates, Reports
  <1>3. iter[DOMAIN seq] = MemoryEnd(suffix, text)
    BY Zenon DEF MemoryEnd, FoldLeft, MapThenFoldSet
  <1>4. \A v \in V, e \in E : Op(v, e) \in V
    BY MemoryStep
  <1>5. \A v \in V, e \in E : f[<<v, e>>] = Op(v, e)
    OBVIOUS
  <1>6. Foldable(V, E, f, start, seq)
    BY <1>1, <1>2, <1>4 DEF Foldable
  <1> HIDE DEF start, Op, f, N, V, E, seq
  <1>7. PICK it : Solution(V, E, f, start, seq, it)
    BY <1>6, SolutionExists
  <1>8. Solves(it)
    BY <1>5, <1>7 DEF Solution
  <1>9. Solves(iter)
    <2> HIDE DEF Solves
    <2> QED
      BY <1>8
  <1> HIDE DEF iter
  <1>10. Recurs(V, f, start, seq, iter)
    <2>1. PICK b : b = start
      OBVIOUS
    <2>2. iter = [x \in SUBSET DOMAIN seq |-> IF x = {} THEN b ELSE Op(iter[x \ {Max(x)}], seq[Max(x)])]
      BY <1>9, <2>1
    <2>3. ASSUME NEW x \in SUBSET DOMAIN seq, x # {} PROVE seq[Max(x)] \in E
      BY <1>7, <2>3 DEF Solution
    <2> QED
      BY <1>5, <2>1, <2>2, <2>3 DEF Recurs
  <1>11. PICK F : Chain(V, f, start, seq, F) /\ F[Len(seq)] = iter[DOMAIN seq]
    BY <1>6, <1>10, ChainExists
  <1>12. F \in [0..N -> V] /\ F[0] = start /\ F[N] = MemoryEnd(suffix, text)
    BY <1>1, <1>3, <1>11 DEF Chain
  <1>13. ASSUME NEW k \in 1..N PROVE F[k] = Op(F[k - 1], seq[k])
    <2>1. k - 1 \in 0..N /\ seq[k] \in E
      BY <1>1
    <2>2. F[k - 1] \in V
      BY <1>12, <2>1
    <2>3. F[k] = f[<<F[k - 1], seq[k]>>]
      BY <1>1, <1>11, <2>1 DEF Chain
    <2> QED
      BY <1>5, <2>1, <2>2, <2>3
  <1>14. \A k \in 1..N : F[k] = Op(F[k - 1], k)
    BY <1>1, <1>13
  <1> QED
    BY <1>12, <1>14 DEF Op, start, N, V

\* So it ends in a state of its kind.
LEMMA MemoryEndType ==
  ASSUME NEW suffix, NEW text \in Seq(Text)
  PROVE  MemoryEnd(suffix, text) \in MemoryStates(Len(text))
  <1>1. PICK F \in [0..Len(text) -> MemoryStates(Len(text))] :
           /\ F[0] = [freed |-> {}, unset |-> {}, out |-> <<>>]
           /\ \A k \in 1..Len(text) : F[k] = MemoryLine(suffix, text, F[k - 1], k)
           /\ F[Len(text)] = MemoryEnd(suffix, text)
    BY MemoryTells, Zenon
  <1> QED
    BY <1>1

ResourceEnd(suffix, text) == FoldLeft(LAMBDA s, i : ResourceLine(suffix, text, s, i),
    [held |-> <<>>, start |-> 1, out |-> <<>>], Numbered(text))

\* The walk over the statements of a file for resources, one by one.
LEMMA ResourceTells ==
  ASSUME NEW suffix, NEW text \in Seq(Text)
  PROVE  \E F \in [0..Len(text) -> ResourceStates(Len(text))] :
           /\ F[0] = [held |-> <<>>, start |-> 1, out |-> <<>>]
           /\ \A k \in 1..Len(text) : F[k] = ResourceLine(suffix, text, F[k - 1], k)
           /\ F[Len(text)] = ResourceEnd(suffix, text)
  <1> DEFINE start == [held |-> <<>>, start |-> 1, out |-> <<>>]
             N == Len(text)
             V == ResourceStates(Len(text))
             E == 1..Len(text)
             seq == Numbered(text)
             Op(v, e) == ResourceLine(suffix, text, v, e)
             f == [p \in V \X E |-> Op(p[1], p[2])]
             Solves(it) == it = [x \in SUBSET DOMAIN seq |->
                                   IF x = {} THEN start ELSE Op(it[x \ {Max(x)}], seq[Max(x)])]
             iter == CHOOSE it : Solves(it)
  <1>1. N \in Nat /\ seq \in Seq(E) /\ Len(seq) = N /\ \A k \in 1..N : seq[k] = k
    BY NumberedType DEF Numbered
  <1>2. start \in V
    BY DEF ResourceStates, Reports
  <1>3. iter[DOMAIN seq] = ResourceEnd(suffix, text)
    BY Zenon DEF ResourceEnd, FoldLeft, MapThenFoldSet
  <1>4. \A v \in V, e \in E : Op(v, e) \in V
    BY ResourceStep
  <1>5. \A v \in V, e \in E : f[<<v, e>>] = Op(v, e)
    OBVIOUS
  <1>6. Foldable(V, E, f, start, seq)
    BY <1>1, <1>2, <1>4 DEF Foldable
  <1> HIDE DEF start, Op, f, N, V, E, seq
  <1>7. PICK it : Solution(V, E, f, start, seq, it)
    BY <1>6, SolutionExists
  <1>8. Solves(it)
    BY <1>5, <1>7 DEF Solution
  <1>9. Solves(iter)
    <2> HIDE DEF Solves
    <2> QED
      BY <1>8
  <1> HIDE DEF iter
  <1>10. Recurs(V, f, start, seq, iter)
    <2>1. PICK b : b = start
      OBVIOUS
    <2>2. iter = [x \in SUBSET DOMAIN seq |-> IF x = {} THEN b ELSE Op(iter[x \ {Max(x)}], seq[Max(x)])]
      BY <1>9, <2>1
    <2>3. ASSUME NEW x \in SUBSET DOMAIN seq, x # {} PROVE seq[Max(x)] \in E
      BY <1>7, <2>3 DEF Solution
    <2> QED
      BY <1>5, <2>1, <2>2, <2>3 DEF Recurs
  <1>11. PICK F : Chain(V, f, start, seq, F) /\ F[Len(seq)] = iter[DOMAIN seq]
    BY <1>6, <1>10, ChainExists
  <1>12. F \in [0..N -> V] /\ F[0] = start /\ F[N] = ResourceEnd(suffix, text)
    BY <1>1, <1>3, <1>11 DEF Chain
  <1>13. ASSUME NEW k \in 1..N PROVE F[k] = Op(F[k - 1], seq[k])
    <2>1. k - 1 \in 0..N /\ seq[k] \in E
      BY <1>1
    <2>2. F[k - 1] \in V
      BY <1>12, <2>1
    <2>3. F[k] = f[<<F[k - 1], seq[k]>>]
      BY <1>1, <1>11, <2>1 DEF Chain
    <2> QED
      BY <1>5, <2>1, <2>2, <2>3
  <1>14. \A k \in 1..N : F[k] = Op(F[k - 1], k)
    BY <1>1, <1>13
  <1> QED
    BY <1>12, <1>14 DEF Op, start, N, V

\* So it ends in a state of its kind.
LEMMA ResourceEndType ==
  ASSUME NEW suffix, NEW text \in Seq(Text)
  PROVE  ResourceEnd(suffix, text) \in ResourceStates(Len(text))
  <1>1. PICK F \in [0..Len(text) -> ResourceStates(Len(text))] :
           /\ F[0] = [held |-> <<>>, start |-> 1, out |-> <<>>]
           /\ \A k \in 1..Len(text) : F[k] = ResourceLine(suffix, text, F[k - 1], k)
           /\ F[Len(text)] = ResourceEnd(suffix, text)
    BY ResourceTells, Zenon
  <1> QED
    BY <1>1

\* The detectors that carry a state report lines of their text.
LEMMA MyBatisPlaces ==
  ASSUME NEW suffix, NEW lines \in Seq(Text)
  PROVE  MyBatisFindings(suffix, lines) \in Reports(SqlRules, Len(lines))
  <1> DEFINE s == MyBatisEnd(lines)
             c == suffix = "xml" /\ \E i \in DOMAIN lines : "<mapper" \in Range(lines[i])
  <1>1. s.out \in Reports(SqlRules, Len(lines)) /\ <<>> \in Reports(SqlRules, Len(lines))
    <2>1. s \in MyBatisStates(Len(lines))
      BY MyBatisEndType
    <2> HIDE DEF s
    <2> QED
      BY <2>1 DEF MyBatisStates, Reports
  <1>2. MyBatisFindings(suffix, lines) = IF c THEN s.out ELSE <<>>
    BY Zenon DEF MyBatisFindings, MyBatisEnd
  <1>3. MyBatisFindings(suffix, lines) \in {s.out, <<>>}
    BY <1>2, Zenon
  <1> QED
    BY <1>1, <1>3, Zenon

\* The resources of the last method are reported like the others.
LEMMA ResourcePlaces ==
  ASSUME NEW suffix, NEW text \in Seq(Text)
  PROVE  ResourceFindings(suffix, text) \in Reports(ReleaseRules, Len(text))
  <1> DEFINE n == Len(text)
             s == ResourceEnd(suffix, text)
             rest == Unreleased(text, s, n + 1)
  <1>1. ResourceFindings(suffix, text) = s.out \o rest
    BY Zenon DEF ResourceFindings, ResourceEnd
  <1>2. s \in ResourceStates(Len(text))
    BY ResourceEndType
  <1>5. n \in Nat
    OBVIOUS
  <1> HIDE DEF s, n
  <1>3. rest \in Reports(ReleaseRules, n) /\ s.out \in Reports(ReleaseRules, n)
    BY <1>2, <1>5, UnreleasedPlaces DEF ResourceStates, n
  <1> HIDE DEF rest
  <1>4. s.out \o rest \in Reports(ReleaseRules, n)
    <2> DEFINE A == At(ReleaseRules, n)
    <2>1. s.out \in Seq(A) /\ rest \in Seq(A)
      BY <1>3 DEF Reports
    <2> HIDE DEF A
    <2>2. s.out \o rest \in Seq(A)
      BY <2>1
    <2> QED
      BY <2>2 DEF Reports, A
  <1> QED
    BY <1>1, <1>4 DEF n

\* All the detectors of the statements.
LEMMA SemanticPlaces ==
  ASSUME NEW suffix, NEW text \in Seq(Text)
  PROVE  SemanticFindings(suffix, text) \in Reports(SemanticRules, Len(text))
  <1> DEFINE n == Len(text)
             S == At(SemanticRules, n)
             dns == DnsEnd(suffix, text)
             integer == IntegerEnd(suffix, text)
             decision == DecisionEnd(suffix, text)
             memory == MemoryEnd(suffix, text)
             a == IF suffix = "java" THEN ResourceFindings(suffix, text) ELSE <<>>
             b == IF suffix = "c" THEN MemoryFindings(suffix, text) ELSE <<>>
  <1>1. n \in Nat /\ \A rules : <<>> \in Reports(rules, n)
    BY DEF Reports
  <1>2. a \in Reports(ReleaseRules, n)
    <2>1. a \in {ResourceFindings(suffix, text), <<>>}
      BY Zenon
    <2> QED
      BY <1>1, <2>1, ResourcePlaces, Zenon
  <1>3. b \in Reports(MemoryRules, n)
    <2>1. memory \in MemoryStates(n)
      BY MemoryEndType
    <2>2. MemoryFindings(suffix, text) = memory.out
      BY Zenon DEF MemoryFindings, MemoryEnd
    <2>3. b \in {memory.out, <<>>}
      BY <2>2, Zenon
    <2> HIDE DEF memory, b
    <2>4. memory.out \in Reports(MemoryRules, n)
      BY <2>1 DEF MemoryStates
    <2> QED
      BY <1>1, <2>3, <2>4, Zenon
  <1>4. dns.out \in Reports(StatementRules, n)
    <2>1. dns \in NameStates(n)
      BY DnsEndType
    <2> HIDE DEF dns
    <2> QED
      BY <1>1, <2>1, NameStateTells
  <1>5. integer.out \in Reports(StatementRules, n)
    <2>1. integer \in IntegerStates(n)
      BY IntegerEndType
    <2> HIDE DEF integer
    <2> QED
      BY <1>1, <2>1, IntegerStateTells
  <1>6. decision.out \in Reports(StatementRules, n)
    <2>1. decision \in NameStates(n)
      BY DecisionEndType
    <2> HIDE DEF decision
    <2> QED
      BY <1>1, <2>1, NameStateTells
  <1>7. SemanticFindings(suffix, text) =
          a \o b \o dns.out \o AttemptFindings(text) \o integer.out \o decision.out
            \o EndpointFindings(suffix, text) \o SettingFindings(text) \o LoopFindings(suffix, text)
            \o SharedFindings(suffix, text)
    BY Zenon DEF SemanticFindings, NoNames, DnsEnd, IntegerEnd, DecisionEnd
  <1>8. \A part \in {ReleaseRules, MemoryRules, StatementRules} : Seq(At(part, n)) \subseteq Seq(S)
    <2>1. \A part \in {ReleaseRules, MemoryRules, StatementRules} : part \subseteq SemanticRules
      BY Zenon DEF SemanticRules
    <2> QED
      BY <1>1, <2>1, MoreRules
  <1>9. /\ AttemptFindings(text) \in Seq(S) /\ EndpointFindings(suffix, text) \in Seq(S)
        /\ SettingFindings(text) \in Seq(S) /\ LoopFindings(suffix, text) \in Seq(S)
        /\ SharedFindings(suffix, text) \in Seq(S)
    <2> HIDE DEF S
    <2> QED
      BY <1>8, AttemptPlaces, EndpointPlaces, SettingPlaces, LoopPlaces, SharedPlaces
  <1>11. a \in Seq(S) /\ b \in Seq(S) /\ dns.out \in Seq(S) /\ integer.out \in Seq(S) /\ decision.out \in Seq(S)
    <2> HIDE DEF a, b, dns, integer, decision, S
    <2> QED
      BY <1>2, <1>3, <1>4, <1>5, <1>6, <1>8 DEF Reports
  <1> HIDE DEF a, b, dns, integer, decision, S
  <1>10. SemanticFindings(suffix, text) \in Seq(S)
    BY <1>7, <1>9, <1>11
  <1> QED
    BY <1>10 DEF Reports, S

-----------------------------------------------------------------------------
(* The walk over null state.                                               *)

NullStates(n) ==
    [null : SUBSET Names, maybe : SUBSET Names, receivers : SUBSET Names,
     scopes : SUBSET [name : Names, depth : Int], next : SUBSET [name : Names, line : Nat],
     here : SUBSET Names, depth : Int, out : Reports(NullRules, n)]

\* The number of places of a token is a number.
LEMMA CountType ==
  ASSUME NEW n \in Nat, NEW text, NEW token, NEW positions \in SUBSET (1..n)
  PROVE  Count(text, token, positions) \in Nat
  <1> DEFINE at == {k \in positions : text[k] = token}
  <1>1. at \in SUBSET (1..n)
    OBVIOUS
  <1>2. IsFiniteSet(1..n)
    BY FS_Interval
  <1> HIDE DEF at
  <1>3. Cardinality(at) \in Nat
    BY <1>1, <1>2, FS_Subset, FS_CardinalityType
  <1> QED
    BY <1>3 DEF Count, at

\* So is the number of braces a line opens, less those it closes.
LEMMA PlainDeltaType ==
  ASSUME NEW w \in Text
  PROVE  PlainDelta(w) \in Int
  <1>1. DOMAIN w = 1..Len(w) /\ Len(w) \in Nat
    BY DEF Text
  <1>2. Count(w, "{", DOMAIN w) \in Nat /\ Count(w, "}", DOMAIN w) \in Nat
    BY <1>1, CountType
  <1>3. PlainDelta(w) = Count(w, "{", DOMAIN w) - Count(w, "}", DOMAIN w)
    BY Zenon DEF PlainDelta
  <1> DEFINE a == Count(w, "{", DOMAIN w)
             b == Count(w, "}", DOMAIN w)
  <1>4. a \in Nat /\ b \in Nat /\ PlainDelta(w) = a - b
    BY <1>2, <1>3, Zenon
  <1> HIDE DEF a, b
  <1> QED
    BY <1>4

\* A guard names a name.
LEMMA GuardTells ==
  ASSUME NEW w \in Text, NEW op, Guard(w, op).name # None
  PROVE  Guard(w, op).name \in Names
  <1> DEFINE at == {k \in 1 .. Len(w) - 5 :
                      /\ w[k] = "if" /\ w[k + 1] = "(" /\ w[k + 3] = op /\ w[k + 5] = ")"
                      /\ \/ w[k + 2] \in Names /\ w[k + 4] = "null"
                         \/ w[k + 2] = "null" /\ w[k + 4] \in Names}
             there == [name |-> w[Min(at) + IF w[Min(at) + 2] = "null" THEN 4 ELSE 2], end |-> Min(at) + 5]
             nowhere == [name |-> None, end |-> 0]
  <1>1. Guard(w, op) = IF at = {} THEN nowhere ELSE there
    BY Zenon DEF Guard
  <1> DEFINE one(k) == \/ w[k + 2] \in Names /\ w[k + 4] = "null"
                       \/ w[k + 2] = "null" /\ w[k + 4] \in Names
  <1>2. at \in SUBSET Nat /\ \A k \in at : one(k)
    <2>1. at \subseteq 1 .. Len(w) - 5
      BY Zenon
    <2>2. \A k \in at : one(k)
      BY Zenon
    <2>3. Len(w) \in Nat
      BY DEF Text
    <2> HIDE DEF at, one
    <2> QED
      BY <2>1, <2>2, <2>3
  <1> HIDE DEF at
  <1>3. at # {}
    BY <1>1
  <1>4. Min(at) \in at
    BY <1>2, <1>3, MinOfSet
  <1> DEFINE k == Min(at)
  <1>5. Guard(w, op).name = IF w[k + 2] = "null" THEN w[k + 4] ELSE w[k + 2]
    BY <1>1, <1>3
  <1> HIDE DEF k
  <1>6. one(k)
    BY <1>2, <1>4, Zenon DEF k
  <1> QED
    BY <1>5, <1>6

\* A name that is assigned is forgotten.
LEMMA ForgetType ==
  ASSUME NEW n \in Nat, NEW s \in NullStates(n), NEW names
  PROVE  Forget(s, names) \in NullStates(n)
  BY DEF Forget, NullStates

\* A line is entered in a state of the walk.
LEMMA EnterType ==
  ASSUME NEW suffix, NEW n \in Nat, NEW s \in NullStates(n), NEW i, NEW w \in Text
  PROVE  Enter(suffix, s, i, w) \in NullStates(n)
  <1> DEFINE fresh == AfterHeader(suffix, s, w)
             next == {p \in fresh.next : p.line >= i}
             still == StillGuarded(fresh, w)
             maps == fresh.receivers \cup MapsDeclared(w)
  <1>1. fresh \in NullStates(n)
    <2> DEFINE reset == [Forget(s, Names) EXCEPT !.scopes = {}, !.next = {}]
    <2>1. reset \in NullStates(n)
      <3>1. Forget(s, Names) \in NullStates(n)
        BY ForgetType
      <3> QED
        BY <3>1 DEF NullStates
    <2>2. fresh \in {reset, s}
      BY Zenon DEF AfterHeader
    <2> HIDE DEF reset
    <2> QED
      BY <2>1, <2>2
  <1> HIDE DEF fresh
  <1>2. /\ fresh.next \in SUBSET [name : Names, line : Nat]
        /\ fresh.scopes \in SUBSET [name : Names, depth : Int]
        /\ fresh.receivers \in SUBSET Names
    BY <1>1 DEF NullStates
  <1>3. next \in SUBSET [name : Names, line : Nat]
    <2>1. next \subseteq fresh.next
      BY Zenon
    <2> HIDE DEF next
    <2> QED
      BY <1>2, <2>1, Zenon
  <1>4. still \in SUBSET [name : Names, depth : Int]
    <2>1. still \subseteq fresh.scopes
      BY Zenon DEF StillGuarded
    <2> HIDE DEF still
    <2> QED
      BY <1>2, <2>1, Zenon
  <1>5. maps \in SUBSET Names
    <2> DEFINE S == {k \in 1 .. Len(w) - 1 : w[k] = "Map" /\ w[k + 1] \in Names}
    <2>1. MapsDeclared(w) \in SUBSET Names
      <3>1. MapsDeclared(w) = IF First(S) = 0 THEN {} ELSE {w[First(S) + 1]}
        BY Zenon DEF MapsDeclared
      <3>2. S \in SUBSET Nat /\ \A j \in S : w[j + 1] \in Names
        OBVIOUS
      <3> HIDE DEF S
      <3> QED
        BY <3>1, <3>2, FirstTells
    <2> QED
      BY <1>2, <2>1
  <1>6. Enter(suffix, s, i, w) = [fresh EXCEPT !.next = next, !.here = {}, !.scopes = still, !.receivers = maps]
    BY Zenon DEF Enter, fresh
  <1> HIDE DEF next, still, maps
  <1> QED
    BY <1>1, <1>3, <1>4, <1>5, <1>6 DEF NullStates

\* A guard protects a name, of a block or of a statement.
LEMMA ProtectType ==
  ASSUME NEW lines, NEW n \in Nat, NEW s \in NullStates(n), NEW i \in Nat, NEW w \in Text, Len(lines) \in Nat
  PROVE  Protect(lines, s, i, w) \in NullStates(n)
  <1> DEFINE guard == Guard(w, "!=")
             later == {j \in i + 1 .. Len(lines) : Words(lines[j]) # <<>>}
             block == [s EXCEPT !.scopes = @ \cup {[name |-> guard.name, depth |-> s.depth + 1]}]
             rest == [s EXCEPT !.here = {guard.name}]
             statement == [s EXCEPT !.next = @ \cup {[name |-> guard.name, line |-> Min(later)]}]
             c1 == "{" \in Range(w)
             c2 == guard.end < Len(w) \/ later = {}
  <1>1. Protect(lines, s, i, w) =
          IF guard.name = None THEN s ELSE IF c1 THEN block ELSE IF c2 THEN rest ELSE statement
    BY Zenon DEF Protect
  <1>2. guard.name # None => guard.name \in Names
    BY GuardTells
  <1>3. ~c2 => Min(later) \in Nat
    <2>1. later \in SUBSET Nat
      OBVIOUS
    <2>2. ~c2 => later # {}
      BY Zenon
    <2> HIDE DEF later, c2
    <2>3. later # {} => Min(later) \in Nat
      BY <2>1, MinOfSet
    <2> QED
      BY <2>2, <2>3
  <1> HIDE DEF guard, later, c1, c2
  <1>4. guard.name # None => block \in NullStates(n) /\ rest \in NullStates(n)
    <2> SUFFICES ASSUME guard.name \in Names PROVE block \in NullStates(n) /\ rest \in NullStates(n)
      BY <1>2
    <2>1. s.depth \in Int /\ s.scopes \in SUBSET [name : Names, depth : Int]
      BY DEF NullStates
    <2>2. [name |-> guard.name, depth |-> s.depth + 1] \in [name : Names, depth : Int]
      BY <2>1
    <2>3. s.scopes \cup {[name |-> guard.name, depth |-> s.depth + 1]} \in SUBSET [name : Names, depth : Int]
      BY <2>1, <2>2
    <2> DEFINE all == s.scopes \cup {[name |-> guard.name, depth |-> s.depth + 1]}
    <2>4. block = [s EXCEPT !.scopes = all] /\ all \in SUBSET [name : Names, depth : Int]
      BY <2>3
    <2> HIDE DEF all
    <2> QED
      BY <2>4 DEF NullStates
  <1>5. guard.name # None /\ ~c2 => statement \in NullStates(n)
    <2> SUFFICES ASSUME guard.name \in Names, Min(later) \in Nat PROVE statement \in NullStates(n)
      BY <1>2, <1>3
    <2> DEFINE next == s.next \cup {[name |-> guard.name, line |-> Min(later)]}
    <2>1. s.next \in SUBSET [name : Names, line : Nat]
      BY DEF NullStates
    <2>2. [name |-> guard.name, line |-> Min(later)] \in [name : Names, line : Nat]
      OBVIOUS
    <2>3. next \in SUBSET [name : Names, line : Nat] /\ statement = [s EXCEPT !.next = next]
      BY <2>1, <2>2
    <2> HIDE DEF next
    <2> QED
      BY <2>3 DEF NullStates
  <1> HIDE DEF block, rest, statement
  <1> QED
    BY <1>1, <1>4, <1>5

\* What is dereferenced is reported at its line.
LEMMA ReportedPlaces ==
  ASSUME NEW n \in Nat, NEW s, NEW i \in 1..n, NEW w
  PROVE  Reported(s, i, w) \in Reports(NullRules, n)
  <1> DEFINE A == At(NullRules, n)
             exposed == SelectSeq(SetToSeq(Names), LAMBDA m : m \in Exposed(s, i, w))
             one == IF Head(exposed) \in s.null THEN Confirmed("null", i) ELSE Candidate("null", i)
  <1>1. Confirmed("null", i) \in A /\ Candidate("null", i) \in A
    <2>1. "null" \in NullRules
      BY DEF NullRules
    <2> QED
      BY <2>1, OnePlace
  <1>2. one \in {Confirmed("null", i), Candidate("null", i)}
    BY Zenon
  <1>3. Reported(s, i, w) \in {<<>>, <<one>>, <<Candidate("null", i)>>}
    BY Zenon DEF Reported
  <1> HIDE DEF one, A
  <1>4. <<one>> \in Seq(A) /\ <<Candidate("null", i)>> \in Seq(A) /\ <<>> \in Seq(A)
    BY <1>1, <1>2
  <1>5. Reported(s, i, w) \in Seq(A)
    BY <1>3, <1>4
  <1> QED
    BY <1>5 DEF Reports, A

\* An assignment makes a name null, or perhaps null, or neither.
LEMMA AfterWriteType ==
  ASSUME NEW n \in Nat, NEW s \in NullStates(n), NEW w \in Text
  PROVE  AfterWrite(s, w) \in NullStates(n)
  <1> DEFINE name == w[Written(w)]
             forgot == Forget(s, {name})
             sure == [forgot EXCEPT !.null = @ \cup {name}]
             perhaps == [forgot EXCEPT !.maybe = @ \cup {name}]
  <1>1. Written(w) # 0 => name \in Names
    <2> DEFINE i == IF w[1] \in {"type", "Map", "return"} THEN 2 ELSE 1
               c == Len(w) > i + 1 /\ w[i] \in Names /\ w[i + 1] \in {"=", "=="}
    <2>1. Written(w) = IF c THEN i ELSE 0
      BY Zenon DEF Written
    <2>2. c => w[i] \in Names
      BY Zenon
    <2> HIDE DEF i, c
    <2> QED
      BY <2>1, <2>2
  <1>2. AfterWrite(s, w) \in {s, forgot, sure, perhaps} /\ (Written(w) = 0 => AfterWrite(s, w) = s)
    BY Zenon DEF AfterWrite
  <1>3. forgot \in NullStates(n)
    BY ForgetType
  <1> HIDE DEF forgot, name
  <1>4. Written(w) # 0 => sure \in NullStates(n) /\ perhaps \in NullStates(n)
    BY <1>1, <1>3 DEF NullStates
  <1> HIDE DEF sure, perhaps
  <1> QED
    BY <1>2, <1>3, <1>4

\* A line of the walk over null state.
LEMMA NullStep ==
  ASSUME NEW suffix, NEW lines \in Seq(Text), NEW s \in NullStates(Len(lines)), NEW i \in 1..Len(lines)
  PROVE  NullLine(suffix, lines, s, i) \in NullStates(Len(lines))
  <1> DEFINE n == Len(lines)
             w == Words(lines[i])
             entered == Enter(suffix, s, i, w)
             protected == Protect(lines, entered, i, w)
             at == Forget(protected, Required(w))
             guarded == Guard(w, "==").name
             reported == Reported(at, i, w)
             told == [at EXCEPT !.out = @ \o reported]
             written == AfterWrite(told, w)
             counted == [written EXCEPT !.depth = @ + PlainDelta(w)]
  <1>1. n \in Nat /\ w \in Text /\ i \in Nat
    BY WordsType
  <1> HIDE DEF w
  <1>2. entered \in NullStates(n)
    BY <1>1, EnterType
  <1> HIDE DEF entered
  <1>3. protected \in NullStates(n)
    BY <1>1, <1>2, ProtectType
  <1> HIDE DEF protected
  <1>4. at \in NullStates(n)
    BY <1>1, <1>3, ForgetType
  <1>5. Forget(at, {guarded}) \in NullStates(n)
    BY <1>1, <1>4, ForgetType
  <1>6. reported \in Reports(NullRules, n)
    BY <1>1, ReportedPlaces
  <1>7. NullLine(suffix, lines, s, i) \in {s, Forget(at, {guarded}), counted}
    BY Zenon DEF NullLine, entered, protected, w
  <1> HIDE DEF at, reported
  <1>8. told \in NullStates(n)
    <2> DEFINE A == At(NullRules, n)
    <2>1. at.out \in Seq(A) /\ reported \in Seq(A)
      BY <1>4, <1>6 DEF NullStates, Reports
    <2> HIDE DEF A
    <2>2. at.out \o reported \in Seq(A)
      BY <2>1
    <2>3. at.out \o reported \in Reports(NullRules, n)
      BY <2>2 DEF Reports, A
    <2> QED
      BY <1>4, <2>3 DEF NullStates
  <1> HIDE DEF told
  <1>9. written \in NullStates(n)
    BY <1>1, <1>8, AfterWriteType
  <1> HIDE DEF written
  <1>10. counted \in NullStates(n)
    <2>1. written.depth + PlainDelta(w) \in Int
      <3>1. written.depth \in Int
        BY <1>9 DEF NullStates
      <3> QED
        BY <1>1, <3>1, PlainDeltaType
    <2> QED
      BY <1>9, <2>1 DEF NullStates
  <1> HIDE DEF counted, n
  <1> QED
    BY <1>5, <1>7, <1>10 DEF n

NullEnd(suffix, lines) == FoldLeft(LAMBDA s, i : NullLine(suffix, lines, s, i), NothingKnown, Numbered(lines))

\* The walk ends in a state of its kind.
LEMMA NullEndType ==
  ASSUME NEW suffix, NEW lines \in Seq(Text)
  PROVE  NullEnd(suffix, lines) \in NullStates(Len(lines))
  <1> DEFINE start == NothingKnown
             seq == Numbered(lines)
             Op(v, e) == NullLine(suffix, lines, v, e)
             f == [p \in NullStates(Len(lines)) \X (1..Len(lines)) |-> Op(p[1], p[2])]
             Solves(it) == it = [x \in SUBSET DOMAIN seq |->
                                   IF x = {} THEN start ELSE Op(it[x \ {Max(x)}], seq[Max(x)])]
             iter == CHOOSE it : Solves(it)
  <1>1. seq \in Seq(1..Len(lines))
    BY NumberedType
  <1>2. start \in NullStates(Len(lines))
    BY DEF NullStates, NothingKnown, Reports
  <1>3. iter[DOMAIN seq] = NullEnd(suffix, lines)
    BY Zenon DEF NullEnd, FoldLeft, MapThenFoldSet
  <1>4. \A v \in NullStates(Len(lines)), e \in 1..Len(lines) : Op(v, e) \in NullStates(Len(lines))
    BY NullStep
  <1>5. \A v \in NullStates(Len(lines)), e \in 1..Len(lines) : f[<<v, e>>] = Op(v, e)
    BY <1>4
  <1>6. Foldable(NullStates(Len(lines)), 1..Len(lines), f, start, seq)
    BY <1>1, <1>2, <1>4 DEF Foldable
  <1> HIDE DEF start, seq, Op, f
  <1>7. PICK it : Solution(NullStates(Len(lines)), 1..Len(lines), f, start, seq, it)
    BY <1>6, SolutionExists
  <1>8. Solves(iter)
    <2>1. Solves(it)
      BY <1>5, <1>7 DEF Solution
    <2> HIDE DEF Solves
    <2> QED
      BY <2>1
  <1> HIDE DEF iter
  <1>9. Recurs(NullStates(Len(lines)), f, start, seq, iter)
    <2>1. PICK b : b = start
      OBVIOUS
    <2>2. iter = [x \in SUBSET DOMAIN seq |-> IF x = {} THEN b ELSE Op(iter[x \ {Max(x)}], seq[Max(x)])]
      BY <1>8, <2>1
    <2>3. ASSUME NEW x \in SUBSET DOMAIN seq, x # {} PROVE seq[Max(x)] \in 1..Len(lines)
      BY <1>7, <2>3 DEF Solution
    <2> QED
      BY <1>5, <2>1, <2>2, <2>3 DEF Recurs
  <1> QED
    BY <1>3, <1>6, <1>9, FoldStays

\* It reports lines of its text, the confirmed findings before the candidates.
LEMMA NullPlaces ==
  ASSUME NEW suffix, NEW lines \in Seq(Text)
  PROVE  NullFindings(suffix, lines) \in Reports(NullRules, Len(lines))
  <1> DEFINE n == Len(lines)
             A == At(NullRules, n)
             out == NullEnd(suffix, lines).out
             those(confirmed) == [k \in DOMAIN out |-> IF (out[k].status = "confirmed") = confirmed
                                                       THEN <<out[k]>> ELSE <<>>]
  <1>1. NullFindings(suffix, lines) = FlattenSeq(those(TRUE)) \o FlattenSeq(those(FALSE))
    BY Zenon DEF NullFindings, NullEnd
  <1>2. out \in Seq(A)
    <2>1. NullEnd(suffix, lines) \in NullStates(n)
      BY NullEndType
    <2> QED
      BY <2>1 DEF NullStates, Reports
  <1> HIDE DEF A, out
  <1>3. ASSUME NEW c PROVE FlattenSeq(those(c)) \in Seq(A)
    <2>1. ASSUME NEW k \in DOMAIN out PROVE those(c)[k] \in Seq(A)
      <3>1. those(c)[k] \in {<<out[k]>>, <<>>}
        BY Zenon
      <3>2. out[k] \in A
        BY <1>2
      <3>3. <<out[k]>> \in Seq(A) /\ <<>> \in Seq(A)
        BY <3>2
      <3> HIDE DEF those
      <3> QED
        BY <3>1, <3>3
    <2>2. those(c) = [k \in DOMAIN out |-> those(c)[k]]
      BY Zenon
    <2> HIDE DEF those
    <2>3. those(c) \in [DOMAIN out -> Seq(A)]
      BY <2>1, <2>2
    <2> QED
      BY <1>2, <2>3, GatheredStays
  <1> DEFINE sure == FlattenSeq(those(TRUE))
             perhaps == FlattenSeq(those(FALSE))
  <1>4. sure \in Seq(A) /\ perhaps \in Seq(A) /\ NullFindings(suffix, lines) = sure \o perhaps
    BY <1>1, <1>3, Zenon
  <1> HIDE DEF sure, perhaps
  <1>5. NullFindings(suffix, lines) \in Seq(A)
    BY <1>4
  <1> QED
    BY <1>5 DEF Reports, A

-----------------------------------------------------------------------------
(* The statements of a file are texts, one for a line.                     *)

OutsideStates(n) == [quote : Token, escaped : BOOLEAN, at : SUBSET (1..n)]

NoQuote == [quote |-> None, escaped |-> FALSE, at |-> {}]

OutsideStep(text, s, k) ==
    IF s.quote = None
    THEN IF text[k] \in {"quote", "tick"} THEN [s EXCEPT !.quote = text[k]]
         ELSE [s EXCEPT !.at = @ \cup {k}]
    ELSE [s EXCEPT !.escaped = ~@ /\ text[k] = "escape",
                   !.quote = IF ~s.escaped /\ text[k] = @ THEN None ELSE @]

OutsideEnd(text) == FoldLeft(LAMBDA s, k : OutsideStep(text, s, k), NoQuote, [k \in 1..Len(text) |-> k])

\* A token, for the places outside of string literals.
LEMMA OutsideStepType ==
  ASSUME NEW text \in Text, NEW s \in OutsideStates(Len(text)), NEW k \in 1..Len(text)
  PROVE  OutsideStep(text, s, k) \in OutsideStates(Len(text))
  <1> DEFINE n == Len(text)
             escaped == ~s.escaped /\ text[k] = "escape"
             quote == IF ~s.escaped /\ text[k] = s.quote THEN None ELSE s.quote
             opened == [s EXCEPT !.quote = text[k]]
             added == [s EXCEPT !.at = @ \cup {k}]
             read == [s EXCEPT !.escaped = escaped, !.quote = quote]
  <1>1. text[k] \in Token /\ None \in Token /\ s.quote \in Token /\ s.at \in SUBSET (1..n)
    <2>1. None \in Token
      BY DEF Token
    <2>2. text[k] \in Token
      BY DEF Text
    <2> QED
      BY <2>1, <2>2 DEF OutsideStates
  <1>2. escaped \in BOOLEAN /\ quote \in Token
    <2>1. quote \in {None, s.quote}
      BY Zenon
    <2> HIDE DEF quote
    <2> QED
      BY <1>1, <2>1
  <1>3. OutsideStep(text, s, k) \in {opened, added, read}
    BY Zenon DEF OutsideStep
  <1> HIDE DEF escaped, quote
  <1>4. opened \in OutsideStates(n) /\ added \in OutsideStates(n) /\ read \in OutsideStates(n)
    BY <1>1, <1>2 DEF OutsideStates
  <1> HIDE DEF opened, added, read
  <1> QED
    BY <1>3, <1>4

\* Those places are places of the text.
LEMMA OutsideEndType ==
  ASSUME NEW text \in Text
  PROVE  OutsideEnd(text) \in OutsideStates(Len(text))
  <1> DEFINE start == NoQuote
             seq == [k \in 1..Len(text) |-> k]
             Op(v, e) == OutsideStep(text, v, e)
             f == [p \in OutsideStates(Len(text)) \X (1..Len(text)) |-> Op(p[1], p[2])]
             Solves(it) == it = [x \in SUBSET DOMAIN seq |->
                                   IF x = {} THEN start ELSE Op(it[x \ {Max(x)}], seq[Max(x)])]
             iter == CHOOSE it : Solves(it)
  <1>1. seq \in Seq(1..Len(text))
    BY DEF Text
  <1>2. start \in OutsideStates(Len(text))
    <2>1. None \in Token
      BY DEF Token
    <2> QED
      BY <2>1 DEF OutsideStates, NoQuote
  <1>3. iter[DOMAIN seq] = OutsideEnd(text)
    BY Zenon DEF OutsideEnd, FoldLeft, MapThenFoldSet
  <1>4. \A v \in OutsideStates(Len(text)), e \in 1..Len(text) : Op(v, e) \in OutsideStates(Len(text))
    BY OutsideStepType
  <1>5. \A v \in OutsideStates(Len(text)), e \in 1..Len(text) : f[<<v, e>>] = Op(v, e)
    BY <1>4
  <1>6. Foldable(OutsideStates(Len(text)), 1..Len(text), f, start, seq)
    BY <1>1, <1>2, <1>4 DEF Foldable
  <1> HIDE DEF start, seq, Op, f
  <1>7. PICK it : Solution(OutsideStates(Len(text)), 1..Len(text), f, start, seq, it)
    BY <1>6, SolutionExists
  <1>8. Solves(iter)
    <2>1. Solves(it)
      BY <1>5, <1>7 DEF Solution
    <2> HIDE DEF Solves
    <2> QED
      BY <2>1
  <1> HIDE DEF iter
  <1>9. Recurs(OutsideStates(Len(text)), f, start, seq, iter)
    <2>1. PICK b : b = start
      OBVIOUS
    <2>2. iter = [x \in SUBSET DOMAIN seq |-> IF x = {} THEN b ELSE Op(iter[x \ {Max(x)}], seq[Max(x)])]
      BY <1>8, <2>1
    <2>3. ASSUME NEW x \in SUBSET DOMAIN seq, x # {} PROVE seq[Max(x)] \in 1..Len(text)
      BY <1>7, <2>3 DEF Solution
    <2> QED
      BY <1>5, <2>1, <2>2, <2>3 DEF Recurs
  <1> QED
    BY <1>3, <1>6, <1>9, FoldStays

\* What a text leaves open is a number.
LEMMA BalanceType ==
  ASSUME NEW text \in Text
  PROVE  OpenDepth(text) \in Int /\ BraceDelta(text) \in Int
  <1>1. Outside(text) = OutsideEnd(text).at
    BY Zenon DEF Outside, OutsideEnd, OutsideStep, NoQuote
  <1>2. Outside(text) \in SUBSET (1..Len(text)) /\ Len(text) \in Nat
    BY <1>1, OutsideEndType DEF OutsideStates, Text
  <1> DEFINE a == Count(text, "(", Outside(text))
             b == Count(text, ")", Outside(text))
             c == Count(text, "{", Outside(text))
             d == Count(text, "}", Outside(text))
  <1>3. a \in Nat /\ b \in Nat /\ c \in Nat /\ d \in Nat
    BY <1>2, CountType
  <1>4. OpenDepth(text) = a - b /\ BraceDelta(text) = c - d
    BY Zenon DEF OpenDepth, BraceDelta
  <1> HIDE DEF a, b, c, d
  <1> QED
    BY <1>3, <1>4

\* The code view has a text for every line of the file.
LEMMA CodeViewType ==
  ASSUME NEW suffix \in DOMAIN Lexis, NEW lines \in Seq(Text)
  PROVE  CodeView(suffix, lines) \in Seq(Text) /\ Len(CodeView(suffix, lines)) = Len(lines)
  <1> DEFINE N == Len(lines)
  <1>1. PICK F \in [0..N -> ViewStates] :
          /\ F[0] = [state |-> NothingScanned, out |-> <<>>]
          /\ \A k \in 1..N :
               F[k] = [state |-> ScanLine(suffix, lines[k], F[k - 1].state),
                       out |-> Append(F[k - 1].out, ScanLine(suffix, lines[k], F[k - 1].state).out)]
          /\ F[N].out = CodeView(suffix, lines)
    BY CodeViewTells
  <1>2. N \in Nat /\ \A k \in 0..N : F[k].out \in Seq(Text)
    <2>1. \A k \in 0..N : F[k] \in ViewStates
      OBVIOUS
    <2> QED
      BY <2>1 DEF ViewStates
  <1> DEFINE T == {k \in 0..N : Len(F[k].out) = k}
  <1>3. 0 \in T
    BY <1>1, <1>2
  <1>4. ASSUME NEW k \in 1..N, k - 1 \in T PROVE k \in T
    <2> DEFINE state == ScanLine(suffix, lines[k], F[k - 1].state)
               scanned == state.out
    <2>1. k - 1 \in 0..N /\ k \in 0..N /\ k \in Nat
      BY <1>2
    <2>2. F[k].out = Append(F[k - 1].out, scanned)
      <3>1. F[k] = [state |-> state, out |-> Append(F[k - 1].out, state.out)]
        BY <1>1, Zenon
      <3> HIDE DEF state
      <3> QED
        BY <3>1
    <2> HIDE DEF scanned
    <2>3. Len(F[k - 1].out) = k - 1 /\ F[k - 1].out \in Seq(Text)
      BY <1>2, <1>4, <2>1
    <2>4. Len(F[k].out) = k
      BY <2>1, <2>2, <2>3
    <2> QED
      BY <2>1, <2>4
  <1> HIDE DEF T
  <1>5. 0..N \subseteq T
    BY <1>2, <1>3, <1>4, Folds!CountingUp
  <1>6. N \in T
    BY <1>2, <1>5
  <1> QED
    BY <1>1, <1>2, <1>6 DEF T

JoinStep(lines, i, text, d) ==
    IF OpenDepth(text) > 0 /\ i + d <= Len(lines)
    THEN text \o <<" ">> \o Stripped(lines[i + d]) ELSE text

JoinEnd(lines, i, most) ==
    FoldLeft(LAMBDA text, d : JoinStep(lines, i, text, d), lines[i], [d \in 1 .. most |-> d])

\* A text without the blanks around it is one.
LEMMA StrippedType ==
  ASSUME NEW text \in Text
  PROVE  Stripped(text) \in Text
  <1> DEFINE ink == {k \in 1 .. Len(text) : text[k] # " "}
  <1>1. text \in Seq(Token) /\ Len(text) \in Nat /\ ink \in SUBSET (1 .. Len(text)) /\ ink \in SUBSET Nat
    <2>1. text \in Seq(Token)
      BY DEF Text
    <2>2. Len(text) \in Nat
      BY <2>1
    <2>3. \A k \in ink : k \in 1 .. Len(text)
      BY Zenon
    <2>4. \A k \in 1 .. Len(text) : k \in Nat
      OBVIOUS
    <2> HIDE DEF ink
    <2> QED
      BY <2>1, <2>2, <2>3, <2>4
  <1>2. Stripped(text) = IF ink = {} THEN <<>> ELSE SubSeq(text, Min(ink), Max(ink))
    BY Zenon DEF Stripped
  <1> HIDE DEF ink
  <1>3. CASE ink = {}
    BY <1>2, <1>3 DEF Text
  <1>4. CASE ink # {}
    <2>1. Min(ink) \in ink /\ Max(ink) \in ink
      BY <1>1, <1>4, MinOfSet, MaxOfSet
    <2>2. Min(ink) \in 1 .. Len(text) /\ Max(ink) \in 1 .. Len(text)
      BY <1>1, <2>1
    <2>3. SubSeq(text, Min(ink), Max(ink)) \in Seq(Token)
      BY <1>1, <2>2
    <2> QED
      BY <1>2, <1>4, <2>3 DEF Text
  <1> QED
    BY <1>3, <1>4

\* A line that is joined to a statement leaves a text.
LEMMA JoinStepType ==
  ASSUME NEW lines \in Seq(Text), NEW i \in 1..Len(lines), NEW text \in Text, NEW d \in Nat, d > 0
  PROVE  JoinStep(lines, i, text, d) \in Text
  <1> DEFINE c == OpenDepth(text) > 0 /\ i + d <= Len(lines)
             more == text \o <<" ">> \o Stripped(lines[i + d])
  <1>1. c => i + d \in 1..Len(lines)
    OBVIOUS
  <1>2. c => Stripped(lines[i + d]) \in Text
    <2> HIDE DEF c
    <2> QED
      BY <1>1, StrippedType
  <1>3. JoinStep(lines, i, text, d) = IF c THEN more ELSE text
    BY Zenon DEF JoinStep
  <1>4. " " \in Token
    BY DEF Token
  <1>5. c => more \in Text
    <2> DEFINE words == Stripped(lines[i + d])
               blank == " "
    <2>1. blank \in Token /\ more = text \o <<blank>> \o words
      BY <1>4, Zenon
    <2> HIDE DEF c, words, more, blank
    <2>2. c => words \in Seq(Token)
      BY <1>2 DEF Text, words
    <2>3. text \in Seq(Token) /\ <<blank>> \in Seq(Token)
      BY <2>1 DEF Text
    <2>4. c => more \in Seq(Token)
      BY <2>1, <2>2, <2>3
    <2> QED
      BY <2>4 DEF Text
  <1> HIDE DEF c, more
  <1> QED
    BY <1>3, <1>5, Zenon

\* So do the lines that follow it, as many as the code joins.
LEMMA JoinEndType ==
  ASSUME NEW lines \in Seq(Text), NEW i \in 1..Len(lines), NEW most \in Nat
  PROVE  JoinEnd(lines, i, most) \in Text
  <1> DEFINE start == lines[i]
             seq == [d \in 1 .. most |-> d]
             Op(v, e) == JoinStep(lines, i, v, e)
             f == [p \in Text \X (1..most) |-> Op(p[1], p[2])]
             Solves(it) == it = [x \in SUBSET DOMAIN seq |->
                                   IF x = {} THEN start ELSE Op(it[x \ {Max(x)}], seq[Max(x)])]
             iter == CHOOSE it : Solves(it)
  <1>1. seq \in Seq(1..most)
    OBVIOUS
  <1>2. start \in Text
    OBVIOUS
  <1>3. iter[DOMAIN seq] = JoinEnd(lines, i, most)
    BY Zenon DEF JoinEnd, FoldLeft, MapThenFoldSet
  <1>4. \A v \in Text, e \in 1..most : Op(v, e) \in Text
    BY JoinStepType
  <1>5. \A v \in Text, e \in 1..most : f[<<v, e>>] = Op(v, e)
    BY <1>4
  <1>6. Foldable(Text, 1..most, f, start, seq)
    BY <1>1, <1>2, <1>4 DEF Foldable
  <1> HIDE DEF start, seq, Op, f
  <1>7. PICK it : Solution(Text, 1..most, f, start, seq, it)
    BY <1>6, SolutionExists
  <1>8. Solves(iter)
    <2>1. Solves(it)
      BY <1>5, <1>7 DEF Solution
    <2> HIDE DEF Solves
    <2> QED
      BY <2>1
  <1> HIDE DEF iter
  <1>9. Recurs(Text, f, start, seq, iter)
    <2>1. PICK b : b = start
      OBVIOUS
    <2>2. iter = [x \in SUBSET DOMAIN seq |-> IF x = {} THEN b ELSE Op(iter[x \ {Max(x)}], seq[Max(x)])]
      BY <1>8, <2>1
    <2>3. ASSUME NEW x \in SUBSET DOMAIN seq, x # {} PROVE seq[Max(x)] \in 1..most
      BY <1>7, <2>3 DEF Solution
    <2> QED
      BY <1>5, <2>1, <2>2, <2>3 DEF Recurs
  <1> QED
    BY <1>3, <1>6, <1>9, FoldStays

\* There is a statement for every line.
LEMMA LogicalLinesType ==
  ASSUME NEW lines \in Seq(Text), NEW most \in Nat
  PROVE  LogicalLines(lines, most) \in Seq(Text) /\ Len(LogicalLines(lines, most)) = Len(lines)
  <1> DEFINE n == Len(lines)
             all == LogicalLines(lines, most)
  <1>1. n \in Nat
    OBVIOUS
  <1>2. all = [i \in 1..n |-> Joined(lines, i, most)]
    BY Zenon DEF LogicalLines
  <1>3. ASSUME NEW i \in 1..n PROVE Joined(lines, i, most) \in Text
    <2>1. Joined(lines, i, most) \in {lines[i], JoinEnd(lines, i, most)}
      BY Zenon DEF Joined, JoinEnd, JoinStep
    <2>2. JoinEnd(lines, i, most) \in Text /\ lines[i] \in Text
      BY JoinEndType
    <2> QED
      BY <2>1, <2>2
  <1> HIDE DEF all
  <1>4. all \in [1..n -> Text]
    BY <1>2, <1>3
  <1>5. all \in Seq(Text) /\ Len(all) = n
    BY <1>1, <1>4, FunctionIsSeq
  <1> QED
    BY <1>5 DEF all

\* The indentation of a text is a number.
LEMMA IndentationType ==
  ASSUME NEW text \in Text
  PROVE  Indentation(text) \in Nat
  <1> DEFINE ink == {k \in 1 .. Len(text) : text[k] # " "}
  <1>1. ink \in SUBSET Nat /\ (\A k \in ink : k > 0) /\ Len(text) \in Nat
    <2>1. ink \subseteq 1 .. Len(text)
      BY Zenon
    <2>2. Len(text) \in Nat
      BY DEF Text
    <2> HIDE DEF ink
    <2> QED
      BY <2>1, <2>2
  <1>2. Indentation(text) = IF ink = {} THEN Len(text) ELSE Min(ink) - 1
    BY Zenon DEF Indentation
  <1> HIDE DEF ink
  <1>3. ink # {} => Min(ink) \in ink
    BY <1>1, MinOfSet
  <1>4. ink # {} => Min(ink) - 1 \in Nat
    <2> DEFINE m == Min(ink)
    <2>1. ink # {} => m \in Nat /\ m > 0
      BY <1>1, <1>3
    <2> HIDE DEF m
    <2>2. ink # {} => m - 1 \in Nat
      BY <2>1
    <2> QED
      BY <2>2 DEF m
  <1> QED
    BY <1>1, <1>2, <1>4

-----------------------------------------------------------------------------
(* A rule reports a line once.                                             *)

\* The rules of the dataflow pass and of the loop of check_file.
OwnRules == SinkRules \cup {"broad"}

OnceIn(s) ==
    \A i, j \in {k \in DOMAIN s : s[k].rule \in OwnRules} :
        s[i].rule = s[j].rule /\ s[i].line = s[j].line => i = j

\* No item of b repeats one of a.
Apart(a, b) ==
    \A i \in DOMAIN a, j \in DOMAIN b :
        b[j].rule \in OwnRules => ~ (a[i].rule = b[j].rule /\ a[i].line = b[j].line)

\* No detector reports a rule of the dataflow pass or of the loop.
LEMMA OwnRulesApart ==
  /\ SinkRules = {"dom", "eval", "ssrf"}
  /\ DetectorRules \cap OwnRules = {} /\ FileRules \cap OwnRules = {}
  <1>1. SinkRules = {"dom", "eval", "ssrf"}
    <2>1. DOMAIN Sinks = 1..3 /\ Sinks[1].rule = "dom" /\ Sinks[2].rule = "eval" /\ Sinks[3].rule = "ssrf"
      BY DEF Sinks
    <2> QED
      BY <2>1 DEF SinkRules
  <1> QED
    BY <1>1 DEF DetectorRules, ConfigurationRules, SemanticRules, StatementRules, ReleaseRules, MemoryRules,
                XmlRules, SqlRules, NullRules, FileRules, OwnRules

\* What repeats nothing is appended to what repeats nothing.
LEMMA OnceAppended ==
  ASSUME NEW S, NEW a \in Seq(S), NEW b \in Seq(S), OnceIn(a), OnceIn(b), Apart(a, b)
  PROVE  OnceIn(a \o b)
  <1> DEFINE s == a \o b
  <1> SUFFICES ASSUME NEW i \in DOMAIN s, NEW j \in DOMAIN s, s[i].rule \in OwnRules,
                      s[i].rule = s[j].rule, s[i].line = s[j].line
               PROVE  i = j
    BY DEF OnceIn
  <1>1. \A k \in DOMAIN s : \/ k \in DOMAIN a /\ s[k] = a[k]
                            \/ k - Len(a) \in DOMAIN b /\ s[k] = b[k - Len(a)] /\ k \in Int
    OBVIOUS
  <1> HIDE DEF s
  <1>2. Len(a) \in Nat
    OBVIOUS
  <1>3. CASE i \in DOMAIN a /\ s[i] = a[i] /\ j \in DOMAIN a /\ s[j] = a[j]
    BY <1>3 DEF OnceIn
  <1>4. CASE /\ i - Len(a) \in DOMAIN b /\ s[i] = b[i - Len(a)] /\ i \in Int
             /\ j - Len(a) \in DOMAIN b /\ s[j] = b[j - Len(a)] /\ j \in Int
    <2>1. i - Len(a) = j - Len(a)
      BY <1>4 DEF OnceIn
    <2> QED
      BY <1>2, <1>4, <2>1
  <1>5. CASE i \in DOMAIN a /\ s[i] = a[i] /\ j - Len(a) \in DOMAIN b /\ s[j] = b[j - Len(a)]
    BY <1>5 DEF Apart
  <1>6. CASE i - Len(a) \in DOMAIN b /\ s[i] = b[i - Len(a)] /\ j \in DOMAIN a /\ s[j] = a[j]
    BY <1>6 DEF Apart
  <1> QED
    BY <1>1, <1>3, <1>4, <1>5, <1>6

(* What other rules report does not count.                                 *)
LEMMA OnceOfOthers ==
  ASSUME NEW S, NEW b \in Seq(S), \A x \in S : x.rule \notin OwnRules
  PROVE  OnceIn(b) /\ \A a : Apart(a, b)
  <1>1. \A j \in DOMAIN b : b[j].rule \notin OwnRules
    OBVIOUS
  <1> QED
    BY <1>1 DEF OnceIn, Apart

\* The rules of a suffix are those of the loop, each once.
LEMMA LineRulesType ==
  ASSUME NEW suffix
  PROVE  /\ LineRules(suffix) \in Seq(OwnRules)
         /\ \A i, j \in DOMAIN LineRules(suffix) : LineRules(suffix)[i] = LineRules(suffix)[j] => i = j
  <1> DEFINE Fine(s) == s \in Seq(OwnRules) /\ \A i, j \in DOMAIN s : s[i] = s[j] => i = j
  <1>1. "eval" \in OwnRules /\ "ssrf" \in OwnRules /\ "dom" \in OwnRules /\ "broad" \in OwnRules
    BY OwnRulesApart DEF OwnRules
  <1>2. /\ Fine(<<"eval", "ssrf", "broad">>)
        /\ Fine(<<"dom", "eval", "ssrf">>)
        /\ Fine(<<"ssrf", "broad">>)
        /\ Fine(<<"dom">>)
        /\ Fine(<<>>)
    BY <1>1
  <1>3. LineRules(suffix) \in {<<"eval", "ssrf", "broad">>, <<"dom", "eval", "ssrf">>,
                               <<"ssrf", "broad">>, <<"dom">>, <<>>}
    BY Zenon DEF LineRules
  <1> HIDE DEF Fine
  <1>4. Fine(LineRules(suffix))
    BY <1>2, <1>3
  <1> QED
    BY <1>4 DEF Fine

\* An item of a flattened sequence is one of a sequence in it.
LEMMA FlattenItem ==
  ASSUME NEW S, NEW ss \in Seq(Seq(S)), NEW k \in 1..Len(FlattenSeq(ss))
  PROVE  \E n \in 1..Len(ss) : \E j \in 1..Len(ss[n]) : ss[n][j] = FlattenSeq(ss)[k]
  <1>1. IsItem(FlattenSeq(ss)[k], FlattenSeq(ss))
    BY Zenon DEF IsItem
  <1>2. \E n \in 1..Len(ss) : IsItem(FlattenSeq(ss)[k], ss[n])
    BY Zenon, <1>1, FlattenHolds
  <1> QED
    BY Zenon, <1>2 DEF IsItem

(* What the loop of check_file adds at a line: the rules of a set.         *)
Raised(rules, set, n) ==
    FlattenSeq([i \in DOMAIN rules |-> IF rules[i] \in set THEN <<Candidate(rules[i], n)>> ELSE <<>>])

\* It is at that line, of that set, and repeats nothing.
LEMMA RaisedTells ==
  ASSUME NEW rules \in Seq(OwnRules), \A i, j \in DOMAIN rules : rules[i] = rules[j] => i = j,
         NEW set, NEW N \in Nat, NEW n \in 1..N
  PROVE  LET p == Raised(rules, set, n)
         IN  /\ p \in Seq(At(OwnRules, N)) /\ OnceIn(p)
             /\ \A k \in DOMAIN p : p[k].line = n /\ p[k].rule \in set
  <1> DEFINE A == At(OwnRules, N)
             one(i) == IF rules[i] \in set THEN <<Candidate(rules[i], n)>> ELSE <<>>
             ss == [i \in DOMAIN rules |-> one(i)]
             p == FlattenSeq(ss)
  <1>1. \A i \in DOMAIN rules : rules[i] \in OwnRules
    OBVIOUS
  <1>2. ASSUME NEW i \in DOMAIN rules PROVE Candidate(rules[i], n) \in A /\ <<Candidate(rules[i], n)>> \in Seq(A)
    <2>1. Candidate(rules[i], n) \in A
      BY <1>1, OnePlace
    <2> HIDE DEF A
    <2> QED
      BY <2>1
  <1>3. ASSUME NEW i \in DOMAIN rules PROVE one(i) \in Seq(A) /\ Len(one(i)) <= 1
    <2> DEFINE c == Candidate(rules[i], n)
    <2>1. <<c>> \in Seq(A) /\ <<>> \in Seq(A) /\ Len(<<c>>) <= 1 /\ Len(<<>>) <= 1
      <3>1. <<c>> \in Seq(A) /\ <<>> \in Seq(A)
        BY <1>2, EmptySeq, Zenon
      <3> HIDE DEF c
      <3> QED
        BY <3>1
    <2>2. one(i) \in {<<c>>, <<>>}
      BY Zenon
    <2> HIDE DEF one, c
    <2> QED
      BY <2>1, <2>2
  <1>4. \A i \in DOMAIN rules : rules[i] \notin set => one(i) = <<>>
    BY Zenon
  <1>5. \A i \in DOMAIN rules : rules[i] \in set => one(i) = <<Candidate(rules[i], n)>>
    BY Zenon
  <1> HIDE DEF A, one
  <1>6. ss \in Seq(Seq(A)) /\ Len(ss) = Len(rules)
    <2>1. ss \in [1..Len(rules) -> Seq(A)] /\ Len(rules) \in Nat
      BY <1>3
    <2> QED
      BY <2>1, FunctionIsSeq
  <1>7. Separate(ss)
    <2>1. ASSUME NEW i \in DOMAIN rules, NEW m \in DOMAIN rules, one(i) # <<>>, one(i) = one(m) PROVE i = m
      <3>1. <<Candidate(rules[i], n)>> = <<Candidate(rules[m], n)>>
        BY <1>4, <1>5, <2>1
      <3>2. Candidate(rules[i], n) = Candidate(rules[m], n)
        BY <3>1
      <3>3. rules[i] = rules[m]
        BY <3>2 DEF Candidate
      <3> QED
        BY <3>3
    <2>2. \A i \in 1..Len(ss) : i \in DOMAIN rules /\ ss[i] = one(i)
      BY <1>6
    <2> QED
      BY <1>3, <2>1, <2>2 DEF Separate
  <1>8. p \in Seq(A)
    BY <1>6, FlattenStays
  <1>9. \A i, j \in 1..Len(p) : p[i] = p[j] => i = j
    BY <1>6, <1>7, FlattenOnce
  <1>10. ASSUME NEW k \in 1..Len(p)
         PROVE  \E i \in DOMAIN rules : rules[i] \in set /\ p[k] = Candidate(rules[i], n)
    <2> HIDE DEF ss
    <2>1. \E i \in 1..Len(ss) : \E j \in 1..Len(ss[i]) : ss[i][j] = p[k]
      BY <1>6, FlattenItem
    <2> HIDE DEF p
    <2>2. PICK i \in 1..Len(ss) : \E j \in 1..Len(ss[i]) : ss[i][j] = p[k]
      BY <2>1
    <2>3. i \in DOMAIN rules /\ ss[i] = one(i)
      BY <1>6 DEF ss
    <2>4. rules[i] \in set /\ ss[i] = <<Candidate(rules[i], n)>>
      BY <1>4, <1>5, <2>2, <2>3
    <2>5. p[k] = Candidate(rules[i], n)
      BY <2>2, <2>4
    <2> QED
      BY <2>3, <2>4, <2>5
  <1> HIDE DEF p
  <1>11. DOMAIN p = 1..Len(p)
    BY <1>8
  <1>12. \A k \in DOMAIN p : p[k].line = n /\ p[k].rule \in set /\ p[k].status = "needs_review"
                             /\ p[k] = Candidate(p[k].rule, n)
    BY <1>10, <1>11 DEF Candidate
  <1>13. OnceIn(p)
    <2>1. \A i, j \in DOMAIN p : p[i].rule = p[j].rule => p[i] = p[j]
      BY <1>12
    <2> QED
      BY <1>9, <1>11, <2>1 DEF OnceIn
  <1> QED
    BY <1>8, <1>12, <1>13 DEF Raised, p, ss, one, A

(* What the dataflow pass adds at a line: at most one finding, of a sink.  *)
LEMMA FlowPlaces ==
  ASSUME NEW w, NEW names
  PROVE  FlowFindings(w, names) = <<>> \/ \E r \in SinkRules : FlowFindings(w, names) = <<Confirmed(r, line)>>
  <1> DEFINE C == {i \in DOMAIN Sinks : Confirms(Sinks[i], w, names)}
             c == ~HasTaint(w, names) \/ C = {}
             r == Sinks[Min(C)].rule
  <1>1. FlowFindings(w, names) = IF c THEN <<>> ELSE <<[rule |-> r, line |-> line, status |-> "confirmed"]>>
    BY Zenon DEF FlowFindings
  <1>2. C # {} => Min(C) \in C
    <2>1. C \subseteq DOMAIN Sinks
      BY Zenon
    <2>2. DOMAIN Sinks \subseteq Nat
      BY DEF Sinks
    <2> HIDE DEF C
    <2>3. C \in SUBSET Nat
      BY <2>1, <2>2
    <2> QED
      BY <2>3, MinOfSet
  <1>3. C # {} => r \in SinkRules
    BY <1>2, Zenon DEF SinkRules
  <1> HIDE DEF r, C
  <1> QED
    BY <1>1, <1>3 DEF Confirmed

-----------------------------------------------------------------------------
(* The inductive invariant of the check of a file.                         *)

Scopes == [level : Int, tainted : SUBSET Names]

\* What the findings may be: at a line of the file, or of the file.
Found(rules) == At(rules, Len(file.lines)) \cup OfFile

\* The texts the passes look at.
Looked ==
    /\ file.lines \in Seq(Text) /\ code \in Seq(Text) /\ statements \in Seq(Text)
    /\ Len(code) \in {0, Len(file.lines)} /\ Len(statements) = Len(code)
    /\ pass \in {"view", "detect", "flow", "rules"} => IsCode(file.suffix)
    /\ pass \in {"detect", "flow", "rules"} => Len(code) = Len(file.lines)
    /\ pass = "detect" => code = CodeView(file.suffix, file.lines)

\* What the dataflow pass carries from line to line.
Carried ==
    /\ pass \in {"settings", "view", "detect", "flow", "rules", "done"}
    /\ line \in 1 .. Len(file.lines) + 1
    /\ tainted \subseteq Names /\ braceDepth \in Int /\ scopes \in Seq(Scopes)

\* What the detectors add to what the check of the configuration has reported.
WithDetectors(first) ==
    first \o XxeFindings(file.suffix, code) \o MyBatisFindings(file.suffix, code)
          \o JspFindings(file.suffix, code) \o SemanticFindings(file.suffix, statements)
          \o (IF file.suffix = "java" THEN NullFindings(file.suffix, code) ELSE <<>>)

\* What has been reported, pass by pass, and by which rules.
Reporting ==
    /\ findings \in Seq(Found(DetectorRules \cup OwnRules))
    /\ pass \in {"settings", "view", "detect"} => line = 1
    /\ pass = "settings" => findings = <<>>
    /\ pass \in {"view", "detect"} => findings \in Seq(Found(ConfigurationRules))
    /\ Detected => \E first \in Seq(Found(ConfigurationRules)) : findings = WithDetectors(first)
    /\ ~IsCode(file.suffix) =>
          \/ pass = "settings"
          \/ pass = "done" /\ findings = ConfigurationFindings(file.suffix, file.lines)

\* The dataflow pass has reported no line it has not reached.
Once ==
    /\ file.suffix # "jsp" /\ pass = "flow" =>
          \A k \in DOMAIN findings : findings[k].rule \in OwnRules => findings[k].line < line
    /\ file.suffix # "jsp" => OnceIn(findings)

IInv == Looked /\ Carried /\ Reporting /\ Once

\* A finding of a detector is of none of the rules of check_file.
LEMMA FoundTells ==
  ASSUME NEW n \in Nat, NEW x \in At(DetectorRules, n) \cup OfFile
  PROVE  x.rule \notin OwnRules
  BY OwnRulesApart DEF At, OfFile

\* A file is a sequence of texts.
LEMMA InitLines == Init => file.lines \in Seq(Text)
  <1> SUFFICES ASSUME Init PROVE file.lines \in Seq(Text)
    OBVIOUS
  <1>1. PICK g \in Families : \E body \in [1 .. g.length -> g.texts] :
          file = [suffix |-> g.suffix, lines |-> g.head \o body \o g.tail]
    BY DEF Init
  <1>2. PICK body \in [1 .. g.length -> g.texts] :
          file = [suffix |-> g.suffix, lines |-> g.head \o body \o g.tail]
    BY <1>1
  <1>3. /\ g.length \in Nat /\ g.texts \subseteq Seq(STRING)
        /\ g.head \in Seq(Seq(STRING)) /\ g.tail \in Seq(Seq(STRING))
    BY FamiliesAssumption
  <1>4. Seq(STRING) \subseteq Text
    <2>1. ASSUME NEW u \in Seq(STRING) PROVE u \in Text
      <3>1. STRING \subseteq Token
        BY TokenHolds, Zenon
      <3> QED
        BY <3>1, SeqOfMore, Zenon DEF Text
    <2> QED
      BY <2>1
  <1>5. ASSUME NEW ls \in Seq(Seq(STRING)) PROVE ls \in Seq(Text)
    BY <1>4
  <1>6. body \in Seq(Text)
    <2>1. body \in [1 .. g.length -> Text]
      BY <1>3, <1>4
    <2>2. \A n \in Nat : [1 .. n -> Text] \subseteq Seq(Text)
      BY Zenon, SeqDef
    <2> QED
      BY <1>3, <2>1, <2>2
  <1>7. g.head \in Seq(Text) /\ g.tail \in Seq(Text)
    BY <1>3, <1>5
  <1>8. g.head \o body \o g.tail \in Seq(Text)
    BY <1>6, <1>7
  <1> QED
    BY <1>2, <1>8

\* The invariant holds of the file that is handed over.
LEMMA Start == Init => IInv
  <1> SUFFICES ASSUME Init PROVE IInv
    OBVIOUS
  <1>1. file.lines \in Seq(Text) /\ Len(file.lines) \in Nat
    BY InitLines
  <1>2. /\ pass = "settings" /\ line = 1 /\ code = <<>> /\ statements = <<>>
        /\ tainted = {} /\ scopes = <<>> /\ braceDepth = 0 /\ findings = <<>>
    BY DEF Init
  <1>3. <<>> \in Seq(Text) /\ Len(<<>>) = 0 /\ DOMAIN <<>> = {}
    BY EmptySeq
  <1>4. Looked
    BY <1>1, <1>2, <1>3 DEF Looked
  <1>5. Carried
    BY <1>1, <1>2 DEF Carried
  <1>6. Reporting
    BY <1>2, EmptySeq DEF Reporting, Detected
  <1>7. Once
    BY <1>2, <1>3 DEF Once, OnceIn
  <1> QED
    BY <1>4, <1>5, <1>6, <1>7 DEF IInv

\* It speaks of nothing but the variables.
LEMMA Unchanged ==
  ASSUME IInv, UNCHANGED vars
  PROVE  IInv'
  <1> USE DEF IInv
  <1>1. UNCHANGED <<file, pass, line, code, statements, tainted, scopes, braceDepth, findings>>
    BY DEF vars
  <1>2. Looked'
    BY <1>1 DEF Looked, IsCode
  <1>3. Carried'
    BY <1>1 DEF Carried
  <1>4. Reporting'
    BY <1>1 DEF Reporting, Found, IsCode, Detected, WithDetectors
  <1>5. Once'
    BY <1>1 DEF Once, OnceIn
  <1> QED
    BY <1>2, <1>3, <1>4, <1>5

(* The check of the configuration: findings of its own rules.              *)
LEMMA SettingsStep ==
  ASSUME IInv, CheckSettings
  PROVE  IInv'
  <1> DEFINE more == ConfigurationFindings(file.suffix, file.lines)
             n == Len(file.lines)
  <1> USE DEF IInv
  <1>1. file.lines \in Seq(Text) /\ n \in Nat
    BY DEF Looked
  <1>2. more \in Seq(At(ConfigurationRules, n) \cup OfFile)
    BY <1>1, ConfigurationPlaces
  <1>3. /\ pass = "settings" /\ findings' = findings \o more
        /\ pass' = IF IsCode(file.suffix) THEN "view" ELSE "done"
        /\ UNCHANGED <<file, line, code, statements, tainted, scopes, braceDepth>>
    BY Zenon DEF CheckSettings
  <1> HIDE DEF more
  <1>4. findings' = more
    BY <1>2, <1>3 DEF Reporting
  <1>5. Looked'
    BY <1>3 DEF Looked, IsCode
  <1>6. Carried'
    BY <1>3 DEF Carried
  <1>7. ConfigurationRules \subseteq DetectorRules
    BY Zenon DEF DetectorRules
  <1>8. more \in Seq(At(DetectorRules, n) \cup OfFile)
    BY <1>1, <1>2, <1>7, MoreRules
  <1>9. Reporting'
    <2>1. findings' \in Seq(Found(DetectorRules \cup OwnRules))'
      BY <1>1, <1>3, <1>4, <1>8, MoreRules DEF Found
    <2>2. findings' \in Seq(Found(ConfigurationRules))' /\ line' = 1
      BY <1>2, <1>3, <1>4 DEF Found, Reporting
    <2>3. findings' = ConfigurationFindings(file.suffix, file.lines)
      BY <1>4 DEF more
    <2> QED
      BY <1>3, <2>1, <2>2, <2>3 DEF Reporting, Detected, IsCode
  <1>10. Once'
    <2>1. OnceIn(findings')
      BY <1>1, <1>4, <1>8, FoundTells, OnceOfOthers
    <2> QED
      BY <1>3, <2>1 DEF Once, OnceIn
  <1> QED
    BY <1>5, <1>6, <1>9, <1>10

(* The code view: one text for each line, and one statement.               *)
LEMMA ViewStep ==
  ASSUME IInv, View
  PROVE  IInv'
  <1> USE DEF IInv
  <1>1. /\ pass = "view" /\ pass' = "detect"
        /\ code' = CodeView(file.suffix, file.lines)
        /\ statements' = LogicalLines(code', MaxContinuation)
        /\ UNCHANGED <<file, line, tainted, scopes, braceDepth, findings>>
    BY Zenon DEF View
  <1>2. file.lines \in Seq(Text) /\ file.suffix \in DOMAIN Lexis /\ IsCode(file.suffix)
    BY <1>1 DEF Looked, IsCode
  <1>3. code' \in Seq(Text) /\ Len(code') = Len(file.lines)
    BY <1>1, <1>2, CodeViewType
  <1>4. statements' \in Seq(Text) /\ Len(statements') = Len(code')
    BY <1>1, <1>3, ContinuationAssumption, LogicalLinesType
  <1>5. Looked'
    BY <1>1, <1>2, <1>3, <1>4 DEF Looked, IsCode
  <1>6. Carried'
    BY <1>1 DEF Carried
  <1>7. Reporting'
    BY <1>1, <1>2 DEF Reporting, Found, Detected, IsCode
  <1>8. Once'
    BY <1>1 DEF Once, OnceIn
  <1> QED
    BY <1>5, <1>6, <1>7, <1>8

(* The detectors: findings of their own rules, and in a page of JSP of a sink. *)
LEMMA DetectStep ==
  ASSUME IInv, Detect
  PROVE  IInv'
  <1> DEFINE n == Len(file.lines)
             D == At(DetectorRules, n)
             a == XxeFindings(file.suffix, code)
             b == MyBatisFindings(file.suffix, code)
             c == JspFindings(file.suffix, code)
             d == SemanticFindings(file.suffix, statements)
             e == IF file.suffix = "java" THEN NullFindings(file.suffix, code) ELSE <<>>
             F == D \cup OfFile
             All == At(DetectorRules \cup OwnRules, n) \cup OfFile
  <1> USE DEF IInv
  <1>1. /\ pass = "detect" /\ pass' = "flow"
        /\ findings' = findings \o a \o b \o c \o d \o e
        /\ UNCHANGED <<file, line, code, statements, tainted, scopes, braceDepth>>
    BY Zenon DEF Detect
  <1>2. /\ n \in Nat /\ code \in Seq(Text) /\ statements \in Seq(Text)
        /\ Len(code) = n /\ Len(statements) = n /\ IsCode(file.suffix)
    BY <1>1 DEF Looked
  <1>3. a \in Seq(D) /\ b \in Seq(D) /\ d \in Seq(D) /\ e \in Seq(D)
    <2>1. \A part \in {XmlRules, SqlRules, SemanticRules, NullRules} : Seq(At(part, n)) \subseteq Seq(D)
      <3>1. \A part \in {XmlRules, SqlRules, SemanticRules, NullRules} : part \subseteq DetectorRules
        BY Zenon DEF DetectorRules
      <3> QED
        BY <1>2, <3>1, MoreRules
    <2>2. e \in {NullFindings(file.suffix, code), <<>>}
      BY Zenon
    <2> HIDE DEF e, D
    <2>3. a \in Seq(D) /\ b \in Seq(D) /\ d \in Seq(D) /\ NullFindings(file.suffix, code) \in Seq(D)
      BY <1>2, <2>1, XxePlaces, MyBatisPlaces, SemanticPlaces, NullPlaces DEF Reports
    <2> QED
      BY <2>2, <2>3, EmptySeq
  <1>4. c \in Seq(At(SinkRules, n)) /\ (file.suffix # "jsp" => c = <<>>)
    BY <1>2, JspPlaces
  <1>5. findings \in Seq(F) /\ line = 1 /\ findings \in Seq(Found(ConfigurationRules))
    <2>1. ConfigurationRules \subseteq DetectorRules
      BY Zenon DEF DetectorRules
    <2>2. findings \in Seq(At(ConfigurationRules, n) \cup OfFile) /\ line = 1
      BY <1>1 DEF Reporting, Found
    <2> QED
      BY <1>2, <2>1, <2>2, MoreRules DEF Found
  <1> HIDE DEF a, b, c, d, e
  <1>6. findings' \in Seq(All)
    <2>1. Seq(F) \subseteq Seq(All) /\ Seq(D) \subseteq Seq(All) /\ Seq(At(SinkRules, n)) \subseteq Seq(All)
      <3>1. DetectorRules \subseteq DetectorRules \cup OwnRules /\ SinkRules \subseteq DetectorRules \cup OwnRules
        BY Zenon DEF OwnRules
      <3>2. Seq(F) \subseteq Seq(All) /\ Seq(D) \subseteq Seq(All)
        BY <1>2, <3>1, MoreRules
      <3>3. Seq(At(SinkRules, n)) \subseteq Seq(All)
        BY <1>2, <3>1, MoreRules
      <3> QED
        BY <3>2, <3>3
    <2> HIDE DEF F, D, All
    <2>2. /\ findings \in Seq(All) /\ a \in Seq(All) /\ b \in Seq(All)
          /\ c \in Seq(All) /\ d \in Seq(All) /\ e \in Seq(All)
      BY <1>3, <1>4, <1>5, <2>1
    <2> QED
      BY <1>1, <2>2
  <1>7. file.suffix # "jsp" => findings' \in Seq(F)
    <2>1. Seq(D) \subseteq Seq(F)
      BY <1>2, MoreRules
    <2> HIDE DEF F, D
    <2>2. a \in Seq(F) /\ b \in Seq(F) /\ d \in Seq(F) /\ e \in Seq(F) /\ <<>> \in Seq(F)
      BY <1>3, <2>1, EmptySeq
    <2> QED
      BY <1>1, <1>4, <1>5, <2>2
  <1>8. file.suffix # "jsp" => OnceIn(findings') /\ \A k \in DOMAIN findings' : findings'[k].rule \notin OwnRules
    <2>1. \A x \in F : x.rule \notin OwnRules
      BY <1>2, FoundTells
    <2> HIDE DEF F
    <2>2. \A s \in Seq(F) : OnceIn(s)
      BY <2>1, OnceOfOthers
    <2>3. \A s \in Seq(F) : \A k \in DOMAIN s : s[k] \in F
      OBVIOUS
    <2> QED
      BY <1>7, <2>1, <2>2, <2>3
  <1>9. Looked'
    BY <1>1, <1>2 DEF Looked, IsCode
  <1>10. Carried'
    BY <1>1 DEF Carried
  <1>11. Reporting'
    <2>1. findings' = WithDetectors(findings)
      BY <1>1, Zenon DEF WithDetectors, a, b, c, d, e
    <2>2. \E first \in Seq(Found(ConfigurationRules))' : findings' = WithDetectors(first)'
      BY <1>1, <1>5, <2>1 DEF WithDetectors, Found
    <2>3. findings' \in Seq(Found(DetectorRules \cup OwnRules))'
      BY <1>1, <1>6 DEF Found
    <2> QED
      BY <1>1, <1>2, <2>2, <2>3 DEF Reporting, IsCode
  <1>12. Once'
    BY <1>1, <1>8 DEF Once, OnceIn
  <1> QED
    BY <1>9, <1>10, <1>11, <1>12

(* How many scopes stay open, and the taint that is left.                  *)
LEMMA OpenScopesTells ==
  ASSUME NEW level, scopes \in Seq(Scopes)
  PROVE  OpenScopes(level) \in 0..Len(scopes)
  <1> DEFINE S == {i \in DOMAIN scopes : scopes[i].level < level}
             T == {0} \cup S
  <1>1. Len(scopes) \in Nat /\ DOMAIN scopes = 1..Len(scopes)
    OBVIOUS
  <1>2. S \subseteq DOMAIN scopes /\ OpenScopes(level) = Max(T)
    BY Zenon DEF OpenScopes
  <1> HIDE DEF S
  <1>3. CASE S = {}
    <2>1. T = {0}
      BY <1>3
    <2>2. Max({0}) = 0
      BY DEF Max
    <2> HIDE DEF T
    <2>3. Max(T) = 0
      BY <2>1, <2>2
    <2> QED
      BY <1>1, <1>2, <2>3
  <1>4. CASE S # {}
    <2> DEFINE m == Max(S)
    <2>1. m \in S /\ \A n \in S : n <= m
      BY <1>1, <1>2, <1>4, MaxOfSet
    <2>2. T \in SUBSET (0..Len(scopes)) /\ m \in T /\ \A n \in T : n <= m
      BY <1>1, <1>2, <2>1
    <2> HIDE DEF m
    <2>3. Max(T) \in T
      BY <2>2, Zenon DEF Max
    <2> HIDE DEF T
    <2>4. Max(T) \in 0..Len(scopes)
      BY <2>2, <2>3
    <2> QED
      BY <1>2, <2>4
  <1> QED
    BY <1>3, <1>4

\* The taint that a scope gives back is a set of names.
LEMMA AfterPopsType ==
  ASSUME NEW open \in 0..Len(scopes), scopes \in Seq(Scopes), tainted \subseteq Names
  PROVE  TaintAfterPops(open) \subseteq Names
  <1>1. CASE open < Len(scopes)
    <2>1. open + 1 \in DOMAIN scopes
      BY <1>1
    <2>2. scopes[open + 1] \in Scopes
      BY <2>1
    <2>3. scopes[open + 1].tainted \subseteq Names
      BY <2>2 DEF Scopes
    <2> QED
      BY <1>1, <2>3, Zenon DEF TaintAfterPops
  <1>2. CASE ~ (open < Len(scopes))
    BY <1>2, Zenon DEF TaintAfterPops
  <1> QED
    BY <1>1, <1>2

\* An assignment adds a name or takes one away.
LEMMA AfterAssignmentType ==
  ASSUME NEW w, NEW names \in SUBSET Names
  PROVE  AfterAssignment(w, names) \subseteq Names
  <1> DEFINE a == Assigned(w)
             S == {k \in 1 .. Len(w) - 2 :
                      /\ w[k] \in Names /\ w[k + 1] \in {"=", "=="}
                      /\ SubSeq(w, 1, k - 1) \in
                           {<<>>, <<"const">>, <<"type">>, <<"const", "type">>, <<"return">>}}
             t == HasTaint(SubSeq(w, a + 2, Len(w)), names)
  <1>1. a = First(S)
    BY Zenon DEF Assigned
  <1>2. \A k \in S : w[k] \in Names
    BY Zenon
  <1>3. S \in SUBSET Nat
    OBVIOUS
  <1>4. AfterAssignment(w, names) = IF a = 0 THEN names ELSE IF t THEN names \cup {w[a]} ELSE names \ {w[a]}
    BY Zenon DEF AfterAssignment
  <1> HIDE DEF a, S, t
  <1>5. a # 0 => w[a] \in Names
    BY <1>1, <1>2, <1>3, FirstTells
  <1> QED
    BY <1>4, <1>5

(* A line of the dataflow pass that is empty or a comment.                 *)
LEMMA FlowSkipStep ==
  ASSUME IInv, FlowSkip
  PROVE  IInv'
  <1> USE DEF IInv
  <1>1. /\ pass = "flow" /\ line <= Len(statements) /\ line' = line + 1
        /\ UNCHANGED <<file, pass, code, statements, tainted, scopes, braceDepth, findings>>
    BY Zenon DEF FlowSkip
  <1>2. Len(statements) = Len(file.lines) /\ Len(file.lines) \in Nat
    BY <1>1 DEF Looked
  <1>3. Looked'
    BY <1>1 DEF Looked, IsCode
  <1>4. Carried'
    BY <1>1, <1>2 DEF Carried
  <1>5. Reporting'
    <2>1. pass' = "flow" /\ line' # 1 /\ IsCode(file.suffix)' /\ ~Detected'
      BY <1>1, <1>2 DEF Looked, Carried, IsCode, Detected
    <2> QED
      BY <1>1, <2>1 DEF Reporting, Found
  <1>6. Once'
    <2>1. findings \in Seq(Found(DetectorRules \cup OwnRules)) /\ line \in Nat
      BY <1>2 DEF Carried, Reporting
    <2>2. \A k \in DOMAIN findings : findings[k].line \in Nat
      <3> DEFINE A == Found(DetectorRules \cup OwnRules)
      <3>1. \A x \in A : x.line \in Nat
        BY <1>2 DEF Found, At, OfFile
      <3> HIDE DEF A
      <3>2. findings \in Seq(A)
        BY <2>1 DEF A
      <3> QED
        BY <3>1, <3>2
    <2>3. \A k \in DOMAIN findings : findings[k].line < line => findings[k].line < line'
      BY <1>1, <2>1, <2>2
    <2> QED
      BY <1>1, <2>3 DEF Once, OnceIn
  <1> QED
    BY <1>3, <1>4, <1>5, <1>6

(* A line of the dataflow pass that is read.                               *)
LEMMA FlowLineStep ==
  ASSUME IInv, FlowLine
  PROVE  IInv'
  <1> DEFINE N == Len(file.lines)
             w == Words(statements[line])
             scoped == file.suffix \in {"py", "js"}
             level == IF file.suffix = "py" THEN Indentation(statements[line]) ELSE braceDepth
             open == IF scoped THEN OpenScopes(level) ELSE 0
             restored == TaintAfterPops(open)
             starts == StartsFunction(w, file.suffix)
             known == AfterAssignment(w, IF starts THEN {} ELSE restored)
             pushed == IF starts /\ scoped THEN <<[level |-> level, tainted |-> restored]>> ELSE <<>>
             more == FlowFindings(w, known)
             delta == IF file.suffix = "js" THEN BraceDelta(statements[line]) ELSE 0
             A == Found(DetectorRules \cup OwnRules)
  <1> USE DEF IInv
  <1>1. /\ pass = "flow" /\ line <= Len(statements) /\ line' = line + 1
        /\ scopes' = SubSeq(scopes, 1, open) \o pushed
        /\ tainted' = known
        /\ findings' = findings \o more
        /\ braceDepth' = braceDepth + delta
        /\ UNCHANGED <<file, pass, code, statements>>
    <2>1. pass = "flow" /\ line <= Len(statements) /\ line' = line + 1
      BY Zenon DEF FlowLine
    <2>2. scopes' = SubSeq(scopes, 1, open) \o pushed /\ tainted' = known
      BY Zenon DEF FlowLine
    <2>3. findings' = findings \o more /\ braceDepth' = braceDepth + delta
      BY Zenon DEF FlowLine
    <2>4. UNCHANGED <<file, pass, code, statements>>
      BY Zenon DEF FlowLine
    <2> QED
      BY Zenon, <2>1, <2>2, <2>3, <2>4
  <1>2. /\ N \in Nat /\ Len(statements) = N /\ statements \in Seq(Text) /\ line \in 1..N /\ line \in Nat
        /\ findings \in Seq(A) /\ scopes \in Seq(Scopes) /\ braceDepth \in Int /\ tainted \subseteq Names
    <2>0. pass = "flow" /\ line <= Len(statements)
      BY Zenon, <1>1
    <2>1. N \in Nat /\ Len(statements) = N /\ statements \in Seq(Text)
      BY <2>0 DEF Looked
    <2>2. line \in Nat /\ line >= 1 /\ scopes \in Seq(Scopes) /\ braceDepth \in Int /\ tainted \subseteq Names
      BY <2>0, <2>1 DEF Carried
    <2>3. line \in 1..N
      BY <2>0, <2>1, <2>2
    <2>4. findings \in Seq(A)
      BY <2>0 DEF Reporting
    <2> QED
      BY Zenon, <2>1, <2>2, <2>3, <2>4
  <1>3. statements[line] \in Text
    BY <1>2
  <1>4. level \in Int /\ delta \in Int
    <2>1. Indentation(statements[line]) \in Int /\ BraceDelta(statements[line]) \in Int
      BY <1>3, IndentationType, BalanceType
    <2>2. level \in {Indentation(statements[line]), braceDepth} /\ delta \in {BraceDelta(statements[line]), 0}
      BY Zenon
    <2> HIDE DEF level, delta
    <2> QED
      BY <1>2, <2>1, <2>2
  <1>5. open \in 0..Len(scopes)
    <2>1. OpenScopes(level) \in 0..Len(scopes) /\ Len(scopes) \in Nat
      BY <1>2, OpenScopesTells
    <2>2. open \in {OpenScopes(level), 0}
      BY Zenon
    <2> HIDE DEF open, level
    <2> QED
      BY <2>1, <2>2
  <1> HIDE DEF level, open, delta
  <1>6. restored \subseteq Names
    BY <1>2, <1>5, AfterPopsType
  <1> HIDE DEF restored
  <1>7. known \subseteq Names
    <2> DEFINE before == IF starts THEN {} ELSE restored
    <2>1. before \in {{}, restored}
      BY Zenon
    <2>2. before \in SUBSET Names
      BY <1>6, <2>1
    <2> HIDE DEF before, w
    <2>3. AfterAssignment(w, before) \subseteq Names
      BY <2>2, AfterAssignmentType
    <2> QED
      BY <2>3 DEF before
  <1> HIDE DEF known
  <1>8. scopes' \in Seq(Scopes)
    <2> DEFINE scope == [level |-> level, tainted |-> restored]
    <2>1. scope \in Scopes
      BY <1>4, <1>6 DEF Scopes
    <2>2. pushed \in {<<scope>>, <<>>}
      BY Zenon
    <2> HIDE DEF scope, pushed
    <2>5. <<scope>> \in Seq(Scopes) /\ <<>> \in Seq(Scopes)
      BY <2>1
    <2>3. pushed \in Seq(Scopes)
      BY <2>2, <2>5
    <2>4. SubSeq(scopes, 1, open) \in Seq(Scopes)
      BY <1>2, <1>5
    <2> QED
      BY <1>1, <2>3, <2>4
  <1> HIDE DEF pushed
  <1>9. more = <<>> \/ \E r \in SinkRules : more = <<Confirmed(r, line)>>
    BY FlowPlaces
  <1> HIDE DEF more, w
  <1>10. more \in Seq(A) /\ OnceIn(more) /\ \A k \in DOMAIN more : more[k].line = line
    <2>1. CASE more = <<>>
      BY <2>1, EmptySeq DEF OnceIn
    <2>2. ASSUME NEW r \in SinkRules, more = <<Confirmed(r, line)>>
          PROVE  more \in Seq(A) /\ OnceIn(more) /\ \A k \in DOMAIN more : more[k].line = line
      <3> DEFINE x == Confirmed(r, line)
      <3>1. x \in A /\ x.line = line
        <4>1. r \in DetectorRules \cup OwnRules
          BY DEF OwnRules
        <4>2. x \in At(DetectorRules \cup OwnRules, N)
          BY <1>2, <4>1, OnePlace
        <4> QED
          BY <4>2 DEF Found, Confirmed
      <3> HIDE DEF A, x
      <3>2. more = <<x>> /\ more \in Seq(A) /\ DOMAIN more = {1} /\ more[1] = x
        BY <2>2, <3>1 DEF x
      <3> QED
        BY <3>1, <3>2 DEF OnceIn
    <2> QED
      BY <1>9, <2>1, <2>2
  <1>11. \A k \in DOMAIN findings : findings[k].line \in Nat
    <2>1. \A x \in A : x.line \in Nat
      BY <1>2 DEF Found, At, OfFile
    <2> HIDE DEF A
    <2> QED
      BY <1>2, <2>1
  <1> HIDE DEF A
  <1>12. Looked'
    BY <1>1 DEF Looked, IsCode
  <1>13. Carried'
    <2>1. line' \in 1..N + 1 /\ braceDepth' \in Int
      BY <1>1, <1>2, <1>4
    <2> QED
      BY <1>1, <1>7, <1>8, <2>1 DEF Carried
  <1>14. Reporting'
    <2>1. findings' \in Seq(A)
      BY <1>1, <1>2, <1>10
    <2>2. pass' = "flow" /\ line' # 1 /\ IsCode(file.suffix)' /\ ~Detected'
      BY <1>1, <1>2 DEF Looked, IsCode, Detected
    <2> QED
      BY <1>1, <2>1, <2>2 DEF Reporting, Found, A
  <1>15. Once'
    <2> SUFFICES ASSUME file.suffix # "jsp"
                 PROVE  /\ OnceIn(findings')
                        /\ \A k \in DOMAIN findings' : findings'[k].rule \in OwnRules => findings'[k].line < line'
      BY <1>1 DEF Once, OnceIn
    <2>1. /\ OnceIn(findings)
          /\ \A k \in DOMAIN findings : findings[k].rule \in OwnRules => findings[k].line < line
      BY <1>1 DEF Once
    <2>2. Apart(findings, more)
      BY <1>2, <1>10, <1>11, <2>1 DEF Apart
    <2>3. OnceIn(findings')
      BY <1>1, <1>2, <1>10, <2>1, <2>2, OnceAppended
    <2>4. ASSUME NEW k \in DOMAIN findings', findings'[k].rule \in OwnRules PROVE findings'[k].line < line'
      <3>1. CASE k \in DOMAIN findings
        <4>1. findings'[k] = findings[k]
          BY <1>1, <1>2, <1>10, <3>1
        <4> QED
          BY <1>1, <1>2, <1>11, <2>1, <2>4, <3>1, <4>1
      <3>2. CASE k \notin DOMAIN findings
        <4>1. k - Len(findings) \in DOMAIN more /\ findings'[k] = more[k - Len(findings)]
          BY <1>1, <1>2, <1>10, <2>4, <3>2
        <4>2. findings'[k].line = line
          BY <1>10, <4>1
        <4> QED
          BY <1>1, <1>2, <4>2
      <3> QED
        BY <3>1, <3>2
    <2> QED
      BY <2>3, <2>4
  <1> QED
    BY <1>12, <1>13, <1>14, <1>15

\* The dataflow pass hands over to the rules.
LEMMA FlowEndsStep ==
  ASSUME IInv, FlowEnds
  PROVE  IInv'
  <1> USE DEF IInv
  <1>1. /\ pass = "flow" /\ pass' = "rules" /\ line' = 1
        /\ UNCHANGED <<file, code, statements, tainted, scopes, braceDepth, findings>>
    BY Zenon DEF FlowEnds
  <1>2. Len(file.lines) \in Nat
    BY DEF Looked
  <1>3. Looked'
    BY <1>1 DEF Looked, IsCode
  <1>4. Carried'
    BY <1>1, <1>2 DEF Carried
  <1>5. Reporting'
    <2>1. pass' = "rules" /\ IsCode(file.suffix)' /\ ~Detected'
      BY <1>1 DEF Looked, IsCode, Detected
    <2> QED
      BY <1>1, <2>1 DEF Reporting, Found
  <1>6. Once'
    BY <1>1 DEF Once, OnceIn
  <1> QED
    BY <1>3, <1>4, <1>5, <1>6

(* A line of the rules: only what is not listed is raised.                 *)
LEMMA RuleLineStep ==
  ASSUME IInv, RuleLine
  PROVE  IInv'
  <1> DEFINE N == Len(file.lines)
             w == Words(statements[line])
             rules == LineRules(file.suffix)
             raised(r) == /\ w # <<>> /\ ~IsComment(w) /\ RuleMatches(r, w)
                          /\ ~Seen(r, line) /\ ~Suppressed(r, w, line)
             set == {r \in OwnRules : raised(r)}
             more == Raised(rules, set, line)
             own == At(OwnRules, N)
             A == At(DetectorRules \cup OwnRules, N) \cup OfFile
  <1> USE DEF IInv
  <1>1. /\ pass = "rules" /\ line <= Len(statements) /\ line' = line + 1
        /\ findings' = findings \o FlattenSeq([i \in DOMAIN rules |->
                           IF raised(rules[i]) THEN <<Candidate(rules[i], line)>> ELSE <<>>])
        /\ UNCHANGED <<file, pass, code, statements, tainted, scopes, braceDepth>>
    BY Zenon DEF RuleLine
  <1>2. N \in Nat /\ Len(statements) = N /\ line \in 1..N /\ line \in Nat /\ findings \in Seq(A)
    BY <1>1 DEF Looked, Carried, Reporting, Found
  <1>3. rules \in Seq(OwnRules) /\ \A i, j \in DOMAIN rules : rules[i] = rules[j] => i = j
    BY LineRulesType
  <1>4. \A r \in set : ~Seen(r, line)
    BY Zenon
  <1>5. \A r \in OwnRules : raised(r) <=> r \in set
    BY Zenon
  <1> HIDE DEF raised, set, rules
  <1>6. findings' = findings \o more
    <2>1. \A i \in DOMAIN rules : raised(rules[i]) <=> rules[i] \in set
      BY <1>3, <1>5
    <2> QED
      BY <1>1, <2>1 DEF Raised
  <1>7. more \in Seq(own) /\ OnceIn(more) /\ \A k \in DOMAIN more : more[k].line = line /\ more[k].rule \in set
    BY <1>2, <1>3, RaisedTells
  <1> HIDE DEF more
  <1>8. more \in Seq(A)
    <2>1. OwnRules \subseteq DetectorRules \cup OwnRules
      OBVIOUS
    <2> QED
      BY <1>2, <1>7, <2>1, MoreRules
  <1> HIDE DEF own, A
  <1>9. Apart(findings, more)
    <2>1. ASSUME NEW i \in DOMAIN findings, NEW j \in DOMAIN more,
                 findings[i].rule = more[j].rule, findings[i].line = more[j].line
          PROVE  FALSE
      <3>1. more[j].line = line /\ ~Seen(more[j].rule, line)
        BY <1>4, <1>7
      <3> QED
        BY <2>1, <3>1 DEF Seen
    <2> QED
      BY <2>1 DEF Apart
  <1>10. findings' \in Seq(A)
    BY <1>2, <1>6, <1>8
  <1>11. Looked'
    BY <1>1 DEF Looked, IsCode
  <1>12. Carried'
    BY <1>1, <1>2 DEF Carried
  <1>13. Reporting'
    <2>1. pass' = "rules" /\ IsCode(file.suffix)' /\ ~Detected'
      BY <1>1 DEF Looked, IsCode, Detected
    <2> QED
      BY <1>1, <1>10, <2>1 DEF Reporting, Found, A
  <1>14. Once'
    <2>1. OnceIn(findings) => OnceIn(findings')
      BY <1>2, <1>6, <1>7, <1>8, <1>9, OnceAppended
    <2> QED
      BY <1>1, <2>1 DEF Once, OnceIn
  <1> QED
    BY <1>11, <1>12, <1>13, <1>14

\* The findings of the file are complete.
LEMMA RulesEndStep ==
  ASSUME IInv, RulesEnd
  PROVE  IInv'
  <1> USE DEF IInv
  <1>1. /\ pass = "rules" /\ pass' = "done"
        /\ UNCHANGED <<file, line, code, statements, tainted, scopes, braceDepth, findings>>
    BY Zenon DEF RulesEnd
  <1>2. Looked'
    BY <1>1 DEF Looked, IsCode
  <1>3. Carried'
    BY <1>1 DEF Carried
  <1>4. Reporting'
    <2>1. pass' = "done" /\ IsCode(file.suffix)' /\ ~Detected'
      BY <1>1 DEF Looked, IsCode, Detected
    <2> QED
      BY <1>1, <2>1 DEF Reporting, Found
  <1>5. Once'
    BY <1>1 DEF Once, OnceIn
  <1> QED
    BY <1>2, <1>3, <1>4, <1>5

\* Every step keeps the invariant.
LEMMA Inductive == IInv /\ [Next]_vars => IInv'
  <1> SUFFICES ASSUME IInv, [Next]_vars PROVE IInv'
    OBVIOUS
  <1>1. CASE CheckSettings
    BY <1>1, SettingsStep
  <1>2. CASE View
    BY <1>2, ViewStep
  <1>3. CASE Detect
    BY <1>3, DetectStep
  <1>4. CASE FlowSkip
    BY <1>4, FlowSkipStep
  <1>5. CASE FlowLine
    BY <1>5, FlowLineStep
  <1>6. CASE FlowEnds
    BY <1>6, FlowEndsStep
  <1>7. CASE RuleLine
    BY <1>7, RuleLineStep
  <1>8. CASE RulesEnd
    BY <1>8, RulesEndStep
  <1>9. CASE UNCHANGED vars
    BY <1>9, Unchanged
  <1> QED
    BY <1>1, <1>2, <1>3, <1>4, <1>5, <1>6, <1>7, <1>8, <1>9 DEF Next, Returned

(* The invariant holds of every state a run of check_file reaches.         *)
THEOREM Invariance == Spec => []IInv
  BY Start, Inductive, PTL DEF Spec

(* Every variable of the check of a file keeps its type, and every finding *)
(* is at a line of the file, or about the file when its rule is (TypeOK).  *)
THEOREM Typing == Spec => []TypeOK
  <1>1. IInv => TypeOK
    <2> SUFFICES ASSUME IInv PROVE TypeOK
      OBVIOUS
    <2> USE DEF IInv
    <2> DEFINE A == Found(DetectorRules \cup OwnRules)
    <2>1. Len(file.lines) \in Nat /\ DOMAIN file.lines = 1..Len(file.lines)
      BY DEF Looked
    <2>2. \A i \in DOMAIN scopes : scopes[i].tainted \subseteq Names
      <3>1. \A i \in DOMAIN scopes : scopes[i] \in Scopes
        BY DEF Carried
      <3> QED
        BY <3>1 DEF Scopes
    <2>3. \A x \in A : /\ \/ x.line \in DOMAIN file.lines
                          \/ x.line = 0 /\ x.rule \in {"env-file", "private-key", "docker-no-user"}
                       /\ x.status \in {"confirmed", "needs_review"}
      BY <2>1 DEF Found, At, OfFile, FileRules
    <2>4. \A i \in DOMAIN findings : findings[i] \in A
      <3>1. findings \in Seq(A)
        BY DEF Reporting
      <3> HIDE DEF A
      <3> QED
        BY <3>1
    <2> HIDE DEF A
    <2>5. \A i \in DOMAIN findings :
             /\ \/ findings[i].line \in DOMAIN file.lines
                \/ findings[i].line = 0 /\ findings[i].rule \in {"env-file", "private-key", "docker-no-user"}
             /\ findings[i].status \in {"confirmed", "needs_review"}
      BY <2>3, <2>4, Zenon
    <2>6. /\ pass \in {"settings", "view", "detect", "flow", "rules", "done"}
          /\ line \in 1 .. Len(file.lines) + 1
          /\ Len(code) \in {0, Len(file.lines)} /\ Len(statements) = Len(code)
          /\ tainted \subseteq Names /\ braceDepth \in Int
      BY DEF Looked, Carried
    <2> QED
      BY <2>2, <2>5, <2>6, Zenon DEF TypeOK
  <1> QED
    BY <1>1, Invariance, PTL

(* A rule reports a line once: no candidate repeats a flow that has been   *)
(* confirmed at its line, and no line is read twice (ReportedOnce).        *)
THEOREM ReportedOnceOnly == Spec => []ReportedOnce
  <1>1. IInv => ReportedOnce
    BY DEF IInv, Once, OnceIn, OwnRules, ReportedOnce
  <1> QED
    BY <1>1, Invariance, PTL

(* What the rules read of a file is its live text: the code view of each pass  *)
(* is what a lexer of the language leaves (CommentsRemoved).               *)
THEOREM LiveTextOnly == Spec => []CommentsRemoved
  <1>1. IInv => CommentsRemoved
    BY CodeViewIsLive DEF IInv, Looked, CommentsRemoved, Lexable, IsCode
  <1> QED
    BY <1>1, Invariance, PTL

-----------------------------------------------------------------------------
(* What a rule reports, detector by detector.                              *)

\* The lines that a sequence of findings reports for a rule.
Told(rule, s) == {s[k].line : k \in {j \in DOMAIN s : s[j].rule = rule}}

\* The lines a file is reported at are those its findings tell.
LEMMA LinesTold ==
  ASSUME NEW rule
  PROVE  Lines(rule) = Told(rule, findings)
  BY DEF Lines, Told, Range

\* Two sequences in a row tell what either of them tells.
LEMMA ToldAppended ==
  ASSUME NEW A, NEW s \in Seq(A), NEW t \in Seq(A), NEW rule
  PROVE  Told(rule, s \o t) = Told(rule, s) \cup Told(rule, t)
  <1>1. ASSUME NEW k \in DOMAIN s PROVE k \in DOMAIN (s \o t) /\ (s \o t)[k] = s[k]
    OBVIOUS
  <1>2. ASSUME NEW k \in DOMAIN t PROVE Len(s) + k \in DOMAIN (s \o t) /\ (s \o t)[Len(s) + k] = t[k]
    OBVIOUS
  <1>3. ASSUME NEW k \in DOMAIN (s \o t)
        PROVE  \/ k \in DOMAIN s /\ (s \o t)[k] = s[k]
               \/ k - Len(s) \in DOMAIN t /\ (s \o t)[k] = t[k - Len(s)]
    OBVIOUS
  <1> DEFINE both == s \o t
  <1> HIDE DEF both
  <1>4. Told(rule, both) \subseteq Told(rule, s) \cup Told(rule, t)
    BY <1>3 DEF Told, both
  <1>5. Told(rule, s) \subseteq Told(rule, both)
    BY <1>1 DEF Told, both
  <1>6. Told(rule, t) \subseteq Told(rule, both)
    <2>1. \A k \in DOMAIN t : \E j \in DOMAIN both : both[j] = t[k]
      BY <1>2 DEF both
    <2> QED
      BY <2>1 DEF Told
  <1> QED
    BY <1>4, <1>5, <1>6 DEF both

\* A sequence without findings of a rule tells nothing for it.
LEMMA ToldOther ==
  ASSUME NEW A, NEW s \in Seq(A), NEW rule, \A x \in A : x.rule # rule
  PROVE  Told(rule, s) = {}
  BY DEF Told

\* What is gathered over the places of a text tells what one of them tells.
LEMMA ToldGathered ==
  ASSUME NEW A, NEW n \in Nat, NEW ss \in [1..n -> Seq(A)], NEW rule
  PROVE  \A l : l \in Told(rule, FlattenSeq(ss)) <=> \E i \in 1..n : l \in Told(rule, ss[i])
  <1> DEFINE all == FlattenSeq(ss)
  <1>1. ss \in Seq(Seq(A)) /\ Len(ss) = n
    BY FunctionIsSeq
  <1>2. all \in Seq(A)
    BY <1>1, FlattenStays
  <1>3. ASSUME NEW k \in 1..Len(all) PROVE \E i \in 1..n : \E j \in 1..Len(ss[i]) : ss[i][j] = all[k]
    BY <1>1, FlattenItem
  <1>4. ASSUME NEW i \in 1..n, NEW j \in 1..Len(ss[i]) PROVE \E k \in 1..Len(all) : all[k] = ss[i][j]
    <2>1. IsItem(ss[i][j], ss[i]) /\ i \in 1..Len(ss)
      BY Zenon, <1>1 DEF IsItem
    <2>2. IsItem(ss[i][j], FlattenSeq(ss))
      BY Zenon, <1>1, <2>1, FlattenHolds
    <2> QED
      BY Zenon, <2>2 DEF IsItem
  <1>5. DOMAIN all = 1..Len(all) /\ \A i \in 1..n : DOMAIN ss[i] = 1..Len(ss[i])
    BY <1>2
  <1> HIDE DEF all
  <1>6. ASSUME NEW l \in Told(rule, all) PROVE \E i \in 1..n : l \in Told(rule, ss[i])
    <2>1. PICK k \in 1..Len(all) : all[k].rule = rule /\ l = all[k].line
      BY <1>5, <1>6 DEF Told
    <2>2. PICK i \in 1..n : \E j \in 1..Len(ss[i]) : ss[i][j] = all[k]
      BY <1>3
    <2>3. l \in Told(rule, ss[i])
      BY <1>5, <2>1, <2>2 DEF Told
    <2> QED
      BY <2>3
  <1>7. ASSUME NEW i \in 1..n, NEW l \in Told(rule, ss[i]) PROVE l \in Told(rule, all)
    <2>1. PICK j \in 1..Len(ss[i]) : ss[i][j].rule = rule /\ l = ss[i][j].line
      BY <1>5, <1>7 DEF Told
    <2>2. PICK k \in 1..Len(all) : all[k] = ss[i][j]
      BY <1>4
    <2> QED
      BY <1>5, <2>1, <2>2 DEF Told
  <1> QED
    BY <1>6, <1>7 DEF all

(* When the detectors have reported, what a rule of one of them tells is   *)
(* what this detector tells.                                               *)
LEMMA ToldByDetectors ==
  ASSUME IInv, Detected
  PROVE  /\ Lines("xxe") = Told("xxe", XxeFindings(file.suffix, code))
         /\ \A rule \in SemanticRules : Lines(rule) = Told(rule, SemanticFindings(file.suffix, statements))
  <1> DEFINE n == Len(file.lines)
             xml == XxeFindings(file.suffix, code)
             sql == MyBatisFindings(file.suffix, code)
             jsp == JspFindings(file.suffix, code)
             sem == SemanticFindings(file.suffix, statements)
             nul == IF file.suffix = "java" THEN NullFindings(file.suffix, code) ELSE <<>>
             All == At(DetectorRules \cup OwnRules, n) \cup OfFile
  <1> USE DEF IInv
  <1>1. /\ n \in Nat /\ code \in Seq(Text) /\ statements \in Seq(Text)
        /\ Len(code) = n /\ Len(statements) = n
    BY DEF Looked, Detected
  <1>2. PICK first \in Seq(Found(ConfigurationRules)) : findings = WithDetectors(first)
    BY DEF Reporting
  <1>3. findings = first \o xml \o sql \o jsp \o sem \o nul
    BY <1>2, Zenon DEF WithDetectors
  <1>4. /\ xml \in Seq(At(XmlRules, n)) /\ sql \in Seq(At(SqlRules, n))
        /\ jsp \in Seq(At(SinkRules, n)) /\ sem \in Seq(At(SemanticRules, n))
        /\ first \in Seq(At(ConfigurationRules, n) \cup OfFile)
    <2>1. /\ xml \in Seq(At(XmlRules, n)) /\ sql \in Seq(At(SqlRules, n))
          /\ jsp \in Seq(At(SinkRules, n)) /\ sem \in Seq(At(SemanticRules, n))
      BY <1>1, XxePlaces, MyBatisPlaces, JspPlaces, SemanticPlaces DEF Reports
    <2> QED
      BY <1>2, <2>1 DEF Found
  <1>5. nul \in Seq(At(NullRules, n))
    <2>1. NullFindings(file.suffix, code) \in Seq(At(NullRules, n))
      BY <1>1, NullPlaces DEF Reports
    <2>2. nul \in {NullFindings(file.suffix, code), <<>>}
      BY Zenon
    <2> HIDE DEF nul
    <2> QED
      BY <2>1, <2>2, EmptySeq
  <1> HIDE DEF xml, sql, jsp, sem, nul
  <1>6. /\ XmlRules \subseteq DetectorRules \cup OwnRules /\ SqlRules \subseteq DetectorRules \cup OwnRules
        /\ SinkRules \subseteq DetectorRules \cup OwnRules /\ SemanticRules \subseteq DetectorRules \cup OwnRules
        /\ ConfigurationRules \subseteq DetectorRules \cup OwnRules /\ NullRules \subseteq DetectorRules \cup OwnRules
    BY Zenon DEF DetectorRules, OwnRules
  <1>7. xml \in Seq(All) /\ sql \in Seq(All) /\ jsp \in Seq(All)
       /\ sem \in Seq(All) /\ nul \in Seq(All) /\ first \in Seq(All)
    BY <1>1, <1>4, <1>5, <1>6, MoreRules
  <1> HIDE DEF All
  <1>8. ASSUME NEW rule
        PROVE  Lines(rule) = Told(rule, first) \cup Told(rule, xml) \cup Told(rule, sql)
                                \cup Told(rule, jsp) \cup Told(rule, sem) \cup Told(rule, nul)
    <2> DEFINE a == first \o xml
               b == a \o sql
               c == b \o jsp
               d == c \o sem
    <2>1. a \in Seq(All) /\ Told(rule, a) = Told(rule, first) \cup Told(rule, xml)
      BY <1>7, ToldAppended
    <2> HIDE DEF a
    <2>2. b \in Seq(All) /\ Told(rule, b) = Told(rule, a) \cup Told(rule, sql)
      BY <1>7, <2>1, ToldAppended
    <2> HIDE DEF b
    <2>3. c \in Seq(All) /\ Told(rule, c) = Told(rule, b) \cup Told(rule, jsp)
      BY <1>7, <2>2, ToldAppended
    <2> HIDE DEF c
    <2>4. d \in Seq(All) /\ Told(rule, d) = Told(rule, c) \cup Told(rule, sem)
      BY <1>7, <2>3, ToldAppended
    <2> HIDE DEF d
    <2>5. Told(rule, d \o nul) = Told(rule, d) \cup Told(rule, nul)
      BY <1>7, <2>4, ToldAppended
    <2>6. findings = d \o nul
      BY <1>3 DEF a, b, c, d
    <2> QED
      BY <2>1, <2>2, <2>3, <2>4, <2>5, <2>6, LinesTold
  <1>9. ASSUME NEW rules, NEW rule, rule \notin rules PROVE \A x \in At(rules, n) : x.rule # rule
    BY <1>9 DEF At
  <1>10. ASSUME NEW rules, NEW s \in Seq(At(rules, n)), NEW rule, rule \notin rules PROVE Told(rule, s) = {}
    <2>1. \A x \in At(rules, n) : x.rule # rule
      BY <1>9, <1>10
    <2> QED
      BY <1>10, <2>1, ToldOther
  <1>11. ASSUME NEW rule \in XmlRules \cup SemanticRules
         PROVE  Told(rule, first) = {} /\ Told(rule, sql) = {} /\ Told(rule, jsp) = {} /\ Told(rule, nul) = {}
    <2>0. rule \notin SinkRules
      BY OwnRulesApart DEF DetectorRules, OwnRules
    <2>1. rule \notin ConfigurationRules /\ rule \notin SqlRules /\ rule \notin NullRules /\ rule \notin FileRules
      BY DEF XmlRules, SemanticRules, StatementRules, ReleaseRules, MemoryRules, ConfigurationRules,
             SqlRules, NullRules, FileRules
    <2>2. \A x \in At(ConfigurationRules, n) \cup OfFile : x.rule # rule
      BY <2>1 DEF At, OfFile
    <2> QED
      BY <1>4, <1>5, <1>10, <2>0, <2>1, <2>2, ToldOther
  <1>12. Told("xxe", sem) = {}
    <2>1. "xxe" \notin SemanticRules
      BY DEF SemanticRules, StatementRules, ReleaseRules, MemoryRules
    <2> QED
      BY <1>4, <1>10, <2>1
  <1>13. \A rule \in SemanticRules : Told(rule, xml) = {}
    <2>1. \A rule \in SemanticRules : rule \notin XmlRules
      BY DEF XmlRules, SemanticRules, StatementRules, ReleaseRules, MemoryRules
    <2> QED
      BY <1>4, <1>10, <2>1
  <1>14. "xxe" \in XmlRules
    BY DEF XmlRules
  <1>15. Lines("xxe") = Told("xxe", xml)
    BY <1>8, <1>11, <1>12, <1>14
  <1>16. \A rule \in SemanticRules : Lines(rule) = Told(rule, sem)
    BY <1>8, <1>11, <1>13
  <1> QED
    BY <1>15, <1>16 DEF xml, sem

-----------------------------------------------------------------------------
(* The last call of a setter decides, read from the end or call by call.   *)

Booleans == {"true", "false"}

\* Where a text calls a setter of a factory with a value.
Call(text, factory, setting, value) == Occurs(text, <<factory, ".", setting, value>>)

\* Such a call is four tokens in a row.
LEMMA CallTells ==
  ASSUME NEW text \in Text, NEW factory, NEW setting, NEW value
  PROVE  /\ Call(text, factory, setting, value) \subseteq 1..Len(text)
         /\ \A k \in 1..Len(text) :
              k \in Call(text, factory, setting, value) <=>
                /\ k + 3 <= Len(text)
                /\ text[k] = factory /\ text[k + 1] = "." /\ text[k + 2] = setting /\ text[k + 3] = value
  <1> DEFINE N == Len(text)
             words == <<factory, ".", setting, value>>
  <1>1. N \in Nat /\ text \in Seq(Token) /\ Len(words) = 4
    BY DEF Text
  <1>2. /\ words[1] = factory /\ words[2] = "." /\ words[3] = setting /\ words[4] = value
        /\ words = [i \in 1..4 |-> words[i]] /\ 1..4 = {1, 2, 3, 4}
    OBVIOUS
  <1> HIDE DEF words
  <1>3. Call(text, factory, setting, value) = {k \in 1 .. N - 4 + 1 : SubSeq(text, k, k + 4 - 1) = words}
    BY <1>1 DEF Call, Occurs, words
  <1>4. ASSUME NEW k \in 1 .. N - 4 + 1
        PROVE  SubSeq(text, k, k + 4 - 1) = words <=>
                 text[k] = factory /\ text[k + 1] = "." /\ text[k + 2] = setting /\ text[k + 3] = value
    <2> DEFINE sub == SubSeq(text, k, k + 4 - 1)
    <2>1. Len(sub) = 4 /\ sub \in Seq(Token) /\ \A i \in 1..4 : sub[i] = text[k + i - 1]
      <3>1. k \in 1..N /\ k + 4 - 1 \in k..N /\ k \in Nat
        BY <1>1
      <3> QED
        BY <1>1, <3>1
    <2> HIDE DEF sub
    <2>2. sub[1] = text[k] /\ sub[2] = text[k + 1] /\ sub[3] = text[k + 2] /\ sub[4] = text[k + 3]
      BY <1>1, <2>1
    <2>3. sub = [i \in 1..4 |-> sub[i]]
      BY <2>1, LenProperties
    <2>4. sub = words <=> \A i \in 1..4 : sub[i] = words[i]
      BY <1>2, <2>3
    <2> QED
      BY <1>2, <2>2, <2>4 DEF sub
  <1>5. \A k \in 1..N : k \in 1 .. N - 4 + 1 <=> k + 3 <= N
    BY <1>1
  <1>6. 1 .. N - 4 + 1 \subseteq 1..N
    BY <1>1
  <1> QED
    BY <1>3, <1>4, <1>5, <1>6

\* The last call of a setter, of either value.
Decides(text, factory, setting, value, n) ==
    \E k \in 1..n : /\ k \in Call(text, factory, setting, value)
                    /\ \A j \in k + 1 .. n, v \in Booleans : j \notin Call(text, factory, setting, v)

\* LastSetting, which takes the last call by its place, reads the call that decides.
LEMMA LastSettingTells ==
  ASSUME NEW text \in Text, NEW factory, NEW setting, NEW value \in Booleans
  PROVE  LastSetting(text, factory, setting) = value <=> Decides(text, factory, setting, value, Len(text))
  <1> DEFINE N == Len(text)
             at == UNION {Call(text, factory, setting, v) : v \in Booleans}
             m == Max(at)
  <1>1. N \in Nat /\ at \in SUBSET (1..N)
    BY CallTells DEF Text
  <1>2. LastSetting(text, factory, setting) = IF at = {} THEN None ELSE text[m + 3]
    BY Zenon DEF LastSetting, Call, Booleans
  <1>3. ASSUME NEW k \in 1..N, NEW v \in Booleans, k \in Call(text, factory, setting, v)
        PROVE  k \in at /\ text[k + 3] = v
    <2>1. text[k + 3] = v
      BY <1>3, CallTells
    <2> QED
      BY <1>3, <2>1
  <1>4. \A k \in at : \E v \in Booleans : k \in Call(text, factory, setting, v)
    OBVIOUS
  <1> HIDE DEF at
  <1>5. CASE at = {}
    <2>1. LastSetting(text, factory, setting) # value
      BY <1>2, <1>5 DEF None, Booleans
    <2>2. ~Decides(text, factory, setting, value, N)
      BY <1>3, <1>5 DEF Decides
    <2> QED
      BY <2>1, <2>2
  <1>6. CASE at # {}
    <2>1. m \in at /\ \A k \in at : k <= m
      BY <1>1, <1>6, MaxOfSet
    <2> HIDE DEF m
    <2>2. m \in 1..N
      BY <1>1, <2>1
    <2>3. PICK u \in Booleans : m \in Call(text, factory, setting, u)
      BY <1>4, <2>1
    <2>4. text[m + 3] = u
      BY <1>3, <2>2, <2>3
    <2>5. Decides(text, factory, setting, value, N) => u = value
      <3> SUFFICES ASSUME NEW k \in 1..N, k \in Call(text, factory, setting, value),
                          \A j \in k + 1 .. N, v \in Booleans : j \notin Call(text, factory, setting, v)
                   PROVE  u = value
        BY DEF Decides
      <3>1. k \in at /\ text[k + 3] = value
        BY <1>3
      <3>2. k <= m /\ m \notin k + 1 .. N
        BY <2>1, <2>3, <3>1
      <3>3. k = m
        BY <1>1, <2>2, <3>2
      <3> QED
        BY <2>4, <3>1, <3>3
    <2>6. u = value => Decides(text, factory, setting, value, N)
      <3>1. ASSUME NEW j \in m + 1 .. N, NEW v \in Booleans, j \in Call(text, factory, setting, v) PROVE FALSE
        <4>1. j \in 1..N /\ ~ (j <= m)
          BY <1>1, <2>2
        <4> QED
          BY <1>3, <2>1, <3>1, <4>1
      <3> QED
        BY <2>2, <2>3, <3>1 DEF Decides
    <2>7. LastSetting(text, factory, setting) = u
      BY <1>2, <1>6, <2>4
    <2> QED
      BY <2>5, <2>6, <2>7
  <1> QED
    BY <1>5, <1>6

SettingStep(text, factory, set, k) ==
    IF k + 3 <= Len(text) /\ text[k] = factory /\ text[k + 1] = "." /\ text[k + 3] \in {"true", "false"}
    THEN {s \in set : s[1] # text[k + 2]} \cup {<<text[k + 2], text[k + 3]>>} ELSE set

\* The fold of SettingsAfter is the last of a chain of sets, one for a word.
LEMMA SettingsTells ==
  ASSUME NEW text \in Text, NEW factory
  PROVE  \E F \in [0..Len(text) -> SUBSET (Token \X Booleans)] :
           /\ F[0] = {}
           /\ \A k \in 1..Len(text) : F[k] = SettingStep(text, factory, F[k - 1], k)
           /\ F[Len(text)] = SettingsAfter(text, factory)
  <1> DEFINE start == {}
             N == Len(text)
             V == SUBSET (Token \X Booleans)
             seq == Numbered(text)
             Op(v, k) == SettingStep(text, factory, v, k)
             f == [p \in V \X (1..N) |-> Op(p[1], p[2])]
             Solves(it) == it = [x \in SUBSET DOMAIN seq |->
                                   IF x = {} THEN start ELSE Op(it[x \ {Max(x)}], seq[Max(x)])]
             iter == CHOOSE it : Solves(it)
  <1>1. N \in Nat /\ text \in Seq(Token) /\ seq \in Seq(1..N) /\ Len(seq) = N /\ \A k \in 1..N : seq[k] = k
    BY NumberedType DEF Text, Numbered
  <1>2. start \in V
    OBVIOUS
  <1>3. iter[DOMAIN seq] = SettingsAfter(text, factory)
    BY Zenon DEF SettingsAfter, SettingStep, Numbered, FoldLeft, MapThenFoldSet
  <1>4. \A v \in V, k \in 1..N : Op(v, k) \in V
    <2> SUFFICES ASSUME NEW v \in V, NEW k \in 1..N PROVE Op(v, k) \in V
      OBVIOUS
    <2>1. k + 3 <= N => text[k + 2] \in Token
      BY <1>1
    <2>2. {s \in v : s[1] # text[k + 2]} \in V
      OBVIOUS
    <2>3. k + 3 <= N /\ text[k + 3] \in {"true", "false"} => <<text[k + 2], text[k + 3]>> \in Token \X Booleans
      BY <2>1 DEF Booleans
    <2> QED
      BY <2>2, <2>3 DEF SettingStep
  <1>5. \A v \in V, k \in 1..N : f[<<v, k>>] = Op(v, k)
    OBVIOUS
  <1>6. Foldable(V, 1..N, f, start, seq)
    BY <1>1, <1>2, <1>4 DEF Foldable
  <1> HIDE DEF start, Op, f, N, V, seq
  <1>7. PICK it : Solution(V, 1..N, f, start, seq, it)
    BY <1>6, SolutionExists
  <1>8. Solves(it)
    BY <1>5, <1>7 DEF Solution
  <1>9. Solves(iter)
    <2> HIDE DEF Solves
    <2> QED
      BY <1>8
  <1> HIDE DEF iter
  <1>10. Recurs(V, f, start, seq, iter)
    <2>1. PICK b : b = start
      OBVIOUS
    <2>2. iter = [x \in SUBSET DOMAIN seq |-> IF x = {} THEN b ELSE Op(iter[x \ {Max(x)}], seq[Max(x)])]
      BY <1>9, <2>1
    <2>3. ASSUME NEW x \in SUBSET DOMAIN seq, x # {} PROVE seq[Max(x)] \in 1..N
      BY <1>7, <2>3 DEF Solution
    <2> QED
      BY <1>5, <2>1, <2>2, <2>3 DEF Recurs
  <1>11. PICK F : Chain(V, f, start, seq, F) /\ F[Len(seq)] = iter[DOMAIN seq]
    BY <1>6, <1>10, ChainExists
  <1>12. F \in [0..N -> V] /\ F[0] = start /\ F[N] = SettingsAfter(text, factory)
    BY <1>1, <1>3, <1>11 DEF Chain
  <1>13. ASSUME NEW k \in 1..N PROVE F[k] = Op(F[k - 1], k)
    <2>1. k - 1 \in 0..N /\ seq[k] = k
      BY <1>1
    <2>2. F[k - 1] \in V
      BY <1>12, <2>1
    <2>3. F[k] = f[<<F[k - 1], k>>]
      BY <1>1, <1>11, <2>1 DEF Chain
    <2> QED
      BY <1>5, <2>2, <2>3
  <1> QED
    BY <1>12, <1>13 DEF Op, start, N, V

\* SettingsAfter, which replaces the value at each call in turn, reads the same one.
LEMMA SettingsDecide ==
  ASSUME NEW text \in Text, NEW factory, NEW setting, NEW value \in Booleans
  PROVE  <<setting, value>> \in SettingsAfter(text, factory) <=> Decides(text, factory, setting, value, Len(text))
  <1> DEFINE N == Len(text)
             V == SUBSET (Token \X Booleans)
             Dec(n) == Decides(text, factory, setting, value, n)
             C(v) == Call(text, factory, setting, v)
  <1>1. N \in Nat
    BY DEF Text
  <1>2. PICK F \in [0..N -> V] :
           /\ F[0] = {}
           /\ \A k \in 1..N : F[k] = SettingStep(text, factory, F[k - 1], k)
           /\ F[N] = SettingsAfter(text, factory)
    BY SettingsTells
  <1> DEFINE T == {n \in 0..N : <<setting, value>> \in F[n] <=> Dec(n)}
  <1>3. 0 \in T
    <2>1. ~Dec(0)
      BY DEF Decides
    <2> QED
      BY <1>1, <1>2, <2>1
  <1>4. ASSUME NEW n \in 1..N, n - 1 \in T PROVE n \in T
    <2> DEFINE called == n + 3 <= Len(text) /\ text[n] = factory /\ text[n + 1] = "." /\ text[n + 3] \in Booleans
    <2>1. <<setting, value>> \in F[n - 1] <=> Dec(n - 1)
      BY <1>4
    <2>2. F[n] = IF called THEN {s \in F[n - 1] : s[1] # text[n + 2]} \cup {<<text[n + 2], text[n + 3]>>}
                  ELSE F[n - 1]
      BY <1>2, Zenon DEF SettingStep, Booleans
    <2>3. \A v \in Booleans : n \in C(v) <=> called /\ text[n + 2] = setting /\ text[n + 3] = v
      BY CallTells
    <2>4. called => text[n + 3] \in Booleans
      OBVIOUS
    <2> HIDE DEF called, C
    <2>5. Dec(n) <=> n \in C(value) \/ (Dec(n - 1) /\ \A v \in Booleans : n \notin C(v))
      <3>1. n \in Nat /\ n \in 1..n /\ n + 1 .. n = {} /\ 1..n = 1..n - 1 \cup {n}
        BY <1>1
      <3>2. \A k \in 1..n - 1 : k + 1 .. n = k + 1 .. n - 1 \cup {n}
        BY <1>1
      <3>3. n \in C(value) => Dec(n)
        BY <3>1 DEF Decides, C
      <3>4. Dec(n - 1) /\ (\A v \in Booleans : n \notin C(v)) => Dec(n)
        BY <3>1, <3>2 DEF Decides, C
      <3>5. Dec(n) => n \in C(value) \/ (Dec(n - 1) /\ \A v \in Booleans : n \notin C(v))
        BY <3>1, <3>2 DEF Decides, C
      <3> QED
        BY <3>3, <3>4, <3>5
    <2> HIDE DEF Dec
    <2>6. CASE called /\ text[n + 2] = setting
      <3>1. <<setting, value>> \in F[n] <=> text[n + 3] = value
        BY <2>2, <2>6
      <3>2. n \in C(text[n + 3]) /\ (n \in C(value) <=> text[n + 3] = value)
        BY <2>3, <2>4, <2>6
      <3> QED
        BY <1>1, <2>4, <2>5, <2>6, <3>1, <3>2
    <2>7. CASE called /\ text[n + 2] # setting
      <3>1. <<setting, value>> \in F[n] <=> <<setting, value>> \in F[n - 1]
        BY <2>2, <2>7
      <3>2. \A v \in Booleans : n \notin C(v)
        BY <2>3, <2>7
      <3> QED
        BY <1>1, <2>1, <2>5, <3>1, <3>2
    <2>8. CASE ~called
      <3>1. \A v \in Booleans : n \notin C(v)
        BY <2>3, <2>8
      <3> QED
        BY <1>1, <2>1, <2>2, <2>5, <2>8, <3>1
    <2> QED
      BY <2>6, <2>7, <2>8
  <1> HIDE DEF T
  <1>5. 0..N \subseteq T
    BY <1>1, <1>3, <1>4, Folds!CountingUp
  <1>6. N \in T
    BY <1>1, <1>5
  <1> QED
    BY <1>2, <1>6 DEF T

-----------------------------------------------------------------------------
(* Factories, their builders and what they read, line by line or as sets.  *)

MadeIn(lines) == {i \in DOMAIN lines : FactoryOf(Words(lines[i])) # None}

EndOf(lines, i) == Min({Len(lines)} \cup {j - 1 : j \in {k \in MadeIn(lines) : k > i}})

BuildersOf(lines, i) ==
    {b \in i + 1 .. EndOf(lines, i) : BuilderOf(Words(lines[b]), FactoryOf(Words(lines[i]))) # None}

ReadsOf(lines, i, b) ==
    {p \in b + 1 .. EndOf(lines, i) :
     ParsesUntrusted(Words(lines[p]), BuilderOf(Words(lines[b]), FactoryOf(Words(lines[i]))))}

OpenAt(lines, i, b) ==
    LET text == Flat(lines, i + 1, b - 1)
    IN  Swallowed(text) \/ ~Safe(SettingsAfter(text, FactoryOf(Words(lines[i]))))

UnsafeOf(lines, i) == UNION {ReadsOf(lines, i, b) : b \in {c \in BuildersOf(lines, i) : OpenAt(lines, i, c)}}

\* The words between two lines are a text.
LEMMA FlatType ==
  ASSUME NEW lines \in Seq(Text), NEW i \in 1..Len(lines), NEW b \in i + 1 .. Len(lines)
  PROVE  Flat(lines, i + 1, b - 1) \in Text
  <1> DEFINE m == b - 1 - (i + 1) + 1
             ss == [k \in 1..m |-> Words(lines[i + 1 + k - 1])]
  <1>1. m \in Nat /\ \A k \in 1..m : i + 1 + k - 1 \in 1..Len(lines)
    OBVIOUS
  <1> HIDE DEF m
  <1>2. ss \in [1..m -> Seq(Token)]
    <2>1. \A k \in 1..m : Words(lines[i + 1 + k - 1]) \in Seq(Token)
      <3> SUFFICES ASSUME NEW k \in 1..m PROVE Words(lines[i + 1 + k - 1]) \in Text
        BY DEF Text
      <3> DEFINE j == i + 1 + k - 1
      <3>1. j \in 1..Len(lines)
        BY <1>1
      <3> HIDE DEF j
      <3>2. lines[j] \in Text
        BY <3>1
      <3>3. Words(lines[j]) \in Text
        BY <3>2, WordsType
      <3> QED
        BY <3>3 DEF j
    <2> QED
      BY <2>1
  <1>3. ss \in Seq(Seq(Token))
    BY <1>1, <1>2, FunctionIsSeq
  <1>4. FlattenSeq(ss) = Flat(lines, i + 1, b - 1)
    BY Zenon DEF Flat, m
  <1> HIDE DEF ss
  <1> QED
    BY <1>3, <1>4, FlattenStays DEF Text

\* A factory is open for one definition when it is not hardened for the other.
LEMMA OpenTells ==
  ASSUME NEW text \in Text, NEW factory
  PROVE  Hardened(text, factory) <=> ~ (Swallowed(text) \/ ~Safe(SettingsAfter(text, factory)))
  <1>1. \A s, v : v \in Booleans => (LastSetting(text, factory, s) = v <=> <<s, v>> \in SettingsAfter(text, factory))
    BY LastSettingTells, SettingsDecide
  <1>2. "true" \in Booleans /\ "false" \in Booleans
    BY DEF Booleans
  <1>3. LastSetting(text, factory, "disallow") = "true" <=> <<"disallow", "true">> \in SettingsAfter(text, factory)
    BY <1>1, <1>2
  <1>4. \A s \in MustBeOff : LastSetting(text, factory, s) = "false"
          <=> <<s, "false">> \in SettingsAfter(text, factory)
    BY <1>1, <1>2
  <1> QED
    BY <1>3, <1>4, Zenon DEF Hardened, Safe

\* A set of at most one number is empty or holds one.
LEMMA SingleOrEmpty ==
  ASSUME NEW n \in Nat, NEW S \in SUBSET (1..n), Cardinality(S) <= 1
  PROVE  S = {} \/ \E b \in S : S = {b}
  <1>1. IsFiniteSet(S)
    <2>1. IsFiniteSet(1..n)
      BY FS_Interval
    <2> QED
      BY <2>1, FS_Subset
  <1>2. Cardinality(S) \in Nat
    BY <1>1, FS_CardinalityType
  <1>3. Cardinality(S) = 0 \/ Cardinality(S) = 1
    BY <1>2
  <1>4. CASE Cardinality(S) = 0
    BY <1>1, <1>4, FS_EmptySet
  <1>5. CASE Cardinality(S) = 1
    <2>1. \E x : S = {x}
      BY <1>1, <1>5, FS_Singleton
    <2> QED
      BY <2>1
  <1> QED
    BY <1>3, <1>4, <1>5

\* A factory of at most one builder: the line that is reported.
LEMMA ParserTells ==
  ASSUME NEW lines \in Seq(Text), NEW i \in MadeIn(lines), Cardinality(BuildersOf(lines, i)) <= 1
  PROVE  LET unsafe == UnsafeOf(lines, i)
         IN  /\ ParseOfFactory(lines, i) = IF unsafe = {} THEN 0 ELSE Min(unsafe)
             /\ unsafe \subseteq 1..Len(lines)
  <1> DEFINE n == Len(lines)
             factory == FactoryOf(Words(lines[i]))
             later == {j \in i + 1 .. n : FactoryOf(Words(lines[j])) # None}
             next == First(later)
             last == IF next = 0 THEN n ELSE next - 1
             bs == {j \in i + 1 .. last : BuilderOf(Words(lines[j]), factory) # None}
             b == First(bs)
             builder == BuilderOf(Words(lines[b]), factory)
             ps == {j \in b + 1 .. last : ParsesUntrusted(Words(lines[j]), builder)}
             p == First(ps)
             hardened == Hardened(Flat(lines, i + 1, b - 1), factory)
             unsafe == UnsafeOf(lines, i)
  <1>1. /\ n \in Nat /\ DOMAIN lines = 1..n /\ i \in 1..n /\ factory # None
    BY DEF MadeIn
  <1>2. ParseOfFactory(lines, i) = IF factory = None \/ b = 0 \/ p = 0 \/ hardened THEN 0 ELSE p
    BY Zenon DEF ParseOfFactory
  <1>3. last = EndOf(lines, i) /\ last \in 0..n
    <2>1. later = {k \in MadeIn(lines) : k > i} /\ later \in SUBSET Nat /\ later \subseteq 2..n
      BY <1>1 DEF MadeIn
    <2>2. CASE later = {}
      <3>1. next = 0
        BY <2>2 DEF First
      <3>2. {Len(lines)} \cup {j - 1 : j \in later} = {n}
        BY <2>2
      <3>3. Min({n}) = n
        <4>1. {n} \in SUBSET Nat /\ {n} # {}
          BY <1>1
        <4>2. Min({n}) \in {n}
          BY <4>1, MinOfSet
        <4> QED
          BY <4>2
      <3> HIDE DEF later, next
      <3>4. EndOf(lines, i) = n
        BY <2>1, <3>2, <3>3 DEF EndOf
      <3> QED
        BY <1>1, <3>1, <3>4
    <2>3. CASE later # {}
      <3> DEFINE ends == {n} \cup {j - 1 : j \in later}
      <3>1. next = Min(later)
        BY <2>3 DEF First
      <3> HIDE DEF next, later
      <3>2. next \in later /\ \A j \in later : next <= j
        BY <2>1, <2>3, <3>1, MinOfSet
      <3>3. next \in 2..n /\ next - 1 \in ends /\ \A e \in ends : next - 1 <= e /\ e \in Nat
        BY <1>1, <2>1, <3>2
      <3>4. ends \in SUBSET Nat /\ ends # {}
        BY <3>3
      <3>5. EndOf(lines, i) = Min(ends)
        BY <2>1 DEF EndOf
      <3> HIDE DEF ends
      <3>6. Min(ends) \in ends /\ \A e \in ends : Min(ends) <= e
        BY <3>4, MinOfSet
      <3>7. Min(ends) = next - 1
        <4> DEFINE m == Min(ends)
        <4> HIDE DEF m
        <4>1. m \in ends /\ m <= next - 1
          BY <3>3, <3>6 DEF m
        <4>2. next - 1 <= m /\ m \in Nat
          BY <3>3, <3>4, <4>1
        <4>3. m = next - 1
          BY <3>3, <4>1, <4>2
        <4> QED
          BY <4>3 DEF m
      <3> QED
        BY <3>3, <3>5, <3>7
    <2> QED
      BY <2>2, <2>3
  <1>4. bs = BuildersOf(lines, i) /\ bs \in SUBSET (1..n) /\ bs \in SUBSET Nat
    <2>1. bs = BuildersOf(lines, i)
      BY <1>3, Zenon DEF BuildersOf
    <2>2. bs \subseteq i + 1 .. last
      OBVIOUS
    <2> HIDE DEF bs, last
    <2> QED
      BY <1>1, <1>3, <2>1, <2>2
  <1>5. CASE bs = {}
    <2>1. b = 0
      BY <1>5 DEF First
    <2>2. unsafe = {}
      BY <1>4, <1>5 DEF UnsafeOf
    <2> HIDE DEF b, p, hardened, factory, unsafe
    <2> QED
      BY <1>2, <2>1, <2>2 DEF unsafe
  <1>6. CASE bs # {}
    <2>1. PICK c \in bs : bs = {c}
      BY <1>1, <1>4, <1>6, SingleOrEmpty
    <2>2. b = c /\ b \in bs /\ b \in 1..n /\ b \in i + 1 .. n
      <3>1. b = Min(bs)
        BY <1>6 DEF First
      <3>2. Min(bs) \in bs
        BY <1>4, <1>6, MinOfSet
      <3>3. bs \subseteq i + 1 .. last
        OBVIOUS
      <3> HIDE DEF b, bs, last
      <3> QED
        BY <1>1, <1>3, <1>4, <2>1, <3>1, <3>2, <3>3
    <2>3. ps = ReadsOf(lines, i, b) /\ ps \subseteq b + 1 .. last
      BY <1>3, Zenon DEF ReadsOf
    <2>4. ps \in SUBSET Nat /\ ps \subseteq 1..n
      <3> HIDE DEF ps, b, last
      <3> QED
        BY <1>1, <1>3, <2>2, <2>3
    <2>5. hardened <=> ~OpenAt(lines, i, b)
      <3>1. Flat(lines, i + 1, b - 1) \in Text
        BY <1>1, <2>2, FlatType
      <3> HIDE DEF b, factory
      <3> QED
        BY <3>1, OpenTells DEF OpenAt, factory
    <2>6. unsafe = IF hardened THEN {} ELSE ps
      <3> HIDE DEF b, ps, hardened, bs
      <3>1. BuildersOf(lines, i) = {b}
        BY <1>4, <2>1, <2>2
      <3> QED
        BY <2>3, <2>5, <3>1 DEF UnsafeOf
    <2>7. p = IF ps = {} THEN 0 ELSE Min(ps)
      BY Zenon DEF First
    <2> HIDE DEF p, ps
    <2>8. ps # {} => Min(ps) \in ps
      BY <2>4, MinOfSet
    <2> HIDE DEF b, hardened, factory, unsafe
    <2>9. b # 0 /\ (ps # {} => Min(ps) # 0)
      BY <2>2, <2>4, <2>8
    <2>10. ParseOfFactory(lines, i) = IF unsafe = {} THEN 0 ELSE Min(unsafe)
      BY <1>1, <1>2, <2>6, <2>7, <2>9
    <2>11. unsafe \subseteq 1..n
      BY <2>4, <2>6
    <2> QED
      BY <2>10, <2>11 DEF unsafe
  <1> QED
    BY <1>5, <1>6

\* What the detector tells is, factory by factory, the first unsafe read.
LEMMA XxeTells ==
  ASSUME NEW lines \in Seq(Text), \A i \in MadeIn(lines) : Cardinality(BuildersOf(lines, i)) <= 1
  PROVE  Told("xxe", XxeFindings("java", lines)) =
           UNION {IF UnsafeOf(lines, i) = {} THEN {} ELSE {Min(UnsafeOf(lines, i))} : i \in MadeIn(lines)}
  <1> DEFINE n == Len(lines)
             A == At(XmlRules, n)
             parse(i) == ParseOfFactory(lines, i)
             first(i) == IF UnsafeOf(lines, i) = {} THEN {} ELSE {Min(UnsafeOf(lines, i))}
             ss == [i \in DOMAIN lines |-> IF parse(i) > 0 THEN <<Confirmed("xxe", parse(i))>> ELSE <<>>]
  <1>1. n \in Nat /\ DOMAIN lines = 1..n /\ MadeIn(lines) \subseteq 1..n /\ "xxe" \in XmlRules
    BY DEF MadeIn, XmlRules
  <1>2. XxeFindings("java", lines) = FlattenSeq(ss)
    BY Zenon DEF XxeFindings
  <1>3. ASSUME NEW i \in 1..n, i \notin MadeIn(lines) PROVE parse(i) = 0
    <2>1. FactoryOf(Words(lines[i])) = None
      BY <1>1, <1>3 DEF MadeIn
    <2> QED
      BY <2>1, Zenon DEF ParseOfFactory
  <1>4. ASSUME NEW i \in MadeIn(lines)
        PROVE  parse(i) \in Nat /\ parse(i) <= n /\ first(i) = IF parse(i) > 0 THEN {parse(i)} ELSE {}
    <2> DEFINE unsafe == UnsafeOf(lines, i)
    <2>1. parse(i) = (IF unsafe = {} THEN 0 ELSE Min(unsafe)) /\ unsafe \subseteq 1..n
      BY ParserTells
    <2> HIDE DEF parse, unsafe
    <2>2. unsafe # {} => Min(unsafe) \in unsafe
      BY <2>1, MinOfSet
    <2>3. first(i) = IF unsafe = {} THEN {} ELSE {Min(unsafe)}
      BY DEF unsafe
    <2> DEFINE m == Min(unsafe)
    <2> HIDE DEF m, first
    <2>4. CASE unsafe = {}
      BY <1>1, <2>1, <2>3, <2>4
    <2>5. CASE unsafe # {}
      <3>1. m \in 1..n /\ m > 0 /\ m \in Nat /\ m <= n
        <4>1. m \in unsafe
          BY <2>1, <2>2, <2>5 DEF m
        <4>2. m \in 1..n
          BY <2>1, <4>1
        <4> QED
          BY <1>1, <4>2
      <3>2. parse(i) = m /\ first(i) = {m}
        BY <2>1, <2>3, <2>5 DEF m
      <3> QED
        BY <3>1, <3>2
    <2> QED
      BY <2>4, <2>5
  <1> HIDE DEF parse, first
  <1>5. ASSUME NEW i \in 1..n
        PROVE  parse(i) \in Nat /\ parse(i) <= n
    BY <1>1, <1>3, <1>4
  <1>6. ASSUME NEW i \in 1..n
        PROVE  ss[i] \in Seq(A) /\ Told("xxe", ss[i]) = IF parse(i) > 0 THEN {parse(i)} ELSE {}
    <2>1. CASE parse(i) > 0
      <3> DEFINE x == Confirmed("xxe", parse(i))
      <3>1. x \in A
        BY <1>1, <1>5, <2>1, OnePlace
      <3>2. x.rule = "xxe" /\ x.line = parse(i)
        BY DEF Confirmed
      <3>3. ss[i] = <<x>>
        BY <1>1, <2>1
      <3> HIDE DEF A, x, ss
      <3>4. <<x>> \in Seq(A) /\ DOMAIN <<x>> = {1} /\ <<x>>[1] = x
        BY <3>1
      <3> QED
        BY <2>1, <3>2, <3>3, <3>4 DEF Told
    <2>2. CASE ~ (parse(i) > 0)
      <3>1. ss[i] = <<>>
        BY <1>1, <2>2
      <3> HIDE DEF A, ss
      <3>2. ss[i] \in Seq(A) /\ DOMAIN ss[i] = {}
        BY <3>1, EmptySeq
      <3> QED
        BY <2>2, <3>2 DEF Told
    <2> QED
      BY <2>1, <2>2
  <1>7. ss \in [1..n -> Seq(A)]
    <2>1. DOMAIN ss = 1..n /\ ss = [i \in 1..n |-> ss[i]]
      BY <1>1
    <2> HIDE DEF ss, A
    <2> QED
      BY <1>6, <2>1
  <1> HIDE DEF ss, A
  <1>8. \A l : l \in Told("xxe", FlattenSeq(ss)) <=> \E i \in 1..n : l \in Told("xxe", ss[i])
    BY <1>1, <1>7, ToldGathered
  <1>9. ASSUME NEW i \in 1..n
        PROVE  Told("xxe", ss[i]) = IF i \in MadeIn(lines) THEN first(i) ELSE {}
    <2>1. CASE i \in MadeIn(lines)
      BY <1>4, <1>6, <2>1
    <2>2. CASE i \notin MadeIn(lines)
      <3>1. ~ (parse(i) > 0)
        BY <1>3, <2>2
      <3> QED
        BY <1>6, <2>2, <3>1
    <2> QED
      BY <2>1, <2>2
  <1>10. \A l : l \in Told("xxe", FlattenSeq(ss)) <=> \E i \in MadeIn(lines) : l \in first(i)
    BY <1>1, <1>8, <1>9
  <1>11. Told("xxe", FlattenSeq(ss)) = UNION {first(i) : i \in MadeIn(lines)}
    BY <1>10
  <1> QED
    BY <1>2, <1>11 DEF first

(* HardenedParsers, from the names of its definition.                      *)
LEMMA HardenedTells ==
  ASSUME Detected, file.suffix = "java", ~HardenedParsers
  PROVE  /\ \A i \in MadeIn(code) : Cardinality(BuildersOf(code, i)) <= 1
         /\ Lines("xxe") #
              UNION {IF UnsafeOf(code, i) = {} THEN {} ELSE {Min(UnsafeOf(code, i))} : i \in MadeIn(code)}
  BY Zenon DEF HardenedParsers, MadeIn, BuildersOf, EndOf, UnsafeOf, ReadsOf, OpenAt

(* A parser is reported exactly when it reads untrusted input with a       *)
(* factory that was open, as it stood when the parser was made             *)
(* (HardenedParsers): the last call of each setter is the one that counts. *)
THEOREM ParsersHardened == Spec => []HardenedParsers
  <1>1. IInv => HardenedParsers
    <2> SUFFICES ASSUME IInv, ~HardenedParsers PROVE FALSE
      OBVIOUS
    <2>1. Detected /\ file.suffix = "java"
      BY DEF HardenedParsers
    <2>2. code \in Seq(Text)
      BY DEF IInv, Looked
    <2>3. Lines("xxe") = Told("xxe", XxeFindings("java", code))
      BY <2>1, ToldByDetectors
    <2> QED
      BY <2>1, <2>2, <2>3, HardenedTells, XxeTells
  <1> QED
    BY <1>1, Invariance, PTL

-----------------------------------------------------------------------------
(* The words of a line of YAML, as the code and as its reference read them. *)

\* The words of the first places of a text, place by place.
LEMMA WordsOfFirst ==
  ASSUME NEW text \in Text
  PROVE  \E W \in [0..Len(text) -> Text] :
           /\ W[0] = <<>>
           /\ \A k \in 1..Len(text) : W[k] = IF text[k] = " " THEN W[k - 1] ELSE Append(W[k - 1], text[k])
           /\ \A c \in 0..Len(text) : W[c] = Words(SubSeq(text, 1, c))
  <1> DEFINE N == Len(text)
             blank == " "
             word(t) == IF t = blank THEN <<>> ELSE <<t>>
             ss(u) == [k \in DOMAIN u |-> word(u[k])]
             Steps(u, G) == /\ G \in [0..Len(u) -> Seq(Token)] /\ G[0] = <<>>
                            /\ \A n \in 1..Len(u) : G[n] = G[n - 1] \o word(u[n])
                            /\ G[Len(u)] = Words(u)
  <1>1. N \in Nat /\ text \in Seq(Token) /\ Text = Seq(Token)
    BY DEF Text
  <1>2. \A t \in Token : word(t) \in Seq(Token)
    <2> HIDE DEF blank
    <2> QED
      OBVIOUS
  <1>3. \A u : Words(u) = FlattenSeq(ss(u))
    BY Zenon DEF Words
  <1> HIDE DEF word, blank
  <1>4. ASSUME NEW u \in Seq(Token) PROVE \E G : Steps(u, G)
    <2> DEFINE s == ss(u)
    <2>1. Len(u) \in Nat /\ DOMAIN u = 1..Len(u) /\ \A k \in 1..Len(u) : u[k] \in Token
      OBVIOUS
    <2>2. s \in [1..Len(u) -> Seq(Token)] /\ \A k \in 1..Len(u) : s[k] = word(u[k])
      BY <1>2, <2>1
    <2> HIDE DEF s
    <2>3. s \in Seq(Seq(Token)) /\ Len(s) = Len(u)
      BY <2>1, <2>2, FunctionIsSeq
    <2>4. \E G \in [0..Len(s) -> Seq(Token)] :
             /\ G[0] = <<>>
             /\ \A n \in 1..Len(s) : G[n] = G[n - 1] \o s[n]
             /\ G[Len(s)] = FlattenSeq(s)
      BY <2>3, FlattenTells
    <2>5. FlattenSeq(s) = Words(u)
      BY <1>3 DEF s
    <2> QED
      BY <2>2, <2>3, <2>4, <2>5
  <1> HIDE DEF ss
  <1>5. PICK W : Steps(text, W)
    BY <1>1, <1>4
  <1>6. ASSUME NEW c \in 0..N PROVE W[c] = Words(SubSeq(text, 1, c))
    <2> DEFINE u == SubSeq(text, 1, c)
    <2>1. u \in Seq(Token) /\ Len(u) = c /\ c \in Nat /\ \A k \in 1..c : u[k] = text[k]
      BY <1>1
    <2> HIDE DEF u
    <2>2. PICK G : Steps(u, G)
      BY <1>4, <2>1
    <2> DEFINE T == {m \in 0..c : G[m] = W[m]}
    <2>3. 0 \in T
      BY <1>5, <2>1, <2>2
    <2>4. ASSUME NEW m \in 1..c, m - 1 \in T PROVE m \in T
      <3>1. m \in 1..N /\ G[m - 1] = W[m - 1] /\ u[m] = text[m]
        BY <1>1, <2>1, <2>4
      <3>2. G[m] = G[m - 1] \o word(u[m]) /\ W[m] = W[m - 1] \o word(text[m])
        BY <1>5, <2>1, <2>2, <3>1
      <3>3. G[m] = W[m] /\ m \in 0..c
        BY <2>1, <3>1, <3>2
      <3> QED
        BY <3>3
    <2> HIDE DEF T
    <2>5. 0..c \subseteq T
      BY <2>1, <2>3, <2>4, Folds!CountingUp
    <2>6. c \in T
      BY <2>1, <2>5
    <2>7. G[c] = W[c]
      BY <2>6 DEF T
    <2> QED
      BY <2>1, <2>2, <2>7 DEF u
  <1>7. ASSUME NEW k \in 1..N PROVE W[k] = IF text[k] = blank THEN W[k - 1] ELSE Append(W[k - 1], text[k])
    <2>1. W[k - 1] \in Seq(Token) /\ text[k] \in Token /\ W[k] = W[k - 1] \o word(text[k])
      <3>1. k - 1 \in 0..N
        BY <1>1
      <3>2. W \in [0..N -> Seq(Token)]
        BY <1>5
      <3>3. W[k] = W[k - 1] \o word(text[k])
        BY <1>5
      <3> HIDE DEF Steps, N
      <3>4. W[k - 1] \in Seq(Token)
        BY <3>1, <3>2
      <3>5. text[k] \in Token
        BY <1>1 DEF N
      <3> QED
        BY <3>3, <3>4, <3>5
    <2> DEFINE a == W[k - 1]
               t == text[k]
    <2> HIDE DEF a, t
    <2>2. a \in Seq(Token) => a \o <<>> = a /\ a \o <<t>> = Append(a, t)
      OBVIOUS
    <2>3. word(t) = IF t = blank THEN <<>> ELSE <<t>>
      BY Zenon DEF word
    <2>4. word(t) \in {<<>>, <<t>>} /\ (t = blank => word(t) = <<>>) /\ (t # blank => word(t) = <<t>>)
      BY <2>3
    <2> QED
      BY <2>1, <2>2, <2>4 DEF a, t
  <1> QED
    BY <1>1, <1>5, <1>6, <1>7 DEF blank

YamlStates == [mode : {"code", "quote", "tick", "escaped", "comment"}, last : Token, out : Text]

YamlStep(s, t) ==
    IF s.mode = "comment" \/ (s.mode = "code" /\ t = "#" /\ s.last = " ") THEN [s EXCEPT !.mode = "comment"]
    ELSE [mode |-> YamlMode(s.mode, t), last |-> t, out |-> IF t = " " THEN s.out ELSE Append(s.out, t)]

\* A token leaves the reference reading of a line in a state of its own kind.
LEMMA YamlStepType ==
  ASSUME NEW s \in YamlStates, NEW t \in Token
  PROVE  YamlStep(s, t) \in YamlStates
  <1> DEFINE blank == " "
             out == IF t = blank THEN s.out ELSE Append(s.out, t)
             c == s.mode = "comment" \/ (s.mode = "code" /\ t = "#" /\ s.last = blank)
             modes == {"code", "quote", "tick", "escaped", "comment"}
  <1>1. s.mode \in modes /\ s.last \in Token /\ s.out \in Text
    BY DEF YamlStates
  <1>2. out \in Text
    <2> HIDE DEF blank
    <2> QED
      BY <1>1 DEF Text
  <1>3. YamlMode(s.mode, t) \in modes
    BY <1>1 DEF YamlMode
  <1>4. [s EXCEPT !.mode = "comment"] \in YamlStates
    BY DEF YamlStates
  <1>5. [mode |-> YamlMode(s.mode, t), last |-> t, out |-> out] \in YamlStates
    BY <1>2, <1>3 DEF YamlStates
  <1>6. YamlStep(s, t) = IF c THEN [s EXCEPT !.mode = "comment"]
                        ELSE [mode |-> YamlMode(s.mode, t), last |-> t, out |-> out]
    BY Zenon DEF YamlStep
  <1> HIDE DEF c, out
  <1> QED
    BY <1>4, <1>5, <1>6

YamlEnd(text) ==
    FoldLeft(LAMBDA s, t : YamlStep(s, t), [mode |-> "code", last |-> " ", out |-> <<>>], text)

\* The words of a line are those at the end of that reading.
LEMMA YamlWordsEnd ==
  ASSUME NEW text
  PROVE  YamlWords(text) = YamlEnd(text).out
  BY Zenon DEF YamlWords, YamlEnd, YamlStep, FoldLeft, MapThenFoldSet

\* The fold of YamlWords is the last of a chain of states, one for a token.
LEMMA YamlTells ==
  ASSUME NEW text \in Text
  PROVE  \E F \in [0..Len(text) -> YamlStates] :
           /\ F[0] = [mode |-> "code", last |-> " ", out |-> <<>>]
           /\ \A k \in 1..Len(text) : F[k] = YamlStep(F[k - 1], text[k])
           /\ F[Len(text)] = YamlEnd(text)
  <1> DEFINE start == [mode |-> "code", last |-> " ", out |-> <<>>]
             N == Len(text)
             V == YamlStates
             E == Token
             seq == text
             Op(v, e) == YamlStep(v, e)
             f == [p \in V \X E |-> Op(p[1], p[2])]
             Solves(it) == it = [x \in SUBSET DOMAIN seq |->
                                   IF x = {} THEN start ELSE Op(it[x \ {Max(x)}], seq[Max(x)])]
             iter == CHOOSE it : Solves(it)
  <1>1. N \in Nat /\ seq \in Seq(E) /\ Len(seq) = N /\ \A k \in 1..N : seq[k] = text[k]
    BY DEF Text
  <1>2. start \in V
    <2>1. " " \in Token
      BY TokenHolds, Zenon
    <2>2. <<>> \in Text
      BY DEF Text
    <2> DEFINE blank == " "
    <2> HIDE DEF blank
    <2>3. [mode |-> "code", last |-> blank, out |-> <<>>] \in YamlStates
      BY <2>1, <2>2 DEF YamlStates, blank
    <2> QED
      BY <2>3 DEF blank
  <1>3. iter[DOMAIN seq] = YamlEnd(text)
    BY Zenon DEF YamlEnd, YamlStep, FoldLeft, MapThenFoldSet
  <1>4. \A v \in V, e \in E : Op(v, e) \in V
    BY YamlStepType
  <1>5. \A v \in V, e \in E : f[<<v, e>>] = Op(v, e)
    OBVIOUS
  <1>6. Foldable(V, E, f, start, seq)
    BY <1>1, <1>2, <1>4 DEF Foldable
  <1> HIDE DEF start, Op, f, N, V, E, seq
  <1>7. PICK it : Solution(V, E, f, start, seq, it)
    BY <1>6, SolutionExists
  <1>8. Solves(it)
    BY <1>5, <1>7 DEF Solution
  <1>9. Solves(iter)
    <2> HIDE DEF Solves
    <2> QED
      BY <1>8
  <1> HIDE DEF iter
  <1>10. Recurs(V, f, start, seq, iter)
    <2>1. PICK b : b = start
      OBVIOUS
    <2>2. iter = [x \in SUBSET DOMAIN seq |-> IF x = {} THEN b ELSE Op(iter[x \ {Max(x)}], seq[Max(x)])]
      BY <1>9, <2>1
    <2>3. ASSUME NEW x \in SUBSET DOMAIN seq, x # {} PROVE seq[Max(x)] \in E
      BY <1>7, <2>3 DEF Solution
    <2> QED
      BY <1>5, <2>1, <2>2, <2>3 DEF Recurs
  <1>11. PICK F : Chain(V, f, start, seq, F) /\ F[Len(seq)] = iter[DOMAIN seq]
    BY <1>6, <1>10, ChainExists
  <1>12. F \in [0..N -> V] /\ F[0] = start /\ F[N] = YamlEnd(text)
    BY <1>1, <1>3, <1>11 DEF Chain
  <1>13. ASSUME NEW k \in 1..N PROVE F[k] = Op(F[k - 1], seq[k])
    <2>1. k - 1 \in 0..N /\ seq[k] \in E
      BY <1>1
    <2>2. F[k - 1] \in V
      BY <1>12, <2>1
    <2>3. F[k] = f[<<F[k - 1], seq[k]>>]
      BY <1>1, <1>11, <2>1 DEF Chain
    <2> QED
      BY <1>5, <2>1, <2>2, <2>3
  <1>14. \A k \in 1..N : F[k] = Op(F[k - 1], text[k])
    BY <1>1, <1>13
  <1> QED
    BY <1>12, <1>14 DEF Op, start, N, V

CommentStates == [quote : {None, "quote", "tick"}, escaped : BOOLEAN, cut : Nat]

\* A token leaves the search for the comment in a state of its own kind.
LEMMA CommentStepType ==
  ASSUME NEW text, NEW s \in CommentStates, NEW k \in Nat
  PROVE  CommentStep(text, s, k) \in CommentStates
  <1> DEFINE t == text[k]
             ends == ~s.escaped /\ s.quote = None /\ text[k] = "#" /\ (k = 1 \/ text[k - 1] = " ")
  <1>1. QuotesAfter(s, t) \in CommentStates
    <2> HIDE DEF t
    <2> QED
      BY DEF QuotesAfter, CommentStates
  <1>2. [s EXCEPT !.cut = k] \in CommentStates
    BY DEF CommentStates
  <1>3. CommentStep(text, s, k) = IF s.cut > 0 THEN s ELSE IF ends THEN [s EXCEPT !.cut = k] ELSE QuotesAfter(s, t)
    BY Zenon DEF CommentStep
  <1> HIDE DEF ends, t
  <1> QED
    BY <1>1, <1>2, <1>3

CommentEnd(text) ==
    FoldLeft(LAMBDA s, k : CommentStep(text, s, k), [quote |-> None, escaped |-> FALSE, cut |-> 0], Numbered(text))

\* So is the fold that looks for the comment.
LEMMA CommentTells ==
  ASSUME NEW text \in Text
  PROVE  \E F \in [0..Len(text) -> CommentStates] :
           /\ F[0] = [quote |-> None, escaped |-> FALSE, cut |-> 0]
           /\ \A k \in 1..Len(text) : F[k] = CommentStep(text, F[k - 1], k)
           /\ F[Len(text)] = CommentEnd(text)
  <1> DEFINE start == [quote |-> None, escaped |-> FALSE, cut |-> 0]
             N == Len(text)
             V == CommentStates
             E == 1..Len(text)
             seq == Numbered(text)
             Op(v, e) == CommentStep(text, v, e)
             f == [p \in V \X E |-> Op(p[1], p[2])]
             Solves(it) == it = [x \in SUBSET DOMAIN seq |->
                                   IF x = {} THEN start ELSE Op(it[x \ {Max(x)}], seq[Max(x)])]
             iter == CHOOSE it : Solves(it)
  <1>1. N \in Nat /\ seq \in Seq(E) /\ Len(seq) = N /\ \A k \in 1..N : seq[k] = k
    BY NumberedType DEF Text, Numbered
  <1>2. start \in V
    BY DEF CommentStates
  <1>3. iter[DOMAIN seq] = CommentEnd(text)
    BY Zenon DEF CommentEnd, FoldLeft, MapThenFoldSet
  <1>4. \A v \in V, e \in E : Op(v, e) \in V
    BY CommentStepType
  <1>5. \A v \in V, e \in E : f[<<v, e>>] = Op(v, e)
    OBVIOUS
  <1>6. Foldable(V, E, f, start, seq)
    BY <1>1, <1>2, <1>4 DEF Foldable
  <1> HIDE DEF start, Op, f, N, V, E, seq
  <1>7. PICK it : Solution(V, E, f, start, seq, it)
    BY <1>6, SolutionExists
  <1>8. Solves(it)
    BY <1>5, <1>7 DEF Solution
  <1>9. Solves(iter)
    <2> HIDE DEF Solves
    <2> QED
      BY <1>8
  <1> HIDE DEF iter
  <1>10. Recurs(V, f, start, seq, iter)
    <2>1. PICK b : b = start
      OBVIOUS
    <2>2. iter = [x \in SUBSET DOMAIN seq |-> IF x = {} THEN b ELSE Op(iter[x \ {Max(x)}], seq[Max(x)])]
      BY <1>9, <2>1
    <2>3. ASSUME NEW x \in SUBSET DOMAIN seq, x # {} PROVE seq[Max(x)] \in E
      BY <1>7, <2>3 DEF Solution
    <2> QED
      BY <1>5, <2>1, <2>2, <2>3 DEF Recurs
  <1>11. PICK F : Chain(V, f, start, seq, F) /\ F[Len(seq)] = iter[DOMAIN seq]
    BY <1>6, <1>10, ChainExists
  <1>12. F \in [0..N -> V] /\ F[0] = start /\ F[N] = CommentEnd(text)
    BY <1>1, <1>3, <1>11 DEF Chain
  <1>13. ASSUME NEW k \in 1..N PROVE F[k] = Op(F[k - 1], seq[k])
    <2>1. k - 1 \in 0..N /\ seq[k] \in E
      BY <1>1
    <2>2. F[k - 1] \in V
      BY <1>12, <2>1
    <2>3. F[k] = f[<<F[k - 1], seq[k]>>]
      BY <1>1, <1>11, <2>1 DEF Chain
    <2> QED
      BY <1>5, <2>1, <2>2, <2>3
  <1>14. \A k \in 1..N : F[k] = Op(F[k - 1], k)
    BY <1>1, <1>13
  <1> QED
    BY <1>12, <1>14 DEF Op, start, N, V

\* A mode of the reference and the quotes of the code say the same of a place.
InStepWith(mode, s) ==
    \/ mode = "code" /\ s.quote = None /\ ~s.escaped
    \/ mode \in {"quote", "tick"} /\ s.quote = mode /\ ~s.escaped
    \/ mode = "escaped" /\ s.quote = "quote" /\ s.escaped

\* The two agree on quotes and escapes after every token.
LEMMA QuotesInStep ==
  ASSUME NEW s \in CommentStates, NEW mode, NEW t, InStepWith(mode, s)
  PROVE  InStepWith(YamlMode(mode, t), QuotesAfter(s, t)) /\ QuotesAfter(s, t).cut = s.cut
  <1>1. CASE mode = "code"
    BY <1>1 DEF InStepWith, YamlMode, QuotesAfter, CommentStates, None
  <1>2. CASE mode = "quote"
    BY <1>2 DEF InStepWith, YamlMode, QuotesAfter, CommentStates, None
  <1>3. CASE mode = "tick"
    BY <1>3 DEF InStepWith, YamlMode, QuotesAfter, CommentStates, None
  <1>4. CASE mode = "escaped"
    BY <1>4 DEF InStepWith, YamlMode, QuotesAfter, CommentStates, None
  <1> QED
    BY <1>1, <1>2, <1>3, <1>4 DEF InStepWith

\* The settings of a line are its words, read token by token, up to a comment.
LEMMA YamlIsSettings ==
  ASSUME NEW text \in Text
  PROVE  YamlWords(text) = Settings(text)
  <1> DEFINE N == Len(text)
             blank == " "
  <1>1. N \in Nat /\ text \in Seq(Token)
    BY DEF Text
  <1>2. PICK W \in [0..N -> Text] :
           /\ W[0] = <<>>
           /\ \A k \in 1..N : W[k] = IF text[k] = blank THEN W[k - 1] ELSE Append(W[k - 1], text[k])
           /\ \A c \in 0..N : W[c] = Words(SubSeq(text, 1, c))
    BY WordsOfFirst, Zenon
  <1>3. PICK F \in [0..N -> YamlStates] :
           /\ F[0] = [mode |-> "code", last |-> blank, out |-> <<>>]
           /\ \A k \in 1..N : F[k] = YamlStep(F[k - 1], text[k])
           /\ F[N] = YamlEnd(text)
    BY YamlTells, Zenon
  <1>4. PICK G \in [0..N -> CommentStates] :
           /\ G[0] = [quote |-> None, escaped |-> FALSE, cut |-> 0]
           /\ \A k \in 1..N : G[k] = CommentStep(text, G[k - 1], k)
           /\ G[N] = CommentEnd(text)
    BY CommentTells, Zenon
  <1> DEFINE Reads(k) == /\ G[k].cut = 0 /\ InStepWith(F[k].mode, G[k])
                         /\ F[k].last = (IF k = 0 THEN blank ELSE text[k]) /\ F[k].out = W[k]
             Ended(k) == /\ G[k].cut \in 1..k /\ F[k].mode = "comment" /\ F[k].out = W[G[k].cut - 1]
             T == {k \in 0..N : Reads(k) \/ Ended(k)}
  <1>5. \A k, s, t : YamlStep(s, t) =
          IF s.mode = "comment" \/ (s.mode = "code" /\ t = "#" /\ s.last = blank) THEN [s EXCEPT !.mode = "comment"]
          ELSE [mode |-> YamlMode(s.mode, t), last |-> t, out |-> IF t = blank THEN s.out ELSE Append(s.out, t)]
    BY Zenon DEF YamlStep
  <1>6. \A k, s : CommentStep(text, s, k) =
          IF s.cut > 0 THEN s
          ELSE IF ~s.escaped /\ s.quote = None /\ text[k] = "#" /\ (k = 1 \/ text[k - 1] = blank)
          THEN [s EXCEPT !.cut = k] ELSE QuotesAfter(s, text[k])
    BY Zenon DEF CommentStep
  <1> HIDE DEF blank
  <1>7. 0 \in T
    <2>1. F[0].mode = "code" /\ F[0].last = blank /\ F[0].out = <<>>
      BY <1>3
    <2>2. G[0].quote = None /\ G[0].escaped = FALSE /\ G[0].cut = 0
      BY <1>4
    <2> QED
      BY <1>1, <1>2, <2>1, <2>2 DEF InStepWith
  <1>8. ASSUME NEW k \in 1..N, k - 1 \in T PROVE k \in T
    <2> DEFINE f == F[k - 1]
               g == G[k - 1]
               t == text[k]
               starts == t = "#" /\ f.mode = "code" /\ f.last = blank
    <2>1. /\ k - 1 \in 0..N /\ k \in 0..N /\ f \in YamlStates /\ g \in CommentStates /\ t \in Token
          /\ W[k - 1] \in Text /\ k \in Nat
      BY <1>1, <1>2, <1>3, <1>4
    <2>2. F[k] = IF f.mode = "comment" \/ starts THEN [f EXCEPT !.mode = "comment"]
                 ELSE [mode |-> YamlMode(f.mode, t), last |-> t,
                       out |-> IF t = blank THEN f.out ELSE Append(f.out, t)]
      <3>1. F[k] = YamlStep(f, t)
        BY Zenon, <1>3
      <3> HIDE DEF f, t
      <3>2. YamlStep(f, t) =
              IF f.mode = "comment" \/ (f.mode = "code" /\ t = "#" /\ f.last = blank) THEN [f EXCEPT !.mode = "comment"]
              ELSE [mode |-> YamlMode(f.mode, t), last |-> t, out |-> IF t = blank THEN f.out ELSE Append(f.out, t)]
        BY Zenon, <1>5
      <3>3. starts <=> f.mode = "code" /\ t = "#" /\ f.last = blank
        BY Zenon
      <3> HIDE DEF starts
      <3>4. CASE f.mode = "comment" \/ starts
        <4>1. YamlStep(f, t) = [f EXCEPT !.mode = "comment"]
          BY Zenon, <3>2, <3>3, <3>4
        <4> QED
          BY Zenon, <3>1, <3>4, <4>1
      <3>5. CASE ~(f.mode = "comment" \/ starts)
        <4>1. YamlStep(f, t) = [mode |-> YamlMode(f.mode, t), last |-> t,
                                out |-> IF t = blank THEN f.out ELSE Append(f.out, t)]
          BY Zenon, <3>2, <3>3, <3>5
        <4> QED
          BY Zenon, <3>1, <3>5, <4>1
      <3> QED
        BY Zenon, <3>4, <3>5
    <2>3. G[k] = IF g.cut > 0 THEN g
                 ELSE IF ~g.escaped /\ g.quote = None /\ t = "#" /\ (k = 1 \/ text[k - 1] = blank)
                 THEN [g EXCEPT !.cut = k] ELSE QuotesAfter(g, t)
      <3>1. G[k] = CommentStep(text, g, k)
        BY Zenon, <1>4
      <3> QED
        BY Zenon, <1>6, <3>1
    <2>4. W[k] = IF t = blank THEN W[k - 1] ELSE Append(W[k - 1], t)
      BY <1>2
    <2>5. Reads(k - 1) \/ Ended(k - 1)
      BY <1>8
    <2>6. CASE Ended(k - 1)
      <3> DEFINE c == g.cut
      <3>1. c \in 1..k - 1 /\ f.mode = "comment" /\ f.out = W[c - 1] /\ c > 0
        BY <2>1, <2>6
      <3> HIDE DEF f, g, c
      <3>2. G[k] = g
        BY <2>3, <3>1 DEF c
      <3>3. F[k].mode = "comment" /\ F[k].out = f.out
        BY <2>1, <2>2, <3>1 DEF YamlStates
      <3>4. Ended(k)
        BY <2>1, <3>1, <3>2, <3>3 DEF c
      <3> QED
        BY <2>1, <3>4
    <2>7. CASE Reads(k - 1)
      <3>1. g.cut = 0 /\ InStepWith(f.mode, g) /\ f.out = W[k - 1]
            /\ f.last = IF k - 1 = 0 THEN blank ELSE text[k - 1]
        BY <2>7
      <3>2. f.mode # "comment" /\ (f.mode = "code" <=> g.quote = None /\ ~g.escaped)
        BY <3>1 DEF InStepWith, None
      <3>3. f.last = blank <=> k = 1 \/ text[k - 1] = blank
        BY <2>1, <3>1
      <3>4. InStepWith(YamlMode(f.mode, t), QuotesAfter(g, t)) /\ QuotesAfter(g, t).cut = 0
        BY <2>1, <3>1, QuotesInStep
      <3> HIDE DEF f, g
      <3>5. CASE starts
        <4>1. G[k] = [g EXCEPT !.cut = k] /\ G[k].cut = k
          BY <2>1, <2>3, <3>1, <3>2, <3>3, <3>5 DEF CommentStates
        <4>2. F[k].mode = "comment" /\ F[k].out = f.out
          BY <2>1, <2>2, <3>5 DEF YamlStates
        <4>3. Ended(k)
          BY <2>1, <3>1, <4>1, <4>2
        <4> QED
          BY <2>1, <4>3
      <3>6. CASE ~starts
        <4>1. G[k] = QuotesAfter(g, t)
          BY <2>3, <3>1, <3>2, <3>3, <3>6
        <4>2. F[k] = [mode |-> YamlMode(f.mode, t), last |-> t, out |-> W[k]]
          BY <2>2, <2>4, <3>1, <3>2, <3>6
        <4>3. Reads(k)
          BY <2>1, <3>4, <4>1, <4>2
        <4> QED
          BY <2>1, <4>3
      <3> QED
        BY <3>5, <3>6
    <2> QED
      BY <2>5, <2>6, <2>7
  <1>9. N \in T
    <2> HIDE DEF T
    <2>1. 0..N \subseteq T
      BY <1>1, <1>7, <1>8, Folds!CountingUp
    <2> QED
      BY <1>1, <2>1
  <1> DEFINE read == CommentEnd(text)
  <1>10. Settings(text) = Words(IF read.cut = 0 THEN text ELSE SubSeq(text, 1, read.cut - 1))
    BY Zenon DEF Settings, StripComment, CommentEnd
  <1> HIDE DEF read
  <1>11. YamlWords(text) = F[N].out /\ G[N] = read
    BY <1>3, <1>4, YamlWordsEnd DEF read
  <1>12. CASE Reads(N)
    <2>1. SubSeq(text, 1, N) = text
      BY <1>1
    <2>2. W[N] = Words(SubSeq(text, 1, N))
      BY <1>1, <1>2
    <2> QED
      BY <1>10, <1>11, <1>12, <2>1, <2>2
  <1>13. CASE Ended(N)
    <2>1. read.cut \in 1..N /\ read.cut # 0 /\ read.cut - 1 \in 0..N /\ F[N].out = W[read.cut - 1]
      BY <1>1, <1>11, <1>13
    <2>2. W[read.cut - 1] = Words(SubSeq(text, 1, read.cut - 1))
      BY <1>2, <2>1
    <2> QED
      BY <1>10, <1>11, <2>1, <2>2
  <1> QED
    BY <1>9, <1>12, <1>13

-----------------------------------------------------------------------------
(* Block scalars: the walk over the lines, and the lines that are text.    *)

YamlLineStates(n) == [block : Int, at : SUBSET (1..n)]

\* A line leaves the walk in a state of its own kind.
LEMMA YamlLineType ==
  ASSUME NEW lines \in Seq(Text), NEW blank, NEW s \in YamlLineStates(Len(lines)), NEW i \in 1..Len(lines)
  PROVE  YamlLine(lines, blank, s, i) \in YamlLineStates(Len(lines))
  <1> DEFINE indent == Indentation(lines[i])
             stays == s.block # NoBlock /\ (i \in blank \/ StillInBlock(s.block, indent))
             opens == OpensBlock(Settings(lines[i]))
  <1>1. indent \in Int
    <2>1. lines[i] \in Text
      OBVIOUS
    <2>2. indent \in Nat
      BY <2>1, IndentationType
    <2> HIDE DEF indent
    <2> QED
      BY <2>2
  <1>2. YamlLine(lines, blank, s, i) =
          IF stays THEN s ELSE IF opens THEN [s EXCEPT !.block = indent]
          ELSE [block |-> NoBlock, at |-> s.at \cup {i}]
    BY Zenon DEF YamlLine
  <1> HIDE DEF indent, stays, opens
  <1>3. [s EXCEPT !.block = indent] \in YamlLineStates(Len(lines))
    BY <1>1 DEF YamlLineStates
  <1>4. [block |-> NoBlock, at |-> s.at \cup {i}] \in YamlLineStates(Len(lines))
    BY DEF YamlLineStates, NoBlock
  <1> QED
    BY <1>2, <1>3, <1>4

StructureEnd(lines, blank) ==
    FoldLeft(LAMBDA s, i : YamlLine(lines, blank, s, i), [block |-> NoBlock, at |-> {}], Numbered(lines))

\* The walk over the structure is the last of a chain of states, one for a line.
LEMMA StructureTells ==
  ASSUME NEW lines \in Seq(Text), NEW blank
  PROVE  \E F \in [0..Len(lines) -> YamlLineStates(Len(lines))] :
           /\ F[0] = [block |-> NoBlock, at |-> {}]
           /\ \A k \in 1..Len(lines) : F[k] = YamlLine(lines, blank, F[k - 1], k)
           /\ F[Len(lines)] = StructureEnd(lines, blank)
  <1> DEFINE start == [block |-> NoBlock, at |-> {}]
             N == Len(lines)
             V == YamlLineStates(Len(lines))
             E == 1..Len(lines)
             seq == Numbered(lines)
             Op(v, e) == YamlLine(lines, blank, v, e)
             f == [p \in V \X E |-> Op(p[1], p[2])]
             Solves(it) == it = [x \in SUBSET DOMAIN seq |->
                                   IF x = {} THEN start ELSE Op(it[x \ {Max(x)}], seq[Max(x)])]
             iter == CHOOSE it : Solves(it)
  <1>1. N \in Nat /\ seq \in Seq(E) /\ Len(seq) = N /\ \A k \in 1..N : seq[k] = k
    BY NumberedType DEF Numbered
  <1>2. start \in V
    BY DEF YamlLineStates, NoBlock
  <1>3. iter[DOMAIN seq] = StructureEnd(lines, blank)
    BY Zenon DEF StructureEnd, FoldLeft, MapThenFoldSet
  <1>4. \A v \in V, e \in E : Op(v, e) \in V
    BY YamlLineType
  <1>5. \A v \in V, e \in E : f[<<v, e>>] = Op(v, e)
    OBVIOUS
  <1>6. Foldable(V, E, f, start, seq)
    BY <1>1, <1>2, <1>4 DEF Foldable
  <1> HIDE DEF start, Op, f, N, V, E, seq
  <1>7. PICK it : Solution(V, E, f, start, seq, it)
    BY <1>6, SolutionExists
  <1>8. Solves(it)
    BY <1>5, <1>7 DEF Solution
  <1>9. Solves(iter)
    <2> HIDE DEF Solves
    <2> QED
      BY <1>8
  <1> HIDE DEF iter
  <1>10. Recurs(V, f, start, seq, iter)
    <2>1. PICK b : b = start
      OBVIOUS
    <2>2. iter = [x \in SUBSET DOMAIN seq |-> IF x = {} THEN b ELSE Op(iter[x \ {Max(x)}], seq[Max(x)])]
      BY <1>9, <2>1
    <2>3. ASSUME NEW x \in SUBSET DOMAIN seq, x # {} PROVE seq[Max(x)] \in E
      BY <1>7, <2>3 DEF Solution
    <2> QED
      BY <1>5, <2>1, <2>2, <2>3 DEF Recurs
  <1>11. PICK F : Chain(V, f, start, seq, F) /\ F[Len(seq)] = iter[DOMAIN seq]
    BY <1>6, <1>10, ChainExists
  <1>12. F \in [0..N -> V] /\ F[0] = start /\ F[N] = StructureEnd(lines, blank)
    BY <1>1, <1>3, <1>11 DEF Chain
  <1>13. ASSUME NEW k \in 1..N PROVE F[k] = Op(F[k - 1], seq[k])
    <2>1. k - 1 \in 0..N /\ seq[k] \in E
      BY <1>1
    <2>2. F[k - 1] \in V
      BY <1>12, <2>1
    <2>3. F[k] = f[<<F[k - 1], seq[k]>>]
      BY <1>1, <1>11, <2>1 DEF Chain
    <2> QED
      BY <1>5, <2>1, <2>2, <2>3
  <1>14. \A k \in 1..N : F[k] = Op(F[k - 1], k)
    BY <1>1, <1>13
  <1> QED
    BY <1>12, <1>14 DEF Op, start, N, V

Opens(lines, h) == OpensBlock(YamlWords(lines[h]))

\* Line k may be text of the block that line h opens.
Deeper(lines, h, k) == Words(lines[k]) = <<>> \/ Indentation(lines[k]) > Indentation(lines[h])

IsText(lines, skipped, i) ==
    \E h \in 1 .. i - 1 : ~skipped[h] /\ Opens(lines, h) /\ \A k \in h + 1 .. i : Deeper(lines, h, k)

\* What the walk knows after line i: the block that is open is of the last header
\* that is not text and that no line has left.
LEMMA StructureReads ==
  ASSUME NEW lines \in Seq(Text)
  PROVE  \E skipped \in [DOMAIN lines -> BOOLEAN] :
           /\ \A i \in DOMAIN lines : skipped[i] <=> IsText(lines, skipped, i)
           /\ Structure(lines, Empty(lines)) = {i \in DOMAIN lines : ~skipped[i] /\ ~Opens(lines, i)}
  <1> DEFINE N == Len(lines)
             blank == Empty(lines)
             ind(i) == Indentation(lines[i])
             opens(i) == Opens(lines, i)
             deeper(h, k) == Deeper(lines, h, k)
  <1>1. N \in Nat /\ DOMAIN lines = 1..N
    OBVIOUS
  <1>2. PICK F \in [0..N -> YamlLineStates(N)] :
           /\ F[0] = [block |-> NoBlock, at |-> {}]
           /\ \A k \in 1..N : F[k] = YamlLine(lines, blank, F[k - 1], k)
           /\ F[N] = StructureEnd(lines, blank)
    BY StructureTells
  <1>3. \A i \in 1..N : ind(i) \in Nat
    <2> SUFFICES ASSUME NEW i \in 1..N PROVE Indentation(lines[i]) \in Nat
      OBVIOUS
    <2>1. lines[i] \in Text
      BY <1>1
    <2> QED
      BY <2>1, IndentationType
  <1> DEFINE stays(i) == F[i - 1].block # NoBlock /\ (i \in blank \/ ind(i) > F[i - 1].block)
             skipped == [i \in 1..N |-> stays(i)]
  <1>4. ASSUME NEW i \in 1..N
        PROVE  F[i] = IF skipped[i] THEN F[i - 1]
                      ELSE IF opens(i) THEN [F[i - 1] EXCEPT !.block = ind(i)]
                      ELSE [block |-> NoBlock, at |-> F[i - 1].at \cup {i}]
    <2>1. lines[i] \in Text
      BY <1>1
    <2>2. YamlWords(lines[i]) = Settings(lines[i])
      BY <2>1, YamlIsSettings
    <2>3. F[i] = YamlLine(lines, blank, F[i - 1], i)
      BY <1>2
    <2>4. opens(i) <=> OpensBlock(Settings(lines[i]))
      BY <2>2 DEF Opens
    <2>5. YamlLine(lines, blank, F[i - 1], i) =
            IF stays(i) THEN F[i - 1]
            ELSE IF OpensBlock(Settings(lines[i])) THEN [F[i - 1] EXCEPT !.block = ind(i)]
            ELSE [block |-> NoBlock, at |-> F[i - 1].at \cup {i}]
      BY Zenon DEF YamlLine, StillInBlock
    <2>6. skipped[i] <=> stays(i)
      OBVIOUS
    <2> HIDE DEF stays, skipped, opens, ind
    <2> QED
      BY <2>3, <2>4, <2>5, <2>6
  <1>5. \A i \in 1..N : skipped[i] <=> F[i - 1].block # NoBlock /\ (i \in blank \/ ind(i) > F[i - 1].block)
    OBVIOUS
  <1>6. skipped \in [DOMAIN lines -> BOOLEAN]
    BY <1>1
  <1>7. \A h, k \in 1..N : deeper(h, k) <=> k \in blank \/ ind(k) > ind(h)
    BY <1>1 DEF Empty, Deeper
  <1> HIDE DEF skipped, ind, opens, deeper, blank
  <1> DEFINE Current(i) == F[i].block # NoBlock =>
                 \E h \in 1..i : /\ ~skipped[h] /\ opens(h) /\ F[i].block = ind(h)
                                 /\ \A k \in h + 1 .. i : deeper(h, k)
             Left(i) == \A h \in 1..i : ~skipped[h] /\ opens(h) =>
                 F[i].block = ind(h) \/ \E k \in h + 1 .. i : ~deeper(h, k)
             At_(i) == F[i].at = {k \in 1..i : ~skipped[k] /\ ~opens(k)}
             T == {i \in 0..N : Current(i) /\ Left(i) /\ At_(i)}
  <1>8. 0 \in T
    <2>1. F[0].block = NoBlock /\ F[0].at = {} /\ 1..0 = {}
      BY <1>2
    <2> QED
      BY <1>1, <2>1
  <1>9. ASSUME NEW i \in 1..N, i - 1 \in T PROVE i \in T
    <2> DEFINE b == F[i - 1].block
    <2>1. /\ i - 1 \in 0..N /\ i \in 0..N /\ i \in Nat /\ F[i - 1] \in YamlLineStates(N)
          /\ 1..i = 1..i - 1 \cup {i} /\ i \in 1..i
          /\ \A h \in 1..i - 1 : h \in 1..N /\ h + 1 .. i = h + 1 .. i - 1 \cup {i}
      BY <1>1, <1>2
    <2>2. Current(i - 1) /\ Left(i - 1) /\ At_(i - 1)
      BY <1>9
    <2>3. b \in Int /\ F[i - 1].at \subseteq 1..N
      BY <2>1 DEF YamlLineStates
    <2>4. CASE skipped[i]
      <3>1. F[i] = F[i - 1] /\ b # NoBlock /\ (i \in blank \/ ind(i) > b)
        BY <1>4, <1>5, <2>4
      <3>2. Current(i)
        <4>1. PICK h \in 1..i - 1 : /\ ~skipped[h] /\ opens(h) /\ b = ind(h)
                                    /\ \A k \in h + 1 .. i - 1 : deeper(h, k)
          BY <2>2, <3>1
        <4>2. deeper(h, i)
          BY <1>7, <2>1, <3>1, <4>1
        <4>3. \A k \in h + 1 .. i : deeper(h, k)
          BY <2>1, <4>1, <4>2
        <4> QED
          BY <2>1, <3>1, <4>1, <4>3
      <3>3. Left(i)
        BY <2>1, <2>2, <2>4, <3>1
      <3>4. At_(i)
        BY <2>1, <2>2, <2>4, <3>1
      <3> QED
        BY <2>1, <3>2, <3>3, <3>4
    <2>5. CASE ~skipped[i]
      <3>1. b # NoBlock => i \notin blank /\ ~ (ind(i) > b)
        BY <1>5, <2>5
      <3>2. ASSUME NEW h \in 1..i - 1, ~skipped[h], opens(h) PROVE \E k \in h + 1 .. i : ~deeper(h, k)
        <4>1. CASE b = ind(h)
          <5>1. b # NoBlock
            BY <1>3, <2>1, <4>1 DEF NoBlock
          <5>2. ~deeper(h, i)
            BY <1>7, <2>1, <3>1, <4>1, <5>1
          <5> QED
            BY <2>1, <5>2
        <4>2. CASE b # ind(h)
          <5>1. \E k \in h + 1 .. i - 1 : ~deeper(h, k)
            BY <2>2, <3>2, <4>2
          <5> QED
            BY <2>1, <5>1
        <4> QED
          BY <4>1, <4>2
      <3>3. CASE opens(i)
        <4>1. F[i] = [F[i - 1] EXCEPT !.block = ind(i)]
          BY <1>4, <2>5, <3>3
        <4>2. F[i].block = ind(i) /\ F[i].at = F[i - 1].at
          BY <2>1, <4>1 DEF YamlLineStates
        <4>3. Current(i)
          <5>1. i + 1 .. i = {}
            BY <2>1
          <5> QED
            BY <2>1, <2>5, <3>3, <4>2, <5>1
        <4>4. Left(i)
          BY <2>1, <3>2, <4>2
        <4>5. At_(i)
          BY <2>1, <2>2, <3>3, <4>2
        <4> QED
          BY <2>1, <4>3, <4>4, <4>5
      <3>4. CASE ~opens(i)
        <4>1. F[i] = [block |-> NoBlock, at |-> F[i - 1].at \cup {i}]
          BY <1>4, <2>5, <3>4
        <4>2. F[i].block = NoBlock /\ F[i].at = F[i - 1].at \cup {i}
          BY <4>1
        <4>3. Current(i)
          BY <4>2
        <4>4. Left(i)
          BY <2>1, <3>2, <3>4
        <4>5. At_(i)
          BY <2>1, <2>2, <2>5, <3>4, <4>2
        <4> QED
          BY <2>1, <4>3, <4>4, <4>5
      <3> QED
        BY <3>3, <3>4
    <2> QED
      BY <2>4, <2>5
  <1>10. 0..N \subseteq T
    <2> HIDE DEF T
    <2> QED
      BY <1>1, <1>8, <1>9, Folds!CountingUp
  <1>11. ASSUME NEW i \in 1..N PROVE skipped[i] <=> IsText(lines, skipped, i)
    <2>1. /\ i - 1 \in 0..N /\ i \in Nat
          /\ \A h \in 1..i - 1 : h \in 1..N /\ h + 1 .. i = h + 1 .. i - 1 \cup {i} /\ i \in h + 1 .. i
      BY <1>1
    <2>2. Current(i - 1) /\ Left(i - 1)
      BY <1>10, <2>1
    <2>3. IsText(lines, skipped, i) <=>
            \E h \in 1 .. i - 1 : ~skipped[h] /\ opens(h) /\ \A k \in h + 1 .. i : deeper(h, k)
      BY DEF IsText, opens, deeper
    <2>4. ASSUME skipped[i] PROVE IsText(lines, skipped, i)
      <3>1. F[i - 1].block # NoBlock /\ (i \in blank \/ ind(i) > F[i - 1].block)
        BY <1>5, <2>4
      <3>2. PICK h \in 1..i - 1 : /\ ~skipped[h] /\ opens(h) /\ F[i - 1].block = ind(h)
                                  /\ \A k \in h + 1 .. i - 1 : deeper(h, k)
        BY <2>2, <3>1
      <3>3. deeper(h, i)
        BY <1>7, <2>1, <3>1, <3>2
      <3> QED
        BY <2>1, <2>3, <3>2, <3>3
    <2>5. ASSUME NEW h \in 1..i - 1, ~skipped[h], opens(h), \A k \in h + 1 .. i : deeper(h, k) PROVE skipped[i]
      <3>1. F[i - 1].block = ind(h)
        BY <2>1, <2>2, <2>5
      <3>2. ind(h) # NoBlock
        BY <1>3, <2>1 DEF NoBlock
      <3>3. i \in blank \/ ind(i) > ind(h)
        BY <1>7, <2>1, <2>5
      <3> QED
        BY <1>5, <3>1, <3>2, <3>3
    <2> QED
      BY <2>3, <2>4, <2>5
  <1>12. Structure(lines, blank) = F[N].at
    BY <1>2, Zenon DEF Structure, StructureEnd
  <1>13. F[N].at = {k \in 1..N : ~skipped[k] /\ ~opens(k)}
    BY <1>1, <1>10
  <1> QED
    BY <1>1, <1>6, <1>11, <1>12, <1>13 DEF opens, blank

(* The lines that are text are those the walk skips: the recursion of the  *)
(* reference has one solution.                                             *)
LEMMA ScalarTextTells ==
  ASSUME NEW lines \in Seq(Text), NEW skipped \in [DOMAIN lines -> BOOLEAN],
         \A i \in DOMAIN lines : skipped[i] <=> IsText(lines, skipped, i)
  PROVE  ScalarText(lines) = {i \in DOMAIN lines : skipped[i]}
  <1> DEFINE N == Len(lines)
             Solves(t) == t = [i \in DOMAIN lines |->
                                 \E h \in 1 .. i - 1 :
                                   /\ ~t[h] /\ OpensBlock(YamlWords(lines[h]))
                                   /\ \A k \in h + 1 .. i :
                                        Words(lines[k]) = <<>> \/ Indentation(lines[k]) > Indentation(lines[h])]
             text == CHOOSE t : Solves(t)
  <1>1. N \in Nat /\ DOMAIN lines = 1..N
    OBVIOUS
  <1>2. ScalarText(lines) = {i \in DOMAIN lines : text[i]}
    BY Zenon DEF ScalarText
  <1>3. \A t : Solves(t) <=> t = [i \in DOMAIN lines |-> IsText(lines, t, i)]
    BY Zenon DEF IsText, Opens, Deeper
  <1> HIDE DEF Solves
  <1>4. Solves(skipped)
    <2>1. skipped = [i \in DOMAIN lines |-> skipped[i]]
      OBVIOUS
    <2>2. \A i \in DOMAIN lines : skipped[i] = IsText(lines, skipped, i)
      <3>1. \A i \in DOMAIN lines : skipped[i] \in BOOLEAN /\ IsText(lines, skipped, i) \in BOOLEAN
        BY DEF IsText
      <3> QED
        BY <3>1
    <2>3. skipped = [i \in DOMAIN lines |-> IsText(lines, skipped, i)]
      BY <2>1, <2>2, Zenon
    <2> QED
      BY <1>3, <2>3, Zenon
  <1>5. Solves(text)
    BY <1>4, Zenon
  <1> HIDE DEF text
  <1>6. PICK t : t = text
    OBVIOUS
  <1>7. t = [i \in DOMAIN lines |-> IsText(lines, t, i)]
    BY <1>3, <1>5, <1>6, Zenon
  <1>8. \A i \in 1..N : t[i] <=> IsText(lines, t, i)
    BY <1>1, <1>7
  <1> DEFINE T == {n \in 0..N : \A i \in 1..n : t[i] <=> skipped[i]}
  <1>9. 0 \in T
    BY <1>1
  <1>10. ASSUME NEW n \in 1..N, n - 1 \in T PROVE n \in T
    <2>1. \A h \in 1 .. n - 1 : t[h] <=> skipped[h]
      BY <1>10
    <2>2. IsText(lines, t, n) <=> IsText(lines, skipped, n)
      BY <2>1 DEF IsText
    <2>3. t[n] <=> skipped[n]
      BY <1>1, <1>8, <2>2
    <2>4. 1..n = 1..n - 1 \cup {n} /\ n \in 0..N
      BY <1>1
    <2> QED
      BY <2>1, <2>3, <2>4
  <1>11. N \in T
    <2> HIDE DEF T
    <2>1. 0..N \subseteq T
      BY <1>1, <1>9, <1>10, Folds!CountingUp
    <2> QED
      BY <1>1, <2>1
  <1>12. \A i \in 1..N : t[i] <=> skipped[i]
    BY <1>11
  <1> QED
    BY <1>1, <1>2, <1>6, <1>12

\* What the check of a compose file tells of privileged services.
LEMMA ComposeTells ==
  ASSUME NEW lines \in Seq(Text)
  PROVE  Told("compose-privileged", ComposeFindings(lines)) =
           {i \in Structure(lines, Empty(lines)) \cap DOMAIN lines : Settings(lines[i]) = <<"privileged">>}
  <1> DEFINE n == Len(lines)
             A == At(ComposeRules, n)
             at == Structure(lines, Empty(lines))
             one(i) == IF Settings(lines[i]) = <<"privileged">> THEN <<Setting("compose-privileged", i)>> ELSE <<>>
             two(i) == IF "docker.sock" \in Range(Settings(lines[i])) THEN <<Setting("compose-socket", i)>> ELSE <<>>
             three(i) == IF "PASSWORD=" \in Range(lines[i]) THEN <<Setting("compose-secret", i)>> ELSE <<>>
             report(i) == one(i) \o two(i) \o three(i)
             ss == [i \in DOMAIN lines |-> IF i \in at THEN report(i) ELSE <<>>]
             told(s) == Told("compose-privileged", s)
  <1>1. n \in Nat /\ DOMAIN lines = 1..n /\ <<>> \in Seq(A)
    OBVIOUS
  <1>2. ComposeFindings(lines) = FlattenSeq(ss)
    BY Zenon DEF ComposeFindings
  <1>3. ASSUME NEW r \in ComposeRules, NEW i \in 1..n
        PROVE  <<Setting(r, i)>> \in Seq(A) /\ told(<<Setting(r, i)>>) = IF r = "compose-privileged" THEN {i} ELSE {}
    <2> DEFINE x == Setting(r, i)
    <2>1. x \in A /\ x.rule = r /\ x.line = i
      BY <1>1, OnePlace DEF Setting
    <2> HIDE DEF A, x
    <2>2. <<x>> \in Seq(A) /\ DOMAIN <<x>> = {1} /\ <<x>>[1] = x
      BY <2>1
    <2>3. told(<<x>>) = IF r = "compose-privileged" THEN {i} ELSE {}
      BY <2>1, <2>2 DEF Told
    <2> QED
      BY <2>2, <2>3 DEF x
  <1>4. told(<<>>) = {}
    BY EmptySeq DEF Told
  <1> HIDE DEF told, A
  <1>5. ASSUME NEW i \in 1..n
        PROVE  /\ one(i) \in Seq(A) /\ told(one(i)) = IF Settings(lines[i]) = <<"privileged">> THEN {i} ELSE {}
               /\ two(i) \in Seq(A) /\ told(two(i)) = {}
               /\ three(i) \in Seq(A) /\ told(three(i)) = {}
    <2>1. "compose-privileged" \in ComposeRules /\ "compose-socket" \in ComposeRules
         /\ "compose-secret" \in ComposeRules
      BY DEF ComposeRules
    <2>2. "compose-socket" # "compose-privileged" /\ "compose-secret" # "compose-privileged"
      OBVIOUS
    <2>3. one(i) \in Seq(A) /\ told(one(i)) = IF Settings(lines[i]) = <<"privileged">> THEN {i} ELSE {}
      <3> DEFINE c == Settings(lines[i]) = <<"privileged">>
      <3> HIDE DEF c
      <3>1. one(i) = IF c THEN <<Setting("compose-privileged", i)>> ELSE <<>>
        BY Zenon DEF c
      <3>2. /\ <<Setting("compose-privileged", i)>> \in Seq(A)
            /\ told(<<Setting("compose-privileged", i)>>) = {i}
        BY <1>3, <2>1
      <3> HIDE DEF one
      <3>3. CASE c
        <4>1. one(i) = <<Setting("compose-privileged", i)>>
          BY Zenon, <3>1, <3>3
        <4> QED
          BY Zenon, <3>2, <3>3, <4>1 DEF c
      <3>4. CASE ~c
        <4>1. one(i) = <<>>
          BY Zenon, <3>1, <3>4
        <4> QED
          BY Zenon, <1>1, <1>4, <3>4, <4>1 DEF c
      <3> QED
        BY <3>3, <3>4
    <2>4. two(i) \in Seq(A) /\ told(two(i)) = {}
      <3>1. two(i) = <<Setting("compose-socket", i)>> \/ two(i) = <<>>
        BY Zenon
      <3>2. /\ <<Setting("compose-socket", i)>> \in Seq(A)
            /\ told(<<Setting("compose-socket", i)>>) = {}
        BY <1>3, <2>1, <2>2
      <3> HIDE DEF two
      <3> QED
        BY Zenon, <1>1, <1>4, <3>1, <3>2
    <2>5. three(i) \in Seq(A) /\ told(three(i)) = {}
      <3>1. three(i) = <<Setting("compose-secret", i)>> \/ three(i) = <<>>
        BY Zenon
      <3>2. /\ <<Setting("compose-secret", i)>> \in Seq(A)
            /\ told(<<Setting("compose-secret", i)>>) = {}
        BY <1>3, <2>1, <2>2
      <3> HIDE DEF three
      <3> QED
        BY Zenon, <1>1, <1>4, <3>1, <3>2
    <2> QED
      BY <2>3, <2>4, <2>5
  <1> HIDE DEF one, two, three
  <1>6. ASSUME NEW i \in 1..n
        PROVE  report(i) \in Seq(A) /\ told(report(i)) = IF Settings(lines[i]) = <<"privileged">> THEN {i} ELSE {}
    <2> DEFINE a == one(i)
               b == two(i)
               c == three(i)
    <2>1. a \in Seq(A) /\ b \in Seq(A) /\ c \in Seq(A)
      BY <1>5
    <2> HIDE DEF a, b, c
    <2>2. (a \o b) \o c \in Seq(A) /\ a \o b \in Seq(A)
      BY <2>1
    <2>3. told(a \o b) = told(a) \cup told(b)
      BY <2>1, ToldAppended DEF told
    <2> DEFINE ab == a \o b
    <2>0. ab \in Seq(A)
      BY <2>2
    <2> HIDE DEF ab
    <2>4. told(ab \o c) = told(ab) \cup told(c)
      <3> HIDE DEF A
      <3> QED
        BY <2>0, <2>1, ToldAppended DEF told
    <2>5. report(i) = ab \o c
      BY DEF ab, a, b, c
    <2> QED
      BY <1>5, <2>2, <2>3, <2>4, <2>5 DEF ab, a, b, c
  <1> HIDE DEF report, at
  <1>7. ASSUME NEW i \in 1..n
        PROVE  ss[i] \in Seq(A) /\ told(ss[i]) = IF i \in at /\ Settings(lines[i]) = <<"privileged">> THEN {i} ELSE {}
    <2>1. ss[i] = IF i \in at THEN report(i) ELSE <<>>
      BY <1>1
    <2> HIDE DEF ss
    <2> QED
      BY <1>1, <1>4, <1>6, <2>1
  <1>8. ss \in [1..n -> Seq(A)]
    <2>1. ss = [i \in 1..n |-> ss[i]]
      BY <1>1
    <2> HIDE DEF ss
    <2> QED
      BY <1>7, <2>1
  <1> HIDE DEF ss
  <1>9. \A l : l \in told(FlattenSeq(ss)) <=> \E i \in 1..n : l \in told(ss[i])
    BY <1>1, <1>8, ToldGathered DEF told
  <1>10. told(FlattenSeq(ss)) = {i \in at \cap (1..n) : Settings(lines[i]) = <<"privileged">>}
    <2> DEFINE priv(i) == Settings(lines[i]) = <<"privileged">>
    <2> HIDE DEF priv
    <2>1. \A i \in 1..n : told(ss[i]) = IF i \in at /\ priv(i) THEN {i} ELSE {}
      BY <1>7 DEF priv
    <2>2. ASSUME NEW l
          PROVE  l \in told(FlattenSeq(ss)) <=> l \in {i \in at \cap (1..n) : priv(i)}
      <3>1. \A i \in 1..n : l \in told(ss[i]) <=> l = i /\ i \in at /\ priv(i)
        <4> SUFFICES ASSUME NEW i \in 1..n PROVE l \in told(ss[i]) <=> l = i /\ i \in at /\ priv(i)
          OBVIOUS
        <4> DEFINE reported == told(ss[i])
        <4>1. reported = IF i \in at /\ priv(i) THEN {i} ELSE {}
          BY Zenon, <2>1
        <4> HIDE DEF reported
        <4>2. l \in reported <=> l = i /\ i \in at /\ priv(i)
          BY <4>1
        <4> QED
          BY <4>2 DEF reported
      <3>2. l \in told(FlattenSeq(ss)) <=> \E i \in 1..n : l = i /\ i \in at /\ priv(i)
        BY Zenon, <1>9, <3>1
      <3>3. (\E i \in 1..n : l = i /\ i \in at /\ priv(i)) <=> l \in 1..n /\ l \in at /\ priv(l)
        BY Zenon
      <3>4. l \in {i \in at \cap (1..n) : priv(i)} <=> l \in 1..n /\ l \in at /\ priv(l)
        BY Zenon
      <3> QED
        BY Zenon, <3>2, <3>3, <3>4
    <2>3. told(FlattenSeq(ss)) = {i \in at \cap (1..n) : priv(i)}
      BY <2>2
    <2> QED
      BY <2>3 DEF priv
  <1> QED
    BY <1>1, <1>2, <1>10 DEF told, at

\* No other part of the check of a compose file reports that rule.
LEMMA ConfigurationTells ==
  ASSUME NEW lines \in Seq(Text)
  PROVE  Told("compose-privileged", ConfigurationFindings("compose", lines)) =
           Told("compose-privileged", ComposeFindings(lines))
  <1> DEFINE n == Len(lines)
             A == At(ConfigurationRules, n) \cup OfFile
             text == TextFindings("compose", lines)
             compose == ComposeFindings(lines)
             manifest == IF IsManifest("compose", lines) THEN ManifestFindings(lines) ELSE <<>>
             told(s) == Told("compose-privileged", s)
  <1>1. n \in Nat
    OBVIOUS
  <1>2. text \in Seq(At(TextRules, n)) /\ compose \in Seq(At(ComposeRules, n))
       /\ manifest \in Seq(At(ManifestRules, n))
    <2>1. ManifestFindings(lines) \in Seq(At(ManifestRules, n)) /\ <<>> \in Seq(At(ManifestRules, n))
      BY ManifestPlaces
    <2>2. manifest \in {ManifestFindings(lines), <<>>}
      BY Zenon
    <2> HIDE DEF manifest
    <2> QED
      BY <2>1, <2>2, TextPlaces, ComposePlaces
  <1> HIDE DEF text, compose, manifest
  <1>3. /\ \A x \in At(TextRules, n) : x.rule # "compose-privileged"
        /\ \A x \in At(ManifestRules, n) : x.rule # "compose-privileged"
    BY DEF At, TextRules, ManifestRules
  <1>4. told(text) = {} /\ told(manifest) = {}
    BY <1>2, <1>3, ToldOther
  <1>5. text \in Seq(A) /\ compose \in Seq(A) /\ manifest \in Seq(A)
    <2>1. TextRules \subseteq ConfigurationRules /\ ComposeRules \subseteq ConfigurationRules
         /\ ManifestRules \subseteq ConfigurationRules
      BY DEF TextRules, ComposeRules, ManifestRules, ConfigurationRules
    <2> QED
      BY <1>1, <1>2, <2>1, MoreRules
  <1> HIDE DEF A
  <1>6. ConfigurationFindings("compose", lines) = text \o compose \o manifest
    <2> DEFINE e == <<>>
    <2>1. FilenameFindings("compose") = e
      BY DEF FilenameFindings
    <2> HIDE DEF e
    <2>2. ConfigurationFindings("compose", lines) = e \o text \o e \o compose \o manifest \o e \o e \o e \o e
      <3>1. /\ "compose" # "dockerfile" /\ "compose" # "terraform" /\ "compose" # "workflow"
            /\ "compose" # "android" /\ "compose" # "plist"
        OBVIOUS
      <3> QED
        BY <2>1, <3>1, Zenon DEF ConfigurationFindings, text, compose, manifest, e
    <2>3. e = <<>>
      BY DEF e
    <2>4. ASSUME NEW s \in Seq(A) PROVE e \o s = s /\ s \o e = s
      BY <2>3
    <2> DEFINE x == text \o compose
               y == x \o manifest
    <2>5. x \in Seq(A)
      BY <1>5
    <2> HIDE DEF x
    <2>6. y \in Seq(A)
      BY <1>5, <2>5
    <2> HIDE DEF y
    <2>7. e \o text = text /\ text \o e = text
      BY <1>5, <2>4
    <2>8. y \o e = y
      BY <2>4, <2>6
    <2>9. e \o text \o e \o compose \o manifest \o e \o e \o e \o e = y
      <3>1. e \o text \o e \o compose = x
        BY Zenon, <2>7 DEF x
      <3>2. e \o text \o e \o compose \o manifest = y
        BY Zenon, <3>1 DEF y
      <3> QED
        BY Zenon, <2>8, <3>2
    <2> QED
      BY Zenon, <2>2, <2>9 DEF x, y
  <1> DEFINE both == text \o compose
  <1>7. both \in Seq(A) /\ told(both) = told(text) \cup told(compose)
    BY <1>5, ToldAppended
  <1> HIDE DEF both
  <1>8. told(both \o manifest) = told(both) \cup told(manifest)
    BY <1>5, <1>7, ToldAppended
  <1>9. ConfigurationFindings("compose", lines) = both \o manifest
    BY <1>6 DEF both
  <1> QED
    BY <1>4, <1>7, <1>8, <1>9 DEF compose

(* A setting of a compose file is reported exactly where it is one, and    *)
(* nowhere in the text of a block scalar (BlockScalarsSkipped).            *)
THEOREM ScalarsSkipped == Spec => []BlockScalarsSkipped
  <1>1. IInv => BlockScalarsSkipped
    <2> SUFFICES ASSUME IInv, pass = "done", file.suffix = "compose"
                 PROVE  Lines("compose-privileged") =
                          {i \in DOMAIN file.lines \ ScalarText(file.lines) :
                           YamlWords(file.lines[i]) = <<"privileged">>}
      BY DEF BlockScalarsSkipped
    <2> DEFINE all == file.lines
               privileged(i) == YamlWords(all[i]) = <<"privileged">>
    <2>1. all \in Seq(Text) /\ findings = ConfigurationFindings("compose", all)
      <3>1. ~IsCode("compose")
        BY DEF IsCode, Lexis
      <3> QED
        BY <3>1 DEF IInv, Looked, Reporting
    <2> HIDE DEF all
    <2>2. PICK skipped \in [DOMAIN all -> BOOLEAN] :
             /\ \A i \in DOMAIN all : skipped[i] <=> IsText(all, skipped, i)
             /\ Structure(all, Empty(all)) = {i \in DOMAIN all : ~skipped[i] /\ ~Opens(all, i)}
      BY <2>1, StructureReads
    <2>3. ScalarText(all) = {i \in DOMAIN all : skipped[i]}
      BY <2>1, <2>2, ScalarTextTells
    <2>4. \A i \in DOMAIN all : YamlWords(all[i]) = Settings(all[i])
      <3> SUFFICES ASSUME NEW i \in DOMAIN all PROVE YamlWords(all[i]) = Settings(all[i])
        OBVIOUS
      <3>1. all[i] \in Text
        BY <2>1
      <3> QED
        BY <3>1, YamlIsSettings
    <2>5. \A i \in DOMAIN all : privileged(i) => ~Opens(all, i)
      <3>1. Len(<<"privileged">>) = 1
        OBVIOUS
      <3> QED
        BY <3>1 DEF Opens, OpensBlock
    <2>6. Lines("compose-privileged") =
            {i \in Structure(all, Empty(all)) \cap DOMAIN all : Settings(all[i]) = <<"privileged">>}
      BY <2>1, LinesTold, ConfigurationTells, ComposeTells
    <2>7. \A i \in DOMAIN all : Settings(all[i]) = <<"privileged">> <=> privileged(i)
      BY <2>4
    <2> HIDE DEF privileged
    <2>8. Lines("compose-privileged") = {i \in DOMAIN all \ ScalarText(all) : privileged(i)}
      BY <2>2, <2>3, <2>5, <2>6, <2>7
    <2> QED
      BY <2>8 DEF privileged, all
  <1> QED
    BY <1>1, Invariance, PTL

-----------------------------------------------------------------------------
(* Memory: names that are alive between an event and what touches them.    *)

\* The names that an event of E has made known by statement k, and that nothing
\* has touched since, up to k: no header, and no statement of Q that is in P.
Alive(E, P, H, Q, k) ==
    {n \in Names : \E i \in 1..k : /\ <<i, n>> \in E
                                   /\ \A j \in i + 1 .. k : j \notin H /\ (j \in Q => <<j, n>> \notin P)}

\* It is found from the names before the statement.
LEMMA AliveStep ==
  ASSUME NEW E, NEW P, NEW H, NEW Q, NEW k \in Nat \ {0}
  PROVE  /\ Alive(E, P, H, Q, 0) = {}
         /\ Alive(E, P, H, Q, k) =
              {n \in Names : \/ <<k, n>> \in E
                             \/ n \in Alive(E, P, H, Q, k - 1) /\ k \notin H /\ (k \in Q => <<k, n>> \notin P)}
  <1>1. 1..0 = {}
    OBVIOUS
  <1>2. ASSUME NEW n \in Names
        PROVE  n \in Alive(E, P, H, Q, k) <=>
                 \/ <<k, n>> \in E
                 \/ n \in Alive(E, P, H, Q, k - 1) /\ k \notin H /\ (k \in Q => <<k, n>> \notin P)
    <2> DEFINE Left(i, m) == \A j \in i + 1 .. m : j \notin H /\ (j \in Q => <<j, n>> \notin P)
    <2>1. \A m \in {k - 1, k} : n \in Alive(E, P, H, Q, m) <=> \E i \in 1..m : <<i, n>> \in E /\ Left(i, m)
      BY DEF Alive
    <2>2. Left(k, k)
      OBVIOUS
    <2>3. ASSUME NEW i \in 1 .. k - 1
          PROVE  Left(i, k) <=> Left(i, k - 1) /\ k \notin H /\ (k \in Q => <<k, n>> \notin P)
      <3>1. i + 1 .. k = (i + 1 .. k - 1) \cup {k}
        OBVIOUS
      <3> QED
        BY <3>1
    <2> HIDE DEF Left
    <2>4. 1..k = (1 .. k - 1) \cup {k}
      OBVIOUS
    <2> QED
      BY <2>1, <2>2, <2>3, <2>4
  <1>3. Alive(E, P, H, Q, 0) = {}
    BY <1>1 DEF Alive
  <1> DEFINE now == Alive(E, P, H, Q, k)
             before == Alive(E, P, H, Q, k - 1)
  <1>4. now \subseteq Names
    BY DEF Alive
  <1> HIDE DEF now, before
  <1>5. now = {n \in Names : \/ <<k, n>> \in E
                             \/ n \in before /\ k \notin H /\ (k \in Q => <<k, n>> \notin P)}
    BY <1>2, <1>4 DEF now, before
  <1> QED
    BY Zenon, <1>3, <1>5 DEF now, before

\* So many findings at a line tell the line, if there is one at all.
LEMMA ToldRepeated ==
  ASSUME NEW rule, NEW other, NEW i, NEW names \in SUBSET Names
  PROVE  Told(rule, Repeat(Candidate(other, i), Cardinality(names))) = IF rule = other /\ names # {} THEN {i} ELSE {}
  <1> DEFINE n == Cardinality(names)
             x == Candidate(other, i)
  <1>1. x.rule = other /\ x.line = i
    BY DEF Candidate
  <1>2. n \in Nat /\ (n = 0 <=> names = {})
    BY NamesAssumption, FS_Subset, FS_CardinalityType, FS_EmptySet
  <1> HIDE DEF n, x
  <1>3. DOMAIN Repeat(x, n) = 1..n /\ \A k \in 1..n : Repeat(x, n)[k] = x
    BY DEF Repeat
  <1>4. CASE names = {}
    BY <1>2, <1>3, <1>4 DEF Told, n, x
  <1>5. CASE names # {}
    <2>1. 1 \in 1..n
      BY <1>2, <1>5
    <2> DEFINE all == Repeat(x, n)
    <2> HIDE DEF all
    <2>2. DOMAIN all = 1..n /\ \A k \in 1..n : all[k] = x
      BY <1>3 DEF all
    <2>3. Told(rule, all) = IF rule = other THEN {i} ELSE {}
      BY <1>1, <2>1, <2>2 DEF Told
    <2> QED
      BY <1>5, <2>3 DEF all, n, x
  <1> QED
    BY <1>4, <1>5

\* What the statements of a text say, as sets of their numbers and names.
Headers(suffix, text) == {i \in DOMAIN text : StartsFunction(Words(text[i]), suffix)}

Quiet(text) == {i \in DOMAIN text : Declared(Words(text[i])) = {} /\ Freed(Words(text[i])) = {}}

Declares(text) == {p \in (DOMAIN text) \X Names : p[2] \in Declared(Words(text[p[1]]))}

Frees(text) == {p \in (DOMAIN text) \X Names : p[2] \in Freed(Words(text[p[1]]))}

Naming(text) == {p \in (DOMAIN text) \X Names : p[2] \in Range(Words(text[p[1]]))}

Rewriting(text) == {p \in (DOMAIN text) \X Names : Rewrites(Words(text[p[1]]), p[2])}

ValueReads(text) == {p \in (DOMAIN text) \X Names : ReadsValue(Words(text[p[1]]), p[2])}

\* The statements of Q in P whose name is alive before them, and is not rewritten there.
Touched(text, E, P, H, Q, k) ==
    {j \in 1..k : /\ j \in Q /\ j \notin H
                  /\ \E n \in Alive(E, P, H, Q, j - 1) : <<j, n>> \in P /\ <<j, n>> \notin Rewriting(text)}

\* One statement of the walk, by what it says.
LEMMA MemoryLineTells ==
  ASSUME NEW suffix, NEW text \in Seq(Text), NEW s \in MemoryStates(Len(text)), NEW i \in 1..Len(text),
         Declared(Words(text[i])) = {} \/ Freed(Words(text[i])) = {},
         NEW freed, freed = IF i \in Headers(suffix, text) THEN {} ELSE s.freed,
         NEW unset, unset = IF i \in Headers(suffix, text) THEN {} ELSE s.unset,
         NEW new, new = MemoryLine(suffix, text, s, i)
  PROVE  /\ new.freed = {n \in Names : \/ <<i, n>> \in Frees(text)
                                       \/ n \in freed /\ (i \in Quiet(text) => <<i, n>> \notin Naming(text))}
         /\ new.unset = {n \in Names : \/ <<i, n>> \in Declares(text)
                                       \/ /\ n \in unset
                                          /\ i \in Quiet(text) => <<i, n>> \notin Rewriting(text) \cup ValueReads(text)}
         /\ Told("freed", new.out) =
              Told("freed", s.out) \cup
              (IF i \in Quiet(text) /\ \E n \in freed : <<i, n>> \in Naming(text) /\ <<i, n>> \notin Rewriting(text)
               THEN {i} ELSE {})
         /\ Told("unset", new.out) =
              Told("unset", s.out) \cup
              (IF i \in Quiet(text) /\ \E n \in unset : <<i, n>> \in ValueReads(text) /\ <<i, n>> \notin Rewriting(text)
               THEN {i} ELSE {})
  <1> DEFINE w == Words(text[i])
             A == At(MemoryRules, Len(text))
             read == {m \in unset : ~Rewrites(w, m) /\ ReadsValue(w, m)}
             used == {m \in freed : ~Rewrites(w, m) /\ m \in Range(w)}
             r == Repeat(Candidate("unset", i), Cardinality(read))
             u == Repeat(Candidate("freed", i), Cardinality(used))
             declaring == [s EXCEPT !.freed = freed, !.unset = unset \cup Declared(w)]
             freeing == [s EXCEPT !.freed = freed \cup Freed(w), !.unset = unset]
             using == [freed |-> StillFreed(w, freed),
                       unset |-> {m \in unset : ~Rewrites(w, m)} \ read,
                       out |-> s.out \o r \o u]
  <1>0. i \in DOMAIN text
    OBVIOUS
  <1>1. new = IF Declared(w) # {} THEN declaring ELSE IF Freed(w) # {} THEN freeing ELSE using
    <2>1. i \in Headers(suffix, text) <=> StartsFunction(w, suffix)
      BY <1>0 DEF Headers
    <2>2. /\ freed = IF StartsFunction(w, suffix) THEN {} ELSE s.freed
          /\ unset = IF StartsFunction(w, suffix) THEN {} ELSE s.unset
      BY <2>1
    <2> QED
      BY Zenon, <2>2 DEF MemoryLine
  <1>2. /\ i \in Quiet(text) <=> Declared(w) = {} /\ Freed(w) = {}
        /\ \A n \in Names : /\ <<i, n>> \in Declares(text) <=> n \in Declared(w)
                            /\ <<i, n>> \in Frees(text) <=> n \in Freed(w)
                            /\ <<i, n>> \in Naming(text) <=> n \in Range(w)
                            /\ <<i, n>> \in Rewriting(text) <=> Rewrites(w, n)
                            /\ <<i, n>> \in ValueReads(text) <=> ReadsValue(w, n)
    BY <1>0 DEF Quiet, Declares, Frees, Naming, Rewriting, ValueReads
  <1>3. /\ freed \in SUBSET Names /\ unset \in SUBSET Names /\ s.out \in Seq(A)
        /\ s = [freed |-> s.freed, unset |-> s.unset, out |-> s.out]
    BY DEF MemoryStates, Reports
  <1>4. Declared(w) \in SUBSET Names /\ Freed(w) \in SUBSET Names
    BY WordsType, DeclaredTells, FreedTells
  <1>5. /\ r \in Seq(A) /\ u \in Seq(A) /\ read \in SUBSET Names /\ used \in SUBSET Names
        /\ Told("freed", r) = {} /\ Told("freed", u) = IF used # {} THEN {i} ELSE {}
        /\ Told("unset", u) = {} /\ Told("unset", r) = IF read # {} THEN {i} ELSE {}
    <2>1. /\ "unset" \in MemoryRules /\ "freed" \in MemoryRules /\ "freed" # "unset" /\ Len(text) \in Nat
      BY DEF MemoryRules
    <2>2. Candidate("unset", i) \in A /\ Candidate("freed", i) \in A
      BY <2>1, OnePlace
    <2>3. read \in SUBSET Names /\ used \in SUBSET Names
      BY <1>3
    <2> HIDE DEF A, read, used
    <2>4. r \in Seq(A) /\ u \in Seq(A)
      BY <2>2, <2>3, RepeatStays
    <2>5. /\ Told("freed", r) = {} /\ Told("freed", u) = IF used # {} THEN {i} ELSE {}
          /\ Told("unset", u) = {} /\ Told("unset", r) = IF read # {} THEN {i} ELSE {}
      BY <2>1, <2>3, ToldRepeated
    <2> QED
      BY <2>3, <2>4, <2>5
  <1>6. /\ used # {} <=> \E n \in freed : n \in Range(w) /\ ~Rewrites(w, n)
        /\ read # {} <=> \E n \in unset : ReadsValue(w, n) /\ ~Rewrites(w, n)
    OBVIOUS
  <1>7. StillFreed(w, freed) = {n \in freed : n \notin Range(w)}
    BY DEF StillFreed
  <1>8. {m \in unset : ~Rewrites(w, m)} \ read = {n \in unset : ~Rewrites(w, n) /\ ~ReadsValue(w, n)}
    OBVIOUS
  <1> HIDE DEF w, A, read, used, r, u
  <1>9. CASE Declared(w) # {}
    <2>1. new.freed = freed /\ new.unset = unset \cup Declared(w) /\ new.out = s.out
      BY <1>1, <1>3, <1>9
    <2>2. Freed(w) = {} /\ i \notin Quiet(text)
      BY <1>2, <1>9 DEF w
    <2> QED
      BY <1>2, <1>3, <1>4, <2>1, <2>2
  <1>10. CASE Declared(w) = {} /\ Freed(w) # {}
    <2>1. new.freed = freed \cup Freed(w) /\ new.unset = unset /\ new.out = s.out
      BY <1>1, <1>3, <1>10
    <2>2. i \notin Quiet(text)
      BY <1>2, <1>10
    <2> QED
      BY <1>2, <1>3, <1>4, <1>10, <2>1, <2>2
  <1>11. CASE Declared(w) = {} /\ Freed(w) = {}
    <2>1. /\ new.freed = {n \in freed : n \notin Range(w)}
          /\ new.unset = {n \in unset : ~Rewrites(w, n) /\ ~ReadsValue(w, n)}
          /\ new.out = (s.out \o r) \o u
      BY <1>1, <1>7, <1>8, <1>11
    <2>2. i \in Quiet(text)
      BY <1>2, <1>11
    <2> DEFINE sr == s.out \o r
    <2>3. sr \in Seq(A) /\ \A rule : Told(rule, sr) = Told(rule, s.out) \cup Told(rule, r)
      BY <1>3, <1>5, ToldAppended
    <2> HIDE DEF sr
    <2>4. \A rule : Told(rule, sr \o u) = Told(rule, sr) \cup Told(rule, u)
      BY <1>5, <2>3, ToldAppended
    <2>5. \A rule : Told(rule, new.out) = Told(rule, s.out) \cup Told(rule, r) \cup Told(rule, u)
      BY <2>1, <2>3, <2>4 DEF sr
    <2>6. /\ new.freed = {n \in Names : \/ <<i, n>> \in Frees(text)
                                        \/ n \in freed /\ (i \in Quiet(text) => <<i, n>> \notin Naming(text))}
          /\ new.unset = {n \in Names : \/ <<i, n>> \in Declares(text)
                                        \/ /\ n \in unset
                                           /\ i \in Quiet(text) => <<i, n>> \notin Rewriting(text) \cup ValueReads(text)}
      BY <1>2, <1>3, <1>11, <2>1, <2>2
    <2>7. /\ used # {} <=> \E n \in freed : <<i, n>> \in Naming(text) /\ <<i, n>> \notin Rewriting(text)
          /\ read # {} <=> \E n \in unset : <<i, n>> \in ValueReads(text) /\ <<i, n>> \notin Rewriting(text)
      BY <1>2, <1>3, <1>6
    <2> QED
      BY <1>5, <2>2, <2>5, <2>6, <2>7
  <1> QED
    BY <1>9, <1>10, <1>11

\* Only the detectors of resources and of memory report the rules of theirs, for
\* one language each.
LEMMA StatefulTold ==
  ASSUME NEW suffix, NEW text \in Seq(Text), NEW rule \in ReleaseRules \cup MemoryRules
  PROVE  /\ suffix = "c" => Told(rule, SemanticFindings(suffix, text)) = Told(rule, MemoryEnd(suffix, text).out)
         /\ suffix = "java" => Told(rule, SemanticFindings(suffix, text)) = Told(rule, ResourceFindings(suffix, text))
  <1> DEFINE n == Len(text)
             S == At(SemanticRules, n)
             R == At(StatementRules, n)
             told(s) == Told(rule, s)
             held == IF suffix = "java" THEN ResourceFindings(suffix, text) ELSE <<>>
             freed == IF suffix = "c" THEN MemoryFindings(suffix, text) ELSE <<>>
             dns == DnsEnd(suffix, text)
             integer == IntegerEnd(suffix, text)
             decision == DecisionEnd(suffix, text)
             d1 == dns.out
             d2 == AttemptFindings(text)
             d3 == integer.out
             d4 == decision.out
             d5 == EndpointFindings(suffix, text)
             d6 == SettingFindings(text)
             d7 == LoopFindings(suffix, text)
             d8 == SharedFindings(suffix, text)
  <1>1. n \in Nat /\ rule \notin StatementRules
    BY DEF ReleaseRules, MemoryRules, StatementRules
  <1>2. /\ d2 \in Seq(R) /\ d5 \in Seq(R) /\ d6 \in Seq(R) /\ d7 \in Seq(R) /\ d8 \in Seq(R)
    <2> HIDE DEF R
    <2> QED
      BY AttemptPlaces, EndpointPlaces, SettingPlaces, LoopPlaces, SharedPlaces DEF R
  <1>3. held \in Seq(At(ReleaseRules, n)) /\ freed \in Seq(At(MemoryRules, n))
    <2>1. ResourceFindings(suffix, text) \in Seq(At(ReleaseRules, n))
      BY ResourcePlaces DEF Reports
    <2>2. MemoryEnd(suffix, text) \in MemoryStates(n)
      BY MemoryEndType
    <2>3. MemoryFindings(suffix, text) = MemoryEnd(suffix, text).out
      BY Zenon DEF MemoryFindings, MemoryEnd
    <2>4. MemoryFindings(suffix, text) \in Seq(At(MemoryRules, n))
      BY <2>2, <2>3 DEF MemoryStates, Reports
    <2> QED
      BY <2>1, <2>4
  <1>4. d1 \in Seq(R) /\ d4 \in Seq(R)
    <2>1. dns \in NameStates(n) /\ decision \in NameStates(n)
      BY DnsEndType, DecisionEndType
    <2> HIDE DEF dns, decision
    <2> QED
      BY <1>1, <2>1, NameStateTells DEF Reports
  <1>5. d3 \in Seq(R)
    <2>1. integer \in IntegerStates(n)
      BY IntegerEndType
    <2> HIDE DEF integer
    <2> QED
      BY <1>1, <2>1, IntegerStateTells DEF Reports
  <1>6. SemanticFindings(suffix, text) = held \o freed \o d1 \o d2 \o d3 \o d4 \o d5 \o d6 \o d7 \o d8
    BY Zenon DEF SemanticFindings, NoNames, DnsEnd, IntegerEnd, DecisionEnd
  <1>7. Seq(At(ReleaseRules, n)) \subseteq Seq(S) /\ Seq(At(MemoryRules, n)) \subseteq Seq(S) /\ Seq(R) \subseteq Seq(S)
    <2>1. ReleaseRules \subseteq SemanticRules /\ MemoryRules \subseteq SemanticRules /\ StatementRules \subseteq SemanticRules
      BY Zenon DEF SemanticRules
    <2> QED
      BY <1>1, <2>1, MoreRules
  <1>8. \A x \in R : x.rule # rule
    BY <1>1 DEF At
  <1> HIDE DEF S, R, held, freed, d1, d2, d3, d4, d5, d6, d7, d8
  <1>9. ASSUME NEW s \in Seq(S), NEW t \in Seq(R)
        PROVE  s \o t \in Seq(S) /\ told(s \o t) = told(s)
    <2>1. told(t) = {}
      BY <1>8, ToldOther
    <2>2. t \in Seq(S)
      BY <1>7
    <2>3. s \o t \in Seq(S)
      BY <2>2
    <2>4. told(s \o t) = told(s) \cup told(t)
      BY <2>2, ToldAppended
    <2> QED
      BY <2>1, <2>3, <2>4
  <1> DEFINE s0 == held \o freed
             s1 == s0 \o d1
             s2 == s1 \o d2
             s3 == s2 \o d3
             s4 == s3 \o d4
             s5 == s4 \o d5
             s6 == s5 \o d6
             s7 == s6 \o d7
             s8 == s7 \o d8
  <1>10. s0 \in Seq(S) /\ told(s0) = told(held) \cup told(freed)
    <2>1. held \in Seq(S) /\ freed \in Seq(S)
      BY <1>3, <1>7
    <2> QED
      BY <2>1, ToldAppended
  <1>11. SemanticFindings(suffix, text) = s8
    BY Zenon, <1>6
  <1> HIDE DEF s0, s8, told
  <1>12. s1 \in Seq(S) /\ told(s1) = told(s0)
    BY <1>4, <1>9, <1>10
  <1> HIDE DEF s1
  <1>13. s2 \in Seq(S) /\ told(s2) = told(s1)
    BY <1>2, <1>9, <1>12
  <1> HIDE DEF s2
  <1>14. s3 \in Seq(S) /\ told(s3) = told(s2)
    BY <1>5, <1>9, <1>13
  <1> HIDE DEF s3
  <1>15. s4 \in Seq(S) /\ told(s4) = told(s3)
    BY <1>4, <1>9, <1>14
  <1> HIDE DEF s4
  <1>16. s5 \in Seq(S) /\ told(s5) = told(s4)
    BY <1>2, <1>9, <1>15
  <1> HIDE DEF s5
  <1>17. s6 \in Seq(S) /\ told(s6) = told(s5)
    BY <1>2, <1>9, <1>16
  <1> HIDE DEF s6
  <1>18. s7 \in Seq(S) /\ told(s7) = told(s6)
    BY <1>2, <1>9, <1>17
  <1> HIDE DEF s7
  <1>19. told(s8) = told(s7)
    BY <1>2, <1>9, <1>18 DEF s8
  <1>20. told(SemanticFindings(suffix, text)) = told(held) \cup told(freed)
    BY Zenon, <1>10, <1>11, <1>12, <1>13, <1>14, <1>15, <1>16, <1>17, <1>18, <1>19
  <1>21. told(<<>>) = {}
    BY DEF told, Told
  <1>22. ASSUME suffix = "c" PROVE told(held) = {} /\ told(freed) = told(MemoryEnd(suffix, text).out)
    <2>1. held = <<>> /\ freed = MemoryFindings(suffix, text)
      BY <1>22 DEF held, freed
    <2>2. MemoryFindings(suffix, text) = MemoryEnd(suffix, text).out
      BY Zenon DEF MemoryFindings, MemoryEnd
    <2> QED
      BY Zenon, <1>21, <2>1, <2>2
  <1>23. ASSUME suffix = "java" PROVE told(held) = told(ResourceFindings(suffix, text)) /\ told(freed) = {}
    <2>1. held = ResourceFindings(suffix, text) /\ freed = <<>>
      BY <1>23 DEF held, freed
    <2> QED
      BY Zenon, <1>21, <2>1
  <1> QED
    BY <1>20, <1>22, <1>23 DEF told

\* What the walk reports: the names that are alive before a statement that uses them.
LEMMA MemoryReports ==
  ASSUME NEW suffix, NEW text \in Seq(Text),
         \A i \in DOMAIN text : Declared(Words(text[i])) = {} \/ Freed(Words(text[i])) = {}
  PROVE  LET H == Headers(suffix, text)
             Q == Quiet(text)
             out == MemoryEnd(suffix, text).out
         IN  /\ Told("freed", out) = Touched(text, Frees(text), Naming(text), H, Q, Len(text))
             /\ Told("unset", out) =
                  Touched(text, Declares(text), Rewriting(text) \cup ValueReads(text), H, Q, Len(text))
  <1> DEFINE N == Len(text)
             H == Headers(suffix, text)
             Q == Quiet(text)
             fe == Frees(text)
             fp == Naming(text)
             de == Declares(text)
             dp == Rewriting(text) \cup ValueReads(text)
             fAt(k) == Alive(fe, fp, H, Q, k)
             dAt(k) == Alive(de, dp, H, Q, k)
             fLines(k) == Touched(text, fe, fp, H, Q, k)
             dLines(k) == Touched(text, de, dp, H, Q, k)
  <1>1. N \in Nat /\ DOMAIN text = 1..N
    OBVIOUS
  <1>2. PICK F \in [0..N -> MemoryStates(N)] :
           /\ F[0] = [freed |-> {}, unset |-> {}, out |-> <<>>]
           /\ \A k \in 1..N : F[k] = MemoryLine(suffix, text, F[k - 1], k)
           /\ F[N] = MemoryEnd(suffix, text)
    BY MemoryTells
  <1> DEFINE So(k) == /\ F[k].freed = fAt(k) /\ F[k].unset = dAt(k)
                      /\ Told("freed", F[k].out) = fLines(k) /\ Told("unset", F[k].out) = dLines(k)
             T == {k \in 0..N : So(k)}
  <1>3. 0 \in T
    <2>1. fAt(0) = {} /\ dAt(0) = {}
      BY AliveStep, 1 \in Nat \ {0}
    <2>2. fLines(0) = {} /\ dLines(0) = {}
      <3>1. 1..0 = {}
        OBVIOUS
      <3> QED
        BY <3>1 DEF Touched
    <2>3. \A rule : Told(rule, <<>>) = {}
      BY DEF Told
    <2>4. F[0].freed = {} /\ F[0].unset = {} /\ F[0].out = <<>>
      BY <1>2
    <2> HIDE DEF fAt, dAt, fLines, dLines
    <2> QED
      BY <1>1, <2>1, <2>2, <2>3, <2>4
  <1>4. ASSUME NEW k \in 1..N, k - 1 \in T PROVE k \in T
    <2> DEFINE s == F[k - 1]
               new == F[k]
               freed == IF k \in H THEN {} ELSE s.freed
               unset == IF k \in H THEN {} ELSE s.unset
               fHere == k \in Q /\ \E n \in freed : <<k, n>> \in Naming(text) /\ <<k, n>> \notin Rewriting(text)
               dHere == k \in Q /\ \E n \in unset : <<k, n>> \in ValueReads(text) /\ <<k, n>> \notin Rewriting(text)
    <2>1. k - 1 \in 0..N /\ k \in 0..N /\ k \in Nat \ {0} /\ 1..k = (1 .. k - 1) \cup {k}
      BY <1>1
    <2>2. s \in MemoryStates(N) /\ new = MemoryLine(suffix, text, s, k)
      BY <1>2, <2>1
    <2>3. s.freed = fAt(k - 1) /\ s.unset = dAt(k - 1)
          /\ Told("freed", s.out) = fLines(k - 1) /\ Told("unset", s.out) = dLines(k - 1)
      BY <1>4
    <2> HIDE DEF s, new
    <2>4. /\ new.freed = {n \in Names : \/ <<k, n>> \in fe
                                        \/ n \in freed /\ (k \in Q => <<k, n>> \notin fp)}
          /\ new.unset = {n \in Names : \/ <<k, n>> \in de
                                        \/ n \in unset /\ (k \in Q => <<k, n>> \notin dp)}
          /\ Told("freed", new.out) = Told("freed", s.out) \cup (IF fHere THEN {k} ELSE {})
          /\ Told("unset", new.out) = Told("unset", s.out) \cup (IF dHere THEN {k} ELSE {})
      BY <1>1, <2>2, MemoryLineTells
    <2>5. /\ fAt(k) = {n \in Names : \/ <<k, n>> \in fe
                                     \/ n \in fAt(k - 1) /\ k \notin H /\ (k \in Q => <<k, n>> \notin fp)}
          /\ dAt(k) = {n \in Names : \/ <<k, n>> \in de
                                     \/ n \in dAt(k - 1) /\ k \notin H /\ (k \in Q => <<k, n>> \notin dp)}
      BY <2>1, AliveStep
    <2>6. /\ fLines(k) = fLines(k - 1) \cup
                (IF k \in Q /\ k \notin H /\ \E n \in fAt(k - 1) : <<k, n>> \in fp /\ <<k, n>> \notin Rewriting(text)
                 THEN {k} ELSE {})
          /\ dLines(k) = dLines(k - 1) \cup
                (IF k \in Q /\ k \notin H /\ \E n \in dAt(k - 1) : <<k, n>> \in dp /\ <<k, n>> \notin Rewriting(text)
                 THEN {k} ELSE {})
      <3>1. ASSUME NEW E, NEW P
            PROVE  Touched(text, E, P, H, Q, k) = Touched(text, E, P, H, Q, k - 1) \cup
                     (IF k \in Q /\ k \notin H
                         /\ \E n \in Alive(E, P, H, Q, k - 1) : <<k, n>> \in P /\ <<k, n>> \notin Rewriting(text)
                      THEN {k} ELSE {})
        <4> HIDE DEF H, Q
        <4> QED
          BY <2>1 DEF Touched
      <3> QED
        BY <3>1
    <2>7. freed = {n \in fAt(k - 1) : k \notin H} /\ unset = {n \in dAt(k - 1) : k \notin H}
      BY <2>3
    <2> HIDE DEF freed, unset, fAt, dAt, H, Q, fe, de, fLines, dLines
    <2>8. new.freed = fAt(k) /\ new.unset = dAt(k)
      <3> HIDE DEF fp, dp
      <3> QED
        BY <2>4, <2>5, <2>7
    <2>9. /\ Told("freed", new.out) = fLines(k)
          /\ Told("unset", new.out) = dLines(k)
      BY <2>3, <2>4, <2>6, <2>7
    <2> QED
      BY <2>1, <2>8, <2>9 DEF new
  <1>5. N \in T
    <2> HIDE DEF T
    <2>1. 0..N \subseteq T
      BY <1>1, <1>3, <1>4, Folds!CountingUp
    <2> QED
      BY <1>1, <2>1
  <1> QED
    BY <1>2, <1>5

\* The reference looks for the first touch after an event, in the method of the event.
LEMMA NextTouchTells ==
  ASSUME statements \in Seq(Text), NEW i \in DOMAIN statements, NEW n, NEW touched, NEW j
  PROVE  j \in NextTouch(i, n, touched) <=>
           /\ j \in i + 1 .. Len(statements) /\ j \in Quiet(statements) /\ <<j, n>> \in touched
           /\ \A l \in i + 1 .. j : l \notin Headers(file.suffix, statements)
           /\ \A l \in i + 1 .. j - 1 : l \in Quiet(statements) => <<l, n>> \notin touched
  <1> DEFINE N == Len(statements)
             H == Headers(file.suffix, statements)
             Q == Quiet(statements)
             Open(l) == \A m \in i + 1 .. l : m \notin H
             later == {l \in i + 1 .. N :
                         LET w == Words(statements[l])
                         IN  MethodOf(statements, l) <= i /\ DeclaredIn(w) = {} /\ FreedIn(w) = {} /\ <<l, n>> \in touched}
  <1>1. N \in Nat /\ DOMAIN statements = 1..N /\ i \in 1..N
    OBVIOUS
  <1>2. ASSUME NEW l \in i + 1 .. N
        PROVE  MethodOf(statements, l) <= i <=> Open(l)
    <2> DEFINE S == {1} \cup {h \in 1 .. l : HeaderAt(statements, h)}
               top == Max(S)
    <2>1. S \in SUBSET (1..N) /\ 1 \in S
      BY <1>1
    <2>2. \A h \in 1..l : h \in H <=> HeaderAt(statements, h)
      BY <1>1 DEF Headers, HeaderAt
    <2>3. \A h \in S : h = 1 \/ h \in H
      BY <2>2
    <2>4. \A h \in 1..l : h \in H => h \in S
      BY <2>2
    <2>5. \A h \in S : h \in 1..l
      BY <1>1
    <2> HIDE DEF S
    <2>6. top \in S /\ \A h \in S : h <= top
      BY <1>1, <2>1, MaxOfSet
    <2>7. MethodOf(statements, l) = top
      BY DEF MethodOf, S
    <2> HIDE DEF top, H
    <2> QED
      BY <1>1, <2>1, <2>3, <2>4, <2>5, <2>6, <2>7
  <1>3. \A l \in i + 1 .. N : l \in Q <=> DeclaredIn(Words(statements[l])) = {} /\ FreedIn(Words(statements[l])) = {}
    <2> SUFFICES ASSUME NEW l \in i + 1 .. N
                 PROVE  l \in Q <=> DeclaredIn(Words(statements[l])) = {} /\ FreedIn(Words(statements[l])) = {}
      OBVIOUS
    <2>1. l \in DOMAIN statements /\ Words(statements[l]) \in Text
      BY <1>1, WordsType
    <2>2. l \in Q <=> Declared(Words(statements[l])) = {} /\ Freed(Words(statements[l])) = {}
      BY <2>1 DEF Quiet
    <2> QED
      BY <2>1, <2>2, DeclaredTells, FreedTells
  <1>4. \A l \in i + 1 .. N : l \in later <=> Open(l) /\ l \in Q /\ <<l, n>> \in touched
    BY <1>2, <1>3
  <1>5. later \in SUBSET Nat /\ \A l \in later : l \in i + 1 .. N
    BY <1>1
  <1>6. NextTouch(i, n, touched) = IF later = {} THEN {} ELSE {Min(later)}
    BY Zenon DEF NextTouch
  <1>7. ASSUME NEW l \in i + 1 .. N, NEW m \in i + 1 .. l, Open(l) PROVE Open(m)
    BY <1>1, <1>7
  <1> HIDE DEF later, H, Q, Open
  <1>8. j \in NextTouch(i, n, touched) <=> j \in later /\ \A l \in later : j <= l
    <2>1. CASE later = {}
      BY <1>6, <2>1
    <2>2. CASE later # {}
      <3> DEFINE first == Min(later)
      <3>1. first \in later /\ \A l \in later : first <= l
        BY <1>5, <2>2, MinOfSet
      <3> HIDE DEF first
      <3>2. NextTouch(i, n, touched) = {first}
        BY <1>6, <2>2 DEF first
      <3>3. \A l \in later : l \in Nat
        BY <1>5
      <3>4. j = first => j \in later /\ \A l \in later : j <= l
        BY <3>1
      <3>5. j \in later /\ (\A l \in later : j <= l) => j = first
        <4>1. SUFFICES ASSUME j \in later, \A l \in later : j <= l PROVE j = first
          OBVIOUS
        <4>2. j <= first /\ first <= j
          BY <3>1, <4>1
        <4>3. j \in Nat /\ first \in Nat
          BY <3>1, <3>3, <4>1
        <4> QED
          BY <4>2, <4>3
      <3> QED
        BY <3>2, <3>4, <3>5
    <2> QED
      BY <2>1, <2>2
  <1>9. ASSUME j \in later
        PROVE  (\A l \in later : j <= l) <=> \A l \in i + 1 .. j - 1 : l \in Q => <<l, n>> \notin touched
    <2>1. j \in i + 1 .. N /\ Open(j)
      BY <1>4, <1>5, <1>9
    <2>2. \A l \in i + 1 .. j - 1 : l \in i + 1 .. N /\ Open(l) /\ l < j
      BY <1>1, <1>7, <2>1
    <2>3. \A l \in later : l < j => l \in i + 1 .. j - 1
      BY <1>1, <1>5, <2>1
    <2>4. \A l \in i + 1 .. N : j <= l \/ l < j
      BY <1>1, <2>1
    <2>5. \A l \in i + 1 .. N : ~(j <= l /\ l < j)
      BY <1>1, <2>1
    <2> QED
      BY <1>4, <1>5, <2>2, <2>3, <2>4, <2>5
  <1>10. j \in later <=> j \in i + 1 .. N /\ Open(j) /\ j \in Q /\ <<j, n>> \in touched
    BY <1>4, <1>5
  <1> QED
    BY <1>8, <1>9, <1>10 DEF Open, H, Q

\* Where it finds a use, the name is alive before the statement, and nowhere else.
LEMMA UsedAfterTells ==
  ASSUME statements \in Seq(Text), NEW E \in SUBSET ((DOMAIN statements) \X Names), NEW P,
         \A j \in DOMAIN statements, n \in Names :
             Rewrites(Words(statements[j]), n) <=> Assigns(Words(statements[j]), n)
  PROVE  UsedAfter(E, P) =
           Touched(statements, E, P, Headers(file.suffix, statements), Quiet(statements), Len(statements))
  <1> DEFINE N == Len(statements)
             H == Headers(file.suffix, statements)
             Q == Quiet(statements)
             W == Rewriting(statements)
  <1>1. N \in Nat /\ DOMAIN statements = 1..N
    OBVIOUS
  <1>2. ASSUME NEW j \in 1..N
        PROVE  j \in UsedAfter(E, P) <=> j \in Touched(statements, E, P, H, Q, N)
    <2>1. j \in UsedAfter(E, P) <=>
            \E i \in 1..N, n \in Names : /\ <<i, n>> \in E /\ j \in NextTouch(i, n, P)
                                         /\ ~Assigns(Words(statements[j]), n)
      <3>1. j \in UsedAfter(E, P) <=>
              \E p \in E : j \in NextTouch(p[1], p[2], P) /\ ~Assigns(Words(statements[j]), p[2])
        BY <1>1 DEF UsedAfter
      <3>2. \A p \in E : p[1] \in 1..N /\ p[2] \in Names /\ <<p[1], p[2]>> \in E
        BY <1>1
      <3>3. ASSUME NEW i, NEW n PROVE <<i, n>>[1] = i /\ <<i, n>>[2] = n
        OBVIOUS
      <3> QED
        BY <3>1, <3>2, <3>3
    <2>2. \A n \in Names : <<j, n>> \notin W <=> ~Assigns(Words(statements[j]), n)
      BY <1>1 DEF Rewriting
    <2>3. ASSUME NEW n \in Names
          PROVE  n \in Alive(E, P, H, Q, j - 1) <=>
                   \E i \in 1 .. j - 1 : /\ <<i, n>> \in E
                                         /\ \A l \in i + 1 .. j - 1 : l \notin H /\ (l \in Q => <<l, n>> \notin P)
      BY DEF Alive
    <2>4. ASSUME NEW i \in 1..N, NEW n \in Names
          PROVE  j \in NextTouch(i, n, P) <=>
                   /\ i \in 1 .. j - 1 /\ j \in Q /\ <<j, n>> \in P /\ j \notin H
                   /\ \A l \in i + 1 .. j - 1 : l \notin H /\ (l \in Q => <<l, n>> \notin P)
      <3>1. j \in NextTouch(i, n, P) <=>
              /\ j \in i + 1 .. N /\ j \in Q /\ <<j, n>> \in P
              /\ \A l \in i + 1 .. j : l \notin H
              /\ \A l \in i + 1 .. j - 1 : l \in Q => <<l, n>> \notin P
        BY <1>1, NextTouchTells
      <3> HIDE DEF H, Q
      <3>2. j \in i + 1 .. N <=> i \in 1 .. j - 1
        BY <1>1
      <3>3. i \in 1 .. j - 1 => i + 1 .. j = (i + 1 .. j - 1) \cup {j}
        BY <1>1
      <3>4. CASE i \in 1 .. j - 1
        <4>1. (\A l \in i + 1 .. j : l \notin H) <=> j \notin H /\ \A l \in i + 1 .. j - 1 : l \notin H
          BY <3>3, <3>4
        <4> QED
          BY Zenon, <3>1, <3>2, <3>4, <4>1
      <3> QED
        BY Zenon, <3>1, <3>2, <3>4
    <2>5. j \in Touched(statements, E, P, H, Q, N) <=>
            /\ j \in Q /\ j \notin H
            /\ \E n \in Alive(E, P, H, Q, j - 1) : <<j, n>> \in P /\ <<j, n>> \notin W
      BY DEF Touched
    <2>6. \A n \in Alive(E, P, H, Q, j - 1) : n \in Names
      BY DEF Alive
    <2>7. 1 .. j - 1 \subseteq 1..N
      BY <1>1
    <2> HIDE DEF H, Q, W
    <2> QED
      BY <2>1, <2>2, <2>3, <2>4, <2>5, <2>6, <2>7
  <1>3. UsedAfter(E, P) \subseteq 1..N /\ Touched(statements, E, P, H, Q, N) \subseteq 1..N
    BY <1>1 DEF UsedAfter, Touched
  <1> HIDE DEF H, Q
  <1>4. UsedAfter(E, P) = Touched(statements, E, P, H, Q, N)
    BY <1>2, <1>3
  <1> QED
    BY <1>4 DEF H, Q

(* A use of freed memory, and a read of a variable that is not set, are    *)
(* reported at the first touch of the name, unless that assigns it         *)
(* (UseReported).                                                          *)
THEOREM UsesReported == Spec => []UseReported
  <1>1. IInv => UseReported
    <2> SUFFICES ASSUME IInv, Detected, file.suffix = "c",
                        \A i \in DOMAIN statements :
                            LET w == Words(statements[i])
                            IN  /\ DeclaredIn(w) = {} \/ FreedIn(w) = {}
                                /\ \A m, n \in DeclaredIn(w) \cup FreedIn(w) : m = n
                                /\ \A n \in Names : Rewrites(w, n) => Assigns(w, n)
                 PROVE  /\ Lines("freed") = UsedAfter(Said(FreedIn), Said(Range))
                        /\ Lines("unset") =
                             UsedAfter(Said(DeclaredIn), Said(LAMBDA w : {n \in Names : Assigns(w, n) \/ ReadsValue(w, n)}))
      BY DEF UseReported
    <2> DEFINE H == Headers(file.suffix, statements)
               Q == Quiet(statements)
               N == Len(statements)
               out == MemoryEnd("c", statements).out
    <2>1. statements \in Seq(Text)
      BY DEF IInv, Looked, Detected
    <2>2. ASSUME NEW j \in DOMAIN statements, NEW n \in Names
          PROVE  Rewrites(Words(statements[j]), n) <=> Assigns(Words(statements[j]), n)
      <3>1. Rewrites(Words(statements[j]), n) => Assigns(Words(statements[j]), n)
        OBVIOUS
      <3>2. Assigns(Words(statements[j]), n) => Rewrites(Words(statements[j]), n)
        BY DEF Assigns, Rewrites
      <3> QED
        BY <3>1, <3>2
    <2>3. Lines("freed") = Told("freed", out) /\ Lines("unset") = Told("unset", out)
      <3>1. /\ "freed" \in MemoryRules /\ "unset" \in MemoryRules
            /\ "freed" \in SemanticRules /\ "unset" \in SemanticRules
        BY Zenon DEF MemoryRules, SemanticRules
      <3>2. /\ Lines("freed") = Told("freed", SemanticFindings("c", statements))
            /\ Lines("unset") = Told("unset", SemanticFindings("c", statements))
        BY <3>1, ToldByDetectors
      <3> QED
        BY <2>1, <3>1, <3>2, StatefulTold
    <2>9. \A i \in DOMAIN statements : LET w == Words(statements[i])
                                      IN  /\ Declared(w) = DeclaredIn(w) /\ Freed(w) = FreedIn(w)
                                          /\ Declared(w) = {} \/ Freed(w) = {}
      <3> SUFFICES ASSUME NEW i \in DOMAIN statements
                   PROVE  LET w == Words(statements[i])
                          IN  /\ Declared(w) = DeclaredIn(w) /\ Freed(w) = FreedIn(w)
                              /\ Declared(w) = {} \/ Freed(w) = {}
        OBVIOUS
      <3> DEFINE w == Words(statements[i])
      <3>1. w \in Text
        BY <2>1, WordsType
      <3>2. (DeclaredIn(w) = {} \/ FreedIn(w) = {}) /\ \A m, n \in DeclaredIn(w) \cup FreedIn(w) : m = n
        OBVIOUS
      <3> HIDE DEF w
      <3>3. Declared(w) = DeclaredIn(w) /\ Freed(w) = FreedIn(w)
        BY <3>1, <3>2, DeclaredTells, FreedTells
      <3> QED
        BY <3>2, <3>3 DEF w
    <2>4. /\ Told("freed", out) = Touched(statements, Frees(statements), Naming(statements), H, Q, N)
          /\ Told("unset", out) =
               Touched(statements, Declares(statements), Rewriting(statements) \cup ValueReads(statements), H, Q, N)
      BY <2>1, <2>9, MemoryReports
    <2>5. Said(FreedIn) = Frees(statements) /\ Said(DeclaredIn) = Declares(statements) /\ Said(Range) = Naming(statements)
      BY <2>9 DEF Said, Frees, Declares, Naming
    <2>6. Said(LAMBDA w : {n \in Names : Assigns(w, n) \/ ReadsValue(w, n)}) =
            Rewriting(statements) \cup ValueReads(statements)
      BY <2>2 DEF Said, Rewriting, ValueReads
    <2>7. /\ Frees(statements) \in SUBSET ((DOMAIN statements) \X Names)
          /\ Declares(statements) \in SUBSET ((DOMAIN statements) \X Names)
      BY DEF Frees, Declares
    <2>8. \A E \in SUBSET ((DOMAIN statements) \X Names) : \A P : UsedAfter(E, P) = Touched(statements, E, P, H, Q, N)
      BY <2>1, <2>2, UsedAfterTells
    <2> HIDE DEF H, Q, out
    <2> QED
      BY <2>3, <2>4, <2>5, <2>6, <2>7, <2>8
  <1> QED
    BY <1>1, Invariance, PTL

-----------------------------------------------------------------------------
(* Resources: what a method holds after each of its statements.            *)

\* The place of the name that statement i acquires for, the console included.
Getting(i) == Gets(Words(statements[i]), Constructors)

\* ... without it: what the reference takes for an acquisition where a statement
\* has one reading.
Acquiring(i) == IF "console" \in Range(Words(statements[i])) THEN 0 ELSE Getting(i)

NameAt(i) == Words(statements[i])[Acquiring(i)]

\* Whether statement i acquires something that wraps n.
Wrapping(i, n) == Getting(i) > 0 /\ Wraps(Words(statements[i]), Words(statements[i])[Getting(i)], n)

Closing(i, n) == Closes(Words(statements[i]), n)

\* The last statement from i to k that closes n, 0 for none.
ClosedBy(i, k, n) == Max({0} \cup {j \in i..k : Closing(j, n)})

\* What is known after statement k of the resource that statement i acquired.
Entry(i, k) ==
    [name |-> NameAt(i), line |-> i, closed |-> ClosedBy(i, k, NameAt(i)),
     wrapped |-> \E j \in i + 1 .. k : Wrapping(j, NameAt(i))]

HeldOf(m, k) == {Entry(i, k) : i \in {j \in m..k : Acquiring(j) > 0}}

\* One statement changes what is known of a resource.
Settled(e, i) ==
    [e EXCEPT !.wrapped = @ \/ Wrapping(i, e.name), !.closed = IF Closing(i, e.name) THEN i ELSE @]

\* Where a statement acquires a resource, the name is one.
LEMMA AcquiresTells ==
  ASSUME statements \in Seq(Text), NEW i \in DOMAIN statements
  PROVE  /\ Getting(i) \in Nat /\ (Getting(i) > 0 => Words(statements[i])[Getting(i)] \in Names)
         /\ Acquiring(i) = IF "console" \in Range(Words(statements[i])) THEN 0 ELSE Getting(i)
         /\ Acquiring(i) > 0 => NameAt(i) \in Names
  <1> DEFINE w == Words(statements[i])
             S == {k \in 1 .. Len(w) - 1 : /\ w[k] \in Names /\ w[k + 1] \in {"=", "=="}
                                           /\ Range(Clause(w, k)) \cap Constructors # {}}
  <1>1. w \in Text
    BY WordsType
  <1>2. Acquiring(i) = IF "console" \in Range(w) THEN 0 ELSE Getting(i)
    BY Zenon DEF Acquiring
  <1> HIDE DEF w
  <1>3. S \in SUBSET Nat
    BY <1>1 DEF Text
  <1>4. Getting(i) = First(S)
    BY Zenon DEF Getting, Gets, w
  <1> HIDE DEF S
  <1>5. Getting(i) \in Nat
    BY <1>3, <1>4, FirstTells
  <1>6. Getting(i) > 0 => w[Getting(i)] \in Names
    <2>1. Getting(i) = Gets(w, Constructors)
      BY Zenon DEF Getting, w
    <2> QED
      BY <1>1, <2>1, GetsTells
  <1> QED
    BY <1>2, <1>5, <1>6 DEF NameAt, w

\* A name that is not held is held behind the others.
LEMMA AcquireTells ==
  ASSUME NEW H, NEW held \in Seq(H), NEW name, NEW i
  PROVE  /\ (\A e \in Range(held) : e.name # name) =>
                Range(Acquire(held, name, i)) =
                  Range(held) \cup {[name |-> name, line |-> i, closed |-> 0, wrapped |-> FALSE]}
         /\ (\A e \in H : \A l : [e EXCEPT !.line = l, !.closed = 0].line = l) =>
                \A e \in Range(Acquire(held, name, i)) : e.line = i \/ \E f \in Range(held) : f.line = e.line
  <1> DEFINE new == [name |-> name, line |-> i, closed |-> 0, wrapped |-> FALSE]
             again == [k \in DOMAIN held |->
                         IF held[k].name = name THEN [held[k] EXCEPT !.line = i, !.closed = 0] ELSE held[k]]
             c == \E k \in DOMAIN held : held[k].name = name
  <1>1. Acquire(held, name, i) = IF c THEN again ELSE Append(held, new)
    BY Zenon DEF Acquire
  <1>2. new.line = i
    OBVIOUS
  <1>3. Range(Append(held, new)) = Range(held) \cup {new}
    <2> HIDE DEF new
    <2>1. Len(held) \in Nat /\ DOMAIN held = 1..Len(held) /\ DOMAIN Append(held, new) = 1..Len(held) + 1
      OBVIOUS
    <2>2. Append(held, new)[Len(held) + 1] = new /\ \A k \in 1..Len(held) : Append(held, new)[k] = held[k]
      OBVIOUS
    <2> DEFINE more == Append(held, new)
    <2> HIDE DEF more
    <2>3. DOMAIN more = 1..Len(held) + 1 /\ more[Len(held) + 1] = new /\ \A k \in 1..Len(held) : more[k] = held[k]
      BY <2>1, <2>2 DEF more
    <2>4. Range(more) = Range(held) \cup {new}
      BY <2>1, <2>3 DEF Range
    <2> QED
      BY <2>4 DEF more
  <1>4. (\A e \in Range(held) : e.name # name) => ~c
    BY DEF Range
  <1>5. \A k \in DOMAIN held : held[k] \in H
    OBVIOUS
  <1>6. ASSUME \A e \in H : \A l : [e EXCEPT !.line = l, !.closed = 0].line = l, NEW e \in Range(again)
        PROVE  e.line = i \/ \E f \in Range(held) : f.line = e.line
    <2>1. PICK k \in DOMAIN held : e = again[k]
      BY DEF Range
    <2>2. held[k] \in H /\ held[k] \in Range(held)
      <3>1. held[k] \in H
        BY <1>5
      <3>2. held[k] \in Range(held)
        BY Zenon DEF Range
      <3> QED
        BY <3>1, <3>2
    <2>3. e = [held[k] EXCEPT !.line = i, !.closed = 0] \/ e = held[k]
      BY <2>1
    <2>4. [held[k] EXCEPT !.line = i, !.closed = 0].line = i
      BY <1>6, <2>2
    <2> HIDE DEF again
    <2>5. CASE e = held[k]
      BY <2>2, <2>5
    <2>6. CASE e = [held[k] EXCEPT !.line = i, !.closed = 0]
      BY Zenon, <2>4, <2>6
    <2> QED
      BY <2>3, <2>5, <2>6
  <1> HIDE DEF new, again, c
  <1> QED
    BY <1>1, <1>2, <1>3, <1>4, <1>6 DEF new

\* A resource that is held is a record of four fields, before a statement and after it.
LEMMA HeldTells ==
  ASSUME NEW n \in Nat, NEW e \in Holdings(n), NEW i
  PROVE  /\ e.name \in Names /\ e.line \in 1..n /\ e.closed \in 0..n /\ e.wrapped \in BOOLEAN
         /\ e = [name |-> e.name, line |-> e.line, closed |-> e.closed, wrapped |-> e.wrapped]
         /\ Settled(e, i) = [name |-> e.name, line |-> e.line,
                             closed |-> IF Closing(i, e.name) THEN i ELSE e.closed,
                             wrapped |-> e.wrapped \/ Wrapping(i, e.name)]
         /\ \A l : [e EXCEPT !.line = l, !.closed = 0].line = l
  <1>1. /\ e.name \in Names /\ e.line \in 1..n /\ e.closed \in 0..n /\ e.wrapped \in BOOLEAN
        /\ e = [name |-> e.name, line |-> e.line, closed |-> e.closed, wrapped |-> e.wrapped]
    BY DEF Holdings
  <1>2. \A l : [e EXCEPT !.line = l, !.closed = 0].line = l
    BY DEF Holdings
  <1> DEFINE wraps == e.wrapped \/ Wrapping(i, e.name)
             closed == IF Closing(i, e.name) THEN i ELSE e.closed
  <1>3. Settled(e, i) = [e EXCEPT !.wrapped = wraps, !.closed = closed]
    BY Zenon DEF Settled
  <1> HIDE DEF wraps, closed
  <1>4. Settled(e, i) = [name |-> e.name, line |-> e.line, closed |-> closed, wrapped |-> wraps]
    BY <1>3 DEF Holdings
  <1> QED
    BY <1>1, <1>2, <1>4 DEF wraps, closed

\* After statement i the resources of the set before are settled, and no other is held.
SettledAll(before, after, i) ==
    \A x : x \in after <=> \E e \in before : x = Settled(e, i)

\* The same, with one more resource.
SettledWith(before, fresh, after, i) ==
    \A x : x \in after <=> x = Settled(fresh, i) \/ \E e \in before : x = Settled(e, i)

\* One statement: it may acquire a resource, and settles all that are held.
LEMMA ResourceLineTells ==
  ASSUME statements \in Seq(Text), NEW suffix, NEW s \in ResourceStates(Len(statements)),
         NEW i \in 1..Len(statements)
  PROVE  LET m == NextMethod(suffix, statements, s, i)
             new == ResourceLine(suffix, statements, s, i)
             fresh == [name |-> NameAt(i), line |-> i, closed |-> 0, wrapped |-> FALSE]
         IN  /\ new.start = m.start /\ new.out = m.out
             /\ \A e \in Range(new.held) : e.line = i \/ \E f \in Range(m.held) : f.line = e.line
             /\ Acquiring(i) = 0 => SettledAll(Range(m.held), Range(new.held), i)
             /\ Acquiring(i) > 0 /\ (\A e \in Range(m.held) : e.name # NameAt(i)) =>
                  SettledWith(Range(m.held), fresh, Range(new.held), i)
  <1> DEFINE n == Len(statements)
             H == Holdings(n)
             w == Words(statements[i])
             m == NextMethod(suffix, statements, s, i)
             at == Getting(i)
             got == Acquire(m.held, w[at], i)
             taken == IF at = 0 \/ "console" \in Range(w) THEN m.held ELSE got
             now == [k \in DOMAIN taken |-> Settled(taken[k], i)]
             new == ResourceLine(suffix, statements, s, i)
             fresh == [name |-> NameAt(i), line |-> i, closed |-> 0, wrapped |-> FALSE]
  <1>1. n \in Nat /\ w \in Text /\ m \in ResourceStates(n) /\ i \in DOMAIN statements /\ i # 0
    BY WordsType, NextMethodType
  <1>2. m.held \in Seq(H)
    BY <1>1 DEF ResourceStates
  <1>3. /\ at \in Nat /\ (at > 0 => w[at] \in Names)
        /\ Acquiring(i) = IF "console" \in Range(w) THEN 0 ELSE at
    BY <1>1, AcquiresTells
  <1>4. new = [m EXCEPT !.held = now]
    BY Zenon DEF ResourceLine, Settled, Wrapping, Closing, Getting
  <1>5. /\ Acquiring(i) = 0 => taken = m.held
        /\ Acquiring(i) > 0 => taken = Acquire(m.held, NameAt(i), i)
    <2> HIDE DEF m, w, at
    <2>1. Acquiring(i) > 0 => at # 0 /\ "console" \notin Range(w) /\ Acquiring(i) = at
      BY <1>3
    <2>2. Acquiring(i) = 0 => at = 0 \/ "console" \in Range(w)
      BY <1>3
    <2>3. NameAt(i) = w[Acquiring(i)]
      BY Zenon DEF NameAt, w
    <2> HIDE DEF got
    <2>4. Acquiring(i) = 0 => taken = m.held
      BY <2>2
    <2>5. Acquiring(i) > 0 => taken = got /\ w[at] = NameAt(i)
      BY <2>1, <2>3
    <2> QED
      BY <2>4, <2>5 DEF got
  <1> HIDE DEF taken, m, at, w, new, H
  <1>6. new.held = now /\ new.start = m.start /\ new.out = m.out
    <2> HIDE DEF now
    <2> QED
      BY <1>1, <1>4 DEF ResourceStates
  <1>7. Range(new.held) = {Settled(e, i) : e \in Range(taken)}
    <2>1. Range(now) = {Settled(e, i) : e \in Range(taken)}
      BY DEF Range
    <2> QED
      BY <1>6, <2>1
  <1>8. taken \in Seq(H)
    <2>1. Acquiring(i) > 0 => NameAt(i) \in Names
      BY <1>1, AcquiresTells
    <2>2. Acquiring(i) > 0 => Acquire(m.held, NameAt(i), i) \in Seq(H)
      BY <1>1, <1>2, <2>1, AcquireType DEF H
    <2>3. Acquiring(i) = 0 \/ Acquiring(i) > 0
      BY <1>3
    <2> QED
      BY <1>2, <1>5, <2>2, <2>3
  <1>9. \A e \in Range(taken) : e.line = i \/ \E f \in Range(m.held) : f.line = e.line
    <2>1. \A e \in H : \A l : [e EXCEPT !.line = l, !.closed = 0].line = l
      BY <1>1, HeldTells DEF H
    <2>2. \A e \in Range(Acquire(m.held, NameAt(i), i)) : e.line = i \/ \E f \in Range(m.held) : f.line = e.line
      BY <1>2, <2>1, AcquireTells
    <2>3. Acquiring(i) = 0 \/ Acquiring(i) > 0
      BY <1>3
    <2> QED
      BY <1>5, <2>2, <2>3
  <1>10. \A e \in Range(taken) : e \in H
    <2>1. \A k \in DOMAIN taken : taken[k] \in H
      BY <1>8
    <2> QED
      BY <2>1 DEF Range
  <1>11. \A e \in Range(new.held) : e.line = i \/ \E f \in Range(m.held) : f.line = e.line
    <2>1. \A e \in Range(taken) : Settled(e, i).line = e.line
      BY <1>1, <1>10, HeldTells DEF H
    <2> QED
      BY <1>7, <1>9, <2>1
  <1>12. Acquiring(i) > 0 /\ (\A e \in Range(m.held) : e.name # NameAt(i)) => Range(taken) = Range(m.held) \cup {fresh}
    <2>1. (\A e \in Range(m.held) : e.name # NameAt(i)) =>
             Range(Acquire(m.held, NameAt(i), i)) = Range(m.held) \cup {fresh}
      BY <1>2, AcquireTells
    <2> HIDE DEF fresh
    <2> QED
      BY <1>5, <2>1
  <1> HIDE DEF fresh
  <1>13. Acquiring(i) = 0 => \A x : x \in Range(new.held) <=> \E e \in Range(m.held) : x = Settled(e, i)
    BY <1>5, <1>7
  <1>14. Acquiring(i) > 0 /\ (\A e \in Range(m.held) : e.name # NameAt(i)) =>
           \A x : x \in Range(new.held) <=> x = Settled(fresh, i) \/ \E e \in Range(m.held) : x = Settled(e, i)
    BY <1>7, <1>12
  <1>15. Acquiring(i) = 0 => SettledAll(Range(m.held), Range(new.held), i)
    BY Zenon, <1>13 DEF SettledAll
  <1>16. Acquiring(i) > 0 /\ (\A e \in Range(m.held) : e.name # NameAt(i)) =>
           SettledWith(Range(m.held), fresh, Range(new.held), i)
    BY Zenon, <1>14 DEF SettledWith
  <1> QED
    BY Zenon, <1>6, <1>11, <1>15, <1>16 DEF m, new, fresh

\* What is known of a resource grows with each statement after its own.
LEMMA EntryTells ==
  ASSUME NEW N \in Nat, NEW k \in 1..N
  PROVE  /\ \A i \in 1 .. k - 1 :
              /\ Entry(i, k).closed = IF Closing(k, NameAt(i)) THEN k ELSE Entry(i, k - 1).closed
              /\ Entry(i, k).wrapped = (Entry(i, k - 1).wrapped \/ Wrapping(k, NameAt(i)))
         /\ Entry(k, k).closed = IF Closing(k, NameAt(k)) THEN k ELSE 0
         /\ Entry(k, k).wrapped = FALSE
  <1>1. ASSUME NEW i \in 1..k, NEW n
        PROVE  ClosedBy(i, k, n) = IF Closing(k, n) THEN k ELSE ClosedBy(i, k - 1, n)
    <2> DEFINE S(l) == {j \in i..l : Closing(j, n)}
    <2>1. S(k) = S(k - 1) \cup (IF Closing(k, n) THEN {k} ELSE {})
      <3>1. i..k = (i .. k - 1) \cup {k}
        OBVIOUS
      <3> QED
        BY <3>1
    <2>2. CASE Closing(k, n)
      <3>1. k \in S(k) /\ S(k) \in SUBSET (1..N) /\ \A j \in S(k) : j <= k
        BY <2>2
      <3> HIDE DEF S
      <3>2. Max({0} \cup S(k)) \in {0} \cup S(k) /\ k <= Max({0} \cup S(k))
        BY <3>1, LatestTells
      <3>3. Max({0} \cup S(k)) = k
        BY <3>1, <3>2
      <3>4. ClosedBy(i, k, n) = Max({0} \cup S(k))
        BY Zenon DEF ClosedBy, S
      <3> QED
        BY <2>2, <3>3, <3>4
    <2>3. CASE ~Closing(k, n)
      <3>1. S(k) = S(k - 1)
        BY <2>1, <2>3
      <3>2. ClosedBy(i, k, n) = Max({0} \cup S(k)) /\ ClosedBy(i, k - 1, n) = Max({0} \cup S(k - 1))
        BY Zenon DEF ClosedBy
      <3> QED
        BY Zenon, <2>3, <3>1, <3>2
    <2> QED
      BY <2>2, <2>3
  <1>2. \A n : ClosedBy(k, k - 1, n) = 0
    <2> SUFFICES ASSUME NEW n PROVE ClosedBy(k, k - 1, n) = 0
      OBVIOUS
    <2>1. {j \in k .. k - 1 : Closing(j, n)} = {}
      OBVIOUS
    <2>2. Max({0} \cup {}) \in {0} \cup {}
      BY 0 \in Nat, {} \in SUBSET (1..0), LatestTells
    <2>3. ClosedBy(k, k - 1, n) = Max({0} \cup {})
      BY Zenon, <2>1 DEF ClosedBy
    <2> QED
      BY <2>2, <2>3
  <1>3. ASSUME NEW i \in 1 .. k - 1, NEW n
        PROVE  (\E j \in i + 1 .. k : Wrapping(j, n)) <=> (\E j \in i + 1 .. k - 1 : Wrapping(j, n)) \/ Wrapping(k, n)
    <2>1. i + 1 .. k = (i + 1 .. k - 1) \cup {k}
      OBVIOUS
    <2> QED
      BY <2>1
  <1>4. k + 1 .. k = {}
    OBVIOUS
  <1>5. ASSUME NEW i, NEW l
        PROVE  /\ Entry(i, l).closed = ClosedBy(i, l, NameAt(i))
               /\ Entry(i, l).wrapped = \E j \in i + 1 .. l : Wrapping(j, NameAt(i))
    BY DEF Entry
  <1>6. \A i \in 1 .. k - 1 : i \in 1..k
    OBVIOUS
  <1>7. k \in 1..k
    OBVIOUS
  <1>8. ASSUME NEW i \in 1 .. k - 1
        PROVE  Entry(i, k).wrapped = (Entry(i, k - 1).wrapped \/ Wrapping(k, NameAt(i)))
    <2>1. Entry(i, k).wrapped = (\E j \in i + 1 .. k : Wrapping(j, NameAt(i)))
      BY <1>5
    <2>2. Entry(i, k - 1).wrapped = (\E j \in i + 1 .. k - 1 : Wrapping(j, NameAt(i)))
      BY <1>5
    <2>3. (\E j \in i + 1 .. k : Wrapping(j, NameAt(i)))
            <=> (\E j \in i + 1 .. k - 1 : Wrapping(j, NameAt(i))) \/ Wrapping(k, NameAt(i))
      BY <1>3
    <2> QED
      BY Zenon, <2>1, <2>2, <2>3
  <1>9. Entry(k, k).wrapped = FALSE
    <2>1. Entry(k, k).wrapped = (\E j \in k + 1 .. k : Wrapping(j, NameAt(k)))
      BY <1>5
    <2>2. ~(\E j \in k + 1 .. k : Wrapping(j, NameAt(k)))
      BY <1>4
    <2> QED
      BY Zenon, <2>1, <2>2
  <1>10. Entry(k, k).closed = IF Closing(k, NameAt(k)) THEN k ELSE 0
    <2>1. ClosedBy(k, k, NameAt(k)) = IF Closing(k, NameAt(k)) THEN k ELSE ClosedBy(k, k - 1, NameAt(k))
      BY Zenon, <1>1, <1>7
    <2>2. ClosedBy(k, k - 1, NameAt(k)) = 0
      BY Zenon, <1>2
    <2>3. Entry(k, k).closed = ClosedBy(k, k, NameAt(k))
      BY Zenon, <1>5
    <2> QED
      BY Zenon, <2>1, <2>2, <2>3
  <1>11. ASSUME NEW i \in 1 .. k - 1
         PROVE  Entry(i, k).closed = IF Closing(k, NameAt(i)) THEN k ELSE Entry(i, k - 1).closed
    <2>1. i \in 1..k
      BY Zenon, <1>6
    <2>2. ClosedBy(i, k, NameAt(i)) = IF Closing(k, NameAt(i)) THEN k ELSE ClosedBy(i, k - 1, NameAt(i))
      BY Zenon, <1>1, <2>1
    <2>3. Entry(i, k).closed = ClosedBy(i, k, NameAt(i)) /\ Entry(i, k - 1).closed = ClosedBy(i, k - 1, NameAt(i))
      BY Zenon, <1>5
    <2> QED
      BY Zenon, <2>2, <2>3
  <1> QED
    BY <1>8, <1>9, <1>10, <1>11

\* From line h to line k every name is acquired once, and none is wrapped into itself.
Sound(h, k) ==
    /\ \A i, j \in h..k : Acquiring(i) > 0 /\ Acquiring(j) > 0 /\ NameAt(i) = NameAt(j) => i = j
    /\ \A i \in h..k : Acquiring(i) > 0 => ~Wrapping(i, NameAt(i))

\* A statement settles a resource in its closing and its wrapping.
LEMMA SettledTells ==
  ASSUME NEW a, NEW b, NEW c, NEW d \in BOOLEAN, NEW i
  PROVE  Settled([name |-> a, line |-> b, closed |-> c, wrapped |-> d], i) =
           [name |-> a, line |-> b, closed |-> IF Closing(i, a) THEN i ELSE c, wrapped |-> d \/ Wrapping(i, a)]
  <1> DEFINE e == [name |-> a, line |-> b, closed |-> c, wrapped |-> d]
             closed == IF Closing(i, a) THEN i ELSE c
             wraps == d \/ Wrapping(i, a)
  <1>1. e.name = a /\ e.closed = c /\ e.wrapped = d
    OBVIOUS
  <1>2. Settled(e, i) = [e EXCEPT !.wrapped = wraps, !.closed = closed]
    <2> HIDE DEF e
    <2>1. Settled(e, i) = [e EXCEPT !.wrapped = e.wrapped \/ Wrapping(i, e.name),
                                    !.closed = IF Closing(i, e.name) THEN i ELSE e.closed]
      BY Zenon DEF Settled
    <2>2. (e.wrapped \/ Wrapping(i, e.name)) = wraps
      BY Zenon, <1>1
    <2>3. (IF Closing(i, e.name) THEN i ELSE e.closed) = closed
      BY Zenon, <1>1
    <2> QED
      BY Zenon, <2>1, <2>2, <2>3
  <1> HIDE DEF wraps, closed
  <1>3. Settled(e, i) = [name |-> a, line |-> b, closed |-> closed, wrapped |-> wraps]
    BY <1>2
  <1> QED
    BY <1>3 DEF wraps, closed

\* So it is known of each resource what the statements so far say of it.
LEMMA HeldStep ==
  ASSUME statements \in Seq(Text), NEW suffix, NEW s \in ResourceStates(Len(statements)),
         NEW k \in 1..Len(statements), NEW h \in 1..k, Sound(h, k),
         Range(NextMethod(suffix, statements, s, k).held) = HeldOf(h, k - 1)
  PROVE  Range(ResourceLine(suffix, statements, s, k).held) = HeldOf(h, k)
  <1> DEFINE N == Len(statements)
             m == NextMethod(suffix, statements, s, k)
             new == ResourceLine(suffix, statements, s, k)
             fresh == [name |-> NameAt(k), line |-> k, closed |-> 0, wrapped |-> FALSE]
             before == {j \in h .. k - 1 : Acquiring(j) > 0}
             upto == {j \in h..k : Acquiring(j) > 0}
  <1>1. N \in Nat /\ k \in 1..N /\ h \in Nat /\ h..k = (h .. k - 1) \cup {k}
    OBVIOUS
  <1>2. Acquiring(k) \in Nat
    <2>1. k \in DOMAIN statements
      OBVIOUS
    <2>2. Getting(k) \in Nat /\ Acquiring(k) = IF "console" \in Range(Words(statements[k])) THEN 0 ELSE Getting(k)
      BY <2>1, AcquiresTells
    <2> QED
      BY <2>2
  <1>3. ASSUME NEW i \in h .. k - 1 PROVE Settled(Entry(i, k - 1), k) = Entry(i, k)
    <2> DEFINE c == ClosedBy(i, k - 1, NameAt(i))
               d == \E j \in i + 1 .. k - 1 : Wrapping(j, NameAt(i))
               e == ClosedBy(i, k, NameAt(i))
               f == \E j \in i + 1 .. k : Wrapping(j, NameAt(i))
    <2>1. /\ Entry(i, k - 1) = [name |-> NameAt(i), line |-> i, closed |-> c, wrapped |-> d]
          /\ Entry(i, k) = [name |-> NameAt(i), line |-> i, closed |-> e, wrapped |-> f]
      BY Zenon DEF Entry
    <2>2. i \in 1 .. k - 1
      BY <1>1
    <2>3. d \in BOOLEAN
      BY Zenon
    <2>4. /\ Entry(i, k).closed = IF Closing(k, NameAt(i)) THEN k ELSE Entry(i, k - 1).closed
          /\ Entry(i, k).wrapped = (Entry(i, k - 1).wrapped \/ Wrapping(k, NameAt(i)))
      BY <1>1, <2>2, EntryTells
    <2> HIDE DEF c, d, e, f
    <2>5. Settled(Entry(i, k - 1), k) =
            [name |-> NameAt(i), line |-> i, closed |-> IF Closing(k, NameAt(i)) THEN k ELSE c,
             wrapped |-> d \/ Wrapping(k, NameAt(i))]
      BY <2>1, <2>3, SettledTells
    <2>6. Entry(i, k).closed = e /\ Entry(i, k).wrapped = f /\ Entry(i, k - 1).closed = c /\ Entry(i, k - 1).wrapped = d
      BY <2>1
    <2>7. e = (IF Closing(k, NameAt(i)) THEN k ELSE c) /\ f = (d \/ Wrapping(k, NameAt(i)))
      BY Zenon, <2>4, <2>6
    <2> QED
      BY Zenon, <2>1, <2>5, <2>7
  <1>4. ASSUME Acquiring(k) > 0 PROVE Settled(fresh, k) = Entry(k, k)
    <2> DEFINE e == ClosedBy(k, k, NameAt(k))
               f == \E j \in k + 1 .. k : Wrapping(j, NameAt(k))
    <2>1. Entry(k, k) = [name |-> NameAt(k), line |-> k, closed |-> e, wrapped |-> f]
      BY Zenon DEF Entry
    <2> HIDE DEF e, f
    <2>2. Entry(k, k).closed = (IF Closing(k, NameAt(k)) THEN k ELSE 0) /\ Entry(k, k).wrapped = FALSE
      BY <1>1, EntryTells
    <2>3. ~Wrapping(k, NameAt(k))
      BY <1>1, <1>4 DEF Sound
    <2>4. Settled(fresh, k) = [name |-> NameAt(k), line |-> k, closed |-> IF Closing(k, NameAt(k)) THEN k ELSE 0,
                               wrapped |-> FALSE \/ Wrapping(k, NameAt(k))]
      BY FALSE \in BOOLEAN, SettledTells
    <2>5. Entry(k, k).closed = e /\ Entry(k, k).wrapped = f
      BY <2>1
    <2>6. (FALSE \/ Wrapping(k, NameAt(k))) = FALSE
      BY Zenon, <2>3
    <2> QED
      BY Zenon, <2>1, <2>2, <2>4, <2>5, <2>6
  <1>5. /\ Acquiring(k) = 0 => upto = before
        /\ Acquiring(k) > 0 => upto = before \cup {k}
    BY <1>1
  <1>6. HeldOf(h, k - 1) = {Entry(i, k - 1) : i \in before} /\ HeldOf(h, k) = {Entry(i, k) : i \in upto}
    BY Zenon DEF HeldOf
  <1>7. \A i \in before : i \in h .. k - 1 /\ Acquiring(i) > 0
    OBVIOUS
  <1>8. Acquiring(k) > 0 => \A e \in HeldOf(h, k - 1) : e.name # NameAt(k)
    <2> SUFFICES ASSUME Acquiring(k) > 0, NEW e \in HeldOf(h, k - 1) PROVE e.name # NameAt(k)
      OBVIOUS
    <2>1. PICK i \in before : e = Entry(i, k - 1)
      BY <1>6
    <2>2. e.name = NameAt(i)
      BY <2>1 DEF Entry
    <2>3. i \in h..k /\ k \in h..k /\ i # k /\ Acquiring(i) > 0
      BY <1>1, <1>7
    <2>4. NameAt(i) # NameAt(k)
      BY <2>3 DEF Sound
    <2> QED
      BY <2>2, <2>4
  <1> HIDE DEF before, upto
  <1>9. /\ Acquiring(k) = 0 => SettledAll(Range(m.held), Range(new.held), k)
        /\ Acquiring(k) > 0 /\ (\A e \in Range(m.held) : e.name # NameAt(k)) =>
             SettledWith(Range(m.held), fresh, Range(new.held), k)
    BY Zenon, ResourceLineTells
  <1>10. Range(m.held) = HeldOf(h, k - 1)
    OBVIOUS
  <1> HIDE DEF m, new, fresh
  <1>11. \A x : (\E e \in Range(m.held) : x = Settled(e, k)) <=> \E i \in before : x = Entry(i, k)
    <2>1. \A x : (\E e \in Range(m.held) : x = Settled(e, k)) <=> \E i \in before : x = Settled(Entry(i, k - 1), k)
      BY <1>6, <1>10
    <2>2. \A i \in before : Settled(Entry(i, k - 1), k) = Entry(i, k)
      BY <1>3, <1>7
    <2> QED
      BY <2>1, <2>2
  <1>12. \A x : x \in HeldOf(h, k) <=> \E i \in upto : x = Entry(i, k)
    BY <1>6
  <1>13. CASE Acquiring(k) = 0
    <2>1. \A x : x \in Range(new.held) <=> x \in HeldOf(h, k)
      <3>1. \A x : x \in Range(new.held) <=> \E e \in Range(m.held) : x = Settled(e, k)
        BY Zenon, <1>9, <1>13 DEF SettledAll
      <3>2. upto = before
        BY Zenon, <1>5, <1>13
      <3> QED
        BY Zenon, <1>11, <1>12, <3>1, <3>2
    <2>2. Range(new.held) = HeldOf(h, k)
      BY <2>1
    <2> QED
      BY <2>2 DEF new
  <1>14. CASE Acquiring(k) > 0
    <2>1. \A x : x \in Range(new.held) <=> x = Entry(k, k) \/ \E i \in before : x = Entry(i, k)
      <3>1. \A e \in Range(m.held) : e.name # NameAt(k)
        BY Zenon, <1>8, <1>10, <1>14
      <3>2. \A x : x \in Range(new.held) <=> x = Settled(fresh, k) \/ \E e \in Range(m.held) : x = Settled(e, k)
        BY Zenon, <1>9, <1>14, <3>1 DEF SettledWith
      <3>3. Settled(fresh, k) = Entry(k, k)
        BY Zenon, <1>4, <1>14
      <3> QED
        BY Zenon, <1>11, <3>2, <3>3
    <2>2. \A x : x \in HeldOf(h, k) <=> x = Entry(k, k) \/ \E i \in before : x = Entry(i, k)
      <3>1. upto = before \cup {k}
        BY <1>5, <1>14
      <3> QED
        BY <1>12, <3>1
    <2>3. Range(new.held) = HeldOf(h, k)
      BY <2>1, <2>2
    <2> QED
      BY <2>3 DEF new
  <1> QED
    BY <1>2, <1>13, <1>14

\* When a method ends, what is not settled is reported at the line that acquired it.
LEMMA UnreleasedTells ==
  ASSUME NEW text, NEW n \in Nat, NEW s \in ResourceStates(n), NEW end
  PROVE  \A l : l \in Told("release", Unreleased(text, s, end)) <=>
                  \E e \in Range(s.held) : e.line = l /\ Unsettled(text, s.start, end, e)
  <1> DEFINE A == At(ReleaseRules, n)
             one(e) == IF Unsettled(text, s.start, end, e) THEN <<Candidate("release", e.line)>> ELSE <<>>
             f == [k \in DOMAIN s.held |-> one(s.held[k])]
  <1>1. s.held \in Seq(Holdings(n)) /\ DOMAIN s.held = 1..Len(s.held) /\ Len(s.held) \in Nat
    BY DEF ResourceStates
  <1>2. Unreleased(text, s, end) = FlattenSeq(f)
    BY Zenon DEF Unreleased
  <1>3. \A e \in Holdings(n) : one(e) \in Seq(A)
    <2> SUFFICES ASSUME NEW e \in Holdings(n) PROVE one(e) \in Seq(A)
      OBVIOUS
    <2>1. e.line \in 1..n /\ "release" \in ReleaseRules
      BY DEF Holdings, ReleaseRules
    <2>2. Candidate("release", e.line) \in A
      BY <2>1 DEF At, Candidate
    <2> HIDE DEF A
    <2> QED
      BY <2>2
  <1>4. \A e, l : l \in Told("release", one(e)) <=> e.line = l /\ Unsettled(text, s.start, end, e)
    <2> SUFFICES ASSUME NEW e, NEW l
                 PROVE  l \in Told("release", one(e)) <=> e.line = l /\ Unsettled(text, s.start, end, e)
      OBVIOUS
    <2>1. CASE Unsettled(text, s.start, end, e)
      <3>1. Told("release", <<Candidate("release", e.line)>>) = {e.line}
        BY DEF Told, Candidate
      <3>2. one(e) = <<Candidate("release", e.line)>>
        BY Zenon, <2>1
      <3> HIDE DEF one
      <3> QED
        BY <2>1, <3>1, <3>2
    <2>2. CASE ~Unsettled(text, s.start, end, e)
      <3>1. Told("release", <<>>) = {}
        BY DEF Told
      <3>2. one(e) = <<>>
        BY Zenon, <2>2
      <3> HIDE DEF one
      <3> QED
        BY <2>2, <3>1, <3>2
    <2> QED
      BY <2>1, <2>2
  <1> HIDE DEF one, A
  <1>5. \A k \in DOMAIN s.held : s.held[k] \in Holdings(n)
    BY <1>1
  <1>6. f \in [1..Len(s.held) -> Seq(A)]
    BY <1>1, <1>3, <1>5
  <1>7. \A l : l \in Told("release", FlattenSeq(f)) <=> \E k \in 1..Len(s.held) : l \in Told("release", f[k])
    BY <1>1, <1>6, ToldGathered
  <1>8. \A k \in 1..Len(s.held) : f[k] = one(s.held[k])
    BY <1>1
  <1>9. \A l : l \in Told("release", FlattenSeq(f)) <=> \E k \in 1..Len(s.held) : l \in Told("release", one(s.held[k]))
    BY <1>7, <1>8
  <1>10. \A l : (\E e \in Range(s.held) : e.line = l /\ Unsettled(text, s.start, end, e))
                 <=> \E k \in 1..Len(s.held) : s.held[k].line = l /\ Unsettled(text, s.start, end, s.held[k])
    <2>1. Range(s.held) = {s.held[k] : k \in 1..Len(s.held)}
      BY <1>1 DEF Range
    <2> QED
      BY <2>1
  <1> HIDE DEF f
  <1>11. \A l, k : l \in Told("release", one(s.held[k]))
                     <=> s.held[k].line = l /\ Unsettled(text, s.start, end, s.held[k])
    BY Zenon, <1>4
  <1>12. ASSUME NEW l
         PROVE  l \in Told("release", Unreleased(text, s, end)) <=>
                  \E e \in Range(s.held) : e.line = l /\ Unsettled(text, s.start, end, e)
    <2>1. l \in Told("release", Unreleased(text, s, end)) <=> l \in Told("release", FlattenSeq(f))
      BY Zenon, <1>2
    <2> QED
      BY Zenon, <1>9, <1>10, <1>11, <2>1
  <1> QED
    BY Zenon, <1>12

\* The method of a line begins at the last header up to it.
LEMMA MethodTells ==
  ASSUME statements \in Seq(Text)
  PROVE  /\ MethodOf(statements, 0) = 1
         /\ \A k \in 1..Len(statements) :
              /\ MethodOf(statements, k) \in 1..k
              /\ MethodOf(statements, k) = IF HeaderAt(statements, k) THEN k ELSE MethodOf(statements, k - 1)
              /\ \A h \in 1..k : HeaderAt(statements, h) => h <= MethodOf(statements, k)
              /\ \A h \in MethodOf(statements, k) .. k : MethodOf(statements, h) = MethodOf(statements, k)
  <1> DEFINE N == Len(statements)
             S(k) == {1} \cup {h \in 1..k : HeaderAt(statements, h)}
             M(k) == MethodOf(statements, k)
  <1>1. N \in Nat /\ DOMAIN statements = 1..N
    OBVIOUS
  <1>2. \A k : M(k) = Max(S(k))
    BY Zenon DEF MethodOf
  <1>3. M(0) = 1
    <2>1. S(0) \in SUBSET (1..1) /\ S(0) # {}
      OBVIOUS
    <2> HIDE DEF S
    <2>2. Max(S(0)) \in S(0)
      BY <2>1, MaxOfSet
    <2>3. Max(S(0)) \in 1..1
      BY <2>1, <2>2
    <2>4. Max(S(0)) = 1
      BY <2>3
    <2> QED
      BY <1>2, <2>4
  <1>4. ASSUME NEW k \in 1..N
        PROVE  /\ M(k) \in 1..k /\ (M(k) = 1 \/ HeaderAt(statements, M(k)))
               /\ \A h \in 1..k : HeaderAt(statements, h) => h <= M(k)
    <2>1. S(k) \in SUBSET (1..k) /\ S(k) # {} /\ k \in Nat
      BY <1>1
    <2>2. (\A h \in 1..k : HeaderAt(statements, h) => h \in S(k)) /\ \A h \in S(k) : h = 1 \/ HeaderAt(statements, h)
      OBVIOUS
    <2> HIDE DEF S
    <2>3. Max(S(k)) \in S(k) /\ \A h \in S(k) : h <= Max(S(k))
      BY <2>1, MaxOfSet
    <2>4. M(k) \in S(k) /\ \A h \in S(k) : h <= M(k)
      BY Zenon, <1>2, <2>3
    <2> HIDE DEF M
    <2>5. M(k) \in 1..k
      BY <2>1, <2>4
    <2> QED
      BY <2>2, <2>4, <2>5
  <1> HIDE DEF M, S
  <1>5. ASSUME NEW k \in 1..N, NEW l \in 1..k, M(k) <= l PROVE M(l) = M(k)
    <2>1. l \in 1..N /\ M(k) \in 1..l
      BY <1>1, <1>4, <1>5
    <2>2. M(l) \in 1..l /\ M(k) \in 1..k
      BY <1>4, <2>1
    <2>3. M(k) <= M(l)
      <3>1. M(k) = 1 \/ HeaderAt(statements, M(k))
        BY <1>4
      <3>2. HeaderAt(statements, M(k)) => M(k) <= M(l)
        BY <1>4, <2>1
      <3> QED
        BY <2>2, <3>1, <3>2
    <2>4. M(l) <= M(k)
      <3>1. M(l) = 1 \/ HeaderAt(statements, M(l))
        BY <1>4, <2>1
      <3>2. M(l) \in 1..k
        BY <1>1, <2>2
      <3>3. HeaderAt(statements, M(l)) => M(l) <= M(k)
        BY <1>4, <3>2
      <3> QED
        BY <2>2, <3>1, <3>3
    <2> QED
      BY <2>2, <2>3, <2>4
  <1>6. ASSUME NEW k \in 1..N PROVE M(k) = IF HeaderAt(statements, k) THEN k ELSE M(k - 1)
    <2>1. CASE HeaderAt(statements, k)
      <3>1. k \in 1..k /\ k <= M(k) /\ M(k) \in 1..k
        BY <1>1, <1>4, <2>1
      <3>2. M(k) = k
        BY <3>1
      <3> QED
        BY <2>1, <3>2
    <2>2. CASE ~HeaderAt(statements, k) /\ k = 1
      <3>1. M(1) \in 1..1
        BY <1>4, <2>2
      <3>2. M(1) = 1
        BY <3>1
      <3> QED
        BY <1>3, <2>2, <3>2
    <2>3. CASE ~HeaderAt(statements, k) /\ k # 1
      <3>1. M(k) # k
        BY <1>4, <2>3
      <3>2. k - 1 \in 1..k /\ M(k) <= k - 1
        BY <1>1, <1>4, <3>1, <2>3
      <3>3. M(k - 1) = M(k)
        BY <1>5, <3>2
      <3> QED
        BY <2>3, <3>3
    <2> QED
      BY <2>1, <2>2, <2>3
  <1>7. ASSUME NEW k \in 1..N, NEW h \in M(k)..k PROVE M(h) = M(k)
    <2>1. h \in 1..k /\ M(k) <= h
      BY <1>1, <1>4
    <2> QED
      BY <1>5, <2>1
  <1> QED
    BY <1>3, <1>4, <1>6, <1>7 DEF M

\* The lines of a method follow each other, up to the next header.
LEMMA MethodLinesTell ==
  ASSUME statements \in Seq(Text), NEW h \in {MethodOf(statements, i) : i \in DOMAIN statements}
  PROVE  \E k \in 1..Len(statements) :
            /\ MethodOf(statements, k) = h /\ MethodLines(statements, h) = h..k
            /\ k < Len(statements) => HeaderAt(statements, k + 1)
  <1> DEFINE N == Len(statements)
             L == MethodLines(statements, h)
             k == Max(L)
             M(l) == MethodOf(statements, l)
  <1>1. N \in Nat /\ DOMAIN statements = 1..N
    OBVIOUS
  <1>2. \A l : l \in L <=> l \in 1..N /\ M(l) = h
    BY <1>1 DEF MethodLines
  <1>3. L \in SUBSET (1..N) /\ L # {}
    BY <1>1, <1>2
  <1> HIDE DEF L
  <1>4. k \in L /\ \A l \in L : l <= k
    BY <1>1, <1>3, MaxOfSet
  <1> HIDE DEF k
  <1>5. k \in 1..N /\ M(k) = h /\ h \in 1..k
    <2>1. k \in 1..N /\ M(k) = h
      BY <1>2, <1>4
    <2>2. M(k) \in 1..k
      BY <2>1, MethodTells
    <2> QED
      BY <2>1, <2>2
  <1>6. \A l \in L : l \in h..k
    <2> SUFFICES ASSUME NEW l \in L PROVE l \in h..k
      OBVIOUS
    <2>1. l \in 1..N /\ M(l) = h /\ l <= k
      BY <1>2, <1>4
    <2>2. M(l) \in 1..l
      BY <2>1, MethodTells
    <2> QED
      BY <1>1, <1>5, <2>1, <2>2
  <1>7. \A l \in h..k : l \in L
    <2> SUFFICES ASSUME NEW l \in h..k PROVE l \in L
      OBVIOUS
    <2>1. M(l) = M(k)
      BY <1>5, MethodTells
    <2>2. l \in 1..N
      BY <1>1, <1>5
    <2> QED
      BY <1>2, <1>5, <2>1, <2>2
  <1>8. ASSUME k < N PROVE HeaderAt(statements, k + 1)
    <2>1. k + 1 \in 1..N /\ k + 1 \notin L /\ k + 1 - 1 = k
      <3>1. k + 1 \in 1..N /\ ~(k + 1 <= k) /\ k + 1 - 1 = k
        BY <1>1, <1>5, <1>8
      <3> QED
        BY <1>4, <3>1
    <2>2. M(k + 1) # h
      BY <1>2, <2>1
    <2>3. M(k + 1) = IF HeaderAt(statements, k + 1) THEN k + 1 ELSE M(k)
      <3>1. PICK z : z = k + 1
        OBVIOUS
      <3>2. z \in 1..N
        BY <2>1, <3>1
      <3> HIDE DEF M
      <3>3. M(z) = IF HeaderAt(statements, z) THEN z ELSE M(z - 1)
        BY <3>2, MethodTells DEF M
      <3>4. z - 1 = k
        BY <1>1, <1>5, <3>1
      <3> QED
        BY Zenon, <3>1, <3>3, <3>4
    <2> QED
      BY <1>5, <2>2, <2>3
  <1>9. L = h..k
    BY <1>6, <1>7
  <1> QED
    BY <1>5, <1>8, <1>9 DEF L

\* The lines of the walk after statement k, with those of a method that ends there.
ReleasedAfter(text, s, k) == Told("release", s.out) \cup Told("release", Unreleased(text, s, k + 1))

\* A header hands on what is reported so far with what the method before it leaves.
LEMMA NextMethodTells ==
  ASSUME statements \in Seq(Text), NEW s \in ResourceStates(Len(statements)), NEW k \in 1..Len(statements)
  PROVE  LET m == NextMethod(file.suffix, statements, s, k)
         IN  /\ HeaderAt(statements, k) =>
                  /\ m.held = <<>> /\ m.start = k /\ Told("release", m.out) = ReleasedAfter(statements, s, k - 1)
             /\ ~HeaderAt(statements, k) => m = s
  <1> DEFINE m == NextMethod(file.suffix, statements, s, k)
             A == At(ReleaseRules, Len(statements))
             rest == Unreleased(statements, s, k)
  <1>1. HeaderAt(statements, k) => m = [held |-> <<>>, start |-> k, out |-> s.out \o rest]
    BY Zenon DEF NextMethod, HeaderAt
  <1>2. ~HeaderAt(statements, k) => m = s
    BY Zenon DEF NextMethod, HeaderAt
  <1>3. s.out \in Seq(A) /\ rest \in Seq(A)
    BY UnreleasedPlaces DEF ResourceStates, Reports
  <1>4. k - 1 + 1 = k
    OBVIOUS
  <1> HIDE DEF A
  <1>5. Told("release", s.out \o rest) = Told("release", s.out) \cup Told("release", rest)
    BY <1>3, ToldAppended
  <1>6. ReleasedAfter(statements, s, k - 1) = Told("release", s.out) \cup Told("release", rest)
    BY <1>4 DEF ReleasedAfter
  <1> HIDE DEF m, rest
  <1>7. HeaderAt(statements, k) => m.held = <<>> /\ m.start = k /\ m.out = s.out \o rest
    BY <1>1
  <1> QED
    BY <1>2, <1>5, <1>6, <1>7 DEF m

\* A method keeps what its own lines acquire, and reports it when it ends.
LEMMA WalkTells ==
  ASSUME statements \in Seq(Text), NEW F \in [0..Len(statements) -> ResourceStates(Len(statements))],
         F[0] = [held |-> <<>>, start |-> 1, out |-> <<>>],
         \A k \in 1..Len(statements) : F[k] = ResourceLine(file.suffix, statements, F[k - 1], k)
  PROVE  \A k \in 0..Len(statements) :
            /\ F[k].start = MethodOf(statements, k)
            /\ \A l \in Told("release", F[k].out) : l < MethodOf(statements, k)
            /\ \A e \in Range(F[k].held) : e.line >= MethodOf(statements, k) /\ e.line <= k
            /\ Sound(MethodOf(statements, k), k) => Range(F[k].held) = HeldOf(MethodOf(statements, k), k)
  <1> DEFINE N == Len(statements)
             M(k) == MethodOf(statements, k)
             So(k) == /\ F[k].start = M(k)
                      /\ \A l \in Told("release", F[k].out) : l < M(k)
                      /\ \A e \in Range(F[k].held) : e.line >= M(k) /\ e.line <= k
                      /\ Sound(M(k), k) => Range(F[k].held) = HeldOf(M(k), k)
             T == {k \in 0..N : So(k)}
  <1>1. N \in Nat /\ M(0) = 1
    BY MethodTells
  <1>2. Range(<<>>) = {} /\ Told("release", <<>>) = {}
    BY DEF Range, Told
  <1>3. \A h, k \in Nat : k < h => HeldOf(h, k) = {}
    <2> SUFFICES ASSUME NEW h \in Nat, NEW k \in Nat, k < h PROVE HeldOf(h, k) = {}
      OBVIOUS
    <2>1. {j \in h..k : Acquiring(j) > 0} = {}
      OBVIOUS
    <2> QED
      BY <2>1 DEF HeldOf
  <1>4. 0 \in T
    <2>1. HeldOf(1, 0) = {}
      BY <1>3
    <2>2. F[0].held = <<>> /\ F[0].start = 1 /\ F[0].out = <<>>
      OBVIOUS
    <2> HIDE DEF M
    <2>3. So(0)
      BY <1>1, <1>2, <2>1, <2>2
    <2> QED
      BY <1>1, <2>3
  <1>5. ASSUME NEW k \in 1..N, k - 1 \in T PROVE k \in T
    <2> DEFINE s == F[k - 1]
               m == NextMethod(file.suffix, statements, s, k)
               new == F[k]
               h == M(k)
               c == HeaderAt(statements, k)
    <2>1. k - 1 \in 0..N /\ k \in 0..N /\ k \in 1..N /\ k - 1 \in Nat /\ k \in Nat /\ k - 1 < k
      BY <1>1
    <2>2. s \in ResourceStates(N) /\ new = ResourceLine(file.suffix, statements, s, k)
      BY <2>1
    <2>3. h \in 1..k /\ h = IF c THEN k ELSE M(k - 1)
      BY <2>1, MethodTells
    <2>4. So(k - 1)
      BY <1>5
    <2> HIDE DEF s, m, new, h, M, c
    <2>5. /\ c => m.held = <<>> /\ m.start = k /\ Told("release", m.out) = ReleasedAfter(statements, s, k - 1)
          /\ ~c => m = s
      BY <2>2, NextMethodTells DEF m, c
    <2>6. /\ s.start = M(k - 1)
          /\ \A l \in Told("release", s.out) : l < M(k - 1)
          /\ \A e \in Range(s.held) : e.line >= M(k - 1) /\ e.line <= k - 1
          /\ Sound(M(k - 1), k - 1) => Range(s.held) = HeldOf(M(k - 1), k - 1)
      BY <2>4 DEF s
    <2>7. /\ new.start = m.start /\ new.out = m.out
          /\ \A e \in Range(new.held) : e.line = k \/ \E f \in Range(m.held) : f.line = e.line
      BY Zenon, <2>2, ResourceLineTells DEF m
    <2>8. CASE c
      <3>1. h = k /\ new.start = k
        BY <2>3, <2>5, <2>7, <2>8
      <3>2. \A l \in Told("release", new.out) : l < k
        <4>1. \A l \in Told("release", s.out) : l < k
          <5>1. M(k - 1) \in 1..k
            <6>1. CASE k = 1
              BY <1>1, <6>1
            <6>2. CASE k # 1
              <7>1. k - 1 \in 1..N
                BY <1>1, <6>2
              <7>2. M(k - 1) \in 1 .. k - 1
                BY <7>1, MethodTells DEF M
              <7> QED
                BY <7>1, <7>2
            <6> QED
              BY <6>1, <6>2
          <5>2. \A l \in Told("release", s.out) : l \in Nat
            <6>1. s.out \in Seq(At(ReleaseRules, N))
              BY <2>2 DEF ResourceStates, Reports
            <6>2. \A x \in At(ReleaseRules, N) : x.line \in Nat
              BY <1>1 DEF At
            <6> QED
              BY <6>1, <6>2 DEF Told
          <5> QED
            BY <2>6, <5>1, <5>2
        <4>2. \A l : l \in Told("release", Unreleased(statements, s, k - 1 + 1)) =>
                       \E e \in Range(s.held) : e.line = l
          BY <1>1, <2>2, UnreleasedTells
        <4>3. \A e \in Range(s.held) : e.line < k
          <5>1. \A e \in Range(s.held) : e.line \in Nat
            <6>1. s.held \in Seq(Holdings(N))
              BY <2>2 DEF ResourceStates
            <6>2. \A e \in Holdings(N) : e.line \in Nat
              BY <1>1 DEF Holdings
            <6> QED
              BY <6>1, <6>2 DEF Range
          <5>2. \A e \in Range(s.held) : e.line <= k - 1
            BY <2>6
          <5> QED
            BY <2>1, <5>1, <5>2
        <4>4. Told("release", new.out) =
                Told("release", s.out) \cup Told("release", Unreleased(statements, s, k - 1 + 1))
          BY <2>5, <2>7, <2>8 DEF ReleasedAfter
        <4> QED
          BY <4>1, <4>2, <4>3, <4>4
      <3>3. Range(m.held) = {}
        BY <1>2, <2>5, <2>8
      <3>4. \A e \in Range(new.held) : e.line = k
        BY <2>7, <3>3
      <3>5. Sound(k, k) => Range(new.held) = HeldOf(k, k)
        <4>1. HeldOf(k, k - 1) = {}
          BY <1>3, <2>1
        <4>2. Range(m.held) = HeldOf(k, k - 1)
          BY <3>3, <4>1
        <4>3. k \in 1..k
          BY <2>1
        <4> QED
          BY Zenon, <2>2, <4>2, <4>3, HeldStep DEF m
      <3>6. \A e \in Range(new.held) : e.line >= k /\ e.line <= k
        BY <2>1, <3>4
      <3>7. So(k)
        BY <3>1, <3>2, <3>5, <3>6 DEF new, h
      <3> QED
        BY <2>1, <3>7
    <2>9. CASE ~c
      <3>1. h = M(k - 1) /\ m = s
        BY <2>3, <2>5, <2>9
      <3>2. new.start = h /\ \A l \in Told("release", new.out) : l < h
        BY <2>6, <2>7, <3>1
      <3>3. \A e \in Range(new.held) : e.line >= h /\ e.line <= k
        <4>1. \A e \in Range(s.held) : e.line >= h /\ e.line <= k
          <5>1. \A e \in Range(s.held) : e.line \in Nat
            <6>1. s.held \in Seq(Holdings(N))
              BY <2>2 DEF ResourceStates
            <6>2. \A e \in Holdings(N) : e.line \in Nat
              BY <1>1 DEF Holdings
            <6> QED
              BY <6>1, <6>2 DEF Range
          <5>2. \A e \in Range(s.held) : e.line >= h /\ e.line <= k - 1
            BY <2>6, <3>1
          <5> QED
            BY <2>1, <5>1, <5>2
        <4>2. k >= h /\ k <= k
          BY <2>1, <2>3
        <4>3. \A e \in Range(new.held) : e.line = k \/ \E f \in Range(s.held) : f.line = e.line
          BY <2>7, <3>1
        <4> QED
          BY <4>1, <4>2, <4>3
      <3>4. Sound(h, k) => Range(new.held) = HeldOf(h, k)
        <4> SUFFICES ASSUME Sound(h, k) PROVE Range(new.held) = HeldOf(h, k)
          OBVIOUS
        <4>1. Sound(h, k - 1)
          <5>1. h .. k - 1 \subseteq h..k
            BY <2>1, <2>3
          <5> QED
            BY <5>1 DEF Sound
        <4>2. Range(m.held) = HeldOf(h, k - 1)
          BY <2>6, <3>1, <4>1
        <4> QED
          BY Zenon, <2>2, <2>3, <4>2, HeldStep DEF m
      <3>5. So(k)
        BY <3>2, <3>3, <3>4 DEF new, h
      <3> QED
        BY <2>1, <3>5
    <2> QED
      BY <2>8, <2>9
  <1>6. \A k \in 0..N : k \in T
    <2> HIDE DEF T
    <2>1. 0..N \subseteq T
      BY <1>1, <1>4, <1>5, Folds!CountingUp
    <2> QED
      BY <2>1
  <1> QED
    BY <1>6

\* What a header has handed on stays as it is.
LEMMA HandedOn ==
  ASSUME statements \in Seq(Text), NEW F \in [0..Len(statements) -> ResourceStates(Len(statements))],
         F[0] = [held |-> <<>>, start |-> 1, out |-> <<>>],
         \A k \in 1..Len(statements) : F[k] = ResourceLine(file.suffix, statements, F[k - 1], k),
         NEW b \in 1..Len(statements), HeaderAt(statements, b)
  PROVE  \A l \in 1 .. b - 1 : l \in ReleasedAfter(statements, F[Len(statements)], Len(statements))
                                 <=> l \in ReleasedAfter(statements, F[b - 1], b - 1)
  <1> DEFINE N == Len(statements)
             M(k) == MethodOf(statements, k)
             out(k) == Told("release", F[k].out)
             before == ReleasedAfter(statements, F[b - 1], b - 1)
             So(k) == b <= k => \A l \in 1 .. b - 1 : l \in out(k) <=> l \in before
             T == {k \in 0..N : So(k)}
  <1>1. N \in Nat /\ b \in 1..N
    OBVIOUS
  <1>2. ASSUME NEW k \in b..N PROVE k \in 1..N /\ M(k) >= b
    <2>1. k \in 1..N /\ b \in 1..k
      BY <1>1
    <2>2. b <= M(k) /\ M(k) \in 1..k
      BY <2>1, MethodTells
    <2> QED
      BY <1>1, <2>1, <2>2
  <1>3. ASSUME NEW k \in b..N, NEW l \in 1 .. b - 1
        PROVE  l \in ReleasedAfter(statements, F[k], k) <=> l \in out(k)
    <2>1. k \in 0..N /\ F[k] \in ResourceStates(N)
      BY <1>1
    <2>2. \A e \in Range(F[k].held) : e.line >= M(k) /\ e.line <= k
      BY <2>1, WalkTells
    <2>3. \A x : x \in Told("release", Unreleased(statements, F[k], k + 1)) => \E e \in Range(F[k].held) : e.line = x
      BY <1>1, <2>1, UnreleasedTells
    <2>4. l \notin Told("release", Unreleased(statements, F[k], k + 1))
      <3>1. SUFFICES ASSUME NEW e \in Range(F[k].held), e.line = l PROVE FALSE
        BY <2>3
      <3>2. l >= M(k) /\ M(k) >= b
        BY <1>2, <2>2, <3>1
      <3>3. M(k) \in 1..k
        BY <1>2, MethodTells
      <3> HIDE DEF M
      <3> QED
        BY <1>1, <3>2, <3>3
    <2> QED
      BY <2>4 DEF ReleasedAfter
  <1>4. 0 \in T
    BY <1>1
  <1>5. ASSUME NEW k \in 1..N, k - 1 \in T PROVE k \in T
    <2> DEFINE s == F[k - 1]
               m == NextMethod(file.suffix, statements, s, k)
    <2>1. k - 1 \in 0..N /\ k \in 0..N
      BY <1>1
    <2>2. s \in ResourceStates(N) /\ F[k] = ResourceLine(file.suffix, statements, s, k)
      BY <2>1
    <2>3. So(k - 1)
      BY <1>5
    <2>4. F[k].out = m.out
      <3>1. ResourceLine(file.suffix, statements, s, k).out = m.out
        <4> HIDE DEF s
        <4> QED
          BY Zenon, <2>2, ResourceLineTells
      <3> QED
        BY <2>2, <3>1
    <2>5. /\ HeaderAt(statements, k) => Told("release", m.out) = ReleasedAfter(statements, s, k - 1)
          /\ ~HeaderAt(statements, k) => m = s
      BY <2>2, NextMethodTells
    <2> HIDE DEF m
    <2>6. /\ HeaderAt(statements, k) => out(k) = ReleasedAfter(statements, F[k - 1], k - 1)
          /\ ~HeaderAt(statements, k) => out(k) = out(k - 1)
      BY <2>4, <2>5
    <2> HIDE DEF out, before, s
    <2>7. So(k)
      <3> SUFFICES ASSUME b <= k, NEW l \in 1 .. b - 1 PROVE l \in out(k) <=> l \in before
        OBVIOUS
      <3>1. CASE b = k
        BY <2>6, <3>1 DEF before
      <3>2. CASE b # k
        <4>1. k - 1 \in b..N /\ b <= k - 1
          BY <1>1, <3>2
        <4>2. l \in out(k - 1) <=> l \in before
          BY <2>3, <4>1
        <4>3. l \in ReleasedAfter(statements, F[k - 1], k - 1) <=> l \in out(k - 1)
          BY <1>3, <4>1
        <4> QED
          BY <2>6, <4>2, <4>3
      <3> QED
        BY <3>1, <3>2
    <2> QED
      BY <2>1, <2>7
  <1>6. So(N)
    <2> HIDE DEF So
    <2>1. 0..N \subseteq T
      <3> HIDE DEF T
      <3> QED
        BY <1>1, <1>4, <1>5, Folds!CountingUp
    <2>2. N \in T
      BY <1>1, <2>1
    <2> QED
      BY <2>2
  <1>7. N \in b..N
    BY <1>1
  <1> QED
    BY <1>1, <1>3, <1>6, <1>7

\* In a method that acquires each name once, what it reports is what its own lines
\* leave unsettled.
LEMMA ReleaseReports ==
  ASSUME statements \in Seq(Text), NEW h \in {MethodOf(statements, i) : i \in DOMAIN statements}
  PROVE  \E k \in 1..Len(statements) :
            /\ h \in 1..k /\ MethodLines(statements, h) = h..k
            /\ Sound(h, k) =>
                 \A l \in h..k : l \in Told("release", ResourceFindings(file.suffix, statements)) <=>
                                   Acquiring(l) > 0 /\ Unsettled(statements, h, k + 1, Entry(l, k))
  <1> DEFINE N == Len(statements)
             M(k) == MethodOf(statements, k)
  <1>1. PICK k \in 1..N : /\ M(k) = h /\ MethodLines(statements, h) = h..k
                          /\ k < N => HeaderAt(statements, k + 1)
    BY MethodLinesTell
  <1>2. PICK F \in [0..N -> ResourceStates(N)] :
           /\ F[0] = [held |-> <<>>, start |-> 1, out |-> <<>>]
           /\ \A i \in 1..N : F[i] = ResourceLine(file.suffix, statements, F[i - 1], i)
           /\ F[N] = ResourceEnd(file.suffix, statements)
    BY ResourceTells
  <1>3. N \in Nat /\ h \in 1..k /\ k \in 0..N
    BY <1>1, MethodTells
  <1>4. Told("release", ResourceFindings(file.suffix, statements)) = ReleasedAfter(statements, F[N], N)
    <2> DEFINE A == At(ReleaseRules, N)
               rest == Unreleased(statements, F[N], N + 1)
    <2>1. ResourceFindings(file.suffix, statements) = F[N].out \o rest
      <3>1. ResourceFindings(file.suffix, statements) =
              ResourceEnd(file.suffix, statements).out
                \o Unreleased(statements, ResourceEnd(file.suffix, statements), N + 1)
        BY Zenon DEF ResourceFindings, ResourceEnd
      <3> QED
        BY Zenon, <1>2, <3>1
    <2>2. F[N] \in ResourceStates(N)
      BY <1>3
    <2>3. F[N].out \in Seq(A) /\ rest \in Seq(A)
      BY <1>3, <2>2, UnreleasedPlaces DEF ResourceStates, Reports
    <2> HIDE DEF A
    <2>4. Told("release", F[N].out \o rest) = Told("release", F[N].out) \cup Told("release", rest)
      BY <2>3, ToldAppended
    <2> QED
      BY <2>1, <2>4 DEF ReleasedAfter
  <1>5. F[k] \in ResourceStates(N)
    BY <1>3
  <1>6. /\ F[k].start = h
        /\ \A l \in Told("release", F[k].out) : l < h
        /\ Sound(h, k) => Range(F[k].held) = HeldOf(h, k)
    BY <1>1, <1>2, <1>3, WalkTells
  <1>7. ASSUME NEW l \in h..k
        PROVE  l \in ReleasedAfter(statements, F[N], N) <=> l \in ReleasedAfter(statements, F[k], k)
    <2>1. CASE k = N
      BY <2>1
    <2>2. CASE k # N
      <3> DEFINE b == k + 1
      <3>1. b \in 1..N /\ l \in 1 .. b - 1 /\ b - 1 = k /\ k < N
        BY <1>1, <1>3, <2>2
      <3>2. HeaderAt(statements, b)
        BY <1>1, <3>1
      <3> HIDE DEF b
      <3>3. l \in ReleasedAfter(statements, F[N], N) <=> l \in ReleasedAfter(statements, F[b - 1], b - 1)
        BY <1>2, <3>1, <3>2, HandedOn
      <3> QED
        BY <3>1, <3>3
    <2> QED
      BY <2>1, <2>2
  <1>8. ASSUME Sound(h, k), NEW l \in h..k
        PROVE  l \in ReleasedAfter(statements, F[k], k) <=>
                 Acquiring(l) > 0 /\ Unsettled(statements, h, k + 1, Entry(l, k))
    <2>1. l \notin Told("release", F[k].out)
      <3>1. ~(l < h)
        BY <1>3
      <3> QED
        BY <1>6, <3>1
    <2>2. l \in Told("release", Unreleased(statements, F[k], k + 1)) <=>
            \E e \in Range(F[k].held) : e.line = l /\ Unsettled(statements, h, k + 1, e)
      BY <1>3, <1>5, <1>6, UnreleasedTells
    <2>3. Range(F[k].held) = HeldOf(h, k)
      BY <1>6, <1>8
    <2>4. \A i : Entry(i, k).line = i
      BY DEF Entry
    <2>5. (\E e \in HeldOf(h, k) : e.line = l /\ Unsettled(statements, h, k + 1, e)) <=>
            Acquiring(l) > 0 /\ Unsettled(statements, h, k + 1, Entry(l, k))
      <3>1. \A e : e \in HeldOf(h, k) <=> \E i \in h..k : Acquiring(i) > 0 /\ e = Entry(i, k)
        BY DEF HeldOf
      <3>2. ASSUME NEW e \in HeldOf(h, k), e.line = l, Unsettled(statements, h, k + 1, e)
            PROVE  Acquiring(l) > 0 /\ Unsettled(statements, h, k + 1, Entry(l, k))
        <4>1. PICK i \in h..k : Acquiring(i) > 0 /\ e = Entry(i, k)
          BY Zenon, <3>1, <3>2
        <4>2. i = l
          BY Zenon, <2>4, <3>2, <4>1
        <4> QED
          BY Zenon, <3>2, <4>1, <4>2
      <3>3. ASSUME Acquiring(l) > 0, Unsettled(statements, h, k + 1, Entry(l, k))
            PROVE  \E e \in HeldOf(h, k) : e.line = l /\ Unsettled(statements, h, k + 1, e)
        <4>1. Entry(l, k) \in HeldOf(h, k)
          BY Zenon, <3>1, <3>3
        <4> QED
          BY Zenon, <2>4, <3>3, <4>1
      <3> QED
        BY <3>2, <3>3
    <2> QED
      BY <2>1, <2>2, <2>3, <2>5 DEF ReleasedAfter
  <1>9. Sound(h, k) =>
          \A l \in h..k : l \in Told("release", ResourceFindings(file.suffix, statements)) <=>
                            Acquiring(l) > 0 /\ Unsettled(statements, h, k + 1, Entry(l, k))
    BY <1>4, <1>7, <1>8
  <1> QED
    BY <1>1, <1>3, <1>9

\* Where a statement has one reading, the reference sees the same acquisition, the
\* same header of a try and the same wrapper as the walk.
LEMMA OneReadingTells ==
  ASSUME statements \in Seq(Text), NEW i \in DOMAIN statements, OneReading(statements[i])
  PROVE  /\ AcquiresAt(i) = Acquiring(i)
         /\ OpensTry(Words(statements[i])) <=> SpelledTry(statements[i])
         /\ \A name, other : Wraps(Words(statements[i]), name, other) => WrapsIn(Words(statements[i]), name, other)
         /\ \A name : \A other \in Names :
               WrapsIn(Words(statements[i]), name, other) => Wraps(Words(statements[i]), name, other)
  <1> DEFINE w == Words(statements[i])
  <1>1. w \in Text
    BY WordsType
  <1>2. /\ OpensTry(w) <=> SpelledTry(statements[i])
        /\ \A k \in 1 .. Len(w) - 1 : w[k] \in Names => w[k + 1] # "=="
        /\ \A j, k \in DOMAIN w : w[j] = "wrap" /\ w[k] = "wrap" => j = k
    BY DEF OneReading
  <1>3. AcquiresAt(i) = Acquiring(i)
    <2> DEFINE S == {k \in 1 .. Len(w) - 1 : /\ w[k] \in Names /\ w[k + 1] = "="
                                              /\ Range(Clause(w, k)) \cap Constructors # {}}
               T == {k \in 1 .. Len(w) - 1 : /\ w[k] \in Names /\ w[k + 1] \in {"=", "=="}
                                              /\ Range(Clause(w, k)) \cap Constructors # {}}
    <2>1. AcquiresAt(i) = IF "console" \in Range(w) THEN 0 ELSE First(S)
      BY Zenon DEF AcquiresAt
    <2>2. Acquiring(i) = IF "console" \in Range(w) THEN 0 ELSE First(T)
      BY Zenon DEF Acquiring, Getting, Gets
    <2>3. S = T
      <3> HIDE DEF w
      <3> QED
        BY Zenon, <1>2
    <2> QED
      BY Zenon, <2>1, <2>2, <2>3
  <1> HIDE DEF w
  <1>4. ASSUME NEW name, NEW other
        PROVE  /\ Wraps(w, name, other) => WrapsIn(w, name, other)
               /\ other \in Names /\ WrapsIn(w, name, other) => Wraps(w, name, other)
    <2> DEFINE S == {k \in 1 .. Len(w) - 4 :
                       /\ w[k] = name /\ w[k + 1] = "=" /\ w[k + 2] = "wrap" /\ w[k + 3] = "("
                       /\ w[k + 4] \in Names \cup Constructors}
               at == First(S)
    <2>1. Wraps(w, name, other) <=> at > 0 /\ w[at + 4] = other
      BY Zenon DEF Wraps
    <2>2. \A k \in S : /\ k \in 1 .. Len(w) - 4 /\ w[k] = name /\ w[k + 1] = "="
                       /\ w[k + 2] = "wrap" /\ w[k + 3] = "("
      BY Zenon
    <2>3. \A k \in 1 .. Len(w) - 4 :
            (/\ w[k] = name /\ w[k + 1] = "=" /\ w[k + 2] = "wrap" /\ w[k + 3] = "("
             /\ w[k + 4] \in Names) => k \in S
      BY Zenon
    <2> HIDE DEF S
    <2>4. Len(w) \in Nat /\ DOMAIN w = 1 .. Len(w)
      BY <1>1 DEF Text
    <2>5. S \in SUBSET Nat /\ \A k \in S : k # 0
      BY <2>2, <2>4
    <2>6. at \in S \cup {0} /\ at \in Nat /\ (S # {} => at \in S)
      <3>1. at \in S \cup {0} /\ at \in Nat
        BY <2>5, FirstTells
      <3>2. S # {} => at \in S
        BY <2>5, MinOfSet DEF First
      <3> QED
        BY <3>1, <3>2
    <2> HIDE DEF at
    <2>7. Wraps(w, name, other) => WrapsIn(w, name, other)
      <3> SUFFICES ASSUME at > 0, w[at + 4] = other PROVE WrapsIn(w, name, other)
        BY <2>1
      <3>1. at \in S
        BY <2>6
      <3> QED
        BY Zenon, <2>2, <3>1 DEF WrapsIn
    <2>8. other \in Names /\ WrapsIn(w, name, other) => Wraps(w, name, other)
      <3> SUFFICES ASSUME other \in Names, WrapsIn(w, name, other) PROVE at > 0 /\ w[at + 4] = other
        BY <2>1
      <3>1. PICK k \in 1 .. Len(w) - 4 : /\ w[k] = name /\ w[k + 1] = "=" /\ w[k + 2] = "wrap" /\ w[k + 3] = "("
                                         /\ w[k + 4] = other
        BY Zenon DEF WrapsIn
      <3>2. k \in S
        BY Zenon, <2>3, <3>1
      <3>3. at \in S /\ at \in 1 .. Len(w) - 4 /\ w[at + 2] = "wrap"
        BY <2>2, <2>6, <3>2
      <3>4. k + 2 \in DOMAIN w /\ at + 2 \in DOMAIN w
        BY <2>4, <3>3
      <3>5. k + 2 = at + 2
        BY Zenon, <1>2, <3>1, <3>3, <3>4
      <3>6. k = at
        BY <2>6, <3>5
      <3> QED
        BY <2>4, <3>1, <3>6
    <2> QED
      BY <2>7, <2>8
  <1> QED
    BY Zenon, <1>2, <1>3, <1>4 DEF w

\* What a method acquires, and what the reference and the walk know of it.
LEMMA AcquiredTells ==
  ASSUME statements \in Seq(Text), NEW h \in Nat \ {0}, NEW k \in h..Len(statements), MethodLines(statements, h) = h..k,
         \A i \in DOMAIN statements : OneReading(statements[i])
  PROVE  /\ \A a : a \in AcquiredIn(h) <=> \E i \in h..k : Acquiring(i) > 0 /\ a = [name |-> NameAt(i), line |-> i]
         /\ \A i \in h..k :
              LET a == [name |-> NameAt(i), line |-> i]
                  e == Entry(i, k)
              IN  /\ LastClose(h, a) = e.closed /\ e.closed \in Nat /\ (e.closed > 0 => e.closed \in i..k)
                  /\ InTryHeader(statements, h, e) <=> Tried(h, a)
                  /\ e.wrapped <=> \E j \in i + 1 .. k : Wrapping(j, NameAt(i))
  <1>0. \A i \in h..k : i \in DOMAIN statements /\ AcquiresAt(i) = Acquiring(i)
    <2>1. \A i \in h..k : i \in DOMAIN statements
      OBVIOUS
    <2> QED
      BY Zenon, <2>1, OneReadingTells
  <1>1. \A a : a \in AcquiredIn(h) <=> \E i \in h..k : Acquiring(i) > 0 /\ a = [name |-> NameAt(i), line |-> i]
    <2>1. \A i \in h..k : NameAt(i) = Words(statements[i])[AcquiresAt(i)]
      BY Zenon, <1>0 DEF NameAt
    <2>2. AcquiredIn(h) = {[name |-> Words(statements[i])[AcquiresAt(i)], line |-> i] :
                             i \in {j \in h..k : AcquiresAt(j) > 0}}
      BY Zenon DEF AcquiredIn
    <2> QED
      BY Zenon, <1>0, <2>1, <2>2
  <1>2. ASSUME NEW i \in h..k
        PROVE  LET a == [name |-> NameAt(i), line |-> i]
                   e == Entry(i, k)
               IN  /\ LastClose(h, a) = e.closed /\ e.closed \in Nat /\ (e.closed > 0 => e.closed \in i..k)
                   /\ InTryHeader(statements, h, e) <=> Tried(h, a)
                   /\ e.wrapped <=> \E j \in i + 1 .. k : Wrapping(j, NameAt(i))
    <2> DEFINE a == [name |-> NameAt(i), line |-> i]
               e == Entry(i, k)
               S == {j \in i..k : Closing(j, NameAt(i))}
    <2>1. a.name = NameAt(i) /\ a.line = i
      OBVIOUS
    <2>2. e.name = NameAt(i) /\ e.line = i /\ e.closed = ClosedBy(i, k, NameAt(i))
          /\ e.wrapped = \E j \in i + 1 .. k : Wrapping(j, NameAt(i))
      BY DEF Entry
    <2> HIDE DEF a, e
    <2>3. {j \in MethodLines(statements, h) : j >= a.line /\ Closes(Words(statements[j]), a.name)} = S
      <3>1. \A j : j \in h..k /\ j >= i <=> j \in i..k
        OBVIOUS
      <3> QED
        BY <2>1, <3>1 DEF Closing
    <2>4. LastClose(h, a) = Max({0} \cup S)
      BY Zenon, <2>3 DEF LastClose
    <2>5. ClosedBy(i, k, NameAt(i)) = Max({0} \cup S)
      BY Zenon DEF ClosedBy
    <2>6. Max({0} \cup S) \in Nat /\ (Max({0} \cup S) > 0 => Max({0} \cup S) \in i..k)
      <3>1. S \in SUBSET (1..k) /\ k \in Nat /\ \A x \in S : x \in i..k
        OBVIOUS
      <3> HIDE DEF S
      <3>2. Max({0} \cup S) \in {0} \cup S
        BY <3>1, LatestTells
      <3>3. \A x \in {0} \cup S : x \in Nat /\ (x > 0 => x \in i..k)
        BY <3>1
      <3> QED
        BY Zenon, <3>2, <3>3
    <2>7. InTryHeader(statements, h, e) <=> Tried(h, a)
      <3> DEFINE J == Max({h, i - 1}) .. Min({Len(statements), i + 1})
      <3>1. InTryHeader(statements, h, e) <=>
              \E j \in J : NameAt(i) \in Range(Words(statements[j])) /\ SpelledTry(statements[j])
        BY Zenon, <2>2 DEF InTryHeader
      <3>2. Tried(h, a) <=>
              \E j \in J : NameAt(i) \in Range(Words(statements[j])) /\ OpensTry(Words(statements[j]))
        BY Zenon, <2>1 DEF Tried
      <3>3. \A j \in J : j \in DOMAIN statements
        <4>1. {h, i - 1} \in SUBSET (0..Len(statements)) /\ {Len(statements), i + 1} \in SUBSET Nat
          BY <1>0
        <4>2. Len(statements) \in Nat /\ i \in Nat /\ h <= i
          OBVIOUS
        <4>3. h <= Max({h, i - 1}) /\ Max({h, i - 1}) \in Int
          <5>1. h \in Int /\ i - 1 \in Int
            BY <4>2
          <5>2. Max({h, i - 1}) \in {h, i - 1} /\ h <= Max({h, i - 1})
            BY <5>1, TwoMost
          <5> QED
            BY <5>1, <5>2
        <4>4. Min({Len(statements), i + 1}) <= Len(statements) /\ Min({Len(statements), i + 1}) \in Nat
          BY <4>1, <4>2, MinOfSet
        <4> QED
          BY <4>2, <4>3, <4>4
      <3>4. \A j \in J : OpensTry(Words(statements[j])) <=> SpelledTry(statements[j])
        BY Zenon, <3>3, OneReadingTells
      <3> HIDE DEF J
      <3> QED
        BY Zenon, <3>1, <3>2, <3>4
    <2>8. e.wrapped <=> \E j \in i + 1 .. k : Wrapping(j, NameAt(i))
      BY Zenon, <2>2
    <2> QED
      BY <2>2, <2>4, <2>5, <2>6, <2>7, <2>8 DEF a, e
  <1> QED
    BY Zenon, <1>1, <1>2

\* Where statement b takes over from a, it acquires something that wraps a.
LEMMA TakesOverTells ==
  ASSUME statements \in Seq(Text), NEW i \in DOMAIN statements, NEW j \in DOMAIN statements, Acquiring(i) > 0,
         OneReading(statements[j])
  PROVE  LET a == [name |-> NameAt(i), line |-> i]
             b == [name |-> NameAt(j), line |-> j]
         IN  /\ Acquiring(j) > 0 => (TakesOver(b, a) <=> i < j /\ Wrapping(j, NameAt(i)))
             /\ Wrapping(j, NameAt(i)) => "wrap" \in Range(Words(statements[j]))
             /\ Wrapping(j, NameAt(i)) /\ "console" \notin Range(Words(statements[j])) => Acquiring(j) > 0
  <1> DEFINE a == [name |-> NameAt(i), line |-> i]
             b == [name |-> NameAt(j), line |-> j]
             w == Words(statements[j])
  <1>1. a.name = NameAt(i) /\ a.line = i /\ b.name = NameAt(j) /\ b.line = j
    OBVIOUS
  <1>2. Getting(j) \in Nat /\ Acquiring(j) = IF "console" \in Range(w) THEN 0 ELSE Getting(j)
    BY AcquiresTells
  <1>3. w \in Text
    BY WordsType
  <1>4. Wrapping(j, NameAt(i)) <=> Getting(j) > 0 /\ Wraps(w, w[Getting(j)], NameAt(i))
    BY Zenon DEF Wrapping
  <1>5. Acquiring(j) > 0 => NameAt(j) = w[Getting(j)] /\ Getting(j) > 0
    <2>1. NameAt(j) = w[Acquiring(j)]
      BY Zenon DEF NameAt
    <2> HIDE DEF w
    <2> QED
      BY <1>2, <2>1
  <1>6. TakesOver(b, a) <=> i < j /\ Wraps(w, NameAt(j), NameAt(i))
    <2>1. TakesOver(b, a) <=> i < j /\ WrapsIn(w, NameAt(j), NameAt(i))
      <3> HIDE DEF a, b
      <3> QED
        BY Zenon, <1>1 DEF TakesOver
    <2>2. NameAt(i) \in Names
      BY AcquiresTells
    <2>3. WrapsIn(w, NameAt(j), NameAt(i)) <=> Wraps(w, NameAt(j), NameAt(i))
      BY Zenon, <2>2, OneReadingTells
    <2> QED
      BY Zenon, <2>1, <2>3
  <1>11. \A n, m : Wraps(w, n, m) => WrapsIn(w, n, m)
    BY Zenon, OneReadingTells
  <1> HIDE DEF w, a, b
  <1>7. ASSUME NEW n, NEW m, Wraps(w, n, m) PROVE "wrap" \in Range(w)
    <2>0. WrapsIn(w, n, m)
      BY Zenon, <1>7, <1>11
    <2>1. PICK k \in 1 .. Len(w) - 4 : /\ w[k] = n /\ w[k + 1] = "=" /\ w[k + 2] = "wrap" /\ w[k + 3] = "("
                                       /\ w[k + 4] = m
      BY Zenon, <2>0 DEF WrapsIn
    <2>2. w \in Seq(Token)
      BY <1>3 DEF Text
    <2>3. k + 2 \in DOMAIN w
      BY <2>2
    <2> QED
      BY Zenon, <2>1, <2>3 DEF Range
  <1>8. Acquiring(j) > 0 => (TakesOver(b, a) <=> i < j /\ Wrapping(j, NameAt(i)))
    BY Zenon, <1>4, <1>5, <1>6
  <1>9. Wrapping(j, NameAt(i)) => "wrap" \in Range(w)
    BY <1>4, <1>7
  <1>10. Wrapping(j, NameAt(i)) /\ "console" \notin Range(w) => Acquiring(j) > 0
    BY <1>2, <1>4
  <1> QED
    BY <1>8, <1>9, <1>10 DEF a, b, w

(* Of a resource that neither it nor what wraps it closes or opens in the  *)
(* header of a try, one of them is reported; and what is reported is not   *)
(* wrapped, and not closed or left open by a catch (ResourcesSettled).     *)
THEOREM ResourcesSafe == Spec => []ResourcesSettled
  <1>1. IInv => ResourcesSettled
    <2> DEFINE N == Len(statements)
               tried(h, a) == Tried(h, a)
               closed(h, a) == LastClose(h, a) > 0
    <2> SUFFICES ASSUME IInv, Detected, file.suffix = "java",
                        \A i \in DOMAIN statements : OneReading(statements[i]),
                        NEW h \in {MethodOf(statements, i) : i \in DOMAIN statements},
                        \A a, b \in AcquiredIn(h) : a.name = b.name => a = b,
                        \A i \in MethodLines(statements, h) :
                            LET w == Words(statements[i])
                            IN  /\ \A n \in Names : ~WrapsIn(w, n, n)
                                /\ "console" \notin Range(w) \/ "wrap" \notin Range(w)
                 PROVE  /\ \A a \in AcquiredIn(h) :
                               (\A b \in TakenOver(h, a) : ~closed(h, b) /\ ~tried(h, b)) =>
                                   \E b \in TakenOver(h, a) : b.line \in Lines("release")
                        /\ \A i \in Lines("release") \cap MethodLines(statements, h) :
                               \E a \in AcquiredIn(h) :
                                   /\ a.line = i /\ TakenOver(h, a) = {a} /\ ~tried(h, a)
                                   /\ closed(h, a) => \E j \in MethodLines(statements, h) :
                                                          j > LastClose(h, a) /\ "catch" \in Range(statements[j])
      BY Zenon DEF ResourcesSettled
    <2>1. statements \in Seq(Text)
      BY DEF IInv, Looked, Detected
    <2>2. PICK k \in 1..N :
            /\ h \in 1..k /\ MethodLines(statements, h) = h..k
            /\ Sound(h, k) =>
                 \A l \in h..k : l \in Told("release", ResourceFindings(file.suffix, statements)) <=>
                                   Acquiring(l) > 0 /\ Unsettled(statements, h, k + 1, Entry(l, k))
      BY <2>1, ReleaseReports
    <2> DEFINE A(i) == [name |-> NameAt(i), line |-> i]
    <2>3. /\ N \in Nat /\ DOMAIN statements = 1..N /\ k \in h..N /\ h \in Nat \ {0}
          /\ \A i \in h..k : i \in DOMAIN statements
      BY <2>1, <2>2
    <2>4. \A i : A(i).line = i /\ A(i).name = NameAt(i)
      OBVIOUS
    <2>5. \A a : a \in AcquiredIn(h) <=> \E i \in h..k : Acquiring(i) > 0 /\ a = A(i)
      BY Zenon, <2>1, <2>2, <2>3, AcquiredTells
    <2>6. \A i \in h..k :
            /\ LastClose(h, A(i)) = Entry(i, k).closed /\ Entry(i, k).closed \in Nat
            /\ Entry(i, k).closed > 0 => Entry(i, k).closed \in i..k
            /\ InTryHeader(statements, h, Entry(i, k)) <=> tried(h, A(i))
            /\ Entry(i, k).wrapped <=> \E j \in i + 1 .. k : Wrapping(j, NameAt(i))
      BY Zenon, <2>1, <2>2, <2>3, AcquiredTells
    <2>7. \A i, j \in h..k : Acquiring(i) > 0 =>
            /\ Acquiring(j) > 0 => (TakesOver(A(j), A(i)) <=> i < j /\ Wrapping(j, NameAt(i)))
            /\ Wrapping(j, NameAt(i)) => Acquiring(j) > 0
      <3> SUFFICES ASSUME NEW i \in h..k, NEW j \in h..k, Acquiring(i) > 0
                   PROVE  /\ Acquiring(j) > 0 => (TakesOver(A(j), A(i)) <=> i < j /\ Wrapping(j, NameAt(i)))
                          /\ Wrapping(j, NameAt(i)) => Acquiring(j) > 0
        OBVIOUS
      <3>1. i \in DOMAIN statements /\ j \in DOMAIN statements
        BY Zenon, <2>3
      <3>2. "console" \notin Range(Words(statements[j])) \/ "wrap" \notin Range(Words(statements[j]))
        BY Zenon, <2>2
      <3> QED
        BY Zenon, <2>1, <3>1, <3>2, TakesOverTells
    <2>8. Sound(h, k)
      <3>1. ASSUME NEW i \in h..k, NEW j \in h..k, Acquiring(i) > 0, Acquiring(j) > 0, NameAt(i) = NameAt(j)
            PROVE  i = j
        <4>1. A(i) \in AcquiredIn(h) /\ A(j) \in AcquiredIn(h)
          BY Zenon, <2>5, <3>1
        <4>2. A(i) = A(j)
          BY Zenon, <2>4, <3>1, <4>1
        <4> QED
          BY Zenon, <2>4, <4>2
      <3>2. ASSUME NEW i \in h..k, Acquiring(i) > 0 PROVE ~Wrapping(i, NameAt(i))
        <4>1. i \in DOMAIN statements
          BY Zenon, <2>3
        <4>2. /\ Getting(i) \in Nat /\ NameAt(i) \in Names
              /\ Acquiring(i) = IF "console" \in Range(Words(statements[i])) THEN 0 ELSE Getting(i)
          BY <2>1, <3>2, <4>1, AcquiresTells
        <4>3. Acquiring(i) = Getting(i)
          BY <3>2, <4>2
        <4>4. NameAt(i) = Words(statements[i])[Getting(i)]
          BY Zenon, <4>3 DEF NameAt
        <4>5. ~Wraps(Words(statements[i]), NameAt(i), NameAt(i))
          <5>1. ~WrapsIn(Words(statements[i]), NameAt(i), NameAt(i))
            BY Zenon, <2>2, <4>2
          <5> QED
            BY Zenon, <2>1, <4>1, <5>1, OneReadingTells
        <4> QED
          BY Zenon, <4>4, <4>5 DEF Wrapping
      <3> QED
        BY <3>1, <3>2 DEF Sound
    <2>9. \A l \in h..k : l \in Lines("release") <=> Acquiring(l) > 0 /\ Unsettled(statements, h, k + 1, Entry(l, k))
      <3>1. "release" \in ReleaseRules /\ "release" \in SemanticRules
        BY Zenon DEF ReleaseRules, SemanticRules
      <3>2. Lines("release") = Told("release", SemanticFindings("java", statements))
        BY <3>1, ToldByDetectors
      <3>3. Lines("release") = Told("release", ResourceFindings("java", statements))
        BY <2>1, <3>1, <3>2, StatefulTold
      <3> QED
        BY <2>2, <2>8, <3>3
    <2>10. ASSUME NEW a \in AcquiredIn(h), \A b \in TakenOver(h, a) : ~closed(h, b) /\ ~tried(h, b)
           PROVE  \E b \in TakenOver(h, a) : b.line \in Lines("release")
      <3> DEFINE set == TakenOver(h, a)
                 L == {b.line : b \in set}
                 top == Max(L)
      <3>1. set \subseteq AcquiredIn(h) /\ a \in set
        BY DEF TakenOver
      <3>2. \A b \in AcquiredIn(h), c \in set : TakesOver(b, c) => b \in set
        BY DEF TakenOver
      <3> HIDE DEF set
      <3>3. \A b \in set : \E i \in h..k : Acquiring(i) > 0 /\ b = A(i)
        BY <2>5, <3>1
      <3>4. L \in SUBSET (1..N) /\ L # {}
        <4>1. \A b \in set : b.line \in h..k
          BY Zenon, <2>4, <3>3
        <4>2. h..k \subseteq 1..N
          BY <2>3
        <4> QED
          BY <3>1, <4>1, <4>2
      <3>5. top \in L /\ \A l \in L : l <= top
        BY <2>3, <3>4, MaxOfSet
      <3>6. PICK b \in set : b.line = top
        BY <3>5
      <3>7. PICK i \in h..k : Acquiring(i) > 0 /\ b = A(i)
        BY <3>3
      <3>8. \A c \in set : c.line <= i
        <4>1. i = top
          BY Zenon, <2>4, <3>6, <3>7
        <4>2. \A c \in set : c.line \in L
          OBVIOUS
        <4> QED
          BY <3>5, <4>1, <4>2
      <3> HIDE DEF L, top
      <3>9. ~Entry(i, k).wrapped
        <4> SUFFICES ASSUME NEW j \in i + 1 .. k, Wrapping(j, NameAt(i)) PROVE FALSE
          BY Zenon, <2>6
        <4>1. j \in h..k /\ i < j /\ ~(j <= i)
          BY <2>3
        <4>2. Acquiring(j) > 0 /\ TakesOver(A(j), A(i))
          BY Zenon, <2>7, <3>7, <4>1
        <4>3. A(j) \in AcquiredIn(h)
          BY Zenon, <2>5, <4>1, <4>2
        <4>4. A(j) \in set
          BY Zenon, <3>2, <3>7, <4>2, <4>3
        <4>5. j <= i
          BY Zenon, <2>4, <3>8, <4>4
        <4> QED
          BY <4>1, <4>5
      <3>10. Entry(i, k).closed = 0 /\ ~InTryHeader(statements, h, Entry(i, k))
        <4>1. ~closed(h, b) /\ ~tried(h, b)
          BY <2>10 DEF set
        <4>2. ~(LastClose(h, A(i)) > 0) /\ ~tried(h, A(i))
          BY Zenon, <3>7, <4>1
        <4> QED
          BY <2>6, <4>2
      <3>11. Unsettled(statements, h, k + 1, Entry(i, k))
        BY <3>9, <3>10 DEF Unsettled
      <3>12. b.line \in Lines("release")
        BY Zenon, <2>4, <2>9, <3>7, <3>11
      <3> QED
        BY <3>12 DEF set
    <2>11. ASSUME NEW i \in Lines("release") \cap MethodLines(statements, h)
           PROVE  \E a \in AcquiredIn(h) :
                      /\ a.line = i /\ TakenOver(h, a) = {a} /\ ~tried(h, a)
                      /\ closed(h, a) => \E j \in MethodLines(statements, h) :
                                             j > LastClose(h, a) /\ "catch" \in Range(statements[j])
      <3> DEFINE a == A(i)
                 e == Entry(i, k)
      <3>1. i \in h..k /\ Acquiring(i) > 0 /\ Unsettled(statements, h, k + 1, e)
        BY Zenon, <2>2, <2>9
      <3>2. a \in AcquiredIn(h) /\ a.line = i
        BY Zenon, <2>4, <2>5, <3>1
      <3>3. /\ ~e.wrapped /\ ~InTryHeader(statements, h, e)
            /\ \/ e.closed = 0
               \/ \E j \in e.closed + 1 .. k + 1 - 1 : "catch" \in Range(statements[j])
        <4> HIDE DEF e
        <4>1. ~e.wrapped /\ ~InTryHeader(statements, h, e)
              /\ (e.closed = 0 \/ Mentions(statements, e.closed + 1, k + 1 - 1, "catch"))
          BY <3>1 DEF Unsettled
        <4> QED
          BY Zenon, <4>1 DEF Mentions
      <3>4. /\ LastClose(h, a) = e.closed /\ e.closed \in Nat
            /\ e.closed > 0 => e.closed \in i..k
            /\ InTryHeader(statements, h, e) <=> tried(h, a)
            /\ e.wrapped <=> \E j \in i + 1 .. k : Wrapping(j, NameAt(i))
        BY Zenon, <2>6, <3>1
      <3> HIDE DEF a, e
      <3>5. \A b \in AcquiredIn(h) : ~TakesOver(b, a)
        <4> SUFFICES ASSUME NEW b \in AcquiredIn(h), TakesOver(b, a) PROVE FALSE
          OBVIOUS
        <4>1. PICK j \in h..k : Acquiring(j) > 0 /\ b = A(j)
          BY Zenon, <2>5
        <4>2. i < j /\ Wrapping(j, NameAt(i))
          BY Zenon, <2>7, <3>1, <4>1 DEF a
        <4>3. j \in i + 1 .. k
          BY <2>3, <3>1, <4>2
        <4> QED
          BY Zenon, <3>3, <3>4, <4>2, <4>3
      <3>6. TakenOver(h, a) = {a}
        <4>1. \A b \in AcquiredIn(h), c \in {a} : TakesOver(b, c) => b \in {a}
          BY <3>5
        <4>2. {a} \in SUBSET AcquiredIn(h) /\ a \in {a}
          BY <3>2
        <4>3. \A b \in TakenOver(h, a) : b \in {a}
          BY Zenon, <4>1, <4>2 DEF TakenOver
        <4>4. a \in TakenOver(h, a)
          BY <3>2 DEF TakenOver
        <4> QED
          BY <4>3, <4>4
      <3>7. closed(h, a) => \E j \in MethodLines(statements, h) :
                                j > LastClose(h, a) /\ "catch" \in Range(statements[j])
        <4> SUFFICES ASSUME e.closed > 0 PROVE \E j \in h..k : j > e.closed /\ "catch" \in Range(statements[j])
          BY Zenon, <2>2, <3>4
        <4>1. PICK j \in e.closed + 1 .. k + 1 - 1 : "catch" \in Range(statements[j])
          BY <3>3, <3>4
        <4>2. e.closed \in i..k
          BY <3>4
        <4>3. j \in h..k /\ j > e.closed
          BY <2>3, <3>1, <4>2
        <4> QED
          BY <4>1, <4>3
      <3> QED
        BY Zenon, <3>2, <3>3, <3>4, <3>6, <3>7
    <2> QED
      BY Zenon, <2>10, <2>11
  <1> QED
    BY <1>1, Invariance, PTL
=============================================================================
