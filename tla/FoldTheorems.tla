---------------------------- MODULE FoldTheorems -----------------------------
(***************************************************************************)
(* Induction over data.  The induction theorems of the library take the    *)
(* formula to be proved as an operator; these take it as the set of the    *)
(* numbers it holds of.  What a fold computes follows: an instance of this *)
(* module, for the step of one fold, says that it is the last value of a   *)
(* function that starts at the base and takes one item at a time.          *)
(***************************************************************************)
EXTENDS Naturals, Sequences, FiniteSetsExt, WellFoundedInduction, TLAPS

CONSTANTS Step(_, _), \* the operator that is folded
          Value,      \* the values in between
          Entry       \* what the sequences hold

(* FoldLeft(Step, base, seq) of the community modules.                     *)
FoldOf(base, seq) ==
  LET iter[s \in SUBSET DOMAIN seq] ==
        IF s = {} THEN base ELSE Step(iter[s \ {Max(s)}], seq[Max(s)])
  IN  iter[DOMAIN seq]

Closed(base) == base \in Value /\ \A v \in Value, x \in Entry : Step(v, x) \in Value

-----------------------------------------------------------------------------

(* Every set of natural numbers that is not empty has a least element.     *)
THEOREM LeastElement ==
  ASSUME NEW T \in SUBSET Nat, T # {}
  PROVE  \E n \in T : \A m \in T : n <= m
  <1> DEFINE R == {ss \in Nat \X Nat : ss[1] < ss[2]}
  <1>1. IsWellFoundedOn(R, Nat)
    BY NatLessThanWellFounded DEF OpToRel
  <1> HIDE DEF R
  <1>2. PICK n \in T : \A m \in T : ~ (<<m, n>> \in R)
    BY <1>1, WFMin
  <1>3. \A m \in T : ~ (m < n)
    BY <1>2 DEF R
  <1> QED
    BY <1>3

(* Induction from 0 to N, for the formula that holds of the members of T.  *)
THEOREM CountingUp ==
  ASSUME NEW N \in Nat, NEW T, 0 \in T, \A n \in 1..N : n - 1 \in T => n \in T
  PROVE  0..N \subseteq T
  <1> DEFINE Missing == 0..N \ T
  <1> SUFFICES ASSUME Missing # {} PROVE FALSE
    OBVIOUS
  <1>1. Missing \in SUBSET Nat
    OBVIOUS
  <1>2. PICK n \in Missing : \A m \in Missing : n <= m
    <2> HIDE DEF Missing
    <2> QED
      BY <1>1, LeastElement
  <1>3. n \in 1..N /\ n - 1 \in 0..N /\ ~ (n <= n - 1)
    BY <1>2
  <1> QED
    BY <1>2, <1>3

(* A set of numbers up to N has a greatest element, and Max finds it.      *)
LEMMA MaxOfSet ==
  ASSUME NEW N \in Nat, NEW S \in SUBSET (1..N), S # {}
  PROVE  Max(S) \in S /\ \A n \in S : n <= Max(S)
  <1> DEFINE Bounds == {n \in 0..N : \A x \in S : x <= n}
  <1>1. Bounds \in SUBSET Nat /\ N \in Bounds
    OBVIOUS
  <1>2. PICK k \in Bounds : \A m \in Bounds : k <= m
    <2> HIDE DEF Bounds
    <2> QED
      BY <1>1, LeastElement
  <1>3. k \in S
    <2> SUFFICES ASSUME k \notin S PROVE FALSE
      OBVIOUS
    <2>1. \A x \in S : x \in Nat /\ x <= k /\ x # k /\ x >= 1
      BY <1>2
    <2>2. k \in Nat /\ k <= N
      BY <1>2
    <2>3. \A x \in S : x <= k - 1
      BY <2>1, <2>2
    <2>4. k - 1 \in 0..N
      <3>1. PICK x \in S : TRUE
        OBVIOUS
      <3> QED
        BY <2>1, <2>2, <3>1
    <2>5. k - 1 \in Bounds
      BY <2>3, <2>4
    <2> QED
      BY <1>2, <2>2, <2>5
  <1> QED
    BY <1>2, <1>3 DEF Max

(* What Max finds where there is something not less than every other.      *)
LEMMA MaxWith ==
  ASSUME NEW S, NEW top \in S, \A n \in S : top >= n
  PROVE  Max(S) \in S /\ \A n \in S : Max(S) >= n
  BY DEF Max

(* The greatest number of a set, 0 when it is empty.                       *)
LEMMA LatestTells ==
  ASSUME NEW N \in Nat, NEW S \in SUBSET (1..N)
  PROVE  Max({0} \cup S) \in {0} \cup S /\ \A n \in S : n <= Max({0} \cup S)
  <1> DEFINE top == IF S = {} THEN 0 ELSE Max(S)
  <1>1. top \in {0} \cup S /\ \A n \in {0} \cup S : top >= n
    <2>1. CASE S = {}
      BY <2>1
    <2>2. CASE S # {}
      <3>1. Max(S) \in S /\ \A n \in S : n <= Max(S)
        BY <2>2, MaxOfSet
      <3>2. top = Max(S)
        BY <2>2
      <3> HIDE DEF top
      <3>3. top \in S /\ \A n \in S : n <= top
        BY Zenon, <3>1, <3>2
      <3>4. \A n \in S : n \in 1..N
        OBVIOUS
      <3> QED
        BY <3>3, <3>4
    <2> QED
      BY <2>1, <2>2
  <1> HIDE DEF top
  <1>2. Max({0} \cup S) \in {0} \cup S /\ \A n \in {0} \cup S : Max({0} \cup S) >= n
    BY <1>1, MaxWith
  <1> QED
    BY <1>2

(* The greater of two numbers is one of them, and not less than the first. *)
LEMMA TwoMost ==
  ASSUME NEW a \in Int, NEW b \in Int
  PROVE  Max({a, b}) \in {a, b} /\ a <= Max({a, b})
  <1>1. PICK top \in {a, b} : \A n \in {a, b} : top >= n
    OBVIOUS
  <1>2. Max({a, b}) \in {a, b} /\ \A n \in {a, b} : Max({a, b}) >= n
    BY <1>1, MaxWith
  <1> QED
    BY <1>2

(* The values of a fold, one after the other.                              *)
THEOREM StepsExist ==
  ASSUME NEW base, Closed(base), NEW seq \in Seq(Entry)
  PROVE  \E F \in [0..Len(seq) -> Value] :
           F[0] = base /\ \A n \in 1..Len(seq) : F[n] = Step(F[n - 1], seq[n])
  <1> DEFINE Steps(m) == {F \in [0..m -> Value] :
                            F[0] = base /\ \A n \in 1..m : F[n] = Step(F[n - 1], seq[n])}
             T == {m \in 0..Len(seq) : Steps(m) # {}}
  <1>1. 0 \in T
    <2>1. [n \in 0..0 |-> base] \in Steps(0)
      BY DEF Closed
    <2> QED
      BY <2>1
  <1>2. ASSUME NEW m \in 1..Len(seq), m - 1 \in T PROVE m \in T
    <2>1. PICK F : F \in Steps(m - 1)
      BY <1>2
    <2> DEFINE G == [n \in 0..m |-> IF n = m THEN Step(F[m - 1], seq[m]) ELSE F[n]]
    <2>2. G \in [0..m -> Value]
      BY <2>1 DEF Closed
    <2>3. G[0] = base
      BY <2>1
    <2>4. ASSUME NEW n \in 1..m PROVE G[n] = Step(G[n - 1], seq[n])
      <3>1. G[n - 1] = F[n - 1]
        OBVIOUS
      <3>2. CASE n = m
        BY <3>1, <3>2
      <3>3. CASE n # m
        BY <2>1, <3>1, <3>3
      <3> QED
        BY <3>2, <3>3
    <2>5. G \in Steps(m)
      BY <2>2, <2>3, <2>4
    <2> QED
      BY <2>5
  <1>3. 0..Len(seq) \subseteq T
    <2> HIDE DEF T
    <2>1. \A n \in 1..Len(seq) : n - 1 \in T => n \in T
      BY <1>2
    <2>2. Len(seq) \in Nat
      OBVIOUS
    <2> QED
      BY <1>1, <2>1, <2>2, CountingUp
  <1> QED
    BY <1>3 DEF T

(* The last of the first n numbers.                                        *)
LEMMA LastOfFirst ==
  ASSUME NEW n \in Nat, n # 0
  PROVE  1..n # {} /\ Max(1..n) = n /\ (1..n) \ {Max(1..n)} = 1..n - 1
  <1>1. 1..n # {} /\ 1..n \in SUBSET (1..n)
    OBVIOUS
  <1>2. Max(1..n) \in 1..n /\ \A k \in 1..n : k <= Max(1..n)
    BY <1>1, MaxOfSet
  <1> QED
    BY <1>1, <1>2

(* The functions that solve the recursion of a fold on the first m items.  *)
(* The operator is given by what it does on V, as a function f: so the     *)
(* facts also serve folds whose operator has parameters.                   *)
Solutions(V, f, base, seq, m) ==
  {iter \in [SUBSET (1..m) -> V] :
     \A s \in SUBSET (1..m) :
       iter[s] = IF s = {} THEN base ELSE f[<<iter[s \ {Max(s)}], seq[Max(s)]>>]}

(* A solution extends to one item more.                                    *)
LEMMA SolutionExtends ==
  ASSUME NEW V, NEW E, NEW f \in [V \X E -> V], NEW base \in V, NEW seq \in Seq(E),
         NEW m \in 1..Len(seq),
         Solutions(V, f, base, seq, m - 1) # {}
  PROVE  Solutions(V, f, base, seq, m) # {}
  <1>1. PICK old \in [SUBSET (1..m - 1) -> V] :
          \A s \in SUBSET (1..m - 1) :
            old[s] = IF s = {} THEN base ELSE f[<<old[s \ {Max(s)}], seq[Max(s)]>>]
    BY DEF Solutions
  <1> DEFINE new == [s \in SUBSET (1..m) |-> IF m \in s THEN f[<<old[s \ {m}], seq[m]>>] ELSE old[s]]
  <1>2. m \in Nat /\ m - 1 \in Nat /\ seq[m] \in E
    OBVIOUS
  <1>3. ASSUME NEW s \in SUBSET (1..m)
        PROVE  /\ s \ {m} \in SUBSET (1..m - 1)
               /\ m \in s => new[s] = f[<<old[s \ {m}], seq[m]>>]
               /\ m \notin s => s \in SUBSET (1..m - 1) /\ new[s] = old[s]
    <2>1. \A n \in s : n # m => n \in 1..m - 1
      BY <1>2
    <2> QED
      BY <2>1
  <1>4. new \in [SUBSET (1..m) -> V]
    <2>1. ASSUME NEW s \in SUBSET (1..m) PROVE new[s] \in V
      <3> HIDE DEF new
      <3>1. CASE m \in s
        <4>1. old[s \ {m}] \in V
          BY <1>1, <1>3
        <4>2. f[<<old[s \ {m}], seq[m]>>] \in V
          BY <1>2, <4>1
        <4> QED
          BY <1>3, <3>1, <4>2
      <3>2. CASE m \notin s
        BY <1>1, <1>3, <3>2
      <3> QED
        BY <3>1, <3>2
    <2> QED
      BY <2>1
  <1> HIDE DEF new
  <1>5. ASSUME NEW s \in SUBSET (1..m)
        PROVE  new[s] = IF s = {} THEN base ELSE f[<<new[s \ {Max(s)}], seq[Max(s)]>>]
    <2>1. CASE s = {}
      <3>1. new[s] = old[s] /\ old[s] = base
        BY <1>1, <1>3, <2>1
      <3> QED
        BY <2>1, <3>1
    <2>2. CASE m \in s
      <3>1. Max(s) \in s /\ \A n \in s : n <= Max(s)
        BY <1>2, <2>2, MaxOfSet
      <3>2. Max(s) = m
        <4>1. Max(s) \in 1..m /\ m <= Max(s)
          BY <2>2, <3>1
        <4> QED
          BY <1>2, <4>1
      <3>3. s \ {m} \in SUBSET (1..m) /\ m \notin s \ {m}
        OBVIOUS
      <3>4. new[s \ {m}] = old[s \ {m}]
        BY <1>3, <3>3
      <3> QED
        BY <1>3, <2>2, <3>2, <3>4
    <2>3. CASE s # {} /\ m \notin s
      <3>1. s \in SUBSET (1..m - 1) /\ new[s] = old[s]
        BY <1>3, <2>3
      <3>2. old[s] = f[<<old[s \ {Max(s)}], seq[Max(s)]>>]
        BY <1>1, <2>3, <3>1
      <3>3. s \ {Max(s)} \in SUBSET (1..m) /\ m \notin s \ {Max(s)}
        BY <2>3
      <3>4. new[s \ {Max(s)}] = old[s \ {Max(s)}]
        BY <1>3, <3>3
      <3> QED
        BY <2>3, <3>1, <3>2, <3>4
    <2> QED
      BY <2>1, <2>2, <2>3
  <1>6. new \in Solutions(V, f, base, seq, m)
    BY <1>4, <1>5 DEF Solutions
  <1> QED
    BY <1>6

(* So there is one for the whole sequence.                                 *)
LEMMA SolutionExists ==
  ASSUME NEW V, NEW E, NEW f \in [V \X E -> V], NEW base \in V, NEW seq \in Seq(E)
  PROVE  Solutions(V, f, base, seq, Len(seq)) # {}
  <1> DEFINE T == {m \in 0..Len(seq) : Solutions(V, f, base, seq, m) # {}}
  <1>1. Len(seq) \in Nat
    OBVIOUS
  <1>2. 0 \in T
    <2>1. 1..0 = {}
      OBVIOUS
    <2>2. [s \in SUBSET (1..0) |-> base] \in Solutions(V, f, base, seq, 0)
      BY <2>1 DEF Solutions
    <2> QED
      BY <1>1, <2>2
  <1>3. ASSUME NEW m \in 1..Len(seq), m - 1 \in T PROVE m \in T
    <2>1. Solutions(V, f, base, seq, m - 1) # {}
      BY <1>3
    <2>2. Solutions(V, f, base, seq, m) # {}
      BY <2>1, SolutionExtends
    <2> QED
      BY <2>2
  <1>4. Len(seq) \in T
    <2>1. \A m \in 1..Len(seq) : m - 1 \in T => m \in T
      BY <1>3
    <2> HIDE DEF T
    <2>2. 0..Len(seq) \subseteq T
      BY <1>1, <1>2, <2>1, CountingUp
    <2> QED
      BY <1>1, <2>2
  <1> QED
    BY <1>4

(* A fold is the last of its values.                                       *)
THEOREM FoldSteps ==
  ASSUME NEW base, Closed(base), NEW seq \in Seq(Entry)
  PROVE  \E F \in [0..Len(seq) -> Value] :
           /\ F[0] = base
           /\ \A n \in 1..Len(seq) : F[n] = Step(F[n - 1], seq[n])
           /\ F[Len(seq)] = FoldOf(base, seq)
  <1>1. PICK F \in [0..Len(seq) -> Value] :
          F[0] = base /\ \A n \in 1..Len(seq) : F[n] = Step(F[n - 1], seq[n])
    BY StepsExist
  <1> DEFINE Solves(it) == it = [s \in SUBSET (1..Len(seq)) |->
                              IF s = {} THEN base ELSE Step(it[s \ {Max(s)}], seq[Max(s)])]
             iter == CHOOSE it : Solves(it)
             T == {n \in 0..Len(seq) : iter[1..n] = F[n]}
  <1>2. Solves(iter)
    <2> DEFINE f == [p \in Value \X Entry |-> Step(p[1], p[2])]
    <2>1. f \in [Value \X Entry -> Value] /\ base \in Value
      BY DEF Closed
    <2>2. \A v \in Value, x \in Entry : f[<<v, x>>] = Step(v, x)
      OBVIOUS
    <2> HIDE DEF f
    <2>3. PICK it : it \in Solutions(Value, f, base, seq, Len(seq))
      BY <2>1, SolutionExists
    <2>4. ASSUME NEW s \in SUBSET (1..Len(seq))
          PROVE  it[s] = IF s = {} THEN base ELSE Step(it[s \ {Max(s)}], seq[Max(s)])
      <3>1. CASE s = {}
        BY <2>3, <3>1 DEF Solutions
      <3>2. CASE s # {}
        <4>1. Max(s) \in s /\ Len(seq) \in Nat
          BY <3>2, MaxOfSet
        <4>2. it[s \ {Max(s)}] \in Value /\ seq[Max(s)] \in Entry
          BY <2>3, <4>1 DEF Solutions
        <4> QED
          BY <2>2, <2>3, <3>2, <4>2 DEF Solutions
      <3> QED
        BY <3>1, <3>2
    <2>5. it = [s \in SUBSET (1..Len(seq)) |->
                  IF s = {} THEN base ELSE Step(it[s \ {Max(s)}], seq[Max(s)])]
      BY <2>3, <2>4 DEF Solutions
    <2>6. Solves(it)
      BY <2>5
    <2> HIDE DEF Solves
    <2> QED
      BY <2>6
  <1>3. FoldOf(base, seq) = iter[1..Len(seq)]
    <2>1. DOMAIN seq = 1..Len(seq)
      OBVIOUS
    <2> QED
      BY <2>1 DEF FoldOf
  <1> HIDE DEF iter
  <1>4. 0 \in T
    <2>1. 1..0 = {}
      OBVIOUS
    <2> QED
      BY <1>1, <1>2, <2>1
  <1>5. ASSUME NEW n \in 1..Len(seq), n - 1 \in T PROVE n \in T
    <2>1. Max(1..n) = n /\ (1..n) \ {n} = 1..n - 1 /\ 1..n # {}
      BY LastOfFirst
    <2>2. 1..n \in SUBSET (1..Len(seq))
      OBVIOUS
    <2>3. iter[1..n] = Step(iter[1..n - 1], seq[n])
      BY <1>2, <2>1, <2>2
    <2> QED
      BY <1>1, <1>5, <2>3
  <1>6. Len(seq) \in T
    <2> HIDE DEF T
    <2>1. \A n \in 1..Len(seq) : n - 1 \in T => n \in T
      BY <1>5
    <2>2. Len(seq) \in Nat
      OBVIOUS
    <2>3. 0..Len(seq) \subseteq T
      BY <1>4, <2>1, <2>2, CountingUp
    <2> QED
      BY <2>2, <2>3
  <1> QED
    BY <1>1, <1>3, <1>6

(* The fold of no items.                                                   *)
THEOREM FoldEmpty ==
  ASSUME NEW base, Closed(base)
  PROVE  FoldOf(base, <<>>) = base
  <1>1. <<>> \in Seq(Entry) /\ Len(<<>>) = 0
    OBVIOUS
  <1>2. PICK F \in [0..Len(<<>>) -> Value] : F[0] = base /\ F[Len(<<>>)] = FoldOf(base, <<>>)
    BY <1>1, FoldSteps
  <1> QED
    BY <1>1, <1>2

(* The fold of one item more.                                              *)
THEOREM FoldAppend ==
  ASSUME NEW base, Closed(base), NEW seq \in Seq(Entry), NEW x \in Entry
  PROVE  FoldOf(base, Append(seq, x)) = Step(FoldOf(base, seq), x) /\ FoldOf(base, seq) \in Value
  <1> DEFINE more == Append(seq, x)
  <1>1. more \in Seq(Entry) /\ Len(more) = Len(seq) + 1 /\ more[Len(seq) + 1] = x
        /\ \A n \in 1..Len(seq) : more[n] = seq[n]
    OBVIOUS
  <1> HIDE DEF more
  <1>2. PICK F \in [0..Len(seq) -> Value] :
          /\ F[0] = base
          /\ \A n \in 1..Len(seq) : F[n] = Step(F[n - 1], seq[n])
          /\ F[Len(seq)] = FoldOf(base, seq)
    BY FoldSteps
  <1>3. PICK G \in [0..Len(more) -> Value] :
          /\ G[0] = base
          /\ \A n \in 1..Len(more) : G[n] = Step(G[n - 1], more[n])
          /\ G[Len(more)] = FoldOf(base, more)
    BY <1>1, FoldSteps
  <1> DEFINE T == {n \in 0..Len(seq) : F[n] = G[n]}
  <1>4. 0 \in T
    BY <1>2, <1>3
  <1>5. \A n \in 1..Len(seq) : n - 1 \in T => n \in T
    BY <1>1, <1>2, <1>3
  <1>6. Len(seq) \in T
    <2> HIDE DEF T
    <2>1. Len(seq) \in Nat
      OBVIOUS
    <2>2. 0..Len(seq) \subseteq T
      BY <1>4, <1>5, <2>1, CountingUp
    <2> QED
      BY <2>1, <2>2
  <1>7. FoldOf(base, seq) \in Value
    BY <1>2
  <1>8. FoldOf(base, more) = Step(G[Len(seq)], x)
    BY <1>1, <1>3
  <1> QED
    BY <1>2, <1>6, <1>7, <1>8 DEF more
=============================================================================
