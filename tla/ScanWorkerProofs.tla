--------------------------- MODULE ScanWorkerProofs ---------------------------
(* Theorems about ScanWorker for requests of any number of files of any    *)
(* kinds, any rules, any standard and any limits.                          *)
EXTENDS ScanWorker, SequenceTheorems, FiniteSetTheorems, TLAPS

(* A list in the order of _finding_sort_key.                               *)
Ordered(seq) == \A m, n \in 1..Len(seq) : m < n => ~Before(seq[n], seq[m])

(* How often y is among the first n of a list.                             *)
CountUpTo(y, seq, n) == Cardinality({m \in 1..n : seq[m] = y})

Filters == INSTANCE FoldTheorems
  WITH Step <- Keep, Value <- Seq(Findings), Entry <- Findings

Sorts == INSTANCE FoldTheorems
  WITH Step <- Place, Value <- {seq \in Seq(Findings) : Ordered(seq)}, Entry <- Findings

-----------------------------------------------------------------------------
(* The order of findings.                                                  *)

LEMMA RuleType ==
  /\ Len(Rules) \in Nat
  /\ \A r \in 1..Len(Rules) : Rules[r].severity \in Nat
  <1>1. Rules \in Seq(RuleKind)
    BY ScanWorkerAssumption
  <1>2. Len(Rules) \in Nat /\ \A r \in 1..Len(Rules) : Rules[r] \in RuleKind
    BY <1>1
  <1> QED
    BY <1>2 DEF RuleKind

LEMMA FindingType ==
  ASSUME NEW x \in Findings
  PROVE  /\ x.rule \in 1..Len(Rules) /\ x.path \in Files /\ x.line \in Nat
         /\ x.rule \in Nat /\ x.path \in Nat /\ Rank(x) \in Nat
  <1>1. x.rule \in 1..Len(Rules) /\ x.path \in Files /\ x.line \in Nat
    BY DEF Findings
  <1>2. x.rule \in Nat /\ x.path \in Nat
    BY <1>1, RuleType, ScanWorkerAssumption DEF Files
  <1> QED
    BY <1>1, <1>2, RuleType DEF Rank

LEMMA BeforeIsStrict ==
  ASSUME NEW x \in Findings, NEW y \in Findings, Before(x, y)
  PROVE  ~Before(y, x)
  BY FindingType DEF Before

LEMMA BeforeIsWeak ==
  ASSUME NEW x \in Findings, NEW y \in Findings, NEW z \in Findings,
         Before(x, y), ~Before(z, y)
  PROVE  Before(x, z)
  BY FindingType DEF Before

(* In an ordered list there is one place for a finding.                    *)
LEMMA PlaceExists ==
  ASSUME NEW seq \in Seq(Findings), Ordered(seq), NEW x \in Findings
  PROVE  \E at \in 1..Len(seq) + 1 : \A n \in 1..Len(seq) : Before(x, seq[n]) <=> n >= at
  <1> DEFINE behind == {n \in 1..Len(seq) : Before(x, seq[n])}
  <1>1. Len(seq) \in Nat /\ behind \in SUBSET Nat /\ \A n \in 1..Len(seq) : seq[n] \in Findings
    OBVIOUS
  <1>2. CASE behind = {}
    <2>1. Len(seq) + 1 \in 1..Len(seq) + 1 /\ \A n \in 1..Len(seq) : ~ (n >= Len(seq) + 1)
      BY <1>1
    <2> QED
      BY <1>2, <2>1
  <1>3. CASE behind # {}
    <2>1. PICK at \in behind : \A n \in behind : at <= n
      <3> HIDE DEF behind
      <3> QED
        BY <1>1, <1>3, Sorts!LeastElement
    <2>2. ASSUME NEW n \in 1..Len(seq), n > at PROVE Before(x, seq[n])
      <3>1. ~Before(seq[n], seq[at])
        BY <2>1, <2>2 DEF Ordered
      <3> QED
        BY <1>1, <2>1, <3>1, BeforeIsWeak
    <2>3. \A n \in 1..Len(seq) : Before(x, seq[n]) <=> n >= at
      BY <1>1, <2>1, <2>2
    <2> QED
      BY <1>1, <2>1, <2>3
  <1> QED
    BY <1>2, <1>3

-----------------------------------------------------------------------------
(* How often a finding is there.                                           *)

LEMMA CountType ==
  ASSUME NEW seq \in Seq(Findings), NEW y
  PROVE  /\ Count(y, seq) \in Nat
         /\ Count(y, seq) = 0 <=> y \notin Elements(seq)
         /\ Count(y, seq) = CountUpTo(y, seq, Len(seq))
  <1> DEFINE at == {n \in 1..Len(seq) : seq[n] = y}
  <1>1. IsFiniteSet(1..Len(seq)) /\ at \subseteq 1..Len(seq)
    BY FS_Interval
  <1>2. IsFiniteSet(at)
    BY <1>1, FS_Subset
  <1>3. at = {} <=> y \notin Elements(seq)
    BY DEF Elements
  <1>4. Count(y, seq) = Cardinality(at) /\ CountUpTo(y, seq, Len(seq)) = Cardinality(at)
    BY DEF Count, CountUpTo
  <1> HIDE DEF at
  <1> QED
    BY <1>2, <1>3, <1>4, FS_CardinalityType, FS_EmptySet

(* One more of the list adds one to the count of what it is.               *)
LEMMA CountOneMore ==
  ASSUME NEW seq \in Seq(Findings), NEW n \in 1..Len(seq), NEW y
  PROVE  /\ CountUpTo(y, seq, n - 1) \in Nat
         /\ CountUpTo(y, seq, n) = CountUpTo(y, seq, n - 1) + (IF seq[n] = y THEN 1 ELSE 0)
  <1> DEFINE before == {m \in 1..n - 1 : seq[m] = y}
             upTo == {m \in 1..n : seq[m] = y}
  <1>1. IsFiniteSet(1..n - 1) /\ before \subseteq 1..n - 1 /\ n \notin before
    BY FS_Interval
  <1>2. IsFiniteSet(before)
    BY <1>1, FS_Subset
  <1>3. upTo = IF seq[n] = y THEN before \cup {n} ELSE before
    <2>1. \A m \in 1..n : m \in 1..n - 1 \/ m = n
      OBVIOUS
    <2>2. \A m \in 1..n - 1 : m \in 1..n
      OBVIOUS
    <2> QED
      BY <2>1, <2>2
  <1>4. CountUpTo(y, seq, n) = Cardinality(upTo) /\ CountUpTo(y, seq, n - 1) = Cardinality(before)
    BY DEF CountUpTo
  <1> HIDE DEF before, upTo
  <1>5. Cardinality(before) \in Nat /\ Cardinality(before \cup {n}) = Cardinality(before) + 1
    BY <1>1, <1>2, FS_CardinalityType, FS_AddElement
  <1> QED
    BY <1>3, <1>4, <1>5

(* So does one more at the end.                                            *)
LEMMA CountAppended ==
  ASSUME NEW seq \in Seq(Findings), NEW x \in Findings, NEW y
  PROVE  Count(y, Append(seq, x)) = Count(y, seq) + (IF x = y THEN 1 ELSE 0)
  <1> DEFINE more == Append(seq, x)
  <1>1. /\ more \in Seq(Findings) /\ Len(seq) \in Nat /\ Len(more) = Len(seq) + 1
        /\ more[Len(seq) + 1] = x /\ \A m \in 1..Len(seq) : more[m] = seq[m]
    BY AppendProperties
  <1> HIDE DEF more
  <1>2. CountUpTo(y, more, Len(seq)) = CountUpTo(y, seq, Len(seq))
    <2>1. {m \in 1..Len(seq) : more[m] = y} = {m \in 1..Len(seq) : seq[m] = y}
      BY <1>1
    <2> QED
      BY <2>1 DEF CountUpTo
  <1>3. Len(more) \in 1..Len(more) /\ Len(more) - 1 = Len(seq) /\ more[Len(more)] = x
    BY <1>1
  <1>4. CountUpTo(y, more, Len(more))
          = CountUpTo(y, more, Len(more) - 1) + (IF more[Len(more)] = y THEN 1 ELSE 0)
    BY <1>1, <1>3, CountOneMore
  <1>5. Count(y, more) = CountUpTo(y, more, Len(more)) /\ Count(y, seq) = CountUpTo(y, seq, Len(seq))
    BY <1>1, CountType
  <1>6. Count(y, more) = Count(y, seq) + (IF x = y THEN 1 ELSE 0)
    BY <1>2, <1>3, <1>4, <1>5
  <1> QED
    BY <1>6 DEF more

(* Putting a finding in its place keeps the list ordered and adds that     *)
(* finding once.                                                           *)
LEMMA PlaceKeepsOrder ==
  ASSUME NEW seq \in Seq(Findings), Ordered(seq), NEW x \in Findings
  PROVE  LET more == Place(seq, x)
         IN  /\ more \in Seq(Findings) /\ Ordered(more) /\ Len(more) = Len(seq) + 1
             /\ \A y \in Findings : Count(y, more) = Count(y, seq) + (IF x = y THEN 1 ELSE 0)
  <1> DEFINE IsPlace(at) == at \in 1..Len(seq) + 1 /\ \A n \in 1..Len(seq) : Before(x, seq[n]) <=> n >= at
             place == CHOOSE at \in 1..Len(seq) + 1 :
                        \A n \in 1..Len(seq) : Before(x, seq[n]) <=> n >= at
             more == Place(seq, x)
  <1>1. IsPlace(place)
    BY PlaceExists
  <1>2. more = [n \in 1..Len(seq) + 1 |->
                  CASE n < place -> seq[n] [] n = place -> x [] n > place -> seq[n - 1]]
    BY DEF Place
  <1> HIDE DEF place, more
  <1>3. Len(seq) \in Nat /\ place \in Nat /\ place >= 1 /\ place <= Len(seq) + 1
        /\ \A n \in 1..Len(seq) : seq[n] \in Findings
    BY <1>1
  <1>4. ASSUME NEW n \in 1..Len(seq) + 1
        PROVE  /\ n < place => n \in 1..Len(seq) /\ more[n] = seq[n]
               /\ n = place => more[n] = x
               /\ n > place => n - 1 \in 1..Len(seq) /\ more[n] = seq[n - 1]
    BY <1>2, <1>3
  <1>5. \A n \in 1..Len(seq) + 1 : more[n] \in Findings
    BY <1>3, <1>4
  <1>6. more \in Seq(Findings) /\ Len(more) = Len(seq) + 1
    BY <1>2, <1>3, <1>5
  <1>7. Ordered(more)
    <2> SUFFICES ASSUME NEW m \in 1..Len(seq) + 1, NEW n \in 1..Len(seq) + 1, m < n
                 PROVE  ~Before(more[n], more[m])
      BY <1>6 DEF Ordered
    <2>1. CASE n < place
      BY <1>3, <1>4, <2>1 DEF Ordered
    <2>2. CASE n = place
      <3>1. m \in 1..Len(seq) /\ more[m] = seq[m] /\ more[n] = x /\ ~ (m >= place)
        BY <1>3, <1>4, <2>2
      <3> QED
        BY <1>1, <3>1
    <2>3. CASE n > place /\ m = place
      <3>1. n - 1 \in 1..Len(seq) /\ n - 1 >= place /\ more[n] = seq[n - 1] /\ more[m] = x
        BY <1>3, <1>4, <2>3
      <3>2. Before(x, seq[n - 1])
        BY <1>1, <3>1
      <3> QED
        BY <1>3, <3>1, <3>2, BeforeIsStrict
    <2>4. CASE n > place /\ m < place
      <3>1. m \in 1..Len(seq) /\ n - 1 \in 1..Len(seq) /\ m < n - 1
            /\ more[n] = seq[n - 1] /\ more[m] = seq[m]
        BY <1>3, <1>4, <2>4
      <3> QED
        BY <3>1 DEF Ordered
    <2>5. CASE n > place /\ m > place
      <3>1. n - 1 \in 1..Len(seq) /\ m - 1 \in 1..Len(seq) /\ m - 1 < n - 1
            /\ more[n] = seq[n - 1] /\ more[m] = seq[m - 1]
        BY <1>3, <1>4, <2>5
      <3> QED
        BY <3>1 DEF Ordered
    <2> QED
      BY <1>3, <2>1, <2>2, <2>3, <2>4, <2>5
  <1>8. ASSUME NEW y \in Findings
        PROVE  Count(y, more) = Count(y, seq) + (IF x = y THEN 1 ELSE 0)
    <2> DEFINE old == {n \in 1..Len(seq) : seq[n] = y}
               new == {n \in 1..Len(seq) + 1 : more[n] = y}
               shift == [n \in old |-> IF n < place THEN n ELSE n + 1]
    <2>1. IsFiniteSet(1..Len(seq)) /\ IsFiniteSet(1..Len(seq) + 1)
      BY <1>3, FS_Interval
    <2>2. IsFiniteSet(old) /\ IsFiniteSet(new)
      BY <2>1, FS_Subset
    <2>3. place \in new <=> x = y
      BY <1>3, <1>4
    <2>4. ASSUME NEW n \in old
          PROVE  shift[n] \in new \ {place}
      <3>1. CASE n < place
        BY <1>3, <1>4, <2>4, <3>1
      <3>2. CASE ~(n < place)
        <4>1. n + 1 \in 1..Len(seq) + 1 /\ n + 1 > place /\ (n + 1) - 1 = n
          BY <1>3, <3>2
        <4>2. more[n + 1] = seq[n]
          BY <1>4, <4>1
        <4> QED
          BY <1>3, <3>2, <4>1, <4>2
      <3> QED
        BY <3>1, <3>2
    <2>5. ASSUME NEW n \in new \ {place}
          PROVE  \E m \in old : shift[m] = n
      <3>1. CASE n < place
        BY <1>3, <1>4, <2>5, <3>1
      <3>2. CASE n > place
        <4>1. n - 1 \in 1..Len(seq) /\ seq[n - 1] = y /\ ~(n - 1 < place) /\ (n - 1) + 1 = n
          BY <1>3, <1>4, <2>5, <3>2
        <4>2. n - 1 \in old /\ shift[n - 1] = n
          BY <4>1
        <4> QED
          BY <4>2
      <3>3. n < place \/ n > place
        BY <1>3, <2>5
      <3> QED
        BY <3>1, <3>2, <3>3
    <2>6. \A m, n \in old : shift[m] = shift[n] => m = n
      BY <1>3
    <2>7. shift \in [old -> new \ {place}] /\ DOMAIN shift = old
      BY <2>4
    <2> HIDE DEF old, new, shift
    <2>8. shift \in Bijection(old, new \ {place})
      BY <2>5, <2>6, <2>7 DEF Bijection, Injection, Surjection, IsInjective
    <2>9. Cardinality(new \ {place}) = Cardinality(old)
      BY <2>2, <2>8, FS_Bijection DEF ExistsBijection
    <2>10. Cardinality(new \ {place}) = IF place \in new THEN Cardinality(new) - 1 ELSE Cardinality(new)
      BY <2>2, FS_RemoveElement
    <2>11. Cardinality(new) \in Nat /\ Cardinality(old) \in Nat
      BY <2>2, FS_CardinalityType
    <2>12. Count(y, more) = Cardinality(new) /\ Count(y, seq) = Cardinality(old)
      BY <1>6 DEF Count, old, new
    <2> QED
      BY <2>3, <2>9, <2>10, <2>11, <2>12
  <1> QED
    BY <1>6, <1>7, <1>8 DEF more

(* findings.sort: the same findings, each as often as before, in order.    *)
LEMMA SortedIsOrdered ==
  ASSUME NEW seq \in Seq(Findings)
  PROVE  LET sorted == Sorted(seq)
         IN  /\ sorted \in Seq(Findings) /\ Ordered(sorted) /\ Len(sorted) = Len(seq)
             /\ \A y \in Findings : Count(y, sorted) = Count(y, seq)
  <1> DEFINE InOrder == {s \in Seq(Findings) : Ordered(s)}
  <1>1. Sorts!Closed(<<>>)
    <2>1. <<>> \in InOrder
      <3>1. <<>> \in Seq(Findings) /\ 1..Len(<<>>) = {}
        OBVIOUS
      <3> QED
        BY <3>1 DEF Ordered
    <2>2. \A s \in InOrder, x \in Findings : Place(s, x) \in InOrder
      BY PlaceKeepsOrder
    <2> QED
      BY <2>1, <2>2 DEF Sorts!Closed
  <1>2. Sorted(seq) = Sorts!FoldOf(<<>>, seq)
    BY DEF Sorted, FoldLeft, MapThenFoldSet, Max, Sorts!FoldOf, Sorts!Max
  <1>3. PICK F \in [0..Len(seq) -> InOrder] :
          /\ F[0] = <<>>
          /\ \A n \in 1..Len(seq) : F[n] = Place(F[n - 1], seq[n])
          /\ F[Len(seq)] = Sorted(seq)
    BY <1>1, <1>2, Sorts!FoldSteps
  <1> DEFINE Good(n) == /\ Len(F[n]) = n
                        /\ \A y \in Findings : Count(y, F[n]) = CountUpTo(y, seq, n)
             T == {n \in 0..Len(seq) : Good(n)}
  <1>4. Len(seq) \in Nat /\ \A n \in 1..Len(seq) : seq[n] \in Findings
    OBVIOUS
  <1>5. 0 \in T
    <2>1. 1..0 = {} /\ 1..Len(<<>>) = {} /\ Len(<<>>) = 0
      OBVIOUS
    <2>2. ASSUME NEW y \in Findings PROVE Count(y, <<>>) = CountUpTo(y, seq, 0)
      <3>1. {n \in 1..Len(<<>>) : <<>>[n] = y} = {} /\ {n \in 1..0 : seq[n] = y} = {}
        BY <2>1
      <3> QED
        BY <3>1 DEF Count, CountUpTo
    <2> QED
      BY <1>3, <1>4, <2>1, <2>2
  <1>6. ASSUME NEW n \in 1..Len(seq), n - 1 \in T PROVE n \in T
    <2>1. n - 1 \in 0..Len(seq) /\ n \in 0..Len(seq) /\ (n - 1) + 1 = n
      BY <1>4
    <2>2. F[n - 1] \in Seq(Findings) /\ Ordered(F[n - 1]) /\ F[n] = Place(F[n - 1], seq[n])
      BY <1>3, <2>1
    <2>3. Good(n - 1)
      BY <1>6
    <2>4. /\ Len(F[n]) = Len(F[n - 1]) + 1
          /\ \A y \in Findings : Count(y, F[n]) = Count(y, F[n - 1]) + (IF seq[n] = y THEN 1 ELSE 0)
      <3>1. ASSUME NEW s \in Seq(Findings), Ordered(s), NEW x \in Findings
            PROVE  /\ Len(Place(s, x)) = Len(s) + 1
                   /\ \A y \in Findings : Count(y, Place(s, x)) = Count(y, s) + (IF x = y THEN 1 ELSE 0)
        BY <3>1, PlaceKeepsOrder
      <3>2. seq[n] \in Findings
        BY <1>4
      <3> HIDE DEF InOrder, Good, T
      <3> QED
        BY <2>2, <3>1, <3>2
    <2>5. \A y \in Findings :
            CountUpTo(y, seq, n) = CountUpTo(y, seq, n - 1) + (IF seq[n] = y THEN 1 ELSE 0)
      BY CountOneMore
    <2>6. \A y \in Findings : Count(y, F[n]) = CountUpTo(y, seq, n)
      BY <2>3, <2>4, <2>5
    <2>7. Good(n)
      BY <2>1, <2>3, <2>4, <2>6
    <2> HIDE DEF Good
    <2> QED
      BY <2>1, <2>7
  <1>7. Good(Len(seq))
    <2> HIDE DEF Good
    <2>1. 0..Len(seq) \subseteq T
      <3> HIDE DEF T
      <3> QED
        BY <1>4, <1>5, <1>6, Sorts!CountingUp
    <2> QED
      BY <1>4, <2>1
  <1>8. Sorted(seq) \in InOrder
    BY <1>3, <1>4
  <1>9. \A y \in Findings : Count(y, seq) = CountUpTo(y, seq, Len(seq))
    BY CountType
  <1> QED
    BY <1>3, <1>7, <1>8, <1>9

(* What the selected standard keeps: the findings of mapped rules, each as *)
(* often as it was found.                                                  *)
LEMMA MatchingIsKept ==
  ASSUME raw \in Seq(Findings)
  PROVE  /\ Matching \in Seq(Findings)
         /\ \A y \in Findings :
              Count(y, Matching) = IF Rules[y.rule].mapped THEN Count(y, raw) ELSE 0
  <1>1. Filters!Closed(<<>>)
    <2>1. ASSUME NEW kept \in Seq(Findings), NEW x \in Findings PROVE Keep(kept, x) \in Seq(Findings)
      BY AppendProperties DEF Keep
    <2> QED
      BY <2>1 DEF Filters!Closed
  <1>2. Matching = Filters!FoldOf(<<>>, raw)
    BY DEF Matching, FoldLeft, MapThenFoldSet, Max, Filters!FoldOf, Filters!Max
  <1>3. PICK F \in [0..Len(raw) -> Seq(Findings)] :
          /\ F[0] = <<>>
          /\ \A n \in 1..Len(raw) : F[n] = Keep(F[n - 1], raw[n])
          /\ F[Len(raw)] = Matching
    BY <1>1, <1>2, Filters!FoldSteps
  <1> DEFINE Good(n) == \A y \in Findings :
                           Count(y, F[n]) = IF Rules[y.rule].mapped THEN CountUpTo(y, raw, n) ELSE 0
             T == {n \in 0..Len(raw) : Good(n)}
  <1>4. Len(raw) \in Nat /\ \A n \in 1..Len(raw) : raw[n] \in Findings
    OBVIOUS
  <1>5. 0 \in T
    <2>1. 1..0 = {} /\ 1..Len(<<>>) = {}
      OBVIOUS
    <2>2. ASSUME NEW y PROVE Count(y, <<>>) = 0 /\ CountUpTo(y, raw, 0) = 0
      <3>1. {n \in 1..Len(<<>>) : <<>>[n] = y} = {} /\ {n \in 1..0 : raw[n] = y} = {}
        BY <2>1
      <3> QED
        BY <3>1, FS_EmptySet DEF Count, CountUpTo
    <2> QED
      BY <1>3, <1>4, <2>2
  <1>6. ASSUME NEW n \in 1..Len(raw), n - 1 \in T PROVE n \in T
    <2>1. n - 1 \in 0..Len(raw) /\ n \in 0..Len(raw)
      BY <1>4
    <2>2. F[n - 1] \in Seq(Findings) /\ F[n] = Keep(F[n - 1], raw[n]) /\ raw[n] \in Findings
      BY <1>3, <1>4, <2>1
    <2>3. Good(n - 1)
      BY <1>6
    <2>4. ASSUME NEW y \in Findings
          PROVE  Count(y, F[n]) = IF Rules[y.rule].mapped THEN CountUpTo(y, raw, n) ELSE 0
      <3>1. /\ CountUpTo(y, raw, n - 1) \in Nat
            /\ CountUpTo(y, raw, n) = CountUpTo(y, raw, n - 1) + (IF raw[n] = y THEN 1 ELSE 0)
        BY CountOneMore
      <3>2. Count(y, F[n - 1]) = IF Rules[y.rule].mapped THEN CountUpTo(y, raw, n - 1) ELSE 0
        BY <2>3
      <3> HIDE DEF Good, T
      <3>3. CASE Rules[raw[n].rule].mapped
        <4>1. F[n] = Append(F[n - 1], raw[n])
          BY <2>2, <3>3 DEF Keep
        <4>2. Count(y, F[n]) = Count(y, F[n - 1]) + (IF raw[n] = y THEN 1 ELSE 0)
          BY <2>2, <4>1, CountAppended
        <4>3. raw[n] = y => Rules[y.rule].mapped
          BY <3>3
        <4> QED
          BY <3>1, <3>2, <4>2, <4>3
      <3>4. CASE ~Rules[raw[n].rule].mapped
        <4>1. F[n] = F[n - 1]
          BY <2>2, <3>4 DEF Keep
        <4>2. raw[n] = y => ~Rules[y.rule].mapped
          BY <3>4
        <4> QED
          BY <3>1, <3>2, <4>1, <4>2
      <3> QED
        BY <3>3, <3>4
    <2>5. Good(n)
      BY <2>4
    <2> HIDE DEF Good
    <2> QED
      BY <2>1, <2>5
  <1>7. Good(Len(raw))
    <2> HIDE DEF Good
    <2>1. 0..Len(raw) \subseteq T
      <3> HIDE DEF T
      <3> QED
        BY <1>4, <1>5, <1>6, Sorts!CountingUp
    <2> QED
      BY <1>4, <2>1
  <1>8. Matching \in Seq(Findings)
    BY <1>3, <1>4
  <1>9. \A y \in Findings : Count(y, raw) = CountUpTo(y, raw, Len(raw))
    BY CountType
  <1> QED
    BY <1>3, <1>7, <1>8, <1>9

-----------------------------------------------------------------------------
(* The checks.                                                             *)

(* The line rules report lines of this file, and never a missing lockfile. *)
LEMMA SomeFindingsTell ==
  ASSUME NEW k \in 1..Len(CHECKS), NEW f \in Files, NEW lines \in SUBSET Nat,
         NEW found \in SomeFindings(k, f, lines)
  PROVE  /\ found \in Seq(Findings)
         /\ \A n \in 1..Len(found) : found[n].path = f /\ found[n].rule # MissingLockfile
  <1> DEFINE S == [rule : LineRules(k), path : {f}, line : lines]
  <1>1. PICK m \in 0..MaxPerCheck : found \in [1..m -> S]
    BY DEF SomeFindings, BoundedSeq, SeqOf
  <1>2. \A x \in S : x \in Findings /\ x.path = f /\ x.rule # MissingLockfile
    BY DEF LineRules, Findings
  <1> HIDE DEF S
  <1>3. \A n \in 1..m : found[n] \in S
    BY <1>1
  <1>4. m \in Nat
    BY ScanWorkerAssumption
  <1>5. found \in Seq(Findings) /\ Len(found) = m
    BY <1>1, <1>2, <1>3, <1>4
  <1> QED
    BY <1>2, <1>3, <1>5

(* Of a package.json that is an object with dependencies the first thing   *)
(* reported is the lockfile that is not there.                             *)
LEMMA PackageJsonTells ==
  ASSUME kind \in [Files -> Kinds], NEW f \in Files, kind[f].name = "package.json",
         NEW found \in Outcomes(2, f)
  PROVE  /\ found \in Seq(Findings)
         /\ \A n \in 1..Len(found) :
              found[n].path = f /\ (found[n].rule = MissingLockfile => ~LockfileBeside(f))
         /\ kind[f].body # "no_object"
         /\ kind[f].body = "dependencies" /\ ~LockfileBeside(f)
              => Finding(MissingLockfile, f, 0) \in Elements(found)
  <1>1. 2 \in 1..Len(CHECKS) /\ CHECKS[2] = "dependencies"
    BY DEF CHECKS
  <1>2. found \in PackageJson(2, f)
    BY <1>1 DEF Outcomes
  <1>3. kind[f].lines \in Nat
        /\ kind[f].body \in {"refused", "no_object", "no_dependencies", "dependencies"}
    BY ScanWorkerAssumption DEF FileKind
  <1>4. Lines(f) \in SUBSET Nat /\ {0} \cup Lines(f) \in SUBSET Nat /\ ErrorLine(f) \in SUBSET Nat
    BY <1>3 DEF Lines, ErrorLine
  <1>5. \A r \in 1..Len(Rules), l \in Nat :
          Finding(r, f, l) \in Findings /\ Finding(r, f, l).path = f /\ Finding(r, f, l).rule = r
    BY DEF Finding, Findings
  <1> HIDE DEF Finding
  <1>6. CASE kind[f].body = "refused"
    <2>1. PICK r \in LineRules(2), l \in ErrorLine(f) : found = <<Finding(r, f, l)>>
      BY <1>2, <1>6 DEF PackageJson
    <2>2. r \in 1..Len(Rules) /\ r # MissingLockfile /\ l \in Nat
      BY <1>4, <2>1 DEF LineRules
    <2>3. Finding(r, f, l) \in Findings /\ Finding(r, f, l).path = f /\ Finding(r, f, l).rule = r
      BY <1>5, <2>2
    <2>4. Len(found) = 1 /\ found[1] = Finding(r, f, l) /\ found \in Seq(Findings)
      BY <2>1, <2>3
    <2> QED
      BY <1>6, <2>2, <2>3, <2>4
  <1>7. CASE kind[f].body = "no_dependencies"
    <2>1. found \in SomeFindings(2, f, {0} \cup Lines(f))
      BY <1>2, <1>7 DEF PackageJson
    <2> QED
      BY <1>1, <1>4, <1>7, <2>1, SomeFindingsTell
  <1>8. CASE kind[f].body = "dependencies"
    <2>1. PICK others \in SomeFindings(2, f, {0} \cup Lines(f)) : found = LockfileMissing(f) \o others
      <3>1. found \in DependencyFindings(2, f)
        BY <1>2, <1>8 DEF PackageJson
      <3> QED
        BY <3>1 DEF DependencyFindings
    <2>2. /\ others \in Seq(Findings)
          /\ \A n \in 1..Len(others) : others[n].path = f /\ others[n].rule # MissingLockfile
      BY <1>1, <1>4, SomeFindingsTell
    <2>3. CASE LockfileBeside(f)
      <3>1. found = others
        BY <2>1, <2>2, <2>3 DEF LockfileMissing
      <3> QED
        BY <1>8, <2>2, <2>3, <3>1
    <2>4. CASE ~LockfileBeside(f)
      <3> DEFINE lack == Finding(MissingLockfile, f, 0)
      <3>1. lack \in Findings /\ lack.path = f
        BY <1>5, ScanWorkerAssumption
      <3>2. found = <<lack>> \o others
        BY <2>1, <2>4 DEF LockfileMissing
      <3> HIDE DEF lack
      <3>3. /\ found \in Seq(Findings) /\ Len(found) = 1 + Len(others) /\ Len(others) \in Nat
            /\ found[1] = lack
            /\ \A n \in 1..Len(found) : n = 1 \/ (n - 1 \in 1..Len(others) /\ found[n] = others[n - 1])
        <4>1. <<lack>> \in Seq(Findings) /\ Len(<<lack>>) = 1 /\ <<lack>>[1] = lack
          BY <3>1
        <4> QED
          BY <2>2, <3>2, <4>1, ConcatProperties
      <3>4. lack \in Elements(found)
        BY <3>3 DEF Elements
      <3>5. \A n \in 1..Len(found) : found[n].path = f
        BY <2>2, <3>1, <3>3
      <3> QED
        BY <1>8, <2>4, <3>3, <3>4, <3>5 DEF lack
    <2> QED
      BY <2>3, <2>4
  <1>9. CASE kind[f].body = "no_object"
    BY <1>2, <1>9 DEF PackageJson
  <1> QED
    BY <1>3, <1>6, <1>7, <1>8, <1>9

(* What a check reports is about this file, and a missing lockfile is      *)
(* reported of a package.json only when there is none beside it.           *)
LEMMA OutcomeTells ==
  ASSUME kind \in [Files -> Kinds], NEW k \in 1..Len(CHECKS), NEW f \in Files,
         NEW found \in Outcomes(k, f)
  PROVE  /\ found \in Seq(Findings)
         /\ \A n \in 1..Len(found) :
              /\ found[n].path = f
              /\ found[n].rule = MissingLockfile /\ kind[f].name = "package.json" => ~LockfileBeside(f)
  <1>1. k \in 1..4 /\ CHECKS[1] = "secrets" /\ CHECKS[2] = "dependencies"
        /\ CHECKS[3] = "configuration" /\ CHECKS[4] = "code"
    BY DEF CHECKS
  <1>2. kind[f].lines \in Nat
    BY ScanWorkerAssumption DEF FileKind
  <1>3. /\ Lines(f) \in SUBSET Nat /\ {0} \cup Lines(f) \in SUBSET Nat
        /\ {0} \cup (IF kind[f].text \/ kind[f].name = "dockerfile" THEN Lines(f) ELSE {}) \in SUBSET Nat
    BY <1>2 DEF Lines
  <1>4. CASE k = 2 /\ kind[f].name = "package.json"
    BY <1>4, PackageJsonTells
  <1>5. CASE ~ (k = 2 /\ kind[f].name = "package.json")
    <2>1. \/ found = <<>>
          \/ \E lines \in SUBSET Nat : found \in SomeFindings(k, f, lines)
      <3>1. CASE CHECKS[k] = "secrets" \/ CHECKS[k] = "code"
        <4>1. found = <<>> \/ found \in SomeFindings(k, f, Lines(f))
          BY <3>1 DEF Outcomes
        <4> QED
          BY <1>3, <4>1
      <3>2. CASE CHECKS[k] = "dependencies"
        <4>1. k = 2
          BY <1>1, <3>2
        <4>2. found = <<>> \/ found \in SomeFindings(k, f, Lines(f))
          BY <1>5, <3>2, <4>1 DEF Outcomes
        <4> QED
          BY <1>3, <4>2
      <3>3. CASE CHECKS[k] = "configuration"
        <4>1. found \in SomeFindings(k, f, {0} \cup (IF kind[f].text \/ kind[f].name = "dockerfile"
                                                     THEN Lines(f) ELSE {}))
          BY <3>3 DEF Outcomes
        <4> QED
          BY <1>3, <4>1
      <3> QED
        BY <1>1, <3>1, <3>2, <3>3
    <2>2. CASE found = <<>>
      BY <2>2
    <2>3. CASE \E lines \in SUBSET Nat : found \in SomeFindings(k, f, lines)
      BY <2>3, SomeFindingsTell
    <2> QED
      BY <2>1, <2>2, <2>3
  <1> QED
    BY <1>4, <1>5

(* Each check looks at one file, in a scope that the response knows.       *)
LEMMA LooksAtFile ==
  ASSUME NEW k \in 1..Len(CHECKS), NEW f \in Files, NEW x \in Looks(k, f)
  PROVE  x \in Files \X Scopes /\ x[1] = f
  BY DEF Looks, Scopes

(* Two lists, one after the other.                                         *)
LEMMA JoinedLists ==
  ASSUME NEW front \in Seq(Findings), NEW back \in Seq(Findings)
  PROVE  /\ front \o back \in Seq(Findings)
         /\ \A n \in 1..Len(front \o back) :
              \/ n \in 1..Len(front) /\ (front \o back)[n] = front[n]
              \/ n - Len(front) \in 1..Len(back) /\ (front \o back)[n] = back[n - Len(front)]
         /\ Elements(front) \subseteq Elements(front \o back)
         /\ Elements(back) \subseteq Elements(front \o back)
  <1> DEFINE both == front \o back
  <1>1. both \in Seq(Findings) /\ Len(both) = Len(front) + Len(back)
        /\ Len(front) \in Nat /\ Len(back) \in Nat
    OBVIOUS
  <1>2. ASSUME NEW n \in 1..Len(both)
        PROVE  \/ n \in 1..Len(front) /\ both[n] = front[n]
               \/ n - Len(front) \in 1..Len(back) /\ both[n] = back[n - Len(front)]
    BY <1>1
  <1>3. \A n \in 1..Len(front) : n \in 1..Len(both) /\ both[n] = front[n]
    BY <1>1
  <1>4. \A n \in 1..Len(back) : n + Len(front) \in 1..Len(both) /\ both[n + Len(front)] = back[n]
    BY <1>1
  <1> HIDE DEF both
  <1>5. Elements(front) \subseteq Elements(both) /\ Elements(back) \subseteq Elements(both)
    BY <1>3, <1>4 DEF Elements
  <1> QED
    BY <1>1, <1>2, <1>5 DEF both

-----------------------------------------------------------------------------
(* The document and the response.                                          *)

(* A result holds the front of the findings, and tells whether that is all.*)
LEMMA ReportTells ==
  ASSUME NEW found \in Seq(Findings), Ordered(found)
  PROVE  LET doc == Report(found)
         IN  /\ doc.status = "ok" /\ doc.truncated \in BOOLEAN
             /\ doc.findings \in Seq(Findings) /\ Ordered(doc.findings)
             /\ Len(doc.findings) <= MaxFindings
             /\ \A x \in Findings : Count(x, doc.findings) <= Count(x, found)
             /\ doc.truncated <=> \E x \in Findings : Count(x, doc.findings) < Count(x, found)
             /\ \A x \in Findings, y \in Elements(doc.findings) :
                  Count(x, doc.findings) < Count(x, found) => Rank(x) <= Rank(y)
  <1> DEFINE doc == Report(found)
  <1>1. MaxFindings \in Nat /\ Len(found) \in Nat /\ \A n \in 1..Len(found) : found[n] \in Findings
    BY ScanWorkerAssumption
  <1>2. CASE Len(found) <= MaxFindings
    <2>1. doc = [status |-> "ok", findings |-> found, truncated |-> FALSE]
      BY <1>2 DEF Report
    <2>2. doc.status = "ok" /\ doc.findings = found /\ doc.truncated = FALSE
      BY <2>1
    <2> HIDE DEF doc
    <2>3. \A x \in Findings : Count(x, found) \in Nat
      BY CountType
    <2>4. \A x \in Findings :
            Count(x, doc.findings) <= Count(x, found) /\ ~(Count(x, doc.findings) < Count(x, found))
      BY <2>2, <2>3
    <2>5. doc.truncated \in BOOLEAN /\ ~doc.truncated
      BY <2>2
    <2>6. /\ doc.status = "ok" /\ doc.truncated \in BOOLEAN
          /\ doc.findings \in Seq(Findings) /\ Ordered(doc.findings)
          /\ Len(doc.findings) <= MaxFindings
      BY <1>2, <2>2, <2>5, Zenon
    <2> QED
      BY <2>4, <2>5, <2>6 DEF doc
  <1>3. CASE Len(found) > MaxFindings
    <2> DEFINE front == SubSeq(found, 1, MaxFindings)
    <2>1. doc = [status |-> "ok", findings |-> front, truncated |-> TRUE]
      BY <1>1, <1>3 DEF Report
    <2> HIDE DEF doc, front
    <2>2. doc.status = "ok" /\ doc.findings = front /\ doc.truncated = TRUE
      BY <2>1
    <2>3. /\ front \in Seq(Findings) /\ Len(front) = MaxFindings
          /\ \A n \in 1..MaxFindings : n \in 1..Len(found) /\ front[n] = found[n]
      BY <1>1, <1>3, SubSeqProperties DEF front
    <2>4. Ordered(front)
      BY <1>1, <2>3 DEF Ordered
    <2>5. ASSUME NEW x \in Findings
          PROVE  /\ Count(x, front) <= Count(x, found)
                 /\ Count(x, front) < Count(x, found)
                      <=> \E n \in 1..Len(found) : n > MaxFindings /\ found[n] = x
      <3> DEFINE part == {n \in 1..MaxFindings : front[n] = x}
                 all == {n \in 1..Len(found) : found[n] = x}
      <3>1. IsFiniteSet(1..Len(found)) /\ all \subseteq 1..Len(found)
        BY <1>1, FS_Interval
      <3>2. IsFiniteSet(all)
        BY <3>1, FS_Subset
      <3>3. part \subseteq all
        BY <2>3
      <3>4. part # all <=> \E n \in 1..Len(found) : n > MaxFindings /\ found[n] = x
        <4>1. ASSUME NEW n \in 1..Len(found), n > MaxFindings, found[n] = x PROVE part # all
          <5>1. n \in all /\ n \notin part
            BY <1>1, <4>1
          <5> QED
            BY <5>1
        <4>2. ASSUME part # all PROVE \E n \in 1..Len(found) : n > MaxFindings /\ found[n] = x
          <5>1. PICK n \in all : n \notin part
            BY <3>3, <4>2
          <5>2. ~(n \in 1..MaxFindings)
            BY <2>3, <5>1
          <5> QED
            BY <1>1, <5>1, <5>2
        <4> QED
          BY <4>1, <4>2
      <3>5. Count(x, front) = Cardinality(part) /\ Count(x, found) = Cardinality(all)
        BY <2>3 DEF Count
      <3> HIDE DEF part, all
      <3>6. /\ IsFiniteSet(part) /\ Cardinality(part) <= Cardinality(all)
            /\ Cardinality(all) = Cardinality(part) => all = part
        BY <3>2, <3>3, FS_Subset
      <3>7. Cardinality(part) \in Nat /\ Cardinality(all) \in Nat
        BY <3>2, <3>6, FS_CardinalityType
      <3>8. Cardinality(part) < Cardinality(all) <=> part # all
        BY <3>6, <3>7
      <3> QED
        BY <3>4, <3>5, <3>6, <3>8
    <2>6. \E x \in Findings : Count(x, front) < Count(x, found)
      <3>1. MaxFindings + 1 \in 1..Len(found) /\ MaxFindings + 1 > MaxFindings
        BY <1>1, <1>3
      <3>2. found[MaxFindings + 1] \in Findings
        BY <1>1, <3>1
      <3> QED
        BY <2>5, <3>1, <3>2
    <2>7. ASSUME NEW x \in Findings, NEW y \in Elements(front), Count(x, front) < Count(x, found)
          PROVE  Rank(x) <= Rank(y)
      <3>1. PICK n \in 1..Len(found) : n > MaxFindings /\ found[n] = x
        BY <2>5, <2>7
      <3>2. PICK m \in 1..MaxFindings : y = found[m]
        BY <2>3 DEF Elements
      <3>3. m \in 1..Len(found) /\ m < n
        BY <1>1, <2>3, <3>1, <3>2
      <3>4. ~Before(x, y) /\ x \in Findings /\ y \in Findings
        BY <1>1, <3>1, <3>2, <3>3 DEF Ordered
      <3>5. Rank(x) \in Nat /\ Rank(y) \in Nat
        BY <3>4, FindingType
      <3> QED
        BY <3>4, <3>5 DEF Before
    <2>8. /\ doc.status = "ok" /\ doc.truncated \in BOOLEAN
          /\ doc.findings \in Seq(Findings) /\ Ordered(doc.findings)
          /\ Len(doc.findings) <= MaxFindings
      <3>1. doc.truncated \in BOOLEAN
        BY <2>2
      <3>2. Len(front) <= MaxFindings
        BY <1>1, <2>3
      <3> QED
        BY <2>2, <2>3, <2>4, <3>1, <3>2, Zenon
    <2>9. doc.truncated
      BY <2>2
    <2>10. /\ \A x \in Findings : Count(x, doc.findings) <= Count(x, found)
           /\ \E x \in Findings : Count(x, doc.findings) < Count(x, found)
           /\ \A x \in Findings, y \in Elements(doc.findings) :
                Count(x, doc.findings) < Count(x, found) => Rank(x) <= Rank(y)
      BY <2>2, <2>5, <2>6, <2>7
    <2> QED
      BY <2>8, <2>9, <2>10 DEF doc
  <1> QED
    BY <1>1, <1>2, <1>3

(* What the worker reports of the findings the standard maps.              *)
LEMMA DocumentReports ==
  ASSUME raw \in Seq(Findings)
  PROVE  LET doc == Report(Sorted(Matching))
             left == {x \in Elements(raw) :
                        Rules[x.rule].mapped /\ Count(x, doc.findings) < Count(x, raw)}
         IN  /\ doc.status = "ok" /\ doc.truncated \in BOOLEAN
             /\ doc.findings \in Seq(Findings) /\ Ordered(doc.findings)
             /\ Len(doc.findings) <= MaxFindings
             /\ \A x \in Elements(doc.findings) :
                  x \in Elements(raw) /\ Rules[x.rule].mapped /\ Count(x, doc.findings) <= Count(x, raw)
             /\ doc.truncated <=> left # {}
             /\ \A x \in left, y \in Elements(doc.findings) : Rank(x) <= Rank(y)
  <1> DEFINE doc == Report(Sorted(Matching))
             kept == Sorted(Matching)
             left == {x \in Elements(raw) :
                        Rules[x.rule].mapped /\ Count(x, doc.findings) < Count(x, raw)}
  <1>1. /\ Matching \in Seq(Findings)
        /\ \A y \in Findings :
             Count(y, Matching) = IF Rules[y.rule].mapped THEN Count(y, raw) ELSE 0
    BY MatchingIsKept
  <1>2. /\ kept \in Seq(Findings) /\ Ordered(kept)
        /\ \A y \in Findings : Count(y, kept) = Count(y, Matching)
    BY <1>1, SortedIsOrdered
  <1> HIDE DEF kept
  <1>3. /\ doc.status = "ok" /\ doc.truncated \in BOOLEAN
        /\ doc.findings \in Seq(Findings) /\ Ordered(doc.findings)
        /\ Len(doc.findings) <= MaxFindings
    BY <1>2, ReportTells DEF kept
  <1>4. /\ \A x \in Findings : Count(x, doc.findings) <= Count(x, kept)
        /\ doc.truncated <=> \E x \in Findings : Count(x, doc.findings) < Count(x, kept)
        /\ \A x \in Findings, y \in Elements(doc.findings) :
             Count(x, doc.findings) < Count(x, kept) => Rank(x) <= Rank(y)
    BY <1>2, ReportTells DEF kept
  <1> HIDE DEF doc
  <1>5. \A x \in Findings : /\ Count(x, doc.findings) \in Nat /\ Count(x, raw) \in Nat
                            /\ Count(x, doc.findings) = 0 <=> x \notin Elements(doc.findings)
                            /\ Count(x, raw) = 0 <=> x \notin Elements(raw)
    BY <1>3, CountType
  <1>6. \A x \in Findings : Count(x, kept) = IF Rules[x.rule].mapped THEN Count(x, raw) ELSE 0
    BY <1>1, <1>2
  <1>7. Elements(doc.findings) \subseteq Findings /\ Elements(raw) \subseteq Findings
    <2>1. /\ \A n \in 1..Len(doc.findings) : doc.findings[n] \in Findings
          /\ \A n \in 1..Len(raw) : raw[n] \in Findings
      BY <1>3
    <2> QED
      BY <2>1 DEF Elements
  <1>8. \A x \in Elements(doc.findings) :
          x \in Elements(raw) /\ Rules[x.rule].mapped /\ Count(x, doc.findings) <= Count(x, raw)
    BY <1>4, <1>5, <1>6, <1>7
  <1>9. \A x \in Findings : x \in left <=> Count(x, doc.findings) < Count(x, kept)
    BY <1>5, <1>6
  <1>10. left \subseteq Findings
    BY <1>7
  <1> HIDE DEF left
  <1>11. (\E x \in Findings : Count(x, doc.findings) < Count(x, kept)) <=> left # {}
    BY <1>9, <1>10
  <1>12. doc.truncated <=> left # {}
    BY <1>4, <1>11, Zenon
  <1>13. \A x \in left, y \in Elements(doc.findings) : Rank(x) <= Rank(y)
    BY <1>4, <1>9, <1>10
  <1> QED
    BY <1>3, <1>8, <1>12, <1>13, Zenon DEF doc, left, kept

(* What was not evaluated is a set of files and scopes.                    *)
LEMMA UnevaluatedType == Unevaluated \subseteq Files \X Scopes
  BY DEF Unevaluated, Scopes

-----------------------------------------------------------------------------
(* The invariant.                                                          *)

LEMMA InitHolds == Init => IInv
  <1> SUFFICES ASSUME Init PROVE IInv
    OBVIOUS
  <1> USE DEF Init
  <1>1. Len(CHECKS) = 4 /\ FileCount \in Nat
    BY ScanWorkerAssumption DEF CHECKS
  <1>2. NoDocument.status = "absent" /\ NoDocument.findings = <<>> /\ NoDocument.truncated = FALSE
    BY DEF NoDocument
  <1>3. NoResponse.verdict = "none" /\ NoResponse.findings = <<>>
        /\ NoResponse.truncated = FALSE /\ NoResponse.unevaluated = {}
    BY DEF NoResponse
  <1>4. TypeOK
    <2>1. <<>> \in Seq(Findings) /\ FALSE \in BOOLEAN /\ {} \subseteq Files \X Scopes
      OBVIOUS
    <2>2. document.status = "absent" /\ document.findings = <<>> /\ document.truncated = FALSE
      BY <1>2
    <2>3. response.verdict = "none" /\ response.findings = <<>>
          /\ response.truncated = FALSE /\ response.unevaluated = {}
      BY <1>3
    <2>4. file \in 1..FileCount + 1 /\ check \in 1..Len(CHECKS)
      BY <1>1
    <2> QED
      BY <2>1, <2>2, <2>3, <2>4, Zenon DEF TypeOK
  <1>5. ~ \E k \in 1..4, f \in Files : Passed(k, f)
    BY <1>1 DEF Passed, Files
  <1>6. FoundByPlace
    <2>1. \A f \in Files : ~Passed(2, f)
      BY <1>5
    <2> QED
      BY <2>1 DEF FoundByPlace
  <1>7. ExaminedByPlace
    BY <1>1, <1>5 DEF ExaminedByPlace
  <1>8. DocumentTells /\ ResponseTells
    BY <1>2 DEF DocumentTells, ResponseTells
  <1> QED
    BY <1>4, <1>6, <1>7, <1>8 DEF IInv

LEMMA RawFindings ==
  ASSUME raw \in Seq(Findings)
  PROVE  \A n \in 1..Len(raw) : raw[n] \in Findings /\ raw[n].path \in Files
  <1>1. \A n \in 1..Len(raw) : raw[n] \in Findings
    OBVIOUS
  <1> QED
    BY <1>1 DEF Findings

(* Skipping a file: no check of it has begun.                              *)
LEMMA SkipFileStep == IInv /\ SkipFile => IInv'
  <1> SUFFICES ASSUME IInv, SkipFile PROVE IInv'
    OBVIOUS
  <1> USE DEF IInv
  <1>1. /\ phase = "checking" /\ file \in Files /\ kind[file].long /\ check = 1
        /\ file' = file + 1
        /\ UNCHANGED <<kind, phase, check, raw, examined, document, response>>
    BY DEF SkipFile, AtFile, FoundByPlace
  <1>2. Len(CHECKS) = 4 /\ FileCount \in Nat /\ file \in 1..FileCount /\ file' \in 1..FileCount + 1
    BY <1>1, ScanWorkerAssumption DEF CHECKS, Files
  <1>3. TypeOK'
    BY <1>1, <1>2 DEF TypeOK
  <1>4. \A k \in 1..Len(CHECKS), f \in Files : Passed(k, f)' <=> Passed(k, f) \/ f = file
    BY <1>1, <1>2 DEF Passed, Files
  <1>5. FoundByPlace'
    <2>1. \A f \in Files : LockfileBeside(f)' <=> LockfileBeside(f)
      BY <1>1 DEF LockfileBeside
    <2>2. \A n \in 1..Len(raw) : raw[n].path \in Files
      BY RawFindings DEF TypeOK
    <2>3. \A n \in 1..Len(raw') :
            raw'[n].rule = MissingLockfile /\ kind'[raw'[n].path].name = "package.json"
              => ~LockfileBeside(raw[n].path)'
      BY <1>1, <2>1, <2>2 DEF FoundByPlace
    <2>4. \A f \in Files :
            Passed(2, f)' /\ ~kind'[f].long /\ kind'[f].name = "package.json" =>
              /\ kind'[f].body # "no_object"
              /\ kind'[f].body = "dependencies" /\ ~LockfileBeside(f)'
                   => Finding(MissingLockfile, f, 0) \in Elements(raw')
      <3>1. \A f \in Files : Passed(2, f)' /\ ~kind[f].long => Passed(2, f)
        BY <1>1, <1>2, <1>4
      <3> QED
        BY <1>1, <2>1, <3>1 DEF FoundByPlace
    <2> QED
      BY <1>1, <2>3, <2>4 DEF FoundByPlace
  <1>6. ExaminedByPlace'
    <2>1. ASSUME NEW x \in Files \X Scopes
          PROVE  (/\ ~kind[x[1]].long
                  /\ \E k \in 1..Len(CHECKS) : Passed(k, x[1]) /\ x \in Looks(k, x[1]))
                 <=> (/\ ~kind'[x[1]].long
                      /\ \E k \in 1..Len(CHECKS) : Passed(k, x[1])' /\ x \in Looks(k, x[1])')
      <3>1. x[1] \in Files
        OBVIOUS
      <3>2. \A k \in 1..Len(CHECKS) : Looks(k, x[1])' = Looks(k, x[1])
        BY <1>1 DEF Looks
      <3> QED
        BY <1>1, <1>4, <3>1, <3>2
    <2> QED
      BY <1>1, <2>1 DEF ExaminedByPlace
  <1>7. DocumentTells' /\ ResponseTells'
    BY <1>1 DEF DocumentTells, ResponseTells, NoDocument
  <1> QED
    BY <1>3, <1>5, <1>6, <1>7

(* Running a check: what it finds and looks at is new, and the place moves *)
(* on to the next check or the next file.                                  *)
LEMMA RunCheckStep == IInv /\ RunCheck => IInv'
  <1> SUFFICES ASSUME IInv, RunCheck PROVE IInv'
    OBVIOUS
  <1> USE DEF IInv
  <1>1. PICK found \in Outcomes(check, file) : raw' = raw \o found
    BY DEF RunCheck
  <1>2. /\ phase = "checking" /\ file \in Files /\ ~kind[file].long
        /\ examined' = examined \cup Looks(check, file)
        /\ IF check < Len(CHECKS) THEN check' = check + 1 /\ file' = file
                                  ELSE check' = 1 /\ file' = file + 1
        /\ UNCHANGED <<kind, phase, document, response>>
    BY DEF RunCheck, AtFile
  <1>3. /\ Len(CHECKS) = 4 /\ FileCount \in Nat /\ file \in 1..FileCount
        /\ file' \in 1..FileCount + 1 /\ check \in 1..4 /\ check' \in 1..4
        /\ check' # 1 => file' = file
    BY <1>2, ScanWorkerAssumption DEF CHECKS, Files, TypeOK
  <1>4. \A k \in 1..Len(CHECKS), f \in Files :
          Passed(k, f)' <=> Passed(k, f) \/ (k = check /\ f = file)
    BY <1>2, <1>3 DEF Passed, Files
  <1>5. ~Passed(check, file)
    BY <1>3 DEF Passed
  <1>6. /\ raw \in Seq(Findings) /\ kind \in [Files -> Kinds]
        /\ \A n \in 1..Len(raw) : raw[n] \in Findings /\ raw[n].path \in Files
    BY RawFindings DEF TypeOK
  <1>7. /\ found \in Seq(Findings)
        /\ \A n \in 1..Len(found) :
             /\ found[n].path = file
             /\ found[n].rule = MissingLockfile /\ kind[file].name = "package.json"
                  => ~LockfileBeside(file)
    BY <1>1, <1>2, <1>3, <1>6, OutcomeTells
  <1>8. /\ raw' \in Seq(Findings)
        /\ Elements(raw) \subseteq Elements(raw') /\ Elements(found) \subseteq Elements(raw')
    BY <1>1, <1>6, <1>7, JoinedLists
  <1>9. \A n \in 1..Len(raw') :
          \/ n \in 1..Len(raw) /\ raw'[n] = raw[n]
          \/ n - Len(raw) \in 1..Len(found) /\ raw'[n] = found[n - Len(raw)]
    BY <1>1, <1>6, <1>7, JoinedLists
  <1>10. Looks(check, file) \subseteq Files \X Scopes
    BY <1>2, <1>3, LooksAtFile
  <1>11. TypeOK'
    BY <1>2, <1>3, <1>8, <1>10 DEF TypeOK
  <1>12. FoundByPlace'
    <2>1. \A f \in Files : LockfileBeside(f)' <=> LockfileBeside(f)
      BY <1>2 DEF LockfileBeside
    <2>2. ASSUME NEW n \in 1..Len(raw'),
                 raw'[n].rule = MissingLockfile, kind'[raw'[n].path].name = "package.json"
          PROVE  ~LockfileBeside(raw[n].path)'
      <3>1. CASE n \in 1..Len(raw) /\ raw'[n] = raw[n]
        <4>1. raw[n].path \in Files /\ ~LockfileBeside(raw[n].path)
          BY <1>2, <1>6, <2>2, <3>1 DEF FoundByPlace
        <4> QED
          BY <2>1, <3>1, <4>1
      <3>2. CASE n - Len(raw) \in 1..Len(found) /\ raw'[n] = found[n - Len(raw)]
        <4>1. raw'[n].path = file /\ ~LockfileBeside(file)
          BY <1>2, <1>7, <2>2, <3>2
        <4> QED
          BY <1>2, <2>1, <4>1
      <3> QED
        BY <1>9, <3>1, <3>2
    <2>3. check' # 1 => file' \in Files /\ ~kind'[file'].long
      BY <1>2, <1>3
    <2>4. ASSUME NEW f \in Files, Passed(2, f)', ~kind'[f].long, kind'[f].name = "package.json"
          PROVE  /\ kind'[f].body # "no_object"
                 /\ kind'[f].body = "dependencies" /\ ~LockfileBeside(f)'
                      => Finding(MissingLockfile, f, 0) \in Elements(raw')
      <3>1. Passed(2, f) \/ (check = 2 /\ f = file)
        <4>1. 2 \in 1..Len(CHECKS)
          BY <1>3
        <4> QED
          BY <1>4, <2>4, <4>1
      <3>2. CASE Passed(2, f)
        BY <1>2, <1>8, <2>1, <2>4, <3>2 DEF FoundByPlace
      <3>3. CASE check = 2 /\ f = file
        <4>1. found \in Outcomes(2, f) /\ kind[f].name = "package.json"
          BY <1>1, <1>2, <2>4, <3>3
        <4>2. /\ kind[f].body # "no_object"
              /\ kind[f].body = "dependencies" /\ ~LockfileBeside(f)
                   => Finding(MissingLockfile, f, 0) \in Elements(found)
          BY <1>6, <4>1, PackageJsonTells
        <4> QED
          BY <1>2, <1>8, <2>1, <4>2
      <3> QED
        BY <3>1, <3>2, <3>3
    <2> QED
      BY <2>2, <2>3, <2>4, Zenon DEF FoundByPlace
  <1>13. ExaminedByPlace'
    <2>1. ASSUME NEW x \in Files \X Scopes
          PROVE  (/\ ~kind'[x[1]].long
                  /\ \E k \in 1..Len(CHECKS) : Passed(k, x[1])' /\ x \in Looks(k, x[1])')
                 <=> \/ /\ ~kind[x[1]].long
                        /\ \E k \in 1..Len(CHECKS) : Passed(k, x[1]) /\ x \in Looks(k, x[1])
                     \/ x \in Looks(check, file)
      <3>1. x[1] \in Files
        OBVIOUS
      <3>2. \A k \in 1..Len(CHECKS) : Looks(k, x[1])' = Looks(k, x[1])
        BY <1>2 DEF Looks
      <3>3. x \in Looks(check, file) => x[1] = file
        BY <1>2, <1>3, LooksAtFile
      <3> QED
        BY <1>2, <1>3, <1>4, <3>1, <3>2, <3>3
    <2> QED
      BY <1>2, <1>10, <2>1 DEF ExaminedByPlace
  <1>14. DocumentTells' /\ ResponseTells'
    BY <1>2 DEF DocumentTells, ResponseTells, NoDocument
  <1> QED
    BY <1>11, <1>12, <1>13, <1>14

(* What the loops have left behind stays, when they do not move.           *)
LEMMA PlacesStand ==
  ASSUME IInv, UNCHANGED <<kind, file, check, raw, examined>>
  PROVE  FoundByPlace' /\ ExaminedByPlace'
  <1>1. \A k \in 1..Len(CHECKS), f \in Files : Looks(k, f)' = Looks(k, f)
    BY DEF Looks
  <1>2. \A x \in Files \X Scopes : x[1] \in Files
    OBVIOUS
  <1>3. ExaminedByPlace'
    BY <1>1, <1>2 DEF IInv, ExaminedByPlace, Passed
  <1>4. FoundByPlace'
    BY DEF IInv, FoundByPlace, Passed, LockfileBeside
  <1> QED
    BY <1>3, <1>4

(* The worker gives up: the document says so and holds no findings.        *)
LEMMA FailsStep == IInv /\ phase = "checking" /\ Fails => IInv'
  <1> SUFFICES ASSUME IInv, phase = "checking", Fails PROVE IInv'
    OBVIOUS
  <1>1. /\ phase' = "exited" /\ document' = [NoDocument EXCEPT !.status = "error"]
        /\ UNCHANGED <<kind, file, check, raw, examined, response>>
    BY DEF Fails
  <1>2. document' = [status |-> "error", findings |-> <<>>, truncated |-> FALSE]
    BY <1>1 DEF NoDocument
  <1>3. document'.status = "error" /\ document'.findings = <<>> /\ document'.truncated = FALSE
    BY <1>2
  <1>4. TypeOK'
    <2>1. <<>> \in Seq(Findings) /\ FALSE \in BOOLEAN
      OBVIOUS
    <2> QED
      BY <1>1, <1>3, <2>1, Zenon DEF IInv, TypeOK
  <1>5. DocumentTells' /\ ResponseTells'
    BY <1>1, <1>3 DEF IInv, DocumentTells, ResponseTells
  <1> QED
    BY <1>1, <1>4, <1>5, PlacesStand DEF IInv

(* The worker writes its result, or that it is too large.                  *)
LEMMA WriteResultStep == IInv /\ WriteResult => IInv'
  <1> SUFFICES ASSUME IInv, WriteResult PROVE IInv'
    OBVIOUS
  <1> DEFINE doc == Report(Sorted(Matching))
  <1>1. /\ phase = "checking" /\ file = FileCount + 1 /\ phase' = "exited"
        /\ document' \in Encoded(doc)
        /\ UNCHANGED <<kind, file, check, raw, examined, response>>
    BY DEF WriteResult
  <1>2. raw \in Seq(Findings)
    BY DEF IInv, TypeOK
  <1>3. doc.status = "ok" /\ doc.truncated \in BOOLEAN /\ doc.findings \in Seq(Findings)
    BY <1>2, DocumentReports
  <1>4. document' = doc \/ document' = [NoDocument EXCEPT !.status = "result_invalid"]
    BY <1>1 DEF Encoded
  <1>5. Report(Sorted(Matching))' = doc
    BY <1>1 DEF Matching
  <1> HIDE DEF doc
  <1>6. CASE document' = doc
    <2>1. document'.status = "ok" /\ document'.truncated \in BOOLEAN
          /\ document'.findings \in Seq(Findings)
      BY <1>3, <1>6
    <2>2. TypeOK'
      BY <1>1, <2>1, Zenon DEF IInv, TypeOK
    <2>3. DocumentTells'
      BY <1>1, <1>5, <1>6 DEF DocumentTells
    <2>4. ResponseTells'
      BY <1>1 DEF IInv, ResponseTells
    <2> QED
      BY <1>1, <2>2, <2>3, <2>4, PlacesStand DEF IInv
  <1>7. CASE document' = [NoDocument EXCEPT !.status = "result_invalid"]
    <2>1. document' = [status |-> "result_invalid", findings |-> <<>>, truncated |-> FALSE]
      BY <1>7 DEF NoDocument
    <2>2. document'.status = "result_invalid" /\ document'.findings = <<>>
          /\ document'.truncated = FALSE
      BY <2>1
    <2>3. <<>> \in Seq(Findings) /\ FALSE \in BOOLEAN
      OBVIOUS
    <2>4. TypeOK'
      BY <1>1, <2>2, <2>3, Zenon DEF IInv, TypeOK
    <2>5. DocumentTells' /\ ResponseTells'
      BY <1>1, <2>2 DEF IInv, DocumentTells, ResponseTells
    <2> QED
      BY <1>1, <2>4, <2>5, PlacesStand DEF IInv
  <1> QED
    BY <1>4, <1>6, <1>7

(* The server answers from the document alone and the request's names.     *)
LEMMA RespondStep == IInv /\ Respond => IInv'
  <1> SUFFICES ASSUME IInv, Respond PROVE IInv'
    OBVIOUS
  <1>1. /\ phase = "exited" /\ phase' = "answered"
        /\ UNCHANGED <<kind, file, check, raw, examined, document>>
    BY DEF Respond
  <1>2. Verdict' = Verdict /\ Unevaluated' = Unevaluated /\ Matching' = Matching
    BY <1>1 DEF Verdict, Unevaluated, Matching
  <1>3. document.findings \in Seq(Findings) /\ document.truncated \in BOOLEAN
        /\ Verdict \in {"completed", "scanner_error", "result_invalid"}
    BY DEF IInv, TypeOK, Verdict
  <1>4. DocumentTells'
    BY <1>1, <1>2 DEF IInv, DocumentTells
  <1>5. CASE Verdict = "completed"
    <2>1. response' = [verdict |-> Verdict, findings |-> document.findings,
                       truncated |-> document.truncated, unevaluated |-> Unevaluated]
      BY <1>5 DEF Respond
    <2>2. response'.verdict = Verdict /\ response'.findings = document.findings
          /\ response'.truncated = document.truncated /\ response'.unevaluated = Unevaluated
      BY <2>1
    <2>3. TypeOK'
      BY <1>1, <1>3, <2>2, UnevaluatedType, Zenon DEF IInv, TypeOK
    <2>4. ResponseTells'
      BY <1>1, <1>2, <1>5, <2>2 DEF ResponseTells
    <2> QED
      BY <1>1, <1>4, <2>3, <2>4, PlacesStand DEF IInv
  <1>6. CASE Verdict # "completed"
    <2>1. response' = [NoResponse EXCEPT !.verdict = Verdict]
      BY <1>6 DEF Respond
    <2>2. response' = [verdict |-> Verdict, findings |-> <<>>, truncated |-> FALSE, unevaluated |-> {}]
      BY <2>1 DEF NoResponse
    <2>3. response'.verdict = Verdict /\ response'.findings = <<>>
          /\ response'.truncated = FALSE /\ response'.unevaluated = {}
      BY <2>2
    <2>4. <<>> \in Seq(Findings) /\ FALSE \in BOOLEAN /\ {} \subseteq Files \X Scopes
      OBVIOUS
    <2>5. TypeOK'
      BY <1>1, <1>3, <2>3, <2>4, Zenon DEF IInv, TypeOK
    <2>6. ResponseTells'
      BY <1>1, <1>2, <1>6, <2>3 DEF ResponseTells
    <2> QED
      BY <1>1, <1>4, <2>5, <2>6, PlacesStand DEF IInv
  <1> QED
    BY <1>5, <1>6

(* IInv holds initially and every step keeps it.                           *)
THEOREM Inductive == Spec => []IInv
  <1>1. Init => IInv
    BY InitHolds
  <1>2. IInv /\ [Next]_vars => IInv'
    <2> SUFFICES ASSUME IInv, [Next]_vars PROVE IInv'
      OBVIOUS
    <2>1. CASE SkipFile
      BY <2>1, SkipFileStep
    <2>2. CASE RunCheck
      BY <2>2, RunCheckStep
    <2>3. CASE CheckRaises
      BY <2>3, FailsStep DEF CheckRaises, AtFile
    <2>4. CASE RedactionRaises
      BY <2>4, FailsStep DEF RedactionRaises
    <2>5. CASE WriteResult
      BY <2>5, WriteResultStep
    <2>6. CASE Respond
      BY <2>6, RespondStep
    <2>7. CASE UNCHANGED vars
      <3>1. Matching' = Matching /\ Verdict' = Verdict /\ Unevaluated' = Unevaluated
        BY <2>7 DEF vars, Matching, Verdict, Unevaluated
      <3>2. TypeOK'
        BY <2>7 DEF vars, IInv, TypeOK
      <3>3. DocumentTells' /\ ResponseTells'
        BY <2>7, <3>1 DEF vars, IInv, DocumentTells, ResponseTells
      <3> QED
        BY <2>7, <3>2, <3>3, PlacesStand DEF vars, IInv
    <2> QED
      BY <2>1, <2>2, <2>3, <2>4, <2>5, <2>6, <2>7 DEF Next, Answered
  <1> QED
    BY <1>1, <1>2, PTL DEF Spec

(* Every variable keeps to the values the code can give it.                *)
THEOREM Typing == Spec => []TypeOK
  BY Inductive, PTL DEF IInv

-----------------------------------------------------------------------------
(* What the invariant means.                                               *)

(* The document of a worker that succeeded holds findings in order.        *)
LEMMA DocumentIsAccepted ==
  ASSUME IInv, document.status = "ok"
  PROVE  Accepted(document)
  <1> DEFINE found == document.findings
  <1>1. raw \in Seq(Findings) /\ document = Report(Sorted(Matching))
    BY DEF IInv, TypeOK, DocumentTells
  <1>2. found \in Seq(Findings) /\ Ordered(found) /\ Len(found) <= MaxFindings
    BY <1>1, DocumentReports
  <1> HIDE DEF found
  <1>3. Len(found) \in Nat /\ \A n \in 1..Len(found) : found[n] \in Findings
    BY <1>2
  <1>4. \A n \in 1..Len(found) : found[n].path \in Files
    BY <1>3, FindingType
  <1>5. \A n \in 1..Len(found) - 1 : ~Before(found[n + 1], found[n])
    BY <1>2, <1>3 DEF Ordered
  <1> QED
    BY <1>2, <1>4, <1>5 DEF Accepted, found

(* The worker and the server agree on limit, paths and order: whatever the *)
(* worker reports as its result, _read_worker_result takes.                *)
THEOREM ServerTakesResults == Spec => []AcceptedByServer
  <1>1. IInv => AcceptedByServer
    <2> SUFFICES ASSUME IInv, phase = "answered", document.status = "ok"
                 PROVE  response.verdict = "completed"
      BY DEF AcceptedByServer
    <2>1. response.verdict = Verdict
      BY DEF IInv, ResponseTells
    <2> QED
      BY <2>1, DocumentIsAccepted DEF Verdict
  <1> QED
    BY <1>1, Inductive, PTL

(* A completed response rests on a result: every loop has ended, and what  *)
(* it shows is the front of the sorted findings that the standard maps.    *)
LEMMA CompletedTells ==
  ASSUME IInv, response.verdict = "completed"
  PROVE  /\ file = FileCount + 1 /\ check = 1
         /\ response.findings = Report(Sorted(Matching)).findings
         /\ response.truncated = Report(Sorted(Matching)).truncated
         /\ response.unevaluated = Unevaluated
         /\ raw \in Seq(Findings)
  <1>1. phase = "answered"
    BY DEF IInv, ResponseTells, NoResponse
  <1>2. Verdict = "completed"
    BY <1>1 DEF IInv, ResponseTells
  <1>3. document.status = "ok"
    BY <1>2 DEF Verdict, Accepted
  <1>4. file = FileCount + 1 /\ document = Report(Sorted(Matching))
    BY <1>3 DEF IInv, DocumentTells
  <1>5. /\ response.findings = document.findings /\ response.truncated = document.truncated
        /\ response.unevaluated = Unevaluated
    BY <1>1, <1>2 DEF IInv, ResponseTells
  <1>6. check = 1
    BY <1>4, ScanWorkerAssumption DEF IInv, FoundByPlace, Files
  <1>7. raw \in Seq(Findings)
    BY DEF IInv, TypeOK
  <1> QED
    BY <1>4, <1>5, <1>6, <1>7

(* A completed response shows findings of the mapped rules only, each at   *)
(* most as often as it was found; it says when it shows one less often     *)
(* than that, and no such one is more severe than one it shows.            *)
THEOREM TruncationIsDeclared == Spec => []NothingDroppedSilently
  <1>1. IInv => NothingDroppedSilently
    <2> SUFFICES ASSUME IInv, response.verdict = "completed"
                 PROVE  LET shown   == response.findings
                            omitted == {x \in Elements(raw) :
                                          Rules[x.rule].mapped /\ Count(x, shown) < Count(x, raw)}
                        IN  /\ \A x \in Elements(shown) :
                                 Rules[x.rule].mapped /\ Count(x, shown) <= Count(x, raw)
                            /\ response.truncated <=> omitted # {}
                            /\ \A x \in omitted, y \in Elements(shown) : Rank(x) <= Rank(y)
      BY Zenon DEF NothingDroppedSilently
    <2>1. /\ response.findings = Report(Sorted(Matching)).findings
          /\ response.truncated = Report(Sorted(Matching)).truncated
          /\ raw \in Seq(Findings)
      BY CompletedTells
    <2> QED
      BY <2>1, DocumentReports
  <1> QED
    BY <1>1, Inductive, PTL

(* A check that raised fails the scan.                                     *)
LEMMA RaisingFails ==
  ASSUME IInv, response.verdict = "completed"
  PROVE  ~SomeCheckRaises
  <1> SUFFICES ASSUME NEW f \in Files, ~kind[f].long, kind[f].name = "package.json"
               PROVE  kind[f].body # "no_object"
    BY DEF SomeCheckRaises
  <1>1. Passed(2, f)
    BY CompletedTells, ScanWorkerAssumption DEF Passed, Files
  <1> QED
    BY <1>1 DEF IInv, FoundByPlace

(* No check raised, and unevaluated_files is the exact complement of what  *)
(* the checks looked at.                                                   *)
THEOREM UncheckedIsDeclared == Spec => []UncheckedDeclared
  <1>1. IInv => UncheckedDeclared
    <2> SUFFICES ASSUME IInv, response.verdict = "completed",
                        NEW f \in Files, NEW s \in Scopes \ {"all_checks"}
                 PROVE  <<f, s>> \in examined <=>
                          <<f, s>> \notin response.unevaluated /\ <<f, "all_checks">> \notin response.unevaluated
      BY RaisingFails DEF UncheckedDeclared
    <2>1. file = FileCount + 1 /\ response.unevaluated = Unevaluated
      BY CompletedTells
    <2>2. s \in {"secrets", "configuration_text", "code"} /\ <<f, s>> \in Files \X Scopes
          /\ <<f, s>>[1] = f /\ <<f, s>>[2] = s
      BY DEF Scopes
    <2>3. \A k \in 1..Len(CHECKS) : Passed(k, f)
      BY <2>1, ScanWorkerAssumption DEF Passed, Files
    <2>4. <<f, s>> \in examined <=> ~kind[f].long /\ \E k \in 1..Len(CHECKS) : <<f, s>> \in Looks(k, f)
      BY <2>2, <2>3 DEF IInv, ExaminedByPlace
    <2>5. (\E k \in 1..Len(CHECKS) : <<f, s>> \in Looks(k, f))
            <=> kind[f].text /\ (s = "code" => kind[f].code)
      <3>1. /\ 1..Len(CHECKS) = 1..4 /\ CHECKS[1] = "secrets" /\ CHECKS[2] = "dependencies"
            /\ CHECKS[3] = "configuration" /\ CHECKS[4] = "code"
        BY DEF CHECKS
      <3>2. \A k \in 1..4 : k = 1 \/ k = 2 \/ k = 3 \/ k = 4
        OBVIOUS
      <3>3. <<f, s>> \in Looks(1, f) <=> kind[f].text /\ s = "secrets"
        BY <3>1 DEF Looks
      <3>4. <<f, s>> \notin Looks(2, f)
        BY <3>1 DEF Looks
      <3>5. <<f, s>> \in Looks(3, f) <=> kind[f].text /\ s = "configuration_text"
        BY <3>1 DEF Looks
      <3>6. <<f, s>> \in Looks(4, f) <=> kind[f].text /\ kind[f].code /\ s = "code"
        BY <3>1 DEF Looks
      <3> QED
        BY <2>2, <3>1, <3>2, <3>3, <3>4, <3>5, <3>6
    <2>6. kind[f] \in Kinds /\ (kind[f].code => kind[f].text)
      BY ScanWorkerAssumption DEF IInv, TypeOK
    <2>7. <<f, "all_checks">> \in Unevaluated <=> kind[f].long
      BY DEF Unevaluated, Scopes
    <2>8. <<f, s>> \in Unevaluated
            <=> ~kind[f].long /\ (~kind[f].text \/ (kind[f].text /\ ~kind[f].code /\ s = "code"))
      BY <2>2 DEF Unevaluated, Scopes
    <2> QED
      BY <2>1, <2>2, <2>4, <2>5, <2>6, <2>7, <2>8
  <1> QED
    BY <1>1, Inductive, PTL

(* A lockfile in the same directory is seen, analyzed or not, and none in  *)
(* another directory; what there is not is reported.                       *)
THEOREM LockfileIsSeen == Spec => []LockfileSeen
  <1>1. IInv => LockfileSeen
    <2> SUFFICES ASSUME IInv, NEW f \in Files, kind[f].name = "package.json"
                 PROVE  LET missing == Finding(MissingLockfile, f, 0)
                            beside  == {g \in Files : kind[g].name = "lockfile" /\ kind[g].dir = kind[f].dir}
                        IN  /\ beside # {} => missing \notin Elements(response.findings)
                            /\ (/\ response.verdict = "completed"
                                /\ ~response.truncated
                                /\ Rules[MissingLockfile].mapped
                                /\ ~kind[f].long
                                /\ kind[f].body = "dependencies"
                                /\ beside = {})
                               => missing \in Elements(response.findings)
      BY Zenon DEF LockfileSeen
    <2> DEFINE missing == Finding(MissingLockfile, f, 0)
               beside == {g \in Files : kind[g].name = "lockfile" /\ kind[g].dir = kind[f].dir}
    <2>1. beside # {} <=> LockfileBeside(f)
      BY DEF LockfileBeside
    <2>2. missing.rule = MissingLockfile /\ missing.path = f /\ missing \in Findings
      BY ScanWorkerAssumption DEF Finding, Findings
    <2> HIDE DEF missing, beside
    <2>3. ASSUME missing \in Elements(response.findings) PROVE ~LockfileBeside(f)
      <3>1. response.verdict = "completed"
        <4>1. Len(<<>>) = 0 /\ Elements(<<>>) = {}
          BY DEF Elements
        <4> QED
          BY <2>3, <4>1 DEF IInv, ResponseTells, NoResponse
      <3>2. missing \in Elements(raw)
        BY <2>3, <3>1, CompletedTells, DocumentReports
      <3>3. PICK n \in 1..Len(raw) : raw[n] = missing
        BY <3>2 DEF Elements
      <3> QED
        BY <2>2, <3>3 DEF IInv, FoundByPlace
    <2>4. ASSUME response.verdict = "completed", ~response.truncated, Rules[MissingLockfile].mapped,
                 ~kind[f].long, kind[f].body = "dependencies", ~LockfileBeside(f)
          PROVE  missing \in Elements(response.findings)
      <3>1. Passed(2, f)
        BY <2>4, CompletedTells, ScanWorkerAssumption DEF Passed, Files
      <3>2. missing \in Elements(raw)
        BY <2>4, <3>1 DEF IInv, FoundByPlace, missing
      <3> DEFINE doc == Report(Sorted(Matching))
      <3>3. response.findings = doc.findings /\ response.truncated = doc.truncated /\ raw \in Seq(Findings)
        BY <2>4, CompletedTells
      <3>4. /\ doc.findings \in Seq(Findings)
            /\ doc.truncated <=> {x \in Elements(raw) :
                                    Rules[x.rule].mapped /\ Count(x, doc.findings) < Count(x, raw)} # {}
        BY <3>3, DocumentReports
      <3> HIDE DEF doc
      <3>5. ~(Count(missing, doc.findings) < Count(missing, raw))
        BY <2>2, <2>4, <3>2, <3>3, <3>4
      <3>6. /\ Count(missing, doc.findings) \in Nat /\ Count(missing, raw) \in Nat
            /\ Count(missing, doc.findings) = 0 <=> missing \notin Elements(doc.findings)
            /\ Count(missing, raw) = 0 <=> missing \notin Elements(raw)
        BY <3>3, <3>4, CountType
      <3>7. missing \in Elements(doc.findings)
        BY <3>2, <3>5, <3>6
      <3> QED
        BY <3>3, <3>7
    <2> QED
      BY <2>1, <2>3, <2>4 DEF missing, beside
  <1> QED
    BY <1>1, Inductive, PTL
=============================================================================
