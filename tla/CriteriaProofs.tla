--------------------------- MODULE CriteriaProofs ----------------------------
(* Theorems about Criteria for any standards, any catalogue and any limits.*)
EXTENDS Criteria, SequenceTheorems, FiniteSetTheorems, TLAPS

(* Whatever a comprehension of this module runs over.                      *)
Mapping  == UNION {UNION {ToSet(c[rule]) : rule \in DOMAIN c} : c \in Catalogues}
Anything == Mapping \cup Standards \cup GuidanceRules

Filters == INSTANCE FoldTheorems
  WITH Step <- Keep, Value <- Seq(Anything), Entry <- [item : Anything, wanted : BOOLEAN]

Places == INSTANCE FoldTheorems
  WITH Step <- TakeNew, Value <- Seq(Anything), Entry <- Anything

Elements(seq) == {seq[n] : n \in 1..Len(seq)}

Distinct(seq) == \A m, n \in 1..Len(seq) : m # n => seq[m] # seq[n]

-----------------------------------------------------------------------------
(* Lists.                                                                  *)

(* The members of a list, and that none is there twice.                    *)
LEMMA ListIsSet ==
  ASSUME NEW S, NEW seq \in Seq(S)
  PROVE  /\ Len(seq) \in Nat
         /\ \A n \in 1..Len(seq) : seq[n] \in S
         /\ ToSet(seq) = Elements(seq)
         /\ ToSet(seq) \subseteq S
         /\ IsInjective(seq) <=> Distinct(seq)
  <1>1. Len(seq) \in Nat /\ DOMAIN seq = 1..Len(seq) /\ \A n \in 1..Len(seq) : seq[n] \in S
    OBVIOUS
  <1> QED
    BY <1>1 DEF ToSet, IsInjective, Elements, Distinct

(* A list without repetitions is as long as it has members.                *)
LEMMA ListSize ==
  ASSUME NEW S, NEW seq \in Seq(S), IsInjective(seq)
  PROVE  IsFiniteSet(ToSet(seq)) /\ Cardinality(ToSet(seq)) = Len(seq)
  <1>1. Len(seq) \in Nat /\ seq \in [1..Len(seq) -> ToSet(seq)]
    BY LenProperties, ListIsSet DEF Elements
  <1>2. \A x \in ToSet(seq) : \E n \in 1..Len(seq) : seq[n] = x
    BY ListIsSet DEF Elements
  <1>3. ExistsBijection(1..Len(seq), ToSet(seq))
    BY <1>1, <1>2 DEF ExistsBijection, Bijection, Injection, Surjection
  <1>4. IsFiniteSet(1..Len(seq)) /\ Cardinality(1..Len(seq)) = Len(seq)
    BY <1>1, FS_Interval
  <1> QED
    BY <1>3, <1>4, FS_Bijection

(* The first n of a list.                                                  *)
LEMMA FirstTells ==
  ASSUME NEW S, NEW seq \in Seq(S), NEW n \in Nat
  PROVE  LET first == FirstOf(seq, n)
         IN  /\ first \in Seq(S)
             /\ Len(first) = IF Len(seq) < n THEN Len(seq) ELSE n
             /\ \A m \in 1..Len(first) : m \in 1..Len(seq) /\ first[m] = seq[m]
             /\ Len(seq) <= n => first = seq
             /\ ToSet(first) \subseteq ToSet(seq)
             /\ IsInjective(seq) => IsInjective(first)
  <1> DEFINE first == FirstOf(seq, n)
             k == IF Len(seq) < n THEN Len(seq) ELSE n
  <1>1. Len(seq) \in Nat /\ k \in Nat /\ k <= Len(seq) /\ \A m \in 1..Len(seq) : seq[m] \in S
    OBVIOUS
  <1>2. first = SubSeq(seq, 1, k)
    BY DEF FirstOf
  <1> HIDE DEF first
  <1>3. /\ first \in Seq(S) /\ Len(first) = k
        /\ \A m \in 1..k : m \in 1..Len(seq) /\ first[m] = seq[m]
    BY <1>1, <1>2, SubSeqProperties
  <1>4. Len(seq) <= n => first = seq
    <2> SUFFICES ASSUME Len(seq) <= n PROVE first = seq
      OBVIOUS
    <2>1. Len(first) = Len(seq)
      BY <1>1, <1>3
    <2> QED
      BY <1>3, <2>1, SeqEqual
  <1>5. ToSet(first) \subseteq ToSet(seq)
    BY <1>3, ListIsSet DEF Elements
  <1>6. IsInjective(seq) => IsInjective(first)
    BY <1>3, ListIsSet DEF Distinct
  <1> QED
    BY <1>3, <1>4, <1>5, <1>6 DEF first

(* One more at the end of a list.                                          *)
LEMMA AppendTells ==
  ASSUME NEW S, NEW seq \in Seq(S), NEW x \in S
  PROVE  LET more == Append(seq, x)
         IN  /\ more \in Seq(S) /\ Len(more) = Len(seq) + 1 /\ more[Len(seq) + 1] = x
             /\ \A n \in 1..Len(seq) : more[n] = seq[n]
             /\ \A n \in 1..Len(more) : n \in 1..Len(seq) \/ n = Len(seq) + 1
             /\ Elements(more) = Elements(seq) \cup {x}
             /\ Distinct(seq) /\ x \notin Elements(seq) => Distinct(more)
  <1> DEFINE more == Append(seq, x)
  <1>1. /\ more \in Seq(S) /\ Len(more) = Len(seq) + 1 /\ more[Len(seq) + 1] = x
        /\ Len(seq) \in Nat /\ \A n \in 1..Len(seq) : more[n] = seq[n]
    BY AppendProperties
  <1> HIDE DEF more
  <1>2. \A n \in 1..Len(more) : n \in 1..Len(seq) \/ n = Len(seq) + 1
    BY <1>1
  <1>3. Elements(more) = Elements(seq) \cup {x}
    <2>1. \A n \in 1..Len(seq) : n \in 1..Len(more)
      BY <1>1
    <2>2. Len(seq) + 1 \in 1..Len(more)
      BY <1>1
    <2> QED
      BY <1>1, <1>2, <2>1, <2>2 DEF Elements
  <1>4. Distinct(seq) /\ x \notin Elements(seq) => Distinct(more)
    BY <1>1, <1>2 DEF Distinct, Elements
  <1> QED
    BY <1>1, <1>2, <1>3, <1>4 DEF more

(* Two lists, one after the other.                                         *)
LEMMA JoinTells ==
  ASSUME NEW S, NEW front \in Seq(S), NEW back \in Seq(S)
  PROVE  LET both == front \o back
         IN  /\ both \in Seq(S) /\ Len(both) = Len(front) + Len(back)
             /\ \A n \in 1..Len(both) :
                  \/ n \in 1..Len(front) /\ both[n] = front[n]
                  \/ n - Len(front) \in 1..Len(back) /\ both[n] = back[n - Len(front)]
             /\ \A n \in 1..Len(front) : n \in 1..Len(both) /\ both[n] = front[n]
             /\ \A n \in 1..Len(back) : n + Len(front) \in 1..Len(both) /\ both[n + Len(front)] = back[n]
             /\ ToSet(both) = ToSet(front) \cup ToSet(back)
  <1> DEFINE both == front \o back
  <1>1. /\ both \in Seq(S) /\ Len(both) = Len(front) + Len(back)
        /\ Len(front) \in Nat /\ Len(back) \in Nat
        /\ \A n \in 1..Len(front) + Len(back) :
             both[n] = IF n <= Len(front) THEN front[n] ELSE back[n - Len(front)]
    BY ConcatProperties
  <1> HIDE DEF both
  <1>2. ASSUME NEW n \in 1..Len(both)
        PROVE  \/ n \in 1..Len(front) /\ both[n] = front[n]
               \/ n - Len(front) \in 1..Len(back) /\ both[n] = back[n - Len(front)]
    BY <1>1
  <1>3. ASSUME NEW n \in 1..Len(front) PROVE n \in 1..Len(both) /\ both[n] = front[n]
    BY <1>1
  <1>4. ASSUME NEW n \in 1..Len(back)
        PROVE  n + Len(front) \in 1..Len(both) /\ both[n + Len(front)] = back[n]
    <2>1. n + Len(front) \in 1..Len(both) /\ ~ (n + Len(front) <= Len(front))
          /\ (n + Len(front)) - Len(front) = n
      BY <1>1
    <2> QED
      BY <1>1, <2>1
  <1>5. ToSet(both) = ToSet(front) \cup ToSet(back)
    <2>1. ToSet(both) = Elements(both) /\ ToSet(front) = Elements(front) /\ ToSet(back) = Elements(back)
      BY <1>1, ListIsSet
    <2>2. Elements(both) \subseteq Elements(front) \cup Elements(back)
      BY <1>2 DEF Elements
    <2>3. Elements(front) \subseteq Elements(both)
      BY <1>3 DEF Elements
    <2>4. Elements(back) \subseteq Elements(both)
      BY <1>4 DEF Elements
    <2> QED
      BY <2>1, <2>2, <2>3, <2>4
  <1> QED
    BY <1>1, <1>2, <1>3, <1>4, <1>5 DEF both

(* The front of a list, element by element.                                *)
LEMMA FrontElements ==
  ASSUME NEW S, NEW seq \in Seq(S), NEW n \in 1..Len(seq)
  PROVE  {seq[m] : m \in 1..n} = {seq[m] : m \in 1..n - 1} \cup {seq[n]}
  <1>1. 1..n = 1..n - 1 \cup {n}
    OBVIOUS
  <1> QED
    BY <1>1

(* A comprehension: the wanted members, each as often and in the place it  *)
(* had; the first of the list is the first of it when it is wanted.        *)
LEMMA AmongTells ==
  ASSUME NEW seq \in Seq(Anything), NEW S
  PROVE  LET kept == Among(seq, S)
         IN  /\ kept \in Seq(Anything)
             /\ ToSet(kept) = ToSet(seq) \cap S
             /\ IsInjective(seq) => IsInjective(kept)
             /\ seq # <<>> /\ seq[1] \in S => Len(kept) > 0 /\ kept[1] = seq[1]
  <1> DEFINE flagged == [n \in 1..Len(seq) |-> [item |-> seq[n], wanted |-> seq[n] \in S]]
             kept == Among(seq, S)
  <1>1. Len(seq) \in Nat /\ \A n \in 1..Len(seq) : seq[n] \in Anything
    OBVIOUS
  <1>2. /\ flagged \in Seq([item : Anything, wanted : BOOLEAN]) /\ Len(flagged) = Len(seq)
        /\ \A n \in 1..Len(seq) : flagged[n].item = seq[n] /\ (flagged[n].wanted <=> seq[n] \in S)
    <2>1. \A n \in 1..Len(seq) : /\ [item |-> seq[n], wanted |-> seq[n] \in S] \in [item : Anything, wanted : BOOLEAN]
                                /\ [item |-> seq[n], wanted |-> seq[n] \in S].item = seq[n]
                                /\ [item |-> seq[n], wanted |-> seq[n] \in S].wanted <=> seq[n] \in S
      BY <1>1
    <2> QED
      BY <1>1, <2>1
  <1>3. kept = Filters!FoldOf(<<>>, flagged)
    BY DEF Among, FoldLeft, MapThenFoldSet, Max, Filters!FoldOf, Filters!Max
  <1> HIDE DEF flagged, kept
  <1>4. Filters!Closed(<<>>)
    <2>1. ASSUME NEW k \in Seq(Anything), NEW x \in [item : Anything, wanted : BOOLEAN]
          PROVE  Keep(k, x) \in Seq(Anything)
      BY AppendProperties DEF Keep
    <2> QED
      BY <2>1 DEF Filters!Closed
  <1>5. PICK F \in [0..Len(seq) -> Seq(Anything)] :
          /\ F[0] = <<>>
          /\ \A n \in 1..Len(seq) : F[n] = Keep(F[n - 1], flagged[n])
          /\ F[Len(seq)] = kept
    <2>1. \E F \in [0..Len(flagged) -> Seq(Anything)] :
            /\ F[0] = <<>>
            /\ \A n \in 1..Len(flagged) : F[n] = Keep(F[n - 1], flagged[n])
            /\ F[Len(flagged)] = Filters!FoldOf(<<>>, flagged)
      BY <1>2, <1>4, Filters!FoldSteps
    <2> QED
      BY <1>2, <1>3, <2>1
  <1> DEFINE Good(n) == /\ Elements(F[n]) = {seq[m] : m \in 1..n} \cap S
                        /\ Distinct(seq) => Distinct(F[n])
                        /\ n > 0 /\ seq[1] \in S => Len(F[n]) > 0 /\ F[n][1] = seq[1]
             T == {n \in 0..Len(seq) : Good(n)}
  <1>6. 0 \in T
    <2>1. 1..0 = {} /\ Len(<<>>) = 0
      OBVIOUS
    <2> QED
      BY <1>1, <1>5, <2>1 DEF Elements, Distinct
  <1>7. ASSUME NEW n \in 1..Len(seq), n - 1 \in T PROVE n \in T
    <2>1. n - 1 \in 0..Len(seq) /\ n \in 0..Len(seq) /\ n > 0
      BY <1>1
    <2>2. F[n - 1] \in Seq(Anything)
          /\ F[n] = IF seq[n] \in S THEN Append(F[n - 1], seq[n]) ELSE F[n - 1]
      BY <1>2, <1>5, <2>1 DEF Keep
    <2>3. Good(n - 1)
      BY <1>7
    <2>4. {seq[m] : m \in 1..n} = {seq[m] : m \in 1..n - 1} \cup {seq[n]}
      BY FrontElements
    <2>5. CASE seq[n] \in S
      <3> DEFINE old == F[n - 1]
                 new == F[n]
      <3>1. new = Append(old, seq[n]) /\ old \in Seq(Anything)
        BY <2>2, <2>5
      <3> HIDE DEF old, new
      <3>2. /\ Len(new) = Len(old) + 1 /\ Len(old) \in Nat /\ new[Len(old) + 1] = seq[n]
            /\ \A m \in 1..Len(old) : new[m] = old[m]
            /\ Elements(new) = Elements(old) \cup {seq[n]}
            /\ Distinct(old) /\ seq[n] \notin Elements(old) => Distinct(new)
        BY <1>1, <3>1, AppendTells
      <3>3. Elements(new) = {seq[m] : m \in 1..n} \cap S
        BY <2>3, <2>4, <2>5, <3>2 DEF old
      <3>4. Distinct(seq) => Distinct(new)
        <4> SUFFICES ASSUME Distinct(seq) PROVE Distinct(new)
          OBVIOUS
        <4>1. seq[n] \notin {seq[m] : m \in 1..n - 1}
          BY <1>1 DEF Distinct
        <4> QED
          BY <2>3, <3>2, <4>1 DEF old
      <3>5. seq[1] \in S => Len(new) > 0 /\ new[1] = seq[1]
        <4>1. CASE n = 1
          <5>1. Elements(old) = {}
            BY <2>3, <4>1 DEF old
          <5>2. Len(old) = 0
            <6> SUFFICES ASSUME Len(old) # 0 PROVE FALSE
              OBVIOUS
            <6>1. 1 \in 1..Len(old)
              BY <3>2
            <6>2. old[1] \in Elements(old)
              BY Zenon, <6>1 DEF Elements
            <6> QED
              BY Zenon, <5>1, <6>2
          <5> QED
            BY <3>2, <4>1, <5>2
        <4>2. CASE n # 1
          <5>1. seq[1] \in S => Len(old) > 0 /\ old[1] = seq[1]
            BY <1>1, <2>3, <4>2 DEF old
          <5> QED
            BY <3>2, <5>1
        <4> QED
          BY <4>1, <4>2
      <3>6. Good(n)
        BY <3>3, <3>4, <3>5 DEF new
      <3> QED
        BY <2>1, <3>6
    <2>6. CASE seq[n] \notin S
      <3>1. F[n] = F[n - 1]
        BY <2>2, <2>6
      <3>2. Elements(F[n]) = {seq[m] : m \in 1..n} \cap S
        BY <2>3, <2>4, <2>6, <3>1
      <3>3. n = 1 \/ n - 1 > 0
        BY <1>1
      <3>4. Good(n)
        BY <2>3, <2>6, <3>1, <3>2, <3>3
      <3> QED
        BY <2>1, <3>4
    <2> QED
      BY <2>5, <2>6
  <1>8. Good(Len(seq))
    <2> HIDE DEF Good
    <2>1. 0..Len(seq) \subseteq T
      <3> HIDE DEF T
      <3> QED
        BY <1>1, <1>6, <1>7, Filters!CountingUp
    <2> QED
      BY <1>1, <2>1
  <1>9. kept \in Seq(Anything) /\ Elements(seq) = {seq[m] : m \in 1..Len(seq)}
    BY <1>1, <1>5 DEF Elements
  <1>10. seq # <<>> => Len(seq) > 0
    OBVIOUS
  <1> QED
    BY <1>5, <1>8, <1>9, <1>10, ListIsSet DEF kept

-----------------------------------------------------------------------------
(* The selection of a rule's criteria.                                     *)

(* The loop adds mappings of standards that had none, until no standard is *)
(* without or no place is left.                                            *)
LEMMA PlacesTell ==
  ASSUME NEW first \in Seq(Anything), IsInjective(first), Len(first) <= MaxCriteria,
         NEW mappings \in Seq(Anything)
  PROVE  LET chosen == WithOnePerStandard(first, mappings)
         IN  /\ chosen \in Seq(Anything)
             /\ Len(first) <= Len(chosen) /\ Len(chosen) <= MaxCriteria
             /\ \A m \in 1..Len(first) : chosen[m] = first[m]
             /\ ToSet(chosen) \subseteq ToSet(first) \cup ToSet(mappings)
             /\ IsInjective(chosen)
             /\ \A m, n \in 1..Len(chosen) :
                  m < n /\ n > Len(first) => chosen[m].standard # chosen[n].standard
             /\ \A m \in 1..Len(mappings) :
                  Len(chosen) = MaxCriteria \/ mappings[m].standard \in StandardsOf(chosen)
  <1> DEFINE chosen == WithOnePerStandard(first, mappings)
  <1>1. /\ MaxCriteria \in Nat /\ Len(first) \in Nat /\ Len(mappings) \in Nat
        /\ \A n \in 1..Len(mappings) : mappings[n] \in Anything
    BY CriteriaAssumption
  <1>2. chosen = Places!FoldOf(first, mappings)
    BY DEF WithOnePerStandard, FoldLeft, MapThenFoldSet, Max, Places!FoldOf, Places!Max
  <1> HIDE DEF chosen
  <1>3. Places!Closed(first)
    <2>1. ASSUME NEW acc \in Seq(Anything), NEW x \in Anything PROVE TakeNew(acc, x) \in Seq(Anything)
      BY AppendProperties DEF TakeNew
    <2> QED
      BY <2>1 DEF Places!Closed
  <1>4. PICK F \in [0..Len(mappings) -> Seq(Anything)] :
          /\ F[0] = first
          /\ \A n \in 1..Len(mappings) : F[n] = TakeNew(F[n - 1], mappings[n])
          /\ F[Len(mappings)] = chosen
    BY <1>2, <1>3, Places!FoldSteps
  <1> DEFINE Begun(s) == /\ Len(first) <= Len(s) /\ Len(s) <= MaxCriteria /\ Distinct(s)
                         /\ \A m \in 1..Len(first) : s[m] = first[m]
             OnePlace(s) == \A m, k \in 1..Len(s) : m < k /\ k > Len(first) => s[m].standard # s[k].standard
             Good(n) == /\ Begun(F[n]) /\ OnePlace(F[n])
                        /\ Elements(F[n]) \subseteq Elements(first) \cup {mappings[m] : m \in 1..n}
                        /\ \A m \in 1..n : Len(F[n]) = MaxCriteria \/ mappings[m].standard \in StandardsOf(F[n])
             T == {n \in 0..Len(mappings) : Good(n)}
  <1>5. 0 \in T
    <2>1. Begun(first)
      BY <1>1, ListIsSet
    <2>2. OnePlace(first)
      BY <1>1
    <2>3. 1..0 = {} /\ 0 \in 0..Len(mappings)
      BY <1>1
    <2> HIDE DEF Begun, OnePlace
    <2>4. Good(0)
      BY <1>4, <2>1, <2>2, <2>3
    <2> QED
      BY <2>3, <2>4
  <1>6. ASSUME NEW n \in 1..Len(mappings), n - 1 \in T PROVE n \in T
    <2> DEFINE old == F[n - 1]
               new == F[n]
               x   == mappings[n]
    <2>1. /\ n - 1 \in 0..Len(mappings) /\ n \in 0..Len(mappings) /\ x \in Anything
          /\ \A m \in 1..n : m = n \/ m \in 1..n - 1
      BY <1>1
    <2>2. old \in Seq(Anything) /\ new = TakeNew(old, x)
      BY <1>4, <2>1
    <2>3. Good(n - 1)
      BY <1>6
    <2>4. {mappings[m] : m \in 1..n} = {mappings[m] : m \in 1..n - 1} \cup {x}
      BY FrontElements
    <2>5. /\ Begun(old) /\ OnePlace(old)
          /\ Elements(old) \subseteq Elements(first) \cup {mappings[m] : m \in 1..n - 1}
          /\ \A m \in 1..n - 1 : Len(old) = MaxCriteria \/ mappings[m].standard \in StandardsOf(old)
      BY <2>3
    <2> SUFFICES /\ Begun(new) /\ OnePlace(new)
                 /\ Elements(new) \subseteq Elements(first) \cup {mappings[m] : m \in 1..n}
                 /\ \A m \in 1..n : Len(new) = MaxCriteria \/ mappings[m].standard \in StandardsOf(new)
      BY <2>1
    <2> HIDE DEF old, new, x
    <2>6. CASE Len(old) < MaxCriteria /\ x.standard \notin StandardsOf(old)
      <3>1. new = Append(old, x)
        BY <2>2, <2>6 DEF TakeNew
      <3>2. /\ new \in Seq(Anything) /\ Len(new) = Len(old) + 1 /\ new[Len(old) + 1] = x
            /\ Len(old) \in Nat /\ \A m \in 1..Len(old) : new[m] = old[m]
            /\ \A m \in 1..Len(new) : m \in 1..Len(old) \/ m = Len(old) + 1
            /\ Elements(new) = Elements(old) \cup {x}
            /\ Distinct(old) /\ x \notin Elements(old) => Distinct(new)
        BY <2>1, <2>2, <3>1, AppendTells
      <3>3. x \notin Elements(old) /\ \A m \in 1..Len(old) : old[m].standard # x.standard
        BY <2>6 DEF StandardsOf, Elements
      <3>4. Begun(new)
        BY <1>1, <2>5, <2>6, <3>2, <3>3
      <3>5. OnePlace(new)
        <4> SUFFICES ASSUME NEW m \in 1..Len(new), NEW k \in 1..Len(new), m < k, k > Len(first)
                     PROVE  new[m].standard # new[k].standard
          OBVIOUS
        <4>1. m \in 1..Len(old) /\ new[m] = old[m]
          BY <3>2
        <4>2. CASE k \in 1..Len(old)
          BY <2>5, <3>2, <4>1, <4>2
        <4>3. CASE k = Len(old) + 1
          BY <3>2, <3>3, <4>1, <4>3
        <4> QED
          BY <3>2, <4>2, <4>3
      <3>6. StandardsOf(old) \cup {x.standard} \subseteq StandardsOf(new)
        <4>1. \A m \in 1..Len(old) : m \in 1..Len(new) /\ new[m].standard = old[m].standard
          BY <3>2
        <4>2. Len(old) + 1 \in 1..Len(new) /\ new[Len(old) + 1].standard = x.standard
          BY <3>2
        <4> QED
          BY <4>1, <4>2 DEF StandardsOf
      <3>7. \A m \in 1..n : Len(new) = MaxCriteria \/ mappings[m].standard \in StandardsOf(new)
        BY <2>1, <2>5, <2>6, <3>6 DEF x
      <3> QED
        BY <2>4, <2>5, <3>2, <3>4, <3>5, <3>7
    <2>7. CASE ~ (Len(old) < MaxCriteria /\ x.standard \notin StandardsOf(old))
      <3>1. new = old
        BY <2>2, <2>7 DEF TakeNew
      <3>2. Len(old) \in Nat
        BY <2>2
      <3>3. Len(new) = MaxCriteria \/ x.standard \in StandardsOf(new)
        BY <1>1, <2>5, <2>7, <3>1, <3>2
      <3>4. \A m \in 1..n : Len(new) = MaxCriteria \/ mappings[m].standard \in StandardsOf(new)
        BY <2>1, <2>5, <3>1, <3>3 DEF x
      <3> HIDE DEF Begun, OnePlace
      <3> QED
        BY <2>4, <2>5, <3>1, <3>4
    <2> QED
      BY <2>6, <2>7
  <1>7. Good(Len(mappings))
    <2> HIDE DEF Good
    <2>1. 0..Len(mappings) \subseteq T
      <3> HIDE DEF T
      <3> QED
        BY <1>1, <1>5, <1>6, Places!CountingUp
    <2> QED
      BY <1>1, <2>1
  <1>8. chosen \in Seq(Anything)
    BY <1>1, <1>4
  <1>9. /\ ToSet(chosen) = Elements(chosen) /\ ToSet(first) = Elements(first)
        /\ ToSet(mappings) = {mappings[m] : m \in 1..Len(mappings)}
        /\ IsInjective(chosen) <=> Distinct(chosen)
    BY <1>8, ListIsSet DEF Elements
  <1> QED
    BY <1>4, <1>7, <1>8, <1>9 DEF chosen

(* _criteria_for_rule selects well, whatever the rule's mappings.          *)
LEMMA SelectionIsMade ==
  ASSUME NEW mappings \in Seq(Anything), IsMappings(mappings), selected \in Standards
  PROVE  LET made == CriteriaForRule(mappings, selected)
         IN  /\ made.criteria \in Seq(Anything) /\ made.truncated \in BOOLEAN
             /\ WellSelected(mappings, made.criteria, made.truncated)
  <1> DEFINE own      == Among(mappings, {item \in ToSet(mappings) : item.standard = selected})
             first    == FirstOf(own, MaxCriteria)
             chosen   == WithOnePerStandard(first, mappings)
             rest     == Among(mappings, ToSet(mappings) \ ToSet(chosen))
             room     == MaxCriteria - Len(chosen)
             more     == FirstOf(rest, room)
             criteria == chosen \o more
             made     == CriteriaForRule(mappings, selected)
  <1>1. MaxCriteria \in Nat \ {0} /\ selected # "all" /\ Len(mappings) \in Nat /\ IsInjective(mappings)
    BY CriteriaAssumption DEF IsMappings
  <1>2. made = [criteria |-> criteria, truncated |-> Len(mappings) > Len(criteria)]
    BY <1>1 DEF CriteriaForRule, Filled
  <1>3. /\ own \in Seq(Anything) /\ IsInjective(own)
        /\ ToSet(own) = {item \in ToSet(mappings) : item.standard = selected}
    BY <1>1, AmongTells
  <1> HIDE DEF own, made
  <1>4. /\ first \in Seq(Anything) /\ IsInjective(first)
        /\ Len(first) = (IF Len(own) < MaxCriteria THEN Len(own) ELSE MaxCriteria)
        /\ Len(own) <= MaxCriteria => first = own
        /\ ToSet(first) \subseteq ToSet(own) /\ Len(own) \in Nat
    BY <1>1, <1>3, FirstTells
  <1> HIDE DEF first
  <1>5. /\ chosen \in Seq(Anything) /\ IsInjective(chosen)
        /\ Len(first) <= Len(chosen) /\ Len(chosen) <= MaxCriteria
        /\ \A m \in 1..Len(first) : chosen[m] = first[m]
        /\ ToSet(chosen) \subseteq ToSet(first) \cup ToSet(mappings)
        /\ \A m, n \in 1..Len(chosen) :
             m < n /\ n > Len(first) => chosen[m].standard # chosen[n].standard
        /\ \A m \in 1..Len(mappings) :
             Len(chosen) = MaxCriteria \/ mappings[m].standard \in StandardsOf(chosen)
    BY <1>1, <1>4, PlacesTell
  <1> HIDE DEF chosen
  <1>6. Len(first) \in Nat /\ Len(chosen) \in Nat /\ room \in Nat
    BY <1>1, <1>4, <1>5
  <1>7. /\ rest \in Seq(Anything) /\ IsInjective(rest)
        /\ ToSet(rest) = ToSet(mappings) \ ToSet(chosen)
    <2>1. ToSet(rest) = ToSet(mappings) \cap (ToSet(mappings) \ ToSet(chosen))
      BY AmongTells
    <2> QED
      BY <1>1, <2>1, AmongTells
  <1> HIDE DEF rest
  <1>8. /\ more \in Seq(Anything) /\ IsInjective(more)
        /\ Len(more) = (IF Len(rest) < room THEN Len(rest) ELSE room)
        /\ Len(rest) <= room => more = rest
        /\ ToSet(more) \subseteq ToSet(rest) /\ Len(rest) \in Nat
    BY <1>6, <1>7, FirstTells
  <1> HIDE DEF more
  <1>9. /\ criteria \in Seq(Anything) /\ Len(criteria) = Len(chosen) + Len(more)
        /\ \A n \in 1..Len(criteria) :
             \/ n \in 1..Len(chosen) /\ criteria[n] = chosen[n]
             \/ n - Len(chosen) \in 1..Len(more) /\ criteria[n] = more[n - Len(chosen)]
        /\ \A n \in 1..Len(chosen) : n \in 1..Len(criteria) /\ criteria[n] = chosen[n]
        /\ \A n \in 1..Len(more) : /\ n + Len(chosen) \in 1..Len(criteria)
                                   /\ criteria[n + Len(chosen)] = more[n]
        /\ ToSet(criteria) = ToSet(chosen) \cup ToSet(more)
    <2>1. chosen \in Seq(Anything) /\ more \in Seq(Anything)
      BY <1>5, <1>8
    <2> QED
      BY <2>1, JoinTells
  <1> HIDE DEF criteria
  <1>10. Len(criteria) \in Nat /\ Len(criteria) <= MaxCriteria
    BY <1>1, <1>5, <1>6, <1>8, <1>9
  <1>11. /\ \A n \in 1..Len(chosen) : chosen[n] \in ToSet(chosen)
         /\ \A n \in 1..Len(more) : more[n] \in ToSet(rest)
         /\ \A n \in 1..Len(first) : first[n] \in ToSet(first)
         /\ \A x \in ToSet(first) : \E n \in 1..Len(first) : x = first[n]
    BY <1>4, <1>5, <1>8, ListIsSet DEF Elements
  <1>12. ToSet(chosen) \subseteq ToSet(mappings)
    BY <1>3, <1>4, <1>5
  <1>13. ToSet(criteria) = ToSet(chosen) \cup ToSet(more)
    BY <1>9
  <1>14. IsInjective(criteria)
    <2>1. \A m \in 1..Len(chosen), n \in 1..Len(more) : chosen[m] # more[n]
      BY <1>7, <1>11
    <2>2. Distinct(chosen) /\ Distinct(more)
      BY <1>5, <1>8, ListIsSet
    <2>3. ASSUME NEW m \in 1..Len(criteria), NEW n \in 1..Len(criteria), m # n
          PROVE  criteria[m] # criteria[n]
      <3>1. CASE /\ m \in 1..Len(chosen) /\ criteria[m] = chosen[m]
                 /\ n \in 1..Len(chosen) /\ criteria[n] = chosen[n]
        BY <2>2, <2>3, <3>1 DEF Distinct
      <3>2. CASE /\ m - Len(chosen) \in 1..Len(more) /\ criteria[m] = more[m - Len(chosen)]
                 /\ n - Len(chosen) \in 1..Len(more) /\ criteria[n] = more[n - Len(chosen)]
        <4>1. m - Len(chosen) # n - Len(chosen)
          BY <1>6, <1>10, <2>3
        <4> QED
          BY <2>2, <3>2, <4>1 DEF Distinct
      <3> QED
        BY <1>9, <2>1, <3>1, <3>2
    <2> QED
      BY <1>9, <2>3, ListIsSet DEF Distinct
  <1>15. \A m \in 1..Len(first) : m \in 1..Len(criteria) /\ criteria[m].standard = selected
    <2> SUFFICES ASSUME NEW m \in 1..Len(first)
                 PROVE  m \in 1..Len(criteria) /\ criteria[m].standard = selected
      OBVIOUS
    <2>1. m \in 1..Len(chosen) /\ chosen[m] = first[m]
      BY <1>5, <1>6
    <2>2. first[m].standard = selected
      BY <1>3, <1>4, <1>11
    <2> QED
      BY <1>9, <2>1, <2>2
  <1>16. ASSUME NEW n \in 1..Len(criteria), criteria[n].standard = selected
         PROVE  n \in 1..Len(first)
    <2>1. \A x \in ToSet(mappings) : x.standard = selected => x \in ToSet(own)
      BY <1>3
    <2>2. CASE n \in 1..Len(chosen) /\ criteria[n] = chosen[n]
      <3> SUFFICES ASSUME n > Len(first) PROVE FALSE
        BY <1>6, <2>2
      <3>1. chosen[n] \in ToSet(own)
        BY <1>11, <1>12, <1>16, <2>1, <2>2
      <3>2. Len(own) > 0
        BY <1>3, <1>4, <3>1, ListIsSet DEF Elements
      <3>3. 1 \in 1..Len(first) /\ 1 < n
        BY <1>1, <1>4, <1>6, <3>2
      <3>4. chosen[1].standard = selected /\ 1 \in 1..Len(chosen)
        BY <1>3, <1>4, <1>5, <1>6, <1>11, <3>3
      <3> QED
        BY <1>5, <1>16, <2>2, <3>3, <3>4
    <2>3. CASE n - Len(chosen) \in 1..Len(more) /\ criteria[n] = more[n - Len(chosen)]
      <3>1. criteria[n] \in ToSet(mappings) \ ToSet(chosen)
        BY <1>7, <1>11, <2>3
      <3>2. Len(more) > 0
        BY <1>8, <2>3
      <3>3. Len(own) <= MaxCriteria
        BY <1>1, <1>4, <1>5, <1>6, <1>8, <3>2
      <3>4. criteria[n] \in ToSet(first)
        BY <1>4, <1>16, <2>1, <3>1, <3>3
      <3>5. PICK k \in 1..Len(first) : criteria[n] = first[k]
        BY <1>11, <3>4
      <3>6. k \in 1..Len(chosen) /\ chosen[k] = criteria[n]
        BY <1>5, <1>6, <3>5
      <3> QED
        BY <1>11, <3>1, <3>6
    <2> QED
      BY <1>9, <2>2, <2>3
  <1>17. ASSUME NEW m \in 1..Len(criteria), NEW n \in 1..Len(criteria),
                m < n, criteria[n].standard = selected
         PROVE  criteria[m].standard = selected
    <2>1. m \in 1..Len(first)
      BY <1>6, <1>16, <1>17
    <2> QED
      BY <1>15, <2>1
  <1> DEFINE taken == ToSet(criteria)
             Of(s) == {x \in taken : x.standard = s}
  <1>18. taken = {criteria[n] : n \in 1..Len(criteria)}
    BY <1>9, ListIsSet DEF Elements
  <1>19. ASSUME NEW x \in ToSet(mappings) \ taken
         PROVE  /\ Len(criteria) = MaxCriteria
                /\ x.standard = selected => taken = Of(selected)
                /\ Of(x.standard) = {} => \A s \in Standards \ {selected} : Cardinality(Of(s)) <= 1
    <2>1. x \in ToSet(rest) /\ x \notin ToSet(more) /\ x \notin ToSet(chosen)
      BY <1>7, <1>13
    <2>2. Len(rest) > room
      BY <1>6, <1>8, <2>1
    <2>3. Len(criteria) = MaxCriteria
      BY <1>1, <1>6, <1>8, <1>9, <2>2
    <2>4. ASSUME x.standard = selected PROVE taken = Of(selected)
      <3>1. x \in ToSet(own)
        BY <1>3, <2>4
      <3>2. x \notin ToSet(first)
        <4>1. \A k \in 1..Len(first) : first[k] = chosen[k] /\ k \in 1..Len(chosen)
          BY <1>5, <1>6
        <4> QED
          BY <1>11, <2>1, <4>1
      <3>3. Len(first) = MaxCriteria
        BY <1>1, <1>4, <3>1, <3>2
      <3> QED
        BY <1>15, <1>18, <2>3, <3>3
    <2>5. ASSUME Of(x.standard) = {}, NEW s \in Standards \ {selected}
          PROVE  Cardinality(Of(s)) <= 1
      <3>1. PICK m \in 1..Len(mappings) : x = mappings[m]
        BY ListIsSet DEF Elements
      <3>2. x.standard \notin StandardsOf(chosen)
        <4>1. \A k \in 1..Len(chosen) : chosen[k] \in taken
          BY <1>11, <1>13
        <4> QED
          BY <2>5, <4>1 DEF StandardsOf
      <3>3. Len(chosen) = Len(criteria)
        BY <1>5, <2>3, <3>1, <3>2
      <3>4. ASSUME NEW y \in Of(s), NEW z \in Of(s) PROVE y = z
        <4>1. PICK j \in 1..Len(chosen) : y = chosen[j] /\ y = criteria[j]
          BY <1>9, <1>18, <3>3
        <4>2. PICK k \in 1..Len(chosen) : z = chosen[k] /\ z = criteria[k]
          BY <1>9, <1>18, <3>3
        <4>3. chosen[j].standard = s /\ chosen[k].standard = s /\ s # selected
          BY <4>1, <4>2
        <4>4. j > Len(first) /\ k > Len(first)
          BY <1>6, <1>15, <4>1, <4>2, <4>3
        <4>5. ~ (j < k) /\ ~ (k < j)
          BY <1>5, <4>3, <4>4
        <4>6. j = k
          BY <1>6, <4>5
        <4> QED
          BY <4>1, <4>2, <4>6
      <3> HIDE DEF Of
      <3>5. CASE Of(s) = {}
        BY <3>5, FS_EmptySet
      <3>6. CASE Of(s) # {}
        <4>1. PICK y : Of(s) = {y}
          BY <3>4, <3>6
        <4>2. Cardinality({y}) = 1
          BY FS_Singleton
        <4> QED
          BY <4>1, <4>2
      <3> QED
        BY <3>5, <3>6
    <2> QED
      BY <2>3, <2>4, <2>5
  <1>20. taken \subseteq ToSet(mappings)
    BY <1>7, <1>8, <1>12, <1>13
  <1>21. Len(mappings) > Len(criteria) <=> ToSet(mappings) \ taken # {}
    <2>1. /\ IsFiniteSet(ToSet(mappings)) /\ Cardinality(ToSet(mappings)) = Len(mappings)
          /\ Cardinality(taken) = Len(criteria)
      BY <1>1, <1>9, <1>14, ListSize
    <2>2. /\ Cardinality(taken) <= Cardinality(ToSet(mappings))
          /\ Cardinality(ToSet(mappings)) = Cardinality(taken) => ToSet(mappings) = taken
      BY <1>20, <2>1, FS_Subset
    <2> HIDE DEF taken
    <2>3. Len(criteria) <= Len(mappings) /\ (Len(mappings) = Len(criteria) => ToSet(mappings) = taken)
      BY <2>1, <2>2
    <2>4. ToSet(mappings) = taken => Len(mappings) = Len(criteria)
      BY <2>1
    <2>5. ToSet(mappings) \ taken # {} <=> ToSet(mappings) # taken
      BY <1>20
    <2> QED
      BY <1>1, <1>10, <2>3, <2>4, <2>5
  <1>22. made.criteria = criteria /\ (made.truncated <=> Len(mappings) > Len(criteria))
         /\ made.truncated \in BOOLEAN
    <2> DEFINE over == Len(mappings) > Len(criteria)
    <2>1. over \in BOOLEAN /\ made = [criteria |-> criteria, truncated |-> over]
      BY <1>2
    <2> HIDE DEF over
    <2>2. made.criteria = criteria /\ made.truncated = over
      BY <2>1
    <2> QED
      BY <2>1, <2>2 DEF over
  <1>23. WellSelected(mappings, made.criteria, made.truncated)
    BY <1>10, <1>14, <1>17, <1>19, <1>20, <1>21, <1>22 DEF WellSelected
  <1> QED
    BY <1>9, <1>22, <1>23 DEF made

-----------------------------------------------------------------------------
(* What one answer is made of.                                             *)

LEMMA CatalogueTells ==
  ASSUME catalogue \in Catalogues, NEW r \in DOMAIN catalogue
  PROVE  catalogue[r] \in Seq(Anything) /\ IsMappings(catalogue[r])
  <1>1. IsMappings(catalogue[r])
    BY CriteriaAssumption
  <1>2. ToSet(catalogue[r]) \subseteq Anything
    BY DEF Anything, Mapping
  <1>3. catalogue[r] \in Seq(ToSet(catalogue[r]))
    BY <1>1 DEF IsMappings
  <1> QED
    BY <1>1, <1>2, <1>3, SeqMonotonic

(* An item: its criteria are mappings of its rule, well selected.          *)
LEMMA ItemTells ==
  ASSUME InputsStand, NEW r \in DOMAIN catalogue
  PROVE  /\ Item(r).rule = r
         /\ Item(r).criteria = CriteriaForRule(catalogue[r], selected).criteria
         /\ Item(r).criteria \in Seq(Anything) /\ Item(r).truncated \in BOOLEAN
         /\ ToSet(Item(r).criteria) \subseteq ToSet(catalogue[r])
         /\ IF selected = "all"
            THEN Item(r).criteria = catalogue[r] /\ ~Item(r).truncated
            ELSE WellSelected(catalogue[r], Item(r).criteria, Item(r).truncated)
  <1> DEFINE made == CriteriaForRule(catalogue[r], selected)
  <1>1. catalogue[r] \in Seq(Anything) /\ IsMappings(catalogue[r])
    BY CatalogueTells DEF InputsStand
  <1>2. Item(r) = [rule |-> r, criteria |-> made.criteria, truncated |-> made.truncated]
    BY DEF Item
  <1> HIDE DEF made
  <1>3. Item(r).rule = r /\ Item(r).criteria = made.criteria /\ Item(r).truncated = made.truncated
    BY <1>2
  <1>4. CASE selected = "all"
    <2>1. made = [criteria |-> catalogue[r], truncated |-> FALSE]
      BY <1>4 DEF made, CriteriaForRule
    <2>2. made.criteria = catalogue[r] /\ made.truncated = FALSE
      BY <2>1
    <2> QED
      BY <1>1, <1>3, <1>4, <2>2 DEF made
  <1>5. CASE selected # "all"
    <2>1. selected \in Standards
      BY <1>5 DEF InputsStand, Selectable
    <2>2. /\ made.criteria \in Seq(Anything) /\ made.truncated \in BOOLEAN
          /\ WellSelected(catalogue[r], made.criteria, made.truncated)
      BY <1>1, <2>1, SelectionIsMade DEF made
    <2>3. ToSet(made.criteria) \subseteq ToSet(catalogue[r])
      BY <2>2 DEF WellSelected
    <2> QED
      BY <1>3, <1>5, <2>2, <2>3 DEF made
  <1> QED
    BY <1>4, <1>5

(* The standards that mappings of the catalogue cite are supported ones.   *)
LEMMA CitedStandards ==
  ASSUME InputsStand, NEW r \in DOMAIN catalogue
  PROVE  StandardsOf(Item(r).criteria) \subseteq Standards
  <1>1. /\ ToSet(Item(r).criteria) = Elements(Item(r).criteria)
        /\ ToSet(catalogue[r]) = Elements(catalogue[r])
        /\ ToSet(Item(r).criteria) \subseteq ToSet(catalogue[r])
    BY ItemTells, CatalogueTells, ListIsSet DEF InputsStand
  <1>2. \A n \in 1..Len(catalogue[r]) : catalogue[r][n].standard \in Standards
    BY CatalogueTells DEF InputsStand, IsMappings
  <1> SUFFICES ASSUME NEW n \in 1..Len(Item(r).criteria) PROVE Item(r).criteria[n].standard \in Standards
    BY DEF StandardsOf
  <1>3. Item(r).criteria[n] \in ToSet(catalogue[r])
    BY <1>1 DEF Elements
  <1>4. PICK m \in 1..Len(catalogue[r]) : Item(r).criteria[n] = catalogue[r][m]
    BY <1>1, <1>3 DEF Elements
  <1> QED
    BY <1>2, <1>4

(* The references cover what the criteria cite, the caller's first.        *)
LEMMA ReferencesTell ==
  ASSUME InputsStand, NEW R \in SUBSET DOMAIN catalogue
  PROVE  LET cites == References({catalogue[r] : r \in R}, selected)
         IN  /\ cites \in Seq(Standards) /\ IsInjective(cites)
             /\ \A r \in R : StandardsOf(Item(r).criteria) \subseteq ToSet(cites)
             /\ selected # "all" => cites[1] = selected
  <1> DEFINE cites == References({catalogue[r] : r \in R}, selected)
  <1>1. \A r \in R : StandardsOf(Item(r).criteria) \subseteq Standards
    BY CitedStandards
  <1>2. CASE selected = "all"
    <2>1. cites = STANDARD_ORDER
      BY <1>2 DEF References
    <2> QED
      BY <1>1, <1>2, <2>1, CriteriaAssumption DEF Standards
  <1>3. CASE selected # "all"
    <2> DEFINE others == Among(STANDARD_ORDER, Standards \ {selected})
               one == <<selected>>
               list == one \o others
               cited == {selected} \cup
                          UNION {StandardsOf(CriteriaForRule(m, selected).criteria) :
                                   m \in {catalogue[r] : r \in R}}
    <2>1. selected \in Standards /\ selected \in Anything
      BY <1>3 DEF InputsStand, Selectable, Anything
    <2>2. cites = Among(list, cited)
      BY <1>3 DEF References
    <2>3. STANDARD_ORDER \in Seq(Anything)
      BY CriteriaAssumption, SeqMonotonic DEF Anything
    <2>4. /\ others \in Seq(Anything) /\ IsInjective(others)
          /\ ToSet(others) = Standards \ {selected}
      <3>1. ToSet(others) = ToSet(STANDARD_ORDER) \cap (Standards \ {selected})
        BY <2>3, AmongTells
      <3> QED
        BY <2>3, <3>1, AmongTells, CriteriaAssumption DEF Standards
    <2> HIDE DEF cites, others
    <2>5. one \in Seq(Anything) /\ Len(one) = 1 /\ one[1] = selected
      BY <2>1
    <2> HIDE DEF one
    <2>6. ToSet(one) = {selected}
      <3>1. 1..1 = {1}
        OBVIOUS
      <3> QED
        BY <2>5, <3>1, ListIsSet DEF Elements
    <2>7. /\ list \in Seq(Anything) /\ Len(list) = 1 + Len(others)
          /\ \A n \in 1..Len(list) : \/ n \in 1..1 /\ list[n] = selected
                                     \/ n - 1 \in 1..Len(others) /\ list[n] = others[n - 1]
          /\ list[1] = selected /\ ToSet(list) = Standards
      <3> HIDE DEF list
      <3>1. /\ list \in Seq(Anything) /\ Len(list) = Len(one) + Len(others)
            /\ \A n \in 1..Len(list) :
                 \/ n \in 1..Len(one) /\ list[n] = one[n]
                 \/ n - Len(one) \in 1..Len(others) /\ list[n] = others[n - Len(one)]
            /\ \A n \in 1..Len(one) : list[n] = one[n]
            /\ ToSet(list) = ToSet(one) \cup ToSet(others)
        <4>1. one \in Seq(Anything) /\ others \in Seq(Anything)
          BY <2>4, <2>5
        <4> QED
          BY <4>1, JoinTells DEF list
      <3>2. 1 \in 1..Len(one) /\ \A n \in 1..Len(one) : n = 1 /\ n \in 1..1
        BY <2>5
      <3>3. \A n \in 1..Len(one) : one[n] = selected
        BY <2>5, <3>2
      <3>4. list[1] = selected
        BY <3>1, <3>2, <3>3
      <3>5. ToSet(list) = Standards
        BY <2>1, <2>4, <2>6, <3>1
      <3> QED
        BY <2>5, <3>1, <3>2, <3>3, <3>4, <3>5
    <2> HIDE DEF list, cited
    <2>8. IsInjective(list)
      <3>1. /\ Len(others) \in Nat /\ Distinct(others)
            /\ \A n \in 1..Len(others) : others[n] # selected
        BY <2>4, ListIsSet DEF Elements
      <3>2. ASSUME NEW m \in 1..Len(list), NEW n \in 1..Len(list), m # n PROVE list[m] # list[n]
        <4>1. CASE m \in 1..1
          BY <2>7, <3>1, <3>2, <4>1
        <4>2. CASE n \in 1..1
          BY <2>7, <3>1, <3>2, <4>2
        <4>3. CASE /\ m - 1 \in 1..Len(others) /\ list[m] = others[m - 1]
                   /\ n - 1 \in 1..Len(others) /\ list[n] = others[n - 1]
          <5>1. m - 1 # n - 1
            BY <3>2, <4>3, <2>7, <3>1
          <5> QED
            BY <3>1, <4>3, <5>1 DEF Distinct
        <4> QED
          BY <2>7, <4>1, <4>2, <4>3
      <3> QED
        BY <2>7, <3>2, ListIsSet DEF Distinct
    <2>9. list # <<>> /\ list[1] \in cited
      <3>1. Len(others) \in Nat
        BY <2>4
      <3> QED
        BY <2>7, <3>1 DEF cited
    <2>10. /\ cites \in Seq(Anything) /\ ToSet(cites) = Standards \cap cited
           /\ IsInjective(cites) /\ Len(cites) > 0 /\ cites[1] = selected
      BY <2>2, <2>7, <2>8, <2>9, AmongTells
    <2>11. cites \in Seq(Standards)
      <3>1. \A n \in 1..Len(cites) : cites[n] \in Standards
        BY <2>10, ListIsSet DEF Elements
      <3> QED
        BY <2>10, <3>1
    <2>12. ASSUME NEW r \in R PROVE StandardsOf(Item(r).criteria) \subseteq ToSet(cites)
      <3>1. StandardsOf(Item(r).criteria) \subseteq cited
        BY ItemTells DEF cited
      <3> QED
        BY <1>1, <2>10, <3>1
    <2> QED
      BY <2>10, <2>11, <2>12 DEF cites
  <1> QED
    BY <1>2, <1>3

-----------------------------------------------------------------------------
(* The invariant.                                                          *)

(* An answer about rules of the catalogue is computed from their mappings. *)
LEMMA AnswerStep ==
  ASSUME IInv, NEW rules \in Seq(DOMAIN catalogue), Answer(rules)
  PROVE  /\ IInv'
         /\ Len(items') = Len(rules) /\ \A n \in 1..Len(rules) : items'[n].rule = rules[n]
  <1>1. /\ items' = [n \in 1..Len(rules) |-> Item(rules[n])]
        /\ references' = References({catalogue[r] : r \in ToSet(rules)}, selected)
        /\ tool' = "none" /\ UNCHANGED <<catalogue, selected, mentioned>>
    BY DEF Answer
  <1>2. InputsStand
    BY DEF IInv
  <1>3. Len(rules) \in Nat /\ \A n \in 1..Len(rules) : rules[n] \in DOMAIN catalogue
    OBVIOUS
  <1>4. Len(items') = Len(rules)
    BY <1>1, <1>3
  <1>5. \A n \in 1..Len(rules) : items'[n] = Item(rules[n]) /\ items'[n].rule = rules[n]
    BY <1>1, <1>2, <1>3, ItemTells
  <1>6. {items'[n].rule : n \in 1..Len(items')} = ToSet(rules)
    BY <1>4, <1>5, ListIsSet DEF Elements
  <1>7. ToSet(rules) \subseteq DOMAIN catalogue
    BY ListIsSet
  <1>8. \A n \in 1..Len(items') : items'[n] = Item(items[n].rule)'
    BY <1>1, <1>4, <1>5 DEF Item
  <1>9. Computed'
    BY <1>1, <1>6, <1>7, <1>8 DEF Computed
  <1>10. InputsStand'
    BY <1>1, <1>2 DEF InputsStand
  <1> QED
    BY <1>4, <1>5, <1>9, <1>10 DEF IInv

(* The rules guidance chooses from, and those it is named.                 *)
LEMMA SelectedTells ==
  ASSUME InputsStand
  PROVE  LET on    == {r \in GuidanceRules : RuleMatchesStandard(catalogue[r], selected)}
             named == on \cap mentioned
         IN  /\ Selected \in Seq(GuidanceRules)
             /\ ToSet(Selected) = (IF named = {} THEN on ELSE named)
  <1> DEFINE on == {r \in GuidanceRules : RuleMatchesStandard(catalogue[r], selected)}
             named == Among(Candidates, mentioned)
  <1>1. GUIDANCE_RULE_IDS \in Seq(Anything) /\ ToSet(GUIDANCE_RULE_IDS) = GuidanceRules
    BY CriteriaAssumption, SeqMonotonic DEF Anything, GuidanceRules
  <1>2. Candidates \in Seq(Anything) /\ ToSet(Candidates) = on
    <2>1. Candidates \in Seq(Anything) /\ ToSet(Candidates) = ToSet(GUIDANCE_RULE_IDS) \cap on
      BY <1>1, AmongTells DEF Candidates
    <2> QED
      BY <1>1, <2>1
  <1>3. named \in Seq(Anything) /\ ToSet(named) = on \cap mentioned
    BY <1>2, AmongTells
  <1>4. named = <<>> <=> on \cap mentioned = {}
    <2> HIDE DEF named
    <2>1. ToSet(named) = {named[n] : n \in 1..Len(named)} /\ Len(named) \in Nat
      BY <1>3, ListIsSet DEF Elements
    <2>2. named = <<>> <=> Len(named) = 0
      BY <1>3, EmptySeq
    <2>3. Len(named) # 0 => 1 \in 1..Len(named)
      BY <2>1
    <2> QED
      BY <1>3, <2>1, <2>2, <2>3
  <1>5. Selected = IF named = <<>> THEN Candidates ELSE named
    BY DEF Selected
  <1> HIDE DEF named
  <1>6. Selected \in Seq(Anything)
        /\ ToSet(Selected) = (IF on \cap mentioned = {} THEN on ELSE on \cap mentioned)
    BY <1>2, <1>3, <1>4, <1>5
  <1>7. Selected \in Seq(GuidanceRules)
    <2>1. \A n \in 1..Len(Selected) : Selected[n] \in GuidanceRules
      BY <1>6, ListIsSet DEF Elements
    <2> QED
      BY <1>6, <2>1
  <1> QED
    BY <1>6, <1>7

LEMMA GuidanceStep ==
  ASSUME IInv, GetSecurityGuidance
  PROVE  LET rules == FirstOf(Selected, MaxItems)
         IN  rules \in Seq(DOMAIN catalogue) /\ Answer(rules)
  <1>1. FirstOf(Selected, MaxItems) \in Seq(GuidanceRules)
    BY SelectedTells, FirstTells, CriteriaAssumption DEF IInv
  <1>2. GuidanceRules \subseteq DOMAIN catalogue
    BY CriteriaAssumption DEF IInv, InputsStand
  <1> QED
    BY <1>1, <1>2, SeqMonotonic DEF GetSecurityGuidance

(* A finite set has an order.                                              *)
LEMMA SetHasOrder ==
  ASSUME NEW S, IsFiniteSet(S)
  PROVE  SetToSeq(S) \in Seq(S)
  <1>1. Cardinality(S) \in Nat
    BY FS_CardinalityType
  <1>2. IsFiniteSet(1..Cardinality(S)) /\ Cardinality(1..Cardinality(S)) = Cardinality(S)
    BY <1>1, FS_Interval
  <1>3. ExistsBijection(1..Cardinality(S), S)
    BY <1>2, FS_SameCardinalityBij
  <1>4. \E f \in [1..Cardinality(S) -> S] : IsInjective(f)
    BY <1>3 DEF ExistsBijection, Bijection, Injection
  <1>5. SetToSeq(S) \in [1..Cardinality(S) -> S]
    BY <1>4 DEF SetToSeq
  <1> QED
    BY <1>1, <1>5

LEMMA FindingsStep ==
  ASSUME IInv, ReportFindings
  PROVE  \E rules \in Seq(DOMAIN catalogue) : Answer(rules)
  <1>1. PICK found \in SUBSET DOMAIN catalogue :
          Answer(SetToSeq({r \in found : RuleMatchesStandard(catalogue[r], selected)}))
    BY DEF ReportFindings
  <1> DEFINE S == {r \in found : RuleMatchesStandard(catalogue[r], selected)}
  <1>2. IsFiniteSet(DOMAIN catalogue)
    BY CriteriaAssumption DEF IInv, InputsStand
  <1>3. S \subseteq DOMAIN catalogue /\ Answer(SetToSeq(S))
    BY <1>1
  <1> HIDE DEF S
  <1>4. IsFiniteSet(S)
    BY <1>2, <1>3, FS_Subset
  <1>5. SetToSeq(S) \in Seq(DOMAIN catalogue)
    BY <1>3, <1>4, SetHasOrder, SeqMonotonic
  <1> QED
    BY <1>3, <1>5

(* IInv holds initially and every step keeps it.                           *)
LEMMA InitHolds == Init => IInv
  BY DEF Init, IInv, InputsStand, Computed

LEMMA NextHolds == IInv /\ [Next]_vars => IInv'
  <1> SUFFICES ASSUME IInv, [Next]_vars PROVE IInv'
    OBVIOUS
  <1>1. CASE GetSecurityGuidance
    BY <1>1, GuidanceStep, AnswerStep
  <1>2. CASE ReportFindings
    BY <1>2, FindingsStep, AnswerStep
  <1>3. CASE UNCHANGED vars
    <2>1. Computed'
      BY <1>3 DEF vars, IInv, Computed, Item
    <2> QED
      BY <1>3, <2>1 DEF vars, IInv, InputsStand
  <1> QED
    BY <1>1, <1>2, <1>3 DEF Next, Answered

THEOREM Inductive == Spec => []IInv
  BY InitHolds, NextHolds, PTL DEF Spec

-----------------------------------------------------------------------------
(* What the invariant means.                                               *)

(* Every variable keeps to the values the code can give it.                *)
THEOREM Typing == Spec => []TypeOK
  <1>1. IInv => TypeOK
    <2> SUFFICES ASSUME IInv PROVE TypeOK
      OBVIOUS
    <2>1. InputsStand /\ GuidanceRules \subseteq DOMAIN catalogue
      BY CriteriaAssumption DEF IInv, InputsStand
    <2>2. CASE tool = "none"
      <3>1. references \in Seq(Standards)
        BY <2>1, <2>2, ReferencesTell DEF IInv, Computed
      <3>2. ASSUME NEW n \in 1..Len(items)
            PROVE  /\ items[n].rule \in DOMAIN catalogue /\ items[n].truncated \in BOOLEAN
                   /\ \A k \in 1..Len(items[n].criteria) :
                        items[n].criteria[k].standard \in Standards /\ items[n].criteria[k].kind \in Kinds
        <4> DEFINE r == items[n].rule
        <4>1. r \in DOMAIN catalogue /\ items[n] = Item(r)
          BY <2>2 DEF IInv, Computed
        <4> HIDE DEF r
        <4>2. /\ Item(r).criteria \in Seq(Anything) /\ Item(r).truncated \in BOOLEAN
              /\ ToSet(Item(r).criteria) \subseteq ToSet(catalogue[r])
          BY <2>1, <4>1, ItemTells
        <4>3. ASSUME NEW k \in 1..Len(Item(r).criteria)
              PROVE  Item(r).criteria[k].standard \in Standards /\ Item(r).criteria[k].kind \in Kinds
          <5>1. Item(r).criteria[k] \in ToSet(catalogue[r])
            BY <4>2, ListIsSet DEF Elements
          <5>2. catalogue[r] \in Seq(Anything) /\ IsMappings(catalogue[r])
            BY <2>1, <4>1, CatalogueTells DEF InputsStand
          <5>3. PICK m \in 1..Len(catalogue[r]) : Item(r).criteria[k] = catalogue[r][m]
            BY <5>1, <5>2, ListIsSet DEF Elements
          <5> QED
            BY <5>2, <5>3 DEF IsMappings
        <4> QED
          BY <4>1, <4>2, <4>3 DEF r
      <3> QED
        BY <2>1, <3>1, <3>2 DEF TypeOK, InputsStand
    <2>3. CASE tool # "none"
      <3>1. items = <<>> /\ references = <<>>
        BY <2>3 DEF IInv, Computed
      <3> QED
        BY <2>1, <3>1 DEF TypeOK, InputsStand
    <2> QED
      BY <2>2, <2>3
  <1> QED
    BY <1>1, Inductive, PTL

(* What _criteria_for_rule attaches is a well made selection of the rule's *)
(* mappings: no room wasted, the caller's standard first, the flag true.   *)
THEOREM CriteriaAreWellSelected == Spec => []CriteriaWellSelected
  <1>1. IInv => CriteriaWellSelected
    <2> SUFFICES ASSUME IInv, NEW n \in 1..Len(items)
                 PROVE  IF selected = "all"
                        THEN items[n].criteria = Mappings(items[n]) /\ ~items[n].truncated
                        ELSE WellSelected(Mappings(items[n]), items[n].criteria, items[n].truncated)
      BY DEF CriteriaWellSelected
    <2>1. tool = "none"
      BY DEF IInv, Computed
    <2>2. InputsStand /\ items[n].rule \in DOMAIN catalogue /\ items[n] = Item(items[n].rule)
      BY <2>1 DEF IInv, Computed
    <2> QED
      BY <2>2, ItemTells DEF Mappings
  <1> QED
    BY <1>1, Inductive, PTL

(* Every standard that a criterion of the answer cites is described, none  *)
(* twice and the caller's first.                                           *)
THEOREM ReferencesCoverCriteria == Spec => []ReferencesCover
  <1>1. IInv => ReferencesCover
    <2> SUFFICES ASSUME IInv, tool = "none"
                 PROVE  /\ UNION {StandardsOf(items[n].criteria) : n \in 1..Len(items)} \subseteq ToSet(references)
                        /\ IsInjective(references)
                        /\ selected # "all" => references[1] = selected
      BY DEF ReferencesCover
    <2> DEFINE rules == {items[n].rule : n \in 1..Len(items)}
    <2>1. /\ InputsStand /\ rules \subseteq DOMAIN catalogue
          /\ \A n \in 1..Len(items) : items[n] = Item(items[n].rule) /\ items[n].rule \in rules
          /\ references = References({catalogue[r] : r \in rules}, selected)
      BY DEF IInv, Computed
    <2> HIDE DEF rules
    <2>2. /\ IsInjective(references) /\ (selected # "all" => references[1] = selected)
          /\ \A r \in rules : StandardsOf(Item(r).criteria) \subseteq ToSet(references)
      BY <2>1, ReferencesTell
    <2>3. \A n \in 1..Len(items) : StandardsOf(items[n].criteria) \subseteq ToSet(references)
      BY <2>1, <2>2
    <2> QED
      BY <2>2, <2>3
  <1> QED
    BY <1>1, Inductive, PTL

(* Guidance is as long as its limit when it leaves out a rule the summary  *)
(* names, and empty only when no rule of the standard can be asked about.  *)
THEOREM GuidanceIsGiven == Spec => GuidanceAnswers
  <1>1. IInv /\ [Next]_vars => [GetSecurityGuidance => GuidanceGiven]_vars
    <2> SUFFICES ASSUME IInv, GetSecurityGuidance PROVE GuidanceGiven
      OBVIOUS
    <2> DEFINE rules == FirstOf(Selected, MaxItems)
               on    == {r \in GuidanceRules : RuleMatchesStandard(catalogue[r], selected)}
               named == on \cap mentioned
               all   == IF named = {} THEN on ELSE named
               given == {items'[n].rule : n \in 1..Len(items')}
    <2>1. /\ rules \in Seq(DOMAIN catalogue)
          /\ Len(items') = Len(rules) /\ \A n \in 1..Len(rules) : items'[n].rule = rules[n]
      BY GuidanceStep, AnswerStep
    <2>2. MaxItems \in Nat \ {0} /\ Selected \in Seq(GuidanceRules) /\ ToSet(Selected) = all
      BY SelectedTells, CriteriaAssumption DEF IInv
    <2>3. /\ Len(rules) = (IF Len(Selected) < MaxItems THEN Len(Selected) ELSE MaxItems)
          /\ ToSet(rules) \subseteq ToSet(Selected) /\ (Len(Selected) <= MaxItems => rules = Selected)
      BY <2>2, FirstTells
    <2> HIDE DEF rules, all
    <2>4. given = ToSet(rules)
      BY <2>1, ListIsSet DEF Elements
    <2>5. given \subseteq all
      BY <2>2, <2>3, <2>4
    <2>6. named \ given # {} => Len(items') = MaxItems
      <3> SUFFICES ASSUME named \ given # {} PROVE Len(items') = MaxItems
        OBVIOUS
      <3>1. all \ given # {}
        BY DEF all
      <3>2. ~ (Len(Selected) <= MaxItems)
        BY <2>2, <2>3, <2>4, <3>1
      <3>3. Len(Selected) \in Nat
        BY <2>2
      <3> QED
        BY <2>1, <2>2, <2>3, <3>2, <3>3
    <2>7. items' = <<>> => on = {}
      <3> SUFFICES ASSUME items' = <<>> PROVE on = {}
        OBVIOUS
      <3>1. Len(items') = 0 /\ Len(Selected) \in Nat
        BY <2>2
      <3>2. Len(Selected) = 0
        BY <2>1, <2>2, <2>3, <3>1
      <3>3. ToSet(Selected) = {}
        <4>1. ToSet(Selected) = Elements(Selected)
          BY <2>2, ListIsSet
        <4>2. 1..0 = {}
          OBVIOUS
        <4> QED
          BY <3>2, <4>1, <4>2 DEF Elements
      <3> QED
        BY <2>2, <3>3 DEF all
    <2> QED
      BY <2>5, <2>6, <2>7 DEF all, GuidanceGiven
  <1> QED
    BY <1>1, Inductive, PTL DEF Spec, GuidanceAnswers
=============================================================================
