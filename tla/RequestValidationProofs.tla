----------------------- MODULE RequestValidationProofs -----------------------
(* Theorems about RequestValidation for requests of any length, paths and  *)
(* contents, and for any limits.                                           *)
EXTENDS RequestValidation, SequenceTheorems, FiniteSetTheorems, TLAPS

Sums == INSTANCE FoldTheorems
  WITH Step <- LAMBDA sum, n : sum + n, Value <- Nat, Entry <- Nat

(* The segments of a path: there is always one, the last still growing.    *)
Splits == INSTANCE FoldTheorems
  WITH Step <- Split, Value <- Seq(Seq(Characters)) \ {<<>>}, Entry <- Characters

Walks == INSTANCE FoldTheorems
  WITH Step <- Walk, Value <- [inside : BOOLEAN, at : Seq(Seq(Characters))], Entry <- Seq(Characters)

-----------------------------------------------------------------------------
(* Sums.                                                                   *)

LEMMA SumType ==
  ASSUME NEW seq \in Seq(Nat)
  PROVE  SumOf(seq) \in Nat
  <1>1. Sums!Closed(0)
    BY DEF Sums!Closed
  <1>2. SumOf(seq) = Sums!FoldOf(0, seq)
    BY DEF SumOf, FoldLeft, MapThenFoldSet, Max, Sums!FoldOf, Sums!Max
  <1> QED
    BY <1>1, <1>2, Sums!FoldAppend

LEMMA SumEmpty == SumOf(<<>>) = 0
  <1>1. Sums!Closed(0)
    BY DEF Sums!Closed
  <1>2. SumOf(<<>>) = Sums!FoldOf(0, <<>>)
    BY DEF SumOf, FoldLeft, MapThenFoldSet, Max, Sums!FoldOf, Sums!Max
  <1> QED
    BY <1>1, <1>2, Sums!FoldEmpty

LEMMA SumAppend ==
  ASSUME NEW seq \in Seq(Nat), NEW x \in Nat
  PROVE  SumOf(Append(seq, x)) = SumOf(seq) + x
  <1>1. Sums!Closed(0)
    BY DEF Sums!Closed
  <1>2. SumOf(seq) = Sums!FoldOf(0, seq) /\ SumOf(Append(seq, x)) = Sums!FoldOf(0, Append(seq, x))
    BY DEF SumOf, FoldLeft, MapThenFoldSet, Max, Sums!FoldOf, Sums!Max
  <1> QED
    BY <1>1, <1>2, Sums!FoldAppend

LEMMA SizeType ==
  ASSUME NEW lines \in Seq(Nat) \ {<<>>}
  PROVE  Size(lines) \in Nat
  <1>1. SumOf(lines) \in Nat
    BY SumType
  <1>2. Len(lines) \in Nat /\ Len(lines) >= 1
    OBVIOUS
  <1> QED
    BY <1>1, <1>2 DEF Size

-----------------------------------------------------------------------------
(* Paths.                                                                  *)

LEMMA SegmentsType ==
  ASSUME NEW path \in Seq(Characters)
  PROVE  Segments(path) \in Seq(Seq(Characters)) \ {<<>>}
  <1> DEFINE Some == Seq(Seq(Characters)) \ {<<>>}
  <1>1. ASSUME NEW segments \in Some, NEW c \in Characters
        PROVE  Split(segments, c) \in Some
    <2>1. <<>> \in Seq(Characters) /\ Len(segments) \in 1..Len(segments)
      OBVIOUS
    <2>2. segments[Len(segments)] \in Seq(Characters)
      BY <2>1, ElementOfSeq
    <2>3. Append(segments, <<>>) \in Some
      <3> DEFINE S == Seq(Characters)
                 more == Append(segments, <<>>)
      <3>1. segments \in Seq(S) /\ <<>> \in S
        BY <2>1
      <3> HIDE DEF S
      <3>2. more \in Seq(S) /\ Len(more) = Len(segments) + 1 /\ Len(segments) \in Nat
        BY <3>1, AppendProperties
      <3> HIDE DEF more
      <3>3. more # <<>>
        BY <3>2
      <3> QED
        BY <3>2, <3>3 DEF S, more
    <2> DEFINE last == Append(segments[Len(segments)], c)
    <2>4. last \in Seq(Characters)
      BY <2>2, AppendProperties
    <2>5. [segments EXCEPT ![Len(segments)] = last] \in Some
      <3> HIDE DEF last
      <3>1. /\ [segments EXCEPT ![Len(segments)] = last] \in Seq(Seq(Characters))
            /\ Len([segments EXCEPT ![Len(segments)] = last]) = Len(segments)
        BY <2>1, <2>4, ExceptSeq
      <3> QED
        BY <2>1, <3>1
    <2> QED
      BY <2>3, <2>5 DEF Split
  <1>2. << <<>> >> \in Some
    OBVIOUS
  <1>3. Splits!Closed(<< <<>> >>)
    BY <1>1, <1>2 DEF Splits!Closed
  <1>4. Segments(path) = Splits!FoldOf(<< <<>> >>, path)
    BY DEF Segments, FoldLeft, MapThenFoldSet, Max, Splits!FoldOf, Splits!Max
  <1> QED
    BY <1>3, <1>4, Splits!FoldSteps

(* Resolving an ordinary path goes down one segment after the other.       *)
LEMMA OrdinaryResolves ==
  ASSUME NEW path, Ordinary(path)
  PROVE  Resolved(path) = [inside |-> TRUE, at |-> path]
  <1> DEFINE Place == [inside : BOOLEAN, at : Seq(Seq(Characters))]
  <1>1. Walks!Closed(Root)
    <2>1. Root \in Place
      BY DEF Root
    <2>2. ASSUME NEW to \in Place, NEW s \in Seq(Characters) PROVE Walk(to, s) \in Place
      <3>1. Append(to.at, s) \in Seq(Seq(Characters))
        BY AppendProperties
      <3>2. to.at # <<>> => Front(to.at) \in Seq(Seq(Characters))
        BY DEF Front
      <3> QED
        BY <3>1, <3>2 DEF Walk
    <2> QED
      BY <2>1, <2>2 DEF Walks!Closed
  <1>2. path \in Seq(Seq(Characters))
    BY DEF Ordinary
  <1>3. PICK F \in [0..Len(path) -> Place] :
          /\ F[0] = Root
          /\ \A n \in 1..Len(path) : F[n] = Walk(F[n - 1], path[n])
          /\ F[Len(path)] = Walks!FoldOf(Root, path)
    BY <1>1, <1>2, Walks!FoldSteps
  <1> DEFINE T == {n \in 0..Len(path) : F[n] = [inside |-> TRUE, at |-> SubSeq(path, 1, n)]}
  <1>4. 0 \in T
    <2>1. SubSeq(path, 1, 0) = <<>>
      BY SubSeqEmpty
    <2>2. 0 \in 0..Len(path)
      BY <1>2
    <2> QED
      BY <1>3, <2>1, <2>2 DEF Root
  <1>5. ASSUME NEW n \in 1..Len(path), n - 1 \in T PROVE n \in T
    <2>1. path[n] \notin {<<>>, <<".">>, <<".", ".">>}
      BY DEF Ordinary
    <2> DEFINE before == [inside |-> TRUE, at |-> SubSeq(path, 1, n - 1)]
               after  == [inside |-> TRUE, at |-> SubSeq(path, 1, n)]
    <2>2. F[n] = Walk(before, path[n])
      BY <1>3, <1>5
    <2>3. Walk(before, path[n]) = [inside |-> before.inside, at |-> Append(before.at, path[n])]
      BY <2>1 DEF Walk
    <2>4. Append(SubSeq(path, 1, n - 1), path[n]) = SubSeq(path, 1, n)
      BY <1>2
    <2>5. F[n] = after
      BY <2>2, <2>3, <2>4
    <2>6. n \in 0..Len(path)
      BY <1>2
    <2> QED
      BY <2>5, <2>6
  <1>6. Len(path) \in T
    <2> HIDE DEF T
    <2>1. Len(path) \in Nat
      BY <1>2
    <2>2. 0..Len(path) \subseteq T
      BY <1>4, <1>5, <2>1, Walks!CountingUp
    <2> QED
      BY <2>1, <2>2
  <1>7. Resolved(path) = Walks!FoldOf(Root, path)
    BY DEF Resolved, FoldLeft, MapThenFoldSet, Max, Walks!FoldOf, Walks!Max
  <1> QED
    BY <1>2, <1>3, <1>6, <1>7, SubSeqFull

(* A directory of an ordinary path is one.                                 *)
LEMMA ParentsOrdinary ==
  ASSUME NEW path, Ordinary(path), NEW p \in Parents(path)
  PROVE  Ordinary(p)
  <1>1. path \in Seq(Seq(Characters))
    BY DEF Ordinary
  <1>2. PICK n \in 1..Len(path) - 1 : p = SubSeq(path, 1, n)
    BY DEF Parents
  <1>3. n \in Nat /\ 1 <= n /\ n <= Len(path) /\ Len(path) \in Nat
    BY <1>1
  <1>4. p \in Seq(Seq(Characters)) /\ Len(p) = n /\ \A i \in 1..n : p[i] = path[i]
    BY <1>1, <1>2, <1>3
  <1>5. p # <<>>
    BY <1>3, <1>4
  <1>6. \A i \in 1..n : i \in 1..Len(path)
    BY <1>3
  <1> QED
    BY <1>4, <1>5, <1>6 DEF Ordinary

LEMMA NormalizedType ==
  ASSUME NEW raw \in Seq(Characters)
  PROVE  Normalized(raw) \in Seq(Characters)
  <1>1. \A n \in 1..Len(raw) : Normalized(raw)[n] \in Characters
    BY DEF Normalized, Characters
  <1>2. Normalized(raw) = [n \in 1..Len(raw) |-> Normalized(raw)[n]]
    BY DEF Normalized
  <1> HIDE DEF Normalized
  <1> QED
    BY <1>1, <1>2

(* What validation lets pass has a place of its own below the root.        *)
LEMMA TakenIsOrdinary ==
  ASSUME NEW file \in File, total \in Nat, Problem(file) = "none"
  PROVE  LET path == Segments(Normalized(file.path))
         IN  /\ Ordinary(path) /\ path \notin seen
             /\ Size(file.lines) <= MAX_FILE_BYTES
             /\ total + Size(file.lines) <= MAX_REQUEST_BYTES
  <1> DEFINE normal == Normalized(file.path)
             path   == Segments(normal)
  <1>1. file.path \in Seq(Characters)
    BY DEF File
  <1>2. path \in Seq(Seq(Characters)) \ {<<>>}
    BY <1>1, NormalizedType, SegmentsType
  <1>3. /\ ~InvalidPath(normal) /\ path \notin seen
        /\ ~(Size(file.lines) > MAX_FILE_BYTES)
        /\ ~(total + Size(file.lines) > MAX_REQUEST_BYTES)
    BY DEF Problem
  <1> HIDE DEF normal
  <1>4. \A s \in ToSet(path) : s \notin {<<>>, <<".">>, <<".", ".">>}
    BY <1>3 DEF InvalidPath
  <1>5. \A n \in 1..Len(path) : path[n] \in ToSet(path)
    BY <1>2 DEF ToSet
  <1>6. Ordinary(path)
    BY <1>2, <1>4, <1>5 DEF Ordinary
  <1>7. Size(file.lines) \in Nat /\ MAX_FILE_BYTES \in Nat /\ MAX_REQUEST_BYTES \in Nat
    BY SizeType, RequestValidationAssumption DEF File
  <1>8. Size(file.lines) <= MAX_FILE_BYTES /\ total + Size(file.lines) <= MAX_REQUEST_BYTES
    BY <1>3, <1>7
  <1> QED
    BY <1>3, <1>6, <1>8 DEF normal

-----------------------------------------------------------------------------
(* Lines.                                                                  *)

(* The scan for newlines reaches every line, the last one included.        *)
LEMMA LongIsAnyLine ==
  ASSUME NEW lines \in Seq(Nat) \ {<<>>}
  PROVE  LongFrom(lines) <=> \E k \in 1..Len(lines) : lines[k] > MAX_ANALYZED_LINE_BYTES
  <1> DEFINE TooLong(k) == lines[k] > MAX_ANALYZED_LINE_BYTES
             Solves(L) == L = [n \in 1..Len(lines) |-> TooLong(n) \/ (n < Len(lines) /\ L[n + 1])]
             Long == CHOOSE L : Solves(L)
             AnyFrom(n) == \E k \in n..Len(lines) : TooLong(k)
             Witness == [n \in 1..Len(lines) |-> AnyFrom(n)]
  <1>1. Len(lines) \in Nat /\ Len(lines) >= 1
    OBVIOUS
  <1> HIDE DEF TooLong
  <1>2. ASSUME NEW n \in 1..Len(lines)
        PROVE  AnyFrom(n) <=> TooLong(n) \/ (n < Len(lines) /\ AnyFrom(n + 1))
    <2>1. n \in n..Len(lines) /\ n + 1..Len(lines) \subseteq n..Len(lines)
          /\ \A k \in n..Len(lines) : k # n => n < Len(lines) /\ k \in n + 1..Len(lines)
      BY <1>1
    <2> QED
      BY <2>1
  <1>3. Solves(Witness)
    <2> HIDE DEF AnyFrom
    <2>1. \A n \in 1..Len(lines) : n < Len(lines) => (Witness[n + 1] <=> AnyFrom(n + 1))
      BY <1>1
    <2>2. \A n \in 1..Len(lines) : AnyFrom(n) <=> TooLong(n) \/ (n < Len(lines) /\ Witness[n + 1])
      BY <1>2, <2>1
    <2>3. \A n \in 1..Len(lines) : AnyFrom(n) = (TooLong(n) \/ (n < Len(lines) /\ Witness[n + 1]))
      BY <2>2, Zenon DEF AnyFrom
    <2> HIDE DEF Witness
    <2> QED
      BY <2>3 DEF Witness
  <1>4. Solves(Long)
    BY <1>3
  <1>5. LongFrom(lines) <=> Long[1]
    BY DEF LongFrom, TooLong
  <1> DEFINE T == {m \in 0..Len(lines) - 1 : Long[Len(lines) - m] <=> AnyFrom(Len(lines) - m)}
  <1> HIDE DEF Long
  <1>6. ASSUME NEW n \in 1..Len(lines)
        PROVE  Long[n] <=> TooLong(n) \/ (n < Len(lines) /\ Long[n + 1])
    BY <1>4
  <1> HIDE DEF AnyFrom, Solves
  <1>7. 0 \in T
    <2>1. Len(lines) \in 1..Len(lines) /\ ~ (Len(lines) < Len(lines)) /\ Len(lines) - 0 = Len(lines)
      BY <1>1
    <2>2. Long[Len(lines)] <=> AnyFrom(Len(lines))
      BY <1>2, <1>6, <2>1
    <2> QED
      BY <1>1, <2>1, <2>2
  <1>8. ASSUME NEW m \in 1..Len(lines) - 1, m - 1 \in T PROVE m \in T
    <2> DEFINE n == Len(lines) - m
    <2>1. n \in 1..Len(lines) /\ n < Len(lines) /\ n + 1 = Len(lines) - (m - 1) /\ m \in 0..Len(lines) - 1
      BY <1>1
    <2>2. Long[n + 1] <=> AnyFrom(n + 1)
      BY <1>8, <2>1
    <2>3. Long[n] <=> AnyFrom(n)
      BY <1>2, <1>6, <2>1, <2>2
    <2> QED
      BY <2>1, <2>3
  <1>9. Len(lines) - 1 \in T
    <2> HIDE DEF T
    <2>1. Len(lines) - 1 \in Nat
      BY <1>1
    <2>2. 0..Len(lines) - 1 \subseteq T
      BY <1>7, <1>8, <2>1, Sums!CountingUp
    <2> QED
      BY <2>1, <2>2
  <1>10. Len(lines) - (Len(lines) - 1) = 1
    BY <1>1
  <1> QED
    BY <1>5, <1>9, <1>10 DEF AnyFrom, TooLong

-----------------------------------------------------------------------------
(* The steps.                                                              *)

LEMMA LimitsType == {MAX_FILES, MAX_FILE_BYTES, MAX_REQUEST_BYTES} \subseteq Nat
  BY RequestValidationAssumption

(* A step that leaves nothing on disk need not ask what was written.       *)
LEMMA NothingOnDisk ==
  ASSUME disk' = <<>>, verdict' # "written", FrontTaken', TakenByVerdict'
  PROVE  FrontWritten'
  <1>1. DOMAIN disk' = {} /\ FilesOnDisk' = {}
    BY DEF FilesOnDisk
  <1>2. IsFiniteSet(FilesOnDisk') /\ Cardinality(FilesOnDisk') = 0
    BY <1>1, FS_EmptySet
  <1>3. validated' \in Seq([path : Seq(Seq(Characters)), lines : Seq(Nat) \ {<<>>}])
    BY DEF FrontTaken
  <1>4. 0 <= Len(validated') /\ (validated' # <<>> => 0 < Len(validated'))
    BY <1>3
  <1> QED
    BY <1>1, <1>2, <1>4 DEF FrontWritten, TakenByVerdict

(* Taking a file keeps what is taken the front of the request.             *)
LEMMA TakeFileKeepsFront ==
  ASSUME IInv, TakeFile
  PROVE  FrontTaken' /\ TakenByVerdict' /\ TypeOK'
  <1> USE DEF IInv
  <1> DEFINE Taken == [path : Seq(Seq(Characters)), lines : Seq(Nat) \ {<<>>}]
  <1>1. PICK n \in 1..Len(request) :
          LET path == Segments(Normalized(request[n].path))
          IN  /\ Checking(n)
              /\ Len(request) <= MAX_FILES
              /\ Problem(request[n]) = "none"
              /\ seen' = seen \cup {path}
              /\ total' = total + Size(request[n].lines)
              /\ validated' = Append(validated, [path |-> path, lines |-> request[n].lines])
              /\ verdict' = IF n = Len(request) THEN "writing" ELSE "checking"
              /\ UNCHANGED <<request, disk>>
    BY DEF TakeFile
  <1> DEFINE path == Segments(Normalized(request[n].path))
             item == [path |-> path, lines |-> request[n].lines]
             size(m) == Size(request[m].lines)
  <1>2. request \in Seq(File) /\ validated \in Seq(Taken) /\ total \in Nat
    BY LimitsType DEF TypeOK, FrontTaken
  <1>3. n = Len(validated) + 1 /\ Len(validated) \in Nat /\ n \in Nat /\ Len(request) \in Nat
    BY <1>1, <1>2 DEF Checking
  <1>4. request[n] \in File
    BY <1>2
  <1>5. /\ Ordinary(path) /\ path \notin seen /\ size(n) <= MAX_FILE_BYTES
        /\ total + size(n) <= MAX_REQUEST_BYTES /\ size(n) \in Nat
    BY <1>1, <1>2, <1>4, TakenIsOrdinary, SizeType DEF File
  <1>6. item \in Taken
    BY <1>4, <1>5 DEF File, Ordinary
  <1>7. validated' = Append(validated, item) /\ request' = request /\ disk' = disk
        /\ seen' = seen \cup {path} /\ total' = total + size(n)
        /\ verdict' = IF n = Len(request) THEN "writing" ELSE "checking"
    BY <1>1
  <1> HIDE DEF path, size, Taken
  <1>8. /\ validated' \in Seq(Taken) /\ Len(validated') = n
        /\ \A m \in 1..Len(validated) : validated'[m] = validated[m]
        /\ validated'[n].path = path /\ validated'[n].lines = request[n].lines
    BY <1>2, <1>3, <1>6, <1>7, AppendProperties
  <1>9. \A m \in 1..n : m = n \/ m \in 1..Len(validated)
    BY <1>3
  <1>10. \A m \in 1..n : /\ validated'[m].lines = request[m].lines
                          /\ Ordinary(validated'[m].path)
                          /\ Size(request[m].lines) <= MAX_FILE_BYTES
    BY <1>5, <1>8, <1>9 DEF FrontTaken, size
  <1>11. \A m \in 1..Len(validated) : validated'[m].path \in seen
    BY <1>8 DEF FrontTaken
  <1>12. \A l, m \in 1..n : l # m => validated'[l].path # validated'[m].path
    <2> SUFFICES ASSUME NEW l \in 1..n, NEW m \in 1..n, l # m
                 PROVE  validated'[l].path # validated'[m].path
      OBVIOUS
    <2>1. CASE l = n \/ m = n
      BY <1>5, <1>8, <1>9, <1>11, <2>1
    <2>2. CASE l # n /\ m # n
      BY <1>8, <1>9, <2>2 DEF FrontTaken
    <2> QED
      BY <2>1, <2>2
  <1>13. seen' = {validated'[m].path : m \in 1..n}
    <2>1. seen = {validated'[m].path : m \in 1..Len(validated)}
      <3>1. \A m \in 1..Len(validated) : validated'[m].path = validated[m].path
        BY <1>8
      <3>2. {validated'[m].path : m \in 1..Len(validated)} = {validated[m].path : m \in 1..Len(validated)}
        BY <3>1
      <3> QED
        BY <3>2 DEF FrontTaken
    <2>2. 1..n = 1..Len(validated) \cup {n}
      BY <1>3
    <2> QED
      BY <1>7, <1>8, <2>1, <2>2
  <1>14. total' = SumOf([m \in 1..n |-> size(m)])
    <2> DEFINE sizes == [m \in 1..Len(validated) |-> size(m)]
    <2>1. \A m \in 1..n : size(m) \in Nat
      <3> SUFFICES ASSUME NEW m \in 1..n PROVE size(m) \in Nat
        OBVIOUS
      <3>1. request[m] \in File
        BY <1>2, <1>3
      <3> QED
        BY <3>1, SizeType DEF File, size
    <2>2. sizes \in Seq(Nat) /\ Len(sizes) = Len(validated)
      BY <1>3, <1>9, <2>1
    <2>3. [m \in 1..n |-> size(m)] = Append(sizes, size(n))
      BY <1>3, <1>9, <2>2
    <2>4. SumOf(Append(sizes, size(n))) = SumOf(sizes) + size(n)
      <3> HIDE DEF sizes
      <3> QED
        BY <1>5, <2>2, SumAppend
    <2>5. total = SumOf(sizes)
      BY DEF FrontTaken, size
    <2> QED
      BY <1>7, <2>3, <2>4, <2>5
  <1>15. FrontTaken'
    BY <1>7, <1>8, <1>10, <1>12, <1>13, <1>14 DEF FrontTaken, Taken, size
  <1>16. TakenByVerdict'
    <2>1. validated' # <<>>
      BY <1>3, <1>8
    <2> QED
      BY <1>1, <1>3, <1>7, <1>8, <2>1 DEF TakenByVerdict
  <1>17. TypeOK'
    <2>1. seen' \subseteq Seq(Seq(Characters))
      BY <1>5, <1>7 DEF TypeOK, Ordinary
    <2>2. total' \in 0..MAX_REQUEST_BYTES
      BY <1>2, <1>5, <1>7, LimitsType
    <2> QED
      BY <1>3, <1>7, <1>8, <2>1, <2>2 DEF TypeOK
  <1> QED
    BY <1>15, <1>16, <1>17

(* Writing a file keeps what is on disk the front of what was taken.       *)
LEMMA WriteFileKeepsFront ==
  ASSUME IInv, WriteFile
  PROVE  IInv'
  <1> USE DEF IInv
  <1>1. PICK n \in 1..Len(validated) :
          LET path == validated[n].path
          IN  /\ Writing(n)
              /\ CanWrite(path)
              /\ disk' = [p \in DOMAIN disk \cup Parents(path) \cup {path} |->
                            IF p \in DOMAIN disk THEN disk[p] ELSE IF p = path THEN "file" ELSE "dir"]
              /\ verdict' = IF n = Len(validated) THEN "written" ELSE "writing"
              /\ UNCHANGED <<request, seen, total, validated>>
    BY DEF WriteFile
  <1> DEFINE path == validated[n].path
             k == Cardinality(FilesOnDisk)
  <1>2. /\ verdict = "writing" /\ n = k + 1 /\ k \in Nat /\ Len(validated) \in Nat
        /\ Ordinary(path)
    BY <1>1, FS_CardinalityType DEF Writing, FrontWritten, FrontTaken
  <1>3. TypeOK' /\ FrontTaken' /\ TakenByVerdict'
    <2>1. DOMAIN disk' \subseteq Seq(Seq(Characters)) /\ \A p \in DOMAIN disk' : disk'[p] \in {"file", "dir"}
      BY <1>1, <1>2, ParentsOrdinary DEF TypeOK, Ordinary
    <2>2. verdict' \in {"writing", "written"} /\ UNCHANGED <<request, seen, total, validated>>
      BY <1>1
    <2>3. TypeOK'
      BY <2>1, <2>2 DEF TypeOK
    <2>4. FrontTaken'
      BY <2>2 DEF FrontTaken
    <2>5. TakenByVerdict'
      BY <1>2, <2>2 DEF TakenByVerdict
    <2> QED
      BY <2>3, <2>4, <2>5
  <1>4. path \notin FilesOnDisk /\ FilesOnDisk' = FilesOnDisk \cup {path}
    BY <1>1 DEF CanWrite, FilesOnDisk
  <1>5. IsFiniteSet(FilesOnDisk') /\ Cardinality(FilesOnDisk') = n
    BY <1>2, <1>4, FS_AddElement DEF FrontWritten
  <1>6. 1..n = 1..k \cup {n}
    BY <1>2
  <1>7. FilesOnDisk' = {validated[m].path : m \in 1..n}
    BY <1>4, <1>6 DEF FrontWritten
  <1>8. ASSUME NEW p \in DOMAIN disk'
        PROVE  \E m \in 1..n : p \in Parents(validated[m].path) \cup {validated[m].path}
    <2>1. p \in DOMAIN disk \/ p \in Parents(path) \cup {path}
      BY <1>1
    <2> QED
      BY <1>2, <1>6, <2>1 DEF FrontWritten
  <1>9. FrontWritten'
    BY <1>1, <1>2, <1>5, <1>7, <1>8 DEF FrontWritten
  <1>10. WriteFailsOnNesting'
    BY <1>1, <1>7 DEF WriteFailsOnNesting
  <1> QED
    BY <1>3, <1>9, <1>10

(* The inductive invariant.  Files are taken and written in the order they *)
(* were sent, each under a name of its own, and counted as they are taken. *)
THEOREM Inductive == Spec => []IInv
  <1>1. Init => IInv
    <2> SUFFICES ASSUME Init PROVE IInv
      OBVIOUS
    <2>1. DOMAIN disk = {} /\ FilesOnDisk = {} /\ Cardinality(FilesOnDisk) = 0 /\ IsFiniteSet(FilesOnDisk)
      BY FS_EmptySet DEF Init, FilesOnDisk
    <2>2. request \in Seq(File) /\ MAX_REQUEST_BYTES \in Nat /\ Len(request) \in Nat
      BY RequestValidationAssumption DEF Init
    <2>3. 1..Len(validated) = {} /\ validated = <<>> /\ Len(validated) = 0
      BY DEF Init
    <2>4. [n \in 1..Len(validated) |-> Size(request[n].lines)] = <<>>
      BY <2>3
    <2>5. TypeOK
      BY <2>1, <2>2, <2>3 DEF Init, TypeOK
    <2>6. FrontTaken
      BY <2>3, <2>4, SumEmpty DEF Init, FrontTaken
    <2>7. TakenByVerdict
      <3>1. request # <<>> => 0 < Len(request)
        BY <2>2
      <3> QED
        BY <2>3, <3>1 DEF Init, TakenByVerdict
    <2>8. FrontWritten
      BY <2>1, <2>3 DEF Init, FrontWritten
    <2> QED
      BY <2>5, <2>6, <2>7, <2>8 DEF Init, IInv, WriteFailsOnNesting
  <1>2. IInv /\ [Next]_vars => IInv'
    <2> SUFFICES ASSUME IInv, [Next]_vars PROVE IInv'
      OBVIOUS
    <2> USE DEF IInv
    <2>1. CASE RejectCount
      <3>1. verdict = "checking" /\ verdict' \in {"empty_files", "too_many_files"}
            /\ UNCHANGED <<request, seen, total, validated, disk>>
        BY <2>1 DEF RejectCount, Checking
      <3>2. TypeOK' /\ FrontTaken' /\ TakenByVerdict'
        BY <3>1 DEF TypeOK, Errors, FrontTaken, TakenByVerdict
      <3>3. disk = <<>>
        BY <3>1 DEF FrontWritten
      <3>4. WriteFailsOnNesting'
        BY <3>1 DEF WriteFailsOnNesting
      <3> QED
        BY <3>1, <3>2, <3>3, <3>4, NothingOnDisk
    <2>2. CASE RejectFile
      <3>1. PICK n \in 1..Len(request) :
              /\ verdict = "checking" /\ Problem(request[n]) # "none"
              /\ verdict' = Problem(request[n])
              /\ UNCHANGED <<request, seen, total, validated, disk>>
        BY <2>2 DEF RejectFile, Checking
      <3>2. verdict' \in Errors \ {"scanner_error"}
        BY <3>1 DEF Problem, Errors
      <3>3. TypeOK' /\ FrontTaken' /\ TakenByVerdict'
        BY <3>1, <3>2 DEF TypeOK, Errors, FrontTaken, TakenByVerdict
      <3>4. disk = <<>>
        BY <3>1 DEF FrontWritten
      <3>5. WriteFailsOnNesting'
        BY <3>1, <3>2 DEF Errors, WriteFailsOnNesting
      <3> QED
        BY <3>1, <3>2, <3>3, <3>4, <3>5, NothingOnDisk DEF Errors
    <2>3. CASE TakeFile
      <3>1. verdict = "checking" /\ verdict' \in {"checking", "writing"} /\ disk' = disk
        BY <2>3 DEF TakeFile, Checking
      <3>2. disk' = <<>>
        BY <3>1 DEF FrontWritten
      <3>3. TypeOK' /\ FrontTaken' /\ TakenByVerdict'
        BY <2>3, TakeFileKeepsFront
      <3>4. WriteFailsOnNesting'
        BY <3>1 DEF WriteFailsOnNesting
      <3> QED
        BY <3>1, <3>2, <3>3, <3>4, NothingOnDisk
    <2>4. CASE WriteFile
      BY <2>4, WriteFileKeepsFront
    <2>5. CASE WriteFails
      <3>1. PICK n \in 1..Len(validated) :
              /\ Writing(n) /\ ~CanWrite(validated[n].path)
              /\ disk' = <<>> /\ verdict' = "scanner_error"
              /\ UNCHANGED <<request, seen, total, validated>>
        BY <2>5 DEF WriteFails
      <3> DEFINE path == validated[n].path
      <3>2. verdict = "writing" /\ n = Cardinality(FilesOnDisk) + 1
            /\ Cardinality(FilesOnDisk) \in Nat /\ Len(validated) \in Nat
        BY <3>1, FS_CardinalityType DEF Writing, FrontWritten, FrontTaken
      <3>3. TypeOK' /\ FrontTaken' /\ TakenByVerdict'
        <4>1. DOMAIN disk' = {}
          BY <3>1
        <4>2. TypeOK'
          BY <3>1, <4>1 DEF TypeOK, Errors
        <4>3. FrontTaken'
          BY <3>1 DEF FrontTaken
        <4>4. TakenByVerdict'
          BY <3>1, <3>2 DEF TakenByVerdict
        <4> QED
          BY <4>2, <4>3, <4>4
      <3>4. \E m \in 1..Len(validated) :
              path \in Parents(validated[m].path) \/ validated[m].path \in Parents(path)
        <4>1. CASE path \in DOMAIN disk
          <5>1. PICK m \in 1..Cardinality(FilesOnDisk) :
                  path \in Parents(validated[m].path) \cup {validated[m].path}
            BY <4>1 DEF FrontWritten
          <5>2. m # n /\ m \in 1..Len(validated)
            BY <3>2
          <5>3. path # validated[m].path
            BY <5>2 DEF FrontTaken
          <5> QED
            BY <5>1, <5>2, <5>3
        <4>2. CASE Parents(path) \cap FilesOnDisk # {}
          <5>1. PICK p \in Parents(path) : p \in FilesOnDisk
            BY <4>2
          <5>2. PICK m \in 1..Cardinality(FilesOnDisk) : p = validated[m].path
            BY <5>1 DEF FrontWritten
          <5>3. m \in 1..Len(validated)
            BY <3>2
          <5> QED
            BY <5>1, <5>2, <5>3
        <4> QED
          BY <3>1, <4>1, <4>2 DEF CanWrite
      <3>5. WriteFailsOnNesting'
        BY <3>1, <3>4 DEF WriteFailsOnNesting
      <3> QED
        BY <3>1, <3>3, <3>5, NothingOnDisk
    <2>6. CASE UNCHANGED vars
      <3> USE <2>6 DEF vars
      <3>1. TypeOK' /\ FrontTaken' /\ TakenByVerdict'
        BY DEF TypeOK, FrontTaken, TakenByVerdict
      <3>2. FilesOnDisk' = FilesOnDisk
        BY DEF FilesOnDisk
      <3>3. FrontWritten' /\ WriteFailsOnNesting'
        BY <3>2 DEF FrontWritten, WriteFailsOnNesting
      <3> QED
        BY <3>1, <3>3
    <2> QED
      BY <2>1, <2>2, <2>3, <2>4, <2>5, <2>6 DEF Next, Settled
  <1> QED
    BY <1>1, <1>2, PTL DEF Spec

-----------------------------------------------------------------------------

(* Typing.  Totals stay within the limit of a request, and names are       *)
(* sequences of segments.                                                  *)
THEOREM Typing == Spec => []TypeOK
  <1>1. IInv => TypeOK
    BY DEF IInv
  <1> QED
    BY <1>1, Inductive, PTL

(* Whatever the names in a request, every file and directory made for it   *)
(* resolves to a place of its own below the request's root.                *)
THEOREM WritesAreConfined == Spec => []Confined
  <1>1. IInv => Confined
    <2> SUFFICES ASSUME IInv, NEW p \in DOMAIN disk, NEW q \in DOMAIN disk
                 PROVE  /\ Resolved(p).inside /\ Resolved(p).at # <<>>
                        /\ Resolved(p) = Resolved(q) => p = q
      BY DEF Confined
    <2>1. ASSUME NEW r \in DOMAIN disk PROVE Ordinary(r)
      <3>1. Cardinality(FilesOnDisk) \in Nat /\ Len(validated) \in Nat
        BY FS_CardinalityType DEF IInv, FrontWritten, FrontTaken
      <3>2. PICK n \in 1..Cardinality(FilesOnDisk) :
              r \in Parents(validated[n].path) \cup {validated[n].path}
        BY DEF IInv, FrontWritten
      <3>3. n \in 1..Len(validated)
        BY <3>1 DEF IInv, FrontWritten
      <3>4. Ordinary(validated[n].path)
        BY <3>3 DEF IInv, FrontTaken
      <3> QED
        BY <3>2, <3>4, ParentsOrdinary
    <2>2. Resolved(p) = [inside |-> TRUE, at |-> p] /\ Resolved(q) = [inside |-> TRUE, at |-> q]
      BY <2>1, OrdinaryResolves
    <2>3. p # <<>>
      BY <2>1 DEF Ordinary
    <2> QED
      BY <2>2, <2>3
  <1> QED
    BY <1>1, Inductive, PTL

(* An accepted request is within the limits on its number of files, on the *)
(* bytes of each and on the bytes of all of them together.                 *)
THEOREM LimitsHold == Spec => []AcceptedWithinLimits
  <1>1. IInv => AcceptedWithinLimits
    <2> SUFFICES ASSUME IInv, verdict \in {"writing", "written", "scanner_error"}
                 PROVE  LET sizes == [n \in 1..Len(request) |-> Size(request[n].lines)]
                        IN  /\ Len(request) \in 1..MAX_FILES
                            /\ \A n \in DOMAIN sizes : sizes[n] <= MAX_FILE_BYTES
                            /\ SumOf(sizes) <= MAX_REQUEST_BYTES
      BY DEF AcceptedWithinLimits
    <2> DEFINE sizes == [n \in 1..Len(request) |-> Size(request[n].lines)]
    <2>1. validated # <<>> /\ Len(validated) = Len(request) /\ Len(request) <= MAX_FILES
      BY DEF IInv, TakenByVerdict
    <2>2. Len(validated) \in Nat \ {0}
      BY <2>1 DEF IInv, FrontTaken
    <2>3. \A n \in DOMAIN sizes : sizes[n] <= MAX_FILE_BYTES
      BY <2>1 DEF IInv, FrontTaken
    <2>4. total = SumOf(sizes)
      BY <2>1 DEF IInv, FrontTaken
    <2>5. total <= MAX_REQUEST_BYTES
      BY LimitsType DEF IInv, TypeOK
    <2> QED
      BY <2>1, <2>2, <2>3, <2>4, <2>5, LimitsType
  <1> QED
    BY <1>1, Inductive, PTL

(* A tree that validation let through fails to be written only when a file *)
(* of it is also a directory, and is written whole otherwise.              *)
THEOREM NestingIsTheOnlyFailure == Spec => []WriteFailsOnNesting
  <1>1. IInv => WriteFailsOnNesting
    BY DEF IInv
  <1> QED
    BY <1>1, Inductive, PTL

(* The files kept from the line rules are exactly those with a line over   *)
(* the limit, wherever in the file it is.                                  *)
THEOREM LongLinesKept == Spec => []LongLinesMarked
  <1>1. IInv => LongLinesMarked
    <2> SUFFICES ASSUME IInv, NEW n \in 1..Len(validated)
                 PROVE  validated[n].path \in Unanalyzed <=>
                          \E k \in 1..Len(validated[n].lines) :
                            validated[n].lines[k] > MAX_ANALYZED_LINE_BYTES
      BY DEF LongLinesMarked
    <2>1. validated[n].lines \in Seq(Nat) \ {<<>>}
      <3> DEFINE Taken == [path : Seq(Seq(Characters)), lines : Seq(Nat) \ {<<>>}]
      <3>1. validated \in Seq(Taken)
        BY DEF IInv, FrontTaken
      <3>2. validated[n] \in Taken
        <4> HIDE DEF Taken
        <4> QED
          BY <3>1, ElementOfSeq
      <3> QED
        BY <3>2
    <2>2. validated[n].path \in Unanalyzed <=> LongFrom(validated[n].lines)
      <3>1. \A m \in 1..Len(validated) : validated[m].path = validated[n].path => m = n
        BY DEF IInv, FrontTaken
      <3> QED
        BY <3>1 DEF Unanalyzed
    <2> QED
      BY <2>1, <2>2, LongIsAnyLine
  <1> QED
    BY <1>1, Inductive, PTL
=============================================================================
